---------------------------- MODULE ExecutorProofs ----------------------------
(* Proofs about Executor for every set of tasks and workers and every pool *)
(* that PoolConfiguration admits.                                          *)
EXTENDS Executor, FiniteSetTheorems, WellFoundedInduction, TLAPS

-----------------------------------------------------------------------------
(* The weighted schedule *)

LEMMA Remainder ==
  ASSUME NEW a \in Nat, NEW n \in Nat \ {0}
  PROVE  a % n \in 0..n-1
  OBVIOUS

LEMMA RemainderSmall ==
  ASSUME NEW a \in Nat, NEW n \in Nat \ {0}, a < n
  PROVE  a % n = a /\ (a + n) % n = a
  <1>1. a % n = a
    OBVIOUS
  <1>2. (a + n) % n = a
    OBVIOUS
  <1> QED BY <1>1, <1>2

LEMMA LeastOne ==
  ASSUME NEW S \in SUBSET Nat, S # {}
  PROVE  \E i \in S : \A j \in S : i <= j
  <1> DEFINE R == OpToRel(<, Nat)
  <1>1. PICK i \in S : \A j \in S : ~(<<j, i>> \in R)
    <2>1. IsWellFoundedOn(R, Nat)
      BY NatLessThanWellFounded
    <2> HIDE DEF R
    <2> QED BY <2>1, WFMin
  <1>2. \A j \in S : ~(j < i)
    BY <1>1 DEF OpToRel
  <1> QED BY <1>2

LEMMA PoolType ==
  ASSUME TypeOK
  PROVE  /\ pool \in Pools /\ PoolConfiguration(pool)
         /\ IsFiniteSet(pool.lanes) /\ pool.lanes # {}
         /\ pool.schedule \in Seq(pool.lanes)
         /\ Len(pool.schedule) \in Nat \ {0}
  <1>1. pool \in Pools /\ PoolConfiguration(pool)
    BY ExecutorAssumption DEF TypeOK
  <1>2. /\ IsFiniteSet(pool.lanes) /\ pool.lanes # {}
        /\ pool.schedule \in Seq(pool.lanes) /\ pool.lanes \subseteq Range(pool.schedule)
    BY <1>1 DEF PoolConfiguration
  <1>3. \E i \in DOMAIN pool.schedule : TRUE
    BY <1>2 DEF Range
  <1>4. Len(pool.schedule) \in Nat \ {0}
    BY <1>2, <1>3
  <1> QED BY <1>1, <1>2, <1>4

LEMMA SlotType ==
  ASSUME TypeOK, NEW i \in Nat \ {0}
  PROVE  /\ Slot(i) \in 1..Len(pool.schedule)
         /\ NextSlot(i) \in 1..Len(pool.schedule)
  <1> DEFINE n == Len(pool.schedule)
  <1>1. n \in Nat \ {0}
    BY PoolType
  <1> HIDE DEF n
  <1>2. (i - 1) % n \in 0..n-1 /\ i % n \in 0..n-1
    BY <1>1, Remainder
  <1>3. Slot(i) = ((i - 1) % n) + 1 /\ Slot(i + 1) = (i % n) + 1
    BY DEF Slot, n
  <1>4. \A x \in 0..n - 1 : x + 1 \in 1..n
    BY <1>1
  <1>5. ((i - 1) % n) + 1 \in 1..n /\ (i % n) + 1 \in 1..n
    BY <1>2, <1>4
  <1>6. Slot(i) \in 1..n /\ NextSlot(i) \in 1..n
    BY <1>3, <1>5 DEF NextSlot
  <1> QED BY <1>6 DEF n

(* From any place of the schedule every lane comes up within one round.    *)
LEMMA ReachesSlot ==
  ASSUME TypeOK, NEW s \in 1..Len(pool.schedule)
  PROVE  \E i \in 0..Len(pool.schedule) - 1 : Slot(turn + i) = s
  <1> DEFINE n == Len(pool.schedule)
  <1>1. n \in Nat \ {0} /\ turn \in 1..n /\ s \in 1..n
    BY PoolType DEF TypeOK
  <1>2. \A i \in 0..n - 1 : Slot(turn + i) = ((turn + i - 1) % n) + 1
    BY <1>1 DEF Slot
  <1> SUFFICES \E i \in 0..n - 1 : ((turn + i - 1) % n) + 1 = s
    BY <1>2
  <1> HIDE DEF n
  <1>3. (s - 1) % n = s - 1 /\ ((s - 1) + n) % n = s - 1
    <2>1. s - 1 \in Nat /\ s - 1 < n
      BY <1>1
    <2> QED BY <1>1, <2>1, RemainderSmall
  <1>4. CASE s >= turn
    <2>1. turn + (s - turn) - 1 = s - 1 /\ s - turn \in 0..n-1
      BY <1>1, <1>4
    <2>2. ((turn + (s - turn) - 1) % n) + 1 = s
      BY <1>1, <1>3, <2>1
    <2> QED BY <2>1, <2>2
  <1>5. CASE s < turn
    <2>1. turn + (s - turn + n) - 1 = (s - 1) + n /\ s - turn + n \in 0..n-1
      BY <1>1, <1>5
    <2>2. ((turn + (s - turn + n) - 1) % n) + 1 = s
      BY <1>1, <1>3, <2>1
    <2> QED BY <2>1, <2>2
  <1> QED BY <1>1, <1>4, <1>5

(* next_lane finds a lane that holds work when there is one.               *)
LEMMA ChosenHasWork ==
  ASSUME TypeOK, NEW l \in pool.lanes, queue[l] # <<>>
  PROVE  /\ Chosen \in 1..Len(pool.schedule)
         /\ pool.schedule[Chosen] \in pool.lanes
         /\ queue[pool.schedule[Chosen]] # <<>>
  <1> DEFINE n == Len(pool.schedule)
             Work(i) == queue[pool.schedule[Slot(turn + i)]] # <<>>
             S == {i \in 0..n - 1 : Work(i)}
             P(i) == Work(i) /\ \A j \in 0..i - 1 : ~Work(j)
  <1>1. n \in Nat \ {0} /\ turn \in 1..n
    BY PoolType DEF TypeOK
  <1>2. PICK s \in 1..n : pool.schedule[s] = l
    BY PoolType DEF PoolConfiguration, Range
  <1>3. S # {}
    BY <1>2, ReachesSlot
  <1>4. S \in SUBSET Nat
    BY <1>1
  <1>5. PICK i \in S : \A j \in S : i <= j
    <2> HIDE DEF S
    <2> QED BY <1>3, <1>4, LeastOne
  <1>6. i \in 0..n - 1 /\ P(i)
    <2>1. i \in 0..n - 1 /\ Work(i)
      BY <1>5
    <2>2. ASSUME NEW j \in 0..i - 1 PROVE ~Work(j)
      <3>1. j \in 0..n - 1 /\ j < i
        BY <1>1, <2>1
      <3> HIDE DEF Work
      <3> QED BY <1>1, <1>5, <2>1, <3>1
    <2> QED BY <2>1, <2>2
  <1> DEFINE c == CHOOSE k \in 0..n - 1 : P(k)
  <1>7. c \in 0..n - 1 /\ P(c)
    <2> HIDE DEF P
    <2> QED BY <1>6
  <1>8. Chosen = Slot(turn + c)
    BY DEF Chosen
  <1>9. queue[pool.schedule[Slot(turn + c)]] # <<>>
    BY <1>7
  <1> HIDE DEF c, P
  <1>10. turn + c \in Nat \ {0}
    BY <1>1, <1>7
  <1>11. Chosen \in 1..n /\ pool.schedule \in [1..n -> pool.lanes]
    <2>1. Chosen \in 1..n
      BY <1>8, <1>10, SlotType
    <2>2. pool.schedule \in [1..n -> pool.lanes]
      BY PoolType
    <2> QED BY <2>1, <2>2
  <1>12. pool.schedule[Chosen] \in pool.lanes
    BY <1>11
  <1> QED BY <1>8, <1>9, <1>11, <1>12 DEF n

-----------------------------------------------------------------------------
(* Lines of entries: the queues and what stop has taken out of them        *)

(* Nobody has run or told the task of an entry that waits.                 *)
Untouched(q) ==
  \A l \in pool.lanes : \A i \in DOMAIN q[l] : mark[q[l][i].task] = Fresh(q[l][i])

(* A task waits in one place.                                              *)
Apart(q) ==
  \A l, m \in pool.lanes : \A i \in DOMAIN q[l], j \in DOMAIN q[m] :
    q[l][i].task = q[m][j].task => l = m /\ i = j

InLine(q, t) == \E l \in pool.lanes : \E i \in DOMAIN q[l] : q[l][i].task = t

Lines == [pool.lanes -> Seq(Entry)]

LEMMA EntryType ==
  ASSUME NEW q \in Lines, NEW l \in pool.lanes, NEW i \in DOMAIN q[l]
  PROVE  q[l][i] \in Entry /\ q[l][i].task \in Tasks /\ q[l][i].tells \in BOOLEAN
  <1>1. q[l] \in Seq(Entry)
    BY DEF Lines
  <1>2. q[l][i] \in Entry
    BY <1>1
  <1> QED BY <1>2 DEF Entry

LEMMA InPoolIs ==
  ASSUME TypeOK, NEW t \in Tasks
  PROVE  t \in InPool <=> \/ \E k \in Workers : running[k] = t
                          \/ InLine(queue, t) \/ InLine(pending, t)
  BY DEF InPool, Held, Listed, InLine

(* An entry is put in a place of a sequence, or in none, and the others    *)
(* move along, all of them or all but one that is gone.                    *)
Shifted(s, t, e, place, shift, gone) ==
  /\ \A i \in DOMAIN t :
       \/ i = place /\ t[i] = e
       \/ i + shift \in DOMAIN s /\ i + shift # gone /\ t[i] = s[i + shift]
  /\ \A j \in DOMAIN s : j # gone => j - shift \in DOMAIN t /\ t[j - shift] = s[j]

(* One line is so changed.                                                 *)
Rearranged(q, z, lane, e, place, shift, gone) ==
  /\ z \in Lines /\ e \in Entry /\ shift \in Int
  /\ \A l \in pool.lanes \ {lane} : z[l] = q[l]
  /\ Shifted(q[lane], z[lane], e, place, shift, gone)

(* The new sequence of a submission, which has a place for its entry.      *)
Puts(s, t, e, place, shift, gone) ==
  /\ t \in Seq(Entry) /\ shift \in Int
  /\ place \in DOMAIN t /\ t[place] = e
  /\ Shifted(s, t, e, place, shift, gone)

LEMMA RearrangedApart ==
  ASSUME NEW q \in Lines, NEW z, NEW lane \in pool.lanes, NEW e, NEW place,
         NEW shift, NEW gone,
         Rearranged(q, z, lane, e, place, shift, gone),
         Apart(q), place \in DOMAIN z[lane] => ~InLine(q, e.task)
  PROVE  Apart(z)
  <1> DEFINE s == z[lane]
  <1>1. z[lane] = s /\ \A l \in pool.lanes \ {lane} : z[l] = q[l]
    BY DEF Rearranged
  <1>2. s \in Seq(Entry) /\ q[lane] \in Seq(Entry) /\ shift \in Int
    BY DEF Lines, Rearranged
  <1>3. DOMAIN s \subseteq Int
    BY <1>2
  <1>4. ASSUME NEW i \in DOMAIN s, NEW j \in DOMAIN s, s[i].task = s[j].task
        PROVE  i = j
    <2>1. CASE i = place /\ s[i] = e /\ j # place
      <3>1. j + shift \in DOMAIN q[lane] /\ s[j] = q[lane][j + shift]
        BY <2>1 DEF Rearranged, Shifted
      <3>2. InLine(q, e.task)
        BY <1>4, <2>1, <3>1 DEF InLine
      <3> QED BY <2>1, <3>2
    <2>2. CASE j = place /\ s[j] = e /\ i # place
      <3>1. i + shift \in DOMAIN q[lane] /\ s[i] = q[lane][i + shift]
        BY <2>2 DEF Rearranged, Shifted
      <3>2. InLine(q, e.task)
        BY <1>4, <2>2, <3>1 DEF InLine
      <3> QED BY <2>2, <3>2
    <2>3. CASE /\ i + shift \in DOMAIN q[lane] /\ s[i] = q[lane][i + shift]
               /\ j + shift \in DOMAIN q[lane] /\ s[j] = q[lane][j + shift]
      <3>1. i + shift = j + shift
        BY <1>4, <2>3 DEF Apart
      <3> QED BY <1>2, <1>3, <3>1
    <2>4. CASE i = place /\ j = place
      BY <2>4
    <2> QED BY <2>1, <2>2, <2>3, <2>4 DEF Rearranged, Shifted
  <1>5. ASSUME NEW i \in DOMAIN s, NEW m \in pool.lanes \ {lane}, NEW j \in DOMAIN q[m],
               s[i].task = q[m][j].task
        PROVE  FALSE
    <2>1. CASE i = place /\ s[i] = e
      BY <1>5, <2>1 DEF InLine
    <2>2. CASE i + shift \in DOMAIN q[lane] /\ s[i] = q[lane][i + shift]
      BY <1>5, <2>2 DEF Apart
    <2> QED BY <2>1, <2>2 DEF Rearranged, Shifted
  <1>6. \A l, m \in pool.lanes : \A i \in DOMAIN z[l], j \in DOMAIN z[m] :
          z[l][i].task = z[m][j].task => l = m /\ i = j
    <2> SUFFICES ASSUME NEW l \in pool.lanes, NEW m \in pool.lanes,
                        NEW i \in DOMAIN z[l], NEW j \in DOMAIN z[m],
                        z[l][i].task = z[m][j].task
                 PROVE  l = m /\ i = j
      OBVIOUS
    <2>1. CASE l = lane /\ m = lane
      BY <1>1, <1>4, <2>1
    <2>2. CASE l = lane /\ m # lane
      BY <1>1, <1>5, <2>2
    <2>3. CASE l # lane /\ m = lane
      BY <1>1, <1>5, <2>3
    <2>4. CASE l # lane /\ m # lane
      BY <1>1, <2>4 DEF Apart
    <2> QED BY <2>1, <2>2, <2>3, <2>4
  <1> QED BY <1>6 DEF Apart

LEMMA RearrangedLine ==
  ASSUME NEW q \in Lines, NEW z, NEW lane \in pool.lanes, NEW e, NEW place,
         NEW shift, NEW gone,
         Rearranged(q, z, lane, e, place, shift, gone),
         NEW t, InLine(q, t)
  PROVE  \/ InLine(z, t)
         \/ gone \in DOMAIN q[lane] /\ q[lane][gone].task = t
  <1>1. PICK l \in pool.lanes : \E j \in DOMAIN q[l] : q[l][j].task = t
    BY DEF InLine
  <1>2. PICK j \in DOMAIN q[l] : q[l][j].task = t
    BY <1>1
  <1>3. CASE l = lane /\ j # gone
    <2>1. j - shift \in DOMAIN z[lane] /\ z[lane][j - shift] = q[lane][j]
      BY <1>3 DEF Rearranged, Shifted
    <2> QED BY <1>2, <1>3, <2>1 DEF InLine
  <1>4. CASE l = lane /\ j = gone
    BY <1>2, <1>4
  <1>5. CASE l # lane
    BY <1>2, <1>5 DEF InLine, Rearranged
  <1> QED BY <1>3, <1>4, <1>5

LEMMA Replaced ==
  ASSUME NEW q \in Lines, NEW lane \in pool.lanes, NEW e \in Entry,
         NEW t \in Seq(Entry), NEW place, NEW shift \in Int, NEW gone,
         Shifted(q[lane], t, e, place, shift, gone)
  PROVE  Rearranged(q, [q EXCEPT ![lane] = t], lane, e, place, shift, gone)
  <1> DEFINE z == [q EXCEPT ![lane] = t]
  <1>1. z \in Lines
    BY DEF Lines
  <1>2. z[lane] = t /\ \A l \in pool.lanes \ {lane} : z[l] = q[l]
    BY DEF Lines
  <1> HIDE DEF z
  <1>3. Rearranged(q, z, lane, e, place, shift, gone)
    BY <1>1, <1>2 DEF Rearranged
  <1> QED BY <1>3 DEF z

LEMMA Appended ==
  ASSUME NEW s \in Seq(Entry), NEW e \in Entry
  PROVE  Puts(s, Append(s, e), e, Len(s) + 1, 0, 0)
  BY DEF Puts, Shifted

LEMMA Prepended ==
  ASSUME NEW s \in Seq(Entry), NEW e \in Entry
  PROVE  Puts(s, <<e>> \o s, e, 1, -1, 0)
  <1> DEFINE t == <<e>> \o s
  <1>1. /\ t \in Seq(Entry) /\ Len(t) = Len(s) + 1 /\ t[1] = e
        /\ \A i \in 1..Len(s) : t[i + 1] = s[i]
    OBVIOUS
  <1> HIDE DEF t
  <1>2. \A i \in DOMAIN t : i = 1 \/ (i - 1 \in DOMAIN s /\ t[i] = s[i - 1])
    BY <1>1
  <1>3. Shifted(s, t, e, 1, -1, 0)
    BY <1>1, <1>2 DEF Shifted
  <1>4. Puts(s, t, e, 1, -1, 0)
    BY <1>1, <1>3 DEF Puts
  <1> QED BY <1>4 DEF t

LEMMA FrontIs ==
  ASSUME NEW s \in Seq(Entry), s # <<>>
  PROVE  /\ Len(s) \in Nat \ {0} /\ Last(s) = s[Len(s)]
         /\ Front(s) \in Seq(Entry) /\ Len(Front(s)) = Len(s) - 1
         /\ \A i \in 1..Len(s) - 1 : Front(s)[i] = s[i]
  <1>1. Len(s) \in Nat \ {0} /\ Last(s) = s[Len(s)]
    BY DEF Last
  <1>2. \A i \in 1..Len(s) - 1 : s[i] \in Entry
    BY <1>1
  <1>3. SubSeq(s, 1, Len(s) - 1) = [i \in 1..Len(s) - 1 |-> s[i]]
    BY <1>1
  <1> DEFINE f == [i \in 1..Len(s) - 1 |-> s[i]]
  <1>4. /\ f \in Seq(Entry) /\ Len(f) = Len(s) - 1
        /\ \A i \in 1..Len(s) - 1 : f[i] = s[i]
    BY <1>1, <1>2
  <1> QED BY <1>1, <1>3, <1>4 DEF Front

LEMMA Superseded ==
  ASSUME NEW s \in Seq(Entry), NEW e \in Entry, s # <<>>
  PROVE  Puts(s, <<e>> \o Front(s), e, 1, -1, Len(s))
  <1> DEFINE f == Front(s)
             t == <<e>> \o f
  <1>1. /\ Len(s) \in Nat \ {0} /\ f \in Seq(Entry) /\ Len(f) = Len(s) - 1
        /\ \A i \in 1..Len(s) - 1 : f[i] = s[i]
    BY FrontIs
  <1> HIDE DEF f
  <1>2. /\ t \in Seq(Entry) /\ Len(t) = Len(f) + 1 /\ t[1] = e
        /\ \A i \in 1..Len(f) : t[i + 1] = f[i]
    BY <1>1
  <1> HIDE DEF t
  <1>3. \A i \in DOMAIN t : i = 1 \/ (i - 1 \in 1..Len(s) - 1 /\ t[i] = s[i - 1])
    BY <1>1, <1>2
  <1>4. Shifted(s, t, e, 1, -1, Len(s))
    BY <1>1, <1>2, <1>3 DEF Shifted
  <1>5. Puts(s, t, e, 1, -1, Len(s))
    BY <1>1, <1>2, <1>4 DEF Puts
  <1> QED BY <1>5 DEF t, f

LEMMA HeadTaken ==
  ASSUME NEW s \in Seq(Entry), NEW e, s # <<>>
  PROVE  /\ Tail(s) \in Seq(Entry) /\ Head(s) = s[1] /\ 1 \in DOMAIN s
         /\ Shifted(s, Tail(s), e, 0, 1, 1)
  <1> DEFINE t == Tail(s)
  <1>1. /\ Len(s) \in Nat \ {0} /\ t \in Seq(Entry) /\ Len(t) = Len(s) - 1
        /\ \A i \in 1..Len(s) - 1 : t[i] = s[i + 1]
    OBVIOUS
  <1> HIDE DEF t
  <1>2. Shifted(s, t, e, 0, 1, 1)
    BY <1>1 DEF Shifted
  <1> QED BY <1>1, <1>2 DEF t

-----------------------------------------------------------------------------
(* The inductive invariant *)

Marks == [Tasks -> SUBSET {"owed", "ran", "told"}]

(* What runs has run and was not cancelled.                                *)
Owned ==
  \A k \in Workers : running[k] \in Tasks =>
    "ran" \in mark[running[k]] /\ "told" \notin mark[running[k]]

(* Entries are in the queues until a stop takes them out, all at once; the *)
(* workers have been started by then.                                      *)
Phased ==
  /\ stopping = "no" => \A l \in pool.lanes : pending[l] = <<>>
  /\ stopping # "no" => /\ ~accepting
                        /\ \A l \in pool.lanes : queue[l] = <<>>
                        /\ \A k \in Workers : at[k] # "unborn"

Kept ==
  /\ TypeOK
  /\ Untouched(queue) /\ Apart(queue)
  /\ Untouched(pending) /\ Apart(pending)
  /\ Phased
  /\ Owned
  /\ SettledOnce

LEMMA LinesType ==
  ASSUME TypeOK
  PROVE  queue \in Lines /\ pending \in Lines /\ mark \in Marks
  BY DEF TypeOK, Lines, Marks

LEMMA FreshIs ==
  ASSUME NEW e \in Entry
  PROVE  /\ Fresh(e) \subseteq {"owed"}
         /\ "owed" \in Fresh(e) => e.tells
         /\ "ran" \notin Fresh(e) /\ "told" \notin Fresh(e)
  BY DEF Fresh

LEMMA ToldIs ==
  ASSUME NEW m \in Marks, NEW e \in Entry
  PROVE  /\ Told(m, e) \in Marks
         /\ \A t \in Tasks : Told(m, e)[t] =
              IF t = e.task /\ e.tells THEN m[t] \cup {"told"} ELSE m[t]
  <1>1. e.task \in Tasks /\ e.tells \in BOOLEAN
    BY DEF Entry
  <1>2. m[e.task] \cup {"told"} \in SUBSET {"owed", "ran", "told"}
    BY <1>1 DEF Marks
  <1>3. CASE e.tells
    <2>1. Told(m, e) = [m EXCEPT ![e.task] = m[e.task] \cup {"told"}]
      BY <1>3 DEF Told
    <2>2. Told(m, e) \in Marks
      BY <1>1, <1>2, <2>1 DEF Marks
    <2>3. \A t \in Tasks : Told(m, e)[t] =
            IF t = e.task THEN m[t] \cup {"told"} ELSE m[t]
      BY <1>1, <2>1 DEF Marks
    <2> QED BY <1>3, <2>2, <2>3
  <1>4. CASE ~e.tells
    BY <1>4 DEF Told
  <1> QED BY <1>3, <1>4

LEMMA EmptyLines ==
  ASSUME NEW q, \A l \in pool.lanes : q[l] = <<>>
  PROVE  Untouched(q) /\ Apart(q) /\ \A t : ~InLine(q, t)
  <1>1. \A l \in pool.lanes : DOMAIN q[l] = {}
    OBVIOUS
  <1> QED BY <1>1 DEF Untouched, Apart, InLine

(* notify_one wakes a sleeper or nobody.                                   *)
LEMMA Notified ==
  ASSUME TypeOK, NotifyOne
  PROVE  /\ at' \in [Workers -> {"unborn", "idle", "busy", "drowsy", "asleep", "exited"}]
         /\ \A k \in Workers : at'[k] = "busy" <=> at[k] = "busy"
         /\ \A k \in Workers : at'[k] = "unborn" <=> at[k] = "unborn"
  BY DEF TypeOK, NotifyOne

LEMMA SettledIs ==
  ASSUME TypeOK, SettledOnce, NEW t \in Tasks
  PROVE  /\ ~("ran" \in mark[t] /\ "told" \in mark[t])
         /\ "owed" \in mark[t] =>
              t \in InPool \/ "ran" \in mark[t] \/ "told" \in mark[t]
  BY DEF SettledOnce

(* What submissions of e to a lane have in common; z are the queues then.  *)
Submitted(e, z) ==
  /\ accepting /\ e.task \notin InPool
  /\ queue' = z
  /\ NotifyOne
  /\ UNCHANGED <<pool, turn, accepting, running, stopping, pending>>

(* An entry is queued, another one may make room for it and is cancelled.  *)
Admitted(z, lane, e, place, shift, gone) ==
  /\ Submitted(e, z)
  /\ Rearranged(queue, z, lane, e, place, shift, gone)
  /\ place \in DOMAIN z[lane] /\ z[lane][place] = e
  /\ mark' \in Marks /\ mark'[e.task] = Fresh(e)
  /\ \A t \in Tasks \ {e.task} : mark'[t] =
       IF /\ gone \in DOMAIN queue[lane] /\ t = queue[lane][gone].task
          /\ queue[lane][gone].tells
       THEN mark[t] \cup {"told"} ELSE mark[t]

LEMMA AdmittedKept ==
  ASSUME Kept, NEW lane \in pool.lanes, NEW e \in Entry,
         NEW z, NEW place, NEW shift, NEW gone,
         Admitted(z, lane, e, place, shift, gone)
  PROVE  Kept'
  <1>a. /\ accepting /\ e.task \notin InPool /\ queue' = z /\ NotifyOne
        /\ UNCHANGED <<pool, turn, accepting, running, stopping, pending>>
        /\ Rearranged(queue, z, lane, e, place, shift, gone)
        /\ place \in DOMAIN z[lane] /\ z[lane][place] = e
    BY DEF Admitted, Submitted
  <1>b. /\ mark' \in Marks /\ mark'[e.task] = Fresh(e)
        /\ \A t \in Tasks \ {e.task} : mark'[t] =
             IF /\ gone \in DOMAIN queue[lane] /\ t = queue[lane][gone].task
                /\ queue[lane][gone].tells
             THEN mark[t] \cup {"told"} ELSE mark[t]
    BY DEF Admitted
  <1> DEFINE Out(t) == gone \in DOMAIN queue[lane] /\ t = queue[lane][gone].task
  <1>t. /\ TypeOK /\ queue \in Lines /\ pending \in Lines
        /\ mark \in Marks /\ e.task \in Tasks
    BY LinesType DEF Kept, Entry
  <1>1. stopping = "no" /\ \A l \in pool.lanes : pending[l] = <<>>
    BY <1>a DEF Kept, Phased
  <1>2. ~InLine(queue, e.task) /\ \A k \in Workers : running[k] # e.task
    BY <1>a, <1>t, InPoolIs
  <1>3. Apart(z)
    BY <1>a, <1>t, <1>2, RearrangedApart DEF Kept
  <1>3a. z \in Lines
    BY <1>a DEF Rearranged
  <1>4. ASSUME NEW l \in pool.lanes, NEW i \in DOMAIN z[l]
        PROVE  \/ z[l][i] = e
               \/ \E j \in DOMAIN queue[l] :
                    z[l][i] = queue[l][j] /\ (l = lane => j # gone)
    BY <1>a, <1>t, <1>3a DEF Rearranged, Shifted
  <1>m. ASSUME NEW t, InLine(queue, t)
        PROVE  InLine(z, t) \/ Out(t)
    BY <1>a, <1>t, <1>m, RearrangedLine
  <1>6. InLine(z, e.task)
    BY <1>a DEF InLine
  <1>z. queue' = z /\ pool' = pool
    BY <1>a
  <1>7. ASSUME NEW l \in pool.lanes, NEW j \in DOMAIN queue[l]
        PROVE  /\ queue[l][j] \in Entry /\ queue[l][j].task \in Tasks
               /\ queue[l][j].task # e.task
               /\ mark[queue[l][j].task] = Fresh(queue[l][j])
               /\ Out(queue[l][j].task) => l = lane /\ j = gone
    <2>1. queue[l][j] \in Entry /\ queue[l][j].task \in Tasks
      BY <1>t, EntryType
    <2>2. queue[l][j].task # e.task
      BY <1>2 DEF InLine
    <2>3. mark[queue[l][j].task] = Fresh(queue[l][j])
      BY DEF Kept, Untouched
    <2>4. Out(queue[l][j].task) => l = lane /\ j = gone
      BY DEF Kept, Apart
    <2> QED BY <2>1, <2>2, <2>3, <2>4
  <1>8. \A t \in Tasks \ {e.task} : ~Out(t) => mark'[t] = mark[t]
    BY <1>b
  <1>9. TypeOK'
    <2>1. at' \in [Workers -> {"unborn", "idle", "busy", "drowsy", "asleep", "exited"}]
      BY <1>a, <1>t, Notified
    <2>2. \A k \in Workers : at'[k] = "busy" <=> running'[k] \in Tasks
      BY <1>a, <1>t, Notified DEF TypeOK
    <2>3. /\ pool' \in Pools /\ turn' \in 1..Len(pool'.schedule) /\ accepting' \in BOOLEAN
          /\ running' \in [Workers -> Tasks \cup {NoTask}]
          /\ stopping' \in {"no", "cancelling", "asked", "joining", "done"}
          /\ pending' \in [pool'.lanes -> Seq(Entry)]
      BY <1>a, <1>t DEF TypeOK
    <2>4. queue' \in [pool'.lanes -> Seq(Entry)] /\ mark' \in [Tasks -> SUBSET {"owed", "ran", "told"}]
      BY <1>3a, <1>b, <1>z DEF Lines, Marks
    <2> QED BY <2>1, <2>2, <2>3, <2>4 DEF TypeOK
  <1>10. Untouched(queue)'
    <2>1. ASSUME NEW l \in pool.lanes, NEW i \in DOMAIN z[l]
          PROVE  mark'[z[l][i].task] = Fresh(z[l][i])
      <3>1. CASE z[l][i] = e
        BY <1>b, <3>1
      <3>2. CASE \E j \in DOMAIN queue[l] :
                   z[l][i] = queue[l][j] /\ (l = lane => j # gone)
        BY <1>7, <1>8, <3>2
      <3> QED BY <1>4, <3>1, <3>2
    <2>2. \A l \in pool'.lanes : \A i \in DOMAIN queue'[l] :
            mark'[queue'[l][i].task] = Fresh(queue'[l][i])
      BY <1>z, <2>1
    <2> QED BY <2>2 DEF Untouched, Fresh
  <1>11. Apart(queue)'
    <2>1. \A l, m \in pool'.lanes : \A i \in DOMAIN queue'[l], j \in DOMAIN queue'[m] :
            queue'[l][i].task = queue'[m][j].task => l = m /\ i = j
      BY <1>3, <1>z DEF Apart
    <2> QED BY <2>1 DEF Apart
  <1>12. Untouched(pending)' /\ Apart(pending)'
    BY <1>1, <1>a DEF Untouched, Apart
  <1>13. Phased'
    BY <1>1, <1>a DEF Phased
  <1>14. Owned'
    <2> SUFFICES ASSUME NEW k \in Workers, running[k] \in Tasks
                 PROVE  "ran" \in mark'[running[k]] /\ "told" \notin mark'[running[k]]
      BY <1>a DEF Owned
    <2>1. "ran" \in mark[running[k]] /\ "told" \notin mark[running[k]]
      BY DEF Kept, Owned
    <2>2. running[k] # e.task
      BY <1>2
    <2>3. ~Out(running[k])
      <3>1. SUFFICES ASSUME Out(running[k]) PROVE FALSE
        OBVIOUS
      <3>2. mark[running[k]] = Fresh(queue[lane][gone]) /\ queue[lane][gone] \in Entry
        BY <1>7, <3>1
      <3> QED BY <2>1, <3>2, FreshIs
    <2> QED BY <1>8, <2>1, <2>2, <2>3
  <1>15. SettledOnce'
    <2> SUFFICES ASSUME NEW t \in Tasks
                 PROVE  /\ ~("ran" \in mark'[t] /\ "told" \in mark'[t])
                        /\ "owed" \in mark'[t] =>
                             t \in InPool' \/ "ran" \in mark'[t] \/ "told" \in mark'[t]
      BY DEF SettledOnce
    <2>1. InLine(z, t) => t \in InPool'
      <3>1. InLine(queue', t) = InLine(z, t)
        BY <1>z DEF InLine
      <3>2. InLine(queue, t)' => t \in InPool'
        BY DEF InLine, InPool, Listed
      <3> QED BY <1>z, <3>2 DEF InLine
    <2>2. CASE t = e.task
      BY <1>6, <1>b, <2>1, <2>2, FreshIs
    <2>3. CASE t # e.task /\ Out(t)
      <3>1. /\ mark[t] = Fresh(queue[lane][gone]) /\ queue[lane][gone] \in Entry
        BY <1>7, <2>3
      <3>2. mark'[t] = IF queue[lane][gone].tells THEN mark[t] \cup {"told"} ELSE mark[t]
        BY <1>b, <2>3
      <3> QED BY <3>1, <3>2, FreshIs
    <2>4. CASE t # e.task /\ ~Out(t)
      <3>1. mark'[t] = mark[t]
        BY <1>8, <2>4
      <3>2. t \in InPool => t \in InPool'
        <4>1. InLine(queue, t) => InLine(z, t)
          BY <1>m, <2>4
        <4>2. (\E k \in Workers : running[k] = t) \/ InLine(pending, t) => t \in InPool'
          BY <1>a DEF InPool, Held, InLine, Listed
        <4> QED BY <1>t, <2>1, <4>1, <4>2, InPoolIs
      <3> QED BY <1>t, <3>1, <3>2, SettledIs DEF Kept
    <2> QED BY <2>2, <2>3, <2>4
  <1> QED BY <1>9, <1>10, <1>11, <1>12, <1>13, <1>14, <1>15 DEF Kept

-----------------------------------------------------------------------------
(* Every step keeps it *)

LEMMA MarkedFresh ==
  ASSUME NEW m \in Marks, NEW e \in Entry
  PROVE  /\ [m EXCEPT ![e.task] = Fresh(e)] \in Marks
         /\ [m EXCEPT ![e.task] = Fresh(e)][e.task] = Fresh(e)
         /\ \A t \in Tasks \ {e.task} : [m EXCEPT ![e.task] = Fresh(e)][t] = m[t]
  <1>1. e.task \in Tasks
    BY DEF Entry
  <1>2. Fresh(e) \in SUBSET {"owed", "ran", "told"}
    BY DEF Fresh
  <1> HIDE DEF Fresh
  <1> QED BY <1>1, <1>2 DEF Marks

LEMMA LimitType ==
  ASSUME TypeOK, NEW l \in pool.limits
  PROVE  l.lanes \subseteq pool.lanes /\ l.most \in Nat \ {0}
  BY PoolType DEF PoolConfiguration

(* Work that may displace the last entry finds one.                        *)
LEMMA FullLane ==
  ASSUME TypeOK, pool.jumps, NEW lane \in pool.lanes, ~Room(lane)
  PROVE  queue[lane] # <<>>
  <1> SUFFICES ASSUME queue[lane] = <<>> PROVE FALSE
    OBVIOUS
  <1>1. PICK l \in pool.limits : lane \in l.lanes /\ ~(Queued(l.lanes) < l.most)
    BY DEF Room
  <1>2. pool.lanes = {lane}
    <2>1. Cardinality(pool.lanes) = 1 /\ IsFiniteSet(pool.lanes)
      BY PoolType DEF PoolConfiguration
    <2>2. PICK x : pool.lanes = {x}
      BY <2>1, FS_Singleton
    <2> QED BY <2>2
  <1>3. l.lanes \subseteq {lane} /\ l.most \in Nat \ {0}
    BY <1>2, LimitType
  <1>4. Places(l.lanes) = {}
    BY <1>3 DEF Places
  <1>5. Queued(l.lanes) = 0
    BY <1>4, FS_EmptySet DEF Queued
  <1> QED BY <1>1, <1>3, <1>5

LEMMA SubmissionKept ==
  ASSUME Kept, Submission
  PROVE  Kept'
  <1>1. PICK e \in Entry, lane \in pool.lanes :
          Submit(e, lane) \/ SubmitFront(e, lane) \/ SubmitSuperseding(e, lane)
    BY DEF Submission
  <1>t. /\ TypeOK /\ queue \in Lines /\ mark \in Marks
        /\ queue[lane] \in Seq(Entry) /\ e.task \in Tasks
    BY LinesType DEF Kept, Lines, Entry
  <1>2. ASSUME NEW s, NEW place, NEW shift,
               Puts(queue[lane], s, e, place, shift, 0),
               Submitted(e, [queue EXCEPT ![lane] = s]),
               mark' = [mark EXCEPT ![e.task] = Fresh(e)]
        PROVE  Kept'
    <2> DEFINE z == [queue EXCEPT ![lane] = s]
               f == [mark EXCEPT ![e.task] = Fresh(e)]
    <2>1. /\ s \in Seq(Entry) /\ shift \in Int /\ place \in DOMAIN s /\ s[place] = e
          /\ Shifted(queue[lane], s, e, place, shift, 0)
      BY <1>2 DEF Puts
    <2>2. Rearranged(queue, z, lane, e, place, shift, 0) /\ z[lane] = s
      BY <1>t, <2>1, Replaced DEF Lines
    <2>3. 0 \notin DOMAIN queue[lane]
      BY <1>t
    <2>4. f \in Marks /\ f[e.task] = Fresh(e) /\ \A t \in Tasks \ {e.task} : f[t] = mark[t]
      BY <1>t, MarkedFresh
    <2>5. mark' = f /\ Submitted(e, z)
      BY <1>2
    <2> HIDE DEF z, f
    <2>6. Admitted(z, lane, e, place, shift, 0)
      BY <2>1, <2>2, <2>3, <2>4, <2>5 DEF Admitted
    <2> QED BY <2>6, AdmittedKept
  <1>3. CASE Submit(e, lane)
    <2>1. /\ Submitted(e, [queue EXCEPT ![lane] = Append(queue[lane], e)])
          /\ mark' = [mark EXCEPT ![e.task] = Fresh(e)]
      BY <1>3 DEF Submit, Submitted
    <2>2. Puts(queue[lane], Append(queue[lane], e), e, Len(queue[lane]) + 1, 0, 0)
      BY <1>t, Appended
    <2> QED BY <1>2, <2>1, <2>2
  <1>4. CASE SubmitFront(e, lane)
    <2>1. /\ Submitted(e, [queue EXCEPT ![lane] = <<e>> \o queue[lane]])
          /\ mark' = [mark EXCEPT ![e.task] = Fresh(e)]
      BY <1>4 DEF SubmitFront, Submitted
    <2>2. Puts(queue[lane], <<e>> \o queue[lane], e, 1, -1, 0)
      BY <1>t, Prepended
    <2> QED BY <1>2, <2>1, <2>2
  <1>5. CASE SubmitSuperseding(e, lane)
    <2> DEFINE s == <<e>> \o Front(queue[lane])
               z == [queue EXCEPT ![lane] = s]
               n == Len(queue[lane])
               x == queue[lane][n]
               m == Told(mark, x)
               f == [m EXCEPT ![e.task] = Fresh(e)]
    <2>1. /\ Submitted(e, z) /\ pool.jumps /\ ~Room(lane)
          /\ mark' = [Told(mark, Last(queue[lane])) EXCEPT ![e.task] = Fresh(e)]
      BY <1>5 DEF SubmitSuperseding, Submitted
    <2>2. queue[lane] # <<>>
      BY <1>t, <2>1, FullLane
    <2>3. Puts(queue[lane], s, e, 1, -1, n)
      BY <1>t, <2>2, Superseded
    <2>4. n \in DOMAIN queue[lane] /\ Last(queue[lane]) = x /\ x \in Entry
      BY <1>t, <2>2, FrontIs
    <2>5. /\ m \in Marks
          /\ \A t \in Tasks : m[t] =
               IF t = x.task /\ x.tells THEN mark[t] \cup {"told"} ELSE mark[t]
      BY <1>t, <2>4, ToldIs
    <2>6. mark' = f
      BY <2>1, <2>4
    <2> HIDE DEF s, n, m
    <2>7. /\ s \in Seq(Entry) /\ 1 \in DOMAIN s /\ s[1] = e
          /\ Shifted(queue[lane], s, e, 1, -1, n)
      BY <2>3 DEF Puts
    <2>8. Rearranged(queue, z, lane, e, 1, -1, n) /\ z[lane] = s
      <3>1. z[lane] = s /\ -1 \in Int
        BY <1>t DEF Lines
      <3>2. Rearranged(queue, z, lane, e, 1, -1, n)
        BY <1>t, <2>7, <3>1, Replaced
      <3> QED BY <3>1, <3>2
    <2>9. f \in Marks /\ f[e.task] = Fresh(e) /\ \A t \in Tasks \ {e.task} : f[t] = m[t]
      BY <2>5, MarkedFresh
    <2> HIDE DEF z, f
    <2>10. \A t \in Tasks \ {e.task} : mark'[t] =
             IF n \in DOMAIN queue[lane] /\ t = queue[lane][n].task /\ queue[lane][n].tells
             THEN mark[t] \cup {"told"} ELSE mark[t]
      BY <2>4, <2>5, <2>6, <2>9
    <2>11. Admitted(z, lane, e, 1, -1, n)
      BY <2>1, <2>6, <2>7, <2>8, <2>9, <2>10 DEF Admitted
    <2> QED BY <2>11, AdmittedKept
  <1> QED BY <1>1, <1>3, <1>4, <1>5

(* Steps that move neither entries nor tasks.                              *)
LEMMA QuietKept ==
  ASSUME Kept, UNCHANGED <<pool, queue, running, pending, mark>>, TypeOK', Phased'
  PROVE  Kept'
  <1>1. /\ (Untouched(queue) /\ Apart(queue))'
        /\ (Untouched(pending) /\ Apart(pending))'
    BY DEF Kept, Untouched, Apart, Fresh
  <1>2. Owned' /\ SettledOnce'
    BY DEF Kept, Owned, SettledOnce, InPool, Held, Listed
  <1> QED BY <1>1, <1>2 DEF Kept

AtType == [Workers -> {"unborn", "idle", "busy", "drowsy", "asleep", "exited"}]

(* ... of which most move nothing but workers and the stop.                *)
LEMMA StillKept ==
  ASSUME Kept, UNCHANGED <<pool, queue, turn, running, pending, mark>>,
         at' \in AtType, \A k \in Workers : at'[k] = "busy" <=> at[k] = "busy",
         \A k \in Workers : at'[k] = "unborn" => at[k] = "unborn",
         accepting' \in BOOLEAN, accepting' => accepting \/ stopping = "no",
         stopping' \in {"no", "cancelling", "asked", "joining", "done"},
         stopping = "no" <=> stopping' = "no"
  PROVE  Kept'
  <1>1. TypeOK'
    BY DEF Kept, TypeOK, AtType
  <1>2. Phased'
    BY DEF Kept, Phased
  <1> QED BY <1>1, <1>2, QuietKept

(* A worker's task ends.                                                   *)
LEMMA FinishKept ==
  ASSUME Kept, NEW k \in Workers, Finish(k)
  PROVE  Kept'
  <1>1. /\ at[k] = "busy" /\ at' = [at EXCEPT ![k] = "idle"]
        /\ running' = [running EXCEPT ![k] = NoTask]
        /\ UNCHANGED <<pool, queue, turn, accepting, stopping, pending, mark>>
    BY DEF Finish
  <1>2. NoTask \notin Tasks
    BY ExecutorAssumption
  <1>t. TypeOK
    BY DEF Kept
  <1>3. /\ running' \in [Workers -> Tasks \cup {NoTask}] /\ running'[k] = NoTask
        /\ \A j \in Workers \ {k} : running'[j] = running[j] /\ at'[j] = at[j]
        /\ at' \in AtType /\ at'[k] = "idle"
    BY <1>1, <1>t DEF TypeOK, AtType
  <1>4. \A j \in Workers : at'[j] = "busy" <=> running'[j] \in Tasks
    BY <1>2, <1>3, <1>t DEF TypeOK
  <1>5. TypeOK'
    BY <1>1, <1>3, <1>4, <1>t DEF TypeOK, AtType
  <1>6. /\ (Untouched(queue) /\ Apart(queue))'
        /\ (Untouched(pending) /\ Apart(pending))'
    BY <1>1 DEF Kept, Untouched, Apart, Fresh
  <1>7. Phased'
    BY <1>1, <1>3 DEF Kept, Phased
  <1>8. Owned'
    BY <1>1, <1>2, <1>3 DEF Kept, Owned
  <1>9. SettledOnce'
    <2> SUFFICES ASSUME NEW t \in Tasks, t # running[k]
                 PROVE  t \in InPool => t \in InPool'
      BY <1>1 DEF Kept, SettledOnce, Owned
    <2>1. (\E j \in Workers : running[j] = t) => \E j \in Workers : running'[j] = t
      BY <1>3
    <2>2. (\E j \in Workers : running[j] = t)' \/ InLine(queue, t)' \/ InLine(pending, t)'
            => t \in InPool'
      BY <1>1 DEF InPool, Held, Listed, InLine
    <2>3. InLine(queue, t)' = InLine(queue, t) /\ InLine(pending, t)' = InLine(pending, t)
      BY <1>1 DEF InLine
    <2> QED BY <1>t, <2>1, <2>2, <2>3, InPoolIs
  <1> QED BY <1>5, <1>6, <1>7, <1>8, <1>9 DEF Kept

-----------------------------------------------------------------------------
(* The first entry of a lane leaves its line.                              *)
Without(q, lane) == [q EXCEPT ![lane] = Tail(q[lane])]

LEMMA WithoutIs ==
  ASSUME NEW q \in Lines, Untouched(q), Apart(q),
         NEW lane \in pool.lanes, q[lane] # <<>>
  PROVE  /\ Without(q, lane) \in Lines /\ Apart(Without(q, lane))
         /\ Head(q[lane]) \in Entry
         /\ mark[Head(q[lane]).task] = Fresh(Head(q[lane]))
         /\ \A l \in pool.lanes : \A i \in DOMAIN Without(q, lane)[l] :
              /\ Without(q, lane)[l][i].task \in Tasks \ {Head(q[lane]).task}
              /\ mark[Without(q, lane)[l][i].task] = Fresh(Without(q, lane)[l][i])
         /\ \A t : InLine(q, t) => InLine(Without(q, lane), t) \/ t = Head(q[lane]).task
  <1> DEFINE z == Without(q, lane)
             e == Head(q[lane])
  <1>1. q[lane] \in Seq(Entry)
    BY DEF Lines
  <1>2. /\ Tail(q[lane]) \in Seq(Entry) /\ e = q[lane][1] /\ 1 \in DOMAIN q[lane]
        /\ Shifted(q[lane], Tail(q[lane]), e, 0, 1, 1)
    BY <1>1, HeadTaken
  <1>3. e \in Entry /\ e.task \in Tasks /\ mark[e.task] = Fresh(e)
    BY <1>2, EntryType DEF Untouched
  <1>4. Rearranged(q, z, lane, e, 0, 1, 1) /\ z[lane] = Tail(q[lane])
    <2>1. z = [q EXCEPT ![lane] = Tail(q[lane])] /\ z[lane] = Tail(q[lane])
      BY DEF Without, Lines
    <2>2. Rearranged(q, [q EXCEPT ![lane] = Tail(q[lane])], lane, e, 0, 1, 1)
      <3> DEFINE s == Tail(q[lane])
      <3>1. s \in Seq(Entry) /\ e \in Entry /\ Shifted(q[lane], s, e, 0, 1, 1)
        BY <1>2, <1>3
      <3> HIDE DEF s, e
      <3>2. Rearranged(q, [q EXCEPT ![lane] = s], lane, e, 0, 1, 1)
        BY <3>1, Replaced
      <3> QED BY <3>2 DEF s
    <2> QED BY <2>1, <2>2
  <1>5. 0 \notin DOMAIN z[lane]
    BY <1>2, <1>4
  <1> HIDE DEF z, e
  <1>6. Apart(z) /\ z \in Lines
    BY <1>4, <1>5, RearrangedApart DEF Rearranged
  <1>7. ASSUME NEW l \in pool.lanes, NEW i \in DOMAIN z[l]
        PROVE  z[l][i].task \in Tasks \ {e.task} /\ mark[z[l][i].task] = Fresh(z[l][i])
    <2>1. \E j \in DOMAIN q[l] : z[l][i] = q[l][j] /\ ~(l = lane /\ j = 1)
      <3>1. CASE l = lane
        <4>1. i + 1 \in DOMAIN q[lane] /\ i + 1 # 1 /\ z[lane][i] = q[lane][i + 1]
          BY <1>4, <1>5, <3>1 DEF Rearranged, Shifted
        <4> QED BY <3>1, <4>1
      <3>2. CASE l # lane
        BY <1>4, <3>2 DEF Rearranged
      <3> QED BY <3>1, <3>2
    <2>2. PICK j \in DOMAIN q[l] : z[l][i] = q[l][j] /\ ~(l = lane /\ j = 1)
      BY <2>1
    <2>3. q[l][j].task # e.task
      BY <1>2, <2>2 DEF Apart
    <2>4. q[l][j].task \in Tasks /\ mark[q[l][j].task] = Fresh(q[l][j])
      BY EntryType DEF Untouched
    <2> QED BY <2>2, <2>3, <2>4
  <1>8. ASSUME NEW t, InLine(q, t)
        PROVE  InLine(z, t) \/ t = e.task
    BY <1>2, <1>4, <1>8, RearrangedLine
  <1> QED BY <1>3, <1>6, <1>7, <1>8 DEF z, e

(* Some lane that holds work, when the pool does.                          *)
LEMMA SomeQueued ==
  ASSUME TypeOK, Queued(pool.lanes) > 0
  PROVE  \E l \in pool.lanes : queue[l] # <<>>
  <1> SUFFICES ASSUME \A l \in pool.lanes : queue[l] = <<>> PROVE FALSE
    OBVIOUS
  <1>1. Places(pool.lanes) = {}
    BY DEF Places
  <1>2. Queued(pool.lanes) = 0
    BY <1>1, FS_EmptySet DEF Queued
  <1> QED BY <1>2

LEMMA TakeKept ==
  ASSUME Kept, NEW k \in Workers, Take(k)
  PROVE  Kept'
  <1> DEFINE lane == pool.schedule[Chosen]
             e == Head(queue[lane])
             z == Without(queue, lane)
  <1>1. /\ at[k] = "idle" /\ ~Asked /\ Queued(pool.lanes) > 0
        /\ queue' = z /\ turn' = NextSlot(Chosen)
        /\ running' = [running EXCEPT ![k] = e.task]
        /\ mark' = [mark EXCEPT ![e.task] = mark[e.task] \cup {"ran"}]
        /\ at' = [at EXCEPT ![k] = "busy"]
        /\ UNCHANGED <<pool, accepting, stopping, pending>>
    BY DEF Take, Without
  <1>t. TypeOK /\ queue \in Lines /\ pending \in Lines /\ mark \in Marks
    BY LinesType DEF Kept
  <1>2. Chosen \in 1..Len(pool.schedule) /\ lane \in pool.lanes /\ queue[lane] # <<>>
    BY <1>1, <1>t, SomeQueued, ChosenHasWork
  <1>3. turn' \in 1..Len(pool.schedule)
    <2>1. Chosen \in Nat \ {0}
      BY <1>2, PoolType, <1>t
    <2> HIDE DEF lane, z
    <2> QED BY <1>1, <1>t, <2>1, SlotType
  <1> HIDE DEF lane
  <1>4. /\ z \in Lines /\ Apart(z) /\ e \in Entry /\ mark[e.task] = Fresh(e)
        /\ \A l \in pool.lanes : \A i \in DOMAIN z[l] :
             z[l][i].task \in Tasks \ {e.task} /\ mark[z[l][i].task] = Fresh(z[l][i])
        /\ \A t : InLine(queue, t) => InLine(z, t) \/ t = e.task
    BY <1>2, <1>t, WithoutIs DEF Kept
  <1> HIDE DEF z, e
  <1>5. e.task \in Tasks /\ NoTask \notin Tasks
    BY <1>4, ExecutorAssumption DEF Entry
  <1>6. stopping = "no" /\ \A l \in pool.lanes : pending[l] = <<>>
    BY <1>2 DEF Kept, Phased
  <1>7. /\ mark' \in Marks /\ mark'[e.task] = Fresh(e) \cup {"ran"}
        /\ \A t \in Tasks \ {e.task} : mark'[t] = mark[t]
    <2>1. mark[e.task] \cup {"ran"} \in SUBSET {"owed", "ran", "told"}
      BY <1>5, <1>t DEF Marks
    <2> QED BY <1>1, <1>4, <1>5, <1>t, <2>1 DEF Marks
  <1>8. /\ running' \in [Workers -> Tasks \cup {NoTask}] /\ running'[k] = e.task
        /\ at' \in AtType /\ at'[k] = "busy"
        /\ \A j \in Workers \ {k} : running'[j] = running[j] /\ at'[j] = at[j]
    BY <1>1, <1>5, <1>t DEF TypeOK, AtType
  <1>9. TypeOK'
    <2>1. \A j \in Workers : at'[j] = "busy" <=> running'[j] \in Tasks
      BY <1>5, <1>8, <1>t DEF TypeOK
    <2>2. queue' \in [pool'.lanes -> Seq(Entry)] /\ mark' \in [Tasks -> SUBSET {"owed", "ran", "told"}]
      BY <1>1, <1>4, <1>7 DEF Lines, Marks
    <2>3. /\ pool' \in Pools /\ turn' \in 1..Len(pool'.schedule) /\ accepting' \in BOOLEAN
          /\ stopping' \in {"no", "cancelling", "asked", "joining", "done"}
          /\ pending' \in [pool'.lanes -> Seq(Entry)]
      BY <1>1, <1>3, <1>t DEF TypeOK
    <2> QED BY <1>8, <2>1, <2>2, <2>3 DEF TypeOK, AtType
  <1>10. Untouched(queue)'
    <2>1. \A l \in pool'.lanes : \A i \in DOMAIN queue'[l] :
            mark'[queue'[l][i].task] = Fresh(queue'[l][i])
      BY <1>1, <1>4, <1>7
    <2> QED BY <2>1 DEF Untouched, Fresh
  <1>11. Apart(queue)'
    <2>1. \A l, m \in pool'.lanes : \A i \in DOMAIN queue'[l], j \in DOMAIN queue'[m] :
            queue'[l][i].task = queue'[m][j].task => l = m /\ i = j
      BY <1>1, <1>4 DEF Apart
    <2> QED BY <2>1 DEF Apart
  <1>12. Untouched(pending)' /\ Apart(pending)' /\ Phased'
    BY <1>1, <1>6 DEF Untouched, Apart, Phased
  <1>13. Owned'
    <2> SUFFICES ASSUME NEW j \in Workers, running'[j] \in Tasks
                 PROVE  "ran" \in mark'[running'[j]] /\ "told" \notin mark'[running'[j]]
      BY DEF Owned
    <2>1. CASE running'[j] = e.task
      BY <1>4, <1>7, <2>1, FreshIs
    <2>2. CASE running'[j] # e.task
      BY <1>7, <1>8, <2>2 DEF Kept, Owned
    <2> QED BY <2>1, <2>2
  <1>14. SettledOnce'
    <2> SUFFICES ASSUME NEW t \in Tasks
                 PROVE  /\ ~("ran" \in mark'[t] /\ "told" \in mark'[t])
                        /\ "owed" \in mark'[t] =>
                             t \in InPool' \/ "ran" \in mark'[t] \/ "told" \in mark'[t]
      BY DEF SettledOnce
    <2>1. CASE t = e.task
      BY <1>4, <1>7, <2>1, FreshIs
    <2>2. CASE t # e.task
      <3>1. InLine(queue, t) => InLine(queue, t)'
        BY <1>1, <1>4, <2>2 DEF InLine
      <3>2. (\E j \in Workers : running[j] = t) => \E j \in Workers : running'[j] = t
        BY <1>1, <1>8, <1>t DEF TypeOK
      <3>3. (\E j \in Workers : running[j] = t)' \/ InLine(queue, t)' => t \in InPool'
        BY <1>1 DEF InPool, Held, Listed, InLine
      <3>4. ~InLine(pending, t)
        BY <1>6 DEF InLine
      <3>5. t \in InPool => t \in InPool'
        BY <1>t, <3>1, <3>2, <3>3, <3>4, InPoolIs
      <3> QED BY <1>7, <1>t, <2>2, <3>5, SettledIs DEF Kept
    <2> QED BY <2>1, <2>2
  <1> QED BY <1>9, <1>10, <1>11, <1>12, <1>13, <1>14 DEF Kept

-----------------------------------------------------------------------------
(* stop empties the queues ...                                             *)
LEMMA StopKept ==
  ASSUME Kept, Stop
  PROVE  Kept'
  <1>1. /\ stopping = "no" /\ stopping' = "cancelling" /\ accepting' = FALSE
        /\ pending' = queue /\ queue' = LeftQueued
        /\ \A k \in Workers : at[k] # "unborn"
        /\ UNCHANGED <<pool, turn, at, running, mark>>
    BY DEF Stop
  <1>t. TypeOK /\ \A l \in pool.lanes : pending[l] = <<>>
    BY <1>1 DEF Kept, Phased
  <1>2. queue' \in [pool.lanes -> Seq(Entry)] /\ \A l \in pool.lanes : queue'[l] = <<>>
    BY <1>1 DEF LeftQueued
  <1>3. TypeOK'
    BY <1>1, <1>2, <1>t DEF TypeOK
  <1>4. Untouched(queue)' /\ Apart(queue)' /\ \A t : ~InLine(queue, t)'
    <2>1. \A l \in pool'.lanes : DOMAIN queue'[l] = {}
      BY <1>1, <1>2
    <2> QED BY <2>1 DEF Untouched, Apart, InLine
  <1>5. Untouched(pending)' /\ Apart(pending)' /\ Owned'
    BY <1>1 DEF Kept, Untouched, Apart, Owned, Fresh
  <1>6. Phased'
    BY <1>1, <1>2 DEF Phased
  <1>7. SettledOnce'
    <2>1. ASSUME NEW t \in Tasks, t \in InPool PROVE t \in InPool'
      <3>1. (\E k \in Workers : running[k] = t) \/ InLine(queue, t)
        <4>1. ~InLine(pending, t)
          BY <1>t DEF InLine
        <4> QED BY <1>t, <2>1, <4>1, InPoolIs
      <3>2. InLine(queue, t) => InLine(pending, t)'
        BY <1>1 DEF InLine
      <3>3. (\E k \in Workers : running[k] = t)' \/ InLine(pending, t)' => t \in InPool'
        BY DEF InPool, Held, Listed, InLine
      <3> QED BY <1>1, <3>1, <3>2, <3>3
    <2> QED BY <1>1, <2>1 DEF Kept, SettledOnce
  <1> QED BY <1>3, <1>4, <1>5, <1>6, <1>7 DEF Kept

(* ... and calls the cancellation of each entry it has taken out.          *)
LEMMA CancelKept ==
  ASSUME Kept, CancelNext
  PROVE  Kept'
  <1> DEFINE lane == CHOOSE l \in Uncancelled : TRUE
             e == Head(pending[lane])
             z == Without(pending, lane)
  <1>1. /\ stopping = "cancelling" /\ Uncancelled # {}
        /\ mark' = Told(mark, e) /\ pending' = z
        /\ UNCHANGED <<pool, queue, turn, accepting, at, running, stopping>>
    BY DEF CancelNext, Without
  <1>t. TypeOK /\ queue \in Lines /\ pending \in Lines /\ mark \in Marks
    BY LinesType DEF Kept
  <1>2. lane \in pool.lanes /\ pending[lane] # <<>>
    BY <1>1 DEF Uncancelled
  <1> HIDE DEF lane
  <1>3. /\ z \in Lines /\ Apart(z) /\ e \in Entry /\ mark[e.task] = Fresh(e)
        /\ \A l \in pool.lanes : \A i \in DOMAIN z[l] :
             z[l][i].task \in Tasks \ {e.task} /\ mark[z[l][i].task] = Fresh(z[l][i])
        /\ \A t : InLine(pending, t) => InLine(z, t) \/ t = e.task
    BY <1>2, <1>t, WithoutIs DEF Kept
  <1> HIDE DEF z, e
  <1>4. \A l \in pool.lanes : queue[l] = <<>>
    BY <1>1 DEF Kept, Phased
  <1>5. /\ mark' \in Marks
        /\ \A t \in Tasks : mark'[t] =
             IF t = e.task /\ e.tells THEN mark[t] \cup {"told"} ELSE mark[t]
    BY <1>1, <1>3, <1>t, ToldIs
  <1>6. TypeOK'
    <2>1. pending' \in [pool'.lanes -> Seq(Entry)] /\ mark' \in [Tasks -> SUBSET {"owed", "ran", "told"}]
      BY <1>1, <1>3, <1>5 DEF Lines, Marks
    <2> QED BY <1>1, <1>t, <2>1 DEF TypeOK
  <1>7. Untouched(pending)'
    <2>1. \A l \in pool'.lanes : \A i \in DOMAIN pending'[l] :
            mark'[pending'[l][i].task] = Fresh(pending'[l][i])
      BY <1>1, <1>3, <1>5
    <2> QED BY <2>1 DEF Untouched, Fresh
  <1>8. Apart(pending)'
    <2>1. \A l, m \in pool'.lanes : \A i \in DOMAIN pending'[l], j \in DOMAIN pending'[m] :
            pending'[l][i].task = pending'[m][j].task => l = m /\ i = j
      BY <1>1, <1>3 DEF Apart
    <2> QED BY <2>1 DEF Apart
  <1>9. Untouched(queue)' /\ Apart(queue)' /\ Phased'
    <2>1. \A l \in pool'.lanes : DOMAIN queue'[l] = {}
      BY <1>1, <1>4
    <2>2. Phased'
      BY <1>1 DEF Kept, Phased
    <2> QED BY <2>1, <2>2 DEF Untouched, Apart
  <1>10. Owned'
    <2> SUFFICES ASSUME NEW k \in Workers, running[k] \in Tasks
                 PROVE  "ran" \in mark'[running[k]] /\ "told" \notin mark'[running[k]]
      BY <1>1 DEF Owned
    <2>1. "ran" \in mark[running[k]] /\ "told" \notin mark[running[k]]
      BY DEF Kept, Owned
    <2>2. running[k] # e.task
      BY <1>3, <2>1, FreshIs
    <2> QED BY <1>5, <2>1, <2>2
  <1>11. SettledOnce'
    <2> SUFFICES ASSUME NEW t \in Tasks
                 PROVE  /\ ~("ran" \in mark'[t] /\ "told" \in mark'[t])
                        /\ "owed" \in mark'[t] =>
                             t \in InPool' \/ "ran" \in mark'[t] \/ "told" \in mark'[t]
      BY DEF SettledOnce
    <2>1. CASE t = e.task
      <3>1. CASE e.tells
        <4>1. mark'[t] = Fresh(e) \cup {"told"}
          BY <1>3, <1>5, <2>1, <3>1
        <4> QED BY <1>3, <4>1, FreshIs
      <3>2. CASE ~e.tells
        <4>1. mark'[t] = Fresh(e)
          BY <1>3, <1>5, <2>1, <3>2
        <4> QED BY <1>3, <3>2, <4>1, FreshIs
      <3> QED BY <3>1, <3>2
    <2>2. CASE t # e.task
      <3>1. InLine(pending, t) => InLine(pending, t)'
        BY <1>1, <1>3, <2>2 DEF InLine
      <3>2. (\E k \in Workers : running[k] = t)' \/ InLine(pending, t)' => t \in InPool'
        BY DEF InPool, Held, Listed, InLine
      <3>3. ~InLine(queue, t)
        BY <1>4 DEF InLine
      <3>4. t \in InPool => t \in InPool'
        BY <1>1, <1>t, <3>1, <3>2, <3>3, InPoolIs
      <3> QED BY <1>5, <1>t, <2>2, <3>4, SettledIs DEF Kept
    <2> QED BY <2>1, <2>2
  <1> QED BY <1>6, <1>7, <1>8, <1>9, <1>10, <1>11 DEF Kept

-----------------------------------------------------------------------------
(* The limits of the pool                                                  *)

WithinLimits == \A l \in pool.limits : Queued(l.lanes) <= l.most

LEMMA PlacesFinite ==
  ASSUME TypeOK, NEW lanes \in SUBSET pool.lanes
  PROVE  IsFiniteSet(Places(lanes)) /\ Queued(lanes) \in Nat
  <1> DEFINE S == {{l} \X DOMAIN queue[l] : l \in lanes}
             f == [l \in lanes |-> {l} \X DOMAIN queue[l]]
  <1>1. IsFiniteSet(lanes)
    BY PoolType, FS_Subset
  <1>2. IsFiniteSet(S)
    <2>1. f \in Surjection(lanes, S)
      BY DEF Surjection
    <2> QED BY <1>1, <2>1, FS_Surjection
  <1>3. ASSUME NEW l \in lanes
        PROVE  IsFiniteSet({l} \X DOMAIN queue[l])
    <2>1. queue[l] \in Seq(Entry)
      BY DEF TypeOK
    <2>2. DOMAIN queue[l] = 1..Len(queue[l]) /\ Len(queue[l]) \in Int /\ 1 \in Int
      BY <2>1
    <2>3. IsFiniteSet(DOMAIN queue[l])
      BY <2>2, FS_Interval
    <2> QED BY <2>3, FS_Singleton, FS_Product
  <1>4. IsFiniteSet(Places(lanes))
    <2>1. \A T \in S : IsFiniteSet(T)
      BY <1>3
    <2>2. Places(lanes) = UNION S
      BY DEF Places
    <2> HIDE DEF S
    <2> QED BY <1>2, <2>1, <2>2, FS_UNION
  <1> QED BY <1>4, FS_CardinalityType DEF Queued

(* A step that takes no place takes none of any lanes' places ...          *)
LEMMA NoMore ==
  ASSUME TypeOK, NEW lanes \in SUBSET pool.lanes,
         \A l \in lanes : DOMAIN queue'[l] \subseteq DOMAIN queue[l]
  PROVE  Queued(lanes)' <= Queued(lanes) /\ Queued(lanes)' \in Nat
  <1>1. Places(lanes)' \subseteq Places(lanes)
    BY DEF Places
  <1>2. IsFiniteSet(Places(lanes))
    BY PlacesFinite
  <1>3. /\ IsFiniteSet(Places(lanes)')
        /\ Cardinality(Places(lanes)') <= Cardinality(Places(lanes))
    BY <1>1, <1>2, FS_Subset
  <1> QED BY <1>3, FS_CardinalityType DEF Queued

(* ... and one that takes a place takes one more.                          *)
LEMMA OneMore ==
  ASSUME TypeOK, NEW lanes \in SUBSET pool.lanes, NEW lane, NEW n,
         \A l \in lanes : DOMAIN queue'[l] \subseteq
           DOMAIN queue[l] \cup (IF l = lane THEN {n} ELSE {})
  PROVE  Queued(lanes)' <= Queued(lanes) + 1 /\ Queued(lanes)' \in Nat
  <1> DEFINE S == Places(lanes) \cup {<<lane, n>>}
  <1>1. Places(lanes)' \subseteq S
    BY DEF Places
  <1>2. IsFiniteSet(Places(lanes)) /\ Queued(lanes) \in Nat
    BY PlacesFinite
  <1>3. IsFiniteSet(S) /\ Cardinality(S) <= Queued(lanes) + 1
    <2> DEFINE P == Places(lanes)
               p == <<lane, n>>
    <2>1. IsFiniteSet(P) /\ Cardinality(P) \in Nat /\ Queued(lanes) = Cardinality(P)
      BY <1>2 DEF Queued
    <2> HIDE DEF P, p
    <2>2. IsFiniteSet(P \cup {p}) /\ Cardinality(P \cup {p}) <= Cardinality(P) + 1
      <3>1. Cardinality(P \cup {p}) = Cardinality(P) \/ Cardinality(P \cup {p}) = Cardinality(P) + 1
        BY <2>1, FS_AddElement
      <3> QED BY <2>1, <3>1, FS_AddElement
    <2> QED BY <2>1, <2>2 DEF P, p
  <1>4. /\ IsFiniteSet(Places(lanes)')
        /\ Cardinality(Places(lanes)') <= Cardinality(S)
    BY <1>1, <1>3, FS_Subset
  <1>5. Cardinality(S) \in Nat /\ Cardinality(Places(lanes)') \in Nat
    BY <1>3, <1>4, FS_CardinalityType
  <1> HIDE DEF S
  <1>6. Cardinality(Places(lanes)') <= Queued(lanes) + 1
    BY <1>2, <1>3, <1>4, <1>5
  <1> QED BY <1>5, <1>6 DEF Queued

LEMMA LengthIs ==
  ASSUME NEW s \in Seq(Entry), NEW t \in Seq(Entry), Len(t) <= Len(s) + 1
  PROVE  /\ DOMAIN t \subseteq DOMAIN s \cup {Len(s) + 1}
         /\ Len(t) <= Len(s) => DOMAIN t \subseteq DOMAIN s
  OBVIOUS

(* A queue takes one more place only with room for it.                     *)
LEMMA LimitsKept ==
  ASSUME Kept, WithinLimits, [Next]_vars
  PROVE  WithinLimits'
  <1>t. TypeOK /\ queue \in Lines
    BY LinesType DEF Kept
  <1>p. pool' = pool
    BY DEF Next, Start, Submission, Submit, SubmitFront, SubmitSuperseding, WorkerStep,
       Take, Finish, Doze, FallAsleep, Exit, SpuriousWakeup, Stop, StopStep, CancelNext,
       RequestStop, NotifyAll, Join, vars
  <1>1. ASSUME \A l \in pool.lanes : DOMAIN queue'[l] \subseteq DOMAIN queue[l]
        PROVE  WithinLimits'
    <2> SUFFICES ASSUME NEW l \in pool.limits PROVE Queued(l.lanes)' <= l.most
      BY <1>p DEF WithinLimits
    <2>1. l.lanes \subseteq pool.lanes /\ l.most \in Nat \ {0}
      BY <1>t, LimitType
    <2>2. Queued(l.lanes)' <= Queued(l.lanes) /\ Queued(l.lanes)' \in Nat
      BY <1>1, <1>t, <2>1, NoMore
    <2>3. Queued(l.lanes) <= l.most /\ Queued(l.lanes) \in Nat
      BY <1>t, <2>1, PlacesFinite DEF WithinLimits
    <2> QED BY <2>1, <2>2, <2>3
  <1>2. ASSUME NEW lane \in pool.lanes, NEW s \in Seq(Entry), Room(lane),
               Len(s) <= Len(queue[lane]) + 1, queue' = [queue EXCEPT ![lane] = s]
        PROVE  WithinLimits'
    <2> DEFINE n == Len(queue[lane]) + 1
    <2>1. queue[lane] \in Seq(Entry)
      BY <1>t DEF Lines
    <2>2. DOMAIN s \subseteq DOMAIN queue[lane] \cup {n}
      BY <1>2, <2>1, LengthIs
    <2>3. queue'[lane] = s /\ \A l \in pool.lanes \ {lane} : queue'[l] = queue[l]
      BY <1>2, <1>t DEF Lines
    <2> HIDE DEF n
    <2> SUFFICES ASSUME NEW l \in pool.limits PROVE Queued(l.lanes)' <= l.most
      BY <1>p DEF WithinLimits
    <2>4. l.lanes \in SUBSET pool.lanes /\ l.most \in Nat \ {0}
      BY <1>t, LimitType
    <2>5. CASE lane \in l.lanes
      <3>1. Queued(l.lanes) < l.most /\ Queued(l.lanes) \in Nat
        BY <1>2, <1>t, <2>4, <2>5, PlacesFinite DEF Room
      <3>2. \A m \in l.lanes : DOMAIN queue'[m] \subseteq
              DOMAIN queue[m] \cup (IF m = lane THEN {n} ELSE {})
        BY <2>2, <2>3, <2>4
      <3>3. Queued(l.lanes)' <= Queued(l.lanes) + 1 /\ Queued(l.lanes)' \in Nat
        BY <1>t, <2>4, <3>2, OneMore
      <3> QED BY <2>4, <3>1, <3>3
    <2>6. CASE lane \notin l.lanes
      <3>1. \A m \in l.lanes : DOMAIN queue'[m] \subseteq DOMAIN queue[m]
        BY <2>3, <2>4, <2>6
      <3>2. Queued(l.lanes)' <= Queued(l.lanes) /\ Queued(l.lanes)' \in Nat
        BY <1>t, <2>4, <3>1, NoMore
      <3>3. Queued(l.lanes) <= l.most /\ Queued(l.lanes) \in Nat
        BY <1>t, <2>4, PlacesFinite DEF WithinLimits
      <3> QED BY <2>4, <3>2, <3>3
    <2> QED BY <2>5, <2>6
  <1>3. CASE Submission
    <2>1. PICK e \in Entry, lane \in pool.lanes :
            Submit(e, lane) \/ SubmitFront(e, lane) \/ SubmitSuperseding(e, lane)
      BY <1>3 DEF Submission
    <2>2. queue[lane] \in Seq(Entry)
      BY <1>t DEF Lines
    <2>3. CASE Submit(e, lane)
      <3> DEFINE s == Append(queue[lane], e)
      <3>1. Room(lane) /\ queue' = [queue EXCEPT ![lane] = s]
        BY <2>3 DEF Submit
      <3>2. s \in Seq(Entry) /\ Len(s) <= Len(queue[lane]) + 1
        BY <2>2
      <3> HIDE DEF s
      <3> QED BY <1>2, <3>1, <3>2
    <2>4. CASE SubmitFront(e, lane)
      <3> DEFINE s == <<e>> \o queue[lane]
      <3>1. Room(lane) /\ queue' = [queue EXCEPT ![lane] = s]
        BY <2>4 DEF SubmitFront
      <3>2. s \in Seq(Entry) /\ Len(s) <= Len(queue[lane]) + 1
        BY <2>2
      <3> HIDE DEF s
      <3> QED BY <1>2, <3>1, <3>2
    <2>5. CASE SubmitSuperseding(e, lane)
      <3> DEFINE s == <<e>> \o Front(queue[lane])
      <3>1. pool.jumps /\ ~Room(lane) /\ queue' = [queue EXCEPT ![lane] = s]
        BY <2>5 DEF SubmitSuperseding
      <3>2. queue[lane] # <<>>
        BY <1>t, <3>1, FullLane
      <3>3. s \in Seq(Entry) /\ DOMAIN s \subseteq DOMAIN queue[lane]
        <4>1. /\ Front(queue[lane]) \in Seq(Entry)
              /\ Len(Front(queue[lane])) = Len(queue[lane]) - 1
          BY <2>2, <3>2, FrontIs
        <4>2. s \in Seq(Entry) /\ Len(s) = Len(queue[lane])
          BY <2>2, <4>1
        <4> QED BY <2>2, <4>2
      <3> HIDE DEF s
      <3>4. \A l \in pool.lanes : DOMAIN queue'[l] \subseteq DOMAIN queue[l]
        BY <1>t, <3>1, <3>3 DEF Lines
      <3> QED BY <1>1, <3>4
    <2> QED BY <2>1, <2>3, <2>4, <2>5
  <1>4. ASSUME NEW k \in Workers, Take(k)
        PROVE  WithinLimits'
    <2> DEFINE lane == pool.schedule[Chosen]
    <2>1. /\ Queued(pool.lanes) > 0
          /\ queue' = [queue EXCEPT ![lane] = Tail(queue[lane])]
      BY <1>4 DEF Take
    <2>2. lane \in pool.lanes /\ queue[lane] # <<>>
      BY <1>t, <2>1, SomeQueued, ChosenHasWork
    <2> HIDE DEF lane
    <2>3. queue[lane] \in Seq(Entry)
      BY <1>t, <2>2 DEF Lines
    <2>4. DOMAIN Tail(queue[lane]) \subseteq DOMAIN queue[lane]
      BY <2>2, <2>3
    <2>5. \A l \in pool.lanes : DOMAIN queue'[l] \subseteq DOMAIN queue[l]
      BY <1>t, <2>1, <2>2, <2>4 DEF Lines
    <2> QED BY <1>1, <2>5
  <1>5. CASE Stop
    <2>1. \A l \in pool.lanes : DOMAIN queue'[l] = {}
      BY <1>5 DEF Stop, LeftQueued
    <2> QED BY <1>1, <2>1
  <1>6. CASE UNCHANGED queue
    BY <1>1, <1>6
  <1>7. Start \/ StopStep \/ UNCHANGED vars => UNCHANGED queue
    BY DEF Start, StopStep, CancelNext, RequestStop, NotifyAll, Join, vars
  <1>8. ASSUME NEW k \in Workers, WorkerStep(k) \/ SpuriousWakeup(k)
        PROVE  Take(k) \/ UNCHANGED queue
    BY <1>8 DEF WorkerStep, Finish, Doze, FallAsleep, Exit, SpuriousWakeup
  <1> QED BY <1>3, <1>4, <1>5, <1>6, <1>7, <1>8 DEF Next

(* Work outside some lanes has the room that their limit leaves it.        *)
LEMMA RoomIsLeft ==
  ASSUME TypeOK, WithinLimits
  PROVE  DirectHasRoom
  <1> SUFFICES ASSUME NEW l \in pool.limits, NEW m \in pool.limits,
                      l.lanes = pool.lanes, Queued(l.lanes) >= l.most
               PROVE  Queued(pool.lanes \ m.lanes) >= l.most - m.most
    BY DEF DirectHasRoom
  <1> DEFINE P == Places(m.lanes)
             R == Places(pool.lanes \ m.lanes)
  <1>1. m.lanes \subseteq pool.lanes /\ m.most \in Nat /\ l.most \in Nat
    BY LimitType
  <1>2. Places(l.lanes) = P \cup R
    BY <1>1 DEF Places
  <1>3. IsFiniteSet(P) /\ IsFiniteSet(R)
    BY <1>1, PlacesFinite
  <1>4. Cardinality(P) <= m.most
    BY DEF WithinLimits, Queued
  <1>5. Cardinality(P \cup R) >= l.most
    BY <1>2 DEF Queued
  <1> HIDE DEF P, R
  <1>6. /\ IsFiniteSet(P \cap R)
        /\ Cardinality(P \cup R) = Cardinality(P) + Cardinality(R) - Cardinality(P \cap R)
    BY <1>3, FS_Union, FS_Intersection
  <1>7. /\ Cardinality(P) \in Nat /\ Cardinality(R) \in Nat
        /\ Cardinality(P \cap R) \in Nat
    BY <1>3, <1>6, FS_CardinalityType
  <1>8. Cardinality(R) >= l.most - m.most
    BY <1>1, <1>4, <1>5, <1>6, <1>7
  <1> QED BY <1>8 DEF R, Queued

-----------------------------------------------------------------------------
IInv == Kept /\ WithinLimits

LEMMA InitKept ==
  ASSUME Init
  PROVE  IInv
  <1>1. /\ pool \in Pools /\ queue = [l \in pool.lanes |-> <<>>] /\ turn = 1
        /\ accepting = FALSE /\ at = [k \in Workers |-> "unborn"]
        /\ running = [k \in Workers |-> NoTask] /\ stopping = "no"
        /\ pending = [l \in pool.lanes |-> <<>>] /\ mark = [t \in Tasks |-> {}]
    BY DEF Init
  <1>2. NoTask \notin Tasks /\ PoolConfiguration(pool)
    BY <1>1, ExecutorAssumption
  <1>3. turn \in 1..Len(pool.schedule)
    <2>1. pool.lanes # {} /\ pool.schedule \in Seq(pool.lanes) /\ pool.lanes \subseteq Range(pool.schedule)
      BY <1>2 DEF PoolConfiguration
    <2>2. \E i \in DOMAIN pool.schedule : TRUE
      BY <2>1 DEF Range
    <2> QED BY <1>1, <2>1, <2>2
  <1>4. \A l \in pool.lanes : queue[l] = <<>> /\ pending[l] = <<>>
    BY <1>1
  <1>5. TypeOK
    <2>1. queue \in [pool.lanes -> Seq(Entry)] /\ pending \in [pool.lanes -> Seq(Entry)]
      BY <1>1
    <2>2. /\ at \in [Workers -> {"unborn", "idle", "busy", "drowsy", "asleep", "exited"}]
          /\ running \in [Workers -> Tasks \cup {NoTask}]
          /\ \A k \in Workers : at[k] # "busy" /\ running[k] \notin Tasks
      BY <1>1, <1>2
    <2> QED BY <1>1, <1>3, <2>1, <2>2 DEF TypeOK
  <1>6. /\ Untouched(queue) /\ Apart(queue)
        /\ Untouched(pending) /\ Apart(pending)
    BY <1>4, EmptyLines
  <1>7. Phased /\ Owned /\ SettledOnce
    BY <1>1, <1>2, <1>4 DEF Phased, Owned, SettledOnce
  <1>8. WithinLimits
    <2> SUFFICES ASSUME NEW l \in pool.limits PROVE Queued(l.lanes) <= l.most
      BY DEF WithinLimits
    <2>1. l.lanes \subseteq pool.lanes /\ l.most \in Nat \ {0}
      BY <1>5, LimitType
    <2>2. Places(l.lanes) = {}
      BY <1>4, <2>1 DEF Places
    <2>3. Queued(l.lanes) = 0
      BY <2>2, FS_EmptySet DEF Queued
    <2> QED BY <2>1, <2>3
  <1> QED BY <1>5, <1>6, <1>7, <1>8 DEF IInv, Kept

LEMMA NextKept ==
  ASSUME IInv, [Next]_vars
  PROVE  IInv'
  <1>t. Kept /\ TypeOK /\ WithinLimits /\ at \in AtType
    BY DEF IInv, Kept, TypeOK, AtType
  <1> SUFFICES Kept'
    BY <1>t, LimitsKept DEF IInv
  <1>q. stopping \in {"no", "cancelling", "asked", "joining", "done"} /\ accepting \in BOOLEAN
    BY <1>t DEF TypeOK
  <1>1. CASE Start
    <2>1. stopping = "no"
      <3>1. PICK k \in Workers : at[k] = "unborn"
        BY <1>1, ExecutorAssumption DEF Start
      <3> QED BY <1>t, <3>1 DEF Kept, Phased
    <2>2. /\ UNCHANGED <<pool, queue, turn, running, stopping, pending, mark>>
          /\ at' \in AtType /\ accepting'
          /\ \A k \in Workers : at'[k] = "idle" /\ at[k] = "unborn"
      BY <1>1 DEF Start, AtType
    <2> QED BY <1>q, <1>t, <2>1, <2>2, StillKept
  <1>2. CASE Submission
    BY <1>2, <1>t, SubmissionKept
  <1>3. ASSUME NEW k \in Workers, WorkerStep(k) \/ SpuriousWakeup(k)
        PROVE  Kept'
    <2>1. CASE Take(k)
      BY <1>t, <2>1, TakeKept
    <2>2. CASE Finish(k)
      BY <1>t, <2>2, FinishKept
    <2>3. CASE Doze(k) \/ FallAsleep(k) \/ SpuriousWakeup(k) \/ Exit(k)
      <3>1. PICK x \in {"drowsy", "asleep", "idle", "exited"} : at' = [at EXCEPT ![k] = x]
        BY <2>3 DEF Doze, FallAsleep, SpuriousWakeup, Exit
      <3>2. UNCHANGED <<pool, queue, turn, accepting, running, stopping, pending, mark>>
            /\ at[k] \in {"idle", "drowsy", "asleep"}
        BY <2>3 DEF Doze, FallAsleep, SpuriousWakeup, Exit
      <3>3. /\ at' \in AtType
            /\ \A j \in Workers : at'[j] = "busy" <=> at[j] = "busy"
            /\ \A j \in Workers : at'[j] = "unborn" => at[j] = "unborn"
        BY <1>t, <3>1, <3>2 DEF AtType
      <3> QED BY <1>q, <1>t, <3>2, <3>3, StillKept
    <2> QED BY <1>3, <2>1, <2>2, <2>3 DEF WorkerStep
  <1>4. CASE Stop
    BY <1>4, <1>t, StopKept
  <1>5. CASE StopStep
    <2>1. CASE CancelNext
      BY <1>t, <2>1, CancelKept
    <2>2. CASE RequestStop \/ NotifyAll \/ Join
      <3>1. /\ UNCHANGED <<pool, queue, turn, accepting, running, pending, mark>>
            /\ stopping \in {"cancelling", "asked", "joining"}
            /\ stopping' \in {"asked", "joining", "done"}
        BY <2>2 DEF RequestStop, NotifyAll, Join
      <3>2. /\ at' \in AtType
            /\ \A k \in Workers : at'[k] = "busy" <=> at[k] = "busy"
            /\ \A k \in Workers : at'[k] = "unborn" => at[k] = "unborn"
        BY <1>t, <2>2 DEF RequestStop, NotifyAll, Join, AtType
      <3> QED BY <1>q, <1>t, <3>1, <3>2, StillKept
    <2> QED BY <1>5, <2>1, <2>2 DEF StopStep
  <1>6. CASE UNCHANGED vars
    <2>1. /\ UNCHANGED <<pool, queue, turn, running, pending, mark>>
          /\ at' = at /\ accepting' = accepting /\ stopping' = stopping
      BY <1>6 DEF vars
    <2> QED BY <1>q, <1>t, <2>1, StillKept
  <1> QED BY <1>1, <1>2, <1>3, <1>4, <1>5, <1>6 DEF Next

(* The pools' variables have their types: the schedule index stays within  *)
(* the schedule, and a worker is busy exactly while it runs a task.        *)
THEOREM PoolTypes == Spec => []TypeOK
  <1>1. IInv => TypeOK
    BY DEF IInv, Kept
  <1> QED BY <1>1, InitKept, NextKept, PTL DEF Spec

(* What a pool has accepted runs, or its submitter is told that it will    *)
(* not, and never both, however submissions, workers and a stop interleave *)
(* and whatever a superseding submission displaces; and the slots that the *)
(* limits leave to direct work are not taken by other lanes.               *)
THEOREM TasksAreSettled == Spec => []TasksAreKept
  <1>1. IInv => TasksAreKept
    BY RoomIsLeft DEF IInv, Kept, TasksAreKept
  <1> QED BY <1>1, InitKept, NextKept, PTL DEF Spec

(* Work in a pool never exceeds any of the limits that the submissions     *)
(* check one by one, a superseding submission to a full queue included.    *)
THEOREM LimitsHold == Spec => []WithinLimits
  <1>1. IInv => WithinLimits
    BY DEF IInv
  <1> QED BY <1>1, InitKept, NextKept, PTL DEF Spec
=============================================================================
