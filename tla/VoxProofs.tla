------------------------------- MODULE VoxProofs -------------------------------
(* Proofs about Vox for any bounds on summons, jobs, the queue and what    *)
(* happens: a session is held by its timers and its binding, and a mute    *)
(* lasts until it is lifted.                                               *)
EXTENDS Vox, FiniteSetTheorems, WellFoundedInduction, TLAPS

-----------------------------------------------------------------------------
(* Types of what a task reads and writes                                   *)

States == {"connecting", "ready", "muted", "reconnecting", "leaving", "inactive", "failed"}

Reasons ==
  {"none", "restart", "shutdown", "empty_timeout", "leave_timeout", "timeout",
   "voice_failure", "voice_ready", "gateway_rejected", "unexpected_disconnect",
   "owner_test_disconnect", "commanded_leave", "commanded_leave_complete",
   "mute_on", "mute_off", "mute_expired"}

Rows ==
  [id: Nat, state: States, gen: Nat, rejoins: 0..1,
   proof: {"pending", "queued", "played", "failed"}, empty: BOOLEAN,
   timer: Jobs \cup {0}, muted: BOOLEAN, muteJob: Jobs \cup {0}, end: Reasons]

JobRows ==
  [kind: {"none", "connect", "reconnect", "leave", "mute", "empty"},
   state: {"pending", "claimed", "ended"}]

Tracks == {"none", "proof", "farewell"}

Bindings ==
  [sess: Nat, gen: Nat, connected: BOOLEAN, ready: BOOLEAN, moved: BOOLEAN,
   humans: 0..1, track: Tracks, done: Tracks]

Callbacks ==
  [kind: {"ready", "marker", "humans", "moved", "gone", "error"},
   sess: Nat, gen: Nat, humans: 0..1, mark: Tracks]

JobTasks == [kind: {"job"}, job: Jobs]

Queues == Seq(Callbacks \cup JobTasks)

Worlds ==
  [ses: Rows, job: [Jobs -> JobRows], queue: Queues, reconcile: BOOLEAN,
   rejoined: Nat, rejected: Nat, farewell: BOOLEAN, bind: Bindings,
   suppress: BOOLEAN, line: Seq({"join", "leave"})]

-----------------------------------------------------------------------------
(* The invariant of a task                                                 *)

Live(jobs) == {j \in Jobs : jobs[j].state # "ended"}

InQueue(q, j) == \E i \in DOMAIN q : q[i].kind = "job" /\ q[i].job = j

(* The timers of a session are those its state calls for.                  *)
Held(s, jobs) ==
  /\ s.state \in {"connecting", "reconnecting", "leaving"}
       => s.timer \in Live(jobs) /\ jobs[s.timer].kind = TimerOf[s.state]
  /\ Talking(s) => /\ s.empty <=> s.timer # 0
                   /\ s.empty => s.timer \in Live(jobs) /\ jobs[s.timer].kind = "empty"
  /\ Live(jobs) \subseteq IF Active(s) THEN {s.timer, s.muteJob} ELSE {}
  /\ s.muteJob \in Live(jobs) => jobs[s.muteJob].kind = "mute" \/ s.muteJob = s.timer
  /\ Talking(s) /\ s.muteJob # 0 => s.muteJob # s.timer
  /\ s.muteJob # 0 => s.muted
  /\ s.muted => s.state \in {"muted", "reconnecting"}
  /\ s.state = "muted" => s.muted

(* A claimed job waits in the queue, once.                                 *)
Claims(jobs, q) ==
  /\ Len(q) <= QueueCap
  /\ \A j \in Live(jobs) : jobs[j].state = "claimed" <=> InQueue(q, j)
  /\ \A i, k \in DOMAIN q :
       q[i].kind = "job" /\ q[k].kind = "job" /\ q[i].job = q[k].job => i = k

Timed(w) == w \in Worlds /\ Held(w.ses, w.job) /\ Claims(w.job, w.queue)

(* The binding is the session's.                                           *)
Ours(w) ==
  w.bind.sess # 0 => w.bind.sess = w.ses.id /\ w.bind.gen <= w.ses.gen

Sound(w) == Timed(w) /\ Ours(w) /\ (w.bind.sess # 0 => Active(w.ses))

(* The same session, none that begins to talk, and its mute is not lost.   *)
Going(s) == Talking(s) \/ Dialling(s)

Onward(w, x) ==
  /\ x.ses.id = w.ses.id
  /\ Going(x.ses) => Going(w.ses)
  /\ w.ses.muted /\ Going(x.ses) => x.ses.muted

LEMMA OnwardTransitive ==
  ASSUME NEW w, NEW x, NEW y, Onward(w, x), Onward(x, y)
  PROVE  Onward(w, y)
  BY DEF Onward

-----------------------------------------------------------------------------
(* The row of a new job                                                    *)

LEMMA LeastOne ==
  ASSUME NEW S \in SUBSET Nat, S # {}
  PROVE  \E i \in S : \A j \in S : i <= j
  <1> DEFINE R == OpToRel(<, Nat)
  <1>1. IsWellFoundedOn(R, Nat)
    BY NatLessThanWellFounded
  <1> HIDE DEF R
  <1>2. PICK i \in S : \A j \in S : ~(<<j, i>> \in R)
    BY <1>1, WFMin
  <1>3. \A j \in S : ~(j < i)
    BY <1>2 DEF OpToRel, R
  <1> QED BY <1>3

Named(q) == {q[i].job : i \in {k \in DOMAIN q : q[k].kind = "job"}}

(* The tasks of a queue name at most as many jobs as the queue is long.    *)
LEMMA NamedFew ==
  ASSUME NEW q \in Queues, Len(q) <= QueueCap
  PROVE  IsFiniteSet(Named(q)) /\ Cardinality(Named(q)) <= QueueCap
  <1> DEFINE D == {k \in DOMAIN q : q[k].kind = "job"}
             f == [i \in D |-> q[i].job]
  <1>0. QueueCap \in Nat
    BY VoxAssumption
  <1>1. DOMAIN q = 1..Len(q) /\ Len(q) \in Nat
    BY DEF Queues
  <1>2. IsFiniteSet(1..Len(q)) /\ Cardinality(1..Len(q)) = Len(q)
    <2>1. 1 \in Int /\ Len(q) \in Int
      BY <1>1
    <2>2. /\ IsFiniteSet(1..Len(q))
          /\ Cardinality(1..Len(q)) = IF 1 > Len(q) THEN 0 ELSE Len(q) - 1 + 1
      BY <2>1, FS_Interval
    <2> QED BY <1>1, <2>2
  <1>3. IsFiniteSet(D) /\ Cardinality(D) <= Len(q)
    <2>1. D \in SUBSET (1..Len(q))
      BY <1>1
    <2> HIDE DEF D
    <2> QED BY <1>2, <2>1, FS_Subset
  <1>4. f \in Surjection(D, Named(q))
    BY DEF Surjection, Named
  <1> HIDE DEF f, D
  <1>5. IsFiniteSet(Named(q)) /\ Cardinality(Named(q)) <= Cardinality(D)
    BY <1>3, <1>4, FS_Surjection
  <1>6. Cardinality(Named(q)) \in Nat /\ Cardinality(D) \in Nat
    BY <1>3, <1>5, FS_CardinalityType
  <1> QED BY <1>0, <1>1, <1>3, <1>5, <1>6

LEMMA FreshIs ==
  ASSUME NEW w, w.ses \in Rows, w.job \in [Jobs -> JobRows], w.queue \in Queues,
         Len(w.queue) <= QueueCap, Live(w.job) \subseteq {w.ses.timer, w.ses.muteJob}
  PROVE  /\ Fresh(w) \in Jobs /\ Fresh(w) \notin {0, w.ses.timer, w.ses.muteJob}
         /\ w.job[Fresh(w)].state = "ended" /\ ~InQueue(w.queue, Fresh(w))
  <1> DEFINE N == Named(w.queue)
             T == {w.ses.timer, w.ses.muteJob} \cup N
             free == {j \in Jobs \ T : w.job[j].state = "ended"}
  <1>1. /\ MaxJobs \in Nat \ {0} /\ QueueCap \in Nat /\ MaxJobs >= QueueCap + 3
    BY VoxAssumption
  <1>2. IsFiniteSet(N) /\ Cardinality(N) <= QueueCap /\ Cardinality(N) \in Nat
    BY NamedFew, FS_CardinalityType
  <1> HIDE DEF N
  <1>3. IsFiniteSet(T) /\ Cardinality(T) \in Nat /\ Cardinality(T) <= QueueCap + 2
    <2> DEFINE A == N \cup {w.ses.timer}
               B == A \cup {w.ses.muteJob}
    <2>1. /\ IsFiniteSet(A) /\ Cardinality(A) \in Nat
          /\ Cardinality(A) = Cardinality(N) \/ Cardinality(A) = Cardinality(N) + 1
      BY <1>2, FS_AddElement, FS_CardinalityType
    <2> HIDE DEF A
    <2>2. /\ IsFiniteSet(B) /\ Cardinality(B) \in Nat
          /\ Cardinality(B) = Cardinality(A) \/ Cardinality(B) = Cardinality(A) + 1
      BY <2>1, FS_AddElement, FS_CardinalityType
    <2>3. T = B
      BY DEF A
    <2> HIDE DEF B, T
    <2>4. Cardinality(B) <= QueueCap + 2
      BY <1>1, <1>2, <2>1, <2>2
    <2> QED BY <2>2, <2>3, <2>4
  <1>4. IsFiniteSet(Jobs) /\ Cardinality(Jobs) = MaxJobs
    <2>1. 1 \in Int /\ MaxJobs \in Int
      BY <1>1
    <2>2. /\ IsFiniteSet(1..MaxJobs)
          /\ Cardinality(1..MaxJobs) = IF 1 > MaxJobs THEN 0 ELSE MaxJobs - 1 + 1
      BY <2>1, FS_Interval
    <2> QED BY <1>1, <2>2 DEF Jobs
  <1>5. PICK j \in Jobs : j \notin T
    <2> SUFFICES ASSUME Jobs \subseteq T PROVE FALSE
      OBVIOUS
    <2> HIDE DEF T
    <2>1. Cardinality(Jobs) <= Cardinality(T)
      BY <1>3, FS_Subset
    <2> QED BY <1>1, <1>3, <1>4, <2>1
  <1>6. \A k \in Jobs \ T : w.job[k].state = "ended"
    BY DEF Live
  <1>7. free # {} /\ free \in SUBSET Nat
    BY <1>5, <1>6 DEF Jobs
  <1>8. Fresh(w) = CHOOSE k \in free : \A l \in free : k <= l
    BY DEF Fresh, N, Named
  <1>9. Fresh(w) \in free
    <2> HIDE DEF free
    <2> QED BY <1>7, <1>8, LeastOne
  <1>10. \A k \in Jobs : InQueue(w.queue, k) => k \in N
    BY DEF InQueue, N, Named
  <1> QED BY <1>9, <1>10 DEF Jobs

-----------------------------------------------------------------------------
(* The repository's operations                                             *)

LEMMA TimerIs ==
  /\ TimerOf["connecting"] = "connect" /\ TimerOf["reconnecting"] = "reconnect"
  /\ TimerOf["leaving"] = "leave" /\ TimerOf["muted"] = "mute"
  BY DEF TimerOf

LEMMA CancelledIs ==
  ASSUME NEW jobs \in [Jobs -> JobRows], NEW j \in Jobs \cup {0}
  PROVE  /\ Cancelled(jobs, j) \in [Jobs -> JobRows]
         /\ Live(Cancelled(jobs, j)) = Live(jobs) \ {j}
         /\ \A k \in Jobs \ {j} : Cancelled(jobs, j)[k] = jobs[k]
  BY DEF Cancelled, NoJob, JobRows, Live, Jobs

LEMMA EnqueuedIs ==
  ASSUME NEW jobs \in [Jobs -> JobRows], NEW j \in Jobs,
         NEW kind \in {"connect", "reconnect", "leave", "mute", "empty"}
  PROVE  /\ Enqueued(jobs, j, kind) \in [Jobs -> JobRows]
         /\ Live(Enqueued(jobs, j, kind)) = Live(jobs) \cup {j}
         /\ Enqueued(jobs, j, kind)[j].kind = kind
         /\ Enqueued(jobs, j, kind)[j].state = "pending"
         /\ \A k \in Jobs \ {j} : Enqueued(jobs, j, kind)[k] = jobs[k]
  BY DEF Enqueued, JobRows, Live

(* Jobs that end and new jobs, not named in the queue, leave the claims.   *)
LEMMA ClaimsStay ==
  ASSUME NEW jobs, NEW q, Claims(jobs, q), NEW other,
         \A j \in Live(other) :
           \/ j \in Live(jobs) /\ other[j] = jobs[j]
           \/ other[j].state = "pending" /\ ~InQueue(q, j)
  PROVE  Claims(other, q)
  BY DEF Claims

(* The fields of the row after a transition.                               *)
Transit(s, to, reason, new) ==
  LET keepTimer == KeepsTimer(s, to, reason)
      keepMute == KeepsMute(s, to)
      muted == to = "muted" \/ keepMute
  IN [s EXCEPT
       !.state = to, !.end = IF to \in {"inactive", "failed"} THEN reason ELSE @,
       !.rejoins = IF to = "reconnecting" THEN @ + 1 ELSE @,
       !.gen = IF to = "reconnecting" THEN @ + 1 ELSE @,
       !.timer = IF keepTimer /\ @ # 0 THEN @ ELSE IF to = "muted" THEN 0 ELSE new,
       !.empty = @ /\ keepTimer,
       !.muted = muted,
       !.muteJob = IF ~muted THEN 0 ELSE IF keepMute /\ @ # 0 THEN @ ELSE new]

LEMMA TransitIs ==
  ASSUME NEW s \in Rows, NEW to \in States, NEW reason \in Reasons, NEW new \in Jobs \cup {0},
         Allowed(s, to, reason)
  PROVE  LET t == Transit(s, to, reason, new)
             keepTimer == KeepsTimer(s, to, reason)
             keepMute == KeepsMute(s, to)
             muted == to = "muted" \/ keepMute
         IN /\ t \in Rows /\ t.id = s.id /\ t.state = to /\ t.gen >= s.gen
            /\ t.timer = IF keepTimer /\ s.timer # 0 THEN s.timer
                         ELSE IF to = "muted" THEN 0 ELSE new
            /\ t.empty = (s.empty /\ keepTimer) /\ t.muted = muted
            /\ t.muteJob = IF ~muted THEN 0
                           ELSE IF keepMute /\ s.muteJob # 0 THEN s.muteJob ELSE new
            /\ t.proof = s.proof
  <1> DEFINE keepTimer == KeepsTimer(s, to, reason)
             keepMute == KeepsMute(s, to)
             muted == to = "muted" \/ keepMute
  <1>1. keepTimer \in BOOLEAN /\ keepMute \in BOOLEAN /\ muted \in BOOLEAN
    BY DEF KeepsTimer, KeepsMute, Rows
  <1>2. to = "reconnecting" => s.rejoins + 1 \in 0..1
    <2>1. s.rejoins \in 0..1
      BY DEF Rows
    <2>2. to = "reconnecting" => s.rejoins = 0
      BY DEF Allowed
    <2> QED BY <2>1, <2>2
  <1>3. s.gen \in Nat /\ s.gen + 1 \in Nat /\ s.gen + 1 >= s.gen
    BY DEF Rows
  <1>4. (s.empty /\ keepTimer) \in BOOLEAN
    BY <1>1 DEF Rows
  <1> DEFINE end == IF to \in {"inactive", "failed"} THEN reason ELSE s.end
             rejoins == IF to = "reconnecting" THEN s.rejoins + 1 ELSE s.rejoins
             gen == IF to = "reconnecting" THEN s.gen + 1 ELSE s.gen
             timer == IF keepTimer /\ s.timer # 0 THEN s.timer
                      ELSE IF to = "muted" THEN 0 ELSE new
             empty == s.empty /\ keepTimer
             muteJob == IF ~muted THEN 0
                        ELSE IF keepMute /\ s.muteJob # 0 THEN s.muteJob ELSE new
             t == Transit(s, to, reason, new)
  <1>5. /\ end \in Reasons /\ rejoins \in 0..1 /\ gen \in Nat /\ gen >= s.gen
        /\ timer \in Jobs \cup {0} /\ muteJob \in Jobs \cup {0}
    BY <1>2, <1>3 DEF Rows
  <1>6. t = [s EXCEPT !.state = to, !.end = end, !.rejoins = rejoins, !.gen = gen,
                      !.timer = timer, !.empty = empty, !.muted = muted,
                      !.muteJob = muteJob]
    BY DEF Transit
  <1>m. muted \in BOOLEAN
    BY <1>1
  <1>e. empty \in BOOLEAN
    BY <1>4
  <1> HIDE DEF t, end, rejoins, gen, timer, empty, muted, muteJob, keepTimer, keepMute
  <1>7. /\ t \in Rows /\ t.id = s.id /\ t.state = to /\ t.gen = gen /\ t.timer = timer
        /\ t.empty = empty /\ t.muted = muted /\ t.muteJob = muteJob
        /\ t.proof = s.proof
    BY <1>m, <1>e, <1>5, <1>6 DEF Rows
  <1> QED BY <1>5, <1>7 DEF t, timer, empty, muteJob, muted, keepTimer, keepMute

(* A request brings a timeout job where the new state needs one.           *)
Asks(s, to, timed) ==
  /\ to \in States \ {"connecting"} /\ timed \in BOOLEAN
  /\ to \in {"leaving", "reconnecting"} => timed
  /\ to \in {"inactive", "failed", "ready"} => ~timed
  /\ to = "muted" /\ timed => s.state = "ready"

(* The jobs that a transition leaves open.                                 *)
Open(w, to, reason) ==
  Cancelled(Cancelled(w.job, IF KeepsTimer(w.ses, to, reason) THEN 0 ELSE w.ses.timer),
            IF KeepsMute(w.ses, to) THEN 0 ELSE w.ses.muteJob)

LEMMA OpenIs ==
  ASSUME NEW w, Timed(w), Active(w.ses), NEW to, NEW reason
  PROVE  LET open == Open(w, to, reason)
             kept == (IF KeepsTimer(w.ses, to, reason) THEN {w.ses.timer} ELSE {}) \cup
                     (IF KeepsMute(w.ses, to) THEN {w.ses.muteJob} ELSE {})
         IN /\ open \in [Jobs -> JobRows] /\ Live(open) \subseteq kept
            /\ Live(open) \subseteq Live(w.job)
            /\ KeepsTimer(w.ses, to, reason) /\ ~KeepsMute(w.ses, to) =>
                 Live(open) = Live(w.job) \ {w.ses.muteJob}
            /\ ~KeepsTimer(w.ses, to, reason) => w.ses.timer \notin Live(open)
            /\ \A j \in Live(open) : open[j] = w.job[j]
  <1> DEFINE a == IF KeepsTimer(w.ses, to, reason) THEN 0 ELSE w.ses.timer
             b == IF KeepsMute(w.ses, to) THEN 0 ELSE w.ses.muteJob
             one == Cancelled(w.job, a)
             open == Open(w, to, reason)
  <1>1. /\ w.ses \in Rows /\ w.job \in [Jobs -> JobRows]
        /\ Live(w.job) \subseteq {w.ses.timer, w.ses.muteJob}
    BY DEF Timed, Worlds, Held
  <1>2. w.ses.timer \in Jobs \cup {0} /\ w.ses.muteJob \in Jobs \cup {0}
    BY <1>1 DEF Rows
  <1>3. a \in Jobs \cup {0} /\ b \in Jobs \cup {0}
    BY <1>2
  <1>4. open = Cancelled(one, b)
    BY DEF Open
  <1> HIDE DEF a, b, open, one
  <1>5. /\ one \in [Jobs -> JobRows] /\ Live(one) = Live(w.job) \ {a}
        /\ \A k \in Jobs \ {a} : one[k] = w.job[k]
    BY <1>1, <1>3, CancelledIs DEF one
  <1>6. /\ open \in [Jobs -> JobRows] /\ Live(open) = Live(one) \ {b}
        /\ \A k \in Jobs \ {b} : open[k] = one[k]
    BY <1>3, <1>4, <1>5, CancelledIs
  <1>7. Live(open) = Live(w.job) \ {a, b}
    BY <1>5, <1>6
  <1>8. \A j \in Live(open) : open[j] = w.job[j]
    BY <1>5, <1>6, <1>7 DEF Live
  <1>9. 0 \notin Live(w.job)
    BY DEF Live, Jobs
  <1> QED BY <1>1, <1>6, <1>7, <1>8, <1>9 DEF a, b, open

(* What Moved does, field by field.                                        *)
MovedJob(w, to, reason, timed) ==
  LET open == Open(w, to, reason)
  IN IF timed THEN Enqueued(open, Fresh([w EXCEPT !.job = open]), TimerOf[to]) ELSE open

NewJob(w, to, reason, timed) ==
  IF timed THEN Fresh([w EXCEPT !.job = Open(w, to, reason)]) ELSE 0

LEMMA MovedIs ==
  ASSUME NEW w, NEW to, NEW reason, NEW timed
  PROVE  Moved(w, to, reason, timed) =
           IF ~Allowed(w.ses, to, reason) THEN w
           ELSE [w EXCEPT !.job = MovedJob(w, to, reason, timed),
                          !.ses = Transit(w.ses, to, reason, NewJob(w, to, reason, timed))]
  BY DEF Moved, MovedJob, NewJob, Open, Transit

LEMMA NewJobIs ==
  ASSUME NEW w, Timed(w), Active(w.ses), NEW to, NEW reason, NEW timed \in BOOLEAN,
         timed => to \in {"leaving", "reconnecting", "muted"}
  PROVE  LET new == NewJob(w, to, reason, timed)
             jobs == MovedJob(w, to, reason, timed)
             open == Open(w, to, reason)
         IN /\ jobs \in [Jobs -> JobRows] /\ new \in Jobs \cup {0}
            /\ Live(jobs) = Live(open) \cup (IF timed THEN {new} ELSE {})
            /\ \A j \in Live(open) : jobs[j] = w.job[j]
            /\ timed => /\ new \in Jobs \ {w.ses.timer, w.ses.muteJob} /\ new # 0
                        /\ jobs[new].kind = TimerOf[to]
                        /\ jobs[new].state = "pending" /\ ~InQueue(w.queue, new)
            /\ ~timed => new = 0
            /\ Claims(jobs, w.queue)
  <1> DEFINE new == NewJob(w, to, reason, timed)
             jobs == MovedJob(w, to, reason, timed)
             open == Open(w, to, reason)
             v == [w EXCEPT !.job = open]
  <1>1. /\ open \in [Jobs -> JobRows] /\ Live(open) \subseteq Live(w.job)
        /\ \A j \in Live(open) : open[j] = w.job[j]
        /\ Live(open) \subseteq {w.ses.timer, w.ses.muteJob}
    BY OpenIs
  <1>2. w \in Worlds /\ Claims(w.job, w.queue)
    BY DEF Timed
  <1>3. timed => new = Fresh(v) /\ jobs = Enqueued(open, new, TimerOf[to])
    BY DEF NewJob, MovedJob
  <1>4. ~timed => new = 0 /\ jobs = open
    BY DEF NewJob, MovedJob
  <1> HIDE DEF new, jobs, open
  <1>5. CASE timed
    <2>1. /\ v.ses = w.ses /\ v.job = open /\ v.queue = w.queue
          /\ w.ses \in Rows /\ w.queue \in Queues
      BY <1>2 DEF Worlds
    <2> HIDE DEF v
    <2>2. /\ Fresh(v) \in Jobs /\ Fresh(v) \notin {0, w.ses.timer, w.ses.muteJob}
          /\ ~InQueue(w.queue, Fresh(v))
      BY <1>1, <1>2, <2>1, FreshIs DEF Claims
    <2>3. TimerOf[to] \in {"connect", "reconnect", "leave", "mute", "empty"}
      BY <1>5, TimerIs
    <2>4. /\ jobs \in [Jobs -> JobRows] /\ Live(jobs) = Live(open) \cup {new}
          /\ jobs[new].kind = TimerOf[to] /\ jobs[new].state = "pending"
          /\ \A k \in Jobs \ {new} : jobs[k] = open[k]
      BY <1>1, <1>3, <1>5, <2>2, <2>3, EnqueuedIs
    <2>5. new \in Jobs \ {0, w.ses.timer, w.ses.muteJob} /\ ~InQueue(w.queue, new)
      BY <1>3, <1>5, <2>2
    <2>6. \A j \in Live(open) : jobs[j] = w.job[j]
      BY <1>1, <2>4, <2>5 DEF Live
    <2>7. Claims(jobs, w.queue)
      <3>1. \A j \in Live(jobs) :
              \/ j \in Live(w.job) /\ jobs[j] = w.job[j]
              \/ jobs[j].state = "pending" /\ ~InQueue(w.queue, j)
        BY <1>1, <2>4, <2>5, <2>6
      <3> QED BY <1>2, <3>1, ClaimsStay
    <2> QED BY <1>5, <2>4, <2>5, <2>6, <2>7 DEF new, jobs, open
  <1>6. CASE ~timed
    <2>1. Claims(jobs, w.queue)
      BY <1>1, <1>2, <1>4, <1>6, ClaimsStay
    <2> QED BY <1>1, <1>4, <1>6, <2>1 DEF new, jobs, open
  <1> QED BY <1>5, <1>6

LEMMA HeldAfter ==
  ASSUME NEW w, Timed(w), NEW to, NEW reason \in Reasons, NEW timed,
         Asks(w.ses, to, timed), Allowed(w.ses, to, reason)
  PROVE  Held(Transit(w.ses, to, reason, NewJob(w, to, reason, timed)),
              MovedJob(w, to, reason, timed))
  <1> DEFINE s == w.ses
             new == NewJob(w, to, reason, timed)
             jobs == MovedJob(w, to, reason, timed)
             open == Open(w, to, reason)
             t == Transit(s, to, reason, new)
             keepTimer == KeepsTimer(s, to, reason)
             keepMute == KeepsMute(s, to)
  <1>1. /\ Active(s) /\ s \in Rows /\ Held(s, w.job) /\ to \in States
        /\ timed \in BOOLEAN /\ (timed => to \in {"leaving", "reconnecting", "muted"})
    BY DEF Allowed, Timed, Worlds, Asks
  <1>2. /\ jobs \in [Jobs -> JobRows] /\ new \in Jobs \cup {0}
        /\ Live(jobs) = Live(open) \cup (IF timed THEN {new} ELSE {})
        /\ \A j \in Live(open) : jobs[j] = w.job[j]
        /\ timed => /\ new \in Jobs \ {s.timer, s.muteJob} /\ new # 0
                    /\ jobs[new].kind = TimerOf[to]
        /\ ~timed => new = 0
    BY <1>1, NewJobIs
  <1>3. /\ Live(open) \subseteq (IF keepTimer THEN {s.timer} ELSE {}) \cup
                                (IF keepMute THEN {s.muteJob} ELSE {})
        /\ Live(open) \subseteq Live(w.job)
        /\ keepTimer /\ ~keepMute => Live(open) = Live(w.job) \ {s.muteJob}
        /\ ~keepTimer => s.timer \notin Live(open)
    BY <1>1, OpenIs
  <1>4. /\ t.state = to /\ t \in Rows
        /\ t.timer = IF keepTimer /\ s.timer # 0 THEN s.timer
                     ELSE IF to = "muted" THEN 0 ELSE new
        /\ t.empty = (s.empty /\ keepTimer) /\ t.muted = (to = "muted" \/ keepMute)
        /\ t.muteJob = IF ~(to = "muted" \/ keepMute) THEN 0
                       ELSE IF keepMute /\ s.muteJob # 0 THEN s.muteJob ELSE new
    BY <1>1, <1>2, TransitIs
  <1> SUFFICES Held(t, jobs)
    OBVIOUS
  <1> HIDE DEF new, jobs, open, t
  <1>5. 0 \notin Live(jobs) /\ 0 \notin Live(w.job)
    BY DEF Live, Jobs
  <1>6. CASE to = "leaving"
    <2>1. ~keepTimer /\ ~keepMute /\ timed
      BY <1>6 DEF KeepsTimer, KeepsMute, Asks
    <2>2. t.timer = new /\ t.muteJob = 0 /\ ~t.muted /\ Live(jobs) = {new}
      BY <1>2, <1>3, <1>4, <1>6, <2>1
    <2> QED BY <1>2, <1>4, <1>6, <2>1, <2>2 DEF Held, Talking, Active
  <1>7. CASE to = "reconnecting"
    <2>1. ~keepTimer /\ timed /\ Talking(s)
      BY <1>1, <1>7 DEF KeepsTimer, Asks, Allowed, Talking
    <2>2. t.timer = new /\ new \in Live(jobs) /\ jobs[new].kind = TimerOf["reconnecting"]
      BY <1>2, <1>3, <1>4, <1>7, <2>1
    <2>3. CASE keepMute
      <3>1. t.muted /\ t.muteJob = IF s.muteJob # 0 THEN s.muteJob ELSE new
        BY <1>4, <1>7, <2>3
      <3>2. Live(jobs) \subseteq {t.timer, t.muteJob}
        BY <1>2, <1>3, <1>5, <2>1, <2>2, <2>3, <3>1
      <3>3. t.muteJob \in Live(jobs) => jobs[t.muteJob].kind = "mute" \/ t.muteJob = t.timer
        <4>1. CASE s.muteJob # 0
          <5>1. s.muteJob # s.timer /\ s.muteJob # new /\ t.muteJob = s.muteJob
            BY <1>1, <1>2, <2>1, <3>1, <4>1 DEF Held
          <5>2. s.muteJob \in Live(w.job) => w.job[s.muteJob].kind = "mute"
            BY <1>1, <5>1 DEF Held
          <5> QED BY <1>2, <1>3, <2>1, <5>1, <5>2
        <4>2. CASE s.muteJob = 0
          BY <2>2, <3>1, <4>2
        <4> QED BY <4>1, <4>2
      <3> QED BY <1>4, <1>7, <2>2, <3>1, <3>2, <3>3 DEF Held, Talking, Active
    <2>4. CASE ~keepMute
      BY <1>2, <1>3, <1>4, <1>7, <2>1, <2>2, <2>4 DEF Held, Talking, Active
    <2> QED BY <2>3, <2>4
  <1>8. CASE to \in {"inactive", "failed"}
    <2>1. ~keepTimer /\ ~keepMute /\ ~timed
      BY <1>8 DEF KeepsTimer, KeepsMute, Asks
    <2>2. Live(jobs) = {} /\ t.muteJob = 0 /\ ~t.muted
      BY <1>2, <1>3, <1>4, <1>8, <2>1
    <2> QED BY <1>4, <1>8, <2>2 DEF Held, Talking, Active
  <1>9. CASE to = "ready"
    <2>1. ~keepMute /\ ~timed /\ new = 0
      BY <1>2, <1>9 DEF KeepsMute, Asks
    <2>2. t.muteJob = 0 /\ ~t.muted /\ Live(jobs) = Live(open)
      BY <1>2, <1>4, <1>9, <2>1
    <2>3. CASE keepTimer
      <3>1. Talking(s)
        BY <2>3 DEF KeepsTimer, Talking
      <3>2. t.timer = s.timer /\ (t.empty <=> s.empty)
        <4>1. t.timer = s.timer
          BY <1>4, <1>9, <2>1, <2>3
        <4> QED BY <1>4, <2>3, <4>1
      <3>3. s.empty <=> s.timer # 0
        BY <1>1, <3>1 DEF Held
      <3>4. s.empty => s.timer \in Live(jobs) /\ jobs[s.timer].kind = "empty"
        <4>1. s.empty => s.timer \in Live(w.job) /\ w.job[s.timer].kind = "empty"
          BY <1>1, <3>1 DEF Held
        <4>2. s.empty => s.timer # s.muteJob
          BY <1>1, <3>1, <3>3 DEF Held
        <4> QED BY <1>2, <1>3, <2>1, <2>2, <2>3, <4>1, <4>2
      <3> QED BY <1>3, <1>4, <1>9, <2>1, <2>2, <2>3, <3>2, <3>3, <3>4 DEF Held, Talking, Active
    <2>4. CASE ~keepTimer
      <3>1. t.timer = 0 /\ ~t.empty /\ Live(jobs) = {}
        BY <1>3, <1>4, <1>9, <2>1, <2>2, <2>4
      <3> QED BY <1>4, <1>9, <2>2, <3>1 DEF Held, Talking, Active
    <2> QED BY <2>3, <2>4
  <1>10. CASE to = "muted" /\ s.state = "ready"
    <2>1. keepTimer /\ ~keepMute /\ Talking(s)
      BY <1>10 DEF KeepsTimer, KeepsMute, Talking
    <2>2. t.timer = s.timer /\ (t.empty <=> s.empty) /\ t.muted /\ t.muteJob = new
      <3>1. t.timer = s.timer /\ t.muted /\ t.muteJob = new
        BY <1>4, <1>10, <2>1
      <3> QED BY <1>4, <2>1, <3>1
    <2>3. s.empty <=> s.timer # 0
      BY <1>1, <2>1 DEF Held
    <2>4. s.muteJob = 0
      <3>1. ~s.muted
        BY <1>1, <1>10 DEF Held
      <3> QED BY <1>1, <3>1 DEF Held
    <2>5. s.empty => s.timer \in Live(jobs) /\ jobs[s.timer].kind = "empty"
      <3>1. s.empty => s.timer \in Live(w.job) /\ w.job[s.timer].kind = "empty"
        BY <1>1, <2>1 DEF Held
      <3> QED BY <1>2, <1>3, <1>5, <2>1, <2>4, <3>1
    <2>6. Live(jobs) \subseteq {s.timer, new}
      BY <1>2, <1>3, <2>1
    <2>7. new \in Live(jobs) => jobs[new].kind = "mute"
      BY <1>2, <1>5, <1>10, TimerIs
    <2>8. new # 0 => new # s.timer
      BY <1>2
    <2> QED BY <1>4, <1>10, <2>2, <2>3, <2>5, <2>6, <2>7, <2>8 DEF Held, Talking, Active
  <1>11. CASE to = "muted" /\ s.state # "ready"
    <2>1. s.state = "reconnecting"
      BY <1>1, <1>11 DEF Allowed, Talking, Rows
    <2>2. ~keepTimer /\ ~timed /\ new = 0 /\ Live(jobs) = Live(open)
      BY <1>2, <1>11, <2>1 DEF KeepsTimer, Asks
    <2>3. t.timer = 0 /\ ~t.empty /\ t.muted
      BY <1>4, <1>11, <2>2
    <2>4. CASE keepMute
      <3>2. Live(jobs) \subseteq {s.muteJob} /\ t.muteJob = s.muteJob
        BY <1>3, <1>4, <1>11, <2>2, <2>4
      <3>3. s.muteJob \in Live(jobs) => jobs[s.muteJob].kind = "mute"
        <4>1. s.timer \notin Live(open)
          BY <1>3, <2>2
        <4> QED BY <1>1, <1>2, <1>3, <2>2, <4>1 DEF Held
      <3> QED BY <1>4, <1>5, <1>11, <2>3, <3>2, <3>3 DEF Held, Talking, Active
    <2>5. CASE ~keepMute
      <3>1. Live(jobs) = {} /\ t.muteJob = 0
        BY <1>3, <1>4, <1>11, <2>2, <2>5
      <3> QED BY <1>4, <1>11, <2>3, <3>1 DEF Held, Talking, Active
    <2> QED BY <2>4, <2>5
  <1>12. to \in {"leaving", "reconnecting", "inactive", "failed", "ready", "muted"}
    BY DEF Asks, States
  <1> QED BY <1>6, <1>7, <1>8, <1>9, <1>10, <1>11, <1>12

LEMMA MovedKept ==
  ASSUME NEW w, Timed(w), Ours(w), NEW to, NEW reason \in Reasons, NEW timed,
         Asks(w.ses, to, timed)
  PROVE  LET x == Moved(w, to, reason, timed)
         IN /\ Timed(x) /\ Ours(x) /\ x.ses.id = w.ses.id
            /\ x.bind = w.bind /\ x.line = w.line
            /\ Allowed(w.ses, to, reason) => x.ses.state = to /\ x.ses.proof = w.ses.proof
            /\ ~Allowed(w.ses, to, reason) => x = w
            /\ (to = "ready" => ~w.ses.muted) => Onward(w, x)
  <1> DEFINE jobs == MovedJob(w, to, reason, timed)
             new == NewJob(w, to, reason, timed)
             t == Transit(w.ses, to, reason, new)
             x == Moved(w, to, reason, timed)
  <1>1. CASE ~Allowed(w.ses, to, reason)
    <2>1. x = w
      BY <1>1, MovedIs
    <2> QED BY <1>1, <2>1 DEF Onward
  <1>2. CASE Allowed(w.ses, to, reason)
    <2>1. x = [w EXCEPT !.job = jobs, !.ses = t]
      BY <1>2, MovedIs
    <2>2. /\ Active(w.ses) /\ w \in Worlds /\ w.ses \in Rows
          /\ timed \in BOOLEAN /\ (timed => to \in {"leaving", "reconnecting", "muted"})
          /\ to \in States /\ Held(w.ses, w.job)
      BY <1>2 DEF Allowed, Timed, Worlds, Asks, States
    <2>3. /\ jobs \in [Jobs -> JobRows] /\ new \in Jobs \cup {0} /\ Claims(jobs, w.queue)
      BY <2>2, NewJobIs
    <2>4. /\ t \in Rows /\ t.id = w.ses.id /\ t.state = to /\ t.gen >= w.ses.gen
          /\ t.muted = (to = "muted" \/ KeepsMute(w.ses, to)) /\ t.proof = w.ses.proof
      BY <1>2, <2>2, <2>3, TransitIs
    <2>5. Held(t, jobs)
      BY <1>2, HeldAfter
    <2> HIDE DEF jobs, new, t, x
    <2>6. /\ x \in Worlds /\ x.ses = t /\ x.job = jobs /\ x.queue = w.queue
          /\ x.bind = w.bind /\ x.line = w.line
      BY <2>1, <2>2, <2>3, <2>4 DEF Worlds
    <2>7. Timed(x)
      BY <2>3, <2>5, <2>6 DEF Timed
    <2>8. Ours(x)
      <3>1. w.bind.gen \in Nat /\ w.ses.gen \in Nat /\ t.gen \in Nat
        BY <2>2, <2>4 DEF Worlds, Bindings, Rows
      <3> QED BY <2>4, <2>6, <3>1 DEF Ours
    <2>9. Going(t) => Going(w.ses)
      BY <1>2, <2>4 DEF Going, Talking, Dialling, Allowed
    <2>10. ASSUME to = "ready" => ~w.ses.muted, w.ses.muted, Going(t)
           PROVE  t.muted
      <3>1. w.ses.state \in {"muted", "reconnecting"} /\ to \in {"muted", "reconnecting", "connecting"}
        BY <2>2, <2>4, <2>10 DEF Held, Going, Talking, Dialling
      <3>2. to # "connecting"
        BY DEF Asks
      <3> QED BY <1>2, <2>4, <3>1, <3>2 DEF KeepsMute, Allowed, Talking
    <2>11. (to = "ready" => ~w.ses.muted) => Onward(w, x)
      BY <2>4, <2>6, <2>9, <2>10 DEF Onward
    <2>12. x.ses.state = to /\ x.ses.proof = w.ses.proof /\ x.ses.id = w.ses.id
      BY <2>4, <2>6
    <2> QED BY <1>2, <2>6, <2>7, <2>8, <2>11, <2>12 DEF x
  <1> QED BY <1>1, <1>2

-----------------------------------------------------------------------------
(* What leaves the timers alone                                            *)

SameSession(s, t) ==
  /\ t.id = s.id /\ t.gen = s.gen /\ t.state = s.state /\ t.timer = s.timer
  /\ t.empty = s.empty /\ t.muted = s.muted /\ t.muteJob = s.muteJob

(* Nothing changes for the session, and it has its binding or none.        *)
Light(w, x) ==
  /\ x \in Worlds /\ x.job = w.job /\ x.queue = w.queue
  /\ SameSession(w.ses, x.ses)
  /\ \/ x.bind.sess = 0
     \/ x.bind.sess = w.bind.sess /\ x.bind.gen = w.bind.gen
     \/ Active(w.ses) /\ x.bind.sess = w.ses.id /\ x.bind.gen = w.ses.gen

LEMMA LightTransitive ==
  ASSUME NEW w, NEW x, NEW y, Light(w, x), Light(x, y)
  PROVE  Light(w, y)
  BY DEF Light, SameSession, Active

LEMMA LightKept ==
  ASSUME NEW w, NEW x, Timed(w), Ours(w), Light(w, x)
  PROVE  /\ Timed(x) /\ Ours(x) /\ Onward(w, x)
         /\ Sound(w) => Sound(x)
  <1>1. Timed(x)
    BY DEF Timed, Light, SameSession, Held, Talking, Active
  <1>2. Ours(x)
    <2>1. w.ses.gen \in Nat
      BY DEF Timed, Worlds, Rows
    <2> QED BY <2>1 DEF Ours, Light, SameSession
  <1>3. Onward(w, x)
    BY DEF Onward, Light, SameSession, Going, Talking, Dialling
  <1>4. Sound(w) => Sound(x)
    BY <1>1, <1>2 DEF Sound, Light, SameSession, Active
  <1> QED BY <1>1, <1>2, <1>3, <1>4

LEMMA ProofFailedIs ==
  ASSUME NEW w \in Worlds
  PROVE  /\ Light(w, ProofFailed(w)) /\ ProofFailed(w).bind = w.bind
         /\ ProofFailed(w).line = w.line
  BY DEF ProofFailed, Light, SameSession, Worlds, Rows

LEMMA RejectionStoredIs ==
  ASSUME NEW w \in Worlds
  PROVE  Light(w, RejectionStored(w)) /\ RejectionStored(w).bind = w.bind
  BY DEF RejectionStored, ProofFailed, Light, SameSession, Worlds, Rows

LEMMA LineIs ==
  ASSUME NEW ask \in {"join", "leave"}, NEW asks \in Seq({"join", "leave"})
  PROVE  Asked(ask, asks) \in Seq({"join", "leave"})
  BY DEF Asked

LEMMA HushedIs ==
  ASSUME NEW w \in Worlds
  PROVE  Light(w, Hushed(w))
  BY DEF Hushed, Light, SameSession, Worlds, Bindings, Tracks

LEMMA HungUpIs ==
  ASSUME NEW w \in Worlds
  PROVE  Light(w, HungUp(w))
  <1> DEFINE asks == Asked("leave", w.line)
  <1>1. asks \in Seq({"join", "leave"})
    BY LineIs DEF Worlds
  <1> HIDE DEF asks
  <1>2. Light(w, [w EXCEPT !.line = asks])
    BY <1>1 DEF Light, SameSession, Worlds
  <1>3. Light(w, w)
    BY DEF Light, SameSession
  <1> QED BY <1>2, <1>3 DEF HungUp, asks

LEMMA NoBindingType == NoBinding \in Bindings /\ NoBinding.sess = 0
  BY DEF NoBinding, Bindings, Tracks

LEMMA ReleasedIs ==
  ASSUME NEW w \in Worlds
  PROVE  /\ Light(w, Released(w))
         /\ Ours(w) => Released(w).bind.sess = 0
  <1> DEFINE calm == w.suppress \/ w.bind.connected
             x == [w EXCEPT !.suppress = calm, !.bind = NoBinding]
  <1>1. calm \in BOOLEAN
    OBVIOUS
  <1> HIDE DEF calm
  <1>2. Light(w, x) /\ x.bind.sess = 0
    BY <1>1, NoBindingType DEF Light, SameSession, Worlds
  <1>3. Light(w, w)
    BY DEF Light, SameSession
  <1>4. Released(w) = IF w.bind.sess # w.ses.id THEN w ELSE x
    BY DEF Released, calm
  <1> QED BY <1>2, <1>3, <1>4 DEF Ours

LEMMA FarewellIs ==
  ASSUME NEW w \in Worlds, NEW b \in BOOLEAN
  PROVE  Light(w, [w EXCEPT !.farewell = b])
  BY DEF Light, SameSession, Worlds

LEMMA TornDownIs ==
  ASSUME NEW w \in Worlds
  PROVE  Light(w, TornDown(w))
  <1> DEFINE a == [w EXCEPT !.farewell = FALSE]
             b == Hushed(a)
  <1>1. Light(w, a) /\ a \in Worlds
    BY FarewellIs DEF Light
  <1> HIDE DEF a
  <1>2. Light(a, b) /\ b \in Worlds
    BY <1>1, HushedIs DEF Light
  <1> HIDE DEF b
  <1>3. Light(b, HungUp(b))
    BY <1>2, HungUpIs
  <1>4. Light(w, HungUp(b))
    BY <1>1, <1>2, <1>3, LightTransitive
  <1> QED BY <1>4 DEF TornDown, a, b

LEMMA ClosedIs ==
  ASSUME NEW w \in Worlds
  PROVE  Light(w, Closed(w)) /\ (Ours(w) => Closed(w).bind.sess = 0)
  <1> DEFINE a == TornDown(w)
  <1>1. Light(w, a) /\ a \in Worlds
    BY TornDownIs DEF Light
  <1> HIDE DEF a
  <1>2. Light(a, Released(a)) /\ (Ours(a) => Released(a).bind.sess = 0)
    BY <1>1, ReleasedIs
  <1>3. Ours(w) => Ours(a)
    <2>1. w.ses.gen \in Nat
      BY DEF Worlds, Rows
    <2> QED BY <1>1, <2>1 DEF Ours, Light, SameSession
  <1>4. Light(w, Released(a))
    BY <1>1, <1>2, LightTransitive
  <1> QED BY <1>2, <1>3, <1>4 DEF Closed, a

LEMMA ThrownIs ==
  ASSUME NEW w \in Worlds
  PROVE  Light(w, Thrown(w))
  BY DEF Thrown, Light, SameSession, Worlds

LEMMA RejoinedIs ==
  ASSUME NEW w \in Worlds, NEW n \in Nat
  PROVE  Light(w, [w EXCEPT !.rejoined = n])
  BY DEF Light, SameSession, Worlds

-----------------------------------------------------------------------------
(* The handlers keep a sound world sound                                   *)

Kept(w, x) == Sound(x) /\ Onward(w, x)

LEMMA KeptTransitive ==
  ASSUME NEW w, NEW x, NEW y, Kept(w, x), Kept(x, y)
  PROVE  Kept(w, y)
  BY OnwardTransitive DEF Kept

LEMMA LightIsKept ==
  ASSUME NEW w, NEW x, Sound(w), Light(w, x)
  PROVE  Kept(w, x)
  BY LightKept DEF Kept, Sound

LEMMA SoundType ==
  ASSUME NEW w, Sound(w)
  PROVE  /\ w \in Worlds /\ Timed(w) /\ Ours(w) /\ w.ses \in Rows
         /\ Kept(w, w)
  BY DEF Sound, Timed, Worlds, Kept, Onward

LEMMA DialledKept ==
  ASSUME NEW w, Sound(w), Active(w.ses), humans \in 0..1
  PROVE  Kept(w, Dialled(w))
  <1> DEFINE calm == w.suppress \/ w.bind.sess \notin {0, w.ses.id}
             link == [NoBinding EXCEPT !.sess = w.ses.id, !.gen = w.ses.gen,
                                       !.humans = humans]
             asks == Asked("join", w.line)
             x == [w EXCEPT !.suppress = calm, !.bind = link, !.line = asks]
  <1>1. w \in Worlds /\ w.ses \in Rows
    BY SoundType
  <1>2. link \in Bindings /\ link.sess = w.ses.id /\ link.gen = w.ses.gen
    BY <1>1 DEF NoBinding, Bindings, Tracks, Rows
  <1>3. asks \in Seq({"join", "leave"}) /\ calm \in BOOLEAN
    BY <1>1, LineIs DEF Worlds
  <1> HIDE DEF calm, link, asks
  <1>4. Light(w, x)
    BY <1>1, <1>2, <1>3 DEF Light, SameSession, Worlds
  <1>5. Dialled(w) = x
    BY DEF Dialled, calm, link, asks
  <1> QED BY <1>4, <1>5, LightIsKept

(* A session that ends lets go of the connection.                          *)
LEMMA EndedKept ==
  ASSUME NEW w, Sound(w), NEW to \in {"inactive", "failed"}, NEW reason \in Reasons
  PROVE  Kept(w, Released(Moved(w, to, reason, FALSE)))
  <1> DEFINE x == Moved(w, to, reason, FALSE)
             y == Released(x)
  <1>1. Asks(w.ses, to, FALSE)
    BY DEF Asks, States
  <1>2. Timed(x) /\ Ours(x) /\ Onward(w, x)
    BY <1>1, SoundType, MovedKept
  <1> HIDE DEF x
  <1>3. Light(x, y) /\ y.bind.sess = 0
    BY <1>2, ReleasedIs DEF Timed
  <1>4. Timed(y) /\ Ours(y) /\ Onward(x, y)
    BY <1>2, <1>3, LightKept
  <1>5. Onward(w, y)
    BY <1>2, <1>4, OnwardTransitive
  <1> HIDE DEF y
  <1>6. Kept(w, y)
    BY <1>3, <1>4, <1>5 DEF Kept, Sound
  <1> QED BY <1>6 DEF x, y

(* A transition to a state of an active session.                           *)
LEMMA GoesOnKept ==
  ASSUME NEW w, Sound(w), NEW to, NEW reason \in Reasons, NEW timed,
         Asks(w.ses, to, timed), to \notin {"inactive", "failed"},
         to = "ready" => ~w.ses.muted
  PROVE  /\ Kept(w, Moved(w, to, reason, timed))
         /\ Allowed(w.ses, to, reason) => Moved(w, to, reason, timed).ses.state = to
  <1> DEFINE x == Moved(w, to, reason, timed)
  <1>1. /\ Timed(x) /\ Ours(x) /\ Onward(w, x) /\ x.bind = w.bind
        /\ Allowed(w.ses, to, reason) => x.ses.state = to
        /\ ~Allowed(w.ses, to, reason) => x = w
    BY SoundType, MovedKept
  <1> HIDE DEF x
  <1>2. x.bind.sess # 0 => Active(x.ses)
    BY <1>1 DEF Sound, Active
  <1> QED BY <1>1, <1>2 DEF Kept, Sound, x

LEMMA FailKept ==
  ASSUME NEW w, Sound(w), NEW o
  PROVE  Kept(w, Fail(w, o))
  <1> DEFINE a == TornDown(w)
             torn == [a EXCEPT !.rejoined = 0]
             b == ProofFailed(torn)
             y == Released(Moved(b, "failed", "voice_failure", FALSE))
  <1>1. Light(w, a) /\ a \in Worlds
    BY SoundType, TornDownIs DEF Light
  <1> HIDE DEF a
  <1>2. Light(a, torn)
    BY <1>1, RejoinedIs
  <1>3. Kept(w, torn) /\ torn \in Worlds
    BY <1>1, <1>2, LightTransitive, LightIsKept DEF Light
  <1> HIDE DEF torn
  <1>4. Kept(torn, Thrown(torn)) /\ Kept(torn, b)
    BY <1>3, ThrownIs, ProofFailedIs, LightIsKept DEF Kept
  <1> HIDE DEF b
  <1>5. Kept(b, y)
    BY <1>4, EndedKept DEF Kept, Reasons
  <1> HIDE DEF y
  <1>6. Kept(w, Thrown(torn)) /\ Kept(w, y)
    BY <1>3, <1>4, <1>5, KeptTransitive
  <1> DEFINE short == o.writes < ProofWrites(w) + 1
  <1>7. Fail(w, o) = IF short THEN Thrown(torn) ELSE y
    BY DEF Fail, a, torn, b, y
  <1> HIDE DEF short
  <1> QED BY <1>6, <1>7

LEMMA RejoinKept ==
  ASSUME NEW w, Sound(w), Active(w.ses), humans \in 0..1, NEW o
  PROVE  Kept(w, Rejoin(w, o))
  <1> DEFINE d == [w EXCEPT !.rejoined = w.ses.id]
  <1>1. Light(w, d)
    BY SoundType, RejoinedIs DEF Rows
  <1>2. Kept(w, d)
    BY <1>1, LightIsKept
  <1>3. Active(d.ses)
    BY <1>1 DEF Light, SameSession, Active
  <1> HIDE DEF d
  <1>4. Kept(d, Dialled(d)) /\ Kept(d, Fail(d, o))
    BY <1>2, <1>3, DialledKept, FailKept DEF Kept
  <1>5. Kept(w, Dialled(d)) /\ Kept(w, Fail(d, o)) /\ Kept(w, w)
    BY <1>2, <1>4, KeptTransitive, SoundType
  <1>6. Rejoin(w, o) = w \/ Rejoin(w, o) = Dialled(d) \/ Rejoin(w, o) = Fail(d, o)
    BY DEF Rejoin, d
  <1> QED BY <1>5, <1>6

LEMMA GoneKept ==
  ASSUME NEW w, Sound(w), Active(w.ses), humans \in 0..1, NEW o
  PROVE  Kept(w, Gone(w, o))
  <1> DEFINE s == w.ses
             settled == ProofFailed(w)
             again == Talking(s) /\ s.rejoins = 0
             left == Moved(settled, "inactive", "commanded_leave_complete", FALSE)
             parted == Released([left EXCEPT !.farewell = FALSE])
             back == Moved(settled, "reconnecting", "unexpected_disconnect", TRUE)
  <1>1. Light(w, settled) /\ Kept(w, settled) /\ Active(settled.ses)
    BY SoundType, ProofFailedIs, LightIsKept DEF Light, SameSession, Active
  <1>s. Sound(settled) /\ Timed(settled) /\ Ours(settled)
    BY <1>1, SoundType DEF Kept
  <1>2. Kept(w, Thrown(w)) /\ Kept(w, Fail(w, o)) /\ Kept(w, Rejoin(settled, o))
    <2>1. Kept(settled, Rejoin(settled, o))
      BY <1>1, RejoinKept DEF Kept
    <2> QED BY <1>1, <2>1, SoundType, ThrownIs, LightIsKept, FailKept, KeptTransitive
  <1>3. Kept(w, parted)
    <2> DEFINE x == [left EXCEPT !.farewell = FALSE]
    <2>1. Asks(settled.ses, "inactive", FALSE)
      BY DEF Asks, States
    <2> HIDE DEF settled
    <2>2. Timed(left) /\ Ours(left) /\ Onward(settled, left)
      BY <1>s, <2>1, MovedKept DEF Reasons
    <2> HIDE DEF left
    <2>3. Light(left, x) /\ x \in Worlds
      BY <2>2, FarewellIs DEF Timed, Light
    <2>4. Timed(x) /\ Ours(x)
      BY <2>2, <2>3, LightKept
    <2> HIDE DEF x
    <2>5. Light(left, parted) /\ parted.bind.sess = 0
      BY <2>3, <2>4, ReleasedIs, LightTransitive DEF x
    <2> HIDE DEF parted
    <2>6. Timed(parted) /\ Ours(parted) /\ Onward(left, parted)
      BY <2>2, <2>5, LightKept
    <2>7. Onward(w, parted)
      BY <1>1, <2>2, <2>6, OnwardTransitive DEF Kept
    <2> QED BY <2>5, <2>6, <2>7 DEF Kept, Sound
  <1>4. ASSUME again PROVE Kept(w, Rejoin(back, o))
    <2>1. Asks(settled.ses, "reconnecting", TRUE)
      BY DEF Asks, States
    <2>2. Kept(settled, back)
      <3> HIDE DEF settled
      <3> QED BY <1>s, <2>1, GoesOnKept DEF Reasons
    <2>3. Allowed(settled.ses, "reconnecting", "unexpected_disconnect")
      <3>1. settled.ses.rejoins = s.rejoins
        BY SoundType DEF ProofFailed, Worlds, Rows
      <3>2. settled.ses.state = s.state
        BY <1>1 DEF Light, SameSession
      <3> HIDE DEF settled
      <3> QED BY <1>1, <1>4, <3>1, <3>2 DEF Allowed, Talking
    <2>4. back.ses.state = "reconnecting"
      <3> DEFINE reason == "unexpected_disconnect"
      <3>1. reason \in Reasons
        BY DEF Reasons
      <3>2. back = Moved(settled, "reconnecting", reason, TRUE)
        OBVIOUS
      <3>3. Sound(settled) /\ Allowed(settled.ses, "reconnecting", reason)
        BY <1>1, <2>3 DEF Kept
      <3> HIDE DEF settled, reason, back
      <3>4. Moved(settled, "reconnecting", reason, TRUE).ses.state = "reconnecting"
        BY <2>1, <3>1, <3>3, GoesOnKept
      <3> QED BY <3>2, <3>4
    <2> HIDE DEF back
    <2>5. Kept(back, Rejoin(back, o))
      BY <2>2, <2>4, RejoinKept DEF Kept, Active
    <2> HIDE DEF settled
    <2> QED BY <1>1, <2>2, <2>5, KeptTransitive
  <1> DEFINE few == o.writes < ProofWrites(w)
             short == o.writes < ProofWrites(w) + 1
  <1>5. Gone(w, o) =
          CASE s.state = "reconnecting" -> IF few THEN Thrown(w) ELSE Rejoin(settled, o)
            [] s.state = "leaving" -> IF short THEN Thrown(w) ELSE parted
            [] again -> IF short THEN Thrown(w) ELSE Rejoin(back, o)
            [] OTHER -> Fail(w, o)
    BY DEF Gone
  <1> HIDE DEF few, short, settled, parted, back, again
  <1> DEFINE x == Gone(w, o)
  <1>6. CASE s.state = "reconnecting"
    <2>1. ~again
      BY <1>6 DEF again, Talking
    <2>2. x = IF few THEN Thrown(w) ELSE Rejoin(settled, o)
      BY <1>5, <1>6, <2>1
    <2> QED BY <1>2, <2>2
  <1>7. CASE s.state = "leaving"
    <2>1. ~again
      BY <1>7 DEF again, Talking
    <2>2. x = IF short THEN Thrown(w) ELSE parted
      BY <1>5, <1>7, <2>1
    <2> QED BY <1>2, <1>3, <2>2
  <1>8. CASE again
    <2>1. s.state \notin {"reconnecting", "leaving"}
      BY <1>8 DEF again, Talking
    <2>2. x = IF short THEN Thrown(w) ELSE Rejoin(back, o)
      BY <1>5, <1>8, <2>1
    <2> QED BY <1>2, <1>4, <1>8, <2>2
  <1>9. CASE s.state \notin {"reconnecting", "leaving"} /\ ~again
    BY <1>2, <1>5, <1>9
  <1> QED BY <1>6, <1>7, <1>8, <1>9

(* The timer of an empty channel comes and goes.                           *)
LEMMA OccupiedKept ==
  ASSUME NEW w, Sound(w), NEW n
  PROVE  Kept(w, Occupied(w, n))
  <1> DEFINE s == w.ses
             new == Fresh(w)
             filled == [s EXCEPT !.empty = FALSE, !.timer = 0]
             emptied == [s EXCEPT !.empty = TRUE, !.timer = new]
             fewer == Cancelled(w.job, s.timer)
             more == Enqueued(w.job, new, "empty")
             same == ~Talking(s) \/ s.empty = (n = 0)
             a == [w EXCEPT !.ses = emptied, !.job = more]
             b == [w EXCEPT !.ses = filled, !.job = fewer]
  <1>1. /\ w \in Worlds /\ s \in Rows /\ w.job \in [Jobs -> JobRows] /\ w.queue \in Queues
        /\ Held(s, w.job) /\ Claims(w.job, w.queue) /\ Len(w.queue) <= QueueCap
    BY DEF Sound, Timed, Worlds, Claims
  <1>2. Occupied(w, n) = IF same THEN w ELSE IF n = 0 THEN a ELSE b
    BY DEF Occupied
  <1>3. s.timer \in Jobs \cup {0} /\ s.muteJob \in Jobs \cup {0} /\ 0 \notin Jobs
    BY <1>1 DEF Rows, Jobs
  <1>4. ASSUME Talking(s), ~s.empty
        PROVE  Kept(w, a)
    <2>1. s.timer = 0 /\ s.empty = FALSE /\ Active(s)
      BY <1>1, <1>4 DEF Held, Talking, Active, Rows
    <2>2. Live(w.job) \subseteq {s.timer, s.muteJob}
      BY <1>1, <2>1 DEF Held
    <2>3. /\ new \in Jobs /\ new # 0 /\ new # s.muteJob /\ ~InQueue(w.queue, new)
      BY <1>1, <2>2, FreshIs
    <2> HIDE DEF new
    <2>4. /\ more \in [Jobs -> JobRows] /\ Live(more) = Live(w.job) \cup {new}
          /\ more[new].kind = "empty" /\ more[new].state = "pending"
          /\ \A k \in Jobs \ {new} : more[k] = w.job[k]
      BY <1>1, <2>3, EnqueuedIs
    <2>5. emptied \in Rows /\ emptied.timer = new /\ emptied.empty = TRUE
          /\ emptied.state = s.state /\ emptied.muted = s.muted /\ emptied.muteJob = s.muteJob
          /\ emptied.id = s.id /\ emptied.gen = s.gen
      BY <1>1, <2>3 DEF Rows
    <2>6. \A j \in Live(more) : j = new \/ (j \in Live(w.job) /\ more[j] = w.job[j])
      BY <2>4 DEF Live
    <2> HIDE DEF more, emptied
    <2>7. Live(more) \subseteq {new, s.muteJob}
      BY <1>3, <2>1, <2>2, <2>4 DEF Live
    <2>8. s.muteJob \in Live(more) => more[s.muteJob].kind = "mute"
      <3> SUFFICES ASSUME s.muteJob \in Live(more) PROVE more[s.muteJob].kind = "mute"
        OBVIOUS
      <3>1. s.muteJob \in Live(w.job) /\ more[s.muteJob] = w.job[s.muteJob]
        BY <2>3, <2>6
      <3>2. s.muteJob # s.timer
        BY <1>3, <2>1, <3>1 DEF Live
      <3> QED BY <1>1, <3>1, <3>2 DEF Held
    <2>9. Held(emptied, more)
      <3>1. Talking(emptied) /\ Active(emptied)
        BY <1>4, <2>1, <2>5 DEF Talking, Active
      <3>2. emptied.state \in {"ready", "muted"}
        BY <3>1 DEF Talking
      <3>3. /\ s.muteJob # 0 => s.muted
            /\ s.muted => s.state \in {"muted", "reconnecting"}
            /\ s.state = "muted" => s.muted
        BY <1>1 DEF Held
      <3>4. new \in Live(more)
        BY <2>4
      <3> QED BY <2>3, <2>4, <2>5, <2>7, <2>8, <3>1, <3>2, <3>3, <3>4 DEF Held
    <2>10. Claims(more, w.queue)
      BY <1>1, <2>3, <2>4, <2>6, ClaimsStay
    <2>11. a \in Worlds /\ a.ses = emptied /\ a.job = more /\ a.queue = w.queue /\ a.bind = w.bind
      BY <1>1, <2>4, <2>5 DEF Worlds
    <2> HIDE DEF a
    <2>12. Timed(a)
      BY <2>9, <2>10, <2>11 DEF Timed
    <2>13. Ours(a) /\ (a.bind.sess # 0 => Active(a.ses))
      BY <2>5, <2>11 DEF Ours, Sound, Active
    <2>14. Onward(w, a)
      BY <2>5, <2>11 DEF Onward, Going, Talking, Dialling
    <2> QED BY <2>12, <2>13, <2>14 DEF Kept, Sound
  <1>5. ASSUME Talking(s), s.empty
        PROVE  Kept(w, b)
    <2>1. s.timer # 0 /\ Active(s)
      BY <1>1, <1>5 DEF Held, Talking, Active, Rows
    <2>2. Live(w.job) \subseteq {s.timer, s.muteJob}
      BY <1>1, <2>1 DEF Held
    <2>3. /\ fewer \in [Jobs -> JobRows] /\ Live(fewer) = Live(w.job) \ {s.timer}
          /\ \A k \in Jobs \ {s.timer} : fewer[k] = w.job[k]
      BY <1>1, <1>3, CancelledIs
    <2>4. filled \in Rows /\ filled.timer = 0 /\ filled.empty = FALSE
          /\ filled.state = s.state /\ filled.muted = s.muted /\ filled.muteJob = s.muteJob
          /\ filled.id = s.id /\ filled.gen = s.gen
      BY <1>1 DEF Rows
    <2>5. \A j \in Live(fewer) : j \in Live(w.job) /\ fewer[j] = w.job[j]
      BY <2>3 DEF Live
    <2> HIDE DEF fewer, filled
    <2>6. Live(fewer) \subseteq {0, s.muteJob}
      BY <2>2, <2>3
    <2>7. s.muteJob \in Live(fewer) => fewer[s.muteJob].kind = "mute"
      <3> SUFFICES ASSUME s.muteJob \in Live(fewer) PROVE fewer[s.muteJob].kind = "mute"
        OBVIOUS
      <3>1. s.muteJob \in Live(w.job) /\ fewer[s.muteJob] = w.job[s.muteJob] /\ s.muteJob # s.timer
        BY <2>3, <2>5
      <3> QED BY <1>1, <3>1 DEF Held
    <2>8. Held(filled, fewer)
      <3>1. Talking(filled) /\ Active(filled)
        BY <1>5, <2>1, <2>4 DEF Talking, Active
      <3>2. filled.state \in {"ready", "muted"}
        BY <3>1 DEF Talking
      <3>3. /\ s.muteJob # 0 => s.muted
            /\ s.muted => s.state \in {"muted", "reconnecting"}
            /\ s.state = "muted" => s.muted
        BY <1>1 DEF Held
      <3> QED BY <2>4, <2>6, <2>7, <3>1, <3>2, <3>3 DEF Held
    <2>9. Claims(fewer, w.queue)
      BY <1>1, <2>5, ClaimsStay
    <2>10. b \in Worlds /\ b.ses = filled /\ b.job = fewer /\ b.queue = w.queue /\ b.bind = w.bind
      BY <1>1, <2>3, <2>4 DEF Worlds
    <2> HIDE DEF b
    <2>11. Timed(b)
      BY <2>8, <2>9, <2>10 DEF Timed
    <2>12. Ours(b) /\ (b.bind.sess # 0 => Active(b.ses))
      BY <2>4, <2>10 DEF Ours, Sound, Active
    <2>13. Onward(w, b)
      BY <2>4, <2>10 DEF Onward, Going, Talking, Dialling
    <2> QED BY <2>11, <2>12, <2>13 DEF Kept, Sound
  <1>6. s.empty \in BOOLEAN
    BY <1>1 DEF Rows
  <1>7. Kept(w, w)
    BY SoundType
  <1> HIDE DEF a, b
  <1>8. CASE same
    BY <1>2, <1>7, <1>8
  <1>9. CASE ~same
    <2>1. Talking(s) /\ (s.empty <=> n # 0)
      BY <1>6, <1>9
    <2> HIDE DEF same
    <2> QED BY <1>2, <1>4, <1>5, <1>9, <2>1
  <1> QED BY <1>8, <1>9

(* The audio of the proof, its marker, and what becomes of both.           *)
LEMMA ProvedKept ==
  ASSUME NEW w, Sound(w), NEW o, NEW used
  PROVE  Kept(w, Proved(w, o, used))
  <1>1. w \in Worlds /\ w.ses \in Rows /\ w.bind \in Bindings /\ w.ses.id \in Nat
    BY DEF Sound, Timed, Worlds, Rows
  <1> DEFINE sent == [w EXCEPT !.ses.proof = "queued", !.bind.track = "proof", !.bind.done = "none"]
             refused == [w EXCEPT !.ses.proof = "queued", !.rejected = w.ses.id]
             over == [w EXCEPT !.ses.proof = "failed"]
  <1>2. Light(w, sent) /\ Light(w, over)
    BY <1>1 DEF Light, SameSession, Worlds, Rows, Bindings, Tracks
  <1>3. Light(w, refused)
    BY <1>1 DEF Light, SameSession, Worlds, Rows
  <1>4. Kept(w, w) /\ Kept(w, Thrown(w)) /\ Kept(w, sent) /\ Kept(w, over)
    BY <1>1, <1>2, SoundType, ThrownIs, LightIsKept
  <1>5. Kept(w, Thrown(refused))
    <2> HIDE DEF refused
    <2>1. Light(refused, Thrown(refused))
      BY <1>3, ThrownIs DEF Light
    <2> QED BY <1>3, <2>1, LightTransitive, LightIsKept
  <1> DEFINE x == Proved(w, o, used)
  <1>6. x \in {w, Thrown(w), sent, Thrown(refused), over}
    <2> DEFINE none == w.ses.state # "ready" \/ w.ses.proof # "pending"
               short == o.writes < used + 1
               takes == o.taken /\ w.bind.sess = w.ses.id /\ w.bind.ready
               shorter == o.writes < used + 2
    <2>1. x = IF none THEN w ELSE IF short THEN Thrown(w) ELSE IF takes THEN sent
              ELSE IF shorter THEN Thrown(refused) ELSE over
      BY DEF Proved
    <2> HIDE DEF x, none, short, takes, shorter, sent, refused, over
    <2> QED BY <2>1
  <1> HIDE DEF x, sent, refused, over
  <1>7. Kept(w, x)
    BY <1>4, <1>5, <1>6
  <1> QED BY <1>7 DEF x

LEMMA ReadyKept ==
  ASSUME NEW w, Sound(w), NEW e, NEW o
  PROVE  Kept(w, Ready(w, e, o))
  <1> DEFINE s == w.ses
             back == s.state = "reconnecting" /\ s.muted
             to == IF back THEN "muted" ELSE "ready"
             used == IF Dialling(s) THEN 1 + ProofWrites(w) ELSE 0
             settled == ProofFailed(w)
             moved == Moved(settled, to, "voice_ready", FALSE)
             joined == IF ~Dialling(s) THEN w ELSE [moved EXCEPT !.rejoined = 0]
             proved == Proved(joined, o, used)
             x == Ready(w, e, o)
  <1>1. Light(w, settled) /\ Kept(w, settled)
    BY SoundType, ProofFailedIs, LightIsKept
  <1>2. ASSUME Dialling(s) PROVE Kept(w, moved)
    <2>1. s.muted => s.state \in {"muted", "reconnecting"}
      BY DEF Sound, Timed, Held
    <2>2. settled.ses.muted = s.muted /\ settled.ses.state = s.state
      BY <1>1 DEF Light, SameSession
    <2>3. to \in {"muted", "ready"} /\ (to = "ready" => ~s.muted)
      BY <1>2, <2>1 DEF Dialling
    <2>4. Sound(settled)
      BY <1>1 DEF Kept
    <2> HIDE DEF settled, to
    <2>5. Asks(settled.ses, to, FALSE) /\ to \notin {"inactive", "failed"}
      BY <2>3 DEF Asks, States
    <2>6. Kept(settled, moved)
      BY <2>2, <2>3, <2>4, <2>5, GoesOnKept DEF Reasons
    <2> QED BY <1>1, <2>6, KeptTransitive
  <1>3. Kept(w, joined)
    <2>1. CASE ~Dialling(s)
      BY <2>1, SoundType
    <2>2. CASE Dialling(s)
      <3> DEFINE none == [moved EXCEPT !.rejoined = 0]
      <3>1. Kept(w, moved)
        BY <1>2, <2>2
      <3> HIDE DEF moved
      <3>2. Kept(moved, none)
        BY <3>1, SoundType, RejoinedIs, LightIsKept DEF Kept
      <3>3. joined = none
        BY <2>2
      <3> HIDE DEF none, joined
      <3> QED BY <3>1, <3>2, <3>3, KeptTransitive
    <2> QED BY <2>1, <2>2
  <1> DEFINE fails == o.writes < used
  <1>4. x = IF fails THEN Thrown(w) ELSE IF proved.reconcile THEN proved
            ELSE Occupied(proved, e.humans)
    BY DEF Ready
  <1>5. Kept(w, Thrown(w))
    BY SoundType, ThrownIs, LightIsKept
  <1> HIDE DEF x, joined, fails, used
  <1>6. Kept(joined, proved)
    BY <1>3, ProvedKept DEF Kept
  <1> HIDE DEF proved
  <1>7. Kept(w, proved)
    BY <1>3, <1>6, KeptTransitive
  <1>8. Kept(proved, Occupied(proved, e.humans))
    BY <1>7, OccupiedKept DEF Kept
  <1>9. Kept(w, Occupied(proved, e.humans))
    BY <1>7, <1>8, KeptTransitive
  <1>10. Kept(w, x)
    BY <1>4, <1>5, <1>7, <1>9
  <1> QED BY <1>10 DEF x

LEMMA MarkerKept ==
  ASSUME NEW w, Sound(w), NEW e, NEW o
  PROVE  Kept(w, Marker(w, e, o))
  <1> DEFINE played == [w EXCEPT !.ses.proof = "played"]
             x == Marker(w, e, o)
  <1>1. w \in Worlds /\ w.ses \in Rows
    BY DEF Sound, Timed, Worlds
  <1>2. Light(w, played)
    BY <1>1 DEF Light, SameSession, Worlds, Rows
  <1>3. x \in {w, TornDown(w), Thrown(w), played}
    BY DEF Marker
  <1> HIDE DEF x, played
  <1>4. Kept(w, x)
    BY <1>1, <1>2, <1>3, SoundType, TornDownIs, ThrownIs, LightIsKept
  <1> QED BY <1>4 DEF x

LEMMA HandledKept ==
  ASSUME NEW w, Sound(w), humans \in 0..1, NEW e, NEW o,
         e.kind \in {"ready", "marker", "humans", "moved", "gone", "error"}
  PROVE  Kept(w, Handled(w, e, o))
  <1> DEFINE x == Handled(w, e, o)
  <1>1. Kept(w, w) /\ Kept(w, Thrown(w)) /\ Kept(w, HungUp(w))
    BY SoundType, ThrownIs, HungUpIs, LightIsKept
  <1>2. Concerns(w.ses, e) => Active(w.ses)
    BY DEF Concerns
  <1>3. CASE ~Concerns(w.ses, e)
    <2>1. x = w
      BY <1>3 DEF Handled
    <2> QED BY <1>1, <2>1
  <1>4. CASE Concerns(w.ses, e) /\ e.kind = "ready"
    <2>1. x = Ready(w, e, o)
      BY <1>4 DEF Handled
    <2> QED BY <2>1, ReadyKept
  <1>5. CASE Concerns(w.ses, e) /\ e.kind = "marker"
    <2>1. x = Marker(w, e, o)
      BY <1>5 DEF Handled
    <2> QED BY <2>1, MarkerKept
  <1>6. CASE Concerns(w.ses, e) /\ e.kind = "humans"
    <2>1. x \in {Thrown(w), Occupied(w, e.humans)}
      BY <1>6 DEF Handled
    <2> QED BY <1>1, <2>1, OccupiedKept
  <1>7. CASE Concerns(w.ses, e) /\ e.kind = "moved"
    <2>1. x \in {HungUp(w), Fail(w, o)}
      BY <1>7 DEF Handled
    <2> QED BY <1>1, <2>1, FailKept
  <1>8. CASE Concerns(w.ses, e) /\ e.kind = "gone"
    <2>1. x = Gone(w, o)
      BY <1>8 DEF Handled
    <2> QED BY <1>2, <1>8, <2>1, GoneKept
  <1>9. CASE Concerns(w.ses, e) /\ e.kind = "error"
    <2>1. x = Fail(w, o)
      BY <1>9 DEF Handled
    <2> QED BY <2>1, FailKept
  <1> QED BY <1>3, <1>4, <1>5, <1>6, <1>7, <1>8, <1>9

LEMMA ReconciledKept ==
  ASSUME NEW w0, Sound(w0), humans \in 0..1, NEW o
  PROVE  Kept(w0, Reconciled(w0, o))
  <1> DEFINE w == [w0 EXCEPT !.reconcile = FALSE]
             s == w.ses
             stored == RejectionStored(w)
             snap == IF w.bind.sess = s.id THEN w.bind ELSE NoBinding
             seen == [snap EXCEPT !.sess = s.id,
                                  !.gen = IF snap.sess = 0 THEN s.gen ELSE @]
             now == [seen EXCEPT !.gen = s.gen]
             marked == IF snap.done = "none" THEN stored
                       ELSE Handled(stored, Event("marker", now), o)
             none == [w EXCEPT !.rejected = 0]
             x == Reconciled(w0, o)
  <1>0. w0 \in Worlds
    BY SoundType
  <1>1. Light(w0, w)
    BY <1>0 DEF Light, SameSession, Worlds
  <1>2. Kept(w0, w) /\ w \in Worlds
    BY <1>1, LightIsKept DEF Light
  <1>3. x = IF ~Active(s) THEN none
            ELSE IF o.writes = 0 /\ stored.ses # s THEN Thrown(w)
            ELSE IF snap.moved /\ s.state # "leaving"
            THEN Handled(stored, Event("moved", seen), o)
            ELSE IF /\ snap.ready /\ snap.gen = s.gen
                    /\ Dialling(s) \/ (s.state = "ready" /\ stored.ses.proof = "pending")
            THEN Handled(stored, Event("ready", seen), o)
            ELSE IF \/ snap.sess = 0
                    \/ ~snap.connected /\ s.state \in {"ready", "reconnecting", "leaving"}
            THEN Handled(stored, Event("gone", seen), o)
            ELSE IF ~Active(marked.ses) \/ marked.reconcile THEN marked
            ELSE Handled(marked, Event("humans", now), o)
    BY DEF Reconciled
  <1> HIDE DEF x, w
  <1>4. Light(w, none)
    BY <1>2 DEF Light, SameSession, Worlds
  <1>5. Light(w, stored)
    BY <1>2, RejectionStoredIs
  <1>6. Kept(w, none) /\ Kept(w, Thrown(w)) /\ Kept(w, stored)
    BY <1>2, <1>4, <1>5, ThrownIs, LightIsKept DEF Kept
  <1> HIDE DEF stored, snap, seen, now, none
  <1>7. ASSUME NEW kind \in {"ready", "marker", "humans", "moved", "gone", "error"}, NEW b
        PROVE  Event(kind, b).kind = kind
    BY DEF Event
  <1>8. ASSUME NEW kind \in {"ready", "marker", "humans", "moved", "gone", "error"}, NEW b
        PROVE  Kept(w, Handled(stored, Event(kind, b), o))
    <2>1. Kept(stored, Handled(stored, Event(kind, b), o))
      BY <1>6, <1>7, HandledKept DEF Kept
    <2> QED BY <1>6, <2>1, KeptTransitive
  <1>9. Kept(w, marked)
    BY <1>6, <1>8
  <1> HIDE DEF marked
  <1>10. Kept(w, Handled(marked, Event("humans", now), o))
    <2>1. Kept(marked, Handled(marked, Event("humans", now), o))
      BY <1>7, <1>9, HandledKept DEF Kept
    <2> QED BY <1>9, <2>1, KeptTransitive
  <1>11. x \in {none, Thrown(w), Handled(stored, Event("moved", seen), o),
                Handled(stored, Event("ready", seen), o),
                Handled(stored, Event("gone", seen), o), marked,
                Handled(marked, Event("humans", now), o)}
    <2> DEFINE c1 == ~Active(s)
               c2 == o.writes = 0 /\ stored.ses # s
               c3 == snap.moved /\ s.state # "leaving"
               c4 == /\ snap.ready /\ snap.gen = s.gen
                     /\ Dialling(s) \/ (s.state = "ready" /\ stored.ses.proof = "pending")
               c5 == \/ snap.sess = 0
                     \/ ~snap.connected /\ s.state \in {"ready", "reconnecting", "leaving"}
               c6 == ~Active(marked.ses) \/ marked.reconcile
               h1 == Handled(stored, Event("moved", seen), o)
               h2 == Handled(stored, Event("ready", seen), o)
               h3 == Handled(stored, Event("gone", seen), o)
               h4 == Handled(marked, Event("humans", now), o)
    <2>1. x = IF c1 THEN none ELSE IF c2 THEN Thrown(w) ELSE IF c3 THEN h1
              ELSE IF c4 THEN h2 ELSE IF c5 THEN h3 ELSE IF c6 THEN marked ELSE h4
      BY <1>3
    <2>2. x \in {none, Thrown(w), h1, h2, h3, marked, h4}
      <3> HIDE DEF c1, c2, c3, c4, c5, c6, h1, h2, h3, h4
      <3> QED BY <2>1
    <2> QED BY <2>2
  <1>12. Kept(w, x)
    <2>1. /\ Kept(w, Handled(stored, Event("moved", seen), o))
          /\ Kept(w, Handled(stored, Event("ready", seen), o))
          /\ Kept(w, Handled(stored, Event("gone", seen), o))
      BY <1>8
    <2> QED BY <1>6, <1>9, <1>10, <1>11, <2>1
  <1>13. Kept(w0, x)
    BY <1>2, <1>12, KeptTransitive
  <1> QED BY <1>13 DEF x

-----------------------------------------------------------------------------
(* A timeout job in the hand of the worker, out of the queue               *)

InHand(w, j) ==
  /\ w \in Worlds /\ j \in Jobs /\ Held(w.ses, w.job) /\ w.job[j].state = "claimed"
  /\ ~InQueue(w.queue, j) /\ Len(w.queue) <= QueueCap
  /\ \A k \in Live(w.job) \ {j} : w.job[k].state = "claimed" <=> InQueue(w.queue, k)
  /\ \A i, k \in DOMAIN w.queue :
       /\ w.queue[i].kind = "job" /\ w.queue[k].kind = "job"
       /\ w.queue[i].job = w.queue[k].job
       => i = k
  /\ Ours(w) /\ (w.bind.sess # 0 => Active(w.ses))

(* The job given back to the scheduler.                                    *)
Pended(w, j) == [w EXCEPT !.job[j].state = "pending"]

LEMMA PendedSound ==
  ASSUME NEW w, NEW j, InHand(w, j)
  PROVE  /\ Sound(Pended(w, j)) /\ Onward(w, Pended(w, j))
         /\ Pended(w, j).ses = w.ses /\ Pended(w, j).bind = w.bind
         /\ Pended(w, j).job[j].kind = w.job[j].kind
  <1> DEFINE rows == [w.job EXCEPT ![j].state = "pending"]
             x == [w EXCEPT !.job = rows]
  <1>1. w \in Worlds /\ w.job \in [Jobs -> JobRows] /\ j \in Jobs /\ w.ses \in Rows
    BY DEF InHand, Worlds
  <1>2. /\ rows \in [Jobs -> JobRows] /\ rows[j].state = "pending"
        /\ \A k \in Jobs : rows[k].kind = w.job[k].kind
        /\ \A k \in Jobs \ {j} : rows[k] = w.job[k]
    BY <1>1 DEF JobRows
  <1>3. Live(rows) = Live(w.job)
    BY <1>1, <1>2 DEF Live, InHand
  <1> HIDE DEF rows
  <1>4. x \in Worlds /\ x.ses = w.ses /\ x.bind = w.bind /\ x.job = rows /\ x.queue = w.queue
    BY <1>1, <1>2 DEF Worlds
  <1>5. Pended(w, j) = x
    BY <1>1 DEF Pended, Worlds, rows
  <1> HIDE DEF x
  <1>6. Held(w.ses, rows)
    <2>1. Held(w.ses, w.job)
      BY DEF InHand
    <2>2. \A k \in Live(rows) : rows[k].kind = w.job[k].kind
      BY <1>2 DEF Live
    <2> QED BY <1>3, <2>1, <2>2 DEF Held
  <1>7. Claims(rows, w.queue)
    <2>1. \A k \in Live(rows) : rows[k].state = "claimed" <=> InQueue(w.queue, k)
      <3> SUFFICES ASSUME NEW k \in Live(rows)
                   PROVE  rows[k].state = "claimed" <=> InQueue(w.queue, k)
        OBVIOUS
      <3>1. CASE k = j
        BY <1>2, <3>1 DEF InHand
      <3>2. CASE k # j
        BY <1>2, <1>3, <3>2 DEF InHand, Live
      <3> QED BY <3>1, <3>2
    <2> QED BY <2>1 DEF Claims, InHand
  <1>8. Sound(x)
    BY <1>4, <1>6, <1>7 DEF Sound, Timed, Ours, InHand
  <1>9. Onward(w, x)
    BY <1>4 DEF Onward
  <1> QED BY <1>1, <1>2, <1>4, <1>5, <1>8, <1>9

(* The session named the job, and for what its kind says.                  *)
LEMMA InHandNamed ==
  ASSUME NEW w, NEW j, InHand(w, j)
  PROVE  LET s == w.ses
             kind == w.job[j].kind
         IN /\ Active(s) /\ Linked(s, j, kind) /\ j # 0
            /\ \/ kind = "empty" /\ Talking(s) /\ s.empty /\ j = s.timer
               \/ kind = "mute" /\ s.muted /\ j = s.muteJob /\ s.state \in {"muted", "reconnecting"}
               \/ kind = "leave" /\ s.state = "leaving" /\ j = s.timer
               \/ kind = "connect" /\ s.state = "connecting" /\ j = s.timer
               \/ kind = "reconnect" /\ s.state = "reconnecting" /\ j = s.timer
  <1> DEFINE s == w.ses
             kind == w.job[j].kind
  <1>1. Held(s, w.job) /\ j \in Live(w.job) /\ s \in Rows /\ j # 0
    BY DEF InHand, Live, Worlds, Jobs
  <1>2. Active(s) /\ j \in {s.timer, s.muteJob}
    BY <1>1 DEF Held
  <1>3. s.state \in {"connecting", "reconnecting", "leaving", "ready", "muted"}
    BY <1>1, <1>2 DEF Active, Rows, States
  <1>4. CASE j = s.timer
    <2>1. \/ kind = "empty" /\ Talking(s) /\ s.empty
          \/ kind = "leave" /\ s.state = "leaving"
          \/ kind = "connect" /\ s.state = "connecting"
          \/ kind = "reconnect" /\ s.state = "reconnecting"
      BY <1>1, <1>3, <1>4, TimerIs DEF Held, Talking
    <2> QED BY <1>1, <1>2, <1>4, <2>1 DEF Linked
  <1>5. CASE j # s.timer
    <2>1. j = s.muteJob /\ kind = "mute" /\ s.muted /\ s.state \in {"muted", "reconnecting"}
      BY <1>1, <1>2, <1>5 DEF Held
    <2> QED BY <1>1, <1>2, <2>1 DEF Linked
  <1> QED BY <1>4, <1>5

LEMMA CancelledBoth ==
  ASSUME NEW jobs \in [Jobs -> JobRows], NEW a \in Jobs \cup {0}, NEW b \in Jobs \cup {0}
  PROVE  Cancelled(Cancelled(jobs, a), b)
           = [k \in Jobs |-> IF k \in {a, b} THEN NoJob ELSE jobs[k]]
  <1> DEFINE one == Cancelled(jobs, a)
             two == Cancelled(one, b)
  <1>1. one = [k \in Jobs |-> IF k = a THEN NoJob ELSE jobs[k]]
    <2>1. CASE a = 0
      BY <2>1 DEF Cancelled, Jobs
    <2>2. CASE a # 0
      BY <2>2 DEF Cancelled
    <2> QED BY <2>1, <2>2
  <1> HIDE DEF one
  <1>2. two = [k \in Jobs |-> IF k = b THEN NoJob ELSE one[k]]
    <2>1. CASE b = 0
      BY <1>1, <2>1 DEF Cancelled, Jobs
    <2>2. CASE b # 0
      BY <1>1, <2>2 DEF Cancelled
    <2> QED BY <2>1, <2>2
  <1>3. two = [k \in Jobs |-> IF k \in {a, b} THEN NoJob ELSE jobs[k]]
    BY <1>1, <1>2
  <1> QED BY <1>3 DEF one

(* A transition that drops the job is the one from the job given back.     *)
LEMMA MovedOver ==
  ASSUME NEW w \in Worlds, NEW j \in Jobs, NEW to, NEW reason,
         Allowed(w.ses, to, reason),
         \/ j = w.ses.timer /\ ~KeepsTimer(w.ses, to, reason)
         \/ j = w.ses.muteJob /\ ~KeepsMute(w.ses, to)
  PROVE  Moved([w EXCEPT !.job[j] = NoJob], to, reason, FALSE)
           = Moved(Pended(w, j), to, reason, FALSE)
  <1> DEFINE s == w.ses
             a == IF KeepsTimer(s, to, reason) THEN 0 ELSE s.timer
             b == IF KeepsMute(s, to) THEN 0 ELSE s.muteJob
             none == [w.job EXCEPT ![j] = NoJob]
             rows == [w.job EXCEPT ![j].state = "pending"]
             over == [w EXCEPT !.job = none]
             pend == [w EXCEPT !.job = rows]
  <1>1. w.job \in [Jobs -> JobRows] /\ s \in Rows /\ j # 0
    BY DEF Worlds, Jobs
  <1>2. a \in Jobs \cup {0} /\ b \in Jobs \cup {0} /\ j \in {a, b}
    BY <1>1 DEF Rows
  <1>3. none \in [Jobs -> JobRows] /\ rows \in [Jobs -> JobRows]
    BY <1>1 DEF JobRows, NoJob
  <1>4. \A k \in Jobs \ {j} : none[k] = rows[k]
    BY <1>1
  <1> HIDE DEF none, rows, a, b
  <1>5. Cancelled(Cancelled(none, a), b) = Cancelled(Cancelled(rows, a), b)
    <2> DEFINE f == Cancelled(Cancelled(none, a), b)
               g == Cancelled(Cancelled(rows, a), b)
    <2>1. /\ f = [k \in Jobs |-> IF k \in {a, b} THEN NoJob ELSE none[k]]
          /\ g = [k \in Jobs |-> IF k \in {a, b} THEN NoJob ELSE rows[k]]
      BY <1>2, <1>3, CancelledBoth
    <2> HIDE DEF f, g
    <2>2. \A k \in Jobs : (IF k \in {a, b} THEN NoJob ELSE none[k])
                          = (IF k \in {a, b} THEN NoJob ELSE rows[k])
      BY <1>2, <1>4
    <2>3. f = g
      BY <2>1, <2>2
    <2> QED BY <2>3 DEF f, g
  <1>6. /\ over.ses = s /\ pend.ses = s /\ over.job = none /\ pend.job = rows
        /\ \A f, r : [over EXCEPT !.job = f, !.ses = r] = [pend EXCEPT !.job = f, !.ses = r]
    BY DEF Worlds
  <1>7. [w EXCEPT !.job[j] = NoJob] = over /\ Pended(w, j) = pend
    BY <1>1 DEF none, rows, Pended, Worlds
  <1> HIDE DEF over, pend
  <1>8. Open(over, to, reason) = Open(pend, to, reason)
    BY <1>5, <1>6 DEF Open, a, b
  <1>9. /\ MovedJob(over, to, reason, FALSE) = MovedJob(pend, to, reason, FALSE)
        /\ NewJob(over, to, reason, FALSE) = NewJob(pend, to, reason, FALSE)
    BY <1>8 DEF MovedJob, NewJob
  <1>10. Moved(over, to, reason, FALSE) = Moved(pend, to, reason, FALSE)
    BY <1>6, <1>9, MovedIs
  <1> QED BY <1>7, <1>10

LEMMA InHandLight ==
  ASSUME NEW w, NEW j, InHand(w, j), NEW x, Light(w, x)
  PROVE  InHand(x, j) /\ Onward(w, x)
  <1>1. /\ x \in Worlds /\ x.job = w.job /\ x.queue = w.queue /\ SameSession(w.ses, x.ses)
    BY DEF Light
  <1>2. Held(x.ses, x.job)
    BY <1>1 DEF InHand, Held, SameSession, Talking, Active
  <1>3. Ours(x) /\ (x.bind.sess # 0 => Active(x.ses))
    <2>1. w.ses.gen \in Nat
      BY DEF InHand, Worlds, Rows
    <2> QED BY <1>1, <2>1 DEF Light, InHand, Ours, SameSession, Active
  <1>4. Onward(w, x)
    BY <1>1 DEF Onward, Going, Talking, Dialling, SameSession
  <1> QED BY <1>1, <1>2, <1>3, <1>4 DEF InHand

LEMMA ClosedKept ==
  ASSUME NEW w, Sound(w), NEW to \in {"inactive", "failed"}, NEW reason \in Reasons
  PROVE  Kept(w, Closed(Moved(w, to, reason, FALSE)))
  <1> DEFINE x == Moved(w, to, reason, FALSE)
             y == Closed(x)
  <1>1. Asks(w.ses, to, FALSE)
    BY DEF Asks, States
  <1>2. Timed(x) /\ Ours(x) /\ Onward(w, x)
    BY <1>1, SoundType, MovedKept
  <1> HIDE DEF x
  <1>3. Light(x, y) /\ y.bind.sess = 0
    BY <1>2, ClosedIs DEF Timed
  <1>4. Timed(y) /\ Ours(y) /\ Onward(x, y)
    BY <1>2, <1>3, LightKept
  <1>5. Onward(w, y)
    BY <1>2, <1>4, OnwardTransitive
  <1> HIDE DEF y
  <1>6. Kept(w, y)
    BY <1>3, <1>4, <1>5 DEF Kept, Sound
  <1> QED BY <1>6 DEF x, y

(* A timeout that ends the session.                                        *)
LEMMA ExpiredKept ==
  ASSUME NEW w, NEW j, InHand(w, j), NEW to \in {"inactive", "failed"}, NEW reason \in Reasons,
         Allowed(w.ses, to, reason)
  PROVE  Kept(w, Closed(Moved(ProofFailed([w EXCEPT !.job[j] = NoJob]), to, reason, FALSE)))
  <1> DEFINE v == ProofFailed(w)
             pend == Pended(v, j)
             over == [v EXCEPT !.job[j] = NoJob]
             x == Moved(over, to, reason, FALSE)
  <1>1. w \in Worlds /\ j \in Jobs /\ w.ses \in Rows
    BY DEF InHand, Worlds
  <1>2. Light(w, v) /\ v \in Worlds
    BY <1>1, ProofFailedIs DEF Light
  <1>3. ProofFailed([w EXCEPT !.job[j] = NoJob]) = over
    BY <1>1 DEF ProofFailed, Worlds
  <1>4. v.ses.rejoins = w.ses.rejoins
    BY <1>1 DEF ProofFailed, Worlds, Rows
  <1> HIDE DEF v
  <1>5. InHand(v, j) /\ Onward(w, v)
    BY <1>2, InHandLight
  <1>6. Allowed(v.ses, to, reason)
    BY <1>2, <1>4 DEF Light, SameSession, Allowed, Active, Talking
  <1>7. j \in {v.ses.timer, v.ses.muteJob}
    BY <1>5, InHandNamed
  <1>8. ~KeepsTimer(v.ses, to, reason) /\ ~KeepsMute(v.ses, to)
    BY DEF KeepsTimer, KeepsMute
  <1>9. x = Moved(pend, to, reason, FALSE)
    BY <1>1, <1>2, <1>6, <1>7, <1>8, MovedOver
  <1>10. Sound(pend) /\ Onward(v, pend)
    BY <1>5, PendedSound
  <1> HIDE DEF pend
  <1>11. Kept(pend, Closed(x))
    BY <1>9, <1>10, ClosedKept
  <1> HIDE DEF x
  <1>12. Kept(w, Closed(x))
    BY <1>5, <1>10, <1>11, OnwardTransitive DEF Kept
  <1> QED BY <1>3, <1>12 DEF x

(* The mute of a session that reconnects expires.                          *)
LEMMA MuteLapsed ==
  ASSUME NEW w, NEW j, InHand(w, j), w.job[j].kind = "mute", w.ses.state = "reconnecting"
  PROVE  LET x == [[w EXCEPT !.job[j] = NoJob] EXCEPT !.ses.muted = FALSE, !.ses.muteJob = 0]
         IN Sound(x) /\ x.ses.id = w.ses.id /\ x.ses.state = w.ses.state
  <1> DEFINE s == w.ses
             row == [s EXCEPT !.muted = FALSE, !.muteJob = 0]
             rows == [w.job EXCEPT ![j] = NoJob]
             x == [w EXCEPT !.job = rows, !.ses = row]
  <1>1. /\ w \in Worlds /\ w.job \in [Jobs -> JobRows] /\ j \in Jobs /\ s \in Rows
        /\ Held(s, w.job) /\ s.timer \in Jobs \cup {0}
    BY DEF InHand, Worlds, Rows
  <1>2. j = s.muteJob /\ j # 0
    BY InHandNamed
  <1>3. s.timer \in Live(w.job) /\ w.job[s.timer].kind = "reconnect"
    BY <1>1, TimerIs DEF Held
  <1>4. /\ rows \in [Jobs -> JobRows] /\ Live(rows) = Live(w.job) \ {j}
        /\ \A k \in Jobs \ {j} : rows[k] = w.job[k]
    BY <1>1 DEF NoJob, JobRows, Live
  <1>5. /\ row \in Rows /\ row.state = s.state /\ row.timer = s.timer /\ row.muted = FALSE
        /\ row.muteJob = 0 /\ row.id = s.id /\ row.gen = s.gen
    BY <1>1 DEF Rows
  <1> HIDE DEF row, rows
  <1>6. Live(w.job) \subseteq {s.timer, s.muteJob}
    BY <1>1 DEF Held, Active
  <1>7. s.timer # j
    BY <1>3
  <1>8. Held(row, rows)
    <2>1. s.timer \in Live(rows) /\ rows[s.timer].kind = "reconnect"
      BY <1>3, <1>4, <1>7 DEF Live
    <2>2. Live(rows) \subseteq {s.timer, 0}
      BY <1>2, <1>4, <1>6
    <2>3. 0 \notin Live(rows)
      BY DEF Live, Jobs
    <2> QED BY <1>5, <2>1, <2>2, <2>3, TimerIs DEF Held, Talking, Active
  <1>9. Claims(rows, w.queue)
    <2>1. \A k \in Live(rows) : k \in Live(w.job) \ {j} /\ rows[k] = w.job[k]
      BY <1>4 DEF Live
    <2> QED BY <2>1 DEF Claims, InHand
  <1>10. x \in Worlds /\ x.ses = row /\ x.job = rows /\ x.queue = w.queue /\ x.bind = w.bind
    BY <1>1, <1>4, <1>5 DEF Worlds
  <1>11. [[w EXCEPT !.job[j] = NoJob] EXCEPT !.ses.muted = FALSE, !.ses.muteJob = 0] = x
    BY <1>1 DEF Worlds, Rows, row, rows
  <1> HIDE DEF x
  <1>12. Sound(x)
    BY <1>5, <1>8, <1>9, <1>10 DEF Sound, Timed, Ours, InHand, Active
  <1> QED BY <1>5, <1>10, <1>11, <1>12

LEMMA GoesOnSound ==
  ASSUME NEW w, Sound(w), NEW to, NEW reason \in Reasons, NEW timed,
         Asks(w.ses, to, timed), to \notin {"inactive", "failed"}
  PROVE  Sound(Moved(w, to, reason, timed)) /\ Moved(w, to, reason, timed).ses.id = w.ses.id
  <1> DEFINE x == Moved(w, to, reason, timed)
  <1>1. /\ Timed(x) /\ Ours(x) /\ x.bind = w.bind /\ x.ses.id = w.ses.id
        /\ Allowed(w.ses, to, reason) => x.ses.state = to
        /\ ~Allowed(w.ses, to, reason) => x = w
    BY SoundType, MovedKept
  <1> HIDE DEF x
  <1>2. x.bind.sess # 0 => Active(x.ses)
    BY <1>1 DEF Sound, Active
  <1> QED BY <1>1, <1>2 DEF Sound, x

(* The mute of a session that is muted expires.                            *)
LEMMA MuteOver ==
  ASSUME NEW w, NEW j, InHand(w, j), w.job[j].kind = "mute", w.ses.state = "muted"
  PROVE  LET x == Moved([w EXCEPT !.job[j] = NoJob], "ready", "mute_expired", FALSE)
         IN Sound(x) /\ x.ses.id = w.ses.id
  <1> DEFINE pend == Pended(w, j)
             x == Moved(pend, "ready", "mute_expired", FALSE)
  <1>1. w \in Worlds /\ j \in Jobs /\ j = w.ses.muteJob
    BY InHandNamed DEF InHand
  <1>2. Allowed(w.ses, "ready", "mute_expired") /\ ~KeepsMute(w.ses, "ready")
    BY DEF Allowed, Active, Talking, KeepsMute
  <1>3. Moved([w EXCEPT !.job[j] = NoJob], "ready", "mute_expired", FALSE) = x
    BY <1>1, <1>2, MovedOver
  <1>4. Sound(pend) /\ pend.ses = w.ses
    BY PendedSound
  <1>5. Asks(pend.ses, "ready", FALSE) /\ "mute_expired" \in Reasons
    BY DEF Asks, States, Reasons
  <1> HIDE DEF pend
  <1>6. Sound(x) /\ x.ses.id = pend.ses.id
    BY <1>4, <1>5, GoesOnSound
  <1> QED BY <1>3, <1>4, <1>6

(* Only the expiry of the mute lifts it.                                   *)
LEMMA TimedOutKept ==
  ASSUME NEW w0, NEW j, InHand(w0, j), NEW o
  PROVE  LET x == TimedOut(w0, j, o)
         IN /\ Sound(x) /\ x.ses.id = w0.ses.id
            /\ Onward(w0, x) \/ w0.job[j].kind = "mute"
            /\ Active(w0.ses) /\ (Going(x.ses) => Going(w0.ses))
  <1> DEFINE w == IF Active(w0.ses) THEN RejectionStored(w0) ELSE w0
             s == w.ses
             kind == w.job[j].kind
             over == [w EXCEPT !.job[j] = NoJob]
             back == w.bind.sess = s.id /\ w.bind.humans > 0
             filled == [over EXCEPT !.ses.empty = FALSE, !.ses.timer = 0]
             lapsed == [over EXCEPT !.ses.muted = FALSE, !.ses.muteJob = 0]
             lifted == Moved(over, "ready", "mute_expired", FALSE)
             ended(to, reason) == Closed(Moved(ProofFailed(over), to, reason, FALSE))
             x == TimedOut(w0, j, o)
  <1>1. w0 \in Worlds /\ j \in Jobs /\ Active(w0.ses)
    BY InHandNamed DEF InHand
  <1>2. Light(w0, w)
    BY <1>1, RejectionStoredIs
  <1>3. w.job = w0.job /\ w0.job[j].state = "claimed"
    BY <1>2 DEF Light, InHand
  <1>4. x = IF w.job[j].state # "claimed" THEN w
            ELSE IF o.writes = 0 THEN [w0 EXCEPT !.job[j].state = "pending"]
            ELSE IF ~Linked(s, j, kind) THEN over
            ELSE CASE kind = "empty" /\ back -> filled
                   [] kind = "empty" /\ ~back -> ended("inactive", "empty_timeout")
                   [] kind = "mute" /\ s.state = "reconnecting" -> lapsed
                   [] kind = "mute" /\ s.state # "reconnecting" -> lifted
                   [] kind = "leave" -> ended("inactive", "leave_timeout")
                   [] kind \in {"connect", "reconnect"} -> ended("failed", "timeout")
    BY DEF TimedOut
  <1> HIDE DEF x, w
  <1>5. InHand(w, j) /\ Onward(w0, w) /\ w.ses.id = w0.ses.id /\ w.ses.state = w0.ses.state
    BY <1>2, InHandLight DEF Light, SameSession
  <1>6. /\ Active(s) /\ Linked(s, j, kind) /\ j # 0 /\ w \in Worlds /\ s \in Rows
        /\ \/ kind = "empty" /\ Talking(s) /\ s.empty /\ j = s.timer
           \/ kind = "mute" /\ s.muted /\ j = s.muteJob /\ s.state \in {"muted", "reconnecting"}
           \/ kind = "leave" /\ s.state = "leaving" /\ j = s.timer
           \/ kind = "connect" /\ s.state = "connecting" /\ j = s.timer
           \/ kind = "reconnect" /\ s.state = "reconnecting" /\ j = s.timer
    BY <1>5, InHandNamed DEF InHand, Worlds
  <1>7. Sound(Pended(w0, j)) /\ Onward(w0, Pended(w0, j))
    BY PendedSound
  <1> DEFINE Good == Sound(x) /\ Onward(w0, x)
             Muted == Sound(x) /\ x.ses.id = w.ses.id /\ kind = "mute" /\ Going(w0.ses)
  <1>8. ASSUME o.writes # 0 PROVE Good \/ Muted
    <2>1. CASE kind = "empty" /\ back
      <3> DEFINE pend == Pended(w, j)
                 n == 1
      <3>1. x = filled
        BY <1>3, <1>4, <1>6, <1>8, <2>1
      <3>2. Sound(pend) /\ Onward(w, pend) /\ pend.ses = s /\ pend \in Worlds
        BY <1>5, PendedSound, SoundType
      <3>3. filled = Occupied(pend, n)
        <4> DEFINE rows == [w.job EXCEPT ![j].state = "pending"]
                   none == [w.job EXCEPT ![j] = NoJob]
                   row == [s EXCEPT !.empty = FALSE, !.timer = 0]
        <4>1. w.job \in [Jobs -> JobRows] /\ s \in Rows /\ s.timer = j /\ s.empty = TRUE /\ Talking(s)
          BY <1>6, <2>1 DEF Worlds, Rows
        <4>2. filled = [w EXCEPT !.job = none, !.ses = row]
          BY <1>6, <4>1 DEF Worlds, Rows
        <4>3. pend = [w EXCEPT !.job = rows]
          BY <1>6 DEF Pended, Worlds
        <4>4. Cancelled(rows, s.timer) = none
          BY <1>6, <4>1 DEF Cancelled, NoJob, JobRows
        <4>5. Occupied(pend, n) = [pend EXCEPT !.ses.empty = FALSE, !.ses.timer = 0,
                                               !.job = Cancelled(@, s.timer)]
          <5>1. Talking(pend.ses) /\ pend.ses.empty = TRUE /\ ~(n = 0)
            BY <3>2, <4>1
          <5>2. ~(~Talking(pend.ses) \/ pend.ses.empty = (n = 0))
            BY <5>1
          <5> HIDE DEF pend, n
          <5> QED BY <3>2, <5>1, <5>2 DEF Occupied
        <4>6. pend.job = rows /\ pend.ses = s
          BY <1>6, <3>2, <4>3 DEF Worlds
        <4>7. Occupied(pend, n) = [pend EXCEPT !.ses = row, !.job = none]
          <5> HIDE DEF rows, none
          <5>1. [pend EXCEPT !.ses.empty = FALSE, !.ses.timer = 0,
                             !.job = Cancelled(@, s.timer)]
                  = [pend EXCEPT !.ses = row, !.job = Cancelled(rows, s.timer)]
            <6> HIDE DEF pend
            <6> QED BY <3>2, <4>6 DEF Worlds, Rows
          <5> QED BY <4>4, <4>5, <5>1
        <4> HIDE DEF rows, none, row
        <4>8. [pend EXCEPT !.ses = row, !.job = none] = [w EXCEPT !.job = none, !.ses = row]
          BY <1>6, <4>3 DEF Worlds
        <4> QED BY <4>2, <4>7, <4>8
      <3> HIDE DEF pend, filled, n
      <3>4. Kept(pend, filled)
        BY <3>2, <3>3, OccupiedKept
      <3> QED BY <1>5, <3>1, <3>2, <3>4, OnwardTransitive DEF Kept
    <2>2. CASE kind = "empty" /\ ~back
      <3>1. x = ended("inactive", "empty_timeout")
        BY <1>3, <1>4, <1>6, <1>8, <2>2
      <3>2. Allowed(s, "inactive", "empty_timeout")
        BY <1>6, <2>2 DEF Allowed
      <3>3. Kept(w, ended("inactive", "empty_timeout"))
        BY <1>5, <3>2, ExpiredKept DEF Reasons
      <3> HIDE DEF ended
      <3> QED BY <1>5, <3>1, <3>3, OnwardTransitive DEF Kept
    <2>3. CASE kind = "leave"
      <3>1. x = ended("inactive", "leave_timeout")
        BY <1>3, <1>4, <1>6, <1>8, <2>3
      <3>2. Allowed(s, "inactive", "leave_timeout")
        BY <1>6, <2>3 DEF Allowed
      <3>3. Kept(w, ended("inactive", "leave_timeout"))
        BY <1>5, <3>2, ExpiredKept DEF Reasons
      <3> HIDE DEF ended
      <3> QED BY <1>5, <3>1, <3>3, OnwardTransitive DEF Kept
    <2>4. CASE kind \in {"connect", "reconnect"}
      <3>1. x = ended("failed", "timeout")
        BY <1>3, <1>4, <1>6, <1>8, <2>4
      <3>2. Allowed(s, "failed", "timeout")
        BY <1>6, <2>4 DEF Allowed
      <3>3. Kept(w, ended("failed", "timeout"))
        BY <1>5, <3>2, ExpiredKept DEF Reasons
      <3> HIDE DEF ended
      <3> QED BY <1>5, <3>1, <3>3, OnwardTransitive DEF Kept
    <2>5. CASE kind = "mute" /\ s.state = "reconnecting"
      <3>1. x = lapsed
        BY <1>3, <1>4, <1>6, <1>8, <2>5
      <3>2. Sound(lapsed) /\ lapsed.ses.id = s.id
        BY <1>5, <2>5, MuteLapsed
      <3>3. Going(w0.ses)
        BY <1>5, <2>5 DEF Going, Dialling
      <3> QED BY <2>5, <3>1, <3>2, <3>3
    <2>6. CASE kind = "mute" /\ s.state = "muted"
      <3>1. x = lifted
        BY <1>3, <1>4, <1>6, <1>8, <2>6
      <3>2. Sound(lifted) /\ lifted.ses.id = s.id
        BY <1>5, <2>6, MuteOver
      <3>3. Going(w0.ses)
        BY <1>5, <2>6 DEF Going, Talking
      <3> QED BY <2>6, <3>1, <3>2, <3>3
    <2> QED BY <1>6, <2>1, <2>2, <2>3, <2>4, <2>5, <2>6
  <1>9. ASSUME o.writes = 0 PROVE Good
    BY <1>3, <1>4, <1>7, <1>9 DEF Pended
  <1>10. Good \/ Muted
    BY <1>8, <1>9
  <1>11. Onward(w0, x) => x.ses.id = w0.ses.id /\ (Going(x.ses) => Going(w0.ses))
    BY DEF Onward
  <1> QED BY <1>1, <1>3, <1>5, <1>10, <1>11 DEF x

-----------------------------------------------------------------------------
(* The queue and the ends of a session                                     *)

LEMMA StartedSound ==
  ASSUME NEW w, Sound(w), ~Active(w.ses)
  PROVE  Sound([w EXCEPT !.ses = Session(w.ses.id + 1, "connecting", Fresh(w)),
                         !.job = Enqueued(w.job, Fresh(w), "connect"), !.farewell = FALSE])
  <1> DEFINE new == Fresh(w)
             row == Session(w.ses.id + 1, "connecting", new)
             rows == Enqueued(w.job, new, "connect")
             x == [w EXCEPT !.ses = row, !.job = rows, !.farewell = FALSE]
  <1>1. /\ w \in Worlds /\ w.ses \in Rows /\ w.job \in [Jobs -> JobRows] /\ w.queue \in Queues
        /\ Held(w.ses, w.job) /\ Claims(w.job, w.queue) /\ Len(w.queue) <= QueueCap
        /\ w.ses.id \in Nat /\ w.bind.sess = 0
    BY DEF Sound, Timed, Worlds, Claims, Rows, Bindings
  <1>2. Live(w.job) = {}
    BY <1>1 DEF Held
  <1>3. new \in Jobs /\ new # 0 /\ ~InQueue(w.queue, new)
    BY <1>1, <1>2, FreshIs
  <1> HIDE DEF new
  <1>4. /\ rows \in [Jobs -> JobRows] /\ Live(rows) = {new}
        /\ rows[new].kind = "connect" /\ rows[new].state = "pending"
    BY <1>1, <1>2, <1>3, EnqueuedIs
  <1>5. /\ row \in Rows /\ row.state = "connecting" /\ row.timer = new /\ row.muteJob = 0
        /\ row.muted = FALSE
    BY <1>1, <1>3 DEF Session, Rows, States, Reasons
  <1> HIDE DEF row, rows
  <1>6. Held(row, rows)
    <2>1. 0 \notin Live(rows)
      BY DEF Live, Jobs
    <2> QED BY <1>3, <1>4, <1>5, <2>1, TimerIs DEF Held, Talking, Active
  <1>7. Claims(rows, w.queue)
    BY <1>1, <1>3, <1>4, ClaimsStay
  <1>8. x \in Worlds /\ x.ses = row /\ x.job = rows /\ x.queue = w.queue /\ x.bind = w.bind
    BY <1>1, <1>4, <1>5 DEF Worlds
  <1> HIDE DEF x
  <1>9. Sound(x)
    BY <1>1, <1>6, <1>7, <1>8 DEF Sound, Timed, Ours
  <1> QED BY <1>9 DEF x, row, rows, new

LEMMA MovedBind ==
  ASSUME NEW w \in Worlds, NEW to, NEW reason, NEW timed
  PROVE  Moved(w, to, reason, timed).bind = w.bind
  <1> DEFINE jobs == MovedJob(w, to, reason, timed)
             row == Transit(w.ses, to, reason, NewJob(w, to, reason, timed))
             x == [w EXCEPT !.job = jobs, !.ses = row]
  <1>1. Moved(w, to, reason, timed) \in {w, x}
    BY MovedIs
  <1> HIDE DEF jobs, row
  <1>2. x.bind = w.bind
    BY DEF Worlds
  <1> HIDE DEF x
  <1> QED BY <1>1, <1>2

LEMMA EndedBare ==
  ASSUME NEW w, Sound(w), w.bind.sess = 0, NEW to \in {"inactive", "failed"},
         NEW reason \in Reasons
  PROVE  Kept(w, Moved(w, to, reason, FALSE))
  <1> DEFINE x == Moved(w, to, reason, FALSE)
  <1>1. Asks(w.ses, to, FALSE)
    BY DEF Asks, States
  <1>2. Timed(x) /\ Ours(x) /\ Onward(w, x)
    BY <1>1, SoundType, MovedKept
  <1>3. x.bind = w.bind
    BY SoundType, MovedBind
  <1> HIDE DEF x
  <1>4. Kept(w, x)
    BY <1>2, <1>3 DEF Kept, Sound
  <1> QED BY <1>4 DEF x

(* A callback enters the queue at its front.                               *)
LEMMA PostedKept ==
  ASSUME NEW w, Sound(w), NEW e \in Callbacks, Len(w.queue) < QueueCap
  PROVE  Kept(w, [w EXCEPT !.queue = <<e>> \o w.queue])
  <1> DEFINE q == w.queue
             r == <<e>> \o q
             x == [w EXCEPT !.queue = r]
  <1>1. /\ w \in Worlds /\ q \in Queues /\ Claims(w.job, q) /\ Len(q) \in Nat
        /\ QueueCap \in Nat /\ q \in Seq(Callbacks \cup JobTasks)
    BY VoxAssumption DEF Sound, Timed, Worlds, Queues
  <1>2. /\ r \in Queues /\ Len(r) = Len(q) + 1 /\ r[1] = e
        /\ \A i \in 1..Len(q) : r[i + 1] = q[i]
    BY <1>1 DEF Queues
  <1>3. DOMAIN q = 1..Len(q) /\ DOMAIN r = 1..Len(r)
    BY <1>1, <1>2 DEF Queues
  <1>4. e.kind # "job"
    BY DEF Callbacks
  <1> HIDE DEF r, q
  <1>5. \A i \in DOMAIN r : r[i].kind = "job" => i - 1 \in DOMAIN q /\ r[i] = q[i - 1]
    <2> SUFFICES ASSUME NEW i \in DOMAIN r, r[i].kind = "job"
                 PROVE  i - 1 \in DOMAIN q /\ r[i] = q[i - 1]
      OBVIOUS
    <2>1. i # 1 /\ i \in 1..(Len(q) + 1)
      BY <1>2, <1>3, <1>4
    <2>2. i - 1 \in 1..Len(q) /\ (i - 1) + 1 = i
      BY <1>1, <2>1
    <2> QED BY <1>2, <1>3, <2>2
  <1>6. \A i \in DOMAIN q : i + 1 \in DOMAIN r /\ r[i + 1] = q[i]
    BY <1>1, <1>2, <1>3
  <1>7. \A j : InQueue(r, j) <=> InQueue(q, j)
    <2> SUFFICES ASSUME NEW j PROVE InQueue(r, j) <=> InQueue(q, j)
      OBVIOUS
    <2>1. ASSUME InQueue(r, j) PROVE InQueue(q, j)
      <3>1. PICK i \in DOMAIN r : r[i].kind = "job" /\ r[i].job = j
        BY <2>1 DEF InQueue
      <3>2. i - 1 \in DOMAIN q /\ r[i] = q[i - 1]
        BY <1>5, <3>1
      <3> QED BY <3>1, <3>2 DEF InQueue
    <2>2. ASSUME InQueue(q, j) PROVE InQueue(r, j)
      <3>1. PICK i \in DOMAIN q : q[i].kind = "job" /\ q[i].job = j
        BY <2>2 DEF InQueue
      <3>2. i + 1 \in DOMAIN r /\ r[i + 1] = q[i]
        BY <1>6
      <3> QED BY <3>1, <3>2 DEF InQueue
    <2> QED BY <2>1, <2>2
  <1>8. Claims(w.job, r)
    <2>1. Len(r) <= QueueCap
      BY <1>1, <1>2 DEF q
    <2>2. \A i, k \in DOMAIN r :
            r[i].kind = "job" /\ r[k].kind = "job" /\ r[i].job = r[k].job => i = k
      <3> SUFFICES ASSUME NEW i \in DOMAIN r, NEW k \in DOMAIN r,
                          r[i].kind = "job", r[k].kind = "job", r[i].job = r[k].job
                   PROVE  i = k
        OBVIOUS
      <3>1. i - 1 \in DOMAIN q /\ k - 1 \in DOMAIN q /\ r[i] = q[i - 1] /\ r[k] = q[k - 1]
        BY <1>5
      <3>2. i - 1 = k - 1
        BY <1>1, <3>1 DEF Claims
      <3> QED BY <1>1, <1>2, <1>3, <3>2
    <2> QED BY <1>1, <1>7, <2>1, <2>2 DEF Claims
  <1>9. x \in Worlds /\ x.queue = r /\ x.ses = w.ses /\ x.job = w.job /\ x.bind = w.bind
    BY <1>1, <1>2 DEF Worlds
  <1> HIDE DEF x
  <1>10. Sound(x) /\ Onward(w, x)
    BY <1>8, <1>9 DEF Sound, Timed, Ours, Onward
  <1> QED BY <1>10 DEF Kept, x, r, q

(* What the head of the queue leaves behind.                               *)
LEMMA TailIs ==
  ASSUME NEW q \in Queues, q # <<>>
  PROVE  /\ Tail(q) \in Queues /\ Len(Tail(q)) = Len(q) - 1 /\ Len(q) \in Nat \ {0}
         /\ DOMAIN q = 1..Len(q) /\ DOMAIN Tail(q) = 1..(Len(q) - 1)
         /\ \A i \in DOMAIN Tail(q) : i + 1 \in DOMAIN q /\ Tail(q)[i] = q[i + 1]
         /\ 1 \in DOMAIN q /\ Head(q) = q[1] /\ Head(q) \in Callbacks \cup JobTasks
  <1>1. q \in Seq(Callbacks \cup JobTasks)
    BY DEF Queues
  <1>2. /\ Len(q) \in Nat \ {0} /\ DOMAIN q = 1..Len(q) /\ Len(Tail(q)) = Len(q) - 1
        /\ Tail(q) \in Seq(Callbacks \cup JobTasks) /\ Head(q) = q[1]
        /\ Head(q) \in Callbacks \cup JobTasks
    BY <1>1
  <1>3. DOMAIN Tail(q) = 1..(Len(q) - 1)
    BY <1>2
  <1>4. \A i \in 1..(Len(q) - 1) : i + 1 \in 1..Len(q) /\ Tail(q)[i] = q[i + 1]
    BY <1>1, <1>2
  <1> QED BY <1>2, <1>3, <1>4 DEF Queues

LEMMA TailJobs ==
  ASSUME NEW q \in Queues, q # <<>>, NEW j
  PROVE  InQueue(q, j) <=> InQueue(Tail(q), j) \/ (Head(q).kind = "job" /\ Head(q).job = j)
  <1> DEFINE r == Tail(q)
  <1>1. /\ Len(q) \in Nat \ {0} /\ DOMAIN q = 1..Len(q) /\ DOMAIN r = 1..(Len(q) - 1)
        /\ \A i \in DOMAIN r : i + 1 \in DOMAIN q /\ r[i] = q[i + 1]
        /\ 1 \in DOMAIN q /\ Head(q) = q[1]
    BY TailIs
  <1> HIDE DEF r
  <1>2. ASSUME InQueue(q, j), ~(q[1].kind = "job" /\ q[1].job = j) PROVE InQueue(r, j)
    <2>1. PICK i \in DOMAIN q : q[i].kind = "job" /\ q[i].job = j
      BY <1>2 DEF InQueue
    <2>2. i # 1 /\ i \in 1..Len(q)
      BY <1>1, <1>2, <2>1
    <2>3. i - 1 \in 1..(Len(q) - 1) /\ (i - 1) + 1 = i
      BY <1>1, <2>2
    <2>4. i - 1 \in DOMAIN r /\ r[i - 1] = q[i]
      BY <1>1, <2>3
    <2> QED BY <2>1, <2>4 DEF InQueue
  <1>3. ASSUME InQueue(r, j) PROVE InQueue(q, j)
    <2>1. PICK i \in DOMAIN r : r[i].kind = "job" /\ r[i].job = j
      BY <1>3 DEF InQueue
    <2>2. i + 1 \in DOMAIN q /\ r[i] = q[i + 1]
      BY <1>1
    <2> QED BY <2>1, <2>2 DEF InQueue
  <1>4. ASSUME q[1].kind = "job" /\ q[1].job = j PROVE InQueue(q, j)
    BY <1>1, <1>4 DEF InQueue
  <1> QED BY <1>1, <1>2, <1>3, <1>4 DEF r

(* The tail names no job twice, and none that the head named.              *)
LEMMA TailOnce ==
  ASSUME NEW q \in Queues, q # <<>>,
         \A i, k \in DOMAIN q :
           q[i].kind = "job" /\ q[k].kind = "job" /\ q[i].job = q[k].job => i = k
  PROVE  /\ \A i, k \in DOMAIN Tail(q) :
              /\ Tail(q)[i].kind = "job" /\ Tail(q)[k].kind = "job"
              /\ Tail(q)[i].job = Tail(q)[k].job
              => i = k
         /\ Head(q).kind = "job" => ~InQueue(Tail(q), Head(q).job)
  <1> DEFINE r == Tail(q)
  <1>1. /\ Len(q) \in Nat \ {0} /\ DOMAIN q = 1..Len(q) /\ DOMAIN r = 1..(Len(q) - 1)
        /\ \A i \in DOMAIN r : i + 1 \in DOMAIN q /\ r[i] = q[i + 1]
        /\ 1 \in DOMAIN q /\ Head(q) = q[1]
    BY TailIs
  <1> HIDE DEF r
  <1>2. ASSUME NEW i \in DOMAIN r, NEW k \in DOMAIN r,
               r[i].kind = "job", r[k].kind = "job", r[i].job = r[k].job
        PROVE  i = k
    <2>1. i + 1 = k + 1
      BY <1>1, <1>2
    <2> QED BY <1>1, <2>1
  <1>3. ASSUME q[1].kind = "job", InQueue(r, q[1].job) PROVE FALSE
    <2>1. PICK i \in DOMAIN r : r[i].kind = "job" /\ r[i].job = q[1].job
      BY <1>3 DEF InQueue
    <2>2. i + 1 = 1
      BY <1>1, <1>3, <2>1
    <2> QED BY <1>1, <2>2
  <1> QED BY <1>1, <1>2, <1>3 DEF r

LEMMA TailKept ==
  ASSUME NEW w, Sound(w), w.queue # <<>>, Head(w.queue).kind # "job"
  PROVE  /\ Kept(w, [w EXCEPT !.queue = Tail(w.queue)])
         /\ Head(w.queue) \in Callbacks
  <1> DEFINE q == w.queue
             r == Tail(q)
             x == [w EXCEPT !.queue = r]
  <1>1. w \in Worlds /\ q \in Queues /\ Claims(w.job, q) /\ QueueCap \in Nat
    BY VoxAssumption DEF Sound, Timed, Worlds
  <1>2. /\ r \in Queues /\ Len(r) = Len(q) - 1 /\ Len(q) \in Nat \ {0}
        /\ Head(q) \in Callbacks \cup JobTasks
    BY <1>1, TailIs
  <1>3. Head(q) \in Callbacks
    BY <1>2 DEF JobTasks
  <1>4. \A j : InQueue(r, j) <=> InQueue(q, j)
    BY <1>1, TailJobs
  <1>5. \A i, k \in DOMAIN r :
          r[i].kind = "job" /\ r[k].kind = "job" /\ r[i].job = r[k].job => i = k
    BY <1>1, TailOnce DEF Claims
  <1> HIDE DEF r, q
  <1>6. Claims(w.job, r)
    BY <1>1, <1>2, <1>4, <1>5 DEF Claims
  <1>7. x \in Worlds /\ x.queue = r /\ x.ses = w.ses /\ x.job = w.job /\ x.bind = w.bind
    BY <1>1, <1>2 DEF Worlds
  <1> HIDE DEF x
  <1>8. Sound(x) /\ Onward(w, x)
    BY <1>6, <1>7 DEF Sound, Timed, Ours, Onward
  <1> QED BY <1>3, <1>8 DEF Kept, x, r, q

LEMMA TailInHand ==
  ASSUME NEW w, Sound(w), w.queue # <<>>, Head(w.queue).kind = "job"
  PROVE  LET j == Head(w.queue).job
             x == [w EXCEPT !.queue = Tail(w.queue)]
         IN /\ j \in Jobs /\ Onward(w, x) /\ x.job = w.job /\ x.ses = w.ses
            /\ w.job[j].state = "claimed" => InHand(x, j)
            /\ w.job[j].state # "claimed" => Sound(x)
  <1> DEFINE q == w.queue
             r == Tail(q)
             j == Head(q).job
             x == [w EXCEPT !.queue = r]
  <1>1. w \in Worlds /\ q \in Queues /\ Claims(w.job, q) /\ QueueCap \in Nat /\ Held(w.ses, w.job)
    BY VoxAssumption DEF Sound, Timed, Worlds
  <1>2. /\ r \in Queues /\ Len(r) = Len(q) - 1 /\ Len(q) \in Nat \ {0}
        /\ Head(q) \in Callbacks \cup JobTasks
    BY <1>1, TailIs
  <1>3. j \in Jobs
    BY <1>2 DEF JobTasks, Callbacks
  <1>4. \A k : InQueue(q, k) <=> InQueue(r, k) \/ k = j
    BY <1>1, TailJobs
  <1>5. /\ \A i, k \in DOMAIN r :
             r[i].kind = "job" /\ r[k].kind = "job" /\ r[i].job = r[k].job => i = k
        /\ ~InQueue(r, j)
    BY <1>1, TailOnce DEF Claims
  <1> HIDE DEF r, q, j
  <1>6. x \in Worlds /\ x.queue = r /\ x.ses = w.ses /\ x.job = w.job /\ x.bind = w.bind
    BY <1>1, <1>2 DEF Worlds
  <1> HIDE DEF x
  <1>7. Len(r) <= QueueCap
    BY <1>1, <1>2 DEF Claims
  <1>8. Onward(w, x)
    BY <1>6 DEF Onward
  <1>9. Ours(x) /\ (x.bind.sess # 0 => Active(x.ses))
    BY <1>6 DEF Ours, Sound
  <1>10. \A k \in Live(w.job) \ {j} : w.job[k].state = "claimed" <=> InQueue(r, k)
    BY <1>1, <1>4 DEF Claims
  <1>11. ASSUME w.job[j].state = "claimed" PROVE InHand(x, j)
    BY <1>1, <1>3, <1>5, <1>6, <1>7, <1>9, <1>10, <1>11 DEF InHand
  <1>12. ASSUME w.job[j].state # "claimed" PROVE Sound(x)
    <2>1. j \notin Live(w.job)
      <3>1. InQueue(q, j)
        BY <1>4
      <3> QED BY <1>1, <1>12, <3>1 DEF Claims
    <2>2. Claims(w.job, r)
      BY <1>5, <1>7, <1>10, <2>1 DEF Claims
    <2> QED BY <1>1, <1>6, <1>9, <2>2 DEF Sound, Timed
  <1> QED BY <1>3, <1>6, <1>8, <1>11, <1>12 DEF x, j, r, q

(* A job that is claimed or given back is still the job it was.            *)
LEMMA HeldByKind ==
  ASSUME NEW s, NEW jobs, NEW other, Held(s, jobs), Live(other) = Live(jobs),
         \A k \in Live(jobs) : other[k].kind = jobs[k].kind
  PROVE  Held(s, other)
  BY DEF Held

(* The scheduler claims a job that waits.                                  *)
LEMMA ClaimedKept ==
  ASSUME NEW w, Sound(w), NEW j \in Jobs, w.job[j].state = "pending", Len(w.queue) < QueueCap
  PROVE  Kept(w, [w EXCEPT !.job = [w.job EXCEPT ![j].state = "claimed"],
                           !.queue = Append(w.queue, [kind |-> "job", job |-> j])])
  <1> DEFINE q == w.queue
             e == [kind |-> "job", job |-> j]
             r == Append(q, e)
             rows == [w.job EXCEPT ![j].state = "claimed"]
             x == [w EXCEPT !.job = rows, !.queue = r]
  <1>1. /\ w \in Worlds /\ q \in Seq(Callbacks \cup JobTasks) /\ Claims(w.job, q)
        /\ QueueCap \in Nat /\ Held(w.ses, w.job) /\ w.job \in [Jobs -> JobRows]
    BY VoxAssumption DEF Sound, Timed, Worlds, Queues
  <1>2. e \in JobTasks /\ e.kind = "job" /\ e.job = j
    BY DEF JobTasks
  <1> HIDE DEF e
  <1>3. /\ r \in Queues /\ Len(r) = Len(q) + 1 /\ Len(q) \in Nat
        /\ DOMAIN q = 1..Len(q) /\ DOMAIN r = 1..(Len(q) + 1)
        /\ \A i \in 1..Len(q) : r[i] = q[i]
        /\ r[Len(q) + 1] = e
    BY <1>1, <1>2 DEF Queues
  <1>4. /\ rows \in [Jobs -> JobRows] /\ rows[j].state = "claimed"
        /\ \A k \in Jobs : rows[k].kind = w.job[k].kind
        /\ \A k \in Jobs \ {j} : rows[k] = w.job[k]
    BY <1>1 DEF JobRows
  <1>5. Live(rows) = Live(w.job) /\ j \in Live(w.job)
    BY <1>4 DEF Live
  <1> HIDE DEF rows, r, q
  <1>6. Held(w.ses, rows)
    BY <1>1, <1>4, <1>5, HeldByKind DEF Live
  <1>7. \A k : InQueue(r, k) <=> InQueue(q, k) \/ k = j
    <2> SUFFICES ASSUME NEW k PROVE InQueue(r, k) <=> InQueue(q, k) \/ k = j
      OBVIOUS
    <2>1. ASSUME InQueue(r, k), k # j PROVE InQueue(q, k)
      <3>1. PICK i \in DOMAIN r : r[i].kind = "job" /\ r[i].job = k
        BY <2>1 DEF InQueue
      <3>2. i # Len(q) + 1
        BY <1>2, <1>3, <2>1, <3>1
      <3>3. i \in DOMAIN q /\ r[i] = q[i]
        BY <1>3, <3>2
      <3> QED BY <3>1, <3>3 DEF InQueue
    <2>2. ASSUME InQueue(q, k) PROVE InQueue(r, k)
      <3>1. PICK i \in DOMAIN q : q[i].kind = "job" /\ q[i].job = k
        BY <2>2 DEF InQueue
      <3>2. i \in DOMAIN r /\ r[i] = q[i]
        BY <1>3
      <3> QED BY <3>1, <3>2 DEF InQueue
    <2>3. ASSUME k = j PROVE InQueue(r, k)
      <3>1. Len(q) + 1 \in DOMAIN r
        BY <1>3
      <3> QED BY <1>2, <1>3, <2>3, <3>1 DEF InQueue
    <2> QED BY <2>1, <2>2, <2>3
  <1>8. ~InQueue(q, j)
    BY <1>1, <1>5 DEF Claims
  <1>9. Claims(rows, r)
    <2>1. Len(r) <= QueueCap
      BY <1>1, <1>3 DEF q
    <2>2. \A k \in Live(rows) : rows[k].state = "claimed" <=> InQueue(r, k)
      <3> SUFFICES ASSUME NEW k \in Live(rows)
                   PROVE  rows[k].state = "claimed" <=> InQueue(r, k)
        OBVIOUS
      <3>1. CASE k = j
        BY <1>4, <1>7, <3>1
      <3>2. CASE k # j
        <4>1. k \in Jobs \ {j} /\ k \in Live(w.job)
          BY <1>5, <3>2 DEF Live
        <4> QED BY <1>1, <1>4, <1>7, <3>2, <4>1 DEF Claims
      <3> QED BY <3>1, <3>2
    <2>3. \A i, k \in DOMAIN r :
            r[i].kind = "job" /\ r[k].kind = "job" /\ r[i].job = r[k].job => i = k
      <3> SUFFICES ASSUME NEW i \in DOMAIN r, NEW k \in DOMAIN r,
                          r[i].kind = "job", r[k].kind = "job", r[i].job = r[k].job
                   PROVE  i = k
        OBVIOUS
      <3>1. ASSUME NEW m \in DOMAIN r, m # Len(q) + 1, r[m].kind = "job" PROVE r[m].job # j
        <4>1. m \in DOMAIN q /\ r[m] = q[m]
          BY <1>3, <3>1
        <4> QED BY <1>8, <3>1, <4>1 DEF InQueue
      <3>2. CASE i # Len(q) + 1 /\ k # Len(q) + 1
        <4>1. i \in DOMAIN q /\ k \in DOMAIN q /\ r[i] = q[i] /\ r[k] = q[k]
          BY <1>3, <3>2
        <4> QED BY <1>1, <4>1 DEF Claims
      <3>3. CASE i = Len(q) + 1 \/ k = Len(q) + 1
        BY <1>2, <1>3, <3>1, <3>3
      <3> QED BY <3>2, <3>3
    <2> QED BY <2>1, <2>2, <2>3 DEF Claims
  <1>10. /\ x \in Worlds /\ x.queue = r /\ x.ses = w.ses /\ x.job = rows /\ x.bind = w.bind
    BY <1>1, <1>3, <1>4 DEF Worlds
  <1> HIDE DEF x
  <1>11. Sound(x) /\ Onward(w, x)
    BY <1>6, <1>9, <1>10 DEF Sound, Timed, Ours, Onward
  <1> QED BY <1>11 DEF Kept, x, r, q, e, rows

(* Nothing is claimed, queued or bound when the process is gone.           *)
LEMMA GoneDown ==
  ASSUME NEW s \in Rows, NEW jobs \in [Jobs -> JobRows], Held(s, jobs)
  PROVE  /\ Returned(jobs) \in [Jobs -> JobRows] /\ Held(s, Returned(jobs))
         /\ Claims(Returned(jobs), <<>>)
  <1> DEFINE rows == Returned(jobs)
  <1>1. /\ rows \in [Jobs -> JobRows]
        /\ \A k \in Jobs : /\ rows[k].kind = jobs[k].kind
                           /\ rows[k].state # "claimed"
                           /\ rows[k].state = "ended" <=> jobs[k].state = "ended"
    BY DEF Returned, JobRows
  <1>2. Live(rows) = Live(jobs)
    BY <1>1 DEF Live
  <1> HIDE DEF rows
  <1>3. Held(s, rows)
    BY <1>1, <1>2, HeldByKind DEF Live
  <1>4. Claims(rows, <<>>)
    <2>1. Len(<<>>) <= QueueCap /\ DOMAIN <<>> = {}
      BY VoxAssumption
    <2>2. \A k : ~InQueue(<<>>, k)
      BY <2>1 DEF InQueue
    <2> QED BY <1>1, <2>1, <2>2 DEF Claims, Live
  <1> QED BY <1>1, <1>3, <1>4 DEF rows

-----------------------------------------------------------------------------
(* The invariant, and its steps                                            *)

IInv == /\ Sound(World) /\ humans \in 0..1
        /\ ~up => bind.sess = 0

(* What a step may do to a session that goes on.                           *)
Steady ==
  \/ Onward(World, World')
  \/ ~Active(ses)
  \/ Unmute
  \/ TakeJob /\ job[Head(queue).job].kind = "mute"

Step == Sound(World') /\ Steady

LEMMA WorldIs ==
  /\ World.ses = ses /\ World.job = job /\ World.queue = queue /\ World.reconcile = reconcile
  /\ World.rejoined = rejoined /\ World.rejected = rejected /\ World.farewell = farewell
  /\ World.bind = bind /\ World.suppress = suppress /\ World.line = line
  BY DEF World

LEMMA BecomeIs ==
  ASSUME NEW w \in Worlds, Become(w)
  PROVE  World' = w
  <1>1. w = [ses |-> w.ses, job |-> w.job, queue |-> w.queue, reconcile |-> w.reconcile,
             rejoined |-> w.rejoined, rejected |-> w.rejected, farewell |-> w.farewell,
             bind |-> w.bind, suppress |-> w.suppress, line |-> w.line]
    BY DEF Worlds
  <1>2. World' = [ses |-> ses', job |-> job', queue |-> queue', reconcile |-> reconcile',
                  rejoined |-> rejoined', rejected |-> rejected', farewell |-> farewell',
                  bind |-> bind', suppress |-> suppress', line |-> line']
    BY DEF World
  <1> QED BY <1>1, <1>2 DEF Become

LEMMA BecomeKept ==
  ASSUME NEW w, Kept(World, w), Become(w)
  PROVE  Step
  <1>1. w \in Worlds
    BY SoundType DEF Kept
  <1>2. World' = w
    BY <1>1, BecomeIs
  <1> QED BY <1>2 DEF Step, Steady, Kept

(* A step that leaves the session alone.                                   *)
LEMMA WireStep ==
  ASSUME Sound(World), ses' = ses, job' = job, rejoined' = rejoined, rejected' = rejected,
         reconcile' \in BOOLEAN, farewell' \in BOOLEAN, suppress' \in BOOLEAN,
         line' \in Seq({"join", "leave"}), bind' \in Bindings,
         bind'.sess = bind.sess, bind'.gen = bind.gen,
         \/ queue' = queue
         \/ \E e \in Callbacks : Len(queue) < QueueCap /\ queue' = <<e>> \o queue
  PROVE  Step
  <1> DEFINE w == World
             y == [ses |-> ses, job |-> job, queue |-> queue, reconcile |-> reconcile',
                   rejoined |-> rejoined, rejected |-> rejected, farewell |-> farewell',
                   bind |-> bind', suppress |-> suppress', line |-> line']
  <1>1. w \in Worlds
    BY SoundType
  <1>2. /\ y \in Worlds /\ y.job = w.job /\ y.queue = w.queue /\ y.ses = w.ses
        /\ y.bind.sess = w.bind.sess /\ y.bind.gen = w.bind.gen /\ y.queue = queue
    BY <1>1, WorldIs DEF Worlds
  <1>3. World' = [y EXCEPT !.queue = queue']
    BY DEF World
  <1>4. queue' = queue => World' = y
    BY DEF World
  <1> HIDE DEF y, w
  <1>5. Light(w, y)
    BY <1>2 DEF Light, SameSession
  <1>6. Kept(w, y)
    BY <1>5, LightIsKept DEF w
  <1>7. Kept(w, World')
    <2>1. CASE queue' = queue
      BY <1>4, <1>6, <2>1
    <2>2. CASE \E e \in Callbacks : Len(queue) < QueueCap /\ queue' = <<e>> \o queue
      <3>1. PICK e \in Callbacks : Len(queue) < QueueCap /\ queue' = <<e>> \o queue
        BY <2>2
      <3>2. Kept(y, [y EXCEPT !.queue = <<e>> \o y.queue])
        BY <1>2, <1>6, <3>1, PostedKept DEF Kept
      <3>3. World' = [y EXCEPT !.queue = <<e>> \o y.queue]
        BY <1>2, <1>3, <3>1
      <3> QED BY <1>6, <3>2, <3>3, KeptTransitive
    <2> QED BY <2>1, <2>2
  <1> QED BY <1>7 DEF Kept, Step, Steady, w

LEMMA Types ==
  ASSUME Sound(World)
  PROVE  /\ ses \in Rows /\ job \in [Jobs -> JobRows] /\ queue \in Queues
         /\ reconcile \in BOOLEAN /\ rejoined \in Nat /\ rejected \in Nat
         /\ farewell \in BOOLEAN /\ bind \in Bindings /\ suppress \in BOOLEAN
         /\ line \in Seq({"join", "leave"})
  BY WorldIs DEF Sound, Timed, Worlds

LEMMA EventIs ==
  ASSUME NEW kind \in {"ready", "marker", "humans", "moved", "gone", "error"},
         NEW b \in Bindings
  PROVE  Event(kind, b) \in Callbacks
  BY DEF Event, Bindings, Callbacks

(* What a callback does to the queue.                                      *)
Carried ==
  /\ reconcile' \in BOOLEAN
  /\ \/ queue' = queue
     \/ \E e \in Callbacks : Len(queue) < QueueCap /\ queue' = <<e>> \o queue

LEMMA PostedIs ==
  ASSUME Sound(World), NEW e \in Callbacks, NEW cost, Posted(e, cost)
  PROVE  Carried
  BY Types DEF Posted, Carried

LEMMA NotPosted ==
  ASSUME Sound(World), NEW cost, NothingPosted(cost)
  PROVE  Carried
  BY Types DEF NothingPosted, Carried

LEMMA DepartedIs ==
  ASSUME Sound(World), NEW cost, Departed(cost)
  PROVE  /\ Carried /\ suppress' \in BOOLEAN /\ bind' \in Bindings
         /\ bind'.sess = bind.sess /\ bind'.gen = bind.gen
  <1> DEFINE b == [bind EXCEPT !.connected = FALSE, !.ready = FALSE, !.track = "none"]
  <1>1. b \in Bindings /\ b.sess = bind.sess /\ b.gen = bind.gen
    BY Types DEF Bindings, Tracks
  <1>2. Event("gone", bind) \in Callbacks
    BY Types, EventIs
  <1> HIDE DEF b
  <1>3. suppress' = FALSE
    BY DEF Departed
  <1>4. CASE suppress \/ bind.sess = 0
    <2>1. UNCHANGED bind /\ NothingPosted(cost)
      BY <1>4 DEF Departed
    <2> QED BY <1>3, <2>1, Types, NotPosted
  <1>5. CASE ~(suppress \/ bind.sess = 0)
    <2>1. bind' = b /\ Posted(Event("gone", bind), cost)
      BY <1>5 DEF Departed, b
    <2> QED BY <1>1, <1>2, <1>3, <2>1, PostedIs
  <1> QED BY <1>4, <1>5

-----------------------------------------------------------------------------
(* One lemma for each group of actions                                     *)

LEMMA Idly ==
  ASSUME Sound(World), UNCHANGED World
  PROVE  Step
  <1>1. Kept(World, World)
    BY SoundType
  <1> QED BY <1>1 DEF Step, Steady, Kept

LEMMA SummonStep ==
  ASSUME IInv, Summon \/ Enable \/ Retry
  PROVE  Step
  <1>1. UNCHANGED World
    BY DEF Summon, Enable, Retry, Done, Become, World
  <1> QED BY <1>1, Idly DEF IInv

LEMMA ResolvedStep ==
  ASSUME IInv, Resolved
  PROVE  Step
  <1> DEFINE new == Fresh(World)
             started == [World EXCEPT !.ses = Session(ses.id + 1, "connecting", new),
                                      !.job = Enqueued(job, new, "connect"),
                                      !.farewell = FALSE]
             given(o) == IF o.taken /\ MayReplace(started) THEN Dialled(started)
                         ELSE IF o.writes = 1 THEN started
                         ELSE Released(Moved(started, "failed", "gateway_rejected", FALSE))
  <1>0. PICK o \in Outcomes :
          IF Active(ses) \/ o.writes = 0 THEN Done(World) /\ Cost(o)
          ELSE Room(IF o.writes < 3 THEN 2 ELSE 1) /\ Cost(o) /\ Done(given(o))
    BY DEF Resolved
  <1>1. CASE Active(ses) \/ o.writes = 0
    <2>1. Become(World)
      BY <1>0, <1>1 DEF Done
    <2> QED BY <2>1, SoundType, BecomeKept DEF IInv
  <1>2. CASE ~Active(ses)
    <2>1. Sound(started)
      BY <1>2, WorldIs, StartedSound DEF IInv
    <2>2. started.ses = Session(ses.id + 1, "connecting", new)
      BY DEF World
    <2>3. Active(started.ses)
      BY <2>2 DEF Session, Active
    <2>a. "gateway_rejected" \in Reasons
      BY DEF Reasons
    <2> HIDE DEF started
    <2>4. Kept(started, Dialled(started)) /\ Kept(started, started)
      BY <2>1, <2>3, DialledKept, SoundType DEF IInv
    <2>5. Kept(started, Released(Moved(started, "failed", "gateway_rejected", FALSE)))
      BY <2>1, <2>a, EndedKept
    <2>6. Kept(started, given(o))
      BY <2>4, <2>5
    <2> HIDE DEF given
    <2>7. CASE o.writes = 0
      BY <1>1, <2>7
    <2>8. CASE o.writes # 0
      <3>1. Become(given(o))
        BY <1>0, <1>2, <2>8 DEF Done
      <3>2. World' = given(o)
        BY <2>6, <3>1, SoundType, BecomeIs DEF Kept
      <3> QED BY <1>2, <2>6, <3>2 DEF Step, Steady, Kept
    <2> QED BY <2>7, <2>8
  <1> QED BY <1>1, <1>2

LEMMA UnresolvedStep ==
  ASSUME IInv, Unresolved
  PROVE  Step
  <1>1. Sound(World)
    BY DEF IInv
  <1> QED BY <1>1, Types, WireStep DEF Unresolved

LEMMA LeaveStep ==
  ASSUME IInv, Leave
  PROVE  Step
  <1> DEFINE w == World
             left == Moved(w, "leaving", "commanded_leave", TRUE)
             heard == [left EXCEPT !.farewell = Talking(ses)]
             quiet == Hushed(heard)
             parted(o) == IF o.taken /\ ses.state # "connecting" THEN quiet ELSE TornDown(left)
             x(o) == IF o.writes > ProofWrites(w) THEN ProofFailed(parted(o)) ELSE parted(o)
  <1>1. PICK o \in Outcomes : Done(x(o))
    BY DEF Leave
  <1>2. Sound(w) /\ Asks(w.ses, "leaving", TRUE) /\ "commanded_leave" \in Reasons
    BY DEF IInv, Asks, States, Reasons
  <1> HIDE DEF w
  <1>3. Kept(w, left)
    BY <1>2, GoesOnKept
  <1> HIDE DEF left
  <1>4. left \in Worlds /\ Talking(ses) \in BOOLEAN
    BY <1>3, SoundType DEF Kept, Talking
  <1>5. Light(left, heard)
    BY <1>4, FarewellIs
  <1> HIDE DEF heard
  <1>6. Light(left, quiet)
    BY <1>5, HushedIs, LightTransitive DEF Light
  <1>7. Light(left, TornDown(left))
    BY <1>4, TornDownIs
  <1> HIDE DEF quiet
  <1>8. Light(left, parted(o))
    BY <1>6, <1>7
  <1> HIDE DEF parted
  <1>9. Light(parted(o), ProofFailed(parted(o)))
    BY <1>8, ProofFailedIs DEF Light
  <1>10. Light(left, x(o))
    BY <1>8, <1>9, LightTransitive
  <1> HIDE DEF x
  <1>11. Kept(left, x(o))
    BY <1>3, <1>10, LightIsKept DEF Kept
  <1>12. Kept(World, x(o))
    BY <1>3, <1>11, KeptTransitive DEF w
  <1> QED BY <1>1, <1>12, BecomeKept DEF Done

LEMMA MuteStep ==
  ASSUME IInv, Mute
  PROVE  Step
  <1> DEFINE w == World
             muted(timed) == Moved(w, "muted", "mute_on", timed)
             x(timed) == IF ses.proof = "queued" THEN ProofFailed(Hushed(muted(timed)))
                         ELSE muted(timed)
  <1>1. PICK timed \in BOOLEAN : Done(x(timed))
    BY DEF Mute
  <1>2. Sound(w) /\ Asks(w.ses, "muted", timed) /\ "mute_on" \in Reasons
    BY WorldIs DEF IInv, Asks, States, Reasons, Mute
  <1> HIDE DEF w
  <1> DEFINE m == muted(timed)
  <1>3. Kept(w, m)
    BY <1>2, GoesOnKept
  <1>4. x(timed) \in {m, ProofFailed(Hushed(m))}
    OBVIOUS
  <1> HIDE DEF m, x
  <1>5. Light(m, Hushed(m))
    BY <1>3, SoundType, HushedIs DEF Kept
  <1>6. Light(m, ProofFailed(Hushed(m)))
    BY <1>5, ProofFailedIs, LightTransitive DEF Light
  <1>7. Kept(m, ProofFailed(Hushed(m))) /\ Kept(m, m)
    BY <1>3, <1>6, LightIsKept, SoundType DEF Kept
  <1>8. Kept(World, x(timed))
    BY <1>3, <1>4, <1>7, KeptTransitive DEF w
  <1> QED BY <1>1, <1>8, BecomeKept DEF Done

LEMMA UnmuteStep ==
  ASSUME IInv, Unmute
  PROVE  Step
  <1> DEFINE w == World
             x == Moved(w, "ready", "mute_off", FALSE)
  <1>1. Done(x)
    BY DEF Unmute
  <1>2. Sound(w) /\ Asks(w.ses, "ready", FALSE) /\ "mute_off" \in Reasons
    BY DEF IInv, Asks, States, Reasons
  <1> HIDE DEF w
  <1>3. Sound(x)
    BY <1>2, GoesOnSound
  <1> HIDE DEF x
  <1>4. World' = x
    BY <1>1, <1>3, SoundType, BecomeIs DEF Done
  <1> QED BY <1>3, <1>4 DEF Step, Steady

LEMMA TestDisconnectStep ==
  ASSUME IInv, TestDisconnect
  PROVE  Step
  <1> DEFINE w == World
             back == Moved(w, "reconnecting", "owner_test_disconnect", TRUE)
             x == ProofFailed(TornDown(back))
  <1>1. Done(x)
    BY DEF TestDisconnect
  <1>2. Sound(w) /\ Asks(w.ses, "reconnecting", TRUE) /\ "owner_test_disconnect" \in Reasons
    BY DEF IInv, Asks, States, Reasons
  <1> HIDE DEF w
  <1>3. Kept(w, back)
    BY <1>2, GoesOnKept
  <1> HIDE DEF back
  <1>4. Light(back, TornDown(back))
    BY <1>3, SoundType, TornDownIs DEF Kept
  <1>5. Light(back, x)
    BY <1>4, ProofFailedIs, LightTransitive DEF Light
  <1> HIDE DEF x
  <1>6. Kept(back, x)
    BY <1>3, <1>5, LightIsKept DEF Kept
  <1>7. Kept(World, x)
    BY <1>3, <1>6, KeptTransitive DEF w
  <1> QED BY <1>1, <1>7, BecomeKept DEF Done

LEMMA DisableStep ==
  ASSUME IInv, Disable
  PROVE  Step
  <1> DEFINE w == World
             closed == Closed(w)
             ended == Moved(closed, "inactive", "shutdown", FALSE)
             x(o) == IF ~Active(ses) THEN w ELSE IF o.writes = 0 THEN closed ELSE ended
  <1>1. PICK o \in Outcomes : Become(x(o))
    BY DEF Disable
  <1>2. Sound(w) /\ "shutdown" \in Reasons
    BY DEF IInv, Reasons
  <1> HIDE DEF w
  <1>3. Light(w, closed) /\ closed.bind.sess = 0
    BY <1>2, SoundType, ClosedIs
  <1>4. Kept(w, closed) /\ Kept(w, w)
    BY <1>2, <1>3, LightIsKept, SoundType
  <1> HIDE DEF closed
  <1>5. Kept(closed, ended)
    BY <1>2, <1>3, <1>4, EndedBare DEF Kept
  <1> HIDE DEF ended
  <1>6. Kept(World, x(o))
    BY <1>4, <1>5, KeptTransitive DEF w
  <1> HIDE DEF x
  <1> QED BY <1>1, <1>6, BecomeKept

LEMMA HandleCallbackStep ==
  ASSUME IInv, HandleCallback
  PROVE  Step
  <1> DEFINE w == World
             next == [World EXCEPT !.queue = Tail(queue)]
             e == Head(queue)
  <1>1. PICK o \in Outcomes : Done(Handled(next, e, o))
    BY DEF HandleCallback
  <1>2. Sound(w) /\ w.queue = queue /\ queue # <<>> /\ e.kind # "job" /\ humans \in 0..1
    BY WorldIs DEF IInv, HandleCallback, TakeCallback
  <1>3. next = [w EXCEPT !.queue = Tail(w.queue)]
    BY <1>2
  <1> HIDE DEF w, next
  <1>4. Kept(w, next) /\ e \in Callbacks
    BY <1>2, <1>3, TailKept
  <1>5. e.kind \in {"ready", "marker", "humans", "moved", "gone", "error"}
    BY <1>4 DEF Callbacks
  <1> HIDE DEF e
  <1>6. Kept(next, Handled(next, e, o))
    BY <1>2, <1>4, <1>5, HandledKept DEF Kept
  <1>7. Kept(World, Handled(next, e, o))
    BY <1>4, <1>6, KeptTransitive DEF w
  <1> QED BY <1>1, <1>7, BecomeKept DEF Done

LEMMA HandleJobStep ==
  ASSUME IInv, HandleJob
  PROVE  Step
  <1> DEFINE w == World
             next == [World EXCEPT !.queue = Tail(queue)]
             j == Head(queue).job
             x(o) == TimedOut(next, j, o)
  <1>1. PICK o \in Outcomes : Done(x(o))
    BY DEF HandleJob
  <1>2. Sound(w) /\ w.queue = queue /\ queue # <<>> /\ Head(queue).kind = "job" /\ w.job = job
    BY WorldIs DEF IInv, HandleJob, TakeJob
  <1>3. next = [w EXCEPT !.queue = Tail(w.queue)]
    BY <1>2
  <1> HIDE DEF w, next
  <1>4. /\ j \in Jobs /\ Onward(w, next) /\ next.job = job
        /\ job[j].state = "claimed" => InHand(next, j)
        /\ job[j].state # "claimed" => Sound(next)
    BY <1>2, <1>3, TailInHand
  <1>5. TakeJob
    BY DEF HandleJob
  <1> HIDE DEF j
  <1>6. CASE job[j].state = "claimed"
    <2>1. /\ Sound(x(o))
          /\ Onward(next, x(o)) \/ job[j].kind = "mute"
      BY <1>4, <1>6, TimedOutKept
    <2> HIDE DEF x
    <2>2. World' = x(o)
      BY <1>1, <2>1, SoundType, BecomeIs DEF Done
    <2>3. Onward(w, x(o)) \/ job[j].kind = "mute"
      BY <1>4, <2>1, OnwardTransitive
    <2> QED BY <1>5, <2>1, <2>2, <2>3 DEF Step, Steady, w, j
  <1>7. CASE job[j].state # "claimed"
    <2> DEFINE v == IF Active(next.ses) THEN RejectionStored(next) ELSE next
    <2>1. Kept(next, v)
      BY <1>4, <1>7, SoundType, RejectionStoredIs, LightIsKept
    <2>2. v.job = next.job
      BY <1>4, <1>7, SoundType, RejectionStoredIs DEF Light
    <2>3. x(o) = v
      <3>1. v.job[j].state # "claimed"
        BY <1>4, <1>7, <2>2
      <3> QED BY <3>1 DEF TimedOut
    <2> HIDE DEF v, x
    <2>4. Kept(World, v)
      BY <1>4, <2>1, OnwardTransitive DEF Kept, w
    <2> QED BY <1>1, <2>3, <2>4, BecomeKept DEF Done
  <1> QED BY <1>6, <1>7

LEMMA ReconcileStep ==
  ASSUME IInv, Reconcile
  PROVE  Step
  <1> DEFINE w == World
  <1>1. PICK o \in Outcomes : Become(Reconciled(w, o))
    BY DEF Reconcile
  <1>2. Sound(w) /\ humans \in 0..1
    BY DEF IInv
  <1> HIDE DEF w
  <1>3. Kept(w, Reconciled(w, o))
    BY <1>2, ReconciledKept
  <1> QED BY <1>1, <1>3, BecomeKept DEF w

(* A world and the step that leads to it.                                  *)
Same(x, w) ==
  /\ x.reconcile = w.reconcile /\ x.rejoined = w.rejoined /\ x.rejected = w.rejected
  /\ x.farewell = w.farewell /\ x.bind = w.bind /\ x.suppress = w.suppress /\ x.line = w.line

LEMMA ClaimStep ==
  ASSUME IInv, NEW j \in Jobs, Claim(j)
  PROVE  Step
  <1> DEFINE w == World
             rows == [w.job EXCEPT ![j].state = "claimed"]
             r == Append(w.queue, [kind |-> "job", job |-> j])
             x == [w EXCEPT !.job = rows, !.queue = r]
  <1>1. /\ Sound(w) /\ w.job[j].state = "pending" /\ Len(w.queue) < QueueCap
        /\ job' = rows /\ queue' = r
    BY WorldIs DEF IInv, Claim
  <1> HIDE DEF w
  <1>2. Kept(w, x)
    BY <1>1, ClaimedKept
  <1> HIDE DEF rows, r
  <1>3. Same(x, w) /\ x.ses = w.ses /\ x.job = rows /\ x.queue = r
    <2>1. w \in Worlds
      BY <1>1, SoundType
    <2> QED BY <2>1 DEF Worlds, Same
  <1> HIDE DEF x
  <1>4. Become(x)
    BY <1>1, <1>3, WorldIs DEF w, Same, Become, Claim
  <1> QED BY <1>2, <1>4, BecomeKept DEF w

LEMMA CarryStep ==
  ASSUME IInv, Carry
  PROVE  Step
  <1>0. Sound(World)
    BY DEF IInv
  <1>1. /\ line' = Tail(line) /\ line # <<>> /\ farewell' = farewell
        /\ ses' = ses /\ job' = job /\ rejoined' = rejoined /\ rejected' = rejected
    BY DEF Carry, Untouched
  <1>2. line' \in Seq({"join", "leave"}) /\ farewell' \in BOOLEAN
    BY <1>0, <1>1, Types
  <1> DEFINE Wire == /\ Carried /\ suppress' \in BOOLEAN /\ bind' \in Bindings
                     /\ bind'.sess = bind.sess /\ bind'.gen = bind.gen
             Still == UNCHANGED <<bind, suppress>> /\ NothingPosted(0)
  <1>3. ASSUME Still PROVE Wire
    BY <1>0, <1>3, Types, NotPosted
  <1>4. ASSUME Arrived PROVE Wire
    <2> DEFINE b == [bind EXCEPT !.connected = TRUE]
    <2>1. b \in Bindings /\ b.sess = bind.sess /\ b.gen = bind.gen
      BY <1>0, Types DEF Bindings
    <2>2. Carried
      BY <1>0, <1>4, NotPosted DEF Arrived
    <2>3. suppress' \in BOOLEAN
      BY <1>0, <1>4, Types DEF Arrived
    <2>4. bind' \in {bind, b}
      BY <1>4 DEF Arrived
    <2> HIDE DEF b
    <2> QED BY <1>0, <2>1, <2>2, <2>3, <2>4, Types
  <1>5. ASSUME Departed(0) PROVE Wire
    BY <1>0, <1>5, DepartedIs
  <1>6. Arrived \/ Still \/ Departed(0)
    BY DEF Carry
  <1> HIDE DEF Still
  <1>7. Wire
    BY <1>3, <1>4, <1>5, <1>6
  <1> QED BY <1>0, <1>1, <1>2, <1>7, WireStep DEF Carried

LEMMA KickStep ==
  ASSUME IInv, Kick
  PROVE  Step
  <1>0. Sound(World)
    BY DEF IInv
  <1>1. /\ line' = line /\ farewell' = farewell /\ Departed(1)
        /\ ses' = ses /\ job' = job /\ rejoined' = rejoined /\ rejected' = rejected
    BY DEF Kick, Untouched
  <1>2. /\ Carried /\ suppress' \in BOOLEAN /\ bind' \in Bindings
        /\ bind'.sess = bind.sess /\ bind'.gen = bind.gen
    BY <1>0, <1>1, DepartedIs
  <1>3. line \in Seq({"join", "leave"}) /\ farewell \in BOOLEAN
    BY <1>0, Types
  <1> QED BY <1>0, <1>1, <1>2, <1>3, WireStep DEF Carried

LEMMA MoveBotStep ==
  ASSUME IInv, MoveBot
  PROVE  Step
  <1>0. Sound(World)
    BY DEF IInv
  <1> DEFINE b == [bind EXCEPT !.connected = TRUE, !.ready = FALSE, !.moved = TRUE]
  <1>1. /\ line' = line /\ farewell' = farewell /\ suppress' = suppress
        /\ ses' = ses /\ job' = job /\ rejoined' = rejoined /\ rejected' = rejected
        /\ \/ bind' = b /\ Posted(Event("moved", bind), 1)
           \/ bind' = bind /\ NothingPosted(1)
    BY DEF MoveBot, Untouched
  <1>2. b \in Bindings /\ b.sess = bind.sess /\ b.gen = bind.gen
    BY <1>0, Types DEF Bindings
  <1>3. Event("moved", bind) \in Callbacks
    BY <1>0, Types, EventIs
  <1> HIDE DEF b
  <1>4. Carried /\ bind' \in {bind, b}
    BY <1>0, <1>1, <1>3, PostedIs, NotPosted
  <1>5. /\ line \in Seq({"join", "leave"}) /\ farewell \in BOOLEAN /\ suppress \in BOOLEAN
        /\ bind \in Bindings
    BY <1>0, Types
  <1> QED BY <1>0, <1>1, <1>2, <1>4, <1>5, WireStep DEF Carried

LEMMA VoiceReadyStep ==
  ASSUME IInv, VoiceReady
  PROVE  Step
  <1>0. Sound(World)
    BY DEF IInv
  <1> DEFINE a == [bind EXCEPT !.connected = TRUE, !.ready = TRUE]
             b == [bind EXCEPT !.connected = TRUE]
  <1>1. /\ line' = line /\ farewell' = farewell /\ suppress' \in {FALSE, suppress}
        /\ ses' = ses /\ job' = job /\ rejoined' = rejoined /\ rejected' = rejected
        /\ bind' \in {a, b}
        /\ Posted(Event("ready", bind), 0) \/ Posted(Event("error", bind), 1)
    BY DEF VoiceReady, Untouched
  <1>2. /\ a \in Bindings /\ a.sess = bind.sess /\ a.gen = bind.gen
        /\ b \in Bindings /\ b.sess = bind.sess /\ b.gen = bind.gen
    BY <1>0, Types DEF Bindings
  <1>3. Event("ready", bind) \in Callbacks /\ Event("error", bind) \in Callbacks
    BY <1>0, Types, EventIs
  <1> HIDE DEF a, b
  <1>4. Carried
    BY <1>0, <1>1, <1>3, PostedIs
  <1>5. /\ line \in Seq({"join", "leave"}) /\ farewell \in BOOLEAN /\ suppress \in BOOLEAN
    BY <1>0, Types
  <1> QED BY <1>0, <1>1, <1>2, <1>4, <1>5, WireStep DEF Carried

LEMMA MarkerReachedStep ==
  ASSUME IInv, MarkerReached
  PROVE  Step
  <1>0. Sound(World)
    BY DEF IInv
  <1> DEFINE b == [bind EXCEPT !.track = "none", !.done = bind.track]
             seen == [bind EXCEPT !.done = bind.track]
  <1>1. /\ line' = line /\ farewell' = farewell /\ suppress' = suppress
        /\ ses' = ses /\ job' = job /\ rejoined' = rejoined /\ rejected' = rejected
        /\ bind' = b /\ Posted(Event("marker", seen), 0)
    BY DEF MarkerReached, Untouched
  <1>2. b \in Bindings /\ b.sess = bind.sess /\ b.gen = bind.gen /\ seen \in Bindings
    BY <1>0, Types DEF Bindings, Tracks
  <1> HIDE DEF b, seen
  <1>3. Event("marker", seen) \in Callbacks
    BY <1>2, EventIs
  <1>4. Carried
    BY <1>0, <1>1, <1>3, PostedIs
  <1>5. /\ line \in Seq({"join", "leave"}) /\ farewell \in BOOLEAN /\ suppress \in BOOLEAN
    BY <1>0, Types
  <1> QED BY <1>0, <1>1, <1>2, <1>4, <1>5, WireStep DEF Carried

LEMMA HumansChangeStep ==
  ASSUME IInv, HumansChange
  PROVE  Step
  <1>0. Sound(World) /\ humans \in 0..1
    BY DEF IInv
  <1> DEFINE b == [bind EXCEPT !.humans = 1 - humans]
  <1>1. /\ line' = line /\ farewell' = farewell /\ suppress' = suppress
        /\ ses' = ses /\ job' = job /\ rejoined' = rejoined /\ rejected' = rejected
        /\ \/ bind' = b /\ Posted(Event("humans", b), 1)
           \/ bind' = bind /\ NothingPosted(1)
    BY DEF HumansChange, Untouched
  <1>2. b \in Bindings /\ b.sess = bind.sess /\ b.gen = bind.gen
    BY <1>0, Types DEF Bindings
  <1> HIDE DEF b
  <1>3. Event("humans", b) \in Callbacks
    BY <1>2, EventIs
  <1>4. Carried /\ bind' \in {bind, b}
    BY <1>0, <1>1, <1>3, PostedIs, NotPosted
  <1>5. /\ line \in Seq({"join", "leave"}) /\ farewell \in BOOLEAN /\ suppress \in BOOLEAN
        /\ bind \in Bindings
    BY <1>0, Types
  <1> QED BY <1>0, <1>1, <1>2, <1>4, <1>5, WireStep DEF Carried

LEMMA SendFarewellStep ==
  ASSUME IInv, SendFarewell
  PROVE  Step
  <1>0. Sound(World)
    BY DEF IInv
  <1> DEFINE b == [bind EXCEPT !.track = "farewell", !.done = "none"]
  <1>1. /\ line' = line /\ farewell' = FALSE /\ suppress' = suppress
        /\ ses' = ses /\ job' = job /\ rejoined' = rejoined /\ rejected' = rejected
        /\ bind' \in {bind, b} /\ NothingPosted(0)
    BY DEF SendFarewell, Untouched
  <1>2. b \in Bindings /\ b.sess = bind.sess /\ b.gen = bind.gen
    BY <1>0, Types DEF Bindings, Tracks
  <1> HIDE DEF b
  <1>4. Carried
    BY <1>0, <1>1, NotPosted
  <1>5. /\ line \in Seq({"join", "leave"}) /\ suppress \in BOOLEAN
        /\ bind \in Bindings
    BY <1>0, Types
  <1> QED BY <1>0, <1>1, <1>2, <1>4, <1>5, WireStep DEF Carried

(* The process is gone: its queue, its requests and its binding with it.   *)
LEMMA DownStep ==
  ASSUME Sound(World), NEW w, Timed(w), Onward(World, w),
         ses' = w.ses, job' = Returned(w.job), Down
  PROVE  Step
  <1>1. w.ses \in Rows /\ w.job \in [Jobs -> JobRows] /\ Held(w.ses, w.job)
    BY DEF Timed, Worlds
  <1>2. /\ Returned(w.job) \in [Jobs -> JobRows] /\ Held(w.ses, Returned(w.job))
        /\ Claims(Returned(w.job), <<>>)
    BY <1>1, GoneDown
  <1> DEFINE x == [ses |-> w.ses, job |-> Returned(w.job), queue |-> <<>>, reconcile |-> FALSE,
                   rejoined |-> 0, rejected |-> 0, farewell |-> FALSE,
                   bind |-> NoBinding, suppress |-> FALSE, line |-> <<>>]
  <1>3. World' = x
    BY DEF World, Down
  <1>4. /\ x \in Worlds /\ x.ses = w.ses /\ x.job = Returned(w.job) /\ x.queue = <<>>
        /\ x.bind.sess = 0
    BY <1>1, <1>2, NoBindingType DEF Worlds, Queues
  <1> HIDE DEF x
  <1>5. Sound(x) /\ Onward(World, x)
    BY <1>2, <1>4 DEF Sound, Timed, Ours, Onward
  <1> QED BY <1>3, <1>5 DEF Step, Steady

(* Whatever the session was, it is over.                                   *)
LEMMA OverIs ==
  ASSUME NEW w, Sound(w), NEW reason \in Reasons
  PROVE  LET x == Moved(ProofFailed(w), "inactive", reason, FALSE)
         IN /\ Timed(x) /\ Onward(w, x)
            /\ w.bind.sess = 0 => Sound(x)
            /\ x.ses \in Rows /\ x.job \in [Jobs -> JobRows] /\ x.queue = w.queue
  <1> DEFINE v == ProofFailed(w)
             x == Moved(v, "inactive", reason, FALSE)
  <1>1. Kept(w, v) /\ v.bind = w.bind /\ Sound(v) /\ v.queue = w.queue /\ v \in Worlds
    BY SoundType, ProofFailedIs, LightIsKept DEF Kept, Light
  <1> HIDE DEF v
  <1>2. Asks(v.ses, "inactive", FALSE)
    BY DEF Asks, States
  <1>3. Timed(x) /\ Onward(v, x)
    BY <1>1, <1>2, SoundType, MovedKept
  <1>4. w.bind.sess = 0 => Sound(x)
    BY <1>1, EndedBare DEF Kept
  <1>5. x.queue = v.queue
    <2> DEFINE rows == MovedJob(v, "inactive", reason, FALSE)
               row == Transit(v.ses, "inactive", reason, NewJob(v, "inactive", reason, FALSE))
               y == [v EXCEPT !.job = rows, !.ses = row]
    <2>1. x \in {v, y}
      BY MovedIs
    <2> HIDE DEF rows, row, x
    <2>2. y.queue = v.queue
      BY <1>1 DEF Worlds
    <2> HIDE DEF y
    <2> QED BY <2>1, <2>2
  <1> HIDE DEF x
  <1>6. x.ses \in Rows /\ x.job \in [Jobs -> JobRows]
    BY <1>3 DEF Timed, Worlds
  <1>7. Onward(w, x)
    BY <1>1, <1>3, OnwardTransitive DEF Kept
  <1> QED BY <1>1, <1>3, <1>4, <1>5, <1>6, <1>7 DEF x, v

LEMMA StopStep ==
  ASSUME IInv, Stop \/ Crash
  PROVE  Step
  <1> DEFINE w == World
             ended == Moved(ProofFailed(w), "inactive", "shutdown", FALSE)
  <1>1. Sound(w) /\ Timed(w) /\ Onward(w, w) /\ "shutdown" \in Reasons
    BY SoundType DEF IInv, Reasons, Kept
  <1>2. CASE Stop
    <2>1. ses' = ended.ses /\ job' = Returned(ended.job) /\ Down
      BY <1>2 DEF Stop
    <2> HIDE DEF w
    <2>2. Timed(ended) /\ Onward(w, ended)
      BY <1>1, OverIs
    <2> HIDE DEF ended
    <2> QED BY <1>1, <2>1, <2>2, DownStep DEF w
  <1>3. CASE Crash
    <2>1. ses' = w.ses /\ job' = Returned(w.job) /\ Down
      BY <1>3, WorldIs DEF Crash
    <2> HIDE DEF w
    <2> QED BY <1>1, <2>1, DownStep DEF w
  <1> QED BY <1>2, <1>3

LEMMA BootStep ==
  ASSUME IInv, Boot
  PROVE  Step
  <1> DEFINE w == World
             ended == Moved(ProofFailed(w), "inactive", "restart", FALSE)
             row == ended.ses
             rows == ended.job
             x == [w EXCEPT !.ses = row, !.job = rows]
  <1>1. Sound(w) /\ w.bind.sess = 0 /\ "restart" \in Reasons /\ w \in Worlds
    BY SoundType, WorldIs DEF IInv, Reasons, Boot, Restart
  <1>2. ses' = row /\ job' = rows
    BY DEF Boot
  <1> HIDE DEF w
  <1>3. /\ Timed(ended) /\ Onward(w, ended) /\ ended.queue = w.queue
        /\ ended.ses \in Rows /\ ended.job \in [Jobs -> JobRows]
    BY <1>1, OverIs
  <1> HIDE DEF ended
  <1>4. /\ x \in Worlds /\ x.ses = ended.ses /\ x.job = ended.job /\ x.queue = ended.queue
        /\ x.bind.sess = 0
    BY <1>1, <1>3 DEF Worlds
  <1>5. Same(x, w) /\ x.ses = row /\ x.job = rows /\ x.queue = w.queue
    BY <1>1 DEF Worlds, Same
  <1> HIDE DEF x
  <1>6. Sound(x) /\ Onward(w, x)
    BY <1>3, <1>4 DEF Sound, Timed, Ours, Onward
  <1> HIDE DEF row, rows
  <1>7. Become(x)
    BY <1>2, <1>5, WorldIs DEF w, Same, Become, Boot
  <1> QED BY <1>6, <1>7, BecomeKept DEF Kept, w

-----------------------------------------------------------------------------
(* The theorems                                                            *)

LEMMA InitIInv == Init => IInv
  <1> SUFFICES ASSUME Init PROVE IInv
    OBVIOUS
  <1> DEFINE row == Session(0, "inactive", 0)
             rows == [j \in Jobs |-> NoJob]
             x == [ses |-> row, job |-> rows, queue |-> <<>>, reconcile |-> FALSE,
                   rejoined |-> 0, rejected |-> 0, farewell |-> FALSE,
                   bind |-> NoBinding, suppress |-> FALSE, line |-> <<>>]
  <1>1. World = x
    BY DEF World, Init
  <1>2. /\ row \in Rows /\ row.state = "inactive" /\ row.timer = 0 /\ row.muteJob = 0
        /\ row.muted = FALSE
    BY DEF Session, Rows, States, Reasons
  <1>3. rows \in [Jobs -> JobRows] /\ Live(rows) = {}
    BY DEF NoJob, JobRows, Live
  <1> HIDE DEF row, rows
  <1>4. /\ x \in Worlds /\ x.ses = row /\ x.job = rows /\ x.queue = <<>> /\ x.bind.sess = 0
    BY <1>2, <1>3, NoBindingType DEF Worlds, Queues
  <1>5. Held(row, rows)
    BY <1>2, <1>3 DEF Held, Talking
  <1>6. Claims(rows, <<>>)
    <2>1. Len(<<>>) <= QueueCap /\ DOMAIN <<>> = {}
      BY VoxAssumption
    <2> QED BY <1>3, <2>1 DEF Claims
  <1> HIDE DEF x
  <1>7. Sound(x)
    BY <1>4, <1>5, <1>6 DEF Sound, Timed, Ours
  <1>8. humans \in 0..1 /\ up
    BY DEF Init
  <1> QED BY <1>1, <1>7, <1>8 DEF IInv

LEMMA NextStep == ASSUME IInv, [Next]_vars PROVE Step
  <1>1. CASE UNCHANGED vars
    <2>1. UNCHANGED World
      BY <1>1 DEF vars, World
    <2> QED BY <2>1, Idly DEF IInv
  <1>2. CASE Next
    <2>1. CASE Summon \/ Resolved \/ Unresolved \/ Leave \/ Mute \/ Unmute \/ TestDisconnect
      BY <2>1, SummonStep, ResolvedStep, UnresolvedStep, LeaveStep, MuteStep, UnmuteStep,
         TestDisconnectStep
    <2>2. CASE Disable \/ Enable \/ HandleCallback \/ HandleJob \/ Reconcile \/ Retry
      BY <2>2, DisableStep, SummonStep, HandleCallbackStep, HandleJobStep, ReconcileStep
    <2>3. CASE \E j \in Jobs : Claim(j)
      BY <2>3, ClaimStep
    <2>4. CASE Carry \/ Kick \/ MoveBot \/ VoiceReady \/ MarkerReached \/ HumansChange
      BY <2>4, CarryStep, KickStep, MoveBotStep, VoiceReadyStep, MarkerReachedStep,
         HumansChangeStep
    <2>5. CASE SendFarewell \/ Stop \/ Crash \/ Boot
      BY <2>5, SendFarewellStep, StopStep, BootStep
    <2> QED BY <1>2, <2>1, <2>2, <2>3, <2>4, <2>5 DEF Next
  <1> QED BY <1>1, <1>2

(* What a step does outside the world of a task.                           *)
LEMMA NextRest == ASSUME IInv, [Next]_vars
                  PROVE  humans' \in 0..1 /\ (~up' => bind'.sess = 0)
  <1>1. humans \in 0..1 /\ (~up => bind.sess = 0) /\ Sound(World)
    BY DEF IInv
  <1>2. humans' \in 0..1
    <2>1. humans' \in {humans, 1 - humans}
      BY DEF Next, vars, Summon, Resolved, Unresolved, Leave, Mute, Unmute, TestDisconnect,
             Disable, Enable, HandleCallback, HandleJob, Reconcile, Retry, Claim, Carry, Kick,
             MoveBot, VoiceReady, MarkerReached, HumansChange, SendFarewell, Stop, Crash, Boot,
             Down, Elsewhere
    <2> QED BY <1>1, <2>1
  <1>3. ~up' => bind'.sess = 0
    <2>1. CASE Stop \/ Crash
      BY <2>1, NoBindingType DEF Stop, Crash, Down
    <2>2. CASE Carry
      <3> SUFFICES ASSUME ~up' PROVE bind'.sess = 0
        OBVIOUS
      <3>1. bind.sess = 0
        BY <1>1, <2>2 DEF Carry, Untouched
      <3>2. bind' = bind
        BY <2>2, <3>1 DEF Carry, Arrived, Departed
      <3> QED BY <3>1, <3>2
    <2>3. CASE UNCHANGED vars
      BY <1>1, <2>3 DEF vars
    <2>4. CASE Next /\ ~(Stop \/ Crash \/ Carry)
      <3> DEFINE Stays == up /\ up' = up
      <3>1. ASSUME Summon PROVE Stays
        BY <3>1 DEF Summon, Turn, Idle, Elsewhere
      <3>2. ASSUME Resolved PROVE Stays
        BY <3>2 DEF Resolved, Idle, Elsewhere
      <3>3. ASSUME Unresolved PROVE Stays
        BY <3>3 DEF Unresolved, Elsewhere
      <3>4. ASSUME Leave PROVE Stays
        BY <3>4 DEF Leave, Turn, Idle, Elsewhere
      <3>5. ASSUME Mute PROVE Stays
        BY <3>5 DEF Mute, Turn, Idle, Elsewhere
      <3>6. ASSUME Unmute PROVE Stays
        BY <3>6 DEF Unmute, Turn, Idle, Elsewhere
      <3>7. ASSUME TestDisconnect PROVE Stays
        BY <3>7 DEF TestDisconnect, Turn, Idle, Elsewhere
      <3>8. ASSUME Disable PROVE Stays
        BY <3>8 DEF Disable, Idle
      <3>9. ASSUME Enable PROVE Stays
        BY <3>9 DEF Enable, Idle
      <3>10. ASSUME HandleCallback PROVE Stays
        BY <3>10 DEF HandleCallback, TakeCallback, Idle, Elsewhere
      <3>11. ASSUME HandleJob PROVE Stays
        BY <3>11 DEF HandleJob, TakeJob, Idle, Elsewhere
      <3>12. ASSUME Reconcile PROVE Stays
        BY <3>12 DEF Reconcile, FreeWorker, Elsewhere
      <3>13. ASSUME Retry PROVE Stays
        BY <3>13 DEF Retry, Idle
      <3>14. ASSUME \E j \in Jobs : Claim(j) PROVE Stays
        BY <3>14 DEF Claim
      <3>15. ASSUME Kick PROVE Stays
        BY <3>15 DEF Kick, Untouched
      <3>16. ASSUME MoveBot PROVE Stays
        BY <3>16 DEF MoveBot, Untouched
      <3>17. ASSUME VoiceReady PROVE Stays
        BY <3>17 DEF VoiceReady, Untouched
      <3>18. ASSUME MarkerReached PROVE Stays
        BY <3>18 DEF MarkerReached, Untouched
      <3>19. ASSUME HumansChange PROVE Stays
        BY <3>19 DEF HumansChange, Untouched
      <3>20. ASSUME SendFarewell PROVE Stays
        BY <3>20 DEF SendFarewell, Untouched
      <3>21. Boot => up'
        BY DEF Boot, Restart
      <3>22. Stays => up'
        OBVIOUS
      <3> HIDE DEF Stays
      <3> QED
        BY <2>4, <3>1, <3>2, <3>3, <3>4, <3>5, <3>6, <3>7, <3>8, <3>9, <3>10, <3>11, <3>12, <3>13, <3>14, <3>15, <3>16, <3>17, <3>18, <3>19, <3>20, <3>21, <3>22 DEF Next
    <2> QED BY <2>1, <2>2, <2>3, <2>4
  <1> QED BY <1>2, <1>3

LEMMA NextIInv == IInv /\ [Next]_vars => IInv'
  <1> SUFFICES ASSUME IInv, [Next]_vars PROVE IInv'
    OBVIOUS
  <1>1. Sound(World')
    BY NextStep DEF Step
  <1>2. humans' \in 0..1 /\ (~up' => bind'.sess = 0)
    BY NextRest
  <1>3. IInv' <=> /\ Sound(World') /\ humans' \in 0..1
                  /\ ~up' => bind'.sess = 0
    BY DEF IInv
  <1> QED BY <1>1, <1>2, <1>3

LEMMA IInvHeld == IInv => SessionIsHeld
  <1> SUFFICES ASSUME IInv PROVE SessionIsHeld
    OBVIOUS
  <1>1. Held(ses, job) /\ Claims(job, queue) /\ ses \in Rows
    BY WorldIs DEF IInv, Sound, Timed, Worlds
  <1>2. BindingIsOwned
    BY WorldIs DEF IInv, Sound, Ours, BindingIsOwned
  <1>3. WaitsHaveTimers
    <2>1. /\ ses.state \in {"connecting", "reconnecting", "leaving"}
               => ses.timer \in Live(job) /\ job[ses.timer].kind = TimerOf[ses.state]
          /\ Talking(ses) =>
               /\ ses.empty <=> ses.timer # 0
               /\ ses.empty => ses.timer \in Live(job) /\ job[ses.timer].kind = "empty"
          /\ Live(job) \subseteq IF Active(ses) THEN {ses.timer, ses.muteJob} ELSE {}
      BY <1>1 DEF Held
    <2>2. \A j \in Live(job) : job[j].state = "claimed" <=> InQueue(queue, j)
      BY <1>1 DEF Claims
    <2> QED BY <2>1, <2>2 DEF WaitsHaveTimers, Live, InQueue
  <1> QED BY <1>2, <1>3 DEF SessionIsHeld

(* The timers of a session are those its state calls for, each claimed one *)
(* waits in the worker's queue, no job outlives its session, and the       *)
(* binding of the gateway is the active session's own (the transitions of  *)
(* the repository, handle_timeout, connect and release_connection).        *)
THEOREM SessionsAreHeld == Spec => []SessionIsHeld
  <1> QED BY InitIInv, NextIInv, IInvHeld, PTL DEF Spec

(* A mute ends with the command or its own expiry: neither a reconnection, *)
(* a lost callback, a failed write nor a timeout of another kind lifts it  *)
(* (apply_transition and handle_timeout of the repository).                *)
THEOREM MutesLast == Spec => MuteSurvives
  <1> DEFINE Act == /\ Active(ses) /\ ses'.id = ses.id /\ ses.muted
                    /\ ~ses'.muted /\ (Talking(ses') \/ Dialling(ses'))
                    => Unmute \/ (TakeJob /\ job[Head(queue).job].kind = "mute")
  <1>1. IInv /\ [Next]_vars => Act
    <2> SUFFICES ASSUME IInv, [Next]_vars PROVE Act
      OBVIOUS
    <2>1. Steady
      BY NextStep DEF Step
    <2>2. World.ses = ses
      BY WorldIs
    <2>3. World'.ses = ses'
      BY DEF World
    <2>4. Onward(World, World') => Act
      BY <2>2, <2>3 DEF Onward, Going
    <2> QED BY <2>1, <2>4 DEF Steady
  <1>2. MuteSurvives <=> [][Act]_vars
    BY DEF MuteSurvives
  <1> HIDE DEF Act
  <1> QED BY <1>1, <1>2, InitIInv, NextIInv, PTL DEF Spec
=============================================================================
