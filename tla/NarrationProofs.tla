--------------------------- MODULE NarrationProofs --------------------------
(* Proofs about Narration for any events, sessions and disturbances: the   *)
(* lines Vox says are few, public, asked for once and hushed by a mute.    *)
EXTENDS Narration, WellFoundedInduction, TLAPS

(* An event without a place has no card, and a session's card is not there *)
(* before its event was observed.                                          *)
Carded(e) ==
  /\ row[e] <= head
  /\ row[e] = 0 => card[e] = "none"
  /\ OfASession(e) /\ cursor < row[e] => card[e] = "none"

(* What the speech queue has of an intent: nothing before it is handed     *)
(* over, and an item that waits only while the intent is queued.           *)
Unsaid == {"none", "pending", "generating", "suppressed", "expired"}
Handed(e) ==
  /\ intent[e].state \in Unsaid => speech[e] = "none"
  /\ speech[e] = "waiting" => intent[e].state = "queued"
  /\ intent[e].state = "queued" => speech[e] # "none"
  /\ intent[e].state = "played" => speech[e] = "played"
  /\ intent[e].state \notin {"none", "suppressed"} => intent[e].ses \in Sessions

(* What is worked on: the tasks and the claim that is about to be one.  It *)
(* is live, so that no lease sets its intent free, and its fence knows of  *)
(* every mute.                                                             *)
Begun(j) == intent[j.e].state \notin {"none", "pending"}
Heeds(j) == Fenced(j) =>
  /\ j.mutes <= TheSes(j.e).mutes
  /\ intent[j.e].hushed => j.mutes < TheSes(j.e).mutes

Working ==
  /\ \A t \in tasks : t.e \in live /\ Begun(t) /\ Heeds(t)
  /\ pc.at = "given" => Begun(pc) /\ Heeds(pc)

NInv == /\ TypeOK /\ cursor <= head /\ \A e \in Events : Carded(e) /\ Handed(e)
        /\ Working /\ AskedOnce /\ TextFirst /\ MuteForgets /\ SparingNarration

States     == {"none"} \cup Active \cup Ended
IntentRows == [state : States, rev : Nat, ses : Sessions \cup {0},
               began : BOOLEAN, hushed : BOOLEAN]
Jobs  == [e : Events, rev : Nat, mutes : Nat, at : {"sent", "asking"}]
Given == [at : {"given"}, e : Events, rev : Nat, mutes : Nat]

-----------------------------------------------------------------------------
(* What the helpers do                                                     *)

(* An update of terminalize's kind counts the revision and leaves the rest. *)
LEMMA Updated ==
  ASSUME NEW r \in IntentRows, NEW s \in States
  PROVE  /\ To(r, s) \in IntentRows
         /\ To(r, s).state = s /\ To(r, s).rev = r.rev + 1 /\ To(r, s).ses = r.ses
         /\ To(r, s).began = r.began /\ To(r, s).hushed = r.hushed
<1> DEFINE rev == r.rev + 1
<1>1. rev \in Nat
  BY DEF IntentRows
<1>2. To(r, s) = [r EXCEPT !.state = s, !.rev = rev]
  BY DEF To
<1> HIDE DEF rev
<1>3. LET q == [r EXCEPT !.state = s, !.rev = rev] IN
      /\ q \in IntentRows /\ q.state = s /\ q.rev = rev
      /\ q.ses = r.ses /\ q.began = r.began /\ q.hushed = r.hushed
  BY <1>1 DEF IntentRows
<1> QED BY <1>2, <1>3 DEF rev

(* A set of numbers has a least one.                                       *)
LEMMA Least ==
  ASSUME NEW N \in SUBSET Nat, N # {}
  PROVE  \E n \in N : \A k \in N : n <= k
<1> DEFINE R == OpToRel(<, Nat)
<1>1. IsWellFoundedOn(R, Nat)
  BY NatLessThanWellFounded
<1> HIDE DEF R
<1>2. PICK n \in N : \A k \in N : ~ (<<k, n>> \in R)
  BY <1>1, WFMin
<1>3. \A k \in N : ~ (k < n)
  BY <1>2 DEF OpToRel, R
<1> QED BY <1>3

(* The claim query has a first row, though nothing bounds the events.      *)
LEMMA FirstInRank ==
  ASSUME NEW S \in SUBSET Events, S # {}, row \in [Events -> Nat]
  PROVE  Next_(S) \in S
<1> DEFINE Low(e) == 100 - Rank(e)
<1>1. \A e \in Events : Rank(e) \in 40..100
  BY DEF Rank
<1>2. \E e \in S : \A f \in S : Low(e) <= Low(f)
  <2> DEFINE L == {Low(e) : e \in S}
  <2>1. L \in (SUBSET Nat) /\ L # {}
    BY <1>1
  <2>2. PICK n \in L : \A k \in L : n <= k
    <3> HIDE DEF L
    <3> QED BY <2>1, Least
  <2> QED BY <2>2
<1>3. PICK a \in S : \A f \in S : Low(a) <= Low(f)
  BY <1>2
<1> DEFINE T == {e \in S : Low(e) = Low(a)}
<1>4. \E e \in T : \A f \in T : row[e] <= row[f]
  <2> DEFINE L == {row[e] : e \in T}
  <2>1. L \in (SUBSET Nat) /\ L # {}
    OBVIOUS
  <2>2. PICK n \in L : \A k \in L : n <= k
    <3> HIDE DEF L
    <3> QED BY <2>1, Least
  <2> QED BY <2>2
<1>5. PICK b \in T : \A f \in T : row[b] <= row[f]
  BY <1>4
<1>6. \A f \in S : \/ Rank(f) < Rank(b)
                   \/ Rank(f) = Rank(b) /\ row[b] <= row[f]
  BY <1>1, <1>3, <1>5
<1> HIDE DEF T
<1>7. b \in S
  BY <1>5 DEF T
<1> QED BY <1>6, <1>7 DEF Next_

(* What an observation makes of an event.                                  *)
LEMMA Observed ==
  ASSUME TypeOK, NEW c, NEW e \in Events
  PROVE  LET o == Observation(e, c) IN
         /\ o \in IntentRows /\ o.state \in {"pending", "suppressed"}
         /\ o.state = "pending" => o.ses \in Sessions
         /\ o.hushed = FALSE
<1> DEFINE s == IF Bound(e) = {} THEN 0 ELSE CHOOSE x \in Bound(e) : TRUE
<1>1. s \in Sessions \cup {0} /\ (Bound(e) # {} => s \in Sessions)
  BY DEF Bound
<1> DEFINE st == IF Passes(e, c) THEN "pending" ELSE "suppressed"
           o == [Absent EXCEPT !.state = st, !.rev = 1, !.ses = s]
<1>2. Observation(e, c) = o
  BY DEF Observation
<1>3. Passes(e, c) => Bound(e) # {}
  BY DEF Passes
<1>4. st \in {"pending", "suppressed"} /\ (st = "pending" => s \in Sessions)
  BY <1>1, <1>3
<1> HIDE DEF s, st
<1>5. o \in IntentRows /\ o.state = st /\ o.ses = s /\ o.hushed = FALSE
  <2>1. Absent \in IntentRows /\ Absent.hushed = FALSE
    BY DEF Absent, IntentRows, States
  <2>2. st \in States
    BY <1>4 DEF States, Active, Ended
  <2> HIDE DEF Absent
  <2> QED BY <1>1, <2>1, <2>2 DEF IntentRows
<1> QED BY <1>2, <1>4, <1>5

(* Of some lines one has the lowest rank.                                  *)
LEMMA LowestOfSome ==
  ASSUME NEW S \in SUBSET Events, S # {}
  PROVE  Lowest(S) \in S
<1> DEFINE L == {Rank(e) : e \in S}
<1>1. L \in (SUBSET Nat) /\ L # {}
  BY DEF Rank
<1>2. PICK n \in L : \A k \in L : n <= k
  <2> HIDE DEF L
  <2> QED BY <1>1, Least
<1>3. \E f \in S : \A g \in S : Rank(f) <= Rank(g)
  BY <1>2
<1> QED BY <1>3 DEF Lowest

(* What a session has spent was told in it.                                *)
LEMMA SpentIsTold ==
  ASSUME \A f \in Events : Handed(f), NEW s
  PROVE  Spent(s) \subseteq Told(s)
  BY DEF Spent, Spending, Told, Handed, Played

(* A place in a session is won against what gives way, and leaves one line *)
(* at most, of another feature.                                            *)
LEMMA PlaceWon ==
  ASSUME NEW e \in Events, SparingNarration, \A f \in Events : Handed(f),
         intent[e].ses \in Sessions, Place(e).won
  PROVE  LET all == Spent(intent[e].ses)
             gone == Place(e).gone IN
         /\ gone \subseteq all /\ \A f \in gone : Yields(f, e)
         /\ \A f \in all \ gone : Feature(f) # Feature(e)
         /\ \A f, g \in all \ gone : f = g
<1> DEFINE all   == Spent(intent[e].ses)
           same  == {f \in all : Feature(f) = Feature(e)}
           first == IF same = {} THEN {} ELSE {Highest(same)}
           rest  == all \ first
           open  == {f \in rest : Yields(f, e)}
<1>1. Place(e) = IF \E f \in first : ~Yields(f, e) THEN [won |-> FALSE, gone |-> {}]
                 ELSE IF ~Two(rest) THEN [won |-> TRUE, gone |-> first]
                 ELSE IF open = {} THEN [won |-> FALSE, gone |-> first]
                 ELSE [won |-> TRUE, gone |-> first \cup {Lowest(open)}]
  BY DEF Place
<1>2. /\ all \subseteq Events
      /\ \A f, g \in all : Feature(f) = Feature(g) => f = g
      /\ \A f, g, h \in all : f = g \/ g = h \/ f = h
  BY SpentIsTold DEF SparingNarration, Told
<1> HIDE DEF all
<1>3. first = same
  <2>1. CASE same = {}
    BY <2>1
  <2>2. CASE same # {}
    <3>1. PICK x : same = {x}
      BY <1>2, <2>2
    <3>2. Rank(x) <= Rank(x)
      BY DEF Rank
    <3>3. Highest(same) = x
      BY <3>1, <3>2 DEF Highest
    <3> QED BY <2>2, <3>1, <3>3
  <2> QED BY <2>1, <2>2
<1>4. first \subseteq all /\ \A f \in rest : Feature(f) # Feature(e)
  BY <1>3
<1> HIDE DEF first
<1>5. ~ \E f \in first : ~Yields(f, e)
  BY <1>1
<1>6. CASE ~Two(rest)
  <2>1. Place(e).gone = first
    BY <1>1, <1>5, <1>6
  <2>2. \A f, g \in rest : f = g
    BY <1>6 DEF Two
  <2> QED BY <1>4, <1>5, <2>1, <2>2 DEF all
<1>7. CASE Two(rest)
  <2>1. open # {}
    <3> HIDE DEF open, rest
    <3> QED BY <1>1, <1>5, <1>7
  <2>2. Lowest(open) \in open
    BY <1>2, <2>1, LowestOfSome
  <2>3. Place(e).gone = first \cup {Lowest(open)}
    <3> HIDE DEF open, rest
    <3> QED BY <1>1, <1>5, <1>7, <2>1
  <2>4. \A f, g \in rest \ {Lowest(open)} : f = g
    BY <1>2, <2>2
  <2> QED BY <1>4, <1>5, <2>2, <2>3, <2>4 DEF all
<1> QED BY <1>6, <1>7

(* Who loses the place may have taken what gives way with it.              *)
LEMMA PlaceTried ==
  ASSUME NEW e \in Events, SparingNarration, \A f \in Events : Handed(f),
         intent[e].ses \in Sessions
  PROVE  /\ Place(e).won \in BOOLEAN
         /\ \A f \in Place(e).gone : f \in Events /\ Yields(f, e)
<1> DEFINE all   == Spent(intent[e].ses)
           same  == {f \in all : Feature(f) = Feature(e)}
           first == IF same = {} THEN {} ELSE {Highest(same)}
           rest  == all \ first
           open  == {f \in rest : Yields(f, e)}
<1>1. Place(e) = IF \E f \in first : ~Yields(f, e) THEN [won |-> FALSE, gone |-> {}]
                 ELSE IF ~Two(rest) THEN [won |-> TRUE, gone |-> first]
                 ELSE IF open = {} THEN [won |-> FALSE, gone |-> first]
                 ELSE [won |-> TRUE, gone |-> first \cup {Lowest(open)}]
  BY DEF Place
<1>2. CASE Place(e).won
  <2>1. Spent(intent[e].ses) \subseteq Events
    BY DEF Spent
  <2> QED BY <1>1, <1>2, <2>1, PlaceWon
<1>3. CASE ~Place(e).won
  <2>1. /\ Place(e).gone = {} \/ /\ Place(e).gone = first
                                 /\ \A f \in first : Yields(f, e)
        /\ Place(e).won \in BOOLEAN
    <3> HIDE DEF first, rest, open
    <3> QED BY <1>1, <1>3
  <2>2. /\ all \subseteq Events
        /\ \A f, g \in all : Feature(f) = Feature(g) => f = g
    BY SpentIsTold DEF SparingNarration, Told
  <2> HIDE DEF all
  <2>3. first \subseteq Events
    <3>1. CASE same # {}
      <4>1. PICK x : same = {x}
        BY <2>2, <3>1
      <4>2. Rank(x) <= Rank(x)
        BY DEF Rank
      <4>3. Highest(same) = x
        BY <4>1, <4>2 DEF Highest
      <4> QED BY <2>2, <3>1, <4>1, <4>3
    <3> QED BY <3>1
  <2> QED BY <2>1, <2>3
<1> QED BY <1>2, <1>3

-----------------------------------------------------------------------------
(* What a step does to one event                                           *)

Speaks(e) == \/ speech'[e] = speech[e]
             \/ speech[e] = "waiting" /\ speech'[e] \in {"dropped", "playing"}
             \/ speech[e] = "playing" /\ speech'[e] \in {"played", "broken"}

(* The moves of an intent, but for the one that spends.                    *)
Stays(e)    == /\ intent'[e].state = intent[e].state /\ intent'[e].ses = intent[e].ses
               /\ intent[e].state = "queued" => intent'[e].hushed = intent[e].hushed
               /\ Speaks(e)
IsObserved(e) == /\ intent[e].state = "none" /\ intent'[e].state \in {"pending", "suppressed"}
                 /\ intent'[e].state = "pending" => intent'[e].ses \in Sessions
                 /\ speech'[e] = speech[e]
Falls(e)    == /\ intent[e].state \in {"pending", "generating"}
               /\ intent'[e].state \in {"pending", "suppressed", "expired", "cancelled"}
               /\ intent'[e].ses = intent[e].ses /\ speech'[e] = speech[e]
Ends(e)     == /\ intent[e].state = "queued" /\ intent'[e].ses = intent[e].ses
               /\ \/ /\ intent'[e].state = "cancelled"
                     /\ speech[e] = "waiting" /\ speech'[e] = "dropped"
                  \/ /\ intent'[e].state = "played" /\ speech[e] = "played"
                     /\ speech'[e] = "played"
                  \/ /\ intent'[e].state = "failed" /\ speech[e] \in {"broken", "dropped"}
                     /\ speech'[e] = speech[e]
IsQueued(e) == /\ intent[e].state = "generating" /\ intent'[e].state = "queued"
               /\ intent'[e].ses = intent[e].ses /\ ~intent'[e].hushed
               /\ speech'[e] = "waiting" /\ card[e] = "delivered"
Moves(e)    == Stays(e) \/ IsObserved(e) \/ Falls(e) \/ Ends(e) \/ IsQueued(e)

IsClaimed(e) == /\ intent[e].state = "pending" /\ intent'[e].state = "generating"
                /\ intent'[e].ses = intent[e].ses /\ speech'[e] = speech[e]
                /\ card[e] = "delivered"

CardsStay == \A e \in Events : card[e] = "delivered" => card'[e] = "delivered"

LEMMA HandedKept ==
  ASSUME NInv, NEW e \in Events, Moves(e) \/ IsClaimed(e)
  PROVE  Handed(e)'
<1>1. Handed(e) /\ speech[e] \in SpeechStates
  BY DEF NInv, TypeOK
<1>2. CASE Stays(e)
  BY <1>1, <1>2 DEF Stays, Speaks, Handed, Unsaid
<1>3. CASE IsObserved(e)
  BY <1>1, <1>3 DEF IsObserved, Handed, Unsaid
<1>4. CASE Falls(e)
  BY <1>1, <1>4 DEF Falls, Handed, Unsaid
<1>5. CASE Ends(e)
  BY <1>1, <1>5 DEF Ends, Handed, Unsaid
<1>6. CASE IsQueued(e)
  BY <1>1, <1>6 DEF IsQueued, Handed, Unsaid
<1>7. CASE IsClaimed(e)
  BY <1>1, <1>7 DEF IsClaimed, Handed, Unsaid
<1> QED BY <1>2, <1>3, <1>4, <1>5, <1>6, <1>7 DEF Moves

LEMMA TextKept ==
  ASSUME NInv, CardsStay, \A e \in Events : Moves(e) \/ IsClaimed(e)
  PROVE  TextFirst'
<1> SUFFICES ASSUME NEW e \in Events,
                    intent'[e].state \in {"generating", "queued", "played"} \/ speech'[e] # "none"
             PROVE  card[e] = "delivered"
  BY DEF TextFirst, CardsStay
<1>1. /\ Handed(e)
      /\ intent[e].state \in {"generating", "queued", "played"} \/ speech[e] # "none"
           => card[e] = "delivered"
  BY DEF NInv, TextFirst
<1>2. CASE Stays(e)
  BY <1>1, <1>2 DEF Stays, Speaks
<1>3. CASE IsObserved(e)
  BY <1>1, <1>3 DEF IsObserved
<1>4. CASE Falls(e)
  BY <1>1, <1>4 DEF Falls
<1>5. CASE Ends(e)
  BY <1>1, <1>5 DEF Ends
<1>6. CASE IsQueued(e)
  BY <1>6 DEF IsQueued
<1>7. CASE IsClaimed(e)
  BY <1>7 DEF IsClaimed
<1> QED BY <1>2, <1>3, <1>4, <1>5, <1>6, <1>7 DEF Moves

LEMMA MutesKept ==
  ASSUME NInv, \A e \in Events : Moves(e) \/ IsClaimed(e)
  PROVE  MuteForgets'
  BY DEF NInv, MuteForgets, Moves, Stays, IsObserved, Falls, Ends, IsQueued, IsClaimed

(* No move of these makes a session tell more.                             *)
LEMMA SparingKept ==
  ASSUME NInv, \A e \in Events : Moves(e)
  PROVE  SparingNarration'
<1> DEFINE Tells(e) == Played(e) \/ intent[e].state \in {"generating", "queued"}
<1>1. ASSUME NEW e \in Events, Tells(e)'
      PROVE  Tells(e) /\ intent'[e].ses = intent[e].ses
  <2>1. Handed(e) /\ Moves(e)
    BY DEF NInv
  <2>2. CASE Stays(e)
    BY <1>1, <2>1, <2>2 DEF Stays, Speaks, Played, Handed, Unsaid
  <2>3. CASE IsObserved(e)
    BY <1>1, <2>1, <2>3 DEF IsObserved, Played, Handed, Unsaid
  <2>4. CASE Falls(e)
    BY <1>1, <2>1, <2>4 DEF Falls, Played, Handed, Unsaid
  <2>5. CASE Ends(e)
    BY <1>1, <2>1, <2>5 DEF Ends, Played
  <2>6. CASE IsQueued(e)
    BY <1>1, <2>6 DEF IsQueued, Played
  <2> QED BY <2>1, <2>2, <2>3, <2>4, <2>5, <2>6 DEF Moves
<1>2. \A s \in Sessions : Told(s)' \subseteq Told(s)
  BY <1>1 DEF Told
<1> HIDE DEF Tells
<1>3. \A e \in Events : Feature(e)' = Feature(e)
  BY DEF Feature
<1> QED BY <1>2, <1>3 DEF NInv, SparingNarration

(* Work goes on where it was: what changes is not generated any more, and  *)
(* what waits again is in nobody's hands.                                  *)
Free(e) == /\ \A t \in tasks' : t.e # e
           /\ pc'.at = "given" => pc'.e # e
Leaves(e) == \/ intent'[e] = intent[e]
             \/ intent'[e].state \notin {"none", "pending", "generating"}
             \/ Free(e)

LEMMA WorkKept ==
  ASSUME NInv, TypeOK', \A s \in Sessions : ses'[s].mutes = ses[s].mutes,
         tasks' \subseteq tasks, \A t \in tasks' : t.e \in live',
         pc' = pc \/ pc'.at # "given",
         \A e \in Events : Leaves(e)
  PROVE  Working' /\ AskedOnce'
<1>1. ASSUME NEW j, j.e \in Events, Begun(j), Heeds(j), ~Free(j.e)
      PROVE  Begun(j)' /\ Heeds(j)'
  <2>1. intent'[j.e] = intent[j.e] \/ intent'[j.e].state \notin {"none", "pending", "generating"}
    BY <1>1 DEF Leaves
  <2>2. intent[j.e].state = "generating" => intent[j.e].ses \in Sessions
    BY <1>1 DEF NInv, Handed
  <2> QED BY <1>1, <2>1, <2>2 DEF Begun, Heeds, Fenced, TheSes
<1>2. ASSUME NEW t \in tasks'
      PROVE  t.e \in live' /\ Begun(t)' /\ Heeds(t)'
  <2>1. t.e \in Events /\ Begun(t) /\ Heeds(t) /\ ~Free(t.e)
    BY DEF NInv, Working, TypeOK, Free
  <2> QED BY <1>1, <2>1
<1>3. ASSUME pc'.at = "given"
      PROVE  Begun(pc)' /\ Heeds(pc)'
  <2>1. pc' = pc /\ pc.e \in Events /\ Begun(pc) /\ Heeds(pc) /\ ~Free(pc.e)
    BY <1>3 DEF NInv, Working, TypeOK, Free
  <2>2. Begun(pc) /\ Heeds(pc) /\ pc.e \in Events /\ ~Free(pc.e)
    BY <2>1
  <2>3. \A j : j.e \in Events /\ Begun(j) /\ Heeds(j) /\ ~Free(j.e) => Begun(j)' /\ Heeds(j)'
    BY <1>1
  <2> QED BY <2>1, <2>3 DEF Begun, Heeds, Fenced, TheSes
<1>4. AskedOnce'
  BY DEF NInv, AskedOnce
<1> QED BY <1>2, <1>3, <1>4 DEF Working

(* The journal: places are given in order, and a card that was sent stays. *)
LEMMA StepKept ==
  ASSUME NInv, TypeOK', cursor' <= head', \A e \in Events : Carded(e)',
         CardsStay, \A e \in Events : Moves(e), Working', AskedOnce'
  PROVE  NInv'
  BY HandedKept, TextKept, MutesKept, SparingKept DEF NInv

-----------------------------------------------------------------------------
(* The world                                                               *)

(* Where neither intents nor the service move.                             *)
LEMMA WorldKept ==
  ASSUME NInv, TypeOK', UNCHANGED <<intent, speech, cursor>>, cursor' <= head',
         \A e \in Events : Carded(e)', CardsStay, tasks' \subseteq tasks,
         \A t \in tasks' : t.e \in live', pc' = pc \/ pc'.at # "given",
         \A s \in Sessions : ses'[s].mutes = ses[s].mutes
  PROVE  NInv'
<1>1. \A e \in Events : Moves(e) /\ Leaves(e)
  BY DEF Moves, Stays, Speaks, Leaves
<1> QED BY <1>1, WorkKept, StepKept

LEMMA RecordKept ==
  ASSUME NInv, NEW e \in Events, Record(e)
  PROVE  NInv'
<1>1. TypeOK /\ \A f \in Events : Carded(f)
  BY DEF NInv
<1>2. PICK c \in {"none", "pending"} : /\ card' = [card EXCEPT ![e] = c]
                                       /\ OfASession(e) => c = "none"
  BY DEF Record
<1>3. /\ row[e] = 0 /\ row' = [row EXCEPT ![e] = head + 1] /\ head' = head + 1
      /\ eligible' \in {eligible, eligible \cup {e}} /\ late' = late
      /\ UNCHANGED outside /\ UNCHANGED table /\ UNCHANGED service
  BY DEF Record
<1>4. TypeOK'
  BY <1>1, <1>2, <1>3 DEF TypeOK, outside, table, service
<1>5. cursor' <= head' /\ UNCHANGED <<intent, speech, cursor, tasks, live, pc, ses>>
  BY <1>1, <1>3 DEF NInv, TypeOK, outside, table, service
<1>6. CardsStay
  BY <1>1, <1>2, <1>3 DEF Carded, CardsStay, TypeOK
<1>7. ASSUME NEW f \in Events PROVE Carded(f)'
  <2>1. Carded(f) /\ row[f] \in Nat /\ head \in Nat /\ cursor \in Nat
    BY <1>1 DEF TypeOK
  <2>2. OfASession(f)' = OfASession(f)
    BY DEF OfASession
  <2>3. CASE f = e
    BY <1>1, <1>2, <1>3, <2>1, <2>2, <2>3 DEF Carded, TypeOK
  <2>4. CASE f # e
    <3>1. row'[f] = row[f] /\ card'[f] = card[f] /\ head' = head + 1 /\ cursor' = cursor
      BY <1>1, <1>2, <1>3, <1>5, <2>4 DEF TypeOK
    <3> QED BY <2>1, <2>2, <3>1 DEF Carded
  <2> QED BY <2>3, <2>4
<1> QED BY <1>4, <1>5, <1>6, <1>7, WorldKept DEF NInv, Working

LEMMA PostKept ==
  ASSUME NInv, NEW e \in Events, Post(e)
  PROVE  NInv'
<1>1. PICK c \in {"delivered", "dead"} : card' = [card EXCEPT ![e] = c]
  BY DEF Post
<1>2. card[e] = "pending" /\ UNCHANGED <<row, head, eligible, late, outside, table, service>>
  BY DEF Post
<1>3. TypeOK /\ \A f \in Events : Carded(f)
  BY DEF NInv
<1>4. TypeOK'
  BY <1>1, <1>2, <1>3 DEF TypeOK, outside, table, service
<1>5. CardsStay
  BY <1>1, <1>2, <1>3 DEF CardsStay, TypeOK
<1>6. \A f \in Events : Carded(f)'
  BY <1>1, <1>2, <1>3 DEF Carded, TypeOK, table, OfASession
<1> QED BY <1>2, <1>4, <1>5, <1>6, WorldKept DEF NInv, Working, outside, table, service

LEMMA SummonKept ==
  ASSUME NInv, NEW s \in Sessions, Summon(s)
  PROVE  NInv'
<1>1. /\ TypeOK /\ UNCHANGED <<journal, quiet, config, up, acts, table, service>>
      /\ ses' = [ses EXCEPT ![s] = [@ EXCEPT !.state = "connecting", !.floor = head]]
  BY DEF Summon, NInv
<1>2. ses[s] \in VoiceSession /\ head \in Nat
  BY <1>1 DEF TypeOK
<1>3. LET q == [ses[s] EXCEPT !.state = "connecting", !.floor = head] IN
      q \in VoiceSession /\ q.mutes = ses[s].mutes
  BY <1>2 DEF VoiceSession
<1>4. TypeOK'
  BY <1>1, <1>3 DEF TypeOK, journal, table, service
<1>5. \A t \in Sessions : ses'[t].mutes = ses[t].mutes
  BY <1>1, <1>3 DEF TypeOK
<1>6. \A f \in Events : Carded(f)'
  BY <1>1 DEF NInv, Carded, OfASession, journal, table
<1> QED BY <1>1, <1>4, <1>5, <1>6, WorldKept
        DEF NInv, Working, CardsStay, journal, table, service

(* What leaves the tables and the sessions alone.                          *)
LEMMA AsideKept ==
  ASSUME NInv, Next,
         \/ \E e \in Events : Withdraw(e) \/ Grow(e) \/ LeaseEnds(e)
         \/ Hush \/ Stop \/ \E t \in tasks : Fail(t)
  PROVE  NInv'
<1>1. UNCHANGED <<row, head, card, ses, cursor, intent, speech>>
  BY DEF Withdraw, Grow, LeaseEnds, Hush, Stop, Fail, outside, journal, table, service
<1>2. \A f \in Events : Carded(f)'
  BY <1>1 DEF NInv, Carded, OfASession
<1>3. /\ tasks' \subseteq tasks /\ \A t \in tasks' : t.e \in live'
      /\ pc' = pc \/ pc'.at # "given"
  <2>1. CASE \E t \in tasks : Fail(t)
    BY <2>1 DEF NInv, Working, AskedOnce, Fail, Done
  <2>2. CASE Stop
    BY <2>2 DEF Stop
  <2>3. CASE (\E e \in Events : Withdraw(e) \/ Grow(e) \/ LeaseEnds(e)) \/ Hush
    BY <2>3 DEF NInv, Working, Withdraw, Grow, LeaseEnds, Hush, service
  <2> QED BY <2>1, <2>2, <2>3
<1>4. TypeOK'
  <2> USE DEF NInv, TypeOK
  <2>1. CASE \E t \in tasks : Fail(t)
    BY <2>1, NarrationAssumption DEF Fail, Done, Act, journal, table
  <2>2. CASE Stop
    <3>1. pc' \in [at : {"idle", "reconcile", "claim"}] /\ tasks' = {} /\ live' = {}
      BY <2>2 DEF Stop
    <3>2. acts' = acts + 1 /\ up' = FALSE /\ UNCHANGED <<journal, ses, quiet, config, table>>
      BY <2>2 DEF Stop, Act
    <3>3. acts' \in Nat
      BY <3>2
    <3> QED BY <3>1, <3>2, <3>3 DEF journal, table
  <2>3. CASE Hush
    BY <2>3, NarrationAssumption DEF Hush, Act, journal, table, service
  <2>4. CASE \E e \in Events : Withdraw(e)
    BY <2>4, NarrationAssumption DEF Withdraw, Act, table, service
  <2>5. CASE \E e \in Events : Grow(e)
    BY <2>5 DEF Grow, outside, table, service
  <2>6. CASE \E e \in Events : LeaseEnds(e)
    BY <2>6 DEF LeaseEnds, journal, outside, service
  <2> QED BY <2>1, <2>2, <2>3, <2>4, <2>5, <2>6
<1> QED BY <1>1, <1>2, <1>3, <1>4, WorldKept DEF NInv, CardsStay

(* The speech queue speaks, and nobody hears it twice.                     *)
LEMMA SpeakKept ==
  ASSUME NInv, NEW e \in Events, Speak(e)
  PROVE  NInv'
<1>1. TypeOK /\ UNCHANGED <<journal, outside, cursor, intent, lapsed, service>>
  BY DEF Speak, NInv
<1>2. PICK to \in SpeechStates : /\ speech' = [speech EXCEPT ![e] = to]
                                 /\ \/ speech[e] = "waiting" /\ to \in {"dropped", "playing"}
                                    \/ speech[e] = "playing" /\ to \in {"played", "broken"}
  <2>1. PICK to \in CASE speech[e] = "waiting" -> {"dropped"} \cup
                                   {x \in {"playing"} : ses[intent[e].ses].state = "ready"}
                      [] speech[e] = "playing" -> {"played", "broken"}
                      [] OTHER -> {} : speech' = [speech EXCEPT ![e] = to]
    BY DEF Speak
  <2> QED BY <2>1 DEF SpeechStates
<1>3. TypeOK'
  BY <1>1, <1>2 DEF TypeOK, journal, outside, service
<1>4. \A f \in Events : Moves(f) /\ Leaves(f)
  BY <1>1, <1>2 DEF TypeOK, Moves, Stays, Speaks, Leaves
<1>5. \A f \in Events : Carded(f)'
  BY <1>1 DEF NInv, Carded, OfASession, journal
<1>6. Working' /\ AskedOnce'
  BY <1>1, <1>3, <1>4, WorkKept DEF NInv, Working, outside, service
<1> QED BY <1>1, <1>3, <1>4, <1>5, <1>6, StepKept DEF NInv, CardsStay, journal

LEMMA BootKept ==
  ASSUME NInv, Boot
  PROVE  NInv'
<1>1. TypeOK /\ UNCHANGED <<journal, quiet, acts, cursor, intent, lapsed, service>>
  BY DEF Boot, NInv
<1>2. /\ ses' = [s \in Sessions |-> IF ses[s].state \in {"none", "over"} THEN ses[s]
                                    ELSE [ses[s] EXCEPT !.state = "over"]]
      /\ up' = TRUE /\ config' \in [on : BOOLEAN, test : BOOLEAN]
  BY DEF Boot
<1>3. ASSUME NEW s \in Sessions
      PROVE  ses'[s] \in VoiceSession /\ ses'[s].mutes = ses[s].mutes
  <2>1. ses[s] \in VoiceSession
    BY <1>1 DEF TypeOK
  <2>2. [ses[s] EXCEPT !.state = "over"] \in VoiceSession
        /\ [ses[s] EXCEPT !.state = "over"].mutes = ses[s].mutes
    BY <2>1 DEF VoiceSession
  <2> QED BY <1>2, <2>1, <2>2
<1>4. ses' \in [Sessions -> VoiceSession]
  BY <1>2, <1>3
<1>5. /\ speech' \in [Events -> SpeechStates] /\ \A e \in Events : Speaks(e)
  <2>1. speech' = [e \in Events |-> CASE speech[e] = "waiting" -> "dropped"
                                      [] speech[e] = "playing" -> "broken"
                                      [] OTHER -> speech[e]]
    BY DEF Boot
  <2> QED BY <1>1, <2>1 DEF TypeOK, SpeechStates, Speaks
<1>6. TypeOK'
  BY <1>1, <1>2, <1>4, <1>5 DEF TypeOK, journal, service
<1>7. \A f \in Events : Moves(f) /\ Leaves(f)
  BY <1>1, <1>5 DEF Moves, Stays, Leaves
<1>8. \A f \in Events : Carded(f)'
  BY <1>1 DEF NInv, Carded, OfASession, journal
<1>9. Working' /\ AskedOnce'
  BY <1>1, <1>3, <1>6, <1>7, WorkKept DEF NInv, Working, service
<1> QED BY <1>1, <1>6, <1>7, <1>8, <1>9, StepKept DEF NInv, CardsStay, journal

-----------------------------------------------------------------------------
(* The session, as narration sees it                                       *)

(* A mute is one more, and what is being generated is marked by it.        *)
LEMMA SessionKept ==
  ASSUME NInv, NEW s \in Sessions, NEW state,
         state \in {"connecting", "ready", "muted", "reconnecting", "over"},
         SessionTo(s, state), acts' \in Nat
  PROVE  NInv'
<1> DEFINE mutes == ses[s].mutes + IF state = "muted" THEN 1 ELSE 0
           Marked(e) == state = "muted" /\ intent[e].state = "generating" /\ intent[e].ses = s
<1>1. /\ TypeOK /\ UNCHANGED <<journal, quiet, config, up, cursor, lapsed, speech, service>>
      /\ ses' = [ses EXCEPT ![s] = [@ EXCEPT !.state = state, !.mutes = mutes]]
      /\ intent' = [e \in Events |-> IF Marked(e) THEN [intent[e] EXCEPT !.hushed = TRUE]
                                                  ELSE intent[e]]
  BY DEF SessionTo, NInv
<1>2. ses[s] \in VoiceSession /\ mutes \in Nat /\ ses[s].mutes \in Nat
  BY <1>1 DEF TypeOK, VoiceSession
<1>3. /\ mutes >= ses[s].mutes /\ (state = "muted" => mutes > ses[s].mutes)
  BY <1>2
<1> HIDE DEF mutes
<1>4. LET q == [ses[s] EXCEPT !.state = state, !.mutes = mutes] IN
      q \in VoiceSession /\ q.mutes = mutes
  BY <1>2 DEF VoiceSession
<1>5. /\ ses' \in [Sessions -> VoiceSession] /\ ses'[s].mutes = mutes
      /\ \A r \in Sessions \ {s} : ses'[r] = ses[r]
  BY <1>1, <1>4 DEF TypeOK
<1>6. ASSUME NEW e \in Events
      PROVE  /\ intent'[e] \in IntentRows /\ intent'[e].state = intent[e].state
             /\ intent'[e].rev = intent[e].rev /\ intent'[e].ses = intent[e].ses
             /\ intent'[e].hushed = (Marked(e) \/ intent[e].hushed)
  <2>1. intent[e] \in IntentRows
    BY <1>1 DEF TypeOK, IntentRows, States
  <2>2. LET q == [intent[e] EXCEPT !.hushed = TRUE] IN
        /\ q \in IntentRows /\ q.state = intent[e].state /\ q.rev = intent[e].rev
        /\ q.ses = intent[e].ses /\ q.hushed = TRUE
    BY <2>1 DEF IntentRows
  <2>3. intent'[e] = IF Marked(e) THEN [intent[e] EXCEPT !.hushed = TRUE] ELSE intent[e]
    BY <1>1
  <2>4. intent[e].hushed \in BOOLEAN
    BY <2>1 DEF IntentRows
  <2> QED BY <2>1, <2>2, <2>3, <2>4
<1>7. TypeOK'
  <2>1. intent' \in [Events -> IntentRows]
    BY <1>1, <1>6
  <2> QED BY <1>1, <1>5, <2>1 DEF TypeOK, IntentRows, States, journal, service
<1>8. \A e \in Events : Moves(e)
  BY <1>1, <1>6 DEF Moves, Stays, Speaks
<1>9. \A e \in Events : Carded(e)'
  BY <1>1 DEF NInv, Carded, OfASession, journal
<1>10. ASSUME NEW j, j.e \in Events, j.mutes \in Nat, Begun(j), Heeds(j)
       PROVE  Begun(j)' /\ Heeds(j)'
  <2>1. Begun(j)'
    BY <1>6, <1>10 DEF Begun
  <2>2. ASSUME Fenced(j)'
        PROVE  /\ j.mutes <= TheSes(j.e)'.mutes
               /\ intent'[j.e].hushed => j.mutes < TheSes(j.e)'.mutes
    <3>1. /\ Fenced(j) /\ intent[j.e].state = "generating"
          /\ TheSes(j.e)' = ses'[intent[j.e].ses] /\ TheSes(j.e) = ses[intent[j.e].ses]
      BY <1>6, <1>10, <2>2 DEF Fenced, TheSes
    <3>2. intent[j.e].ses \in Sessions
      BY <1>10, <3>1 DEF NInv, Handed
    <3>3. j.mutes <= TheSes(j.e).mutes /\ (intent[j.e].hushed => j.mutes < TheSes(j.e).mutes)
      BY <1>10, <3>1 DEF Heeds
    <3>4. CASE intent[j.e].ses = s
      <4>1. intent'[j.e].hushed => state = "muted" \/ intent[j.e].hushed
        BY <1>6, <1>10
      <4>2. TheSes(j.e)'.mutes = mutes /\ TheSes(j.e).mutes = ses[s].mutes
        BY <1>5, <3>1, <3>4
      <4> HIDE DEF Marked
      <4> QED BY <1>2, <1>3, <1>10, <3>3, <4>1, <4>2
    <3>5. CASE intent[j.e].ses # s
      <4>1. intent'[j.e].hushed = intent[j.e].hushed
        <5>1. intent[j.e].hushed \in BOOLEAN
          BY <1>1, <1>10 DEF TypeOK
        <5> QED BY <1>6, <1>10, <3>5, <5>1
      <4>2. TheSes(j.e)' = TheSes(j.e)
        BY <1>5, <3>1, <3>2, <3>5
      <4> QED BY <3>3, <4>1, <4>2
    <3> QED BY <3>4, <3>5
  <2> QED BY <2>1, <2>2 DEF Heeds
<1>11. Working' /\ AskedOnce'
  <2>1. UNCHANGED <<pc, tasks, live>>
    BY <1>1 DEF service
  <2>2. ASSUME NEW t \in tasks PROVE Begun(t)' /\ Heeds(t)'
    <3>1. t.e \in Events /\ t.mutes \in Nat /\ Begun(t) /\ Heeds(t)
      BY <1>1 DEF NInv, TypeOK, Working
    <3> QED BY <3>1, <1>10
  <2>3. ASSUME pc.at = "given" PROVE Begun(pc)' /\ Heeds(pc)'
    <3>1. pc.e \in Events /\ pc.mutes \in Nat /\ Begun(pc) /\ Heeds(pc)
      BY <1>1, <2>3 DEF NInv, TypeOK, Working
    <3>2. \A j : j.e \in Events /\ j.mutes \in Nat /\ Begun(j) /\ Heeds(j) => Begun(j)' /\ Heeds(j)'
      BY <1>10
    <3> QED BY <2>1, <3>1, <3>2 DEF Begun, Heeds, Fenced, TheSes
  <2> QED BY <2>1, <2>2, <2>3 DEF NInv, Working, AskedOnce
<1> QED BY <1>1, <1>7, <1>8, <1>9, <1>11, StepKept DEF NInv, CardsStay, journal

LEMMA SessionsKept ==
  ASSUME NInv, NEW s \in Sessions,
         Ready(s) \/ Rejoin(s) \/ Drop(s) \/ Mute(s) \/ Unmute(s) \/ Leave(s)
  PROVE  NInv'
<1>1. acts' \in Nat
  BY NarrationAssumption DEF NInv, TypeOK, Act, Ready, Rejoin, Drop, Mute, Unmute, Leave
<1>2. \E state \in {"connecting", "ready", "muted", "reconnecting", "over"} : SessionTo(s, state)
  BY DEF Ready, Rejoin, Drop, Mute, Unmute, Leave
<1> QED BY <1>1, <1>2, SessionKept

-----------------------------------------------------------------------------
(* The passes                                                              *)

LEMMA RowsTyped ==
  ASSUME TypeOK
  PROVE  /\ intent \in [Events -> IntentRows]
         /\ \A e \in Events : intent[e] \in IntentRows /\ intent[e].state \in States
  BY DEF TypeOK, IntentRows, States

(* Nobody works on an event whose intent is not there, or waits.           *)
LEMMA NobodyWorks ==
  ASSUME NInv, NEW e \in Events, intent[e].state \in {"none", "pending"}
  PROVE  /\ \A t \in tasks : t.e # e
         /\ pc.at = "given" => pc.e # e
  BY DEF NInv, Working, Begun

(* What is suppressed is not generated any more, and not heard.            *)
LEMMA SuppressedMoves ==
  ASSUME NInv, NEW e \in Events, Suppressible(e), intent'[e] = Suppressed(e),
         speech'[e] = IF intent[e].state = "queued" /\ speech[e] = "waiting"
                      THEN "dropped" ELSE speech[e]
  PROVE  intent'[e] \in IntentRows /\ Moves(e) /\ Leaves(e)
<1>1. intent[e] \in IntentRows /\ {"cancelled", "suppressed"} \subseteq States
  BY RowsTyped DEF NInv, States, Ended
<1>2. CASE intent[e].state = "queued"
  BY <1>1, <1>2, Updated DEF Suppressible, Suppressed, Moves, Ends, Leaves
<1>3. CASE intent[e].state # "queued"
  BY <1>1, <1>3, Updated DEF Suppressible, Suppressed, Moves, Falls, Leaves
<1> QED BY <1>2, <1>3

LEMMA ObserveKept ==
  ASSUME NInv, Observe
  PROVE  NInv'
<1> DEFINE S == {e \in Events : Suppressible(e)}
           B == {e \in Events : cursor < row[e] /\ row[e] <= cursor + ObserveLimit}
<1>1. /\ TypeOK /\ pc' = [at |-> "reconcile"] /\ lapsed' = LapsedNow(intent')
      /\ UNCHANGED <<row, head, eligible, late, outside, tasks, live>>
  BY DEF Observe, NInv
<1>2. \/ /\ intent' = [e \in Events |-> IF e \in S THEN Suppressed(e) ELSE intent[e]]
         /\ speech' = Unheard(S) /\ UNCHANGED <<cursor, card>>
      \/ /\ intent' = [e \in Events |-> IF e \in B /\ intent[e].state = "none"
                                        THEN Observation(e, SessionCards(B)) ELSE intent[e]]
         /\ cursor' = IF cursor + ObserveLimit < head THEN cursor + ObserveLimit ELSE head
         /\ card' = SessionCards(B) /\ UNCHANGED speech
  BY DEF Observe
<1>3. /\ pc' \in [at : {"idle", "reconcile", "claim"}] /\ pc'.at # "given"
      /\ lapsed' \subseteq Events
  BY <1>1 DEF LapsedNow, TypeOK
<1>4. CASE /\ intent' = [e \in Events |-> IF e \in S THEN Suppressed(e) ELSE intent[e]]
           /\ speech' = Unheard(S) /\ UNCHANGED <<cursor, card>>
  <2>1. ASSUME NEW e \in Events
        PROVE  /\ intent'[e] \in IntentRows /\ speech'[e] \in SpeechStates
               /\ Moves(e) /\ Leaves(e)
    <3>1. speech[e] \in SpeechStates /\ Handed(e) /\ intent[e] \in IntentRows
      BY RowsTyped DEF NInv, TypeOK
    <3>2. CASE Suppressible(e)
      <4>1. speech'[e] = IF speech[e] = "waiting" THEN "dropped" ELSE speech[e]
        BY <1>4, <3>2 DEF Unheard
      <4>2. speech[e] = "waiting" => intent[e].state = "queued"
        BY <3>1 DEF Handed
      <4>3. speech'[e] \in SpeechStates
        BY <3>1, <4>1 DEF SpeechStates
      <4> QED BY <1>4, <3>2, <4>1, <4>2, <4>3, SuppressedMoves
    <3>3. CASE ~Suppressible(e)
      BY <1>4, <3>1, <3>3 DEF Unheard, Moves, Stays, Speaks, Leaves
    <3> QED BY <3>2, <3>3
  <2>2. intent' \in [Events -> IntentRows] /\ speech' \in [Events -> SpeechStates]
    BY <1>4, <2>1 DEF Unheard
  <2>3. TypeOK'
    BY <1>1, <1>3, <1>4, <2>2 DEF TypeOK, IntentRows, States, outside
  <2>4. \A e \in Events : Carded(e)'
    BY <1>1, <1>4 DEF NInv, Carded, OfASession
  <2>5. Working' /\ AskedOnce'
    BY <1>1, <1>3, <2>1, <2>3, WorkKept DEF NInv, Working, outside
  <2> QED BY <1>1, <1>4, <2>1, <2>3, <2>4, <2>5, StepKept DEF NInv, CardsStay
<1>5. CASE /\ intent' = [e \in Events |-> IF e \in B /\ intent[e].state = "none"
                                          THEN Observation(e, SessionCards(B)) ELSE intent[e]]
           /\ cursor' = IF cursor + ObserveLimit < head THEN cursor + ObserveLimit ELSE head
           /\ card' = SessionCards(B) /\ UNCHANGED speech
  <2>1. ASSUME NEW e \in Events
        PROVE  intent'[e] \in IntentRows /\ Moves(e) /\ Leaves(e)
    <3>1. CASE e \in B /\ intent[e].state = "none"
      <4>1. intent'[e] = Observation(e, SessionCards(B))
        BY <1>5, <3>1
      <4> HIDE DEF B
      <4>2. /\ intent'[e] \in IntentRows /\ intent'[e].state \in {"pending", "suppressed"}
            /\ intent'[e].state = "pending" => intent'[e].ses \in Sessions
        BY <1>1, <4>1, Observed
      <4>3. Moves(e)
        BY <1>5, <3>1, <4>2 DEF Moves, IsObserved
      <4>4. Leaves(e)
        BY <1>1, <1>3, <3>1, NobodyWorks DEF Leaves, Free
      <4> QED BY <4>2, <4>3, <4>4
    <3>2. CASE ~(e \in B /\ intent[e].state = "none")
      <4>1. intent'[e] = intent[e]
        BY <1>5, <3>2
      <4> QED BY <1>1, <1>5, <4>1, RowsTyped DEF Moves, Stays, Speaks, Leaves
    <3> QED BY <3>1, <3>2
  <2>2. intent' \in [Events -> IntentRows]
    BY <1>5, <2>1
  <2>3. cursor' \in Nat /\ cursor' <= head /\ cursor <= head /\ head \in Nat
    BY <1>1, <1>5, NarrationAssumption DEF TypeOK, NInv
  <2>4. card' \in [Events -> {"none", "pending", "delivered", "dead"}]
    BY <1>1, <1>5 DEF TypeOK, SessionCards
  <2>5. TypeOK'
    BY <1>1, <1>3, <1>5, <2>2, <2>3, <2>4 DEF TypeOK, IntentRows, States, outside
  <2>6. ASSUME NEW e \in Events
        PROVE  Carded(e)' /\ (card[e] = "delivered" => card'[e] = "delivered")
    <3>1. /\ Carded(e) /\ row[e] \in Nat /\ cursor \in Nat /\ row' = row /\ head' = head
          /\ ObserveLimit \in Nat \ {0} /\ OfASession(e)' = OfASession(e) /\ head \in Nat
      BY <1>1, NarrationAssumption DEF NInv, TypeOK, OfASession
    <3>2. CASE card'[e] = card[e]
      BY <1>5, <3>1, <3>2 DEF Carded
    <3>3. CASE card'[e] # card[e]
      <4>1. e \in B /\ OfASession(e)
        BY <1>5, <3>3 DEF SessionCards
      <4> QED BY <1>5, <3>1, <4>1 DEF Carded
    <3> QED BY <3>2, <3>3
  <2>7. Working' /\ AskedOnce'
    BY <1>1, <1>3, <2>1, <2>5, WorkKept DEF NInv, Working, outside
  <2> QED BY <1>1, <2>1, <2>3, <2>5, <2>6, <2>7, StepKept DEF CardsStay
<1> QED BY <1>2, <1>4, <1>5

LEMMA EnqueueKept ==
  ASSUME NInv, NEW e \in Events, Enqueue(e)
  PROVE  NInv'
<1>1. /\ TypeOK /\ UNCHANGED <<journal, outside, cursor, lapsed, speech, service>>
      /\ intent[e].state = "none" /\ intent' = [intent EXCEPT ![e] = Observation(e, card)]
  BY DEF Enqueue, NInv
<1>2. /\ Observation(e, card) \in IntentRows
      /\ Observation(e, card).state \in {"pending", "suppressed"}
      /\ Observation(e, card).state = "pending" => Observation(e, card).ses \in Sessions
  BY <1>1, Observed
<1>3. intent \in [Events -> IntentRows]
  BY <1>1, RowsTyped
<1>4. TypeOK'
  BY <1>1, <1>2, <1>3 DEF TypeOK, IntentRows, States, journal, outside, service
<1>5. ASSUME NEW f \in Events PROVE Moves(f) /\ Leaves(f)
  <2>1. CASE f = e
    BY <1>1, <1>2, <1>3, <2>1, NobodyWorks DEF Moves, IsObserved, Leaves, Free, service
  <2>2. CASE f # e
    BY <1>1, <1>3, <2>2 DEF Moves, Stays, Speaks, Leaves
  <2> QED BY <2>1, <2>2
<1>6. \A f \in Events : Carded(f)'
  BY <1>1 DEF NInv, Carded, OfASession, journal
<1>7. Working' /\ AskedOnce'
  BY <1>1, <1>4, <1>5, WorkKept DEF NInv, Working, outside, service
<1> QED BY <1>1, <1>4, <1>5, <1>6, <1>7, StepKept DEF NInv, CardsStay, journal

LEMMA ReconcileKept ==
  ASSUME NInv, Reconcile
  PROVE  NInv'
<1>1. /\ TypeOK /\ UNCHANGED <<journal, outside, cursor, tasks, live>>
      /\ pc' = [at |-> IF config.on THEN "claim" ELSE "idle"]
      /\ intent' = [e \in Events |-> Reconciled(e)]
      /\ lapsed' = LapsedNow(intent')
      /\ speech' = IF quiet THEN Unheard({e \in Events : intent[e].state = "queued"})
                   ELSE speech
  BY DEF Reconcile, NInv
<1>2. /\ pc' \in [at : {"idle", "reconcile", "claim"}] /\ pc'.at # "given"
      /\ lapsed' \subseteq Events
  BY <1>1 DEF LapsedNow, TypeOK
<1>3. ASSUME NEW e \in Events
      PROVE  /\ intent'[e] \in IntentRows /\ speech'[e] \in SpeechStates
             /\ Moves(e) /\ Leaves(e)
  <2>1. /\ speech[e] \in SpeechStates /\ Handed(e) /\ intent[e] \in IntentRows
        /\ {"suppressed", "expired", "pending", "played", "failed"} \subseteq States
    BY RowsTyped DEF NInv, TypeOK, States, Active, Ended
  <2>7. ASSUME NEW s \in {"suppressed", "expired", "pending", "played", "failed"}
        PROVE  /\ To(intent[e], s) \in IntentRows /\ To(intent[e], s).state = s
               /\ To(intent[e], s).ses = intent[e].ses
    <3>1. intent[e] \in IntentRows /\ s \in States
      BY <2>1
    <3> QED BY <3>1, Updated
  <2>2. intent'[e] = Reconciled(e)
    BY <1>1
  <2>3. speech'[e] = IF quiet /\ intent[e].state = "queued" /\ speech[e] = "waiting"
                     THEN "dropped" ELSE speech[e]
    BY <1>1 DEF Unheard
  <2>4. speech'[e] \in SpeechStates
    BY <2>1, <2>3 DEF SpeechStates
  <2>5. CASE quiet /\ Suppressible(e)
    BY <2>2, <2>3, <2>4, <2>5, SuppressedMoves DEF Reconciled
  <2>6. CASE ~(quiet /\ Suppressible(e))
    <3>1. speech'[e] = speech[e]
      BY <2>3, <2>6 DEF Suppressible
    <3>2. CASE intent'[e] = intent[e]
      BY <2>1, <2>4, <3>1, <3>2 DEF Moves, Stays, Speaks, Leaves
    <3>3. CASE /\ intent[e].state = "pending" /\ intent'[e] = To(intent[e], "suppressed")
      BY <2>7, <2>4, <3>1, <3>3 DEF Moves, Falls, Leaves
    <3>4. CASE /\ intent[e].state = "generating" /\ e \notin live
               /\ \E s \in {"expired", "pending"} : intent'[e] = To(intent[e], s)
      <4>1. PICK s \in {"expired", "pending"} : intent'[e] = To(intent[e], s)
        BY <3>4
      <4>2. /\ intent'[e] \in IntentRows /\ intent'[e].state = s
            /\ intent'[e].ses = intent[e].ses
        BY <2>7, <4>1
      <4>3. Free(e)
        BY <1>1, <1>2, <3>4 DEF NInv, Working, Free
      <4> QED BY <2>4, <3>1, <3>4, <4>2, <4>3 DEF Moves, Falls, Leaves
    <3>5. CASE /\ intent[e].state = "queued"
               /\ \/ speech[e] = "played" /\ intent'[e] = To(intent[e], "played")
                  \/ speech[e] \in {"broken", "dropped"} /\ intent'[e] = To(intent[e], "failed")
      BY <2>7, <2>4, <3>1, <3>5 DEF Moves, Ends, Leaves
    <3> QED BY <2>2, <2>6, <3>2, <3>3, <3>4, <3>5 DEF Reconciled
  <2> QED BY <2>5, <2>6
<1>4. intent' \in [Events -> IntentRows] /\ speech' \in [Events -> SpeechStates]
  BY <1>1, <1>3 DEF Unheard, TypeOK
<1>5. TypeOK'
  BY <1>1, <1>2, <1>4 DEF TypeOK, IntentRows, States, journal, outside
<1>6. \A e \in Events : Carded(e)'
  BY <1>1 DEF NInv, Carded, OfASession, journal
<1>7. Working' /\ AskedOnce'
  BY <1>1, <1>2, <1>3, <1>5, WorkKept DEF NInv, Working, outside
<1> QED BY <1>1, <1>3, <1>5, <1>6, <1>7, StepKept DEF NInv, CardsStay, journal

-----------------------------------------------------------------------------
(* Generation                                                              *)

(* A line is admitted under the fence of its claim: no mute came since.    *)
LEMMA CompleteKept ==
  ASSUME NInv, NEW j, j.e \in Events, Heeds(j), NEW said, Complete(j, said),
         UNCHANGED <<journal, outside, cursor>>,
         tasks' \subseteq tasks, \A t \in tasks' : t.e \in live', live' \subseteq live,
         pc' = pc \/ pc' = [at |-> "idle"]
  PROVE  NInv'
<1> DEFINE e == j.e
<1>1. TypeOK /\ e \in Events /\ intent \in [Events -> IntentRows]
      /\ intent[e] \in IntentRows /\ {"queued", "suppressed"} \subseteq States
  BY RowsTyped DEF NInv, States, Active, Ended
<1>2. /\ pc' \in [at : {"idle", "reconcile", "claim"}] \cup [at : {"given"}, e : Events, rev : Nat, mutes : Nat]
      /\ pc' = pc \/ pc'.at # "given"
  <2>1. [at |-> "idle"] \in [at : {"idle", "reconcile", "claim"}]
    OBVIOUS
  <2> QED BY <1>1, <2>1 DEF TypeOK
<1>3. CASE UNCHANGED <<intent, lapsed, speech>>
  <2>1. TypeOK'
    BY <1>1, <1>2, <1>3 DEF TypeOK, journal, outside
  <2>2. \A f \in Events : Carded(f)'
    BY DEF NInv, Carded, OfASession, journal
  <2> QED BY <1>2, <1>3, <2>1, <2>2, WorldKept DEF NInv, CardsStay, journal, outside
<1>4. CASE ~UNCHANGED <<intent, lapsed, speech>>
  <2>1. PICK admitted \in BOOLEAN :
          /\ Fenced(j) /\ (admitted => MaySay(j))
          /\ intent' = [intent EXCEPT ![e] = To(intent[e], IF admitted THEN "queued" ELSE "suppressed")]
          /\ speech' = IF admitted THEN [speech EXCEPT ![e] = "waiting"] ELSE speech
          /\ lapsed' = lapsed \ {e}
    BY <1>4 DEF Complete
  <2> DEFINE s == IF admitted THEN "queued" ELSE "suppressed"
  <2>2. s \in States /\ s \in {"queued", "suppressed"}
    BY <1>1
  <2>3. /\ To(intent[e], s) \in IntentRows /\ To(intent[e], s).state = s
        /\ To(intent[e], s).ses = intent[e].ses /\ To(intent[e], s).hushed = intent[e].hushed
    <3> HIDE DEF s
    <3> QED BY <1>1, <2>2, Updated
  <2>4. intent' \in [Events -> IntentRows] /\ intent'[e] = To(intent[e], s)
        /\ \A f \in Events \ {e} : intent'[f] = intent[f]
    BY <1>1, <2>1, <2>3
  <2>5. speech' \in [Events -> SpeechStates] /\ \A f \in Events \ {e} : speech'[f] = speech[f]
        /\ speech'[e] = IF admitted THEN "waiting" ELSE speech[e]
    BY <1>1, <2>1 DEF TypeOK, SpeechStates
  <2>6. TypeOK'
    BY <1>1, <1>2, <2>1, <2>4, <2>5 DEF TypeOK, IntentRows, States, journal, outside
  <2>7. ASSUME admitted
        PROVE  ~intent[e].hushed /\ card[e] = "delivered"
    <3>1. MaySay(j) /\ Heeds(j) /\ Fenced(j)
      BY <2>1, <2>7
    <3>2. j.mutes = TheSes(e).mutes /\ intent[e].ses \in Sessions
      BY <3>1 DEF MaySay, NInv, Handed, Fenced
    <3>3. TheSes(e).mutes \in Nat
      BY <1>1, <3>2 DEF TypeOK, TheSes, VoiceSession
    <3> QED BY <3>1, <3>2, <3>3 DEF MaySay, Heeds
  <2>8. ASSUME NEW f \in Events PROVE Moves(f) /\ Leaves(f)
    <3>1. CASE f # e
      BY <2>4, <2>5, <3>1 DEF Moves, Stays, Speaks, Leaves
    <3>2. CASE f = e /\ admitted
      BY <2>1, <2>3, <2>4, <2>5, <2>7, <3>2 DEF Moves, IsQueued, Leaves, Fenced
    <3>3. CASE f = e /\ ~admitted
      BY <2>1, <2>3, <2>4, <2>5, <3>3 DEF Moves, Falls, Leaves, Fenced
    <3> QED BY <3>1, <3>2, <3>3
  <2>9. \A f \in Events : Carded(f)'
    BY DEF NInv, Carded, OfASession, journal
  <2>10. Working' /\ AskedOnce'
    BY <1>2, <2>6, <2>8, WorkKept DEF outside
  <2> QED BY <2>6, <2>8, <2>9, <2>10, StepKept DEF NInv, CardsStay, journal
<1> QED BY <1>3, <1>4

LEMMA HandKept ==
  ASSUME NInv, Hand
  PROVE  NInv'
<1>1. /\ TypeOK /\ pc.at = "given" /\ pc' = [at |-> "idle"]
      /\ UNCHANGED <<journal, ses, quiet, config, up, cursor>>
  BY DEF Hand, NInv
<1>2. pc.e \in Events /\ pc.rev \in Nat /\ pc.mutes \in Nat /\ Begun(pc) /\ Heeds(pc)
  BY <1>1 DEF TypeOK, NInv, Working
<1>3. pc' \in [at : {"idle", "reconcile", "claim"}] /\ pc'.at # "given"
  BY <1>1
<1>4. \A f \in Events : Carded(f)'
  BY <1>1 DEF NInv, Carded, OfASession, journal
<1> DEFINE T == [e |-> pc.e, rev |-> pc.rev, mutes |-> pc.mutes, at |-> "sent"]
<1>5. CASE /\ live' = live \cup {pc.e} /\ tasks' = tasks \cup {T}
           /\ UNCHANGED <<intent, lapsed, speech, acts>>
  <2>1. T \in Jobs /\ T.e = pc.e /\ T.rev = pc.rev /\ T.mutes = pc.mutes
    BY <1>2 DEF Jobs
  <2> HIDE DEF T
  <2>2. tasks \subseteq Jobs
    BY <1>1 DEF TypeOK, Jobs
  <2>3. tasks' \subseteq Jobs /\ live' \subseteq Events
    BY <1>1, <1>2, <1>5, <2>1, <2>2 DEF TypeOK
  <2>4. TypeOK'
    BY <1>1, <1>3, <1>5, <2>3 DEF TypeOK, Jobs, journal
  <2>5. Begun(T) /\ Heeds(T)
    BY <1>2, <2>1 DEF Begun, Heeds, Fenced
  <2>6. \A t \in tasks' : t.e \in live' /\ Begun(t) /\ Heeds(t)
    BY <1>5, <2>1, <2>5 DEF NInv, Working
  <2>7. Working'
    BY <1>1, <1>3, <1>5, <2>6 DEF Working, Begun, Heeds, Fenced, TheSes
  <2>8. AskedOnce'
    BY <1>1, <1>3, <1>5, <2>1 DEF NInv, AskedOnce
  <2>9. \A f \in Events : Moves(f)
    BY <1>5 DEF Moves, Stays, Speaks
  <2> QED BY <1>1, <1>4, <2>4, <2>7, <2>8, <2>9, StepKept DEF NInv, CardsStay, journal
<1>6. CASE Complete(pc, Fallback(pc.e)) /\ UNCHANGED <<tasks, live, acts>>
  <2>1. \A t \in tasks : t.e \in live
    BY DEF NInv, Working
  <2> QED BY <1>1, <1>2, <1>6, <2>1, CompleteKept DEF outside
<1>7. CASE Act /\ UNCHANGED <<intent, lapsed, speech, tasks, live>>
  <2>1. acts' \in Nat
    BY <1>1, <1>7 DEF TypeOK, Act
  <2>2. TypeOK'
    BY <1>1, <1>3, <1>7, <2>1 DEF TypeOK, journal
  <2> QED BY <1>1, <1>3, <1>4, <1>7, <2>2, WorldKept
          DEF NInv, Working, CardsStay, journal
<1> QED BY <1>5, <1>6, <1>7 DEF Hand

(* A task that is done leaves nobody on its event.                         *)
LEMMA DoneFrees ==
  ASSUME NInv, NEW t \in tasks, Done(t), pc' = pc
  PROVE  /\ tasks' \subseteq tasks /\ live' \subseteq live
         /\ \A u \in tasks' : u.e \in live'
         /\ Free(t.e)
  BY DEF NInv, Done, Working, AskedOnce, Free

LEMMA ReturnKept ==
  ASSUME NInv, NEW t \in tasks, Return(t)
  PROVE  NInv'
<1>1. PICK said : Complete(t, said)
  BY DEF Return
<1>2. Done(t) /\ UNCHANGED <<journal, outside, cursor, pc>>
  BY DEF Return
<1>3. t.e \in Events /\ Heeds(t)
  BY DEF NInv, TypeOK, Working
<1> QED BY <1>1, <1>2, <1>3, DoneFrees, CompleteKept

LEMMA BeginKept ==
  ASSUME NInv, NEW t \in tasks, Begin(t)
  PROVE  NInv'
<1> DEFINE e == t.e
           i == intent[e]
<1>1. /\ TypeOK /\ UNCHANGED <<journal, outside, cursor, speech, pc>>
      /\ e \in Events /\ t \in Jobs /\ t.rev \in Nat /\ t.mutes \in Nat
      /\ intent \in [Events -> IntentRows] /\ i \in IntentRows
      /\ Begun(t) /\ Heeds(t) /\ e \in live
  BY RowsTyped DEF Begin, NInv, TypeOK, Working, Jobs
<1>2. \A f \in Events : Carded(f)'
  BY <1>1 DEF NInv, Carded, OfASession, journal
<1>3. CASE ~Fenced(t) /\ Done(t) /\ UNCHANGED <<intent, lapsed>>
  <2>1. TypeOK'
    BY <1>1, <1>3, DoneFrees DEF TypeOK, journal, outside
  <2> QED BY <1>1, <1>2, <1>3, <2>1, DoneFrees, WorldKept DEF NInv, CardsStay, journal, outside
<1>4. CASE /\ Fenced(t) /\ Done(t) /\ lapsed' = lapsed \ {e}
           /\ \E s \in {"pending", "expired", "suppressed"} : intent' = [intent EXCEPT ![e] = To(i, s)]
  <2>1. PICK s \in {"pending", "expired", "suppressed"} : intent' = [intent EXCEPT ![e] = To(i, s)]
    BY <1>4
  <2>2. s \in States
    BY DEF States, Active, Ended
  <2>3. To(i, s) \in IntentRows /\ To(i, s).state = s /\ To(i, s).ses = i.ses
    BY <1>1, <2>2, Updated
  <2>4. /\ intent' \in [Events -> IntentRows] /\ intent'[e] = To(i, s)
        /\ \A f \in Events \ {e} : intent'[f] = intent[f]
    BY <1>1, <2>1, <2>3
  <2>5. /\ tasks' \subseteq tasks /\ live' \subseteq live
        /\ \A u \in tasks' : u.e \in live'
        /\ Free(e)
    BY <1>1, <1>4, DoneFrees
  <2>6. TypeOK'
    BY <1>1, <1>4, <2>4, <2>5 DEF TypeOK, IntentRows, States, journal, outside
  <2>7. \A f \in Events : Moves(f) /\ Leaves(f)
    BY <1>1, <1>4, <2>3, <2>4, <2>5 DEF Moves, Stays, Speaks, Falls, Leaves, Fenced
  <2>8. Working' /\ AskedOnce'
    BY <1>1, <2>5, <2>6, <2>7, WorkKept DEF outside
  <2> QED BY <1>1, <1>2, <2>6, <2>7, <2>8, StepKept DEF NInv, CardsStay, journal
<1> DEFINE R == [To(i, "generating") EXCEPT !.began = TRUE]
           u == [t EXCEPT !.rev = @ + 1, !.at = "asking"]
<1>5. CASE /\ Fenced(t) /\ lapsed' = lapsed \ {e} /\ UNCHANGED live
           /\ intent' = [intent EXCEPT ![e] = R] /\ tasks' = (tasks \ {t}) \cup {u}
  <2>1. /\ R \in IntentRows /\ R.state = "generating" /\ R.rev = i.rev + 1 /\ R.ses = i.ses
        /\ R.hushed = i.hushed
    <3> DEFINE q == To(i, "generating")
    <3>1. /\ q \in IntentRows /\ q.state = "generating" /\ q.rev = i.rev + 1 /\ q.ses = i.ses
          /\ q.hushed = i.hushed
      BY <1>1, Updated DEF States, Active
    <3> HIDE DEF q
    <3>2. LET p == [q EXCEPT !.began = TRUE] IN
          p \in IntentRows /\ p.state = q.state /\ p.rev = q.rev /\ p.ses = q.ses
          /\ p.hushed = q.hushed
      BY <3>1 DEF IntentRows
    <3> QED BY <3>1, <3>2 DEF q
  <2>2. u \in Jobs /\ u.e = e /\ u.rev = t.rev + 1 /\ u.mutes = t.mutes
    <3> DEFINE rev == t.rev + 1
    <3>1. rev \in Nat
      BY <1>1
    <3> HIDE DEF rev
    <3>2. LET p == [t EXCEPT !.rev = rev, !.at = "asking"] IN
          p \in Jobs /\ p.e = t.e /\ p.rev = rev /\ p.mutes = t.mutes
      BY <1>1, <3>1 DEF Jobs
    <3> QED BY <3>2 DEF rev
  <2> HIDE DEF R, u
  <2>3. /\ intent' \in [Events -> IntentRows] /\ intent'[e] = R
        /\ \A f \in Events \ {e} : intent'[f] = intent[f]
    BY <1>1, <1>5, <2>1
  <2>4. tasks' \subseteq Jobs
    BY <1>1, <1>5, <2>2 DEF TypeOK, Jobs
  <2>5. TypeOK'
    BY <1>1, <1>5, <2>3, <2>4 DEF TypeOK, IntentRows, States, Jobs, journal, outside
  <2>6. \A f \in Events : Moves(f)
    BY <1>1, <1>5, <2>1, <2>3 DEF Moves, Stays, Speaks, Fenced
  <2>7. AskedOnce'
    BY <1>1, <1>5, <2>2 DEF NInv, AskedOnce
  <2>8. Begun(u)' /\ Heeds(u)'
    <3>1. TheSes(e)' = TheSes(e)
      BY <1>1, <2>1, <2>3 DEF TheSes, outside
    <3>2. Begun(u)'
      BY <2>1, <2>2, <2>3 DEF Begun
    <3>3. /\ t.mutes <= TheSes(e).mutes
          /\ i.hushed => t.mutes < TheSes(e).mutes
      BY <1>1, <1>5 DEF Heeds
    <3> QED BY <2>1, <2>2, <2>3, <3>1, <3>2, <3>3 DEF Heeds
  <2>9. ASSUME NEW v \in tasks, v # t
        PROVE  v.e \in live /\ Begun(v)' /\ Heeds(v)'
    <3>1. v.e \in Events /\ v.e # e /\ Begun(v) /\ Heeds(v) /\ v.e \in live
      BY <2>9 DEF NInv, AskedOnce, Working, TypeOK
    <3>2. intent'[v.e] = intent[v.e] /\ TheSes(v.e)' = TheSes(v.e)
      BY <1>1, <2>3, <3>1 DEF TheSes, outside
    <3> QED BY <3>1, <3>2 DEF Begun, Heeds, Fenced
  <2>10. ASSUME pc.at = "given"
         PROVE  Begun(pc)' /\ Heeds(pc)'
    <3>1. pc.e \in Events /\ pc.e # e /\ Begun(pc) /\ Heeds(pc) /\ pc' = pc
      BY <1>1, <2>10 DEF NInv, AskedOnce, Working, TypeOK
    <3>2. intent'[pc.e] = intent[pc.e] /\ ses' = ses
      BY <1>1, <2>3, <3>1 DEF outside
    <3> QED BY <3>1, <3>2 DEF Begun, Heeds, Fenced, TheSes
  <2>11. Working'
    BY <1>1, <1>5, <2>2, <2>8, <2>9, <2>10 DEF Working
  <2> QED BY <1>1, <1>2, <2>5, <2>6, <2>7, <2>11, StepKept DEF NInv, CardsStay, journal
<1> QED BY <1>3, <1>4, <1>5 DEF Begin

-----------------------------------------------------------------------------
(* The claim                                                               *)

LEMMA StaleMoves ==
  ASSUME NInv, NEW f \in Events, intent'[f] = Stale[f], speech'[f] = speech[f]
  PROVE  intent'[f] \in IntentRows /\ Moves(f) /\ Leaves(f)
<1>1. intent[f] \in IntentRows /\ "expired" \in States
  BY RowsTyped DEF NInv, States, Ended
<1>2. Stale[f] = IF intent[f].state = "pending" /\ f \in late
                 THEN To(intent[f], "expired") ELSE intent[f]
  BY DEF Stale
<1>3. /\ To(intent[f], "expired") \in IntentRows /\ To(intent[f], "expired").state = "expired"
      /\ To(intent[f], "expired").ses = intent[f].ses
  BY <1>1, Updated
<1> QED BY <1>1, <1>2, <1>3 DEF Moves, Stays, Speaks, Falls, Leaves

(* What yields to another is cancelled unheard.                            *)
LEMMA YieldMoves ==
  ASSUME NInv, NEW f \in Events, NEW e, Yields(f, e), intent'[f] = To(intent[f], "cancelled"),
         speech'[f] = IF speech[f] = "waiting" THEN "dropped" ELSE speech[f]
  PROVE  /\ intent'[f] \in IntentRows /\ Moves(f) /\ Leaves(f)
         /\ intent'[f].state = "cancelled" /\ speech'[f] \in {"none", "dropped"}
<1>1. intent[f] \in IntentRows /\ "cancelled" \in States /\ Handed(f)
  BY RowsTyped DEF NInv, States, Ended
<1>2. /\ To(intent[f], "cancelled") \in IntentRows
      /\ To(intent[f], "cancelled").state = "cancelled"
      /\ To(intent[f], "cancelled").ses = intent[f].ses
  BY <1>1, Updated
<1> QED BY <1>1, <1>2 DEF Yields, Handed, Unsaid, Moves, Falls, Ends, Leaves

LEMMA ClaimKept ==
  ASSUME NInv, Claim
  PROVE  NInv'
<1>1. /\ TypeOK /\ UNCHANGED <<journal, outside, cursor, tasks, live>>
      /\ lapsed' = LapsedNow(intent') /\ intent \in [Events -> IntentRows]
      /\ SparingNarration /\ \A f \in Events : Handed(f)
  BY RowsTyped DEF Claim, NInv
<1>2. lapsed' \subseteq Events
  BY <1>1 DEF LapsedNow, TypeOK
<1>3. \A f \in Events : Carded(f)'
  BY <1>1 DEF NInv, Carded, OfASession, journal
<1>4. \A t \in tasks' : t.e \in live'
  BY <1>1 DEF NInv, Working
<1>5. ASSUME intent' \in [Events -> IntentRows], speech' \in [Events -> SpeechStates],
             pc' \in [at : {"idle", "reconcile", "claim"}] \cup Given
      PROVE  TypeOK'
  BY <1>1, <1>2, <1>5 DEF TypeOK, IntentRows, States, Given, journal, outside
<1>6. CASE Claimable = {}
  <2>1. intent' = Stale /\ pc' = [at |-> "idle"] /\ UNCHANGED speech
    BY <1>6 DEF Claim
  <2>2. \A f \in Events : intent'[f] \in IntentRows /\ Moves(f) /\ Leaves(f)
    BY <2>1, StaleMoves
  <2>3. pc' \in [at : {"idle", "reconcile", "claim"}] /\ pc'.at # "given"
    BY <2>1
  <2>4. intent' \in [Events -> IntentRows]
    BY <2>1, <2>2 DEF Stale
  <2>5. TypeOK'
    BY <1>1, <1>5, <2>1, <2>3, <2>4 DEF TypeOK
  <2>6. Working' /\ AskedOnce'
    BY <1>1, <1>4, <2>2, <2>3, <2>5, WorkKept DEF outside
  <2> QED BY <1>1, <1>3, <2>2, <2>5, <2>6, StepKept DEF NInv, CardsStay, journal
<1>7. CASE Claimable # {}
  <2> DEFINE e == Next_(Claimable)
  <2>1. /\ e \in Events /\ intent[e].state = "pending" /\ card[e] = "delivered"
        /\ intent[e].ses \in Sessions /\ intent[e] \in IntentRows
    <3>1. e \in Claimable
      BY <1>1, <1>7, FirstInRank DEF Claimable, TypeOK
    <3> HIDE DEF e
    <3>2. e \in Events /\ intent[e].state = "pending" /\ card[e] = "delivered"
      BY <3>1 DEF Claimable
    <3> QED BY <1>1, <3>2 DEF Handed
  <2>2. PICK broke \in BOOLEAN, full \in BOOLEAN :
          LET place == IF broke THEN [won |-> FALSE, gone |-> {}] ELSE Place(e)
              won   == place.won /\ ~full
          IN /\ intent' = [f \in Events |->
                    IF f \in place.gone THEN To(intent[f], "cancelled")
                    ELSE IF f # e THEN Stale[f]
                    ELSE IF won THEN [To(intent[e], "generating") EXCEPT !.hushed = FALSE]
                    ELSE To(intent[e], "suppressed")]
             /\ speech' = Unheard(place.gone)
             /\ pc' = IF won THEN [at |-> "given", e |-> e, rev |-> intent[e].rev + 1,
                                    mutes |-> ses[intent[e].ses].mutes]
                               ELSE [at |-> "idle"]
    BY <1>7 DEF Claim, BudgetSpent, QueueFull
  <2> DEFINE place == IF broke THEN [won |-> FALSE, gone |-> {}] ELSE Place(e)
             gone  == place.gone
             won   == place.won /\ ~full
             R     == [To(intent[e], "generating") EXCEPT !.hushed = FALSE]
             given == [at |-> "given", e |-> e, rev |-> intent[e].rev + 1,
                       mutes |-> ses[intent[e].ses].mutes]
  <2> HIDE DEF e
  <2>3. \A f \in gone : f \in Events /\ Yields(f, e)
    BY <1>1, <2>1, PlaceTried
  <2>4. e \notin gone
    BY <2>1, <2>3 DEF Yields
  <2>5. won => ~broke /\ Place(e).won /\ gone = Place(e).gone
    BY <2>2
  <2> HIDE DEF R, given
  <2>6. /\ intent' = [f \in Events |-> IF f \in gone THEN To(intent[f], "cancelled")
                                       ELSE IF f # e THEN Stale[f]
                                       ELSE IF won THEN R ELSE To(intent[e], "suppressed")]
        /\ speech' = Unheard(gone)
        /\ pc' = IF won THEN given ELSE [at |-> "idle"]
    BY <2>2 DEF R, given
  <2> HIDE DEF place, won
  <2>7. ASSUME NEW f \in Events
        PROVE  /\ speech'[f] = IF f \in gone /\ speech[f] = "waiting" THEN "dropped" ELSE speech[f]
               /\ speech'[f] \in SpeechStates
    BY <1>1, <2>6 DEF Unheard, TypeOK, SpeechStates
  <2>8. speech' \in [Events -> SpeechStates]
    BY <2>6, <2>7 DEF Unheard
  <2>9. ASSUME NEW f \in gone
        PROVE  /\ intent'[f] \in IntentRows /\ Moves(f) /\ Leaves(f)
               /\ intent'[f].state = "cancelled" /\ speech'[f] \in {"none", "dropped"}
    <3>1. f \in Events /\ Yields(f, e)
      BY <2>3
    <3>2. intent'[f] = To(intent[f], "cancelled")
      BY <2>6, <3>1
    <3> QED BY <2>7, <3>1, <3>2, YieldMoves
  <2>10. ASSUME NEW f \in Events \ gone, f # e
         PROVE  intent'[f] \in IntentRows /\ Moves(f) /\ Leaves(f)
    BY <2>6, <2>7, <2>10, StaleMoves
  <2>11. \A t \in tasks : t.e # e
    BY <2>1, NobodyWorks
  <2>12. CASE ~won
    <3>1. intent'[e] = To(intent[e], "suppressed") /\ speech'[e] = speech[e]
      BY <2>1, <2>4, <2>6, <2>7, <2>12
    <3>2. /\ To(intent[e], "suppressed") \in IntentRows
          /\ To(intent[e], "suppressed").state = "suppressed"
          /\ To(intent[e], "suppressed").ses = intent[e].ses
      BY <2>1, Updated DEF States, Ended
    <3>3. intent'[e] \in IntentRows /\ Moves(e) /\ Leaves(e)
      BY <2>1, <3>1, <3>2 DEF Moves, Falls, Leaves
    <3>4. \A f \in Events : intent'[f] \in IntentRows /\ Moves(f) /\ Leaves(f)
      BY <2>9, <2>10, <3>3
    <3>5. pc' \in [at : {"idle", "reconcile", "claim"}] /\ pc'.at # "given"
      BY <2>6, <2>12
    <3>6. intent' \in [Events -> IntentRows]
      BY <2>6, <3>4
    <3>7. TypeOK'
      BY <1>5, <2>8, <3>5, <3>6
    <3>8. Working' /\ AskedOnce'
      BY <1>1, <1>4, <3>4, <3>5, <3>7, WorkKept DEF outside
    <3> QED BY <1>1, <1>3, <3>4, <3>7, <3>8, StepKept DEF NInv, CardsStay, journal
  <2>13. CASE won
    <3>1. /\ R \in IntentRows /\ R.state = "generating" /\ R.rev = intent[e].rev + 1
          /\ R.ses = intent[e].ses /\ R.hushed = FALSE
      <4> DEFINE q == To(intent[e], "generating")
      <4>1. /\ q \in IntentRows /\ q.state = "generating" /\ q.rev = intent[e].rev + 1
            /\ q.ses = intent[e].ses
        BY <2>1, Updated DEF States, Active
      <4> HIDE DEF q
      <4>2. LET p == [q EXCEPT !.hushed = FALSE] IN
            /\ p \in IntentRows /\ p.state = q.state /\ p.rev = q.rev /\ p.ses = q.ses
            /\ p.hushed = FALSE
        BY <4>1 DEF IntentRows
      <4> QED BY <4>1, <4>2 DEF q, R
    <3>2. intent'[e] = R /\ speech'[e] = speech[e]
      BY <2>1, <2>4, <2>6, <2>7, <2>13
    <3>3. intent[e].rev \in Nat /\ ses[intent[e].ses].mutes \in Nat
      BY <1>1, <2>1 DEF TypeOK, IntentRows, VoiceSession
    <3>4. /\ given \in Given /\ given.at = "given" /\ given.e = e
          /\ given.rev = intent[e].rev + 1 /\ given.mutes = ses[intent[e].ses].mutes
      BY <2>1, <3>3 DEF given, Given
    <3>5. pc' = given
      BY <2>6, <2>13
    <3>6. \A f \in Events : intent'[f] \in IntentRows
      BY <2>9, <2>10, <3>1, <3>2
    <3>7. intent' \in [Events -> IntentRows]
      BY <2>6, <3>6
    <3>8. TypeOK'
      BY <1>5, <2>8, <3>4, <3>5, <3>7
    <3>9. IsClaimed(e)
      BY <2>1, <3>1, <3>2 DEF IsClaimed
    <3>10. \A f \in Events : Moves(f) \/ IsClaimed(f)
      BY <2>9, <2>10, <3>9
    <3>11. CardsStay /\ ses' = ses
      BY <1>1 DEF CardsStay, journal, outside
    <3>12. TextFirst' /\ MuteForgets' /\ \A f \in Events : Handed(f)'
      BY <3>10, <3>11, HandedKept, TextKept, MutesKept
    <3>13. AskedOnce'
      BY <1>1, <2>11, <3>4, <3>5 DEF NInv, AskedOnce
    <3>14. Working'
      <4> PICK g \in Given : g = given
        BY <3>4
      <4> PICK c \in Events : c = e
        BY <2>1
      <4>1. /\ g.e = c /\ intent'[c].state = "generating" /\ g.rev = intent'[c].rev
            /\ intent'[c].hushed = FALSE /\ g.mutes = ses'[intent'[c].ses].mutes
        BY <3>1, <3>2, <3>3, <3>4, <3>11
      <4>2. ASSUME NEW t \in tasks
            PROVE  t.e \in live /\ Begun(t)' /\ Heeds(t)'
        <5>1. t.e \in Events /\ t.e # e /\ t.e \in live /\ Begun(t) /\ Heeds(t)
          BY <1>1, <2>11 DEF NInv, Working, TypeOK
        <5>2. \/ intent'[t.e] = intent[t.e]
              \/ intent'[t.e].state \notin {"none", "pending", "generating"}
          <6>1. CASE t.e \in gone
            BY <2>9, <6>1
          <6>2. CASE t.e \notin gone
            <7>1. intent'[t.e] = Stale[t.e]
              BY <2>6, <5>1, <6>2
            <7> QED BY <5>1, <7>1 DEF Stale, Begun
          <6> QED BY <6>1, <6>2
        <5>3. intent[t.e].state = "generating" => intent[t.e].ses \in Sessions
          BY <1>1, <5>1 DEF Handed
        <5> QED BY <3>11, <5>1, <5>2, <5>3 DEF Begun, Heeds, Fenced, TheSes
      <4>3. Begun(pc)' /\ Heeds(pc)'
        <5>1. /\ pc'.e = c /\ intent'[pc'.e].state = "generating" /\ pc'.rev = intent'[pc'.e].rev
              /\ intent'[pc'.e].hushed = FALSE /\ pc'.mutes = ses'[intent'[pc'.e].ses].mutes
              /\ pc'.mutes \in Nat
          BY <3>3, <3>4, <3>5, <4>1
        <5>2. Begun(pc)'
          BY <5>1 DEF Begun
        <5>3. Heeds(pc)'
          BY <5>1 DEF Heeds, TheSes
        <5> QED BY <5>2, <5>3
      <4> QED BY <1>1, <4>2, <4>3 DEF Working
    <3>15. SparingNarration'
      <4> DEFINE s == intent[e].ses
                 all == Spent(s)
      <4>1. /\ \A f \in all \ gone : Feature(f) # Feature(e)
            /\ \A f, g \in all \ gone : f = g
        BY <1>1, <2>1, <2>5, <2>13, PlaceWon
      <4>2. ASSUME NEW r \in Sessions, NEW f \in Told(r)', f # e
            PROVE  f \in Told(r) \ gone
        <5>1. f \in Events /\ f \notin gone
          BY <2>9 DEF Told, Played
        <5>2. speech'[f] = speech[f] /\ intent'[f] = Stale[f]
          BY <2>6, <2>7, <4>2, <5>1
        <5>3. intent'[f].ses = intent[f].ses /\ (intent'[f].state = intent[f].state
                 \/ intent'[f].state = "expired")
          <6>1. intent[f] \in IntentRows /\ "expired" \in States
            BY <5>1, RowsTyped, <1>1 DEF States, Ended
          <6>2. /\ To(intent[f], "expired").state = "expired"
                /\ To(intent[f], "expired").ses = intent[f].ses
            BY <6>1, Updated
          <6> QED BY <5>1, <5>2, <6>2 DEF Stale
        <5> QED BY <5>1, <5>2, <5>3 DEF Told, Played
      <4>3. Told(s) \subseteq all
        BY <1>1 DEF Told, Spent, Spending, Handed, Unsaid, Played, RowsTyped,
                    TypeOK, Active, Ended
      <4>4. \A r \in Sessions : r # s => e \notin Told(r)'
        BY <3>1, <3>2 DEF Told
      <4>5. \A f : Feature(f)' = Feature(f)
        BY DEF Feature
      <4>6. ASSUME NEW r \in Sessions, NEW f \in Told(r)', NEW g \in Told(r)'
            PROVE  /\ Feature(f) = Feature(g) => f = g
                   /\ \A h \in Told(r)' : f = g \/ g = h \/ f = h
        <5>1. CASE r = s
          BY <4>1, <4>2, <4>3, <5>1
        <5>2. CASE r # s
          BY <1>1, <4>2, <4>4, <5>2 DEF SparingNarration
        <5> QED BY <5>1, <5>2
      <4> QED BY <4>5, <4>6 DEF SparingNarration
    <3>16. cursor' <= head'
      BY <1>1 DEF NInv, journal
    <3> QED BY <1>3, <3>8, <3>12, <3>13, <3>14, <3>15, <3>16 DEF NInv
  <2> QED BY <2>12, <2>13
<1> QED BY <1>6, <1>7

-----------------------------------------------------------------------------
(* The theorem                                                             *)

LEMMA NInvInit == Init => NInv
<1> SUFFICES ASSUME Init PROVE NInv
  OBVIOUS
<1>1. Absent \in IntentRows /\ Absent.state = "none" /\ Absent.hushed = FALSE
  BY DEF Absent, IntentRows, States
<1>2. intent \in [Events -> IntentRows] /\ \A e \in Events : intent[e] = Absent
  BY <1>1 DEF Init
<1>3. ses \in [Sessions -> VoiceSession]
  BY DEF Init, VoiceSession
<1>4. TypeOK
  BY <1>2, <1>3 DEF Init, TypeOK, IntentRows, States, SpeechStates
<1>5. cursor <= head /\ \A e \in Events : Carded(e)
  BY DEF Init, Carded
<1>6. /\ \A e \in Events : Handed(e)
      /\ Working /\ AskedOnce /\ TextFirst /\ MuteForgets
  BY <1>1, <1>2 DEF Init, Handed, Working, AskedOnce, TextFirst, MuteForgets
<1>7. SparingNarration
  BY <1>1, <1>2 DEF Init, SparingNarration, Told, Played
<1> QED BY <1>4, <1>5, <1>6, <1>7 DEF NInv

LEMMA NInvNext == NInv /\ [Next]_vars => NInv'
<1> SUFFICES ASSUME NInv, [Next]_vars PROVE NInv'
  OBVIOUS
<1>1. CASE UNCHANGED vars
  <2>1. UNCHANGED <<row, head, eligible, card, late, ses, quiet, config, up, acts, cursor,
                    intent, lapsed, speech, pc, tasks, live>>
    BY <1>1 DEF vars, journal, outside, table, service
  <2>2. TypeOK' /\ \A e \in Events : Carded(e)'
    BY <2>1 DEF NInv, TypeOK, Carded, OfASession
  <2> QED BY <2>1, <2>2, WorldKept DEF NInv, Working, CardsStay
<1>2. CASE Next
  <2>1. CASE World
    <3>1. CASE \E e \in Events : Record(e)
      BY <3>1, RecordKept
    <3>2. CASE \E e \in Events : Post(e)
      BY <3>2, PostKept
    <3>3. CASE \E e \in Events : Speak(e)
      BY <3>3, SpeakKept
    <3>4. CASE \E s \in Sessions : Summon(s)
      BY <3>4, SummonKept
    <3>5. CASE \E s \in Sessions : \/ Ready(s) \/ Rejoin(s) \/ Drop(s)
                                   \/ Mute(s) \/ Unmute(s) \/ Leave(s)
      BY <3>5, SessionsKept
    <3>6. CASE Boot
      BY <3>6, BootKept
    <3>7. CASE (\E e \in Events : Withdraw(e) \/ Grow(e) \/ LeaseEnds(e)) \/ Hush \/ Stop
      BY <1>2, <3>7, AsideKept
    <3> QED BY <2>1, <3>1, <3>2, <3>3, <3>4, <3>5, <3>6, <3>7 DEF World
  <2>2. CASE Cycle
    BY <2>2, ObserveKept, ReconcileKept, ClaimKept, HandKept DEF Cycle
  <2>3. CASE Worker
    BY <2>3, BeginKept, ReturnKept DEF Worker
  <2>4. CASE \E t \in tasks : Fail(t)
    BY <1>2, <2>4, AsideKept
  <2>5. CASE \E e \in Events : Enqueue(e)
    BY <2>5, EnqueueKept
  <2> QED BY <1>2, <2>1, <2>2, <2>3, <2>4, <2>5 DEF Next
<1> QED BY <1>1, <1>2

(* The lines that the service lets Vox say, whatever events, sessions and  *)
(* disturbances there are: a session hears two at most and one of a        *)
(* feature; none before its text is public; an event's line is asked for   *)
(* once at a time; and none that a mute cut off is said.                   *)
THEOREM NarrationIsSparing == Spec => []NarrationHolds
<1>1. NInv => NarrationHolds
  BY DEF NInv, NarrationHolds
<1> QED BY <1>1, NInvInit, NInvNext, PTL DEF Spec

=============================================================================
