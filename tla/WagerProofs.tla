---------------------------- MODULE WagerProofs -----------------------------
(* Proofs about Wagers for every set of wagers, members and workers and    *)
(* every choice of stakes, durations and attempts; and about Notices for   *)
(* any members, notices and interactions.                                  *)
EXTENDS Wagers, FiniteSetTheorems, WellFoundedInduction, TLAPS

CONSTANTS Members, Notes, Target, Keys, Asker, None
VARIABLES notice, token, attempt, due, lapsed, wire, seen, up

N == INSTANCE Notices

-----------------------------------------------------------------------------
(* Records *)

States == {"absent"} \cup Open \cup Funded \cup Terminal

LEMMA MovedType ==
  ASSUME NEW r \in WagerRecord, NEW s \in States
  PROVE  /\ Moved(r, s) \in WagerRecord
         /\ Moved(r, s).state = s
         /\ Moved(r, s).stake = r.stake
         /\ Moved(r, s).terms = r.terms
         /\ Moved(r, s).said = r.said
         /\ Moved(r, s).voids = r.voids
         /\ Moved(r, s).agreed = r.agreed
  <1>1. 0 \in Nat /\ FALSE \in BOOLEAN
    OBVIOUS
  <1> QED BY <1>1 DEF Moved, WagerRecord, States

LEMMA DraftedType ==
  ASSUME NEW a \in Agreements
  PROVE  Drafted(a) \in WagerRecord /\ Drafted(a).state = "draft"
  <1>1. a \in Agreement /\ DraftLifetime \in Nat
    BY WagerAssumption
  <1>2. [s \in Sides |-> "none"] \in [Sides -> Sides \cup {"none"}]
    OBVIOUS
  <1>3. {} \in SUBSET Sides /\ 0 \in Nat
    OBVIOUS
  <1> QED BY <1>1, <1>2, <1>3 DEF Drafted, WagerRecord, Open

LEMMA EndedType == Ended \in JobRecord /\ AbsentJob \in JobRecord
  BY WagerAssumption DEF Ended, AbsentJob, JobRecord

LEMMA ScheduledType ==
  ASSUME NEW n \in Nat
  PROVE  Scheduled(n) \in JobRecord /\ Scheduled(n).state = "pending"
  <1>1. 0 \in 0..MaxAttempts /\ 0 \in Nat
    BY WagerAssumption
  <1> QED BY <1>1 DEF Scheduled, AbsentJob, JobRecord

LEMMA DeadType ==
  ASSUME NEW j \in JobRecord
  PROVE  /\ Dead(j) \in JobRecord
         /\ Dead(j).state = "dead"
         /\ Dead(j).attempts = j.attempts
  BY DEF Dead, JobRecord

LEMMA SweptType ==
  ASSUME NEW j \in JobRecord
  PROVE  Swept(j) \in JobRecord
  BY DeadType DEF Swept

LEMMA CancelledType ==
  ASSUME NEW jobs \in [Phases -> JobRecord], NEW ps
  PROVE  Cancelled(jobs, ps) \in [Phases -> JobRecord]
  BY EndedType DEF Cancelled

(* Applying a deadline changes the wager's state and its reminder, and     *)
(* cancels pending jobs.                                                   *)
LEMMA AppliedType ==
  ASSUME TypeOK, NEW w \in WagerIds, NEW p \in Phases
  PROVE  /\ Applied(w, p).wager \in WagerRecord
         /\ Applied(w, p).jobs \in [Phases -> JobRecord]
  <1> DEFINE r == wager[w]
  <1>1. r \in WagerRecord /\ job[w] \in [Phases -> JobRecord]
    BY DEF TypeOK
  <1>2. "expired" \in States /\ "disputed" \in States
    BY DEF States, Terminal, Unfunded, Funded
  <1>3. Moved(r, "expired") \in WagerRecord /\ Moved(r, "disputed") \in WagerRecord
    BY <1>1, <1>2, MovedType
  <1>4. [r EXCEPT !.reminded = TRUE] \in WagerRecord
    BY <1>1 DEF WagerRecord
  <1>5. [r EXCEPT !.state = "awaiting_resolution"] \in WagerRecord
    BY <1>1 DEF WagerRecord, Funded
  <1>6. \A ps : Cancelled(job[w], ps) \in [Phases -> JobRecord]
    BY <1>1, CancelledType
  <1> QED BY <1>1, <1>3, <1>4, <1>5, <1>6 DEF Applied

-----------------------------------------------------------------------------
(* Types are preserved by the shared transitions *)

LEMMA CloseType ==
  ASSUME TypeOK, NEW w \in WagerIds, NEW s \in Terminal,
         Close(w, s), UNCHANGED claim
  PROVE  TypeOK'
  <1>1. Moved(wager[w], s) \in WagerRecord
    BY MovedType DEF TypeOK, States
  <1>2. wager' \in [WagerIds -> WagerRecord]
    BY <1>1 DEF TypeOK, Close
  <1>3. Cancelled(job[w], {"draft_expiry", "offer_expiry"}) \in [Phases -> JobRecord]
    BY CancelledType DEF TypeOK
  <1>4. job' \in [WagerIds -> [Phases -> JobRecord]]
    BY <1>3 DEF TypeOK, Close
  <1> QED BY <1>2, <1>4 DEF TypeOK, Close, Unmoved

LEMMA RecordType ==
  ASSUME TypeOK, NEW w \in WagerIds, NEW r \in WagerRecord,
         Record(w, r), UNCHANGED claim
  PROVE  TypeOK'
  BY DEF TypeOK, Record, Unmoved

LEMMA DisputeType ==
  ASSUME TypeOK, NEW w \in WagerIds, NEW r \in WagerRecord,
         Dispute(w, r), UNCHANGED claim
  PROVE  TypeOK'
  <1>1. Moved(r, "disputed") \in WagerRecord
    BY MovedType DEF States, Funded
  <1>2. wager' \in [WagerIds -> WagerRecord]
    BY <1>1 DEF TypeOK, Dispute
  <1>3. Cancelled(job[w], {"reminder", "outcome_due", "grace"}) \in [Phases -> JobRecord]
    BY CancelledType DEF TypeOK
  <1>4. job' \in [WagerIds -> [Phases -> JobRecord]]
    BY <1>3 DEF TypeOK, Dispute
  <1> QED BY <1>2, <1>4 DEF TypeOK, Dispute, Unmoved

LEMMA StakeType ==
  ASSUME NEW r \in WagerRecord
  PROVE  /\ r.stake \in Nat
         /\ r.terms \in Agreement
  <1>1. r.stake \in {0} \cup Stakes /\ r.terms \in Agreement
    BY DEF WagerRecord
  <1>2. Stakes \subseteq Nat
    BY WagerAssumption
  <1>3. 0 \in Nat
    OBVIOUS
  <1>4. r.stake \in Nat
    BY <1>1, <1>2, <1>3
  <1> QED BY <1>1, <1>4

LEMMA PaymentType ==
  ASSUME NEW a \in Agreement, NEW s \in Nat, NEW u \in Users,
         NEW result \in Sides \cup {"void"}
  PROVE  Payment(a, s, result, u) \in Nat /\ Share(a, s, u) \in Nat
  BY DEF Payment, Share

LEMMA SettleType ==
  ASSUME TypeOK, NEW w \in WagerIds, NEW r \in WagerRecord,
         NEW result \in Sides \cup {"void"},
         NEW authority \in {"mutual", "judge", "owner"},
         Settle(w, r, result, authority), UNCHANGED claim
  PROVE  TypeOK'
  <1> DEFINE s == IF result = "void" THEN "void_refunded" ELSE "resolved"
  <1>1. Moved(r, s) \in WagerRecord
    BY MovedType DEF States, Terminal, Paid
  <1>2. [Moved(r, s) EXCEPT
           !.winner = IF result = "void" THEN "none" ELSE result,
           !.authority = authority] \in WagerRecord
    <2> DEFINE q == Moved(r, s)
               x == IF result = "void" THEN "none" ELSE result
    <2>1. x \in Sides \cup {"none"}
      OBVIOUS
    <2>2. authority \in {"none", "mutual", "judge", "owner"} /\ q \in WagerRecord
      BY <1>1
    <2> HIDE DEF q, x
    <2>3. [q EXCEPT !.winner = x, !.authority = authority] \in WagerRecord
      <3> DEFINE y == [q EXCEPT !.winner = x]
      <3>1. y \in WagerRecord
        BY <2>1, <2>2 DEF WagerRecord
      <3>2. [q EXCEPT !.winner = x, !.authority = authority]
              = [y EXCEPT !.authority = authority]
        OBVIOUS
      <3> HIDE DEF y
      <3>3. [y EXCEPT !.authority = authority] \in WagerRecord
        BY <2>2, <3>1 DEF WagerRecord
      <3> QED BY <3>2, <3>3
    <2> QED BY <2>3 DEF q, x
  <1>3. wager' \in [WagerIds -> WagerRecord]
    BY <1>2 DEF TypeOK, Settle
  <1>4. Cancelled(job[w], {"reminder", "outcome_due", "grace"}) \in [Phases -> JobRecord]
    BY CancelledType DEF TypeOK
  <1>5. job' \in [WagerIds -> [Phases -> JobRecord]]
    BY <1>4 DEF TypeOK, Settle
  <1>6. \A u \in Users : balance[u] + Payment(r.terms, r.stake, result, u) \in Nat
    BY PaymentType, StakeType DEF TypeOK
  <1>7. balance' \in [Users -> Nat]
    BY <1>6 DEF Settle
  <1>8. escrow' \in Int
    BY StakeType DEF Settle, TypeOK
  <1> QED BY <1>3, <1>5, <1>7, <1>8 DEF TypeOK, Settle

LEMMA FundType ==
  ASSUME TypeOK, NEW w \in WagerIds,
         Affordable(wager[w].terms, wager[w].stake),
         Fund(w), UNCHANGED claim
  PROVE  TypeOK'
  <1> DEFINE a == wager[w].terms
  <1> DEFINE s == wager[w].stake
  <1>1. wager[w] \in WagerRecord
    BY DEF TypeOK
  <1>2. s \in Nat /\ a \in Agreement
    BY <1>1, StakeType
  <1>3. a.creator \in Users /\ a.target \in Users
    BY <1>2 DEF Agreement
  <1>4. \A u \in Users : FateOf(u) \in Nat
    BY WagerAssumption DEF FateOf, TypeOK
  <1>5. \A u \in {a.creator, a.target} : FateOf(u) - Share(a, s, u) \in Nat
    <2> HIDE DEF a, s
    <2>1. Affordable(a, s)
      BY DEF a, s
    <2>2. CASE a.creator = a.target
      BY <1>2, <1>3, <1>4, <2>1, <2>2 DEF Affordable, Share
    <2>3. CASE a.creator # a.target
      BY <1>2, <1>3, <1>4, <2>1, <2>3 DEF Affordable, Share
    <2> QED BY <2>2, <2>3
  <1>6. balance' \in [Users -> Nat]
    BY <1>5 DEF Fund, TypeOK
  <1>7. opened' \subseteq Users
    BY <1>3 DEF Fund, TypeOK
  <1>8. escrow' \in Int
    BY <1>2 DEF Fund, TypeOK
  <1>9. /\ OutcomeWindow \in Nat /\ OutcomeWindow + Grace \in Nat
        /\ OutcomeWindow \div 2 \in Nat
    BY WagerAssumption
  <1>10. Moved(wager[w], "accepted_funded") \in WagerRecord
    BY <1>1, MovedType DEF States, Funded
  <1>11. [Moved(wager[w], "accepted_funded")
            EXCEPT !.graceLeft = OutcomeWindow + Grace] \in WagerRecord
    BY <1>9, <1>10 DEF WagerRecord
  <1>12. wager' \in [WagerIds -> WagerRecord]
    BY <1>11 DEF Fund, TypeOK
  <1>13. Cancelled(job[w], {"offer_expiry"}) \in [Phases -> JobRecord]
    BY CancelledType DEF TypeOK
  <1>14. /\ Scheduled(OutcomeWindow \div 2) \in JobRecord
         /\ Scheduled(OutcomeWindow) \in JobRecord
         /\ Scheduled(OutcomeWindow + Grace) \in JobRecord
    BY <1>9, ScheduledType
  <1>15. job' \in [WagerIds -> [Phases -> JobRecord]]
    BY <1>13, <1>14 DEF Fund, TypeOK
  <1> QED BY <1>6, <1>7, <1>8, <1>12, <1>15 DEF TypeOK

-----------------------------------------------------------------------------
(* The inductive invariant *)

(* A worker whose claim still stands knows the row's attempt count: no     *)
(* claim is counted twice or handed back below zero.                       *)
ClaimsMatch ==
  \A k \in Workers :
    Holds(k) => claim[k].attempts = job[claim[k].wager][claim[k].phase].attempts

LEMMA ClaimType ==
  ASSUME TypeOK, NEW k \in Workers, claim[k] # Idle
  PROVE  /\ claim[k].wager \in WagerIds
         /\ claim[k].phase \in Phases
         /\ claim[k].attempts \in 1..MaxAttempts
  BY DEF TypeOK, Claims

LEMMA InitType == Init => TypeOK /\ ClaimsMatch
  <1> SUFFICES ASSUME Init PROVE TypeOK /\ ClaimsMatch
    OBVIOUS
  <1>1. (CHOOSE a \in Agreements : TRUE) \in Agreements
    BY WagerAssumption
  <1>2. Drafted(CHOOSE a \in Agreements : TRUE) \in WagerRecord
    BY <1>1, DraftedType
  <1>3. AbsentWager \in WagerRecord
    BY <1>2 DEF AbsentWager, WagerRecord
  <1>4. wager \in [WagerIds -> WagerRecord]
    BY <1>3 DEF Init
  <1>5. job \in [WagerIds -> [Phases -> JobRecord]]
    BY EndedType DEF Init
  <1>6. balance \in [Users -> Nat] /\ escrow \in Int /\ opened \subseteq Users
    BY DEF Init
  <1>7. claim \in [Workers -> Claims \cup {Idle}]
    BY DEF Init
  <1>8. ClaimsMatch
    BY DEF Init, ClaimsMatch, Holds
  <1> QED BY <1>4, <1>5, <1>6, <1>7, <1>8 DEF TypeOK

(* Member operations *)

LEMMA MemberStepType ==
  ASSUME TypeOK, NEW w \in WagerIds, NEW u \in Users, MemberStep(w, u)
  PROVE  TypeOK'
  <1> DEFINE r == wager[w]
  <1>r. r \in WagerRecord /\ job[w] \in [Phases -> JobRecord]
    BY DEF TypeOK
  <1>d. /\ DraftLifetime \in Nat /\ OfferLifetime \in Nat
    BY WagerAssumption
  <1>1. ASSUME NEW a \in Agreements, CreateDraft(w, u, a) PROVE TypeOK'
    <2>1. wager' \in [WagerIds -> WagerRecord]
      BY <1>1, DraftedType DEF TypeOK, CreateDraft
    <2>2. job' \in [WagerIds -> [Phases -> JobRecord]]
      BY <1>1, <1>d, ScheduledType DEF TypeOK, CreateDraft
    <2> QED BY <1>1, <2>1, <2>2 DEF TypeOK, CreateDraft, Unmoved
  <1>2. ASSUME NEW s \in Stakes, Preview(w, u, s) PROVE TypeOK'
    <2>1. [r EXCEPT !.stake = s] \in WagerRecord
      BY <1>r DEF WagerRecord
    <2> QED BY <1>2, <2>1, RecordType DEF Preview
  <1>3. CASE ExpireOnTouch(w, u)
    BY <1>3, CloseType DEF ExpireOnTouch, Terminal, Unfunded
  <1>4. CASE Confirm(w, u)
    <2>1. Moved(r, "offered") \in WagerRecord
      BY <1>r, MovedType DEF States, Open
    <2>2. [Moved(r, "offered") EXCEPT !.offerLeft = OfferLifetime] \in WagerRecord
      BY <2>1, <1>d DEF WagerRecord
    <2>3. wager' \in [WagerIds -> WagerRecord]
      BY <1>4, <2>2 DEF TypeOK, Confirm
    <2>4. Cancelled(job[w], {"draft_expiry"}) \in [Phases -> JobRecord]
      BY <1>r, CancelledType
    <2>5. job' \in [WagerIds -> [Phases -> JobRecord]]
      BY <1>4, <2>4, <1>d, ScheduledType DEF TypeOK, Confirm
    <2> QED BY <1>4, <2>3, <2>5 DEF TypeOK, Confirm, Unmoved
  <1>5. CASE Discard(w, u)
    BY <1>5, CloseType DEF Discard, Terminal, Unfunded
  <1>6. CASE Accept(w, u)
    BY <1>6, FundType DEF Accept
  <1>7. CASE Decline(w, u)
    BY <1>7, CloseType DEF Decline, Terminal, Unfunded
  <1>8. CASE Withdraw(w, u)
    BY <1>8, CloseType DEF Withdraw, Terminal, Unfunded
  <1>9. CASE RaiseDispute(w, u)
    BY <1>9, <1>r, DisputeType DEF RaiseDispute
  <1>10. ASSUME NEW side \in Sides, ConsentToVoid(w, u, side) PROVE TypeOK'
    <2> DEFINE q == [r EXCEPT !.voids = @ \cup {side}]
    <2>1. q \in WagerRecord
      BY <1>r DEF WagerRecord
    <2>2. [q EXCEPT !.agreed = side] \in WagerRecord
      <3> HIDE DEF q
      <3> QED BY <2>1 DEF WagerRecord
    <2>3. CASE q.voids = Sides
      <3>1. Settle(w, [q EXCEPT !.agreed = side], "void", "mutual")
        BY <1>10, <2>3 DEF ConsentToVoid
      <3> QED BY <1>10, <2>2, <3>1, SettleType DEF ConsentToVoid
    <2>4. CASE q.voids # Sides
      <3>1. Record(w, q)
        BY <1>10, <2>4 DEF ConsentToVoid
      <3> QED BY <1>10, <2>1, <3>1, RecordType DEF ConsentToVoid
    <2> QED BY <2>3, <2>4
  <1>11. ASSUME NEW side \in Sides, Adopt(w, u, side) PROVE TypeOK'
    <2>1. [r EXCEPT !.agreed = side] \in WagerRecord
      BY <1>r DEF WagerRecord
    <2>2. r.said \in [Sides -> Sides \cup {"none"}]
      BY <1>r DEF WagerRecord
    <2>3. r.said[Other(side)] \in Sides
      BY <1>11, <2>2 DEF Adopt, Other, Sides
    <2> QED BY <1>11, <2>1, <2>3, SettleType DEF Adopt
  <1>12. ASSUME NEW side \in Sides, NEW winner \in Sides,
                SubmitOutcome(w, u, side, winner)
         PROVE  TypeOK'
    <2> DEFINE q == [r EXCEPT !.said[side] = winner,
                              !.state = IF @ = "accepted_funded"
                                        THEN "awaiting_resolution" ELSE @]
    <2>1. q \in WagerRecord
      <3> DEFINE y == [r EXCEPT !.said[side] = winner]
                 x == IF r.state = "accepted_funded"
                      THEN "awaiting_resolution" ELSE r.state
      <3>1. y \in WagerRecord /\ y.state = r.state
        BY <1>r DEF WagerRecord
      <3>2. x \in States
        BY <1>r DEF WagerRecord, States, Funded
      <3>3. q = [y EXCEPT !.state = x]
        BY <1>r DEF WagerRecord
      <3> HIDE DEF y, x, q
      <3>4. [y EXCEPT !.state = x] \in WagerRecord
        BY <3>1, <3>2 DEF WagerRecord, States
      <3> QED BY <3>3, <3>4
    <2>2. [q EXCEPT !.agreed = side] \in WagerRecord
      <3> HIDE DEF q
      <3> QED BY <2>1 DEF WagerRecord
    <2>3. \/ Settle(w, [q EXCEPT !.agreed = side], winner, "mutual")
          \/ Dispute(w, q)
          \/ Record(w, q)
      BY <1>12 DEF SubmitOutcome
    <2>4. UNCHANGED claim
      BY <1>12 DEF SubmitOutcome
    <2> HIDE DEF q
    <2> QED BY <2>1, <2>2, <2>3, <2>4, SettleType, DisputeType, RecordType
  <1>13. ASSUME NEW result \in Sides \cup {"void"}, Judge(w, u, result)
         PROVE  TypeOK'
    BY <1>13, <1>r, SettleType DEF Judge
  <1>14. ASSUME NEW p \in Phases, ForceDeadline(w, u, p) PROVE TypeOK'
    <2>1. /\ Applied(w, p).wager \in WagerRecord
          /\ Applied(w, p).jobs \in [Phases -> JobRecord]
      BY AppliedType
    <2>2. wager' \in [WagerIds -> WagerRecord]
      BY <1>14, <2>1 DEF TypeOK, ForceDeadline
    <2>3. /\ Cancelled(job[w], {"reminder"}) \in [Phases -> JobRecord]
          /\ Cancelled(Applied(w, p).jobs, {"reminder"}) \in [Phases -> JobRecord]
      BY <1>r, <2>1, CancelledType
    <2>4. job' \in [WagerIds -> [Phases -> JobRecord]]
      BY <1>14, <2>1, <2>3 DEF TypeOK, ForceDeadline
    <2> QED BY <1>14, <2>2, <2>4 DEF TypeOK, ForceDeadline, Unmoved
  <1>15. CASE CleanUp(w, u)
    <2>1. [r EXCEPT !.cleaned = TRUE] \in WagerRecord
      BY <1>r DEF WagerRecord
    <2> QED BY <1>15, <2>1, RecordType DEF CleanUp
  <1> QED
    BY <1>1, <1>2, <1>3, <1>4, <1>5, <1>6, <1>7, <1>8, <1>9, <1>10, <1>11,
       <1>12, <1>13, <1>14, <1>15 DEF MemberStep

(* The scheduler and the rest *)

LEMMA SchedulerStepType ==
  ASSUME TypeOK, ClaimsMatch, NEW k \in Workers, SchedulerStep(k)
  PROVE  TypeOK'
  <1>t. /\ job \in [WagerIds -> [Phases -> JobRecord]]
        /\ claim \in [Workers -> Claims \cup {Idle}]
    BY DEF TypeOK
  <1>m. MaxAttempts \in Nat \ {0} /\ JobLease \in Nat /\ RetryDelay \in Nat
    BY WagerAssumption
  <1>i. [claim EXCEPT ![k] = Idle] \in [Workers -> Claims \cup {Idle}]
    BY <1>t
  <1>1. CASE Claim(k)
    <2>1. PICK w \in WagerIds, p \in Phases :
            /\ Claimable(job[w][p])
            /\ job' = [v \in WagerIds |-> [q \in Phases |->
                        IF v = w /\ q = p
                        THEN [job[w][p] EXCEPT !.state = "claimed",
                                !.attempts = @ + 1, !.holder = k,
                                !.lease = JobLease]
                        ELSE Swept(job[v][q])]]
            /\ claim' = [claim EXCEPT ![k] =
                          [wager |-> w, phase |-> p,
                           attempts |-> job[w][p].attempts + 1]]
      BY <1>1 DEF Claim
    <2> DEFINE j == job[w][p]
    <2>2. j \in JobRecord
      BY <1>t
    <2>3. j.attempts \in 0..MaxAttempts /\ j.attempts < MaxAttempts
      BY <2>1, <2>2 DEF JobRecord, Claimable
    <2>4. j.attempts + 1 \in 1..MaxAttempts /\ j.attempts + 1 \in 0..MaxAttempts
      BY <2>3, <1>m
    <2>5. [j EXCEPT !.state = "claimed", !.attempts = @ + 1, !.holder = k,
                    !.lease = JobLease] \in JobRecord
      BY <2>2, <2>4, <1>m DEF JobRecord
    <2>6. \A v \in WagerIds, q \in Phases : Swept(job[v][q]) \in JobRecord
      BY <1>t, SweptType
    <2>7. job' \in [WagerIds -> [Phases -> JobRecord]]
      BY <2>1, <2>5, <2>6
    <2>8. [wager |-> w, phase |-> p, attempts |-> j.attempts + 1] \in Claims
      BY <2>4 DEF Claims
    <2>9. claim' \in [Workers -> Claims \cup {Idle}]
      BY <2>1, <2>8, <1>t
    <2> QED BY <1>1, <2>7, <2>9 DEF TypeOK, Claim, Unmoved
  <1>2. CASE Sweep(k)
    <2>1. \A v \in WagerIds, q \in Phases : Swept(job[v][q]) \in JobRecord
      BY <1>t, SweptType
    <2>2. job' \in [WagerIds -> [Phases -> JobRecord]]
      BY <1>2, <2>1 DEF Sweep
    <2> QED BY <1>2, <2>2 DEF TypeOK, Sweep, Unmoved
  <1>3. ASSUME claim[k] # Idle
        PROVE  /\ claim[k].wager \in WagerIds
               /\ claim[k].phase \in Phases
               /\ claim[k].attempts \in 1..MaxAttempts
               /\ job[claim[k].wager][claim[k].phase] \in JobRecord
               /\ job[claim[k].wager] \in [Phases -> JobRecord]
    BY <1>3, <1>t, ClaimType
  <1> DEFINE w == claim[k].wager
             p == claim[k].phase
  <1>4. CASE FireDeadline(k)
    <2>1. w \in WagerIds /\ p \in Phases
      BY <1>3, <1>4 DEF FireDeadline, Holds
    <2>2. /\ Applied(w, p).wager \in WagerRecord
          /\ Applied(w, p).jobs \in [Phases -> JobRecord]
      BY <2>1, AppliedType
    <2>3. wager' \in [WagerIds -> WagerRecord]
      BY <1>4, <2>1, <2>2 DEF TypeOK, FireDeadline
    <2>4. [Applied(w, p).jobs EXCEPT ![p] = Ended] \in [Phases -> JobRecord]
      BY <2>2, EndedType
    <2>5. job' \in [WagerIds -> [Phases -> JobRecord]]
      BY <1>4, <2>1, <2>4 DEF TypeOK, FireDeadline
    <2> QED BY <1>4, <2>3, <2>5, <1>i DEF TypeOK, FireDeadline, Drop, Unmoved
  <1>5. CASE HandlerThrows(k)
    <2>1. w \in WagerIds /\ p \in Phases /\ job[w][p] \in JobRecord
      BY <1>3, <1>5 DEF HandlerThrows
    <2>2. Dead(job[w][p]) \in JobRecord
      BY <2>1, DeadType
    <2>3. Retried(job[w][p]) \in JobRecord
      BY <2>1, <1>m DEF JobRecord, Retried
    <2>4. job' \in [WagerIds -> [Phases -> JobRecord]]
      BY <1>5, <1>t, <2>1, <2>2, <2>3 DEF HandlerThrows
    <2> QED BY <1>5, <2>4, <1>i DEF TypeOK, HandlerThrows, Drop, Unmoved
  <1>6. CASE ReleaseClaim(k)
    <2>1. w \in WagerIds /\ p \in Phases /\ job[w][p] \in JobRecord
      BY <1>3, <1>6 DEF ReleaseClaim
    <2>2. CASE Holds(k)
      <3>1. job[w][p].attempts = claim[k].attempts
        BY <2>2 DEF ClaimsMatch
      <3>2. job[w][p].attempts - 1 \in 0..MaxAttempts
        BY <3>1, <1>3, <1>6, <1>m DEF ReleaseClaim
      <3>3. Uncounted(job[w][p]) \in JobRecord
        BY <2>1, <3>2 DEF JobRecord, Uncounted
      <3>4. job' \in [WagerIds -> [Phases -> JobRecord]]
        BY <1>6, <1>t, <2>1, <2>2, <3>3 DEF ReleaseClaim
      <3> QED BY <1>6, <3>4, <1>i DEF TypeOK, ReleaseClaim, Drop, Unmoved
    <2>3. CASE ~Holds(k)
      BY <1>6, <2>3, <1>i DEF TypeOK, ReleaseClaim, Drop, Unmoved
    <2> QED BY <2>2, <2>3
  <1> QED BY <1>1, <1>2, <1>4, <1>5, <1>6 DEF SchedulerStep

LEMMA EarlierType == \A n \in Nat : Earlier(n) \in Nat
  BY DEF Earlier

LEMMA OtherStepType ==
  ASSUME TypeOK, \/ \E w \in WagerIds : Reveal(w)
                 \/ Crash
                 \/ Tick
                 \/ UNCHANGED vars
  PROVE  TypeOK'
  <1>1. ASSUME NEW w \in WagerIds, Reveal(w) PROVE TypeOK'
    <2>0. wager[w] \in WagerRecord
      BY DEF TypeOK
    <2>1. [wager[w] EXCEPT !.revealed = TRUE] \in WagerRecord
      BY <2>0 DEF WagerRecord
    <2> QED BY <1>1, <2>1, RecordType DEF Reveal
  <1>2. CASE Crash
    BY <1>2 DEF Crash, TypeOK, Unmoved
  <1>3. CASE Tick
    <2>1. ASSUME NEW r \in WagerRecord
          PROVE  [r EXCEPT !.draftLeft = Earlier(@), !.offerLeft = Earlier(@),
                           !.graceLeft = Earlier(@)] \in WagerRecord
      <3>1. /\ Earlier(r.draftLeft) \in Nat /\ Earlier(r.offerLeft) \in Nat
            /\ Earlier(r.graceLeft) \in Nat
        BY EarlierType DEF WagerRecord
      <3> QED BY <3>1 DEF WagerRecord
    <2>2. ASSUME NEW j \in JobRecord
          PROVE  [j EXCEPT !.wait = Earlier(@), !.lease = Earlier(@)] \in JobRecord
      <3>1. Earlier(j.wait) \in Nat /\ Earlier(j.lease) \in Nat
        BY EarlierType DEF JobRecord
      <3> QED BY <3>1 DEF JobRecord
    <2>3. wager' \in [WagerIds -> WagerRecord]
      BY <1>3, <2>1 DEF Tick, TypeOK
    <2>4. job' \in [WagerIds -> [Phases -> JobRecord]]
      BY <1>3, <2>2 DEF Tick, TypeOK
    <2> QED BY <1>3, <2>3, <2>4 DEF Tick, TypeOK, Unmoved
  <1>4. CASE UNCHANGED vars
    BY <1>4 DEF vars, TypeOK
  <1> QED BY <1>1, <1>2, <1>3, <1>4

LEMMA StepType ==
  ASSUME TypeOK, ClaimsMatch, [Next]_vars
  PROVE  TypeOK'
  BY MemberStepType, SchedulerStepType, OtherStepType DEF Next

(* Claims keep matching their rows *)

LEMMA CancelledKeeps ==
  ASSUME NEW jobs \in [Phases -> JobRecord], NEW ps, NEW p \in Phases,
         Cancelled(jobs, ps)[p].state = "claimed"
  PROVE  Cancelled(jobs, ps)[p] = jobs[p]
  BY DEF Cancelled, Ended, AbsentJob

LEMMA AppliedKeeps ==
  ASSUME TypeOK, NEW w \in WagerIds, NEW p \in Phases, NEW q \in Phases,
         Applied(w, p).jobs[q].state = "claimed"
  PROVE  Applied(w, p).jobs[q] = job[w][q]
  <1>1. job[w] \in [Phases -> JobRecord]
    BY DEF TypeOK
  <1>2. \/ Applied(w, p).jobs = job[w]
        \/ \E ps : Applied(w, p).jobs = Cancelled(job[w], ps)
    BY DEF Applied
  <1> QED BY <1>1, <1>2, CancelledKeeps

(* What a step may do to a claimed row if its claim is to keep matching.   *)
KeepsClaims ==
  /\ \A v \in WagerIds, q \in Phases :
       job'[v][q].state = "claimed" =>
         /\ job[v][q].state = "claimed"
         /\ job'[v][q].holder = job[v][q].holder
         /\ job'[v][q].attempts = job[v][q].attempts
  /\ \A k \in Workers : claim'[k] \in {claim[k], Idle}

LEMMA KeepsClaimsMatch ==
  ASSUME TypeOK, ClaimsMatch, KeepsClaims
  PROVE  ClaimsMatch'
  <1> SUFFICES ASSUME NEW k \in Workers, Holds(k)'
               PROVE  claim'[k].attempts
                        = job'[claim'[k].wager][claim'[k].phase].attempts
    BY DEF ClaimsMatch
  <1>1. claim'[k] = claim[k] /\ claim[k] # Idle
    BY DEF Holds, KeepsClaims
  <1>2. claim[k].wager \in WagerIds /\ claim[k].phase \in Phases
    BY <1>1, ClaimType
  <1>3. Holds(k)
    BY <1>1, <1>2 DEF Holds, KeepsClaims
  <1> QED BY <1>1, <1>2, <1>3 DEF ClaimsMatch, KeepsClaims, Holds

LEMMA MemberStepClaims ==
  ASSUME TypeOK, NEW w \in WagerIds, NEW u \in Users, MemberStep(w, u)
  PROVE  KeepsClaims
  <1>t. job \in [WagerIds -> [Phases -> JobRecord]]
    BY DEF TypeOK
  <1>0. claim' = claim
    BY DEF MemberStep, CreateDraft, Preview, ExpireOnTouch, Confirm, Discard,
           Accept, Decline, Withdraw, RaiseDispute, ConsentToVoid, Adopt,
           SubmitOutcome, Judge, ForceDeadline, CleanUp
  <1>1. SUFFICES ASSUME NEW v \in WagerIds, NEW q \in Phases,
                        job'[v][q].state = "claimed"
                 PROVE  job'[v][q] = job[v][q]
    BY <1>0 DEF KeepsClaims
  <1>c. ASSUME NEW ps, job' = [job EXCEPT ![w] = Cancelled(@, ps)]
        PROVE  job'[v][q] = job[v][q]
    BY <1>1, <1>c, <1>t, CancelledKeeps
  <1>2. ASSUME NEW s \in Terminal, Close(w, s) PROVE job'[v][q] = job[v][q]
    BY <1>2, <1>c DEF Close
  <1>3. ASSUME NEW r, Dispute(w, r) PROVE job'[v][q] = job[v][q]
    BY <1>3, <1>c DEF Dispute
  <1>4. ASSUME NEW r, NEW x, NEW y, Settle(w, r, x, y)
        PROVE  job'[v][q] = job[v][q]
    BY <1>4, <1>c DEF Settle
  <1>5. ASSUME NEW r, Record(w, r) PROVE job'[v][q] = job[v][q]
    BY <1>5 DEF Record
  <1>6. \A n : Scheduled(n).state # "claimed"
    BY DEF Scheduled, AbsentJob
  <1>7. CASE Fund(w)
    <2>1. Cancelled(job[w], {"offer_expiry"}) \in [Phases -> JobRecord]
      BY <1>t, CancelledType
    <2> QED BY <1>1, <1>7, <1>t, <1>6, <2>1, CancelledKeeps DEF Fund
  <1>8. ASSUME NEW a \in Agreements, CreateDraft(w, u, a)
        PROVE  job'[v][q] = job[v][q]
    BY <1>1, <1>8, <1>t, <1>6 DEF CreateDraft
  <1>9. CASE Confirm(w, u)
    <2>1. Cancelled(job[w], {"draft_expiry"}) \in [Phases -> JobRecord]
      BY <1>t, CancelledType
    <2> QED BY <1>1, <1>9, <1>t, <1>6, <2>1, CancelledKeeps DEF Confirm
  <1>10. ASSUME NEW p \in Phases, ForceDeadline(w, u, p)
         PROVE  job'[v][q] = job[v][q]
    <2>1. CASE job' = [job EXCEPT ![w] = Applied(w, p).jobs]
      BY <1>1, <2>1, <1>t, AppliedKeeps
    <2>2. CASE job' = [job EXCEPT ![w] =
                         Cancelled(Applied(w, p).jobs, {"reminder"})]
      <3>1. Applied(w, p).jobs \in [Phases -> JobRecord]
        BY AppliedType
      <3> QED BY <1>1, <2>2, <3>1, <1>t, AppliedKeeps, CancelledKeeps
    <2> QED BY <1>10, <2>1, <2>2, <1>c DEF ForceDeadline
  <1>11. "expired" \in Terminal /\ "cancelled" \in Terminal /\ "declined" \in Terminal
    BY DEF Terminal, Unfunded
  <1>12. CASE \/ ExpireOnTouch(w, u) \/ Discard(w, u) \/ Decline(w, u)
              \/ Withdraw(w, u)
    BY <1>12, <1>11, <1>2 DEF ExpireOnTouch, Discard, Decline, Withdraw
  <1>13. CASE Accept(w, u) \/ RaiseDispute(w, u)
    BY <1>13, <1>7, <1>3 DEF Accept, RaiseDispute
  <1>14. CASE \/ \E side \in Sides : ConsentToVoid(w, u, side) \/ Adopt(w, u, side)
              \/ \E side, winner \in Sides : SubmitOutcome(w, u, side, winner)
              \/ \E result \in Sides \cup {"void"} : Judge(w, u, result)
    BY <1>14, <1>3, <1>4, <1>5 DEF ConsentToVoid, Adopt, SubmitOutcome, Judge
  <1>15. CASE (\E s \in Stakes : Preview(w, u, s)) \/ CleanUp(w, u)
    BY <1>15, <1>5 DEF Preview, CleanUp
  <1> QED BY <1>8, <1>9, <1>10, <1>12, <1>13, <1>14, <1>15 DEF MemberStep

LEMMA StepClaims ==
  ASSUME TypeOK, ClaimsMatch, [Next]_vars
  PROVE  ClaimsMatch'
  <1>t. /\ job \in [WagerIds -> [Phases -> JobRecord]]
        /\ claim \in [Workers -> Claims \cup {Idle}]
    BY DEF TypeOK
  <1>1. ASSUME NEW w \in WagerIds, NEW u \in Users, MemberStep(w, u)
        PROVE  ClaimsMatch'
    BY <1>1, MemberStepClaims, KeepsClaimsMatch
  <1>2. ASSUME NEW w \in WagerIds, Reveal(w) PROVE ClaimsMatch'
    <2>1. KeepsClaims
      BY <1>2 DEF Reveal, Record, KeepsClaims
    <2> QED BY <2>1, KeepsClaimsMatch
  <1>3. ASSUME NEW k \in Workers, Claim(k) PROVE ClaimsMatch'
    <2>1. PICK w \in WagerIds, p \in Phases :
            /\ job' = [v \in WagerIds |-> [q \in Phases |->
                        IF v = w /\ q = p
                        THEN [job[w][p] EXCEPT !.state = "claimed",
                                !.attempts = @ + 1, !.holder = k,
                                !.lease = JobLease]
                        ELSE Swept(job[v][q])]]
            /\ claim' = [claim EXCEPT ![k] =
                          [wager |-> w, phase |-> p,
                           attempts |-> job[w][p].attempts + 1]]
      BY <1>3 DEF Claim
    <2> SUFFICES ASSUME NEW i \in Workers, Holds(i)'
                 PROVE  claim'[i].attempts
                          = job'[claim'[i].wager][claim'[i].phase].attempts
      BY DEF ClaimsMatch
    <2>2. job[w][p] \in JobRecord
      BY <1>t
    <2>3. /\ job'[w][p].attempts = job[w][p].attempts + 1
          /\ job'[w][p].holder = k
      BY <2>1, <2>2 DEF JobRecord
    <2>4. CASE i = k
      BY <2>1, <2>3, <2>4, <1>t
    <2>5. CASE i # k
      <3>1. claim'[i] = claim[i] /\ claim[i] # Idle
        BY <2>1, <2>5, <1>t DEF Holds
      <3> DEFINE v == claim[i].wager
                 q == claim[i].phase
      <3>2. v \in WagerIds /\ q \in Phases
        BY <3>1, ClaimType
      <3>3. job'[v][q].holder = i /\ job'[v][q].state = "claimed"
        BY <3>1 DEF Holds
      <3>4. ~(v = w /\ q = p)
        BY <2>3, <2>5, <3>3
      <3>5. job'[v][q] = Swept(job[v][q])
        BY <2>1, <3>2, <3>4
      <3>6. job'[v][q] = job[v][q]
        BY <3>2, <3>3, <3>5, <1>t DEF Swept, Dead, JobRecord
      <3> QED BY <3>1, <3>3, <3>6 DEF ClaimsMatch, Holds
    <2> QED BY <2>4, <2>5
  <1>4. ASSUME NEW k \in Workers, Sweep(k) PROVE ClaimsMatch'
    <2>1. \A v \in WagerIds, q \in Phases :
            job'[v][q].state = "claimed" => job'[v][q] = job[v][q]
      <3> SUFFICES ASSUME NEW v \in WagerIds, NEW q \in Phases,
                          job'[v][q].state = "claimed"
                   PROVE  job'[v][q] = job[v][q]
        OBVIOUS
      <3>1. job'[v][q] = Swept(job[v][q]) /\ job[v][q] \in JobRecord
        BY <1>4, <1>t DEF Sweep
      <3> QED BY <3>1, DeadType DEF Swept
    <2>2. KeepsClaims
      BY <1>4, <2>1 DEF Sweep, KeepsClaims
    <2> QED BY <2>2, KeepsClaimsMatch
  <1>5. ASSUME NEW k \in Workers, FireDeadline(k) PROVE ClaimsMatch'
    <2> DEFINE w == claim[k].wager
               p == claim[k].phase
    <2>1. w \in WagerIds /\ p \in Phases
      BY <1>5, ClaimType DEF FireDeadline, Holds
    <2>2. Applied(w, p).jobs \in [Phases -> JobRecord]
      BY <2>1, AppliedType
    <2>3. job' = [job EXCEPT ![w] = [Applied(w, p).jobs EXCEPT ![p] = Ended]]
      BY <1>5 DEF FireDeadline
    <2>4. Ended.state # "claimed"
      BY DEF Ended, AbsentJob
    <2>5. \A v \in WagerIds, q \in Phases :
            job'[v][q].state = "claimed" => job'[v][q] = job[v][q]
      <3> HIDE DEF w, p
      <3> QED BY <2>1, <2>2, <2>3, <2>4, <1>t, AppliedKeeps
    <2>6. KeepsClaims
      BY <1>5, <2>5, <1>t DEF FireDeadline, Drop, KeepsClaims
    <2> QED BY <2>6, KeepsClaimsMatch
  <1>6. ASSUME NEW k \in Workers, HandlerThrows(k) \/ ReleaseClaim(k)
        PROVE  ClaimsMatch'
    <2> DEFINE w == claim[k].wager
               p == claim[k].phase
    <2>1. w \in WagerIds /\ p \in Phases
      BY <1>6, ClaimType DEF HandlerThrows, ReleaseClaim
    <2>2. job[w][p] \in JobRecord
      BY <2>1, <1>t
    <2>3. \/ job' = job
          \/ \E j : job' = [job EXCEPT ![w][p] = j] /\ j.state # "claimed"
      <3>1. /\ Dead(job[w][p]).state # "claimed"
            /\ Retried(job[w][p]).state # "claimed"
            /\ Uncounted(job[w][p]).state # "claimed"
        BY <2>2 DEF Dead, Retried, Uncounted, JobRecord
      <3>2. CASE ~Holds(k)
        BY <1>6, <3>2 DEF HandlerThrows, ReleaseClaim
      <3>3. CASE Holds(k) /\ HandlerThrows(k)
        <4>1. job' = [job EXCEPT ![w][p] =
                        IF CanRetry(claim[k].attempts)
                        THEN Retried(job[w][p]) ELSE Dead(job[w][p])]
          BY <3>3 DEF HandlerThrows
        <4> QED BY <3>1, <4>1
      <3>4. CASE Holds(k) /\ ReleaseClaim(k)
        <4>1. job' = [job EXCEPT ![w][p] = Uncounted(job[w][p])]
          BY <3>4 DEF ReleaseClaim
        <4> QED BY <3>1, <4>1
      <3> QED BY <1>6, <3>2, <3>3, <3>4
    <2>4. \A v \in WagerIds, q \in Phases :
            job'[v][q].state = "claimed" => job'[v][q] = job[v][q]
      <3> HIDE DEF w, p
      <3> QED BY <2>1, <2>3, <1>t
    <2>5. KeepsClaims
      BY <1>6, <2>4, <1>t DEF HandlerThrows, ReleaseClaim, Drop, KeepsClaims
    <2> QED BY <2>5, KeepsClaimsMatch
  <1>7. CASE Crash
    <2>1. KeepsClaims
      BY <1>7 DEF Crash, KeepsClaims
    <2> QED BY <2>1, KeepsClaimsMatch
  <1>8. CASE Tick
    <2>1. \A v \in WagerIds, q \in Phases :
            /\ job'[v][q].state = job[v][q].state
            /\ job'[v][q].holder = job[v][q].holder
            /\ job'[v][q].attempts = job[v][q].attempts
      <3> SUFFICES ASSUME NEW v \in WagerIds, NEW q \in Phases
                   PROVE  /\ job'[v][q].state = job[v][q].state
                          /\ job'[v][q].holder = job[v][q].holder
                          /\ job'[v][q].attempts = job[v][q].attempts
        OBVIOUS
      <3>1. job[v][q] \in JobRecord
        BY <1>t
      <3>2. job'[v][q] = [job[v][q] EXCEPT !.wait = Earlier(@),
                                           !.lease = Earlier(@)]
        BY <1>8 DEF Tick
      <3> QED BY <3>1, <3>2 DEF JobRecord
    <2>2. KeepsClaims
      BY <1>8, <2>1 DEF Tick, KeepsClaims
    <2> QED BY <2>2, KeepsClaimsMatch
  <1>9. CASE UNCHANGED vars
    BY <1>9 DEF vars, ClaimsMatch, Holds
  <1> QED
    BY <1>1, <1>2, <1>3, <1>4, <1>5, <1>6, <1>7, <1>8, <1>9
    DEF Next, SchedulerStep

(* Column types and CHECK constraints of the wager, ledger and job rows    *)
(* hold in every reachable state: in particular no balance is negative.    *)
THEOREM WagerTypes == Spec => []TypeOK
  <1>1. Init => TypeOK /\ ClaimsMatch
    BY InitType
  <1>2. TypeOK /\ ClaimsMatch /\ [Next]_vars => TypeOK' /\ ClaimsMatch'
    BY StepType, StepClaims
  <1> QED BY <1>1, <1>2, PTL DEF Spec

-----------------------------------------------------------------------------
(* Nobody loses a stake without a decision that binds them *)

(* What a step keeps of every wager that is paid after it.                 *)
KeepsPaid ==
  \A v \in WagerIds : wager'[v].state \in Paid =>
    /\ wager'[v].state = wager[v].state
    /\ wager'[v].terms = wager[v].terms
    /\ wager'[v].authority = wager[v].authority
    /\ wager'[v].winner = wager[v].winner
    /\ wager'[v].voids = wager[v].voids
    /\ wager'[v].said = wager[v].said
    /\ wager'[v].agreed = wager[v].agreed

LEMMA KeepsAuthority ==
  ASSUME ResultHasAuthority, KeepsPaid
  PROVE  ResultHasAuthority'
  BY DEF ResultHasAuthority, KeepsPaid

(* The decision behind a settlement by agreement of the two sides.         *)
Agreed(r, result) ==
  IF result = "void" THEN r.voids = Sides
  ELSE \/ r.said[Other(result)] = result
       \/ r.agreed = Other(result) /\ r.said[result] = result

LEMMA SettleAuthority ==
  ASSUME TypeOK, ResultHasAuthority, NEW w \in WagerIds, NEW r \in WagerRecord,
         NEW result \in Sides \cup {"void"},
         NEW authority \in {"mutual", "judge", "owner"},
         Settle(w, r, result, authority),
         authority = "judge" => r.terms.policy = "designated",
         authority = "mutual" => Agreed(r, result)
  PROVE  ResultHasAuthority'
  <1> DEFINE s == IF result = "void" THEN "void_refunded" ELSE "resolved"
             x == IF result = "void" THEN "none" ELSE result
             m == Moved(r, s)
             q == [m EXCEPT !.winner = x, !.authority = authority]
  <1>1. s \in States
    BY DEF States, Terminal, Paid
  <1>2. /\ m \in WagerRecord /\ m.state = s /\ m.terms = r.terms
        /\ m.said = r.said /\ m.voids = r.voids /\ m.agreed = r.agreed
    <2> HIDE DEF s
    <2> QED BY <1>1, MovedType
  <1>3. wager' = [wager EXCEPT ![w] = q]
    BY DEF Settle
  <1>4. /\ q.state = s /\ q.terms = r.terms /\ q.said = r.said
        /\ q.voids = r.voids /\ q.agreed = r.agreed
        /\ q.winner = x /\ q.authority = authority
    <2> HIDE DEF m, s, x
    <2> QED BY <1>2 DEF WagerRecord
  <1>5. /\ q.authority # "none"
        /\ q.authority = "judge" => q.terms.policy = "designated"
        /\ q.authority = "mutual" =>
             IF q.state = "void_refunded" THEN q.voids = Sides
             ELSE \/ q.said[Other(q.winner)] = q.winner
                  \/ q.agreed = Other(q.winner) /\ q.said[q.winner] = q.winner
    <2> HIDE DEF q
    <2> QED BY <1>4 DEF Agreed
  <1> HIDE DEF q
  <1>6. wager'[w] = q /\ \A v \in WagerIds \ {w} : wager'[v] = wager[v]
    BY <1>3 DEF TypeOK
  <1> QED BY <1>5, <1>6 DEF ResultHasAuthority

LEMMA RecordKeepsPaid ==
  ASSUME TypeOK, NEW w \in WagerIds, NEW r \in WagerRecord,
         wager' = [wager EXCEPT ![w] = r], r.state \notin Paid
  PROVE  KeepsPaid
  BY DEF KeepsPaid, TypeOK

LEMMA MovedKeepsPaid ==
  ASSUME TypeOK, NEW w \in WagerIds, NEW r \in WagerRecord,
         NEW s \in States \ Paid,
         wager' = [wager EXCEPT ![w] = Moved(r, s)]
  PROVE  KeepsPaid
  <1>1. Moved(r, s) \in WagerRecord /\ Moved(r, s).state = s
    BY MovedType
  <1> QED BY <1>1, RecordKeepsPaid

(* A deadline leaves a paid wager alone.                                   *)
LEMMA AppliedKeepsPaid ==
  ASSUME TypeOK, NEW w \in WagerIds, NEW p \in Phases,
         wager' = [wager EXCEPT ![w] = Applied(w, p).wager]
  PROVE  KeepsPaid
  <1> DEFINE r == wager[w]
  <1>1. r \in WagerRecord
    BY DEF TypeOK
  <1>2. /\ "expired" \in States \ Paid /\ "disputed" \in States \ Paid
    BY DEF States, Paid, Terminal, Unfunded, Funded
  <1>3. \/ Applied(w, p).wager = r
        \/ Applied(w, p).wager = Moved(r, "expired")
        \/ Applied(w, p).wager = Moved(r, "disputed")
        \/ /\ Applied(w, p).wager = [r EXCEPT !.reminded = TRUE]
           /\ r.state \in {"accepted_funded", "awaiting_resolution"}
        \/ Applied(w, p).wager = [r EXCEPT !.state = "awaiting_resolution"]
    BY DEF Applied
  <1>4. CASE Applied(w, p).wager = r
    BY <1>1, <1>4 DEF KeepsPaid, TypeOK
  <1>5. CASE \/ Applied(w, p).wager = Moved(r, "expired")
             \/ Applied(w, p).wager = Moved(r, "disputed")
    BY <1>1, <1>2, <1>5, MovedKeepsPaid
  <1>6. CASE /\ Applied(w, p).wager = [r EXCEPT !.reminded = TRUE]
             /\ r.state \in {"accepted_funded", "awaiting_resolution"}
    <2>1. [r EXCEPT !.reminded = TRUE].state \notin Paid
      BY <1>1, <1>6 DEF WagerRecord, Paid
    <2> QED BY <1>6, <2>1, AppliedType, RecordKeepsPaid
  <1>7. CASE Applied(w, p).wager = [r EXCEPT !.state = "awaiting_resolution"]
    <2>1. [r EXCEPT !.state = "awaiting_resolution"].state \notin Paid
      BY <1>1 DEF WagerRecord, Paid
    <2> QED BY <1>7, <2>1, AppliedType, RecordKeepsPaid
  <1> QED BY <1>3, <1>4, <1>5, <1>6, <1>7

LEMMA MemberStepAuthority ==
  ASSUME TypeOK, ResultHasAuthority, NEW w \in WagerIds, NEW u \in Users,
         MemberStep(w, u)
  PROVE  ResultHasAuthority'
  <1> DEFINE r == wager[w]
  <1>r. r \in WagerRecord
    BY DEF TypeOK
  <1>s. {"offered", "accepted_funded", "disputed", "expired", "cancelled",
         "declined"} \subseteq States \ Paid
    BY DEF States, Paid, Terminal, Unfunded, Funded, Open
  <1>1. ASSUME NEW a \in Agreements, CreateDraft(w, u, a)
        PROVE  ResultHasAuthority'
    <2>1. Drafted(a) \in WagerRecord /\ Drafted(a).state \notin Paid
      BY DraftedType DEF Paid
    <2>2. KeepsPaid
      BY <1>1, <2>1, RecordKeepsPaid DEF CreateDraft
    <2> QED BY <2>2, KeepsAuthority
  <1>2. ASSUME NEW s \in Stakes, Preview(w, u, s) PROVE ResultHasAuthority'
    <2>1. /\ [r EXCEPT !.stake = s] \in WagerRecord
          /\ [r EXCEPT !.stake = s].state \notin Paid
      BY <1>2, <1>r DEF WagerRecord, Preview, Paid
    <2>2. KeepsPaid
      BY <1>2, <2>1, RecordKeepsPaid DEF Preview, Record
    <2> QED BY <2>2, KeepsAuthority
  <1>3. ASSUME NEW s \in {"expired", "cancelled", "declined"}, Close(w, s)
        PROVE  ResultHasAuthority'
    <2>1. KeepsPaid
      BY <1>3, <1>s, <1>r, MovedKeepsPaid DEF Close
    <2> QED BY <2>1, KeepsAuthority
  <1>4. CASE Confirm(w, u)
    <2> DEFINE m == Moved(r, "offered")
               q == [m EXCEPT !.offerLeft = OfferLifetime]
    <2>1. m \in WagerRecord /\ m.state = "offered"
      BY <1>r, <1>s, MovedType
    <2>2. q \in WagerRecord /\ q.state \notin Paid
      <3>1. OfferLifetime \in Nat
        BY WagerAssumption
      <3> HIDE DEF m
      <3> QED BY <2>1, <3>1 DEF WagerRecord, Paid
    <2>3. wager' = [wager EXCEPT ![w] = q]
      BY <1>4 DEF Confirm
    <2>4. KeepsPaid
      BY <2>2, <2>3, RecordKeepsPaid
    <2> QED BY <2>4, KeepsAuthority
  <1>5. CASE Fund(w)
    <2> DEFINE m == Moved(r, "accepted_funded")
               q == [m EXCEPT !.graceLeft = OutcomeWindow + Grace]
    <2>1. m \in WagerRecord /\ m.state = "accepted_funded"
      BY <1>r, <1>s, MovedType
    <2>2. q \in WagerRecord /\ q.state \notin Paid
      <3>1. OutcomeWindow + Grace \in Nat
        BY WagerAssumption
      <3> HIDE DEF m
      <3> QED BY <2>1, <3>1 DEF WagerRecord, Paid
    <2>3. wager' = [wager EXCEPT ![w] = q]
      BY <1>5 DEF Fund
    <2>4. KeepsPaid
      BY <2>2, <2>3, RecordKeepsPaid
    <2> QED BY <2>4, KeepsAuthority
  <1>6. ASSUME NEW q \in WagerRecord, Dispute(w, q) PROVE ResultHasAuthority'
    <2>1. KeepsPaid
      BY <1>6, <1>s, MovedKeepsPaid DEF Dispute
    <2> QED BY <2>1, KeepsAuthority
  <1>7. ASSUME NEW q \in WagerRecord, q.state \notin Paid, Record(w, q)
        PROVE  ResultHasAuthority'
    <2>1. KeepsPaid
      BY <1>7, RecordKeepsPaid DEF Record
    <2> QED BY <2>1, KeepsAuthority
  <1>8. ASSUME NEW side \in Sides, ConsentToVoid(w, u, side)
        PROVE  ResultHasAuthority'
    <2> DEFINE q == [r EXCEPT !.voids = @ \cup {side}]
    <2>1. q \in WagerRecord /\ q.state = r.state
      BY <1>r DEF WagerRecord
    <2>2. r.state \notin Paid
      BY <1>8 DEF ConsentToVoid, Acts, Funded, Paid
    <2>3. CASE q.voids = Sides
      <3> DEFINE y == [q EXCEPT !.agreed = side]
      <3>1. Settle(w, y, "void", "mutual")
        BY <1>8, <2>3 DEF ConsentToVoid
      <3>2. y \in WagerRecord /\ y.voids = Sides
        <4> HIDE DEF q
        <4> QED BY <2>1, <2>3 DEF WagerRecord
      <3> HIDE DEF y
      <3> QED BY <3>1, <3>2, SettleAuthority DEF Agreed
    <2>4. CASE q.voids # Sides
      <3>1. Record(w, q)
        BY <1>8, <2>4 DEF ConsentToVoid
      <3> HIDE DEF q
      <3> QED BY <2>1, <2>2, <3>1, <1>7
    <2> QED BY <2>3, <2>4
  <1>9. ASSUME NEW side \in Sides, Adopt(w, u, side) PROVE ResultHasAuthority'
    <2> DEFINE q == [r EXCEPT !.agreed = side]
               x == r.said[Other(side)]
    <2>1. q \in WagerRecord /\ q.said = r.said /\ q.agreed = side
      BY <1>r DEF WagerRecord
    <2>2. r.said \in [Sides -> Sides \cup {"none"}]
      BY <1>r DEF WagerRecord
    <2>3. x \in Sides
      BY <1>9, <2>2 DEF Adopt, Other, Sides
    <2>4. Settle(w, q, x, "mutual")
      BY <1>9 DEF Adopt
    <2>5. Agreed(q, x)
      <3>1. CASE x = side
        BY <2>1, <2>3, <3>1 DEF Agreed, Other, Sides
      <3>2. CASE x = Other(side)
        BY <2>1, <2>3, <3>2 DEF Agreed, Other, Sides
      <3> QED BY <2>3, <3>1, <3>2 DEF Other, Sides
    <2> HIDE DEF q, x
    <2> QED BY <2>1, <2>3, <2>4, <2>5, SettleAuthority
  <1>10. ASSUME NEW side \in Sides, NEW winner \in Sides,
                SubmitOutcome(w, u, side, winner)
         PROVE  ResultHasAuthority'
    <2> DEFINE q == [r EXCEPT !.said[side] = winner,
                              !.state = IF @ = "accepted_funded"
                                        THEN "awaiting_resolution" ELSE @]
               y == [q EXCEPT !.agreed = side]
    <2>0. r.state \in Funded
      BY <1>10 DEF SubmitOutcome, Acts
    <2>1. /\ q \in WagerRecord /\ q.state \in Funded
          /\ q.said = [r.said EXCEPT ![side] = winner]
      <3> DEFINE z == [r EXCEPT !.said[side] = winner]
                 x == IF r.state = "accepted_funded"
                      THEN "awaiting_resolution" ELSE r.state
      <3>1. /\ z \in WagerRecord /\ z.state = r.state
            /\ z.said = [r.said EXCEPT ![side] = winner]
        BY <1>r DEF WagerRecord
      <3>2. x \in States /\ x \in Funded
        BY <1>r, <2>0 DEF WagerRecord, States, Funded
      <3>3. q = [z EXCEPT !.state = x]
        BY <1>r DEF WagerRecord
      <3> HIDE DEF z, x, q
      <3>4. /\ [z EXCEPT !.state = x] \in WagerRecord
            /\ [z EXCEPT !.state = x].state = x
            /\ [z EXCEPT !.state = x].said = z.said
        BY <3>1, <3>2 DEF WagerRecord, States
      <3> QED BY <3>1, <3>2, <3>3, <3>4
    <2>2. y \in WagerRecord /\ y.said = q.said
      <3> HIDE DEF q
      <3> QED BY <2>1 DEF WagerRecord
    <2>3. \/ q.said[Other(side)] = winner /\ Settle(w, y, winner, "mutual")
          \/ Dispute(w, q)
          \/ Record(w, q)
      BY <1>10 DEF SubmitOutcome
    <2>4. r.said \in [Sides -> Sides \cup {"none"}]
      BY <1>r DEF WagerRecord
    <2>5. q.said[Other(side)] = winner => Agreed(y, winner)
      <3> HIDE DEF q, y
      <3>1. q.said[side] = winner
        BY <2>1, <2>4
      <3>2. Other(winner) \in {side, Other(side)} /\ winner # "void"
        BY DEF Other, Sides
      <3> QED BY <2>2, <3>1, <3>2 DEF Agreed
    <2>6. q.state \notin Paid
      BY <2>1 DEF Funded, Paid
    <2> HIDE DEF q, y
    <2> QED BY <2>1, <2>2, <2>3, <2>5, <2>6, <1>6, <1>7, SettleAuthority
  <1>11. ASSUME NEW result \in Sides \cup {"void"}, Judge(w, u, result)
         PROVE  ResultHasAuthority'
    <2>1. \/ /\ Settle(w, r, result, "judge")
             /\ r.terms.policy = "designated"
          \/ Settle(w, r, result, "owner")
      BY <1>11 DEF Judge, JudgeMay
    <2> QED BY <1>r, <2>1, SettleAuthority
  <1>12. ASSUME NEW p \in Phases, ForceDeadline(w, u, p)
         PROVE  ResultHasAuthority'
    <2>1. CASE wager' = [wager EXCEPT ![w] = Applied(w, p).wager]
      BY <2>1, AppliedKeepsPaid, KeepsAuthority
    <2>2. CASE wager' = wager
      BY <2>2 DEF ResultHasAuthority
    <2> QED BY <1>12, <2>1, <2>2 DEF ForceDeadline
  <1>13. CASE CleanUp(w, u)
    <2> DEFINE q == [r EXCEPT !.cleaned = TRUE]
    <2>1. /\ q.state = r.state /\ q.terms = r.terms
          /\ q.authority = r.authority /\ q.winner = r.winner
          /\ q.voids = r.voids /\ q.said = r.said /\ q.agreed = r.agreed
      BY <1>r DEF WagerRecord
    <2>2. wager' = [wager EXCEPT ![w] = q]
      BY <1>13 DEF CleanUp, Record
    <2> HIDE DEF q
    <2>3. wager'[w] = q /\ \A v \in WagerIds \ {w} : wager'[v] = wager[v]
      BY <2>2 DEF TypeOK
    <2>4. KeepsPaid
      BY <2>1, <2>3 DEF KeepsPaid
    <2> QED BY <2>4, KeepsAuthority
  <1>14. CASE \/ ExpireOnTouch(w, u) \/ Discard(w, u) \/ Decline(w, u)
              \/ Withdraw(w, u)
    BY <1>14, <1>3 DEF ExpireOnTouch, Discard, Decline, Withdraw
  <1>15. CASE Accept(w, u) \/ RaiseDispute(w, u)
    BY <1>15, <1>r, <1>5, <1>6 DEF Accept, RaiseDispute
  <1> QED
    BY <1>1, <1>2, <1>4, <1>8, <1>9, <1>10, <1>11, <1>12, <1>13, <1>14, <1>15
    DEF MemberStep

LEMMA StepAuthority ==
  ASSUME TypeOK, ResultHasAuthority, [Next]_vars
  PROVE  ResultHasAuthority'
  <1>1. ASSUME NEW w \in WagerIds, NEW u \in Users, MemberStep(w, u)
        PROVE  ResultHasAuthority'
    BY <1>1, MemberStepAuthority
  <1>2. ASSUME NEW w \in WagerIds, Reveal(w) PROVE ResultHasAuthority'
    <2>1. wager[w] \in WagerRecord
      BY DEF TypeOK
    <2>2. /\ [wager[w] EXCEPT !.revealed = TRUE] \in WagerRecord
          /\ [wager[w] EXCEPT !.revealed = TRUE].state = wager[w].state
      BY <2>1 DEF WagerRecord
    <2>3. wager[w].state \notin Paid
      BY <1>2 DEF Reveal, Paid
    <2>4. KeepsPaid
      BY <1>2, <2>2, <2>3, RecordKeepsPaid DEF Reveal, Record
    <2> QED BY <2>4, KeepsAuthority
  <1>3. ASSUME NEW k \in Workers, FireDeadline(k) PROVE ResultHasAuthority'
    <2>1. claim[k].wager \in WagerIds /\ claim[k].phase \in Phases
      BY <1>3, ClaimType DEF FireDeadline, Holds
    <2> QED BY <1>3, <2>1, AppliedKeepsPaid, KeepsAuthority DEF FireDeadline
  <1>4. CASE wager' = wager
    BY <1>4 DEF ResultHasAuthority
  <1>5. CASE Tick
    <2>1. ASSUME NEW v \in WagerIds
          PROVE  /\ wager'[v].state = wager[v].state
                 /\ wager'[v].terms = wager[v].terms
                 /\ wager'[v].authority = wager[v].authority
                 /\ wager'[v].winner = wager[v].winner
                 /\ wager'[v].voids = wager[v].voids
                 /\ wager'[v].said = wager[v].said
                 /\ wager'[v].agreed = wager[v].agreed
      <3>1. wager[v] \in WagerRecord
        BY DEF TypeOK
      <3>2. wager'[v] = [wager[v] EXCEPT !.draftLeft = Earlier(@),
                           !.offerLeft = Earlier(@), !.graceLeft = Earlier(@)]
        BY <1>5 DEF Tick
      <3> QED BY <3>1, <3>2 DEF WagerRecord
    <2>2. KeepsPaid
      BY <2>1 DEF KeepsPaid
    <2> QED BY <2>2, KeepsAuthority
  <1> QED
    BY <1>1, <1>2, <1>3, <1>4, <1>5
    DEF Next, SchedulerStep, Claim, Sweep, HandlerThrows, ReleaseClaim, Crash,
        vars

(* Nobody loses a stake without a decision they are bound by, whatever the *)
(* order of outcomes, disputes, consents, adoptions and judgements and     *)
(* whatever the scheduler does.                                            *)
THEOREM ResultsAreAuthorised == Spec => []ResultHasAuthority
  <1>1. Init => TypeOK /\ ClaimsMatch /\ ResultHasAuthority
    <2>1. Init => ResultHasAuthority
      <3>1. AbsentWager.state = "absent"
        <4>1. Drafted(CHOOSE a \in Agreements : TRUE) \in WagerRecord
          BY WagerAssumption, DraftedType
        <4> QED BY <4>1 DEF AbsentWager, WagerRecord
      <3> QED BY <3>1 DEF Init, ResultHasAuthority, Paid
    <2> QED BY <2>1, InitType
  <1>2. TypeOK /\ ClaimsMatch /\ ResultHasAuthority /\ [Next]_vars
          => TypeOK' /\ ClaimsMatch' /\ ResultHasAuthority'
    BY StepType, StepClaims, StepAuthority
  <1> QED BY <1>1, <1>2, PTL DEF Spec

-----------------------------------------------------------------------------
(* No wager is left without its deadline job *)

Live(j) ==
  \/ j.state \in {"pending", "claimed"}
  \/ j.state = "dead" /\ j.attempts = MaxAttempts

Covered(r, jobs) ==
  r.state \in DOMAIN DeadlineOf => Live(jobs[DeadlineOf[r.state]])

LEMMA StrandedDef == NeverStranded <=> \A w \in WagerIds : Covered(wager[w], job[w])
  BY DEF NeverStranded, Covered, Live

LEMMA Deadlines ==
  /\ DOMAIN DeadlineOf =
       {"draft", "offered", "accepted_funded", "awaiting_resolution"}
  /\ DeadlineOf["draft"] = "draft_expiry"
  /\ DeadlineOf["offered"] = "offer_expiry"
  /\ DeadlineOf["accepted_funded"] = "grace"
  /\ DeadlineOf["awaiting_resolution"] = "grace"
  BY DEF DeadlineOf

LEMMA CancelledOther ==
  ASSUME NEW jobs \in [Phases -> JobRecord], NEW ps, NEW p \in Phases, p \notin ps
  PROVE  Cancelled(jobs, ps)[p] = jobs[p]
  BY DEF Cancelled

LEMMA OneCovered ==
  ASSUME TypeOK, NeverStranded, NEW w \in WagerIds, NEW r, NEW jobs,
         wager' = [wager EXCEPT ![w] = r], job' = [job EXCEPT ![w] = jobs],
         Covered(r, jobs)
  PROVE  NeverStranded'
  <1>1. \A v \in WagerIds : Covered(wager'[v], job'[v])
    <2> SUFFICES ASSUME NEW v \in WagerIds PROVE Covered(wager'[v], job'[v])
      OBVIOUS
    <2>1. CASE v = w
      <3>1. wager'[v] = r /\ job'[v] = jobs
        BY <2>1 DEF TypeOK
      <3> QED BY <3>1
    <2>2. CASE v # w
      <3>1. wager'[v] = wager[v] /\ job'[v] = job[v]
        BY <2>2 DEF TypeOK
      <3> QED BY <3>1, StrandedDef
    <2> QED BY <2>1, <2>2
  <1> QED BY <1>1 DEF NeverStranded, Covered, Live

LEMMA OneMovedOut ==
  ASSUME TypeOK, NeverStranded, NEW w \in WagerIds, NEW r, NEW jobs,
         wager' = [wager EXCEPT ![w] = r], job' = [job EXCEPT ![w] = jobs],
         r.state \in Terminal \cup {"disputed"}
  PROVE  NeverStranded'
  <1>1. r.state \notin DOMAIN DeadlineOf
    BY Deadlines DEF Terminal, Paid, Unfunded
  <1> QED BY <1>1, OneCovered DEF Covered

(* Applying phase p, its own job ended or not.                             *)
LEMMA AppliedCovered ==
  ASSUME TypeOK, NeverStranded, NEW w \in WagerIds, NEW p \in Phases
  PROVE  /\ Covered(Applied(w, p).wager, Applied(w, p).jobs)
         /\ Covered(Applied(w, p).wager,
                    [Applied(w, p).jobs EXCEPT ![p] = Ended])
         /\ p = "reminder" =>
              Covered(Applied(w, p).wager,
                      Cancelled(Applied(w, p).jobs, {"reminder"}))
  <1> DEFINE r == wager[w]
             a == Applied(w, p)
  <1>1. r \in WagerRecord /\ job[w] \in [Phases -> JobRecord]
    BY DEF TypeOK
  <1>2. Covered(r, job[w])
    BY StrandedDef
  <1>3. a.jobs \in [Phases -> JobRecord]
    BY AppliedType
  <1>4. /\ Moved(r, "expired").state = "expired"
        /\ Moved(r, "disputed").state = "disputed"
    BY <1>1, MovedType DEF States, Terminal, Unfunded, Funded
  <1>5. \/ a.wager.state \notin DOMAIN DeadlineOf
        \/ /\ a.wager.state \in DOMAIN DeadlineOf
           /\ DeadlineOf[a.wager.state] # p
           /\ a.jobs[DeadlineOf[a.wager.state]] = job[w][DeadlineOf[a.wager.state]]
           /\ Live(job[w][DeadlineOf[a.wager.state]])
    <2>1. CASE p = "draft_expiry" /\ r.state = "draft"
      BY <1>4, <2>1, Deadlines DEF Applied
    <2>2. CASE p = "offer_expiry" /\ r.state = "offered"
      BY <1>4, <2>2, Deadlines DEF Applied
    <2>3. CASE p = "reminder" /\ r.state \in {"accepted_funded", "awaiting_resolution"}
      <3>1. a.wager = [r EXCEPT !.reminded = TRUE] /\ a.jobs = job[w]
        BY <2>3 DEF Applied
      <3>2. a.wager.state = r.state
        BY <1>1, <3>1 DEF WagerRecord
      <3> HIDE DEF a
      <3> QED BY <1>2, <2>3, <3>1, <3>2, Deadlines DEF Covered
    <2>4. CASE p = "outcome_due" /\ r.state = "accepted_funded"
      <3>1. /\ a.wager = [r EXCEPT !.state = "awaiting_resolution"]
            /\ a.jobs = Cancelled(job[w], {"reminder"})
        BY <2>4 DEF Applied
      <3>2. a.wager.state = "awaiting_resolution"
        BY <1>1, <3>1 DEF WagerRecord
      <3>3. a.jobs["grace"] = job[w]["grace"]
        BY <1>1, <3>1, CancelledOther DEF Phases
      <3> HIDE DEF a
      <3> QED BY <1>2, <2>4, <3>2, <3>3, Deadlines DEF Covered
    <2>5. CASE p = "grace" /\ r.state \in {"accepted_funded", "awaiting_resolution"}
      BY <1>4, <2>5, Deadlines DEF Applied
    <2>6. CASE a.wager = r /\ a.jobs = job[w]
      <3>1. CASE r.state \in DOMAIN DeadlineOf /\ DeadlineOf[r.state] # p
        BY <1>2, <2>6, <3>1 DEF Covered
      <3>2. CASE r.state \in DOMAIN DeadlineOf /\ DeadlineOf[r.state] = p
        BY <3>2, <2>1, <2>2, <2>5, Deadlines
      <3>3. CASE r.state \notin DOMAIN DeadlineOf
        BY <2>6, <3>3
      <3> QED BY <3>1, <3>2, <3>3
    <2> QED BY <2>1, <2>2, <2>3, <2>4, <2>5, <2>6 DEF Applied
  <1>6. \A s \in DOMAIN DeadlineOf : DeadlineOf[s] \in Phases \ {"reminder"}
    BY Deadlines DEF Phases
  <1> HIDE DEF a, r
  <1>7. Covered(a.wager, a.jobs)
    BY <1>5 DEF Covered
  <1>8. Covered(a.wager, [a.jobs EXCEPT ![p] = Ended])
    BY <1>3, <1>5, <1>6 DEF Covered
  <1>9. Covered(a.wager, Cancelled(a.jobs, {"reminder"}))
    BY <1>3, <1>5, <1>6, CancelledOther DEF Covered
  <1> QED BY <1>7, <1>8, <1>9 DEF a

LEMMA MemberStepCovered ==
  ASSUME TypeOK, NeverStranded, NEW w \in WagerIds, NEW u \in Users,
         MemberStep(w, u)
  PROVE  NeverStranded'
  <1> DEFINE r == wager[w]
  <1>t. /\ r \in WagerRecord /\ job[w] \in [Phases -> JobRecord]
        /\ job \in [WagerIds -> [Phases -> JobRecord]]
    BY DEF TypeOK
  <1>c. Covered(r, job[w])
    BY StrandedDef
  <1>l. \A n : Live(Scheduled(n))
    BY DEF Live, Scheduled, AbsentJob
  <1>p. {"draft_expiry", "offer_expiry", "grace"} \subseteq Phases
    BY DEF Phases
  <1>1. ASSUME NEW a \in Agreements, CreateDraft(w, u, a) PROVE NeverStranded'
    <2> DEFINE jobs == [job[w] EXCEPT !["draft_expiry"] = Scheduled(DraftLifetime)]
    <2>1. /\ wager' = [wager EXCEPT ![w] = Drafted(a)]
          /\ job' = [job EXCEPT ![w] = jobs]
      BY <1>1 DEF CreateDraft
    <2>2. Covered(Drafted(a), jobs)
      BY <1>t, <1>l, <1>p, DraftedType, Deadlines DEF Covered
    <2> HIDE DEF jobs
    <2> QED BY <2>1, <2>2, OneCovered
  <1>2. ASSUME NEW q \in WagerRecord, Record(w, q),
               \/ q.state = r.state
               \/ q.state = "awaiting_resolution" /\ r.state = "accepted_funded"
        PROVE  NeverStranded'
    <2>1. job' = [job EXCEPT ![w] = job[w]] /\ wager' = [wager EXCEPT ![w] = q]
      BY <1>2, <1>t DEF Record
    <2>2. Covered(q, job[w])
      BY <1>2, <1>c, Deadlines DEF Covered
    <2> QED BY <2>1, <2>2, OneCovered
  <1>3. ASSUME NEW s \in Terminal, Close(w, s) PROVE NeverStranded'
    <2>1. Moved(r, s).state = s
      BY <1>t, MovedType DEF States
    <2> QED BY <1>3, <2>1, OneMovedOut DEF Close
  <1>4. ASSUME NEW q \in WagerRecord, Dispute(w, q) PROVE NeverStranded'
    <2>1. Moved(q, "disputed").state = "disputed"
      BY MovedType DEF States, Funded
    <2> QED BY <1>4, <2>1, OneMovedOut DEF Dispute
  <1>5. ASSUME NEW q \in WagerRecord, NEW x, NEW y, Settle(w, q, x, y)
        PROVE  NeverStranded'
    <2> DEFINE s == IF x = "void" THEN "void_refunded" ELSE "resolved"
               m == Moved(q, s)
               z == [m EXCEPT !.winner = IF x = "void" THEN "none" ELSE x,
                              !.authority = y]
    <2>1. s \in Paid /\ s \in States
      BY DEF States, Terminal, Paid
    <2>2. m \in WagerRecord /\ m.state = s
      <3> HIDE DEF s
      <3> QED BY <2>1, MovedType
    <2>3. z.state = s
      <3> HIDE DEF m, s
      <3> QED BY <2>2 DEF WagerRecord
    <2>4. wager' = [wager EXCEPT ![w] = z]
      BY <1>5 DEF Settle
    <2>5. \E jobs : job' = [job EXCEPT ![w] = jobs]
      BY <1>5 DEF Settle
    <2> HIDE DEF z, s
    <2> QED BY <2>1, <2>3, <2>4, <2>5, OneMovedOut DEF Terminal
  <1>6. CASE Confirm(w, u)
    <2> DEFINE m == Moved(r, "offered")
               q == [m EXCEPT !.offerLeft = OfferLifetime]
               jobs == [Cancelled(job[w], {"draft_expiry"}) EXCEPT
                          !["offer_expiry"] = Scheduled(OfferLifetime)]
    <2>1. m \in WagerRecord /\ m.state = "offered"
      BY <1>t, MovedType DEF States, Open
    <2>2. q.state = "offered"
      <3> HIDE DEF m
      <3> QED BY <2>1 DEF WagerRecord
    <2>3. Cancelled(job[w], {"draft_expiry"}) \in [Phases -> JobRecord]
      BY <1>t, CancelledType
    <2>4. Live(jobs["offer_expiry"])
      BY <2>3, <1>l, <1>p
    <2>5. wager' = [wager EXCEPT ![w] = q] /\ job' = [job EXCEPT ![w] = jobs]
      BY <1>6 DEF Confirm
    <2> HIDE DEF q, jobs
    <2>6. Covered(q, jobs)
      BY <2>2, <2>4, Deadlines DEF Covered
    <2> QED BY <2>5, <2>6, OneCovered
  <1>7. CASE Fund(w)
    <2> DEFINE m == Moved(r, "accepted_funded")
               q == [m EXCEPT !.graceLeft = OutcomeWindow + Grace]
               jobs == [Cancelled(job[w], {"offer_expiry"}) EXCEPT
                          !["reminder"]    = Scheduled(OutcomeWindow \div 2),
                          !["outcome_due"] = Scheduled(OutcomeWindow),
                          !["grace"]       = Scheduled(OutcomeWindow + Grace)]
    <2>1. m \in WagerRecord /\ m.state = "accepted_funded"
      BY <1>t, MovedType DEF States, Funded
    <2>2. q.state = "accepted_funded"
      <3> HIDE DEF m
      <3> QED BY <2>1 DEF WagerRecord
    <2>3. Cancelled(job[w], {"offer_expiry"}) \in [Phases -> JobRecord]
      BY <1>t, CancelledType
    <2>4. Live(jobs["grace"])
      BY <2>3, <1>l, <1>p
    <2>5. wager' = [wager EXCEPT ![w] = q] /\ job' = [job EXCEPT ![w] = jobs]
      BY <1>7 DEF Fund
    <2> HIDE DEF q, jobs
    <2>6. Covered(q, jobs)
      BY <2>2, <2>4, Deadlines DEF Covered
    <2> QED BY <2>5, <2>6, OneCovered
  <1>8. ASSUME NEW s \in Stakes, Preview(w, u, s) PROVE NeverStranded'
    <2>1. [r EXCEPT !.stake = s] \in WagerRecord /\ [r EXCEPT !.stake = s].state = r.state
      BY <1>t DEF WagerRecord
    <2> QED BY <1>8, <1>2, <2>1 DEF Preview
  <1>9. CASE CleanUp(w, u)
    <2>1. /\ [r EXCEPT !.cleaned = TRUE] \in WagerRecord
          /\ [r EXCEPT !.cleaned = TRUE].state = r.state
      BY <1>t DEF WagerRecord
    <2> QED BY <1>9, <1>2, <2>1 DEF CleanUp
  <1>10. ASSUME NEW side \in Sides, ConsentToVoid(w, u, side) PROVE NeverStranded'
    <2> DEFINE q == [r EXCEPT !.voids = @ \cup {side}]
               y == [q EXCEPT !.agreed = side]
    <2>1. q \in WagerRecord /\ q.state = r.state
      BY <1>t DEF WagerRecord
    <2>2. y \in WagerRecord
      <3> HIDE DEF q
      <3> QED BY <2>1 DEF WagerRecord
    <2>3. Settle(w, y, "void", "mutual") \/ Record(w, q)
      BY <1>10 DEF ConsentToVoid
    <2> HIDE DEF q, y
    <2> QED BY <1>2, <1>5, <2>1, <2>2, <2>3
  <1>11. ASSUME NEW side \in Sides, Adopt(w, u, side) PROVE NeverStranded'
    <2>1. [r EXCEPT !.agreed = side] \in WagerRecord
      BY <1>t DEF WagerRecord
    <2> QED BY <1>5, <1>11, <2>1 DEF Adopt
  <1>12. ASSUME NEW side \in Sides, NEW winner \in Sides,
                SubmitOutcome(w, u, side, winner)
         PROVE  NeverStranded'
    <2> DEFINE q == [r EXCEPT !.said[side] = winner,
                              !.state = IF @ = "accepted_funded"
                                        THEN "awaiting_resolution" ELSE @]
               y == [q EXCEPT !.agreed = side]
    <2>1. /\ q \in WagerRecord
          /\ \/ q.state = r.state
             \/ q.state = "awaiting_resolution" /\ r.state = "accepted_funded"
      <3> DEFINE z == [r EXCEPT !.said[side] = winner]
                 x == IF r.state = "accepted_funded"
                      THEN "awaiting_resolution" ELSE r.state
      <3>1. z \in WagerRecord /\ z.state = r.state
        BY <1>t DEF WagerRecord
      <3>2. /\ x \in States
            /\ \/ x = r.state
               \/ x = "awaiting_resolution" /\ r.state = "accepted_funded"
        BY <1>t DEF WagerRecord, States, Funded
      <3>3. q = [z EXCEPT !.state = x]
        BY <1>t DEF WagerRecord
      <3> HIDE DEF z, x, q
      <3>4. [z EXCEPT !.state = x] \in WagerRecord /\ [z EXCEPT !.state = x].state = x
        BY <3>1, <3>2 DEF WagerRecord, States
      <3> QED BY <3>2, <3>3, <3>4
    <2>2. y \in WagerRecord
      <3> HIDE DEF q
      <3> QED BY <2>1 DEF WagerRecord
    <2>3. Settle(w, y, winner, "mutual") \/ Dispute(w, q) \/ Record(w, q)
      BY <1>12 DEF SubmitOutcome
    <2> HIDE DEF q, y
    <2> QED BY <1>2, <1>4, <1>5, <2>1, <2>2, <2>3
  <1>13. ASSUME NEW result \in Sides \cup {"void"}, Judge(w, u, result)
         PROVE  NeverStranded'
    BY <1>t, <1>5, <1>13 DEF Judge
  <1>14. ASSUME NEW p \in Phases, ForceDeadline(w, u, p) PROVE NeverStranded'
    <2>1. CASE /\ wager' = [wager EXCEPT ![w] = Applied(w, p).wager]
               /\ job' = [job EXCEPT ![w] = Applied(w, p).jobs]
      BY <2>1, AppliedCovered, OneCovered
    <2>2. CASE /\ p = "reminder"
               /\ wager' = [wager EXCEPT ![w] = Applied(w, p).wager]
               /\ job' = [job EXCEPT ![w] =
                            Cancelled(Applied(w, p).jobs, {"reminder"})]
      BY <2>2, AppliedCovered, OneCovered
    <2>3. CASE /\ wager' = wager
               /\ job' = [job EXCEPT ![w] = Cancelled(@, {"reminder"})]
      <3> DEFINE jobs == Cancelled(job[w], {"reminder"})
      <3>1. Covered(r, jobs)
        <4>1. \A s \in DOMAIN DeadlineOf : DeadlineOf[s] \in Phases \ {"reminder"}
          BY Deadlines DEF Phases
        <4> QED BY <1>t, <1>c, <4>1, CancelledOther DEF Covered
      <3>2. wager' = [wager EXCEPT ![w] = r] /\ job' = [job EXCEPT ![w] = jobs]
        BY <2>3 DEF TypeOK
      <3> QED BY <3>1, <3>2, OneCovered
    <2> QED BY <1>14, <2>1, <2>2, <2>3 DEF ForceDeadline
  <1>15. "expired" \in Terminal /\ "cancelled" \in Terminal /\ "declined" \in Terminal
    BY DEF Terminal, Unfunded
  <1>16. CASE \/ ExpireOnTouch(w, u) \/ Discard(w, u) \/ Decline(w, u)
              \/ Withdraw(w, u)
    BY <1>3, <1>15, <1>16 DEF ExpireOnTouch, Discard, Decline, Withdraw
  <1>17. CASE Accept(w, u) \/ RaiseDispute(w, u)
    BY <1>t, <1>4, <1>7, <1>17 DEF Accept, RaiseDispute
  <1> QED
    BY <1>1, <1>6, <1>8, <1>9, <1>10, <1>11, <1>12, <1>13, <1>14, <1>16, <1>17
    DEF MemberStep

LEMMA JobsStayLive ==
  ASSUME NeverStranded,
         \A v \in WagerIds : wager'[v].state = wager[v].state,
         \A v \in WagerIds, q \in Phases : Live(job[v][q]) => Live(job'[v][q])
  PROVE  NeverStranded'
  <1>1. \A s \in DOMAIN DeadlineOf : DeadlineOf[s] \in Phases
    BY Deadlines DEF Phases
  <1> QED BY <1>1 DEF NeverStranded, Live

LEMMA SweptLive ==
  ASSUME NEW j \in JobRecord, Live(j)
  PROVE  Live(Swept(j))
  <1>1. MaxAttempts \in Nat /\ j.attempts \in 0..MaxAttempts
    BY WagerAssumption DEF JobRecord
  <1>2. CASE Exhausted(j)
    <2>1. j.attempts = MaxAttempts
      BY <1>1, <1>2 DEF Exhausted
    <2> QED BY <1>2, <2>1, DeadType DEF Swept, Live
  <1>3. CASE ~Exhausted(j)
    BY <1>3 DEF Swept
  <1> QED BY <1>2, <1>3

LEMMA StepCovered ==
  ASSUME TypeOK, ClaimsMatch, NeverStranded, [Next]_vars
  PROVE  NeverStranded'
  <1>t. job \in [WagerIds -> [Phases -> JobRecord]]
    BY DEF TypeOK
  <1>1. ASSUME NEW w \in WagerIds, NEW u \in Users, MemberStep(w, u)
        PROVE  NeverStranded'
    BY <1>1, MemberStepCovered
  <1>2. ASSUME NEW w \in WagerIds, Reveal(w) PROVE NeverStranded'
    <2>1. wager[w] \in WagerRecord
      BY DEF TypeOK
    <2>2. \A v \in WagerIds : wager'[v].state = wager[v].state
      BY <1>2, <2>1 DEF Reveal, Record, TypeOK, WagerRecord
    <2> QED BY <1>2, <2>2, JobsStayLive DEF Reveal, Record
  <1>3. ASSUME NEW k \in Workers, Claim(k) PROVE NeverStranded'
    <2>1. PICK w \in WagerIds, p \in Phases :
            job' = [v \in WagerIds |-> [q \in Phases |->
                     IF v = w /\ q = p
                     THEN [job[w][p] EXCEPT !.state = "claimed",
                             !.attempts = @ + 1, !.holder = k,
                             !.lease = JobLease]
                     ELSE Swept(job[v][q])]]
      BY <1>3 DEF Claim
    <2>2. job[w][p] \in JobRecord
      BY <1>t
    <2>3. job'[w][p].state = "claimed"
      BY <2>1, <2>2 DEF JobRecord
    <2>4. \A v \in WagerIds, q \in Phases : Live(job[v][q]) => Live(job'[v][q])
      BY <2>1, <2>3, <1>t, SweptLive DEF Live
    <2> QED BY <1>3, <2>4, JobsStayLive DEF Claim
  <1>4. ASSUME NEW k \in Workers, Sweep(k) PROVE NeverStranded'
    <2>1. \A v \in WagerIds, q \in Phases : Live(job[v][q]) => Live(job'[v][q])
      BY <1>4, <1>t, SweptLive DEF Sweep
    <2> QED BY <1>4, <2>1, JobsStayLive DEF Sweep
  <1>5. ASSUME NEW k \in Workers, FireDeadline(k) PROVE NeverStranded'
    <2> DEFINE w == claim[k].wager
               p == claim[k].phase
    <2>1. w \in WagerIds /\ p \in Phases
      BY <1>5, ClaimType DEF FireDeadline, Holds
    <2>2. /\ wager' = [wager EXCEPT ![w] = Applied(w, p).wager]
          /\ job' = [job EXCEPT ![w] = [Applied(w, p).jobs EXCEPT ![p] = Ended]]
      BY <1>5 DEF FireDeadline
    <2> HIDE DEF w, p
    <2> QED BY <2>1, <2>2, AppliedCovered, OneCovered
  <1>6. ASSUME NEW k \in Workers, HandlerThrows(k) \/ ReleaseClaim(k)
        PROVE  NeverStranded'
    <2> DEFINE w == claim[k].wager
               p == claim[k].phase
    <2>1. /\ w \in WagerIds /\ p \in Phases
          /\ claim[k].attempts \in 1..MaxAttempts
      BY <1>6, ClaimType DEF HandlerThrows, ReleaseClaim
    <2>2. job[w][p] \in JobRecord
      BY <2>1, <1>t
    <2>3. \/ job' = job
          \/ \E j : job' = [job EXCEPT ![w][p] = j] /\ Live(j)
      <3>1. CASE ~Holds(k)
        BY <1>6, <3>1 DEF HandlerThrows, ReleaseClaim
      <3>2. CASE Holds(k) /\ HandlerThrows(k)
        <4>1. job' = [job EXCEPT ![w][p] =
                        IF CanRetry(claim[k].attempts)
                        THEN Retried(job[w][p]) ELSE Dead(job[w][p])]
          BY <3>2 DEF HandlerThrows
        <4>2. CASE CanRetry(claim[k].attempts)
          <5>1. Live(Retried(job[w][p]))
            BY <2>2 DEF Live, Retried, JobRecord
          <5> QED BY <4>1, <4>2, <5>1
        <4>3. CASE ~CanRetry(claim[k].attempts)
          <5>1. job[w][p].attempts = claim[k].attempts
            BY <3>2 DEF ClaimsMatch
          <5>2. claim[k].attempts = MaxAttempts
            BY <2>1, <4>3, WagerAssumption DEF CanRetry
          <5>3. Live(Dead(job[w][p]))
            BY <2>2, <5>1, <5>2, DeadType DEF Live
          <5> QED BY <4>1, <4>3, <5>3
        <4> QED BY <4>2, <4>3
      <3>3. CASE Holds(k) /\ ReleaseClaim(k)
        <4>1. job' = [job EXCEPT ![w][p] = Uncounted(job[w][p])]
          BY <3>3 DEF ReleaseClaim
        <4>2. Live(Uncounted(job[w][p]))
          BY <2>2 DEF Live, Uncounted, JobRecord
        <4> QED BY <4>1, <4>2
      <3> QED BY <1>6, <3>1, <3>2, <3>3
    <2>4. \A v \in WagerIds, q \in Phases : Live(job[v][q]) => Live(job'[v][q])
      <3> HIDE DEF w, p
      <3> QED BY <2>1, <2>3, <1>t
    <2> QED BY <1>6, <2>4, JobsStayLive DEF HandlerThrows, ReleaseClaim
  <1>7. CASE Tick
    <2>1. ASSUME NEW v \in WagerIds PROVE wager'[v].state = wager[v].state
      <3>1. wager[v] \in WagerRecord
        BY DEF TypeOK
      <3>2. wager'[v] = [wager[v] EXCEPT !.draftLeft = Earlier(@),
                           !.offerLeft = Earlier(@), !.graceLeft = Earlier(@)]
        BY <1>7 DEF Tick
      <3> QED BY <3>1, <3>2 DEF WagerRecord
    <2>2. ASSUME NEW v \in WagerIds, NEW q \in Phases, Live(job[v][q])
          PROVE  Live(job'[v][q])
      <3>1. job[v][q] \in JobRecord
        BY <1>t
      <3>2. job'[v][q] = [job[v][q] EXCEPT !.wait = Earlier(@),
                                           !.lease = Earlier(@)]
        BY <1>7 DEF Tick
      <3>3. /\ job'[v][q].state = job[v][q].state
            /\ job'[v][q].attempts = job[v][q].attempts
        BY <3>1, <3>2 DEF JobRecord
      <3> QED BY <2>2, <3>3 DEF Live
    <2> QED BY <2>1, <2>2, JobsStayLive
  <1>8. CASE wager' = wager /\ job' = job
    BY <1>8, JobsStayLive
  <1> QED
    BY <1>1, <1>2, <1>3, <1>4, <1>5, <1>6, <1>7, <1>8
    DEF Next, SchedulerStep, Crash, vars

(* A waiting wager always has the job that ends the wait pending or        *)
(* claimed, or that job used up all its attempts.                          *)
THEOREM NoWagerIsStranded == Spec => []NeverStranded
  <1>1. Init => TypeOK /\ ClaimsMatch /\ NeverStranded
    <2>1. Init => NeverStranded
      <3>1. AbsentWager.state = "absent"
        <4>1. Drafted(CHOOSE a \in Agreements : TRUE) \in WagerRecord
          BY WagerAssumption, DraftedType
        <4> QED BY <4>1 DEF AbsentWager, WagerRecord
      <3> QED BY <3>1, Deadlines DEF Init, NeverStranded
    <2> QED BY <2>1, InitType
  <1>2. TypeOK /\ ClaimsMatch /\ NeverStranded /\ [Next]_vars
          => TypeOK' /\ ClaimsMatch' /\ NeverStranded'
    BY StepType, StepClaims, StepCovered
  <1> QED BY <1>1, <1>2, PTL DEF Spec

-----------------------------------------------------------------------------
(* A wager is a pot of two equal stakes *)

(* Only a drafted stake is ever offered.                                   *)
Staked(r) == r.state = "offered" => r.stake \in Stakes

OffersStaked == \A w \in WagerIds : Staked(wager[w])

PotRows == [w \in WagerIds |-> PotOf(wager[w])]

(* What a pot holds. *)
InPot(p) == IF p.state = "held" THEN 2 * p.stake ELSE 0

(* The ESCROW account follows the one pot that a step touches. *)
EscrowStep ==
  \/ UNCHANGED <<escrow, PotRows>>
  \/ \E w \in WagerIds :
       /\ PotRows' = [PotRows EXCEPT ![w] = PotOf(wager'[w])]
       /\ escrow' = escrow - InPot(PotOf(wager[w])) + InPot(PotOf(wager'[w]))

PotStep == [Pot!Next]_(Pot!vars) /\ OffersStaked' /\ EscrowStep

LEMMA PotsMap ==
  ASSUME TypeOK, NEW w \in WagerIds, NEW q, wager' = [wager EXCEPT ![w] = q]
  PROVE  [v \in WagerIds |-> PotOf(wager[v])]'
           = [[v \in WagerIds |-> PotOf(wager[v])] EXCEPT ![w] = PotOf(q)]
  BY DEF TypeOK

LEMMA StakedStep ==
  ASSUME TypeOK, OffersStaked, NEW w \in WagerIds, NEW q,
         wager' = [wager EXCEPT ![w] = q], Staked(q)
  PROVE  OffersStaked'
  BY DEF TypeOK, OffersStaked, Staked

(* A step that moves no Fate leaves every pot as it is.                    *)
LEMMA QuietStep ==
  ASSUME TypeOK, OffersStaked, NEW w \in WagerIds, NEW q,
         wager' = [wager EXCEPT ![w] = q],
         PotOf(q) = PotOf(wager[w]), Staked(q),
         UNCHANGED <<opened, balance, escrow>>
  PROVE  PotStep
  <1>1. [v \in WagerIds |-> PotOf(wager[v])]' = [v \in WagerIds |-> PotOf(wager[v])]
    BY PotsMap
  <1>2. OffersStaked'
    BY StakedStep
  <1> QED BY <1>1, <1>2 DEF PotStep, Pot!vars, EscrowStep, PotRows

LEMMA FundIsCollect ==
  ASSUME TypeOK, OffersStaked, NEW w \in WagerIds,
         wager[w].state = "offered",
         Affordable(wager[w].terms, wager[w].stake), Fund(w)
  PROVE  PotStep
  <1> DEFINE r == wager[w]
             a == r.terms
             m == Moved(r, "accepted_funded")
             q == [m EXCEPT !.graceLeft = OutcomeWindow + Grace]
             pots == [v \in WagerIds |-> PotOf(wager[v])]
  <1>1. r \in WagerRecord /\ a \in Agreement
    BY DEF TypeOK, WagerRecord
  <1>2. a.creator \in Users /\ a.target \in Users
    BY <1>1 DEF Agreement
  <1>3. r.stake \in Stakes
    BY DEF OffersStaked, Staked
  <1>4. /\ m \in WagerRecord /\ m.state = "accepted_funded"
        /\ m.terms = a /\ m.stake = r.stake
    BY <1>1, MovedType DEF States, Funded
  <1>5. q.state = "accepted_funded" /\ q.terms = a /\ q.stake = r.stake
    <2> HIDE DEF m
    <2> QED BY <1>4 DEF WagerRecord
  <1>6. PotOf(q) = Pot!Held(a.creator, a.target, r.stake)
    <2> HIDE DEF q
    <2> QED BY <1>5 DEF PotOf, Funded, Pot!Held
  <1>7. PotOf(r) = Pot!Empty
    BY DEF PotOf, Pot!Empty, Funded, Paid
  <1>8. wager' = [wager EXCEPT ![w] = q]
    BY DEF Fund
  <1>9. pots' = [pots EXCEPT ![w] = Pot!Held(a.creator, a.target, r.stake)]
    <2> HIDE DEF q
    <2> QED BY <1>6, <1>8, PotsMap
  <1>10. \A u \in Users : FateOf(u) = Pot!Purse(u)
    BY DEF FateOf, Pot!Purse
  <1>11. \A u \in Users : Share(a, r.stake, u) = Pot!PutIn(a.creator, a.target, r.stake, u)
    BY DEF Share, Pot!PutIn
  <1>12. \A u \in {a.creator, a.target} :
           Pot!Purse(u) >= Pot!PutIn(a.creator, a.target, r.stake, u)
    <2>1. \A u \in Users : FateOf(u) \in Nat
      BY WagerAssumption DEF FateOf, TypeOK
    <2>2. r.stake \in Nat
      BY <1>1, StakeType
    <2>3. Affordable(a, r.stake)
      OBVIOUS
    <2> HIDE DEF a, r
    <2>4. CASE a.creator = a.target
      BY <1>2, <1>10, <2>1, <2>2, <2>3, <2>4 DEF Affordable, Pot!PutIn
    <2>5. CASE a.creator # a.target
      BY <1>2, <1>10, <2>1, <2>2, <2>3, <2>5 DEF Affordable, Pot!PutIn
    <2> QED BY <2>4, <2>5
  <1>13. opened' = opened \cup {a.creator, a.target}
    BY DEF Fund
  <1>14. balance' = [u \in Users |->
            IF u \in {a.creator, a.target}
            THEN Pot!Purse(u) - Pot!PutIn(a.creator, a.target, r.stake, u)
            ELSE balance[u]]
    BY <1>10, <1>11 DEF Fund
  <1>15. pots[w] = Pot!Empty
    BY <1>7
  <1>16. Pot!Collect(w, a.creator, a.target, r.stake)
    <2> HIDE DEF a, r
    <2> QED BY <1>9, <1>12, <1>13, <1>14, <1>15 DEF Pot!Collect
  <1>17. Pot!Next
    BY <1>2, <1>3, <1>16 DEF Pot!Next
  <1>18. Staked(q)
    <2> HIDE DEF q
    <2> QED BY <1>5 DEF Staked
  <1>19. OffersStaked'
    <2> HIDE DEF q
    <2> QED BY <1>8, <1>18, StakedStep
  <1>20. EscrowStep
    <2>1. wager'[w] = q
      BY <1>8 DEF TypeOK
    <2>2. InPot(PotOf(q)) = 2 * r.stake
      BY <1>6 DEF InPot, Pot!Held
    <2>3. InPot(PotOf(r)) = 0
      BY <1>7 DEF InPot, Pot!Empty
    <2>4. escrow' = escrow + 2 * r.stake /\ escrow \in Int /\ r.stake \in Int
      BY <1>3, WagerAssumption DEF Fund, TypeOK
    <2>5. PotRows' = [PotRows EXCEPT ![w] = PotOf(q)]
      BY <1>6, <1>9 DEF PotRows
    <2> HIDE DEF q
    <2>6. escrow' = escrow - InPot(PotOf(r)) + InPot(PotOf(q))
      BY <2>2, <2>3, <2>4
    <2> QED BY <2>1, <2>5, <2>6 DEF EscrowStep
  <1> QED BY <1>17, <1>19, <1>20 DEF PotStep

LEMMA SettleIsHandOut ==
  ASSUME TypeOK, OffersStaked, NEW w \in WagerIds, NEW r \in WagerRecord,
         NEW result \in Sides \cup {"void"}, NEW authority,
         wager[w].state \in Funded,
         r.terms = wager[w].terms, r.stake = wager[w].stake,
         Settle(w, r, result, authority)
  PROVE  PotStep
  <1> DEFINE a == r.terms
             s == IF result = "void" THEN "void_refunded" ELSE "resolved"
             x == IF result = "void" THEN "none" ELSE result
             m == Moved(r, s)
             q == [m EXCEPT !.winner = x, !.authority = authority]
             pots == [v \in WagerIds |-> PotOf(wager[v])]
             to == IF result = "void" THEN "returned" ELSE "won"
  <1>1. a \in Agreement /\ r.stake \in Nat
    BY StakeType
  <1>2. a.creator \in Users /\ a.target \in Users
    BY <1>1 DEF Agreement
  <1>3. m \in WagerRecord /\ m.state = s /\ m.terms = a /\ m.stake = r.stake
    <2>1. s \in States
      BY DEF States, Terminal, Paid
    <2> HIDE DEF s
    <2> QED BY <2>1, MovedType
  <1>4. q.state = s /\ q.terms = a /\ q.stake = r.stake
    <2> HIDE DEF m, s, x
    <2> QED BY <1>3 DEF WagerRecord
  <1>5. wager' = [wager EXCEPT ![w] = q]
    BY DEF Settle
  <1>6. /\ pots[w] = [state |-> "held", first |-> a.creator,
                      second |-> a.target, stake |-> r.stake]
    BY DEF PotOf
  <1>7. PotOf(q) = [state |-> to, first |-> a.creator,
                    second |-> a.target, stake |-> r.stake]
    <2> HIDE DEF q
    <2> QED BY <1>4 DEF PotOf, Funded, Paid
  <1>8. PotOf(q) = [pots[w] EXCEPT !.state = to]
    <2> HIDE DEF q, to, pots
    <2> QED BY <1>6, <1>7
  <1>9. pots' = [pots EXCEPT ![w] = PotOf(q)]
    <2> HIDE DEF q
    <2> QED BY <1>5, PotsMap
  <1>10. pots' = [pots EXCEPT ![w].state = to]
    <2> HIDE DEF q, to, pots
    <2> QED BY <1>8, <1>9
  <1>11. /\ pots[w].state = "held" /\ pots[w].first = a.creator
         /\ pots[w].second = a.target /\ pots[w].stake = r.stake
    <2> HIDE DEF pots
    <2> QED BY <1>6
  <1>12. /\ opened' = opened
         /\ balance' = [u \in Users |-> balance[u] + Payment(a, r.stake, result, u)]
    BY DEF Settle
  <1>13. balance \in [Users -> Nat]
    BY DEF TypeOK
  <1>14. ASSUME result = "void" PROVE Pot!Next
    <2>1. \A u \in Users : Payment(a, r.stake, result, u)
                              = Pot!PutIn(a.creator, a.target, r.stake, u)
      BY <1>14 DEF Payment, Share, Pot!PutIn
    <2>2. to = "returned"
      BY <1>14
    <2> HIDE DEF a, pots, to
    <2>3. balance' = [u \in Users |->
             balance[u] + Pot!PutIn(pots[w].first, pots[w].second,
                                    pots[w].stake, u)]
      BY <1>11, <1>12, <2>1
    <2>4. Pot!GiveBack(w)
      BY <1>10, <1>11, <1>12, <2>2, <2>3 DEF Pot!GiveBack, pots
    <2> QED BY <2>4 DEF Pot!Next
  <1>15. ASSUME result \in Sides PROVE Pot!Next
    <2> DEFINE p == Party(a, result)
    <2>1. p \in {a.creator, a.target} /\ p \in Users
      BY <1>2 DEF Party
    <2>2. \A u \in Users : Payment(a, r.stake, result, u)
                              = IF u = p THEN 2 * r.stake ELSE 0
      BY <1>15 DEF Payment, Sides
    <2>3. to = "won"
      BY <1>15 DEF Sides
    <2> HIDE DEF a, p, pots, to
    <2>4. balance' = [balance EXCEPT ![p] = @ + 2 * pots[w].stake]
      <3> DEFINE n == 2 * r.stake
      <3>1. n \in Nat
        BY <1>1
      <3>2. balance' = [u \in Users |-> balance[u] + IF u = p THEN n ELSE 0]
        BY <1>12, <2>2
      <3>3. 2 * pots[w].stake = n
        BY <1>11
      <3> HIDE DEF n
      <3>4. balance' = [u \in Users |-> IF u = p THEN balance[p] + n ELSE balance[u]]
        BY <3>1, <3>2, <1>13
      <3>5. balance' = [balance EXCEPT ![p] = @ + n]
        BY <3>4, <1>13
      <3> QED BY <3>3, <3>5
    <2>5. Pot!HandOut(w, p)
      BY <1>10, <1>11, <1>12, <2>1, <2>3, <2>4 DEF Pot!HandOut, pots
    <2> QED BY <2>1, <2>5 DEF Pot!Next
  <1>16. Pot!Next
    BY <1>14, <1>15
  <1>17. Staked(q)
    <2>1. s # "offered"
      OBVIOUS
    <2> HIDE DEF q, s
    <2> QED BY <1>4, <2>1 DEF Staked
  <1>18. OffersStaked'
    <2> HIDE DEF q
    <2> QED BY <1>5, <1>17, StakedStep
  <1>19. EscrowStep
    <2>1. wager'[w] = q
      BY <1>5 DEF TypeOK
    <2>2. InPot(PotOf(q)) = 0
      <3> HIDE DEF q
      <3> QED BY <1>7 DEF InPot
    <2>3. InPot(PotOf(wager[w])) = 2 * r.stake
      BY <1>6 DEF InPot
    <2>4. escrow' = escrow - 2 * r.stake /\ escrow \in Int
      BY DEF Settle, TypeOK
    <2>5. PotRows' = [PotRows EXCEPT ![w] = PotOf(q)]
      BY <1>9 DEF PotRows
    <2> HIDE DEF q
    <2>6. escrow' = escrow - InPot(PotOf(wager[w])) + InPot(PotOf(q))
      BY <1>1, <2>2, <2>3, <2>4
    <2> QED BY <2>1, <2>5, <2>6 DEF EscrowStep
  <1> QED BY <1>16, <1>18, <1>19 DEF PotStep

(* States of a wager that hold no pot.                                     *)
Empties == {"absent", "draft", "offered"} \cup Unfunded

LEMMA EmptyPots ==
  ASSUME NEW r, r.state \in Empties
  PROVE  PotOf(r) = [state |-> "empty"]
  BY DEF PotOf, Empties, Funded, Paid, Unfunded

LEMMA HeldPots ==
  ASSUME NEW r, NEW q, r.state \in Funded, q.state \in Funded,
         q.terms = r.terms, q.stake = r.stake
  PROVE  PotOf(q) = PotOf(r) /\ Staked(q)
  BY DEF PotOf, Staked, Funded

LEMMA AppliedIsQuiet ==
  ASSUME TypeOK, OffersStaked, NEW w \in WagerIds, NEW p \in Phases
  PROVE  /\ PotOf(Applied(w, p).wager) = PotOf(wager[w])
         /\ Staked(Applied(w, p).wager)
  <1> DEFINE r == wager[w]
             q == Applied(w, p).wager
  <1>1. r \in WagerRecord /\ Staked(r)
    BY DEF TypeOK, OffersStaked
  <1>2. \/ q = r
        \/ q = Moved(r, "expired") /\ r.state \in {"draft", "offered"}
        \/ /\ \/ q = Moved(r, "disputed")
              \/ q = [r EXCEPT !.reminded = TRUE]
              \/ q = [r EXCEPT !.state = "awaiting_resolution"]
           /\ r.state \in {"accepted_funded", "awaiting_resolution"}
    BY DEF Applied
  <1> HIDE DEF q
  <1>3. CASE q = Moved(r, "expired") /\ r.state \in {"draft", "offered"}
    <2>1. q.state = "expired"
      BY <1>1, <1>3, MovedType DEF States, Terminal, Unfunded
    <2> QED BY <1>3, <2>1, EmptyPots DEF Empties, Unfunded, Staked, q
  <1>4. CASE /\ \/ q = Moved(r, "disputed")
                \/ q = [r EXCEPT !.reminded = TRUE]
                \/ q = [r EXCEPT !.state = "awaiting_resolution"]
             /\ r.state \in {"accepted_funded", "awaiting_resolution"}
    <2>1. "disputed" \in States
      BY DEF States, Funded
    <2>2. q.state \in Funded /\ q.terms = r.terms /\ q.stake = r.stake
      BY <1>1, <1>4, <2>1, MovedType DEF WagerRecord, Funded
    <2> QED BY <1>4, <2>2, HeldPots DEF Funded, q
  <1> QED BY <1>1, <1>2, <1>3, <1>4 DEF q

(* A step of one wager that no account takes part in. *)
LEMMA CloseIsQuiet ==
  ASSUME TypeOK, OffersStaked, NEW w \in WagerIds,
         wager[w].state \in Open, NEW s \in Unfunded, Close(w, s)
  PROVE  PotStep
  <1> DEFINE q == Moved(wager[w], s)
  <1>1. wager[w] \in WagerRecord /\ s \in States
    BY DEF TypeOK, States, Terminal
  <1>2. q.state = s
    BY <1>1, MovedType
  <1>3. wager' = [wager EXCEPT ![w] = q] /\ UNCHANGED <<opened, balance, escrow>>
    BY DEF Close, Unmoved
  <1> HIDE DEF q
  <1>4. PotOf(q) = PotOf(wager[w])
    BY <1>2, EmptyPots DEF Empties, Open
  <1>5. Staked(q)
    BY <1>2 DEF Staked, Unfunded
  <1> QED BY <1>3, <1>4, <1>5, QuietStep

LEMMA HeldIsQuiet ==
  ASSUME TypeOK, OffersStaked, NEW w \in WagerIds, NEW q \in WagerRecord,
         wager[w].state \in Funded, q.state \in Funded,
         q.terms = wager[w].terms, q.stake = wager[w].stake,
         Record(w, q) \/ Dispute(w, q)
  PROVE  PotStep
  <1>1. CASE Record(w, q)
    <2>1. wager' = [wager EXCEPT ![w] = q] /\ UNCHANGED <<opened, balance, escrow>>
      BY <1>1 DEF Record, Unmoved
    <2>2. PotOf(q) = PotOf(wager[w]) /\ Staked(q)
      BY HeldPots
    <2> QED BY <2>1, <2>2, QuietStep
  <1>2. CASE Dispute(w, q)
    <2> DEFINE m == Moved(q, "disputed")
    <2>1. wager' = [wager EXCEPT ![w] = m] /\ UNCHANGED <<opened, balance, escrow>>
      BY <1>2 DEF Dispute, Unmoved
    <2>2. m.state = "disputed" /\ m.terms = q.terms /\ m.stake = q.stake
      BY MovedType DEF States, Funded
    <2> HIDE DEF m
    <2>3. PotOf(m) = PotOf(wager[w]) /\ Staked(m)
      BY <2>2, HeldPots DEF Funded
    <2> QED BY <2>1, <2>3, QuietStep
  <1> QED BY <1>1, <1>2

LEMMA MemberStepPots ==
  ASSUME TypeOK, OffersStaked, NEW w \in WagerIds, NEW u \in Users,
         MemberStep(w, u)
  PROVE  PotStep
  <1> DEFINE r == wager[w]
  <1>r. r \in WagerRecord
    BY DEF TypeOK
  <1>1. ASSUME NEW a \in Agreements, CreateDraft(w, u, a) PROVE PotStep
    <2> DEFINE q == Drafted(a)
    <2>1. wager' = [wager EXCEPT ![w] = q] /\ UNCHANGED <<opened, balance, escrow>>
      BY <1>1 DEF CreateDraft, Unmoved
    <2>2. q.state = "draft" /\ r.state = "absent"
      BY <1>1, DraftedType DEF CreateDraft
    <2> HIDE DEF q
    <2>3. PotOf(q) = PotOf(r) /\ Staked(q)
      BY <2>2, EmptyPots DEF Empties, Staked
    <2> QED BY <2>1, <2>3, QuietStep
  <1>2. ASSUME NEW s \in Stakes, Preview(w, u, s) PROVE PotStep
    <2> DEFINE q == [r EXCEPT !.stake = s]
    <2>1. wager' = [wager EXCEPT ![w] = q] /\ UNCHANGED <<opened, balance, escrow>>
      BY <1>2 DEF Preview, Record, Unmoved
    <2>2. q.state = "draft" /\ r.state = "draft"
      BY <1>r, <1>2 DEF Preview, WagerRecord
    <2> HIDE DEF q
    <2>3. PotOf(q) = PotOf(r) /\ Staked(q)
      BY <2>2, EmptyPots DEF Empties, Staked
    <2> QED BY <2>1, <2>3, QuietStep
  <1>3. CASE Confirm(w, u)
    <2> DEFINE m == Moved(r, "offered")
               q == [m EXCEPT !.offerLeft = OfferLifetime]
    <2>1. wager' = [wager EXCEPT ![w] = q] /\ UNCHANGED <<opened, balance, escrow>>
      BY <1>3 DEF Confirm, Unmoved
    <2>2. m \in WagerRecord /\ m.state = "offered" /\ m.stake = r.stake
      BY <1>r, MovedType DEF States, Open
    <2>3. r.state = "draft" /\ r.stake \in Stakes
      BY <1>r, <1>3 DEF Confirm, Acts, WagerRecord
    <2>4. q.state = "offered" /\ q.stake = r.stake
      <3> HIDE DEF m
      <3> QED BY <2>2 DEF WagerRecord
    <2> HIDE DEF q
    <2>5. PotOf(q) = PotOf(r) /\ Staked(q)
      BY <2>3, <2>4, EmptyPots DEF Empties, Staked
    <2> QED BY <2>1, <2>5, QuietStep
  <1>4. CASE \/ ExpireOnTouch(w, u) \/ Discard(w, u) \/ Decline(w, u)
             \/ Withdraw(w, u)
    BY <1>4, CloseIsQuiet
    DEF ExpireOnTouch, Overdue, Discard, Decline, Withdraw, Acts, Open, Unfunded
  <1>5. CASE Accept(w, u)
    BY <1>5, FundIsCollect DEF Accept, Acts
  <1>6. CASE RaiseDispute(w, u)
    BY <1>6, <1>r, HeldIsQuiet DEF RaiseDispute, Acts, Funded
  <1>7. ASSUME NEW side \in Sides, ConsentToVoid(w, u, side) PROVE PotStep
    <2> DEFINE q == [r EXCEPT !.voids = @ \cup {side}]
               y == [q EXCEPT !.agreed = side]
    <2>1. r.state \in Funded
      BY <1>7 DEF ConsentToVoid, Acts
    <2>2. /\ q \in WagerRecord /\ q.state = r.state
          /\ q.terms = r.terms /\ q.stake = r.stake
      BY <1>r DEF WagerRecord
    <2>3. Settle(w, y, "void", "mutual") \/ Record(w, q)
      BY <1>7 DEF ConsentToVoid
    <2> HIDE DEF q
    <2>4. y \in WagerRecord /\ y.terms = r.terms /\ y.stake = r.stake
      BY <2>2 DEF WagerRecord
    <2> HIDE DEF y
    <2> QED BY <2>1, <2>2, <2>3, <2>4, SettleIsHandOut, HeldIsQuiet
  <1>8. ASSUME NEW side \in Sides, Adopt(w, u, side) PROVE PotStep
    <2> DEFINE q == [r EXCEPT !.agreed = side]
               x == r.said[Other(side)]
    <2>1. r.state \in Funded
      BY <1>8 DEF Adopt, Acts, Funded
    <2>2. q \in WagerRecord /\ q.terms = r.terms /\ q.stake = r.stake
      BY <1>r DEF WagerRecord
    <2>3. x \in Sides
      BY <1>r, <1>8 DEF Adopt, Other, Sides, WagerRecord
    <2>4. Settle(w, q, x, "mutual")
      BY <1>8 DEF Adopt
    <2> HIDE DEF q, x
    <2> QED BY <2>1, <2>2, <2>3, <2>4, SettleIsHandOut
  <1>9. ASSUME NEW side \in Sides, NEW winner \in Sides,
               SubmitOutcome(w, u, side, winner)
        PROVE  PotStep
    <2> DEFINE z == [r EXCEPT !.said[side] = winner]
               x == IF r.state = "accepted_funded"
                    THEN "awaiting_resolution" ELSE r.state
               q == [r EXCEPT !.said[side] = winner,
                              !.state = IF @ = "accepted_funded"
                                        THEN "awaiting_resolution" ELSE @]
               y == [q EXCEPT !.agreed = side]
    <2>1. r.state \in Funded
      BY <1>9 DEF SubmitOutcome, Acts
    <2>2. \/ Settle(w, y, winner, "mutual")
          \/ Dispute(w, q)
          \/ Record(w, q)
      BY <1>9 DEF SubmitOutcome
    <2>3. z \in WagerRecord /\ z.terms = r.terms /\ z.stake = r.stake
      BY <1>r DEF WagerRecord
    <2>4. x \in States /\ x \in Funded
      BY <1>r, <2>1 DEF WagerRecord, States, Funded
    <2>5. q = [z EXCEPT !.state = x]
      BY <1>r DEF WagerRecord
    <2>6. /\ q \in WagerRecord /\ q.state \in Funded
          /\ q.terms = r.terms /\ q.stake = r.stake
      <3> HIDE DEF z, x, q
      <3>1. /\ [z EXCEPT !.state = x] \in WagerRecord
            /\ [z EXCEPT !.state = x].state = x
            /\ [z EXCEPT !.state = x].terms = z.terms
            /\ [z EXCEPT !.state = x].stake = z.stake
        BY <2>3, <2>4 DEF WagerRecord, States
      <3> QED BY <2>3, <2>4, <2>5, <3>1
    <2> HIDE DEF q
    <2>7. y \in WagerRecord /\ y.terms = r.terms /\ y.stake = r.stake
      BY <2>6 DEF WagerRecord
    <2> HIDE DEF y
    <2>8. winner \in Sides \cup {"void"}
      OBVIOUS
    <2> QED BY <2>1, <2>2, <2>6, <2>7, <2>8, SettleIsHandOut, HeldIsQuiet
  <1>10. ASSUME NEW result \in Sides \cup {"void"}, Judge(w, u, result)
         PROVE  PotStep
    <2>1. \E authority \in {"judge", "owner"} : Settle(w, r, result, authority)
      BY <1>10 DEF Judge
    <2>2. r.state \in Funded
      BY <1>10 DEF Judge, JudgeMay, OwnerMay, Funded
    <2> QED BY <1>r, <2>1, <2>2, SettleIsHandOut
  <1>11. ASSUME NEW p \in Phases, ForceDeadline(w, u, p) PROVE PotStep
    <2>1. UNCHANGED <<opened, balance, escrow>>
      BY <1>11 DEF ForceDeadline, Unmoved
    <2>2. CASE wager' = [wager EXCEPT ![w] = Applied(w, p).wager]
      BY <2>1, <2>2, AppliedIsQuiet, QuietStep
    <2>3. CASE wager' = wager
      BY <2>1, <2>3 DEF PotStep, OffersStaked, Pot!vars, EscrowStep, PotRows
    <2> QED BY <1>11, <2>2, <2>3 DEF ForceDeadline
  <1>12. CASE CleanUp(w, u)
    <2> DEFINE q == [r EXCEPT !.cleaned = TRUE]
    <2>1. wager' = [wager EXCEPT ![w] = q] /\ UNCHANGED <<opened, balance, escrow>>
      BY <1>12 DEF CleanUp, Record, Unmoved
    <2>2. q.state = r.state /\ q.terms = r.terms /\ q.stake = r.stake
      BY <1>r DEF WagerRecord
    <2>3. r.state \in Paid
      BY <1>12 DEF CleanUp
    <2> HIDE DEF q
    <2>4. PotOf(q) = PotOf(r) /\ Staked(q)
      BY <2>2, <2>3 DEF PotOf, Staked, Paid
    <2> QED BY <2>1, <2>4, QuietStep
  <1> QED
    BY <1>1, <1>2, <1>3, <1>4, <1>5, <1>6, <1>7, <1>8, <1>9, <1>10, <1>11, <1>12
    DEF MemberStep

LEMMA StepPots ==
  ASSUME TypeOK, ClaimsMatch, OffersStaked, [Next]_vars
  PROVE  PotStep
  <1>1. ASSUME NEW w \in WagerIds, NEW u \in Users, MemberStep(w, u)
        PROVE  PotStep
    BY <1>1, MemberStepPots
  <1>2. ASSUME NEW w \in WagerIds, Reveal(w) PROVE PotStep
    <2> DEFINE q == [wager[w] EXCEPT !.revealed = TRUE]
    <2>1. wager[w] \in WagerRecord /\ Staked(wager[w])
      BY DEF TypeOK, OffersStaked
    <2>2. wager' = [wager EXCEPT ![w] = q] /\ UNCHANGED <<opened, balance, escrow>>
      BY <1>2 DEF Reveal, Record, Unmoved
    <2>3. /\ q.state = wager[w].state /\ q.terms = wager[w].terms
          /\ q.stake = wager[w].stake
      BY <2>1 DEF WagerRecord
    <2> HIDE DEF q
    <2>4. PotOf(q) = PotOf(wager[w]) /\ Staked(q)
      BY <2>1, <2>3 DEF PotOf, Staked
    <2> QED BY <2>2, <2>4, QuietStep
  <1>3. ASSUME NEW k \in Workers, FireDeadline(k) PROVE PotStep
    <2>1. claim[k].wager \in WagerIds /\ claim[k].phase \in Phases
      BY <1>3, ClaimType DEF FireDeadline, Holds
    <2>2. UNCHANGED <<opened, balance, escrow>>
      BY <1>3 DEF FireDeadline, Unmoved
    <2> QED BY <1>3, <2>1, <2>2, AppliedIsQuiet, QuietStep DEF FireDeadline
  <1>4. CASE wager' = wager /\ UNCHANGED <<opened, balance, escrow>>
    BY <1>4 DEF PotStep, OffersStaked, Pot!vars, EscrowStep, PotRows
  <1>5. CASE Tick
    <2>1. ASSUME NEW v \in WagerIds
          PROVE  /\ wager'[v].state = wager[v].state
                 /\ wager'[v].terms = wager[v].terms
                 /\ wager'[v].stake = wager[v].stake
      <3>1. wager[v] \in WagerRecord
        BY DEF TypeOK
      <3>2. wager'[v] = [wager[v] EXCEPT !.draftLeft = Earlier(@),
                           !.offerLeft = Earlier(@), !.graceLeft = Earlier(@)]
        BY <1>5 DEF Tick
      <3> QED BY <3>1, <3>2 DEF WagerRecord
    <2>2. \A v \in WagerIds : PotOf(wager'[v]) = PotOf(wager[v])
      BY <2>1 DEF PotOf
    <2>3. [v \in WagerIds |-> PotOf(wager[v])]' = [v \in WagerIds |-> PotOf(wager[v])]
      BY <2>2
    <2>4. OffersStaked'
      BY <2>1 DEF OffersStaked, Staked
    <2>5. UNCHANGED <<opened, balance, escrow>>
      BY <1>5 DEF Tick, Unmoved
    <2> QED BY <2>3, <2>4, <2>5 DEF PotStep, Pot!vars, EscrowStep, PotRows
  <1> QED
    BY <1>1, <1>2, <1>3, <1>4, <1>5
    DEF Next, SchedulerStep, Claim, Sweep, HandlerThrows, ReleaseClaim, Crash,
        Unmoved, vars

(* Each wager is a pot of two equal stakes, collected in one step from     *)
(* members who can afford them and handed out whole exactly once: every    *)
(* transaction of the repository is a step of Pots or leaves the pots and  *)
(* the accounts alone.                                                     *)
THEOREM WagersArePots == Spec => ImplementsPots
  <1>1. Init => OffersStaked /\ Pot!Init
    <2> SUFFICES ASSUME Init PROVE OffersStaked /\ Pot!Init
      OBVIOUS
    <2>1. AbsentWager.state = "absent"
      <3>1. Drafted(CHOOSE a \in Agreements : TRUE) \in WagerRecord
        BY WagerAssumption, DraftedType
      <3> QED BY <3>1 DEF AbsentWager, WagerRecord
    <2>2. PotOf(AbsentWager) = Pot!Empty
      BY <2>1, EmptyPots DEF Empties, Pot!Empty
    <2>3. Pot!Init
      BY <2>2 DEF Init, Pot!Init
    <2>4. OffersStaked
      BY <2>1 DEF Init, OffersStaked, Staked
    <2> QED BY <2>3, <2>4
  <1>2. TypeOK /\ ClaimsMatch /\ OffersStaked /\ [Next]_vars
          => TypeOK' /\ ClaimsMatch' /\ OffersStaked' /\ [Pot!Next]_(Pot!vars)
    BY StepType, StepClaims, StepPots DEF PotStep
  <1>3. Init => TypeOK /\ ClaimsMatch
    BY InitType
  <1> QED BY <1>1, <1>2, <1>3, PTL DEF Spec, ImplementsPots, Pot!Spec
-----------------------------------------------------------------------------
(* Sums over finite tables.  A fold chooses its elements in an order that  *)
(* nothing else fixes; that it exists and computes a sum is shown by the   *)
(* least number of elements for which it would not.                        *)

(* The element a fold takes out of a set. *)
Pick(s) == CHOOSE y \in s : TRUE

(* What a fold computes, one element at a time. *)
Unfolds(g, S, base, H) ==
  \A s \in SUBSET S : g[s] = IF s = {} THEN base
                             ELSE H[<<Pick(s), g[s \ {Pick(s)}]>>]

LEMMA Least ==
  ASSUME NEW M \in SUBSET Nat, M # {}
  PROVE  \E n \in M : \A k \in M : n <= k
  <1> DEFINE Lt == OpToRel(<, Nat)
  <1>1. IsWellFoundedOn(Lt, Nat)
    BY NatLessThanWellFounded
  <1> HIDE DEF Lt
  <1>2. PICK n \in M : \A k \in M : ~ (<<k, n>> \in Lt)
    BY <1>1, WFMin
  <1>3. \A k \in M : ~ (k < n)
    BY <1>2 DEF OpToRel, Lt
  <1> QED BY <1>3

LEMMA FiniteInduction ==
  ASSUME NEW S, IsFiniteSet(S), NEW Q, {} \in Q,
         \A T \in SUBSET S : T # {} /\ (\A x \in T : T \ {x} \in Q) => T \in Q
  PROVE  \A T \in SUBSET S : T \in Q
  <1> DEFINE M == {n \in Nat : \E T \in SUBSET S : T \notin Q /\ Cardinality(T) = n}
  <1>1. ASSUME M # {} PROVE FALSE
    <2>1. PICK n \in M : \A k \in M : n <= k
      BY <1>1, Least
    <2>2. PICK T \in SUBSET S : T \notin Q /\ Cardinality(T) = n
      BY <2>1
    <2>3. IsFiniteSet(T) /\ T # {}
      BY <2>2, FS_Subset
    <2>4. ASSUME NEW x \in T PROVE T \ {x} \in Q
      <3>1. IsFiniteSet(T \ {x}) /\ Cardinality(T \ {x}) = n - 1 /\ Cardinality(T \ {x}) \in Nat
        BY <2>2, <2>3, FS_RemoveElement, FS_CardinalityType
      <3>2. n - 1 \notin M
        BY <2>1
      <3> QED BY <3>1, <3>2
    <2> QED BY <2>2, <2>3, <2>4
  <1>2. ASSUME NEW T \in SUBSET S PROVE Cardinality(T) \in Nat
    BY FS_Subset, FS_CardinalityType
  <1> QED BY <1>1, <1>2

LEMMA FoldExists ==
  ASSUME NEW S, IsFiniteSet(S), NEW V, NEW base \in V, NEW H \in [S \X V -> V]
  PROVE  \E g \in [SUBSET S -> V] : Unfolds(g, S, base, H)
  <1> DEFINE Upto(n) == {s \in SUBSET S : Cardinality(s) <= n}
             Body(g, s) == IF s = {} THEN base ELSE H[<<Pick(s), g[s \ {Pick(s)}]>>]
             Good(n) == \E g \in [Upto(n) -> V] : \A s \in Upto(n) : g[s] = Body(g, s)
             M == {n \in Nat : ~Good(n)}
  <1>0. ASSUME NEW T \in SUBSET S
        PROVE  /\ IsFiniteSet(T) /\ Cardinality(T) \in Nat /\ (Cardinality(T) = 0 <=> T = {})
               /\ T # {} => /\ Pick(T) \in T /\ Pick(T) \in S /\ T \ {Pick(T)} \in SUBSET S
                            /\ Cardinality(T \ {Pick(T)}) = Cardinality(T) - 1
    <2>1. IsFiniteSet(T) /\ Cardinality(T) \in Nat /\ (Cardinality(T) = 0 <=> T = {})
      BY FS_Subset, FS_CardinalityType, FS_EmptySet
    <2>2. T # {} => Pick(T) \in T
      BY DEF Pick
    <2> QED BY <2>1, <2>2, FS_RemoveElement
  <1>1. Good(0)
    <2>1. ASSUME NEW s \in Upto(0) PROVE s = {}
      <3>1. s \in SUBSET S /\ Cardinality(s) <= 0
        OBVIOUS
      <3>2. Cardinality(s) \in Nat /\ (Cardinality(s) = 0 <=> s = {})
        BY <1>0, <3>1
      <3> QED BY <3>1, <3>2
    <2> DEFINE g == [s \in Upto(0) |-> base]
    <2> HIDE DEF Upto
    <2>2. g \in [Upto(0) -> V] /\ \A s \in Upto(0) : g[s] = base
      OBVIOUS
    <2> HIDE DEF g
    <2>3. \A s \in Upto(0) : g[s] = Body(g, s)
      BY <2>1, <2>2
    <2> HIDE DEF Body
    <2> QED BY <2>2, <2>3
  <1>2. ASSUME NEW n \in Nat \ {0}, Good(n - 1)
        PROVE  Good(n)
    <2>1. PICK g \in [Upto(n - 1) -> V] : \A s \in Upto(n - 1) : g[s] = Body(g, s)
      BY <1>2
    <2> DEFINE h == [s \in Upto(n) |-> Body(g, s)]
    <2>2. ASSUME NEW s \in Upto(n), s # {}
          PROVE  s \ {Pick(s)} \in Upto(n - 1) /\ Pick(s) \in S
      BY <1>0, <2>2
    <2>3. ASSUME NEW s \in Upto(n) PROVE h[s] = Body(g, s) /\ Body(g, s) \in V
      <3>1. s # {} => <<Pick(s), g[s \ {Pick(s)}]>> \in S \X V
        BY <2>2
      <3> QED BY <3>1
    <2>4. h \in [Upto(n) -> V]
      BY <2>3
    <2>5. ASSUME NEW s \in Upto(n - 1) PROVE h[s] = g[s]
      <3>0. s \in SUBSET S /\ Cardinality(s) \in Nat /\ Cardinality(s) <= n - 1
        BY <1>0
      <3>1. s \in Upto(n)
        BY <3>0
      <3>2. h[s] = Body(g, s)
        BY <2>3, <3>1
      <3> QED BY <2>1, <3>2
    <2> HIDE DEF h
    <2>6. ASSUME NEW s \in Upto(n) PROVE h[s] = Body(h, s)
      <3>1. s # {} => h[s \ {Pick(s)}] = g[s \ {Pick(s)}]
        BY <2>2, <2>5
      <3>2. h[s] = Body(g, s)
        BY <2>3
      <3> HIDE DEF Upto
      <3> QED BY <3>1, <3>2
    <2> HIDE DEF Body, Upto
    <2> QED BY <2>4, <2>6
  <1> HIDE DEF Good
  <1>3. M = {}
    <2> SUFFICES ASSUME M # {} PROVE FALSE
      OBVIOUS
    <2>1. PICK n \in M : \A k \in M : n <= k
      BY Least
    <2>2. n # 0 /\ n - 1 \in Nat
      BY <1>1
    <2>3. n - 1 \notin M
      BY <2>1, <2>2
    <2> QED BY <1>2, <2>2, <2>3
  <1>4. Cardinality(S) \in Nat /\ Upto(Cardinality(S)) = SUBSET S
    BY FS_CardinalityType, FS_Subset
  <1>5. Good(Cardinality(S))
    BY <1>3, <1>4
  <1>6. PICK g \in [Upto(Cardinality(S)) -> V] : \A s \in Upto(Cardinality(S)) : g[s] = Body(g, s)
    BY <1>5 DEF Good
  <1> QED BY <1>4, <1>6 DEF Unfolds

(* g sums up F over the subsets of S. *)
Sums(g, F, S) ==
  /\ g \in [SUBSET S -> Int]
  /\ \A s \in SUBSET S : g[s] = IF s = {} THEN 0 ELSE F[Pick(s)] + g[s \ {Pick(s)}]

LEMMA SumExists ==
  ASSUME NEW S, IsFiniteSet(S), NEW F \in [S -> Int]
  PROVE  \E g : Sums(g, F, S)
  <1> DEFINE H == [p \in S \X Int |-> F[p[1]] + p[2]]
  <1>1. H \in [S \X Int -> Int]
    OBVIOUS
  <1>2. \A x \in S, n \in Int : H[<<x, n>>] = F[x] + n
    OBVIOUS
  <1> DEFINE V == Int  z == 0
  <1>a. z \in V /\ H \in [S \X V -> V]
    BY <1>1
  <1> HIDE DEF H, V, z
  <1>b. \E g \in [SUBSET S -> V] : Unfolds(g, S, z, H)
    BY <1>a, FoldExists
  <1>3. PICK g \in [SUBSET S -> Int] : Unfolds(g, S, 0, H)
    BY <1>b DEF V, z
  <1>4. ASSUME NEW s \in SUBSET S, s # {}
        PROVE  Pick(s) \in S /\ g[s \ {Pick(s)}] \in Int
    BY <1>4 DEF Pick
  <1>5. \A s \in SUBSET S : g[s] = IF s = {} THEN 0 ELSE F[Pick(s)] + g[s \ {Pick(s)}]
    BY <1>2, <1>3, <1>4 DEF Unfolds
  <1>6. Sums(g, F, S)
    BY <1>3, <1>5 DEF Sums
  <1> QED BY <1>6

LEMMA SumNothing ==
  ASSUME NEW S, NEW F, NEW g, Sums(g, F, S)
  PROVE  g[{}] = 0
  <1>1. {} \in SUBSET S
    OBVIOUS
  <1> QED BY <1>1 DEF Sums

(* One element set apart, whichever it is. *)
LEMMA SumRemove ==
  ASSUME NEW S, IsFiniteSet(S), NEW F \in [S -> Int], NEW g, Sums(g, F, S),
         NEW T \in SUBSET S, NEW x \in T
  PROVE  g[T] = F[x] + g[T \ {x}]
  <1> DEFINE Q == {U \in SUBSET S : \A y \in U : g[U] = F[y] + g[U \ {y}]}
  <1>1. ASSUME NEW U \in SUBSET S, U # {}, \A y \in U : U \ {y} \in Q
        PROVE  U \in Q
    <2>1. ASSUME NEW y \in U PROVE g[U] = F[y] + g[U \ {y}]
      <3> DEFINE p == Pick(U)
      <3>1. p \in U /\ g[U] = F[p] + g[U \ {p}]
        BY <1>1 DEF Pick, Sums
      <3> HIDE DEF p
      <3>2. CASE y = p
        BY <3>1, <3>2
      <3>3. CASE y # p
        <4>1. y \in U \ {p} /\ p \in U \ {y}
          BY <3>1, <3>3
        <4>2. U \ {p} \in Q /\ U \ {y} \in Q
          BY <1>1, <3>1
        <4> DEFINE W == (U \ {y}) \ {p}
        <4>3. (U \ {p}) \ {y} = W
          OBVIOUS
        <4>4. g[U \ {p}] = F[y] + g[W] /\ g[U \ {y}] = F[p] + g[W]
          BY <4>1, <4>2, <4>3
        <4>5. F[y] \in Int /\ F[p] \in Int /\ g[W] \in Int
          BY <3>1 DEF Sums
        <4> HIDE DEF W, Q
        <4>6. g[U] = F[p] + (F[y] + g[W])
          BY <3>1, <4>4
        <4>7. F[y] + g[U \ {y}] = F[y] + (F[p] + g[W])
          BY <4>4
        <4> QED BY <4>5, <4>6, <4>7
      <3> QED BY <3>2, <3>3
    <2> QED BY <2>1
  <1>2. {} \in Q
    OBVIOUS
  <1> HIDE DEF Q
  <1>3. T \in Q
    BY <1>1, <1>2, FiniteInduction
  <1> QED BY <1>3 DEF Q

(* Terms that agree on a set have one sum over it. *)
LEMMA SumAgrees ==
  ASSUME NEW S, IsFiniteSet(S), NEW F, NEW g, Sums(g, F, S),
         NEW D, NEW G, NEW h, Sums(h, G, D),
         NEW T \in SUBSET S, T \subseteq D, \A x \in T : F[x] = G[x]
  PROVE  g[T] = h[T]
  <1> DEFINE Q == {U \in SUBSET S : U \subseteq T => g[U] = h[U]}
  <1>1. ASSUME NEW U \in SUBSET S, U # {}, \A y \in U : U \ {y} \in Q
        PROVE  U \in Q
    <2> SUFFICES ASSUME U \subseteq T PROVE g[U] = h[U]
      OBVIOUS
    <2> DEFINE p == Pick(U)
    <2>1. p \in U /\ U \in SUBSET D
      BY <1>1 DEF Pick
    <2>2. g[U] = F[p] + g[U \ {p}] /\ h[U] = G[p] + h[U \ {p}]
      BY <1>1, <2>1 DEF Sums
    <2>3. U \ {p} \in Q /\ U \ {p} \subseteq T
      BY <1>1, <2>1
    <2> QED BY <2>1, <2>2, <2>3
  <1>2. {} \in Q
    BY SumNothing
  <1> HIDE DEF Q
  <1>3. T \in Q
    BY <1>1, <1>2, FiniteInduction
  <1> QED BY <1>3 DEF Q

LEMMA SumZero ==
  ASSUME NEW S, IsFiniteSet(S), NEW F \in [S -> Int], NEW g, Sums(g, F, S),
         NEW T \in SUBSET S, \A x \in T : F[x] = 0
  PROVE  g[T] = 0
  <1> DEFINE Q == {U \in SUBSET S : U \subseteq T => g[U] = 0}
  <1>1. ASSUME NEW U \in SUBSET S, U # {}, \A y \in U : U \ {y} \in Q
        PROVE  U \in Q
    <2> SUFFICES ASSUME U \subseteq T PROVE g[U] = 0
      OBVIOUS
    <2> DEFINE p == Pick(U)
    <2>1. p \in U
      BY <1>1 DEF Pick
    <2>2. g[U] = F[p] + g[U \ {p}] /\ F[p] = 0
      BY <1>1, <2>1 DEF Sums
    <2>3. U \ {p} \in Q /\ U \ {p} \subseteq T
      BY <1>1, <2>1
    <2> QED BY <2>2, <2>3
  <1>2. {} \in Q
    BY SumNothing
  <1> HIDE DEF Q
  <1>3. T \in Q
    BY <1>1, <1>2, FiniteInduction
  <1> QED BY <1>3 DEF Q

(* One term changed. *)
LEMMA SumChange ==
  ASSUME NEW S, IsFiniteSet(S), NEW F \in [S -> Int], NEW G \in [S -> Int],
         NEW x \in S, \A y \in S \ {x} : F[y] = G[y],
         NEW f, Sums(f, F, S), NEW g, Sums(g, G, S)
  PROVE  g[S] = f[S] - F[x] + G[x]
  <1>1. S \in SUBSET S /\ S \ {x} \in SUBSET S
    OBVIOUS
  <1>2. f[S] = F[x] + f[S \ {x}] /\ g[S] = G[x] + g[S \ {x}]
    BY <1>1, SumRemove
  <1>3. f[S \ {x}] = g[S \ {x}]
    BY <1>1, SumAgrees
  <1>4. f[S \ {x}] \in Int /\ F[x] \in Int /\ G[x] \in Int
    BY <1>1 DEF Sums
  <1> QED BY <1>2, <1>3, <1>4

(* The sum of all values of a function with a finite domain. *)
Total(F) == (CHOOSE g : Sums(g, F, DOMAIN F))[DOMAIN F]

LEMMA TotalIs ==
  ASSUME NEW S, IsFiniteSet(S), NEW F \in [S -> Int], NEW g, Sums(g, F, S)
  PROVE  Total(F) = g[S] /\ Total(F) \in Int
  <1> DEFINE h == CHOOSE x : Sums(x, F, S)
  <1>1. Sums(h, F, S)
    OBVIOUS
  <1>2. Total(F) = h[S]
    BY DEF Total
  <1> HIDE DEF h
  <1>3. S \in SUBSET S /\ \A x \in S : F[x] = F[x]
    OBVIOUS
  <1>4. h[S] = g[S]
    BY <1>1, <1>3, SumAgrees
  <1>5. g[S] \in Int
    BY <1>3 DEF Sums
  <1> QED BY <1>2, <1>4, <1>5

LEMMA TotalInt ==
  ASSUME NEW S, IsFiniteSet(S), NEW F \in [S -> Int]
  PROVE  Total(F) \in Int
  <1>1. PICK g : Sums(g, F, S)
    BY SumExists
  <1> QED BY <1>1, TotalIs

LEMMA TotalZero ==
  ASSUME NEW S, IsFiniteSet(S), NEW F \in [S -> Int], \A x \in S : F[x] = 0
  PROVE  Total(F) = 0
  <1>1. PICK g : Sums(g, F, S)
    BY SumExists
  <1>2. S \in SUBSET S
    OBVIOUS
  <1>3. g[S] = 0
    BY <1>1, <1>2, SumZero
  <1> QED BY <1>1, <1>3, TotalIs

LEMMA TotalChange ==
  ASSUME NEW S, IsFiniteSet(S), NEW F \in [S -> Int], NEW G \in [S -> Int],
         NEW x \in S, \A y \in S \ {x} : F[y] = G[y]
  PROVE  Total(G) = Total(F) - F[x] + G[x]
  <1>1. PICK f : Sums(f, F, S)
    BY SumExists
  <1>2. PICK g : Sums(g, G, S)
    BY SumExists
  <1>3. g[S] = f[S] - F[x] + G[x]
    BY <1>1, <1>2, SumChange
  <1>4. Total(F) = f[S] /\ Total(G) = g[S]
    BY <1>1, <1>2, TotalIs
  <1> QED BY <1>3, <1>4

(* What a fold of the library computes that adds up F. *)
LEMMA FoldIsTotal ==
  ASSUME NEW S, IsFiniteSet(S), NEW F \in [S -> Int], NEW it,
         it = [s \in SUBSET S |-> IF s = {} THEN 0 ELSE F[Pick(s)] + it[s \ {Pick(s)}]]
  PROVE  it[S] = Total(F)
  <1>1. ASSUME NEW s \in SUBSET S
        PROVE  it[s] = IF s = {} THEN 0 ELSE F[Pick(s)] + it[s \ {Pick(s)}]
    OBVIOUS
  <1>2. DOMAIN it = SUBSET S /\ it = [s \in SUBSET S |-> it[s]]
    OBVIOUS
  <1> DEFINE Q == {s \in SUBSET S : it[s] \in Int}
  <1>3. ASSUME NEW T \in SUBSET S, T # {}, \A y \in T : T \ {y} \in Q
        PROVE  T \in Q
    <2> DEFINE p == Pick(T)
    <2>1. p \in T /\ p \in S
      BY <1>3 DEF Pick
    <2>2. it[T] = F[p] + it[T \ {p}]
      BY <1>1, <1>3
    <2> HIDE DEF p
    <2>3. F[p] \in Int /\ it[T \ {p}] \in Int
      BY <1>3, <2>1
    <2> QED BY <2>2, <2>3
  <1>4. {} \in Q
    BY <1>1
  <1> HIDE DEF Q
  <1>5. \A s \in SUBSET S : s \in Q
    BY <1>3, <1>4, FiniteInduction
  <1>6. it \in [SUBSET S -> Int]
    BY <1>2, <1>5 DEF Q
  <1>7. Sums(it, F, S)
    BY <1>1, <1>6 DEF Sums
  <1> QED BY <1>7, TotalIs

(* The sum of the library is this one. *)
LEMMA SumIsTotal ==
  ASSUME NEW S, IsFiniteSet(S), NEW F \in [S -> Int]
  PROVE  SumFunctionOnSet(F, S) = Total(F)
  <1> DEFINE P(g) == g = [s \in SUBSET S |-> IF s = {} THEN 0
                          ELSE F[(CHOOSE y \in s : TRUE)] + g[s \ {CHOOSE y \in s : TRUE}]]
             it == CHOOSE h : P(h)
  <1>1. SumFunctionOnSet(F, S) = it[S]
    BY DEF SumFunctionOnSet, FoldFunctionOnSet, MapThenFoldSet
  <1>2. PICK g : Sums(g, F, S)
    BY SumExists
  <1>3. P(g)
    <2>1. g = [s \in SUBSET S |-> g[s]]
      BY <1>2 DEF Sums
    <2>2. \A s \in SUBSET S : g[s] = IF s = {} THEN 0
            ELSE F[(CHOOSE y \in s : TRUE)] + g[s \ {CHOOSE y \in s : TRUE}]
      BY <1>2 DEF Sums, Pick
    <2> QED BY <2>1, <2>2
  <1>4. P(it)
    BY <1>3
  <1> HIDE DEF it
  <1>5. it = [s \in SUBSET S |-> IF s = {} THEN 0 ELSE F[Pick(s)] + it[s \ {Pick(s)}]]
    BY <1>4 DEF Pick
  <1>6. it[S] = Total(F)
    BY <1>5, FoldIsTotal
  <1> QED BY <1>1, <1>6

-----------------------------------------------------------------------------
(* Stakes are backed                                                       *)

(* What the pots hold, one by one. *)
InPots == [w \in WagerIds |-> InPot(PotRows[w])]

(* A member who has paid into a pot has an account, one without holds      *)
(* nothing, and the Fate of all accounts and the escrow is Fate granted.   *)
Backed ==
  /\ \A w \in WagerIds : PotRows[w].state = "held" =>
       /\ PotRows[w].first \in opened /\ PotRows[w].second \in opened
       /\ PotRows[w].stake \in Nat
  /\ \A u \in Users \ opened : balance[u] = 0
  /\ escrow = Total(InPots)
  /\ Total(balance) + escrow = StartingFate * Cardinality(opened)

LEMMA PotStakes ==
  ASSUME NEW r \in WagerRecord
  PROVE  /\ r.stake \in Nat
         /\ PotOf(r).state = "held" <=> r.state \in Funded
         /\ r.state \in Funded => PotOf(r).stake = r.stake
         /\ InPot(PotOf(r)) = IF r.state \in Funded THEN 2 * r.stake ELSE 0
         /\ InPot(PotOf(r)) \in Int
  <1>1. r.stake \in Nat
    BY StakeType
  <1>2. CASE r.state \in Funded
    <2>1. PotOf(r).state = "held" /\ PotOf(r).stake = r.stake
      BY <1>2 DEF PotOf
    <2> QED BY <1>1, <1>2, <2>1 DEF InPot
  <1>3. CASE r.state \notin Funded
    <2>1. PotOf(r).state # "held"
      BY <1>3 DEF PotOf
    <2> QED BY <1>1, <1>3, <2>1 DEF InPot
  <1> QED BY <1>2, <1>3

(* The escrow after a step that touches pot p at most. *)
LEMMA EscrowFollows ==
  ASSUME TypeOK, TypeOK', EscrowStep, escrow = Total(InPots),
         NEW p \in WagerIds, \A w \in WagerIds \ {p} : PotRows'[w] = PotRows[w]
  PROVE  /\ escrow' = Total(InPots')
         /\ escrow' = escrow - InPots[p] + InPots'[p]
  <1>1. /\ InPots \in [WagerIds -> Int] /\ InPots' \in [WagerIds -> Int]
        /\ IsFiniteSet(WagerIds)
    BY PotStakes, WagerAssumption DEF InPots, PotRows, TypeOK
  <1>2. \A w \in WagerIds : /\ InPots[w] = InPot(PotOf(wager[w]))
                            /\ InPots'[w] = InPot(PotOf(wager'[w]))
    BY DEF InPots, PotRows
  <1>3. \A w \in WagerIds : PotRows[w] = PotRows'[w] => InPots[w] = InPots'[w]
    BY DEF InPots
  <1>4. CASE UNCHANGED <<escrow, PotRows>>
    <2>1. InPots' = InPots /\ escrow' = escrow /\ escrow \in Int
      BY <1>4 DEF InPots, TypeOK
    <2>2. InPots[p] \in Int
      BY <1>1
    <2> HIDE DEF InPots
    <2> QED BY <2>1, <2>2
  <1>5. ASSUME NEW w \in WagerIds, PotRows' = [PotRows EXCEPT ![w] = PotOf(wager'[w])],
               escrow' = escrow - InPot(PotOf(wager[w])) + InPot(PotOf(wager'[w]))
        PROVE  /\ escrow' = Total(InPots')
               /\ escrow' = escrow - InPots[p] + InPots'[p]
    <2>1. \A v \in WagerIds \ {w} : PotRows'[v] = PotRows[v]
      BY <1>5 DEF PotRows
    <2>2. Total(InPots') = Total(InPots) - InPots[w] + InPots'[w]
      BY <1>1, <1>3, <2>1, TotalChange
    <2>3. Total(InPots') = Total(InPots) - InPots[p] + InPots'[p]
      BY <1>1, <1>3, TotalChange
    <2>4. escrow' = escrow - InPots[w] + InPots'[w]
      BY <1>2, <1>5
    <2> HIDE DEF InPots
    <2> QED BY <2>2, <2>3, <2>4
  <1> QED BY <1>4, <1>5 DEF EscrowStep

(* One account changed. *)
LEMMA AccountMoves ==
  ASSUME NEW b \in [Users -> Int], NEW c \in [Users -> Int], NEW u \in Users,
         \A v \in Users \ {u} : b[v] = c[v]
  PROVE  Total(c) = Total(b) - b[u] + c[u] /\ Total(b) \in Int
  <1>1. Total(c) = Total(b) - b[u] + c[u]
    BY WagerAssumption, TotalChange
  <1>2. Total(b) \in Int
    BY WagerAssumption, TotalInt
  <1> QED BY <1>1, <1>2

(* A member who joins is granted the starting Fate, one who has joined     *)
(* nothing more.                                                           *)
LEMMA Joins ==
  ASSUME NEW o \in SUBSET Users, NEW u \in Users, NEW n \in Int,
         NEW purse, purse = IF u \in o THEN n ELSE StartingFate,
         u \notin o => n = 0
  PROVE  StartingFate * Cardinality(o \cup {u})
           = StartingFate * Cardinality(o) + purse - n
  <1>1. IsFiniteSet(o) /\ Cardinality(o) \in Nat
    BY WagerAssumption, FS_Subset, FS_CardinalityType
  <1>2. StartingFate \in Nat
    BY WagerAssumption
  <1>3. CASE u \in o
    <2> DEFINE granted == StartingFate * Cardinality(o)
    <2>1. o \cup {u} = o
      BY <1>3
    <2>2. granted \in Int
      BY <1>1, <1>2
    <2>3. purse = n
      BY <1>3
    <2> HIDE DEF granted
    <2>4. granted = granted + purse - n
      BY <2>2, <2>3
    <2> QED BY <2>1, <2>4 DEF granted
  <1>4. CASE u \notin o
    <2>1. Cardinality(o \cup {u}) = Cardinality(o) + 1
      BY <1>1, <1>4, FS_AddElement
    <2>2. StartingFate * (Cardinality(o) + 1) = StartingFate * Cardinality(o) + StartingFate
      BY <1>1, <1>2
    <2> QED BY <1>1, <1>2, <1>4, <2>1, <2>2
  <1> QED BY <1>3, <1>4

(* Both stakes leave their accounts, which join the ledger with a grant.   *)
LEMMA CollectKeeps ==
  ASSUME TypeOK, TypeOK', Backed, EscrowStep,
         NEW p \in WagerIds, NEW a \in Users, NEW b \in Users, NEW s \in Stakes,
         Pot!Collect(p, a, b, s)
  PROVE  Backed'
  <1> DEFINE pa == Pot!Purse(a)
             pb == Pot!Purse(b)
             total == StartingFate * Cardinality(opened)
  <1>1. /\ balance \in [Users -> Int] /\ opened \in SUBSET Users /\ StartingFate \in Int
        /\ s \in Int /\ escrow \in Int /\ s \in Nat
    BY WagerAssumption DEF TypeOK
  <1>2. /\ PotRows[p] = [state |-> "empty"]
        /\ opened' = opened \cup {a, b}
        /\ balance' = [u \in Users |->
             IF u \in {a, b} THEN Pot!Purse(u) - Pot!PutIn(a, b, s, u) ELSE balance[u]]
        /\ PotRows' = [PotRows EXCEPT ![p] = Pot!Held(a, b, s)]
    BY DEF Pot!Collect, Pot!Empty, PotRows
  <1>3. /\ PotRows'[p] = Pot!Held(a, b, s)
        /\ \A w \in WagerIds \ {p} : PotRows'[w] = PotRows[w]
    BY <1>2 DEF PotRows
  <1>4. escrow' = Total(InPots') /\ escrow' = escrow + 2 * s
    <2>1. escrow = Total(InPots)
      BY DEF Backed
    <2>2. escrow' = Total(InPots') /\ escrow' = escrow - InPots[p] + InPots'[p]
      BY <1>3, <2>1, EscrowFollows
    <2>3. InPots[p] = 0 /\ InPots'[p] = 2 * s
      BY <1>2, <1>3 DEF InPots, InPot, Pot!Held
    <2> QED BY <1>1, <2>2, <2>3
  <1>5. /\ pa \in Int /\ pa = IF a \in opened THEN balance[a] ELSE StartingFate
        /\ pb \in Int /\ pb = IF b \in opened THEN balance[b] ELSE StartingFate
    BY <1>1 DEF Pot!Purse
  <1>6. /\ a \notin opened => balance[a] = 0
        /\ b \notin opened => balance[b] = 0
    BY DEF Backed
  <1>7. StartingFate * Cardinality(opened \cup {a}) = total + pa - balance[a]
    BY <1>1, <1>5, <1>6, Joins
  <1> HIDE DEF pa, pb
  <1>8. Total(balance) \in Int /\ total \in Int /\ balance[a] \in Int /\ balance[b] \in Int
    <2>1. Cardinality(opened) \in Nat
      BY <1>1, WagerAssumption, FS_Subset, FS_CardinalityType
    <2>2. total \in Int
      BY <1>1, <2>1
    <2>3. Total(balance) \in Int
      BY <1>1, WagerAssumption, TotalInt
    <2> QED BY <1>1, <2>2, <2>3
  <1>9. Total(balance) + escrow = total
    BY DEF Backed
  <1>10. ASSUME a = b
         PROVE  Total(balance') + escrow' = StartingFate * Cardinality(opened')
    <2> DEFINE n == pa - 2 * s
    <2>1. n \in Int
      BY <1>1, <1>5
    <2>2. balance' = [u \in Users |-> IF u = a THEN n ELSE balance[u]]
      <3>1. Pot!PutIn(a, b, s, a) = 2 * s
        BY <1>1, <1>10 DEF Pot!PutIn
      <3> QED BY <1>2, <1>10, <3>1 DEF pa
    <2>3. Total(balance') = Total(balance) - balance[a] + n
      <3>1. balance \in [Users -> Int]
        BY <1>1
      <3> HIDE DEF n
      <3>2. /\ balance' \in [Users -> Int] /\ balance'[a] = n
            /\ \A v \in Users \ {a} : balance[v] = balance'[v]
        BY <2>1, <2>2, <3>1
      <3> QED BY <3>1, <3>2, AccountMoves
    <2>4. opened' = opened \cup {a}
      BY <1>2, <1>10
    <2> HIDE DEF total
    <2> QED BY <1>1, <1>4, <1>5, <1>7, <1>8, <1>9, <2>3, <2>4
  <1>11. ASSUME a # b
         PROVE  Total(balance') + escrow' = StartingFate * Cardinality(opened')
    <2> DEFINE n == pa - s
               m == pb - s
               c == [u \in Users |-> IF u = a THEN n ELSE balance[u]]
    <2>1. n \in Int /\ m \in Int
      BY <1>1, <1>5
    <2>2. c[b] = balance[b]
      BY <1>11
    <2>3. balance' = [u \in Users |-> IF u = b THEN m ELSE c[u]]
      <3>1. Pot!PutIn(a, b, s, a) = s /\ Pot!PutIn(a, b, s, b) = s
        BY <1>1, <1>11 DEF Pot!PutIn
      <3> QED BY <1>2, <1>11, <3>1 DEF pa, pb
    <2>4. /\ c \in [Users -> Int] /\ Total(c) = Total(balance) - balance[a] + n
          /\ Total(c) \in Int
      <3>1. c = [u \in Users |-> IF u = a THEN n ELSE balance[u]]
        OBVIOUS
      <3> HIDE DEF n, c
      <3>2. balance \in [Users -> Int]
        BY <1>1
      <3>3. /\ c \in [Users -> Int] /\ c[a] = n
            /\ \A v \in Users \ {a} : balance[v] = c[v]
        BY <2>1, <3>1, <3>2
      <3>4. Total(c) = Total(balance) - balance[a] + n
        BY <3>2, <3>3, AccountMoves
      <3> QED BY <3>3, <3>4, WagerAssumption, TotalInt
    <2> HIDE DEF c
    <2>5. Total(balance') = Total(c) - c[b] + m
      <3> HIDE DEF m
      <3>1. /\ balance' \in [Users -> Int] /\ balance'[b] = m
            /\ \A v \in Users \ {b} : c[v] = balance'[v]
        BY <2>1, <2>3, <2>4
      <3> QED BY <2>4, <3>1, AccountMoves
    <2>6. StartingFate * Cardinality((opened \cup {a}) \cup {b})
            = StartingFate * Cardinality(opened \cup {a}) + pb - balance[b]
      <3>1. b \in opened \cup {a} <=> b \in opened
        BY <1>11
      <3>2. opened \cup {a} \in SUBSET Users
        BY <1>1
      <3> QED BY <1>5, <1>6, <1>8, <3>1, <3>2, Joins
    <2>7. opened' = (opened \cup {a}) \cup {b}
      BY <1>2
    <2> HIDE DEF total
    <2> QED BY <1>1, <1>4, <1>5, <1>7, <1>8, <1>9, <2>1, <2>2, <2>4, <2>5, <2>6, <2>7
  <1>12. Total(balance') + escrow' = StartingFate * Cardinality(opened')
    BY <1>10, <1>11
  <1>13. \A u \in Users \ opened' : balance'[u] = 0
    <2>1. \A u \in Users \ opened' : u \notin {a, b} /\ u \notin opened
      BY <1>2
    <2> QED BY <1>2, <2>1 DEF Backed
  <1>14. \A w \in WagerIds : PotRows'[w].state = "held" =>
           /\ PotRows'[w].first \in opened' /\ PotRows'[w].second \in opened'
           /\ PotRows'[w].stake \in Nat
    <2>1. /\ PotRows'[p].first = a /\ PotRows'[p].second = b /\ PotRows'[p].stake = s
      BY <1>3 DEF Pot!Held
    <2>2. \A w \in WagerIds \ {p} : PotRows'[w] = PotRows[w]
      BY <1>3
    <2> QED BY <1>1, <1>2, <2>1, <2>2 DEF Backed
  <1> QED BY <1>4, <1>12, <1>13, <1>14 DEF Backed

(* What the accounts gain is what leaves the pot: a pot that is handed out *)
(* needs no new account.                                                   *)
LEMMA PaidOutKeeps ==
  ASSUME TypeOK, TypeOK', Backed, EscrowStep,
         NEW p \in WagerIds, PotRows[p].state = "held",
         NEW to, to # "held", PotRows' = [PotRows EXCEPT ![p].state = to],
         opened' = opened, Total(balance') = Total(balance) + 2 * PotRows[p].stake,
         \A u \in Users : balance'[u] # balance[u]
                            => u \in {PotRows[p].first, PotRows[p].second}
  PROVE  Backed'
  <1>1. /\ PotRows'[p] = [PotRows[p] EXCEPT !.state = to]
        /\ \A w \in WagerIds \ {p} : PotRows'[w] = PotRows[w]
    BY DEF PotRows
  <1>2. PotRows'[p].state = to
    <2>1. PotRows[p] = PotOf(wager[p]) /\ wager[p] \in WagerRecord
      BY DEF PotRows, TypeOK
    <2>2. wager[p].state \in Funded
      BY <2>1, PotStakes
    <2>3. PotOf(wager[p]) = [state |-> "held", first |-> wager[p].terms.creator,
                             second |-> wager[p].terms.target, stake |-> wager[p].stake]
      BY <2>2 DEF PotOf
    <2>4. PotRows'[p] = [state |-> to, first |-> wager[p].terms.creator,
                         second |-> wager[p].terms.target, stake |-> wager[p].stake]
      BY <1>1, <2>1, <2>3
    <2> QED BY <2>4
  <1>3. escrow = Total(InPots) /\ PotRows[p].stake \in Nat
    BY DEF Backed
  <1>4. escrow' = Total(InPots') /\ escrow' = escrow - InPots[p] + InPots'[p]
    BY <1>1, <1>3, EscrowFollows
  <1>5. InPots[p] = 2 * PotRows[p].stake /\ InPots'[p] = 0
    BY <1>2 DEF InPots, InPot
  <1>6. Total(balance) + escrow = StartingFate * Cardinality(opened)
    BY DEF Backed
  <1>7. Total(balance) \in Int /\ escrow \in Int
    <2>1. balance \in [Users -> Int] /\ escrow \in Int
      BY DEF TypeOK
    <2> QED BY <2>1, WagerAssumption, TotalInt
  <1>8. Total(balance') + escrow' = StartingFate * Cardinality(opened')
    BY <1>3, <1>4, <1>5, <1>6, <1>7
  <1>9. \A u \in Users \ opened' : balance'[u] = 0
    BY DEF Backed
  <1>10. \A w \in WagerIds : PotRows'[w].state = "held" =>
           /\ PotRows'[w].first \in opened' /\ PotRows'[w].second \in opened'
           /\ PotRows'[w].stake \in Nat
    BY <1>1, <1>2 DEF Backed
  <1> QED BY <1>4, <1>8, <1>9, <1>10 DEF Backed

LEMMA HandOutKeeps ==
  ASSUME TypeOK, TypeOK', Backed, EscrowStep, NEW p \in WagerIds, NEW u \in Users,
         Pot!HandOut(p, u)
  PROVE  Backed'
  <1> DEFINE n == balance[u] + 2 * PotRows[p].stake
  <1>1. /\ PotRows[p].state = "held" /\ u \in {PotRows[p].first, PotRows[p].second}
        /\ balance' = [balance EXCEPT ![u] = n]
        /\ PotRows' = [PotRows EXCEPT ![p].state = "won"]
        /\ opened' = opened
    BY DEF Pot!HandOut, PotRows
  <1>2. balance \in [Users -> Int] /\ PotRows[p].stake \in Nat
    BY <1>1 DEF TypeOK, Backed
  <1>3. n \in Int
    BY <1>2
  <1>4. Total(balance') = Total(balance) - balance[u] + n /\ Total(balance) \in Int
    <2> HIDE DEF n
    <2>1. /\ balance' \in [Users -> Int] /\ balance'[u] = n
          /\ \A v \in Users \ {u} : balance[v] = balance'[v]
      BY <1>1, <1>2, <1>3
    <2> QED BY <1>2, <2>1, AccountMoves
  <1>5. Total(balance') = Total(balance) + 2 * PotRows[p].stake
    BY <1>2, <1>4
  <1>6. \A v \in Users : balance'[v] # balance[v] => v \in {PotRows[p].first, PotRows[p].second}
    <2> HIDE DEF n
    <2> QED BY <1>1, <1>2
  <1> QED BY <1>1, <1>5, <1>6, PaidOutKeeps

LEMMA GiveBackKeeps ==
  ASSUME TypeOK, TypeOK', Backed, EscrowStep, NEW p \in WagerIds, Pot!GiveBack(p)
  PROVE  Backed'
  <1> DEFINE a == PotRows[p].first
             b == PotRows[p].second
             s == PotRows[p].stake
  <1>1. /\ PotRows[p].state = "held"
        /\ balance' = [u \in Users |-> balance[u] + Pot!PutIn(a, b, s, u)]
        /\ PotRows' = [PotRows EXCEPT ![p].state = "returned"]
        /\ opened' = opened
    BY DEF Pot!GiveBack, PotRows
  <1>2. balance \in [Users -> Int] /\ s \in Nat /\ a \in Users /\ b \in Users
    BY <1>1 DEF TypeOK, Backed
  <1> HIDE DEF a, b, s
  <1>3. \A u \in Users : balance'[u] # balance[u] => u \in {a, b}
    BY <1>1, <1>2 DEF Pot!PutIn
  <1>4. ASSUME a = b PROVE Total(balance') = Total(balance) + 2 * s
    <2> DEFINE n == balance[a] + 2 * s
    <2>1. n \in Int
      BY <1>2
    <2>2. balance' = [u \in Users |-> IF u = a THEN n ELSE balance[u]]
      <3>1. \A u \in Users : balance[u] + Pot!PutIn(a, b, s, u)
                               = IF u = a THEN n ELSE balance[u]
        BY <1>2, <1>4 DEF Pot!PutIn
      <3> HIDE DEF n
      <3> QED BY <1>1, <3>1
    <2>3. Total(balance') = Total(balance) - balance[a] + n /\ Total(balance) \in Int
      <3> HIDE DEF n
      <3>1. /\ balance' \in [Users -> Int] /\ balance'[a] = n
            /\ \A v \in Users \ {a} : balance[v] = balance'[v]
        BY <1>2, <2>1, <2>2
      <3> QED BY <1>2, <3>1, AccountMoves
    <2> QED BY <1>2, <2>3
  <1>5. ASSUME a # b PROVE Total(balance') = Total(balance) + 2 * s
    <2> DEFINE n == balance[a] + s
               m == balance[b] + s
               c == [u \in Users |-> IF u = a THEN n ELSE balance[u]]
    <2>1. n \in Int /\ m \in Int
      BY <1>2
    <2>2. c[b] = balance[b]
      BY <1>2, <1>5
    <2>3. balance' = [u \in Users |-> IF u = b THEN m ELSE c[u]]
      <3>1. \A u \in Users : balance[u] + Pot!PutIn(a, b, s, u)
                               = IF u = b THEN m ELSE c[u]
        BY <1>2, <1>5 DEF Pot!PutIn
      <3> HIDE DEF m, c
      <3> QED BY <1>1, <3>1
    <2>4. /\ c \in [Users -> Int] /\ Total(c) = Total(balance) - balance[a] + n
          /\ Total(balance) \in Int
      <3>1. c = [u \in Users |-> IF u = a THEN n ELSE balance[u]]
        OBVIOUS
      <3>2. balance \in [Users -> Int] /\ a \in Users
        BY <1>2
      <3> HIDE DEF n, c
      <3>3. /\ c \in [Users -> Int] /\ c[a] = n
            /\ \A v \in Users \ {a} : balance[v] = c[v]
        BY <2>1, <3>1, <3>2
      <3> QED BY <3>2, <3>3, AccountMoves
    <2> HIDE DEF c
    <2>5. Total(balance') = Total(c) - c[b] + m
      <3>1. b \in Users
        BY <1>2
      <3> HIDE DEF m
      <3>2. /\ balance' \in [Users -> Int] /\ balance'[b] = m
            /\ \A v \in Users \ {b} : c[v] = balance'[v]
        BY <2>1, <2>3, <2>4, <3>1
      <3> QED BY <2>4, <3>1, <3>2, AccountMoves
    <2> QED BY <1>2, <2>2, <2>4, <2>5
  <1>6. Total(balance') = Total(balance) + 2 * s
    BY <1>4, <1>5
  <1> QED BY <1>1, <1>3, <1>6, PaidOutKeeps DEF a, b, s

LEMMA StepBacked ==
  ASSUME TypeOK, TypeOK', Backed, PotStep
  PROVE  Backed'
  <1>1. EscrowStep
    BY DEF PotStep
  <1>2. ASSUME NEW p \in WagerIds, NEW a \in Users, NEW b \in Users, NEW s \in Stakes,
               Pot!Collect(p, a, b, s)
        PROVE  Backed'
    BY <1>1, <1>2, CollectKeeps
  <1>3. ASSUME NEW p \in WagerIds, NEW u \in Users, Pot!HandOut(p, u) PROVE Backed'
    BY <1>1, <1>3, HandOutKeeps
  <1>4. ASSUME NEW p \in WagerIds, Pot!GiveBack(p) PROVE Backed'
    BY <1>1, <1>4, GiveBackKeeps
  <1>5. CASE UNCHANGED Pot!vars
    <2>1. UNCHANGED <<opened, balance, PotRows>>
      BY <1>5 DEF Pot!vars, PotRows
    <2>2. CASE WagerIds = {}
      <3>1. escrow' = escrow
        BY <1>1, <2>2 DEF EscrowStep
      <3>2. InPots' = InPots
        BY <2>1 DEF InPots
      <3> QED BY <2>1, <3>1, <3>2 DEF Backed
    <2>3. ASSUME NEW p \in WagerIds PROVE Backed'
      <3>1. escrow' = escrow - InPots[p] + InPots'[p] /\ InPots' = InPots
        BY <1>1, <2>1, EscrowFollows DEF Backed, InPots
      <3>2. escrow \in Int /\ InPots[p] \in Int
        BY PotStakes DEF TypeOK, InPots, PotRows
      <3>3. escrow' = escrow
        <4> HIDE DEF InPots
        <4> QED BY <3>1, <3>2
      <3> QED BY <2>1, <3>1, <3>3 DEF Backed
    <2> QED BY <2>2, <2>3
  <1> QED BY <1>2, <1>3, <1>4, <1>5 DEF PotStep, Pot!Next

LEMMA BackedInit == Init => Backed
  <1> SUFFICES ASSUME Init PROVE Backed
    OBVIOUS
  <1>1. AbsentWager.state = "absent"
    <2>1. Drafted(CHOOSE a \in Agreements : TRUE) \in WagerRecord
      BY WagerAssumption, DraftedType
    <2> QED BY <2>1 DEF AbsentWager, WagerRecord
  <1>2. \A w \in WagerIds : PotRows[w] = [state |-> "empty"]
    BY <1>1, EmptyPots DEF Init, PotRows, Empties
  <1>3. InPots \in [WagerIds -> Int] /\ \A w \in WagerIds : InPots[w] = 0
    BY <1>2 DEF InPots, InPot
  <1>4. Total(InPots) = 0
    <2> HIDE DEF InPots
    <2> QED BY <1>3, WagerAssumption, TotalZero
  <1>5. Total(balance) = 0
    <2>1. balance \in [Users -> Int] /\ \A u \in Users : balance[u] = 0
      BY DEF Init
    <2> QED BY <2>1, WagerAssumption, TotalZero
  <1>6. StartingFate * Cardinality(opened) = 0
    <2>1. Cardinality({}) = 0
      BY FS_EmptySet
    <2> QED BY <2>1, WagerAssumption DEF Init
  <1> QED BY <1>2, <1>4, <1>5, <1>6 DEF Init, Backed

LEMMA BackedHolds ==
  ASSUME TypeOK, Backed
  PROVE  StakesAreBacked
  <1> DEFINE F == [w \in WagerIds |->
                     IF wager[w].state \in Funded THEN 2 * wager[w].stake ELSE 0]
  <1>1. balance \in [Users -> Int] /\ \A u \in Users : balance[u] >= 0
    BY DEF TypeOK
  <1>2. \A w \in WagerIds : F[w] = InPot(PotOf(wager[w])) /\ F[w] \in Int
    BY PotStakes DEF TypeOK
  <1>3. F = InPots /\ F \in [WagerIds -> Int]
    BY <1>2 DEF InPots, PotRows
  <1> HIDE DEF F
  <1>4. SumFunctionOnSet(F, WagerIds) = Total(InPots)
    BY <1>3, WagerAssumption, SumIsTotal
  <1>5. SumFunctionOnSet(balance, Users) = Total(balance)
    BY <1>1, WagerAssumption, SumIsTotal
  <1> QED BY <1>1, <1>4, <1>5 DEF Backed, StakesAreBacked, F

(* Whatever members, workers and crashes do to however many wagers: no     *)
(* member owes Fate, ESCROW holds both stakes of every funded wager that   *)
(* is open and nothing else, and accounts and escrow together hold exactly *)
(* the Fate granted: fund_wager, settle_wager, check_invariants.           *)
THEOREM StakesStayBacked == Spec => []StakesAreBacked
  <1>1. Init => TypeOK /\ ClaimsMatch /\ OffersStaked /\ Backed
    <2>1. Init => OffersStaked
      <3> SUFFICES ASSUME Init PROVE OffersStaked
        OBVIOUS
      <3>1. Drafted(CHOOSE a \in Agreements : TRUE) \in WagerRecord
        BY WagerAssumption, DraftedType
      <3>2. AbsentWager.state = "absent"
        BY <3>1 DEF AbsentWager, WagerRecord
      <3> QED BY <3>2 DEF Init, OffersStaked, Staked
    <2> QED BY <2>1, InitType, BackedInit
  <1>2. TypeOK /\ ClaimsMatch /\ OffersStaked /\ Backed /\ [Next]_vars
          => TypeOK' /\ ClaimsMatch' /\ OffersStaked' /\ Backed'
    <2> SUFFICES ASSUME TypeOK, ClaimsMatch, OffersStaked, Backed, [Next]_vars
                 PROVE  TypeOK' /\ ClaimsMatch' /\ OffersStaked' /\ Backed'
      OBVIOUS
    <2>1. TypeOK' /\ ClaimsMatch'
      BY StepType, StepClaims
    <2>2. PotStep
      BY StepPots
    <2> QED BY <2>1, <2>2, StepBacked DEF PotStep
  <1>3. TypeOK /\ Backed => StakesAreBacked
    BY BackedHolds
  <1> QED BY <1>1, <1>2, <1>3, PTL DEF Spec

-----------------------------------------------------------------------------
(* Deadlines are kept                                                      *)

(* The due time of an expiry job is never before the expiry of its draft   *)
(* or offer, and a worker that has claimed the job finds that expiry past. *)
Timed(left, j) == left <= j.wait /\ (j.state = "claimed" => left = 0)

Timely(r, jobs) ==
  /\ r.state = "draft" => Timed(r.draftLeft, jobs["draft_expiry"])
  /\ r.state = "offered" => Timed(r.offerLeft, jobs["offer_expiry"])

InTime == \A w \in WagerIds : Timely(wager[w], job[w])

(* What DeadlinesHold asks of one wager in one step.                       *)
OnTime(r, q) ==
  /\ r.state = "offered" /\ q.state = "expired" => r.offerLeft = 0 \/ r.terms.test
  /\ r.state = "offered" /\ q.state = "accepted_funded" => r.offerLeft > 0
  /\ r.state = "draft" /\ q.state = "expired" => r.draftLeft = 0 \/ r.terms.test
  /\ r.authority = "none" /\ q.authority = "judge" => r.graceLeft > 0

Punctual == \A w \in WagerIds : OnTime(wager[w], wager'[w])

LEMMA SameOnTime ==
  ASSUME NEW r, NEW q, q.state = r.state, q.authority = r.authority
  PROVE  OnTime(r, q)
  BY DEF OnTime

(* Nothing about an expiry is asked in the other states.                   *)
LEMMA ClosedTimely ==
  ASSUME NEW r, NEW jobs, r.state \notin Open
  PROVE  Timely(r, jobs)
  BY DEF Timely, Open

LEMMA OneTimely ==
  ASSUME TypeOK, InTime, NEW w \in WagerIds, NEW r, NEW jobs,
         wager' = [wager EXCEPT ![w] = r], job' = [job EXCEPT ![w] = jobs],
         Timely(r, jobs), OnTime(wager[w], r)
  PROVE  InTime' /\ Punctual
  <1> SUFFICES ASSUME NEW v \in WagerIds
               PROVE  Timely(wager'[v], job'[v]) /\ OnTime(wager[v], wager'[v])
    BY DEF InTime, Punctual, Timely, Timed
  <1>1. CASE v = w
    <2>1. wager'[v] = r /\ job'[v] = jobs
      BY <1>1 DEF TypeOK
    <2> QED BY <1>1, <2>1
  <1>2. CASE v # w
    <2>1. wager'[v] = wager[v] /\ job'[v] = job[v]
      BY <1>2 DEF TypeOK
    <2> QED BY <2>1, SameOnTime DEF InTime
  <1> QED BY <1>1, <1>2

(* A step that leaves the wagers alone and no expiry job earlier or newly  *)
(* claimed before its time.                                                *)
LEMMA JobsStayTimely ==
  ASSUME InTime,
         \A v \in WagerIds : wager'[v] = wager[v],
         \A v \in WagerIds, q \in Phases :
           \A left \in Nat : Timed(left, job[v][q]) => Timed(left, job'[v][q]),
         TypeOK
  PROVE  InTime' /\ Punctual
  <1> SUFFICES ASSUME NEW v \in WagerIds
               PROVE  Timely(wager'[v], job'[v]) /\ OnTime(wager[v], wager'[v])
    BY DEF InTime, Punctual, Timely, Timed
  <1>1. wager[v].draftLeft \in Nat /\ wager[v].offerLeft \in Nat
    <2>1. wager[v] \in WagerRecord
      BY DEF TypeOK
    <2> QED BY <2>1 DEF WagerRecord
  <1>2. "draft_expiry" \in Phases /\ "offer_expiry" \in Phases
    BY DEF Phases
  <1>3. Timely(wager[v], job[v]) /\ wager'[v] = wager[v]
    BY DEF InTime
  <1>4. Timely(wager[v], job'[v])
    BY <1>1, <1>2, <1>3 DEF Timely
  <1> QED BY <1>3, <1>4, SameOnTime

LEMMA MovedAuthority ==
  ASSUME NEW r \in WagerRecord, NEW s \in States
  PROVE  Moved(r, s).authority = r.authority
  BY DEF Moved, WagerRecord

(* Applying a phase to a wager whose expiry, if that is the phase, is past *)
(* or which is a self-test; js is what becomes of the jobs.                *)
LEMMA AppliedTimely ==
  ASSUME TypeOK, InTime, NEW w \in WagerIds, NEW p \in Phases, NEW js,
         p = "draft_expiry" /\ wager[w].state = "draft" =>
           wager[w].draftLeft = 0 \/ wager[w].terms.test,
         p = "offer_expiry" /\ wager[w].state = "offered" =>
           wager[w].offerLeft = 0 \/ wager[w].terms.test,
         \A q \in Phases \ {p} : js[q] = Applied(w, p).jobs[q]
  PROVE  Timely(Applied(w, p).wager, js) /\ OnTime(wager[w], Applied(w, p).wager)
  <1> DEFINE r == wager[w]
             a == Applied(w, p)
  <1>1. r \in WagerRecord
    BY DEF TypeOK
  <1>2. Timely(r, job[w])
    BY DEF InTime
  <1>4. /\ Moved(r, "expired").state = "expired"
        /\ Moved(r, "disputed").state = "disputed"
        /\ Moved(r, "expired").authority = r.authority
        /\ Moved(r, "disputed").authority = r.authority
    BY <1>1, MovedType, MovedAuthority DEF States, Terminal, Unfunded, Funded
  <1> SUFFICES Timely(a.wager, js) /\ OnTime(r, a.wager)
    OBVIOUS
  <1>5. CASE \/ p = "draft_expiry" /\ r.state = "draft"
             \/ p = "offer_expiry" /\ r.state = "offered"
    <2>1. a.wager = Moved(r, "expired")
      BY <1>5 DEF Applied
    <2> HIDE DEF a
    <2>2. Timely(a.wager, js)
      BY <1>4, <2>1, ClosedTimely DEF Open
    <2>3. OnTime(r, a.wager)
      BY <1>4, <1>5, <2>1 DEF OnTime
    <2> QED BY <2>2, <2>3
  <1>6. CASE p = "reminder" /\ r.state \in {"accepted_funded", "awaiting_resolution"}
    <2>1. a.wager = [r EXCEPT !.reminded = TRUE]
      BY <1>6 DEF Applied
    <2>2. a.wager.state = r.state /\ a.wager.authority = r.authority
      BY <1>1, <2>1 DEF WagerRecord
    <2> HIDE DEF a
    <2>3. Timely(a.wager, js)
      BY <1>6, <2>2, ClosedTimely DEF Open
    <2> QED BY <2>2, <2>3, SameOnTime
  <1>7. CASE p = "outcome_due" /\ r.state = "accepted_funded"
    <2>1. a.wager = [r EXCEPT !.state = "awaiting_resolution"]
      BY <1>7 DEF Applied
    <2>2. a.wager.state = "awaiting_resolution" /\ a.wager.authority = r.authority
      BY <1>1, <2>1 DEF WagerRecord
    <2> HIDE DEF a
    <2>3. Timely(a.wager, js)
      BY <2>2, ClosedTimely DEF Open
    <2>4. OnTime(r, a.wager)
      BY <1>7, <2>2 DEF OnTime
    <2> QED BY <2>3, <2>4
  <1>8. CASE p = "grace" /\ r.state \in {"accepted_funded", "awaiting_resolution"}
    <2>1. a.wager = Moved(r, "disputed")
      BY <1>8 DEF Applied
    <2> HIDE DEF a
    <2>2. Timely(a.wager, js)
      BY <1>4, <2>1, ClosedTimely DEF Open
    <2>3. OnTime(r, a.wager)
      BY <1>4, <1>8, <2>1 DEF OnTime
    <2> QED BY <2>2, <2>3
  <1>9. CASE /\ a.wager = r /\ a.jobs = job[w]
             /\ ~(p = "draft_expiry" /\ r.state = "draft")
             /\ ~(p = "offer_expiry" /\ r.state = "offered")
    <2>1. r.state = "draft" => js["draft_expiry"] = job[w]["draft_expiry"]
      BY <1>9 DEF Phases
    <2>2. r.state = "offered" => js["offer_expiry"] = job[w]["offer_expiry"]
      BY <1>9 DEF Phases
    <2>3. Timely(r, js)
      BY <1>2, <2>1, <2>2 DEF Timely
    <2> HIDE DEF a
    <2> QED BY <1>9, <2>3, SameOnTime
  <1> QED BY <1>5, <1>6, <1>7, <1>8, <1>9 DEF Applied

LEMMA MemberStepTimely ==
  ASSUME TypeOK, InTime, NEW w \in WagerIds, NEW u \in Users, MemberStep(w, u)
  PROVE  InTime' /\ Punctual
  <1> DEFINE r == wager[w]
  <1>t. /\ r \in WagerRecord /\ job[w] \in [Phases -> JobRecord]
        /\ job \in [WagerIds -> [Phases -> JobRecord]]
    BY DEF TypeOK
  <1>c. Timely(r, job[w])
    BY DEF InTime
  <1>n. /\ r.draftLeft \in Nat /\ r.offerLeft \in Nat /\ r.graceLeft \in Nat
        /\ job[w]["draft_expiry"].wait \in Nat
    <2>1. job[w]["draft_expiry"] \in JobRecord
      BY <1>t DEF Phases
    <2> QED BY <1>t, <2>1 DEF WagerRecord, JobRecord
  <1>l. \A n \in Nat : Timed(n, Scheduled(n))
    <2> SUFFICES ASSUME NEW n \in Nat PROVE Timed(n, Scheduled(n))
      OBVIOUS
    <2>1. Scheduled(n).state = "pending" /\ Scheduled(n).wait = n
      BY DEF Scheduled, AbsentJob
    <2> QED BY <2>1 DEF Timed
  <1>p. {"draft_expiry", "offer_expiry"} \subseteq Phases
    BY DEF Phases
  <1>1. ASSUME NEW a \in Agreements, CreateDraft(w, u, a)
        PROVE  InTime' /\ Punctual
    <2> DEFINE jobs == [job[w] EXCEPT !["draft_expiry"] = Scheduled(DraftLifetime)]
    <2>1. /\ wager' = [wager EXCEPT ![w] = Drafted(a)]
          /\ job' = [job EXCEPT ![w] = jobs] /\ r.state = "absent"
      BY <1>1 DEF CreateDraft
    <2>2. /\ Drafted(a).state = "draft" /\ Drafted(a).draftLeft = DraftLifetime
          /\ Drafted(a).authority = "none"
      BY DEF Drafted
    <2>3. jobs["draft_expiry"] = Scheduled(DraftLifetime)
      BY <1>t, <1>p
    <2>4. DraftLifetime \in Nat
      BY WagerAssumption
    <2> HIDE DEF jobs
    <2>5. Timely(Drafted(a), jobs)
      BY <1>l, <2>2, <2>3, <2>4 DEF Timely
    <2>6. OnTime(r, Drafted(a))
      BY <2>1, <2>2 DEF OnTime
    <2> QED BY <2>1, <2>5, <2>6, OneTimely
  <1>2. ASSUME NEW q \in WagerRecord, Record(w, q), q.authority = r.authority,
               \/ /\ q.state = r.state
                  /\ q.draftLeft = r.draftLeft /\ q.offerLeft = r.offerLeft
               \/ q.state = "awaiting_resolution" /\ r.state = "accepted_funded"
        PROVE  InTime' /\ Punctual
    <2>1. job' = [job EXCEPT ![w] = job[w]] /\ wager' = [wager EXCEPT ![w] = q]
      BY <1>2, <1>t DEF Record
    <2>2. Timely(q, job[w])
      BY <1>2, <1>c DEF Timely
    <2>3. OnTime(r, q)
      BY <1>2 DEF OnTime
    <2> QED BY <2>1, <2>2, <2>3, OneTimely
  <1>3. ASSUME NEW s \in Unfunded, Close(w, s),
               s = "expired" /\ r.state = "draft" => r.draftLeft = 0,
               s = "expired" /\ r.state = "offered" => r.offerLeft = 0
        PROVE  InTime' /\ Punctual
    <2> DEFINE q == Moved(r, s)
               jobs == Cancelled(job[w], {"draft_expiry", "offer_expiry"})
    <2>1. q.state = s /\ q.authority = r.authority
      BY <1>t, MovedType, MovedAuthority DEF States, Terminal
    <2>2. wager' = [wager EXCEPT ![w] = q] /\ job' = [job EXCEPT ![w] = jobs]
      BY <1>3 DEF Close
    <2> HIDE DEF q, jobs
    <2>3. Timely(q, jobs)
      BY <2>1, ClosedTimely DEF Open, Unfunded
    <2>4. OnTime(r, q)
      BY <1>3, <2>1 DEF OnTime, Unfunded
    <2> QED BY <2>2, <2>3, <2>4, OneTimely
  <1>4. ASSUME NEW q \in WagerRecord, Dispute(w, q), q.authority = r.authority
        PROVE  InTime' /\ Punctual
    <2> DEFINE z == Moved(q, "disputed")
               jobs == Cancelled(job[w], {"reminder", "outcome_due", "grace"})
    <2>1. z.state = "disputed" /\ z.authority = r.authority
      BY <1>4, MovedType, MovedAuthority DEF States, Funded
    <2>2. wager' = [wager EXCEPT ![w] = z] /\ job' = [job EXCEPT ![w] = jobs]
      BY <1>4 DEF Dispute
    <2> HIDE DEF z, jobs
    <2>3. Timely(z, jobs)
      BY <2>1, ClosedTimely DEF Open
    <2>4. OnTime(r, z)
      BY <2>1 DEF OnTime
    <2> QED BY <2>2, <2>3, <2>4, OneTimely
  <1>5. ASSUME NEW q \in WagerRecord, NEW x, NEW y, Settle(w, q, x, y),
               y \in {"mutual", "judge", "owner"}, y = "judge" => r.graceLeft > 0
        PROVE  InTime' /\ Punctual
    <2> DEFINE s == IF x = "void" THEN "void_refunded" ELSE "resolved"
               m == Moved(q, s)
               z == [m EXCEPT !.winner = IF x = "void" THEN "none" ELSE x,
                              !.authority = y]
               jobs == Cancelled(job[w], {"reminder", "outcome_due", "grace"})
    <2>1. s \in Paid /\ s \in States
      BY DEF States, Terminal, Paid
    <2>2. m \in WagerRecord /\ m.state = s
      <3> HIDE DEF s
      <3> QED BY <2>1, MovedType
    <2>3. z.state = s /\ z.authority = y
      <3> HIDE DEF m, s
      <3> QED BY <2>2 DEF WagerRecord
    <2>4. wager' = [wager EXCEPT ![w] = z] /\ job' = [job EXCEPT ![w] = jobs]
      BY <1>5 DEF Settle
    <2> HIDE DEF z, s, jobs
    <2>5. Timely(z, jobs)
      BY <2>1, <2>3, ClosedTimely DEF Open, Paid
    <2>6. OnTime(r, z)
      BY <1>5, <2>1, <2>3 DEF OnTime, Paid
    <2> QED BY <2>4, <2>5, <2>6, OneTimely
  <1>6. CASE Confirm(w, u)
    <2> DEFINE m == Moved(r, "offered")
               q == [m EXCEPT !.offerLeft = OfferLifetime]
               jobs == [Cancelled(job[w], {"draft_expiry"}) EXCEPT
                          !["offer_expiry"] = Scheduled(OfferLifetime)]
    <2>1. m \in WagerRecord /\ m.state = "offered" /\ m.authority = r.authority
      BY <1>t, MovedType, MovedAuthority DEF States, Open
    <2>2. /\ q.state = "offered" /\ q.authority = r.authority
          /\ q.offerLeft = OfferLifetime
      <3> HIDE DEF m
      <3> QED BY <2>1 DEF WagerRecord
    <2>3. Cancelled(job[w], {"draft_expiry"}) \in [Phases -> JobRecord]
      BY <1>t, CancelledType
    <2>4. jobs["offer_expiry"] = Scheduled(OfferLifetime) /\ OfferLifetime \in Nat
      BY <2>3, <1>p, WagerAssumption
    <2>5. wager' = [wager EXCEPT ![w] = q] /\ job' = [job EXCEPT ![w] = jobs]
      BY <1>6 DEF Confirm
    <2> HIDE DEF q, jobs
    <2>6. Timely(q, jobs)
      BY <1>l, <2>2, <2>4 DEF Timely
    <2>7. OnTime(r, q)
      BY <2>2 DEF OnTime
    <2> QED BY <2>5, <2>6, <2>7, OneTimely
  <1>7. CASE Accept(w, u)
    <2> DEFINE m == Moved(r, "accepted_funded")
               q == [m EXCEPT !.graceLeft = OutcomeWindow + Grace]
    <2>1. m \in WagerRecord /\ m.state = "accepted_funded" /\ m.authority = r.authority
      BY <1>t, MovedType, MovedAuthority DEF States, Funded
    <2>2. q.state = "accepted_funded" /\ q.authority = r.authority
      <3> HIDE DEF m
      <3> QED BY <2>1 DEF WagerRecord
    <2>3. wager' = [wager EXCEPT ![w] = q]
      BY <1>7 DEF Accept, Fund
    <2>4. \E jobs : job' = [job EXCEPT ![w] = jobs]
      BY <1>7 DEF Accept, Fund
    <2>5. r.offerLeft > 0
      <3>1. r.state = "offered" /\ r.offerLeft # 0
        BY <1>7 DEF Accept, Acts, Overdue
      <3> QED BY <1>n, <3>1
    <2> HIDE DEF q
    <2>6. \A jobs : Timely(q, jobs)
      BY <2>2, ClosedTimely DEF Open
    <2>7. OnTime(r, q)
      BY <2>2, <2>5 DEF OnTime
    <2> QED BY <2>3, <2>4, <2>6, <2>7, OneTimely
  <1>8. ASSUME NEW s \in Stakes, Preview(w, u, s) PROVE InTime' /\ Punctual
    <2> DEFINE q == [r EXCEPT !.stake = s]
    <2>1. /\ q \in WagerRecord /\ q.state = r.state /\ q.authority = r.authority
          /\ q.draftLeft = r.draftLeft /\ q.offerLeft = r.offerLeft
      BY <1>t DEF WagerRecord
    <2>2. Record(w, q)
      BY <1>8 DEF Preview
    <2> HIDE DEF q
    <2> QED BY <1>2, <2>1, <2>2
  <1>9. CASE CleanUp(w, u)
    <2> DEFINE q == [r EXCEPT !.cleaned = TRUE]
    <2>1. /\ q \in WagerRecord /\ q.state = r.state /\ q.authority = r.authority
          /\ q.draftLeft = r.draftLeft /\ q.offerLeft = r.offerLeft
      BY <1>t DEF WagerRecord
    <2>2. Record(w, q)
      BY <1>9 DEF CleanUp
    <2> HIDE DEF q
    <2> QED BY <1>2, <2>1, <2>2
  <1>10. ASSUME NEW side \in Sides, ConsentToVoid(w, u, side)
         PROVE  InTime' /\ Punctual
    <2> DEFINE q == [r EXCEPT !.voids = @ \cup {side}]
               y == [q EXCEPT !.agreed = side]
    <2>1. /\ q \in WagerRecord /\ q.state = r.state /\ q.authority = r.authority
          /\ q.draftLeft = r.draftLeft /\ q.offerLeft = r.offerLeft
      BY <1>t DEF WagerRecord
    <2>2. y \in WagerRecord
      <3> HIDE DEF q
      <3> QED BY <2>1 DEF WagerRecord
    <2>3. Settle(w, y, "void", "mutual") \/ Record(w, q)
      BY <1>10 DEF ConsentToVoid
    <2> HIDE DEF q, y
    <2> QED BY <1>2, <1>5, <2>1, <2>2, <2>3
  <1>11. ASSUME NEW side \in Sides, Adopt(w, u, side) PROVE InTime' /\ Punctual
    <2>1. [r EXCEPT !.agreed = side] \in WagerRecord
      BY <1>t DEF WagerRecord
    <2> QED BY <1>5, <1>11, <2>1 DEF Adopt
  <1>12. ASSUME NEW side \in Sides, NEW winner \in Sides,
                SubmitOutcome(w, u, side, winner)
         PROVE  InTime' /\ Punctual
    <2> DEFINE q == [r EXCEPT !.said[side] = winner,
                              !.state = IF @ = "accepted_funded"
                                        THEN "awaiting_resolution" ELSE @]
               y == [q EXCEPT !.agreed = side]
    <2>1. /\ q \in WagerRecord /\ q.authority = r.authority
          /\ \/ /\ q.state = r.state
                /\ q.draftLeft = r.draftLeft /\ q.offerLeft = r.offerLeft
             \/ q.state = "awaiting_resolution" /\ r.state = "accepted_funded"
      <3> DEFINE z == [r EXCEPT !.said[side] = winner]
                 x == IF r.state = "accepted_funded"
                      THEN "awaiting_resolution" ELSE r.state
      <3>1. /\ z \in WagerRecord /\ z.state = r.state /\ z.authority = r.authority
            /\ z.draftLeft = r.draftLeft /\ z.offerLeft = r.offerLeft
        BY <1>t DEF WagerRecord
      <3>2. /\ x \in States
            /\ \/ x = r.state
               \/ x = "awaiting_resolution" /\ r.state = "accepted_funded"
        BY <1>t DEF WagerRecord, States, Funded
      <3>3. q = [z EXCEPT !.state = x]
        BY <1>t DEF WagerRecord
      <3> HIDE DEF z, x, q
      <3>4. /\ q \in WagerRecord /\ q.state = x /\ q.authority = z.authority
            /\ q.draftLeft = z.draftLeft /\ q.offerLeft = z.offerLeft
        BY <3>1, <3>2, <3>3 DEF WagerRecord, States
      <3> QED BY <3>1, <3>2, <3>4
    <2>2. y \in WagerRecord
      <3> HIDE DEF q
      <3> QED BY <2>1 DEF WagerRecord
    <2>3. Settle(w, y, winner, "mutual") \/ Dispute(w, q) \/ Record(w, q)
      BY <1>12 DEF SubmitOutcome
    <2> HIDE DEF q, y
    <2> QED BY <1>2, <1>4, <1>5, <2>1, <2>2, <2>3
  <1>13. ASSUME NEW result \in Sides \cup {"void"}, Judge(w, u, result)
         PROVE  InTime' /\ Punctual
    BY <1>t, <1>5, <1>13 DEF Judge, JudgeMay
  <1>14. ASSUME NEW p \in Phases, ForceDeadline(w, u, p)
         PROVE  InTime' /\ Punctual
    <2> DEFINE a == Applied(w, p)
    <2>1. r.terms.test
      BY <1>14 DEF ForceDeadline
    <2>2. a.jobs \in [Phases -> JobRecord]
      BY AppliedType
    <2>3. ASSUME NEW js, wager' = [wager EXCEPT ![w] = a.wager],
                 job' = [job EXCEPT ![w] = js],
                 \A q \in Phases \ {p} : js[q] = a.jobs[q]
          PROVE  InTime' /\ Punctual
      <3>1. Timely(a.wager, js) /\ OnTime(r, a.wager)
        BY <2>1, <2>3, AppliedTimely
      <3> HIDE DEF a
      <3> QED BY <2>3, <3>1, OneTimely
    <2>4. CASE /\ wager' = [wager EXCEPT ![w] = a.wager]
               /\ job' = [job EXCEPT ![w] = a.jobs]
      <3> HIDE DEF a
      <3> QED BY <2>3, <2>4
    <2>5. CASE /\ p = "reminder"
               /\ wager' = [wager EXCEPT ![w] = a.wager]
               /\ job' = [job EXCEPT ![w] = Cancelled(a.jobs, {"reminder"})]
      <3>1. \A q \in Phases \ {p} : Cancelled(a.jobs, {"reminder"})[q] = a.jobs[q]
        BY <2>2, <2>5, CancelledOther
      <3> HIDE DEF a
      <3> QED BY <2>3, <2>5, <3>1
    <2>6. CASE /\ wager' = wager
               /\ job' = [job EXCEPT ![w] = Cancelled(@, {"reminder"})]
      <3> DEFINE jobs == Cancelled(job[w], {"reminder"})
      <3>1. /\ jobs["draft_expiry"] = job[w]["draft_expiry"]
            /\ jobs["offer_expiry"] = job[w]["offer_expiry"]
        BY <1>t, <1>p, CancelledOther
      <3>2. wager' = [wager EXCEPT ![w] = r] /\ job' = [job EXCEPT ![w] = jobs]
        BY <2>6 DEF TypeOK
      <3> HIDE DEF jobs
      <3>3. Timely(r, jobs)
        BY <1>c, <3>1 DEF Timely
      <3> QED BY <3>2, <3>3, OneTimely, SameOnTime
    <2> QED BY <1>14, <2>4, <2>5, <2>6 DEF ForceDeadline
  <1>15. CASE ExpireOnTouch(w, u)
    <2>1. r.state = "draft" => r.draftLeft = 0
      <3>1. r.state = "draft" => job[w]["draft_expiry"].wait = 0
        BY <1>15 DEF ExpireOnTouch, Overdue
      <3>2. r.state = "draft" => r.draftLeft <= job[w]["draft_expiry"].wait
        BY <1>c DEF Timely, Timed
      <3> QED BY <1>n, <3>1, <3>2
    <2>2. r.state = "offered" => r.offerLeft = 0
      BY <1>15 DEF ExpireOnTouch, Overdue
    <2>3. "expired" \in Unfunded
      BY DEF Unfunded
    <2> QED BY <1>3, <1>15, <2>1, <2>2, <2>3 DEF ExpireOnTouch
  <1>16. CASE Discard(w, u) \/ Decline(w, u) \/ Withdraw(w, u)
    <2>1. "cancelled" \in Unfunded /\ "declined" \in Unfunded
      BY DEF Unfunded
    <2> QED BY <1>3, <1>16, <2>1 DEF Discard, Decline, Withdraw
  <1>17. CASE RaiseDispute(w, u)
    BY <1>t, <1>4, <1>17 DEF RaiseDispute
  <1> QED
    BY <1>1, <1>6, <1>7, <1>8, <1>9, <1>10, <1>11, <1>12, <1>13, <1>14, <1>15,
       <1>16, <1>17
    DEF MemberStep

LEMMA EarlierTogether ==
  ASSUME NEW m \in Nat, NEW n \in Nat, m <= n
  PROVE  Earlier(m) \in Nat /\ Earlier(m) <= Earlier(n)
  BY DEF Earlier

LEMMA SweptTimed ==
  ASSUME NEW j \in JobRecord, NEW left \in Nat, Timed(left, j)
  PROVE  Timed(left, Swept(j))
  <1>1. CASE Exhausted(j)
    <2>1. Dead(j).state = "dead" /\ Dead(j).wait = j.wait
      BY DEF Dead, JobRecord
    <2> QED BY <1>1, <2>1 DEF Swept, Timed
  <1>2. CASE ~Exhausted(j)
    BY <1>2 DEF Swept
  <1> QED BY <1>1, <1>2

LEMMA StepTimely ==
  ASSUME TypeOK, ClaimsMatch, InTime, [Next]_vars
  PROVE  InTime' /\ Punctual
  <1>t. job \in [WagerIds -> [Phases -> JobRecord]]
    BY DEF TypeOK
  <1>p. "draft_expiry" \in Phases /\ "offer_expiry" \in Phases
    BY DEF Phases
  <1>1. ASSUME NEW w \in WagerIds, NEW u \in Users, MemberStep(w, u)
        PROVE  InTime' /\ Punctual
    BY <1>1, MemberStepTimely
  <1>2. ASSUME NEW w \in WagerIds, Reveal(w) PROVE InTime' /\ Punctual
    <2> DEFINE q == [wager[w] EXCEPT !.revealed = TRUE]
    <2>1. wager[w] \in WagerRecord
      BY DEF TypeOK
    <2>2. /\ q.state = wager[w].state /\ q.authority = wager[w].authority
          /\ q.draftLeft = wager[w].draftLeft /\ q.offerLeft = wager[w].offerLeft
      BY <2>1 DEF WagerRecord
    <2>3. wager' = [wager EXCEPT ![w] = q] /\ job' = [job EXCEPT ![w] = job[w]]
      BY <1>2, <1>t DEF Reveal, Record
    <2> HIDE DEF q
    <2>4. Timely(q, job[w])
      BY <2>2 DEF InTime, Timely
    <2> QED BY <2>2, <2>3, <2>4, OneTimely, SameOnTime
  <1>3. ASSUME NEW w \in WagerIds, NEW p \in Phases, Due(job[w][p])
        PROVE  /\ p = "draft_expiry" /\ wager[w].state = "draft"
                    => wager[w].draftLeft = 0
               /\ p = "offer_expiry" /\ wager[w].state = "offered"
                    => wager[w].offerLeft = 0
    <2>1. wager[w] \in WagerRecord /\ job[w][p] \in JobRecord
      BY <1>t DEF TypeOK
    <2>2. wager[w].draftLeft \in Nat /\ wager[w].offerLeft \in Nat
      BY <2>1 DEF WagerRecord
    <2> QED BY <1>3, <2>2 DEF InTime, Timely, Timed, Due
  <1>4. ASSUME NEW k \in Workers, Claim(k) PROVE InTime' /\ Punctual
    <2>1. PICK w \in WagerIds, p \in Phases :
            /\ Claimable(job[w][p])
            /\ job' = [v \in WagerIds |-> [q \in Phases |->
                     IF v = w /\ q = p
                     THEN [job[w][p] EXCEPT !.state = "claimed",
                             !.attempts = @ + 1, !.holder = k,
                             !.lease = JobLease]
                     ELSE Swept(job[v][q])]]
      BY <1>4 DEF Claim
    <2>2. wager' = wager /\ Due(job[w][p])
      BY <1>4, <2>1 DEF Claim, Claimable
    <2> DEFINE j == [job[w][p] EXCEPT !.state = "claimed", !.attempts = @ + 1,
                                      !.holder = k, !.lease = JobLease]
    <2>3. job[w][p] \in JobRecord
      BY <1>t
    <2>4. j.wait = job[w][p].wait
      BY <2>3 DEF JobRecord
    <2>5. ASSUME NEW v \in WagerIds, NEW q \in Phases, v # w \/ q # p,
                 NEW left \in Nat, Timed(left, job[v][q])
          PROVE  Timed(left, job'[v][q])
      <3>1. job'[v][q] = Swept(job[v][q])
        BY <2>1, <2>5
      <3> QED BY <1>t, <2>5, <3>1, SweptTimed
    <2>6. job'[w][p] = j
      BY <2>1
    <2> HIDE DEF j
    <2> SUFFICES ASSUME NEW v \in WagerIds
                 PROVE  Timely(wager'[v], job'[v]) /\ OnTime(wager[v], wager'[v])
      BY DEF InTime, Punctual, Timely, Timed
    <2>7. wager[v].draftLeft \in Nat /\ wager[v].offerLeft \in Nat
      <3>1. wager[v] \in WagerRecord
        BY DEF TypeOK
      <3> QED BY <3>1 DEF WagerRecord
    <2>8. Timely(wager[v], job[v])
      BY DEF InTime
    <2>9. wager[v].state = "draft" => Timed(wager[v].draftLeft, job'[v]["draft_expiry"])
      <3>1. CASE v = w /\ p = "draft_expiry"
        BY <1>3, <2>2, <2>4, <2>6, <2>8, <3>1 DEF Timely, Timed
      <3>2. CASE ~(v = w /\ p = "draft_expiry")
        BY <1>p, <2>5, <2>7, <2>8, <3>2 DEF Timely
      <3> QED BY <3>1, <3>2
    <2>10. wager[v].state = "offered" => Timed(wager[v].offerLeft, job'[v]["offer_expiry"])
      <3>1. CASE v = w /\ p = "offer_expiry"
        BY <1>3, <2>2, <2>4, <2>6, <2>8, <3>1 DEF Timely, Timed
      <3>2. CASE ~(v = w /\ p = "offer_expiry")
        BY <1>p, <2>5, <2>7, <2>8, <3>2 DEF Timely
      <3> QED BY <3>1, <3>2
    <2> QED BY <2>2, <2>9, <2>10, SameOnTime DEF Timely
  <1>5. ASSUME NEW k \in Workers, Sweep(k) PROVE InTime' /\ Punctual
    <2>1. ASSUME NEW v \in WagerIds, NEW q \in Phases,
                 NEW left \in Nat, Timed(left, job[v][q])
          PROVE  Timed(left, job'[v][q])
      <3>1. job'[v][q] = Swept(job[v][q])
        BY <1>5 DEF Sweep
      <3> QED BY <1>t, <2>1, <3>1, SweptTimed
    <2> QED BY <1>5, <2>1, JobsStayTimely DEF Sweep
  <1>6. ASSUME NEW k \in Workers, FireDeadline(k) PROVE InTime' /\ Punctual
    <2> DEFINE w == claim[k].wager
               p == claim[k].phase
               jobs == [Applied(w, p).jobs EXCEPT ![p] = Ended]
    <2>1. w \in WagerIds /\ p \in Phases
      BY <1>6, ClaimType DEF FireDeadline, Holds
    <2>2. /\ wager' = [wager EXCEPT ![w] = Applied(w, p).wager]
          /\ job' = [job EXCEPT ![w] = jobs]
      BY <1>6 DEF FireDeadline
    <2>3. job[w][p].state = "claimed"
      BY <1>6 DEF FireDeadline, Holds
    <2>4. Timely(wager[w], job[w])
      BY <2>1 DEF InTime
    <2>5. Applied(w, p).jobs \in [Phases -> JobRecord]
      BY <2>1, AppliedType
    <2> HIDE DEF w, p
    <2>6. \A q \in Phases \ {p} : jobs[q] = Applied(w, p).jobs[q]
      BY <2>1, <2>5
    <2> HIDE DEF jobs
    <2>7. Timely(Applied(w, p).wager, jobs) /\ OnTime(wager[w], Applied(w, p).wager)
      <3>1. p = "draft_expiry" /\ wager[w].state = "draft" => wager[w].draftLeft = 0
        BY <2>3, <2>4 DEF Timely, Timed
      <3>2. p = "offer_expiry" /\ wager[w].state = "offered" => wager[w].offerLeft = 0
        BY <2>3, <2>4 DEF Timely, Timed
      <3> QED BY <2>1, <2>6, <3>1, <3>2, AppliedTimely
    <2> QED BY <2>1, <2>2, <2>7, OneTimely
  <1>7. ASSUME NEW k \in Workers, HandlerThrows(k) \/ ReleaseClaim(k)
        PROVE  InTime' /\ Punctual
    <2> DEFINE w == claim[k].wager
               p == claim[k].phase
    <2>1. w \in WagerIds /\ p \in Phases
      BY <1>7, ClaimType DEF HandlerThrows, ReleaseClaim
    <2>2. job[w][p] \in JobRecord
      BY <2>1, <1>t
    <2>3. \/ job' = job
          \/ /\ job[w][p].state = "claimed"
             /\ \E j \in {Retried(job[w][p]), Dead(job[w][p]), Uncounted(job[w][p])} :
                  job' = [job EXCEPT ![w][p] = j]
      BY <1>7 DEF HandlerThrows, ReleaseClaim, Holds
    <2>4. ASSUME job[w][p].state = "claimed",
                 NEW left \in Nat, Timed(left, job[w][p]),
                 NEW j \in {Retried(job[w][p]), Dead(job[w][p]), Uncounted(job[w][p])}
          PROVE  Timed(left, j)
      <3> HIDE DEF w, p
      <3>1. left = 0
        BY <2>4 DEF Timed
      <3>2. j.wait \in Nat /\ j.state # "claimed"
        <4>1. RetryDelay \in Nat
          BY WagerAssumption
        <4>2. CASE j = Retried(job[w][p])
          BY <2>2, <4>1, <4>2 DEF Retried, JobRecord
        <4>3. CASE j = Dead(job[w][p])
          BY <2>2, <4>3 DEF Dead, JobRecord
        <4>4. CASE j = Uncounted(job[w][p])
          BY <2>2, <4>4 DEF Uncounted, JobRecord
        <4> QED BY <2>4, <4>2, <4>3, <4>4
      <3> QED BY <3>1, <3>2 DEF Timed
    <2> HIDE DEF w, p
    <2>5. ASSUME NEW v \in WagerIds, NEW q \in Phases,
                 NEW left \in Nat, Timed(left, job[v][q])
          PROVE  Timed(left, job'[v][q])
      <3>1. CASE job' = job
        BY <2>5, <3>1
      <3>2. CASE job' # job
        <4>1. PICK j \in {Retried(job[w][p]), Dead(job[w][p]), Uncounted(job[w][p])} :
                job' = [job EXCEPT ![w][p] = j]
          BY <2>3, <3>2
        <4>2. CASE v = w /\ q = p
          <5>1. job'[v][q] = j
            BY <1>t, <2>1, <4>1, <4>2
          <5> QED BY <2>3, <2>4, <2>5, <3>2, <4>2, <5>1
        <4>3. CASE ~(v = w /\ q = p)
          <5>1. job'[v][q] = job[v][q]
            BY <1>t, <2>1, <4>1, <4>3
          <5> QED BY <2>5, <5>1
        <4> QED BY <4>2, <4>3
      <3> QED BY <3>1, <3>2
    <2> QED BY <1>7, <2>5, JobsStayTimely DEF HandlerThrows, ReleaseClaim
  <1>8. CASE Tick
    <2>a. ASSUME NEW v \in WagerIds
          PROVE  wager'[v] = [wager[v] EXCEPT !.draftLeft = Earlier(@),
                                !.offerLeft = Earlier(@), !.graceLeft = Earlier(@)]
      BY <1>8 DEF Tick
    <2>b. ASSUME NEW v \in WagerIds, NEW q \in Phases
          PROVE  job'[v][q] = [job[v][q] EXCEPT !.wait = Earlier(@),
                                                !.lease = Earlier(@)]
      BY <1>8 DEF Tick
    <2> SUFFICES ASSUME NEW v \in WagerIds
                 PROVE  Timely(wager'[v], job'[v]) /\ OnTime(wager[v], wager'[v])
      BY DEF InTime, Punctual, Timely, Timed
    <2>1. wager[v] \in WagerRecord
      BY DEF TypeOK
    <2>2. wager'[v] = [wager[v] EXCEPT !.draftLeft = Earlier(@),
                         !.offerLeft = Earlier(@), !.graceLeft = Earlier(@)]
      BY <2>a
    <2>3. /\ wager'[v].state = wager[v].state
          /\ wager'[v].authority = wager[v].authority
          /\ wager'[v].draftLeft = Earlier(wager[v].draftLeft)
          /\ wager'[v].offerLeft = Earlier(wager[v].offerLeft)
          /\ wager[v].draftLeft \in Nat /\ wager[v].offerLeft \in Nat
      BY <2>1, <2>2 DEF WagerRecord
    <2>4. ASSUME NEW q \in Phases, NEW left \in Nat, Timed(left, job[v][q])
          PROVE  Timed(Earlier(left), job'[v][q])
      <3>1. job[v][q] \in JobRecord
        BY <1>t
      <3>2. job'[v][q] = [job[v][q] EXCEPT !.wait = Earlier(@),
                                           !.lease = Earlier(@)]
        BY <2>b
      <3>3. /\ job'[v][q].state = job[v][q].state
            /\ job'[v][q].wait = Earlier(job[v][q].wait)
            /\ job[v][q].wait \in Nat
        BY <3>1, <3>2 DEF JobRecord
      <3>4. Earlier(left) <= Earlier(job[v][q].wait)
        BY <2>4, <3>3, EarlierTogether DEF Timed
      <3>5. left = 0 => Earlier(left) = 0
        BY DEF Earlier
      <3> QED BY <2>4, <3>3, <3>4, <3>5 DEF Timed
    <2>5. Timely(wager[v], job[v])
      BY DEF InTime
    <2>6. Timely(wager'[v], job'[v])
      BY <1>p, <2>3, <2>4, <2>5 DEF Timely
    <2> QED BY <2>3, <2>6, SameOnTime
  <1>9. CASE wager' = wager /\ job' = job
    BY <1>9, JobsStayTimely
  <1> QED
    BY <1>1, <1>2, <1>4, <1>5, <1>6, <1>7, <1>8, <1>9
    DEF Next, SchedulerStep, Crash, vars

(* No step runs ahead of a deadline or past it (act, apply_deadline,       *)
(* judge): an offer expires no earlier and is accepted no later than its   *)
(* stored expiry, a draft expires no earlier than its own, and the judge   *)
(* decides within the grace period.                                        *)
THEOREM DeadlinesAreKept == Spec => DeadlinesHold
  <1>1. Init => TypeOK /\ ClaimsMatch /\ InTime
    <2>1. Init => InTime
      <3>1. AbsentWager.state = "absent"
        <4>1. Drafted(CHOOSE a \in Agreements : TRUE) \in WagerRecord
          BY WagerAssumption, DraftedType
        <4> QED BY <4>1 DEF AbsentWager, WagerRecord
      <3> QED BY <3>1 DEF Init, InTime, Timely
    <2> QED BY <2>1, InitType
  <1>2. TypeOK /\ ClaimsMatch /\ InTime /\ [Next]_vars
          => TypeOK' /\ ClaimsMatch' /\ InTime'
    BY StepType, StepClaims, StepTimely
  <1>3. TypeOK /\ ClaimsMatch /\ InTime /\ [Next]_vars
          => [\A w \in WagerIds :
                LET r == wager[w]
                    q == wager'[w]
                    Moves(from, to) == r.state = from /\ q.state = to
                IN
                /\ Moves("offered", "expired") => r.offerLeft = 0 \/ r.terms.test
                /\ Moves("offered", "accepted_funded") => r.offerLeft > 0
                /\ Moves("draft", "expired") => r.draftLeft = 0 \/ r.terms.test
                /\ r.authority = "none" /\ q.authority = "judge"
                     => r.graceLeft > 0]_vars
    BY StepTimely DEF Punctual, OnTime
  <1> QED BY <1>1, <1>2, <1>3, PTL DEF Spec, DeadlinesHold

-----------------------------------------------------------------------------
(* The sealed notices, by which features tell a member something: they     *)
(* share no state with the wagers.  What is sealed stays sealed, and       *)
(* nothing is put aside unread or shown as new once more.                  *)

(* An attempt is for a notice of the one who asks; only what is reserved   *)
(* has a reservation that can lapse.                                       *)
Reserves(k) ==
  LET a == attempt[k] IN
  /\ a.state = "none" => a = N!Untried
  /\ k \in lapsed => a.state = "prepared"
  /\ a.note # None => Target[a.note] = Asker[k] /\ notice[a.note] # "none"

(* An edit belongs to the attempt of its interaction, and one that Discord *)
(* confirmed was seen.                                                     *)
Edits(q) ==
  /\ attempt[q.key].state # "none" /\ attempt[q.key].note = q.note
  /\ q.at = "shown" /\ q.note # None => <<q.note, Target[q.note]>> \in seen

(* What was delivered was seen, and is not new any more; what was put      *)
(* aside was delivered; a button that is used up was seen.                 *)
Told(k, n) == N!Delivered(k, n) => /\ <<n, Target[n]>> \in seen
                                 /\ notice[n] \notin {"none", "pending"}
Read(n) ==
  /\ notice[n] \in {"opened", "consumed"} => \E k \in Keys : N!Delivered(k, n)
  /\ token[n] = "used" => <<n, Target[n]>> \in seen

NInv ==
  /\ N!TypeOK /\ N!Sealed
  /\ \A k \in Keys : Reserves(k)
  /\ \A q \in wire : Edits(q)
  /\ \A k \in Keys, n \in Notes : Told(k, n)
  /\ \A n \in Notes : Read(n)

-----------------------------------------------------------------------------
(* What the helpers do                                                     *)

Wires == [key : Keys, note : Notes \cup {None}, at : {"sent", "shown", "unclear", "lost"}]

LEMMA AgedNotices ==
  ASSUME N!TypeOK, NEW S
  PROVE  /\ N!Aged(S) \in [Notes -> N!NoticeStates]
         /\ \A n \in Notes : \/ N!Aged(S)[n] = notice[n]
                             \/ notice[n] \in N!Live /\ N!Aged(S)[n] = "expired"
BY DEF N!TypeOK, N!Aged, N!Live, N!NoticeStates

LEMMA ReleasedAttempts ==
  ASSUME N!TypeOK
  PROVE  /\ N!Released \in [Keys -> N!Attempts]
         /\ \A k \in Keys : /\ N!Released[k].note = attempt[k].note
                            /\ N!Released[k].by = attempt[k].by
                            /\ N!Released[k].state =
                                 IF k \in lapsed THEN "failed" ELSE attempt[k].state
BY DEF N!TypeOK, N!Released, N!Attempts

(* What a reservation leaves of an attempt: nothing new, or the same one   *)
(* given up or made anew, or a first one.                                  *)
Moves(a, b, c) ==
  \/ b = a
  \/ /\ a.state \in {"prepared", "failed"} /\ b.state \in {"prepared", "failed"}
     /\ b.note = a.note
  \/ a.state = "none" /\ b.state = "prepared" /\ b.note = c

LEMMA PreparedAttempts ==
  ASSUME N!TypeOK, \A k \in Keys : Reserves(k),
         NEW k \in Keys, NEW by \in {"inbox", "button"}, NEW n \in Notes \cup {None},
         attempt[k].state = "none" \/ attempt[k].note = n
  PROVE  /\ N!Prepared(k, by, n) \in [Keys -> N!Attempts]
         /\ N!Prepared(k, by, n)[k].state # "none" /\ N!Prepared(k, by, n)[k].note = n
         /\ \A j \in Keys : Moves(attempt[j], N!Prepared(k, by, n)[j], n)
         /\ \A j \in Keys \ {k} : N!Prepared(k, by, n)[j].state # "none"
                                   => attempt[j].state # "none"
<1> DEFINE P == N!Prepared(k, by, n)
           new == [state |-> "prepared", by |-> by, note |-> n]
<1>0. attempt \in [Keys -> N!Attempts]
  BY DEF N!TypeOK, N!Attempts
<1>1. new \in N!Attempts
  BY DEF N!Attempts
<1>2. P = [N!Released EXCEPT ![k] = IF N!Released[k].state \in {"none", "failed"}
                                  THEN new ELSE N!Released[k]]
  BY ReleasedAttempts DEF N!Prepared
<1>3. P \in [Keys -> N!Attempts]
  BY <1>1, <1>2, ReleasedAttempts
<1>4. \A j \in Keys \ {k} : P[j] = N!Released[j]
  BY <1>2, ReleasedAttempts
<1>5. P[k] = IF N!Released[k].state \in {"none", "failed"} THEN new ELSE N!Released[k]
  BY <1>2, ReleasedAttempts
<1>6. ASSUME NEW j \in Keys
      PROVE  /\ attempt[j].state = "none" <=> N!Released[j].state = "none"
             /\ j \in lapsed => attempt[j].state = "prepared"
             /\ j \notin lapsed => N!Released[j] = attempt[j]
  <2>1. j \in lapsed => attempt[j].state = "prepared"
    BY DEF Reserves
  <2>2. j \notin lapsed => N!Released[j] = attempt[j]
    BY DEF N!Released
  <2> QED
    BY <2>1, <2>2, ReleasedAttempts
<1>7. ASSUME NEW j \in Keys \ {k}
      PROVE  /\ Moves(attempt[j], P[j], n)
             /\ P[j].state # "none" => attempt[j].state # "none"
  <2>1. P[j] = N!Released[j]
    BY <1>4
  <2>2. CASE j \in lapsed
    <3>1. attempt[j].state = "prepared" /\ N!Released[j].state = "failed"
          /\ N!Released[j].note = attempt[j].note
      BY <1>6, <2>2, ReleasedAttempts
    <3> QED
      BY <2>1, <3>1 DEF Moves
  <2>3. CASE j \notin lapsed
    BY <1>6, <2>1, <2>3 DEF Moves
  <2> QED
    BY <2>2, <2>3
<1>8. Moves(attempt[k], P[k], n) /\ P[k].state # "none" /\ P[k].note = n
  <2>1. CASE attempt[k].state = "none"
    BY <1>0, <1>1, <1>3, <1>5, <1>6, <2>1, ReleasedAttempts DEF Moves, N!Attempts
  <2>2. CASE attempt[k].state # "none" /\ k \in lapsed
    <3>1. attempt[k].state = "prepared" /\ N!Released[k].state = "failed"
      BY <1>6, <2>2, ReleasedAttempts
    <3>2. P[k] = new
      BY <1>5, <3>1
    <3> QED
      BY <2>2, <3>1, <3>2 DEF Moves
  <2>3. CASE attempt[k].state # "none" /\ k \notin lapsed
    BY <1>0, <1>1, <1>3, <1>5, <1>6, <2>3, ReleasedAttempts DEF Moves, N!Attempts
  <2> QED
    BY <2>1, <2>2, <2>3
<1> QED
  BY <1>3, <1>7, <1>8
-----------------------------------------------------------------------------
(* Steps that move the notices only                                        *)

LEMMA NoticesMove ==
  ASSUME NInv, UNCHANGED <<attempt, lapsed, wire, seen, up>>, due' \subseteq Notes,
         notice' \in [Notes -> N!NoticeStates],
         token' \in [Notes -> {"none", "active", "used", "cancelled"}],
         \A n \in Notes :
           /\ notice[n] # "none" => notice'[n] # "none"
           /\ notice[n] \notin {"none", "pending"} => notice'[n] # "pending"
           /\ notice'[n] \in {"opened", "consumed"} => notice[n] \in {"opened", "consumed"}
           /\ token'[n] = "used" => token[n] = "used"
  PROVE  NInv'
<1>1. N!TypeOK'
  BY DEF NInv, N!TypeOK, N!NoticeStates
<1>2. N!Sealed'
  BY DEF NInv, N!Sealed
<1>3. ASSUME NEW k \in Keys PROVE Reserves(k)'
  <2>1. Reserves(k) /\ attempt[k].note \in Notes \cup {None}
    BY DEF NInv, N!TypeOK, N!Attempts
  <2> QED
    BY <2>1 DEF Reserves
<1>4. ASSUME NEW q \in wire' PROVE Edits(q)'
  BY <1>4 DEF NInv, Edits
<1>5. ASSUME NEW k \in Keys, NEW n \in Notes PROVE Told(k, n)'
  <2>1. Told(k, n)
    BY DEF NInv
  <2> QED
    BY <2>1 DEF Told, N!Delivered
<1>6. ASSUME NEW n \in Notes PROVE Read(n)'
  <2>1. Read(n)
    BY DEF NInv
  <2> QED
    BY <2>1 DEF Read, N!Delivered
<1> QED
  BY <1>1, <1>2, <1>3, <1>4, <1>5, <1>6 DEF NInv

LEMMA TellKeeps ==
  ASSUME NInv, NEW n \in Notes, N!Tell(n)
  PROVE  NInv'
<1>1. N!TypeOK
  BY DEF NInv
<1>2. /\ notice' = [notice EXCEPT ![n] = "pending"] /\ notice[n] = "none"
      /\ token' = [token EXCEPT ![n] = "active"]
      /\ UNCHANGED <<attempt, due, lapsed, wire, seen, up>>
  BY DEF N!Tell
<1>3. /\ notice' \in [Notes -> N!NoticeStates]
      /\ token' \in [Notes -> {"none", "active", "used", "cancelled"}]
  BY <1>1, <1>2 DEF N!TypeOK, N!NoticeStates, N!Live
<1>4. \A m \in Notes : /\ m # n => notice'[m] = notice[m] /\ token'[m] = token[m]
                       /\ m = n => notice'[m] = "pending" /\ token'[m] = "active"
  BY <1>1, <1>2 DEF N!TypeOK
<1> QED
  BY <1>1, <1>2, <1>3, <1>4, NoticesMove DEF N!TypeOK

(* What is withdrawn, or put aside after it was opened.                    *)
LEMMA EndsKeep ==
  ASSUME NInv, NEW n \in Notes, N!Consume(n) \/ N!Cancel(n)
  PROVE  NInv'
<1>1. N!TypeOK
  BY DEF NInv
<1>2. CASE N!Consume(n)
  <2>1. /\ notice[n] = "opened" /\ UNCHANGED <<token, attempt, due, lapsed, wire, seen, up>>
        /\ notice' = [notice EXCEPT ![n] = IF n \in due THEN "expired" ELSE "consumed"]
    BY <1>2 DEF N!Consume
  <2>2. /\ notice' \in [Notes -> N!NoticeStates]
        /\ notice'[n] \in {"expired", "consumed"}
        /\ \A m \in Notes \ {n} : notice'[m] = notice[m]
    BY <1>1, <2>1 DEF N!TypeOK, N!NoticeStates, N!Live
  <2> QED
    BY <1>1, <2>1, <2>2, NoticesMove DEF N!TypeOK
<1>3. CASE N!Cancel(n)
  <2>1. notice[n] \in N!Live /\ UNCHANGED <<attempt, due, lapsed, wire, seen, up>>
    BY <1>3 DEF N!Cancel
  <2>2. CASE n \in due
    <3>1. notice' = N!Aged({n}) /\ token' = token
      BY <1>3, <2>2 DEF N!Cancel
    <3> QED
      BY <1>1, <2>1, <3>1, AgedNotices, NoticesMove DEF N!TypeOK, N!Live
  <2>3. CASE n \notin due
    <3>1. /\ notice' = [notice EXCEPT ![n] = "cancelled"]
          /\ token' = [token EXCEPT ![n] = IF token[n] = "active" THEN "cancelled" ELSE token[n]]
      BY <1>3, <2>3 DEF N!Cancel
    <3>2. /\ notice' \in [Notes -> N!NoticeStates] /\ notice'[n] = "cancelled"
          /\ \A m \in Notes \ {n} : notice'[m] = notice[m]
      BY <1>1, <3>1 DEF N!TypeOK, N!NoticeStates, N!Live
    <3>3. /\ token' \in [Notes -> {"none", "active", "used", "cancelled"}]
          /\ \A m \in Notes : token'[m] = "used" => token[m] = "used"
      BY <1>1, <3>1 DEF N!TypeOK
    <3> QED
      BY <1>1, <2>1, <3>2, <3>3, NoticesMove DEF N!TypeOK, N!Live
  <2> QED
    BY <2>2, <2>3
<1> QED
  BY <1>2, <1>3

LEMMA CountKeeps ==
  ASSUME NInv, N!Count
  PROVE  NInv'
<1>1. N!TypeOK
  BY DEF NInv
<1>2. PICK S : notice' = N!Aged(S)
  BY DEF N!Count
<1>3. UNCHANGED <<token, attempt, due, lapsed, wire, seen, up>>
  BY DEF N!Count
<1> QED
  BY <1>1, <1>2, <1>3, AgedNotices, NoticesMove DEF N!TypeOK, N!Live
-----------------------------------------------------------------------------
(* Steps that reserve                                                      *)

LEMMA ReleasedMoves ==
  ASSUME NInv, NEW c
  PROVE  /\ \A j \in Keys : Moves(attempt[j], N!Released[j], c)
         /\ \A j \in Keys : N!Released[j].state # "none" => attempt[j].state # "none"
<1> SUFFICES ASSUME NEW j \in Keys
             PROVE  /\ Moves(attempt[j], N!Released[j], c)
                    /\ N!Released[j].state # "none" => attempt[j].state # "none"
  OBVIOUS
<1>1. N!TypeOK /\ Reserves(j)
  BY DEF NInv
<1>2. CASE j \in lapsed
  <2>1. attempt[j].state = "prepared"
    BY <1>1, <1>2 DEF Reserves
  <2>2. N!Released[j].state = "failed" /\ N!Released[j].note = attempt[j].note
    BY <1>1, <1>2, ReleasedAttempts
  <2> QED
    BY <2>1, <2>2 DEF Moves
<1>3. CASE j \notin lapsed
  BY <1>3 DEF Moves, N!Released
<1> QED
  BY <1>2, <1>3

(* Every reservation, with the edit that it asks for: its first attempt is *)
(* that of k, for the notice c.                                            *)
LEMMA ReserveKeeps ==
  ASSUME NInv, NEW k \in Keys, NEW S, NEW c \in Notes \cup {None},
         notice' = N!Aged(S), lapsed' = {}, UNCHANGED <<token, due, seen, up>>,
         attempt' \in [Keys -> N!Attempts],
         \A j \in Keys : Moves(attempt[j], attempt'[j], c),
         \A j \in Keys : attempt[j].state = "none" /\ attempt'[j].state # "none" =>
                           j = k /\ (c # None => Target[c] = Asker[k] /\ notice[c] # "none"),
         \/ wire' = wire
         \/ /\ wire' = wire \cup {N!Edit(k, c)}
            /\ attempt'[k].state # "none" /\ attempt'[k].note = c
  PROVE  NInv'
<1>1. N!TypeOK
  BY DEF NInv
<1>2. /\ notice' \in [Notes -> N!NoticeStates]
      /\ \A n \in Notes : \/ notice'[n] = notice[n]
                          \/ notice[n] \in N!Live /\ notice'[n] = "expired"
  BY <1>1, AgedNotices
<1>3. N!TypeOK'
  <2>1. wire' \subseteq Wires
    BY <1>1 DEF N!TypeOK, Wires, N!Edit
  <2> QED
    BY <1>1, <1>2, <2>1 DEF N!TypeOK, Wires, N!Attempts, N!NoticeStates
<1>4. N!Sealed'
  BY DEF NInv, N!Sealed
<1>5. ASSUME NEW j \in Keys PROVE Reserves(j)'
  <2>1. Reserves(j) /\ Moves(attempt[j], attempt'[j], c) /\ attempt[j].note \in Notes \cup {None}
    BY <1>1 DEF NInv, N!TypeOK, N!Attempts
  <2>2. CASE attempt'[j] = attempt[j]
    BY <1>2, <2>1, <2>2 DEF Reserves, N!Live
  <2>3. CASE /\ attempt[j].state \in {"prepared", "failed"}
             /\ attempt'[j].state \in {"prepared", "failed"} /\ attempt'[j].note = attempt[j].note
    BY <1>2, <2>1, <2>3 DEF Reserves, N!Live
  <2>4. CASE attempt[j].state = "none" /\ attempt'[j].state = "prepared" /\ attempt'[j].note = c
    BY <1>2, <2>4 DEF Reserves, N!Live
  <2> QED
    BY <2>1, <2>2, <2>3, <2>4 DEF Moves
<1>6. ASSUME NEW q \in wire' PROVE Edits(q)'
  <2>1. CASE q \in wire
    <3>1. Edits(q) /\ q.key \in Keys
      BY <1>1, <2>1 DEF NInv, N!TypeOK
    <3>2. Moves(attempt[q.key], attempt'[q.key], c)
      BY <3>1
    <3>3. attempt'[q.key].state # "none" /\ attempt'[q.key].note = attempt[q.key].note
      BY <3>1, <3>2 DEF Moves, Edits
    <3> QED
      BY <3>1, <3>3 DEF Edits
  <2>2. CASE q \notin wire
    BY <1>6, <2>2 DEF Edits, N!Edit
  <2> QED
    BY <2>1, <2>2
<1>7. ASSUME NEW j \in Keys, NEW n \in Notes PROVE Told(j, n)'
  <2>1. Told(j, n) /\ Moves(attempt[j], attempt'[j], c)
    BY DEF NInv
  <2>2. attempt'[j].state = "delivered" => attempt'[j] = attempt[j]
    BY <2>1 DEF Moves
  <2> QED
    BY <1>2, <2>1, <2>2 DEF Told, N!Delivered, N!Live
<1>8. ASSUME NEW n \in Notes PROVE Read(n)'
  <2>1. Read(n)
    BY DEF NInv
  <2>2. ASSUME NEW j \in Keys, N!Delivered(j, n) PROVE N!Delivered(j, n)'
    <3>1. Moves(attempt[j], attempt'[j], c)
      OBVIOUS
    <3> QED
      BY <2>2, <3>1 DEF N!Delivered, Moves
  <2>3. notice'[n] \in {"opened", "consumed"} => notice[n] \in {"opened", "consumed"}
    BY <1>2
  <2> QED
    BY <2>1, <2>2, <2>3 DEF Read
<1> QED
  BY <1>3, <1>4, <1>5, <1>6, <1>7, <1>8 DEF NInv

LEMMA PressKeeps ==
  ASSUME NInv, NEW k \in Keys, NEW n \in Notes, N!Press(k, n)
  PROVE  NInv'
<1>1. N!TypeOK /\ \A j \in Keys : Reserves(j)
  BY DEF NInv
<1>2. /\ N!MayPress(k, n) /\ notice' = N!Aged({n}) /\ lapsed' = {}
      /\ UNCHANGED <<token, due, seen, up>>
  BY DEF N!Press
<1>3. CASE n \notin due /\ notice[n] \in N!Live
  <2>1. attempt' = N!Prepared(k, "button", n) /\ wire' = wire \cup {N!Edit(k, n)}
    BY <1>3 DEF N!Press
  <2>2. attempt[k].state = "none" \/ attempt[k].note = n
    BY <1>2 DEF N!MayPress
  <2>3. Target[n] = Asker[k] /\ notice[n] # "none"
    BY <1>2, <1>3 DEF N!MayPress, N!Live
  <2>4. /\ attempt' \in [Keys -> N!Attempts]
        /\ attempt'[k].state # "none" /\ attempt'[k].note = n
        /\ \A j \in Keys : Moves(attempt[j], attempt'[j], n)
        /\ \A j \in Keys \ {k} : attempt'[j].state # "none" => attempt[j].state # "none"
    BY <1>1, <2>1, <2>2, PreparedAttempts
  <2> QED
    BY <1>2, <2>1, <2>3, <2>4, ReserveKeeps
<1>4. CASE ~(n \notin due /\ notice[n] \in N!Live)
  <2>1. attempt' = N!Released /\ wire' = wire
    BY <1>4 DEF N!Press
  <2> QED
    BY <1>1, <1>2, <2>1, ReleasedAttempts, ReleasedMoves, ReserveKeeps
<1> QED
  BY <1>3, <1>4

LEMMA LookKeeps ==
  ASSUME NInv, NEW k \in Keys, N!Look(k)
  PROVE  NInv'
<1>1. N!TypeOK /\ \A j \in Keys : Reserves(j)
  BY DEF NInv
<1>2. /\ attempt[k].state = "none" /\ notice' = N!Aged({n \in Notes : Target[n] = Asker[k]})
      /\ lapsed' = {} /\ UNCHANGED <<token, due, seen, up>>
  BY DEF N!Look
<1>3. PICK n \in IF N!Free(k) = {} THEN {None} ELSE N!Free(k) :
         attempt' = N!Prepared(k, "inbox", n) /\ wire' = wire \cup {N!Edit(k, n)}
  BY DEF N!Look
<1>4. n \in Notes \cup {None} /\ (n # None => Target[n] = Asker[k] /\ notice[n] # "none")
  BY <1>3 DEF N!Free
<1>5. /\ attempt' \in [Keys -> N!Attempts]
      /\ attempt'[k].state # "none" /\ attempt'[k].note = n
      /\ \A j \in Keys : Moves(attempt[j], attempt'[j], n)
      /\ \A j \in Keys \ {k} : attempt'[j].state # "none" => attempt[j].state # "none"
  BY <1>1, <1>2, <1>3, <1>4, PreparedAttempts
<1> QED
  BY <1>2, <1>3, <1>4, <1>5, ReserveKeeps, SMTT(30)

LEMMA LookAgainKeeps ==
  ASSUME NInv, NEW k \in Keys, N!LookAgain(k)
  PROVE  NInv'
<1> DEFINE n == attempt[k].note
<1>1. N!TypeOK /\ \A j \in Keys : Reserves(j)
  BY DEF NInv
<1>2. /\ attempt[k].state # "none" /\ attempt' = N!Prepared(k, "inbox", n)
      /\ notice' = N!Aged({n}) /\ lapsed' = {} /\ UNCHANGED <<token, due, seen, up>>
      /\ wire' = wire \/ wire' = wire \cup {N!Edit(k, n)}
  BY DEF N!LookAgain
<1>3. n \in Notes \cup {None}
  BY <1>1 DEF N!TypeOK, N!Attempts
<1> HIDE DEF n
<1>4. /\ attempt' \in [Keys -> N!Attempts]
      /\ attempt'[k].state # "none" /\ attempt'[k].note = n
      /\ \A j \in Keys : Moves(attempt[j], attempt'[j], n)
      /\ \A j \in Keys \ {k} : attempt'[j].state # "none" => attempt[j].state # "none"
  BY <1>1, <1>2, <1>3, PreparedAttempts DEF n
<1> QED
  BY <1>2, <1>3, <1>4, ReserveKeeps

-----------------------------------------------------------------------------
(* Edits and what comes back                                               *)

(* The notice of an edit is its asker's.                                   *)
LEMMA EditsAreOwn ==
  ASSUME NInv, NEW q \in wire, q.note # None
  PROVE  q.note \in Notes /\ q.key \in Keys /\ Target[q.note] = Asker[q.key]
<1>1. q.note \in Notes /\ q.key \in Keys
  BY DEF NInv, N!TypeOK
<1>2. attempt[q.key].note = q.note /\ Reserves(q.key)
  BY <1>1 DEF NInv, Edits
<1> QED
  BY <1>1, <1>2 DEF Reserves

(* Steps that only show something to its target.                           *)
LEMMA ShownKeeps ==
  ASSUME NInv, N!NoticesAssumption,
         UNCHANGED <<notice, token, attempt, due, lapsed>>, up' \in BOOLEAN,
         wire' \subseteq Wires, seen \subseteq seen',
         \A p \in seen' : p \in seen \/ \E q \in wire : q.note # None /\ p = <<q.note, Asker[q.key]>>,
         \A r \in wire' : \E q \in wire :
            /\ r.key = q.key /\ r.note = q.note
            /\ r.at # "shown" \/ r = q \/ q.note = None \/ <<q.note, Asker[q.key]>> \in seen'
  PROVE  NInv'
<1>1. N!TypeOK
  BY DEF NInv
<1>2. ASSUME NEW p \in seen' PROVE p \in Notes \X Members
  <2>1. CASE p \in seen
    BY <1>1, <2>1 DEF N!TypeOK
  <2>2. CASE p \notin seen
    <3>1. PICK q \in wire : q.note # None /\ p = <<q.note, Asker[q.key]>>
      BY <1>2, <2>2
    <3> QED
      BY <3>1, EditsAreOwn DEF N!NoticesAssumption
  <2> QED
    BY <2>1, <2>2
<1>3. N!TypeOK'
  BY <1>1, <1>2 DEF N!TypeOK, Wires
<1>4. N!Sealed'
  <2> SUFFICES ASSUME NEW n \in Notes, NEW u \in Members, <<n, u>> \in seen'
               PROVE  u = Target[n]
    BY DEF N!Sealed
  <2>1. CASE <<n, u>> \in seen
    BY <2>1 DEF NInv, N!Sealed
  <2>2. CASE <<n, u>> \notin seen
    <3>1. PICK q \in wire : q.note # None /\ <<n, u>> = <<q.note, Asker[q.key]>>
      BY <2>2
    <3> QED
      BY <3>1, EditsAreOwn
  <2> QED
    BY <2>1, <2>2
<1>5. ASSUME NEW k \in Keys PROVE Reserves(k)'
  <2>1. Reserves(k)
    BY DEF NInv
  <2> QED
    BY <2>1 DEF Reserves
<1>6. ASSUME NEW r \in wire' PROVE Edits(r)'
  <2>1. PICK q \in wire :
          /\ r.key = q.key /\ r.note = q.note
          /\ r.at # "shown" \/ r = q \/ q.note = None \/ <<q.note, Asker[q.key]>> \in seen'
    BY <1>6
  <2>2. Edits(q)
    BY DEF NInv
  <2>3. r.at = "shown" /\ r.note # None => <<r.note, Target[r.note]>> \in seen'
    BY <2>1, <2>2, EditsAreOwn DEF Edits
  <2> QED
    BY <2>1, <2>2, <2>3 DEF Edits
<1>7. ASSUME NEW k \in Keys, NEW n \in Notes PROVE Told(k, n)'
  <2>1. Told(k, n)
    BY DEF NInv
  <2> QED
    BY <2>1 DEF Told, N!Delivered
<1>8. ASSUME NEW n \in Notes PROVE Read(n)'
  <2>1. Read(n)
    BY DEF NInv
  <2> QED
    BY <2>1 DEF Read, N!Delivered
<1> QED
  BY <1>3, <1>4, <1>5, <1>6, <1>7, <1>8 DEF NInv

LEMMA CrashKeeps ==
  ASSUME NInv, N!NoticesAssumption, N!Crash
  PROVE  NInv'
<1>1. N!TypeOK
  BY DEF NInv
<1>2. PICK L \in SUBSET {q \in wire : q.at = "sent" /\ q.note # None} :
         seen' = seen \cup {<<q.note, Asker[q.key]>> : q \in L}
  BY DEF N!Crash
<1>3. UNCHANGED <<notice, token, attempt, due, lapsed>> /\ up' = FALSE /\ wire' = {}
  BY DEF N!Crash
<1>4. \A p \in seen' : p \in seen \/ \E q \in wire : q.note # None /\ p = <<q.note, Asker[q.key]>>
  BY <1>2
<1> QED
  BY <1>2, <1>3, <1>4, ShownKeeps

LEMMA LandKeeps ==
  ASSUME NInv, N!NoticesAssumption, NEW q \in wire, N!Land(q) \/ N!Lose(q)
  PROVE  NInv'
<1>1. N!TypeOK /\ wire \subseteq Wires
  BY DEF NInv, N!TypeOK, Wires
<1>2. CASE N!Land(q)
  <2>1. PICK at \in {"shown", "unclear"} : wire' = (wire \ {q}) \cup {[q EXCEPT !.at = at]}
    BY <1>2 DEF N!Land
  <2>2. UNCHANGED <<notice, token, attempt, due, lapsed, up>>
        /\ seen' = IF q.note = None THEN seen ELSE seen \cup {<<q.note, Asker[q.key]>>}
    BY <1>2 DEF N!Land
  <2>3. [q EXCEPT !.at = at] \in Wires /\ [q EXCEPT !.at = at].key = q.key
        /\ [q EXCEPT !.at = at].note = q.note
    BY <1>1, <2>1 DEF Wires
  <2>4. up' \in BOOLEAN /\ wire' \subseteq Wires /\ seen \subseteq seen'
    BY <1>1, <2>1, <2>2, <2>3 DEF N!TypeOK
  <2>5. \A p \in seen' : p \in seen \/ \E r \in wire : r.note # None /\ p = <<r.note, Asker[r.key]>>
    BY <2>2
  <2>6. ASSUME NEW r \in wire'
        PROVE  \E s \in wire :
                 /\ r.key = s.key /\ r.note = s.note
                 /\ r.at # "shown" \/ r = s \/ s.note = None \/ <<s.note, Asker[s.key]>> \in seen'
    <3>1. CASE r \in wire
      BY <3>1
    <3>2. CASE r = [q EXCEPT !.at = at]
      BY <2>2, <2>3, <3>2
    <3> QED
      BY <2>1, <2>6, <3>1, <3>2
  <2> QED
    BY <2>2, <2>4, <2>5, <2>6, ShownKeeps
<1>3. CASE N!Lose(q)
  <2>1. UNCHANGED <<notice, token, attempt, due, lapsed, seen, up>>
        /\ wire' = (wire \ {q}) \cup {[q EXCEPT !.at = "lost"]}
    BY <1>3 DEF N!Lose
  <2>2. [q EXCEPT !.at = "lost"] \in Wires /\ [q EXCEPT !.at = "lost"].key = q.key
        /\ [q EXCEPT !.at = "lost"].note = q.note /\ [q EXCEPT !.at = "lost"].at = "lost"
    BY <1>1 DEF Wires
  <2>3. up' \in BOOLEAN /\ wire' \subseteq Wires
    BY <1>1, <2>1, <2>2 DEF N!TypeOK
  <2>4. ASSUME NEW r \in wire'
        PROVE  \E s \in wire :
                 /\ r.key = s.key /\ r.note = s.note
                 /\ r.at # "shown" \/ r = s \/ s.note = None \/ <<s.note, Asker[s.key]>> \in seen'
    <3>1. CASE r \in wire
      BY <3>1
    <3>2. CASE r = [q EXCEPT !.at = "lost"]
      BY <2>2, <3>2
    <3> QED
      BY <2>1, <2>4, <3>1, <3>2
  <2> QED
    BY <2>1, <2>3, <2>4, ShownKeeps
<1> QED
  BY <1>2, <1>3

(* Attempts that are given up, or whose reservation lapses.                *)
LEMMA GiveUpKeeps ==
  ASSUME NInv, UNCHANGED <<notice, token, seen>>, due' \subseteq Notes, up' \in BOOLEAN,
         wire' \subseteq wire, attempt' \in [Keys -> N!Attempts], lapsed' \subseteq Keys,
         \A k \in lapsed' : attempt'[k].state = "prepared",
         \A k \in Keys : \/ attempt'[k] = attempt[k]
                         \/ /\ attempt[k].state = "prepared" /\ attempt'[k].state = "failed"
                            /\ attempt'[k].note = attempt[k].note
  PROVE  NInv'
<1>1. N!TypeOK
  BY DEF NInv
<1>2. N!TypeOK'
  BY <1>1 DEF N!TypeOK, N!Attempts
<1>3. N!Sealed'
  BY DEF NInv, N!Sealed
<1>4. ASSUME NEW k \in Keys PROVE Reserves(k)'
  <2>1. Reserves(k)
    BY DEF NInv
  <2> QED
    BY <2>1 DEF Reserves
<1>5. ASSUME NEW q \in wire' PROVE Edits(q)'
  <2>1. Edits(q) /\ q.key \in Keys
    BY <1>1 DEF NInv, N!TypeOK
  <2>2. attempt'[q.key].state # "none" /\ attempt'[q.key].note = q.note
    BY <2>1 DEF Edits
  <2> QED
    BY <2>1, <2>2 DEF Edits
<1>6. ASSUME NEW k \in Keys, NEW n \in Notes PROVE Told(k, n)'
  <2>1. Told(k, n)
    BY DEF NInv
  <2> QED
    BY <2>1 DEF Told, N!Delivered
<1>7. ASSUME NEW n \in Notes PROVE Read(n)'
  <2>1. Read(n)
    BY DEF NInv
  <2>2. ASSUME NEW j \in Keys, N!Delivered(j, n) PROVE N!Delivered(j, n)'
    BY <2>2 DEF N!Delivered
  <2> QED
    BY <2>1, <2>2 DEF Read
<1> QED
  BY <1>2, <1>3, <1>4, <1>5, <1>6, <1>7 DEF NInv

LEMMA ReleaseKeeps ==
  ASSUME NInv, NEW q \in wire, N!Release(q)
  PROVE  NInv'
<1>1. N!TypeOK /\ q.key \in Keys /\ \A k \in lapsed : attempt[k].state = "prepared"
  BY DEF NInv, N!TypeOK, Reserves
<1>2. wire' = wire \ {q} /\ UNCHANGED <<notice, token, due, seen, up>>
  BY DEF N!Release
<1>3. CASE attempt[q.key].state = "prepared"
  <2>1. /\ attempt' = [attempt EXCEPT ![q.key].state = "failed"]
        /\ lapsed' = lapsed \ {q.key}
    BY <1>3 DEF N!Release, N!Settled
  <2>2. /\ attempt' \in [Keys -> N!Attempts]
        /\ attempt'[q.key].state = "failed" /\ attempt'[q.key].note = attempt[q.key].note
        /\ \A k \in Keys \ {q.key} : attempt'[k] = attempt[k]
    BY <1>1, <2>1 DEF N!TypeOK, N!Attempts
  <2>3. lapsed' \subseteq Keys /\ \A k \in lapsed' : attempt'[k].state = "prepared"
    BY <1>1, <2>1, <2>2 DEF N!TypeOK
  <2>4. due' \subseteq Notes /\ up' \in BOOLEAN
    BY <1>1, <1>2 DEF N!TypeOK
  <2> QED
    BY <1>2, <1>3, <2>2, <2>3, <2>4, GiveUpKeeps
<1>4. CASE attempt[q.key].state # "prepared"
  <2>1. UNCHANGED <<attempt, lapsed>>
    BY <1>4 DEF N!Release
  <2> QED
    BY <1>1, <1>2, <2>1, GiveUpKeeps DEF N!TypeOK, N!Attempts
<1> QED
  BY <1>3, <1>4

LEMMA TimeKeeps ==
  ASSUME NInv, \/ \E n \in Notes : N!Grow(n)
               \/ \E k \in Keys : N!Lapse(k)
               \/ N!Restart
  PROVE  NInv'
<1>1. /\ N!TypeOK /\ attempt \in [Keys -> N!Attempts]
      /\ \A k \in lapsed : attempt[k].state = "prepared"
  BY DEF NInv, N!TypeOK, Reserves, N!Attempts
<1>2. ASSUME NEW n \in Notes, N!Grow(n) PROVE NInv'
  <2>1. /\ UNCHANGED <<notice, token, attempt, lapsed, wire, seen, up>>
        /\ due' = due \cup {n}
    BY <1>2 DEF N!Grow
  <2> QED
    BY <1>1, <2>1, GiveUpKeeps DEF N!TypeOK
<1>3. ASSUME NEW k \in Keys, N!Lapse(k) PROVE NInv'
  <2>1. /\ UNCHANGED <<notice, token, attempt, due, wire, seen, up>>
        /\ lapsed' = lapsed \cup {k} /\ attempt[k].state = "prepared"
    BY <1>3 DEF N!Lapse
  <2> QED
    BY <1>1, <2>1, GiveUpKeeps DEF N!TypeOK
<1>4. CASE N!Restart
  <2>1. /\ UNCHANGED <<notice, token, due, wire, seen>> /\ up' = TRUE /\ lapsed' = {}
        /\ attempt' = [k \in Keys |-> IF attempt[k].state = "prepared"
                                      THEN [attempt[k] EXCEPT !.state = "failed"]
                                      ELSE attempt[k]]
    BY <1>4 DEF N!Restart
  <2>2. attempt' \in [Keys -> N!Attempts]
    BY <1>1, <2>1 DEF N!Attempts
  <2>3. \A k \in Keys : \/ attempt'[k] = attempt[k]
                        \/ /\ attempt[k].state = "prepared" /\ attempt'[k].state = "failed"
                           /\ attempt'[k].note = attempt[k].note
    BY <1>1, <2>1 DEF N!Attempts
  <2> QED
    BY <1>1, <2>1, <2>2, <2>3, GiveUpKeeps DEF N!TypeOK
<1> QED
  BY <1>2, <1>3, <1>4

(* What Discord confirmed: the notice is opened, and its button used.      *)
LEMMA ConfirmKeeps ==
  ASSUME NInv, N!NoticesAssumption, NEW q \in wire, N!Confirm(q)
  PROVE  NInv'
<1> DEFINE n == q.note
           k == q.key
<1>1. /\ N!TypeOK /\ attempt \in [Keys -> N!Attempts] /\ k \in Keys /\ n \in Notes \cup {None}
      /\ \A j \in lapsed : attempt[j].state = "prepared"
  BY DEF NInv, N!TypeOK, Reserves, N!Attempts
<1>2. /\ q.at = "shown" /\ wire' = wire \ {q} /\ UNCHANGED <<due, seen, up>>
  BY DEF N!Confirm
<1>3. attempt[k].note = n /\ Reserves(k) /\ Edits(q)
      /\ (n \in Notes => <<n, Target[n]>> \in seen)
  BY <1>1, <1>2 DEF NInv, Edits, N!NoticesAssumption
<1>4. CASE attempt[k].state # "prepared"
  <2>1. UNCHANGED <<notice, token, attempt, lapsed>>
    BY <1>4 DEF N!Confirm
  <2> QED
    BY <1>1, <1>2, <2>1, GiveUpKeeps DEF N!TypeOK
<1>5. CASE attempt[k].state = "prepared"
  <2>1. /\ attempt' = [attempt EXCEPT ![k].state = "delivered"] /\ lapsed' = lapsed \ {k}
        /\ notice' = [m \in Notes |-> IF m = n /\ N!Aged({n})[m] = "pending" THEN "opened"
                                      ELSE N!Aged({n})[m]]
        /\ token' = [m \in Notes |-> IF m = n /\ attempt[k].by = "button" /\ token[m] = "active"
                                     THEN "used" ELSE token[m]]
    BY <1>5 DEF N!Confirm, N!Settled
  <2>2. /\ attempt' \in [Keys -> N!Attempts]
        /\ attempt'[k].state = "delivered" /\ attempt'[k].note = n
        /\ \A j \in Keys \ {k} : attempt'[j] = attempt[j]
    BY <1>1, <1>3, <2>1 DEF N!Attempts
  <2>3. /\ notice' \in [Notes -> N!NoticeStates]
        /\ \A m \in Notes \ {n} : \/ notice'[m] = notice[m]
                                  \/ notice[m] \in N!Live /\ notice'[m] = "expired"
        /\ n \in Notes => \/ notice'[n] = notice[n] /\ notice[n] # "pending"
                          \/ notice'[n] \in {"opened", "expired"}
    BY <1>1, <2>1, AgedNotices DEF N!NoticeStates, N!Live
  <2>4. /\ token' \in [Notes -> {"none", "active", "used", "cancelled"}]
        /\ \A m \in Notes \ {n} : token'[m] = token[m]
    BY <1>1, <2>1 DEF N!TypeOK
  <2> HIDE DEF k, n
  <2>5. N!TypeOK'
    BY <1>1, <1>2, <2>1, <2>2, <2>3, <2>4 DEF N!TypeOK, N!Attempts, N!NoticeStates
  <2>6. N!Sealed'
    BY <1>2 DEF NInv, N!Sealed
  <2>7. ASSUME NEW j \in Keys PROVE Reserves(j)'
    <3>1. Reserves(j) /\ attempt[j].note \in Notes \cup {None}
      BY <1>1 DEF NInv, N!TypeOK, N!Attempts
    <3>2. attempt'[j].note = attempt[j].note /\ (j # k => attempt'[j] = attempt[j])
      BY <1>3, <2>2
    <3>3. attempt[j].note # None => notice'[attempt[j].note] # "none"
      BY <2>3, <3>1 DEF Reserves
    <3>4. CASE j = k
      BY <2>1, <2>2, <3>1, <3>2, <3>3, <3>4 DEF Reserves
    <3>5. CASE j # k
      BY <2>1, <3>1, <3>2, <3>3, <3>5 DEF Reserves
    <3> QED
      BY <3>4, <3>5
  <2>8. ASSUME NEW r \in wire' PROVE Edits(r)'
    <3>1. Edits(r) /\ r.key \in Keys
      BY <1>1, <1>2 DEF NInv, N!TypeOK
    <3>2. attempt'[r.key].state # "none" /\ attempt'[r.key].note = r.note
      BY <1>3, <2>2, <3>1 DEF Edits
    <3> QED
      BY <1>2, <3>1, <3>2 DEF Edits
  <2>9. ASSUME NEW j \in Keys, NEW m \in Notes PROVE Told(j, m)'
    <3>1. Told(j, m) /\ (n \in Notes => notice[n] # "none")
      BY <1>1, <1>3 DEF NInv, Reserves, N!NoticesAssumption
    <3>2. CASE j = k
      <4>1. ASSUME m = n PROVE <<m, Target[m]>> \in seen' /\ notice'[m] \notin {"none", "pending"}
        BY <1>2, <1>3, <2>3, <3>1, <4>1
      <4> QED
        BY <2>2, <3>2, <4>1 DEF Told, N!Delivered
    <3>3. CASE j # k
      <4>1. N!Delivered(j, m)' => N!Delivered(j, m)
        BY <2>2, <3>3 DEF N!Delivered
      <4>2. notice[m] \notin {"none", "pending"} => notice'[m] \notin {"none", "pending"}
        BY <2>3
      <4> QED
        BY <1>2, <3>1, <4>1, <4>2 DEF Told
    <3> QED
      BY <3>2, <3>3
  <2>10. ASSUME NEW m \in Notes PROVE Read(m)'
    <3>1. Read(m)
      BY DEF NInv
    <3>2. ASSUME NEW j \in Keys, N!Delivered(j, m) PROVE N!Delivered(j, m)'
      BY <1>5, <2>2, <3>2 DEF N!Delivered
    <3>3. CASE m = n
      <4>1. N!Delivered(k, m)'
        BY <2>2, <3>3 DEF N!Delivered
      <4>2. <<m, Target[m]>> \in seen'
        BY <1>2, <1>3, <3>3
      <4> QED
        BY <1>1, <4>1, <4>2 DEF Read
    <3>4. CASE m # n
      BY <1>2, <2>3, <2>4, <3>1, <3>2, <3>4 DEF Read
    <3> QED
      BY <3>3, <3>4
  <2> QED
    BY <2>5, <2>6, <2>7, <2>8, <2>9, <2>10 DEF NInv
<1> QED
  BY <1>4, <1>5

-----------------------------------------------------------------------------
(* The theorem                                                             *)

LEMMA NoticesKept ==
  ASSUME N!NoticesAssumption, NInv, [N!Next]_(N!vars)
  PROVE  NInv'
<1>1. CASE UNCHANGED N!vars
  <2>1. N!TypeOK
    BY DEF NInv
  <2> QED
    BY <1>1, <2>1, NoticesMove DEF N!vars, N!TypeOK, N!NoticeStates
<1>2. ASSUME NEW n \in Notes, N!Tell(n) \/ N!Consume(n) \/ N!Cancel(n) \/ N!Grow(n)
      PROVE  NInv'
  BY <1>2, TellKeeps, EndsKeep, TimeKeeps
<1>3. ASSUME NEW k \in Keys, N!Look(k) \/ N!LookAgain(k) \/ N!Lapse(k)
      PROVE  NInv'
  BY <1>3, LookKeeps, LookAgainKeeps, TimeKeeps
<1>4. ASSUME NEW k \in Keys, NEW n \in Notes, N!Press(k, n)
      PROVE  NInv'
  BY <1>4, PressKeeps
<1>5. ASSUME NEW q \in wire, N!Land(q) \/ N!Lose(q) \/ N!Confirm(q) \/ N!Release(q)
      PROVE  NInv'
  BY <1>5, LandKeeps, ConfirmKeeps, ReleaseKeeps
<1>6. CASE N!Count
  BY <1>6, CountKeeps
<1>7. CASE N!Crash \/ N!Restart
  BY <1>7, CrashKeeps, TimeKeeps
<1> QED
  BY <1>1, <1>2, <1>3, <1>4, <1>5, <1>6, <1>7 DEF N!Next

(* Whatever members press and ask for, however edits and their callbacks   *)
(* are lost, doubled or late, reservations lapse and the process dies: a   *)
(* sealed notice is shown to its target only (open_by_token, open_next);   *)
(* what is opened or consumed was delivered and seen, and what was         *)
(* delivered is not offered as new again (confirm_open_delivery).          *)
THEOREM NoticesAreSealed ==
  ASSUME N!NoticesAssumption
  PROVE  N!Spec => []N!NoticesHold
<1>1. N!Init => NInv
  <2> SUFFICES ASSUME N!Init PROVE NInv
    OBVIOUS
  <2>1. N!TypeOK
    BY DEF N!Init, N!TypeOK, N!Untried, N!NoticeStates, N!Attempts
  <2> QED
    BY <2>1 DEF N!Init, NInv, N!Sealed, Reserves, Edits, Told, Read, N!Delivered, N!Untried
<1>2. NInv /\ [N!Next]_(N!vars) => NInv'
  BY NoticesKept
<1>3. NInv => N!NoticesHold
  <2> SUFFICES ASSUME NInv PROVE N!NoticesHold
    OBVIOUS
  <2>1. \A n \in Notes : Read(n)
    BY DEF NInv
  <2>2. \A k \in Keys, n \in Notes : Told(k, n)
    BY DEF NInv
  <2>3. N!ReadOnce
    BY <2>2 DEF N!ReadOnce, Told
  <2>4. N!NothingUnread
    <3> SUFFICES ASSUME NEW n \in Notes
                 PROVE  /\ notice[n] \in {"opened", "consumed"} \/ token[n] = "used"
                             => <<n, Target[n]>> \in seen
                        /\ notice[n] \in {"opened", "consumed"}
                             => \E k \in Keys : N!Delivered(k, n)
      BY DEF N!NothingUnread
    <3>1. ASSUME notice[n] \in {"opened", "consumed"}
          PROVE  <<n, Target[n]>> \in seen /\ \E k \in Keys : N!Delivered(k, n)
      <4>1. PICK k \in Keys : N!Delivered(k, n)
        BY <2>1, <3>1 DEF Read
      <4> QED
        BY <2>2, <4>1 DEF Told
    <3> QED
      BY <2>1, <3>1 DEF Read
  <2> QED
    BY <2>3, <2>4 DEF NInv, N!NoticesHold
<1> QED
  BY <1>1, <1>2, <1>3, PTL DEF N!Spec

=============================================================================
