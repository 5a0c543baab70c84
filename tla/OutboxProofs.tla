---------------------------- MODULE OutboxProofs ----------------------------
(* Proofs about Outbox for every set of rows, workers and tokens and every *)
(* choice of the durations: its types, the refinement of Delivery, and     *)
(* that it makes no second message and takes no card back.                 *)
EXTENDS Outbox, TLAPS

-----------------------------------------------------------------------------
(* Records *)

LEMMA UnleasedType ==
  ASSUME NEW rec \in RowRecord, NEW s \in Open \cup Terminal, NEW e \in Errors
  PROVE  /\ Unleased(rec, s, e) \in RowRecord
         /\ Unleased(rec, s, e).state = s
         /\ Unleased(rec, s, e).token = NoToken
         /\ Unleased(rec, s, e).submitted = FALSE
         /\ Unleased(rec, s, e).first = rec.first
         /\ Unleased(rec, s, e).attempts = rec.attempts
  BY DEF Unleased, RowRecord

LEMMA RetryDelayType ==
  ASSUME NEW n \in Nat
  PROVE  RetryDelay(n) \in Nat
  <1>1. RetryDelays \in Seq(Nat) /\ Len(RetryDelays) \in Nat \ {0}
    BY OutboxAssumption
  <1>2. (IF n = 0 THEN 1 ELSE Lower(n, Len(RetryDelays)))
          \in 1..Len(RetryDelays)
    BY <1>1 DEF Lower
  <1> QED BY <1>1, <1>2 DEF RetryDelay

(* A row that satisfies the CHECK constraints of the table.                *)
Sound(rec) ==
  /\ rec \in RowRecord
  /\ (rec.state = "claimed") <=> (rec.token # NoToken)
  /\ rec.submitted => rec.state = "claimed" /\ rec.first # "never"
  /\ rec.state = "absent" => rec.first = "never"

LEMMA UnleasedSound ==
  ASSUME NEW rec \in RowRecord, NEW e \in Errors,
         NEW s \in (Open \cup Terminal) \ {"claimed"}
  PROVE  Sound(Unleased(rec, s, e))
  BY UnleasedType DEF Sound, Open, Terminal

LEMMA FailedRowSound ==
  ASSUME TypeOK, NEW w \in Workers, worker[w].row \in Rows,
         NEW e \in Errors, NEW mode
  PROVE  /\ Sound(FailedRow(w, mode, e))
         /\ FailedRow(w, mode, e).first = row[worker[w].row].first
         /\ FailedRow(w, mode, e).state \in {"pending", "failed", "dead"}
  <1> DEFINE rec == row[worker[w].row]
  <1>a. worker[w].attempts \in 0..MaxAttempts
    BY DEF TypeOK, WorkerRecord
  <1>1. rec \in RowRecord /\ worker[w].attempts \in Nat
    BY <1>a DEF TypeOK
  <1>2. RetryDelay(worker[w].attempts) \in Nat
    BY <1>1, RetryDelayType
  <1>3. ASSUME NEW s \in {"pending", "failed", "dead"}
        PROVE  /\ Sound(Unleased(rec, s, e))
               /\ Unleased(rec, s, e).first = rec.first
               /\ Unleased(rec, s, e).state = s
    <2>1. s \in (Open \cup Terminal) \ {"claimed"}
      BY DEF Open, Terminal
    <2> HIDE DEF rec
    <2>2. Sound(Unleased(rec, s, e))
      BY <1>1, <2>1, UnleasedSound
    <2>3. Unleased(rec, s, e).first = rec.first
      BY <1>1 DEF Unleased, RowRecord
    <2>4. Unleased(rec, s, e).state = s
      BY <1>1, <2>1, UnleasedType
    <2> QED BY <2>2, <2>3, <2>4
  <1>4. Sound([Unleased(rec, "pending", e)
                 EXCEPT !.wait = RetryDelay(worker[w].attempts)])
    BY <1>2, <1>3 DEF Sound, RowRecord
  <1> QED BY <1>1, <1>3, <1>4 DEF FailedRow, RowRecord, Unleased

-----------------------------------------------------------------------------
(* The inductive invariant *)

(* An idle worker holds no claim, a busy one holds a row and a token, and  *)
(* only one that waits has a receipt.                                      *)
Busy ==
  \A w \in Workers :
    /\ IF worker[w].pc = "idle"
         THEN worker[w].token = NoToken
         ELSE /\ worker[w].row \in Rows
              /\ worker[w].token \in Tokens
    /\ worker[w].pc # "waiting" => worker[w].receipt = "none"

(* Tokens in memory are distinct.                                          *)
Fenced ==
  \A v, w \in Workers :
    worker[v].token = worker[w].token /\ worker[v].token # NoToken => v = w

(* A first attempt is on record before anything can be visible, and a      *)
(* success that is reported or recorded is visible.                        *)
Recorded ==
  /\ \A r \in Rows : row[r].state = "absent" => row[r].first = "never"
  /\ \A q \in wire : row[q.row].first # "never"
  /\ \A r \in PublicRows : posts[r] > 0 => row[r].first # "never"
  /\ \A w \in Workers :
       worker[w].pc = "waiting" /\ worker[w].receipt = "success"
         /\ worker[w].row \in PublicRows => posts[worker[w].row] > 0
  /\ \A r \in PublicRows : row[r].state = "delivered" => posts[r] > 0

IInv == TypeOK /\ Busy /\ Fenced /\ Recorded

LEMMA IdleType == IdleWorker \in WorkerRecord
  BY OutboxAssumption DEF IdleWorker, WorkerRecord, Receipts

LEMMA SoundRows ==
  ASSUME IInv, NEW r \in Rows
  PROVE  Sound(row[r])
  BY DEF IInv, TypeOK, Recorded, Sound

(* What one settling statement does to the invariant.                      *)
LEMMA SettleKeeps ==
  ASSUME IInv, NEW w \in Workers, worker[w].pc # "idle",
         NEW settled, Settle(w, settled),
         Owns(w) => /\ Sound(settled)
                    /\ settled.first = row[worker[w].row].first
                    /\ settled.state = "delivered"
                         /\ worker[w].row \in PublicRows
                         => posts[worker[w].row] > 0,
         UNCHANGED <<ready, stopping, wire, posts, memory, shown>>
  PROVE  IInv'
  <1> DEFINE k == worker[w].row
  <1>1. k \in Rows
    BY DEF IInv, Busy
  <1>2. /\ row' \in [Rows -> RowRecord]
        /\ \A r \in Rows : \/ row'[r] = row[r]
                           \/ Owns(w) /\ r = k /\ row'[r] = settled
    BY <1>1 DEF Settle, IInv, TypeOK, Sound
  <1>3. /\ worker' \in [Workers -> WorkerRecord]
        /\ \A v \in Workers : worker'[v] = worker[v] \/ worker'[v] = IdleWorker
    BY IdleType DEF Settle, IInv, TypeOK
  <1>4. \A r \in Rows : Sound(row'[r]) /\ row'[r].first = row[r].first
    BY <1>2, SoundRows
  <1>5. TypeOK'
    BY <1>2, <1>3, <1>4 DEF IInv, TypeOK, Sound
  <1>6. IdleWorker.pc = "idle" /\ IdleWorker.token = NoToken
          /\ IdleWorker.receipt = "none"
    BY DEF IdleWorker
  <1>7. Busy'
    BY <1>3, <1>6 DEF IInv, Busy
  <1>8. Fenced'
    BY <1>3, <1>6 DEF IInv, Fenced
  <1>9. Recorded'
    <2>1. \A r \in Rows : row'[r].state = "absent" => row'[r].first = "never"
      BY <1>4 DEF Sound
    <2>2. \A q \in wire' : row'[q.row].first # "never"
      BY <1>4 DEF IInv, Recorded, TypeOK
    <2>3. \A r \in PublicRows : posts'[r] > 0 => row'[r].first # "never"
      BY <1>4 DEF IInv, Recorded, Rows
    <2>4. \A v \in Workers :
            worker'[v].pc = "waiting" /\ worker'[v].receipt = "success"
              /\ worker'[v].row \in PublicRows => posts'[worker'[v].row] > 0
      BY <1>3, <1>6 DEF IInv, Recorded
    <2>5. \A r \in PublicRows : row'[r].state = "delivered" => posts'[r] > 0
      BY <1>2 DEF IInv, Recorded, Rows
    <2> QED BY <2>1, <2>2, <2>3, <2>4, <2>5 DEF Recorded
  <1> QED BY <1>5, <1>7, <1>8, <1>9 DEF IInv

-----------------------------------------------------------------------------
(* Every action keeps the invariant *)

LEMMA InitKeeps == Init => IInv
  <1> SUFFICES ASSUME Init PROVE IInv
    OBVIOUS
  <1>1. AbsentRow \in RowRecord
    BY OutboxAssumption DEF AbsentRow, RowRecord, Open, Terminal, Errors
  <1>2. TypeOK
    BY <1>1, IdleType DEF Init, TypeOK, AbsentRow
  <1>3. Busy /\ Fenced
    BY DEF Init, Busy, Fenced, IdleWorker
  <1>4. Recorded
    BY DEF Init, Recorded, AbsentRow, IdleWorker, Rows
  <1> QED BY <1>2, <1>3, <1>4 DEF IInv

LEMMA EnqueueKeeps ==
  ASSUME IInv, NEW r \in Rows, Enqueue(r) \/ Cancel(r)
  PROVE  IInv'
  <1>1. PICK s \in {"pending", "cancelled"} :
          row' = [row EXCEPT ![r].state = s]
    BY DEF Enqueue, Cancel
  <1>2. row[r] \in RowRecord /\ row[r].state \in {"absent", "pending"}
    BY DEF IInv, TypeOK, Enqueue, Cancel
  <1>3. /\ row' \in [Rows -> RowRecord]
        /\ \A q \in Rows : q # r => row'[q] = row[q]
        /\ row'[r] = [row[r] EXCEPT !.state = s]
    BY <1>1, <1>2 DEF IInv, TypeOK, RowRecord, Open, Terminal
  <1>4. row'[r].state = s /\ row'[r].first = row[r].first
          /\ row'[r].token = row[r].token
          /\ row'[r].submitted = row[r].submitted
    BY <1>2, <1>3 DEF RowRecord
  <1>a. \A q \in Rows : Sound(row[q])
    BY SoundRows
  <1>b. \A q \in Rows :
          /\ (row'[q].state = "claimed") <=> (row'[q].token # NoToken)
          /\ row'[q].submitted =>
               row'[q].state = "claimed" /\ row'[q].first # "never"
    BY <1>2, <1>3, <1>4, <1>a DEF Sound
  <1>c. UNCHANGED <<worker, ready, stopping, wire, posts, memory, shown>>
    BY DEF Enqueue, Cancel
  <1>5. TypeOK'
    BY <1>3, <1>b, <1>c DEF IInv, TypeOK
  <1>6. Busy' /\ Fenced'
    BY <1>c DEF IInv, Busy, Fenced
  <1>7. \A q \in Rows : row'[q].first = row[q].first
    BY <1>3, <1>4
  <1>8. Recorded'
    <2>1. \A q \in Rows : row'[q].state = "absent" => row'[q].first = "never"
      BY <1>3, <1>4 DEF IInv, Recorded
    <2>2. \A q \in wire' : row'[q.row].first # "never"
      BY <1>7 DEF IInv, Recorded, TypeOK, Enqueue, Cancel
    <2>3. \A q \in PublicRows : posts'[q] > 0 => row'[q].first # "never"
      BY <1>7 DEF IInv, Recorded, Rows, Enqueue, Cancel
    <2>4. \A q \in PublicRows : row'[q].state = "delivered" => posts'[q] > 0
      BY <1>3, <1>4 DEF IInv, Recorded, Rows, Enqueue, Cancel
    <2> QED BY <2>1, <2>2, <2>3, <2>4 DEF IInv, Recorded, Enqueue, Cancel
  <1> QED BY <1>5, <1>6, <1>8 DEF IInv

(* The sweeps only make due rows terminal.                                 *)
LEMMA SweptFacts ==
  ASSUME IInv
  PROVE  /\ Swept \in [Rows -> RowRecord]
         /\ \A r \in Rows :
              /\ Sound(Swept[r])
              /\ Swept[r].first = row[r].first
              /\ \/ Swept[r] = row[r]
                 \/ /\ row[r].state \in Open
                    /\ Swept[r].state \in {"failed", "dead"}
  <1> SUFFICES ASSUME NEW r \in Rows
               PROVE  /\ Swept[r] \in RowRecord
                      /\ Sound(Swept[r])
                      /\ Swept[r].first = row[r].first
                      /\ \/ Swept[r] = row[r]
                         \/ /\ row[r].state \in Open
                            /\ Swept[r].state \in {"failed", "dead"}
    BY DEF Swept
  <1> DEFINE rec == row[r]
  <1>1. Sound(rec) /\ rec \in RowRecord
    BY SoundRows DEF Sound
  <1>2. CASE Swept[r] = rec
    BY <1>1, <1>2
  <1>3. CASE Swept[r] # rec
    <2>1. Due(rec)
      BY <1>3 DEF Swept
    <2>2. rec.state \in Open
      BY <2>1 DEF Due, Open
    <2>3. PICK s \in {"failed", "dead"}, e \in {"stale", "other"} :
            Swept[r] = Unleased(rec, s, e)
      BY <1>3 DEF Swept
    <2>4. s \in (Open \cup Terminal) \ {"claimed"} /\ e \in Errors
      BY DEF Open, Terminal, Errors
    <2>5. Sound(Swept[r])
      BY <1>1, <2>3, <2>4, UnleasedSound
    <2>6. Swept[r].first = rec.first /\ Swept[r].state = s
      BY <1>1, <2>3 DEF Unleased, RowRecord
    <2> QED BY <2>2, <2>5, <2>6 DEF Sound
  <1> QED BY <1>2, <1>3

LEMMA SweepKeeps ==
  ASSUME IInv, NEW w \in Workers, Sweep(w)
  PROVE  IInv'
  <1>1. /\ row' \in [Rows -> RowRecord]
        /\ \A r \in Rows : /\ Sound(row'[r])
                           /\ row'[r].first = row[r].first
                           /\ row'[r].state = "delivered" =>
                                row[r].state = "delivered"
    BY SweptFacts DEF Sweep
  <1>2. TypeOK'
    BY <1>1 DEF IInv, TypeOK, Sweep, Sound
  <1>3. Busy' /\ Fenced'
    BY DEF IInv, Busy, Fenced, Sweep
  <1>4. Recorded'
    <2>1. \A q \in Rows : row'[q].state = "absent" => row'[q].first = "never"
      BY <1>1 DEF Sound
    <2>2. \A q \in wire' : row'[q.row].first # "never"
      BY <1>1 DEF IInv, Recorded, TypeOK, Sweep
    <2>3. \A q \in PublicRows : posts'[q] > 0 => row'[q].first # "never"
      BY <1>1 DEF IInv, Recorded, Rows, Sweep
    <2>4. \A q \in PublicRows : row'[q].state = "delivered" => posts'[q] > 0
      BY <1>1 DEF IInv, Recorded, Rows, Sweep
    <2> QED BY <2>1, <2>2, <2>3, <2>4 DEF IInv, Recorded, Sweep
  <1> QED BY <1>2, <1>3, <1>4 DEF IInv

LEMMA ClaimKeeps ==
  ASSUME IInv, NEW w \in Workers, NEW r \in Rows, Claim(w, r)
  PROVE  IInv'
  <1> DEFINE token == CHOOSE t \in FreshTokens : TRUE
             rec   == Swept[r]
  <1>1. token \in FreshTokens
    BY DEF Claim
  <1>2. /\ token \in Tokens /\ token # NoToken
        /\ \A v \in Workers : worker[v].token # token
    BY <1>1, OutboxAssumption DEF FreshTokens
  <1>3. rec \in RowRecord /\ Sound(rec)
    BY SweptFacts
  <1>4. rec.attempts \in Nat /\ rec.attempts + 1 \in 0..MaxAttempts
    <2>1. rec.attempts \in 0..MaxAttempts /\ rec.attempts < MaxAttempts
      BY <1>3 DEF Claim, Eligible, RowRecord
    <2> QED BY <2>1, OutboxAssumption
  <1>5. Due(rec)
    BY DEF Claim, Eligible
  <1> DEFINE claimed == [rec EXCEPT !.state = "claimed", !.token = token,
                                    !.lease = ClaimLease, !.attempts = @ + 1]
  <1>6. claimed \in RowRecord
    BY <1>2, <1>3, <1>4, OutboxAssumption DEF RowRecord, Open
  <1>7. /\ claimed.state = "claimed" /\ claimed.token = token
        /\ claimed.first = rec.first /\ claimed.submitted = rec.submitted
    BY <1>3 DEF RowRecord
  <1>8. Sound(claimed)
    BY <1>2, <1>3, <1>6, <1>7 DEF Sound
  <1>9. row' = [Swept EXCEPT ![r] = claimed]
    BY DEF Claim
  <1>10. /\ row' \in [Rows -> RowRecord]
         /\ row'[r] = claimed
         /\ \A q \in Rows : q # r => row'[q] = Swept[q]
    <2> HIDE DEF claimed
    <2> QED BY <1>6, <1>9, SweptFacts
  <1>11. \A q \in Rows : /\ Sound(row'[q])
                         /\ row'[q].first = row[q].first
                         /\ row'[q].state = "delivered" =>
                              row[q].state = "delivered"
    <2> HIDE DEF claimed
    <2> QED BY <1>7, <1>8, <1>10, SweptFacts
  <1> DEFINE held == [IdleWorker EXCEPT
                        !.pc = "claimed", !.row = r, !.token = token,
                        !.attempts = rec.attempts + 1, !.first = rec.first,
                        !.ambiguous = rec.submitted \/ rec.error = "unknown"]
  <1>12. held \in WorkerRecord /\ held.pc = "claimed" /\ held.token = token
           /\ held.row = r /\ held.receipt = "none"
    BY <1>2, <1>3, <1>4 DEF IdleWorker, WorkerRecord, RowRecord, Receipts
  <1>13. worker' = [worker EXCEPT ![w] = held]
    BY DEF Claim
  <1>14. /\ worker' \in [Workers -> WorkerRecord]
         /\ worker'[w] = held
         /\ \A v \in Workers : v # w => worker'[v] = worker[v]
    <2> HIDE DEF held
    <2> QED BY <1>12, <1>13 DEF IInv, TypeOK
  <1> HIDE DEF held, claimed
  <1>15. TypeOK'
    BY <1>10, <1>11, <1>14 DEF IInv, TypeOK, Claim, Sound
  <1>16. Busy'
    BY <1>2, <1>12, <1>14 DEF IInv, Busy
  <1>17. Fenced'
    <2>1. \A v \in Workers : v # w => worker'[v].token # worker'[w].token
      BY <1>2, <1>12, <1>14
    <2> QED BY <1>14, <2>1 DEF IInv, Fenced
  <1>18. Recorded'
    <2>1. \A q \in Rows : row'[q].state = "absent" => row'[q].first = "never"
      BY <1>11 DEF Sound
    <2>2. \A q \in wire' : row'[q.row].first # "never"
      BY <1>11 DEF IInv, Recorded, TypeOK, Claim
    <2>3. \A q \in PublicRows : posts'[q] > 0 => row'[q].first # "never"
      BY <1>11 DEF IInv, Recorded, Rows, Claim
    <2>4. \A q \in PublicRows : row'[q].state = "delivered" => posts'[q] > 0
      BY <1>11 DEF IInv, Recorded, Rows, Claim
    <2>5. \A v \in Workers :
            worker'[v].pc = "waiting" /\ worker'[v].receipt = "success"
              /\ worker'[v].row \in PublicRows => posts'[worker'[v].row] > 0
      BY <1>12, <1>14 DEF IInv, Recorded, Claim
    <2> QED BY <2>1, <2>2, <2>3, <2>4, <2>5 DEF Recorded
  <1> QED BY <1>15, <1>16, <1>17, <1>18 DEF IInv

(* What a settling statement may write: back to pending, given up, the     *)
(* claim left as it is, or delivered once the message is visible.          *)
Outcome(rec, settled, visible) ==
  /\ Sound(settled)
  /\ settled.first = rec.first
  /\ \/ settled.state \in {"pending", "failed", "dead"}
     \/ settled = rec
     \/ settled.state = "delivered" /\ rec.submitted /\ visible

Visible(r) == r \in PublicRows => posts[r] > 0

SettlesClaim(w) ==
  \/ Reject(w) \/ HandlerThrows(w) \/ GiveBack(w) \/ Quarantine(w)
  \/ EditTargetMissing(w) \/ HandleReceipt(w) \/ ReceiptTimeout(w)

LEMMA SettlingFrame ==
  ASSUME IInv, NEW w \in Workers, SettlesClaim(w)
  PROVE  /\ worker[w].pc # "idle"
         /\ worker[w].row \in Rows
         /\ UNCHANGED <<ready, stopping, wire, posts, memory, shown>>
  BY DEF IInv, Busy, SettlesClaim, Reject, HandlerThrows, GiveBack, Quarantine,
         EditTargetMissing, HandleReceipt, ReceiptTimeout

(* The statements that settle a claim.                                     *)
LEMMA HandlerSettles ==
  ASSUME IInv, NEW w \in Workers, SettlesClaim(w)
  PROVE  \E settled :
           /\ Settle(w, settled)
           /\ Outcome(row[worker[w].row], settled, Visible(worker[w].row))
  <1> DEFINE k   == worker[w].row
             rec == row[k]
             Goal == \E settled : Settle(w, settled)
                                  /\ Outcome(rec, settled, Visible(k))
  <1>1. k \in Rows
    BY SettlingFrame
  <1>2. Sound(rec) /\ rec \in RowRecord
    BY <1>1, SoundRows DEF Sound
  <1>3. ASSUME NEW mode, NEW e \in Errors, Settle(w, FailedRow(w, mode, e))
        PROVE  Goal
    <2>1. Outcome(rec, FailedRow(w, mode, e), Visible(k))
      BY <1>1, FailedRowSound DEF IInv, Outcome
    <2> QED BY <1>3, <2>1
  <1>4. CASE GiveBack(w)
    <2> DEFINE released == IF rec.submitted THEN rec
                           ELSE [Unleased(rec, "pending", rec.error)
                                   EXCEPT !.attempts = Earlier(@)]
    <2>1. Settle(w, released)
      BY <1>4 DEF GiveBack, Release
    <2>2. rec.error \in Errors /\ rec.attempts \in 0..MaxAttempts
      BY <1>2 DEF RowRecord
    <2>3. /\ Sound(Unleased(rec, "pending", rec.error))
          /\ Unleased(rec, "pending", rec.error).first = rec.first
          /\ Unleased(rec, "pending", rec.error).state = "pending"
          /\ Unleased(rec, "pending", rec.error).attempts = rec.attempts
      BY <1>2, <2>2, UnleasedSound DEF Open, Terminal, Unleased, RowRecord
    <2>4. Earlier(rec.attempts) \in 0..MaxAttempts
      BY <2>2, OutboxAssumption DEF Earlier
    <2>5. CASE rec.submitted
      BY <1>2, <2>1, <2>5 DEF Outcome
    <2>6. CASE ~rec.submitted
      <3> DEFINE u == Unleased(rec, "pending", rec.error)
      <3>1. released = [u EXCEPT !.attempts = Earlier(@)]
        BY <2>6
      <3> HIDE DEF u
      <3>2. /\ Sound(released)
            /\ released.first = rec.first
            /\ released.state = "pending"
        BY <2>3, <2>4, <3>1 DEF Sound, RowRecord, u
      <3> HIDE DEF released
      <3> QED BY <2>1, <3>2 DEF Outcome
    <2> QED BY <2>5, <2>6
  <1>5. ASSUME NEW result \in Results, SettleWith(w, result),
               worker[w].pc = "waiting",
               result = "success" => worker[w].receipt = "success"
        PROVE  Goal
    <2>1. CASE result # "success"
      <3> DEFINE within == WithinNonceWindow(worker[w].first, rec.age)
      <3>1. FailureError(k, result, within) \in Errors
        BY DEF FailureError, Errors
      <3>2. Settle(w, FailedRow(w, FailureMode(k, result, within),
                                FailureError(k, result, within)))
        BY <1>5, <2>1 DEF SettleWith
      <3> QED BY <1>3, <3>1, <3>2
    <2>2. CASE result = "success"
      <3> DEFINE u    == Unleased(rec, "delivered", "none")
                 done == IF rec.submitted THEN u ELSE rec
      <3>1. Settle(w, done)
        BY <1>5, <2>2 DEF SettleWith
      <3>2. Sound(u) /\ u.first = rec.first /\ u.state = "delivered"
        BY <1>2, UnleasedSound DEF Open, Terminal, Errors, Unleased, RowRecord
      <3>3. Visible(k)
        BY <1>5, <2>2 DEF IInv, Recorded, Visible
      <3>4. Outcome(rec, done, Visible(k))
        <4> HIDE DEF u
        <4> QED BY <1>2, <3>2, <3>3 DEF Outcome
      <3> HIDE DEF done
      <3> QED BY <3>1, <3>4
    <2> QED BY <2>1, <2>2
  <1>6. CASE HandleReceipt(w)
    <2>1. worker[w].receipt \in Results
      BY <1>6 DEF HandleReceipt, IInv, TypeOK, WorkerRecord, Receipts
    <2> QED BY <1>5, <1>6, <2>1 DEF HandleReceipt
  <1>7. CASE ReceiptTimeout(w)
    BY <1>5, <1>7 DEF ReceiptTimeout, Results
  <1>8. CASE Reject(w) \/ HandlerThrows(w) \/ Quarantine(w)
             \/ EditTargetMissing(w)
    BY <1>3, <1>8 DEF Reject, HandlerThrows, Quarantine, EditTargetMissing,
                      Errors
  <1> QED BY <1>4, <1>6, <1>7, <1>8 DEF SettlesClaim

LEMMA HandlerKeeps ==
  ASSUME IInv, NEW w \in Workers, SettlesClaim(w)
  PROVE  IInv'
  <1>1. PICK settled :
          /\ Settle(w, settled)
          /\ Outcome(row[worker[w].row], settled, Visible(worker[w].row))
    BY HandlerSettles
  <1>2. settled.state = "delivered" /\ Owns(w) /\ worker[w].row \in PublicRows
          => posts[worker[w].row] > 0
    BY <1>1 DEF Outcome, Visible, Owns
  <1> QED BY <1>1, <1>2, SettlingFrame, SettleKeeps DEF Outcome

LEMMA AbandonKeeps ==
  ASSUME IInv, NEW w \in Workers, AbandonClaim(w) \/ LeaveSubmitted(w)
  PROVE  IInv'
  <1>1. /\ worker' = [worker EXCEPT ![w] = IdleWorker]
        /\ UNCHANGED <<row, ready, stopping, wire, posts, memory, shown>>
    BY DEF AbandonClaim, LeaveSubmitted
  <1>2. /\ worker' \in [Workers -> WorkerRecord]
        /\ \A v \in Workers : worker'[v] = worker[v] \/ worker'[v] = IdleWorker
    BY <1>1, IdleType DEF IInv, TypeOK
  <1>3. TypeOK'
    BY <1>1, <1>2 DEF IInv, TypeOK
  <1>4. IdleWorker.pc = "idle" /\ IdleWorker.token = NoToken
          /\ IdleWorker.receipt = "none"
    BY DEF IdleWorker
  <1>5. Busy' /\ Fenced'
    BY <1>2, <1>4 DEF IInv, Busy, Fenced
  <1>6. Recorded'
    BY <1>1, <1>2, <1>4 DEF IInv, Recorded
  <1> QED BY <1>3, <1>5, <1>6 DEF IInv

LEMMA ClearKeeps ==
  ASSUME IInv, NEW w \in Workers, Clear(w)
  PROVE  IInv'
  <1>1. /\ worker[w] \in WorkerRecord /\ worker[w].pc = "claimed"
        /\ worker' = [worker EXCEPT ![w].pc = "cleared"]
        /\ UNCHANGED <<row, ready, stopping, wire, posts, memory, shown>>
    BY DEF Clear, IInv, TypeOK
  <1>2. /\ worker' \in [Workers -> WorkerRecord]
        /\ \A v \in Workers : v # w => worker'[v] = worker[v]
        /\ worker'[w].pc = "cleared"
        /\ \A v \in Workers : /\ worker'[v].row = worker[v].row
                              /\ worker'[v].token = worker[v].token
                              /\ worker'[v].receipt = worker[v].receipt
    BY <1>1 DEF IInv, TypeOK, WorkerRecord
  <1>3. TypeOK'
    BY <1>1, <1>2 DEF IInv, TypeOK
  <1>4. Busy' /\ Fenced'
    BY <1>1, <1>2 DEF IInv, Busy, Fenced
  <1>5. Recorded'
    BY <1>1, <1>2 DEF IInv, Recorded
  <1> QED BY <1>3, <1>4, <1>5 DEF IInv

LEMMA SubmitKeeps ==
  ASSUME IInv, NEW w \in Workers, Submit(w)
  PROVE  IInv'
  <1> DEFINE k   == worker[w]
             rec == row[k.row]
  <1>1. k \in WorkerRecord /\ k.pc = "cleared"
    BY DEF Submit, IInv, TypeOK
  <1>2. k.row \in Rows /\ k.token \in Tokens /\ rec \in RowRecord /\ Sound(rec)
    BY <1>1, SoundRows DEF IInv, Busy, Sound
  <1>3. CASE ~Owns(w)
    <2>1. worker' = [worker EXCEPT ![w] = IdleWorker]
            /\ UNCHANGED <<row, ready, stopping, wire, posts, memory, shown>>
      BY <1>3 DEF Submit
    <2>2. /\ worker' \in [Workers -> WorkerRecord]
          /\ \A v \in Workers : worker'[v] = worker[v] \/ worker'[v] = IdleWorker
      BY <2>1, IdleType DEF IInv, TypeOK
    <2>3. TypeOK'
      BY <2>1, <2>2 DEF IInv, TypeOK
    <2>4. IdleWorker.pc = "idle" /\ IdleWorker.token = NoToken
            /\ IdleWorker.receipt = "none"
      BY DEF IdleWorker
    <2>5. Busy' /\ Fenced'
      BY <2>2, <2>4 DEF IInv, Busy, Fenced
    <2>6. Recorded'
      BY <2>1, <2>2, <2>4 DEF IInv, Recorded
    <2> QED BY <2>3, <2>5, <2>6 DEF IInv
  <1>4. CASE Owns(w)
    <2> DEFINE marked == [rec EXCEPT
                            !.first = IF @ = "never" THEN "this boot" ELSE @,
                            !.submitted = TRUE,
                            !.lease = Upper(@, SubmissionLease)]
               sent == [row |-> k.row, token |-> k.token, left |-> WireDelay]
    <2>a. SubmissionLease \in Nat
      BY OutboxAssumption DEF SubmissionLease
    <2>b. rec.lease \in Nat
      BY <1>2 DEF RowRecord
    <2>1. Upper(rec.lease, SubmissionLease) \in Nat
      BY <2>a, <2>b DEF Upper
    <2>2. /\ marked \in RowRecord /\ marked.first # "never"
          /\ marked.state = "claimed" /\ marked.token = rec.token
      BY <1>2, <1>4, <2>1 DEF Owns, RowRecord
    <2>3. Sound(marked)
      BY <1>2, <1>4, <2>2 DEF Sound, Owns
    <2>4. row' = [row EXCEPT ![k.row] = marked] /\ wire' = wire \cup {sent}
            /\ UNCHANGED <<ready, stopping, posts, memory, shown>>
      BY <1>4 DEF Submit
    <2> HIDE DEF marked
    <2>5. /\ row' \in [Rows -> RowRecord]
          /\ \A r \in Rows : \/ row'[r] = row[r]
                             \/ r = k.row /\ row'[r] = marked
      BY <1>2, <2>2, <2>4 DEF IInv, TypeOK
    <2>6. \A r \in Rows : Sound(row'[r]) /\ (row[r].first # "never"
                                               => row'[r].first # "never")
      BY <2>2, <2>3, <2>5, SoundRows
    <2>7. row'[k.row] = marked
      BY <1>2, <2>4 DEF IInv, TypeOK
    <2>8. sent \in [row: Rows, token: Tokens, left: Nat] /\ sent.row = k.row
      BY <1>2, OutboxAssumption
    <2>9. worker' = [worker EXCEPT ![w].pc = "waiting",
                       ![w].timer = ReceiptWait,
                       ![w].first = IF @ = "never" THEN "this boot" ELSE @]
      BY <1>4 DEF Submit
    <2>10. /\ worker' \in [Workers -> WorkerRecord]
           /\ \A v \in Workers : v # w => worker'[v] = worker[v]
           /\ worker'[w].pc = "waiting"
           /\ worker'[w].receipt = worker[w].receipt
           /\ \A v \in Workers : /\ worker'[v].row = worker[v].row
                                 /\ worker'[v].token = worker[v].token
      BY <1>1, <2>9, OutboxAssumption DEF IInv, TypeOK, WorkerRecord
    <2>11. TypeOK'
      BY <2>4, <2>5, <2>6, <2>8, <2>10 DEF IInv, TypeOK, Sound
    <2>12. Busy' /\ Fenced'
      BY <1>2, <2>10 DEF IInv, Busy, Fenced
    <2>13. Recorded'
      <3>1. \A q \in Rows : row'[q].state = "absent" => row'[q].first = "never"
        BY <2>6 DEF Sound
      <3>2. \A q \in wire' : row'[q.row].first # "never"
        BY <2>2, <2>4, <2>6, <2>7, <2>8 DEF IInv, Recorded, TypeOK
      <3>3. \A q \in PublicRows : posts'[q] > 0 => row'[q].first # "never"
        BY <2>4, <2>6 DEF IInv, Recorded, Rows
      <3>4. \A q \in PublicRows : row'[q].state = "delivered" => posts'[q] > 0
        BY <2>2, <2>4, <2>5 DEF IInv, Recorded, Rows
      <3>5. worker[w].receipt = "none"
        BY <1>1 DEF IInv, Busy
      <3>6. \A v \in Workers :
              worker'[v].pc = "waiting" /\ worker'[v].receipt = "success"
                /\ worker'[v].row \in PublicRows => posts'[worker'[v].row] > 0
        BY <2>4, <2>10, <3>5 DEF IInv, Recorded
      <3> QED BY <3>1, <3>2, <3>3, <3>4, <3>6 DEF Recorded
    <2> QED BY <2>11, <2>12, <2>13 DEF IInv
  <1> QED BY <1>3, <1>4

(* Readiness, stop requests and restarts touch neither table nor workers.  *)
LEMMA ProcessKeeps ==
  ASSUME IInv, SetReady \/ Stop \/ Restart
  PROVE  IInv'
  <1>1. /\ UNCHANGED <<row, worker, wire, posts, memory, shown>>
        /\ ready' \in BOOLEAN /\ stopping' \in BOOLEAN
    BY DEF SetReady, Stop, Restart, IInv, TypeOK
  <1>2. TypeOK'
    BY <1>1 DEF IInv, TypeOK
  <1>3. Busy' /\ Fenced' /\ Recorded'
    BY <1>1 DEF IInv, Busy, Fenced, Recorded
  <1> QED BY <1>2, <1>3 DEF IInv

LEMMA CrashKeeps ==
  ASSUME IInv, NEW reboot \in BOOLEAN, Crash(reboot)
  PROVE  IInv'
  <1>1. ASSUME NEW r \in Rows
        PROVE  /\ row'[r] \in RowRecord /\ Sound(row'[r])
               /\ row'[r].state = row[r].state
               /\ (row'[r].first = "never") <=> (row[r].first = "never")
    <2>1. row[r] \in RowRecord /\ Sound(row[r])
      BY SoundRows DEF Sound
    <2>2. CASE row'[r] = row[r]
      BY <2>1, <2>2
    <2>3. CASE /\ row[r].first # "never"
               /\ row'[r] = [row[r] EXCEPT !.first = "earlier boot"]
      BY <2>1, <2>3 DEF Sound, RowRecord
    <2> QED BY <2>2, <2>3 DEF Crash
  <1>2. row' \in [Rows -> RowRecord]
    BY <1>1 DEF Crash
  <1>3. /\ worker' \in [Workers -> WorkerRecord]
        /\ \A w \in Workers : worker'[w] = IdleWorker
        /\ UNCHANGED <<ready, wire, posts, memory, shown>>
        /\ stopping' \in BOOLEAN
    BY IdleType DEF Crash
  <1>4. IdleWorker.pc = "idle" /\ IdleWorker.token = NoToken
          /\ IdleWorker.receipt = "none"
    BY DEF IdleWorker
  <1>5. TypeOK'
    BY <1>1, <1>2, <1>3 DEF IInv, TypeOK, Sound
  <1>6. Busy' /\ Fenced'
    BY <1>3, <1>4 DEF Busy, Fenced
  <1>7. Recorded'
    <2>1. \A q \in wire' : row'[q.row].first # "never"
      BY <1>1, <1>3 DEF IInv, Recorded, TypeOK
    <2>2. \A r \in PublicRows : /\ posts'[r] > 0 => row'[r].first # "never"
                                /\ row'[r].state = "delivered" => posts'[r] > 0
      BY <1>1, <1>3 DEF IInv, Recorded, Rows
    <2> QED BY <1>1, <1>3, <1>4, <2>1, <2>2 DEF Recorded, Sound
  <1> QED BY <1>5, <1>6, <1>7 DEF IInv

LEMMA TickKeeps ==
  ASSUME IInv, Tick
  PROVE  IInv'
  <1>1. ASSUME NEW r \in Rows
        PROVE  /\ row'[r] \in RowRecord /\ Sound(row'[r])
               /\ row'[r].state = row[r].state
               /\ row'[r].first = row[r].first
    <2>1. row[r] \in RowRecord /\ Sound(row[r])
      BY SoundRows DEF Sound
    <2>2. /\ row[r].lease \in Nat /\ row[r].wait \in Nat /\ row[r].age \in Nat
      BY <2>1 DEF RowRecord
    <2>3. /\ Earlier(row[r].lease) \in Nat /\ Earlier(row[r].wait) \in Nat
          /\ Lower(row[r].age + 1, NonceWindow + 1) \in Nat
      BY <2>2, OutboxAssumption DEF Earlier, Lower
    <2>4. PICK a \in Nat :
            row'[r] = [row[r] EXCEPT !.lease = Earlier(@),
                                     !.wait = Earlier(@), !.age = a]
      BY <2>3 DEF Tick
    <2> QED BY <2>1, <2>3, <2>4 DEF Sound, RowRecord
  <1>2. row' \in [Rows -> RowRecord]
    BY <1>1 DEF Tick
  <1>3. ASSUME NEW w \in Workers
        PROVE  /\ worker'[w] \in WorkerRecord
               /\ worker'[w].pc = worker[w].pc
               /\ worker'[w].row = worker[w].row
               /\ worker'[w].token = worker[w].token
               /\ worker'[w].receipt = worker[w].receipt
    <2>1. worker[w] \in WorkerRecord
      BY DEF IInv, TypeOK
    <2>a. worker[w].timer \in Nat
      BY <2>1 DEF WorkerRecord
    <2>2. Earlier(worker[w].timer) \in Nat
      BY <2>a DEF Earlier
    <2>3. worker'[w] = [worker[w] EXCEPT !.timer = Earlier(@)]
      BY DEF Tick
    <2> QED BY <2>1, <2>2, <2>3 DEF WorkerRecord
  <1>4. worker' \in [Workers -> WorkerRecord]
    BY <1>3 DEF Tick
  <1>5. ASSUME NEW p \in wire'
        PROVE  /\ p \in [row: Rows, token: Tokens, left: Nat]
               /\ row[p.row].first # "never"
    <2>1. PICK q \in wire : p = [q EXCEPT !.left = @ - 1]
      BY DEF Tick
    <2>2. q \in [row: Rows, token: Tokens, left: Nat] /\ q.left > 0
      BY DEF Tick, IInv, TypeOK
    <2> QED BY <2>1, <2>2 DEF IInv, Recorded
  <1>6. memory' \in [PublicRows -> Nat]
    <2>1. \A r \in PublicRows : Earlier(memory[r]) \in Nat
      BY DEF IInv, TypeOK, Earlier
    <2> QED BY <2>1 DEF Tick
  <1>7. UNCHANGED <<ready, stopping, posts, shown>>
    BY DEF Tick
  <1>8. TypeOK'
    BY <1>1, <1>2, <1>4, <1>5, <1>6, <1>7 DEF IInv, TypeOK, Sound
  <1>9. Busy' /\ Fenced'
    BY <1>3 DEF IInv, Busy, Fenced
  <1>10. Recorded'
    <2>1. \A q \in wire' : row'[q.row].first # "never"
      BY <1>1, <1>5
    <2>2. \A r \in PublicRows : /\ posts'[r] > 0 => row'[r].first # "never"
                                /\ row'[r].state = "delivered" => posts'[r] > 0
      BY <1>1, <1>7 DEF IInv, Recorded, Rows
    <2> QED BY <1>1, <1>3, <1>7, <2>1, <2>2 DEF IInv, Recorded
  <1> QED BY <1>8, <1>9, <1>10 DEF IInv

(* A request and the worker that still holds its token mean the same row.  *)
Matched ==
  \A q \in wire, w \in Workers :
    worker[w].token = q.token => worker[w].row = q.row

(* Discord remembers only nonces of messages it has made.                  *)
Remembered == \A r \in PublicRows : memory[r] > 0 => posts[r] > 0

LEMMA DiscordKeeps ==
  ASSUME IInv, Matched, Remembered, NEW q \in wire, NEW result \in Receipts,
         Land(q, result) \/ Lose(q, result)
  PROVE  IInv'
  <1>1. /\ Answer(q, result)
        /\ UNCHANGED <<row, ready, stopping>>
        /\ q \in [row: Rows, token: Tokens, left: Nat]
    BY DEF Land, Lose, IInv, TypeOK
  <1>2. ASSUME NEW w \in Workers
        PROVE  /\ worker'[w] \in WorkerRecord
               /\ worker'[w].pc = worker[w].pc
               /\ worker'[w].row = worker[w].row
               /\ worker'[w].token = worker[w].token
               /\ \/ worker'[w].receipt = worker[w].receipt
                  \/ /\ worker[w].pc = "waiting"
                     /\ worker[w].token = q.token
                     /\ worker'[w].receipt = result
    <2>1. worker[w] \in WorkerRecord
      BY DEF IInv, TypeOK
    <2>2. CASE worker'[w] = worker[w]
      BY <2>1, <2>2
    <2>3. CASE /\ worker[w].pc = "waiting" /\ worker[w].token = q.token
               /\ worker'[w] = [worker[w] EXCEPT !.receipt = result]
      BY <2>1, <2>3 DEF WorkerRecord
    <2> QED BY <1>1, <2>2, <2>3 DEF Answer
  <1>3. worker' \in [Workers -> WorkerRecord]
    BY <1>1, <1>2 DEF Answer
  <1>4. /\ posts' \in [PublicRows -> Nat] /\ memory' \in [PublicRows -> Nat]
        /\ shown' \in [PublicRows -> Nat]
        /\ \A r \in PublicRows : posts'[r] >= posts[r]
        /\ \A r \in PublicRows : posts'[r] # posts[r] => r = q.row
    <2>1. CASE Lose(q, result)
      BY <2>1 DEF Lose, IInv, TypeOK
    <2>2. CASE Land(q, result) /\ q.row \in PublicRows
      <3> DEFINE n == IF memory[q.row] > 0 THEN posts[q.row]
                      ELSE posts[q.row] + 1
                 m == IF memory[q.row] > 0 THEN memory[q.row]
                      ELSE ProviderMemory
      <3>0. posts[q.row] \in Nat /\ memory[q.row] \in Nat
        BY <2>2 DEF IInv, TypeOK
      <3>1. n \in Nat /\ n >= posts[q.row]
        BY <3>0
      <3>2. m \in Nat
        BY <3>0, OutboxAssumption
      <3>3. posts' = [posts EXCEPT ![q.row] = n]
        BY <2>2 DEF Land
      <3>4. memory' = [memory EXCEPT ![q.row] = m]
        BY <2>2 DEF Land
      <3>5. shown' = shown
        BY <2>2 DEF Land
      <3> HIDE DEF n, m
      <3>6. posts' \in [PublicRows -> Nat] /\ memory' \in [PublicRows -> Nat]
        BY <3>1, <3>2, <3>3, <3>4 DEF IInv, TypeOK
      <3>7. \A r \in PublicRows : posts[r] \in Nat
        BY DEF IInv, TypeOK
      <3>8. \A r \in PublicRows : /\ posts'[r] >= posts[r]
                                  /\ posts'[r] # posts[r] => r = q.row
        BY <2>2, <3>1, <3>3, <3>7 DEF IInv, TypeOK
      <3> QED BY <3>5, <3>6, <3>8 DEF IInv, TypeOK
    <2>3. CASE Land(q, result) /\ q.row \notin PublicRows
      <3>1. q.row \in EditRows
        BY <1>1, <2>3 DEF Rows
      <3>2. Source[q.row] \in PublicRows /\ Revision[q.row] \in Nat
        BY <3>1, OutboxAssumption
      <3> QED BY <2>3, <3>2 DEF Land, IInv, TypeOK
    <2> QED BY <2>1, <2>2, <2>3
  <1>5. wire' \subseteq wire
    BY <1>1 DEF Answer
  <1>6. TypeOK'
    BY <1>1, <1>3, <1>4, <1>5 DEF IInv, TypeOK
  <1>7. Busy' /\ Fenced'
    BY <1>2 DEF IInv, Busy, Fenced
  <1>8. result = "success" /\ q.row \in PublicRows => posts'[q.row] > 0
    <2> SUFFICES ASSUME result = "success", q.row \in PublicRows
                 PROVE  posts'[q.row] > 0
      OBVIOUS
    <2>1. Land(q, result)
      BY DEF Lose
    <2>2. posts[q.row] \in Nat
      BY DEF IInv, TypeOK
    <2>3. CASE memory[q.row] > 0
      <3>1. posts'[q.row] = posts[q.row]
        BY <2>1, <2>3 DEF Land, IInv, TypeOK
      <3> QED BY <2>3, <3>1 DEF Remembered
    <2>4. CASE ~(memory[q.row] > 0)
      <3>1. posts'[q.row] = posts[q.row] + 1
        BY <2>1, <2>4 DEF Land, IInv, TypeOK
      <3> QED BY <2>2, <3>1
    <2> QED BY <2>3, <2>4
  <1>9. Recorded'
    <2>1. \A p \in wire' : row'[p.row].first # "never"
      BY <1>1, <1>5 DEF IInv, Recorded
    <2>2. \A r \in PublicRows : /\ posts'[r] > 0 => row'[r].first # "never"
                                /\ row'[r].state = "delivered" => posts'[r] > 0
      <3> SUFFICES ASSUME NEW r \in PublicRows
                   PROVE  /\ posts'[r] > 0 => row'[r].first # "never"
                          /\ row'[r].state = "delivered" => posts'[r] > 0
        OBVIOUS
      <3>1. posts[r] \in Nat /\ posts'[r] \in Nat
        BY <1>4 DEF IInv, TypeOK
      <3> QED BY <1>1, <1>4, <3>1 DEF IInv, Recorded
    <2>3. ASSUME NEW w \in Workers, worker'[w].pc = "waiting",
                 worker'[w].receipt = "success", worker'[w].row \in PublicRows
          PROVE  posts'[worker'[w].row] > 0
      <3>1. CASE worker'[w].receipt = worker[w].receipt
        <4>1. posts[worker[w].row] > 0
          BY <1>2, <2>3, <3>1 DEF IInv, Recorded
        <4>2. posts[worker[w].row] \in Nat /\ posts'[worker[w].row] \in Nat
          BY <1>2, <1>4, <2>3 DEF IInv, TypeOK
        <4> QED BY <1>2, <1>4, <2>3, <4>1, <4>2
      <3>2. CASE worker[w].token = q.token /\ worker'[w].receipt = result
        BY <1>2, <1>8, <2>3, <3>2 DEF Matched
      <3> QED BY <1>2, <3>1, <3>2
    <2> QED BY <1>1, <2>1, <2>2, <2>3 DEF IInv, Recorded
  <1> QED BY <1>6, <1>7, <1>9 DEF IInv

(* Each step either leaves a worker's claim, ends it, or starts one under  *)
(* a fresh token; a new request carries its worker's claim.                *)
LEMMA MatchedKeeps ==
  ASSUME IInv, Matched, Next
  PROVE  Matched'
  <1>0. IdleWorker.token = NoToken
    BY DEF IdleWorker
  <1>1. \A q \in wire : q.token \in Tokens /\ q.token # NoToken
    BY OutboxAssumption DEF IInv, TypeOK
  <1>2. ASSUME wire' \subseteq wire,
               \A w \in Workers : \/ worker'[w].token = NoToken
                                  \/ /\ worker'[w].token = worker[w].token
                                     /\ worker'[w].row = worker[w].row
        PROVE  Matched'
    BY <1>1, <1>2 DEF Matched
  <1>3. ASSUME NEW w \in Workers, NEW settled, Settle(w, settled),
               wire' = wire
        PROVE  Matched'
    BY <1>0, <1>2, <1>3 DEF Settle, IInv, TypeOK
  <1>4. ASSUME NEW w \in Workers, NEW r \in Rows, Claim(w, r)
        PROVE  Matched'
    <2> DEFINE token == CHOOSE t \in FreshTokens : TRUE
    <2>1. \A q \in wire : q.token # token
      BY <1>4 DEF Claim, FreshTokens
    <2>2. \A v \in Workers : v # w => worker'[v] = worker[v]
      BY <1>4 DEF Claim, IInv, TypeOK
    <2>3. worker'[w].token = token
      BY <1>4 DEF Claim, IInv, TypeOK, IdleWorker
    <2>4. wire' = wire
      BY <1>4 DEF Claim
    <2> QED BY <2>1, <2>2, <2>3, <2>4 DEF Matched
  <1>5. ASSUME NEW w \in Workers, Submit(w)
        PROVE  Matched'
    <2>1. CASE ~Owns(w)
      BY <1>0, <1>2, <1>5, <2>1 DEF Submit, IInv, TypeOK
    <2>2. CASE Owns(w)
      <3>1. ASSUME NEW v \in Workers
            PROVE  /\ worker'[v].token = worker[v].token
                   /\ worker'[v].row = worker[v].row
        <4>1. worker[v] \in WorkerRecord /\ worker[w] \in WorkerRecord
          BY DEF IInv, TypeOK
        <4>2. CASE v # w
          BY <1>5, <2>2, <4>2 DEF Submit, IInv, TypeOK
        <4>3. CASE v = w
          <5>1. PICK f : worker'[w] = [worker[w] EXCEPT
                           !.pc = "waiting", !.timer = ReceiptWait,
                           !.first = f]
            BY <1>5, <2>2 DEF Submit, IInv, TypeOK
          <5> QED BY <4>1, <4>3, <5>1 DEF WorkerRecord
        <4> QED BY <4>2, <4>3
      <3>2. wire' = wire \cup {[row |-> worker[w].row,
                                token |-> worker[w].token,
                                left |-> WireDelay]}
        BY <1>5, <2>2 DEF Submit
      <3>3. worker[w].token # NoToken
        BY <1>5, OutboxAssumption DEF Submit, IInv, Busy
      <3>4. ASSUME NEW q \in wire', NEW v \in Workers,
                   worker'[v].token = q.token
            PROVE  worker'[v].row = q.row
        <4>1. CASE q \in wire
          BY <3>1, <3>4, <4>1 DEF Matched
        <4>2. CASE q.row = worker[w].row /\ q.token = worker[w].token
          BY <3>1, <3>3, <3>4, <4>2 DEF IInv, Fenced
        <4> QED BY <3>2, <4>1, <4>2
      <3> QED BY <3>4 DEF Matched
    <2> QED BY <2>1, <2>2
  <1>6. ASSUME NEW w \in Workers, AbandonClaim(w) \/ LeaveSubmitted(w)
        PROVE  Matched'
    BY <1>0, <1>2, <1>6 DEF AbandonClaim, LeaveSubmitted, IInv, TypeOK
  <1>7. ASSUME NEW w \in Workers, Clear(w)
        PROVE  Matched'
    BY <1>2, <1>7 DEF Clear, IInv, TypeOK, WorkerRecord
  <1>8. CASE Tick
    <2>1. ASSUME NEW p \in wire'
          PROVE  \E q \in wire : p.row = q.row /\ p.token = q.token
      <3>1. PICK q \in wire : p = [q EXCEPT !.left = @ - 1]
        BY <1>8 DEF Tick
      <3>2. q \in [row: Rows, token: Tokens, left: Nat]
        BY DEF IInv, TypeOK
      <3> QED BY <3>1, <3>2
    <2>2. \A w \in Workers : /\ worker'[w].token = worker[w].token
                              /\ worker'[w].row = worker[w].row
      BY <1>8 DEF Tick, IInv, TypeOK, WorkerRecord
    <2> QED BY <2>1, <2>2 DEF Matched
  <1>9. ASSUME NEW q \in wire, NEW result \in Receipts,
               Land(q, result) \/ Lose(q, result)
        PROVE  Matched'
    <2>1. Answer(q, result)
      BY <1>9 DEF Land, Lose
    <2>2. wire' \subseteq wire
      BY <2>1 DEF Answer
    <2>3. ASSUME NEW w \in Workers
          PROVE  /\ worker'[w].token = worker[w].token
                 /\ worker'[w].row = worker[w].row
      <3>1. worker[w] \in WorkerRecord
        BY DEF IInv, TypeOK
      <3>2. \/ worker'[w] = worker[w]
            \/ worker'[w] = [worker[w] EXCEPT !.receipt = result]
        BY <2>1 DEF Answer
      <3>3. CASE worker'[w] = [worker[w] EXCEPT !.receipt = result]
        BY <3>1, <3>3 DEF WorkerRecord
      <3> QED BY <3>2, <3>3
    <2> QED BY <1>2, <2>2, <2>3
  <1>10. ASSUME NEW reboot \in BOOLEAN, Crash(reboot)
         PROVE  Matched'
    BY <1>0, <1>2, <1>10 DEF Crash
  <1>11. ASSUME UNCHANGED <<worker, wire>>
         PROVE  Matched'
    BY <1>11 DEF Matched
  <1>12. ASSUME NEW w \in Workers, Handle(w)
         PROVE  Matched'
    <2>1. CASE Reject(w) \/ HandlerThrows(w) \/ Quarantine(w)
               \/ EditTargetMissing(w)
      BY <1>3, <2>1 DEF Reject, HandlerThrows, Quarantine, EditTargetMissing
    <2>2. CASE GiveBack(w)
      BY <1>3, <2>2 DEF GiveBack, Release
    <2>3. CASE HandleReceipt(w) \/ ReceiptTimeout(w)
      BY <1>3, <2>3 DEF HandleReceipt, ReceiptTimeout, SettleWith
    <2> QED BY <1>5, <1>6, <1>7, <1>12, <2>1, <2>2, <2>3 DEF Handle
  <1> QED
    BY <1>4, <1>8, <1>9, <1>10, <1>11, <1>12
    DEF Next, Discord, Enqueue, Cancel, Sweep, SetReady, Stop, Restart

LEMMA RememberedKeeps ==
  ASSUME IInv, Remembered, Next
  PROVE  Remembered'
  <1>1. CASE UNCHANGED <<posts, memory>>
    BY <1>1 DEF Remembered
  <1>2. CASE Tick
    <2>1. ASSUME NEW r \in PublicRows, memory'[r] > 0
          PROVE  memory[r] > 0
      <3>1. memory[r] \in Nat
        BY DEF IInv, TypeOK
      <3>2. memory'[r] = Earlier(memory[r])
        BY <1>2 DEF Tick
      <3> QED BY <2>1, <3>1, <3>2 DEF Earlier
    <2> QED BY <1>2, <2>1 DEF Tick, Remembered
  <1>3. ASSUME NEW q \in wire, NEW result \in Receipts, Land(q, result)
        PROVE  Remembered'
    <2>1. CASE q.row \notin PublicRows
      BY <1>3, <2>1 DEF Land, Remembered
    <2>2. CASE q.row \in PublicRows
      <3>1. posts[q.row] \in Nat
        BY <2>2 DEF IInv, TypeOK
      <3>2. posts'[q.row] > 0
        BY <1>3, <2>2, <3>1 DEF Land, IInv, TypeOK, Remembered
      <3>3. \A r \in PublicRows :
              r # q.row => memory'[r] = memory[r] /\ posts'[r] = posts[r]
        BY <1>3, <2>2 DEF Land, IInv, TypeOK
      <3> QED BY <3>2, <3>3 DEF Remembered
    <2> QED BY <2>1, <2>2
  <1> QED
    BY <1>1, <1>2, <1>3
    DEF Next, Discord, Lose, Handle, Enqueue, Cancel, Sweep, Claim, SetReady,
        Stop, Restart, Crash, Reject, HandlerThrows, AbandonClaim, GiveBack,
        Quarantine, EditTargetMissing, Clear, Submit, HandleReceipt,
        ReceiptTimeout, LeaveSubmitted

-----------------------------------------------------------------------------
(* The theorems *)

Inductive == IInv /\ Matched /\ Remembered

LEMMA InitInductive == Init => Inductive
  <1> SUFFICES ASSUME Init PROVE Inductive
    OBVIOUS
  <1>1. Matched /\ Remembered
    BY DEF Init, Matched, Remembered
  <1> QED BY <1>1, InitKeeps DEF Inductive

LEMMA NextInductive == Inductive /\ [Next]_vars => Inductive'
  <1> SUFFICES ASSUME Inductive, [Next]_vars
               PROVE  Inductive'
    OBVIOUS
  <1> USE DEF Inductive
  <1>1. CASE UNCHANGED vars
    BY <1>1 DEF vars, IInv, TypeOK, Busy, Fenced, Recorded, Matched, Remembered
  <1>2. CASE Next
    <2>1. Matched' /\ Remembered'
      BY <1>2, MatchedKeeps, RememberedKeeps
    <2>2. IInv'
      <3>1. ASSUME NEW w \in Workers, Handle(w)
            PROVE  IInv'
        BY <3>1, HandlerKeeps, AbandonKeeps, ClearKeeps, SubmitKeeps
        DEF Handle, SettlesClaim
      <3> QED
        BY <1>2, <3>1, EnqueueKeeps, ClaimKeeps, SweepKeeps, ProcessKeeps,
           CrashKeeps, TickKeeps, DiscordKeeps
        DEF Next, Discord
    <2> QED BY <2>1, <2>2
  <1> QED BY <1>1, <1>2

(* The table keeps its types and its CHECK constraints.                    *)
THEOREM TypeCorrect == Spec => []TypeOK
  <1>1. Inductive => TypeOK
    BY DEF Inductive, IInv
  <1> QED BY <1>1, InitInductive, NextInductive, PTL DEF Spec

(* Lease tokens fence claims: no two workers own the same row.             *)
THEOREM ClaimsAreExclusive == Spec => []ExclusiveClaim
  <1>1. Inductive => ExclusiveClaim
    <2> SUFFICES ASSUME Inductive, NEW v \in Workers, NEW w \in Workers,
                        Owns(v), Owns(w), worker[v].row = worker[w].row
                 PROVE  v = w
      BY DEF ExclusiveClaim
    <2>1. worker[v].token = worker[w].token
      BY DEF Owns
    <2>2. worker[v].token # NoToken
      BY DEF Inductive, IInv, TypeOK, Owns
    <2> QED BY <2>1, <2>2 DEF Inductive, IInv, Fenced
  <1> QED BY <1>1, InitInductive, NextInductive, PTL DEF Spec

-----------------------------------------------------------------------------
(* The outbox implements Delivery                                          *)

(* What one statement does to one row, as far as the promise can tell.     *)
RowStep(a, b, visible) ==
  \/ b.state = a.state /\ ((b.first = "never") <=> (a.first = "never"))
  \/ a.state = "absent" /\ b.state = "pending" /\ b.first = a.first
  \/ a.state \in Open /\ b.state \in Open
       /\ (a.first # "never" => b.first # "never")
  \/ a.state \in Open /\ b.state \in {"failed", "dead", "cancelled"}
       /\ b.first = a.first
  \/ a.state \in Open /\ b.state = "delivered" /\ a.first # "never" /\ visible

PromiseKept(r) == [Promise(r)!Next]_(Promise(r)!vars)

LEMMA RowStepKeepsPromise ==
  ASSUME IInv, NEW r \in PublicRows, posts'[r] = posts[r],
         RowStep(row[r], row'[r], posts[r] > 0)
  PROVE  PromiseKept(r)
  <1> DEFINE a == row[r]
             b == row'[r]
             v == posts[r] > 0
  <1>1. Sound(a) /\ a.state \in {"absent"} \cup Open \cup Terminal
    BY SoundRows DEF Rows, Sound, RowRecord
  <1>2. \/ DeliveryStatus(b) = DeliveryStatus(a)
        \/ DeliveryStatus(a) = "new" /\ DeliveryStatus(b) = "offered"
        \/ DeliveryStatus(a) = "offered" /\ DeliveryStatus(b) = "tried"
        \/ DeliveryStatus(a) = "offered" /\ DeliveryStatus(b) = "unsent"
        \/ DeliveryStatus(a) = "tried" /\ DeliveryStatus(b) = "unresolved"
        \/ /\ DeliveryStatus(a) = "tried" /\ DeliveryStatus(b) = "delivered"
           /\ v
    <2> HIDE DEF a, b, v
    <2>1. RowStep(a, b, v)
      BY DEF a, b, v
    <2> QED BY <1>1, <2>1 DEF RowStep, DeliveryStatus, Sound, Open, Terminal
  <1> QED
    BY <1>2
    DEF PromiseKept, Promise!Next, Promise!vars, Promise!Offer, Promise!Try,
        Promise!Confirm, Promise!GiveUp, Promise!Move

LEMMA SettlingStep ==
  ASSUME IInv, NEW w \in Workers, SettlesClaim(w), NEW r \in PublicRows
  PROVE  RowStep(row[r], row'[r], posts[r] > 0)
  <1>1. r \in Rows /\ worker[w].row \in Rows
    BY SettlingFrame DEF Rows
  <1>2. PICK settled :
          /\ Settle(w, settled)
          /\ Outcome(row[worker[w].row], settled, Visible(worker[w].row))
    BY HandlerSettles
  <1>3. CASE row'[r] = row[r]
    BY <1>3 DEF RowStep
  <1>4. CASE row'[r] = settled /\ r = worker[w].row /\ Owns(w)
    <2>1. row[r].state = "claimed" /\ Sound(row[r])
      BY <1>1, <1>4, SoundRows DEF Owns
    <2>2. Outcome(row[r], settled, posts[r] > 0)
      BY <1>2, <1>4 DEF Outcome, Visible
    <2> QED BY <1>4, <2>1, <2>2 DEF Outcome, RowStep, Sound, Open
  <1> QED BY <1>1, <1>2, <1>3, <1>4 DEF Settle, IInv, TypeOK

LEMMA SweptStep ==
  ASSUME IInv, NEW r \in PublicRows
  PROVE  RowStep(row[r], Swept[r], posts[r] > 0)
  BY SweptFacts DEF RowStep, Rows

LEMMA ClaimStep ==
  ASSUME IInv, NEW w \in Workers, NEW c \in Rows, Claim(w, c),
         NEW r \in PublicRows
  PROVE  RowStep(row[r], row'[r], posts[r] > 0)
  <1> DEFINE token == CHOOSE t \in FreshTokens : TRUE
             rec   == Swept[c]
             held  == [rec EXCEPT !.state = "claimed", !.token = token,
                                  !.lease = ClaimLease, !.attempts = @ + 1]
  <1>1. r \in Rows
    BY DEF Rows
  <1>2. row' = [Swept EXCEPT ![c] = held]
    BY DEF Claim
  <1>3. CASE r # c
    <2>1. row'[r] = Swept[r]
      BY <1>1, <1>2, <1>3, SweptFacts
    <2> QED BY <2>1, SweptStep
  <1>4. CASE r = c
    <2>1. rec \in RowRecord /\ Due(rec)
      BY SweptFacts DEF Claim, Eligible
    <2>2. held.state = "claimed" /\ held.first = rec.first
      BY <2>1 DEF RowRecord
    <2>3. row'[r] = held
      BY <1>1, <1>2, <1>4, SweptFacts
    <2>4. rec = row[r]
      BY <1>1, <1>4, <2>1, SweptFacts DEF Due
    <2> HIDE DEF held, rec
    <2> QED BY <2>1, <2>2, <2>3, <2>4 DEF RowStep, Due, Open
  <1> QED BY <1>3, <1>4

LEMMA SubmitStep ==
  ASSUME IInv, NEW w \in Workers, Submit(w), NEW r \in PublicRows
  PROVE  RowStep(row[r], row'[r], posts[r] > 0)
  <1> DEFINE k    == worker[w].row
             rec  == row[k]
             sent == [rec EXCEPT
                        !.first = IF @ = "never" THEN "this boot" ELSE @,
                        !.submitted = TRUE,
                        !.lease = Upper(@, SubmissionLease)]
  <1>1. r \in Rows
    BY DEF Rows
  <1>2. CASE row'[r] = row[r]
    BY <1>2 DEF RowStep
  <1>3. CASE r = k /\ row'[r] = sent /\ Owns(w)
    <2>1. rec \in RowRecord
      BY <1>1, <1>3 DEF IInv, TypeOK
    <2>2. sent.state = rec.state /\ sent.first # "never"
      BY <2>1 DEF RowRecord
    <2>3. rec.state \in Open
      BY <1>3 DEF Owns, Open
    <2> QED BY <1>3, <2>2, <2>3 DEF RowStep
  <1> QED BY <1>1, <1>2, <1>3 DEF Submit, IInv, TypeOK

(* Crashes and the clock keep the state of a row and whether a first       *)
(* attempt is on record; producers add or withdraw a row.                  *)
LEMMA TableStep ==
  ASSUME IInv, NEW r \in PublicRows,
         \/ \E e \in Rows : Enqueue(e) \/ Cancel(e)
         \/ \E w \in Workers : Sweep(w)
         \/ \E reboot \in BOOLEAN : Crash(reboot)
         \/ Tick
  PROVE  RowStep(row[r], row'[r], posts[r] > 0)
  <1>1. r \in Rows /\ row[r] \in RowRecord
    BY DEF Rows, IInv, TypeOK
  <1>2. ASSUME NEW e \in Rows, Enqueue(e) \/ Cancel(e)
        PROVE  RowStep(row[r], row'[r], posts[r] > 0)
    <2>1. CASE row'[r] = row[r]
      BY <2>1 DEF RowStep
    <2>2. CASE /\ row[r].state = "absent"
               /\ row'[r] = [row[r] EXCEPT !.state = "pending"]
      BY <1>1, <2>2 DEF RowStep, RowRecord
    <2>3. CASE /\ row[r].state = "pending"
               /\ row'[r] = [row[r] EXCEPT !.state = "cancelled"]
      BY <1>1, <2>3 DEF RowStep, RowRecord, Open
    <2> QED BY <1>1, <1>2, <2>1, <2>2, <2>3 DEF Enqueue, Cancel, IInv, TypeOK
  <1>3. ASSUME NEW w \in Workers, Sweep(w)
        PROVE  RowStep(row[r], row'[r], posts[r] > 0)
    BY <1>3, SweptStep DEF Sweep
  <1>4. ASSUME NEW reboot \in BOOLEAN, Crash(reboot)
        PROVE  RowStep(row[r], row'[r], posts[r] > 0)
    <2>1. CASE row'[r] = row[r]
      BY <2>1 DEF RowStep
    <2>2. CASE /\ row[r].first # "never"
               /\ row'[r] = [row[r] EXCEPT !.first = "earlier boot"]
      BY <1>1, <2>2 DEF RowStep, RowRecord
    <2> QED BY <1>1, <1>4, <2>1, <2>2 DEF Crash
  <1>5. CASE Tick
    <2>1. PICK a : row'[r] = [row[r] EXCEPT !.lease = Earlier(@),
                                            !.wait = Earlier(@), !.age = a]
      BY <1>1, <1>5 DEF Tick
    <2> QED BY <1>1, <2>1 DEF RowStep, RowRecord
  <1> QED BY <1>2, <1>3, <1>4, <1>5

(* A request only appears for a row with a recorded attempt, and Discord   *)
(* changes no row.                                                         *)
LEMMA DiscordKeepsPromise ==
  ASSUME IInv, NEW r \in PublicRows, NEW q \in wire, NEW result \in Receipts,
         Land(q, result) \/ Lose(q, result)
  PROVE  PromiseKept(r)
  <1>1. row' = row
    BY DEF Land, Lose
  <1>2. CASE posts'[r] = posts[r]
    BY <1>1, <1>2 DEF PromiseKept, Promise!vars
  <1>3. CASE posts'[r] # posts[r]
    <2>1. Land(q, result) /\ q.row = r
      BY <1>3 DEF Land, Lose, IInv, TypeOK
    <2>2. posts[r] \in Nat /\ posts'[r] = posts[r] + 1
      BY <1>3, <2>1 DEF Land, IInv, TypeOK
    <2>3. posts'[r] > 0
      BY <2>2
    <2>4. row[r].first # "never" /\ row[r].state # "absent"
      BY <2>1 DEF IInv, Recorded, Rows
    <2>5. row[r].state = "delivered" => posts[r] > 0
      BY DEF IInv, Recorded
    <2>6. CASE row[r].state = "delivered"
      BY <1>1, <2>3, <2>5, <2>6 DEF PromiseKept, Promise!vars
    <2>7. CASE row[r].state # "delivered"
      <3>1. DeliveryStatus(row[r]) \in {"tried", "unresolved"}
        BY <2>4, <2>7 DEF DeliveryStatus
      <3> QED BY <1>1, <2>3, <3>1 DEF PromiseKept, Promise!Next, Promise!Appear
    <2> QED BY <2>6, <2>7
  <1> QED BY <1>2, <1>3

LEMMA NextKeepsPromise ==
  ASSUME Inductive, Next, NEW r \in PublicRows
  PROVE  PromiseKept(r)
  <1>0. IInv
    BY DEF Inductive
  <1>1. ASSUME posts' = posts, RowStep(row[r], row'[r], posts[r] > 0)
        PROVE  PromiseKept(r)
    BY <1>0, <1>1, RowStepKeepsPromise
  <1>2. CASE UNCHANGED <<row, posts>>
    BY <1>2 DEF PromiseKept, Promise!vars
  <1>3. CASE \/ \E e \in Rows : Enqueue(e) \/ Cancel(e)
             \/ \E w \in Workers : Sweep(w)
             \/ \E reboot \in BOOLEAN : Crash(reboot)
             \/ Tick
    <2>1. posts' = posts
      BY <1>3 DEF Enqueue, Cancel, Sweep, Crash, Tick
    <2> QED BY <1>0, <1>1, <1>3, <2>1, TableStep
  <1>4. ASSUME NEW w \in Workers, NEW c \in Rows, Claim(w, c)
        PROVE  PromiseKept(r)
    <2>1. posts' = posts
      BY <1>4 DEF Claim
    <2> QED BY <1>0, <1>1, <1>4, <2>1, ClaimStep
  <1>5. ASSUME NEW w \in Workers, SettlesClaim(w)
        PROVE  PromiseKept(r)
    BY <1>0, <1>1, <1>5, SettlingFrame, SettlingStep
  <1>6. ASSUME NEW w \in Workers, Submit(w)
        PROVE  PromiseKept(r)
    <2>1. posts' = posts
      BY <1>6 DEF Submit
    <2> QED BY <1>0, <1>1, <1>6, <2>1, SubmitStep
  <1>7. ASSUME NEW w \in Workers, AbandonClaim(w) \/ LeaveSubmitted(w)
                                    \/ Clear(w)
        PROVE  PromiseKept(r)
    BY <1>2, <1>7 DEF AbandonClaim, LeaveSubmitted, Clear
  <1>8. CASE SetReady \/ Stop \/ Restart
    BY <1>2, <1>8 DEF SetReady, Stop, Restart
  <1>9. ASSUME NEW q \in wire, NEW result \in Receipts,
               Land(q, result) \/ Lose(q, result)
        PROVE  PromiseKept(r)
    BY <1>0, <1>9, DiscordKeepsPromise
  <1>10. ASSUME NEW w \in Workers, Handle(w)
         PROVE  PromiseKept(r)
    BY <1>5, <1>6, <1>7, <1>10 DEF Handle, SettlesClaim
  <1>11. CASE Discord
    BY <1>9, <1>11 DEF Discord
  <1>12. CASE \E w \in Workers, c \in Rows : Claim(w, c)
    BY <1>4, <1>12
  <1>13. CASE \E w \in Workers : Handle(w)
    BY <1>10, <1>13
  <1>14. \/ \/ \E e \in Rows : Enqueue(e) \/ Cancel(e)
            \/ \E w \in Workers : Sweep(w)
            \/ \E reboot \in BOOLEAN : Crash(reboot)
            \/ Tick
         \/ SetReady \/ Stop \/ Restart
         \/ Discord
         \/ \E w \in Workers, c \in Rows : Claim(w, c)
         \/ \E w \in Workers : Handle(w)
    BY DEF Next
  <1> QED BY <1>3, <1>8, <1>11, <1>12, <1>13, <1>14

(* The outbox implements Delivery: no message appears before its first     *)
(* attempt is on record, none given up before that appears at all, one     *)
(* recorded as delivered has appeared, and outcomes stay, across crashes,  *)
(* takeovers and lost answers.                                             *)
THEOREM OutboxDelivers == Spec => ImplementsDelivery
  <1>1. Init => \A r \in PublicRows : Promise(r)!Init
    <2> SUFFICES ASSUME Init, NEW r \in PublicRows
                 PROVE  Promise(r)!Init
      OBVIOUS
    <2>1. row[r].state = "absent" /\ ~(posts[r] > 0)
      BY DEF Init, AbsentRow, Rows
    <2>2. DeliveryStatus(row[r]) = "new"
      BY <2>1 DEF DeliveryStatus, Open
    <2>3. (posts[r] > 0) = FALSE
      BY <2>1
    <2> QED BY <2>2, <2>3, Zenon DEF Promise!Init
  <1>2. Inductive /\ [Next]_vars
          => [\A r \in PublicRows : [Promise(r)!Next]_(Promise(r)!vars)]_vars
    BY NextKeepsPromise DEF PromiseKept
  <1> QED
    BY <1>1, <1>2, InitInductive, NextInductive, PTL
    DEF Spec, ImplementsDelivery

-----------------------------------------------------------------------------
(* No second message and no earlier card: the inductive invariant on top   *)
(* of the one above                                                        *)

(* What a row waits for is queued before it and settled before its claim.  *)
Ordered ==
  \A r \in Rows :
    /\ row[r].state # "absent" =>
         \A p \in Predecessors[r] : row[p].state # "absent"
    /\ row[r].state = "claimed" =>
         \A p \in Predecessors[r] : row[p].state \in Terminal

(* While a request is under way its row stays claimed under its token, and *)
(* the worker of that token, if it lives, waits: the lease and the wait    *)
(* both outlast the request.                                               *)
InFlight ==
  \A q \in wire :
    /\ row[q.row].state = "claimed" /\ row[q.row].token = q.token
    /\ row[q.row].submitted /\ row[q.row].lease > q.left
    /\ \A w \in Workers : worker[w].token = q.token =>
         /\ worker[w].pc = "waiting" /\ worker[w].receipt = "none"
         /\ worker[w].timer > q.left
    /\ \A p \in wire : p.token = q.token => p = q

(* A row with a first attempt on record counts at least one, also after    *)
(* the attempt in hand is given back.                                      *)
Counted ==
  \A r \in Rows :
    /\ row[r].first # "never" \/ row[r].state = "claimed"
         => row[r].attempts >= 1
    /\ row[r].state = "claimed" /\ ~row[r].submitted /\ row[r].first # "never"
         => row[r].attempts >= 2

(* The copy a worker decides on is that of the row while it owns the row,  *)
(* and a resend it has cleared is still inside the nonce window.           *)
Current ==
  \A w \in Workers :
    Owns(w) /\ worker[w].pc \in {"claimed", "cleared"} =>
      /\ worker[w].first = row[worker[w].row].first
      /\ worker[w].first # "never" => worker[w].attempts > 1
      /\ worker[w].pc = "cleared" /\ worker[w].first # "never"
           /\ worker[w].row \in PublicRows
           => WithinNonceWindow(worker[w].first, row[worker[w].row].age)

(* One message at most, and whoever may still send it again is refused:    *)
(* Discord remembers the nonce until the window has closed and the last    *)
(* request has ended.                                                      *)
Refused ==
  \A r \in PublicRows :
    /\ posts[r] <= 1
    /\ posts[r] > 0 /\ row[r].state \in Open
         /\ WithinNonceWindow(row[r].first, row[r].age)
         => memory[r] + row[r].age >= ProviderMemory
    /\ posts[r] > 0 => \A q \in wire : q.row = r => memory[r] > q.left

(* An edit reported or recorded as made is visible, and no visible         *)
(* revision is later than that of an edit that may still be sent.          *)
Seen ==
  /\ \A w \in Workers :
       worker[w].pc = "waiting" /\ worker[w].receipt = "success"
         /\ worker[w].row \in EditRows
         => shown[Source[worker[w].row]] >= Revision[worker[w].row]
  /\ \A e \in EditRows :
       /\ row[e].state = "delivered" => shown[Source[e]] >= Revision[e]
       /\ row[e].state \notin Terminal => shown[Source[e]] <= Revision[e]

Posting == Ordered /\ InFlight /\ Counted /\ Current /\ Refused /\ Seen

Careful == Inductive /\ Posting

LEMMA InitPosting == Init => Posting
  <1> SUFFICES ASSUME Init PROVE Posting
    OBVIOUS
  <1>1. \A r \in Rows : row[r] = AbsentRow
    BY DEF Init
  <1>2. Ordered /\ Counted /\ InFlight
    BY <1>1, OutboxAssumption
    DEF Init, Ordered, Counted, InFlight, AbsentRow, Rows
  <1>3. Current
    BY OutboxAssumption DEF Init, Current, Owns, IdleWorker
  <1>4. Refused
    <2> SUFFICES ASSUME NEW r \in PublicRows
                 PROVE  posts[r] <= 1 /\ ~(posts[r] > 0)
      BY DEF Refused
    <2>1. posts[r] = 0
      BY DEF Init
    <2> QED BY <2>1
  <1>5. Seen
    BY <1>1, OutboxAssumption DEF Init, Seen, AbsentRow, IdleWorker, Rows
  <1> QED BY <1>2, <1>3, <1>4, <1>5 DEF Posting

-----------------------------------------------------------------------------
(* Statements on the table                                                 *)

(* Somebody waits for this row and holds the receipt of its success.       *)
Reported(r) ==
  \E w \in Workers : /\ worker[w].pc = "waiting"
                     /\ worker[w].receipt = "success" /\ worker[w].row = r

(* What one statement makes of one row: it is left alone, queued, ended or *)
(* given back, or claimed once more.                                       *)
Same(a, b) == b.first = a.first /\ b.age = a.age

Queued(a, b) ==
  /\ a.state = "absent" /\ b.state = "pending"
  /\ b.attempts = a.attempts /\ b.submitted = a.submitted

Given(a, b) ==
  /\ a.state \in Open /\ b.state \in {"pending"} \cup Terminal
  /\ ~b.submitted
  /\ \/ b.attempts = a.attempts
     \/ b.attempts = Earlier(a.attempts) /\ a.state = "claimed" /\ ~a.submitted

Retaken(a, b) ==
  /\ a.state \in Open /\ b.state = "claimed"
  /\ b.attempts = a.attempts + 1 /\ b.submitted = a.submitted

Moves(a, b, reported) ==
  /\ Same(a, b)
  /\ b = a \/ Queued(a, b) \/ Given(a, b) \/ Retaken(a, b)
  /\ b.state = "delivered" /\ b # a => reported

(* A worker that has just claimed a row.                                   *)
Takes(w) ==
  /\ worker'[w].pc = "claimed" /\ worker'[w].receipt = "none"
  /\ \A q \in wire : worker'[w].token # q.token
  /\ worker'[w].first = row'[worker'[w].row].first
  /\ worker'[w].first # "never" => worker'[w].attempts > 1

(* A statement moves rows that are not under way, queues and claims in     *)
(* order, and leaves each worker as it was, idle, or with a fresh claim.   *)
Statement ==
  /\ \A r \in Rows :
       /\ Moves(row[r], row'[r], Reported(r))
       /\ Queued(row[r], row'[r]) =>
            \A p \in Predecessors[r] : row[p].state # "absent"
       /\ row'[r].state = "claimed" /\ row'[r] # row[r] =>
            /\ \A p \in Predecessors[r] : row'[p].state \in Terminal
            /\ \A w \in Workers :
                 worker'[w].token = row'[r].token => Takes(w)
  /\ \A w \in Workers :
       worker'[w] = worker[w] \/ worker'[w] = IdleWorker \/ Takes(w)
  /\ \A q \in wire : row'[q.row] = row[q.row]
  /\ UNCHANGED <<wire, posts, memory, shown>>

(* Counted, for one row.                                                   *)
Tried(rec) ==
  /\ rec.first # "never" \/ rec.state = "claimed" => rec.attempts >= 1
  /\ rec.state = "claimed" /\ ~rec.submitted /\ rec.first # "never"
       => rec.attempts >= 2

LEMMA TriedMoves ==
  ASSUME NEW a, NEW b, NEW reported, Moves(a, b, reported), Tried(a),
         a.attempts \in Nat, b.attempts \in Nat,
         a.state = "absent" => a.first = "never"
  PROVE  Tried(b)
  <1>1. b.first = a.first
    BY DEF Moves, Same
  <1>2. CASE Queued(a, b)
    BY <1>1, <1>2 DEF Queued, Tried
  <1>3. CASE Given(a, b)
    BY <1>1, <1>3 DEF Given, Tried, Earlier, Terminal
  <1>4. CASE Retaken(a, b)
    BY <1>1, <1>4 DEF Retaken, Tried
  <1> QED BY <1>2, <1>3, <1>4 DEF Moves

LEMMA StatementKeeps ==
  ASSUME Careful, Inductive', Statement
  PROVE  Posting'
  <1> USE DEF Careful
  <1>1. \A r \in Rows : /\ row[r] \in RowRecord /\ row'[r] \in RowRecord
                        /\ row[r].attempts \in Nat /\ row'[r].attempts \in Nat
                        /\ row[r].age \in Nat
    <2>1. \A r \in Rows : row[r] \in RowRecord /\ row'[r] \in RowRecord
      BY DEF Inductive, IInv, TypeOK
    <2>2. ASSUME NEW rec \in RowRecord
          PROVE  rec.attempts \in Nat /\ rec.age \in Nat
      <3>1. rec.attempts \in 0..MaxAttempts /\ rec.age \in Nat
        BY DEF RowRecord
      <3> QED BY <3>1, OutboxAssumption
    <2> QED BY <2>1, <2>2
  <1>2. \A r \in Rows : Moves(row[r], row'[r], Reported(r))
    BY DEF Statement
  <1>3. \A r \in Rows : row[r].state \in Terminal => row'[r] = row[r]
    BY <1>2 DEF Moves, Queued, Given, Retaken, Open, Terminal
  <1>4. \A r \in Rows : row[r].state # "absent" => row'[r].state # "absent"
    BY <1>2 DEF Moves, Queued, Given, Retaken, Terminal
  <1>5. Ordered'
    <2> SUFFICES ASSUME NEW r \in Rows
                 PROVE  /\ row'[r].state # "absent" =>
                             \A p \in Predecessors[r] : row'[p].state # "absent"
                        /\ row'[r].state = "claimed" =>
                             \A p \in Predecessors[r] : row'[p].state \in Terminal
      BY DEF Ordered
    <2>1. Predecessors[r] \subseteq Rows
      BY OutboxAssumption
    <2>2. ASSUME row'[r].state # "absent"
          PROVE  \A p \in Predecessors[r] : row[p].state # "absent"
      <3>1. row[r].state # "absent" \/ Queued(row[r], row'[r])
        BY <1>2, <2>2 DEF Moves, Given, Retaken, Open
      <3> QED BY <3>1 DEF Posting, Ordered, Statement
    <2>3. ASSUME row'[r].state = "claimed"
          PROVE  \A p \in Predecessors[r] : row'[p].state \in Terminal
      <3>1. CASE row'[r] = row[r]
        BY <1>3, <2>1, <2>3, <3>1 DEF Posting, Ordered
      <3>2. CASE row'[r] # row[r]
        BY <2>3, <3>2 DEF Statement
      <3> QED BY <3>1, <3>2
    <2> QED BY <1>4, <2>1, <2>2, <2>3
  <1>6. \A w \in Workers :
          worker'[w] = worker[w] \/ worker'[w] = IdleWorker \/ Takes(w)
    BY DEF Statement
  <1>7. /\ IdleWorker.pc = "idle" /\ IdleWorker.token = NoToken
        /\ IdleWorker.receipt = "none"
    BY DEF IdleWorker
  <1>8. InFlight'
    <2>1. ASSUME NEW q \in wire
          PROVE  q.row \in Rows /\ q.token \in Tokens /\ q.token # NoToken
      BY OutboxAssumption DEF Inductive, IInv, TypeOK
    <2>2. ASSUME NEW q \in wire, NEW w \in Workers, worker'[w].token = q.token
          PROVE  worker'[w] = worker[w]
      BY <1>6, <1>7, <2>1, <2>2 DEF Takes
    <2>3. wire' = wire /\ \A q \in wire : row'[q.row] = row[q.row]
      BY DEF Statement
    <2> QED BY <2>1, <2>2, <2>3 DEF Posting, InFlight
  <1>9. Counted'
    <2>1. ASSUME NEW r \in Rows
          PROVE  Tried(row'[r])
      <3>1. row[r].state = "absent" => row[r].first = "never"
        BY DEF Inductive, IInv, Recorded
      <3>2. Tried(row[r])
        BY DEF Posting, Counted, Tried
      <3> QED BY <1>1, <1>2, <3>1, <3>2, TriedMoves
    <2> QED BY <2>1 DEF Counted, Tried
  <1>10. Current'
    <2> SUFFICES ASSUME NEW w \in Workers, Owns(w)',
                        worker'[w].pc \in {"claimed", "cleared"}
                 PROVE  /\ worker'[w].first = row'[worker'[w].row].first
                        /\ worker'[w].first # "never" => worker'[w].attempts > 1
                        /\ worker'[w].pc = "cleared"
                             /\ worker'[w].first # "never"
                             /\ worker'[w].row \in PublicRows
                             => WithinNonceWindow(worker'[w].first,
                                                  row'[worker'[w].row].age)
      BY DEF Current, WithinNonceWindow
    <2>1. CASE Takes(w)
      BY <2>1 DEF Takes
    <2>2. CASE ~Takes(w)
      <3>1. worker'[w] = worker[w]
        BY <1>6, <1>7, <2>2
      <3>2. row'[worker[w].row] = row[worker[w].row]
        BY <2>2, <3>1 DEF Owns, Statement
      <3> QED BY <3>1, <3>2 DEF Owns, Posting, Current
    <2> QED BY <2>1, <2>2
  <1>11. Refused'
    <2> SUFFICES ASSUME NEW r \in PublicRows
                 PROVE  /\ posts'[r] <= 1
                        /\ posts'[r] > 0 /\ row'[r].state \in Open
                             /\ WithinNonceWindow(row'[r].first, row'[r].age)
                             => memory'[r] + row'[r].age >= ProviderMemory
                        /\ posts'[r] > 0 =>
                             \A q \in wire' : q.row = r => memory'[r] > q.left
      BY DEF Refused, WithinNonceWindow
    <2>1. UNCHANGED <<wire, posts, memory>>
      BY DEF Statement
    <2>2. r \in Rows /\ Same(row[r], row'[r])
      BY <1>2 DEF Rows, Moves
    <2>3. posts[r] > 0 => row[r].state # "absent"
      BY <2>2 DEF Inductive, IInv, Recorded
    <2>4. row'[r].state \in Open /\ row[r].state # "absent"
            => row[r].state \in Open
      BY <1>2, <2>2 DEF Moves, Queued, Given, Retaken
    <2> QED BY <2>1, <2>2, <2>3, <2>4 DEF Same, Posting, Refused
  <1>12. Seen'
    <2>1. shown' = shown
      BY DEF Statement
    <2>2. ASSUME NEW w \in Workers,
                 worker'[w].pc = "waiting" /\ worker'[w].receipt = "success"
                   /\ worker'[w].row \in EditRows
          PROVE  shown[Source[worker'[w].row]] >= Revision[worker'[w].row]
      BY <1>6, <1>7, <2>2 DEF Takes, Posting, Seen
    <2>3. ASSUME NEW e \in EditRows, row'[e].state = "delivered"
          PROVE  shown[Source[e]] >= Revision[e]
      <3>1. CASE row'[e] = row[e]
        BY <2>3, <3>1 DEF Posting, Seen
      <3>2. CASE row'[e] # row[e]
        BY <1>2, <2>3, <3>2 DEF Moves, Reported, Rows, Posting, Seen
      <3> QED BY <3>1, <3>2
    <2>4. ASSUME NEW e \in EditRows, row'[e].state \notin Terminal
          PROVE  shown[Source[e]] <= Revision[e]
      BY <1>3, <2>4 DEF Rows, Posting, Seen
    <2> QED BY <2>1, <2>2, <2>3, <2>4 DEF Seen
  <1> QED BY <1>5, <1>8, <1>9, <1>10, <1>11, <1>12 DEF Posting

-----------------------------------------------------------------------------
(* Which actions are statements                                            *)

LEMMA WireTypes ==
  ASSUME Careful, NEW q \in wire
  PROVE  q.row \in Rows /\ q.token \in Tokens /\ q.left \in Nat
           /\ q.token # NoToken
  BY OutboxAssumption DEF Careful, Inductive, IInv, TypeOK

(* Neither a sweep nor a claim reaches a row that is under way.            *)
LEMMA UnderWay ==
  ASSUME Careful, NEW q \in wire
  PROVE  row[q.row].state = "claimed" /\ ~Due(row[q.row])
  <1>1. row[q.row].state = "claimed" /\ row[q.row].lease > q.left
    BY DEF Careful, Posting, InFlight
  <1>2. row[q.row].lease # 0
    BY <1>1, WireTypes
  <1> QED BY <1>1, <1>2 DEF Due

LEMMA ProducerStatement ==
  ASSUME Careful, NEW r \in Rows, Enqueue(r) \/ Cancel(r)
  PROVE  Statement
  <1>1. IInv
    BY DEF Careful, Inductive
  <1>2. /\ UNCHANGED <<worker, wire, posts, memory, shown>>
        /\ row[r] \in RowRecord /\ Sound(row[r])
    BY <1>1, SoundRows DEF Enqueue, Cancel, Sound
  <1>3. PICK s \in {"pending", "cancelled"} :
          /\ row' = [row EXCEPT ![r].state = s]
          /\ \/ /\ row[r].state = "absent" /\ s = "pending"
                /\ \A p \in Predecessors[r] : row[p].state # "absent"
             \/ row[r].state = "pending" /\ s = "cancelled"
    BY DEF Enqueue, Cancel
  <1>4. /\ row'[r] = [row[r] EXCEPT !.state = s]
        /\ \A q \in Rows : q # r => row'[q] = row[q]
    BY <1>1, <1>3 DEF IInv, TypeOK
  <1>5. /\ row'[r].state = s
        /\ Same(row[r], row'[r])
        /\ row'[r].attempts = row[r].attempts
        /\ row'[r].submitted = row[r].submitted
    BY <1>2, <1>4 DEF RowRecord, Same
  <1>6. Moves(row[r], row'[r], Reported(r))
    BY <1>2, <1>3, <1>5
    DEF Moves, Queued, Given, Sound, Open, Terminal
  <1>7. \A q \in Rows : q # r => Moves(row[q], row'[q], Reported(q))
    BY <1>4 DEF Moves, Same
  <1>8. \A q \in Rows : Queued(row[q], row'[q]) =>
          \A p \in Predecessors[q] : row[p].state # "absent"
    <2> SUFFICES ASSUME NEW q \in Rows, Queued(row[q], row'[q])
                 PROVE  \A p \in Predecessors[q] : row[p].state # "absent"
      OBVIOUS
    <2>1. q = r
      BY <1>4 DEF Queued
    <2> QED BY <1>3, <2>1 DEF Queued
  <1>9. \A q \in Rows : row'[q] # row[q] => row'[q].state # "claimed"
    BY <1>4, <1>5
  <1>10. \A q \in wire : row'[q.row] = row[q.row]
    BY <1>3, <1>4, UnderWay, WireTypes
  <1> QED BY <1>2, <1>6, <1>7, <1>8, <1>9, <1>10 DEF Statement

(* A sweep ends due rows and keeps what they count.                        *)
LEMMA SweptMoves ==
  ASSUME IInv, NEW r \in Rows
  PROVE  \/ Swept[r] = row[r]
         \/ /\ Due(row[r]) /\ Given(row[r], Swept[r]) /\ Same(row[r], Swept[r])
            /\ Swept[r].state \in {"failed", "dead"}
  <1> DEFINE rec == row[r]
  <1> SUFFICES ASSUME Swept[r] # rec
               PROVE  /\ Due(rec) /\ Given(rec, Swept[r])
                      /\ Same(rec, Swept[r])
                      /\ Swept[r].state \in {"failed", "dead"}
    OBVIOUS
  <1>1. rec \in RowRecord
    BY DEF IInv, TypeOK
  <1>2. Due(rec)
    BY DEF Swept
  <1>3. PICK s \in {"failed", "dead"}, e \in {"stale", "other"} :
          Swept[r] = Unleased(rec, s, e)
    BY DEF Swept
  <1> HIDE DEF rec
  <1>4. /\ Swept[r].state = s /\ Swept[r].submitted = FALSE
        /\ Swept[r].attempts = rec.attempts /\ Same(rec, Swept[r])
    BY <1>1, <1>3 DEF Unleased, RowRecord, Same
  <1> QED BY <1>2, <1>4 DEF Given, Due, Open, Terminal

LEMMA SweepStatement ==
  ASSUME Careful, NEW w \in Workers, Sweep(w)
  PROVE  Statement
  <1>1. IInv
    BY DEF Careful, Inductive
  <1>2. row' = Swept /\ UNCHANGED <<worker, wire, posts, memory, shown>>
    BY DEF Sweep
  <1>3. \A r \in Rows :
          /\ Moves(row[r], row'[r], Reported(r))
          /\ ~Queued(row[r], row'[r])
          /\ row'[r] # row[r] => row'[r].state # "claimed" /\ Due(row[r])
    BY <1>1, <1>2, SweptMoves DEF Moves, Same, Queued
  <1>4. \A q \in wire : row'[q.row] = row[q.row]
    BY <1>3, UnderWay, WireTypes
  <1> QED BY <1>2, <1>3, <1>4 DEF Statement

LEMMA ClaimStatement ==
  ASSUME Careful, NEW w \in Workers, NEW r \in Rows, Claim(w, r)
  PROVE  Statement
  <1> DEFINE token   == CHOOSE t \in FreshTokens : TRUE
             rec     == Swept[r]
             claimed == [rec EXCEPT !.state = "claimed", !.token = token,
                                    !.lease = ClaimLease, !.attempts = @ + 1]
             held    == [IdleWorker EXCEPT
                           !.pc = "claimed", !.row = r, !.token = token,
                           !.attempts = rec.attempts + 1, !.first = rec.first,
                           !.ambiguous = rec.submitted \/ rec.error = "unknown"]
  <1>1. IInv
    BY DEF Careful, Inductive
  <1>2. /\ row' = [Swept EXCEPT ![r] = claimed]
        /\ worker' = [worker EXCEPT ![w] = held]
        /\ UNCHANGED <<wire, posts, memory, shown>>
        /\ Eligible(Swept, r) /\ token \in FreshTokens
    BY DEF Claim
  <1>3. /\ token \in Tokens
        /\ \A v \in Workers : worker[v].token # token
        /\ \A q \in wire : q.token # token
    BY <1>2 DEF FreshTokens
  <1>4. rec = row[r] /\ Due(row[r]) /\ rec \in RowRecord /\ Sound(rec)
    BY <1>1, <1>2, SweptMoves, SoundRows DEF Eligible, Due, Sound
  <1>5. /\ claimed.state = "claimed" /\ claimed.token = token
        /\ claimed.first = rec.first /\ claimed.age = rec.age
        /\ claimed.attempts = rec.attempts + 1
        /\ claimed.submitted = rec.submitted
    BY <1>4 DEF RowRecord
  <1>6. /\ held.pc = "claimed" /\ held.receipt = "none" /\ held.row = r
        /\ held.token = token /\ held.first = rec.first
        /\ held.attempts = rec.attempts + 1
    BY DEF IdleWorker
  <1>7. Swept \in [Rows -> RowRecord] /\ worker \in [Workers -> WorkerRecord]
    BY <1>1, SweptFacts DEF IInv, TypeOK
  <1> HIDE DEF claimed, held, rec
  <1>8. /\ row'[r] = claimed
        /\ \A p \in Rows : p # r => row'[p] = Swept[p]
        /\ worker'[w] = held
        /\ \A v \in Workers : v # w => worker'[v] = worker[v]
    BY <1>2, <1>7
  <1>9. Takes(w)
    <2>1. rec.first # "never" => rec.attempts >= 1
      BY <1>4 DEF Careful, Posting, Counted
    <2>2. rec.attempts \in Nat
      <3>1. rec.attempts \in 0..MaxAttempts
        BY <1>4 DEF RowRecord
      <3> QED BY <3>1, OutboxAssumption
    <2> QED BY <1>3, <1>5, <1>6, <1>8, <2>1, <2>2 DEF Takes
  <1>10. Moves(row[r], row'[r], Reported(r)) /\ Retaken(row[r], row'[r])
    BY <1>4, <1>5, <1>8 DEF Moves, Same, Retaken, Due, Open
  <1>11. \A p \in Rows : p # r =>
           /\ Moves(row[p], row'[p], Reported(p))
           /\ ~Queued(row[p], row'[p])
           /\ row'[p] # row[p] => row'[p].state # "claimed" /\ Due(row[p])
    BY <1>1, <1>8, SweptMoves DEF Moves, Same, Queued
  <1>12. \A p \in Predecessors[r] : row'[p].state \in Terminal
    <2> SUFFICES ASSUME NEW p \in Predecessors[r]
                 PROVE  row'[p].state \in Terminal
      OBVIOUS
    <2>1. p \in Rows /\ Swept[p].state \notin Open
      BY <1>2, OutboxAssumption DEF Eligible
    <2>2. p # r
      BY <1>4, <2>1 DEF Due, Open, rec
    <2>3. row[p].state # "absent"
      BY <1>4 DEF Careful, Posting, Ordered, Due
    <2>4. Swept[p].state # "absent" /\ Swept[p] \in RowRecord
      BY <1>1, <1>7, <2>1, <2>3, SweptMoves
    <2>5. Swept[p].state \in Terminal
      BY <2>1, <2>4 DEF RowRecord
    <2> QED BY <1>8, <2>1, <2>2, <2>5
  <1>13. \A v \in Workers : worker'[v].token = row'[r].token => Takes(v)
    BY <1>3, <1>5, <1>8, <1>9
  <1>14. \A q \in wire : row'[q.row] = row[q.row]
    BY <1>4, <1>11, UnderWay, WireTypes
  <1>15. ~Queued(row[r], row'[r])
    BY <1>5, <1>8 DEF Queued
  <1> QED
    BY <1>2, <1>8, <1>9, <1>10, <1>11, <1>12, <1>13, <1>14, <1>15 DEF Statement

(* What the settling statement of a handler writes.                        *)
LEMMA HandlerMoves ==
  ASSUME IInv, NEW w \in Workers, SettlesClaim(w)
  PROVE  \E settled :
           /\ Settle(w, settled)
           /\ Owns(w) =>
                LET rec == row[worker[w].row]
                IN settled = rec
                   \/ /\ Given(rec, settled) /\ Same(rec, settled)
                      /\ settled.state = "delivered"
                           => worker[w].pc = "waiting"
                              /\ worker[w].receipt = "success"
  <1> DEFINE k   == worker[w].row
             rec == row[k]
             Told == worker[w].pc = "waiting" /\ worker[w].receipt = "success"
             Fit(settled) ==
               \/ settled = rec
               \/ /\ Given(rec, settled) /\ Same(rec, settled)
                  /\ settled.state = "delivered" => Told
             Goal == \E settled : Settle(w, settled) /\ (Owns(w) => Fit(settled))
  <1> SUFFICES Goal
    OBVIOUS
  <1>1. k \in Rows
    BY SettlingFrame
  <1>2. Sound(rec) /\ rec \in RowRecord
    BY <1>1, SoundRows DEF Sound
  <1>3. Owns(w) => rec.state = "claimed" /\ rec.state \in Open
    BY DEF Owns, Open
  <1>4. ASSUME NEW s \in {"pending", "failed", "dead", "delivered"}, NEW e
        PROVE  LET u == Unleased(rec, s, e)
               IN /\ u.state = s /\ u.submitted = FALSE /\ Same(rec, u)
                  /\ u.attempts = rec.attempts
    <2> HIDE DEF rec
    <2> QED BY <1>2 DEF Unleased, RowRecord, Same
  <1>5. ASSUME NEW mode, NEW e, Settle(w, FailedRow(w, mode, e))
        PROVE  Goal
    <2> DEFINE f == FailedRow(w, mode, e)
    <2>1. /\ f.state \in {"pending", "failed", "dead"} /\ f.submitted = FALSE
          /\ Same(rec, f) /\ f.attempts = rec.attempts
      <3>1. CASE mode = "retryable" /\ worker[w].attempts < MaxAttempts
        <4> DEFINE u == Unleased(rec, "pending", e)
        <4>1. f = [u EXCEPT !.wait = RetryDelay(worker[w].attempts)]
          BY <3>1 DEF FailedRow
        <4>2. u = [rec EXCEPT !.state = "pending", !.token = NoToken,
                              !.lease = 0, !.submitted = FALSE, !.error = e]
          BY DEF Unleased
        <4>3. /\ u.state = "pending" /\ u.submitted = FALSE /\ Same(rec, u)
              /\ u.attempts = rec.attempts
          BY <1>4
        <4>4. /\ f.state = u.state /\ f.submitted = u.submitted
              /\ f.first = u.first /\ f.age = u.age /\ f.attempts = u.attempts
          <5> HIDE DEF f, rec
          <5>1. DOMAIN u = DOMAIN rec
            BY <1>2, <4>2 DEF RowRecord
          <5> HIDE DEF u
          <5> QED BY <1>2, <4>1, <5>1 DEF RowRecord
        <4> HIDE DEF f, u
        <4> QED BY <4>3, <4>4 DEF Same
      <3>2. CASE ~(mode = "retryable" /\ worker[w].attempts < MaxAttempts)
        <4>1. PICK s \in {"failed", "dead"} : f = Unleased(rec, s, e)
          BY <3>2 DEF FailedRow
        <4>2. s \in {"pending", "failed", "dead", "delivered"}
          OBVIOUS
        <4>3. LET u == Unleased(rec, s, e)
              IN /\ u.state = s /\ u.submitted = FALSE /\ Same(rec, u)
                 /\ u.attempts = rec.attempts
          BY <1>4, <4>2
        <4> HIDE DEF f, rec
        <4> QED BY <4>1, <4>3
      <3> QED BY <3>1, <3>2
    <2> HIDE DEF f, rec
    <2>2. Owns(w) => Given(rec, f) /\ Same(rec, f) /\ f.state # "delivered"
      BY <1>3, <2>1 DEF Given, Terminal
    <2> QED BY <1>5, <2>2 DEF f
  <1>6. CASE GiveBack(w)
    <2> DEFINE u        == Unleased(rec, "pending", rec.error)
               released == [u EXCEPT !.attempts = Earlier(@)]
    <2>1. Settle(w, IF rec.submitted THEN rec ELSE released)
      BY <1>6 DEF GiveBack, Release
    <2>2. CASE rec.submitted
      BY <2>1, <2>2
    <2>3. CASE ~rec.submitted
      <3>1. /\ u.state = "pending" /\ u.submitted = FALSE /\ Same(rec, u)
            /\ u.attempts = rec.attempts
        BY <1>4
      <3>2. DOMAIN u = DOMAIN rec
        BY DEF Unleased
      <3>3. /\ released.state = "pending" /\ released.submitted = FALSE
            /\ Same(rec, released)
            /\ released.attempts = Earlier(rec.attempts)
        <4> HIDE DEF u, rec
        <4> QED BY <1>2, <3>1, <3>2 DEF RowRecord, Same
      <3>4. Settle(w, released)
        BY <2>1, <2>3
      <3> HIDE DEF released, rec, u
      <3>5. Owns(w) => Given(rec, released)
        BY <1>3, <2>3, <3>3 DEF Given
      <3> QED BY <3>3, <3>4, <3>5
    <2> QED BY <2>2, <2>3
  <1>7. ASSUME NEW result, SettleWith(w, result), result = "success" => Told
        PROVE  Goal
    <2>1. CASE result # "success"
      BY <1>5, <1>7, <2>1 DEF SettleWith
    <2>2. CASE result = "success"
      <3> DEFINE u == Unleased(rec, "delivered", "none")
      <3>1. Settle(w, IF rec.submitted THEN u ELSE rec)
        BY <1>7, <2>2 DEF SettleWith
      <3>2. /\ u.state = "delivered" /\ u.submitted = FALSE /\ Same(rec, u)
            /\ u.attempts = rec.attempts
        BY <1>4
      <3> HIDE DEF u, rec
      <3>3. Owns(w) => Given(rec, u)
        BY <1>3, <3>2 DEF Given, Terminal
      <3> QED BY <1>7, <2>2, <3>1, <3>2, <3>3
    <2> QED BY <2>1, <2>2
  <1>8. CASE HandleReceipt(w)
    BY <1>7, <1>8 DEF HandleReceipt
  <1>9. CASE ReceiptTimeout(w)
    BY <1>7, <1>9 DEF ReceiptTimeout
  <1>10. CASE Reject(w) \/ HandlerThrows(w) \/ Quarantine(w)
              \/ EditTargetMissing(w)
    BY <1>5, <1>10 DEF Reject, HandlerThrows, Quarantine, EditTargetMissing
  <1> QED BY <1>6, <1>8, <1>9, <1>10 DEF SettlesClaim

(* No handler settles a row that is under way: the worker that owns it     *)
(* waits for a receipt that has not come, with time left.                  *)
LEMMA HandlerStatement ==
  ASSUME Careful, NEW w \in Workers, SettlesClaim(w)
  PROVE  Statement
  <1> DEFINE k   == worker[w].row
             rec == row[k]
  <1>1. IInv
    BY DEF Careful, Inductive
  <1>2. PICK settled :
          /\ Settle(w, settled)
          /\ Owns(w) =>
               settled = rec
               \/ /\ Given(rec, settled) /\ Same(rec, settled)
                  /\ settled.state = "delivered"
                       => worker[w].pc = "waiting"
                          /\ worker[w].receipt = "success"
    BY <1>1, HandlerMoves
  <1>3. k \in Rows /\ UNCHANGED <<wire, posts, memory, shown>>
    BY <1>1, SettlingFrame
  <1>4. /\ \A r \in Rows : \/ row'[r] = row[r]
                           \/ Owns(w) /\ r = k /\ row'[r] = settled
        /\ \A v \in Workers : worker'[v] = worker[v] \/ worker'[v] = IdleWorker
    BY <1>1, <1>2, <1>3 DEF Settle, IInv, TypeOK
  <1>5. \A r \in Rows :
          /\ Moves(row[r], row'[r], Reported(r))
          /\ ~Queued(row[r], row'[r])
          /\ row'[r] # row[r] => row'[r].state # "claimed"
    <2> SUFFICES ASSUME NEW r \in Rows, row'[r] # row[r]
                 PROVE  /\ Moves(row[r], row'[r], Reported(r))
                        /\ ~Queued(row[r], row'[r])
                        /\ row'[r].state # "claimed"
      BY DEF Moves, Same, Queued
    <2>1. Owns(w) /\ r = k /\ row'[r] = settled /\ Given(row[r], row'[r])
            /\ Same(row[r], row'[r])
      BY <1>2, <1>4
    <2>2. settled.state = "delivered" => Reported(r)
      BY <1>2, <2>1 DEF Reported
    <2> QED BY <2>1, <2>2 DEF Moves, Given, Queued, Open, Terminal
  <1>6. \A q \in wire : row'[q.row] = row[q.row]
    <2> SUFFICES ASSUME NEW q \in wire, Owns(w), q.row = k
                 PROVE  FALSE
      BY <1>4, WireTypes
    <2>1. worker[w].token = q.token
      BY DEF Owns, Careful, Posting, InFlight
    <2>2. worker[w].pc = "waiting" /\ worker[w].receipt = "none"
            /\ worker[w].timer > q.left
      BY <2>1 DEF Careful, Posting, InFlight
    <2>3. worker[w].timer # 0
      BY <2>2, WireTypes
    <2> QED
      BY <2>2, <2>3
      DEF SettlesClaim, Reject, HandlerThrows, GiveBack, Quarantine,
          EditTargetMissing, HandleReceipt, ReceiptTimeout
  <1> QED BY <1>3, <1>4, <1>5, <1>6 DEF Statement

LEMMA AbandonStatement ==
  ASSUME Careful, NEW w \in Workers, AbandonClaim(w) \/ LeaveSubmitted(w)
  PROVE  Statement
  <1>1. \A v \in Workers : worker'[v] = worker[v] \/ worker'[v] = IdleWorker
    BY DEF Careful, Inductive, IInv, TypeOK, AbandonClaim, LeaveSubmitted
  <1>2. UNCHANGED <<row, wire, posts, memory, shown>>
    BY DEF AbandonClaim, LeaveSubmitted
  <1> QED BY <1>1, <1>2 DEF Statement, Moves, Same, Queued

LEMMA ProcessStatement ==
  ASSUME Careful, SetReady \/ Stop \/ Restart
  PROVE  Statement
  BY DEF SetReady, Stop, Restart, Statement, Moves, Same, Queued

-----------------------------------------------------------------------------
(* The other actions                                                       *)

LEMMA ClearKeepsPosting ==
  ASSUME Careful, NEW w \in Workers, Clear(w)
  PROVE  Posting'
  <1>1. /\ worker[w] \in WorkerRecord /\ worker[w].pc = "claimed"
        /\ worker' = [worker EXCEPT ![w].pc = "cleared"]
        /\ UNCHANGED <<row, wire, posts, memory, shown>>
    BY DEF Clear, Careful, Inductive, IInv, TypeOK
  <1>2. /\ \A v \in Workers : v # w => worker'[v] = worker[v]
        /\ worker'[w].pc = "cleared"
        /\ worker'[w].row = worker[w].row
        /\ worker'[w].token = worker[w].token
        /\ worker'[w].first = worker[w].first
        /\ worker'[w].attempts = worker[w].attempts
    BY <1>1 DEF Careful, Inductive, IInv, TypeOK, WorkerRecord
  <1>3. Ordered' /\ Counted' /\ Refused'
    BY <1>1 DEF Careful, Posting, Ordered, Counted, Refused, WithinNonceWindow
  <1>4. InFlight'
    BY <1>1, <1>2 DEF Careful, Posting, InFlight
  <1>5. Current'
    <2> SUFFICES ASSUME NEW v \in Workers, Owns(v)',
                        worker'[v].pc \in {"claimed", "cleared"}
                 PROVE  /\ worker'[v].first = row[worker'[v].row].first
                        /\ worker'[v].first # "never" => worker'[v].attempts > 1
                        /\ worker'[v].pc = "cleared"
                             /\ worker'[v].first # "never"
                             /\ worker'[v].row \in PublicRows
                             => WithinNonceWindow(worker'[v].first,
                                                  row[worker'[v].row].age)
      BY <1>1 DEF Current, WithinNonceWindow
    <2>1. CASE v # w
      BY <1>1, <1>2, <2>1 DEF Owns, Careful, Posting, Current
    <2>2. CASE v = w
      <3>1. Owns(w)
        BY <1>1, <1>2, <2>2 DEF Owns
      <3>2. /\ worker[w].first = row[worker[w].row].first
            /\ worker[w].first # "never" => worker[w].attempts > 1
        BY <1>1, <3>1 DEF Careful, Posting, Current
      <3> QED BY <1>2, <2>2, <3>2 DEF Clear
    <2> QED BY <2>1, <2>2
  <1>6. Seen'
    BY <1>1, <1>2 DEF Careful, Posting, Seen
  <1> QED BY <1>3, <1>4, <1>5, <1>6 DEF Posting

LEMMA SubmitKeepsPosting ==
  ASSUME Careful, Inductive', NEW w \in Workers, Submit(w)
  PROVE  Posting'
  <1> DEFINE k    == worker[w]
             rec  == row[k.row]
             sent == [rec EXCEPT
                        !.first = IF @ = "never" THEN "this boot" ELSE @,
                        !.submitted = TRUE,
                        !.lease = Upper(@, SubmissionLease)]
             asks == [k EXCEPT
                        !.pc = "waiting", !.timer = ReceiptWait,
                        !.first = IF @ = "never" THEN "this boot" ELSE @]
             new  == [row |-> k.row, token |-> k.token, left |-> WireDelay]
  <1> USE DEF Careful
  <1>1. /\ k \in WorkerRecord /\ k.pc = "cleared" /\ k.receipt = "none"
        /\ k.row \in Rows /\ k.token \in Tokens /\ k.token # NoToken
        /\ rec \in RowRecord
        /\ UNCHANGED <<ready, stopping, posts, memory, shown>>
    BY OutboxAssumption DEF Submit, Inductive, IInv, TypeOK, Busy
  <1>2. CASE ~Owns(w)
    <2>1. \A v \in Workers : worker'[v] = worker[v] \/ worker'[v] = IdleWorker
      BY <1>2 DEF Submit, Inductive, IInv, TypeOK
    <2>2. UNCHANGED <<row, wire, posts, memory, shown>>
      BY <1>1, <1>2 DEF Submit
    <2>3. Statement
      BY <2>1, <2>2 DEF Statement, Moves, Same, Queued
    <2> QED BY <2>3, StatementKeeps
  <1>3. CASE Owns(w)
    <2>1. /\ row' = [row EXCEPT ![k.row] = sent]
          /\ wire' = wire \cup {new}
          /\ worker' = [worker EXCEPT ![w] = asks]
      BY <1>3 DEF Submit
    <2>2. /\ sent.state = "claimed" /\ sent.token = k.token
          /\ sent.submitted = TRUE /\ sent.first # "never"
          /\ sent.age = rec.age /\ sent.attempts = rec.attempts
          /\ rec.first # "never" => sent.first = rec.first
          /\ sent.lease > WireDelay
      <3>1. /\ SubmissionLease > WireDelay /\ SubmissionLease \in Nat
            /\ WireDelay \in Nat
        BY OutboxAssumption, TimingAssumption DEF SubmissionLease
      <3>2. rec.lease \in Nat
        BY <1>1 DEF RowRecord
      <3>3. Upper(rec.lease, SubmissionLease) > WireDelay
        BY <3>1, <3>2 DEF Upper
      <3>4. sent.lease = Upper(rec.lease, SubmissionLease)
        BY <1>1 DEF RowRecord
      <3>5. rec.state = "claimed" /\ rec.token = k.token
        BY <1>3 DEF Owns
      <3> QED BY <1>1, <3>3, <3>4, <3>5 DEF RowRecord
    <2>3. /\ asks.pc = "waiting" /\ asks.receipt = "none"
          /\ asks.token = k.token /\ asks.row = k.row
          /\ asks.timer = ReceiptWait
      BY <1>1 DEF WorkerRecord
    <2>4. new.row = k.row /\ new.token = k.token /\ new.left = WireDelay
      OBVIOUS
    <2>5. \A q \in wire : q.token # k.token /\ q.row # k.row
      BY <1>1, <1>3 DEF Owns, Posting, InFlight
    <2>6. \A v \in Workers : v # w => worker[v].token # k.token
      BY <1>1 DEF Inductive, IInv, Fenced
    <2> HIDE DEF sent, asks, new
    <2>7. /\ row'[k.row] = sent
          /\ \A r \in Rows : r # k.row => row'[r] = row[r]
          /\ worker'[w] = asks
          /\ \A v \in Workers : v # w => worker'[v] = worker[v]
      BY <1>1, <2>1 DEF Inductive, IInv, TypeOK
    <2> HIDE DEF k
    <2>8. Ordered'
      <3>1. \A r \in Rows : row'[r].state = row[r].state
        BY <1>3, <2>2, <2>7 DEF Owns, k
      <3> QED BY <3>1, OutboxAssumption DEF Posting, Ordered
    <2>9. InFlight'
      <3>1. WireDelay < ReceiptWait
        BY TimingAssumption
      <3>2. ASSUME NEW q \in wire
            PROVE  /\ row'[q.row].state = "claimed"
                   /\ row'[q.row].token = q.token
                   /\ row'[q.row].submitted /\ row'[q.row].lease > q.left
                   /\ \A v \in Workers : worker'[v].token = q.token =>
                        /\ worker'[v].pc = "waiting"
                        /\ worker'[v].receipt = "none"
                        /\ worker'[v].timer > q.left
                   /\ \A p \in wire' : p.token = q.token => p = q
        <4>1. row'[q.row] = row[q.row]
          BY <2>5, <2>7, WireTypes
        <4>2. \A v \in Workers :
                worker'[v].token = q.token => worker'[v] = worker[v]
          BY <2>3, <2>5, <2>7
        <4>3. \A p \in wire' : p.token = q.token => p \in wire
          BY <2>1, <2>4, <2>5
        <4> QED BY <4>1, <4>2, <4>3 DEF Posting, InFlight
      <3>3. /\ row'[new.row].state = "claimed"
            /\ row'[new.row].token = new.token
            /\ row'[new.row].submitted /\ row'[new.row].lease > new.left
        BY <2>2, <2>4, <2>7
      <3>4. \A v \in Workers : worker'[v].token = new.token =>
              /\ worker'[v].pc = "waiting" /\ worker'[v].receipt = "none"
              /\ worker'[v].timer > new.left
        BY <2>3, <2>4, <2>6, <2>7, <3>1
      <3>5. \A p \in wire' : p.token = new.token => p = new
        BY <2>1, <2>4, <2>5
      <3> QED BY <2>1, <3>2, <3>3, <3>4, <3>5 DEF InFlight
    <2>10. Counted'
      <3>1. rec.attempts >= 1
        BY <1>1, <1>3 DEF Owns, Posting, Counted, k
      <3>2. Tried(sent)
        BY <2>2, <3>1 DEF Tried
      <3>3. ASSUME NEW r \in Rows
            PROVE  Tried(row'[r])
        BY <2>7, <3>2 DEF Posting, Counted, Tried
      <3> QED BY <3>3 DEF Counted, Tried
    <2>11. Current'
      <3> SUFFICES ASSUME NEW v \in Workers, Owns(v)',
                          worker'[v].pc \in {"claimed", "cleared"}
                   PROVE  /\ worker'[v] = worker[v] /\ Owns(v)
                          /\ row'[worker[v].row] = row[worker[v].row]
        BY DEF Current, WithinNonceWindow, Posting
      <3>1. v # w /\ worker'[v] = worker[v]
        BY <2>3, <2>7
      <3>2. worker[v].row # k.row
        BY <2>2, <2>6, <2>7, <3>1 DEF Owns
      <3> QED BY <2>7, <3>1, <3>2 DEF Owns
    <2>12. Refused'
      <3> SUFFICES ASSUME NEW r \in PublicRows
                   PROVE  /\ posts[r] <= 1
                          /\ posts[r] > 0 /\ row'[r].state \in Open
                               /\ WithinNonceWindow(row'[r].first, row'[r].age)
                               => memory[r] + row'[r].age >= ProviderMemory
                          /\ posts[r] > 0 =>
                               \A q \in wire' : q.row = r => memory[r] > q.left
        BY <1>1 DEF Refused, WithinNonceWindow
      <3>1. r \in Rows /\ (posts[r] > 0 => row[r].first # "never")
        BY DEF Rows, Inductive, IInv, Recorded
      <3>2. posts[r] > 0 => /\ row'[r].state = row[r].state
                            /\ row'[r].first = row[r].first
                            /\ row'[r].age = row[r].age
        BY <1>3, <2>2, <2>7, <3>1 DEF Owns, k
      <3>3. ASSUME posts[r] > 0, r = k.row
            PROVE  memory[r] > WireDelay
        <4>1. k.first = rec.first /\ rec.first # "never"
                /\ WithinNonceWindow(rec.first, rec.age)
                /\ rec.state \in Open
          BY <1>1, <1>3, <3>1, <3>3 DEF Owns, Open, Posting, Current, k
        <4>2. memory[r] + rec.age >= ProviderMemory /\ rec.age <= NonceWindow
          BY <3>3, <4>1 DEF Posting, Refused, WithinNonceWindow
        <4>3. memory[r] \in Nat /\ rec.age \in Nat
          BY <1>1 DEF Inductive, IInv, TypeOK, RowRecord
        <4> QED BY <4>2, <4>3, OutboxAssumption, TimingAssumption
      <3>4. posts[r] > 0 => \A q \in wire' : q.row = r => memory[r] > q.left
        BY <2>1, <2>4, <3>3 DEF Posting, Refused
      <3> QED BY <3>2, <3>4 DEF Posting, Refused
    <2>13. Seen'
      <3>1. \A e \in EditRows : row'[e].state = row[e].state
        BY <1>3, <2>2, <2>7 DEF Owns, k, Rows
      <3>2. \A v \in Workers :
              worker'[v].receipt = "success" => worker'[v] = worker[v]
        BY <2>3, <2>7
      <3> QED BY <1>1, <3>1, <3>2 DEF Posting, Seen
    <2> QED BY <2>8, <2>9, <2>10, <2>11, <2>12, <2>13 DEF Posting
  <1> QED BY <1>2, <1>3

LEMMA CrashKeepsPosting ==
  ASSUME Careful, NEW reboot \in BOOLEAN, Crash(reboot)
  PROVE  Posting'
  <1> USE DEF Careful
  <1>1. /\ UNCHANGED <<wire, posts, memory, shown>>
        /\ \A w \in Workers : worker'[w] = IdleWorker
    BY DEF Crash
  <1>2. ASSUME NEW r \in Rows
        PROVE  /\ row'[r].state = row[r].state /\ row'[r].token = row[r].token
               /\ row'[r].attempts = row[r].attempts
               /\ row'[r].age = row[r].age /\ row'[r].lease = row[r].lease
               /\ row'[r].submitted = row[r].submitted
               /\ \/ row'[r].first = row[r].first
                  \/ /\ row[r].first # "never"
                     /\ row'[r].first = "earlier boot"
    <2>1. row[r] \in RowRecord
      BY DEF Inductive, IInv, TypeOK
    <2>2. \/ row'[r] = row[r]
          \/ /\ row[r].first # "never"
             /\ row'[r] = [row[r] EXCEPT !.first = "earlier boot"]
      BY DEF Crash
    <2> QED BY <2>1, <2>2 DEF RowRecord
  <1>3. /\ IdleWorker.pc = "idle" /\ IdleWorker.token = NoToken
    BY DEF IdleWorker
  <1>a. \A r \in Rows : Predecessors[r] \subseteq Rows
    BY OutboxAssumption
  <1>4. Ordered' /\ Current'
    <2>1. Ordered'
      <3>1. Ordered /\ \A r \in Rows : row'[r].state = row[r].state
        BY <1>2 DEF Posting
      <3> QED BY <1>a, <3>1 DEF Ordered
    <2>2. Current'
      BY <1>1, <1>3 DEF Current
    <2> QED BY <2>1, <2>2
  <1>5. InFlight'
    <2>1. \A q \in wire : q.row \in Rows /\ q.token # NoToken
      BY WireTypes
    <2>2. \A q \in wire : /\ row'[q.row].state = row[q.row].state
                          /\ row'[q.row].token = row[q.row].token
                          /\ row'[q.row].submitted = row[q.row].submitted
                          /\ row'[q.row].lease = row[q.row].lease
      BY <1>2, <2>1
    <2>3. \A q \in wire, w \in Workers : worker'[w].token # q.token
      BY <1>1, <1>3, <2>1
    <2> QED BY <1>1, <2>2, <2>3 DEF Posting, InFlight
  <1>6. Counted'
    BY <1>2 DEF Posting, Counted
  <1>7. Refused'
    <2> SUFFICES ASSUME NEW r \in PublicRows
                 PROVE  WithinNonceWindow(row'[r].first, row'[r].age)
                          => WithinNonceWindow(row[r].first, row[r].age)
                        /\ row'[r].age = row[r].age
                        /\ row'[r].state = row[r].state
      BY <1>1 DEF Posting, Refused
    <2> QED BY <1>2 DEF WithinNonceWindow, Rows
  <1>8. Seen'
    BY <1>1, <1>2, <1>3 DEF Posting, Seen, Rows
  <1> QED BY <1>4, <1>5, <1>6, <1>7, <1>8 DEF Posting

(* An age at most NonceWindow has not been capped.                         *)
LEMMA YoungAges ==
  ASSUME NEW a \in Nat, NEW n \in Nat, NEW b,
         b = Lower(a + 1, n + 1), b <= n
  PROVE  b = a + 1 /\ a <= n
  BY DEF Lower

LEMMA TickKeepsPosting ==
  ASSUME Careful, Tick
  PROVE  Posting'
  <1> USE DEF Careful
  <1>1. /\ UNCHANGED <<posts, shown>>
        /\ wire' = {[q EXCEPT !.left = @ - 1] : q \in wire}
        /\ \A q \in wire : q.left > 0
        /\ \A r \in PublicRows : memory'[r] = Earlier(memory[r])
    BY DEF Tick
  <1>2. ASSUME NEW r \in Rows
        PROVE  /\ row'[r].state = row[r].state /\ row'[r].token = row[r].token
               /\ row'[r].attempts = row[r].attempts
               /\ row'[r].first = row[r].first
               /\ row'[r].submitted = row[r].submitted
               /\ row'[r].lease = Earlier(row[r].lease)
               /\ r \in PublicRows /\ row[r].first # "never"
                    /\ row[r].state \in Open
                    => row'[r].age = Lower(row[r].age + 1, NonceWindow + 1)
    <2> DEFINE rec == row[r]
               age == IF r \in PublicRows /\ rec.first # "never"
                           /\ rec.state \in Open
                        THEN Lower(rec.age + 1, NonceWindow + 1) ELSE 0
    <2>1. row[r] \in RowRecord
      BY DEF Inductive, IInv, TypeOK
    <2>2. row'[r] = [rec EXCEPT !.lease = Earlier(@), !.wait = Earlier(@),
                                !.age = age]
      BY DEF Tick
    <2>3. age = IF r \in PublicRows /\ rec.first # "never"
                     /\ rec.state \in Open
                  THEN Lower(rec.age + 1, NonceWindow + 1) ELSE 0
      OBVIOUS
    <2> HIDE DEF age
    <2> QED BY <2>1, <2>2, <2>3 DEF RowRecord
  <1>3. ASSUME NEW w \in Workers
        PROVE  /\ worker'[w].pc = worker[w].pc /\ worker[w].pc # "cleared"
               /\ worker'[w].row = worker[w].row
               /\ worker'[w].token = worker[w].token
               /\ worker'[w].first = worker[w].first
               /\ worker'[w].attempts = worker[w].attempts
               /\ worker'[w].receipt = worker[w].receipt
               /\ worker'[w].timer = Earlier(worker[w].timer)
               /\ worker[w].timer \in Nat
    <2>1. worker[w] \in WorkerRecord
      BY DEF Inductive, IInv, TypeOK
    <2>2. worker'[w] = [worker[w] EXCEPT !.timer = Earlier(@)]
      BY DEF Tick
    <2> QED BY <2>1, <2>2 DEF WorkerRecord, Tick
  <1>4. ASSUME NEW q \in wire'
        PROVE  \E p \in wire : /\ q = [p EXCEPT !.left = @ - 1]
                               /\ q.row = p.row /\ q.token = p.token
                               /\ q.left = p.left - 1
                               /\ p.left \in Nat /\ p.left > 0
    <2>1. PICK p \in wire : q = [p EXCEPT !.left = @ - 1]
      BY <1>1
    <2>2. p \in [row: Rows, token: Tokens, left: Nat]
      BY DEF Inductive, IInv, TypeOK
    <2> QED BY <1>1, <2>1, <2>2
  <1>5. Ordered' /\ Counted'
    BY <1>2, OutboxAssumption DEF Posting, Ordered, Counted
  <1>6. Current'
    <2> SUFFICES ASSUME NEW w \in Workers, Owns(w), worker[w].pc = "claimed"
                 PROVE  /\ worker'[w].first = row'[worker[w].row].first
                        /\ worker'[w].first # "never" => worker'[w].attempts > 1
      BY <1>2, <1>3 DEF Current, Owns
    <2> QED BY <1>2, <1>3 DEF Posting, Current, Owns
  <1>7. InFlight'
    <2> SUFFICES ASSUME NEW q \in wire'
                 PROVE  /\ row'[q.row].state = "claimed"
                        /\ row'[q.row].token = q.token
                        /\ row'[q.row].submitted /\ row'[q.row].lease > q.left
                        /\ \A w \in Workers : worker'[w].token = q.token =>
                             /\ worker'[w].pc = "waiting"
                             /\ worker'[w].receipt = "none"
                             /\ worker'[w].timer > q.left
                        /\ \A p \in wire' : p.token = q.token => p = q
      BY DEF InFlight
    <2>1. PICK p \in wire : /\ q = [p EXCEPT !.left = @ - 1]
                            /\ q.row = p.row /\ q.token = p.token
                            /\ q.left = p.left - 1
                            /\ p.left \in Nat /\ p.left > 0
      BY <1>4
    <2>2. p.row \in Rows /\ row[p.row].lease \in Nat
      BY WireTypes DEF Inductive, IInv, TypeOK, RowRecord
    <2>3. row[p.row].lease > p.left
      BY DEF Posting, InFlight
    <2>4. row'[q.row].lease > q.left
      BY <1>2, <2>1, <2>2, <2>3 DEF Earlier
    <2>5. ASSUME NEW w \in Workers, worker'[w].token = q.token
          PROVE  /\ worker'[w].pc = "waiting" /\ worker'[w].receipt = "none"
                 /\ worker'[w].timer > q.left
      <3>1. /\ worker[w].pc = "waiting" /\ worker[w].receipt = "none"
            /\ worker[w].timer > p.left
        BY <1>3, <2>1, <2>5 DEF Posting, InFlight
      <3> QED BY <1>3, <2>1, <3>1 DEF Earlier
    <2>6. ASSUME NEW o \in wire', o.token = q.token
          PROVE  o = q
      BY <1>4, <2>1, <2>6 DEF Posting, InFlight
    <2> QED BY <1>2, <2>1, <2>2, <2>4, <2>5, <2>6 DEF Posting, InFlight
  <1>8. Refused'
    <2> SUFFICES ASSUME NEW r \in PublicRows, posts[r] > 0
                 PROVE  /\ row'[r].state \in Open
                             /\ WithinNonceWindow(row'[r].first, row'[r].age)
                             => memory'[r] + row'[r].age >= ProviderMemory
                        /\ \A q \in wire' : q.row = r => memory'[r] > q.left
      BY <1>1 DEF Refused, WithinNonceWindow, Posting
    <2>1. /\ r \in Rows /\ memory[r] \in Nat /\ row[r].age \in Nat
          /\ row[r].first # "never"
      BY DEF Rows, Inductive, IInv, TypeOK, RowRecord, Recorded
    <2>a. NonceWindow \in Nat /\ ProviderMemory \in Nat
      BY OutboxAssumption
    <2>2. ASSUME row'[r].state \in Open,
                 WithinNonceWindow(row'[r].first, row'[r].age)
          PROVE  memory'[r] + row'[r].age >= ProviderMemory
      <3>1. row'[r].age = Lower(row[r].age + 1, NonceWindow + 1)
              /\ row[r].state \in Open /\ row[r].first = "this boot"
              /\ row'[r].age <= NonceWindow
        BY <1>2, <2>1, <2>2 DEF WithinNonceWindow
      <3>2. row'[r].age = row[r].age + 1 /\ row[r].age <= NonceWindow
        BY <2>1, <2>a, <3>1, YoungAges
      <3>3. memory[r] + row[r].age >= ProviderMemory
        BY <3>1, <3>2 DEF Posting, Refused, WithinNonceWindow
      <3>4. memory'[r] = Earlier(memory[r])
        BY <1>1
      <3> QED BY <2>1, <2>a, <3>2, <3>3, <3>4 DEF Earlier
    <2>3. ASSUME NEW q \in wire', q.row = r
          PROVE  memory'[r] > q.left
      <3>1. PICK p \in wire : /\ p.row = r /\ q.left = p.left - 1
                              /\ p.left \in Nat /\ p.left > 0
        BY <1>4, <2>3
      <3>2. memory[r] > p.left
        BY <3>1 DEF Posting, Refused
      <3> QED BY <1>1, <2>1, <3>1, <3>2 DEF Earlier
    <2> QED BY <2>2, <2>3
  <1>9. Seen'
    BY <1>1, <1>2, <1>3 DEF Posting, Seen, Rows
  <1> QED BY <1>5, <1>6, <1>7, <1>8, <1>9 DEF Posting

(* A request of an edit carries a revision no earlier than the visible     *)
(* one, and no row that may still be sent carries an earlier one.          *)
LEMMA EditsInOrder ==
  ASSUME Careful, NEW q \in wire, q.row \in EditRows
  PROVE  /\ shown[Source[q.row]] <= Revision[q.row]
         /\ \A e \in EditRows :
              Source[e] = Source[q.row] =>
                /\ row[e].state = "delivered" => shown[Source[e]] >= Revision[e]
                /\ row[e].state \notin Terminal => Revision[q.row] <= Revision[e]
  <1> USE DEF Careful
  <1>1. row[q.row].state = "claimed"
    BY UnderWay
  <1>2. shown[Source[q.row]] <= Revision[q.row]
    BY <1>1 DEF Posting, Seen, Terminal
  <1>3. ASSUME NEW e \in EditRows, Source[e] = Source[q.row],
               row[e].state \notin Terminal
        PROVE  Revision[q.row] <= Revision[e]
    <2>1. CASE e = q.row
      BY <2>1, OutboxAssumption
    <2>2. CASE e # q.row
      <3>1. e \in Rows /\ q.row \in Rows /\ Card(e) = Card(q.row)
        BY <1>3, OutboxAssumption DEF Card, Rows
      <3>2. e \in Predecessors[q.row] \/ q.row \in Predecessors[e]
        BY <2>2, <3>1, OrderAssumption
      <3>3. e \notin Predecessors[q.row]
        BY <1>1, <1>3, <3>1 DEF Posting, Ordered
      <3> QED BY <1>3, <3>2, <3>3, OrderAssumption
    <2> QED BY <2>1, <2>2
  <1> QED BY <1>2, <1>3 DEF Posting, Seen

LEMMA DiscordKeepsPosting ==
  ASSUME Careful, NEW q \in wire, NEW result \in Receipts,
         Land(q, result) \/ Lose(q, result)
  PROVE  Posting'
  <1> USE DEF Careful
  <1>1. /\ wire' = wire \ {q}
        /\ UNCHANGED <<row, ready, stopping>>
        /\ q.row \in Rows /\ q.left \in Nat
    BY WireTypes DEF Land, Lose, Answer
  <1>2. ASSUME NEW w \in Workers
        PROVE  /\ worker'[w].pc = worker[w].pc
               /\ worker'[w].row = worker[w].row
               /\ worker'[w].token = worker[w].token
               /\ worker'[w].first = worker[w].first
               /\ worker'[w].attempts = worker[w].attempts
               /\ worker'[w].timer = worker[w].timer
               /\ \/ worker'[w].receipt = worker[w].receipt
                  \/ /\ worker[w].token = q.token
                     /\ worker'[w].receipt = result
    <2>1. worker[w] \in WorkerRecord
      BY DEF Inductive, IInv, TypeOK
    <2>2. \/ worker'[w] = worker[w]
          \/ /\ worker[w].token = q.token
             /\ worker'[w] = [worker[w] EXCEPT !.receipt = result]
      BY DEF Land, Lose, Answer
    <2> QED BY <2>1, <2>2 DEF WorkerRecord
  <1>3. Ordered' /\ Counted'
    BY <1>1 DEF Posting, Ordered, Counted
  <1>4. Current'
    BY <1>1, <1>2 DEF Posting, Current, Owns, WithinNonceWindow
  <1>5. InFlight'
    <2>1. \A p \in wire' : p \in wire /\ p.token # q.token
      BY <1>1 DEF Posting, InFlight
    <2> QED BY <1>1, <1>2, <2>1 DEF Posting, InFlight
  <1>6. Refused'
    <2>1. CASE posts' = posts /\ memory' = memory
      BY <1>1, <2>1 DEF Posting, Refused, WithinNonceWindow
    <2>2. CASE Land(q, result) /\ q.row \in PublicRows
      <3> SUFFICES ASSUME NEW r \in PublicRows
                   PROVE  /\ posts'[r] <= 1
                          /\ posts'[r] > 0 /\ row[r].state \in Open
                               /\ WithinNonceWindow(row[r].first, row[r].age)
                               => memory'[r] + row[r].age >= ProviderMemory
                          /\ posts'[r] > 0 =>
                               \A p \in wire' : p.row = r => memory'[r] > p.left
        BY <1>1 DEF Refused, WithinNonceWindow
      <3>1. /\ posts[r] \in Nat /\ memory[r] \in Nat /\ row[r].age \in Nat
            /\ ProviderMemory \in Nat
        BY OutboxAssumption DEF Inductive, IInv, TypeOK, Rows, RowRecord
      <3>2. CASE r # q.row \/ memory[r] > 0
        <4>1. posts'[r] = posts[r] /\ memory'[r] = memory[r]
          BY <2>2, <3>2 DEF Land, Inductive, IInv, TypeOK
        <4> QED BY <1>1, <4>1 DEF Posting, Refused
      <3>3. CASE r = q.row /\ ~(memory[r] > 0)
        <4>1. posts[r] = 0
          BY <1>1, <3>1, <3>3 DEF Posting, Refused
        <4>2. posts'[r] = 1 /\ memory'[r] = ProviderMemory
          BY <2>2, <3>3, <4>1 DEF Land, Inductive, IInv, TypeOK
        <4>3. \A p \in wire' : p.row # r
          BY <1>1, <3>3 DEF Posting, InFlight
        <4> QED BY <3>1, <4>2, <4>3
      <3> QED BY <3>2, <3>3
    <2> QED BY <2>1, <2>2 DEF Land, Lose
  <1>7. Seen'
    <2>1. CASE shown' = shown /\ (result = "success" => q.row \notin EditRows)
      <3>1. ASSUME NEW w \in Workers,
                   worker'[w].pc = "waiting", worker'[w].receipt = "success",
                   worker'[w].row \in EditRows
            PROVE  shown[Source[worker'[w].row]] >= Revision[worker'[w].row]
        <4>1. worker[w].token = q.token => worker[w].row = q.row
          BY DEF Inductive, Matched
        <4> QED BY <1>2, <2>1, <3>1, <4>1 DEF Posting, Seen
      <3> QED BY <1>1, <2>1, <3>1 DEF Posting, Seen
    <2>2. CASE Land(q, result) /\ q.row \in EditRows
      <3> DEFINE s == Source[q.row]
      <3>1. /\ s \in PublicRows /\ Revision[q.row] \in Nat
            /\ Source \in [EditRows -> PublicRows]
            /\ Revision \in [EditRows -> Nat]
            /\ q.row \notin PublicRows
        BY <2>2, OutboxAssumption
      <3>2. /\ shown'[s] = Revision[q.row]
            /\ \A p \in PublicRows : p # s => shown'[p] = shown[p]
            /\ shown \in [PublicRows -> Nat]
        BY <2>2, <3>1 DEF Land, Inductive, IInv, TypeOK
      <3>3. shown[s] <= Revision[q.row]
        BY <2>2, EditsInOrder
      <3>4. ASSUME NEW w \in Workers,
                   worker'[w].pc = "waiting", worker'[w].receipt = "success",
                   worker'[w].row \in EditRows
            PROVE  shown'[Source[worker'[w].row]] >= Revision[worker'[w].row]
        <4> DEFINE e == worker[w].row
        <4>1. worker'[w].row = e /\ e \in EditRows
          BY <1>2, <3>4
        <4>2. CASE e = q.row
          BY <3>1, <3>2, <4>1, <4>2
        <4>3. CASE e # q.row
          <5>1. worker[w].receipt = "success" /\ worker[w].pc = "waiting"
            BY <1>2, <3>4, <4>3 DEF Inductive, Matched
          <5>2. shown[Source[e]] >= Revision[e]
            BY <4>1, <5>1 DEF Posting, Seen
          <5>3. Source[e] \in PublicRows /\ Revision[e] \in Nat
                  /\ shown[Source[e]] \in Nat
            BY <3>1, <3>2, <4>1
          <5>4. shown'[Source[e]] >= shown[Source[e]]
            BY <3>1, <3>2, <3>3, <5>3
          <5>5. shown'[Source[e]] \in Nat
            BY <3>1, <3>2, <5>3
          <5> QED BY <4>1, <5>2, <5>3, <5>4, <5>5
        <4> QED BY <4>2, <4>3
      <3>5. ASSUME NEW e \in EditRows
            PROVE  /\ row[e].state = "delivered"
                        => shown'[Source[e]] >= Revision[e]
                   /\ row[e].state \notin Terminal
                        => shown'[Source[e]] <= Revision[e]
        <4>1. /\ Source[e] \in PublicRows /\ Revision[e] \in Nat
              /\ shown[Source[e]] \in Nat
          BY <3>1, <3>2
        <4>2. CASE Source[e] = s
          BY <2>2, <3>1, <3>2, <3>3, <4>1, <4>2, EditsInOrder
        <4>3. CASE Source[e] # s
          BY <3>2, <4>1, <4>3 DEF Posting, Seen
        <4> QED BY <4>2, <4>3
      <3> QED BY <1>1, <3>4, <3>5 DEF Seen
    <2>3. q.row \in PublicRows => q.row \notin EditRows
      BY OutboxAssumption
    <2> QED BY <1>1, <2>1, <2>2, <2>3 DEF Land, Lose, Rows
  <1> QED BY <1>3, <1>4, <1>5, <1>6, <1>7 DEF Posting

-----------------------------------------------------------------------------
(* The theorems                                                            *)

LEMMA NextCareful == Careful /\ [Next]_vars => Careful'
  <1> SUFFICES ASSUME Careful, [Next]_vars
               PROVE  Careful'
    OBVIOUS
  <1>1. Inductive'
    BY NextInductive DEF Careful
  <1>2. CASE UNCHANGED vars
    <2>1. Statement
      BY <1>2 DEF vars, Statement, Moves, Same, Queued
    <2> QED BY <1>1, <2>1, StatementKeeps DEF Careful
  <1>3. CASE Next
    <2> SUFFICES Posting'
      BY <1>1 DEF Careful
    <2>1. Statement => Posting'
      BY <1>1, StatementKeeps
    <2>2. ASSUME NEW w \in Workers, Handle(w)
          PROVE  Posting'
      <3>1. CASE SettlesClaim(w)
        BY <2>1, <3>1, HandlerStatement
      <3>2. CASE AbandonClaim(w) \/ LeaveSubmitted(w)
        BY <2>1, <3>2, AbandonStatement
      <3>3. CASE Clear(w)
        BY <3>3, ClearKeepsPosting
      <3>4. CASE Submit(w)
        BY <1>1, <3>4, SubmitKeepsPosting
      <3> QED BY <2>2, <3>1, <3>2, <3>3, <3>4 DEF Handle, SettlesClaim
    <2>3. ASSUME NEW w \in Workers, NEW r \in Rows, Claim(w, r)
          PROVE  Posting'
      BY <2>1, <2>3, ClaimStatement
    <2>4. ASSUME NEW w \in Workers, Sweep(w)
          PROVE  Posting'
      BY <2>1, <2>4, SweepStatement
    <2>5. ASSUME NEW r \in Rows, Enqueue(r) \/ Cancel(r)
          PROVE  Posting'
      BY <2>1, <2>5, ProducerStatement
    <2>6. CASE SetReady \/ Stop \/ Restart
      BY <2>1, <2>6, ProcessStatement
    <2>7. CASE \E reboot \in BOOLEAN : Crash(reboot)
      BY <2>7, CrashKeepsPosting
    <2>8. CASE Tick
      BY <2>8, TickKeepsPosting
    <2>9. CASE Discord
      BY <2>9, DiscordKeepsPosting DEF Discord
    <2> QED
      BY <1>3, <2>2, <2>3, <2>4, <2>5, <2>6, <2>7, <2>8, <2>9 DEF Next
  <1> QED BY <1>2, <1>3

(* Two requests about one message would be of one row or of two; one row   *)
(* carries one token, and of two rows one waits for the other to end.      *)
LEMMA OneAtATime == Careful => OneSubmission
  <1> SUFFICES ASSUME Careful, NEW p \in wire, NEW q \in wire,
                      Card(p.row) = Card(q.row)
               PROVE  p = q
    BY DEF OneSubmission
  <1>1. p.row \in Rows /\ q.row \in Rows
    BY WireTypes
  <1>2. row[p.row].state = "claimed" /\ row[q.row].state = "claimed"
    BY UnderWay
  <1>3. CASE p.row = q.row
    BY <1>3 DEF Careful, Posting, InFlight
  <1>4. CASE p.row # q.row
    <2>1. p.row \in Predecessors[q.row] \/ q.row \in Predecessors[p.row]
      BY <1>1, <1>4, OrderAssumption
    <2>2. row[p.row].state \in Terminal \/ row[q.row].state \in Terminal
      BY <1>1, <1>2, <2>1 DEF Careful, Posting, Ordered
    <2> QED BY <1>2, <2>2 DEF Terminal
  <1> QED BY <1>3, <1>4

(* The outbox submits a message once at a time, posts it at most once, and *)
(* records as delivered only what can be seen, whatever crashes, reboots,  *)
(* lost answers, takeovers and retries there are.                          *)
THEOREM PostsOnce == Spec => []PostedOnce
  <1>1. Init => Careful
    BY InitInductive, InitPosting DEF Careful
  <1>2. Careful => PostedOnce
    <2> SUFFICES ASSUME Careful PROVE PostedOnce
      OBVIOUS
    <2>1. AtMostOnePost
      BY DEF Careful, Posting, Refused, AtMostOnePost
    <2>2. DeliveredIsVisible
      <3> SUFFICES ASSUME NEW r \in Rows, row[r].state = "delivered"
                   PROVE  IF r \in PublicRows THEN posts[r] > 0
                          ELSE shown[Source[r]] >= Revision[r]
        BY DEF DeliveredIsVisible
      <3>1. CASE r \in PublicRows
        BY <3>1 DEF Careful, Inductive, IInv, Recorded
      <3>2. CASE r \notin PublicRows
        BY <3>2 DEF Rows, Careful, Posting, Seen
      <3> QED BY <3>1, <3>2
    <2> QED BY <2>1, <2>2, OneAtATime DEF PostedOnce
  <1> QED BY <1>1, <1>2, NextCareful, PTL DEF Spec

(* Edits of a card reach Discord in the order of their revisions, retried  *)
(* and late ones included.                                                 *)
THEOREM CardsAdvance == Spec => CardNeverRegresses
  <1>1. Init => Careful
    BY InitInductive, InitPosting DEF Careful
  <1>2. Careful /\ [Next]_vars
          => [\A p \in PublicRows : shown'[p] >= shown[p]]_vars
    <2> SUFFICES ASSUME Careful, Next, NEW p \in PublicRows
                 PROVE  shown'[p] >= shown[p]
      OBVIOUS
    <2>1. shown[p] \in Nat
      BY DEF Careful, Inductive, IInv, TypeOK
    <2>2. CASE shown' = shown
      BY <2>1, <2>2
    <2>3. CASE Discord
      <3>1. PICK q \in wire, result \in Receipts :
              Land(q, result) \/ Lose(q, result)
        BY <2>3 DEF Discord
      <3>2. CASE q.row \in EditRows /\ Land(q, result)
        <4>1. shown[Source[q.row]] <= Revision[q.row]
          BY <3>2, EditsInOrder
        <4>2. shown' = [shown EXCEPT ![Source[q.row]] = Revision[q.row]]
          BY <3>2, OutboxAssumption DEF Land
        <4> QED BY <2>1, <4>1, <4>2 DEF Careful, Inductive, IInv, TypeOK
      <3> QED BY <2>2, <3>1, <3>2, WireTypes DEF Land, Lose, Rows
    <2>4. CASE ~Discord
      BY <2>2, <2>4
      DEF Next, Handle, Enqueue, Cancel, Sweep, Claim, SetReady, Stop, Restart,
          Crash, Tick, Reject, HandlerThrows, AbandonClaim, GiveBack,
          Quarantine, EditTargetMissing, Clear, Submit, HandleReceipt,
          ReceiptTimeout, LeaveSubmitted
    <2> QED BY <2>3, <2>4
  <1> QED BY <1>1, <1>2, NextCareful, PTL DEF Spec, CardNeverRegresses

=============================================================================
