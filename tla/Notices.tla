------------------------------ MODULE Notices ------------------------------
(* Sealed notices: what a feature has to say to one member in private.  A  *)
(* neutral card with a button is public; the notice is revealed to its     *)
(* target only, by the button or from the inbox, in the ephemeral answer   *)
(* of an interaction.  An attempt reserves the notice before the answer is *)
(* edited and is settled by what Discord says of the edit.                 *)
(*                                                                         *)
(* Each step is a transaction of the repository, or what the network makes *)
(* of an edit between two of them.                                         *)

CONSTANTS
  Members,
  Notes,        \* notices
  Target,       \* whom each is for
  Keys,         \* interactions, by their idempotency keys
  Asker,        \* who sent each
  None

(* What the proofs suppose of the constants.                               *)
NoticesAssumption ==
  Target \in [Notes -> Members] /\ Asker \in [Keys -> Members] /\ None \notin Notes

VARIABLES
  notice,       \* pending_notice
  token,        \* the interaction_token of each: the button
  attempt,      \* notice_reveal_attempt
  due,          \* notices past their expiry, which is their token's too
  lapsed,       \* attempts past reservation_expires_at_ms
  wire,         \* edits of answers, until their callbacks have run
  seen,         \* who has been shown what
  up

vars == <<notice, token, attempt, due, lapsed, wire, seen, up>>

NoticeStates == {"none", "pending", "opened", "consumed", "expired", "cancelled"}
Attempts == [state : {"none", "prepared", "delivered", "failed"},
             by : {"inbox", "button"}, note : Notes \cup {None}]
Untried == [state |-> "none", by |-> "inbox", note |-> None]

Init ==
  /\ notice = [n \in Notes |-> "none"] /\ token = [n \in Notes |-> "none"]
  /\ attempt = [k \in Keys |-> Untried]
  /\ due = {} /\ lapsed = {} /\ wire = {} /\ seen = {} /\ up = TRUE

Live == {"pending", "opened"}

(* expire_notice, and the updates of all that are due.                     *)
Aged(S) == [n \in Notes |-> IF n \in S \cap due /\ notice[n] \in Live THEN "expired"
                                                                     ELSE notice[n]]

(* release_expired_reveal_attempts                                         *)
Released == [k \in Keys |-> IF k \in lapsed THEN [attempt[k] EXCEPT !.state = "failed"]
                                            ELSE attempt[k]]

Edit(k, n) == [key |-> k, note |-> n, at |-> "sent"]

-----------------------------------------------------------------------------
(* create_with_token                                                       *)
Tell(n) ==
  /\ up /\ notice[n] = "none"
  /\ notice' = [notice EXCEPT ![n] = "pending"] /\ token' = [token EXCEPT ![n] = "active"]
  /\ UNCHANGED <<attempt, due, lapsed, wire, seen, up>>

(* A new attempt, or that of the same interaction once more, made anew if  *)
(* it has failed (reprepare_failed_attempt).                               *)
Prepared(k, by, n) ==
  [Released EXCEPT ![k] = IF @.state \in {"none", "failed"}
                          THEN [state |-> "prepared", by |-> by, note |-> n] ELSE @]

(* A fault for the checks: the button opens for whoever presses it.        *)
MayPress_anyone(k, n) == token[n] \in {"active", "used"}

(* Whoever presses the button of another, or of a notice that is withdrawn, *)
(* changes nothing.                                                        *)
MayPress(k, n) == /\ Asker[k] = Target[n] /\ token[n] \in {"active", "used"}
                  /\ attempt[k].state # "none" => attempt[k].by = "button" /\ attempt[k].note = n

(* open_by_token                                                           *)
Press(k, n) ==
  /\ up /\ MayPress(k, n) /\ notice' = Aged({n}) /\ lapsed' = {}
  /\ IF n \notin due /\ notice[n] \in Live
     THEN attempt' = Prepared(k, "button", n) /\ wire' = wire \cup {Edit(k, n)}
     ELSE attempt' = Released /\ UNCHANGED wire
  /\ UNCHANGED <<token, due, seen, up>>

(* open_next, for an interaction that is new.  What is reserved by another *)
(* attempt is left out.  (The oldest comes first: which that is the        *)
(* properties do not tell apart.)                                          *)
Free(k) == {n \in Notes : /\ Target[n] = Asker[k] /\ notice[n] = "pending" /\ n \notin due
                          /\ \A j \in Keys : Released[j].state = "prepared" => Released[j].note # n}

Look(k) ==
  /\ up /\ attempt[k].state = "none"
  /\ notice' = Aged({n \in Notes : Target[n] = Asker[k]}) /\ lapsed' = {}
  /\ \E n \in IF Free(k) = {} THEN {None} ELSE Free(k) :
       attempt' = Prepared(k, "inbox", n) /\ wire' = wire \cup {Edit(k, n)}
  /\ UNCHANGED <<token, due, seen, up>>

(* open_next, for one that comes again: what it found, if it may be seen.  *)
LookAgain(k) ==
  /\ up /\ attempt[k].state # "none" /\ attempt[k].by = "inbox" /\ lapsed' = {}
  /\ LET n == attempt[k].note IN
     /\ attempt' = Prepared(k, "inbox", n) /\ notice' = Aged({n})
     /\ wire' = IF n = None THEN wire \cup {Edit(k, n)}
                ELSE IF Aged({n})[n] \in Live THEN wire \cup {Edit(k, n)} ELSE wire
  /\ UNCHANGED <<token, due, seen, up>>

-----------------------------------------------------------------------------
(* Discord takes an edit or does not, and its answer tells or does not.     *)
Land(q) ==
  /\ up /\ q \in wire /\ q.at = "sent"
  /\ \E at \in {"shown", "unclear"} : wire' = (wire \ {q}) \cup {[q EXCEPT !.at = at]}
  /\ seen' = IF q.note = None THEN seen ELSE seen \cup {<<q.note, Asker[q.key]>>}
  /\ UNCHANGED <<notice, token, attempt, due, lapsed, up>>

Lose(q) ==
  /\ up /\ q \in wire /\ q.at = "sent" /\ wire' = (wire \ {q}) \cup {[q EXCEPT !.at = "lost"]}
  /\ UNCHANGED <<notice, token, attempt, due, lapsed, seen, up>>

Settled(k, state) == /\ attempt' = [attempt EXCEPT ![k].state = state]
                     /\ lapsed' = lapsed \ {k}

(* confirm_open_delivery.  An attempt that is settled by then stays so.    *)
Confirm(q) ==
  /\ up /\ q \in wire /\ q.at = "shown" /\ wire' = wire \ {q}
  /\ LET n == q.note IN
     IF attempt[q.key].state # "prepared" THEN UNCHANGED <<notice, token, attempt, lapsed>>
     ELSE /\ Settled(q.key, "delivered")
          /\ notice' = [m \in Notes |-> IF m = n /\ Aged({n})[m] = "pending" THEN "opened"
                                        ELSE Aged({n})[m]]
          /\ token' = [m \in Notes |-> IF m = n /\ attempt[q.key].by = "button"
                                          /\ token[m] = "active" THEN "used" ELSE token[m]]
  /\ UNCHANGED <<due, seen, up>>

(* release_open_delivery                                                   *)
Release(q) ==
  /\ up /\ q \in wire /\ q.at \in {"unclear", "lost"} /\ wire' = wire \ {q}
  /\ IF attempt[q.key].state = "prepared" THEN Settled(q.key, "failed")
                                          ELSE UNCHANGED <<attempt, lapsed>>
  /\ UNCHANGED <<notice, token, due, seen, up>>

-----------------------------------------------------------------------------
Consume(n) ==
  /\ up /\ notice[n] = "opened"
  /\ notice' = [notice EXCEPT ![n] = IF n \in due THEN "expired" ELSE "consumed"]
  /\ UNCHANGED <<token, attempt, due, lapsed, wire, seen, up>>

(* cancel, by the repository or by the feature that told it.               *)
Cancel(n) ==
  /\ up /\ notice[n] \in Live
  /\ IF n \in due THEN notice' = Aged({n}) /\ UNCHANGED token
     ELSE /\ notice' = [notice EXCEPT ![n] = "cancelled"]
          /\ token' = [token EXCEPT ![n] = IF @ = "active" THEN "cancelled" ELSE @]
  /\ UNCHANGED <<attempt, due, lapsed, wire, seen, up>>

(* expire_due, and the counts, which expire what they do not count.        *)
Count ==
  /\ up /\ \E S \in {Notes} \cup {{n \in Notes : Target[n] = u} : u \in Members} : notice' = Aged(S)
  /\ UNCHANGED <<token, attempt, due, lapsed, wire, seen, up>>

Grow(n) ==
  /\ notice[n] # "none" /\ n \notin due /\ due' = due \cup {n}
  /\ UNCHANGED <<notice, token, attempt, lapsed, wire, seen, up>>

Lapse(k) ==
  /\ attempt[k].state = "prepared" /\ k \notin lapsed /\ lapsed' = lapsed \cup {k}
  /\ UNCHANGED <<notice, token, attempt, due, wire, seen, up>>

(* What was sent may still be shown.                                       *)
Crash ==
  /\ up /\ up' = FALSE /\ wire' = {}
  /\ \E L \in SUBSET {q \in wire : q.at = "sent" /\ q.note # None} :
       seen' = seen \cup {<<q.note, Asker[q.key]>> : q \in L}
  /\ UNCHANGED <<notice, token, attempt, due, lapsed>>

(* recover_incomplete_open_deliveries                                      *)
Restart ==
  /\ ~up /\ up' = TRUE /\ lapsed' = {}
  /\ attempt' = [k \in Keys |-> IF attempt[k].state = "prepared"
                                THEN [attempt[k] EXCEPT !.state = "failed"] ELSE attempt[k]]
  /\ UNCHANGED <<notice, token, due, wire, seen>>

Next ==
  \/ \E n \in Notes : Tell(n) \/ Consume(n) \/ Cancel(n) \/ Grow(n)
  \/ \E k \in Keys : \/ Look(k) \/ LookAgain(k) \/ Lapse(k)
                     \/ \E n \in Notes : Press(k, n)
  \/ \E q \in wire : Land(q) \/ Lose(q) \/ Confirm(q) \/ Release(q)
  \/ Count \/ Crash \/ Restart

Spec == Init /\ [][Next]_vars

-----------------------------------------------------------------------------
TypeOK ==
  /\ notice \in [Notes -> NoticeStates]
  /\ token \in [Notes -> {"none", "active", "used", "cancelled"}]
  /\ attempt \in [Keys -> Attempts]
  /\ due \subseteq Notes /\ lapsed \subseteq Keys /\ up \in BOOLEAN
  /\ wire \subseteq [key : Keys, note : Notes \cup {None},
                     at : {"sent", "shown", "unclear", "lost"}]
  /\ seen \subseteq Notes \X Members

Delivered(k, n) == attempt[k].state = "delivered" /\ attempt[k].note = n

(* A sealed notice is shown to the member it is for and to nobody else,    *)
(* whoever presses its public button.                                      *)
Sealed == \A n \in Notes, u \in Members : <<n, u>> \in seen => u = Target[n]

(* No notice is put aside unread: what counts as opened has been shown to   *)
(* its target, in an answer that Discord confirmed, though callbacks are   *)
(* lost, late or doubled, reservations lapse and the process dies.         *)
NothingUnread ==
  \A n \in Notes :
    /\ notice[n] \in {"opened", "consumed"} \/ token[n] = "used" => <<n, Target[n]>> \in seen
    /\ notice[n] \in {"opened", "consumed"} => \E k \in Keys : Delivered(k, n)

(* And what was confirmed is not offered again as new.                     *)
ReadOnce == \A n \in Notes, k \in Keys : Delivered(k, n) => notice[n] # "pending"

(* The types and these in one, the invariant that the run checks.          *)
NoticesHold == TypeOK /\ Sealed /\ NothingUnread /\ ReadOnce
=============================================================================
