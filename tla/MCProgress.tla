----------------------------- MODULE MCProgress -----------------------------
(* What must get done, in three parts that share no state: the worker      *)
(* pools serve their lanes, an owner's self-test of a wager with one       *)
(* scheduler worker runs to its end, and so does a window of voice input.  *)
(* `part` says which of them moves; the fairness of the others asks        *)
(* nothing of their initial state.                                         *)
EXTENDS MCExecutor

CONSTANTS sam, w1, clerk, Nobody

VARIABLES part, wager, opened, balance, escrow, job, claim,
          up, stage, row, cap, live, op, waiting, works, timer, asr, kill, blocked, speech,
          hears, card, edits, draft, billed, acts

SelfTest == {[creator |-> sam, target |-> sam, judge |-> sam,
             policy |-> "designated", sealed |-> FALSE, test |-> TRUE]}

W == INSTANCE Wagers
       WITH WagerIds <- {w1}, Users <- {sam}, Owner <- sam,
            Agreements <- SelfTest, Stakes <- {2}, StartingFate <- 4,
            DraftLifetime <- 1, OfferLifetime <- 1, OutcomeWindow <- 2,
            Grace <- 1, Workers <- {clerk}, JobLease <- 1, RetryDelay <- 1,
            MaxAttempts <- 2

wagerVars == <<wager, opened, balance, escrow, job, claim>>

(* A stop, a callback that fails, a step that does, an exit, a disable.    *)
Once(k) == [a \in {"begin", "stop", "disable", "enable", "callback", "exit", "crash", "bad",
                   "draft"} |-> IF a \in {"begin", k} THEN 1 ELSE 0]
Days == {Once(k) : k \in {"stop", "callback", "bad", "exit", "disable"}}

L == INSTANCE Listening WITH MaxWindows <- 1, CallbackCap <- 2, Budgets <- Days, queue <- works

listeningVars == <<up, stage, row, cap, live, op, waiting, works, timer, asr, kill, blocked,
                   speech, hears, card, edits, draft, billed, acts>>

(* A bound of this part: of the deadlines, one at most has its job lost or *)
(* tried again.                                                            *)
Troubled(p) == LET j == job[w1][p] IN
  /\ j.attempts > 0 /\ (j.state # "claimed" \/ j.attempts > 1 \/ claim[clerk] = W!Idle)
  /\ (p = "reminder" => ~wager[w1].reminded)
OneTrouble == \A p, q \in W!Phases : Troubled(p)' /\ Troubled(q)' => p = q

MCInit == /\ Init /\ W!Init /\ L!Init /\ part \in {"pools", "wager", "window"}
          /\ part # "pools" => pool = Bounded
          /\ part # "window" => acts = Once("stop")

MCNext ==
  \/ part = "pools" /\ Next /\ UNCHANGED <<part, wagerVars, listeningVars>>
  \/ part = "wager" /\ W!Next /\ OneTrouble /\ UNCHANGED <<part, vars, listeningVars>>
  \/ part = "window" /\ L!Next /\ UNCHANGED <<part, vars, wagerVars>>

(* The fairness of the parts, each where it moves.                        *)
MCFairness ==
  /\ \A k \in Workers : WF_at(part = "pools" /\ WorkerStep(k))
  /\ WF_<<stopping, pending>>(part = "pools" /\ StopStep)
  /\ WF_wagerVars(part = "wager" /\ W!Tick)
  /\ WF_wagerVars(part = "wager" /\ (W!Claim(clerk) \/ W!Sweep(clerk)))
  /\ SF_wagerVars(part = "wager" /\ (W!FireDeadline(clerk) \/ W!HandlerThrows(clerk)) /\ OneTrouble)
  /\ SF_wagerVars(part = "wager" /\ W!FireDeadline(clerk))
  /\ WF_listeningVars(part = "window" /\ L!Service)

MCSpec == MCInit /\ [][MCNext]_<<part, vars, wagerVars, listeningVars>> /\ MCFairness

(* No lane starves.  The tasks are alike, so one of them stands for all.   *)
AnyoneIsServed == Served(CHOOSE t \in Tasks : TRUE)

(* Nothing waits for ever.  Every draft, offer and funded wager is closed  *)
(* or becomes the owner's to decide, unless the job that should do it      *)
(* died; and a window of voice input ends, whatever fails in it, unless    *)
(* the thread of its timer has to wait for the mutex itself.               *)
WorkEnds == W!Escalates /\ L!WindowsEnd
=============================================================================
