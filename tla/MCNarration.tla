---------------------------- MODULE MCNarration ----------------------------
(* What leaves for the members: a card and an edit of it leave the outbox, *)
(* and, beside them, Vox tells of up to three events in a row.             *)
(*   card   the outbox.                                                    *)
(*   one    a tarot result, and everything that can happen to it: either   *)
(*          configuration, restarts, two sessions.                         *)
(*   two    a session's opening and a title, one disturbance.              *)
(*   three  an appearance, an opening and a result, in time and undisturbed,*)
(*          for the limits of a session.                                   *)
EXTENDS Narration, Sequences

CONSTANTS e1, e2, e3, e4, msg, edit1, w1, Tokens, NoToken, NoRow

VARIABLES scene, box, worker, ready, stopping, wire, posts, memory, shown

MCType     == [e \in {e1, e2, e3, e4} |-> CASE e = e1 -> "opened" [] e = e2 -> "title"
                                             [] e = e3 -> "result" [] OTHER -> "appearance"]
MCTest     == {e3}
MCSessions == {1, 2}

(* One worker, a message and its edit, two attempts.                       *)
Sender       == {w1}
Messages     == {msg}
Edits        == {edit1}
Original     == [e \in Edits |-> msg]
FirstEdition == [e \in Edits |-> 1]
Before       == [r \in {msg, edit1} |-> IF r = msg THEN {} ELSE {msg}]
Delays       == <<1, 1, 2>>

O == INSTANCE Outbox
       WITH PublicRows <- Messages, EditRows <- Edits, Source <- Original,
            Revision <- FirstEdition, Predecessors <- Before, Workers <- Sender,
            MaxAttempts <- 2, ClaimLease <- 1, ReceiptWait <- 2, LeaseMargin <- 1,
            NonceWindow <- 2, RetryDelays <- Delays, WireDelay <- 1, ProviderMemory <- 4,
            row <- box

outbox == <<box, worker, ready, stopping, wire, posts, memory, shown>>

(* The steps of a scene, by the states they lead to.  The events come in   *)
(* order.                                                                  *)
Order == [one |-> <<e3>>, two |-> <<e1, e2>>, three |-> <<e4, e1, e3>>, card |-> <<>>]
Come == {e \in Events : row'[e] # 0}
Carded == \A e \in Come \ {e1} : card'[e] # "none"
Script ==
  /\ \E n \in 0..Len(Order[scene]) : Come = {Order[scene][i] : i \in 1..n}
  /\ scene # "one" => /\ config'.on /\ config'.test /\ ses'[2].state = "none"
                      /\ head' # 0 => ses'[1].state # "none"
  /\ scene = "one" /\ ~(config'.on /\ config'.test) => acts' <= 1
  /\ scene \in {"one", "two"} /\ acts' # acts => late = {} /\ lapsed = {}
  /\ scene = "two" => eligible' = Come /\ ~quiet'
  /\ scene = "two" => acts' <= 1 /\ Carded
  /\ scene = "three" => /\ late' = {} /\ lapsed' = {} /\ acts' = 0 /\ eligible' = Come /\ Carded
                        /\ \A e \in Events : card'[e] # "dead"

MCInit ==
  /\ O!Init /\ Init /\ scene \in {"one", "two", "three", "card"}
  /\ scene # "one" => config = [on |-> TRUE, test |-> TRUE]
  /\ scene # "card" => ready

MCNext == \/ scene = "card" /\ O!Next /\ UNCHANGED <<scene, vars>>
          \/ scene # "card" /\ Next /\ Script /\ UNCHANGED <<scene, outbox>>

Timed == scene \in {"one", "two"}

MCFairness ==
  /\ \A r \in O!Rows : SF_outbox(scene = "card" /\ O!Claim(w1, r))
  /\ WF_outbox(scene = "card" /\ O!Sweep(w1)) /\ WF_outbox(scene = "card" /\ O!Handle(w1))
  /\ WF_outbox(scene = "card" /\ O!Tick) /\ WF_outbox(scene = "card" /\ O!Discord)
  /\ WF_outbox(scene = "card" /\ O!Restart)
  /\ WF_vars(Timed /\ Cycle /\ Script)
  /\ WF_vars(Timed /\ Worker /\ Script)
  /\ WF_vars(Timed /\ Passing /\ Script)

MCSpec == MCInit /\ [][MCNext]_<<scene, vars, outbox>> /\ MCFairness

(* What is to be said or sent is done with.  Once Discord stays ready and  *)
(* nobody stops the service, a row of the outbox is settled, however often *)
(* the process dies; and there is always again a time when no narration    *)
(* intent is open, whatever became of its session, lease or process.  (The *)
(* third scene has no time in it.)                                         *)
AllSettles == O!Settles /\ (Timed => NarrationEnds)
=============================================================================
