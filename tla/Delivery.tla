------------------------------ MODULE Delivery ------------------------------
(* What the outbox promises about one public message, whatever happens to  *)
(* the process that delivers it: the message appears only after a first    *)
(* attempt was put on record, it is reported as delivered only when it has *)
(* appeared, a message given up before that record never appears, and an   *)
(* outcome once reported stays.                                            *)
VARIABLES status, visible

vars == <<status, visible>>

Init == status = "new" /\ visible = FALSE

Move(from, to) ==
  /\ status = from
  /\ status' = to
  /\ UNCHANGED visible

Offer   == Move("new", "offered")
Try     == Move("offered", "tried")
Confirm == visible /\ Move("tried", "delivered")

(* Given up or withdrawn: without an attempt the message is known not to   *)
(* exist, with one it may or may not.                                      *)
GiveUp  == Move("offered", "unsent") \/ Move("tried", "unresolved")

(* A request under way may still take effect after the row was given up.   *)
Appear ==
  /\ status \in {"tried", "unresolved"}
  /\ visible' = TRUE
  /\ UNCHANGED status

Next == Offer \/ Try \/ Confirm \/ GiveUp \/ Appear

Spec == Init /\ [][Next]_vars
=============================================================================
