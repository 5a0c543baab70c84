---------------------------- MODULE MCListening ----------------------------
(* One window of voice input, and somebody who presses Stop.               *)
EXTENDS Listening

OneStop == {[k \in Kinds |-> IF k \in {"begin", "stop"} THEN 1 ELSE 0]}
=============================================================================
