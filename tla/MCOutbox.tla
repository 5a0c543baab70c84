------------------------------ MODULE MCOutbox ------------------------------
(* A card and its edits, two workers, two attempts.  One unit of time is   *)
(* the 60 s claim lease scaled down to 1.                                  *)
EXTENDS Outbox, TLC

CONSTANTS card, edit1, edit2

MCPublicRows   == {card}
MCEditRows     == {edit1, edit2}
MCSource       == [e \in MCEditRows |-> card]
MCRevision     == [e \in MCEditRows |-> IF e = edit1 THEN 1 ELSE 2]
MCPredecessors == [r \in MCPublicRows \cup MCEditRows |->
                     IF r = card THEN {} ELSE
                     IF r = edit1 THEN {card} ELSE {card, edit1}]
MCRetryDelays  == <<1, 1, 2>>

WorkerSymmetry == Permutations(Workers)
=============================================================================
