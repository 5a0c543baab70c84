----------------------------- MODULE MCExecutor -----------------------------
(* A BoundedExecutor of two slots and an AiWorkService whose limits are    *)
(* scaled down from 64, 48 and 32 slots to 3, 2 and 1.                     *)
EXTENDS Executor

Bounded ==
  [lanes |-> {"work"}, schedule |-> <<"work">>, jumps |-> TRUE,
   limits |-> {[lanes |-> {"work"}, most |-> 2]}]

AiLanes == {"direct", "explicit", "optional"}

AiWork ==
  [lanes |-> AiLanes, jumps |-> FALSE,
   schedule |-> <<"direct", "direct", "direct", "direct",
                  "explicit", "explicit", "optional">>,
   limits |-> {[lanes |-> AiLanes, most |-> 3],
               [lanes |-> {"explicit", "optional"}, most |-> 2],
               [lanes |-> {"optional"}, most |-> 1]}]

BothPools == {Bounded, AiWork}
=============================================================================
