------------------------------ MODULE MCLimits ------------------------------
(* Two services that hand out what is limited and share no state: the      *)
(* outbox its claims, and the generation service its budget.  `part` says  *)
(* which one runs.                                                         *)
EXTENDS MCOutbox

CONSTANTS a1, a2, a3, ann, background

VARIABLES part, now, circuit, at, read, caller, attempt, charge, billed, faults

MCAttempts == {a1, a2, a3}
MCMembers  == {ann}
Costs      == [m \in {ann, background} |-> IF m = ann THEN 1 ELSE 2]

G == INSTANCE Generation
       WITH Attempts <- MCAttempts, Members <- MCMembers, Background <- background,
            Reservation <- Costs, Day <- 1, Month <- 2, DayLimit <- 3, MonthLimit <- 4,
            DayCalls <- 2, DirectWindow <- 1, DirectCalls <- 1, CallLimit <- 1,
            FailureWindow <- 2, FailureThreshold <- 2, MaxClock <- 2, MaxFaults <- 1,
            row <- attempt

ASSUME PolicyAssumption == G!CircuitAssumption /\ G!GenerationAssumption

generationVars == <<now, circuit, at, read, caller, attempt, charge, billed, faults>>

(* A bound of the outbox: a second edit comes where the card left at the   *)
(* first attempt.                                                          *)
SecondEdit == row'[edit2].state # "absent" => row'[card].attempts <= 1

MCInit == /\ Init /\ G!Init /\ part \in {"outbox", "generation"}
          /\ part = "generation" => ready

MCNext ==
  \/ part = "outbox" /\ Next /\ SecondEdit /\ UNCHANGED <<part, generationVars>>
  \/ part = "generation" /\ G!Next /\ UNCHANGED <<part, vars>>

MCSpec == MCInit /\ [][MCNext]_<<part, vars, generationVars>>

Interchangeable == WorkerSymmetry \cup Permutations({a1, a2}) \cup Permutations({a2, a3})

(* No window of time holds more generations than the policy allows, in     *)
(* cost (BudgetHolds) and in number (RatesHold), and a half-open circuit   *)
(* has one probe, which will end that state (OneProbe).                    *)
GenerationLimits ==
  part = "generation" => G!TypeOK /\ G!BudgetHolds /\ G!RatesHold /\ G!OneProbe

(* A configuration failure holds the provider's circuit open until a       *)
(* restart, whatever the calls under way report afterwards.                *)
ConfigurationFailureSticks == G!ConfigurationFailureSticks
=============================================================================
