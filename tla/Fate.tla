-------------------------------- MODULE Fate --------------------------------
(***************************************************************************)
(* The House and the ways back to solvency on one ledger: what each grants *)
(* depends on a balance the other moves.  Time passes for both at once.    *)
(***************************************************************************)
EXTENDS House

CONSTANTS ClaimIds, Adjustments, Amounts, Threshold, GraceTarget, TrialRewardMin,
          TrialRewardMax, Lifetime, RecoveryRest

VARIABLES known, claims, adjusts, rested

R == INSTANCE Recovery

ASSUME FateAssumption == R!RecoveryAssumption

fateVars == <<vars, known, claims, adjusts, rested>>

(* TarotHouseService provisions the account before it plays. *)
Provisioned == \A w \in Bets : bets'[w].user \in known \cup {"none"}

HouseStep == /\ Steps \/ DrawStep
             /\ Provisioned
             /\ UNCHANGED <<known, claims, adjusts, rested>>

RecoveryStep == R!Steps /\ UNCHANGED <<betVars, offerVars, job, run>>

Pass == Tick /\ R!Tick

FateInit == HouseInit /\ R!Init

FateNext == HouseStep \/ RecoveryStep \/ Pass

FateSpec == FateInit /\ [][FateNext]_fateVars

(* The records of members, House and recoveries account for every balance: *)
(* each grant, recovery, adjustment, stake, payout, refund and cleaned test *)
(* counts once, whatever settles a wager and however operations interleave; *)
(* nothing is created or lost, and no member is ever in debt.              *)
OneLedger ==
  /\ \A u \in Users : fate[u] = R!RecoveryNet(u) + HouseNet(u) /\ fate[u] >= 0
  /\ fate["ESCROW"] = HouseNet("ESCROW") /\ fate["HOUSE"] = HouseNet("HOUSE")
  /\ FoldSet(LAMBDA a, sum : fate[a] + sum, 0, Accounts) = 0

TypesOK == TypeOK /\ R!TypeOK

(* And what is at risk stays within the cap, whoever settles a wager.      *)
LedgersHold == OneLedger /\ ExposureWithinCap

LiftsOnlyThePoor == R!LiftsOnlyThePoor
RecoveryIsScarce == R!RecoveryIsScarce

(* Fate is given only to the poor, and not again before its time.          *)
GivenSparingly == LiftsOnlyThePoor /\ RecoveryIsScarce
=============================================================================
