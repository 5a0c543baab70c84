------------------------------- MODULE MCFate -------------------------------
(* The House and the recoveries in three scenarios over one catalogue:     *)
(* draws  - two members, two wagers, every kind of draw, no offers;        *)
(* weekly - a member and the owner in test mode, and an offer of the week  *)
(*          or of a test, with a crash;                                    *)
(* poor   - the owner on both ways back to solvency and on a House wager   *)
(*          that only helps the poor, with adjustments of the balance.     *)
EXTENDS Fate

CONSTANTS dawn, hour, standard, ada, ben, cyn, w1, w2, o1, c1, c2

VARIABLE scene

MCTemplates == {dawn, hour, standard}
MCAuthority == [t \in MCTemplates |->
  IF t = dawn THEN "draw" ELSE IF t = hour THEN "public_draw" ELSE "owner"]
MCStake   == [t \in MCTemplates |-> IF t = dawn THEN 0 ELSE 1]
MCProfit  == [t \in MCTemplates |->
  IF t = dawn THEN [c \in {"rise"} |-> 1]
  ELSE [c \in {"yes", "no"} |-> IF t = hour /\ c = "yes" THEN 2 ELSE 1]]
MCEligibleBelow == [t \in MCTemplates |-> IF t = dawn THEN 3 ELSE 0]
MCWindow    == [t \in MCTemplates |-> 1]
MCCooldown  == [t \in MCTemplates |-> IF t = dawn THEN 1 ELSE 0]
MCAmounts   == {-1, 1}
MCThreshold == [k \in {"grace", "trial"} |-> IF k = "grace" THEN 1 ELSE 2]
MCRest      == [k \in {"grace", "trial"} |-> IF k = "grace" THEN 2 ELSE 1]

Scenes == {"draws", "weekly", "poor"}
Cast   == [draws  |-> {ben, cyn}, weekly |-> {ada, ben}, poor |-> {ada}]
Played == [draws  |-> {dawn, hour}, weekly |-> {standard}, poor |-> {dawn}]
Placed == [draws  |-> {w1, w2}, weekly |-> {w1}, poor |-> {w1}]

(* A step inside its scenario.  Wagers and members without a role are      *)
(* alike: w1 is the first wager, and never cyn's; c1 is the first claim.   *)
Inside ==
  /\ \A w \in Bets : bets'[w].state = "none" \/
       /\ w \in Placed[scene]
       /\ bets'[w].user \in Cast[scene] /\ bets'[w].template \in Played[scene]
  /\ \A u \in Users \ Cast[scene] :
       drawCool'[u] <= drawCool[u] /\ (u \in known') = (u \in known)
  /\ \A c \in ClaimIds : claims'[c].user \in Cast[scene] \cup {"none"}
  /\ bets'[w1].state = "none" => bets'[w2].state = "none"
  /\ bets'[w1].user # cyn
  /\ scene = "draws" => bets'[w2].template # dawn
  /\ claims'[c1].state = "none" => claims'[c2].state = "none"
  /\ UNCHANGED scene

MCInit ==
  /\ scene \in Scenes
  /\ HouseInit
  /\ scene # "weekly" => weekly.slot = NoOffer
  /\ IF scene = "poor" THEN R!Init
     ELSE R!NoClaims /\ known = Users /\ fate = Ledger0

Weekly_ == scene = "weekly" /\ Steps
Wagering == scene # "weekly" /\ (PlayStep \/ SettleStep \/ JobStep \/ DrawStep)
                             /\ UNCHANGED <<run, offerVars>>
Play_   == (Weekly_ \/ Wagering) /\ Provisioned /\ UNCHANGED <<known, claims, adjusts, rested>>
Poor    == scene = "poor" /\ RecoveryStep

MCNext == (Play_ \/ Poor \/ Pass) /\ Inside

MCSpec == MCInit /\ [][MCNext]_<<fateVars, scene>> /\ Fairness
=============================================================================
