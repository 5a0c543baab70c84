------------------------------ MODULE Recovery ------------------------------
(***************************************************************************)
(* The two ways back to solvency, Grace of the Throne and the Trial of     *)
(* Renewal, and the accounts and owner's adjustments around them: the      *)
(* Tarot repository on the ledger it shares with the wagers.               *)
(*                                                                         *)
(* A claim is started by a command and completed, up to fifteen minutes    *)
(* later, by a button; what made the member eligible may be gone by then.  *)
(* Each operation is one immediate transaction and so one step.  Instants  *)
(* are distances from now, counted down by Tick.  A receipt keeps an       *)
(* interaction to what it did once; who may see a claim and the message    *)
(* that announces it are left out.                                         *)
(***************************************************************************)
EXTENDS Integers, FiniteSets, FiniteSetsExt

CONSTANTS
  Users, Owner, TestMode,
  Opening,         \* starting_fate
  ClaimIds,          \* interactions that start a claim, and the claims
  Adjustments,     \* interactions of the owner that adjust a balance
  Amounts,         \* the amounts asked for
  Threshold,       \* Threshold[k] for the kinds "grace" and "trial"
  GraceTarget,     \* grace_target, above the threshold
  TrialRewardMin, TrialRewardMax,
  Lifetime,        \* tarot_interaction_lifetime_ms
  RecoveryRest     \* RecoveryRest[k]: the cooldown of the kind

Kinds    == {"grace", "trial"}
Accounts == Users \cup {"MINT", "BURN", "HOUSE", "ESCROW"}

(* What TarotPolicy::validate leaves of a configuration; the owner is one  *)
(* of the users, adjusting by nothing is refused, and tables are finite.   *)
RecoveryAssumption ==
  /\ Users \cap {"MINT", "BURN", "HOUSE", "ESCROW"} = {} /\ Owner \in Users
  /\ Threshold \in [Kinds -> Nat \ {0}] /\ RecoveryRest \in [Kinds -> Nat \ {0}]
  /\ {Opening, GraceTarget, TrialRewardMin, TrialRewardMax, Lifetime} \subseteq Nat \ {0}
  /\ Threshold["grace"] < GraceTarget /\ TrialRewardMin <= TrialRewardMax
  /\ Amounts \subseteq Int \ {0}
  /\ IsFiniteSet(ClaimIds) /\ IsFiniteSet(Adjustments)

TrialRewards == TrialRewardMin..TrialRewardMax

VARIABLES
  fate,        \* balance of every account of the ledger
  known,       \* members with an account
  claims,      \* tarot_recovery_claim
  adjusts,     \* TEST_ADJUSTMENT transactions and their reversals
  rested       \* since the last completed claim of a member, kind, namespace

recoveryVars == <<known, claims, adjusts, rested>>
vars         == <<fate, recoveryVars>>

Down(x)   == IF x > 0 THEN x - 1 ELSE 0
Tested(u) == TestMode /\ u = Owner

(* A sealed transaction with two postings; the seal refuses a member's     *)
(* debt.                                                                   *)
Transfer(f, from, to, amount) ==
  [f EXCEPT ![from] = @ - amount, ![to] = @ + amount]

NoClaim == [state |-> "none", user |-> "none", kind |-> "none", left |-> 0,
            rest |-> 0, reward |-> 0]
NoAdjust == [state |-> "none", user |-> "none", amount |-> 0]

(* ensure_account: the account and its starting grant, once. *)
EnsureAccount(u) ==
  /\ u \notin known
  /\ known' = known \cup {u}
  /\ fate' = Transfer(fate, "MINT", u, Opening)
  /\ UNCHANGED <<claims, adjusts, rested>>

Same(c, u, k) == claims[c].user = u /\ claims[c].kind = k
Pending(u, k) == {c \in ClaimIds : Same(c, u, k) /\ claims[c].state = "pending"}
Resting(u, k) == \E c \in ClaimIds : /\ Same(c, u, k)
                                   /\ claims[c].state = "completed"
                                   /\ claims[c].rest > 0

(* start_recovery.  A claim that still runs is shown again; one that ran   *)
(* out is closed first, and with a refusal only that remains.              *)
Closed(S) == [c \in ClaimIds |-> IF c \in S THEN [claims[c] EXCEPT !.state = "expired"]
                                          ELSE claims[c]]

Eligible(u, k) == fate[u] < Threshold[k] /\ ~Resting(u, k)

StartRecovery(c, u, k, reward) ==
  LET old == Pending(u, k) IN
  /\ u \in known /\ claims[c].state = "none"
  /\ \A d \in old : claims[d].left <= 0
  /\ IF ~Eligible(u, k) THEN old # {} /\ claims' = Closed(old)
     ELSE claims' = [Closed(old) EXCEPT ![c] =
            [NoClaim EXCEPT !.state = "pending", !.user = u, !.kind = k,
                            !.left = Lifetime,
                            !.reward = IF k = "trial" THEN reward ELSE 0]]
  /\ UNCHANGED <<fate, known, adjusts, rested>>

(* complete_recovery.  The balance and the cooldown are looked at again.   *)
Reward(c) == IF claims[c].kind = "grace"
             THEN GraceTarget - fate[claims[c].user] ELSE claims[c].reward
(* Seeded fault: the button trusts what was checked when the claim began. *)
StillEligible_trusting(c) == ~Resting(claims[c].user, claims[c].kind)

StillEligible(c) == Eligible(claims[c].user, claims[c].kind)

(* Seeded fault: a completed claim leaves no cooldown. *)
Completed_restless(c) == [claims[c] EXCEPT !.state = "completed", !.left = 0,
                                           !.reward = Reward(c)]

Completed(c) == [claims[c] EXCEPT !.state = "completed", !.left = 0,
                                  !.reward = Reward(c),
                                  !.rest = RecoveryRest[claims[c].kind]]

CompleteRecovery(c) ==
  /\ claims[c].state = "pending"
  /\ IF claims[c].left <= 0
     THEN /\ claims' = [claims EXCEPT ![c].state = "expired"]
          /\ UNCHANGED <<fate, rested>>
     ELSE IF ~StillEligible(c)
     THEN /\ claims' = [claims EXCEPT ![c].state = "abandoned"]
          /\ UNCHANGED <<fate, rested>>
     ELSE /\ claims' = [claims EXCEPT ![c] = Completed(c)]
          /\ fate' = Transfer(fate, "MINT", claims[c].user, Reward(c))
          /\ rested' = [rested EXCEPT ![claims[c].user][claims[c].kind] = 0]
  /\ UNCHANGED <<known, adjusts>>

(* The fourth button of a trial, or a late press of it. *)
Abandon(c) ==
  /\ claims[c].state = "pending" /\ claims[c].kind = "trial"
  /\ claims' = [claims EXCEPT ![c].state =
                  IF claims[c].left <= 0 THEN "expired" ELSE "abandoned"]
  /\ UNCHANGED <<fate, known, adjusts, rested>>

(* adjust and reverse, of the owner in test mode, on the owner's account.  *)
Adjust(x, amount) ==
  /\ TestMode /\ Owner \in known /\ adjusts[x].state = "none"
  /\ fate[Owner] + amount >= 0
  /\ fate' = Transfer(fate, IF amount > 0 THEN "MINT" ELSE "BURN", Owner, amount)
  /\ adjusts' = [adjusts EXCEPT ![x] =
                   [state |-> "applied", user |-> Owner, amount |-> amount]]
  /\ UNCHANGED <<known, claims, rested>>

(* Seeded fault: a reversal may take more than the member has left. *)
Reversible_broke(x) == adjusts[x].state = "applied"

Reversible(x) == /\ adjusts[x].state = "applied"
                 /\ fate[Owner] - adjusts[x].amount >= 0

Reverse(x) ==
  LET amount == adjusts[x].amount IN
  /\ TestMode /\ Reversible(x)
  /\ fate' = Transfer(fate, Owner, IF amount > 0 THEN "MINT" ELSE "BURN", amount)
  /\ adjusts' = [adjusts EXCEPT ![x].state = "reversed"]
  /\ UNCHANGED <<known, claims, rested>>

Tick ==
  /\ claims' = [c \in ClaimIds |-> [claims[c] EXCEPT !.left = Down(@), !.rest = Down(@)]]
  /\ rested' = [u \in Users |-> [k \in Kinds |->
       IF rested[u][k] < RecoveryRest[k] THEN rested[u][k] + 1 ELSE rested[u][k]]]
  /\ UNCHANGED <<fate, known, adjusts>>

NoClaims ==
  /\ claims = [c \in ClaimIds |-> NoClaim]
  /\ adjusts = [x \in Adjustments |-> NoAdjust]
  /\ rested = [u \in Users |-> RecoveryRest]

Init == NoClaims /\ known = {} /\ fate = [a \in Accounts |-> 0]

Steps ==
  \/ \E u \in Users : EnsureAccount(u)
  \/ \E c \in ClaimIds : CompleteRecovery(c) \/ Abandon(c)
  \/ \E c \in ClaimIds, u \in Users, k \in Kinds, reward \in TrialRewards :
       StartRecovery(c, u, k, reward)
  \/ \E x \in Adjustments, amount \in Amounts : Adjust(x, amount)
  \/ \E x \in Adjustments : Reverse(x)

Next == Steps \/ Tick

Spec == Init /\ [][Next]_vars

(***************************************************************************)
(* Properties                                                              *)
(***************************************************************************)
(* Every variable keeps the type its declaration states. *)
TypeOK ==
  /\ fate \in [Accounts -> Int] /\ known \subseteq Users
  /\ claims \in [ClaimIds ->
       [state : {"none", "pending", "completed", "expired", "abandoned"},
        user : Users \cup {"none"}, kind : Kinds \cup {"none"}, left : Nat,
        rest : Nat, reward : Int]]
  /\ adjusts \in [Adjustments -> [state : {"none", "applied", "reversed"},
                                  user : Users \cup {"none"}, amount : Int]]
  /\ rested \in [Users -> [Kinds -> Nat]]

(* What the records say has been granted, recovered and adjusted. *)
Granted(u) == IF u \in known THEN Opening ELSE 0
Recovered(u) == MapThenSumSet(LAMBDA c : claims[c].reward,
                  {c \in ClaimIds : claims[c].user = u /\ claims[c].state = "completed"})
Adjusted(u) == MapThenSumSet(LAMBDA x : adjusts[x].amount,
                  {x \in Adjustments : adjusts[x].user = u /\ adjusts[x].state = "applied"})
RecoveryNet(u) == Granted(u) + Recovered(u) + Adjusted(u)

(* At most one claim of a member and kind is open, and a reward lifts only *)
(* a member who is poor at that moment, never above what the policy        *)
(* promises, however the balance moved since the claim was started.        *)
Ceiling(k) == IF k = "grace" THEN GraceTarget
              ELSE Threshold[k] - 1 + TrialRewardMax

Pays(c) == claims[c].state = "pending" /\ claims'[c].state = "completed"

LiftsOnlyThePoor ==
  [][\A c \in ClaimIds : Pays(c) =>
       LET u == claims[c].user k == claims[c].kind IN
       /\ fate[u] < Threshold[k]
       /\ fate'[u] > fate[u] /\ fate'[u] <= Ceiling(k)]_vars

(* Two rewards of one kind to one member are a cooldown apart, whichever   *)
(* claims they come from.                                                  *)
RecoveryIsScarce ==
  [][\A c \in ClaimIds : Pays(c) =>
       rested[claims[c].user][claims[c].kind] >= RecoveryRest[claims[c].kind]]_vars
=============================================================================
