-------------------------------- MODULE Pots --------------------------------
(* What a wager promises about Fate, and nothing about how it is decided:  *)
(* two members put in the same stake in one step, from accounts that can   *)
(* afford it, and the pot is handed out whole exactly once, to one of the  *)
(* two or back to both.  No other step touches an account.                 *)
EXTENDS Integers

CONSTANTS PotIds, Users, Stakes, StartingFate

VARIABLES opened, balance, pot

vars == <<opened, balance, pot>>

Empty == [state |-> "empty"]

Held(a, b, s) == [state |-> "held", first |-> a, second |-> b, stake |-> s]

Init ==
  /\ opened = {}
  /\ balance = [u \in Users |-> 0]
  /\ pot = [p \in PotIds |-> Empty]

(* What u has to spend: a member without an account gets a starting grant  *)
(* on joining.                                                             *)
Purse(u) == IF u \in opened THEN balance[u] ELSE StartingFate

PutIn(a, b, s, u) == (IF u = a THEN s ELSE 0) + (IF u = b THEN s ELSE 0)

Collect(p, a, b, s) ==
  /\ opened' = opened \cup {a, b}
  /\ pot[p] = Empty
  /\ \A u \in {a, b} : Purse(u) >= PutIn(a, b, s, u)
  /\ balance' = [u \in Users |->
       IF u \in {a, b} THEN Purse(u) - PutIn(a, b, s, u) ELSE balance[u]]
  /\ pot' = [pot EXCEPT ![p] = Held(a, b, s)]

HandOut(p, u) ==
  /\ pot[p].state = "held"
  /\ u \in {pot[p].first, pot[p].second}
  /\ balance' = [balance EXCEPT ![u] = @ + 2 * pot[p].stake]
  /\ pot' = [pot EXCEPT ![p].state = "won"]
  /\ UNCHANGED opened

GiveBack(p) ==
  /\ pot[p].state = "held"
  /\ balance' = [u \in Users |->
       balance[u] + PutIn(pot[p].first, pot[p].second, pot[p].stake, u)]
  /\ pot' = [pot EXCEPT ![p].state = "returned"]
  /\ UNCHANGED opened

Next ==
  \E p \in PotIds :
    \/ \E a, b \in Users, s \in Stakes : Collect(p, a, b, s)
    \/ \E u \in Users : HandOut(p, u)
    \/ GiveBack(p)

Spec == Init /\ [][Next]_vars
=============================================================================
