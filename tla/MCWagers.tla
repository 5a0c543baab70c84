------------------------------ MODULE MCWagers ------------------------------
(* One wager with its deadline jobs and two scheduler workers; an owner's  *)
(* self-test without workers; two wagers that compete for the same         *)
(* members' Fate, without workers; and, sharing no state with them, the    *)
(* sealed notices by which features tell a member something: one that two  *)
(* interactions of its target compete for, or with a stranger's, or two.   *)
EXTENDS Wagers, TLC

CONSTANTS ann, ben, sam, w1, n1, n2, i1, i2, i3

VARIABLES scene, notice, token, attempt, due, lapsed, edits, seen, up

Terms(creator, target, judge, policy, sealed) ==
  [creator |-> creator, target |-> target, judge |-> judge,
   policy |-> policy, sealed |-> sealed, test |-> creator = target]

(* sam owns the server; he may be a party like anyone else.                *)
SealedOrJudged ==
  {Terms(ann, ben, Nobody, "mutual", TRUE),
   Terms(ann, sam, ben, "designated", FALSE)}

SelfTest == {Terms(sam, sam, sam, "designated", FALSE)}

(* sam is challenged, and challenges another. *)
Competing ==
  {Terms(ben, sam, Nobody, "mutual", FALSE),
   Terms(sam, ann, Nobody, "mutual", FALSE)}

Scripts == SealedOrJudged \cup SelfTest \cup Competing

(* Bounds of the duel: two wagers at stake 3 of 4, w1 drafted first. *)
Dueling ==
  /\ \A w \in WagerIds : wager'[w].state # "absent" =>
       wager'[w].terms \in Competing /\ wager'[w].stake \in {0, 3}
  /\ wager'[w1].state = "absent" => wager' = wager
  /\ claim' = claim

(* Bounds of a single wager: it is w1, at stake 2 of 4. *)
Alone ==
  /\ wager'[w1].state # "absent" =>
       wager'[w1].terms \notin Competing /\ wager'[w1].stake \in {0, 2}
  /\ \A w \in WagerIds \ {w1} : wager'[w].state = "absent"

(* A bound of this instance: no worker meets a self-test (MCProgress has   *)
(* one).                                                                   *)
NoWorkerInTests ==
  (\E w \in WagerIds : wager'[w].state # "absent" /\ wager'[w].terms.test) =>
    claim' = claim

MCNotes == {n1, n2}
MCKeys  == {i1, i2, i3}

N == INSTANCE Notices
       WITH Members <- {ann, ben}, Notes <- MCNotes, Keys <- MCKeys,
            Target <- [n \in MCNotes |-> ann],
            Asker <- [k \in MCKeys |-> IF k = i3 THEN ben ELSE ann],
            None <- Nobody, wire <- edits

ASSUME NoticesAssumption == N!NoticesAssumption

inbox == <<notice, token, attempt, due, lapsed, edits, seen, up>>

(* A bound of the inbox: two edits are under way at once while there is    *)
(* one notice and its target alone asks, else one.                         *)
FewEdits ==
  /\ notice'[n1] = "none" => notice'[n2] = "none"
  /\ notice'[n2] # "none" => attempt'[i3] = N!Untried
  /\ Cardinality(edits') <= IF notice'[n2] = "none" /\ attempt'[i3] = N!Untried THEN 2 ELSE 1

(* A bound of this instance: one job at most is lost or tried again.       *)
Troubled(w, p) == LET j == job[w][p] IN
  j.attempts > 0 /\ (j.state # "claimed" \/ j.attempts > 1 \/ \A k \in Workers : claim[k] = Idle)
OneTrouble == \A w \in WagerIds, p, q \in Phases : Troubled(w, p)' /\ Troubled(w, q)' => p = q

MCInit == Init /\ N!Init /\ scene \in {"wager", "duel", "inbox"}
MCNext ==
  \/ scene = "wager" /\ Next /\ Alone /\ NoWorkerInTests /\ OneTrouble
                      /\ UNCHANGED <<scene, inbox>>
  \/ scene = "duel" /\ Next /\ Dueling /\ UNCHANGED <<scene, inbox>>
  \/ scene = "inbox" /\ N!Next /\ FewEdits /\ UNCHANGED <<scene, vars>>
MCSpec == MCInit /\ [][MCNext]_<<scene, vars, inbox>>

(* A sealed notice is for its target only, is never put aside unread, and  *)
(* is not offered again once its delivery was confirmed.                   *)
NoticesHold == N!NoticesHold

Interchangeable == Permutations(Workers) \cup Permutations({i1, i2})
=============================================================================
