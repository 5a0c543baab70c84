------------------------------- MODULE Wagers -------------------------------
(***************************************************************************)
(* Peer wagers: the rows of tarot_wager with the Fate ledger that backs    *)
(* them (human accounts and the ESCROW account) and the deadline jobs the  *)
(* scheduler claims and fires.                                             *)
(*                                                                         *)
(* Every operation of SqliteWagerRepository is one immediate transaction,  *)
(* hence one action.  Between a scheduler worker's claim of a job and the  *)
(* transaction that applies the deadline anything may happen: a member     *)
(* acts on the wager, the lease runs out and another worker claims the     *)
(* job, the process stops or crashes.                                      *)
(*                                                                         *)
(* Instants are kept as the time left until them, counted down by Tick; 0  *)
(* means reached or past.                                                  *)
(***************************************************************************)
EXTENDS Integers, FiniteSets, Functions

CONSTANTS
  WagerIds,       \* wager ids (UUIDs) that may be drawn
  Users,          \* members of the server
  Owner,          \* guild_config.owner_user_id
  Agreements,     \* the drafts members make: parties, policy, visibility
  Stakes,         \* stakes offered
  StartingFate,   \* the starting grant of a new account
  DraftLifetime,  \* wager_control_lifetime_ms
  OfferLifetime,  \* offer_expiry_ms
  OutcomeWindow,  \* outcome_window_ms
  Grace,          \* resolution_grace_ms
  Workers,        \* threads of the scheduler executor
  JobLease,       \* lease_duration_ms
  RetryDelay,     \* retry_delay_ms
  MaxAttempts,    \* max_attempts of a deadline job
  Nobody          \* no worker, no judge

Sides     == {"creator", "target"}
Policies  == {"mutual", "designated"}
Open      == {"draft", "offered"}
Funded    == {"accepted_funded", "awaiting_resolution", "disputed"}
Paid      == {"resolved", "void_refunded"}
Unfunded  == {"cancelled", "declined", "expired"}
Terminal  == Paid \cup Unfunded
Phases    == {"draft_expiry", "offer_expiry", "reminder", "outcome_due", "grace"}

Agreement ==
  [creator: Users, target: Users, judge: Users \cup {Nobody},
   policy: Policies, sealed: BOOLEAN, test: BOOLEAN]

(* What create() and create_draft accept: distinct human parties, a judge  *)
(* exactly for the designated policy, and self-tests of the owner in which *)
(* every part is played by the owner.                                      *)
WellFormed(a) ==
  /\ (a.policy = "designated") <=> (a.judge # Nobody)
  /\ a.test <=> (a.creator = a.target)
  /\ IF a.test THEN a.creator = Owner /\ a.judge \in {Owner, Nobody}
               ELSE a.judge \notin {a.creator, a.target}

ASSUME WagerAssumption ==
  /\ IsFiniteSet(WagerIds) /\ IsFiniteSet(Users)
  /\ Owner \in Users /\ Nobody \notin Users /\ Nobody \notin Workers
  /\ Agreements \subseteq Agreement /\ Agreements # {}
  /\ \A a \in Agreements : WellFormed(a)
  /\ Stakes \subseteq Nat \ {0}
  /\ StartingFate \in Nat \ {0}
  /\ DraftLifetime \in Nat \ {0} /\ OfferLifetime \in Nat \ {0}
  /\ OutcomeWindow \in Nat \ {0} /\ Grace \in Nat \ {0}
  /\ JobLease \in Nat \ {0} /\ RetryDelay \in Nat \ {0}
  /\ MaxAttempts \in Nat \ {0}

VARIABLES
  wager,    \* the tarot_wager table, with its outcomes, consents, resolution
  opened,   \* members whose HUMAN account exists
  balance,  \* committed postings of each member's account
  escrow,   \* committed postings of the ESCROW account
  job,      \* the scheduled_job rows linked by tarot_wager_job
  claim     \* what each scheduler worker holds in memory

vars == <<wager, opened, balance, escrow, job, claim>>

(* said: tarot_wager_outcome; voids: tarot_wager_void_consent; agreed: the *)
(* 'agreed' audit action; authority and winner: tarot_wager_resolution;    *)
(* revealed: the sealed offer's notice was opened by its addressee.        *)
(* draftLeft, offerLeft, graceLeft: time left until the draft's original   *)
(* expiry, offer_expires_at_ms and resolution_grace_until_ms, kept while   *)
(* the wager is in a state that compares them.                             *)
WagerRecord ==
  [state: {"absent"} \cup Open \cup Funded \cup Terminal,
   terms: Agreement, stake: {0} \cup Stakes,
   draftLeft: Nat, offerLeft: Nat, graceLeft: Nat,
   said: [Sides -> Sides \cup {"none"}], voids: SUBSET Sides,
   agreed: Sides \cup {"none"},
   authority: {"none", "mutual", "judge", "owner"},
   winner: Sides \cup {"none"},
   revealed: BOOLEAN, reminded: BOOLEAN, cleaned: BOOLEAN]

JobRecord ==
  [state: {"absent", "pending", "claimed", "ended", "dead"},
   wait: Nat, attempts: 0..MaxAttempts, holder: Workers \cup {Nobody},
   lease: Nat]

Claims == [wager: WagerIds, phase: Phases, attempts: 1..MaxAttempts]

AbsentJob ==
  [state |-> "absent", wait |-> 0, attempts |-> 0, holder |-> Nobody,
   lease |-> 0]

(* A completed or cancelled row: nobody claims it again. *)
Ended == [AbsentJob EXCEPT !.state = "ended"]

Idle == [idle |-> TRUE]

Drafted(a) ==
  [state |-> "draft", terms |-> a, stake |-> 0,
   draftLeft |-> DraftLifetime, offerLeft |-> 0, graceLeft |-> 0,
   said |-> [s \in Sides |-> "none"], voids |-> {},
   agreed |-> "none", authority |-> "none", winner |-> "none",
   revealed |-> FALSE, reminded |-> FALSE, cleaned |-> FALSE]

AbsentWager ==
  [Drafted(CHOOSE a \in Agreements : TRUE)
     EXCEPT !.state = "absent", !.draftLeft = 0]

Init ==
  /\ wager = [w \in WagerIds |-> AbsentWager]
  /\ opened = {}
  /\ balance = [u \in Users |-> 0]
  /\ escrow = 0
  /\ job = [w \in WagerIds |-> [p \in Phases |-> AbsentJob]]
  /\ claim = [k \in Workers |-> Idle]

-----------------------------------------------------------------------------
(* Who may act *)

Other(side) == IF side = "creator" THEN "target" ELSE "creator"

(* The user who plays a side. *)
Party(a, side) == IF side = "creator" THEN a.creator ELSE a.target

(* role_for: in a self-test the owner plays whichever role a control       *)
(* carries or set_test_role chose; otherwise the first matching part.      *)
Roles(a, u) ==
  IF a.test
  THEN IF u # Owner THEN {} ELSE
       Sides \cup {"owner"} \cup IF a.judge = Owner THEN {"judge"} ELSE {}
  ELSE IF u = a.creator THEN {"creator"} ELSE
       IF u = a.target  THEN {"target"}  ELSE
       IF u = a.judge   THEN {"judge"}   ELSE
       IF u = Owner     THEN {"owner"}   ELSE {}

(* Seeded fault: the stored expiry of an offer is not looked at.           *)
Overdue_offers(w) ==
  wager[w].state = "draft" /\ job[w]["draft_expiry"].wait = 0

(* act: a draft is overdue by the due time of its job, an offer by its     *)
(* stored expiry.                                                          *)
Overdue(w) ==
  \/ wager[w].state = "draft" /\ job[w]["draft_expiry"].wait = 0
  \/ wager[w].state = "offered" /\ wager[w].offerLeft = 0

(* An action of u in a role, on a wager in one of the given states.        *)
Acts(w, u, role, states) ==
  /\ wager[w].state \in states
  /\ role \in Roles(wager[w].terms, u)
  /\ ~Overdue(w)

-----------------------------------------------------------------------------
(* Jobs *)

Scheduled(after) == [AbsentJob EXCEPT !.state = "pending", !.wait = after]

(* cancel_job: only a pending job; a claimed one is left to its worker,    *)
(* who will find the wager moved on.                                       *)
Cancelled(jobs, phases) ==
  [p \in Phases |->
     IF p \in phases /\ jobs[p].state = "pending"
     THEN Ended ELSE jobs[p]]

-----------------------------------------------------------------------------
(* Fate *)

FateOf(u) == IF u \in opened THEN balance[u] ELSE StartingFate

(* Seeded fault: only the accepting side's account is looked at.           *)
Affordable_target(a, stake) == FateOf(a.target) >= stake

(* fund_wager: both sides must afford the stake, an owner's self-test      *)
(* both stakes.                                                            *)
Affordable(a, stake) ==
  IF a.creator = a.target THEN FateOf(a.creator) >= 2 * stake
  ELSE FateOf(a.creator) >= stake /\ FateOf(a.target) >= stake

(* What a wager's parties put in, by user: one account may play both. *)
Share(a, stake, u) ==
  (IF u = a.creator THEN stake ELSE 0) + (IF u = a.target THEN stake ELSE 0)

(* Seeded fault: a refund of a wager returns the creator's stake only.     *)
Payment_half(a, stake, result, u) ==
  IF result = "void" THEN IF u = a.creator THEN stake ELSE 0
  ELSE IF u = Party(a, result) THEN 2 * stake ELSE 0

(* What settlement posts to a user: both stakes to the winner, or each     *)
(* stake back.                                                             *)
Payment(a, stake, result, u) ==
  IF result = "void" THEN Share(a, stake, u)
  ELSE IF u = Party(a, result) THEN 2 * stake ELSE 0

-----------------------------------------------------------------------------
(* Transitions shared by several operations *)

Unmoved == UNCHANGED <<opened, balance, escrow>>

(* A wager enters a state in which none of its instants is compared and    *)
(* neither the notice nor the reminder is asked about.                     *)
Moved(r, state) ==
  [r EXCEPT !.state = state, !.draftLeft = 0, !.offerLeft = 0, !.graceLeft = 0,
            !.revealed = FALSE, !.reminded = FALSE]

(* transition_unfunded_terminal *)
Close(w, state) ==
  /\ wager' = [wager EXCEPT ![w] = Moved(@, state)]
  /\ job' = [job EXCEPT ![w] = Cancelled(@, {"draft_expiry", "offer_expiry"})]
  /\ Unmoved

(* fund_wager: missing accounts get their starting grant, both stakes move *)
(* to escrow, the deadlines run from now.                                  *)
Fund(w) ==
  LET a == wager[w].terms
      s == wager[w].stake
      parties == {a.creator, a.target}
  IN
  /\ opened' = opened \cup parties
  /\ balance' = [u \in Users |->
                   IF u \in parties THEN FateOf(u) - Share(a, s, u)
                                    ELSE balance[u]]
  /\ escrow' = escrow + 2 * s
  /\ wager' = [wager EXCEPT ![w] =
                 [Moved(@, "accepted_funded")
                    EXCEPT !.graceLeft = OutcomeWindow + Grace]]
  /\ job' = [job EXCEPT ![w] =
       [Cancelled(@, {"offer_expiry"}) EXCEPT
          !["reminder"]    = Scheduled(OutcomeWindow \div 2),
          !["outcome_due"] = Scheduled(OutcomeWindow),
          !["grace"]       = Scheduled(OutcomeWindow + Grace)]]

(* settle_wager, on the record r the operation has built so far: the       *)
(* escrow is paid out whole, to the winner or back to both.                *)
Settle(w, r, result, authority) ==
  LET a == r.terms
      s == r.stake
  IN
  /\ escrow' = escrow - 2 * s
  /\ balance' = [u \in Users |-> balance[u] + Payment(a, s, result, u)]
  /\ wager' = [wager EXCEPT ![w] =
       [Moved(r, IF result = "void" THEN "void_refunded" ELSE "resolved")
          EXCEPT !.winner = IF result = "void" THEN "none" ELSE result,
                 !.authority = authority]]
  /\ job' = [job EXCEPT ![w] =
               Cancelled(@, {"reminder", "outcome_due", "grace"})]
  /\ UNCHANGED opened

(* The wager becomes the owner's to decide: no deadline is left to run.    *)
Dispute(w, r) ==
  /\ wager' = [wager EXCEPT ![w] = Moved(r, "disputed")]
  /\ job' = [job EXCEPT ![w] =
               Cancelled(@, {"reminder", "outcome_due", "grace"})]
  /\ Unmoved

Record(w, r) ==
  /\ wager' = [wager EXCEPT ![w] = r]
  /\ UNCHANGED job
  /\ Unmoved

-----------------------------------------------------------------------------
(* Operations of members *)

CreateDraft(w, u, a) ==
  /\ wager[w].state = "absent"
  /\ a.creator = u
  /\ wager' = [wager EXCEPT ![w] = Drafted(a)]
  /\ job' = [job EXCEPT ![w] = [@ EXCEPT !["draft_expiry"] =
                                  Scheduled(DraftLifetime)]]
  /\ Unmoved /\ UNCHANGED claim

(* The form of a draft is submitted once: its control is used up and the   *)
(* revision moves on.                                                      *)
Preview(w, u, stake) ==
  /\ wager[w].state = "draft"
  /\ wager[w].stake = 0
  /\ u = wager[w].terms.creator
  /\ job[w]["draft_expiry"].wait > 0
  /\ Record(w, [wager[w] EXCEPT !.stake = stake])
  /\ UNCHANGED claim

(* Any action on an overdue draft or offer expires it instead. *)
ExpireOnTouch(w, u) ==
  /\ Overdue(w)
  /\ \/ wager[w].state = "draft" /\ "creator" \in Roles(wager[w].terms, u)
     \/ wager[w].state = "offered" /\ Roles(wager[w].terms, u) \cap Sides # {}
  /\ Close(w, "expired")
  /\ UNCHANGED claim

Confirm(w, u) ==
  /\ Acts(w, u, "creator", {"draft"})
  /\ wager[w].stake # 0
  /\ wager' = [wager EXCEPT ![w] =
                 [Moved(@, "offered") EXCEPT !.offerLeft = OfferLifetime]]
  /\ job' = [job EXCEPT ![w] =
               [Cancelled(@, {"draft_expiry"}) EXCEPT
                  !["offer_expiry"] = Scheduled(OfferLifetime)]]
  /\ Unmoved /\ UNCHANGED claim

Discard(w, u) ==
  /\ Acts(w, u, "creator", {"draft"})
  /\ Close(w, "cancelled")
  /\ UNCHANGED claim

(* The addressee opens the private notice of a sealed offer. *)
Reveal(w) ==
  /\ wager[w].state = "offered"
  /\ wager[w].terms.sealed /\ ~wager[w].revealed
  /\ Record(w, [wager[w] EXCEPT !.revealed = TRUE])
  /\ UNCHANGED claim

(* sealed_offer_delivered *)
TermsSeen(w) == wager[w].terms.sealed => wager[w].revealed

Accept(w, u) ==
  /\ Acts(w, u, "target", {"offered"})
  /\ TermsSeen(w)
  /\ Affordable(wager[w].terms, wager[w].stake)
  /\ Fund(w)
  /\ UNCHANGED claim

Decline(w, u) ==
  /\ Acts(w, u, "target", {"offered"})
  /\ TermsSeen(w)
  /\ Close(w, "declined")
  /\ UNCHANGED claim

Withdraw(w, u) ==
  /\ Acts(w, u, "creator", {"offered"})
  /\ Close(w, "cancelled")
  /\ UNCHANGED claim

RaiseDispute(w, u) ==
  /\ \E side \in Sides :
       Acts(w, u, side, {"accepted_funded", "awaiting_resolution"})
  /\ Dispute(w, wager[w])
  /\ UNCHANGED claim

(* The second consent refunds both stakes. *)
ConsentToVoid(w, u, side) ==
  /\ Acts(w, u, side, Funded)
  /\ LET r == [wager[w] EXCEPT !.voids = @ \cup {side}] IN
     IF r.voids = Sides
     THEN Settle(w, [r EXCEPT !.agreed = side], "void", "mutual")
     ELSE Record(w, r)
  /\ UNCHANGED claim

(* Seeded fault: the member's own outcome is adopted. *)
Adopt_own(w, u, side) ==
  /\ Acts(w, u, side, {"disputed"})
  /\ wager[w].said[side] # "none"
  /\ Settle(w, [wager[w] EXCEPT !.agreed = side], wager[w].said[side],
            "mutual")
  /\ UNCHANGED claim

(* agree: in a dispute, adopt what the other side submitted. *)
Adopt(w, u, side) ==
  /\ Acts(w, u, side, {"disputed"})
  /\ wager[w].said[Other(side)] # "none"
  /\ Settle(w, [wager[w] EXCEPT !.agreed = side], wager[w].said[Other(side)],
            "mutual")
  /\ UNCHANGED claim

(* submit_outcome: the first outcome of an undisputed wager makes it await *)
(* resolution; two equal outcomes settle it; two different ones dispute it *)
(* unless it is disputed already.                                          *)
SubmitOutcome(w, u, side, winner) ==
  /\ Acts(w, u, side, Funded)
  /\ wager[w].terms.policy = "mutual" \/ wager[w].state = "disputed"
  /\ wager[w].said[side] = "none"
  /\ LET r == [wager[w] EXCEPT
                 !.said[side] = winner,
                 !.state = IF @ = "accepted_funded"
                           THEN "awaiting_resolution" ELSE @]
         other == r.said[Other(side)]
     IN
     \/ /\ other = winner
        /\ Settle(w, [r EXCEPT !.agreed = side], winner, "mutual")
     \/ /\ other \notin {"none", winner}
        /\ r.state # "disputed"
        /\ Dispute(w, r)
     \/ /\ \/ other = "none"
           \/ other # winner /\ r.state = "disputed"
        /\ Record(w, r)
  /\ UNCHANGED claim

JudgeMay(w, u) ==
  /\ "judge" \in Roles(wager[w].terms, u)
  /\ wager[w].terms.policy = "designated"
  /\ wager[w].graceLeft > 0
  /\ wager[w].state \in {"accepted_funded", "awaiting_resolution"}

OwnerMay(w, u) == u = Owner /\ wager[w].state = "disputed"

(* judge: the designated judge until the grace period ends or a dispute,   *)
(* the server's owner once disputed.                                       *)
Judge(w, u, result) ==
  /\ \/ JudgeMay(w, u) /\ Settle(w, wager[w], result, "judge")
     \/ OwnerMay(w, u) /\ Settle(w, wager[w], result, "owner")
  /\ UNCHANGED claim

-----------------------------------------------------------------------------
(* The scheduler *)

(* apply_deadline: the wager and its jobs once phase p is applied, nothing *)
(* changed when the wager has moved on.                                    *)
Applied(w, p) ==
  LET r == wager[w]
      waiting == {"accepted_funded", "awaiting_resolution"}
      To(record, phases) ==
        [wager |-> record, jobs |-> Cancelled(job[w], phases)]
  IN
  IF \/ p = "draft_expiry" /\ r.state = "draft"
     \/ p = "offer_expiry" /\ r.state = "offered"
    THEN To(Moved(r, "expired"), {"draft_expiry", "offer_expiry"}) ELSE
  IF p = "reminder" /\ r.state \in waiting
    THEN [wager |-> [r EXCEPT !.reminded = TRUE], jobs |-> job[w]] ELSE
  IF p = "outcome_due" /\ r.state = "accepted_funded"
    THEN To([r EXCEPT !.state = "awaiting_resolution"], {"reminder"}) ELSE
  IF p = "grace" /\ r.state \in waiting
    THEN To(Moved(r, "disputed"), {"reminder", "outcome_due"})
    ELSE [wager |-> r, jobs |-> job[w]]

(* The reminder's audit action is unique: applying it twice is refused. *)
Applicable(w, p) ==
  ~(/\ p = "reminder" /\ wager[w].reminded
    /\ wager[w].state \in {"accepted_funded", "awaiting_resolution"})

(* Seeded fault: a claim whose lease ran out is never taken over.          *)
Due_pending(j) == j.state = "pending" /\ j.wait = 0

Due(j) ==
  \/ j.state = "pending" /\ j.wait = 0
  \/ j.state = "claimed" /\ j.lease = 0

(* Seeded fault: a job without attempts left is claimed once more.         *)
Claimable_exhausted(j) == Due(j)

Claimable(j) == Due(j) /\ j.attempts < MaxAttempts

Exhausted(j) == Due(j) /\ j.attempts >= MaxAttempts

Dead(j) == [j EXCEPT !.state = "dead", !.holder = Nobody, !.lease = 0]

(* claim_due_job first gives up what has no attempt left. *)
Swept(j) == IF Exhausted(j) THEN Dead(j) ELSE j

Claim(k) ==
  /\ claim[k] = Idle
  /\ \E w \in WagerIds, p \in Phases :
       /\ Claimable(job[w][p])
       /\ job' = [v \in WagerIds |-> [q \in Phases |->
                    IF v = w /\ q = p
                    THEN [job[w][p] EXCEPT !.state = "claimed",
                            !.attempts = @ + 1, !.holder = k,
                            !.lease = JobLease]
                    ELSE Swept(job[v][q])]]
       /\ claim' = [claim EXCEPT ![k] =
                      [wager |-> w, phase |-> p,
                       attempts |-> job[w][p].attempts + 1]]
  /\ UNCHANGED wager /\ Unmoved

(* A claim call that finds nothing to run but gives up exhausted jobs. *)
Sweep(k) ==
  /\ claim[k] = Idle
  /\ \E w \in WagerIds, p \in Phases : Exhausted(job[w][p])
  /\ \A w \in WagerIds, p \in Phases : ~Claimable(job[w][p])
  /\ job' = [w \in WagerIds |-> [p \in Phases |-> Swept(job[w][p])]]
  /\ UNCHANGED <<wager, claim>> /\ Unmoved

(* The worker's owner and token are still those of the claimed row. *)
Holds(k) ==
  /\ claim[k] # Idle
  /\ job[claim[k].wager][claim[k].phase].state = "claimed"
  /\ job[claim[k].wager][claim[k].phase].holder = k

Drop(k) == claim' = [claim EXCEPT ![k] = Idle]

(* handle_deadline: the deadline and the completion of the claim commit    *)
(* together; without the claim the whole transaction is rolled back.       *)
FireDeadline(k) ==
  /\ Holds(k)
  /\ LET w == claim[k].wager
         p == claim[k].phase
     IN
     /\ Applicable(w, p)
     /\ wager' = [wager EXCEPT ![w] = Applied(w, p).wager]
     /\ job' = [job EXCEPT ![w] =
          [Applied(w, p).jobs EXCEPT
             ![p] = Ended]]
  /\ Drop(k) /\ Unmoved

(* Seeded fault: the last attempt but one is taken for the last.           *)
CanRetry_early(attempts) == attempts + 1 < MaxAttempts

CanRetry(attempts) == attempts < MaxAttempts

Retried(j) ==
  [j EXCEPT !.state = "pending", !.wait = RetryDelay, !.holder = Nobody,
            !.lease = 0]

(* The handler throws and fail_job returns the job for a retry, or gives   *)
(* it up at its last attempt; with a stale claim fail_job changes nothing. *)
HandlerThrows(k) ==
  /\ claim[k] # Idle
  /\ LET w == claim[k].wager
         p == claim[k].phase
     IN
     job' = IF ~Holds(k) THEN job ELSE
       [job EXCEPT ![w][p] =
          IF CanRetry(claim[k].attempts) THEN Retried(@) ELSE Dead(@)]
  /\ Drop(k)
  /\ UNCHANGED wager /\ Unmoved

(* A stop requested right after the claim hands the job back uncounted. *)
Uncounted(j) ==
  [j EXCEPT !.state = "pending", !.attempts = @ - 1, !.holder = Nobody,
            !.lease = 0]

ReleaseClaim(k) ==
  /\ claim[k] # Idle
  /\ job' = IF ~Holds(k) THEN job ELSE
       [job EXCEPT ![claim[k].wager][claim[k].phase] = Uncounted(@)]
  /\ Drop(k)
  /\ UNCHANGED wager /\ Unmoved

(* The process ends; the rows keep their claims until the leases run out. *)
Crash ==
  /\ \E k \in Workers : claim[k] # Idle
  /\ claim' = [k \in Workers |-> Idle]
  /\ UNCHANGED <<wager, job>> /\ Unmoved

(* force_test_deadline: the owner applies a phase of a self-test at once.  *)
ForceDeadline(w, u, p) ==
  /\ u = Owner
  /\ wager[w].state # "absent" /\ wager[w].terms.test
  /\ \/ /\ p # "reminder" \/ ~wager[w].reminded
        /\ wager' = [wager EXCEPT ![w] = Applied(w, p).wager]
        /\ job' = [job EXCEPT ![w] =
             IF p = "reminder" /\ Applied(w, p).wager.reminded
             THEN Cancelled(Applied(w, p).jobs, {"reminder"})
             ELSE Applied(w, p).jobs]
     \/ /\ p = "reminder" /\ wager[w].reminded
        /\ job' = [job EXCEPT ![w] = Cancelled(@, {"reminder"})]
        /\ UNCHANGED wager
  /\ Unmoved /\ UNCHANGED claim

(* cleanup_test_wager: the transfers of a closed self-test are reversed,   *)
(* newest first.  They cancel out, but the first reversal must not         *)
(* overdraw the account.                                                   *)
CleanUp(w, u) ==
  /\ u = Owner
  /\ wager[w].terms.test /\ ~wager[w].cleaned
  /\ wager[w].state \in Paid
  /\ balance[u] >= 2 * wager[w].stake
  /\ Record(w, [wager[w] EXCEPT !.cleaned = TRUE])
  /\ UNCHANGED claim

-----------------------------------------------------------------------------
(* Time *)

Earlier(n) == IF n = 0 THEN 0 ELSE n - 1

Tick ==
  /\ \/ \E w \in WagerIds :
          wager[w].draftLeft + wager[w].offerLeft + wager[w].graceLeft > 0
     \/ \E w \in WagerIds, p \in Phases : job[w][p].wait + job[w][p].lease > 0
  /\ wager' = [w \in WagerIds |->
       [wager[w] EXCEPT !.draftLeft = Earlier(@), !.offerLeft = Earlier(@),
                        !.graceLeft = Earlier(@)]]
  /\ job' = [w \in WagerIds |-> [p \in Phases |->
       [job[w][p] EXCEPT !.wait = Earlier(@), !.lease = Earlier(@)]]]
  /\ Unmoved /\ UNCHANGED claim

-----------------------------------------------------------------------------
MemberStep(w, u) ==
  \/ \E a \in Agreements : CreateDraft(w, u, a)
  \/ \E s \in Stakes : Preview(w, u, s)
  \/ ExpireOnTouch(w, u)
  \/ Confirm(w, u)
  \/ Discard(w, u)
  \/ Accept(w, u)
  \/ Decline(w, u)
  \/ Withdraw(w, u)
  \/ RaiseDispute(w, u)
  \/ \E side \in Sides : ConsentToVoid(w, u, side)
  \/ \E side \in Sides : Adopt(w, u, side)
  \/ \E side, winner \in Sides : SubmitOutcome(w, u, side, winner)
  \/ \E result \in Sides \cup {"void"} : Judge(w, u, result)
  \/ \E p \in Phases : ForceDeadline(w, u, p)
  \/ CleanUp(w, u)

SchedulerStep(k) ==
  \/ Claim(k)
  \/ Sweep(k)
  \/ FireDeadline(k)
  \/ HandlerThrows(k)
  \/ ReleaseClaim(k)

Next ==
  \/ \E w \in WagerIds, u \in Users : MemberStep(w, u)
  \/ \E w \in WagerIds : Reveal(w)
  \/ \E k \in Workers : SchedulerStep(k)
  \/ Crash
  \/ Tick

(* Time passes; the poller keeps submitting claims; a handler returns or   *)
(* throws, and is not interrupted by a stop after every one of its claims. *)
Fairness ==
  /\ WF_vars(Tick)
  /\ \A k \in Workers : /\ WF_vars(Claim(k) \/ Sweep(k))
                        /\ SF_vars(FireDeadline(k) \/ HandlerThrows(k))
                        /\ SF_vars(FireDeadline(k))

Spec == Init /\ [][Next]_vars /\ Fairness

-----------------------------------------------------------------------------
(* Properties *)

(* Column types and CHECK constraints of the wager, ledger and job rows.   *)
TypeOK ==
  /\ wager \in [WagerIds -> WagerRecord]
  /\ opened \subseteq Users
  /\ balance \in [Users -> Nat]
  /\ escrow \in Int
  /\ job \in [WagerIds -> [Phases -> JobRecord]]
  /\ claim \in [Workers -> Claims \cup {Idle}]

(* The ledger agrees with the wagers: nobody owes Fate, ESCROW holds both  *)
(* stakes of every funded wager that is still open and nothing else, and   *)
(* all Fate in accounts and escrow is Fate granted (check_invariants).     *)
StakesAreBacked ==
  /\ \A u \in Users : balance[u] >= 0
  /\ escrow = SumFunctionOnSet(
       [w \in WagerIds |->
          IF wager[w].state \in Funded THEN 2 * wager[w].stake ELSE 0],
       WagerIds)
  /\ SumFunctionOnSet(balance, Users) + escrow
       = StartingFate * Cardinality(opened)

(* Nobody loses a stake without a decision they are bound by: a mutual     *)
(* result was conceded by the loser, who named the winner or adopted the   *)
(* winner's outcome; a mutual refund has both consents; a judge decides    *)
(* designated wagers only.                                                 *)
ResultHasAuthority ==
  \A w \in WagerIds : wager[w].state \in Paid =>
    LET r == wager[w]
        loser == Other(r.winner)
    IN
    /\ r.authority # "none"
    /\ r.authority = "judge" => r.terms.policy = "designated"
    /\ r.authority = "mutual" =>
         IF r.state = "void_refunded" THEN r.voids = Sides
         ELSE \/ r.said[loser] = r.winner
              \/ r.agreed = loser /\ r.said[r.winner] = r.winner

(* The deadline job that moves a wager out of each waiting state. *)
DeadlineOf ==
  [state \in {"draft", "offered", "accepted_funded", "awaiting_resolution"} |->
     IF state = "draft" THEN "draft_expiry" ELSE
     IF state = "offered" THEN "offer_expiry" ELSE "grace"]

(* A waiting wager is never left without the job that ends the wait: it is *)
(* pending or claimed, unless every attempt at it was used up.             *)
NeverStranded ==
  \A w \in WagerIds : wager[w].state \in DOMAIN DeadlineOf =>
    LET j == job[w][DeadlineOf[wager[w].state]] IN
    \/ j.state \in {"pending", "claimed"}
    \/ j.state = "dead" /\ j.attempts = MaxAttempts

(* No step runs ahead of a deadline or past it: an offer expires and the   *)
(* grace period ends no earlier than stored (a self-test may be forced),   *)
(* an offer is accepted and a judge decides no later.                      *)
DeadlinesHold ==
  [][\A w \in WagerIds :
       LET r == wager[w]
           q == wager'[w]
           Moves(from, to) == r.state = from /\ q.state = to
       IN
       /\ Moves("offered", "expired") => r.offerLeft = 0 \/ r.terms.test
       /\ Moves("offered", "accepted_funded") => r.offerLeft > 0
       /\ Moves("draft", "expired") => r.draftLeft = 0 \/ r.terms.test
       /\ r.authority = "none" /\ q.authority = "judge" => r.graceLeft > 0]_vars

(* create_draft gives a draft an expiry; it is not confirmed after it.     *)
DraftExpiryHolds ==
  [][\A w \in WagerIds :
       wager[w].state = "draft" /\ wager'[w].state = "offered"
         => wager[w].draftLeft > 0]_vars

(* A wager never waits for ever: every draft, offer and funded wager is    *)
(* closed or becomes the owner's to decide, unless the job that should do  *)
(* it died.                                                                *)
Escalates ==
  \A w \in WagerIds :
    wager[w].state \in DOMAIN DeadlineOf
      ~> \/ wager[w].state \notin DOMAIN DeadlineOf
         \/ job[w][DeadlineOf[wager[w].state]].state = "dead"

PotOf(r) ==
  IF r.state \in Funded \cup Paid
  THEN [state |-> IF r.state \in Funded THEN "held" ELSE
                  IF r.state = "resolved" THEN "won" ELSE "returned",
        first |-> r.terms.creator, second |-> r.terms.target,
        stake |-> r.stake]
  ELSE [state |-> "empty"]

Pot == INSTANCE Pots
         WITH PotIds <- WagerIds, pot <- [w \in WagerIds |-> PotOf(wager[w])]

(* Each wager is a pot of two equal stakes, collected from members who can *)
(* afford them and handed out whole once.                                  *)
ImplementsPots == Pot!Spec
=============================================================================
