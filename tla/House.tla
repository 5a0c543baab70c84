------------------------------- MODULE House -------------------------------
(***************************************************************************)
(* The Tarot House: wagers a member plays against the bank, settled by a   *)
(* Tarot draw, by the owner or by a deadline; the weekly offer with its    *)
(* public card, reminder and expiry; and the draws themselves.             *)
(*                                                                         *)
(* Every repository operation is one immediate transaction under the       *)
(* connection mutex and so one step.  The instant it works with was read   *)
(* before the mutex was taken; for a draw and a decision of the owner,     *)
(* where a deadline may pass in between, it may be up to Lag old: `lag`    *)
(* below.  A draw commits first and is reported to the House afterwards; a *)
(* crash or an error in between loses the report.                          *)
(*                                                                         *)
(* Instants are distances from now, counted down by Tick to a floor below  *)
(* which no comparison can tell them apart.                                *)
(***************************************************************************)
EXTENDS Integers, FiniteSets, FiniteSetsExt

CONSTANTS
  Users, Owner,      \* human members; the owner of the guild
  TestMode,          \* owner test mode: what the owner plays is a test
  Bets,              \* interactions that play, and the wagers they make
  Offers, NoOffer,   \* the slots and test commands that make an offer
  Templates,         \* slugs of the catalogue
  Authority,         \* Authority[t]: "draw", "public_draw" or "owner"
  Recovers,          \* the templates that only help the poor
  Offered,         \* the templates played through a weekly offer
  Stake,             \* Stake[t]: the stake of a play
  Profit,            \* Profit[t][c]: profit of choice c; DOMAIN: the choices
  EligibleBelow,     \* eligibility_balance_below, 0 for no limit
  Window, Cooldown,  \* outcome_window_ms, terminal_cooldown_ms of a template
  DrawCooldown,      \* draw_cooldown_ms
  ExposureCap,       \* exposure_cap
  Opening,           \* a member's balance at the start
  OfferLife,         \* from the slot to closes_at_ms
  ReminderAt,        \* from the slot to the reminder
  ResolveFor,        \* from closes_at_ms to resolution_due_at_ms
  MissedAfter,       \* the 15 minutes after which a slot counts as missed
  Week,              \* from a slot to the next
  MaxAttempts,       \* attempts of a job
  Lag,               \* greatest age of an operation's instant
  Faults             \* bound: crashes and failed attempts of jobs

CONSTANT Weekly      \* the weekly job

(***************************************************************************)
(* The jobs are different rows, and tables hold finitely many.  The        *)
(* catalogue is pinned: the owner decides only what is played through an   *)
(* offer, and what helps the poor takes no stake and is decided by a draw; *)
(* the parser wants some choices, whose profits are not negative.          *)
(***************************************************************************)
ASSUME HouseAssumption ==
  /\ NoOffer \notin Offers /\ Weekly \notin Bets /\ Bets \cap Offers = {}
  /\ Authority \in [Templates -> {"draw", "public_draw", "owner"}]
  /\ \A t \in Templates : Authority[t] = "owner" => t \in Offered \ Recovers
  /\ Window \in [Templates -> Nat] /\ Cooldown \in [Templates -> Nat]
  /\ {OfferLife, ResolveFor, MissedAfter, Week, Lag} \subseteq Nat
  /\ IsFiniteSet(Users) /\ IsFiniteSet(Bets) /\ IsFiniteSet(Offers)
  /\ Offered \subseteq Templates /\ Offered # {}
  /\ Stake \in [Templates -> Nat] /\ \A t \in Templates \cap Recovers : Stake[t] = 0
  /\ \A t \in Templates : /\ Profit[t] \in [DOMAIN Profit[t] -> Nat]
                          /\ IsFiniteSet(DOMAIN Profit[t]) /\ DOMAIN Profit[t] # {}
  /\ {ExposureCap, DrawCooldown, MaxAttempts, Faults} \subseteq Nat

Jobs     == Bets \cup Offers \cup {Weekly}
Accounts == Users \cup {"MINT", "BURN", "HOUSE", "ESCROW"}
ChoiceSlugs  == UNION {DOMAIN Profit[t] : t \in Templates}

VARIABLES
  fate,       \* balance of every account of the ledger
  bets,       \* tarot_house_wager
  drawCool,   \* countdown of a member's last draw cooldown
  observing,  \* reports of committed draws on their way to the House:
              \* for each, the wagers it qualified for
  offer,      \* tarot_house_offer
  control,    \* tarot_house_control of the offer: "none", "active", "cancelled"
  row,        \* outbox rows of the offer: "create" and "reminder"
  edited,     \* offers whose terminal edit is linked to the card
  weekly,     \* the slot the weekly job stands at, and its countdown
  job,        \* scheduled_job
  run         \* [up, enabled, faults] of the process

betVars   == <<bets, drawCool, observing>>
offerVars == <<offer, control, row, edited, weekly>>
vars      == <<fate, betVars, offerVars, job, run>>

Down(x, floor) == IF x > floor THEN x - 1 ELSE floor
Tested(u)      == TestMode /\ u = Owner

NoBet == [state |-> "none", template |-> "none", user |-> "none",
          choice |-> "none", due |-> 0, drawn |-> FALSE, result |-> "none",
          cause |-> "none", cool |-> 0, cleaned |-> FALSE, offer |-> NoOffer]
NoJob  == [state |-> "none", attempts |-> 0]
(* Seeded fault: a job is recorded and never scheduled. *)
NewJob_idle == NoJob
NewJob == [state |-> "pending", attempts |-> 0]

ProfitOf(b) == Profit[b.template][b.choice]
PotOf(b)    == Stake[b.template] + ProfitOf(b)
IsOpen(w)   == bets[w].state = "open"

(* maximum_profit: what a weekly offer reserves. *)
MaxProfit(t) == Max({Profit[t][c] : c \in DOMAIN Profit[t]})

(* The one scheduled template of the catalogue. *)
OfferTemplate == CHOOSE t \in Offered : TRUE

(***************************************************************************)
(* The ledger.  An effect is what a sealed transaction adds to each        *)
(* account; the seal refuses one that leaves a member below zero.          *)
(***************************************************************************)
Effect(changed) == [a \in Accounts |-> IF a \in DOMAIN changed THEN changed[a]
                                                               ELSE 0]
Plus(f, e)      == [a \in Accounts |-> f[a] + e[a]]
Less(f, e)      == [a \in Accounts |-> f[a] - e[a]]

FundEffect(b) ==
  [a \in Accounts |->
     IF a = "ESCROW" THEN PotOf(b)
     ELSE IF b.template \in Recovers
          THEN IF a = "MINT" THEN -ProfitOf(b) ELSE 0
          ELSE IF a = b.user THEN -Stake[b.template]
          ELSE IF a = "HOUSE" THEN -ProfitOf(b) ELSE 0]

PayEffect(b, result) ==
  [a \in Accounts |->
     IF a = "ESCROW" THEN -PotOf(b)
     ELSE CASE result = "win"  -> IF a = b.user THEN PotOf(b) ELSE 0
            [] result = "loss" -> IF a = "HOUSE" THEN PotOf(b) ELSE 0
            [] result = "void" ->
                 IF b.template \in Recovers
                 THEN IF a = "MINT" THEN PotOf(b) ELSE 0
                 ELSE IF a = b.user THEN Stake[b.template]
                 ELSE IF a = "HOUSE" THEN ProfitOf(b) ELSE 0]

(* settle_uncommitted: only an open wager is settled, once.  Its deadline  *)
(* job is left alone; the handler finds the wager settled.                 *)
SettledBet(b, result, cause) ==
  [b EXCEPT !.state = "settled", !.result = result, !.cause = cause,
            !.cool = Cooldown[b.template]]

Settle(S, result(_), cause(_)) ==
  LET live == {w \in S : IsOpen(w)} IN
  /\ bets' = [w \in Bets |-> IF w \in live
                THEN SettledBet(bets[w], result(w), cause(w)) ELSE bets[w]]
  /\ fate' = FoldSet(LAMBDA w, f : Plus(f, PayEffect(bets[w], result(w))),
                     fate, live)

(* observed_draw_outcome and deadline_outcome. *)
DrawOutcome(w) ==
  IF Authority[bets[w].template] = "public_draw" /\ bets[w].choice = "no"
  THEN "loss" ELSE "win"

(* Seeded fault: the deadline overlooks a draw that is on record. *)
DeadlineOutcome_blind(w) ==
  LET b == bets[w] IN
  IF b.template \in Recovers \/ Authority[b.template] = "owner" THEN "void"
  ELSE IF Authority[b.template] = "public_draw" /\ b.choice = "no" THEN "win"
  ELSE "loss"

DeadlineOutcome(w) ==
  LET b == bets[w] IN
  IF b.drawn THEN DrawOutcome(w)
  ELSE IF b.template \in Recovers \/ Authority[b.template] = "owner" THEN "void"
  ELSE IF Authority[b.template] = "public_draw" /\ b.choice = "no" THEN "win"
  ELSE "loss"

DeadlineCause(w) == IF bets[w].drawn THEN "draw" ELSE "deadline"
DrawCause(w)     == "draw"

(***************************************************************************)
(* play                                                                    *)
(***************************************************************************)
Exposure(test) ==
  MapThenSumSet(LAMBDA w : ProfitOf(bets[w]),
                {w \in Bets : /\ IsOpen(w) /\ Tested(bets[w].user) = test
                              /\ bets[w].template \notin Recovers})
  + MapThenSumSet(LAMBDA o : offer[o].reserved,
                  {o \in Offers : offer[o].state = "open" /\ offer[o].test = test})

(* An offer can be taken while it is open, shown and inside its window. *)
Takeable(o, u) ==
  /\ offer[o].state = "open" /\ offer[o].test = Tested(u)
  /\ row[o]["create"] = "delivered"
  /\ offer[o].left > 0

(* Seeded fault: the exposure of open wagers is not looked at again. *)
Refused_exposed(u, t, c, o) ==
  \/ t \in Offered /\ ~Takeable(o, u)
  \/ EligibleBelow[t] > 0 /\ fate[u] >= EligibleBelow[t]
  \/ \E w \in Bets : /\ bets[w].user = u /\ bets[w].template = t
                     /\ \/ bets[w].state = "open"
                        \/ bets[w].state = "settled" /\ bets[w].cool > 0
  \/ fate[u] < Stake[t]
  \/ /\ t \notin Recovers
     /\ ~(t \in Offered) /\ Profit[t][c] > ExposureCap

(* The refusals.  Each saves a receipt under the interaction, which is     *)
(* then refused for good and no longer one of Bets.                        *)
Refused(u, t, c, o) ==
  \/ t \in Offered /\ ~Takeable(o, u)
  \/ EligibleBelow[t] > 0 /\ fate[u] >= EligibleBelow[t]
  \/ \E w \in Bets : /\ bets[w].user = u /\ bets[w].template = t
                     /\ \/ bets[w].state = "open"
                        \/ bets[w].state = "settled" /\ bets[w].cool > 0
  \/ /\ ~Tested(u) /\ Authority[t] = "draw"
     /\ drawCool[u] > 0 /\ drawCool[u] >= Window[t]
  \/ fate[u] < Stake[t]
  \/ /\ t \notin Recovers
     /\ Exposure(Tested(u)) - (IF t \in Offered THEN offer[o].reserved ELSE 0)
          > ExposureCap - Profit[t][c]

(* A row is "again" when it is claimed after a submission without an       *)
(* answer.  retire_public_offer_card: a card that was never handed to      *)
(* Discord is withdrawn, one that was is edited.                           *)
Withdrawable == {"pending", "claimed", "retry", "again"}

(* Seeded fault: a reminder a worker has claimed is left to it. *)
Cancelled_pending(state) == IF state \in {"pending", "retry"} THEN "gone" ELSE state

Cancelled(state) == IF state \in Withdrawable THEN "gone" ELSE state

RetiredRows(o) == [row EXCEPT ![o]["create"] = Cancelled(@),
                              ![o]["reminder"] = Cancelled(@)]

NowEdited(o) == IF row[o]["create"] \in {"delivered", "submitted"}
                THEN edited \cup {o} ELSE edited

CloseOffer(o) ==
  /\ offer' = [offer EXCEPT ![o].state = "closed", ![o].reserved = 0]
  /\ control' = [control EXCEPT ![o] = "cancelled"]
  /\ row' = RetiredRows(o)
  /\ edited' = NowEdited(o)

(* A wager is funded, its deadline scheduled and, when it takes an offer,  *)
(* the offer is closed with its card, control, reminder and expiry.        *)
Play(w, u, t, c, o) ==
  LET due == IF t \in Offered THEN offer[o].left + ResolveFor
                                ELSE Window[t]
      b   == [NoBet EXCEPT !.state = "open", !.template = t, !.user = u,
                           !.choice = c, !.due = due,
                           !.offer = IF t \in Offered THEN o ELSE NoOffer]
  IN
  /\ run.up /\ run.enabled /\ bets[w].state = "none"
  /\ ~Refused(u, t, c, o)
  /\ bets' = [bets EXCEPT ![w] = b]
  /\ fate' = Plus(fate, FundEffect(b))
  /\ IF t \in Offered
     THEN /\ CloseOffer(o)
          /\ job' = [job EXCEPT ![w] = NewJob,
                       ![o].state = IF @ \in {"pending", "claimed", "lapsed"}
                                    THEN "cancelled" ELSE @]
     ELSE /\ UNCHANGED <<offer, control, row, edited>>
          /\ job' = [job EXCEPT ![w] = NewJob]
  /\ UNCHANGED <<drawCool, observing, weekly, run>>

PlayChoices(t) == IF t \in Offered THEN Offers ELSE {NoOffer}

(***************************************************************************)
(* Draws, and what the House makes of them.                                *)
(***************************************************************************)
Qualifies(w, u, public, test, lag) ==
  LET b == bets[w] IN
  /\ b.state = "open" /\ Tested(b.user) = test
  /\ b.due + lag >= 0
  /\ \/ Authority[b.template] = "draw" /\ b.user = u
     \/ Authority[b.template] = "public_draw" /\ b.user # u /\ public

(* TarotDrawService::draw; draw-test bypasses the cooldown and is a test. *)
Draw(u, public, test, lag) ==
  LET hit == {w \in Bets : Qualifies(w, u, public, test, lag)} IN
  /\ run.up
  /\ test => Tested(u)
  /\ ~test => drawCool[u] = 0
  /\ drawCool' = IF test THEN drawCool
                 ELSE [drawCool EXCEPT ![u] = DrawCooldown]
  /\ bets' = [w \in Bets |-> IF w \in hit THEN [bets[w] EXCEPT !.drawn = TRUE]
                                          ELSE bets[w]]
  /\ observing' = observing \cup ({hit} \ {{}})
  /\ UNCHANGED <<fate, offerVars, job, run>>

(* observe_draw: everything a draw qualified for and that is still open is *)
(* settled in one transaction.                                             *)
ObserveDraw(hit) ==
  /\ run.up /\ hit \in observing
  /\ observing' = observing \ {hit}
  /\ Settle(hit, DrawOutcome, DrawCause)
  /\ UNCHANGED <<drawCool, offerVars, job, run>>

(* The observer is noexcept and swallows a failure of the repository. *)
ObserveFails(hit) ==
  /\ run.up /\ hit \in observing
  /\ observing' = observing \ {hit}
  /\ UNCHANGED <<fate, bets, drawCool, offerVars, job, run>>

(* reconcile_draws, a consumer of the orchestrator: at most 50 wagers, and *)
(* there are fewer here.                                                   *)
ReconcileDraws ==
  /\ run.up /\ \E w \in Bets : IsOpen(w) /\ bets[w].drawn
  /\ Settle({w \in Bets : bets[w].drawn}, DrawOutcome, DrawCause)
  /\ UNCHANGED <<drawCool, observing, offerVars, job, run>>

(* resolve_due, the owner's test command: due wagers of the test namespace. *)
ResolveDue ==
  LET due == {w \in Bets : bets[w].due <= 0 /\ Tested(bets[w].user)} IN
  /\ run.up /\ TestMode /\ \E w \in due : IsOpen(w)
  /\ Settle(due, DeadlineOutcome, DeadlineCause)
  /\ UNCHANGED <<drawCool, observing, offerVars, job, run>>

(* resolve: the owner decides a wager on an offer, within its window. *)
OwnerMay(w, outcome, lag) ==
  LET b == bets[w] IN
  /\ Authority[b.template] = "owner"
  /\ Tested(b.user) => TestMode
  /\ b.due + lag >= 0
  /\ \/ outcome = "void" \/ Tested(b.user)
     \/ offer[b.offer].left + lag <= 0

ResolveOwner(w, outcome, lag) ==
  /\ run.up /\ IsOpen(w) /\ OwnerMay(w, outcome, lag)
  /\ Settle({w},
            LAMBDA x : IF outcome = "void" THEN "void"
                       ELSE IF bets[x].choice = outcome THEN "win" ELSE "loss",
            LAMBDA x : "owner")
  /\ UNCHANGED <<drawCool, observing, offerVars, job, run>>

(* Seeded fault: only the payout is reversed. *)
CleanupTest_half(w) ==
  LET b    == bets[w]
      paid == PayEffect(b, b.result)
      mid  == Less(fate, paid)
  IN
  /\ run.up /\ b.state = "settled" /\ Tested(b.user) /\ ~b.cleaned
  /\ mid[b.user] >= 0
  /\ fate' = mid
  /\ bets' = [bets EXCEPT ![w].cleaned = TRUE]
  /\ UNCHANGED <<drawCool, observing, offerVars, job, run>>

(* cleanup_test_wager: the payout is reversed first, then the funding, and *)
(* each reversal must leave the member solvent.                            *)
CleanupTest(w) ==
  LET b    == bets[w]
      paid == PayEffect(b, b.result)
      mid  == Less(fate, paid)
  IN
  /\ run.up /\ b.state = "settled" /\ Tested(b.user) /\ ~b.cleaned
  /\ mid[b.user] >= 0
  /\ fate' = Less(mid, FundEffect(b))
  /\ bets' = [bets EXCEPT ![w].cleaned = TRUE]
  /\ UNCHANGED <<drawCool, observing, offerVars, job, run>>

(***************************************************************************)
(* Jobs.  A claim is held by one handler of this process; it lapses when   *)
(* the process dies.                                                       *)
(***************************************************************************)
Due(j) == \/ j \in Bets /\ bets[j].due <= 0
          \/ j \in Offers /\ offer[j].left <= 0
          \/ j = Weekly /\ weekly.due <= 0 /\ weekly.slot # NoOffer

(* Seeded fault: a claim does not count as an attempt. *)
ClaimJob_uncounted(j) ==
  /\ run.up /\ Due(j)
  /\ job[j].state \in {"pending", "lapsed"}
  /\ job' = [job EXCEPT ![j].state = "claimed"]
  /\ UNCHANGED <<fate, betVars, offerVars, run>>

(* The claim, or its refusal for good when the attempts are used up. *)
ClaimJob(j) ==
  /\ run.up /\ Due(j)
  /\ job[j].state \in {"pending", "lapsed"}
  /\ job' = [job EXCEPT ![j] =
               IF @.attempts >= MaxAttempts THEN [@ EXCEPT !.state = "dead"]
               ELSE [state |-> "claimed", attempts |-> @.attempts + 1]]
  /\ UNCHANGED <<fate, betVars, offerVars, run>>

(* A handler that throws: fail_job with a retry. *)
FailJob(j) ==
  /\ run.up /\ job[j].state = "claimed" /\ run.faults < Faults
  /\ job' = [job EXCEPT ![j].state =
               IF job[j].attempts < MaxAttempts THEN "pending" ELSE "dead"]
  /\ run' = [run EXCEPT !.faults = @ + 1]
  /\ UNCHANGED <<fate, betVars, offerVars>>

HandleDeadline(w) ==
  /\ run.up /\ job[w].state = "claimed"
  /\ Settle({w}, DeadlineOutcome, DeadlineCause)
  /\ job' = [job EXCEPT ![w].state = "completed"]
  /\ UNCHANGED <<drawCool, observing, offerVars, run>>

(* While the House is disabled the expiry is deferred and its attempt      *)
(* given back.                                                             *)
HandleOfferExpiry(o) ==
  /\ run.up /\ job[o].state = "claimed"
  /\ IF ~run.enabled
     THEN /\ job' = [job EXCEPT ![o] = [state |-> "pending",
                                        attempts |-> @.attempts - 1]]
          /\ UNCHANGED <<offer, control, row, edited>>
     ELSE /\ job' = [job EXCEPT ![o].state = "completed"]
          /\ IF offer[o].state = "open" THEN CloseOffer(o)
             ELSE UNCHANGED <<offer, control, row, edited>>
  /\ UNCHANGED <<fate, betVars, weekly, run>>

(* A new offer with its expiry, control, card and reminder. *)
OpenedOffer(test) == [state |-> "open", left |-> OfferLife, test |-> test,
                      reserved |-> MaxProfit(OfferTemplate)]

OpenOffer(o, test, left) ==
  /\ offer' = [offer EXCEPT ![o] = [OpenedOffer(test) EXCEPT !.left = left]]
  /\ control' = [control EXCEPT ![o] = "active"]
  /\ row' = [row EXCEPT ![o]["create"] = "pending", ![o]["reminder"] = "pending"]
  /\ UNCHANGED <<edited, weekly>>

Blocked(test) == Exposure(test) > ExposureCap - MaxProfit(OfferTemplate)

(* The weekly handler first settles the slot, in one transaction; that the *)
(* slot is on record makes a second run of it a replay.                    *)
HandleWeekly(o, operational, quiet) ==
  /\ run.up /\ run.enabled
  /\ job[Weekly].state = "claimed" /\ weekly.slot = o
  /\ offer[o].state = "none"
  /\ IF weekly.due < -MissedAfter \/ ~operational \/ quiet \/ Blocked(FALSE)
     THEN /\ offer' = [offer EXCEPT ![o].state = "skipped"]
          /\ UNCHANGED <<control, row, edited, weekly, job>>
     ELSE /\ OpenOffer(o, FALSE, OfferLife + weekly.due)
          /\ job' = [job EXCEPT ![o] = NewJob]
  /\ UNCHANGED <<fate, betVars, run>>

(* next_house_weekly_offer_ms: a slot nobody has used, while there is one. *)
Unused == {o \in Offers : offer[o].state = "none"} \ {weekly.slot}

NextSlot(o) == /\ o \in Unused \/ (Unused = {} /\ o = NoOffer)
               /\ weekly' = [slot |-> o, due |-> Week + weekly.due]

(* Then, in a second transaction, it moves the job to the next slot; a     *)
(* disabled House only does this.                                          *)
RescheduleWeekly(o) ==
  /\ run.up /\ job[Weekly].state = "claimed"
  /\ run.enabled => offer[weekly.slot].state # "none"
  /\ NextSlot(o)
  /\ job' = [job EXCEPT ![Weekly] = [state |-> "pending",
                                     attempts |-> @.attempts - 1]]
  /\ UNCHANGED <<fate, betVars, offer, control, row, edited, run>>

(* offer_test, the owner's command: an offer of the test namespace now. *)
OfferTest(o, quiet) ==
  /\ run.up /\ TestMode /\ o \in Unused
  /\ IF quiet \/ Blocked(TRUE)
     THEN /\ offer' = [offer EXCEPT ![o].state = "skipped", ![o].test = TRUE]
          /\ UNCHANGED <<control, row, edited, weekly, job>>
     ELSE /\ OpenOffer(o, TRUE, OfferLife)
          /\ job' = [job EXCEPT ![o] = NewJob]
  /\ UNCHANGED <<fate, betVars, run>>

(***************************************************************************)
(* The rows of the offer at the outbox, and the button of its card.        *)
(***************************************************************************)
RowDue(o, k) == k = "create" \/ /\ row[o]["create"] = "delivered"
                                /\ offer[o].left <= OfferLife - ReminderAt

ClaimRow(o, k) ==
  /\ run.up /\ row[o][k] \in {"pending", "retry"} /\ RowDue(o, k)
  /\ row' = [row EXCEPT ![o][k] = IF @ = "retry" THEN "again" ELSE "claimed"]
  /\ UNCHANGED <<fate, betVars, offer, control, edited, weekly, job, run>>

(* begin_outbox_submission: only a claim that still stands is sent. *)
SubmitRow(o, k) ==
  /\ run.up /\ row[o][k] \in {"claimed", "again"}
  /\ row' = [row EXCEPT ![o][k] = "submitted"]
  /\ UNCHANGED <<fate, betVars, offer, control, edited, weekly, job, run>>

(* Delivered, to be tried again, or given up. *)
AnswerRow(o, k, answer) ==
  /\ run.up /\ row[o][k] = "submitted"
  /\ answer = "retry" => run.faults < Faults
  /\ row' = [row EXCEPT ![o][k] = answer]
  /\ run' = IF answer = "retry" THEN [run EXCEPT !.faults = @ + 1] ELSE run
  /\ UNCHANGED <<fate, betVars, offer, control, edited, weekly, job>>

(* claim_due_outbox first closes the offers whose card cannot be shown. *)
CloseUndeliverable(o) ==
  /\ run.up /\ offer[o].state = "open" /\ row[o]["create"] = "gone"
  /\ offer' = [offer EXCEPT ![o].state = "closed", ![o].reserved = 0]
  /\ control' = [control EXCEPT ![o] = "cancelled"]
  /\ row' = [row EXCEPT ![o]["reminder"] =
               IF @ \in {"pending", "retry"} THEN "gone" ELSE @]
  /\ UNCHANGED <<fate, betVars, edited, weekly, job, run>>

(* inspect_control: the button pressed after the offer's time. *)
InspectControl(o) ==
  /\ run.up /\ control[o] = "active" /\ offer[o].left <= 0
  /\ control' = [control EXCEPT ![o] = "cancelled"]
  /\ UNCHANGED <<fate, betVars, offer, row, edited, weekly, job, run>>

(***************************************************************************)
(* The process and time.                                                   *)
(***************************************************************************)
Lapsed(j) == IF j.state = "claimed" THEN [j EXCEPT !.state = "lapsed"] ELSE j

Crash ==
  /\ run.up /\ run.faults < Faults
  /\ run' = [run EXCEPT !.up = FALSE, !.faults = @ + 1]
  /\ observing' = {}
  /\ job' = [j \in Jobs |-> Lapsed(job[j])]
  /\ row' = [o \in Offers |-> [k \in {"create", "reminder"} |->
               IF row[o][k] = "claimed" THEN "pending"
               ELSE IF row[o][k] \in {"submitted", "again"} THEN "retry"
               ELSE row[o][k]]]
  /\ UNCHANGED <<fate, bets, drawCool, offer, control, edited, weekly>>

(* House enabled or not is read from the configuration at a start; an      *)
(* enabled House re-arms a weekly job that has died (ensure_weekly_schedule). *)
Restart(enabled) ==
  /\ ~run.up
  /\ run' = [run EXCEPT !.up = TRUE, !.enabled = enabled]
  /\ IF enabled /\ job[Weekly].state \in {"none", "dead"}
     THEN /\ job' = [job EXCEPT ![Weekly] = NewJob]
          /\ \E o \in Offers \cup {NoOffer} : NextSlot(o)
     ELSE UNCHANGED <<job, weekly>>
  /\ UNCHANGED <<fate, betVars, offer, control, row, edited>>

(* Time passes.  A weekly job stays near its slot while the process is up. *)
DueFloor == -(Lag + 1)

Tick ==
  /\ bets' = [w \in Bets |->
       IF bets[w].state = "open"
       THEN [bets[w] EXCEPT !.due = Down(@, DueFloor)]
       ELSE IF bets[w].state = "settled"
       THEN [bets[w] EXCEPT !.cool = Down(@, 0)]
       ELSE bets[w]]
  /\ drawCool' = [u \in Users |-> Down(drawCool[u], 0)]
  /\ offer' = [o \in Offers |-> IF offer[o].state \in {"open", "closed"}
       THEN [offer[o] EXCEPT !.left = Down(@, -(Lag + 1))] ELSE offer[o]]
  /\ weekly' = [weekly EXCEPT !.due = Down(@, -(MissedAfter + 1))]
  /\ UNCHANGED <<fate, observing, control, row, edited, job, run>>

Ledger0 == [a \in Accounts |-> IF a \in Users THEN Opening ELSE
              IF a = "MINT" THEN -(Opening * Cardinality(Users)) ELSE 0]

HouseInit ==
  /\ bets = [w \in Bets |-> NoBet]
  /\ drawCool = [u \in Users |-> 0]
  /\ observing = {}
  /\ offer = [o \in Offers |-> [state |-> "none", left |-> 0, test |-> FALSE,
                                reserved |-> 0]]
  /\ control = [o \in Offers |-> "none"]
  /\ row = [o \in Offers |-> [k \in {"create", "reminder"} |-> "none"]]
  /\ edited = {}
  /\ weekly \in [slot : Offers \cup {NoOffer}, due : {1}]
  /\ job = [j \in Jobs |-> IF j = Weekly /\ weekly.slot # NoOffer THEN NewJob ELSE NoJob]
  /\ run = [up |-> TRUE, enabled |-> TRUE, faults |-> 0]

Init == HouseInit /\ fate = Ledger0

Stamps == 0 .. Lag

PlayStep == \E w \in Bets, u \in Users, t \in Templates :
              \E c \in DOMAIN Profit[t], o \in PlayChoices(t) :
                Play(w, u, t, c, o)

DrawStep == \/ \E u \in Users, public \in BOOLEAN, test \in BOOLEAN, lag \in Stamps :
                 Draw(u, public, test, lag)
            \/ \E hit \in observing : ObserveDraw(hit) \/ ObserveFails(hit)
            \/ ReconcileDraws

SettleStep == \/ ResolveDue
              \/ \E w \in Bets : HandleDeadline(w) \/ CleanupTest(w)
              \/ \E w \in Bets, outcome \in {"yes", "no", "void"}, lag \in Stamps :
                   ResolveOwner(w, outcome, lag)

OfferStep == \E o \in Offers :
               \/ HandleOfferExpiry(o) \/ CloseUndeliverable(o) \/ InspectControl(o)
               \/ \E operational, quiet \in BOOLEAN : HandleWeekly(o, operational, quiet)
               \/ \E quiet \in BOOLEAN : OfferTest(o, quiet)
               \/ \E k \in {"create", "reminder"} :
                    \/ ClaimRow(o, k) \/ SubmitRow(o, k)
                    \/ \E answer \in {"delivered", "retry", "gone"} :
                         AnswerRow(o, k, answer)

JobStep == \/ \E j \in Jobs : ClaimJob(j) \/ FailJob(j)
           \/ \E o \in Offers \cup {NoOffer} : RescheduleWeekly(o)

Steps == \/ PlayStep \/ SettleStep \/ OfferStep \/ JobStep
         \/ Crash \/ (\E enabled \in BOOLEAN : Restart(enabled))

Next == Steps \/ DrawStep \/ Tick

(* Time passes, a process that is down comes back, and the scheduler claims *)
(* and handles the deadlines that are due.                                  *)
DeadlineStep == \E w \in Bets : ClaimJob(w) \/ HandleDeadline(w)

Fairness == /\ WF_vars(Tick)
            /\ WF_run(\E enabled \in BOOLEAN : Restart(enabled))
            /\ WF_<<bets, job>>(DeadlineStep)

Spec == Init /\ [][Next]_vars /\ Fairness

(***************************************************************************)
(* Properties                                                              *)
(***************************************************************************)
Results == {"none", "win", "loss", "void"}
RowStates == {"none", "pending", "claimed", "submitted", "retry", "again",
              "delivered", "gone"}

BetRecords ==
  [state : {"none", "open", "settled"},
   template : Templates \cup {"none"}, user : Users \cup {"none"},
   choice : ChoiceSlugs \cup {"none"}, due : Int, drawn : BOOLEAN, result : Results,
   cause : {"none", "draw", "deadline", "owner"}, cool : Nat,
   cleaned : BOOLEAN, offer : Offers \cup {NoOffer}]

(* Every variable keeps the type its declaration states. *)
TypeOK ==
  /\ fate \in [Accounts -> Int]
  /\ bets \in [Bets -> BetRecords]
  /\ drawCool \in [Users -> Nat]
  /\ observing \subseteq SUBSET Bets
  /\ offer \in [Offers -> [state : {"none", "open", "closed", "skipped"},
                           left : Int, test : BOOLEAN, reserved : Nat]]
  /\ control \in [Offers -> {"none", "active", "cancelled"}]
  /\ row \in [Offers -> [{"create", "reminder"} -> RowStates]]
  /\ edited \subseteq Offers
  /\ weekly \in [slot : Offers \cup {NoOffer}, due : Int]
  /\ job \in [Jobs -> [state : {"none", "pending", "claimed", "lapsed",
                               "completed", "cancelled", "dead"},
                       attempts : 0 .. MaxAttempts]]
  /\ run \in [up : BOOLEAN, enabled : BOOLEAN, faults : 0 .. Faults]

(* What the records say a wager has moved. *)
Moved(w) ==
  LET b == bets[w] IN
  IF b.state = "open" THEN FundEffect(b)
  ELSE IF b.state = "settled" /\ ~b.cleaned
       THEN Plus(FundEffect(b), PayEffect(b, b.result))
  ELSE Effect(<<>>)

HouseNet(a) == MapThenSumSet(LAMBDA w : Moved(w)[a], Bets)

(* However plays, claims of offers, openings and settlements interleave,   *)
(* the House never risks more than its cap in either namespace.            *)
ExposureWithinCap == \A test \in BOOLEAN : Exposure(test) <= ExposureCap

(* The result of a wager is the one its terms promise, whichever of the    *)
(* report of a draw, the reconciliation, the deadline job, the owner or the *)
(* test command settles it: a draw that was on record decides it, nothing  *)
(* is decided against a member before the deadline, and the owner decides  *)
(* only wagers of an offer, inside the window and once it has closed.      *)
ResultIsEarned ==
  \A w \in Bets :
    LET b == bets[w] IN b.state = "settled" =>
      /\ b.cause = "draw" <=> b.drawn
      /\ b.cause = "deadline" => b.due <= 0
      /\ b.cause = "owner" => /\ Authority[b.template] = "owner" /\ b.due >= -Lag
                              /\ \/ b.result = "void" \/ Tested(b.user)
                                 \/ offer[b.offer].left <= 0
      /\ b.result = "void" <=>
           \/ b.template \in Recovers /\ ~b.drawn
           \/ b.cause = "deadline" /\ Authority[b.template] = "owner"
           \/ b.cause = "owner" /\ b.result = "void"
      /\ b.result # "void" /\ b.cause # "owner" =>
           (b.result = "win") = (b.drawn # (Authority[b.template] = "public_draw"
                                              /\ b.choice = "no"))

(* One wager at most takes an offer, an open offer is not taken, and a     *)
(* closed one is retired: its button is dead, its card withdrawn or to be  *)
(* edited, and a reminder that was never sent stays unsent.                *)
OfferTakenOnce ==
  \A o \in Offers :
    /\ \A v, w \in Bets : bets[v].offer = o /\ bets[w].offer = o => v = w
    /\ offer[o].state = "open" => \A w \in Bets : bets[w].offer # o
    /\ offer[o].state = "closed" =>
         /\ control[o] = "cancelled"
         /\ row[o]["create"] = "gone" \/ o \in edited
         /\ row[o]["reminder"] \notin {"pending", "claimed"}

(* Every wager is settled in the end: by a draw, by the owner or, at the   *)
(* latest, by its deadline, through crashes and failed attempts.           *)
Settles == \A w \in Bets : IsOpen(w) ~> ~IsOpen(w)
=============================================================================
