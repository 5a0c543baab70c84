# Specifications of sanguinius-dbot

TLA+ modules of the Discord bot in `src/`, TLC configurations that check them on
small instances, and TLAPS proofs of their main invariants for all instances.
Every definition translates C++ code or a migration's SQL; `PROJECT.json` gives
the lines of each one ("map"). Paths below are relative to the repository.

Check a model with `tlc -config X.cfg M`, the proofs with `tlapm M.tla`.

## The system

One process, several thread pools, one SQLite database that is the authority
for everything durable. Each repository operation holds the connection's mutex
and runs in an immediate transaction; all waiting for the outside world
(Discord, the AI provider, the voice gateway, a decoder) happens between
transactions. Most of what can go wrong lives in those gaps.

| component | state | operations | works with |
|---|---|---|---|
| Durable outbox (`src/outbox.cpp`, `persistence/sqlite_durable_work_repository.cpp`) | rows of `outbox_message`: state, lease, token, attempts, first attempt, dependencies; a worker's claim in memory | enqueue, cancel, claim with sweeps, mark submitted, complete, fail, quarantine | written by every feature; sends to Discord |
| Scheduler (`src/scheduler.cpp`, same repository) | rows of `scheduled_job` | enqueue, claim, extend, complete, release, reschedule, fail, cancel | calls the handlers of wagers, House, Chronicle, Vox, retention |
| Peer wagers (`persistence/sqlite_wager_repository.cpp`, `src/wagers.cpp`) | `tarot_wager`, outcomes, consents, controls, five linked deadline jobs | draft, preview, confirm, accept, decline, withdraw, outcomes, dispute, void, adopt, judge, deadlines, self-test tools | Fate ledger, scheduler, outbox cards |
| Fate ledger and recovery (`persistence/sqlite_tarot_repository.cpp`) | accounts, sealed transactions with postings, claims | starting grant, trials, Grace, adjust, reverse, standings | wagers, House |
| Tarot House (`persistence/sqlite_tarot_house_repository.cpp`, `src/tarot_house.cpp`) | House wagers, weekly offers, projections | offer, play, draw, deadline, cleanup | ledger, draws, scheduler, outbox |
| Chronicle and sessions (`persistence/sqlite_chronicle*_repository.cpp`) | memories, consents, sessions, summaries, titles | propose, approve, withdraw, delete; start, close, summarise, review | AI, scheduler, outbox |
| Appearances (`persistence/sqlite_appearance_repository.cpp`) | candidates, decisions, budgets, quiet controls | observe, decide, generate, publish, feedback | AI, outbox |
| Vox session, speech, narration (`src/vox.cpp`, `src/speech_service.cpp`, `src/vox_narration.cpp`) | voice session, speech items, narration intents, usage | join, mute, leave, timeout, synthesise, play, interrupt | voice gateway, TTS, scheduler |
| Voice input (`src/voice_input.cpp`) | listening window, consent, captured audio, usage | begin, capture, close, transcribe, kill switch | voice gateway, transcription |
| AI generation (`src/ai_generation.cpp`, its repository) | attempt rows, provider circuit | reserve, admit, send, account, report, recover | budgets, provider, pools |
| Provider circuits (`src/provider_circuit.cpp`, its repository) | one row per provider | admit, succeed, fail, release, restart | TTS, transcription |
| Worker pools (`src/work_queue.cpp`, `src/ai_work_service.cpp`) | queues, lanes, worker threads | submit, front, superseding, stop | every service |
| Interactions (`src/interaction_handler.cpp`, `src/interaction_router.cpp`, `src/callback_fence.cpp`) | admission, response phase, callbacks in progress | acknowledge, defer, edit, fence, drain | every feature |
| Relationships, notices, safety switches, orchestrator | scores, notices, switches | apply, show, toggle, sweep | interactions |
| Persistence base, application, deployment | schema, backups, life cycle | migrate, back up, start, stop | everything |

What is hard: a worker that stalls past its lease; a request whose answer is
lost or late; a crash between a mark and the act it announces; a deadline job
racing the member it expires; two wagers that want the same Fate; clocks read
before a lock is taken; a half-open circuit whose probe ends in one of ten ways;
a condition variable notified without its mutex; voice callbacks that arrive for
a session that has ended. `PROJECT.json` lists these at their lines ("hazards").

## The modules

| module | models | checked by |
|---|---|---|
| `Delivery` | what the outbox promises of one message | refined by `Outbox` |
| `Outbox` | outbox rows, workers, network, Discord | `MCLimits` (over `MCOutbox`), `MCNarration` (an instance); `OutboxProofs` |
| `Pots` | what wagers promise of money | refined by `Wagers` |
| `Wagers` | peer wagers, ledger, deadline jobs, scheduler workers | `MCWagers`, `MCProgress`; `WagerProofs` |
| `House` | wagers against the bank, draws, the weekly offer | `MCFate`; `HouseProofs` |
| `Recovery` | Grace, the Trial, accounts and adjustments | `MCFate`; `HouseProofs` |
| `Fate` | `House` and `Recovery` on one ledger | `MCFate`; `HouseProofs` |
| `Executor` | both worker pools down to the condition variable | `MCProgress`, `MCExecutor`; `ExecutorProofs` |
| `ProviderCircuit` | the circuit breaker's transactions | through `Generation` |
| `Generation` | text generation: limits, attempts, circuit | `MCLimits`, `MCGeneration`; `GenerationProofs` |
| `Vox` | the voice session, its jobs, worker, gateway and Discord's voice state | `MCVoice`, `MCVox`; `VoxProofs` |
| `Speech` | the speech queue of a session, its two workers and the gateway | `MCVoice` |
| `Narration` | what Vox says of itself: intents, claims, generation, hand-over to speech | `MCNarration`; `NarrationProofs` |
| `Listening` | windows of voice input: mutex, callbacks, kill switch, transcription | `MCChronicle`, `MCProgress`, `MCListening` |
| `Chronicle` | entries, their review and canon; memories | `MCChronicle`; `ChronicleProofs` |
| `Sessions` | sessions of the Chronicle, summaries, titles | `MCChronicle`; `ChronicleProofs` |
| `Appearances` | what the bot says unasked | `MCChronicle`; `ChronicleProofs` |
| `Notices` | sealed notices, their reservation and reveal | `MCWagers`; `WagerProofs` |

An `MC` module that checks components with no common state runs them as scenes
of one instance: a variable says which of them moves, the others stand still,
so the states add up instead of multiplying.

### Outbox

`row` is the table, `worker` what an executor thread holds, `wire` the requests
given to the HTTP client, `posts`, `memory` and `shown` what Discord has. One
action per statement of the repository and per decision of the handler: `Sweep`
and `Claim` are the two halves of claim_outbox, `Submit` is
mark_public_outbox_submitted followed by the request, `HandleReceipt`,
`ReceiptTimeout` and `LeaveSubmitted` are the three ends of the wait. A crash
between the mark and the request is `Submit`, then a `Lose` of the request.
`Land` and `Lose` are external: Discord takes a request or not, and in either
case the answer may be lost. 5xx answers count as transient as in the code, and
may have taken effect.

Left out: the notice kind, House sweeps, error wording. lease_owner says nothing
the token does not. One clock stands for the two in the code. The claim's ORDER
BY is a free choice among due rows; it is the reason strong fairness of a due
row's claim is justified. Two relations between durations matter and are named
in `TimingAssumption`: a request ends within the timeout of the HTTP client,
before the receipt wait does (with equality two submissions overlap), and
Discord remembers a nonce longer than the retry window and a request's travel.
The first is a promise of the client library's configuration, not of `src/`
alone. `OrderAssumption` says that rows about one message are ordered by
`created_at_ms`, which the claim's clauses rely on: two rows created in the same
millisecond are outside it.

### Wagers

`wager` is a row with its outcomes and consents, `job` its five linked jobs,
`claim` what each scheduler worker holds, `balance`, `escrow` and `opened` the
committed postings. One action per operation of the repository, with the early
returns as guards; `ExpireOnTouch` is the expiry that act() performs when a
member touches an overdue draft. A deadline transaction checks state, phase
and the claim in one step, as the code does. Jobs that completed and jobs that
were cancelled are both "ended".

Left out: receipts of repeated requests (the same key changes nothing), controls
(they repeat what the state permits, and a slash command exists for most),
cards, notices, evidence, history. Due jobs are claimed in any order. In a
self-test the owner may play every part. A test's clean-up reverses transfers
whose first posting must not overdraw. The owner may judge a disputed wager he
is a party to, because the code lets him.

### Executor

One action per critical section. Evaluating the predicate of `ready_.wait` and
falling asleep are two steps with the mutex held in between; stop's
request_stop and notify_all take no mutex and may come between them. A push and
its notify_one are one step: nobody can be between predicate and sleep while the
push holds the mutex. Wake-ups without a notification are allowed, never
required. `pool` is a configuration chosen at the start and never changed: one
lane with front and superseding submissions, or three lanes with nested limits
and the weighted schedule. A settled task's name is used again, so load never
ends. In which order stop cancels the lanes is left to a `CHOOSE`. Failing to
create a thread in start is left out.

### House, Recovery, Fate

`bets`, `offer`, `control`, `row`, `edited`, `weekly` and `job` are the tables of
the House, `fate` the ledger, `observing` the reports of committed draws on
their way to the House: a draw commits first and is reported afterwards, and a
crash or an error in between loses the report, which the reconciliation of a
later start makes good. Instants are distances from now, counted down by
`Tick`; the instant a transaction works with may be up to `Lag` old for a draw
and for a decision of the owner, where a deadline may pass in between.
`Recovery` has one action per command and button of Grace and the Trial; a claim
is started by one and completed up to fifteen minutes later by the other. `Fate`
puts both on one ledger.

Left out: receipts of repeated interactions (an interaction is used once), the
lag of other operations, retry delays of jobs, leases that lapse while the
process lives, more than one stake per template, wording of cards; in
`Recovery` the privacy flag, the announcement's outbox row and the lag of a
start. The House's jobs run in any order.

### ProviderCircuit and Generation

`ProviderCircuit` has one operator per transaction on a provider's row; the text
provider's copy in the AI repository does the same. In `Generation` a call is an
attempt row with a place in `generate`: the clock is read (`Begin`), the row
reserved, the circuit asked, the row marked and the request sent, the row
settled, and the outcome reported to the circuit, each a transaction of its
own. `WriteFails` is a statement that throws; what the code still does then, and
no more, follows. `billed` is what the provider really takes, which the code
learns only from an answer that reports it.

Left out: duplicates of an idempotency key and the operator's switch, which
refuse without writing (`Refuse` is always possible). A cancelled attempt's slot
is used again. External assumption: the provider bills no more than the
request's token ceilings allow. `CallLimit < FailureWindow` is 60 s of transfer
against 5 minutes of cooldown.

### Vox

`ses` and `job` are the latest voice_session and its scheduled jobs; `queue`,
`reconcile`, `guard`, `rejoined`, `rejected` and `resolving` the worker and the
service's members; `bind` and `suppress` the gateway; `line` and `presence` the
requests under way to Discord and where Discord has the bot. A task runs under
operation_mutex_ and is one action; its statements are operators from one
`World` to the next (`Moved` is apply_transition, `Fail`, `Gone`, `Ready`,
`Marker` the branches of handle_event, `Reconciled` reconcile_if_required), with
`Outcomes` saying how many of its writes succeed before one throws. What
reconcile_guarded does at the end of a task is the next action, because
callbacks enter in between. A callback that finds the queue full is dropped and
leaves only `reconcile`.

Abstracted: the speech service is whether it holds a farewell it can still send;
audio is the proof or the farewell on the gateway's track; revisions are left
out, since no write comes between a handler's read and its own. Job rows that
are over return to the supply of new ones. Commands wait behind callbacks.
Left out: commands that do not change the session (status, say, voice,
speech_test), receipts, cards and end causes, connections without end-to-end
encryption, a lease that expires while the process lives, the third failed
attempt of a job, the retry write of settle_timeout_failure failing as well, and
a rejected marker (`src/vox.cpp:1341`), which asks for the same reconciliation as
a dropped callback does.
External assumption: Discord carries out voice requests in order, may refuse a
join, and announces where the bot is.

### Speech

`item` is speech_item, `row` the session as its table has it, `tasks`, `worker`,
`play`, `playing`, `pending` and `sound` the two workers and the line the gateway
sends; `call` is what the worker of Vox still has to do in a call to this
service. A step ends where a lock is released or a transaction commits. The
module has a small Vox of its own instead of composing with `Vox`: only mute,
reconnect, leave and close matter to it.

Abstracted: two calls of the pump in a row are one; a call of Vox and the row it
writes are one step; `late` is a set of items rather than a clock;
persist_terminal is enabled whenever the row allows it; one session. Usage, the
circuit and the cache of synthesis are left out. A line with flavor asks the AI
worker for its words and is written before it is synthesised; flavor that comes
late leaves the line as it was.

### Narration

`row`, `head`, `eligible` and `card` are the journal, whether an event's public
projection held when it was observed, and the outbox row that tells members of
it; `intent`, `cursor` and `speech` are tables; `pc`, `tasks` and `live` the
cycle of the service, the AI worker's queue and live_generations_. A cycle
observes, claims one intent, and either writes its line at once or submits a
generation whose callback reads all of it again. `ses[s].floor` is
narration_event_rowid_floor, which a join sets.

Abstracted: the budget of the AI and the length of the speech queue are choices
(`BudgetSpent`, `QueueFull`), and leaving, inactivity and failure end a session
alike. Left out: the check of a line's wording, previews, receipts of controls
and the limit of fifty steps of a pass.

### Listening

A task is a thread that needs `operation_mutex_`: `op` says who holds it and
where, `waiting` and `queue` who waits for it or for a worker. A stop, a
disable and a failed callback do not wait: they claim the capture in `cap` at
once, and the cleanup follows. `hears` is what the transport may be open for,
`card` what members see.

Abstracted: at most one begin waits; a late arming card that an edit repairs is
not shown; an edit of the replacement stands for another replacement; the second
look at `accepting` and the copy of the audio are one step, and so are claim,
stop and accepting; the preemption thread takes the switch, then the capture;
budgets and the preflight of members are outcomes; one transcription worker.
Left out: faults of the database and the eviction of more than sixteen drafts.

### Chronicle, Sessions, Appearances

In `Chronicle` an entry is named by its source, of which there is never a second
one. `entry`, `approval` (with its notice and announcement), `token`, `memory`
and `job` are tables, `draft` the volatile groups of buttons in the process,
`said` the last public post about an entry. A failed attempt at a memory's
expiry moves the job's due time (`ExpiryFails`), and expire_memory takes no job
whose due time is not the memory's own
(`src/persistence/sqlite_chronicle_repository.cpp:2420`): from then on every
attempt fails, until the job is dead and the memory stays confirmed (recall
hides it by its time). A stop gives a claim back, and a lapsed one is taken over
(`ExpiryReleased`, `ClaimExpiry`): both keep the due time. Left out: entries of
owner tests, presses in a list of an older revision, and a claim given back
unused because the clock went back.

`Sessions` follows one session at a time from its opening through its context
and summary to titles; `task` is what a worker of the summary job or the purge
holds between the transaction it read in and the one it writes in. A purge that
throws is retried later (`PurgeFails`), which may be past the retention, and after
its last attempt is dead with context left; a purge made for a later line is then
the only one there is. A worker that stops gives the job back (`PurgeReleased`).
Left out: a summary job that used up its attempts, search and listing, the cap of
50 links, byte caps and anniversaries.

In `Appearances` a candidate is named by what it was made from. It is
evaluated, a text is generated, and one transaction makes the decision, takes
the budget and queues the message; controls may change between any two steps.
Left out: alerts of failures, previews, the memory context, and the quiet time
of one member. The run has two candidates and a maximum of two within a window,
so that a second post is decided with the first still counted: the gap and the
messages between are then what delays it. The maximum itself never binds there;
that it holds is the theorem `AppearancesAreRare`.

### Notices

`notice`, `token` and `attempt` are tables; `wire` holds the edits of an
interaction's answer from the request to its callback, and `seen` who has been
shown what. `Press` is open_by_token, `Look` and `LookAgain` open_next for a new
and a repeated interaction, `Confirm` and `Release` the callbacks of a shown edit
and of a refused or unclear one. An edit whose answer is unclear may have been
seen; so may one that was under way in a crash.

Left out: content, which notice of several comes first, the card that carries
the button (an outbox row like others), and the limits of a list.

## The runs

| run | instance | shows |
|---|---|---|
| `outbox` | a card, two edits, two workers, two attempts; and three generations, a member's and the background's, clock 0..2 | exclusive claims, one request under way per card, one message, edits never undone, `Delivery` implemented; budgets and rates hold for what the provider takes, one probe, configuration failures stick |
| `wagers` | one wager, sealed mutual or judged with the owner a party; two scheduler workers; two wagers over the same Fate (stake 3 of 4); and two sealed notices with three interactions | results have authority, no wager stranded, deadlines hold, stakes are backed, `Pots` implemented; a notice is shown to its target only, and none is put aside unread |
| `fate` | three scenes: draws, the weekly offer, and the poor | one ledger accounts for every balance within the cap, offers are taken once, results are earned, Fate is given sparingly, House wagers settle (one wager for the offer; that two cannot both take it is `OffersAreTakenOnce`) |
| `progress` | both pools with two workers and three tasks; an owner's self-test with one worker; a window of voice input | each task settled once, no lane starves, every wait of a wager ends or is the owner's to decide, every window ends |
| `chronicle` | eleven scenes of entries, memories, appearances, sessions and voice input | controls current, canon agreed, public words true, private things forgotten, appearances rare and under their controls, nobody heard unless the card says so |
| `voice` | one session and two disturbances, or two sessions and one; seven scenes of the speech queue | waits have timers and end, mutes last, the binding is the session's, the bot leaves the channel, one line at a time and each still wanted |
| `narration` | a card and one edit; and three scenes of up to three events, two sessions | every outbox row is settled; a session hears two lines at most and one of a feature, after the text, each asked for once, none that a mute cut off; no intent stays open |
| `wagers_late_confirm`, `executor_stop`, `generation_probe`, `vox_lost`, `listening_join` | as above, smaller | violated: see Findings |

**Bounds.** Two workers and a lease of one tick give every order of stall,
expiry and takeover; a third worker can only repeat one of the two roles. Two
attempts exercise both the retry and the exhausted branch. Six tokens are enough
for two attempts of three rows. Timers are scaled so that their order in the
code is kept (lease < receipt wait + margin, retry window < provider memory) and
each may run out before, with or after its neighbour. The limits of the AI pool
are scaled from 64, 48 and 32 to 3, 2 and 1, which keeps them strictly nested. A
job of the Chronicle has two attempts (five in the code) and is retried a tick
later: one failure moves its due time, the second ends it. Of the generations a
member's request may cost 1, another 2, with 3 for a day and 4 for a month, so
that each limit is the binding one in some state; the clock crosses a day, a
month and a cooldown. The pair of wagers runs without scheduler workers to stay
small; deadlines then expire on touch. The scene `vox` bounds sessions and
disturbances (someone moves or disconnects the bot, people come or go, an error,
a dropped callback, a failed write) by three together: one session already
reaches every state of the machine, the second shows what the first leaves
behind. A queue of two lets two callbacks, or a callback and a timeout, overtake
each other; five job rows always leave one free. All three disturbances on one
session were checked too (700 000 states). The scenes of `chronicle` and `voice`
give each actor the one or two acts its race needs (`Cast`, `Agenda`, `Days`,
`Script`): one source with its reviewer, two candidates that compete for one
gap, one window with three happenings, two windows around a crash. In the scenes
`drop` and `flavor` a reconnect that comes late clears what was sent after it,
and in `again` a mute lifted at once sends what it had cancelled; the properties
of lines name these as exempt. The scenes of `narration` are a card with one
edit and one worker; one event with every disturbance, of which at most one
while it is switched off and none once something is late; two events with one;
and three events in time and undisturbed, which is what it takes to reach the
limits of a session. The second edit of `outbox` comes where the card left at
its first attempt; the races of an edit with a retried card are those of the
first edit. In `wagers` and `progress` at most one deadline job at a time has
been handed back, missed or left by a worker (`Troubled`): jobs of one wager
meet only through its row. In `voice` a task waits in the queue behind another
only before the first disturbance (`OneWaits`). The two competing wagers of
`wagers` meet no scheduler worker (`Dueling`): what they compete for is looked
at only where one is accepted. There two edits of answers are under way at once
while one notice is told and its target alone asks, else one; that is enough for
a confirmation to cross a lapse, a second attempt or a crash.

**Deadlock.** It is checked in `outbox` and the violated runs of generation and
voice. The other instances stop by themselves: wagers closed,
pools stopped, a clock at its bound, a scene that has used up its acts.

**Symmetry** is used for workers or attempts in runs without liveness.

**Fairness.** Outbox: weak fairness of threads, network and clock; strong
fairness of claiming a due row, because a poller submits work every second and
claims are ordered by due time. Wagers: weak fairness of the clock and of each
worker's claims; strong fairness of handling a claim and of handling it without
a throw, because neither a stop nor an exception follows every claim. Executor:
weak fairness per worker and of running tasks, whose waits are bounded or
stop-aware. House: weak fairness of the clock, a restart and the deadline jobs,
which is all that settling a wager without a player needs. Generation: weak
fairness of each call under way. Vox: the worker takes what is
queued and reconciles, the scheduler claims due jobs whenever the queue
lets it, the process is started again. Speech: weak fairness of its two workers,
the marker of the gateway's track and the call of Vox under way. Listening: weak
fairness of threads that can go on (`Service`). Narration: weak
fairness of the orchestrator's cycle and the AI worker, and of time, the speech
queue and a restart; the scene of three events has no time in it and states no
liveness. Nothing else of Discord or the
gateway is fair, so a wait ends by its timer alone. Crashes, stops,
readiness and what members do are never fair.

**Seeded faults.** Operators commented "Seeded fault" are small mistakes a
maintainer could make in the mapped code; with one of them in place of the
faithful definition, the property named in `PROJECT.json` ("mutants") fails.

## What is proved

For every value of the constants that the named assumptions admit.

`OutboxProofs`
: `TypeCorrect` and `ClaimsAreExclusive`. The statements of a handler test the
  token of the row, so exclusiveness rests on what workers remember: `Busy` (a
  busy worker holds a row and a token) and `Fenced` (tokens in memory are
  distinct). Types alone are not inductive either: a success must have been
  preceded by a recorded attempt and be visible (`Recorded`), and a request and
  the worker that still holds its token mean the same row (`Matched`,
  `Remembered`). `OutboxDelivers` is the refinement of `Delivery`: every
  statement does one of five things to a row (`RowStep`), each of which is a
  step of the promise or a stutter, and a request only lands for a row that
  `Recorded` says has an attempt on record.
  `PostsOnce` and `CardsAdvance`, the second half, rest on `TimingAssumption` and
  `OrderAssumption`. `Careful` adds to the invariant above that lease and wait
  outlast a request (`InFlight`), that a resend cleared by a worker is still
  inside the nonce window (`Current`, `Counted`), that Discord still refuses the
  nonce while anybody may send it (`Refused`), and that no visible revision is
  later than an edit that may still go out (`Ordered`, `Seen`).

`WagerProofs`
: `WagerTypes` (no account is ever overdrawn, no job claimed too often) needs
  `ClaimsMatch`: a worker whose claim still stands knows the job's attempt
  count, so that handing a claim back never counts below zero.
  `ResultsAreAuthorised` adds nothing but types: authority is inductive because
  outcomes are written once. `NoWagerIsStranded` follows the jobs: each
  transition of a wager replaces the job that ends the wait in the same
  transaction, and `DeadlinesAreKept` compares each step with the expiry stored
  then. `WagersArePots` is the refinement: with the invariant `OffersStaked`,
  funding is `Collect`, settlement is `HandOut` or `GiveBack`, and every other
  step leaves the accounts alone. `StakesStayBacked` goes by these steps: no
  member owes Fate, the escrow is the sum of the open stakes, and accounts and
  escrow sum to what was granted. Its invariant `Backed` adds that who has paid
  into a pot has an account and who has none holds nothing; without them a grant
  could be counted twice. `WagerAssumption` asks for finitely many members and
  wager ids, as the sums need; `wagers` checks it where two wagers compete.

`ExecutorProofs`
: `PoolTypes`, `TasksAreSettled`, `LimitsHold`, for every configuration that
  `PoolConfiguration` admits. `Kept` says that an entry is in one queue, or in
  what stop took out, or with one worker (`Apart`, `Untouched`, `Owned`,
  `Phased`). `WithinLimits` is not inductive with it for free: a superseding
  submission makes room by displacing entries and checks afterwards, so the
  lemmas count the entries of nested limits.

`VoxProofs`
: `SessionsAreHeld` and `MutesLast`. A handler is a chain of operators from one
  `World` to the next, so the lemmas say of each operator that it keeps a `Sound`
  world sound: `Held` (the live jobs are the timers the state calls for),
  `Claims` (a claimed job waits in the queue once) and `Ours` (the binding is of
  this session and no later generation). `VoxAssumption` has five job rows for a
  queue of two, so that a new job always finds a row; the table has no bound.

`HouseProofs`
: `OffersAreTakenOnce`, `ResultsAreEarned`, and both beside the recoveries
  (`HoldsBesideRecoveries`, of `FateSpec`). An offer is closed in the transaction
  that plays it (`Placed`), a reminder is claimed only after its card was
  delivered (`Cards`), a deadline's handler holds it only once it has passed
  (`DeadlinesClaimed`), and only a committed draw is reported (`ReportsDrawn`).
  `HouseAssumption` pins the catalogue as the code does: what helps the poor is
  decided by a draw (`migrations/0011_tarot_house_integration.sql:800`), and the
  owner decides only what is played through an offer.
  `RewardsAreScarce` (of `FateSpec`, so with the House moving balances) needs one
  clause, `Barred`: for a member and a kind, either the cooldown has passed since
  the last reward or a completed claim still rests as long as is missing.
  `OnlyThePoorAreLifted` is of `Recovery` with the ledger to itself and needs no
  House. Both rest on `RecoveryAssumption`, which is `TarotPolicy::validate`
  (`src/tarot.cpp:163`).
  The rest is one invariant of `FateSpec`, `LInv`, and what follows from it:
  `TypesAreKept`, `LedgerIsOne` (`OneLedger` and `ExposureWithinCap`) and
  `FateIsGivenSparingly`. Beside the invariants above it says that the wagers are
  ones a member may have placed (`Books`), that every balance is what records say
  (`Matches`), that the exposure is within the cap (`Capped`), that whoever is
  adjusted is the owner (`Owners`), and that a claimed job has used an attempt, so
  that one given back leaves no negative count (`Counters`). Each step of the
  House is shown to move every balance as much as its records (`Kept`); all but a
  play and the opening of an offer lower the exposure or leave it (`Falls`), and
  those two are refused above the cap. Sums over wagers, offers, claims and
  accounts are folds of the community modules. That the fold's function exists
  and does not depend on the order is shown from the least number of elements for
  which it would not (`Least`, `FiniteInduction`, `FoldExists`, `SumAgrees`);
  `Total` is then a function that lemmas can speak about. For this the
  assumptions also say that tables are finite, that stakes and profits are not
  negative (`src/tarot_catalog.cpp:238`) and that what helps the poor takes no
  stake (`src/tarot_catalog.cpp:275`).

`ChronicleProofs`
: `PublicWordIsKept`, `CanonNeedsAgreement` and `MemoriesEndOnce`. For an entry
  the invariant (`Sound`) says what its review can contain: every request is of
  the entry's revision and of somebody who may answer it (`Agreeing`), one of
  them is still open while it is under review, and all are quiet afterwards; of a
  control (`Fits`) that it is for that state, that revision and an open request.
  Agreement follows, because the last answer finds every other one given at the
  revision that becomes canon. For a draft (`Group`) it says that one button at a
  time is being answered and that a stored memory's Confirm is the one that
  survives; for a memory's job (`Expiry`) that it outlives what it ends, or is dead
  with every attempt used.
  `ChronicleAssumption`: authors, subjects and the owner are members; a job has one
  attempt at least, and a retry comes later.

`ChronicleProofs`, second part
: `SessionsAreSettled`, `WhatWasSaidIsForgotten` and `SummariesAreCurrent`, of an
  instance of `Sessions`, from `SessionAssumption`: finitely many lines, an owner
  who is a member, limits that are numbers, and names of chapters, awards and
  titles that do not collide. `SInv` says for each stage of a session what its
  draft, review and job are (`Stages`), that one session at most is going on, that
  no entry is the award of a title nobody proposed (`GrantsTyped`), and when a
  purge is due (`PurgedAt`). Where no attempt has failed this is, in an open
  session, no later than the retention of any line, because a purge is made for
  the first line, a later line is younger, and a run makes the next one for the
  oldest line it leaves; after closing no later than the retention of the closing,
  also where a worker held the job across it. An attempt that failed puts it off
  by a retry (`Late`), and a job that used up its attempts promises nothing:
  `WhatWasSaidIsForgotten` says what is left in each of these cases.
  `MCChronicle` checks the same properties on an instance, under constants that
  satisfy `SessionAssumption`.

`ChronicleProofs`, third part
: `AppearancesAreRare`, `AppearancesObeyControls` and `AppearancesAreDecidedOnce`,
  of an instance of `Appearances`, from `AppearanceAssumption`: the numbers that
  `parse_appearance_policy` accepts (`src/appearance_policy.cpp:163`; the gap and
  the window are a second at least), and messages, events and the test kept apart.
  `RareAppearances` is not inductive: the gates count the records of what was
  spent, not posts, and look only at the latest one's messages. `OneByOne` adds
  that posts of one budget have instants of their own, so that records are as many
  as posts, and that a later one has counted as many messages at least, so that
  what the latest allows all allow. That two posts never share an instant needs
  the gap, which the policy makes positive. `Made` says of a candidate that its
  messages were seen and that the rows left of them are marked, so that a message
  delivered again after its row was purged cannot serve a second one. `Allowed`
  says of a post that waits for its first attempt what the controls must still be:
  a quiet, a disable, a withdrawal or a changed mode cancels it in its own
  transaction, or it would stay. `MCChronicle` checks the same properties on an
  instance, under constants that satisfy `AppearanceAssumption`.

`WagerProofs`, second part
: `NoticesAreSealed`, of an instance of `Notices`, from `NoticesAssumption`. `NoticesHold` is not inductive:
  `NInv` adds that a reservation is for a notice of the member who asked
  (`Reserves`), that only prepared ones lapse, that an edit under way belongs to
  its interaction's attempt even when that attempt has been settled and made
  again (`Edits`), and that what a callback may still confirm has been seen.
  `MCWagers` checks `NoticesHold` on an instance of the module, under constants
  that satisfy `NoticesAssumption`.

`NarrationProofs`
: `NarrationIsSparing`. What a session has heard is known only through its
  intents, so `NInv` says what the journal and the outbox have of an event before
  and after its observation (`Carded`), that an item waits in the speech queue
  only for a queued intent (`Handed`), and of work under way that it is live, that
  its intent has begun, and that its fence has counted every mute that cut it off
  (`Working`): a callback that passes the fence was not hushed. The claim is the
  only step that can add a line to a session, and its two refusals are the two
  halves of `SparingNarration`.

`GenerationProofs`
: `RatesAndProbesHold`, `BudgetIsKept` and `ConfigurationFailureHolds`. What calls have read of
  the clock is old when they act on it, so `Timely` bounds the age: a call still
  under way read the clock at most `CallLimit` ago. With `CallLimit <
  FailureWindow`, whoever passed the circuit before it opened has ended when the
  probe may go (`Cooling`), and a half-open circuit has one caller past it
  (`Probing`). The rates are invariants of reservations, not of requests
  (`Rates`): each reservation counts the window that ends at its own reading,
  and one made on an older reading counts what lies after it too. The budget is
  the same argument with sums for numbers: what the attempts of a day or a month
  are charged is within its limit (`Costs`), and what the provider takes for an
  attempt is nothing before it is sent and never more than its row says (`Priced`),
  because the row keeps the whole reservation until it has an answer. The sum is
  the library's fold, and `SumIsPaidFor` compares two of them term by term.
  `MCLimits` checks `GenerationLimits`, the same on an instance.

Only model-checked: all liveness and everything under fairness;
`LeavesTheChannel`, an action property under `NothingHangs` that speaks of the
last element of a sequence after every chain of operators; everything of
`Speech` and `Listening`.

## Findings

* `wagers_late_confirm`. A draft's expiry is read from `due_at_ms` of its
  draft_expiry job (`src/persistence/sqlite_wager_repository.cpp:1977`), and a
  failed attempt moves that instant, so a draft may be confirmed after the expiry
  it was given. `tests/integration/wager_repository_tests.cpp:1580` expects
  otherwise.
* `executor_stop`. stop requests and notifies without the mutex
  (`src/work_queue.cpp:105`, `src/ai_work_service.cpp:107`). A worker between its
  predicate and its sleep misses both, and stop never returns.
* `generation_probe`. When recording a probe's success fails, the circuit stays
  half-open and refuses every later call until a restart; the comment at
  `src/ai_generation.cpp:223` says subsequent calls recover it.
* `vox_lost`. Callbacks run newest first (`src/vox.cpp:283`). When a rejoined
  connection becomes ready and is lost before the worker gets to either, the loss
  is ignored and the session then becomes ready, with the bot in no channel and
  no timer armed.

One of the Chronicle, with no run of its own: a single failed attempt at a memory's
expiry makes every later one fail, because the retry moves `due_at_ms`
(`src/persistence/sqlite_durable_work_repository.cpp:1646`) and expire_memory
compares it with the memory's expiry
(`src/persistence/sqlite_chronicle_repository.cpp:2420`). The job ends dead and the
memory keeps its state and its text.

Two more observations of the voice model, with no run of their own: a leave
during a rejoin whose departure is dropped ends the session while the join is
still on its way, and the bot stays (the property `LeavesTheChannel` excepts that end);
a summon whose channel is being resolved while the operator disables output
still starts a session (`src/vox.cpp:1179`).

* `listening_join`. When the timer of a window finds the privacy worker's queue
  full it runs the cleanup on its own thread and waits for `operation_mutex_`; the
  holder of the mutex joins that thread (`src/voice_input.cpp:2661`). The window
  never ends, though its card gives the time by which it does.

Observations of voice input with no run of their own. `set_kill_switch` returns
early when the disable is already stored, and does not close a capture begun
while disabling and enabling raced. An enable past its generation check can clear
the latch that a newer disable has just set. After a crash the LISTENING card of
the window is not repaired. The late cleanup of a callback
(`src/voice_input.cpp:2562`) may hit the next window.

## Not modelled, and the plan

Of the modelled components, what each section above calls left out. Of the rest:
interactions and their callbacks, relationship scores, the safety switches
across features, and the order in which the application stops its services.

To come, in this order:

1. Proofs of `Listening` (nobody is heard unless the card says so).
2. The application's stop order; interactions and the callback fence.
3. Relationships.

Out of reach or of no state of their own: prompt and card wording, parsing,
audio decoding, command definitions, configuration, logging, shell scripts.
Migration and backup run alone from the command line.
