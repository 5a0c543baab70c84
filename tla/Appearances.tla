---------------------------- MODULE Appearances ----------------------------
(* Unprompted public appearances (AppearanceService and its repository).   *)
(* Public messages and Chronicle events become candidates; a candidate is  *)
(* evaluated, a text is generated for it, and in one transaction the       *)
(* decision becomes final, its place in the budget is reserved and the     *)
(* public message is queued.  Quiet, the kill switch, a withdrawn consent  *)
(* and a changed mode may come between any two of these steps.             *)
(* A candidate is named by what it was made from: the messages, the event, *)
(* or the owner's test.                                                    *)
EXTENDS Integers, FiniteSets

CONSTANTS
  Members, Owner,
  Events,         \* events about one Chronicle entry, whose theme they share
  Subject,        \* the participant of that entry
  MaxMessages,    \* public messages are numbered in the order they are sent
  Author,         \* of each message
  Mentions,       \* messages that mention the entry
  Test,           \* the owner's test fixture
  Required,       \* policy: human_messages_required
  Humans,         \* policy: active_humans_required
  Window,         \* policy: activity window and retention
  Life,           \* policy: candidate_expiry
  BudgetWindow, BudgetMax, MinGap, AfterPrevious, ThemeCooldown,
  MaxClock,       \* the clock stops here
  MaxChanges      \* changes of controls and preferences, and restarts

VARIABLES
  clock,
  mode,           \* appearance_mode_state; since counts the changes
  control,        \* appearance_control_state
  optIn,          \* members with appearance_callback_opt_in
  shared,         \* the entry is canon and its subject opted in to Chronicle
  seen,           \* number of messages the gateway has delivered
  activity,       \* appearance_message_activity, by message
  channel,        \* appearance_channel_state
  event,          \* appearance_event_observation
  candidate,      \* appearance_candidate
  decision,       \* appearance_decision
  post,           \* appearance_budget_reservation with its outbox row
  feedback,       \* appearance_feedback
  held,           \* what the process is doing with a candidate
  changes         \* changes made so far

rows == <<activity, channel, event, candidate, decision, post, feedback>>
vars == <<clock, mode, control, optIn, shared, seen, rows, held, changes>>

Modes    == {"off", "dry_run", "live"}
Never    == -1

(* Names are kept apart, and the policy's numbers are those its reader     *)
(* accepts: a gap and a window of a second at least, zero messages or more. *)
AppearanceAssumption ==
  /\ Owner \in Members /\ Subject \in Members
  /\ Author \in [1..MaxMessages -> Members]
  /\ Events \cap (1..MaxMessages) = {}
  /\ Test \notin Events \cup (1..MaxMessages)
  /\ {MinGap, BudgetWindow} \subseteq Nat \ {0}
  /\ {MaxMessages, MaxClock, Life, BudgetMax, AfterPrevious, ThemeCooldown} \subseteq Nat

Undecided(c) == c \notin DOMAIN decision
With(f, k, v) == [x \in DOMAIN f \cup {k} |-> IF x = k THEN v ELSE f[x]]
Greatest(S) == CHOOSE x \in S : \A y \in S : y <= x
Within(f, keys) == [k \in keys |-> f[k]]

-----------------------------------------------------------------------------
(* What the gates read *)

(* Authors of the human messages of the activity window.                   *)
ActiveActors ==
  {Author[m] : m \in {n \in DOMAIN activity : activity[n].at >= clock - Window}}

(* A candidate's theme is the entry its event is about, or the one its     *)
(* messages mention.                                                       *)
Themed(c) == candidate[c].theme
SourceUsers(c) == IF Themed(c) THEN {Subject} ELSE {}

(* An entry withdrawn or private, or a subject who does not consent, makes *)
(* the source unavailable.                                                 *)
SourceAvailable(themed) == themed => shared /\ Subject \in optIn

(* What used the budget: live posts for a live service; for a dry run what *)
(* would have been said too.  Tests have a budget of their own.            *)
Spent(test) ==
  {[at |-> post[c].at, count |-> post[c].count, theme |-> Themed(c)] :
     c \in {x \in DOMAIN post : post[x].test = test}}
  \cup IF mode.name = "live" THEN {} ELSE
  {[at |-> decision[c].at, count |-> decision[c].count, theme |-> Themed(c)] :
     c \in {x \in DOMAIN decision : decision[x].action = "hypothetical"}}

(* Seeded fault: the budget is only counted when the candidate is made.    *)
BudgetGates_once(themed, test, made) ==
  made \/ Cardinality({s \in Spent(test) : s.at > clock - BudgetWindow}) < BudgetMax

(* Seeded fault: only the count is looked at.                              *)
BudgetGates_counted(themed, test, made) ==
  Cardinality({s \in Spent(test) : s.at > clock - BudgetWindow}) < BudgetMax

(* The counts, the gap and the messages since the previous appearance; made *)
(* says that the candidate exists already.                                 *)
BudgetGates(themed, test, made) ==
  LET used == {s \in Spent(test) : s.at > clock - BudgetWindow}
      last == Greatest({s.at : s \in used})
  IN
  /\ Cardinality(used) < BudgetMax
  /\ used # {} =>
       /\ clock - last >= MinGap
       /\ \A s \in used : s.at = last => channel.humans - s.count >= AfterPrevious

(* No appearance about the entry within the cooldown of its theme.         *)
ThemeRested(themed, test) ==
  themed => \A s \in Spent(test) : ~(s.theme /\ s.at > clock - ThemeCooldown)

Consent(users) == users \subseteq optIn

(* Seeded fault: the controls were read when the text was asked for.       *)
ControlGates_before(c) ==
  c \in DOMAIN decision \/ (~control.disabled /\ ~(control.quiet > clock))

ControlGates(c) ==
  /\ candidate[c].epoch = mode.since
  /\ ~control.disabled
  /\ ~(control.quiet > clock)

(* refresh_persistent_gates: every gate of the persisted candidate again,  *)
(* for those who took part and those who are active now.  The owner's     *)
(* fixture may follow another post of the bot.                             *)
FreshGates(c, fixture) ==
  LET actors == IF candidate[c].test THEN candidate[c].actors ELSE ActiveActors IN
  /\ candidate[c].clear
  /\ BudgetGates(Themed(c), candidate[c].test, TRUE)
  /\ ThemeRested(Themed(c), candidate[c].test)
  /\ ControlGates(c)
  /\ ~candidate[c].test => Cardinality(actors) >= Humans
  /\ Consent(candidate[c].actors \cup actors)
  /\ SourceAvailable(Themed(c))
  /\ fixture \/ ~channel.bot

Timely(c) == clock >= candidate[c].created /\ clock < candidate[c].expires

(* evaluate_appearance: fit stands for the score and for the gates on      *)
(* wording, quiet hours and the state of the service.                      *)
Eligible(c, gates, fit) == gates /\ Timely(c) /\ fit

(* A generated text that passes every validation speaks; one that declines *)
(* or fails any of them does not.                                          *)
Answers == {"speak", "decline"}

-----------------------------------------------------------------------------
(* Candidates *)

(* Its gates are evaluated when it is made: one that failed then fails for *)
(* good.                                                                   *)
NewCandidate(from, actors, themed, test) ==
  [created |-> from, expires |-> from + Life, epoch |-> mode.since,
   actors |-> actors, theme |-> themed, test |-> test, started |-> TRUE,
   clear |-> /\ Consent(actors) /\ SourceAvailable(themed)
             /\ BudgetGates(themed, test, FALSE) /\ ThemeRested(themed, test)
             /\ test \/ ~channel.bot]

(* Take a new candidate into the process's hands.                          *)
Hold(c, step) == held' = With(held, c, step)

Kept == {m \in DOMAIN activity : activity[m].at > clock - Window}

(* Seeded fault: a message is new when no row of it is left.               *)
Observed_forgetful(m) ==
  IF m \in DOMAIN activity
  THEN Within(activity, Kept)
  ELSE With(Within(activity, Kept), m, [at |-> clock, used |-> FALSE])

(* The rows a message leaves: it is counted once, however often the        *)
(* gateway delivers it; rows past their retention go.                      *)
Observed(m) ==
  IF m \in seen
  THEN Within(activity, Kept)
  ELSE With(Within(activity, Kept), m, [at |-> clock, used |-> FALSE])

(* A new human message counts, and the bot is no longer the last speaker.  *)
ChannelAfter(m) ==
  IF m \in seen THEN channel ELSE [humans |-> channel.humans + 1, bot |-> FALSE]

Unused(act) == {m \in DOMAIN act : ~act[m].used}

(* The newest unused messages, as many as a candidate takes.               *)
Chosen(unused) == {x \in unused : Cardinality({y \in unused : y > x}) < Required}

(* A human message is sent, or delivered again: recorded, counted, and     *)
(* with enough unused ones made into a candidate, whose messages count for *)
(* no other.  They may mention the entry.                                  *)
ObserveMessage(m) ==
  /\ mode.name # "off"
  /\ LET act    == Observed(m)
         unused == Unused(act)
         used   == Chosen(unused)
         actors == {Author[x] : x \in used}
         themed == used \cap Mentions # {} /\ SourceAvailable(TRUE)
         made   == Cardinality(unused) >= Required /\ m \in used
                     /\ used \notin DOMAIN candidate
     IN
     /\ seen' = seen \cup {m}
     /\ channel' = ChannelAfter(m)
     /\ IF made
        THEN /\ activity' = [x \in DOMAIN act |->
                  IF x \in used THEN [act[x] EXCEPT !.used = TRUE] ELSE act[x]]
             /\ candidate' = With(candidate, used,
                  NewCandidate(clock, actors, themed, FALSE))
             /\ Hold(used, "evaluate")
        ELSE /\ activity' = act
             /\ UNCHANGED <<candidate, held>>
  /\ UNCHANGED <<clock, mode, control, optIn, shared, event, decision, post,
                 feedback, changes>>

Waiting(e) == event[e].state = "waiting"

(* It is as old as its event, and for those who talk now.                  *)
EventCandidate(e) == NewCandidate(event[e].at, ActiveActors, TRUE, FALSE)

(* An observed event becomes a candidate; a candidate nobody evaluated     *)
(* before a restart is taken up again.                                     *)
ScanEvent(e) ==
  /\ mode.name # "off"
  /\ Waiting(e)
  /\ event' = [event EXCEPT ![e].state = "processed"]
  /\ candidate' = With(candidate, {e}, EventCandidate(e))
  /\ Hold({e}, "evaluate")
  /\ UNCHANGED <<clock, mode, control, optIn, shared, seen, activity, channel,
                 decision, post, feedback, changes>>

TakeUp(c) ==
  /\ mode.name # "off"
  /\ ~candidate[c].started /\ Undecided(c)
  /\ candidate' = [candidate EXCEPT ![c].started = TRUE]
  /\ Hold(c, "evaluate")
  /\ UNCHANGED <<clock, mode, control, optIn, shared, seen, activity, channel,
                 event, decision, post, feedback, changes>>

(* The owner's test, in a live service with a text of its own; asked again *)
(* it is the same one.                                                     *)
Simulate ==
  /\ mode.name # "off"
  /\ candidate' =
       IF {Test} \in DOMAIN candidate
       THEN [candidate EXCEPT ![{Test}].started = TRUE]
       ELSE With(candidate, {Test},
              NewCandidate(clock, {Owner}, FALSE, TRUE))
  /\ {Test} \notin DOMAIN held
  /\ Hold({Test}, IF mode.name = "live" THEN "fixture" ELSE "evaluate")
  /\ UNCHANGED <<clock, mode, control, optIn, shared, seen, activity, channel,
                 event, decision, post, feedback, changes>>

-----------------------------------------------------------------------------
(* Decisions *)

(* When it was decided matters where it counts as an appearance.           *)
Decided(state, action) ==
  [state |-> state, action |-> action,
   at    |-> IF action = "hypothetical" THEN clock ELSE 0,
   count |-> IF action = "hypothetical" THEN channel.humans ELSE 0]

(* What a final decision says, given the gates of this moment and what the *)
(* generation returned.                                                    *)
FinalAction(eligible, answer) ==
  IF ~eligible \/ answer # "speak" THEN "reject"
  ELSE IF mode.name = "live" THEN "live_queued" ELSE "hypothetical"

(* The queued message, its reservation and everyone it is about.           *)
LiveEffects(c) ==
  [state |-> "pending", tried |-> FALSE, at |-> clock, count |-> channel.humans,
   test |-> candidate[c].test, epoch |-> mode.since,
   who |-> candidate[c].actors \cup SourceUsers(c)
             \cup IF candidate[c].test THEN {} ELSE ActiveActors]

Record(c, state, action) ==
  /\ decision' = With(decision, c, Decided(state, action))
  /\ post' = IF action = "live_queued" THEN With(post, c, LiveEffects(c)) ELSE post

Release(c) == held' = Within(held, DOMAIN held \ {c})

(* Seeded fault: a candidate already decided is decided again.             *)
RecordFinal_again(c, fit, fixture) ==
  /\ Record(c, "final", FinalAction(Eligible(c, FreshGates(c, fixture), fit),
                                    IF fixture THEN "speak" ELSE "none"))
  /\ Release(c)

(* A candidate that is not worth a generation, or the owner's fixture,     *)
(* which needs none, is final at once unless it was decided before.        *)
RecordFinal(c, fit, fixture) ==
  /\ IF Undecided(c)
     THEN LET ok == Eligible(c, FreshGates(c, fixture), fit)
          IN Record(c, "final", FinalAction(ok, IF fixture THEN "speak" ELSE "none"))
     ELSE UNCHANGED <<decision, post>>
  /\ Release(c)

(* Ask for a text: the gates hold now, and the decision is pending.        *)
PrepareModel(c, fit) ==
  IF Undecided(c)
  THEN IF Eligible(c, FreshGates(c, FALSE), fit)
       THEN /\ Record(c, "model_pending", "none")
            /\ held' = [held EXCEPT ![c] = "generate"]
       ELSE Record(c, "final", "reject") /\ Release(c)
  ELSE UNCHANGED <<decision, post>> /\ Release(c)

(* evaluate: on what the candidate was when it was made, record at once or *)
(* ask.  fit stands for the gates of wording, score, quiet hours and the   *)
(* state of the service.                                                   *)
Evaluate(c, fit) ==
  /\ \/ held[c] = "fixture" /\ RecordFinal(c, fit, TRUE)
     \/ /\ held[c] = "evaluate"
        /\ IF Eligible(c, candidate[c].clear, fit)
           THEN PrepareModel(c, fit)
           ELSE RecordFinal(c, fit, FALSE)
  /\ UNCHANGED <<clock, mode, control, optIn, shared, seen, activity, channel,
                 event, candidate, feedback, changes>>

(* The generation answered, declined, failed or was not accepted.  The     *)
(* gates are evaluated again in the transaction that decides.              *)
CompleteModel(c, answer) ==
  /\ held[c] = "generate"
  /\ decision[c].state = "model_pending"
  /\ Record(c, "final",
            FinalAction(Eligible(c, FreshGates(c, FALSE), TRUE), answer))
  /\ Release(c)
  /\ UNCHANGED <<clock, mode, control, optIn, shared, seen, activity, channel,
                 event, candidate, feedback, changes>>

(* The decision, and the rejection in its place, failed to be stored: the  *)
(* candidate stays as it is until the next start.                          *)
CompletionLost(c) ==
  /\ changes < MaxChanges /\ changes' = changes + 1
  /\ Release(c)
  /\ UNCHANGED <<clock, mode, control, optIn, shared, seen, rows>>

-----------------------------------------------------------------------------
(* Controls *)

(* The affected posts that were never attempted are taken back.            *)
Cancelled(affected) ==
  [c \in DOMAIN post |->
     IF c \in affected /\ post[c].state = "pending" /\ ~post[c].tried
     THEN [post[c] EXCEPT !.state = "cancelled"] ELSE post[c]]

Change == changes < MaxChanges /\ changes' = changes + 1

(* Quiet is extended by anyone and ended by its setter or the owner.       *)
SetQuiet(u, until) ==
  /\ Change
  /\ LET active == control.quiet > clock IN
     \/ /\ until > clock /\ ~(active /\ until <= control.quiet)
        /\ control' = [control EXCEPT !.quiet = until, !.by = u]
        /\ post' = Cancelled(DOMAIN post)
     \/ /\ until = Never /\ active /\ u \in {control.by, Owner}
        /\ control' = [control EXCEPT !.quiet = Never, !.by = Owner]
        /\ UNCHANGED post
  /\ UNCHANGED <<clock, mode, optIn, shared, seen, activity, channel, event,
                 candidate, decision, feedback, held>>

(* Seeded fault: what was queued before the switch goes out.               *)
SetGlobalDisabled_later(off) ==
  /\ Change
  /\ control.disabled # off
  /\ control' = [control EXCEPT !.disabled = off]
  /\ UNCHANGED <<clock, mode, optIn, shared, seen, rows, held>>

SetGlobalDisabled(off) ==
  /\ Change
  /\ control.disabled # off
  /\ control' = [control EXCEPT !.disabled = off]
  /\ post' = IF off THEN Cancelled(DOMAIN post) ELSE post
  /\ UNCHANGED <<clock, mode, optIn, shared, seen, activity, channel, event,
                 candidate, decision, feedback, held>>

(* A member withdraws or gives consent; a withdrawal takes back what is    *)
(* queued about them, as an actor, as a subject or as a bystander.         *)
SetCallbackConsent(u) ==
  /\ Change
  /\ optIn' = IF u \in optIn THEN optIn \ {u} ELSE optIn \cup {u}
  /\ post' = IF u \in optIn THEN Cancelled({c \in DOMAIN post : u \in post[c].who})
             ELSE post
  /\ UNCHANGED <<clock, mode, control, shared, seen, activity, channel, event,
                 candidate, decision, feedback, held>>

(* The entry is retracted or made private (a trigger cancels its posts).   *)
WithdrawEntry ==
  /\ Change
  /\ shared /\ shared' = FALSE
  /\ post' = Cancelled({c \in DOMAIN post : Themed(c)})
  /\ UNCHANGED <<clock, mode, control, optIn, seen, activity, channel, event,
                 candidate, decision, feedback, held>>

(* Feedback on a delivered appearance, one per member and class; quiet for *)
(* tonight never shortens a hush.                                          *)
RecordFeedback(c, u, class, until) ==
  /\ c \in DOMAIN post /\ post[c].state = "delivered"
  /\ <<c, u, class>> \notin feedback
  /\ feedback' = feedback \cup {<<c, u, class>>}
  /\ IF class = "quiet"
     THEN /\ until > clock
          /\ control' = IF control.quiet < until
                        THEN [control EXCEPT !.quiet = until, !.by = u]
                        ELSE control
          /\ post' = Cancelled(DOMAIN post)
     ELSE UNCHANGED <<control, post>> /\ until = Never
  /\ Change
  /\ UNCHANGED <<clock, mode, optIn, shared, seen, activity, channel, event,
                 candidate, decision, held>>

-----------------------------------------------------------------------------
(* The outbox, the gateway, and the life of the process *)

(* A queued post is attempted; the attempt may be retried, and is seen in  *)
(* the channel when it is delivered (the Outbox module has the details).   *)
Attempt(c) ==
  /\ post[c].state = "pending"
  /\ post' = [post EXCEPT ![c].tried = TRUE]
  /\ ~post[c].tried
  /\ UNCHANGED <<clock, mode, control, optIn, shared, seen, activity, channel,
                 event, candidate, decision, feedback, held, changes>>

Delivery(c, state) ==
  /\ post[c].state = "pending" /\ post[c].tried
  /\ post' = [post EXCEPT ![c].state = state]
  /\ channel' = IF state = "delivered" THEN [channel EXCEPT !.bot = TRUE] ELSE channel
  /\ UNCHANGED <<clock, mode, control, optIn, shared, seen, activity, event,
                 candidate, decision, feedback, held, changes>>

EventHappens(e) ==
  /\ event[e].state = "absent"
  /\ event' = [event EXCEPT ![e] =
       [state |-> IF mode.name = "off" THEN "processed" ELSE "waiting", at |-> clock]]
  /\ UNCHANGED <<clock, mode, control, optIn, shared, seen, activity, channel,
                 candidate, decision, post, feedback, held, changes>>

(* A start: a changed mode begins a new epoch, cancels what is queued and  *)
(* drops the events of an unwatched time; generations of the previous      *)
(* process are given up and its unfinished evaluations free to be taken.   *)
ActivatedMode(m) ==
  IF m = mode.name THEN mode ELSE [name |-> m, since |-> mode.since + 1]

Restart(m) ==
  /\ Change
  /\ mode' = ActivatedMode(m)
  /\ event' = [e \in Events |->
       IF Waiting(e) /\ "off" \in {m, mode.name}
       THEN [event[e] EXCEPT !.state = "processed"] ELSE event[e]]
  /\ post' = IF m # mode.name THEN Cancelled(DOMAIN post) ELSE post
  /\ decision' = [c \in DOMAIN decision |->
       IF decision[c].state = "model_pending"
       THEN [decision[c] EXCEPT !.state = "final", !.action = "reject"]
       ELSE decision[c]]
  /\ candidate' = [c \in DOMAIN candidate |->
       IF Undecided(c) THEN [candidate[c] EXCEPT !.started = FALSE]
       ELSE candidate[c]]
  /\ held' = Within(held, {})
  /\ UNCHANGED <<clock, control, optIn, shared, seen, activity, channel, feedback>>

Tick ==
  /\ clock < MaxClock
  /\ clock' = clock + 1
  /\ activity' = Within(activity, {m \in DOMAIN activity : activity[m].at > clock - Window})
  /\ UNCHANGED <<mode, control, optIn, shared, seen, channel, event, candidate,
                 decision, post, feedback, held, changes>>

-----------------------------------------------------------------------------
Nothing == [x \in {} |-> 0]

Init ==
  /\ clock = 0
  /\ mode = [name |-> "live", since |-> 0]
  /\ control = [disabled |-> FALSE, quiet |-> Never, by |-> Owner]
  /\ optIn = Members /\ shared = TRUE /\ seen = {}
  /\ activity = Nothing /\ channel = [humans |-> 0, bot |-> FALSE]
  /\ event = [e \in Events |-> [state |-> "absent", at |-> 0]]
  /\ candidate = Nothing /\ decision = Nothing /\ post = Nothing
  /\ feedback = {} /\ held = Nothing /\ changes = 0

(* Messages come in order; one that was delivered may come again.          *)
Sendable == {m \in 1..MaxMessages : m \in seen \/ m = Cardinality(seen) + 1}

Next ==
  \/ \E m \in Sendable : ObserveMessage(m)
  \/ \E e \in Events : EventHappens(e) \/ ScanEvent(e)
  \/ \E c \in DOMAIN candidate : TakeUp(c)
  \/ Simulate
  \/ \E c \in DOMAIN held :
       \/ \E fit \in BOOLEAN : Evaluate(c, fit)
       \/ \E answer \in Answers : CompleteModel(c, answer)
       \/ CompletionLost(c)
  \/ \E u \in Members : \/ \E until \in {Never, clock + 1} : SetQuiet(u, until)
                        \/ SetCallbackConsent(u)
  \/ \E off \in BOOLEAN : SetGlobalDisabled(off)
  \/ WithdrawEntry
  \/ \E c \in DOMAIN post :
       \/ \E u \in Members : \/ RecordFeedback(c, u, "quiet", clock + 1)
                             \/ RecordFeedback(c, u, "sentiment", Never)
       \/ Attempt(c)
       \/ \E s \in {"delivered", "failed"} : Delivery(c, s)
  \/ \E m \in Modes : Restart(m)
  \/ Tick

Spec == Init /\ [][Next]_vars

-----------------------------------------------------------------------------
(* Properties *)

(* The state of every part is one the code can store.                      *)
TypeOK ==
  /\ mode.name \in Modes /\ control.quiet \in Never..(MaxClock + 1)
  /\ optIn \subseteq Members
  /\ DOMAIN decision \subseteq DOMAIN candidate
  /\ DOMAIN post = {c \in DOMAIN decision : decision[c].action = "live_queued"}
  /\ DOMAIN held \subseteq DOMAIN candidate
  /\ \A c \in DOMAIN decision : decision[c].state = "model_pending" =>
       decision[c].action = "none"

(* The two posts that followed each other in one budget are apart by the   *)
(* gap and by enough messages, no window holds more than its maximum, and  *)
(* no entry comes back within its cooldown, whatever happened while their  *)
(* texts were generated.                                                   *)
RareAppearances ==
  \A c \in DOMAIN post :
    LET before == {d \in DOMAIN post \ {c} :
                     post[d].test = post[c].test /\ post[d].at <= post[c].at}
        near   == {d \in before : post[d].at > post[c].at - BudgetWindow} IN
    /\ Cardinality(near) < BudgetMax
    /\ \A d \in near : /\ post[c].at - post[d].at >= MinGap
                       /\ post[c].count - post[d].count >= AfterPrevious
    /\ Themed(c) => \A d \in before :
         Themed(d) => post[c].at - post[d].at >= ThemeCooldown

(* No message serves two candidates, though the gateway delivers it twice  *)
(* and its row is purged in between.                                       *)
MessagesUsedOnce ==
  \A c, d \in DOMAIN candidate : c # d => c \cap d = {}

(* A post that is attempted for the first time is one the controls of this *)
(* moment allow: output is not disabled, nobody asked for quiet since it   *)
(* was queued, the mode is that of its decision, everyone it is about      *)
(* consents, and its entry is still shared.                                *)
SpeaksUnderControls ==
  [][\A c \in DOMAIN post :
       ~post[c].tried /\ post'[c].tried =>
         /\ ~control.disabled /\ ~(control.quiet > clock)
         /\ post[c].epoch = mode.since
         /\ Consent(post[c].who)
         /\ Themed(c) => shared]_vars

(* What was final stays as it was decided, and a candidate is decided      *)
(* once: a generation that answers late changes nothing.                   *)
DecidedOnce ==
  [][\A c \in DOMAIN decision :
       /\ c \in DOMAIN decision'
       /\ decision[c].state = "final" => decision'[c] = decision[c]]_vars
=============================================================================
