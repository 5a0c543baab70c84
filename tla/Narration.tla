----------------------------- MODULE Narration -----------------------------
(* What Vox says of itself: events of the journal become narration         *)
(* intents, bound to the voice session they fell in; the service claims    *)
(* one in each cycle of the orchestrator, asks the model for a line on the *)
(* shared AI worker, and hands the line to the speech queue.  Each action  *)
(* is a transaction of the repository, or the stretch of the service       *)
(* between two of them.                                                    *)
EXTENDS Integers, FiniteSets

CONSTANTS
  Events,        \* events of the journal that have a narration policy
  Type,          \* the type of each
  Test,          \* those made by the owner's test commands
  Sessions,      \* voice sessions, 1..n in the order they begin
  ObserveLimit,  \* events observed in a pass, 32 in the code
  MaxActs        \* acts of members, the owner and the transport, all together

(* What the proofs suppose of the constants: Types is vox_narration_policy. *)
Types == {"title", "result", "closed", "draw", "opened", "funded", "appearance"}

ASSUME NarrationAssumption ==
  /\ Type \in [Events -> Types] /\ Test \subseteq Events
  /\ Sessions \subseteq Nat \ {0} /\ ObserveLimit \in Nat \ {0} /\ MaxActs \in Nat

VARIABLES
  row,       \* the event's place in event_journal, 0 before
  head,      \* how many events there are
  eligible,  \* events whose public projection holds, as it was observed
  card,      \* the public message that tells of the event, in the outbox
  late,      \* events past their time to live
  ses,       \* voice_session: state, mutes so far, narration_event_rowid_floor
  quiet,     \* appearance_control_state: quiet until later
  config,    \* enabled_ and test_mode_
  up,        \* the process runs
  cursor,    \* voice_narration_cursor
  intent,    \* voice_narration_intent of each event
  lapsed,    \* intents whose lease is over
  speech,    \* speech_item of each intent, as narration has to see it
  pc,        \* where run_one_cycle is
  tasks,     \* generations on the AI worker
  live,      \* live_generations_
  acts

journal == <<row, head, eligible, card, late>>
outside == <<ses, quiet, config, up, acts>>
table   == <<cursor, intent, lapsed, speech>>
service == <<pc, tasks, live>>
vars == <<journal, outside, table, service>>

(* vox_narration_policy.  Every type has a public counterpart.             *)
Feature(e) == CASE Type[e] \in {"title", "closed", "opened"} -> "chronicle"
                [] Type[e] \in {"result", "draw", "funded"}  -> "tarot"
                [] OTHER                                     -> "appearance"
Rank(e) == CASE Type[e] = "title"  -> 100
             [] Type[e] = "result" -> 90
             [] Type[e] = "closed" -> 80
             [] Type[e] = "draw"   -> 70
             [] Type[e] = "opened" -> 60
             [] Type[e] = "funded" -> 50
             [] OTHER              -> 40
Fallback(e)    == Type[e] # "appearance"
OfASession(e)  == Type[e] \in {"opened", "closed"}

Ended  == {"played", "suppressed", "failed", "expired", "cancelled"}
Active == {"pending", "generating", "queued"}
(* What a session and an item of the speech queue are to narration.        *)
VoiceSession == [state : {"none", "connecting", "ready", "muted", "reconnecting", "over"},
                 mutes : Nat, floor : Nat]
SpeechStates == {"none", "waiting", "playing", "played", "broken", "dropped"}
Absent == [state |-> "none", rev |-> 0, ses |-> 0, began |-> FALSE, hushed |-> FALSE]

(* terminalize, and every other update: the revision goes up by one.       *)
To(r, state) == [r EXCEPT !.state = state, !.rev = @ + 1]

Act == acts < MaxActs /\ acts' = acts + 1

Init ==
  /\ row = [e \in Events |-> 0] /\ head = 0 /\ eligible = {} /\ late = {}
  /\ card = [e \in Events |-> "none"]
  /\ ses = [s \in Sessions |-> [state |-> "none", mutes |-> 0, floor |-> 0]]
  /\ quiet = FALSE /\ config \in [on : BOOLEAN, test : BOOLEAN] /\ up = TRUE
  /\ cursor = 0 /\ intent = [e \in Events |-> Absent] /\ lapsed = {}
  /\ speech = [e \in Events |-> "none"]
  /\ pc = [at |-> "idle"] /\ tasks = {} /\ live = {} /\ acts = 0

-----------------------------------------------------------------------------
(* The world around it *)

(* An event is committed, public or not, with the card of its feature; a   *)
(* session's card is the narration's own.                                  *)
Record(e) ==
  /\ up /\ row[e] = 0 /\ row' = [row EXCEPT ![e] = head + 1] /\ head' = head + 1
  /\ eligible' \in {eligible, eligible \cup {e}}
  /\ \E c \in IF OfASession(e) THEN {"none"} ELSE {"none", "pending"} :
       card' = [card EXCEPT ![e] = c]
  /\ UNCHANGED <<late, outside, table, service>>

(* A title is revoked, a session abandoned, a name changed: what was       *)
(* observed of the source does not hold any more.                          *)
Withdraw(e) ==
  /\ Act /\ up /\ e \in eligible /\ eligible' = eligible \ {e}
  /\ UNCHANGED <<row, head, card, late, ses, quiet, config, up, table, service>>

Post(e) ==
  /\ up /\ card[e] = "pending"
  /\ \E c \in {"delivered", "dead"} : card' = [card EXCEPT ![e] = c]
  /\ UNCHANGED <<row, head, eligible, late, outside, table, service>>

Grow(e) ==
  /\ row[e] # 0 /\ e \notin late /\ late' = late \cup {e}
  /\ UNCHANGED <<row, head, eligible, card, outside, table, service>>

Hush ==
  /\ Act /\ up /\ quiet' = ~quiet
  /\ UNCHANGED <<journal, ses, config, up, table, service>>

Summon(s) ==
  /\ up /\ ses[s].state = "none" /\ \A r \in Sessions : ses[r].state \in {"none", "over"}
  /\ ses' = [ses EXCEPT ![s] = [@ EXCEPT !.state = "connecting", !.floor = head]]
  /\ UNCHANGED <<journal, quiet, config, up, acts, table, service>>

(* A mute adds a transition to muted: the mute epoch of the session.  What *)
(* is being generated for it then is marked, for the properties only.      *)
SessionTo(s, state) ==
  /\ up
  /\ ses' = [ses EXCEPT ![s] =
               [@ EXCEPT !.state = state,
                         !.mutes = ses[s].mutes + IF state = "muted" THEN 1 ELSE 0]]
  /\ intent' = [e \in Events |->
                  IF state = "muted" /\ intent[e].state = "generating" /\ intent[e].ses = s
                  THEN [intent[e] EXCEPT !.hushed = TRUE] ELSE intent[e]]
  /\ UNCHANGED <<journal, quiet, config, up, cursor, lapsed, speech, service>>

Ready(s)  == ses[s].state = "connecting" /\ SessionTo(s, "ready") /\ UNCHANGED acts
Rejoin(s) == /\ ses[s].state = "reconnecting" /\ UNCHANGED acts
             /\ \E state \in {"ready", "muted"} : SessionTo(s, state)
Drop(s)   == Act /\ ses[s].state \in {"ready", "muted"} /\ SessionTo(s, "reconnecting")
Mute(s)   == Act /\ ses[s].state = "ready" /\ SessionTo(s, "muted")
Unmute(s) == Act /\ ses[s].state = "muted" /\ SessionTo(s, "ready")
(* Leaving, inactive and failed are one to narration.                      *)
Leave(s)  == /\ Act /\ ses[s].state \in {"connecting", "ready", "muted", "reconnecting"}
             /\ SessionTo(s, "over")

(* The speech queue.  An item is unheard until it plays; what ends after   *)
(* that is in its history.                                                 *)
Speak(e) ==
  /\ up /\ \E to \in CASE speech[e] = "waiting" -> {"dropped"} \cup
                                 {x \in {"playing"} : ses[intent[e].ses].state = "ready"}
                       [] speech[e] = "playing" -> {"played", "broken"}
                       [] OTHER -> {} : speech' = [speech EXCEPT ![e] = to]
  /\ UNCHANGED <<journal, outside, cursor, intent, lapsed, service>>

LeaseEnds(e) ==
  /\ intent[e].state = "generating" /\ e \notin lapsed /\ lapsed' = lapsed \cup {e}
  /\ UNCHANGED <<journal, outside, cursor, intent, speech, service>>

-----------------------------------------------------------------------------
(* Observation *)

(* active_session: the session the event fell in, if it still goes on.     *)
Bound(e) == {s \in Sessions : /\ ses[s].state \in {"connecting", "ready", "muted", "reconnecting"}
                              /\ ses[s].floor < row[e]}

(* project: what the event says may be told in public, as its source is now. *)
Projected(e) == e \in eligible

(* generic_public_outbox: a public message tells of the event.             *)
HasCard(e, c) == c[e] # "none"

(* What the gates of an observation leave of an event: by its intent.      *)
Passes(e, c) == /\ config.on /\ Projected(e) /\ (e \in Test => config.test)
                /\ e \notin late /\ Bound(e) # {} /\ ~quiet /\ HasCard(e, c)
                /\ \A s \in Bound(e) : ses[s].state # "muted"
Observation(e, c) ==
  [Absent EXCEPT !.state = IF Passes(e, c) THEN "pending" ELSE "suppressed", !.rev = 1,
                 !.ses = IF Bound(e) = {} THEN 0 ELSE CHOOSE s \in Bound(e) : TRUE]

(* create_session_counterpart: a session's card is made here, whether Vox  *)
(* is there to speak or not.                                               *)
SessionCards(B) ==
  [e \in Events |-> IF e \in B /\ OfASession(e) /\ config.on /\ Projected(e) /\ e \notin late
                    THEN "pending" ELSE card[e]]

(* suppress_active_intents: what waits or is generated is suppressed, and   *)
(* what is queued is cancelled if nobody has heard of it yet.              *)
Suppressible(e) == \/ intent[e].state \in {"pending", "generating"}
                   \/ intent[e].state = "queued" /\ speech[e] = "waiting"
Suppressed(e) == IF intent[e].state = "queued" THEN To(intent[e], "cancelled")
                                               ELSE To(intent[e], "suppressed")
Unheard(S) == [e \in Events |-> IF e \in S /\ speech[e] = "waiting" THEN "dropped" ELSE speech[e]]

(* A lease is the generating row's own.                                    *)
LapsedNow(new) == {e \in lapsed : new[e].state = "generating" /\ new[e].rev = intent[e].rev}

(* observe_batch, where a pass begins.                                     *)
Observe ==
  /\ up /\ pc.at = "idle" /\ pc' = [at |-> "reconcile"]
  /\ LET S == {e \in Events : Suppressible(e)}
         B == {e \in Events : cursor < row[e] /\ row[e] <= cursor + ObserveLimit}
         cards == SessionCards(B)
     IN IF ~config.on /\ S # {}
        THEN /\ intent' = [e \in Events |-> IF e \in S THEN Suppressed(e) ELSE intent[e]]
             /\ speech' = Unheard(S) /\ UNCHANGED <<cursor, card>>
        ELSE /\ intent' = [e \in Events |-> IF e \in B /\ intent[e].state = "none"
                                            THEN Observation(e, cards) ELSE intent[e]]
             /\ cursor' = IF cursor + ObserveLimit < head THEN cursor + ObserveLimit ELSE head
             /\ card' = cards /\ UNCHANGED speech
  /\ lapsed' = LapsedNow(intent')
  /\ UNCHANGED <<row, head, eligible, late, outside, tasks, live>>

(* enqueue_reference: the owner names a test event, wherever the cursor is; *)
(* what the gates reject is observed all the same.                         *)
Enqueue(e) ==
  /\ up /\ row[e] # 0 /\ e \in Test /\ Projected(e) /\ config.test /\ intent[e].state = "none"
  /\ intent' = [intent EXCEPT ![e] = Observation(e, card)]
  /\ UNCHANGED <<journal, outside, cursor, lapsed, speech, service>>

-----------------------------------------------------------------------------
(* Reconciliation *)

(* What reconcile makes of an intent.  A lease that is over frees the      *)
(* intent, unless this process is still at work on it.                     *)
Reconciled(e) ==
  LET i == intent[e] IN
  IF quiet /\ Suppressible(e) THEN Suppressed(e)
  ELSE CASE i.state = "pending" ->
              IF card[e] = "dead" \/ ses[i.ses].state \in {"muted", "over"}
              THEN To(i, "suppressed") ELSE i
         [] i.state = "generating" ->
              IF e \notin lapsed \/ e \in live THEN i
              ELSE To(i, IF e \in late THEN "expired" ELSE "pending")
         [] i.state = "queued" /\ speech[e] = "played"              -> To(i, "played")
         [] i.state = "queued" /\ speech[e] \in {"broken", "dropped"} -> To(i, "failed")
         [] OTHER -> i

Reconcile ==
  /\ up /\ pc.at = "reconcile" /\ pc' = [at |-> IF config.on THEN "claim" ELSE "idle"]
  /\ intent' = [e \in Events |-> Reconciled(e)]
  /\ speech' = IF quiet THEN Unheard({e \in Events : intent[e].state = "queued"}) ELSE speech
  /\ lapsed' = LapsedNow(intent')
  /\ UNCHANGED <<journal, outside, cursor, tasks, live>>
-----------------------------------------------------------------------------
(* A claim *)

(* What a session has spent: what is on its way, and what was heard of     *)
(* what ended since.  A slot is free again when nobody heard its line.     *)
Played(e)   == speech[e] \in {"playing", "played", "broken"}
Spending(e) == \/ intent[e].state \in {"generating", "queued", "played"}
               \/ intent[e].state \in {"failed", "expired", "cancelled"} /\ Played(e)
Spent(s)    == {e \in Events : intent[e].ses = s /\ Spending(e)}

(* Seeded fault: a line that Vox is in the midst of can be superseded.     *)
Yields_playing(f, e) ==
  Rank(f) < Rank(e) /\ (intent[f].state = "generating" \/ intent[f].state = "queued")

(* supersede_unfinished_intent: what has to give way to a higher rank.     *)
Yields(f, e) == /\ Rank(f) < Rank(e)
                /\ \/ intent[f].state = "generating"
                   \/ intent[f].state = "queued" /\ speech[f] = "waiting"

Highest(S) == CHOOSE f \in S : \A g \in S : Rank(g) <= Rank(f)
Lowest(S)  == CHOOSE f \in S : \A g \in S : Rank(f) <= Rank(g)

(* The next: the highest rank, and the oldest of these.                    *)
Claimable == {e \in Events : /\ intent[e].state = "pending" /\ e \notin late /\ ~quiet
                             /\ ses[intent[e].ses].state = "ready" /\ card[e] = "delivered"
                             /\ (e \in Test => config.test)}
Next_(S) == CHOOSE e \in S : \A f \in S : \/ Rank(f) < Rank(e)
                                          \/ Rank(f) = Rank(e) /\ row[e] <= row[f]

Two(S) == \E f, g \in S : f # g

(* What gives way to e: first the one of its feature, then, of two that     *)
(* are left, the lower; and whether e has a place at all.                  *)
Place(e) ==
  LET all   == Spent(intent[e].ses)
      same  == {f \in all : Feature(f) = Feature(e)}
      first == IF same = {} THEN {} ELSE {Highest(same)}
      rest  == all \ first
      open  == {f \in rest : Yields(f, e)}
  IN IF \E f \in first : ~Yields(f, e) THEN [won |-> FALSE, gone |-> {}]
     ELSE IF ~Two(rest) THEN [won |-> TRUE, gone |-> first]
     ELSE IF open = {} THEN [won |-> FALSE, gone |-> first]
     ELSE [won |-> TRUE, gone |-> first \cup {Lowest(open)}]

Stale == [e \in Events |-> IF intent[e].state = "pending" /\ e \in late
                           THEN To(intent[e], "expired") ELSE intent[e]]

(* narration_budget_available and narration_queue_full.  What synthesis    *)
(* has cost and what else is queued is not kept here: either may be.       *)
BudgetSpent == BOOLEAN
QueueFull   == BOOLEAN

(* claim_next.                                                             *)
Claim ==
  /\ up /\ pc.at = "claim"
  /\ IF Claimable = {} THEN intent' = Stale /\ pc' = [at |-> "idle"] /\ UNCHANGED speech
     ELSE LET e == Next_(Claimable) IN
          \E broke \in BudgetSpent, full \in QueueFull :
            LET place == IF broke THEN [won |-> FALSE, gone |-> {}] ELSE Place(e)
                won   == place.won /\ ~full
            IN /\ intent' = [f \in Events |->
                    IF f \in place.gone THEN To(intent[f], "cancelled")
                    ELSE IF f # e THEN Stale[f]
                    ELSE IF won THEN [To(intent[e], "generating") EXCEPT !.hushed = FALSE]
                    ELSE To(intent[e], "suppressed")]
               /\ speech' = Unheard(place.gone)
               /\ pc' = IF won THEN [at |-> "given", e |-> e, rev |-> intent[e].rev + 1,
                                      mutes |-> ses[intent[e].ses].mutes]
                                 ELSE [at |-> "idle"]
  /\ lapsed' = LapsedNow(intent')
  /\ UNCHANGED <<journal, outside, cursor, tasks, live>>

-----------------------------------------------------------------------------
(* Generation *)

Fenced(j) == intent[j.e].state = "generating" /\ intent[j.e].rev = j.rev
TheSes(e) == ses[intent[e].ses]

(* complete_generation.  The source is read again when the model was asked *)
(* or the card tells a state that may have passed.                         *)
MaySay(j) ==
  /\ intent[j.e].began \/ Type[j.e] = "title" \/ OfASession(j.e) => Projected(j.e)
  /\ j.e \notin late /\ ~quiet /\ card[j.e] = "delivered"
  /\ TheSes(j.e).mutes = j.mutes /\ TheSes(j.e).state \in {"ready", "reconnecting"}

Complete(j, said) ==
  IF ~Fenced(j) THEN UNCHANGED <<intent, lapsed, speech>>
  ELSE \E admitted \in IF said /\ MaySay(j) THEN BOOLEAN ELSE {FALSE} :
         /\ intent' = [intent EXCEPT ![j.e] = To(@, IF admitted THEN "queued" ELSE "suppressed")]
         /\ speech' = IF admitted THEN [speech EXCEPT ![j.e] = "waiting"] ELSE speech
         /\ lapsed' = lapsed \ {j.e}

(* A session's line is not asked for.  Any other goes to the AI worker, or *)
(* is done with what the policy has if the worker has no place.  A write    *)
(* that fails leaves the intent to its lease.                              *)
Hand ==
  /\ up /\ pc.at = "given" /\ pc' = [at |-> "idle"]
  /\ \/ /\ ~OfASession(pc.e) /\ live' = live \cup {pc.e}
        /\ tasks' = tasks \cup {[e |-> pc.e, rev |-> pc.rev, mutes |-> pc.mutes, at |-> "sent"]}
        /\ UNCHANGED <<intent, lapsed, speech, acts>>
     \/ Complete(pc, Fallback(pc.e)) /\ UNCHANGED <<tasks, live, acts>>
     \/ Act /\ UNCHANGED <<intent, lapsed, speech, tasks, live>>
  /\ UNCHANGED <<journal, ses, quiet, config, up, cursor>>

Done(t) == tasks' = tasks \ {t} /\ live' = live \ {t.e}

(* begin_generation: the world is looked at again before the model is      *)
(* asked, and the claim renewed.  A session that reconnects defers it.     *)
Begin(t) ==
  /\ up /\ t \in tasks /\ t.at = "sent"
  /\ LET i    == intent[t.e]
         here == /\ t.e \notin late /\ (t.e \in Test => config.test) /\ Projected(t.e)
                 /\ TheSes(t.e).mutes = t.mutes
         asks == /\ here /\ TheSes(t.e).state = "ready" /\ ~quiet /\ card[t.e] = "delivered"
     IN \/ ~Fenced(t) /\ Done(t) /\ UNCHANGED <<intent, lapsed>>
        \/ /\ Fenced(t) /\ here /\ TheSes(t.e).state = "reconnecting" /\ Done(t)
           /\ intent' = [intent EXCEPT ![t.e] = To(i, "pending")] /\ lapsed' = lapsed \ {t.e}
        \/ /\ Fenced(t) /\ ~(here /\ TheSes(t.e).state = "reconnecting") /\ Done(t)
           /\ intent' = [intent EXCEPT ![t.e] =
                           To(i, IF t.e \in late THEN "expired" ELSE "suppressed")]
           /\ lapsed' = lapsed \ {t.e}
        \/ /\ Fenced(t) /\ asks /\ lapsed' = lapsed \ {t.e}
           /\ intent' = [intent EXCEPT ![t.e] = [To(i, "generating") EXCEPT !.began = TRUE]]
           /\ tasks' = (tasks \ {t}) \cup {[t EXCEPT !.rev = @ + 1, !.at = "asking"]}
           /\ UNCHANGED live
  /\ UNCHANGED <<journal, outside, cursor, speech, pc>>

(* What comes of a request: the model's line, if it is fit to be said in   *)
(* its length, its words and its claims, or the fallback, if there is one. *)
Lines(e) == {TRUE, Fallback(e)}

(* generate: what a refusal or a failure brings is the fallback.           *)
Return(t) ==
  /\ up /\ t \in tasks /\ t.at = "asking" /\ Done(t)
  /\ \E said \in Lines(t.e) : Complete(t, said)
  /\ UNCHANGED <<journal, outside, cursor, pc>>

(* A cancelled request or a failing write: the task is over, its intent    *)
(* waits for the end of its lease.                                         *)
Fail(t) ==
  /\ Act /\ up /\ t \in tasks /\ Done(t)
  /\ UNCHANGED <<journal, ses, quiet, config, up, table, pc>>

Stop ==
  /\ Act /\ up /\ up' = FALSE /\ pc' = [at |-> "idle"] /\ tasks' = {} /\ live' = {}
  /\ UNCHANGED <<journal, ses, quiet, config, table>>

(* A start, perhaps with another configuration: Vox ends the session it    *)
(* finds, and speech what was said in it.                                  *)
Boot ==
  /\ ~up /\ up' = TRUE /\ config' \in [on : BOOLEAN, test : BOOLEAN]
  /\ ses' = [s \in Sessions |-> IF ses[s].state \in {"none", "over"} THEN ses[s]
                                 ELSE [ses[s] EXCEPT !.state = "over"]]
  /\ speech' = [e \in Events |-> CASE speech[e] = "waiting" -> "dropped"
                                   [] speech[e] = "playing" -> "broken"
                                   [] OTHER -> speech[e]]
  /\ UNCHANGED <<journal, quiet, acts, cursor, intent, lapsed, service>>

-----------------------------------------------------------------------------
World == \/ \E e \in Events : \/ Record(e) \/ Withdraw(e) \/ Post(e) \/ Grow(e)
                              \/ Speak(e) \/ LeaseEnds(e)
         \/ \E s \in Sessions : \/ Summon(s) \/ Ready(s) \/ Rejoin(s) \/ Drop(s)
                                \/ Mute(s) \/ Unmute(s) \/ Leave(s)
         \/ Hush \/ Stop \/ Boot
Cycle  == Observe \/ Reconcile \/ Claim \/ Hand
Worker == \E t \in tasks : Begin(t) \/ Return(t)

Next == World \/ Cycle \/ Worker \/ (\E t \in tasks : Fail(t)) \/ (\E e \in Events : Enqueue(e))

(* The orchestrator goes on with its passes and the AI worker with its     *)
(* requests; time passes, the speech queue speaks, the process is started  *)
(* again.                                                                  *)
Passing == Boot \/ \E e \in Events : Speak(e) \/ Grow(e) \/ LeaseEnds(e)

Fairness == WF_vars(Cycle) /\ WF_vars(Worker) /\ WF_vars(Passing)

Spec == Init /\ [][Next]_vars /\ Fairness

-----------------------------------------------------------------------------
TypeOK ==
  /\ row \in [Events -> Nat] /\ head \in Nat /\ cursor \in Nat /\ acts \in Nat
  /\ eligible \subseteq Events /\ late \subseteq Events /\ lapsed \subseteq Events
  /\ live \subseteq Events /\ quiet \in BOOLEAN /\ up \in BOOLEAN
  /\ card \in [Events -> {"none", "pending", "delivered", "dead"}]
  /\ ses \in [Sessions -> VoiceSession]
  /\ config \in [on : BOOLEAN, test : BOOLEAN]
  /\ intent \in [Events -> [state : {"none"} \cup Active \cup Ended, rev : Nat,
                            ses : Sessions \cup {0}, began : BOOLEAN, hushed : BOOLEAN]]
  /\ speech \in [Events -> SpeechStates]
  /\ pc \in [at : {"idle", "reconcile", "claim"}]
            \cup [at : {"given"}, e : Events, rev : Nat, mutes : Nat]
  /\ tasks \subseteq [e : Events, rev : Nat, mutes : Nat, at : {"sent", "asking"}]

(* A session hears at most one line of a feature, and two lines in all,    *)
(* with what is still to come: no rank, no reconnection, no lost lease and  *)
(* no line that broke off buys another.  (The checks of claim_next; the    *)
(* schema's partial index knows nothing of a line that ended after it was  *)
(* heard.)                                                                 *)
Told(s) == {e \in Events : /\ intent[e].ses = s
                           /\ Played(e) \/ intent[e].state \in {"generating", "queued"}}
SparingNarration ==
  \A s \in Sessions : \A e, f \in Told(s) :
    /\ Feature(e) = Feature(f) => e = f
    /\ \A g \in Told(s) : e = f \/ f = g \/ e = g

(* No voice before the text: what is generated, queued or heard has its    *)
(* public message delivered.                                               *)
TextFirst ==
  \A e \in Events : intent[e].state \in {"generating", "queued", "played"} \/ speech[e] # "none"
                     => card[e] = "delivered"

(* The model is asked for one line of an event at a time, however often    *)
(* its lease is lost.                                                      *)
AskedOnce == /\ \A t, u \in tasks : t.e = u.e => t = u
             /\ pc.at = "given" => \A t \in tasks : t.e # pc.e

(* A line that was being written when the session was muted is not said,   *)
(* though the session be unmuted again by then.                            *)
MuteForgets == \A e \in Events : intent[e].state = "queued" => ~intent[e].hushed

(* The types and these four in one, the invariant that the run checks.     *)
NarrationHolds == TypeOK /\ SparingNarration /\ TextFirst /\ AskedOnce /\ MuteForgets

(* Every intent ends: there is always again a time when none is open.      *)
NarrationEnds == []<>(\A e \in Events : intent[e].state \notin Active)
=============================================================================
