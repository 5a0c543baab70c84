------------------------------- MODULE Speech -------------------------------
(* The speech queue (SpeechService and its repository) of one voice        *)
(* session: rows of speech_item claimed by the synthesis worker, handed to *)
(* the playback worker and sent to the gateway, while the session is       *)
(* muted, drops and rejoins, is left or closed by the worker of Vox, and   *)
(* while voice input listens.  A step ends where a lock is released or a   *)
(* transaction commits.                                                    *)
EXTENDS Integers, Sequences, FiniteSets, SequencesExt

CONSTANTS
  Items,      \* speech items: the lines that may be asked for
  Kind,       \* each line's kind, see Kinds
  Capacity,   \* items of a session that may wait, critical ones aside
  QueueCap,   \* tasks of the synthesis worker
  MaxActs,    \* acts of members, the owner and the transport, all together
  None        \* no item

VARIABLES
  row,        \* the session as voice_session has it, its mute remembered
  call,       \* what the worker of Vox still has to do in a call to this
  active,     \* active_session_id_ is the session
  muted, transport,   \* muted_ and transport_ready_
  listening,  \* voice_input_listening_
  quiet,      \* automatic_narration_suppressed_
  item,       \* speech_item: state and revision
  late,       \* items past their expiry
  tasks,      \* the queue of synthesis_worker_
  worker,     \* what the synthesis worker does
  play,       \* what the playback worker does
  playing, pending,   \* playing_ and playback_pending_
  sound,      \* the line the gateway is sending
  flavor,     \* prepared_flavor_ of the session
  making,     \* what flavor_worker_ prepares
  acts

session == <<row, call, active, muted, transport>>
policy  == <<listening, quiet>>
flavors == <<flavor, making>>
vars == <<session, policy, item, late, tasks, worker, play, playing, pending,
          sound, flavors, acts>>

Kinds == {"flavor", "narration", "interactive", "critical", "farewell", "warm"}

Automatic(i) == Kind[i] # "interactive"
Generated(i) == Kind[i] \in {"interactive", "narration"}
Rank(i) == CASE Kind[i] = "critical"    -> 4
             [] Kind[i] = "interactive" -> 3
             [] Kind[i] = "narration"   -> 2
             [] OTHER                   -> 1

Live     == {"pending", "synthesizing", "ready", "playing"}
Terminal == {"played", "failed", "expired", "cancelled"}

(* speech_transition_allowed                                               *)
Allowed(from, to) ==
  CASE from = "pending"      -> to \in {"synthesizing", "cancelled", "expired"}
    [] from = "synthesizing" -> to \in {"pending", "ready", "failed", "cancelled", "expired"}
    [] from = "ready"        -> to \in {"pending", "playing", "cancelled", "expired", "failed"}
    [] from = "playing"      -> to \in {"played", "failed", "cancelled"}
    [] OTHER                 -> FALSE

Move(f, i, to) == [f EXCEPT ![i] = [state |-> to, rev |-> @.rev + 1]]
MoveAll(f, S, to) ==
  [i \in Items |-> IF i \in S THEN [state |-> to, rev |-> f[i].rev + 1] ELSE f[i]]

Act == acts < MaxActs /\ acts' = acts + 1

(* persist_terminal retries until the row is terminal, by itself or by     *)
(* another: what the row's state does not allow has to wait.               *)
MayEnd(i, to) == item[i].state \in Terminal \/ Allowed(item[i].state, to)
Ended(i, to)  == IF item[i].state \in Terminal THEN item ELSE Move(item, i, to)

-----------------------------------------------------------------------------
(* Admission *)

Admits(i) == \/ row.state \in {"ready", "muted"}
             \/ row.state = "leaving" /\ Kind[i] \in {"farewell", "warm"}

Waiting(f, i) == {j \in Items \ late : f[j].state \in Live
                                /\ (Kind[j] = "critical") = (Kind[i] = "critical")}
(* Seeded fault: the limit is passed by one.                               *)
Room_over(f, i) == Cardinality(Waiting(f, i)) <= (IF Kind[i] = "critical" THEN 2 ELSE Capacity)

Room(f, i) == Cardinality(Waiting(f, i)) < (IF Kind[i] = "critical" THEN 2 ELSE Capacity)
Evictable(f, i) == IF Kind[i] \in {"narration", "interactive"}
                   THEN {j \in Items : Rank(j) = 1 /\ f[j].state \in {"pending", "ready"}}
                   ELSE {}

Expired(f, S) == MoveAll(f, {j \in late : f[j].state \in S}, "expired")

(* enqueue: what the table holds afterwards.  Items that expired go first; *)
(* of a full queue a line of flavor gives way.                             *)
Enqueued(f, i) ==
  LET e == Expired(f, {"pending", "ready"})
      new(g) == [g EXCEPT ![i] = [state |-> "pending", rev |-> 1]]
  IN
  IF f[i].state # "none" \/ ~Admits(i) THEN {f}
  ELSE IF Room(e, i) THEN {new(e)}
  ELSE IF Evictable(e, i) = {} THEN {e}
  ELSE {new(Move(e, j, "cancelled")) : j \in Evictable(e, i)}

Pump == [do |-> "pump"]

(* Of two pumps in a row the second finds what the first left.             *)
Queued(t) ==
  IF Len(tasks) >= QueueCap \/ (t = Pump /\ tasks # <<>> /\ Last(tasks) = Pump)
  THEN tasks ELSE Append(tasks, t)

(* say, and the narration repository's enqueue_reference, which is given   *)
(* an unmuted session only.                                                *)
Ask(i) ==
  /\ Generated(i) /\ item[i].state = "none" /\ call = "none"
  /\ Kind[i] = "interactive" => ~listening /\ Admits(i)
  /\ Kind[i] = "narration" => row.state = "ready" /\ ~quiet
  /\ item' \in Enqueued(item, i) /\ tasks' = Queued(Pump)
  /\ UNCHANGED <<session, policy, late, worker, play, playing, pending, sound,
                 flavors, acts>>

(* Time passes for a line.                                                 *)
Expire(i) ==
  /\ Act /\ item[i].state \in Live /\ i \notin late /\ late' = late \cup {i}
  /\ UNCHANGED <<session, policy, item, tasks, worker, play, playing, pending,
                 sound, flavors>>

-----------------------------------------------------------------------------
(* Calls of Vox's worker, one at a time *)

Vox(from) == Act /\ call = "none" /\ row.state \in from

VoxReady ==
  /\ Vox({"reconnecting"})
  /\ row' = [row EXCEPT !.state = IF row.mute THEN "muted" ELSE "ready"]
  /\ tasks' = Queued([do |-> "ready", mute |-> row.mute])
  /\ UNCHANGED <<call, active, muted, transport, policy, item, late, worker, play,
                 playing, pending, sound, flavors>>

VoxDrop ==
  /\ Vox({"ready", "muted"})
  /\ row' = [row EXCEPT !.state = "reconnecting"]
  /\ transport' = (transport /\ ~active)
  /\ tasks' = Queued([do |-> "reconnecting"])
  /\ UNCHANGED <<call, active, muted, policy, item, late, worker, play, playing,
                 pending, sound, flavors>>

(* set_muted: what plays unasked is stopped at once, and what waits is     *)
(* cancelled after that.                                                   *)
VoxMute ==
  /\ Vox({"ready"})
  /\ row' = [state |-> "muted", mute |-> TRUE]
  /\ IF ~active THEN UNCHANGED <<call, muted, sound, flavor>>
     ELSE /\ muted' = TRUE /\ call' = "mute" /\ flavor' = None
          /\ sound' = IF playing # None /\ Automatic(playing) THEN None ELSE sound
  /\ UNCHANGED <<active, transport, policy, item, late, tasks, worker, play, playing,
                 pending, making>>

MuteCancels ==
  /\ call = "mute" /\ call' = "none"
  /\ item' = MoveAll(item, {i \in Items : item[i].state \in Live /\ Automatic(i)}, "cancelled")
  /\ playing' = IF playing # None /\ Automatic(playing) THEN None ELSE playing
  /\ UNCHANGED <<row, active, muted, transport, policy, late, tasks, worker, play,
                 pending, sound, flavors, acts>>

VoxUnmute ==
  /\ Vox({"muted"})
  /\ row' = [state |-> "ready", mute |-> FALSE]
  /\ IF active THEN muted' = FALSE /\ tasks' = Queued(Pump) ELSE UNCHANGED <<muted, tasks>>
  /\ UNCHANGED <<call, active, transport, policy, item, late, worker, play, playing,
                 pending, sound, flavors>>

(* session_leaving: everything is cancelled and the farewell takes its     *)
(* place, the prepared one if that is allowed.                             *)
VoxLeave ==
  /\ Vox({"ready", "muted"})
  /\ row' = [row EXCEPT !.state = "leaving"]
  /\ IF active THEN call' = "cancel" /\ sound' = None ELSE UNCHANGED <<call, sound>>
  /\ UNCHANGED <<active, muted, transport, policy, item, late, tasks, worker, play,
                 playing, pending, flavors>>

LeaveCancels ==
  /\ call = "cancel" /\ call' = "farewell"
  /\ item' = MoveAll(item, {i \in Items : item[i].state \in Live}, "cancelled")
  /\ UNCHANGED <<row, active, muted, transport, policy, late, tasks, worker, play,
                 playing, pending, sound, flavors, acts>>

Farewells(warm) == {i \in Items : Kind[i] = IF warm THEN "warm" ELSE "farewell"}

LeaveFarewell ==
  /\ call = "farewell" /\ call' = "none" /\ playing' = None
  /\ IF muted \/ listening
     THEN UNCHANGED <<item, tasks, flavor>>
     ELSE /\ \E i \in Farewells(flavor # None /\ flavor.farewell /\ ~quiet) :
               item' \in Enqueued(item, i)
          /\ tasks' = Queued(Pump) /\ flavor' = None
  /\ UNCHANGED <<row, active, muted, transport, policy, late, worker, play, pending,
                 sound, making, acts>>

(* The session ends, for whichever reason.                                 *)
VoxClosed ==
  /\ Vox({"ready", "muted", "reconnecting", "leaving"})
  /\ row' = [row EXCEPT !.state = "gone"]
  /\ transport' = (transport /\ ~active)
  /\ flavor' = None /\ tasks' = Queued([do |-> "closed"])
  /\ UNCHANGED <<call, active, muted, policy, item, late, worker, play, playing,
                 pending, sound, making>>

Listen ==
  /\ Act /\ listening' = ~listening
  /\ tasks' = IF listening THEN Queued(Pump) ELSE tasks
  /\ UNCHANGED <<session, quiet, item, late, worker, play, playing, pending, sound,
                 flavors>>

Hush ==
  /\ Act /\ quiet' = ~quiet
  /\ UNCHANGED <<session, listening, item, late, tasks, worker, play, playing, pending,
                 sound, flavors>>

(* The gateway has sent a line: track_marker.                              *)
Marker ==
  /\ sound # None /\ call = "none"
  /\ sound' = None /\ tasks' = Queued([do |-> "marker", i |-> sound])
  /\ UNCHANGED <<session, policy, item, late, worker, play, playing, pending, flavors,
                 acts>>

-----------------------------------------------------------------------------
(* The synthesis worker *)

Idle == [at |-> "idle", i |-> None, rev |-> 0, mute |-> FALSE]
At(where) == [worker EXCEPT !.at = where]

(* What is in hand when a task ends is put down.                           *)
Begin ==
  /\ worker.at = "idle" /\ tasks # <<>>
  /\ LET t == Head(tasks) IN
     /\ tasks' = Tail(tasks)
     /\ \/ /\ t.do = "pump" /\ worker' = At("pump")
           /\ UNCHANGED <<active, muted, transport, item, playing, sound>>
        \/ /\ t.do = "ready" /\ worker' = At("pump")
           /\ active' = TRUE /\ muted' = t.mute /\ transport' = TRUE
           /\ UNCHANGED <<item, playing, sound>>
        \/ /\ t.do \in {"reconnecting", "closed"}
           /\ worker' = At(IF t.do = "closed" THEN "close" ELSE "defer")
           /\ sound' = None /\ playing' = None
           /\ item' = IF playing = None THEN item ELSE Ended(playing, "failed")
           /\ UNCHANGED <<active, muted, transport>>
        \/ /\ t.do = "marker"
           /\ IF playing # t.i THEN worker' = worker /\ UNCHANGED <<item, playing>>
              ELSE worker' = At("pump") /\ item' = Ended(t.i, "played") /\ playing' = None
           /\ UNCHANGED <<active, muted, transport, sound>>
  /\ UNCHANGED <<row, call, policy, late, play, pending, flavors, acts>>

(* cancel_session of a reconnect: narration waits for the transport, only   *)
(* what is asked for goes on.                                              *)
Deferred ==
  [i \in Items |->
     IF item[i].state \notin Live \/ ~Automatic(i) THEN item[i]
     ELSE IF Kind[i] = "narration" /\ item[i].state # "playing"
     THEN IF item[i].state = "pending" THEN item[i]
          ELSE [state |-> "pending", rev |-> item[i].rev + 1]
     ELSE [state |-> "cancelled", rev |-> item[i].rev + 1]]

Defer ==
  /\ worker.at = "defer" /\ item' = Deferred /\ worker' = At("deferred")
  /\ UNCHANGED <<session, policy, late, tasks, play, playing, pending, sound, flavors,
                 acts>>

Close ==
  /\ worker.at = "close" /\ worker' = At("closed")
  /\ item' = MoveAll(item, {i \in Items : item[i].state \in Live}, "cancelled")
  /\ UNCHANGED <<session, policy, late, tasks, play, playing, pending, sound, flavors,
                 acts>>

Cleared ==
  /\ worker.at \in {"deferred", "closed"} /\ worker' = Idle /\ playing' = None
  /\ IF worker.at = "closed" THEN active' = FALSE /\ muted' = FALSE
     ELSE UNCHANGED <<active, muted>>
  /\ UNCHANGED <<row, call, transport, policy, item, late, tasks, play, pending, sound,
                 flavors, acts>>

Wired == row.state \in {"ready", "muted", "leaving"}

(* Seeded fault: a line that was handed over is not looked at.             *)
Busy_playing == playing # None

Busy == playing # None \/ pending # None

PumpBegins ==
  /\ worker.at = "pump"
  /\ worker' = IF listening \/ Busy \/ ~active \/ ~Wired
               THEN Idle ELSE [Idle EXCEPT !.at = "claim", !.mute = muted]
  /\ UNCHANGED <<session, policy, item, late, tasks, play, playing, pending, sound,
                 flavors, acts>>

Next2Say(f) == {i \in Items : f[i].state = "pending" /\ i \notin late
                 /\ \A j \in Items \ late : f[j].state = "pending" => Rank(j) <= Rank(i)}

Suppressed(i) == quiet /\ Kind[i] \in {"narration", "warm"}

(* suppress_automatic_item: a warm farewell leaves its place to the plain  *)
(* one, which enqueue_static does not ask for while voice input listens.   *)
Plain == {j \in Items : Kind[j] = "farewell"}
Replaces(i) == Kind[i] = "warm" /\ active

SuppressedNow(f, i) ==
  LET g == IF f[i].state \in Terminal THEN f ELSE Move(f, i, "cancelled") IN
  IF Replaces(i) /\ ~listening THEN UNION {Enqueued(g, j) : j \in Plain} ELSE {g}

(* Where the plain one was not accepted the pump ends.                     *)
SuppressedAs(f, i) ==
  \E g \in SuppressedNow(f, i) :
    /\ item' = g
    /\ worker' = IF Replaces(i) => ~listening /\ \E j \in Plain : g[j].state # "none"
                 THEN At("claim") ELSE Idle

Claim ==
  /\ worker.at = "claim"
  /\ LET e == Expired(item, {"pending"}) IN
     IF Next2Say(e) = {} THEN item' = e /\ worker' = Idle
     ELSE \E i \in Next2Say(e) :
            LET c == Move(e, i, "synthesizing") IN
            IF worker.mute /\ Automatic(i)
            THEN item' = Move(c, i, "cancelled") /\ UNCHANGED worker
            ELSE IF Suppressed(i) THEN SuppressedAs(c, i)
            ELSE /\ item' = c
                 /\ worker' = [worker EXCEPT !.at = "synth", !.i = i, !.rev = c[i].rev]
  /\ UNCHANGED <<session, policy, late, tasks, play, playing, pending, sound, flavors,
                 acts>>

(* enqueue_error_fallback: the error line speaks before the others.  That  *)
(* it could not be written is ignored.                                     *)
WithError(f) ==
  {f} \cup IF listening THEN {}
           ELSE UNION {Enqueued(f, i) : i \in {j \in Items : Kind[j] = "critical"}}

(* A line that was failed by this, and not ended before, has the error     *)
(* line follow it.                                                         *)
Fails(i) ==
  item' \in IF item[i].state \in Terminal \/ ~Generated(i) THEN {Ended(i, "failed")}
            ELSE WithError(Ended(i, "failed"))

Synthesize ==
  /\ worker.at = "synth"
  /\ \/ worker' = At("made") /\ UNCHANGED item
     \/ /\ Generated(worker.i) \/ worker.i \in late
        /\ worker' = At("claim") /\ Fails(worker.i)
  /\ UNCHANGED <<session, policy, late, tasks, play, playing, pending, sound, flavors,
                 acts>>

Parked(i) == Kind[i] = "narration" /\ active /\ ~transport

Made ==
  /\ worker.at = "made"
  /\ LET i == worker.i IN
     \/ /\ i \in late /\ item' = Ended(i, "expired") /\ worker' = At("claim")
     \/ /\ i \notin late /\ muted /\ Automatic(i)
        /\ item' = Ended(i, "cancelled") /\ worker' = At("claim")
     \/ /\ i \notin late /\ ~(muted /\ Automatic(i)) /\ Suppressed(i)
        /\ SuppressedAs(item, i)
     \/ /\ i \notin late /\ ~(muted /\ Automatic(i)) /\ ~Suppressed(i)
        /\ IF item[i].rev = worker.rev
           THEN /\ item' = Move(item, i, "ready")
                /\ worker' = [worker EXCEPT !.at = "ready", !.rev = @ + 1]
           ELSE /\ UNCHANGED item
                /\ worker' = IF Parked(i) /\ item[i].state = "pending" THEN Idle ELSE At("claim")
  /\ UNCHANGED <<session, policy, late, tasks, play, playing, pending, sound, flavors,
                 acts>>

(* submit_playback: one line at a time.                                    *)
HandOver ==
  /\ worker.at = "ready"
  /\ LET i == worker.i IN
     IF Parked(i) \/ listening
     THEN worker' = Idle /\ UNCHANGED <<item, play, pending>>
     ELSE IF Busy
     THEN worker' = At("claim") /\ Fails(i) /\ UNCHANGED <<play, pending>>
     ELSE /\ pending' = i /\ worker' = Idle
          /\ play' = [at |-> "handed", i |-> i, rev |-> worker.rev]
          /\ UNCHANGED item
  /\ UNCHANGED <<session, policy, late, tasks, playing, sound, flavors, acts>>

-----------------------------------------------------------------------------
(* The playback worker *)

Resting == [at |-> "none", i |-> None, rev |-> 0]
Rests == play' = Resting /\ pending' = None

Submit ==
  /\ play.at = "handed"
  /\ LET i == play.i IN
     \/ /\ i \in late /\ MayEnd(i, "expired")
        /\ item' = Ended(i, "expired") /\ Rests /\ tasks' = Queued(Pump)
     \/ /\ i \notin late /\ Parked(i) /\ Rests /\ UNCHANGED <<item, tasks>>
     \/ /\ i \notin late /\ ~Parked(i) /\ Suppressed(i)
        /\ item' \in SuppressedNow(item, i) /\ Rests /\ tasks' = Queued(Pump)
     \/ /\ i \notin late /\ ~Parked(i) /\ ~Suppressed(i)
        /\ IF item[i].rev = play.rev
           THEN /\ item' = Move(item, i, "playing")
                /\ play' = [play EXCEPT !.at = "marked", !.rev = @ + 1]
                /\ UNCHANGED <<pending, tasks>>
           ELSE IF muted /\ Automatic(i)
           THEN Rests /\ tasks' = Queued(Pump) /\ UNCHANGED item
           ELSE play' = [play EXCEPT !.at = "fail"] /\ UNCHANGED <<item, pending, tasks>>
  /\ UNCHANGED <<session, policy, late, worker, playing, sound, flavors, acts>>

(* Seeded fault: a mute that came after the claim is not looked at.        *)
Unwanted_muted(i) == ~active \/ Parked(i)

Unwanted(i) == ~active \/ (muted /\ Automatic(i)) \/ Parked(i)

(* Under the lock it is decided whether the line is still wanted, and it   *)
(* is sent.                                                                *)
Send ==
  /\ play.at = "marked"
  /\ LET i == play.i IN
     IF Suppressed(i)
     THEN /\ item' \in SuppressedNow(item, i) /\ Rests /\ tasks' = Queued(Pump)
          /\ UNCHANGED <<playing, sound>>
     ELSE IF Unwanted(i)
     THEN play' = [play EXCEPT !.at = "cancel"]
            /\ UNCHANGED <<item, playing, pending, sound, tasks>>
     ELSE /\ playing' = i
          /\ IF Wired THEN sound' = i /\ Rests
             ELSE play' = [play EXCEPT !.at = "fail"] /\ UNCHANGED <<sound, pending>>
          /\ UNCHANGED <<item, tasks>>
  /\ UNCHANGED <<session, policy, late, worker, flavors, acts>>

Give(i) == IF playing = i THEN None ELSE playing

(* Seeded fault: nobody looks for the next line.                           *)
Refuse_silent ==
  /\ \/ play.at = "cancel" /\ MayEnd(play.i, "cancelled") /\ item' = Ended(play.i, "cancelled")
     \/ play.at = "fail" /\ MayEnd(play.i, "failed") /\ Fails(play.i)
  /\ playing' = Give(play.i) /\ Rests
  /\ UNCHANGED <<session, policy, late, tasks, worker, sound, flavors, acts>>

(* Seeded fault: a refused line is put down as it is.                      *)
Refuse_stranded ==
  /\ play.at \in {"cancel", "fail"} /\ playing' = Give(play.i) /\ Rests
  /\ tasks' = Queued(Pump)
  /\ UNCHANGED <<session, policy, item, late, worker, sound, flavors, acts>>

Refuse ==
  /\ \/ play.at = "cancel" /\ MayEnd(play.i, "cancelled") /\ item' = Ended(play.i, "cancelled")
     \/ play.at = "fail" /\ MayEnd(play.i, "failed") /\ Fails(play.i)
  /\ playing' = Give(play.i) /\ Rests /\ tasks' = Queued(Pump)
  /\ UNCHANGED <<session, policy, late, worker, sound, flavors, acts>>

-----------------------------------------------------------------------------
(* Entrances and farewells made for the session *)

NewFlavor == [entrance |-> FALSE, consumed |-> FALSE, farewell |-> FALSE]
NoMaking  == "none"

(* begin_session_flavor, as Vox begins a session, and the request for two  *)
(* lines that goes to the AI worker, if it has a place.                    *)
BeginFlavor ==
  /\ Act /\ row.state = "reconnecting" /\ flavor = None /\ ~muted /\ ~quiet
  /\ flavor' = NewFlavor
  /\ making' \in {making} \cup {m \in {"asked"} : making = NoMaking}
  /\ UNCHANGED <<session, policy, item, late, tasks, worker, play, playing, pending,
                 sound>>

(* session_flavor_context: the session goes on, unmuted; and no quiet.     *)
FlavorContext == row.state \in {"reconnecting", "ready"} /\ ~quiet

(* The context is read before the model is asked and again after it.  What *)
(* it wrote may be of no use.                                              *)
FlavorWritten ==
  /\ making \in {"asked", "writing"}
  /\ making' \in {NoMaking} \cup (IF ~FlavorContext THEN {}
                                  ELSE IF making = "asked" THEN {"writing"} ELSE {"written"})
  /\ UNCHANGED <<session, policy, item, late, tasks, worker, play, playing, pending,
                 sound, flavor, acts>>

(* prepare_session_flavor: a mute, a quiet hour or a leave has taken the   *)
(* flavor away by now, or a line can be synthesized for it.                *)
PrepareFlavor ==
  /\ making = "written" /\ making' = IF flavor = None THEN NoMaking ELSE "entrance"
  /\ UNCHANGED <<session, policy, item, late, tasks, worker, play, playing, pending,
                 sound, flavor, acts>>

FlavorAllowed == flavor # None /\ ~(active /\ muted) /\ ~quiet
EntranceAllowed == FlavorAllowed /\ ~flavor.consumed

(* Seeded fault: what a mute took away is made again.                      *)
FlavorMade_again ==
  /\ making \in {"entrance made", "farewell made"}
  /\ making' = IF making = "entrance made" THEN "farewell" ELSE NoMaking
  /\ flavor' = IF making = "entrance made" THEN [NewFlavor EXCEPT !.entrance = TRUE]
               ELSE [NewFlavor EXCEPT !.farewell = TRUE]
  /\ UNCHANGED <<session, policy, item, late, tasks, worker, play, playing, pending,
                 sound, acts>>

(* Between the checks a line is synthesized.                               *)
FlavorBegun ==
  /\ \/ making = "entrance" /\ making' = IF EntranceAllowed THEN "entrance made" ELSE "farewell"
     \/ making = "farewell" /\ making' = IF FlavorAllowed THEN "farewell made" ELSE NoMaking
  /\ UNCHANGED <<session, policy, item, late, tasks, worker, play, playing, pending,
                 sound, flavor, acts>>

FlavorMade ==
  /\ \/ /\ making = "entrance made" /\ making' = "farewell"
        /\ flavor' = IF EntranceAllowed THEN [flavor EXCEPT !.entrance = TRUE] ELSE flavor
     \/ /\ making = "farewell made" /\ making' = NoMaking
        /\ flavor' = IF FlavorAllowed THEN [flavor EXCEPT !.farewell = TRUE] ELSE flavor
  /\ UNCHANGED <<session, policy, item, late, tasks, worker, play, playing, pending,
                 sound, acts>>

(* take_prepared_entrance: once, whether it was made by then or not.       *)
TakeEntrance ==
  /\ flavor # None /\ row.state \in {"reconnecting", "ready"} /\ ~flavor.consumed
  /\ flavor' = [flavor EXCEPT !.entrance = FALSE, !.consumed = TRUE]
  /\ UNCHANGED <<session, policy, item, late, tasks, worker, play, playing, pending,
                 sound, making, acts>>

-----------------------------------------------------------------------------
Init ==
  /\ row = [state |-> "reconnecting", mute |-> FALSE] /\ call = "none"
  /\ active = FALSE /\ muted = FALSE /\ transport = FALSE
  /\ listening = FALSE /\ quiet = FALSE
  /\ item = [i \in Items |-> [state |-> "none", rev |-> 0]] /\ late = {}
  /\ tasks = <<>> /\ worker = Idle /\ play = Resting
  /\ playing = None /\ pending = None /\ sound = None
  /\ flavor = None /\ making = NoMaking /\ acts = 0

CallGoesOn == MuteCancels \/ LeaveCancels \/ LeaveFarewell
VoxStep == \/ VoxReady \/ VoxDrop \/ VoxMute \/ VoxUnmute \/ VoxLeave \/ VoxClosed
           \/ CallGoesOn
SynthesisStep == \/ Begin \/ Defer \/ Close \/ Cleared \/ PumpBegins \/ Claim
                 \/ Synthesize \/ Made \/ HandOver
PlaybackStep == Submit \/ Send \/ Refuse
FlavorStep == FlavorWritten \/ PrepareFlavor \/ FlavorBegun \/ FlavorMade \/ TakeEntrance

Next ==
  \/ VoxStep \/ SynthesisStep \/ PlaybackStep \/ FlavorStep \/ BeginFlavor
  \/ Marker \/ Listen \/ Hush
  \/ \E i \in Items : Ask(i) \/ Expire(i)

(* The workers and the gateway go on; nobody has to act.                   *)
Fairness == /\ WF_vars(SynthesisStep) /\ WF_vars(PlaybackStep) /\ WF_vars(Marker)
            /\ WF_vars(CallGoesOn)

Spec == Init /\ [][Next]_vars /\ Fairness

-----------------------------------------------------------------------------
(* Properties *)

TypeOK ==
  /\ \A i \in Items : item[i].state \in Live \cup Terminal \cup {"none"}
  /\ playing \in Items \cup {None} /\ pending \in Items \cup {None}
  /\ Len(tasks) <= QueueCap
  /\ \A c \in BOOLEAN :
       Cardinality({i \in Items \ late : item[i].state \in Live /\ (Kind[i] = "critical") = c})
         <= IF c THEN 2 ELSE Capacity

(* No row is stranded in the hands of nobody: what is being synthesized is *)
(* with the synthesis worker, what is playing is with the playback worker  *)
(* or is the line whose marker is awaited, and a line that sounds is that  *)
(* line, as long as the session is not left.                               *)
HeldBySomeone ==
  /\ \A i \in Items :
       /\ item[i].state = "synthesizing" => worker.i = i /\ worker.at \in {"synth", "made"}
       /\ item[i].state = "playing" => play.i = i \/ playing = i
  /\ sound \notin {None, playing} => row.state \in {"leaving", "gone"}

(* One line at a time is on its way to the channel, whoever interrupts,    *)
(* and the table agrees.                                                   *)
OneLineAtATime ==
  /\ playing # None /\ pending # None => playing = pending
  /\ Cardinality({i \in Items : item[i].state = "playing"}) <= 1

(* What is sent is still wanted by the table, whoever cancelled it in the  *)
(* meantime and from which thread.                                         *)
SendsWanted ==
  sound' \notin {None, sound} =>
    \/ item[sound'].state = "playing"
    \/ row.state \in {"leaving", "gone"} \/ row.mute # muted

(* Generated greetings that a mute, a leave or another session dropped are *)
(* not brought back by a late answer, and an entrance is not made twice.   *)
LateFlavorStays ==
  [][/\ flavor = None /\ flavor' # None => making' = making \/ making = NoMaking
     /\ flavor # None /\ flavor' # None /\ flavor.consumed =>
          ~flavor'.entrance]_vars

(* Whoever waits is heard or told: a line of a session that stays ready,   *)
(* with nobody listening, ends.                                            *)
LinesSettle ==
  \A i \in Items :
    (<>[](row.state = "ready" /\ ~listening)) => []<>(item[i].state \notin Live)
=============================================================================
