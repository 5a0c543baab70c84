-------------------------------- MODULE Vox --------------------------------
(***************************************************************************)
(* The voice session of VoxService: its row and timeout jobs in the        *)
(* database, the one worker that serialises commands, gateway callbacks    *)
(* and timeouts, the gateway's binding, and Discord's voice state.         *)
(*                                                                         *)
(* A task runs under operation_mutex_ and is one step; what it leaves for  *)
(* reconcile_guarded is the next one, and callbacks of the gateway come in *)
(* between.  Callbacks enter the queue at its front, so of two that wait   *)
(* the newer is handled first.                                             *)
(***************************************************************************)
EXTENDS Integers, Sequences, FiniteSets, SequencesExt

CONSTANTS
  MaxSummons,   \* summons that wait for resolve_member_channel at a time
  MaxJobs,      \* timeout jobs alive at the same time
  QueueCap,     \* capacity of worker_
  MaxActs       \* bound on sessions, people coming or going, moderators' acts,
                \* errors of the transport, callbacks dropped and writes that
                \* fail, all together

(* There is always the row of a new job: a session names two, and tasks in *)
(* the queue one each.                                                     *)
ASSUME VoxAssumption ==
  /\ {MaxSummons, MaxJobs, QueueCap, MaxActs} \subseteq Nat \ {0}
  /\ MaxJobs >= QueueCap + 3

VARIABLES
  ses,        \* the latest row of voice_session
  job,        \* rows of scheduled_job for it
  up,         \* the process runs
  disabled,   \* output_operator_disabled_
  resolving,  \* resolutions_inflight_
  queue,      \* worker_: callbacks and timeouts
  reconcile,  \* reconcile_required_
  guard,      \* the task under way still has reconcile_guarded to run
  rejoined,   \* rejoin_dispatched_session_, 0 if empty
  rejected,   \* session of pending_fixture_failure_, 0 if none
  farewell,   \* the speech service holds a farewell it can still send
  bind,       \* the gateway's binding_
  suppress,   \* suppress_next_departure_
  line,       \* requests on their way to Discord
  presence,   \* where Discord has the bot
  humans,     \* people in the session's channel
  shocks      \* acts counted against MaxActs

vars == <<ses, job, up, disabled, resolving, queue, reconcile, guard, rejoined,
          rejected, farewell, bind, suppress, line, presence, humans, shocks>>

Jobs == 1..MaxJobs
Active(s) == s.state \notin {"inactive", "failed"}
Talking(s) == s.state \in {"ready", "muted"}
Dialling(s) == s.state \in {"connecting", "reconnecting"}

NoBinding == [sess |-> 0, gen |-> 0, connected |-> FALSE, ready |-> FALSE,
              moved |-> FALSE, humans |-> 0, track |-> "none", done |-> "none"]

NoJob == [kind |-> "none", state |-> "ended"]

Session(id, state, timer) ==
  [id |-> id, state |-> state, gen |-> 1, rejoins |-> 0, proof |-> "pending",
   empty |-> FALSE, timer |-> timer, muted |-> FALSE,
   muteJob |-> 0, end |-> "none"]

Init ==
  /\ ses = Session(0, "inactive", 0)
  /\ job = [j \in Jobs |-> NoJob]
  /\ up = TRUE /\ disabled = FALSE /\ resolving = 0
  /\ queue = <<>> /\ reconcile = FALSE /\ guard = FALSE
  /\ rejoined = 0 /\ rejected = 0 /\ farewell = FALSE
  /\ bind = NoBinding /\ suppress = FALSE
  /\ line = <<>> /\ presence = "out" /\ humans = 1
  /\ shocks = 0

-----------------------------------------------------------------------------
(* What a task reads and writes, carried from one of its statements to the *)
(* next.                                                                   *)

World == [ses |-> ses, job |-> job, queue |-> queue, reconcile |-> reconcile,
          rejoined |-> rejoined, rejected |-> rejected, farewell |-> farewell,
          bind |-> bind, suppress |-> suppress, line |-> line]

Become(w) ==
  /\ ses' = w.ses /\ job' = w.job /\ queue' = w.queue /\ reconcile' = w.reconcile
  /\ rejoined' = w.rejoined /\ rejected' = w.rejected
  /\ farewell' = w.farewell /\ bind' = w.bind /\ suppress' = w.suppress
  /\ line' = w.line

(* A task ends, and reconcile_guarded is left where it has work.           *)
Done(w) == Become(w) /\ guard' = w.reconcile

Room(n) == ses.id + shocks + n <= MaxActs

(* What the world answers during a task: how many of its writes succeed    *)
(* before one fails (3: all of them), and whether the gateway, or the      *)
(* speech service, takes what it is asked.                                 *)
Outcomes ==
  [writes : IF Room(1) THEN 0..3 ELSE {3}, taken : BOOLEAN]

Cost(o) == shocks' = IF o.writes < 3 THEN shocks + 1 ELSE shocks

(* A task between two others; a command also waits for every callback.     *)
Idle == up /\ ~guard
Turn == Idle /\ \A i \in DOMAIN queue : queue[i].kind = "job"

-----------------------------------------------------------------------------
(* The repository.                                                         *)

Cancelled(jobs, j) ==
  IF j # 0 THEN [jobs EXCEPT ![j] = NoJob] ELSE jobs

(* The row of a new job, one that is over and that neither the session nor *)
(* a task in the queue still names: it stands for an unbounded supply.     *)
Fresh(w) ==
  LET named == {w.ses.timer, w.ses.muteJob} \cup
               {w.queue[i].job : i \in {k \in DOMAIN w.queue : w.queue[k].kind = "job"}}
      free == {j \in Jobs \ named : w.job[j].state = "ended"}
  IN CHOOSE j \in free : \A k \in free : j <= k

Enqueued(jobs, j, kind) == [jobs EXCEPT ![j] = [kind |-> kind, state |-> "pending"]]

TimerOf == [connecting |-> "connect", reconnecting |-> "reconnect",
            leaving |-> "leave", muted |-> "mute"]

(* The edges of the state machine.                                         *)
Allowed(s, to, reason) ==
  /\ Active(s)
  /\ IF reason \in {"restart", "shutdown"}
     THEN to = "inactive"
     ELSE \/ s.state = "connecting" /\ to \in {"ready", "failed", "leaving"}
          \/ /\ Talking(s)
             /\ \/ to \in {"ready", "muted", "leaving", "failed"} \ {s.state}
                \/ to = "reconnecting" /\ s.rejoins = 0
                \/ to = "inactive" /\ reason = "empty_timeout"
          \/ s.state = "reconnecting" /\ to \in {"ready", "muted", "leaving", "failed"}
          \/ s.state = "leaving" /\ to = "inactive"

(* Seeded fault: whatever ends speech keeps the timer of an empty channel. *)
KeepsEveryTimer(s, to, reason) == Talking(s)

(* A mute and its end keep the timer of an empty channel.                  *)
KeepsTimer(s, to, reason) ==
  \/ s.state = "ready" /\ to = "muted"
  \/ s.state = "muted" /\ to = "ready" /\ reason \in {"mute_off", "mute_expired"}

(* Seeded fault: the mute is kept only at the end of a reconnection.       *)
KeepsMuteLate(s, to) == s.state = "reconnecting" /\ s.muted /\ to = "muted"

(* A reconnection keeps the mute.                                          *)
KeepsMute(s, to) ==
  \/ s.state = "muted" /\ to = "reconnecting"
  \/ s.state = "reconnecting" /\ s.muted /\ to = "muted"

(* apply_transition; timed: the request brings a timeout job.              *)
Moved(w, to, reason, timed) ==
  LET s == w.ses
      keepTimer == KeepsTimer(s, to, reason)
      keepMute == KeepsMute(s, to)
      open == Cancelled(Cancelled(w.job, IF keepTimer THEN 0 ELSE s.timer),
                        IF keepMute THEN 0 ELSE s.muteJob)
      new == IF timed THEN Fresh([w EXCEPT !.job = open]) ELSE 0
      muted == to = "muted" \/ keepMute
  IN IF ~Allowed(s, to, reason) THEN w ELSE
     [w EXCEPT
       !.job = IF timed THEN Enqueued(open, new, TimerOf[to]) ELSE open,
       !.ses = [s EXCEPT
         !.state = to, !.end = IF to \in {"inactive", "failed"} THEN reason ELSE @,
         !.rejoins = IF to = "reconnecting" THEN @ + 1 ELSE @,
         !.gen = IF to = "reconnecting" THEN @ + 1 ELSE @,
         !.timer = IF keepTimer /\ @ # 0 THEN @ ELSE IF to = "muted" THEN 0 ELSE new,
         !.empty = @ /\ keepTimer,
         !.muted = muted,
         !.muteJob = IF ~muted THEN 0 ELSE IF keepMute /\ @ # 0 THEN @ ELSE new]]

(* fail_queued_fixture, and a rejection of the audio that waits to be      *)
(* stored.                                                                 *)
ProofFailed(w) ==
  [w EXCEPT !.ses.proof = IF @ = "queued" THEN "failed" ELSE @,
            !.rejected = IF @ = w.ses.id THEN 0 ELSE @]

(* persist_pending_fixture_failure on its own.                             *)
RejectionStored(w) ==
  IF w.rejected = w.ses.id THEN ProofFailed(w) ELSE [w EXCEPT !.rejected = 0]

ProofWrites(w) == IF w.ses.proof = "queued" THEN 1 ELSE 0

(* update_occupancy and occupancy.                                         *)
Occupied(w, n) ==
  IF ~Talking(w.ses) \/ w.ses.empty = (n = 0) THEN w
  ELSE IF n = 0
  THEN LET new == Fresh(w) IN
       [w EXCEPT !.ses.empty = TRUE, !.ses.timer = new,
                 !.job = Enqueued(@, new, "empty")]
  ELSE [w EXCEPT !.ses.empty = FALSE, !.ses.timer = 0,
                 !.job = Cancelled(@, w.ses.timer)]

-----------------------------------------------------------------------------
(* The gateway.                                                            *)

Asked(ask, requests) ==
  IF requests # <<>> /\ Last(requests) = ask THEN requests ELSE Append(requests, ask)

(* connect takes the binding over unless another session's is connected.   *)
MayReplace(w) == w.bind.sess \in {0, w.ses.id} \/ ~w.bind.connected

Dialled(w) ==
  [w EXCEPT !.suppress = @ \/ w.bind.sess \notin {0, w.ses.id},
            !.bind = [NoBinding EXCEPT !.sess = w.ses.id, !.gen = w.ses.gen,
                                       !.humans = humans],
            !.line = Asked("join", @)]

Released(w) ==
  IF w.bind.sess # w.ses.id THEN w
  ELSE [w EXCEPT !.suppress = @ \/ w.bind.connected, !.bind = NoBinding]

Hushed(w) ==
  IF w.bind.sess # w.ses.id THEN w ELSE [w EXCEPT !.bind.track = "none"]

(* Seeded fault: disconnect does nothing before Discord confirmed the      *)
(* join.                                                                   *)
HungUpWhenConnected(w) ==
  IF w.bind.sess # w.ses.id \/ ~w.bind.connected THEN w
  ELSE [w EXCEPT !.line = Asked("leave", @)]

HungUp(w) ==
  IF w.bind.sess # w.ses.id THEN w ELSE [w EXCEPT !.line = Asked("leave", @)]

(* teardown_transport without, and with, the release of the binding, after *)
(* the speech service let go of the session.                               *)
TornDown(w) == HungUp(Hushed([w EXCEPT !.farewell = FALSE]))

(* Seeded fault: the session is closed and its binding kept.               *)
ClosedOnly(w) == TornDown(w)
Closed(w) == Released(TornDown(w))

-----------------------------------------------------------------------------
(* The handlers.  Thrown: the catch of execute_background.                 *)

Thrown(w) == [w EXCEPT !.reconcile = TRUE]

Fail(w, o) ==
  LET torn == [TornDown(w) EXCEPT !.rejoined = 0]
  IN IF o.writes < ProofWrites(w) + 1 THEN Thrown(torn)
     ELSE Released(Moved(ProofFailed(torn), "failed", "voice_failure", FALSE))

(* dispatch_rejoin_once.                                                   *)
Rejoin(w, o) ==
  LET dispatched == [w EXCEPT !.rejoined = w.ses.id]
  IN IF w.rejoined = w.ses.id THEN w
     ELSE IF o.taken /\ MayReplace(w) THEN Dialled(dispatched)
     ELSE Fail(dispatched, o)

(* disconnected                                                            *)
Gone(w, o) ==
  LET s == w.ses
      settled == ProofFailed(w)
      again == Talking(s) /\ s.rejoins = 0
  IN CASE s.state = "reconnecting" ->
            IF o.writes < ProofWrites(w) THEN Thrown(w) ELSE Rejoin(settled, o)
       [] s.state = "leaving" ->
            IF o.writes < ProofWrites(w) + 1 THEN Thrown(w)
            ELSE Released([Moved(settled, "inactive", "commanded_leave_complete", FALSE)
                             EXCEPT !.farewell = FALSE])
       [] again ->
            IF o.writes < ProofWrites(w) + 1 THEN Thrown(w)
            ELSE Rejoin(Moved(settled, "reconnecting", "unexpected_disconnect", TRUE), o)
       [] OTHER -> Fail(w, o)

(* The proof of a session that has just become ready: stored as queued,    *)
(* sent, and stored as failed where the gateway refuses it.                *)
Proved(w, o, used) ==
  IF w.ses.state # "ready" \/ w.ses.proof # "pending" THEN w
  ELSE IF o.writes < used + 1 THEN Thrown(w)
  ELSE IF o.taken /\ w.bind.sess = w.ses.id /\ w.bind.ready
  THEN [w EXCEPT !.ses.proof = "queued", !.bind.track = "proof", !.bind.done = "none"]
  ELSE IF o.writes < used + 2
  THEN Thrown([w EXCEPT !.ses.proof = "queued", !.rejected = w.ses.id])
  ELSE [w EXCEPT !.ses.proof = "failed"]

Ready(w, e, o) ==
  LET s == w.ses
      to == IF s.state = "reconnecting" /\ s.muted THEN "muted" ELSE "ready"
      used == IF Dialling(s) THEN 1 + ProofWrites(w) ELSE 0
      joined == IF ~Dialling(s) THEN w
                ELSE [Moved(ProofFailed(w), to, "voice_ready", FALSE) EXCEPT !.rejoined = 0]
      proved == Proved(joined, o, used)
  IN IF o.writes < used THEN Thrown(w)
     ELSE IF proved.reconcile THEN proved
     ELSE Occupied(proved, e.humans)

Marker(w, e, o) ==
  IF w.ses.state = "leaving" /\ e.mark = "farewell" THEN TornDown(w)
  ELSE IF w.ses.state # "ready" \/ w.ses.proof # "queued" \/ e.mark # "proof" THEN w
  ELSE IF o.writes = 0 THEN Thrown(w) ELSE [w EXCEPT !.ses.proof = "played"]

(* The generation test of handle_event lets a departure or a move of the   *)
(* connection before the current one through.                              *)
Concerns(s, e) ==
  /\ Active(s) /\ s.id = e.sess
  /\ \/ s.gen = e.gen
     \/ /\ e.kind \in {"gone", "moved"} /\ s.state \in {"reconnecting", "leaving"}
        /\ s.gen = e.gen + 1

(* handle_event.                                                           *)
Handled(w, e, o) ==
  IF ~Concerns(w.ses, e) THEN w
  ELSE CASE e.kind = "ready" -> Ready(w, e, o)
         [] e.kind = "marker" -> Marker(w, e, o)
         [] e.kind = "humans" ->
              IF o.writes = 0 /\ Occupied(w, e.humans) # w THEN Thrown(w)
              ELSE Occupied(w, e.humans)
         [] e.kind = "moved" -> IF w.ses.state = "leaving" THEN HungUp(w) ELSE Fail(w, o)
         [] e.kind = "gone" -> Gone(w, o)
         [] e.kind = "error" -> Fail(w, o)

Event(kind, b) ==
  [kind |-> kind, sess |-> b.sess, gen |-> b.gen, humans |-> b.humans, mark |-> b.done]

(* reconcile_if_required.                                                  *)
Reconciled(w0, o) ==
  LET w == [w0 EXCEPT !.reconcile = FALSE]
      s == w.ses
      stored == RejectionStored(w)
      snap == IF w.bind.sess = s.id THEN w.bind ELSE NoBinding
      seen == [snap EXCEPT !.sess = s.id,
                           !.gen = IF snap.sess = 0 THEN s.gen ELSE @]
      marked == IF snap.done = "none" THEN stored
                ELSE Handled(stored, Event("marker", [seen EXCEPT !.gen = s.gen]), o)
  IN IF ~Active(s) THEN [w EXCEPT !.rejected = 0]
     ELSE IF o.writes = 0 /\ stored.ses # s THEN Thrown(w)
     ELSE IF snap.moved /\ s.state # "leaving"
     THEN Handled(stored, Event("moved", seen), o)
     ELSE IF /\ snap.ready /\ snap.gen = s.gen
             /\ Dialling(s) \/ (s.state = "ready" /\ stored.ses.proof = "pending")
     THEN Handled(stored, Event("ready", seen), o)
     ELSE IF \/ snap.sess = 0
             \/ ~snap.connected /\ s.state \in {"ready", "reconnecting", "leaving"}
     THEN Handled(stored, Event("gone", seen), o)
     ELSE IF ~Active(marked.ses) \/ marked.reconcile THEN marked
     ELSE Handled(marked, Event("humans", [seen EXCEPT !.gen = s.gen]), o)

-----------------------------------------------------------------------------
(* Commands.  Discord's answers to the member, receipts, permission checks *)
(* and the commands that change neither the session nor the connection     *)
(* (status, say, voice, speech_test) are left out.                         *)

Elsewhere == UNCHANGED <<up, disabled, presence, humans>>

Summon ==
  /\ Turn /\ ~disabled /\ ~Active(ses) /\ resolving < MaxSummons
  /\ resolving' = resolving + 1
  /\ Done(World) /\ UNCHANGED shocks /\ Elsewhere

(* complete_summon: start, connect, finalize_summon.                       *)
Resolved ==
  /\ Idle /\ resolving > 0
  /\ resolving' = resolving - 1
  /\ Elsewhere
  /\ \E o \in Outcomes :
       LET new == Fresh(World)
           started == [World EXCEPT !.ses = Session(ses.id + 1, "connecting", new),
                                    !.job = Enqueued(job, new, "connect"),
                                    !.farewell = FALSE]
       IN IF Active(ses) \/ o.writes = 0 THEN Done(World) /\ Cost(o)
          ELSE /\ Room(IF o.writes < 3 THEN 2 ELSE 1) /\ Cost(o)
               /\ Done(IF o.taken /\ MayReplace(started) THEN Dialled(started)
                       ELSE IF o.writes = 1 THEN started
                       ELSE Released(Moved(started, "failed", "gateway_rejected", FALSE)))

(* The member is in no channel the bot may join, or the callback found the *)
(* queue full.                                                             *)
Unresolved ==
  /\ up /\ resolving > 0
  /\ resolving' = resolving - 1
  /\ \/ UNCHANGED <<reconcile, shocks>>
     \/ Room(1) /\ reconcile' = TRUE /\ shocks' = shocks + 1
  /\ UNCHANGED <<ses, job, queue, guard, rejoined, rejected, farewell, bind,
                 suppress, line>>
  /\ Elsewhere

(* The speech service takes a farewell where the session was ready for     *)
(* speech; it sends it only while the transport is.                        *)
Leave ==
  /\ Turn /\ Active(ses) /\ ses.state # "leaving"
  /\ \E o \in Outcomes :
       LET left == Moved(World, "leaving", "commanded_leave", TRUE)
           quiet == Hushed([left EXCEPT !.farewell = Talking(ses)])
           parted == IF o.taken /\ ses.state # "connecting" THEN quiet ELSE TornDown(left)
       IN /\ o.writes > 0 /\ Cost(o)
          /\ Done(IF o.writes > ProofWrites(World) THEN ProofFailed(parted) ELSE parted)
  /\ UNCHANGED resolving /\ Elsewhere

Mute ==
  /\ Turn /\ ses.state = "ready"
  /\ \E timed \in BOOLEAN :
       LET muted == Moved(World, "muted", "mute_on", timed)
       IN Done(IF ses.proof = "queued" THEN ProofFailed(Hushed(muted)) ELSE muted)
  /\ UNCHANGED <<resolving, shocks>> /\ Elsewhere

Unmute ==
  /\ Turn /\ ses.state = "muted"
  /\ Done(Moved(World, "ready", "mute_off", FALSE))
  /\ UNCHANGED <<resolving, shocks>> /\ Elsewhere

TestDisconnect ==
  /\ Turn /\ ses.state = "ready" /\ ses.rejoins = 0
  /\ Done(ProofFailed(TornDown(Moved(World, "reconnecting", "owner_test_disconnect", TRUE))))
  /\ UNCHANGED <<resolving, shocks>> /\ Elsewhere

(* set_output_operator_disabled; the teardown comes before the write.      *)
Disable ==
  /\ Idle /\ ~disabled
  /\ disabled' = TRUE
  /\ \E o \in Outcomes :
       /\ o.taken /\ o.writes \in {0, 3} /\ Cost(o)
       /\ LET closed == Closed(World)
          IN Become(IF ~Active(ses) THEN World ELSE IF o.writes = 0 THEN closed
                    ELSE Moved(closed, "inactive", "shutdown", FALSE))
  /\ UNCHANGED <<up, guard, resolving, presence, humans>>

Enable ==
  /\ Idle /\ disabled
  /\ disabled' = FALSE
  /\ UNCHANGED <<ses, job, up, resolving, queue, reconcile, guard, rejoined, rejected,
                 farewell, bind, suppress, line, presence, humans, shocks>>

-----------------------------------------------------------------------------
(* The worker.                                                             *)

TakeCallback ==
  Idle /\ queue # <<>> /\ Head(queue).kind # "job" /\ queue' = Tail(queue)

HandleCallback ==
  /\ TakeCallback
  /\ \E o \in Outcomes :
       Done(Handled([World EXCEPT !.queue = Tail(queue)], Head(queue), o)) /\ Cost(o)
  /\ UNCHANGED resolving /\ Elsewhere

(* The scheduler claims a job and submits it to the worker.                *)
Claim(j) ==
  /\ up /\ job[j].state = "pending" /\ Len(queue) < QueueCap
  /\ job' = [job EXCEPT ![j].state = "claimed"]
  /\ queue' = Append(queue, [kind |-> "job", job |-> j])
  /\ UNCHANGED <<ses, up, disabled, resolving, reconcile, guard, rejoined, rejected,
                 farewell, bind, suppress, line, presence, humans, shocks>>

(* Seeded fault: a session that is leaving takes no timeout.               *)
LinkedUnlessLeaving(s, j, kind) ==
  s.state # "leaving" /\ Active(s) /\ j = IF kind = "mute" THEN s.muteJob ELSE s.timer

(* The job is the one the session still names.                             *)
Linked(s, j, kind) == Active(s) /\ j = IF kind = "mute" THEN s.muteJob ELSE s.timer

(* handle_timeout, of the service and of the repository.                   *)
TimedOut(w0, j, o) ==
  LET w == IF Active(w0.ses) THEN RejectionStored(w0) ELSE w0
      s == w.ses
      kind == w.job[j].kind
      over == [w EXCEPT !.job[j] = NoJob]
      back == w.bind.sess = s.id /\ w.bind.humans > 0
      ended(to, reason) == Closed(Moved(ProofFailed(over), to, reason, FALSE))
  IN IF w.job[j].state # "claimed" THEN w
     ELSE IF o.writes = 0 THEN [w0 EXCEPT !.job[j].state = "pending"]
     ELSE IF ~Linked(s, j, kind) THEN over
     ELSE CASE kind = "empty" /\ back -> [over EXCEPT !.ses.empty = FALSE, !.ses.timer = 0]
            [] kind = "empty" /\ ~back -> ended("inactive", "empty_timeout")
            [] kind = "mute" /\ s.state = "reconnecting" ->
                 [over EXCEPT !.ses.muted = FALSE, !.ses.muteJob = 0]
            [] kind = "mute" /\ s.state # "reconnecting" ->
                 Moved(over, "ready", "mute_expired", FALSE)
            [] kind = "leave" -> ended("inactive", "leave_timeout")
            [] kind \in {"connect", "reconnect"} -> ended("failed", "timeout")

TakeJob ==
  Idle /\ queue # <<>> /\ Head(queue).kind = "job" /\ queue' = Tail(queue)

HandleJob ==
  /\ TakeJob
  /\ \E o \in Outcomes :
       Done(TimedOut([World EXCEPT !.queue = Tail(queue)], Head(queue).job, o)) /\ Cost(o)
  /\ UNCHANGED resolving /\ Elsewhere

(* reconcile_guarded at the end of a task, or in one of its own that       *)
(* run_reconciliation_retries submits.                                     *)
FreeWorker == up /\ guard /\ guard' = FALSE

Reconcile ==
  /\ FreeWorker
  /\ \E o \in Outcomes : Become(Reconciled(World, o)) /\ Cost(o)
  /\ UNCHANGED resolving /\ Elsewhere

Retry ==
  /\ Idle /\ reconcile
  /\ guard' = TRUE
  /\ UNCHANGED <<ses, job, up, disabled, resolving, queue, reconcile, rejoined, rejected,
                 farewell, bind, suppress, line, presence, humans, shocks>>

-----------------------------------------------------------------------------
(* Discord and the gateway's callbacks.                                    *)

(* Seeded fault: a callback does not wait for room in the queue.           *)
PostedAnyway(e, cost) ==
  queue' = <<e>> \o queue /\ shocks' = shocks + cost /\ UNCHANGED reconcile

(* The gateway hands an event to the worker, which may be full.            *)
Posted(e, cost) ==
  \/ /\ Len(queue) < QueueCap
     /\ queue' = <<e>> \o queue /\ shocks' = shocks + cost /\ UNCHANGED reconcile
  \/ /\ Room(cost + 1)
     /\ reconcile' = TRUE /\ shocks' = shocks + cost + 1 /\ UNCHANGED queue

NothingPosted(cost) == shocks' = shocks + cost /\ UNCHANGED <<queue, reconcile>>

Untouched == UNCHANGED <<ses, job, up, disabled, resolving, guard, rejoined, rejected>>

(* on_voice_state for the bot: it left.                                    *)
Departed(cost) ==
  /\ presence' = "out"
  /\ suppress' = FALSE
  /\ IF suppress \/ bind.sess = 0
     THEN UNCHANGED bind /\ NothingPosted(cost)
     ELSE /\ bind' = [bind EXCEPT !.connected = FALSE, !.ready = FALSE, !.track = "none"]
          /\ Posted(Event("gone", bind), cost)

(* on_voice_state for the bot: it came.                                    *)
Arrived ==
  /\ presence' = "in"
  /\ IF bind.sess = 0 THEN UNCHANGED <<bind, suppress>>
     ELSE suppress' = FALSE /\ bind' = [bind EXCEPT !.connected = TRUE]
  /\ NothingPosted(0)

(* Discord takes a request; it may refuse a join.                          *)
Carry ==
  /\ line # <<>>
  /\ line' = Tail(line)
  /\ IF Head(line) = "join"
     THEN Arrived \/ (UNCHANGED <<presence, bind, suppress>> /\ NothingPosted(0))
     ELSE IF presence = "out"
     THEN UNCHANGED <<presence, bind, suppress>> /\ NothingPosted(0)
     ELSE Departed(0)
  /\ UNCHANGED <<farewell, humans>> /\ Untouched

(* A moderator disconnects the bot.                                        *)
Kick ==
  /\ up /\ presence # "out" /\ Room(1)
  /\ Departed(1)
  /\ UNCHANGED <<farewell, humans, line>> /\ Untouched

(* A moderator moves it to another channel.                                *)
MoveBot ==
  /\ up /\ presence = "in" /\ Room(1)
  /\ presence' = "other"
  /\ IF bind.sess = 0 THEN UNCHANGED bind /\ NothingPosted(1)
     ELSE /\ bind' = [bind EXCEPT !.connected = TRUE, !.ready = FALSE, !.moved = TRUE]
          /\ Posted(Event("moved", bind), 1)
  /\ UNCHANGED <<suppress, farewell, humans, line>> /\ Untouched

(* on_ready with the end-to-end encryption in place, or with an error; a   *)
(* repeated one changes nothing and is left out.                           *)
VoiceReady ==
  /\ up /\ presence = "in" /\ line = <<>>
  /\ bind.sess # 0 /\ ~bind.ready /\ ~bind.moved
  /\ \/ /\ bind' = [bind EXCEPT !.connected = TRUE, !.ready = TRUE]
        /\ suppress' = FALSE
        /\ Posted(Event("ready", bind), 0)
     \/ /\ Room(1)
        /\ bind' = [bind EXCEPT !.connected = TRUE]
        /\ UNCHANGED suppress
        /\ Posted(Event("error", bind), 1)
  /\ UNCHANGED <<presence, farewell, humans, line>> /\ Untouched

(* on_marker: the audio before the marker has been played.                 *)
MarkerReached ==
  /\ up /\ bind.track # "none"
  /\ bind' = [bind EXCEPT !.track = "none", !.done = bind.track]
  /\ Posted(Event("marker", [bind EXCEPT !.done = bind.track]), 0)
  /\ UNCHANGED <<presence, suppress, farewell, humans, line>> /\ Untouched

(* on_voice_state for a member.                                            *)
HumansChange ==
  /\ up /\ Room(1)
  /\ humans' = 1 - humans
  /\ IF bind.sess = 0 THEN UNCHANGED bind /\ NothingPosted(1)
     ELSE /\ bind' = [bind EXCEPT !.humans = 1 - humans]
          /\ Posted(Event("humans", [bind EXCEPT !.humans = 1 - humans]), 1)
  /\ UNCHANGED <<presence, suppress, farewell, line>> /\ Untouched

(* The speech service sends the farewell it holds.                         *)
SendFarewell ==
  /\ up /\ farewell
  /\ farewell' = FALSE
  /\ bind' = IF bind.sess = ses.id /\ bind.ready
             THEN [bind EXCEPT !.track = "farewell", !.done = "none"] ELSE bind
  /\ NothingPosted(0)
  /\ UNCHANGED <<presence, suppress, humans, line>> /\ Untouched

-----------------------------------------------------------------------------
(* The process stops or dies, and starts again.                            *)

(* What is left when it is gone.                                           *)
Down ==
  /\ up' = FALSE /\ queue' = <<>> /\ reconcile' = FALSE /\ guard' = FALSE
  /\ resolving' = 0 /\ rejoined' = 0 /\ rejected' = 0 /\ farewell' = FALSE
  /\ bind' = NoBinding /\ suppress' = FALSE /\ line' = <<>> /\ presence' = "out"
  /\ UNCHANGED <<disabled, humans, shocks>>

(* Claims of a process that is gone expire.                                *)
Returned(jobs) ==
  [j \in Jobs |-> IF jobs[j].state = "claimed"
                  THEN [jobs[j] EXCEPT !.state = "pending"] ELSE jobs[j]]

Stop ==
  /\ Idle
  /\ LET ended == Moved(ProofFailed(World), "inactive", "shutdown", FALSE)
     IN ses' = ended.ses /\ job' = Returned(ended.job)
  /\ Down

Crash ==
  /\ up
  /\ job' = Returned(job) /\ UNCHANGED ses
  /\ Down

(* recover                                                                 *)
Restart == ~up /\ up' = TRUE

Boot ==
  /\ Restart
  /\ LET ended == Moved(ProofFailed(World), "inactive", "restart", FALSE)
     IN ses' = ended.ses /\ job' = ended.job
  /\ UNCHANGED <<disabled, resolving, queue, reconcile, guard, rejoined, rejected,
                 farewell, bind, suppress, line, presence, humans, shocks>>

Next ==
  \/ Summon \/ Resolved \/ Unresolved \/ Leave \/ Mute \/ Unmute \/ TestDisconnect
  \/ Disable \/ Enable \/ HandleCallback \/ HandleJob \/ Reconcile \/ Retry
  \/ \E j \in Jobs : Claim(j)
  \/ Carry \/ Kick \/ MoveBot \/ VoiceReady \/ MarkerReached \/ HumansChange
  \/ SendFarewell \/ Stop \/ Crash \/ Boot

(* The worker runs what is submitted and reconciles, the scheduler claims  *)
(* what is due, and the supervisor restarts the process.                   *)
Fairness ==
  /\ SF_queue(TakeCallback \/ TakeJob) /\ WF_guard(FreeWorker \/ Retry)
  /\ SF_queue(\E j \in Jobs : Claim(j)) /\ WF_up(Restart)

Spec == Init /\ [][Next]_vars /\ Fairness

-----------------------------------------------------------------------------
(* Types of the variables.                                                 *)
TypeOK ==
  /\ ses.state \in {"connecting", "ready", "muted", "reconnecting", "leaving",
                    "inactive", "failed"}
  /\ ses.id \in 0..MaxActs /\ ses.rejoins \in 0..1
  /\ ses.proof \in {"pending", "queued", "played", "failed"}
  /\ {ses.timer, ses.muteJob} \subseteq Jobs \cup {0}
  /\ \A j \in Jobs : job[j].state \in {"pending", "claimed", "ended"}
  /\ resolving \in 0..MaxSummons /\ Len(queue) <= QueueCap
  /\ {up, disabled, reconcile, guard, farewell, suppress} \subseteq BOOLEAN
  /\ presence \in {"out", "in", "other"} /\ humans \in 0..1
  /\ ses.id + shocks <= MaxActs

(* Every state that waits for Discord has its own live timeout, an empty   *)
(* channel has the timer that will end the session, and no timer outlives  *)
(* what it was armed for.                                                  *)
WaitsHaveTimers ==
  LET live == {j \in Jobs : job[j].state # "ended"}
      waits == ses.state \in {"connecting", "reconnecting", "leaving"}
  IN /\ waits => ses.timer \in live /\ job[ses.timer].kind = TimerOf[ses.state]
     /\ Talking(ses) => /\ ses.empty <=> ses.timer # 0
                        /\ ses.empty => ses.timer \in live /\ job[ses.timer].kind = "empty"
     /\ live \subseteq IF Active(ses) THEN {ses.timer, ses.muteJob} ELSE {}
     /\ up => \A j \in live : job[j].state = "claimed" <=>
                \E i \in DOMAIN queue : queue[i].kind = "job" /\ queue[i].job = j

(* A mute is lifted only by the command or by its expiry, whatever happens *)
(* to the connection in between.                                           *)
MuteSurvives ==
  [][/\ Active(ses) /\ ses'.id = ses.id /\ ses.muted
     /\ ~ses'.muted /\ (Talking(ses') \/ Dialling(ses'))
     => Unmute \/ (TakeJob /\ job[Head(queue).job].kind = "mute")]_vars

(* The gateway's binding is that of the active session, and never of a     *)
(* newer connection than the session asked for.                            *)
BindingIsOwned ==
  bind.sess # 0 => Active(ses) /\ bind.sess = ses.id /\ bind.gen <= ses.gen

(* The states in which speech is admitted are those of a connected bot,    *)
(* once every callback is handled.                                         *)
Settled == up /\ ~guard /\ ~reconcile /\ queue = <<>>
SpeechIsConnected ==
  Settled /\ Talking(ses) /\ bind.sess # 0 => bind.gen = ses.gen /\ bind.connected

(* A session is held by what must end it: its timers, and the binding that *)
(* is its own.                                                             *)
SessionIsHeld == WaitsHaveTimers /\ BindingIsOwned

(* However a session failed, timed out or was disabled, the last thing     *)
(* Discord is asked is that the bot leave the channel, and only a session  *)
(* that goes on asks it to join.                                           *)
LeavesTheChannel ==
  [][/\ /\ Active(ses) /\ ~Active(ses') /\ up /\ up' /\ bind.sess = ses.id
        /\ ses'.end # "commanded_leave_complete"
        => line' # <<>> /\ Last(line') = "leave"
     /\ Len(line') > Len(line) /\ Last(line') = "join"
        => Active(ses') /\ bind'.sess = ses'.id]_vars

(* A session does not stay in a state that waits for Discord.              *)
Waiting == ses.state \in {"connecting", "reconnecting", "leaving"}
NeverStuck == Waiting ~> ~Waiting
=============================================================================
