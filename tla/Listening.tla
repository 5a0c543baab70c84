----------------------------- MODULE Listening -----------------------------
(* Voice input: a window of 5, 10 or 15 seconds in which the bot hears the *)
(* channel, answered by a transcript only its requester sees.  One mutex,  *)
(* operation_mutex_, orders what begins, ends and finishes a window; a     *)
(* stop, a disable or a failed callback does not wait for it: it claims    *)
(* the capture at once, and the cleanup follows on a worker thread.        *)
(*                                                                         *)
(* A task is a thread that needs the mutex: what it does (kind), for which *)
(* window (w, 0 for any), its argument (x: the generation of a disable, or *)
(* 1 for a transcript that arrived) and the thread it runs on.             *)
EXTENDS Naturals, Sequences, TLC

CONSTANTS MaxWindows, CallbackCap, Budgets

VARIABLES
  up,       \* the process: "up", "stopping" or "down"
  stage,    \* how far stop() has come
  row,      \* voice_listening_window and its usage
  cap,      \* Capture: what the process knows of a window
  live,     \* active_
  op,       \* who holds operation_mutex_, and where it is
  waiting,  \* tasks that wait for it
  queue,    \* tasks that wait for their worker
  timer,    \* the thread that ends a window in time
  asr,      \* the transcription worker, by window
  kill,     \* the owner's kill switch and its fence
  blocked,  \* not known to be safe again: the transport, the card of a window
  speech,   \* the speech queue is excluded from the transport
  hears,    \* the window the transport is, or may be, open for
  card,     \* what the window's public message says
  edits,    \* its edits that are not settled; the first is in flight
  draft,    \* the transcript kept for a proposal to the Chronicle
  billed,   \* windows whose audio left the process
  acts      \* what may still happen

vars == <<up, stage, row, cap, live, op, waiting, queue, timer, asr, kill, blocked, speech,
          hears, card, edits, draft, billed, acts>>

Windows == 1..MaxWindows
Open == {"proposed", "transport", "indicator", "active", "transcribing"}
Over == {"completed", "stopped", "failed", "abandoned"}
Crews == {"privacy", "callback", "cleanup"}
WorkerCap(k) == IF k = "callback" THEN CallbackCap ELSE 1

NoRow == [state |-> "none", attempt |-> FALSE, usage |-> "none", released |-> FALSE]
NewCapture == [disp |-> "pending", stop |-> FALSE, accepting |-> FALSE, failing |-> FALSE,
               excluded |-> FALSE, safe |-> TRUE, shown |-> FALSE, replaced |-> FALSE,
               confirmed |-> FALSE, full |-> FALSE, member |-> FALSE, cleaned |-> FALSE,
               used |-> FALSE, audio |-> 0, told |-> "none"]
Task(k, w, x, on) == [kind |-> k, w |-> w, x |-> x, on |-> on]
NoTask == Task("none", 0, 0, "none")
Free == [task |-> NoTask, at |-> "free", w |-> 0, end |-> "none", tell |-> "none", next |-> "none"]
Unblocked == [transport |-> FALSE, status |-> 0]
NoTimer == [w |-> 0, at |-> "off"]

Put(f, w, r) == [f EXCEPT ![w] = r @@ @]

Init ==
  /\ up = "up" /\ stage = "run" /\ live = 0 /\ op = Free /\ waiting = {}
  /\ row = [w \in Windows |-> NoRow] /\ cap = [w \in Windows |-> NewCapture]
  /\ queue = [k \in Crews |-> <<>>] /\ timer = NoTimer
  /\ asr = [w \in Windows |-> "idle"] /\ blocked = Unblocked /\ speech = FALSE /\ hears = 0
  /\ kill = [latch |-> FALSE, gen |-> 0, saved |-> 0, db |-> FALSE, mid |-> FALSE,
             persist |-> FALSE, w |-> 0, told |-> {}, answered |-> 0, revoked |-> 0]
  /\ card = [w \in Windows |-> "none"] /\ edits = [w \in Windows |-> <<>>]
  /\ draft = [w \in Windows |-> "none"] /\ billed = {} /\ acts \in Budgets

(* What the world does to the service is bounded, kind by kind, by one of   *)
(* the Budgets; so is every outcome that is not the good one.              *)
Kinds == {"begin", "stop", "disable", "enable", "callback", "exit", "crash", "bad", "draft"}
Act(k) == acts[k] > 0 /\ acts' = [acts EXCEPT ![k] = @ - 1]
Outcome(good) == IF good THEN UNCHANGED acts ELSE Act("bad")

(***************************************************************************)
(* Threads and the mutex                                                   *)
(***************************************************************************)
Busy(k) == op.task.on = k \/ \E t \in waiting : t.on = k
Entry(t) == CASE t.kind = "begin" -> "admit" [] OTHER -> t.kind

Room(k) == Len(queue[k]) < WorkerCap(k)

Acquire ==
  /\ op = Free
  /\ \E t \in waiting :
       /\ waiting' = waiting \ {t}
       /\ op' = [Free EXCEPT !.task = t, !.at = Entry(t), !.w = t.w]
  /\ UNCHANGED <<up, stage, row, cap, live, queue, timer, asr, kill, blocked, speech, hears,
                 card, edits, draft, billed, acts>>

(* The mutex is released; a timer thread that held it is gone with it.     *)
Release ==
  /\ op' = Free
  /\ timer' = IF op.task.on = "timer" THEN NoTimer ELSE timer
To(at) == op' = [op EXCEPT !.at = at] /\ UNCHANGED timer

(* claim_privacy_abort: not once the result is final.                      *)
Claimable(w) == w # 0 /\ cap[w].disp # "finalized"
Aborted == [disp |-> "abort", stop |-> TRUE, accepting |-> FALSE]
(* scrub_capture(try_only) gives up while the provider reads the audio.    *)
TryScrub(w) == IF asr[w] = "asking" THEN cap[w].audio ELSE 0
Claimed(w) == IF Claimable(w) THEN Put(cap, w, ("audio" :> TryScrub(w)) @@ Aborted) ELSE cap

(* fail, privacy_abort_requested and abort_active begin the same way.      *)
EndWith(c, w, state, tell) ==
  /\ cap' = Put(c, w, [stop |-> TRUE, accepting |-> FALSE])
  /\ op' = [op EXCEPT !.at = "join", !.w = w, !.end = state, !.tell = tell, !.next = "tell"]
  /\ UNCHANGED timer
Fail(w) == EndWith(cap, w, "failed", "word")
PrivacyAbort(w) == EndWith(Put(cap, w, Aborted), w, "stopped", "overwrite")

(***************************************************************************)
(* A window begins                                                         *)
(***************************************************************************)
ListenStart(w) ==
  /\ up = "up" /\ Act("begin") /\ row[w].state = "none" /\ \A v \in 1..(w - 1) : row[v].state # "none"
  /\ ~\E t \in waiting \cup {op.task} : t.kind = "begin"
  /\ waiting' = waiting \cup {Task("begin", w, 0, "control")}
  /\ UNCHANGED <<up, stage, row, cap, live, op, queue, timer, asr, kill, blocked, speech, hears,
                 card, edits, draft, billed>>

Refused == up # "up" \/ kill.latch \/ kill.db \/ blocked # Unblocked
           \/ \E v \in Windows : row[v].state \in Open

Admit(w) ==
  /\ op.at = "admit"
  /\ IF Refused THEN Release /\ UNCHANGED row
                ELSE To("live") /\ row' = [row EXCEPT ![w].state = "proposed"]
  /\ UNCHANGED <<cap, live, speech, card, hears, edits, acts>>

GoLive(w) ==
  /\ op.at = "live" /\ live' = w /\ To("gate")
  /\ UNCHANGED <<row, cap, speech, card, hears, edits, acts>>

(* handle_arming_cancellation: a shutdown or a failed callback will end the *)
(* window itself; a stop ends it here.                                     *)
Cancelled(w) == up # "up" \/ cap[w].stop
Cancel(w) ==
  /\ IF up # "up" \/ cap[w].failing
     THEN cap' = Put(cap, w, [stop |-> TRUE, accepting |-> FALSE]) /\ Release
     ELSE PrivacyAbort(w)
  /\ UNCHANGED <<row, live, speech, card, hears, edits, acts>>

Gate(w) ==
  /\ op.at = "gate"
  /\ \/ Cancelled(w) /\ Cancel(w)
     \/ /\ ~Cancelled(w) /\ kill.latch /\ PrivacyAbort(w)
        /\ UNCHANGED <<row, live, speech, card, hears, edits, acts>>
     \/ /\ ~Cancelled(w) /\ ~kill.latch /\ speech' = TRUE
        /\ \E good \in BOOLEAN :
             /\ Outcome(good)
             /\ IF good THEN cap' = [cap EXCEPT ![w].excluded = TRUE] /\ To("announce")
                        ELSE EndWith([cap EXCEPT ![w].excluded = TRUE], w, "failed", "word")
        /\ UNCHANGED <<row, live, card, hears, edits>>

Announce(w) ==
  /\ op.at = "announce"
  /\ \E good \in BOOLEAN :
       /\ Outcome(good)
       /\ IF good
          THEN /\ card' = [card EXCEPT ![w] = "arming"] /\ cap' = [cap EXCEPT ![w].shown = TRUE]
               /\ row' = [row EXCEPT ![w].state = "transport"] /\ To("open")
          ELSE Fail(w) /\ UNCHANGED <<card, row>>
  /\ UNCHANGED <<live, speech, hears, edits>>

OpenTransport(w) ==
  /\ op.at = "open"
  /\ IF Cancelled(w) THEN Cancel(w)
     ELSE hears' = w /\ To("opening") /\ UNCHANGED <<row, cap, live, speech, card, edits, acts>>

(* enable_transport waits for Discord, and gives up when asked to stop.    *)
TransportOpens(w) ==
  /\ op.at = "opening"
  /\ \E good \in BOOLEAN :
       /\ IF cap[w].stop THEN UNCHANGED acts ELSE Outcome(good)
       /\ IF good
          THEN row' = [row EXCEPT ![w].state = "indicator"] /\ To("show") /\ UNCHANGED cap
          ELSE Fail(w) /\ UNCHANGED row
  /\ UNCHANGED <<live, speech, card, hears, edits>>

Show(w) ==
  /\ op.at = "show"
  /\ \/ Cancelled(w) /\ Cancel(w)
     \/ ~Cancelled(w) /\ Act("bad") /\ Fail(w) /\ UNCHANGED <<row, live, speech, card, hears, edits>>
     \/ ~Cancelled(w) /\ edits' = [edits EXCEPT ![w] = Append(@, "listening")] /\ To("showing")
        /\ UNCHANGED <<row, cap, live, speech, card, hears, acts>>

NotShown(w) ==
  /\ op.at = "notshown"
  /\ IF cap[w].stop THEN PrivacyAbort(w) ELSE Fail(w)
  /\ UNCHANGED <<row, live, speech, card, hears, edits, acts>>

Activate(w) ==
  /\ op.at = "ready"
  /\ \/ Act("bad") /\ Fail(w) /\ UNCHANGED <<row, live, speech, card, hears, edits>>
     \/ Cancelled(w) /\ Cancel(w)
     \/ ~Cancelled(w) /\ row' = [row EXCEPT ![w].state = "active"] /\ To("arm")
        /\ UNCHANGED <<cap, live, speech, card, hears, edits, acts>>

(* start_timer first stops, and joins, the timer of the window before.     *)
Arm(w) ==
  /\ op.at = "arm"
  /\ \/ Cancelled(w) /\ Cancel(w)
     \/ ~Cancelled(w) /\ Act("bad") /\ Fail(w) /\ UNCHANGED <<row, live, speech, card, hears, edits>>
     \/ /\ ~Cancelled(w) /\ timer.at # "late"
        /\ timer' = [w |-> w, at |-> "armed"] /\ op' = [op EXCEPT !.at = "accept"]
        /\ UNCHANGED <<row, cap, live, speech, card, hears, edits, acts>>

Accept(w) ==
  /\ op.at = "accept"
  /\ \/ Cancelled(w) /\ Cancel(w)
     \/ /\ ~Cancelled(w)
        /\ IF timer.at = "armed" THEN cap' = [cap EXCEPT ![w].accepting = TRUE] /\ Release
                                 ELSE Fail(w)
        /\ UNCHANGED <<row, live, speech, card, hears, edits, acts>>

BeginStep ==
  /\ \E w \in {op.w} \cap Windows :
       \/ Admit(w) \/ GoLive(w) \/ Gate(w) \/ Announce(w) \/ OpenTransport(w)
       \/ TransportOpens(w) \/ Show(w) \/ NotShown(w) \/ Activate(w) \/ Arm(w) \/ Accept(w)
  /\ UNCHANGED <<up, stage, waiting, queue, asr, kill, blocked, draft, billed>>

(***************************************************************************)
(* A window ends: fail, privacy_abort_requested, abort_active and the end  *)
(* of stop() share these steps.                                            *)
(***************************************************************************)
(* stop_timer joins the timer's thread while the mutex is held: a timer     *)
(* that waits for the mutex itself never ends.                             *)
Disarm(w) ==
  /\ op.at = "join" /\ (timer.at # "late" \/ op.task.on = "timer") /\ asr[w] # "asking"
  /\ timer' = IF timer.at = "late" THEN timer ELSE NoTimer
  /\ op' = [op EXCEPT !.at = "restore"] /\ cap' = [cap EXCEPT ![w].audio = 0]
  /\ UNCHANGED <<row, live, blocked, speech, hears, card, edits, kill, waiting, acts>>

(* confirm_transport_privacy: nothing is asked of Discord when the          *)
(* transport is closed already.                                            *)
Restored(good) ==
  /\ IF hears = 0 THEN good = ~blocked.transport /\ UNCHANGED acts ELSE Outcome(good)
  /\ blocked' = [blocked EXCEPT !.transport = ~good]
  /\ hears' = IF good THEN 0 ELSE hears
Restore(w) ==
  /\ op.at = "restore"
  /\ \E good \in BOOLEAN : Restored(good) /\ cap' = [cap EXCEPT ![w].safe = good]
  /\ To("record")
  /\ UNCHANGED <<row, live, speech, card, edits, kill, waiting>>

RecordEnd(w) ==
  /\ op.at = "record" /\ To("usage")
  /\ row' = IF row[w].state \in Open THEN [row EXCEPT ![w].state = op.end] ELSE row
  /\ UNCHANGED <<cap, live, blocked, speech, hears, card, edits, kill, waiting, acts>>

(* record_usage_once: a request that was not sent gives its reserve back.  *)
WithUsage(r, w, sent) ==
  IF cap[w].used THEN r
  ELSE Put(r, w, [usage |-> IF sent THEN "sent" ELSE "unsent", released |-> r[w].released \/ ~sent])
RecordUsage(w) ==
  /\ op.at = "usage" /\ To("ended")
  /\ row' = WithUsage(row, w, w \in billed) /\ cap' = [cap EXCEPT ![w].used = TRUE]
  /\ UNCHANGED <<live, blocked, speech, hears, card, edits, kill, waiting, acts>>

(* publish_ended: edit the card; if that is not confirmed in time, or an    *)
(* earlier edit is still in flight, send a card of its own.                *)
PublishEnded(w) ==
  /\ op.at = "ended"
  /\ IF ~cap[w].shown THEN To(op.next) /\ UNCHANGED edits
     ELSE IF cap[w].replaced THEN To("replace") /\ UNCHANGED edits
     ELSE /\ edits' = [edits EXCEPT ![w] = Append(@, "ended")]
          /\ To(IF edits[w] = <<>> THEN "ending" ELSE "replace")
  /\ UNCHANGED <<row, cap, live, blocked, speech, hears, card, kill, waiting, acts>>

(* release_speech_exclusion: only while nothing is blocked.                *)
\* Seeded fault: speech comes back although the transport may still be open.
MayRelease_told(w, b) == b.status = 0 /\ cap[w].excluded
MayRelease(w, b) == cap[w].safe /\ b = Unblocked /\ cap[w].excluded
Settled(w) == IF blocked.status = w THEN [blocked EXCEPT !.status = 0] ELSE blocked
(* confirm_ended_status                                                    *)
ConfirmEnded(w, more) ==
  /\ blocked' = Settled(w)
  /\ cap' = Put(cap, w, more @@ [confirmed |-> TRUE,
                                 excluded |-> cap[w].excluded /\ ~MayRelease(w, Settled(w))])
  /\ speech' = (speech /\ ~MayRelease(w, Settled(w)))

Replace(w) ==
  /\ op.at = "replace"
  /\ \/ ConfirmEnded(w, [replaced |-> TRUE]) /\ UNCHANGED acts
     \/ /\ Act("bad")
        /\ IF cap[w].confirmed THEN ConfirmEnded(w, <<>>)
           ELSE blocked' = [blocked EXCEPT !.status = w] /\ UNCHANGED <<cap, speech>>
  /\ To(op.next)
  /\ UNCHANGED <<row, live, hears, card, edits, kill, waiting>>

(* complete_initiator says something once; a privacy abort overwrites what *)
(* was said, and may not learn whether that arrived.                       *)
Overwrite(w, told) ==
  IF cap[w].told = "transcript"
  THEN (told = "overwritten" /\ UNCHANGED acts) \/ (told = "unsure" /\ Act("bad"))
  ELSE told = (IF cap[w].told = "none" THEN "word" ELSE cap[w].told) /\ UNCHANGED acts
Answer == IF op.task.kind = "stop" THEN [kill EXCEPT !.answered = IF op.task.x > @ THEN op.task.x ELSE @]
                                   ELSE kill
(* clear_active; a disable that ended the window answers now.              *)
Clear(w) ==
  /\ op.at \in {"tell", "clear"} /\ Release
  /\ \E told \in {"none", "word", "transcript", "overwritten", "unsure"} :
       /\ IF op.at = "tell" /\ op.tell = "overwrite" THEN Overwrite(w, told)
          ELSE /\ told = (IF op.at = "tell" /\ cap[w].told = "none" THEN "word" ELSE cap[w].told)
               /\ UNCHANGED acts
       /\ cap' = Put(cap, w, [told |-> told,
                              excluded |-> cap[w].excluded /\ ~(live = w /\ MayRelease(w, blocked))])
  /\ live' = IF live = w THEN 0 ELSE live
  /\ speech' = (speech /\ ~(live = w /\ MayRelease(w, blocked)))
  /\ kill' = Answer
  /\ UNCHANGED <<row, blocked, hears, card, edits, waiting>>

EndStep ==
  /\ \E w \in {op.w} \cap Windows :
       \/ Disarm(w) \/ Restore(w) \/ RecordEnd(w) \/ RecordUsage(w)
       \/ PublishEnded(w) \/ Replace(w) \/ Clear(w)
  /\ UNCHANGED <<up, stage, queue, asr, draft, billed>>

(* Discord settles the edit in flight; who still waits for it goes on, and *)
(* the card that says the window is over frees the speech, however late.   *)
EditLands(w) ==
  /\ edits[w] # <<>> /\ edits' = [edits EXCEPT ![w] = Tail(@)]
  /\ card' = [card EXCEPT ![w] = Head(edits[w])]
  /\ IF Head(edits[w]) = "ended" THEN ConfirmEnded(w, <<>>) ELSE UNCHANGED <<blocked, cap, speech>>
  /\ IF op.w = w /\ op.at \in {"showing", "ending"}
     THEN To(IF op.at = "showing" THEN "ready" ELSE op.next) ELSE UNCHANGED <<op, timer>>
  /\ UNCHANGED <<up, stage, row, live, waiting, queue, asr, kill, hears, draft, billed, acts>>

NoAnswer == IF op.at = "showing" THEN "notshown" ELSE "replace"
EditFails(w) ==
  /\ edits[w] # <<>> /\ edits' = [edits EXCEPT ![w] = Tail(@)] /\ Act("bad")
  /\ IF op.w = w /\ op.at \in {"showing", "ending"} THEN To(NoAnswer) ELSE UNCHANGED <<op, timer>>
  /\ UNCHANGED <<up, stage, row, cap, live, waiting, queue, asr, kill, blocked, speech, hears,
                 card, draft, billed>>
(* public_status_timeout, or a stop while the card is being shown.         *)
GiveUp ==
  /\ op.at \in {"showing", "ending"} /\ To(NoAnswer)
  /\ IF op.at = "showing" /\ cap[op.w].stop THEN UNCHANGED acts ELSE Act("bad")
  /\ UNCHANGED <<up, stage, row, cap, live, waiting, queue, asr, kill, blocked, speech, hears,
                 card, edits, draft, billed>>

(***************************************************************************)
(* The window is heard, expires and is transcribed                         *)
(***************************************************************************)
ReceiveAudio(w) ==
  /\ live = w /\ hears = w /\ cap[w].accepting /\ ~cap[w].stop /\ cap[w].audio = 0
  /\ cap' = [cap EXCEPT ![w].audio = 1]
  /\ UNCHANGED <<up, stage, row, live, op, waiting, queue, timer, asr, kill, blocked, speech,
                 hears, card, edits, draft, billed, acts>>

TimerFires ==
  /\ timer.at = "armed" /\ cap' = [cap EXCEPT ![timer.w].accepting = FALSE]
  /\ IF Room("privacy")
     THEN /\ queue' = [queue EXCEPT !.privacy = Append(@, Task("expire", timer.w, 0, "privacy"))]
          /\ timer' = [timer EXCEPT !.at = "fired"] /\ UNCHANGED waiting
     ELSE /\ waiting' = waiting \cup {Task("expire", timer.w, 0, "timer")}
          /\ timer' = [timer EXCEPT !.at = "late"] /\ UNCHANGED queue
  /\ UNCHANGED <<up, stage, row, live, op, asr, kill, blocked, speech, hears, card, edits, draft,
                 billed, acts>>

(* expire_impl                                                             *)
Expire(w) ==
  /\ op.at = "expire"
  /\ IF live # w \/ row[w].state # "active" THEN Release /\ UNCHANGED <<cap, blocked, hears, acts>>
     ELSE \E good \in BOOLEAN :
            /\ Restored(good)
            /\ LET c == Put(cap, w, [accepting |-> FALSE, safe |-> good])
               IN IF good THEN cap' = c /\ To("expired") ELSE EndWith(c, w, "failed", "word")
  /\ UNCHANGED <<row, live, asr, speech, edits, draft, waiting, kill>>

(* stop_timer(false) does not join.                                        *)
Expired(w) ==
  /\ op.at = "expired" /\ op' = [op EXCEPT !.at = "ended", !.next = "hear"]
  /\ timer' = IF timer.at = "late" THEN timer ELSE NoTimer
  /\ row' = [row EXCEPT ![w].state = "transcribing"]
  /\ UNCHANGED <<cap, live, asr, blocked, speech, hears, edits, draft, acts, waiting, kill>>

Hear(w) ==
  /\ op.at = "hear"
  /\ IF cap[w].audio = 0 THEN Fail(w) /\ UNCHANGED asr
     ELSE Release /\ asr' = [asr EXCEPT ![w] = "queued"] /\ UNCHANGED cap
  /\ UNCHANGED <<row, live, blocked, speech, hears, edits, draft, acts, waiting, kill>>

(* transcribe: the attempt is on record before the request may leave, and   *)
(* the audio stays locked until the provider has answered.                 *)
AsrIdle(w) == \A v \in Windows \ {w} : asr[v] \in {"idle", "queued"}
Transcribe(w) ==
  /\ AsrIdle(w)
  /\ \/ /\ asr[w] = "queued"
        /\ IF cap[w].stop \/ row[w].state # "transcribing"
           THEN asr' = [asr EXCEPT ![w] = "failed"] /\ UNCHANGED row
           ELSE asr' = [asr EXCEPT ![w] = "marked"] /\ row' = [row EXCEPT ![w].attempt = TRUE]
        /\ UNCHANGED billed
     \/ /\ asr[w] = "marked" /\ asr' = [asr EXCEPT ![w] = IF cap[w].stop THEN "failed" ELSE "asking"]
        /\ UNCHANGED <<row, billed>>
     \/ /\ asr[w] = "asking" /\ w \notin billed
        /\ billed' = billed \cup {w} /\ UNCHANGED <<asr, row>>
     \/ /\ asr[w] = "asking"
        /\ \E r \in {"failed"} \cup {"heard" : v \in billed \cap {w}} : asr' = [asr EXCEPT ![w] = r]
        /\ UNCHANGED <<row, billed>>
  /\ UNCHANGED <<up, stage, cap, live, op, waiting, queue, timer, kill, blocked, speech, hears, card,
                 edits, draft, acts>>

Transcribed(w) ==
  /\ asr[w] \in {"heard", "failed"}
  /\ asr' = [asr EXCEPT ![w] = "idle"]
  /\ LET won == IF asr[w] = "heard" THEN 1 ELSE 0
     IN IF Room("privacy")
        THEN queue' = [queue EXCEPT !.privacy = Append(@, Task("finish", w, won, "privacy"))]
             /\ UNCHANGED waiting
        ELSE waiting' = waiting \cup {Task("finish", w, won, "asr")} /\ UNCHANGED queue
  /\ UNCHANGED <<up, stage, row, cap, live, op, timer, kill, blocked, speech, hears, card, edits,
                 draft, billed, acts>>

(* finish_transcription_impl: claim_provider_result, then the private       *)
(* delivery, then finalize_provider_result.  A stop that comes before the   *)
(* last of them takes everything back.                                     *)
Stopped(w) == kill.latch \/ up # "up" \/ cap[w].stop
Finish(w) ==
  /\ op.at = "finish"
  /\ LET gone == live # w \/ row[w].state # "transcribing"
         c == Put(cap, w, [audio |-> 0])
     IN CASE gone -> cap' = c /\ Release /\ UNCHANGED draft
          [] ~gone /\ (c[w].disp # "pending" \/ Stopped(w)) ->
               /\ IF up # "up" \/ c[w].failing THEN cap' = Put(c, w, [disp |-> "abort"]) /\ Release
                  ELSE EndWith(Put(c, w, Aborted), w, "stopped", "overwrite")
               /\ UNCHANGED draft
          [] OTHER ->
               /\ cap' = Put(c, w, [disp |-> "finalizing"])
               /\ draft' = IF op.task.x = 1 THEN [draft EXCEPT ![w] = "active"] ELSE draft
               /\ To(IF op.task.x = 1 THEN "deliver" ELSE "settle")
  /\ UNCHANGED <<row, live, asr, blocked, speech, hears, edits, acts, waiting, kill>>

Deliver(w) ==
  /\ op.at = "deliver"
  /\ IF cap[w].disp # "finalizing" \/ Stopped(w)
     THEN cap' = [cap EXCEPT ![w].disp = "abort"] /\ To("settle")
     ELSE cap' = [cap EXCEPT ![w].told = "transcript"] /\ To("delivering")
  /\ UNCHANGED <<row, live, asr, blocked, speech, hears, edits, draft, acts, waiting, kill>>

(* Discord confirms the delivery, or does not in time, or a stop cuts the   *)
(* wait short.                                                             *)
Delivered(w) ==
  /\ op.at = "delivering"
  /\ \E good \in BOOLEAN :
       /\ IF cap[w].stop THEN UNCHANGED acts ELSE Outcome(good)
       /\ op' = [op EXCEPT !.at = "settle", !.tell = IF good THEN "delivered" ELSE "lost"]
  /\ UNCHANGED <<row, cap, live, timer, asr, blocked, speech, hears, edits, draft, waiting, kill>>

Settle(w) ==
  /\ op.at = "settle"
  /\ \/ /\ cap[w].disp # "finalizing" \/ Stopped(w)
        /\ draft' = [draft EXCEPT ![w] = "none"]
        /\ IF up # "up"
           THEN /\ Release
                /\ \E told \in {"word", "transcript", "overwritten", "unsure"} :
                     Overwrite(w, told) /\ cap' = Put(cap, w, [disp |-> "abort", told |-> told])
           ELSE PrivacyAbort(w) /\ UNCHANGED acts
        /\ UNCHANGED row
     \/ /\ cap[w].disp = "finalizing" /\ ~Stopped(w) /\ UNCHANGED acts
        /\ LET c == Put(cap, w, [disp |-> "finalized", used |-> TRUE])
           IN CASE op.tell = "delivered" ->
                     /\ row' = [WithUsage(row, w, TRUE) EXCEPT ![w].state = "completed"]
                     /\ cap' = c /\ UNCHANGED <<draft, timer>>
                     /\ op' = [op EXCEPT !.at = "ended", !.next = "clear"]
                [] op.tell = "lost" ->
                     /\ row' = [WithUsage(row, w, TRUE) EXCEPT ![w].state = "failed"]
                     /\ cap' = c /\ draft' = [draft EXCEPT ![w] = "none"] /\ UNCHANGED timer
                     /\ op' = [op EXCEPT !.at = "ended", !.next = "tell", !.tell = "overwrite"]
                [] OTHER ->
                     /\ row' = WithUsage(row, w, w \in billed)
                     /\ EndWith(c, w, "failed", "word") /\ UNCHANGED draft
  /\ UNCHANGED <<live, asr, blocked, speech, hears, edits, waiting, kill>>

HeardStep ==
  /\ \E w \in {op.w} \cap Windows :
       \/ Expire(w) \/ Expired(w) \/ Hear(w) \/ Finish(w) \/ Deliver(w) \/ Delivered(w) \/ Settle(w)
  /\ UNCHANGED <<up, stage, queue, card, billed>>

(* The transcript's draft: a modal may be opened once, and is proposed to   *)
(* the Chronicle or lost with time.                                        *)
DraftStep(w) ==
  /\ draft[w] # "none" /\ Act("draft")
  /\ \E d \in {"active", "opening", "opened", "done", "none"} :
       /\ \/ draft[w] = "active" /\ d = "opening"
          \/ draft[w] = "opening" /\ d \in {"opened", "active"}
          \/ draft[w] \in {"opening", "opened"} /\ d \in {"done", "active"}
          \/ d = "none"
       /\ draft' = [draft EXCEPT ![w] = d]
  /\ UNCHANGED <<up, stage, row, cap, live, op, waiting, queue, timer, asr, kill, blocked, speech,
                 hears, card, edits, billed>>

(***************************************************************************)
(* Stop, disable and enable                                                *)
(***************************************************************************)
(* schedule_preemption: a capture is handed to the preemption thread once. *)
Scheduled(c, w) == IF ~Claimable(w) \/ cap[w].cleaned THEN c ELSE Put(c, w, [cleaned |-> TRUE])
Preempts(w) == IF Claimable(w) /\ ~cap[w].cleaned THEN w ELSE kill.w

(* Anyone presses Stop (v is the window on the button, 0 with the command): *)
(* the capture is claimed at once, and abort_active follows on the privacy  *)
(* worker, or on this very thread when its queue is full.                  *)
UserStop(v) ==
  /\ up = "up" /\ Act("stop") /\ v \in {0, live} /\ live # 0
  /\ cap' = Scheduled(Claimed(live), live) /\ kill' = [kill EXCEPT !.w = Preempts(live)]
  /\ IF Room("privacy")
     THEN queue' = [queue EXCEPT !.privacy = Append(@, Task("stop", v, 0, "privacy"))]
          /\ UNCHANGED waiting
     ELSE waiting' = waiting \cup {Task("stop", v, 0, "caller")} /\ UNCHANGED queue
  /\ UNCHANGED <<up, stage, row, live, op, timer, asr, blocked, speech, hears, card, edits, draft,
                 billed>>

AbortActive(v) ==
  /\ op.at = "stop"
  /\ IF Claimable(live) /\ v \in {0, live} THEN PrivacyAbort(live) /\ UNCHANGED kill
     ELSE Release /\ kill' = Answer /\ UNCHANGED cap
  /\ UNCHANGED <<row, waiting, blocked, speech, hears, acts>>

(* The preemption thread does the same if the stop never gets that far.    *)
PreemptedAbort(w) ==
  /\ op.at = "abort"
  /\ IF live = w /\ Claimable(w) THEN PrivacyAbort(w) ELSE Release /\ UNCHANGED cap
  /\ UNCHANGED <<row, waiting, blocked, speech, hears, kill, acts>>

(* The owner's disable preempts in two steps: the latch, then the capture. *)
Disable ==
  /\ up = "up" /\ Act("disable") /\ ~kill.mid
  /\ kill' = [kill EXCEPT !.gen = @ + 1, !.latch = TRUE, !.mid = TRUE]
  /\ UNCHANGED <<up, stage, row, cap, live, op, waiting, queue, timer, asr, blocked, speech, hears,
                 card, edits, draft, billed>>
DisableClaims ==
  /\ kill.mid
  /\ cap' = IF live # 0 THEN Scheduled(Claimed(live), live) ELSE cap
  /\ kill' = [kill EXCEPT !.mid = FALSE, !.persist = TRUE, !.w = Preempts(live),
                          !.told = @ \cup {kill.gen}]
  /\ UNCHANGED <<up, stage, row, live, op, waiting, queue, timer, asr, blocked, speech, hears, card,
                 edits, draft, billed, acts>>

(* set_kill_switch(true), once the interaction is acknowledged.            *)
DisableCommand(g) ==
  /\ g \in kill.told
  /\ kill' = [kill EXCEPT !.latch = TRUE, !.told = @ \ {g}]
  /\ cap' = IF live # 0 THEN Claimed(live) ELSE cap
  /\ waiting' = waiting \cup {Task("disable", 0, g, "caller")}
  /\ UNCHANGED <<up, stage, row, live, op, queue, timer, asr, blocked, speech, hears, card, edits,
                 draft, billed, acts>>

Persisted(g) == [kill EXCEPT !.db = TRUE, !.saved = IF g > @ THEN g ELSE @]
Answered(k, g) == [k EXCEPT !.answered = IF g > @ THEN g ELSE @]

SetDisabled(g) ==
  /\ op.at = "disable"
  /\ CASE up # "up" -> Release /\ UNCHANGED <<cap, kill>>
       [] up = "up" /\ kill.saved >= g -> Release /\ kill' = Answered(kill, g) /\ UNCHANGED cap
       [] OTHER -> /\ op' = [op EXCEPT !.at = "disarm", !.w = IF Claimable(live) THEN live ELSE 0]
                   /\ cap' = IF live # 0 THEN Claimed(live) ELSE cap
                   /\ UNCHANGED <<kill, timer>>
  /\ UNCHANGED <<row, waiting, blocked, speech, hears, acts>>
WriteDisabled(g) ==
  /\ op.at = "disarm" /\ Release
  /\ IF op.w # 0
     THEN /\ asr[op.w] # "asking"
          /\ \E good \in BOOLEAN : Restored(good)
               /\ cap' = Put(cap, op.w, [audio |-> 0, safe |-> good])
          /\ kill' = Persisted(g) /\ UNCHANGED speech
          /\ waiting' = waiting \cup {Task("stop", 0, g, "caller")}
     ELSE /\ IF blocked.transport
             THEN \E good \in BOOLEAN : Restored(good)
                    /\ speech' = (speech /\ ~(good /\ blocked.status = 0))
             ELSE UNCHANGED <<blocked, hears, speech, acts>>
          /\ kill' = Answered(Persisted(g), g) /\ UNCHANGED <<cap, waiting>>
  /\ UNCHANGED row

(* persist_pending_disable                                                 *)
Persist ==
  /\ op.at = "persist" /\ Release
  /\ kill' = IF kill.saved >= kill.gen THEN kill ELSE [Persisted(kill.gen) EXCEPT !.latch = TRUE]
  /\ UNCHANGED <<row, cap, waiting, blocked, speech, hears, acts>>

(* set_kill_switch(false) knows the newest disable it was given after.     *)
Enable ==
  /\ up = "up" /\ kill.latch /\ Act("enable")
  /\ ~\E t \in waiting \cup {op.task} : t.kind = "enable"
  /\ waiting' = waiting \cup {Task("enable", 0, kill.gen, "caller")}
  /\ UNCHANGED <<up, stage, row, cap, live, op, queue, timer, asr, kill, blocked, speech, hears,
                 card, edits, draft, billed>>
\* Seeded fault: a disable given after the enable does not count.
Newest_trusted(g) == g <= kill.gen
Newest(g) == g = kill.gen
SetEnabled(g) ==
  /\ \/ /\ op.at = "enable"
        /\ IF up # "up" \/ ~Newest(g) THEN Release ELSE To("write")
        /\ UNCHANGED kill
     \/ op.at = "write" /\ kill' = [kill EXCEPT !.db = FALSE, !.revoked = g] /\ To("check")
     \/ /\ op.at = "check"
        /\ IF Newest(g) THEN To("look") /\ UNCHANGED kill
           ELSE Release /\ kill' = [Persisted(kill.gen) EXCEPT !.latch = TRUE]
     \/ /\ op.at = "look" /\ UNCHANGED kill
        /\ IF Newest(g) THEN To("unlatch") ELSE Release
     \/ op.at = "unlatch" /\ Release /\ kill' = [kill EXCEPT !.latch = FALSE]
  /\ UNCHANGED <<row, cap, waiting, blocked, speech, hears, acts>>

ControlStep ==
  /\ \/ AbortActive(op.task.w) \/ PreemptedAbort(op.w) \/ SetDisabled(op.task.x)
     \/ WriteDisabled(op.task.x) \/ Persist \/ SetEnabled(op.task.x)
  /\ UNCHANGED <<up, stage, live, queue, asr, card, edits, draft, billed>>

(* drain_preemptions: first the switch, then the capture.                  *)
Drain ==
  /\ ~Busy("preempt")
  /\ \/ kill.persist /\ kill' = [kill EXCEPT !.persist = FALSE]
        /\ waiting' = waiting \cup {Task("persist", 0, 0, "preempt")}
     \/ ~kill.persist /\ kill.w # 0 /\ kill' = [kill EXCEPT !.w = 0]
        /\ waiting' = waiting \cup {Task("abort", kill.w, 0, "preempt")}
  /\ UNCHANGED <<up, stage, row, cap, live, op, queue, timer, asr, blocked, speech, hears, card,
                 edits, draft, billed, acts>>

(***************************************************************************)
(* Callbacks from the voice connection                                     *)
(***************************************************************************)
(* submit_callback_failure: the cleanup jumps the callback queue; when      *)
(* there is no room it goes to a worker of its own, and else runs here.    *)
Failing(w, c, member) ==
  LET cc == Put(c, w, ("failing" :> TRUE) @@ Aborted)
  IN IF cap[w].failing \/ ~Claimable(w) THEN cap' = c /\ UNCHANGED <<queue, waiting>>
     ELSE IF Room("callback")
     THEN /\ cap' = cc /\ UNCHANGED waiting
          /\ queue' = [queue EXCEPT !.callback = <<Task("fail", w, 0, "callback")>> \o @]
     ELSE /\ cap' = Put(cc, w, [audio |-> TryScrub(w)])
          /\ IF Room("cleanup")
             THEN queue' = [queue EXCEPT !.cleanup = Append(@, Task("fail", w, 0, "cleanup"))]
                  /\ UNCHANGED waiting
             ELSE waiting' = waiting \cup {Task("fail", w, 0, "caller")} /\ UNCHANGED queue

(* The connection changed under the window.                                *)
ConnectionChanges ==
  /\ up = "up" /\ live # 0 /\ Act("callback") /\ Failing(live, cap, FALSE)
  /\ UNCHANGED <<up, stage, row, live, op, timer, asr, kill, blocked, speech, hears, card, edits,
                 draft, billed>>

(* The buffer is full before the time is up.                               *)
CapacityReached(w) ==
  /\ live = w /\ cap[w].audio = 1 /\ cap[w].accepting /\ ~cap[w].stop /\ ~cap[w].full
  /\ LET c == Put(cap, w, [full |-> TRUE, accepting |-> FALSE])
     IN IF Room("callback")
        THEN /\ cap' = c /\ UNCHANGED waiting
             /\ queue' = [queue EXCEPT !.callback = <<Task("expire", w, 0, "callback")>> \o @]
        ELSE Failing(w, c, FALSE)
  /\ UNCHANGED <<up, stage, row, live, op, timer, asr, kill, blocked, speech, hears, card, edits,
                 draft, billed, acts>>

MembersChange ==
  /\ up = "up" /\ live # 0 /\ Act("callback")
  /\ IF cap[live].member THEN UNCHANGED <<cap, queue, waiting>>
     ELSE IF Room("callback")
     THEN /\ cap' = [cap EXCEPT ![live].member = TRUE] /\ UNCHANGED waiting
          /\ queue' = [queue EXCEPT !.callback = Append(@, Task("validate", live, 0, "callback"))]
     ELSE Failing(live, cap, FALSE)
  /\ UNCHANGED <<up, stage, row, live, op, timer, asr, kill, blocked, speech, hears, card, edits,
                 draft, billed>>

(* validate_membership looks without the mutex, and then waits for it.     *)
Validate(w, gone) ==
  LET c == [cap EXCEPT ![w].member = FALSE]
  IN IF ~gone \/ cap[w].stop \/ live # w \/ row[w].state \in Over \/ cap[w].failing \/ ~Claimable(w)
     THEN cap' = c /\ UNCHANGED waiting
     ELSE /\ cap' = Put(c, w, ("failing" :> TRUE) @@ Aborted)
          /\ waiting' = waiting \cup {Task("fail", w, 0, "callback")}

WorkerTakes(k) ==
  /\ queue[k] # <<>> /\ ~Busy(k) /\ queue' = [queue EXCEPT ![k] = Tail(@)]
  /\ IF Head(queue[k]).kind = "validate"
     THEN \E gone \in BOOLEAN : Outcome(~gone) /\ Validate(Head(queue[k]).w, gone)
     ELSE waiting' = waiting \cup {Head(queue[k])} /\ UNCHANGED <<cap, acts>>
  /\ UNCHANGED <<up, stage, row, live, op, timer, asr, kill, blocked, speech, hears, card, edits,
                 draft, billed>>

(* The cleanup of a failed callback runs whatever became of its window.    *)
CallbackFails(w) ==
  /\ op.at = "fail" /\ op.w = w /\ Fail(w)
  /\ UNCHANGED <<up, stage, row, live, waiting, queue, asr, kill, blocked, speech, hears, card,
                 edits, draft, billed, acts>>

(***************************************************************************)
(* Stop, crash and start of the process                                    *)
(***************************************************************************)
(* stop(): the switch is saved, the preemption thread drained, the capture  *)
(* claimed, the timer and the control workers joined; then the window ends.*)
Stop ==
  /\ up = "up" /\ Act("exit") /\ up' = "stopping" /\ stage' = "drain"
  /\ waiting' = IF kill.saved >= kill.gen THEN waiting
                ELSE waiting \cup {Task("persist", 0, 0, "stopper")}
  /\ UNCHANGED <<row, cap, live, op, queue, timer, asr, kill, blocked, speech, hears, card, edits,
                 draft, billed>>
StopGoesOn ==
  /\ \/ /\ stage = "drain" /\ ~Busy("stopper") /\ ~Busy("preempt") /\ ~kill.persist /\ kill.w = 0
        /\ stage' = "timer" /\ UNCHANGED <<timer, queue, waiting>>
        /\ cap' = IF live # 0 THEN Put(Claimed(live), live, [stop |-> TRUE, accepting |-> FALSE]) ELSE cap
     \/ /\ stage = "timer" /\ timer.at # "late" /\ timer' = NoTimer /\ stage' = "join"
        /\ UNCHANGED <<cap, queue, waiting>>
     \/ /\ stage = "join" /\ ~Busy("control") /\ ~Busy("cleanup") /\ stage' = "close"
        /\ queue' = [queue EXCEPT !.cleanup = <<>>]
        /\ waiting' = waiting \cup {Task("close", live, 0, "stopper")}
        /\ UNCHANGED <<cap, timer>>
  /\ UNCHANGED <<up, row, live, op, asr, kill, blocked, speech, hears, card, edits, draft, billed, acts>>

Close ==
  /\ op.at = "close"
  /\ IF live = 0 THEN Release /\ UNCHANGED cap
     ELSE EndWith(Claimed(live), live, "abandoned", "overwrite")
  /\ UNCHANGED <<up, stage, row, live, waiting, queue, asr, kill, blocked, speech, hears, card,
                 edits, draft, billed, acts>>

(* The process is gone: its memory, its threads and its queues with it.    *)
Gone ==
  /\ up' = "down" /\ stage' = "run" /\ live' = 0 /\ op' = Free /\ waiting' = {}
  /\ cap' = [w \in Windows |-> NewCapture] /\ queue' = [k \in Crews |-> <<>>] /\ timer' = NoTimer
  /\ asr' = [w \in Windows |-> "idle"] /\ blocked' = Unblocked /\ speech' = FALSE /\ hears' = 0
  /\ edits' = [w \in Windows |-> <<>>] /\ draft' = [w \in Windows |-> "none"]
  /\ kill' = [kill EXCEPT !.saved = kill.gen, !.mid = FALSE, !.persist = FALSE, !.w = 0, !.told = {}]
  /\ UNCHANGED <<row, card, billed>>
Exit == stage = "close" /\ ~Busy("stopper") /\ Gone /\ UNCHANGED acts
Crash == up # "down" /\ Act("crash") /\ Gone

(* start(): the latch is read, and what was left open is abandoned.  An     *)
(* attempt that may have left keeps its reserve.                           *)
\* Seeded fault: what is not known to have been sent was not.
Abandoned_unsent(r) ==
  IF r.state \notin Open THEN r
  ELSE [r EXCEPT !.state = "abandoned", !.released = @ \/ r.usage # "sent"]
Abandoned(r) ==
  IF r.state \notin Open THEN r
  ELSE [r EXCEPT !.state = "abandoned",
                 !.released = @ \/ (r.usage # "sent" /\ (~r.attempt \/ r.usage = "unsent"))]
Start ==
  /\ up = "down" /\ up' = "up" /\ kill' = [kill EXCEPT !.latch = kill.db]
  /\ row' = [w \in Windows |-> Abandoned(row[w])]
  /\ UNCHANGED <<stage, cap, live, op, waiting, queue, timer, asr, blocked, speech, hears, card,
                 edits, draft, billed, acts>>

Shock ==
  \/ \E v \in 0..MaxWindows : UserStop(v)
  \/ Disable \/ Enable \/ ConnectionChanges \/ MembersChange \/ Stop \/ Crash
World ==
  \/ Shock
  \/ \E w \in Windows : ListenStart(w) \/ ReceiveAudio(w) \/ CapacityReached(w) \/ EditFails(w)
                        \/ DraftStep(w)
  \/ \E g \in kill.told : DisableCommand(g)
Service ==
  \/ Acquire \/ BeginStep \/ EndStep \/ HeardStep \/ ControlStep \/ Close \/ GiveUp
  \/ TimerFires \/ Drain \/ DisableClaims \/ StopGoesOn \/ Exit \/ Start
  \/ \E w \in Windows : Transcribe(w) \/ Transcribed(w) \/ CallbackFails(w) \/ EditLands(w)
  \/ \E k \in Crews : WorkerTakes(k)

Next == World \/ Service

Spec == Init /\ [][Next]_vars /\ WF_vars(Service)

(***************************************************************************)
(* Properties                                                              *)
(***************************************************************************)
TypeOK ==
  /\ up \in {"up", "stopping", "down"} /\ live \in 0..MaxWindows /\ \A k \in Kinds : acts[k] >= 0
  /\ \A w \in Windows :
       /\ row[w].state \in Open \cup Over \cup {"none"} /\ cap[w].audio \in 0..1
       /\ cap[w].disp \in {"pending", "abort", "finalizing", "finalized"}
       /\ asr[w] \in {"idle", "queued", "marked", "asking", "heard", "failed"}
       /\ card[w] \in {"none", "arming", "listening", "ended"}
       /\ draft[w] \in {"none", "active", "opening", "opened", "done"}
  /\ \A k \in Crews : Len(queue[k]) <= WorkerCap(k)

(* Audio is kept only while the card everyone sees says LISTENING, the     *)
(* window is on record as active, and the bot's own speech is excluded.    *)
HeardOnlyWhileShown ==
  [][\A w \in Windows : cap'[w].audio > cap[w].audio =>
       card[w] = "listening" /\ row[w].state = "active" /\ speech /\ ~cap[w].stop]_vars

(* A window that takes in audio has a timer, or an expiry on its way.      *)
Expiring(w) == \E t \in waiting \cup {op.task} \cup {queue.privacy[i] : i \in 1..Len(queue.privacy)} :
                  t.kind = "expire" /\ t.w = w
DeadlineHolds ==
  \A w \in Windows : live = w /\ cap[w].accepting /\ ~cap[w].stop =>
     (timer.w = w /\ timer.at = "armed") \/ Expiring(w)

(* What is over is forgotten: no audio, no draft but that of a completed   *)
(* window, and a transcript whose window was stopped is taken back.        *)
SecretsAreDropped ==
  \A w \in Windows : live # w /\ up = "up" =>
     /\ cap[w].audio = 0
     /\ draft[w] # "none" \/ cap[w].told = "transcript" => row[w].state = "completed"

(* Audio that left the process is paid for, whatever came after it.        *)
CostIsCounted == \A w \in billed : row[w].usage = "sent" \/ ~row[w].released

(* Speech is held back only for a window, or because something could not   *)
(* be confirmed; and while something could not, it is held back.           *)
SpeechReturns == /\ speech => live # 0 \/ blocked # Unblocked \/ op # Free
                 /\ blocked # Unblocked => speech

(* After the answer to a disable, and until an enable given later has       *)
(* revoked it, the switch is on, whatever enables were under way; no        *)
(* window begins and nobody is told a transcript.                          *)
DisabledStaysSilent ==
  [][kill.answered > kill.revoked =>
       /\ kill.latch \/ kill.db
       /\ \A w \in Windows : /\ row'[w].state = "proposed" => row[w].state = "proposed"
                             /\ cap'[w].told = "transcript" => cap[w].told = "transcript"]_vars

(* The card of a window that is over says so, or its replacement does, or  *)
(* an edit is under way, or speech and listening are blocked for it.       *)
EndIsTold ==
  \A w \in Windows : up = "up" /\ cap[w].shown /\ live # w /\ op.w # w =>
     card[w] = "ended" \/ cap[w].replaced \/ edits[w] # <<>> \/ blocked.status = w

(* Every window ends.  It need not when its timer's thread, having found    *)
(* the privacy queue full, waits for the mutex itself: the holder may be    *)
(* joining it.                                                             *)
EveryWindowEnds == \A w \in Windows : row[w].state \in Open ~> row[w].state \in Over
WindowsEnd == \A w \in Windows : row[w].state \in Open ~> row[w].state \in Over \/ timer.at = "late"
=============================================================================
