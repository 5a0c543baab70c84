------------------------------ MODULE MCVoice ------------------------------
(* The voice session (Vox) and the speech queue, in parts that share no    *)
(* state: the speech queue has its own small worker of Vox.  `scene` says  *)
(* which of them moves, and in the speech queue what happens to it:        *)
(* vox    - sessions after each other, a queue of two and a few shocks;    *)
(* calm   - a question and a narration, expiry, a mute, a hush;            *)
(* crowd  - two questions and a narration for two places;                  *)
(* again  - a mute that is lifted;                                         *)
(* drop   - connections lost and found;                                    *)
(* end    - the session is left or closed;                                 *)
(* flavor - greetings are prepared, whatever happens to the session;       *)
(* listen - voice input listens in between.                                *)
EXTENDS Vox, FiniteSets

CONSTANTS i1, i2, n1, er, fw, wf, None

VARIABLES scene, row, call, active, muted, transport, listening, quiet, item,
          late, tasks, worker, play, playing, pending, sound, flavor, making, acts

Lines == {i1, i2, n1, er, fw, wf}
MCKind == [i \in Lines |-> CASE i \in {i1, i2} -> "interactive" [] i = n1 -> "narration"
                             [] i = er -> "critical" [] i = fw -> "farewell" [] OTHER -> "warm"]

S == INSTANCE Speech WITH Items <- Lines, Kind <- MCKind, Capacity <- 2, QueueCap <- 4,
                          MaxActs <- 4

speechVars == <<row, call, active, muted, transport, listening, quiet, item, late, tasks,
                worker, play, playing, pending, sound, flavor, making, acts>>

Speaking == {"calm", "crowd", "again", "drop", "end", "flavor", "listen"}

MCInit == Init /\ S!Init /\ scene \in {"vox"} \cup Speaking

(* A step inside its scene.                                                *)
Script ==
  /\ scene # "flavor" => flavor' = None
  /\ scene = "flavor" => \A i \in {i1, i2} : item'[i].state = "none"
  /\ scene # "crowd"  => item'[i2].state = "none"
  /\ scene # "calm" => acts' <= IF scene = "crowd" THEN 2 ELSE 3
  /\ scene \notin {"drop", "flavor"} /\ row' # row => row'.state # "reconnecting"
  /\ scene \notin {"end", "flavor"} => row'.state \notin {"leaving", "gone"}
  /\ scene # "again" => ~(row.state = "muted" /\ row'.state = "ready")
  /\ scene # "listen" => ~listening'

(* A bound of the vox scene: once there was a shock, one task waits at a   *)
(* time.                                                                   *)
OneWaits == Len(queue') > Len(queue) /\ shocks' > 0 => Len(queue') = 1

MCNext ==
  \/ scene = "vox" /\ Next /\ OneWaits /\ UNCHANGED <<scene, speechVars>>
  \/ scene \in Speaking /\ S!Next /\ Script /\ UNCHANGED <<scene, vars>>

MCFairness ==
  /\ SF_queue(scene = "vox" /\ (TakeCallback \/ TakeJob))
  /\ WF_guard(scene = "vox" /\ (FreeWorker \/ Retry))
  /\ SF_queue(scene = "vox" /\ queue = <<>> /\ \E j \in Jobs : Claim(j)) /\ WF_up(scene = "vox" /\ Restart)
  /\ WF_speechVars(scene \in Speaking /\ S!SynthesisStep /\ Script)
  /\ WF_speechVars(scene \in Speaking /\ S!PlaybackStep /\ Script)
  /\ WF_speechVars(scene \in Speaking /\ S!Marker /\ Script)
  /\ WF_speechVars(scene \in Speaking /\ S!CallGoesOn /\ Script)

MCSpec == MCInit /\ [][MCNext]_<<scene, vars, speechVars>> /\ MCFairness

(* While a connection drops or is prepared anew, a reconnect that comes    *)
(* late clears what was sent after it; and a mute that is lifted at once    *)
(* sends what it had cancelled: these scenes are exempt.                   *)
Steady == scene \notin {"drop", "flavor"}

(* One line is heard at a time, and every line under way is in the hands of *)
(* a worker or of the queue (and both parts have their types).             *)
LinesAreHeld == /\ TypeOK /\ S!TypeOK
                /\ Steady => S!OneLineAtATime /\ S!HeldBySomeone

(* What is sent is still wanted, and a flavor that comes late changes       *)
(* nothing.                                                                *)
LinesAsAsked ==
  /\ [][Steady /\ scene # "again" => S!SendsWanted]_<<scene, speechVars>>
  /\ S!LateFlavorStays

(* Nothing waits for ever: not a session for Discord, not a line for its    *)
(* worker, and not the bot in the channel of a session that is over.       *)
NothingHangs ==
  NeverStuck /\ LeavesTheChannel /\ (scene \in {"calm", "crowd", "again"} => S!LinesSettle)
=============================================================================
