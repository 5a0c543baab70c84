------------------------------ MODULE Executor ------------------------------
(***************************************************************************)
(* The bounded worker pools: BoundedExecutor (one queue, work may jump it  *)
(* or displace its last entry) and AiWorkService (three lanes served by a  *)
(* weighted schedule).  Both have the same worker loop and the same stop.  *)
(*                                                                         *)
(* What happens under the pools' mutex is one action.  A worker that finds *)
(* nothing to do evaluates the predicate of ready_.wait and goes to sleep  *)
(* in two steps, the mutex held in between: whoever notifies without the   *)
(* mutex may do so between them.                                           *)
(***************************************************************************)
EXTENDS Integers, FiniteSets, Functions, SequencesExt

CONSTANTS
  Tasks,     \* tasks submitted; the name of a settled task is used again
  Workers,   \* worker threads of a pool
  Pools      \* the pools considered, each with its lanes, limits, schedule

(* limits: the most entries that may be queued in a set of lanes together; *)
(* jumps: front and superseding submissions are offered.                   *)
PoolConfiguration(p) ==
  /\ IsFiniteSet(p.lanes) /\ p.lanes # {}
  /\ p.schedule \in Seq(p.lanes) /\ p.lanes \subseteq Range(p.schedule)
  /\ \A l \in p.limits : l.lanes \subseteq p.lanes /\ l.most \in Nat \ {0}
  /\ \E l \in p.limits : l.lanes = p.lanes
  /\ p.jumps \in BOOLEAN /\ (p.jumps => Cardinality(p.lanes) = 1)

NoTask == [none |-> TRUE]

ASSUME ExecutorAssumption ==
  /\ Workers # {} /\ NoTask \notin Tasks
  /\ \A p \in Pools : PoolConfiguration(p)

VARIABLES
  pool,      \* the pool under consideration, never changed
  queue,     \* tasks_: the pending entries of each lane
  turn,      \* schedule_index_
  accepting, \* accepting_
  at,        \* where each worker is in run
  running,   \* the task each busy worker runs
  stopping,  \* how far stop has come
  pending,   \* the entries stop has taken out of each lane's queue
  mark       \* what has become of each task, for the properties

vars == <<pool, queue, turn, accepting, at, running, stopping, pending, mark>>

(* An entry's cancellation may be empty. *)
Entry == [task: Tasks, tells: BOOLEAN]

(* The occupied places of some lanes, and how many they are.               *)
Places(lanes) == UNION {{l} \X DOMAIN queue[l] : l \in lanes}
Queued(lanes) == Cardinality(Places(lanes))

Held == {running[k] : k \in Workers} \cap Tasks

Listed(s) == {s[i].task : i \in DOMAIN s}

InPool ==
  Held \cup UNION {Listed(queue[l]) \cup Listed(pending[l]) : l \in pool.lanes}

Init ==
  /\ pool \in Pools
  /\ queue = [l \in pool.lanes |-> <<>>]
  /\ turn = 1
  /\ accepting = FALSE
  /\ at = [k \in Workers |-> "unborn"]
  /\ running = [k \in Workers |-> NoTask]
  /\ stopping = "no"
  /\ pending = [l \in pool.lanes |-> <<>>]
  /\ mark = [t \in Tasks |-> {}]

Start ==
  /\ \A k \in Workers : at[k] = "unborn"
  /\ accepting' = TRUE
  /\ at' = [k \in Workers |-> "idle"]
  /\ UNCHANGED <<pool, queue, turn, running, stopping, pending, mark>>

(* A drowsy worker is inside ready_.wait, holding the mutex, its predicate *)
(* found false, and not yet asleep.                                        *)
MutexFree == \A k \in Workers : at[k] # "drowsy"

-----------------------------------------------------------------------------
(* Submission *)

(* notify_one: some sleeping worker, if there is one. *)
NotifyOne ==
  LET sleepers == {k \in Workers : at[k] = "asleep"} IN
  IF sleepers = {} THEN UNCHANGED at
  ELSE \E k \in sleepers : at' = [at EXCEPT ![k] = "idle"]

(* Seeded fault: a lane is held only to its own limit. *)
Room_ownLimit(lane) ==
  \A l \in pool.limits : l.lanes = {lane} => Queued(l.lanes) < l.most

Room(lane) == \A l \in pool.limits : lane \in l.lanes => Queued(l.lanes) < l.most

Fresh(t) == IF t.tells THEN {"owed"} ELSE {}

Submit(e, lane) ==
  /\ accepting /\ MutexFree
  /\ e.task \notin InPool
  /\ Room(lane)
  /\ queue' = [queue EXCEPT ![lane] = Append(@, e)]
  /\ mark' = [mark EXCEPT ![e.task] = Fresh(e)]
  /\ NotifyOne
  /\ UNCHANGED <<pool, turn, accepting, running, stopping, pending>>

(* try_submit_front *)
SubmitFront(e, lane) ==
  /\ pool.jumps
  /\ accepting /\ MutexFree
  /\ e.task \notin InPool
  /\ Room(lane)
  /\ queue' = [queue EXCEPT ![lane] = <<e>> \o @]
  /\ mark' = [mark EXCEPT ![e.task] = Fresh(e)]
  /\ NotifyOne
  /\ UNCHANGED <<pool, turn, accepting, running, stopping, pending>>

(* What calling an entry's cancellation does to its task. *)
Told(marks, e) ==
  IF e.tells THEN [marks EXCEPT ![e.task] = @ \cup {"told"}] ELSE marks

(* try_submit_front_superseding on a full queue: the last entry makes room *)
(* and its cancellation is called.                                         *)
SubmitSuperseding(e, lane) ==
  /\ pool.jumps
  /\ accepting /\ MutexFree
  /\ e.task \notin InPool
  /\ ~Room(lane)
  /\ queue' = [queue EXCEPT ![lane] = <<e>> \o Front(@)]
  /\ mark' = [Told(mark, Last(queue[lane])) EXCEPT ![e.task] = Fresh(e)]
  /\ NotifyOne
  /\ UNCHANGED <<pool, turn, accepting, running, stopping, pending>>

-----------------------------------------------------------------------------
(* Workers *)

Asked == stopping \in {"asked", "joining", "done"}

Slot(i) == ((i - 1) % Len(pool.schedule)) + 1

(* Seeded fault: the schedule starts over after every task. *)
NextSlot_restart(i) == 1

(* Seeded fault: the schedule index is not wrapped around. *)
NextSlot_unwrapped(i) == i + 1

NextSlot(i) == Slot(i + 1)

(* next_lane: the first slot, from the current one on, whose lane holds    *)
(* work; the schedule goes on behind it.                                   *)
Chosen ==
  Slot(turn + CHOOSE i \in 0..Len(pool.schedule) - 1 :
                /\ queue[pool.schedule[Slot(turn + i)]] # <<>>
                /\ \A j \in 0..i - 1 : queue[pool.schedule[Slot(turn + j)]] = <<>>)

Take(k) ==
  /\ at[k] = "idle" /\ MutexFree /\ ~Asked
  /\ Queued(pool.lanes) > 0
  /\ LET lane == pool.schedule[Chosen]
         e == Head(queue[lane])
     IN
     /\ queue' = [queue EXCEPT ![lane] = Tail(@)]
     /\ turn' = NextSlot(Chosen)
     /\ running' = [running EXCEPT ![k] = e.task]
     /\ mark' = [mark EXCEPT ![e.task] = @ \cup {"ran"}]
  /\ at' = [at EXCEPT ![k] = "busy"]
  /\ UNCHANGED <<pool, accepting, stopping, pending>>

(* The task returns or throws; a stop is visible to it but not enforced.   *)
Finish(k) ==
  /\ at[k] = "busy" /\ MutexFree
  /\ at' = [at EXCEPT ![k] = "idle"]
  /\ running' = [running EXCEPT ![k] = NoTask]
  /\ UNCHANGED <<pool, queue, turn, accepting, stopping, pending, mark>>

(* ready_.wait finds its predicate false ... *)
Doze(k) ==
  /\ at[k] = "idle" /\ MutexFree /\ ~Asked
  /\ Queued(pool.lanes) = 0
  /\ at' = [at EXCEPT ![k] = "drowsy"]
  /\ UNCHANGED <<pool, queue, turn, accepting, running, stopping, pending, mark>>

(* ... and blocks, releasing the mutex. *)
FallAsleep(k) ==
  /\ at[k] = "drowsy"
  /\ at' = [at EXCEPT ![k] = "asleep"]
  /\ UNCHANGED <<pool, queue, turn, accepting, running, stopping, pending, mark>>

SpuriousWakeup(k) ==
  /\ at[k] = "asleep"
  /\ at' = [at EXCEPT ![k] = "idle"]
  /\ UNCHANGED <<pool, queue, turn, accepting, running, stopping, pending, mark>>

Exit(k) ==
  /\ at[k] = "idle" /\ Asked
  /\ at' = [at EXCEPT ![k] = "exited"]
  /\ UNCHANGED <<pool, queue, turn, accepting, running, stopping, pending, mark>>

-----------------------------------------------------------------------------
(* stop *)

(* Seeded fault: the entries are copied out, not taken. *)
LeftQueued_copy == queue

LeftQueued == [l \in pool.lanes |-> <<>>]

Stop ==
  /\ stopping = "no" /\ MutexFree
  /\ \A k \in Workers : at[k] # "unborn"
  /\ accepting' = FALSE
  /\ pending' = queue
  /\ queue' = LeftQueued
  /\ stopping' = "cancelling"
  /\ UNCHANGED <<pool, turn, at, running, mark>>

(* The lanes that still hold entries to cancel.                            *)
Uncancelled == {l \in pool.lanes : pending[l] # <<>>}

(* The cancellations are called lane after lane.                           *)
CancelNext ==
  /\ stopping = "cancelling" /\ Uncancelled # {}
  /\ LET lane == CHOOSE l \in Uncancelled : TRUE IN
     /\ mark' = Told(mark, Head(pending[lane]))
     /\ pending' = [pending EXCEPT ![lane] = Tail(@)]
  /\ UNCHANGED <<pool, queue, turn, accepting, at, running, stopping>>

(* request_stop for every worker, without the mutex *)
RequestStop ==
  /\ stopping = "cancelling" /\ Uncancelled = {}
  /\ stopping' = "asked"
  /\ UNCHANGED <<pool, queue, turn, accepting, at, running, pending, mark>>

(* ready_.notify_all, without the mutex: it wakes who is asleep by now     *)
NotifyAll ==
  /\ stopping = "asked"
  /\ at' = [k \in Workers |-> IF at[k] = "asleep" THEN "idle" ELSE at[k]]
  /\ stopping' = "joining"
  /\ UNCHANGED <<pool, queue, turn, accepting, running, pending, mark>>

(* workers_.clear joins every worker. *)
Join ==
  /\ stopping = "joining"
  /\ \A k \in Workers : at[k] = "exited"
  /\ stopping' = "done"
  /\ UNCHANGED <<pool, queue, turn, accepting, at, running, pending, mark>>

-----------------------------------------------------------------------------
Submission ==
  \E e \in Entry, lane \in pool.lanes :
    \/ Submit(e, lane)
    \/ SubmitFront(e, lane)
    \/ SubmitSuperseding(e, lane)

WorkerStep(k) ==
  \/ Take(k)
  \/ Finish(k)
  \/ Doze(k)
  \/ FallAsleep(k)
  \/ Exit(k)

StopStep ==
  \/ CancelNext
  \/ RequestStop
  \/ NotifyAll
  \/ Join

Next ==
  \/ Start
  \/ Submission
  \/ \E k \in Workers : WorkerStep(k) \/ SpuriousWakeup(k)
  \/ Stop
  \/ StopStep

(* Threads that can run do run, and tasks end: every wait in a task is     *)
(* bounded or interrupted by the stop token.  Nobody has to submit, to     *)
(* stop the pool or to wake up spuriously.                                 *)
Fairness ==
  /\ \A k \in Workers : WF_vars(WorkerStep(k))
  /\ WF_vars(StopStep)

Spec == Init /\ [][Next]_vars /\ Fairness

-----------------------------------------------------------------------------
(* Properties *)

TypeOK ==
  /\ pool \in Pools
  /\ queue \in [pool.lanes -> Seq(Entry)]
  /\ turn \in 1..Len(pool.schedule)
  /\ accepting \in BOOLEAN
  /\ at \in [Workers -> {"unborn", "idle", "busy", "drowsy", "asleep", "exited"}]
  /\ running \in [Workers -> Tasks \cup {NoTask}]
  /\ \A k \in Workers : at[k] = "busy" <=> running[k] \in Tasks
  /\ stopping \in {"no", "cancelling", "asked", "joining", "done"}
  /\ pending \in [pool.lanes -> Seq(Entry)]
  /\ mark \in [Tasks -> SUBSET {"owed", "ran", "told"}]

(* A task is run or its submitter is told that it will not be, never both; *)
(* and never neither: what has left the pool was settled.                  *)
SettledOnce ==
  \A t \in Tasks :
    /\ ~({"ran", "told"} \subseteq mark[t])
    /\ "owed" \in mark[t] /\ t \notin InPool => {"ran", "told"} \cap mark[t] # {}

(* The slots kept free for direct work are never taken by the other lanes: *)
(* direct work is turned away only when it fills those slots itself.       *)
DirectHasRoom ==
  \A l \in pool.limits, m \in pool.limits :
    m.lanes # pool.lanes /\ l.lanes = pool.lanes /\ Queued(l.lanes) >= l.most
      => Queued(pool.lanes \ m.lanes) >= l.most - m.most

(* A task runs, or its submitter is told that it will not, and never both;  *)
(* and the slots kept for direct work are not taken by the other lanes.    *)
TasksAreKept == SettledOnce /\ DirectHasRoom

(* No lane starves: whatever is submitted to the other lanes, a queued     *)
(* task is started, or cancelled by a stop.  (Work that may jump the queue *)
(* can starve the rest of a BoundedExecutor, so it is not claimed there.)  *)
Served(t) ==
  (~pool.jumps /\ \E l \in pool.lanes : t \in Listed(queue[l]))
    ~> \A l \in pool.lanes : t \notin Listed(queue[l])

LanesServed == \A t \in Tasks : Served(t)

(* stop returns, with no task active any more. *)
StopReturns == stopping # "no" ~> stopping = "done"
=============================================================================
