------------------------------ MODULE TaskStream ------------------------------
(***************************************************************************)
(* Delivery of ingestion tasks from the API server to the task executors.  *)
(*                                                                         *)
(* The server inserts a Task row and XADDs a message that names it to one  *)
(* of two Redis streams (queue_product).  Every executor process belongs   *)
(* to one consumer group: XREADGROUP moves a message into the pending      *)
(* entries list (PEL) of the executor that read it, XACK removes it.  An   *)
(* executor acknowledges a message only when its handler has ended, and    *)
(* after a restart first walks its own PEL (get_unacked_iterator).         *)
(*                                                                         *)
(* collect() contains no await, so the coroutines of one process are       *)
(* suspended while pc[e] is not "loop"; other processes and               *)
(* the server are not, and the process may die at any point.               *)
(***************************************************************************)
EXTENDS Naturals, Sequences, FiniteSets

CONSTANTS
  Executors,     \* consumer names of the group
  Tasks,         \* task ids
  Kind,          \* Tasks -> Kinds: which branch of collect() loads the task
  QueueOf,       \* Tasks -> Queues: the priority the producer chose
  MaxSlots,      \* MAX_CONCURRENT_TASKS, permits of task_limiter
  MaxCrashes,    \* bound: executor deaths in a behaviour
  MaxFaults      \* bound: failed Redis or database calls in a behaviour

\* get_svr_queue_names(): queue 1 is priority 1, queue 2 is priority 0.
Queues == 1..2

\* How collect() obtains the task: get_task (documents, raptor, graphrag),
\* get_by_id (memory), or the message itself (debug run of a dataflow).
Kinds == {"document", "memory", "debug"}

\* retry_count at which get_task abandons the task.
MaxAttempts == 3

\* XADD attempts of one queue_product call.
MaxPushes == 3

ASSUME StreamAssumption ==
  /\ Kind \in [Tasks -> Kinds]
  /\ QueueOf \in [Tasks -> Queues]
  /\ MaxSlots \in Nat \ {0}
  /\ MaxCrashes \in Nat
  /\ MaxFaults \in Nat

VARIABLES
  stream,     \* Queues -> sequence of task ids, one entry per XADD
  delivered,  \* Queues -> last-delivered position of the consumer group
  pel,        \* Executors -> pending message ids
  acked,      \* message ids removed by XACK
  pc,         \* Executors -> where the executor's event loop stands
  cursor,     \* Executors -> position reached by the unacked iterator
  current,    \* Executors -> message collect() is looking at
  seen,       \* Executors -> retry_count that get_task selected
  running,    \* Executors -> messages whose handler is in progress
  recorded,   \* Executors -> those whose outcome has been written
  sleeping,   \* Executors -> handlers in their 5 s sleep, holding a permit
  producer,   \* Tasks -> progress of the queue_product call
  pushes,     \* Tasks -> XADD attempts made so far
  row,        \* Tasks -> whether the Task row exists
  retry,      \* Tasks -> retry_count of the row
  progress,   \* Tasks -> progress column, abstracted to its meaning
  cancelled,  \* Tasks -> the "{id}-cancel" key: unset, set, or expired
  starts,     \* Tasks -> handlers started (history)
  crashes,    \* executor deaths so far
  faults      \* failed calls so far

group == <<stream, delivered, pel, acked>>
proc == <<pc, cursor, current, seen, running, recorded, sleeping>>
push == <<producer, pushes>>
db == <<row, retry, progress>>
vars == <<group, proc, push, db, cancelled, starts, crashes, faults>>

-----------------------------------------------------------------------------
(* Message ids: a queue and a position in its stream, ordered the way the  *)
(* unacked iterator visits them.                                           *)

MsgIds == Queues \X Nat
NoMsg == <<0, 0>>

Before(a, b) == \/ a[1] < b[1]
                \/ a[1] = b[1] /\ a[2] < b[2]

\* Positions of the iterator: just created, and exhausted for good.
Fresh == <<1, 0>>
Exhausted == <<3, 0>>

TaskOf(m) == stream[m[1]][m[2]]

Posted == UNION {{<<q, i>> : i \in 1..Len(stream[q])} : q \in Queues}

\* Mutant: the iterator never advances current_min.
UnvisitedStuck(e) == pel[e]

\* Mutant: the iterator walks the pending entries of the whole group.
UnvisitedAll(e) == {m \in UNION {pel[f] : f \in Executors} : Before(cursor[e], m)}

\* What the iterator of e has still to visit: entries of e's own PEL.
Unvisited(e) == {m \in pel[e] : Before(cursor[e], m)}

\* Messages never delivered to the group.
HasNew(q) == delivered[q] < Len(stream[q])

\* Mutant: one permit too many.
FreeOffByOne(e) == Cardinality(running[e]) + sleeping[e] <= MaxSlots

Free(e) == Cardinality(running[e]) + sleeping[e] < MaxSlots

has_canceled(t) == cancelled[t] = "set"

Fault == faults < MaxFaults /\ faults' = faults + 1

Init ==
  /\ stream = [q \in Queues |-> <<>>]
  /\ delivered = [q \in Queues |-> 0]
  /\ pel = [e \in Executors |-> {}]
  /\ acked = {}
  /\ pc = [e \in Executors |-> "loop"]
  /\ cursor = [e \in Executors |-> Fresh]
  /\ current = [e \in Executors |-> NoMsg]
  /\ seen = [e \in Executors |-> 0]
  /\ running = [e \in Executors |-> {}]
  /\ recorded = [e \in Executors |-> {}]
  /\ sleeping = [e \in Executors |-> 0]
  /\ producer = [t \in Tasks |-> "idle"]
  /\ pushes = [t \in Tasks |-> 0]
  /\ row = [t \in Tasks |-> "absent"]
  /\ retry = [t \in Tasks |-> 0]
  /\ progress = [t \in Tasks |-> "queued"]
  /\ cancelled = [t \in Tasks |-> "unset"]
  /\ starts = [t \in Tasks |-> 0]
  /\ crashes = 0
  /\ faults = 0

-----------------------------------------------------------------------------
(* The API server.                                                         *)

\* bulk_insert_into_db of the Task row, before anything is queued.
InsertTask(t) ==
  /\ producer[t] = "idle"
  /\ row' = [row EXCEPT ![t] = "present"]
  /\ producer' = [producer EXCEPT ![t] = "pushing"]
  /\ UNCHANGED <<group, proc, pushes, retry, progress, cancelled, starts, crashes, faults>>

Append1(t) == stream' = [stream EXCEPT ![QueueOf[t]] = Append(@, t)]

\* One XADD of queue_product that Redis answered.
Push(t) ==
  /\ producer[t] = "pushing"
  /\ Append1(t)
  /\ producer' = [producer EXCEPT ![t] = "ended"]
  /\ pushes' = [pushes EXCEPT ![t] = @ + 1]
  /\ UNCHANGED <<delivered, pel, acked, proc, db, cancelled, starts, crashes, faults>>

\* One XADD that raised: Redis may or may not have applied it. queue_product
\* tries again and returns False after the third.
PushFails(t) ==
  /\ producer[t] = "pushing"
  /\ Fault
  /\ Append1(t) \/ UNCHANGED stream
  /\ pushes' = [pushes EXCEPT ![t] = @ + 1]
  /\ producer' = [producer EXCEPT ![t] =
                    IF pushes[t] + 1 = MaxPushes THEN "ended" ELSE "pushing"]
  /\ UNCHANGED <<delivered, pel, acked, proc, db, cancelled, starts, crashes>>

\* cancel_all_task_of: set "{id}-cancel" for a task that has a row.
CancelTask(t) ==
  /\ row[t] = "present"
  /\ cancelled[t] = "unset"
  /\ cancelled' = [cancelled EXCEPT ![t] = "set"]
  /\ UNCHANGED <<group, proc, push, db, starts, crashes, faults>>

\* The key is written with the default expiry of RedisDB.set, one hour.
CancelExpires(t) ==
  /\ cancelled[t] = "set"
  /\ cancelled' = [cancelled EXCEPT ![t] = "expired"]
  /\ UNCHANGED <<group, proc, push, db, starts, crashes, faults>>

\* The rows of a document are deleted when it is removed or parsed again.
DropTask(t) ==
  /\ row[t] = "present"
  /\ Kind[t] = "document"
  /\ row' = [row EXCEPT ![t] = "dropped"]
  /\ UNCHANGED <<group, proc, push, retry, progress, cancelled, starts, crashes, faults>>

-----------------------------------------------------------------------------
(* collect(): fetch a message, load its task, start a handler or reject.   *)

\* RedisMsg.ack: XACK, whose failure is logged and otherwise ignored.
Ack(e, m) ==
  \/ /\ acked' = acked \cup {m}
     /\ pel' = [pel EXCEPT ![e] = @ \ {m}]
     /\ UNCHANGED faults
  \/ /\ Fault
     /\ UNCHANGED <<acked, pel>>

\* next(UNACKED_ITERATOR) yields the next entry of the executor's own PEL.
FetchUnacked(e) ==
  /\ pc[e] = "loop"
  /\ Free(e)
  /\ \E m \in Unvisited(e) :
       /\ \A n \in Unvisited(e) : n = m \/ Before(m, n)
       /\ cursor' = [cursor EXCEPT ![e] = m]
       /\ current' = [current EXCEPT ![e] = m]
  /\ pc' = [pc EXCEPT ![e] = "fetched"]
  /\ UNCHANGED <<group, seen, running, recorded, sleeping, push, db, cancelled, starts, crashes, faults>>

\* A failed call inside the generator: queue_consumer answers None after three
\* tries and the next queue is taken up, or an exception ends the generator.
UnackedFails(e) ==
  /\ pc[e] = "loop"
  /\ Free(e)
  /\ cursor[e] # Exhausted
  /\ Fault
  /\ \E p \in {<<2, 0>>, Exhausted} :
       /\ Before(cursor[e], p)
       /\ cursor' = [cursor EXCEPT ![e] = p]
  /\ UNCHANGED <<group, pc, current, seen, running, recorded, sleeping, push, db, cancelled, starts, crashes>>

\* Mutant: XREADGROUP with NOACK keeps nothing in the PEL.
DeliverNoAck(e, q) ==
  /\ delivered' = [delivered EXCEPT ![q] = @ + 1]
  /\ UNCHANGED pel

\* Deliver the next new message of queue q to e.
Deliver(e, q) ==
  /\ delivered' = [delivered EXCEPT ![q] = @ + 1]
  /\ pel' = [pel EXCEPT ![e] = @ \cup {<<q, delivered[q] + 1>>}]

\* StopIteration: XREADGROUP ">" on the queues in order of priority, one call
\* each; the second is tried when the first was found empty.
Reading(q) == IF q = 1 THEN "loop" ELSE "second"

FirstEmpty(e) ==
  /\ pc[e] = "loop"
  /\ Free(e)
  /\ Unvisited(e) = {}
  /\ ~HasNew(1)
  /\ cursor' = [cursor EXCEPT ![e] = Exhausted]
  /\ pc' = [pc EXCEPT ![e] = "second"]
  /\ UNCHANGED <<group, current, seen, running, recorded, sleeping, push, db, cancelled, starts, crashes, faults>>

\* Every message names a task: collect's branch for an empty one is not reached.
FetchNew(e) ==
  /\ Free(e)
  /\ Unvisited(e) = {}
  /\ \E q \in Queues :
       /\ pc[e] = Reading(q)
       /\ HasNew(q)
       /\ Deliver(e, q)
       /\ current' = [current EXCEPT ![e] = <<q, delivered[q] + 1>>]
  /\ cursor' = [cursor EXCEPT ![e] = Exhausted]
  /\ pc' = [pc EXCEPT ![e] = "fetched"]
  /\ UNCHANGED <<stream, acked, seen, running, recorded, sleeping, push, db, cancelled, starts, crashes, faults>>

\* An XREADGROUP that Redis applied and whose answer never arrived.
FetchLost(e) ==
  /\ Free(e)
  /\ Unvisited(e) = {}
  /\ Fault
  /\ \E q \in Queues : pc[e] = Reading(q) /\ HasNew(q) /\ Deliver(e, q)
  /\ cursor' = [cursor EXCEPT ![e] = Exhausted]
  /\ UNCHANGED <<stream, acked, pc, current, seen, running, recorded, sleeping, push, db, cancelled, starts, crashes>>

\* Nothing to collect: handle_task sleeps, still holding its permit.
FetchNothing(e) ==
  /\ pc[e] = "second"
  /\ ~HasNew(2)
  /\ pc' = [pc EXCEPT ![e] = "loop"]
  /\ sleeping' = [sleeping EXCEPT ![e] = @ + 1]
  /\ UNCHANGED <<group, cursor, current, seen, running, recorded, push, db, cancelled, starts, crashes, faults>>

\* collect() returned no task: acknowledge, sleep, and look for the next one.
Reject(e) ==
  /\ Ack(e, current[e])
  /\ sleeping' = [sleeping EXCEPT ![e] = @ + 1]
  /\ UNCHANGED <<running, starts>>

\* collect() returned the task: its handler begins.
Begin(e) ==
  LET m == current[e] IN
  /\ running' = [running EXCEPT ![e] = @ \cup {m}]
  /\ starts' = [starts EXCEPT ![TaskOf(m)] = @ + 1]
  /\ UNCHANGED <<pel, acked, sleeping, faults>>

BackToLoop(e) ==
  /\ pc' = [pc EXCEPT ![e] = "loop"]
  /\ current' = [current EXCEPT ![e] = NoMsg]

\* The SELECT of get_task: no row, or the row with its retry_count.
GetTaskSelect(e) ==
  LET t == TaskOf(current[e]) IN
  /\ pc[e] = "fetched"
  /\ Kind[t] = "document"
  /\ \/ /\ row[t] = "present"
        /\ seen' = [seen EXCEPT ![e] = retry[t]]
        /\ pc' = [pc EXCEPT ![e] = "selected"]
        /\ UNCHANGED <<pel, acked, current, running, sleeping, starts, faults>>
     \/ /\ row[t] # "present"
        /\ Reject(e)
        /\ BackToLoop(e)
        /\ UNCHANGED seen
  /\ UNCHANGED <<stream, delivered, cursor, recorded, push, db, cancelled, crashes>>

\* Mutant: the limit is off by one.
AbandonedLate(e) == seen[e] > MaxAttempts

Abandoned(e) == seen[e] >= MaxAttempts

\* The UPDATE of get_task, which writes the count it selected plus one, then
\* the abandonment and cancellation checks of collect().
GetTaskUpdate(e) ==
  LET t == TaskOf(current[e]) IN
  /\ pc[e] = "selected"
  /\ IF row[t] = "present"
       THEN /\ retry' = [retry EXCEPT ![t] = seen[e] + 1]
            /\ progress' = [progress EXCEPT ![t] =
                              IF Abandoned(e) THEN "failed" ELSE "received"]
       ELSE UNCHANGED <<retry, progress>>
  /\ IF Abandoned(e) \/ has_canceled(t) THEN Reject(e) ELSE Begin(e)
  /\ BackToLoop(e)
  /\ UNCHANGED <<stream, delivered, cursor, seen, recorded, push, row, cancelled, crashes>>

\* Memory tasks are read with get_by_id and debug runs carry their own task:
\* neither counts the attempt.
LoadUncounted(e) ==
  LET t == TaskOf(current[e]) IN
  /\ pc[e] = "fetched"
  /\ Kind[t] # "document"
  /\ IF has_canceled(t) THEN Reject(e) ELSE Begin(e)
  /\ BackToLoop(e)
  /\ UNCHANGED <<stream, delivered, cursor, seen, recorded, push, db, cancelled, crashes>>

\* The database call raises: the exception leaves collect() and handle_task,
\* the permit is released and the message stays in the PEL.
LoadFails(e) ==
  /\ pc[e] \in {"fetched", "selected"}
  /\ Kind[TaskOf(current[e])] # "debug"
  /\ Fault
  /\ BackToLoop(e)
  /\ UNCHANGED <<group, cursor, seen, running, recorded, sleeping, push, db, cancelled, starts, crashes>>

-----------------------------------------------------------------------------
(* handle_task after collect(), and the life of the process.               *)

\* What set_progress leaves in the row when a handler ends with outcome out:
\* a cancelled task is failed, -1 is never overwritten, and the debug run of
\* a dataflow keeps its log elsewhere.
Outcome(t, out) ==
  IF row[t] # "present" THEN progress[t]
  ELSE IF out = "failed" \/ (has_canceled(t) /\ Kind[t] = "document") THEN "failed"
  ELSE IF progress[t] = "failed" \/ Kind[t] = "debug" THEN progress[t]
  ELSE "done"

\* do_handle_task ended and its outcome is written; the acknowledgement is a
\* later step of the same coroutine.
Record(e, m, out) ==
  /\ pc[e] = "loop"
  /\ m \in running[e] \ recorded[e]
  /\ progress' = [progress EXCEPT ![TaskOf(m)] = Outcome(TaskOf(m), out)]
  /\ recorded' = [recorded EXCEPT ![e] = @ \cup {m}]
  /\ UNCHANGED <<group, pc, cursor, current, seen, running, sleeping, push, row, retry, cancelled, starts, crashes, faults>>

\* set_progress swallows database errors: the handler goes on although the
\* outcome was never written.
RecordFails(e, m) ==
  /\ pc[e] = "loop"
  /\ m \in running[e] \ recorded[e]
  /\ Fault
  /\ recorded' = [recorded EXCEPT ![e] = @ \cup {m}]
  /\ UNCHANGED <<group, pc, cursor, current, seen, running, sleeping, push, db, cancelled, starts, crashes>>

\* Mutant: the acknowledgement no longer waits for the outcome.
HandlerEndsEarly(e, m) ==
  /\ pc[e] = "loop"
  /\ m \in running[e]
  /\ running' = [running EXCEPT ![e] = @ \ {m}]
  /\ recorded' = [recorded EXCEPT ![e] = @ \ {m}]
  /\ UNCHANGED <<stream, delivered, pc, cursor, current, seen, sleeping, push, db, cancelled, starts, crashes>>

HandlerEnds(e, m) ==
  /\ pc[e] = "loop"
  /\ m \in recorded[e]
  /\ running' = [running EXCEPT ![e] = @ \ {m}]
  /\ recorded' = [recorded EXCEPT ![e] = @ \ {m}]
  /\ UNCHANGED <<stream, delivered, pc, cursor, current, seen, sleeping, push, db, cancelled, starts, crashes>>

\* The last line of handle_task.
AckFinished(e, m) == HandlerEnds(e, m) /\ Ack(e, m)

\* record_pipeline_operation raises in the finally block: handle_task is left
\* before the acknowledgement. The debug run of a dataflow does not call it.
EndsUnacked(e, m) ==
  /\ Kind[TaskOf(m)] # "debug"
  /\ HandlerEnds(e, m)
  /\ Fault
  /\ UNCHANGED <<pel, acked>>

\* Mutant: the permit is released twice.
WakeTwice(e) ==
  /\ pc[e] = "loop"
  /\ sleeping[e] > 0
  /\ sleeping' = [sleeping EXCEPT ![e] = @ - 2]
  /\ UNCHANGED <<group, pc, cursor, current, seen, running, recorded, push, db, cancelled, starts, crashes, faults>>

\* The 5 s sleep is over and the permit is released.
Wake(e) ==
  /\ pc[e] = "loop"
  /\ sleeping[e] > 0
  /\ sleeping' = [sleeping EXCEPT ![e] = @ - 1]
  /\ UNCHANGED <<group, pc, cursor, current, seen, running, recorded, push, db, cancelled, starts, crashes, faults>>

\* The process dies or is told to stop: handlers are cancelled before their
\* acknowledgement.
Crash(e) ==
  /\ pc[e] # "down"
  /\ crashes < MaxCrashes
  /\ crashes' = crashes + 1
  /\ pc' = [pc EXCEPT ![e] = "down"]
  /\ current' = [current EXCEPT ![e] = NoMsg]
  /\ running' = [running EXCEPT ![e] = {}]
  /\ recorded' = [recorded EXCEPT ![e] = {}]
  /\ sleeping' = [sleeping EXCEPT ![e] = 0]
  /\ UNCHANGED <<group, cursor, seen, push, db, cancelled, starts, faults>>

\* Mutant: the restarted executor reads new messages only.
RestartNoReplay(e) ==
  /\ pc[e] = "down"
  /\ pc' = [pc EXCEPT ![e] = "loop"]
  /\ cursor' = [cursor EXCEPT ![e] = Exhausted]
  /\ UNCHANGED <<group, current, seen, running, recorded, sleeping, push, db, cancelled, starts, crashes, faults>>

\* The supervisor loop starts the executor again under the same consumer name;
\* UNACKED_ITERATOR is created anew.
Restart(e) ==
  /\ pc[e] = "down"
  /\ pc' = [pc EXCEPT ![e] = "loop"]
  /\ cursor' = [cursor EXCEPT ![e] = Fresh]
  /\ UNCHANGED <<group, current, seen, running, recorded, sleeping, push, db, cancelled, starts, crashes, faults>>

-----------------------------------------------------------------------------
Server == \E t \in Tasks :
  InsertTask(t) \/ Push(t) \/ PushFails(t) \/ CancelTask(t)
  \/ CancelExpires(t) \/ DropTask(t)

Collect(e) ==
  \/ FetchUnacked(e)
  \/ FirstEmpty(e)
  \/ FetchNew(e)
  \/ FetchNothing(e)
  \/ GetTaskSelect(e)
  \/ GetTaskUpdate(e)
  \/ LoadUncounted(e)

Complete(e) == \E m \in running[e] :
  \/ \E out \in {"done", "failed"} : Record(e, m, out)
  \/ AckFinished(e, m)

Failure(e) ==
  \/ UnackedFails(e)
  \/ FetchLost(e)
  \/ LoadFails(e)
  \/ \E m \in running[e] : RecordFails(e, m) \/ EndsUnacked(e, m)
  \/ Crash(e)

Next ==
  \/ Server
  \/ \E e \in Executors :
       Collect(e) \/ Complete(e) \/ Wake(e) \/ Restart(e) \/ Failure(e)

\* A running event loop keeps calling collect(), sleeps end, the supervisor
\* restarts a dead process, and a started queue_product call finishes.  That
\* every handler ends is ASSUMED: the timeout of do_handle_task only acts when
\* ENABLE_TIMEOUT_ASSERTION is set.
Fairness ==
  /\ \A e \in Executors :
       WF_vars(Collect(e)) /\ WF_vars(Complete(e)) /\ WF_vars(Wake(e)) /\ WF_vars(Restart(e))
  /\ \A t \in Tasks : WF_vars(Push(t))

Spec == Init /\ [][Next]_vars
FairSpec == Spec /\ Fairness

-----------------------------------------------------------------------------
(* Properties.                                                             *)

\* Types: every variable has the type the code gives it; a permit is never
\* released twice (sleeping) and queue_product makes at most three XADDs.
TypeOK ==
  /\ stream \in [Queues -> Seq(Tasks)]
  /\ delivered \in [Queues -> Nat]
  /\ pel \in [Executors -> SUBSET MsgIds]
  /\ acked \subseteq MsgIds
  /\ pc \in [Executors -> {"down", "loop", "second", "fetched", "selected"}]
  /\ cursor \in [Executors -> MsgIds \cup {Exhausted}]
  /\ current \in [Executors -> MsgIds \cup {NoMsg}]
  /\ seen \in [Executors -> Nat]
  /\ running \in [Executors -> SUBSET MsgIds]
  /\ recorded \in [Executors -> SUBSET MsgIds]
  /\ sleeping \in [Executors -> Nat]
  /\ producer \in [Tasks -> {"idle", "pushing", "ended"}]
  /\ pushes \in [Tasks -> 0..MaxPushes]
  /\ row \in [Tasks -> {"absent", "present", "dropped"}]
  /\ retry \in [Tasks -> Nat]
  /\ progress \in [Tasks -> {"queued", "received", "done", "failed"}]
  /\ cancelled \in [Tasks -> {"unset", "set", "expired"}]
  /\ starts \in [Tasks -> Nat]
  /\ crashes \in 0..MaxCrashes
  /\ faults \in 0..MaxFaults

Delivered == {m \in Posted : m[2] <= delivered[m[1]]}

\* No message is lost and none is held twice: a posted message is undelivered,
\* acknowledged, or in the PEL of exactly one executor, through crashes,
\* restarts and failed calls (XREADGROUP, the unacked iterator, ack).
Accounted ==
  /\ acked \cup UNION {pel[e] : e \in Executors} = Delivered
  /\ \A e \in Executors : pel[e] \cap acked = {}
  /\ \A e, f \in Executors : e # f => pel[e] \cap pel[f] = {}

\* A message is worked on by one handler at a time, although a restarted
\* executor replays its PEL while it already starts handlers from it.
OneHandler ==
  /\ \A e \in Executors : current[e] \notin running[e]
  /\ \A e, f \in Executors : e # f =>
       (running[e] \cup {current[e]}) \cap (running[f] \cup {current[f]}) \subseteq {NoMsg}

\* As long as no call has failed, a live executor never forgets an entry of
\* its PEL: each one is being handled, being loaded, or still ahead of the
\* unacked iterator.
NothingStranded ==
  faults = 0 =>
    \A e \in Executors : pc[e] # "down" =>
      pel[e] \subseteq running[e] \cup {current[e]} \cup Unvisited(e)

Copies(t) == {m \in Posted : TaskOf(m) = t}

\* The retry limit of get_task: a document task whose message was queued once
\* is handed to a handler at most three times, however often executors die.
AttemptsBounded ==
  \A t \in Tasks :
    Kind[t] = "document" /\ Cardinality(Copies(t)) <= 1 => starts[t] <= MaxAttempts

\* Without failed calls, a task whose messages are all acknowledged has a
\* final progress, unless its row was deleted or it was cancelled: no task
\* stays "in progress" with nobody left to finish it.
SettledIsFinal ==
  faults = 0 =>
    \A t \in Tasks :
      /\ producer[t] = "ended"
      /\ Copies(t) \subseteq acked
      /\ row[t] = "present"
      /\ cancelled[t] = "unset"
      /\ Kind[t] # "debug"
      => progress[t] \in {"done", "failed"}

\* task_limiter: handlers, sleepers and the coroutine inside collect() never
\* exceed MAX_CONCURRENT_TASKS.
PermitsRespected ==
  \A e \in Executors :
    Cardinality(running[e]) + sleeping[e]
      + (IF pc[e] \in {"second", "fetched", "selected"} THEN 1 ELSE 0) <= MaxSlots

\* The stream implements the abstract work queue.
Queue == INSTANCE WorkQueue WITH
  Workers <- Executors,
  Messages <- MsgIds,
  posted <- Posted,
  held <- pel,
  active <- running,
  settled <- acked

\* Every step of servers and executors is a step of the work queue: claims are
\* exclusive, only the holder settles, nothing is worked on after settling.
ImplementsWorkQueue == Queue!Spec

\* If no call fails, every message queued for a task is eventually
\* acknowledged, whatever executor read it and whenever executors die, provided
\* they are restarted and handlers end.
EventuallySettled ==
  \A t \in Tasks : producer[t] = "ended" ~> Copies(t) \subseteq acked
=============================================================================
