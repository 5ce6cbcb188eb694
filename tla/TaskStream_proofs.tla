-------------------------- MODULE TaskStream_proofs --------------------------
(* Proofs about TaskStream for every number of executors, tasks, permits,   *)
(* crashes and failed calls.                                                *)
EXTENDS TaskStream, TLAPS

\* A producer still in queue_product has an attempt left.
PushInv == \A t \in Tasks : producer[t] \in {"idle", "pushing"} => pushes[t] < MaxPushes

\* The pending entries and the acknowledged ones partition what was delivered.
GroupInv ==
  /\ \A q \in Queues : delivered[q] <= Len(stream[q])
  /\ \A e \in Executors : \A m \in pel[e] : 1 <= m[2] /\ m[2] <= delivered[m[1]]
  /\ \A m \in acked : 1 <= m[2] /\ m[2] <= delivered[m[1]]
  /\ \A m \in MsgIds : 1 <= m[2] /\ m[2] <= delivered[m[1]] =>
       m \in acked \/ \E e \in Executors : m \in pel[e]
  /\ \A e \in Executors : pel[e] \cap acked = {}
  /\ \A e, f \in Executors : e # f => pel[e] \cap pel[f] = {}

\* What a process holds in memory is pending in its own name.
HandInv ==
  \A e \in Executors :
    /\ running[e] \subseteq pel[e]
    /\ recorded[e] \subseteq running[e]
    /\ pc[e] \in {"down", "loop", "second"} => current[e] = NoMsg
    /\ pc[e] = "down" => running[e] = {}
    /\ pc[e] \in {"fetched", "selected"} =>
         current[e] \in pel[e] /\ current[e] \notin running[e]

\* The unacked iterator has passed everything the process works on.
CursorInv ==
  \A e \in Executors :
    /\ \A m \in running[e] : ~Before(cursor[e], m)
    /\ ~Before(cursor[e], current[e])

IInv == TypeOK /\ PushInv /\ GroupInv /\ HandInv /\ CursorInv

USE DEF MaxPushes

\* The initial state is well typed and satisfies the inductive invariant: no
\* message exists and every executor's iterator is new.
LEMMA InitIInv == Init => IInv
  BY StreamAssumption DEF Queues, MsgIds, NoMsg, Fresh, Exhausted, Init, IInv, TypeOK, PushInv, GroupInv, HandInv, CursorInv, Before

-----------------------------------------------------------------------------
\* XACK keeps the types of the group's state, whether or not it succeeds.
LEMMA AckType ==
  ASSUME TypeOK, NEW e \in Executors, NEW m \in MsgIds, Ack(e, m)
  PROVE  /\ acked' \in SUBSET MsgIds
         /\ pel' \in [Executors -> SUBSET MsgIds]
         /\ faults' \in 0..MaxFaults
<1>1. /\ acked \in SUBSET MsgIds
      /\ pel \in [Executors -> SUBSET MsgIds]
      /\ faults \in 0..MaxFaults
  BY DEF TypeOK
<1>2. MaxFaults \in Nat
  BY StreamAssumption
<1>3. pel[e] \ {m} \in SUBSET MsgIds
  BY <1>1
<1>4. CASE Fault /\ UNCHANGED <<acked, pel>>
  BY <1>1, <1>2, <1>4 DEF Fault
<1>5. CASE /\ acked' = acked \cup {m}
           /\ pel' = [pel EXCEPT ![e] = @ \ {m}]
           /\ UNCHANGED faults
  BY <1>1, <1>3, <1>5
<1>6. QED BY <1>4, <1>5 DEF Ack

\* Rejecting a message and starting a handler keep the types of what they touch.
LEMMA RejectType ==
  ASSUME TypeOK, NEW e \in Executors, current[e] \in MsgIds, Reject(e)
  PROVE  /\ acked' \in SUBSET MsgIds
         /\ pel' \in [Executors -> SUBSET MsgIds]
         /\ faults' \in 0..MaxFaults
         /\ sleeping' \in [Executors -> Nat]
         /\ running' = running
         /\ starts' = starts
<1>1. sleeping \in [Executors -> Nat]
  BY DEF TypeOK
<1>2. sleeping' \in [Executors -> Nat]
  BY <1>1 DEF Reject
<1>3. QED
  BY <1>2, AckType DEF Reject

\* Starting a handler keeps the types of permits, handlers and attempts.
LEMMA BeginType ==
  ASSUME TypeOK, NEW e \in Executors, current[e] \in MsgIds, Begin(e)
  PROVE  /\ running' \in [Executors -> SUBSET MsgIds]
         /\ starts' \in [Tasks -> Nat]
         /\ pel' = pel /\ acked' = acked /\ sleeping' = sleeping /\ faults' = faults
<1>1. running \in [Executors -> SUBSET MsgIds] /\ starts \in [Tasks -> Nat]
  BY DEF TypeOK
<1>2. running[e] \cup {current[e]} \in SUBSET MsgIds
  BY <1>1
<1>3. running' \in [Executors -> SUBSET MsgIds]
  BY <1>1, <1>2 DEF Begin
<1>4. \A t \in Tasks : starts[t] + 1 \in Nat
  BY <1>1
<1>5. starts' \in [Tasks -> Nat]
  BY <1>1, <1>4 DEF Begin
<1>6. QED
  BY <1>3, <1>5 DEF Begin

\* Both columns that get_task updates keep their types.
LEMMA UpdateType ==
  ASSUME TypeOK, NEW e \in Executors, GetTaskUpdate(e)
  PROVE  /\ retry' \in [Tasks -> Nat]
         /\ progress' \in [Tasks -> {"queued", "received", "done", "failed"}]
<1>1. /\ retry \in [Tasks -> Nat]
      /\ progress \in [Tasks -> {"queued", "received", "done", "failed"}]
      /\ seen[e] + 1 \in Nat
  BY DEF TypeOK
<1>2. QED
  BY <1>1 DEF GetTaskUpdate

\* An attempt of queue_product stays within the three it is allowed.
LEMMA PushCount ==
  ASSUME TypeOK, NEW t \in Tasks, pushes[t] < MaxPushes,
         pushes' = [pushes EXCEPT ![t] = @ + 1]
  PROVE  pushes' \in [Tasks -> 0..MaxPushes]
<1>1. pushes \in [Tasks -> 0..MaxPushes]
  BY DEF TypeOK
<1>2. pushes[t] + 1 \in 0..MaxPushes
  BY <1>1 DEF MaxPushes
<1>3. QED BY <1>1, <1>2

\* XADD keeps the streams sequences of task ids.
LEMMA AppendType ==
  ASSUME TypeOK, NEW t \in Tasks, Append1(t)
  PROVE  stream' \in [Queues -> Seq(Tasks)]
<1>1. QueueOf[t] \in Queues
  BY StreamAssumption
<1>2. Append(stream[QueueOf[t]], t) \in Seq(Tasks)
  BY <1>1 DEF TypeOK
<1>3. QED
  BY <1>1, <1>2 DEF TypeOK, Append1

\* Every step of the server, an executor or a failure keeps the types; the
\* bound on XADD attempts is the only part that is not immediate.
LEMMA TypeStep ==
  ASSUME IInv, [Next]_vars
  PROVE  TypeOK' /\ PushInv'
<1> DEFINE Goal == TypeOK' /\ PushInv'
<1> USE StreamAssumption DEF IInv, TypeOK, PushInv, group, proc, push, db
<1>1. CASE UNCHANGED vars
  BY <1>1 DEF vars
<1>2. ASSUME NEW t \in Tasks, InsertTask(t) PROVE Goal
  BY <1>2 DEF InsertTask
<1>3. ASSUME NEW t \in Tasks, Push(t) PROVE Goal
  <2>1. stream' \in [Queues -> Seq(Tasks)] /\ pushes' \in [Tasks -> 0..MaxPushes]
    BY <1>3, AppendType, PushCount DEF Push
  <2>2. QED
    BY <1>3, <2>1 DEF Push
<1>4. ASSUME NEW t \in Tasks, PushFails(t) PROVE Goal
  <2>1. stream' \in [Queues -> Seq(Tasks)] /\ pushes' \in [Tasks -> 0..MaxPushes]
    BY <1>4, AppendType, PushCount DEF PushFails
  <2>2. producer' \in [Tasks -> {"idle", "pushing", "ended"}] /\ faults' \in 0..MaxFaults
    BY <1>4 DEF PushFails, Fault
  <2>3. PushInv'
    BY <1>4, <2>1 DEF PushFails
  <2>4. TypeOK'
    BY <1>4, <2>1, <2>2 DEF PushFails
  <2>5. QED BY <2>3, <2>4
<1>5. ASSUME NEW t \in Tasks, CancelTask(t) PROVE Goal
  BY <1>5 DEF CancelTask
<1>6. ASSUME NEW t \in Tasks, CancelExpires(t) PROVE Goal
  BY <1>6 DEF CancelExpires
<1>7. ASSUME NEW t \in Tasks, DropTask(t) PROVE Goal
  BY <1>7 DEF DropTask
<1>8. ASSUME NEW e \in Executors, FetchUnacked(e) PROVE Goal
  BY <1>8 DEF FetchUnacked, Unvisited
<1>9. ASSUME NEW e \in Executors, UnackedFails(e) PROVE Goal
  BY <1>9 DEF UnackedFails, Fault, MsgIds, Queues
<1>10. ASSUME NEW e \in Executors, FetchNew(e) PROVE Goal
  BY <1>10 DEF FetchNew, Deliver, MsgIds, Queues
<1>11. ASSUME NEW e \in Executors, FetchLost(e) PROVE Goal
  BY <1>11 DEF FetchLost, Deliver, Fault, MsgIds, Queues
<1>12. ASSUME NEW e \in Executors, FirstEmpty(e) \/ FetchNothing(e) PROVE Goal
  <2>1. CASE FirstEmpty(e)
    BY <2>1 DEF FirstEmpty
  <2>2. CASE FetchNothing(e)
    BY <2>2 DEF FetchNothing
  <2>3. QED BY <1>12, <2>1, <2>2
<1>13. ASSUME NEW e \in Executors, GetTaskSelect(e) PROVE Goal
  <2>1. TaskOf(current[e]) \in Tasks
    BY <1>13 DEF GetTaskSelect, TaskOf, HandInv, GroupInv, MsgIds, Queues
  <2>2. current[e] \in MsgIds
    BY <1>13 DEF GetTaskSelect, HandInv
  <2>3. CASE row[TaskOf(current[e])] = "present"
    <3>1. /\ seen' = [seen EXCEPT ![e] = retry[TaskOf(current[e])]]
          /\ pc' = [pc EXCEPT ![e] = "selected"]
          /\ UNCHANGED <<pel, acked, current, running, sleeping, starts, faults>>
      BY <1>13, <2>3 DEF GetTaskSelect
    <3>2. QED
      BY <1>13, <2>1, <3>1 DEF GetTaskSelect
  <2>4. CASE row[TaskOf(current[e])] # "present"
    <3>1. Reject(e) /\ BackToLoop(e) /\ UNCHANGED seen
      BY <1>13, <2>4 DEF GetTaskSelect
    <3>2. QED
      BY <1>13, <2>2, <3>1, RejectType DEF GetTaskSelect, BackToLoop
  <2>5. QED BY <2>3, <2>4
<1>14. ASSUME NEW e \in Executors, GetTaskUpdate(e) PROVE Goal
  <2>1. current[e] \in MsgIds
    BY <1>14 DEF GetTaskUpdate, HandInv
  <2>2. /\ retry' \in [Tasks -> Nat]
        /\ progress' \in [Tasks -> {"queued", "received", "done", "failed"}]
    BY <1>14, UpdateType
  <2>3. /\ pc' \in [Executors -> {"down", "loop", "second", "fetched", "selected"}]
        /\ current' \in [Executors -> MsgIds \cup {NoMsg}]
    BY <1>14 DEF GetTaskUpdate, BackToLoop
  <2>4. CASE Reject(e)
    BY <1>14, <2>1, <2>2, <2>3, <2>4, RejectType DEF GetTaskUpdate
  <2>5. CASE Begin(e)
    BY <1>14, <2>1, <2>2, <2>3, <2>5, BeginType DEF GetTaskUpdate
  <2>6. QED BY <1>14, <2>4, <2>5 DEF GetTaskUpdate
<1>15. ASSUME NEW e \in Executors, LoadUncounted(e) PROVE Goal
  <2>1. current[e] \in MsgIds
    BY <1>15 DEF LoadUncounted, HandInv
  <2>2. CASE Reject(e)
    BY <1>15, <2>1, <2>2, RejectType DEF LoadUncounted, BackToLoop
  <2>3. CASE Begin(e)
    BY <1>15, <2>1, <2>3, BeginType DEF LoadUncounted, BackToLoop
  <2>4. QED BY <1>15, <2>2, <2>3 DEF LoadUncounted
<1>16. ASSUME NEW e \in Executors, LoadFails(e) PROVE Goal
  BY <1>16 DEF LoadFails, BackToLoop, Fault
<1>17. ASSUME NEW e \in Executors, NEW m \in running[e], NEW out \in {"done", "failed"},
              Record(e, m, out)
       PROVE Goal
  BY <1>17 DEF Record, Outcome
<1>18. ASSUME NEW e \in Executors, NEW m \in running[e], AckFinished(e, m) PROVE Goal
  BY <1>18, AckType DEF AckFinished, HandlerEnds
<1>19. ASSUME NEW e \in Executors, NEW m \in running[e], RecordFails(e, m) PROVE Goal
  BY <1>19 DEF RecordFails, Fault
<1>20. ASSUME NEW e \in Executors, NEW m \in running[e], EndsUnacked(e, m) PROVE Goal
  BY <1>20 DEF EndsUnacked, HandlerEnds, Fault
<1>21. ASSUME NEW e \in Executors, Wake(e) PROVE Goal
  BY <1>21 DEF Wake
<1>22. ASSUME NEW e \in Executors, Crash(e) PROVE Goal
  BY <1>22 DEF Crash
<1>23. ASSUME NEW e \in Executors, Restart(e) PROVE Goal
  <2>1. Fresh \in MsgIds
    BY DEF Fresh, MsgIds, Queues
  <2>2. QED
    BY <1>23, <2>1 DEF Restart
<1> HIDE DEF IInv, TypeOK, PushInv, group, proc, push, db
<1>24. QED
  BY <1>1, <1>2, <1>3, <1>4, <1>5, <1>6, <1>7, <1>8, <1>9, <1>10, <1>11, <1>12,
     <1>13, <1>14, <1>15, <1>16, <1>17, <1>18, <1>19, <1>20, <1>21, <1>22, <1>23
     DEF Next, Server, Collect, Complete, Failure

-----------------------------------------------------------------------------
\* XACK moves one entry from the holder's PEL to the acknowledged messages, or
\* leaves both alone.
LEMMA AckGroup ==
  ASSUME TypeOK, GroupInv, NEW e \in Executors, NEW m \in pel[e], Ack(e, m),
         UNCHANGED <<stream, delivered>>
  PROVE  GroupInv'
<1>1. pel \in [Executors -> SUBSET MsgIds]
  BY DEF TypeOK
<1>2. CASE UNCHANGED <<acked, pel>>
  BY <1>2 DEF GroupInv
<1>3. CASE acked' = acked \cup {m} /\ pel' = [pel EXCEPT ![e] = @ \ {m}]
  <2>1. \A f \in Executors : pel'[f] = IF f = e THEN pel[e] \ {m} ELSE pel[f]
    BY <1>1, <1>3
  <2>2. \A f \in Executors : f # e => m \notin pel[f]
    BY DEF GroupInv
  <2>3. QED
    BY <1>3, <2>1, <2>2 DEF GroupInv
<1>4. QED
  BY <1>2, <1>3 DEF Ack

\* XADD only lengthens a stream.
LEMMA AppendGroup ==
  ASSUME TypeOK, GroupInv, NEW t \in Tasks, Append1(t), UNCHANGED <<delivered, pel, acked>>
  PROVE  GroupInv'
<1>1. \A q \in Queues : Len(stream'[q]) >= Len(stream[q])
  <2>1. QueueOf[t] \in Queues /\ stream \in [Queues -> Seq(Tasks)]
    BY StreamAssumption DEF TypeOK
  <2>2. Len(Append(stream[QueueOf[t]], t)) = Len(stream[QueueOf[t]]) + 1
    BY <2>1
  <2>3. QED
    BY <2>1, <2>2 DEF Append1
<1>2. \A q \in Queues : Len(stream[q]) \in Nat /\ Len(stream'[q]) \in Nat /\ delivered[q] \in Nat
  BY AppendType DEF TypeOK
<1>3. \A q \in Queues : delivered'[q] <= Len(stream'[q])
  BY <1>1, <1>2 DEF GroupInv
<1>4. QED
  BY <1>3 DEF GroupInv

\* XREADGROUP ">" hands the first undelivered message to one executor.
LEMMA DeliverGroup ==
  ASSUME TypeOK, GroupInv, NEW e \in Executors, NEW q \in Queues, HasNew(q), Deliver(e, q),
         UNCHANGED <<stream, acked>>
  PROVE  /\ GroupInv'
         /\ <<q, delivered[q] + 1>> \in MsgIds
         /\ \A f \in Executors : <<q, delivered[q] + 1>> \notin pel[f]
         /\ \A f \in Executors :
              pel'[f] = IF f = e THEN pel[e] \cup {<<q, delivered[q] + 1>>} ELSE pel[f]
<1> DEFINE m == <<q, delivered[q] + 1>>
<1>1. /\ delivered \in [Queues -> Nat]
      /\ pel \in [Executors -> SUBSET MsgIds]
      /\ acked \in SUBSET MsgIds
      /\ \A p \in Queues : Len(stream[p]) \in Nat
  BY DEF TypeOK
<1>2. m \in MsgIds /\ m[1] = q /\ m[2] = delivered[q] + 1
  BY <1>1 DEF MsgIds
<1>3. \A f \in Executors : m \notin pel[f]
  BY <1>1, <1>2 DEF GroupInv
<1>4. m \notin acked
  BY <1>1, <1>2 DEF GroupInv
<1>5. \A p \in Queues : delivered'[p] = IF p = q THEN delivered[q] + 1 ELSE delivered[p]
  BY <1>1 DEF Deliver
<1>6. \A f \in Executors : pel'[f] = IF f = e THEN pel[e] \cup {m} ELSE pel[f]
  BY <1>1 DEF Deliver
<1>7. \A p \in Queues : delivered'[p] <= Len(stream'[p])
  BY <1>1, <1>5 DEF GroupInv, HasNew
<1>8. \A n \in MsgIds : n[1] \in Queues /\ n[2] \in Nat /\ n = <<n[1], n[2]>>
  BY DEF MsgIds
<1>9. \A f \in Executors : \A n \in pel'[f] : 1 <= n[2] /\ n[2] <= delivered'[n[1]]
  BY <1>1, <1>2, <1>5, <1>6, <1>8 DEF GroupInv
<1>10. \A n \in acked' : 1 <= n[2] /\ n[2] <= delivered'[n[1]]
  BY <1>1, <1>5, <1>8 DEF GroupInv
<1>11. \A n \in MsgIds : 1 <= n[2] /\ n[2] <= delivered'[n[1]] =>
         n \in acked' \/ \E f \in Executors : n \in pel'[f]
  <2> SUFFICES ASSUME NEW n \in MsgIds, 1 <= n[2], n[2] <= delivered'[n[1]], n # m
               PROVE  n \in acked' \/ \E f \in Executors : n \in pel'[f]
    BY <1>6
  <2>1. n[2] <= delivered[n[1]]
    BY <1>1, <1>2, <1>5, <1>8
  <2>2. QED
    BY <1>6, <2>1 DEF GroupInv
<1>12. \A f \in Executors : pel'[f] \cap acked' = {}
  BY <1>4, <1>6 DEF GroupInv
<1>13. \A f, g \in Executors : f # g => pel'[f] \cap pel'[g] = {}
  BY <1>3, <1>6 DEF GroupInv
<1>14. QED
  BY <1>2, <1>3, <1>6, <1>7, <1>9, <1>10, <1>11, <1>12, <1>13 DEF GroupInv

\* The partition of the delivered messages survives every step: only XADD,
\* XREADGROUP ">" and XACK touch it.
LEMMA GroupStep ==
  ASSUME IInv, [Next]_vars
  PROVE  GroupInv'
<1> USE DEF IInv
<1>1. CASE UNCHANGED group
  BY <1>1 DEF group, GroupInv
<1>2. ASSUME NEW t \in Tasks, Push(t) PROVE GroupInv'
  BY <1>2, AppendGroup DEF Push
<1>3. ASSUME NEW t \in Tasks, PushFails(t) PROVE GroupInv'
  BY <1>3, AppendGroup DEF PushFails, GroupInv
<1>4. ASSUME NEW e \in Executors, FetchNew(e) PROVE GroupInv'
  BY <1>4, DeliverGroup DEF FetchNew
<1>5. ASSUME NEW e \in Executors, FetchLost(e) PROVE GroupInv'
  BY <1>5, DeliverGroup DEF FetchLost
<1>6. ASSUME NEW e \in Executors, Reject(e), pc[e] \in {"fetched", "selected"},
             UNCHANGED <<stream, delivered>>
      PROVE GroupInv'
  BY <1>6, AckGroup DEF Reject, HandInv
<1>7. ASSUME NEW e \in Executors, GetTaskSelect(e) PROVE GroupInv'
  BY <1>1, <1>6, <1>7 DEF GetTaskSelect, group
<1>8. ASSUME NEW e \in Executors, GetTaskUpdate(e) PROVE GroupInv'
  BY <1>1, <1>6, <1>8 DEF GetTaskUpdate, Begin, group
<1>9. ASSUME NEW e \in Executors, LoadUncounted(e) PROVE GroupInv'
  BY <1>1, <1>6, <1>9 DEF LoadUncounted, Begin, group
<1>10. ASSUME NEW e \in Executors, NEW m \in running[e], AckFinished(e, m) PROVE GroupInv'
  BY <1>10, AckGroup DEF AckFinished, HandlerEnds, HandInv
<1>11. ASSUME NEW e \in Executors, NEW m \in running[e], EndsUnacked(e, m) PROVE GroupInv'
  BY <1>1, <1>11 DEF EndsUnacked, HandlerEnds, group
<1>12. CASE UNCHANGED vars
  BY <1>1, <1>12 DEF vars
<1>13. ASSUME NEW t \in Tasks,
              InsertTask(t) \/ CancelTask(t) \/ CancelExpires(t) \/ DropTask(t)
       PROVE GroupInv'
  BY <1>1, <1>13 DEF InsertTask, CancelTask, CancelExpires, DropTask
<1>14. ASSUME NEW e \in Executors,
              \/ FetchUnacked(e) \/ UnackedFails(e) \/ FirstEmpty(e) \/ FetchNothing(e) \/ LoadFails(e)
              \/ Wake(e) \/ Restart(e) \/ Crash(e)
       PROVE GroupInv'
  BY <1>1, <1>14 DEF FetchUnacked, UnackedFails, FirstEmpty, FetchNothing, LoadFails, Wake, Restart, Crash
<1>15. ASSUME NEW e \in Executors, NEW m \in running[e],
              RecordFails(e, m) \/ \E out \in {"done", "failed"} : Record(e, m, out)
       PROVE GroupInv'
  BY <1>1, <1>15 DEF RecordFails, Record
<1>16. QED
  BY <1>2, <1>3, <1>4, <1>5, <1>7, <1>8, <1>9, <1>10, <1>11, <1>12, <1>13, <1>14, <1>15
     DEF Next, Server, Collect, Complete, Failure

-----------------------------------------------------------------------------
\* The order in which the iterator visits messages.
LEMMA VisitOrder ==
  /\ \A m \in MsgIds : ~Before(Exhausted, m)
  /\ \A c \in MsgIds \cup {Exhausted} : ~Before(c, NoMsg)
  /\ \A c \in MsgIds \cup {Exhausted} : \A m, n \in MsgIds :
       Before(c, m) /\ ~Before(c, n) => ~Before(m, n)
  /\ \A c \in MsgIds \cup {Exhausted} : ~Before(c, c)
  BY DEF MsgIds, Queues, Exhausted, NoMsg, Before

\* The invariants of one executor.
Hand(e) ==
  /\ running[e] \subseteq pel[e]
  /\ recorded[e] \subseteq running[e]
  /\ pc[e] \in {"down", "loop", "second"} => current[e] = NoMsg
  /\ pc[e] = "down" => running[e] = {}
  /\ pc[e] \in {"fetched", "selected"} =>
       current[e] \in pel[e] /\ current[e] \notin running[e]
  /\ \A m \in running[e] : ~Before(cursor[e], m)
  /\ ~Before(cursor[e], current[e])

\* What one executor remembers of itself, apart from the counter of sleepers
\* and the retry count it last selected.
Memory(e) == <<pc[e], cursor[e], current[e], running[e], recorded[e]>>

\* An executor whose memory and PEL a step leaves alone keeps its invariants.
LEMMA HandKept ==
  ASSUME NEW e \in Executors, Hand(e), Memory(e)' = Memory(e), pel'[e] = pel[e]
  PROVE  Hand(e)'
  BY DEF Hand, Memory, Before

\* Every executor keeps its invariants in every step. Fetching from the PEL
\* moves the iterator past everything the process works on; fetching a new
\* message cannot return one that is pending anywhere.
LEMMA HandStep ==
  ASSUME TypeOK, GroupInv, \A e \in Executors : Hand(e), [Next]_vars
  PROVE  \A e \in Executors : Hand(e)'
<1> DEFINE Goal == \A f \in Executors : Hand(f)'
           Others(e) == \A f \in Executors \ {e} : Memory(f)' = Memory(f) /\ pel'[f] = pel[f]
           Same == \A f \in Executors : Memory(f)' = Memory(f) /\ pel'[f] = pel[f]
<1> USE VisitOrder DEF group, proc
<1>0. /\ pel \in [Executors -> SUBSET MsgIds]
      /\ pc \in [Executors -> {"down", "loop", "second", "fetched", "selected"}]
      /\ cursor \in [Executors -> MsgIds \cup {Exhausted}]
      /\ current \in [Executors -> MsgIds \cup {NoMsg}]
      /\ running \in [Executors -> SUBSET MsgIds]
      /\ recorded \in [Executors -> SUBSET MsgIds]
  BY DEF TypeOK
<1>1. ASSUME NEW e \in Executors, Others(e), Hand(e)' PROVE Goal
  BY <1>1, HandKept
<1>2. ASSUME Same PROVE Goal
  BY <1>2, HandKept
<1>3. ASSUME NEW e \in Executors, FetchUnacked(e) PROVE Goal
  <2>1. Others(e)
    BY <1>0, <1>3 DEF FetchUnacked, Memory
  <2>2. Hand(e)'
    <3>1. PICK m \in Unvisited(e) : cursor' = [cursor EXCEPT ![e] = m] /\ current' = [current EXCEPT ![e] = m]
      BY <1>3 DEF FetchUnacked
    <3>2. m \in pel[e] /\ m \in MsgIds /\ Before(cursor[e], m)
      BY <1>0 DEF Unvisited
    <3>3. cursor'[e] = m /\ current'[e] = m /\ pc'[e] = "fetched" /\ UNCHANGED <<pel, running, recorded>>
      BY <1>0, <3>1, <1>3 DEF FetchUnacked
    <3>4. \A n \in running[e] : n \in MsgIds /\ ~Before(cursor[e], n)
      BY <1>0 DEF Hand
    <3>5. m \notin running[e] /\ \A n \in running[e] : ~Before(m, n)
      BY <1>0, <3>2, <3>4
    <3>6. QED
      BY <3>2, <3>3, <3>5 DEF Hand, Before
  <2>3. QED BY <1>1, <2>1, <2>2
<1>4. ASSUME NEW e \in Executors, UnackedFails(e) PROVE Goal
  <2>1. Others(e)
    BY <1>0, <1>4 DEF UnackedFails, Memory
  <2>2. Hand(e)'
    <3>1. /\ cursor'[e] \in {<<2, 0>>, Exhausted}
          /\ Before(cursor[e], cursor'[e])
          /\ UNCHANGED <<pel, pc, current, running, recorded>>
      BY <1>0, <1>4 DEF UnackedFails
    <3>2. \A n \in running[e] : n \in MsgIds /\ ~Before(cursor[e], n)
      BY <1>0 DEF Hand
    <3>3. \A n \in running[e] : ~Before(cursor'[e], n)
      BY <1>0, <3>1, <3>2 DEF MsgIds, Queues, Before, Exhausted
    <3>4. current[e] = NoMsg
      BY <1>0, <1>4 DEF UnackedFails, Hand
    <3>5. QED
      BY <3>1, <3>3, <3>4 DEF Hand, MsgIds, Queues, Before, Exhausted, NoMsg
  <2>3. QED BY <1>1, <2>1, <2>2
<1>5. ASSUME NEW e \in Executors, FetchNew(e) PROVE Goal
  <2>1. Others(e)
    BY <1>0, <1>5 DEF FetchNew, Deliver, Memory
  <2>2. Hand(e)'
    <3>1. PICK q \in Queues : /\ HasNew(q) /\ Deliver(e, q)
                              /\ current' = [current EXCEPT ![e] = <<q, delivered[q] + 1>>]
      BY <1>5 DEF FetchNew
    <3> DEFINE m == <<q, delivered[q] + 1>>
    <3>2. m \in MsgIds /\ m \notin pel[e] /\ pel'[e] = pel[e] \cup {m}
      BY <3>1, <1>5, DeliverGroup DEF FetchNew
    <3>3. cursor'[e] = Exhausted /\ current'[e] = m /\ pc'[e] = "fetched" /\ UNCHANGED <<running, recorded>>
      BY <1>0, <3>1, <1>5 DEF FetchNew
    <3>4. \A n \in running[e] : n \in MsgIds /\ n \in pel[e]
      BY <1>0 DEF Hand
    <3>5. QED
      BY <3>2, <3>3, <3>4 DEF Hand, Before
  <2>3. QED BY <1>1, <2>1, <2>2
<1>6. ASSUME NEW e \in Executors, FetchLost(e) PROVE Goal
  <2>1. Others(e)
    BY <1>0, <1>6 DEF FetchLost, Deliver, Memory
  <2>2. Hand(e)'
    <3>1. PICK q \in Queues : HasNew(q) /\ Deliver(e, q)
      BY <1>6 DEF FetchLost
    <3>2. pel[e] \subseteq pel'[e]
      BY <3>1, <1>6, DeliverGroup DEF FetchLost
    <3>5. pc[e] \in {"loop", "second"}
      BY <1>6 DEF FetchLost, Reading
    <3>3. cursor'[e] = Exhausted /\ UNCHANGED <<pc, current, running, recorded>> /\ current[e] = NoMsg
      BY <1>0, <1>6, <3>5 DEF FetchLost, Hand
    <3>4. \A n \in running[e] : n \in MsgIds /\ n \in pel[e]
      BY <1>0 DEF Hand
    <3>6. QED
      BY <3>2, <3>3, <3>4, <3>5 DEF Hand, Before, Exhausted, NoMsg
  <2>3. QED BY <1>1, <2>1, <2>2
<1>7. ASSUME NEW e \in Executors, FirstEmpty(e) \/ FetchNothing(e) PROVE Goal
  <2>1. Others(e)
    BY <1>0, <1>7 DEF FirstEmpty, FetchNothing, Memory
  <2>2. Hand(e)'
    <3>1. /\ cursor'[e] \in {cursor[e], Exhausted} /\ pc'[e] \in {"loop", "second"}
          /\ UNCHANGED <<pel, current, running, recorded>> /\ current[e] = NoMsg
      BY <1>0, <1>7 DEF FirstEmpty, FetchNothing, Hand
    <3>2. \A n \in running[e] : n \in MsgIds
      BY <1>0
    <3>3. QED
      BY <3>1, <3>2 DEF Hand, Before, Exhausted, NoMsg
  <2>3. QED BY <1>1, <2>1, <2>2
<1>8. ASSUME NEW e \in Executors, BackToLoop(e), Reject(e), pc[e] \in {"fetched", "selected"},
             UNCHANGED <<cursor, recorded>>
      PROVE Goal
  <2>1. Others(e)
    BY <1>0, <1>8 DEF BackToLoop, Reject, Ack, Memory
  <2>2. running[e] \subseteq pel'[e]
    BY <1>0, <1>8 DEF Reject, Ack, Hand
  <2>3. pc'[e] = "loop" /\ current'[e] = NoMsg /\ UNCHANGED <<cursor, running, recorded>>
    BY <1>0, <1>8 DEF BackToLoop, Reject
  <2>4. cursor[e] \in MsgIds \cup {Exhausted}
    BY <1>0
  <2>5. Hand(e)'
    BY <2>2, <2>3, <2>4 DEF Hand, Before
  <2>6. QED BY <1>1, <2>1, <2>5
<1>9. ASSUME NEW e \in Executors, BackToLoop(e), Begin(e), pc[e] \in {"fetched", "selected"},
             UNCHANGED <<cursor, recorded>>
      PROVE Goal
  <2>1. Others(e)
    BY <1>0, <1>9 DEF BackToLoop, Begin, Memory
  <2>2. running'[e] = running[e] \cup {current[e]} /\ UNCHANGED <<pel, cursor, recorded>>
    BY <1>0, <1>9 DEF Begin
  <2>3. pc'[e] = "loop" /\ current'[e] = NoMsg
    BY <1>0, <1>9 DEF BackToLoop
  <2>4. cursor[e] \in MsgIds \cup {Exhausted}
    BY <1>0
  <2>5. Hand(e)'
    BY <1>9, <2>2, <2>3, <2>4 DEF Hand, Before
  <2>6. QED BY <1>1, <2>1, <2>5
<1>10. ASSUME NEW e \in Executors, GetTaskSelect(e) PROVE Goal
  <2>1. CASE Reject(e) /\ BackToLoop(e)
    BY <1>8, <1>10, <2>1 DEF GetTaskSelect
  <2>2. CASE pc' = [pc EXCEPT ![e] = "selected"] /\ UNCHANGED <<pel, current, running>>
    <3>1. Others(e)
      BY <1>0, <1>10, <2>2 DEF GetTaskSelect, Memory
    <3>2. Hand(e)'
      BY <1>0, <1>10, <2>2 DEF GetTaskSelect, Hand, Before
    <3>3. QED BY <1>1, <3>1, <3>2
  <2>3. QED BY <1>10, <2>1, <2>2 DEF GetTaskSelect
<1>11. ASSUME NEW e \in Executors, GetTaskUpdate(e) PROVE Goal
  BY <1>8, <1>9, <1>11 DEF GetTaskUpdate
<1>12. ASSUME NEW e \in Executors, LoadUncounted(e) PROVE Goal
  BY <1>8, <1>9, <1>12 DEF LoadUncounted
<1>13. ASSUME NEW e \in Executors, LoadFails(e) PROVE Goal
  <2>1. Others(e)
    BY <1>0, <1>13 DEF LoadFails, BackToLoop, Memory
  <2>2. Hand(e)'
    <3>1. pc'[e] = "loop" /\ current'[e] = NoMsg /\ UNCHANGED <<pel, cursor, running, recorded>>
      BY <1>0, <1>13 DEF LoadFails, BackToLoop
    <3>2. cursor[e] \in MsgIds \cup {Exhausted}
      BY <1>0
    <3>3. QED
      BY <3>1, <3>2 DEF Hand, Before
  <2>3. QED BY <1>1, <2>1, <2>2
<1>14. ASSUME NEW e \in Executors, NEW m \in running[e],
              RecordFails(e, m) \/ \E out \in {"done", "failed"} : Record(e, m, out)
       PROVE Goal
  <2>1. Others(e)
    BY <1>0, <1>14 DEF Record, RecordFails, Memory
  <2>2. Hand(e)'
    <3>1. m \in running[e] /\ recorded'[e] = recorded[e] \cup {m} /\ UNCHANGED <<pel, pc, current, cursor, running>>
      BY <1>0, <1>14 DEF Record, RecordFails
    <3>2. QED
      BY <3>1 DEF Hand, Before
  <2>3. QED BY <1>1, <2>1, <2>2
<1>15. ASSUME NEW e \in Executors, NEW m \in running[e], AckFinished(e, m) \/ EndsUnacked(e, m) PROVE Goal
  <2>1. Others(e)
    BY <1>0, <1>15 DEF AckFinished, EndsUnacked, HandlerEnds, Ack, Memory
  <2>2. Hand(e)'
    <3>1. /\ running'[e] = running[e] \ {m} /\ recorded'[e] = recorded[e] \ {m}
          /\ UNCHANGED <<pc, current, cursor>>
      BY <1>0, <1>15 DEF AckFinished, EndsUnacked, HandlerEnds
    <3>2. pel[e] \ {m} \subseteq pel'[e] /\ pc[e] = "loop"
      BY <1>0, <1>15 DEF AckFinished, EndsUnacked, HandlerEnds, Ack
    <3>3. QED
      BY <3>1, <3>2 DEF Hand, Before
  <2>3. QED BY <1>1, <2>1, <2>2
<1>16. ASSUME NEW e \in Executors, Crash(e) PROVE Goal
  <2>1. Others(e)
    BY <1>0, <1>16 DEF Crash, Memory
  <2>2. Hand(e)'
    <3>1. /\ pc'[e] = "down" /\ current'[e] = NoMsg /\ running'[e] = {} /\ recorded'[e] = {}
          /\ UNCHANGED <<pel, cursor>>
      BY <1>0, <1>16 DEF Crash
    <3>2. cursor[e] \in MsgIds \cup {Exhausted}
      BY <1>0
    <3>3. QED
      BY <3>1, <3>2 DEF Hand, Before
  <2>3. QED BY <1>1, <2>1, <2>2
<1>17. ASSUME NEW e \in Executors, Restart(e) PROVE Goal
  <2>1. Others(e)
    BY <1>0, <1>17 DEF Restart, Memory
  <2>2. Hand(e)'
    <3>1. /\ pc'[e] = "loop" /\ cursor'[e] = Fresh /\ UNCHANGED <<pel, current, running, recorded>>
      BY <1>0, <1>17 DEF Restart
    <3>2. running[e] = {} /\ current[e] = NoMsg /\ Fresh \in MsgIds
      BY <1>17 DEF Restart, Hand, Fresh, MsgIds, Queues
    <3>3. QED
      BY <3>1, <3>2 DEF Hand, Before
  <2>3. QED BY <1>1, <2>1, <2>2
<1>18. ASSUME UNCHANGED vars PROVE Goal
  BY <1>2, <1>18 DEF vars, Memory
<1>19. ASSUME NEW t \in Tasks,
              \/ InsertTask(t) \/ Push(t) \/ PushFails(t)
              \/ CancelTask(t) \/ CancelExpires(t) \/ DropTask(t)
       PROVE Goal
  BY <1>2, <1>19 DEF InsertTask, Push, PushFails, CancelTask, CancelExpires, DropTask, Memory
<1>20. ASSUME NEW e \in Executors, Wake(e) PROVE Goal
  BY <1>2, <1>20 DEF Wake, Memory
<1> HIDE VisitOrder DEF Goal, group, proc
<1>21. ASSUME NEW e \in Executors, Collect(e) PROVE Goal
  BY <1>3, <1>5, <1>7, <1>10, <1>11, <1>12, <1>21 DEF Collect
<1>22. ASSUME NEW e \in Executors, Complete(e) PROVE Goal
  BY <1>14, <1>15, <1>22 DEF Complete
<1>23. ASSUME NEW e \in Executors, Failure(e) PROVE Goal
  BY <1>4, <1>6, <1>13, <1>14, <1>15, <1>16, <1>23 DEF Failure
<1>24. ASSUME Server PROVE Goal
  BY <1>19, <1>24 DEF Server
<1>25. Goal
  BY <1>17, <1>18, <1>20, <1>21, <1>22, <1>23, <1>24 DEF Next
<1>26. QED BY <1>25 DEF Goal

-----------------------------------------------------------------------------
\* The inductive invariant holds in every reachable state.
THEOREM Inductive == Spec => []IInv
<1>1. ASSUME IInv, [Next]_vars PROVE IInv'
  <2>1. \A e \in Executors : Hand(e)
    BY <1>1 DEF IInv, HandInv, CursorInv, Hand
  <2>2. \A e \in Executors : Hand(e)'
    BY <1>1, <2>1, HandStep DEF IInv
  <2>3. HandInv' /\ CursorInv'
    BY <2>2 DEF HandInv, CursorInv, Hand
  <2>4. QED
    BY <1>1, <2>3, TypeStep, GroupStep DEF IInv
<1>2. QED
  BY <1>1, InitIInv, PTL DEF Spec

\* Every variable keeps its type: in particular queue_product never makes a
\* fourth XADD and what an executor is handling is a message id.
THEOREM TypeCorrect == Spec => []TypeOK
<1>1. IInv => TypeOK
  BY DEF IInv
<1>2. QED BY <1>1, Inductive, PTL

\* No message is lost or held twice, for any number of executors, crashes and
\* failed calls (Accounted).
THEOREM NoMessageLost == Spec => []Accounted
<1>1. ASSUME IInv PROVE Accounted
  <2>1. /\ pel \in [Executors -> SUBSET MsgIds] /\ acked \in SUBSET MsgIds
        /\ delivered \in [Queues -> Nat] /\ \A q \in Queues : Len(stream[q]) \in Nat
    BY <1>1 DEF IInv, TypeOK
  <2>2. \A m \in MsgIds : m[1] \in Queues /\ m[2] \in Nat /\ m = <<m[1], m[2]>>
    BY DEF MsgIds
  <2>3. \A m : m \in Delivered <=> m \in MsgIds /\ 1 <= m[2] /\ m[2] <= delivered[m[1]]
    <3>1. \A m : m \in Posted <=> \E q \in Queues : \E i \in 1..Len(stream[q]) : m = <<q, i>>
      BY DEF Posted
    <3>2. ASSUME NEW m, m \in Delivered PROVE m \in MsgIds /\ 1 <= m[2] /\ m[2] <= delivered[m[1]]
      BY <2>1, <3>1, <3>2 DEF Delivered, MsgIds
    <3>3. ASSUME NEW m \in MsgIds, 1 <= m[2], m[2] <= delivered[m[1]] PROVE m \in Delivered
      <4>1. m[1] \in Queues /\ m[2] \in 1..Len(stream[m[1]]) /\ m = <<m[1], m[2]>>
        BY <1>1, <2>1, <2>2, <3>3 DEF IInv, GroupInv
      <4>2. QED BY <3>1, <3>3, <4>1 DEF Delivered
    <3>4. QED BY <3>2, <3>3
  <2>4. acked \cup UNION {pel[e] : e \in Executors} = Delivered
    BY <1>1, <2>1, <2>3 DEF IInv, GroupInv
  <2>5. QED
    BY <1>1, <2>4 DEF IInv, GroupInv, Accounted
<1>2. QED BY <1>1, Inductive, PTL

\* No two handlers ever work on the same message, in one process or in two
\* (OneHandler).
THEOREM OneHandlerAlways == Spec => []OneHandler
<1>1. ASSUME IInv PROVE OneHandler
  <2>1. \A e \in Executors : running[e] \subseteq MsgIds /\ running[e] \subseteq pel[e]
                             /\ current[e] \in pel[e] \cup {NoMsg}
    BY <1>1 DEF IInv, TypeOK, HandInv
  <2>2. \A e \in Executors : current[e] \notin running[e]
    <3>1. NoMsg \notin MsgIds
      BY DEF NoMsg, MsgIds, Queues
    <3>2. \A e \in Executors : current[e] = NoMsg \/ current[e] \notin running[e]
      BY <1>1 DEF IInv, TypeOK, HandInv
    <3>3. QED BY <2>1, <3>1, <3>2
  <2>3. QED
    BY <1>1, <2>1, <2>2 DEF IInv, GroupInv, OneHandler
<1>2. QED BY <1>1, Inductive, PTL

-----------------------------------------------------------------------------
\* XADD posts one new message.
LEMMA PostStep ==
  ASSUME TypeOK, NEW t \in Tasks, Append1(t), UNCHANGED <<delivered, pel, acked, running>>
  PROVE  Queue!Post
<1> DEFINE q == QueueOf[t]
           m == <<q, Len(stream[q]) + 1>>
<1>1. q \in Queues /\ stream \in [Queues -> Seq(Tasks)]
  BY StreamAssumption DEF TypeOK
<1>2. \A p \in Queues : Len(stream[p]) \in Nat
  BY <1>1
<1>3. \A p \in Queues : Len(stream'[p]) = IF p = q THEN Len(stream[q]) + 1 ELSE Len(stream[p])
  BY <1>1 DEF Append1
<1>4. \A n : n \in Posted <=> \E p \in Queues : \E i \in 1..Len(stream[p]) : n = <<p, i>>
  BY DEF Posted
<1>5. \A n : n \in Posted' <=> \E p \in Queues : \E i \in 1..Len(stream'[p]) : n = <<p, i>>
  BY DEF Posted
<1>6. m \in MsgIds
  BY <1>1, <1>2 DEF MsgIds
<1>7. m \notin Posted
  BY <1>2, <1>4
<1>8. Posted' = Posted \cup {m}
  <2>1. ASSUME NEW n \in Posted' PROVE n \in Posted \cup {m}
    BY <1>1, <1>2, <1>3, <1>4, <1>5, <2>1
  <2>2. ASSUME NEW n \in Posted PROVE n \in Posted'
    BY <1>1, <1>2, <1>3, <1>4, <1>5, <2>2
  <2>3. m \in Posted'
    BY <1>1, <1>2, <1>3, <1>5
  <2>4. QED BY <2>1, <2>2, <2>3
<1>9. m \in Posted'
  BY <1>8
<1>10. QED
  BY <1>6, <1>7, <1>8, <1>9 DEF Queue!Post

\* The set of posted messages is a function of the streams.
LEMMA PostedKept ==
  ASSUME UNCHANGED stream
  PROVE  UNCHANGED Posted
  BY DEF Posted

\* Delivery is a claim: the message was posted and nobody holds it.
LEMMA ClaimStep ==
  ASSUME TypeOK, GroupInv, NEW e \in Executors, NEW q \in Queues, HasNew(q), Deliver(e, q),
         UNCHANGED <<stream, acked, running>>
  PROVE  Queue!Claim(e)
<1> DEFINE m == <<q, delivered[q] + 1>>
<1>1. m \in MsgIds /\ \A f \in Executors : m \notin pel[f]
  BY DeliverGroup
<1>2. delivered[q] \in Nat /\ Len(stream[q]) \in Nat /\ delivered \in [Queues -> Nat]
  BY DEF TypeOK
<1>3. m \in Posted
  BY <1>2 DEF Posted, HasNew
<1>4. m \notin acked
  BY <1>2 DEF GroupInv
<1>5. UNCHANGED Posted
  BY PostedKept
<1>6. QED
  BY <1>1, <1>3, <1>4, <1>5 DEF Deliver, Queue!Claim

\* Every step of the stream is a step of the work queue or leaves it alone.
LEMMA QueueStep ==
  ASSUME IInv, [Next]_vars
  PROVE  [Queue!Next]_(Queue!vars)
<1> DEFINE Goal == [Queue!Next]_(Queue!vars)
           Quiet == UNCHANGED <<stream, pel, acked, running>>
<1> USE DEF IInv, group, proc
<1>0. /\ pel \in [Executors -> SUBSET MsgIds]
      /\ running \in [Executors -> SUBSET MsgIds]
  BY DEF TypeOK
<1>1. ASSUME Quiet PROVE Goal
  BY <1>1, PostedKept DEF Queue!vars
<1>2. ASSUME NEW e \in Executors, UNCHANGED <<stream, pel, acked>>, NEW m \in running[e],
             running' = [running EXCEPT ![e] = @ \ {m}]
      PROVE Goal
  BY <1>2, PostedKept DEF Queue!Next, Queue!Stop
<1>3. ASSUME NEW t \in Tasks, Push(t) \/ PushFails(t) PROVE Goal
  BY <1>1, <1>3, PostStep DEF Push, PushFails, Queue!Next
<1>4. ASSUME NEW e \in Executors, FetchNew(e) \/ FetchLost(e) PROVE Goal
  BY <1>4, ClaimStep DEF FetchNew, FetchLost, Queue!Next
<1>5. ASSUME NEW e \in Executors, Reject(e), pc[e] \in {"fetched", "selected"}, UNCHANGED stream
      PROVE Goal
  <2>1. current[e] \in pel[e] /\ current[e] \notin running[e] /\ UNCHANGED running
    BY <1>5 DEF HandInv, Reject
  <2>2. running = [running EXCEPT ![e] = @ \ {current[e]}]
    BY <1>0, <2>1
  <2>3. UNCHANGED Posted
    BY <1>5, PostedKept
  <2>4. CASE UNCHANGED <<acked, pel>>
    BY <1>1, <1>5, <2>1, <2>4
  <2>5. CASE acked' = acked \cup {current[e]} /\ pel' = [pel EXCEPT ![e] = @ \ {current[e]}]
    BY <2>1, <2>2, <2>3, <2>5 DEF Queue!Next, Queue!Settle
  <2>6. QED BY <1>5, <2>4, <2>5 DEF Reject, Ack
<1>6. ASSUME NEW e \in Executors, Begin(e), pc[e] \in {"fetched", "selected"}, UNCHANGED stream
      PROVE Goal
  <2>1. current[e] \in pel[e] /\ current[e] \notin running[e]
    BY <1>6 DEF HandInv
  <2>2. UNCHANGED Posted
    BY <1>6, PostedKept
  <2>3. QED
    BY <1>6, <2>1, <2>2 DEF Begin, Queue!Next, Queue!Start
<1>7. ASSUME NEW e \in Executors, GetTaskSelect(e) PROVE Goal
  BY <1>1, <1>5, <1>7 DEF GetTaskSelect
<1>8. ASSUME NEW e \in Executors, GetTaskUpdate(e) \/ LoadUncounted(e) PROVE Goal
  BY <1>5, <1>6, <1>8 DEF GetTaskUpdate, LoadUncounted
<1>9. ASSUME NEW e \in Executors, NEW m \in running[e], AckFinished(e, m) PROVE Goal
  <2>1. m \in pel[e] /\ UNCHANGED stream /\ running' = [running EXCEPT ![e] = @ \ {m}]
    BY <1>9 DEF HandInv, AckFinished, HandlerEnds
  <2>2. UNCHANGED Posted
    BY <2>1, PostedKept
  <2>3. CASE UNCHANGED <<acked, pel>>
    BY <1>2, <2>1, <2>3
  <2>4. CASE acked' = acked \cup {m} /\ pel' = [pel EXCEPT ![e] = @ \ {m}]
    BY <2>1, <2>2, <2>4 DEF Queue!Next, Queue!Settle
  <2>5. QED BY <1>9, <2>3, <2>4 DEF AckFinished, Ack
<1>10. ASSUME NEW e \in Executors, NEW m \in running[e], EndsUnacked(e, m) PROVE Goal
  BY <1>2, <1>10 DEF EndsUnacked, HandlerEnds
<1>11. ASSUME NEW e \in Executors, Crash(e) PROVE Goal
  BY <1>11, PostedKept DEF Crash, Queue!Next, Queue!Die
<1>12. ASSUME UNCHANGED vars PROVE Goal
  BY <1>1, <1>12 DEF vars
<1>13. ASSUME NEW t \in Tasks, InsertTask(t) \/ CancelTask(t) \/ CancelExpires(t) \/ DropTask(t)
       PROVE Goal
  BY <1>1, <1>13 DEF InsertTask, CancelTask, CancelExpires, DropTask
<1>14. ASSUME NEW e \in Executors,
              \/ FetchUnacked(e) \/ UnackedFails(e) \/ FirstEmpty(e) \/ FetchNothing(e) \/ LoadFails(e)
              \/ Wake(e) \/ Restart(e)
       PROVE Goal
  BY <1>1, <1>14 DEF FetchUnacked, UnackedFails, FirstEmpty, FetchNothing, LoadFails, Wake, Restart
<1>15. ASSUME NEW e \in Executors, NEW m \in running[e],
              RecordFails(e, m) \/ \E out \in {"done", "failed"} : Record(e, m, out)
       PROVE Goal
  BY <1>1, <1>15 DEF RecordFails, Record
<1> HIDE DEF Goal, IInv, group, proc
<1>16. Goal
  BY <1>3, <1>4, <1>7, <1>8, <1>9, <1>10, <1>11, <1>12, <1>13, <1>14, <1>15
     DEF Next, Server, Collect, Complete, Failure
<1>17. QED BY <1>16 DEF Goal

\* The task stream implements the abstract work queue: whatever the number of
\* executors, crashes and failed calls, claims are exclusive and an
\* acknowledged message is never taken up again (ImplementsWorkQueue).
THEOREM Refinement == Spec => ImplementsWorkQueue
<1>1. Init => Queue!Init
  <2>1. ASSUME Init PROVE Posted = {}
    <3>1. \A q \in Queues : stream[q] = <<>>
      BY <2>1 DEF Init
    <3>2. \A q \in Queues : 1..Len(stream[q]) = {}
      BY <3>1
    <3>3. QED BY <3>2 DEF Posted
  <2>2. QED BY <2>1 DEF Init, Queue!Init
<1>2. QED
  BY <1>1, Inductive, QueueStep, PTL DEF Spec, ImplementsWorkQueue, Queue!Spec
=============================================================================
