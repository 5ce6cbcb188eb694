--------------------------- MODULE TaskLife_proofs ---------------------------
(* More proofs about TaskStream, on top of the inductive invariant of       *)
(* TaskStream_proofs: permits, messages a live executor has still to serve, *)
(* the attempts of a task and its final progress.                           *)
EXTENDS TaskStream_proofs, FiniteSetTheorems

\* The permits of task_limiter that executor e has handed out.
Used(e) == Cardinality(running[e]) + sleeping[e]
             + (IF pc[e] \in {"second", "fetched", "selected"} THEN 1 ELSE 0)

\* An executor runs finitely many handlers and respects the limit.
PermitInv == \A e \in Executors : IsFiniteSet(running[e]) /\ Used(e) <= MaxSlots

\* Initially nobody holds a permit.
LEMMA PermitInit == Init => PermitInv
<1> SUFFICES ASSUME Init, NEW e \in Executors PROVE IsFiniteSet(running[e]) /\ Used(e) <= MaxSlots
  BY DEF PermitInv
<1>1. running[e] = {} /\ sleeping[e] = 0 /\ pc[e] = "loop"
  BY DEF Init
<1>2. IsFiniteSet(running[e]) /\ Cardinality(running[e]) = 0
  BY <1>1, FS_EmptySet
<1>3. QED
  BY <1>1, <1>2, StreamAssumption DEF Used

\* Every way of taking up or ending a handler, rejecting a message, falling
\* asleep or waking up keeps the permits within MAX_CONCURRENT_TASKS.
LEMMA PermitStep ==
  ASSUME IInv, PermitInv, [Next]_vars
  PROVE  PermitInv'
<1> DEFINE Good(e) == IsFiniteSet(running'[e]) /\ Used(e)' <= MaxSlots
           Same(e) == running'[e] = running[e] /\ sleeping'[e] = sleeping[e] /\ pc'[e] = pc[e]
           Others(e) == \A f \in Executors \ {e} : Same(f)
<1> USE DEF group, proc
<1>0. /\ running \in [Executors -> SUBSET MsgIds] /\ sleeping \in [Executors -> Nat]
      /\ pc \in [Executors -> {"down", "loop", "second", "fetched", "selected"}]
      /\ \A e \in Executors : IsFiniteSet(running[e]) /\ Cardinality(running[e]) \in Nat
      /\ \A e \in Executors : Used(e) <= MaxSlots
      /\ MaxSlots \in Nat \ {0}
  BY FS_CardinalityType, StreamAssumption DEF IInv, TypeOK, PermitInv
<1>1. ASSUME NEW e \in Executors, Same(e) PROVE Good(e)
  BY <1>0, <1>1 DEF Used
<1>2. ASSUME NEW e \in Executors, Others(e), Good(e) PROVE PermitInv'
  BY <1>1, <1>2 DEF PermitInv
<1>3. ASSUME \A e \in Executors : Same(e) PROVE PermitInv'
  BY <1>1, <1>3 DEF PermitInv
<1>4. ASSUME NEW e \in Executors, FetchUnacked(e) \/ FetchNew(e) PROVE PermitInv'
  <2>1. Others(e) /\ UNCHANGED <<running, sleeping>> /\ pc'[e] = "fetched" /\ Free(e)
    BY <1>0, <1>4 DEF FetchUnacked, FetchNew
  <2>2. Good(e)
    BY <1>0, <2>1 DEF Used, Free
  <2>3. QED BY <1>2, <2>1, <2>2
<1>5. ASSUME NEW e \in Executors, FetchNothing(e) PROVE PermitInv'
  <2>1. /\ Others(e) /\ UNCHANGED running /\ pc[e] = "second" /\ pc'[e] = "loop"
        /\ sleeping'[e] = sleeping[e] + 1
    BY <1>0, <1>5 DEF FetchNothing
  <2>2. Good(e)
    BY <1>0, <2>1 DEF Used
  <2>3. QED BY <1>2, <2>1, <2>2
<1>21. ASSUME NEW e \in Executors, FirstEmpty(e) PROVE PermitInv'
  <2>1. Others(e) /\ UNCHANGED <<running, sleeping>> /\ pc'[e] = "second" /\ Free(e)
    BY <1>0, <1>21 DEF FirstEmpty
  <2>2. Good(e)
    BY <1>0, <2>1 DEF Used, Free
  <2>3. QED BY <1>2, <2>1, <2>2
<1>6. ASSUME NEW e \in Executors, pc[e] \in {"fetched", "selected"}, Reject(e), BackToLoop(e) PROVE PermitInv'
  <2>1. Others(e) /\ UNCHANGED running /\ pc'[e] = "loop" /\ sleeping'[e] = sleeping[e] + 1
    BY <1>0, <1>6 DEF Reject, BackToLoop
  <2>2. Good(e)
    BY <1>0, <1>6, <2>1 DEF Used
  <2>3. QED BY <1>2, <2>1, <2>2
<1>7. ASSUME NEW e \in Executors, pc[e] \in {"fetched", "selected"}, Begin(e), BackToLoop(e) PROVE PermitInv'
  <2>1. Others(e) /\ running'[e] = running[e] \cup {current[e]} /\ pc'[e] = "loop" /\ sleeping'[e] = sleeping[e]
    BY <1>0, <1>7 DEF Begin, BackToLoop
  <2>2. IsFiniteSet(running'[e]) /\ Cardinality(running'[e]) \in {Cardinality(running[e]), Cardinality(running[e]) + 1}
    <3>1. IsFiniteSet(running[e]) /\ Cardinality(running[e]) \in Nat
      BY <1>0
    <3>2. /\ IsFiniteSet(running[e] \cup {current[e]})
          /\ Cardinality(running[e] \cup {current[e]})
               = IF current[e] \in running[e] THEN Cardinality(running[e]) ELSE Cardinality(running[e]) + 1
      BY <3>1, FS_AddElement, Zenon
    <3>3. QED BY <2>1, <3>2
  <2>3. Good(e)
    BY <1>0, <1>7, <2>1, <2>2 DEF Used
  <2>4. QED BY <1>2, <2>1, <2>3
<1>8. ASSUME NEW e \in Executors, GetTaskSelect(e) PROVE PermitInv'
  <2>1. CASE Reject(e) /\ BackToLoop(e)
    BY <1>6, <1>8, <2>1 DEF GetTaskSelect
  <2>2. CASE pc' = [pc EXCEPT ![e] = "selected"] /\ UNCHANGED <<running, sleeping>>
    <3>1. Others(e) /\ pc'[e] = "selected" /\ pc[e] = "fetched"
      BY <1>0, <1>8, <2>2 DEF GetTaskSelect
    <3>2. Good(e)
      BY <1>0, <2>2, <3>1 DEF Used
    <3>3. QED BY <1>2, <3>1, <3>2
  <2>3. QED BY <1>8, <2>1, <2>2 DEF GetTaskSelect
<1>9. ASSUME NEW e \in Executors, GetTaskUpdate(e) \/ LoadUncounted(e) PROVE PermitInv'
  BY <1>6, <1>7, <1>9 DEF GetTaskUpdate, LoadUncounted
<1>10. ASSUME NEW e \in Executors, LoadFails(e) PROVE PermitInv'
  <2>1. Others(e) /\ UNCHANGED <<running, sleeping>> /\ pc'[e] = "loop" /\ pc[e] \in {"fetched", "selected"}
    BY <1>0, <1>10 DEF LoadFails, BackToLoop
  <2>2. Good(e)
    BY <1>0, <2>1 DEF Used
  <2>3. QED BY <1>2, <2>1, <2>2
<1>11. ASSUME NEW e \in Executors, NEW m, HandlerEnds(e, m) PROVE PermitInv'
  <2>1. Others(e) /\ UNCHANGED <<pc, sleeping>> /\ running'[e] = running[e] \ {m}
    BY <1>0, <1>11 DEF HandlerEnds
  <2>2. IsFiniteSet(running'[e]) /\ Cardinality(running'[e]) \in {Cardinality(running[e]), Cardinality(running[e]) - 1}
    BY <1>0, <2>1, FS_RemoveElement
  <2>3. Good(e)
    BY <1>0, <2>1, <2>2 DEF Used
  <2>4. QED BY <1>2, <2>1, <2>3
<1>12. ASSUME NEW e \in Executors, Wake(e) PROVE PermitInv'
  <2>1. Others(e) /\ UNCHANGED <<running, pc>> /\ sleeping'[e] = sleeping[e] - 1
    BY <1>0, <1>12 DEF Wake
  <2>2. Good(e)
    BY <1>0, <2>1 DEF Used
  <2>3. QED BY <1>2, <2>1, <2>2
<1>13. ASSUME NEW e \in Executors, Crash(e) PROVE PermitInv'
  <2>1. Others(e) /\ running'[e] = {} /\ sleeping'[e] = 0 /\ pc'[e] = "down"
    BY <1>0, <1>13 DEF Crash
  <2>2. Good(e)
    BY <1>0, <2>1, FS_EmptySet DEF Used
  <2>3. QED BY <1>2, <2>1, <2>2
<1>14. ASSUME NEW e \in Executors, Restart(e) PROVE PermitInv'
  <2>1. Others(e) /\ UNCHANGED <<running, sleeping>> /\ pc'[e] = "loop"
    BY <1>0, <1>14 DEF Restart
  <2>2. Good(e)
    BY <1>0, <2>1 DEF Used
  <2>3. QED BY <1>2, <2>1, <2>2
<1>15. ASSUME NEW e \in Executors,
              \/ UnackedFails(e) \/ FetchLost(e)
              \/ \E m \in running[e] : RecordFails(e, m) \/ \E out \in {"done", "failed"} : Record(e, m, out)
       PROVE PermitInv'
  <2>1. UNCHANGED <<running, sleeping, pc>>
    BY <1>15 DEF UnackedFails, FetchLost, RecordFails, Record
  <2>2. QED BY <1>3, <2>1
<1>16. CASE UNCHANGED vars \/ Server
  <2>1. UNCHANGED <<running, sleeping, pc>>
    BY <1>16 DEF vars, Server, InsertTask, Push, PushFails, CancelTask, CancelExpires, DropTask
  <2>2. QED BY <1>3, <2>1
<1> HIDE DEF group, proc
<1>17. ASSUME NEW e \in Executors, Collect(e) PROVE PermitInv'
  BY <1>4, <1>5, <1>8, <1>9, <1>17, <1>21 DEF Collect
<1>18. ASSUME NEW e \in Executors, Complete(e) PROVE PermitInv'
  BY <1>11, <1>15, <1>18 DEF Complete, AckFinished
<1>19. ASSUME NEW e \in Executors, Failure(e) PROVE PermitInv'
  BY <1>10, <1>11, <1>13, <1>15, <1>19 DEF Failure, EndsUnacked
<1>20. QED
  BY <1>12, <1>14, <1>16, <1>17, <1>18, <1>19 DEF Next

\* Permits are neither leaked nor handed out twice, for any number of
\* executors, permits, crashes and failed calls (PermitsRespected).
THEOREM PermitsAlwaysRespected == Spec => []PermitsRespected
<1>1. ASSUME PermitInv PROVE PermitsRespected
  BY <1>1 DEF PermitInv, PermitsRespected, Used
<1>2. QED
  BY <1>1, PermitInit, PermitStep, Inductive, PTL DEF Spec

-----------------------------------------------------------------------------
\* Executor e is handling, loading or still has to visit all it holds.
Kept(e) ==
  faults = 0 /\ pc[e] # "down" =>
    pel[e] \subseteq running[e] \cup {current[e]} \cup Unvisited(e)

\* Moving the iterator to the first unvisited entry skips nothing, and a new
\* iterator is before every entry.
LEMMA VisitNext ==
  /\ \A c, m, n \in MsgIds \cup {Exhausted} : Before(m, n) /\ Before(c, m) => Before(c, n)
  /\ \A m \in MsgIds : 1 <= m[2] => Before(Fresh, m)
  /\ NoMsg \notin MsgIds
  BY DEF MsgIds, Queues, Exhausted, Fresh, NoMsg, Before

\* No step without a failed call makes a live executor forget an entry of its
\* PEL.
LEMMA KeptStep ==
  ASSUME IInv, \A e \in Executors : Kept(e), [Next]_vars
  PROVE  \A e \in Executors : Kept(e)'
<1> DEFINE Goal == \A f \in Executors : Kept(f)'
           Same(f) == Memory(f)' = Memory(f) /\ pel'[f] = pel[f]
           Others(e) == \A f \in Executors \ {e} : Same(f)
<1> USE DEF group, proc
<1>0. /\ pel \in [Executors -> SUBSET MsgIds]
      /\ pc \in [Executors -> {"down", "loop", "second", "fetched", "selected"}]
      /\ cursor \in [Executors -> MsgIds \cup {Exhausted}]
      /\ current \in [Executors -> MsgIds \cup {NoMsg}]
      /\ running \in [Executors -> SUBSET MsgIds]
      /\ faults \in Nat
  BY StreamAssumption DEF IInv, TypeOK
<1>1. CASE Fault
  BY <1>0, <1>1 DEF Fault, Kept
<1>2. ASSUME NEW f \in Executors, Same(f), faults' = faults PROVE Kept(f)'
  BY <1>2 DEF Kept, Memory, Unvisited, Before
<1>3. ASSUME NEW e \in Executors, Others(e), Kept(e)', faults' = faults PROVE Goal
  BY <1>2, <1>3
<1>4. ASSUME NEW e \in Executors, FetchUnacked(e) PROVE Goal
  <2>1. Others(e) /\ faults' = faults
    BY <1>0, <1>4 DEF FetchUnacked, Memory
  <2>2. PICK m \in Unvisited(e) : /\ \A n \in Unvisited(e) : n = m \/ Before(m, n)
                                  /\ cursor'[e] = m /\ current'[e] = m
    BY <1>0, <1>4 DEF FetchUnacked
  <2>3. current[e] = NoMsg /\ pc[e] = "loop" /\ UNCHANGED <<pel, running>>
    BY <1>4 DEF FetchUnacked, IInv, HandInv
  <2>4. pel[e] \subseteq MsgIds
    BY <1>0
  <2>5. ASSUME faults = 0, NEW n \in pel[e] PROVE n \in running[e] \cup {m} \cup Unvisited(e)'
    <3>1. n \in running[e] \/ n \in Unvisited(e)
      BY <2>3, <2>4, <2>5, VisitNext DEF Kept
    <3>2. QED BY <2>2, <2>3, <3>1 DEF Unvisited, Before
  <2>6. Kept(e)'
    BY <2>1, <2>2, <2>3, <2>5 DEF Kept
  <2>7. QED BY <1>3, <2>1, <2>6
<1>5. ASSUME NEW e \in Executors, FetchNew(e) PROVE Goal
  <2>1. Others(e) /\ faults' = faults
    BY <1>0, <1>5 DEF FetchNew, Deliver, Memory
  <2>2. PICK q \in Queues : /\ HasNew(q) /\ Deliver(e, q)
                            /\ current' = [current EXCEPT ![e] = <<q, delivered[q] + 1>>]
    BY <1>5 DEF FetchNew
  <2>3. pel'[e] = pel[e] \cup {current'[e]} /\ UNCHANGED running
    BY <1>0, <1>5, <2>2 DEF FetchNew, Deliver
  <2>4. current[e] = NoMsg /\ pc[e] # "down" /\ Unvisited(e) = {} /\ pel[e] \subseteq MsgIds
    BY <1>0, <1>5 DEF FetchNew, Reading, IInv, HandInv
  <2>5. Kept(e)'
    BY <2>1, <2>3, <2>4, VisitNext DEF Kept
  <2>6. QED BY <1>3, <2>1, <2>5
<1>6. ASSUME NEW e \in Executors, FirstEmpty(e) \/ FetchNothing(e) PROVE Goal
  <2>1. Others(e) /\ faults' = faults /\ UNCHANGED <<pel, running, current>>
    BY <1>0, <1>6 DEF FirstEmpty, FetchNothing, Memory
  <2>2. pc[e] # "down" /\ (cursor'[e] = cursor[e] \/ Unvisited(e) = {})
    BY <1>0, <1>6 DEF FirstEmpty, FetchNothing
  <2>3. Kept(e)'
    BY <2>1, <2>2 DEF Kept, Unvisited, Before
  <2>4. QED BY <1>3, <2>1, <2>3
<1>7. ASSUME NEW e \in Executors, pc[e] \in {"fetched", "selected"}, Reject(e), BackToLoop(e),
             UNCHANGED <<cursor, recorded>>
      PROVE Goal
  <2>1. CASE Fault
    BY <1>1, <2>1
  <2>2. CASE /\ acked' = acked \cup {current[e]}
             /\ pel' = [pel EXCEPT ![e] = @ \ {current[e]}]
             /\ UNCHANGED faults
    <3>1. Others(e) /\ UNCHANGED running
      BY <1>0, <1>7, <2>2 DEF Reject, BackToLoop, Memory
    <3>2. pel'[e] = pel[e] \ {current[e]} /\ pc[e] # "down"
      BY <1>0, <1>7, <2>2
    <3>3. Kept(e)'
      BY <1>7, <2>2, <3>1, <3>2 DEF Kept, Unvisited, Before
    <3>4. QED BY <1>3, <2>2, <3>1, <3>3
  <2>3. QED BY <1>7, <2>1, <2>2 DEF Reject, Ack
<1>8. ASSUME NEW e \in Executors, pc[e] \in {"fetched", "selected"}, Begin(e), BackToLoop(e),
             UNCHANGED <<cursor, recorded>>
      PROVE Goal
  <2>1. Others(e) /\ UNCHANGED <<pel, faults>> /\ running'[e] = running[e] \cup {current[e]} /\ pc[e] # "down"
    BY <1>0, <1>8 DEF Begin, BackToLoop, Memory
  <2>2. Kept(e)'
    BY <1>8, <2>1 DEF Kept, Unvisited, Before
  <2>3. QED BY <1>3, <2>1, <2>2
<1>9. ASSUME NEW e \in Executors, GetTaskSelect(e) PROVE Goal
  <2>1. CASE Reject(e) /\ BackToLoop(e)
    BY <1>7, <1>9, <2>1 DEF GetTaskSelect
  <2>2. CASE pc' = [pc EXCEPT ![e] = "selected"] /\ UNCHANGED <<pel, current, running, faults>>
    <3>1. Others(e) /\ pc[e] = "fetched" /\ UNCHANGED cursor
      BY <1>0, <1>9, <2>2 DEF GetTaskSelect, Memory
    <3>2. Kept(e)'
      BY <2>2, <3>1 DEF Kept, Unvisited, Before
    <3>3. QED BY <1>3, <2>2, <3>1, <3>2
  <2>3. QED BY <1>9, <2>1, <2>2 DEF GetTaskSelect
<1>10. ASSUME NEW e \in Executors, GetTaskUpdate(e) \/ LoadUncounted(e) PROVE Goal
  BY <1>7, <1>8, <1>10 DEF GetTaskUpdate, LoadUncounted
<1>11. ASSUME NEW e \in Executors, NEW m \in running[e], AckFinished(e, m) PROVE Goal
  <2>1. CASE Fault
    BY <1>1, <2>1
  <2>2. CASE /\ acked' = acked \cup {m}
             /\ pel' = [pel EXCEPT ![e] = @ \ {m}]
             /\ UNCHANGED faults
    <3>1. Others(e) /\ running'[e] = running[e] \ {m} /\ UNCHANGED <<cursor, current, pc>>
      BY <1>0, <1>11, <2>2 DEF AckFinished, HandlerEnds, Memory
    <3>2. pel'[e] = pel[e] \ {m}
      BY <1>0, <2>2
    <3>3. Kept(e)'
      BY <2>2, <3>1, <3>2 DEF Kept, Unvisited, Before
    <3>4. QED BY <1>3, <2>2, <3>1, <3>3
  <2>3. QED BY <1>11, <2>1, <2>2 DEF AckFinished, Ack
<1>12. ASSUME NEW e \in Executors, Crash(e) PROVE Goal
  <2>1. Others(e) /\ faults' = faults /\ pc'[e] = "down"
    BY <1>0, <1>12 DEF Crash, Memory
  <2>2. QED BY <1>3, <2>1 DEF Kept
<1>13. ASSUME NEW e \in Executors, Restart(e) PROVE Goal
  <2>1. Others(e) /\ faults' = faults /\ cursor'[e] = Fresh /\ UNCHANGED <<pel>>
    BY <1>0, <1>13 DEF Restart, Memory
  <2>2. \A m \in pel[e] : m \in MsgIds /\ 1 <= m[2]
    BY <1>0 DEF IInv, GroupInv
  <2>3. pel'[e] \subseteq Unvisited(e)'
    BY <2>1, <2>2, VisitNext DEF Unvisited, Before
  <2>4. QED BY <1>3, <2>1, <2>3 DEF Kept
<1>14. ASSUME NEW e \in Executors, NEW m, NEW out, Record(e, m, out) PROVE Goal
  <2>1. Others(e) /\ UNCHANGED <<pel, running, current, cursor, pc, faults>>
    BY <1>0, <1>14 DEF Record, Memory
  <2>2. Kept(e)'
    BY <2>1 DEF Kept, Unvisited, Before
  <2>3. QED BY <1>3, <2>1, <2>2
<1>15. ASSUME NEW e \in Executors, Wake(e) PROVE Goal
  BY <1>2, <1>15 DEF Wake, Memory
<1>16. CASE UNCHANGED vars \/ Server
  <2>1. CASE Fault
    BY <1>1, <2>1
  <2>2. CASE UNCHANGED <<faults, pel, proc>>
    BY <1>2, <2>2 DEF Memory
  <2>3. QED
    BY <1>16, <2>1, <2>2 DEF vars, Server, InsertTask, Push, PushFails, CancelTask, CancelExpires, DropTask
<1> HIDE DEF group, proc
<1>17. ASSUME NEW e \in Executors, Collect(e) PROVE Goal
  BY <1>4, <1>5, <1>6, <1>9, <1>10, <1>17 DEF Collect
<1>18. ASSUME NEW e \in Executors, Complete(e) PROVE Goal
  BY <1>11, <1>14, <1>18 DEF Complete
<1>19. ASSUME NEW e \in Executors, Failure(e) PROVE Goal
  BY <1>1, <1>12, <1>19 DEF Failure, UnackedFails, FetchLost, LoadFails, RecordFails, EndsUnacked
<1>20. QED
  BY <1>13, <1>15, <1>16, <1>17, <1>18, <1>19 DEF Next

\* While no call has failed, a live executor is handling, loading or about to
\* visit every entry of its PEL, for any number of executors, tasks, permits
\* and crashes (NothingStranded).
THEOREM NothingEverStranded == Spec => []NothingStranded
<1> DEFINE K == \A e \in Executors : Kept(e)
<1>1. Init => K
  BY DEF Init, Kept
<1>2. ASSUME K PROVE NothingStranded
  BY <1>2 DEF Kept, NothingStranded
<1>3. ASSUME IInv, K, [Next]_vars PROVE K'
  BY <1>3, KeptStep
<1> HIDE DEF K
<1>4. QED
  BY <1>1, <1>2, <1>3, Inductive, PTL DEF Spec

-----------------------------------------------------------------------------
\* Every task whose message was posted has been inserted; the row is missing
\* exactly until the producer inserts it; and while no call has failed a task
\* is posted once, when its producer ends.
SourceInv ==
  /\ \A m \in Posted : TaskOf(m) \in Tasks /\ producer[TaskOf(m)] # "idle"
  /\ \A t \in Tasks : producer[t] = "idle" <=> row[t] = "absent"
  /\ faults = 0 =>
       /\ \A m \in Posted : producer[TaskOf(m)] = "ended"
       /\ \A m, n \in Posted : TaskOf(m) = TaskOf(n) => m = n
       /\ \A t \in Tasks : producer[t] = "ended" => \E m \in Posted : TaskOf(m) = t

\* A message is posted when its position is within its stream.
LEMMA PostedIs ==
  ASSUME TypeOK
  PROVE  \A m : m \in Posted <=> m \in MsgIds /\ 1 <= m[2] /\ m[2] <= Len(stream[m[1]])
<1>1. \A m : m \in Posted <=> \E q \in Queues : \E i \in 1..Len(stream[q]) : m = <<q, i>>
  BY DEF Posted
<1>2. \A q \in Queues : Len(stream[q]) \in Nat
  BY DEF TypeOK
<1>3. \A m \in MsgIds : m[1] \in Queues /\ m[2] \in Nat /\ m = <<m[1], m[2]>>
  BY DEF MsgIds
<1>4. ASSUME NEW m, m \in Posted PROVE m \in MsgIds /\ 1 <= m[2] /\ m[2] <= Len(stream[m[1]])
  BY <1>1, <1>2, <1>4 DEF MsgIds
<1>5. ASSUME NEW m \in MsgIds, 1 <= m[2], m[2] <= Len(stream[m[1]]) PROVE m \in Posted
  BY <1>1, <1>2, <1>3, <1>5
<1>6. QED BY <1>4, <1>5

\* What the group has delivered was posted, and it names tasks.
LEMMA HeldPosted ==
  ASSUME IInv
  PROVE  /\ \A m \in Posted : TaskOf(m) \in Tasks
         /\ \A e \in Executors : pel[e] \subseteq Posted
         /\ acked \subseteq Posted
<1>1. /\ pel \in [Executors -> SUBSET MsgIds] /\ acked \in SUBSET MsgIds
      /\ delivered \in [Queues -> Nat] /\ stream \in [Queues -> Seq(Tasks)]
      /\ \A q \in Queues : Len(stream[q]) \in Nat /\ delivered[q] <= Len(stream[q])
  BY DEF IInv, TypeOK, GroupInv
<1>2. \A m \in MsgIds : m[1] \in Queues /\ m[2] \in Nat
  BY DEF MsgIds
<1>3. \A m : m \in Posted <=> m \in MsgIds /\ 1 <= m[2] /\ m[2] <= Len(stream[m[1]])
  BY PostedIs DEF IInv
<1>4. ASSUME NEW m \in Posted PROVE TaskOf(m) \in Tasks
  <2>1. m[1] \in Queues /\ m[2] \in 1..Len(stream[m[1]]) /\ stream[m[1]] \in Seq(Tasks)
    BY <1>1, <1>2, <1>3, <1>4
  <2>2. QED BY <2>1 DEF TaskOf
<1>5. ASSUME NEW m \in MsgIds, 1 <= m[2], m[2] <= delivered[m[1]] PROVE m \in Posted
  BY <1>1, <1>2, <1>3, <1>5
<1>6. QED
  BY <1>1, <1>4, <1>5 DEF IInv, GroupInv

\* XADD posts one message of the task and leaves what the others name alone.
LEMMA Appended ==
  ASSUME IInv, NEW t \in Tasks, Append1(t)
  PROVE  \E n : /\ n \notin Posted /\ Posted' = Posted \cup {n} /\ TaskOf(n)' = t
                /\ \A m \in Posted : TaskOf(m)' = TaskOf(m)
<1> DEFINE q == QueueOf[t]
<1>0. PICK n : n = <<q, Len(stream[q]) + 1>>
  OBVIOUS
<1>1. q \in Queues /\ stream \in [Queues -> Seq(Tasks)] /\ TypeOK
  BY StreamAssumption DEF IInv, TypeOK
<1>2. \A p \in Queues : Len(stream[p]) \in Nat
  BY <1>1
<1>3. stream'[q] = Append(stream[q], t) /\ \A p \in Queues : p # q => stream'[p] = stream[p]
  BY <1>1 DEF Append1
<1>4. /\ Len(stream'[q]) = Len(stream[q]) + 1
      /\ stream'[q][Len(stream[q]) + 1] = t
      /\ \A i \in 1..Len(stream[q]) : stream'[q][i] = stream[q][i]
  BY <1>1, <1>3
<1>5. \A m : m \in Posted <=> m \in MsgIds /\ 1 <= m[2] /\ m[2] <= Len(stream[m[1]])
  BY <1>1, PostedIs
<1>6. \A m : m \in Posted' <=> \E p \in Queues : \E i \in 1..Len(stream'[p]) : m = <<p, i>>
  BY DEF Posted
<1>7. \A m \in MsgIds : m[1] \in Queues /\ m[2] \in Nat /\ m = <<m[1], m[2]>>
  BY DEF MsgIds
<1>8. n \notin Posted
  BY <1>0, <1>1, <1>2, <1>5
<1>9. Posted' = Posted \cup {n}
  <2>1. ASSUME NEW m \in Posted' PROVE m \in Posted \cup {n}
    <3>1. PICK p \in Queues : \E i \in 1..Len(stream'[p]) : m = <<p, i>>
      BY <1>6, <2>1
    <3>2. PICK i \in 1..Len(stream'[p]) : m = <<p, i>>
      BY <3>1
    <3>3. CASE p # q
      BY <1>2, <1>3, <1>5, <3>2, <3>3 DEF MsgIds
    <3>4. CASE p = q /\ i # Len(stream[q]) + 1
      <4>1. i \in Nat /\ 1 <= i /\ i <= Len(stream[p])
        BY <1>1, <1>2, <1>4, <3>2, <3>4
      <4>2. m \in MsgIds /\ m[1] = p /\ m[2] = i
        BY <3>2, <4>1 DEF MsgIds
      <4>3. QED BY <1>5, <4>1, <4>2
    <3>5. CASE p = q /\ i = Len(stream[q]) + 1
      BY <1>0, <3>2, <3>5
    <3>6. QED BY <3>3, <3>4, <3>5
  <2>2. ASSUME NEW m \in Posted PROVE m \in Posted'
    <3>1. m[1] \in Queues /\ m[2] \in 1..Len(stream[m[1]]) /\ m = <<m[1], m[2]>>
      BY <1>2, <1>5, <1>7, <2>2
    <3>2. m[2] \in 1..Len(stream'[m[1]])
      BY <1>1, <1>2, <1>3, <1>4, <3>1
    <3>3. QED BY <1>6, <3>1, <3>2
  <2>3. n \in Posted'
    BY <1>0, <1>1, <1>2, <1>4, <1>6
  <2>4. QED BY <2>1, <2>2, <2>3
<1>10. TaskOf(n)' = t
  BY <1>0, <1>4 DEF TaskOf
<1>11. ASSUME NEW m \in Posted PROVE TaskOf(m)' = TaskOf(m)
  <2>1. m[1] \in Queues /\ m[2] \in 1..Len(stream[m[1]])
    BY <1>2, <1>5, <1>7, <1>11
  <2>2. QED BY <1>3, <1>4, <2>1 DEF TaskOf
<1>12. QED BY <1>8, <1>9, <1>10, <1>11

\* Rows and producers move together and messages stay posted.
LEMMA SourceStep ==
  ASSUME IInv, SourceInv, [Next]_vars
  PROVE  SourceInv'
<1>0. /\ producer \in [Tasks -> {"idle", "pushing", "ended"}]
      /\ row \in [Tasks -> {"absent", "present", "dropped"}]
      /\ faults \in Nat
  BY StreamAssumption DEF IInv, TypeOK
<1>1. ASSUME UNCHANGED <<stream, producer, row>>, faults' \in Nat, faults' >= faults PROVE SourceInv'
  <2>1. UNCHANGED Posted /\ \A m : TaskOf(m)' = TaskOf(m)
    BY <1>1, PostedKept DEF TaskOf
  <2>2. faults' = 0 => faults = 0
    BY <1>0, <1>1
  <2>3. QED BY <1>1, <2>1, <2>2 DEF SourceInv
<1>2. ASSUME NEW t \in Tasks, InsertTask(t) PROVE SourceInv'
  <2>1. UNCHANGED <<Posted, faults>> /\ \A m : TaskOf(m)' = TaskOf(m)
    BY <1>2, PostedKept DEF InsertTask, group, TaskOf
  <2>2. \A u \in Tasks : /\ producer'[u] = IF u = t THEN "pushing" ELSE producer[u]
                         /\ row'[u] = IF u = t THEN "present" ELSE row[u]
    BY <1>0, <1>2 DEF InsertTask
  <2>3. \A m \in Posted : TaskOf(m) # t
    BY <1>2 DEF InsertTask, SourceInv
  <2>4. QED BY <2>1, <2>2, <2>3 DEF SourceInv
<1>3. ASSUME NEW t \in Tasks, Push(t) PROVE SourceInv'
  <2>1. PICK n : /\ n \notin Posted /\ Posted' = Posted \cup {n} /\ TaskOf(n)' = t
                 /\ \A m \in Posted : TaskOf(m)' = TaskOf(m)
    BY <1>3, Appended DEF Push
  <2>2. producer[t] = "pushing" /\ UNCHANGED <<row, faults>>
    BY <1>3 DEF Push, db
  <2>3. \A u \in Tasks : producer'[u] = IF u = t THEN "ended" ELSE producer[u]
    BY <1>0, <1>3 DEF Push
  <2>4. /\ \A m \in Posted' : TaskOf(m)' \in Tasks /\ producer'[TaskOf(m)'] # "idle"
        /\ \A u \in Tasks : producer'[u] = "idle" <=> row'[u] = "absent"
    BY <2>1, <2>2, <2>3 DEF SourceInv
  <2>5. ASSUME faults = 0 PROVE /\ \A m \in Posted' : producer'[TaskOf(m)'] = "ended"
                                /\ \A k, m \in Posted' : TaskOf(k)' = TaskOf(m)' => k = m
                                /\ \A u \in Tasks : producer'[u] = "ended" => \E m \in Posted' : TaskOf(m)' = u
    <3>1. \A m \in Posted : TaskOf(m) # t
      BY <2>2, <2>5 DEF SourceInv
    <3>2. \A m \in Posted' : producer'[TaskOf(m)'] = "ended"
      BY <2>1, <2>3, <2>5 DEF SourceInv
    <3>3. \A k, m \in Posted' : TaskOf(k)' = TaskOf(m)' => k = m
      BY <2>1, <2>5, <3>1 DEF SourceInv
    <3>4. \A u \in Tasks : producer'[u] = "ended" => \E m \in Posted' : TaskOf(m)' = u
      BY <2>1, <2>3, <2>5 DEF SourceInv
    <3>5. QED BY <3>2, <3>3, <3>4
  <2>6. QED BY <2>2, <2>4, <2>5 DEF SourceInv
<1>4. ASSUME NEW t \in Tasks, PushFails(t) PROVE SourceInv'
  <2>1. producer[t] = "pushing" /\ UNCHANGED row /\ faults' # 0
    BY <1>0, <1>4 DEF PushFails, db, Fault
  <2>2. \A u \in Tasks : producer'[u] = "idle" <=> producer[u] = "idle"
    BY <1>0, <1>4, <2>1 DEF PushFails
  <2>3. \A m \in Posted' : TaskOf(m)' = t \/ (m \in Posted /\ TaskOf(m)' = TaskOf(m))
    <3>1. CASE Append1(t)
      <4>1. PICK n : /\ Posted' = Posted \cup {n} /\ TaskOf(n)' = t
                     /\ \A m \in Posted : TaskOf(m)' = TaskOf(m)
        BY <3>1, Appended
      <4>2. QED BY <4>1
    <3>2. CASE UNCHANGED stream
      BY <3>2, PostedKept DEF TaskOf
    <3>3. QED BY <1>4, <3>1, <3>2 DEF PushFails
  <2>4. QED BY <2>1, <2>2, <2>3 DEF SourceInv
<1>5. ASSUME NEW t \in Tasks, DropTask(t) PROVE SourceInv'
  <2>1. UNCHANGED <<Posted, faults, producer>> /\ \A m : TaskOf(m)' = TaskOf(m)
    BY <1>5, PostedKept DEF DropTask, group, push, TaskOf
  <2>2. \A u \in Tasks : row'[u] = "absent" <=> row[u] = "absent"
    BY <1>0, <1>5 DEF DropTask
  <2>3. QED BY <2>1, <2>2 DEF SourceInv
<1>6. CASE /\ UNCHANGED <<stream, producer, row>>
           /\ Fault \/ UNCHANGED faults
  BY <1>0, <1>1, <1>6 DEF Fault
<1>7. ASSUME NEW t \in Tasks, CancelTask(t) \/ CancelExpires(t) PROVE SourceInv'
  BY <1>6, <1>7 DEF CancelTask, CancelExpires, group, push, db
<1>8. ASSUME NEW e \in Executors, Collect(e) PROVE SourceInv'
  BY <1>6, <1>8 DEF Collect, FetchUnacked, FetchNew, FirstEmpty, FetchNothing, GetTaskSelect, GetTaskUpdate,
     LoadUncounted, Reject, Begin, Ack, group, push, db
<1>9. ASSUME NEW e \in Executors, Complete(e) \/ Wake(e) \/ Restart(e) \/ Failure(e) PROVE SourceInv'
  BY <1>6, <1>9 DEF Complete, Record, AckFinished, HandlerEnds, Ack, Wake, Restart, Failure, UnackedFails,
     FetchLost, LoadFails, RecordFails, EndsUnacked, Crash, group, push, db
<1>10. CASE UNCHANGED vars
  BY <1>6, <1>10 DEF vars, group, push, db
<1>11. QED
  BY <1>2, <1>3, <1>4, <1>5, <1>7, <1>8, <1>9, <1>10 DEF Next, Server

\* Initially nothing is posted.
LEMMA SourceInit == Init => SourceInv /\ Posted = {}
<1> SUFFICES ASSUME Init PROVE SourceInv /\ Posted = {}
  OBVIOUS
<1>1. \A q \in Queues : Len(stream[q]) = 0
  BY DEF Init
<1>2. Posted = {}
  BY <1>1 DEF Posted
<1>3. QED
  BY <1>2 DEF Init, SourceInv

\* What SourceInv says of rows, producers and copies holds in every reachable
\* state.
LEMMA SourceAlways == Spec => [](IInv /\ SourceInv)
<1>1. QED BY SourceInit, SourceStep, Inductive, PTL DEF Spec

-----------------------------------------------------------------------------
\* The outcome of message m has been written, or the message is settled.
Past(m) == m \in acked \/ \E e \in Executors : m \in recorded[e]

\* The task of message m is one SettledIsFinal speaks of.
Owed(m) ==
  /\ row[TaskOf(m)] = "present"
  /\ cancelled[TaskOf(m)] = "unset"
  /\ Kind[TaskOf(m)] # "debug"

\* Once a handler has written the outcome of an owed task, or its message is
\* acknowledged, the progress of the task is final.
FinalInv ==
  faults = 0 => \A m \in Posted : Past(m) /\ Owed(m) => progress[TaskOf(m)] \in {"done", "failed"}

\* Progress stays final: the only statement that takes it back is the UPDATE
\* of get_task, run for a message that is neither recorded nor acknowledged
\* and is the only one of its task.
LEMMA FinalStep ==
  ASSUME IInv, SourceInv, FinalInv, [Next]_vars
  PROVE  FinalInv'
<1> DEFINE Goal == \A m \in Posted : Past(m)' /\ Owed(m)' => progress'[TaskOf(m)] \in {"done", "failed"}
           Rows == <<stream, row, cancelled, progress>>
<1>0. /\ pel \in [Executors -> SUBSET MsgIds] /\ acked \in SUBSET MsgIds
      /\ recorded \in [Executors -> SUBSET MsgIds]
      /\ pc \in [Executors -> {"down", "loop", "second", "fetched", "selected"}]
      /\ row \in [Tasks -> {"absent", "present", "dropped"}]
      /\ progress \in [Tasks -> {"queued", "received", "done", "failed"}]
      /\ cancelled \in [Tasks -> {"unset", "set", "expired"}]
      /\ faults \in Nat
  BY StreamAssumption DEF IInv, TypeOK
<1>1. \A e \in Executors : recorded[e] \subseteq running[e] /\ running[e] \subseteq pel[e] /\ pel[e] \subseteq Posted
  BY HeldPosted DEF IInv, HandInv
<1>2. \A m \in Posted : TaskOf(m) \in Tasks
  BY HeldPosted
<1>3. CASE Fault
  BY <1>0, <1>3 DEF Fault, FinalInv
<1>4. ASSUME UNCHANGED stream, faults' = faults, faults = 0 => Goal PROVE FinalInv'
  BY <1>4, PostedKept DEF FinalInv, TaskOf
<1>5. ASSUME UNCHANGED Rows, faults' = faults, \A m \in Posted : Past(m)' => Past(m) PROVE FinalInv'
  <2>1. \A m \in Posted : Owed(m)' => Owed(m)
    BY <1>5 DEF Owed, TaskOf
  <2>2. QED BY <1>4, <1>5, <2>1 DEF FinalInv
<1>6. ASSUME UNCHANGED <<acked, recorded>> PROVE \A m : Past(m)' => Past(m)
  BY <1>6 DEF Past
<1>7. ASSUME NEW t \in Tasks, Push(t) PROVE FinalInv'
  <2>1. PICK n : /\ n \notin Posted /\ Posted' = Posted \cup {n} /\ TaskOf(n)' = t
                 /\ \A m \in Posted : TaskOf(m)' = TaskOf(m)
    BY <1>7, Appended DEF Push
  <2>2. UNCHANGED <<acked, recorded, row, cancelled, progress, faults>>
    BY <1>7 DEF Push, db, proc
  <2>3. ~Past(n)'
    BY <1>1, <2>1, <2>2, HeldPosted DEF Past
  <2>4. \A m \in Posted : Past(m)' /\ Owed(m)' => Past(m) /\ Owed(m)
    BY <2>1, <2>2 DEF Past, Owed
  <2>5. ASSUME faults = 0, NEW m \in Posted', Past(m)', Owed(m)' PROVE progress'[TaskOf(m)'] \in {"done", "failed"}
    <3>1. m \in Posted
      BY <2>1, <2>3, <2>5
    <3>2. QED BY <2>1, <2>2, <2>4, <2>5, <3>1 DEF FinalInv
  <2>6. QED BY <2>2, <2>5 DEF FinalInv
<1>8. ASSUME NEW t \in Tasks, InsertTask(t) \/ DropTask(t) \/ CancelTask(t) \/ CancelExpires(t) PROVE FinalInv'
  <2>1. UNCHANGED <<stream, acked, recorded, progress, faults>>
    BY <1>8 DEF InsertTask, DropTask, CancelTask, CancelExpires, group, proc, db
  <2>2. \A m \in Posted : Owed(m)' => Owed(m)
    <3>1. ASSUME NEW m \in Posted, Owed(m)', InsertTask(t) PROVE Owed(m)
      <4>1. TaskOf(m) # t
        BY <3>1 DEF InsertTask, SourceInv
      <4>2. row'[TaskOf(m)] = row[TaskOf(m)] /\ UNCHANGED cancelled
        BY <1>0, <1>2, <3>1, <4>1 DEF InsertTask
      <4>3. QED BY <2>1, <3>1, <4>2 DEF Owed, TaskOf
    <3>2. ASSUME NEW m \in Posted, Owed(m)', DropTask(t) PROVE Owed(m)
      BY <1>0, <1>2, <2>1, <3>2 DEF DropTask, Owed, TaskOf
    <3>3. ASSUME NEW m \in Posted, Owed(m)', CancelTask(t) \/ CancelExpires(t) PROVE Owed(m)
      BY <1>0, <1>2, <2>1, <3>3 DEF CancelTask, CancelExpires, db, Owed, TaskOf
    <3>4. QED BY <1>8, <3>1, <3>2, <3>3
  <2>3. QED BY <1>4, <1>6, <2>1, <2>2 DEF FinalInv
<1>9. ASSUME NEW e \in Executors, pc[e] \in {"fetched", "selected"}
      PROVE  current[e] \in Posted /\ ~Past(current[e])
  <2>1. current[e] \in pel[e] /\ current[e] \notin running[e]
    BY <1>9 DEF IInv, HandInv
  <2>2. current[e] \notin acked
    BY <2>1 DEF IInv, GroupInv
  <2>3. ASSUME NEW f \in Executors PROVE current[e] \notin recorded[f]
    <3>1. CASE f = e
      BY <1>1, <2>1, <3>1
    <3>2. CASE f # e
      BY <1>1, <2>1, <3>2 DEF IInv, GroupInv
    <3>3. QED BY <3>1, <3>2
  <2>4. QED BY <1>1, <2>1, <2>2, <2>3 DEF Past
<1>10. ASSUME NEW e \in Executors, pc[e] \in {"fetched", "selected"}, Reject(e), UNCHANGED <<recorded, stream, row, cancelled>>,
              faults = 0 => ~Owed(current[e]) \/ progress'[TaskOf(current[e])] \in {"done", "failed"},
              \A t \in Tasks : t # TaskOf(current[e]) => progress'[t] = progress[t]
       PROVE FinalInv'
  <2>1. CASE UNCHANGED faults /\ acked' = acked \cup {current[e]}
    <3>1. \A m \in Posted : Owed(m)' => Owed(m)
      BY <1>10 DEF Owed, TaskOf
    <3>2. \A m \in Posted : Past(m)' => Past(m) \/ m = current[e]
      BY <1>10, <2>1 DEF Past
    <3>3. ASSUME faults = 0, NEW m \in Posted, Past(m)', Owed(m)' PROVE progress'[TaskOf(m)] \in {"done", "failed"}
      <4>1. CASE m = current[e]
        BY <1>10, <3>1, <3>3, <4>1
      <4>2. CASE m # current[e]
        <5>1. TaskOf(m) # TaskOf(current[e])
          BY <1>9, <1>10, <3>3, <4>2 DEF SourceInv
        <5>2. QED BY <1>2, <1>10, <3>1, <3>2, <3>3, <4>2, <5>1 DEF FinalInv
      <4>3. QED BY <4>1, <4>2
    <3>4. QED BY <1>4, <1>10, <2>1, <3>3
  <2>2. QED BY <1>3, <1>10, <2>1 DEF Reject, Ack
<1>11. ASSUME NEW e \in Executors, pc[e] \in {"fetched", "selected"}, Begin(e), UNCHANGED <<recorded, stream, row, cancelled>>,
              \A t \in Tasks : t # TaskOf(current[e]) => progress'[t] = progress[t]
       PROVE FinalInv'
  <2>1. UNCHANGED <<acked, faults>>
    BY <1>11 DEF Begin
  <2>2. \A m \in Posted : (Owed(m)' => Owed(m)) /\ (Past(m)' => Past(m))
    BY <1>11, <2>1 DEF Owed, TaskOf, Past
  <2>3. ASSUME faults = 0, NEW m \in Posted, Past(m)', Owed(m)' PROVE progress'[TaskOf(m)] \in {"done", "failed"}
    <3>1. m # current[e]
      BY <1>9, <1>11, <2>2, <2>3
    <3>2. TaskOf(m) # TaskOf(current[e])
      BY <1>9, <1>11, <2>3, <3>1 DEF SourceInv
    <3>3. QED BY <1>2, <1>11, <2>2, <2>3, <3>2 DEF FinalInv
  <2>4. QED BY <1>4, <1>11, <2>1, <2>3
<1>12. ASSUME NEW e \in Executors, GetTaskSelect(e) PROVE FinalInv'
  <2>1. UNCHANGED <<recorded, stream, row, cancelled, progress>> /\ pc[e] = "fetched"
    BY <1>12 DEF GetTaskSelect, db
  <2>2. CASE row[TaskOf(current[e])] # "present" /\ Reject(e)
    BY <1>10, <2>1, <2>2 DEF Owed
  <2>3. CASE UNCHANGED <<acked, faults>>
    BY <1>5, <1>6, <2>1, <2>3
  <2>4. QED BY <1>12, <2>2, <2>3 DEF GetTaskSelect
<1>13. ASSUME NEW e \in Executors, GetTaskUpdate(e) PROVE FinalInv'
  <2> DEFINE t == TaskOf(current[e])
  <2>1. UNCHANGED <<recorded, stream, row, cancelled>> /\ pc[e] = "selected"
    BY <1>13 DEF GetTaskUpdate
  <2>2. t \in Tasks
    BY <1>2, <1>9, <2>1
  <2>3. \A u \in Tasks : u # t => progress'[u] = progress[u]
    BY <1>0, <1>13 DEF GetTaskUpdate
  <2>4. row[t] = "present" /\ Abandoned(e) => progress'[t] = "failed"
    BY <1>0, <1>13, <2>2 DEF GetTaskUpdate
  <2>5. CASE Begin(e)
    BY <1>11, <2>1, <2>3, <2>5
  <2>6. CASE Reject(e) /\ (Abandoned(e) \/ has_canceled(t))
    <3>1. ~Owed(current[e]) \/ progress'[t] \in {"done", "failed"}
      BY <2>4, <2>6 DEF has_canceled, Owed
    <3>2. QED BY <1>10, <2>1, <2>3, <2>6, <3>1
  <2>7. QED BY <1>13, <2>5, <2>6 DEF GetTaskUpdate
<1>14. ASSUME NEW e \in Executors, LoadUncounted(e) PROVE FinalInv'
  <2>1. UNCHANGED <<recorded, stream, row, cancelled, progress>> /\ pc[e] = "fetched"
    BY <1>14 DEF LoadUncounted, db
  <2>2. CASE Begin(e)
    BY <1>11, <2>1, <2>2
  <2>3. CASE Reject(e) /\ has_canceled(TaskOf(current[e]))
    BY <1>10, <2>1, <2>3 DEF has_canceled, Owed
  <2>4. QED BY <1>14, <2>2, <2>3 DEF LoadUncounted
<1>15. ASSUME NEW e \in Executors, NEW k \in running[e], NEW out \in {"done", "failed"}, Record(e, k, out) PROVE FinalInv'
  <2> DEFINE t == TaskOf(k)
  <2>1. UNCHANGED <<stream, acked, row, cancelled, faults>> /\ k \in Posted /\ t \in Tasks
    BY <1>1, <1>2, <1>15 DEF Record, group
  <2>2. \A u \in Tasks : progress'[u] = IF u = t THEN Outcome(t, out) ELSE progress[u]
    BY <1>0, <1>15 DEF Record
  <2>3. \A m \in Posted : (Owed(m)' => Owed(m)) /\ (Past(m)' => Past(m) \/ m = k)
    <3>1. \A f \in Executors : recorded'[f] \subseteq recorded[f] \cup {k}
      BY <1>0, <1>15 DEF Record
    <3>2. QED BY <2>1, <3>1 DEF Owed, TaskOf, Past
  <2>4. ASSUME NEW m \in Posted, TaskOf(m) = t, Owed(m)' PROVE Outcome(t, out) \in {"done", "failed"}
    BY <2>3, <2>4 DEF Owed, Outcome
  <2>5. ASSUME faults = 0, NEW m \in Posted, Past(m)', Owed(m)' PROVE progress'[TaskOf(m)] \in {"done", "failed"}
    <3>1. CASE TaskOf(m) = t
      BY <1>2, <2>2, <2>4, <2>5, <3>1
    <3>2. CASE TaskOf(m) # t
      BY <1>2, <2>2, <2>3, <2>5, <3>2 DEF FinalInv
    <3>3. QED BY <3>1, <3>2
  <2>6. QED BY <1>4, <2>1, <2>5
<1>16. ASSUME NEW e \in Executors, NEW k \in running[e], AckFinished(e, k) PROVE FinalInv'
  <2>1. CASE UNCHANGED faults /\ acked' = acked \cup {k}
    <3>1. UNCHANGED Rows /\ k \in recorded[e] /\ \A f \in Executors : recorded'[f] \subseteq recorded[f]
      BY <1>0, <1>16 DEF AckFinished, HandlerEnds, db
    <3>2. \A m : Past(m)' => Past(m)
      BY <2>1, <3>1 DEF Past
    <3>3. QED BY <1>5, <2>1, <3>1, <3>2
  <2>2. QED BY <1>3, <1>16, <2>1 DEF AckFinished, Ack
<1>17. ASSUME NEW e \in Executors, Crash(e) PROVE FinalInv'
  <2>1. UNCHANGED Rows /\ UNCHANGED <<acked, faults>> /\ \A f \in Executors : recorded'[f] \subseteq recorded[f]
    BY <1>0, <1>17 DEF Crash, group, db
  <2>2. \A m : Past(m)' => Past(m)
    BY <2>1 DEF Past
  <2>3. QED BY <1>5, <2>1, <2>2
<1>18. ASSUME NEW e \in Executors,
              FetchUnacked(e) \/ FetchNew(e) \/ FirstEmpty(e) \/ FetchNothing(e) \/ Wake(e) \/ Restart(e)
       PROVE FinalInv'
  <2>1. UNCHANGED Rows /\ UNCHANGED <<acked, recorded, faults>>
    BY <1>18 DEF FetchUnacked, FetchNew, FirstEmpty, FetchNothing, Wake, Restart, group, db
  <2>2. QED BY <1>5, <1>6, <2>1
<1>19. CASE UNCHANGED vars
  BY <1>5, <1>6, <1>19 DEF vars, group, proc, db
<1>20. CASE Server
  BY <1>3, <1>7, <1>8, <1>20 DEF Server, PushFails
<1>21. ASSUME NEW e \in Executors, Collect(e) PROVE FinalInv'
  BY <1>12, <1>13, <1>14, <1>18, <1>21 DEF Collect
<1>22. ASSUME NEW e \in Executors, Complete(e) PROVE FinalInv'
  BY <1>15, <1>16, <1>22 DEF Complete
<1>23. ASSUME NEW e \in Executors, Failure(e) PROVE FinalInv'
  BY <1>3, <1>17, <1>23 DEF Failure, UnackedFails, FetchLost, LoadFails, RecordFails, EndsUnacked
<1>24. QED
  BY <1>18, <1>19, <1>20, <1>21, <1>22, <1>23 DEF Next

\* While no call has failed, a task whose messages are all acknowledged is
\* done or failed unless its row was deleted or it was cancelled, however
\* executors interleave, die and replay (SettledIsFinal).
THEOREM SettledAlwaysFinal == Spec => []SettledIsFinal
<1>1. Init => FinalInv
  BY SourceInit DEF FinalInv
<1>2. ASSUME SourceInv, FinalInv PROVE SettledIsFinal
  BY <1>2 DEF SourceInv, FinalInv, SettledIsFinal, Copies, Past, Owed
<1>3. QED
  BY <1>1, <1>2, FinalStep, SourceAlways, PTL DEF Spec

-----------------------------------------------------------------------------
\* Task t was queued at most once.
Single(t) == \A m, n \in Posted : TaskOf(m) = t /\ TaskOf(n) = t => m = n

\* The row counts the handlers of a document task: get_task has counted every
\* start but the one an executor is about to make, and that executor selected
\* a count that covers the earlier ones.
Counted(t) ==
  /\ starts[t] <= MaxAttempts
  /\ row[t] = "present" => starts[t] <= retry[t]
  /\ row[t] = "absent" => starts[t] = 0
  /\ \A e \in Executors : pc[e] = "selected" /\ TaskOf(current[e]) = t => starts[t] <= seen[e]

TryInv == \A t \in Tasks : Kind[t] = "document" /\ Single(t) => Counted(t)

\* No step lets an attempt go uncounted.
LEMMA TryStep ==
  ASSUME IInv, SourceInv, TryInv, [Next]_vars
  PROVE  TryInv'
<1> USE DEF MaxAttempts
<1>0. /\ pc \in [Executors -> {"down", "loop", "second", "fetched", "selected"}]
      /\ row \in [Tasks -> {"absent", "present", "dropped"}]
      /\ retry \in [Tasks -> Nat] /\ starts \in [Tasks -> Nat] /\ seen \in [Executors -> Nat]
      /\ current \in [Executors -> MsgIds \cup {NoMsg}]
  BY DEF IInv, TypeOK
<1>1. \A m \in Posted : TaskOf(m) \in Tasks
  BY HeldPosted
<1>2. \A e \in Executors : pc[e] \in {"fetched", "selected"} => current[e] \in Posted
  BY HeldPosted DEF IInv, HandInv
<1>3. ASSUME UNCHANGED stream PROVE \A t \in Tasks : Single(t)' => Single(t)
  BY <1>3, PostedKept DEF Single, TaskOf
<1>4. ASSUME UNCHANGED stream, NEW t \in Tasks, Counted(t),
             starts'[t] = starts[t], row'[t] = row[t], row[t] = "present" => starts[t] <= retry'[t],
             \A e \in Executors : pc'[e] = "selected" =>
                pc[e] = "selected" /\ current'[e] = current[e] /\ seen'[e] = seen[e]
      PROVE Counted(t)'
  BY <1>4 DEF Counted, TaskOf
<1>5. ASSUME UNCHANGED <<stream, starts, row, retry>>,
             \A e \in Executors : pc'[e] = "selected" =>
                pc[e] = "selected" /\ current'[e] = current[e] /\ seen'[e] = seen[e]
      PROVE TryInv'
  <2>1. ASSUME NEW t \in Tasks, Kind[t] = "document", Single(t)' PROVE Counted(t)'
    <3>1. Counted(t)
      BY <1>3, <1>5, <2>1 DEF TryInv
    <3>2. row[t] = "present" => starts[t] <= retry'[t]
      BY <1>5, <3>1 DEF Counted
    <3>3. QED BY <1>4, <1>5, <3>1, <3>2
  <2>2. QED BY <2>1 DEF TryInv
<1>6. ASSUME NEW t \in Tasks, Append1(t), UNCHANGED <<proc, db, starts>> PROVE TryInv'
  <2>1. PICK n : /\ n \notin Posted /\ Posted' = Posted \cup {n} /\ TaskOf(n)' = t
                 /\ \A m \in Posted : TaskOf(m)' = TaskOf(m)
    BY <1>6, Appended
  <2>2. UNCHANGED <<pc, current, seen, row, retry, starts>>
    BY <1>6 DEF proc, db
  <2>3. ASSUME NEW u \in Tasks, Kind[u] = "document", Single(u)' PROVE Counted(u)'
    <3>1. Single(u)
      BY <2>1, <2>3 DEF Single
    <3>2. Counted(u)
      BY <2>3, <3>1 DEF TryInv
    <3>3. ASSUME NEW e \in Executors, pc[e] = "selected" PROVE TaskOf(current[e])' = TaskOf(current[e])
      <4>1. stream'[current[e][1]][current[e][2]] = stream[current[e][1]][current[e][2]]
        BY <1>2, <2>1, <3>3 DEF TaskOf
      <4>2. QED BY <2>2, <4>1 DEF TaskOf
    <3>4. QED BY <2>2, <3>2, <3>3 DEF Counted
  <2>4. QED BY <2>3 DEF TryInv
<1>7. ASSUME NEW t \in Tasks, InsertTask(t) \/ DropTask(t) PROVE TryInv'
  <2>1. UNCHANGED <<stream, pc, current, seen, retry, starts>>
    BY <1>7 DEF InsertTask, DropTask, group, proc
  <2>2. ASSUME NEW u \in Tasks, Kind[u] = "document", Single(u)' PROVE Counted(u)'
    <3>1. Counted(u)
      BY <1>3, <2>1, <2>2 DEF TryInv
    <3>2. CASE u # t
      <4>1. row'[u] = row[u]
        BY <1>0, <1>7, <3>2 DEF InsertTask, DropTask
      <4>2. QED BY <2>1, <3>1, <4>1 DEF Counted, TaskOf
    <3>3. CASE u = t /\ InsertTask(t)
      <4>1. row[t] = "absent" /\ row'[t] = "present"
        BY <1>0, <3>3 DEF InsertTask, SourceInv
      <4>2. QED BY <1>0, <2>1, <3>1, <3>3, <4>1 DEF Counted, TaskOf
    <3>4. CASE u = t /\ DropTask(t)
      <4>1. row'[t] = "dropped"
        BY <1>0, <3>4 DEF DropTask
      <4>2. QED BY <2>1, <3>1, <3>4, <4>1 DEF Counted, TaskOf
    <3>5. QED BY <1>7, <3>2, <3>3, <3>4
  <2>3. QED BY <2>2 DEF TryInv
<1>8. ASSUME NEW e \in Executors, GetTaskSelect(e) PROVE TryInv'
  <2>1. UNCHANGED <<stream, row, retry>> /\ pc[e] = "fetched"
    BY <1>8 DEF GetTaskSelect, db
  <2>2. CASE Reject(e) /\ BackToLoop(e) /\ UNCHANGED seen
    <3>1. UNCHANGED starts /\ \A f \in Executors : pc'[f] = "selected" => pc[f] = "selected" /\ current'[f] = current[f]
      BY <1>0, <2>2 DEF Reject, BackToLoop
    <3>2. QED BY <1>5, <2>1, <2>2, <3>1
  <2>3. CASE /\ row[TaskOf(current[e])] = "present"
             /\ seen' = [seen EXCEPT ![e] = retry[TaskOf(current[e])]]
             /\ pc' = [pc EXCEPT ![e] = "selected"]
             /\ UNCHANGED <<current, starts>>
    <3>1. ASSUME NEW u \in Tasks, Kind[u] = "document", Single(u)' PROVE Counted(u)'
      <4>1. Counted(u)
        BY <1>3, <2>1, <3>1 DEF TryInv
      <4>2. ASSUME NEW f \in Executors, pc'[f] = "selected", TaskOf(current[f]) = u PROVE starts[u] <= seen'[f]
        <5>1. CASE f = e
          BY <1>0, <2>3, <4>1, <4>2, <5>1 DEF Counted
        <5>2. CASE f # e
          BY <1>0, <2>3, <4>1, <4>2, <5>2 DEF Counted
        <5>3. QED BY <5>1, <5>2
      <4>3. QED BY <2>1, <2>3, <4>1, <4>2 DEF Counted, TaskOf
    <3>2. QED BY <3>1 DEF TryInv
  <2>4. QED BY <1>8, <2>2, <2>3 DEF GetTaskSelect
<1>9. ASSUME NEW e \in Executors, GetTaskUpdate(e) PROVE TryInv'
  <2> DEFINE t == TaskOf(current[e])
  <2>1. UNCHANGED <<stream, row, seen>> /\ pc[e] = "selected" /\ current[e] \in Posted
    BY <1>2, <1>9 DEF GetTaskUpdate
  <2>2. t \in Tasks /\ row[t] # "absent"
    BY <1>1, <2>1 DEF SourceInv
  <2>3. /\ \A u \in Tasks : u # t => retry'[u] = retry[u] /\ starts'[u] = starts[u]
        /\ row[t] = "present" => retry'[t] = seen[e] + 1
        /\ starts'[t] = IF Abandoned(e) \/ has_canceled(t) THEN starts[t] ELSE starts[t] + 1
    BY <1>0, <1>9, <2>2 DEF GetTaskUpdate, Reject, Begin
  <2>4. \A f \in Executors : pc'[f] = "selected" => f # e /\ pc[f] = "selected" /\ current'[f] = current[f]
    BY <1>0, <1>9 DEF GetTaskUpdate, BackToLoop
  <2>5. ASSUME NEW u \in Tasks, Kind[u] = "document", Single(u)' PROVE Counted(u)'
    <3>1. Counted(u) /\ Single(u)
      BY <1>3, <2>1, <2>5 DEF TryInv
    <3>2. CASE u # t
      <4>1. row[u] = "present" => starts[u] <= retry'[u]
        BY <2>3, <3>1, <3>2 DEF Counted
      <4>2. QED BY <1>4, <2>1, <2>3, <2>4, <3>1, <3>2, <4>1
    <3>3. CASE u = t
      <4>1. starts[t] <= seen[e] /\ seen[e] \in Nat /\ starts[t] \in Nat
        BY <1>0, <2>1, <2>2, <3>1, <3>3 DEF Counted
      <4>2. starts'[t] <= MaxAttempts /\ (row[t] = "present" => starts'[t] <= retry'[t])
        BY <2>3, <3>1, <3>3, <4>1 DEF Counted, Abandoned
      <4>3. ASSUME NEW f \in Executors, f # e, pc[f] = "selected" PROVE TaskOf(current[f]) # t
        <5>1. current[f] \in pel[f] /\ current[e] \in pel[e] /\ current[f] \in Posted
          BY <1>2, <2>1, <4>3 DEF IInv, HandInv
        <5>2. current[f] # current[e]
          BY <4>3, <5>1 DEF IInv, GroupInv
        <5>3. QED BY <2>1, <3>1, <3>3, <5>1, <5>2 DEF Single
      <4>4. QED BY <2>1, <2>2, <2>4, <3>3, <4>2, <4>3 DEF Counted, TaskOf
    <3>4. QED BY <3>2, <3>3
  <2>6. QED BY <2>5 DEF TryInv
<1>10. ASSUME NEW e \in Executors, LoadUncounted(e) PROVE TryInv'
  <2>1. UNCHANGED <<stream, row, retry, seen>> /\ Kind[TaskOf(current[e])] # "document"
    BY <1>10 DEF LoadUncounted, db
  <2>2. \A u \in Tasks : Kind[u] = "document" => starts'[u] = starts[u]
    BY <1>0, <1>10, <2>1 DEF LoadUncounted, Reject, Begin
  <2>3. \A f \in Executors : pc'[f] = "selected" => pc[f] = "selected" /\ current'[f] = current[f]
    BY <1>0, <1>10 DEF LoadUncounted, BackToLoop
  <2>4. ASSUME NEW u \in Tasks, Kind[u] = "document", Single(u)' PROVE Counted(u)'
    <3>1. Counted(u)
      BY <1>3, <2>1, <2>4 DEF TryInv
    <3>2. QED BY <2>1, <2>2, <2>3, <2>4, <3>1 DEF Counted, TaskOf
  <2>5. QED BY <2>4 DEF TryInv
<1>11. ASSUME NEW e \in Executors,
              \/ FetchUnacked(e) \/ FetchNew(e) \/ FirstEmpty(e) \/ FetchNothing(e) \/ UnackedFails(e) \/ FetchLost(e)
              \/ LoadFails(e) \/ Wake(e) \/ Restart(e) \/ Crash(e)
       PROVE TryInv'
  <2>1. UNCHANGED <<stream, starts, row, retry, seen>>
    BY <1>11 DEF FetchUnacked, FetchNew, FirstEmpty, FetchNothing, UnackedFails, FetchLost, LoadFails, Wake, Restart, Crash, group, db
  <2>2. \A f \in Executors : pc'[f] = "selected" => pc[f] = "selected" /\ current'[f] = current[f]
    BY <1>0, <1>11 DEF FetchUnacked, FetchNew, FirstEmpty, FetchNothing, UnackedFails, FetchLost, LoadFails, BackToLoop, Wake, Restart, Crash
  <2>3. QED BY <1>5, <2>1, <2>2
<1>12. ASSUME NEW e \in Executors, NEW m \in running[e],
              \/ RecordFails(e, m) \/ AckFinished(e, m) \/ EndsUnacked(e, m)
              \/ \E out \in {"done", "failed"} : Record(e, m, out)
       PROVE TryInv'
  BY <1>5, <1>12 DEF RecordFails, AckFinished, EndsUnacked, HandlerEnds, Record, group, db
<1>13. CASE \/ UNCHANGED vars
            \/ \E t \in Tasks : CancelTask(t) \/ CancelExpires(t)
  BY <1>5, <1>13 DEF vars, CancelTask, CancelExpires, group, proc, db
<1>14. ASSUME NEW t \in Tasks, Push(t) \/ PushFails(t) PROVE TryInv'
  BY <1>5, <1>6, <1>14 DEF Push, PushFails, proc, db
<1>15. CASE Server
  BY <1>7, <1>13, <1>14, <1>15 DEF Server
<1>16. ASSUME NEW e \in Executors, Collect(e) \/ Wake(e) \/ Restart(e) PROVE TryInv'
  BY <1>8, <1>9, <1>10, <1>11, <1>16 DEF Collect
<1>17. ASSUME NEW e \in Executors, Complete(e) \/ Failure(e) PROVE TryInv'
  BY <1>11, <1>12, <1>17 DEF Complete, Failure
<1>18. QED
  BY <1>13, <1>15, <1>16, <1>17 DEF Next

\* Finitely many messages are posted.
LEMMA PostedFinite ==
  ASSUME TypeOK
  PROVE  IsFiniteSet(Posted)
<1>1. Len(stream[1]) \in Nat /\ Len(stream[2]) \in Nat
  BY DEF TypeOK, Queues
<1>2. PICK N \in Nat : Len(stream[1]) <= N /\ Len(stream[2]) <= N
  <2>1. CASE Len(stream[1]) <= Len(stream[2])
    BY <1>1, <2>1
  <2>2. CASE Len(stream[2]) <= Len(stream[1])
    BY <1>1, <2>2
  <2>3. QED BY <1>1, <2>1, <2>2
<1>3. Posted \subseteq Queues \X (1..N)
  BY <1>1, <1>2 DEF Posted, Queues
<1>4. IsFiniteSet(Queues) /\ IsFiniteSet(1..N)
  <2>1. \A a, b \in Int : IsFiniteSet(a..b)
    BY FS_Interval, Zenon
  <2>2. 1 \in Int /\ 2 \in Int /\ N \in Int
    OBVIOUS
  <2>3. QED BY <2>1, <2>2, Zenon DEF Queues
<1>5. IsFiniteSet(Queues \X (1..N))
  BY <1>4, FS_Product
<1>6. QED BY <1>3, <1>5, FS_Subset

\* A document task queued once is handed to a handler at most three times,
\* for any number of executors, crashes and failed calls (AttemptsBounded).
THEOREM AttemptsAlwaysBounded == Spec => []AttemptsBounded
<1>1. Init => TryInv
  BY DEF Init, TryInv, Counted, MaxAttempts
<1>2. ASSUME IInv, TryInv PROVE AttemptsBounded
  <2> SUFFICES ASSUME NEW t \in Tasks, Kind[t] = "document", Cardinality(Copies(t)) <= 1
               PROVE  starts[t] <= MaxAttempts
    BY DEF AttemptsBounded
  <2>1. IsFiniteSet(Copies(t))
    BY <1>2, PostedFinite, FS_Subset DEF IInv, Copies
  <2>2. Single(t)
    <3> SUFFICES ASSUME NEW m \in Copies(t), NEW n \in Copies(t), m # n PROVE FALSE
      BY DEF Single, Copies
    <3>1. {m, n} \subseteq Copies(t) /\ IsFiniteSet({m, n}) /\ Cardinality({m, n}) = 2
      <4>1. IsFiniteSet({m}) /\ Cardinality({m}) = 1
        BY FS_Singleton, Zenon
      <4>2. /\ IsFiniteSet({m} \cup {n})
            /\ Cardinality({m} \cup {n}) = IF n \in {m} THEN Cardinality({m}) ELSE Cardinality({m}) + 1
        BY <4>1, FS_AddElement, Zenon
      <4>3. {m} \cup {n} = {m, n}
        OBVIOUS
      <4>4. QED BY <4>1, <4>2, <4>3
    <3>2. Cardinality({m, n}) <= Cardinality(Copies(t))
      BY <2>1, <3>1, FS_Subset
    <3>3. Cardinality(Copies(t)) \in Nat
      BY <2>1, FS_CardinalityType
    <3>4. QED BY <3>1, <3>2, <3>3
  <2>3. QED BY <1>2, <2>2 DEF TryInv, Counted
<1>3. QED
  BY <1>1, <1>2, TryStep, SourceAlways, PTL DEF Spec
=============================================================================
