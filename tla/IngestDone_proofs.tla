--------------------------- MODULE IngestDone_proofs ---------------------------
(***************************************************************************)
(* Proof that a document that is done is indexed exactly, for any number   *)
(* of parts and runs, as long as nothing is cancelled, nothing fails and   *)
(* no table of contents takes the place of recorded chunk ids.             *)
(***************************************************************************)
EXTENDS Ingest_proofs

\* Stages of requests a patient user only makes when no task is queued.
QuietStages == {"drop", "dropChunks", "read", "replace", "dropOld", "recount",
                "insert", "begin", "push", "remove"}

\* No task is queued while a request replaces the rows, as long as every request
\* was made with no task queued.
QuietInv == api.at \in QuietStages => queue = {}
PatientInv == ~hurried => QuietInv

\* Nothing was cancelled, nothing failed, no chunk_ids were overwritten with a
\* table of contents, and the document is there.
Calm ==
  /\ cancel = {} /\ expired = {} /\ crashes = 0 /\ errors = 0
  /\ ~extracted /\ ~hurried
  /\ status # "gone"

\* Where a handler stands before it records its chunk ids.
Early == {"none", "build", "embed", "try", "mother", "mothered", "insert", "stored"}

\* Tasks whose chunk is in the store, and tasks whose chunk is counted.
Held == ids \cup {t \in Tasks : h[t] = "stored"}
Counted == {t \in ids : h[t] \notin {"recorded", "count"}}

\* Chunks the run being prepared takes over, and chunks it drops.
TakenOver == {<<p, config[gen + 1]>> : p \in api.reuse}
Dropped == {ChunkOf(t) : t \in api.old \ api.tocs}

\* Stages at which the rows are those of a run, complete.
LiveStages == {"idle", "begin", "push", "cancelUpdate", "cancelDrop", "cancelDropChunks"}

\* All rows are of the current run, a queued task has one, and there is none
\* where a request has dropped them.
RunInv ==
  /\ \A t \in rows : t[1] = gen
  /\ queue \subseteq rows
  /\ api.at \notin {"removeCancel", "removeTasks", "removeChunks"}
  /\ api.at \in {"dropChunks", "cancelDropChunks", "dropOld", "recount", "insert", "remove"} =>
       rows = {}
  /\ tocd = {} /\ api.tocs = {}

\* A queued task has its chunk ids recorded from RecordIds on, and not before:
\* what is reused is not queued.
RecordInv ==
  \A t \in queue : /\ h[t] # "tocCount"
                   /\ h[t] \in {"recorded", "count", "unstored"} => t \in ids
                   /\ h[t] \in Early => t \notin ids

\* What the store holds and chunk_num counts, at every stage of a request.
IndexInv ==
  /\ api.at \in LiveStages => store = {ChunkOf(t) : t \in Held} /\ chunkNum = Cardinality(Counted)
  /\ api.at = "read" => store = {ChunkOf(t) : t \in ids}
  /\ api.at \in {"replace", "dropOld"} => store \ Dropped = TakenOver
  /\ api.at \in {"recount", "insert"} => store = TakenOver
  /\ api.at = "insert" => chunkNum = Cardinality(api.reuse)
  /\ api.at \in {"begin", "push"} => /\ ids = {<<gen, p>> : p \in api.reuse}
                                     /\ \A p \in api.parts : <<gen, p>> \in rows

\* Chunks split from a mother have it in the store, and so has a handler about
\* to insert some.
Mothers ==
  /\ \A c \in store : c[2] \in RichConfigs => <<"mother", c>> \in extra
  /\ \A t \in queue : h[t] \in {"mothered", "insert"} /\ Rich(t) => <<"mother", ChunkOf(t)>> \in extra

Exact == RunInv /\ RecordInv /\ IndexInv
CalmInv == Calm => Exact /\ Mothers

-----------------------------------------------------------------------------
(* Cardinalities.                                                          *)

\* A one-to-one image has as many elements.
LEMMA ImageCardinality ==
  ASSUME NEW S, IsFiniteSet(S), NEW T, NEW f \in [S -> T],
         \A x, y \in S : f[x] = f[y] => x = y,
         \A z \in T : \E x \in S : f[x] = z
  PROVE  Cardinality(T) = Cardinality(S)
  <1>1. f \in Bijection(S, T)
    BY DEF Bijection, Injection, Surjection, IsInjective
  <1>2. ExistsBijection(S, T)
    BY <1>1 DEF ExistsBijection
  <1> QED BY <1>2, FS_Bijection

\* Parts and runs are bounded, and so are tasks.
LEMMA TasksFinite == IsFiniteSet(Tasks)
  <1>1. IsFiniteSet(1..MaxRuns)
    BY IngestAssumption, FS_Interval
  <1> QED BY <1>1, IngestAssumption, FS_Product DEF Tasks

\* Tasks of one run have chunks of their own.
LEMMA ChunksOfRun ==
  ASSUME NEW S \in SUBSET Tasks, \A t \in S : t[1] = gen
  PROVE  /\ \A t, u \in S : ChunkOf(t) = ChunkOf(u) => t = u
         /\ Cardinality({ChunkOf(t) : t \in S}) = Cardinality(S)
  <1>1. ASSUME NEW t \in S, NEW u \in S, ChunkOf(t) = ChunkOf(u) PROVE t = u
    BY <1>1 DEF ChunkOf, Tasks
  <1> DEFINE T == {ChunkOf(t) : t \in S}
             f == [t \in S |-> ChunkOf(t)]
  <1>2. f \in [S -> T] /\ \A x, y \in S : f[x] = f[y] => x = y
    BY <1>1
  <1>3. \A z \in T : \E x \in S : f[x] = z
    OBVIOUS
  <1>4. IsFiniteSet(S)
    BY TasksFinite, FS_Subset
  <1> HIDE DEF f, T
  <1>5. Cardinality(T) = Cardinality(S)
    BY <1>2, <1>3, <1>4, ImageCardinality
  <1> QED BY <1>1, <1>5 DEF T

\* As many tasks of a run as parts.
LEMMA TasksOfParts ==
  ASSUME NEW S \in SUBSET Parts, NEW g
  PROVE  Cardinality({<<g, p>> : p \in S}) = Cardinality(S)
  <1> DEFINE T == {<<g, p>> : p \in S}
             f == [p \in S |-> <<g, p>>]
  <1>2. f \in [S -> T] /\ \A x, y \in S : f[x] = f[y] => x = y
    OBVIOUS
  <1>3. \A z \in T : \E x \in S : f[x] = z
    OBVIOUS
  <1>4. IsFiniteSet(S)
    BY IngestAssumption, FS_Subset
  <1> HIDE DEF f, T
  <1>5. Cardinality(T) = Cardinality(S)
    BY <1>2, <1>3, <1>4, ImageCardinality
  <1> QED BY <1>5 DEF T

\* With nothing queued nobody is at work: what is held and counted is what is
\* recorded.
LEMMA AtRest ==
  ASSUME TInv, QueuedInv, queue = {}
  PROVE  /\ \A t \in Tasks : h[t] = "none"
         /\ Held = ids
         /\ Counted = ids
  <1>1. \A t \in Tasks : h[t] = "none"
    BY DEF QueuedInv
  <1>2. ids \subseteq Tasks
    BY DEF TInv, TypeOK, rows
  <1> QED BY <1>1, <1>2 DEF Held, Counted
-----------------------------------------------------------------------------
(* Handlers.                                                               *)

\* Steps that move the handler of t between positions at which the same is held
\* and counted.
Elsewhere(t) ==
  /\ UNCHANGED <<chunkNum, ids, store>>
  /\ h[t] \notin {"stored", "count"}
  /\ h'[t] \notin {"stored", "unstored", "recorded", "tocCount"}
  /\ h[t] = "recorded" <=> h'[t] = "count"
  /\ h[t] \notin Early => h'[t] \notin Early \/ (h'[t] = "none" /\ t \notin queue')

\* Every stage of do_handle_task that ends calmly keeps rows, chunks and chunk_num
\* in step.
LEMMA DoneHandler ==
  ASSUME TInv, Rest, QuietInv, Calm, Exact, NEW t \in Tasks, Handler(t), Calm'
  PROVE  Exact'
  <1>1. HandlerEffect(t)
    BY HandlerSteps DEF Rest, QueuedInv
  <1>2. t \in queue
    <2>1. h[t] # "none" \/ t \in queue
      BY DEF Handler, Collect, Build, Embed, MaybeInsert, InsertMother, InsertToc, RecordToc,
         CountToc, InsertChunk, RecordIds, LookAgain, CountDocument, Finish, Clean, Ack, past,
         keys, index, DeleteChunks, update_chunk_ids
    <2> QED BY <2>1 DEF Rest, QueuedInv
  <1>3. /\ h \in [Tasks -> Positions]
        /\ ids \subseteq rows /\ rows \subseteq Tasks /\ queue \subseteq Tasks
        /\ api.at \in Stages
        /\ chunkNum \in Nat
        /\ prog \in [Tasks -> Progresses]
    BY DEF TInv, TypeOK, rows, Progresses
  <1>4. t \in rows
    BY <1>2 DEF Exact, RunInv
  <1>5. api.at = "idle"
    <2>1. api.at \notin QuietStages
      BY <1>2 DEF QuietInv
    <2>2. api.at \notin {"cancelUpdate", "cancelDrop"}
      BY <1>4 DEF Rest, FlaggedInv, Calm
    <2> QED BY <1>3, <1>4, <2>1, <2>2 DEF Exact, RunInv, QuietStages, Stages
  <1>6. rows' = rows /\ api' = api
    BY <1>1 DEF HandlerEffect, rows
  <1>7. gen' = gen /\ config' = config /\ errors' = 0
    BY DEF Handler, Collect, Build, Embed, MaybeInsert, InsertMother, InsertToc, RecordToc,
       CountToc, InsertChunk, RecordIds, LookAgain, CountDocument, Finish, Clean, Ack, taskvars,
       Calm, past, keys, index, DeleteChunks, update_chunk_ids
  <1>8. RunInv'
    <2>1. tocd' = {}
      BY DEF Exact, RunInv, Calm, Handler, Collect, Build, Embed, MaybeInsert, InsertMother,
         InsertToc, RecordToc, CountToc, InsertChunk, RecordIds, LookAgain, CountDocument, Finish,
         Clean, Ack, taskvars, past, keys, index, DeleteChunks, update_chunk_ids
    <2> QED BY <1>1, <1>6, <1>7, <2>1 DEF Exact, RunInv, HandlerEffect
  <1>9. /\ \A x \in Tasks : x # t => h'[x] = h[x]
        /\ \A x \in Tasks : x # t => (x \in queue' <=> x \in queue)
        /\ queue' \subseteq queue
    BY <1>1 DEF HandlerEffect
  <1>10. t \notin cancel /\ status # "gone" /\ errors = 0
    BY DEF Calm
  <1>11. \A x \in Tasks : ChunkOf(x)' = ChunkOf(x)
    BY <1>7 DEF ChunkOf
  <1>12. /\ h[t] # "tocCount"
         /\ h[t] \in {"recorded", "count", "unstored"} => t \in ids
         /\ h[t] \in Early => t \notin ids
    BY <1>2 DEF Exact, RecordInv, Early
  <1>13. store = {ChunkOf(x) : x \in Held} /\ chunkNum = Cardinality(Counted)
    BY <1>5 DEF Exact, IndexInv, LiveStages
  <1>14. SUFFICES /\ RecordInv'
                  /\ store' = {ChunkOf(x)' : x \in Held'}
                  /\ chunkNum' = Cardinality(Counted')
    BY <1>5, <1>6, <1>8 DEF Exact, IndexInv
  <1>15. ASSUME Elsewhere(t)
         PROVE  /\ RecordInv'
                /\ store' = {ChunkOf(x)' : x \in Held'}
                /\ chunkNum' = Cardinality(Counted')
    <2>1. RecordInv'
      BY <1>3, <1>9, <1>12, <1>15 DEF Exact, RecordInv, Elsewhere, Early
    <2>2. Held' = Held
      BY <1>3, <1>9, <1>15 DEF Held, Elsewhere
    <2>3. Counted' = Counted
      BY <1>3, <1>9, <1>15 DEF Counted, Elsewhere
    <2>4. Held \subseteq Tasks
      BY <1>3 DEF Held
    <2> QED BY <1>11, <1>13, <1>15, <2>1, <2>2, <2>3, <2>4 DEF Elsewhere
  <1>16. CASE Collect(t) \/ Build(t) \/ Embed(t) \/ MaybeInsert(t) \/ InsertMother(t) \/ LookAgain(t)
    <2>1. Elsewhere(t)
      BY <1>3, <1>4, <1>10, <1>16 DEF Collect, Build, Embed, MaybeInsert, InsertMother, LookAgain,
         At, Elsewhere, Early, docvars, taskvars, past, keys, index
    <2> QED BY <1>15, <2>1
  <1>17. CASE InsertToc(t) \/ Finish(t) \/ Clean(t) \/ Ack(t)
    <2>1. ~Error
      BY <1>7, <1>10 DEF Error
    <2>2. Elsewhere(t)
      BY <1>3, <1>4, <1>10, <1>17, <2>1 DEF InsertToc, Finish, Clean, Ack, At, Elsewhere, Early,
         docvars, taskvars, past, keys, index, DeleteChunks
    <2> QED BY <1>15, <2>2
  <1>21. ~RecordToc(t) /\ ~CountToc(t)
    BY <1>10, <1>12 DEF RecordToc, update_chunk_ids, CountToc, Calm, past, keys, index
  <1>18. CASE InsertChunk(t)
    <2>1. /\ store' = store \cup {ChunkOf(t)}
          /\ h' = [h EXCEPT ![t] = "stored"]
          /\ h[t] = "insert"
          /\ UNCHANGED <<chunkNum, ids, queue>>
      <3>1. ~Error
        BY <1>7, <1>10 DEF Error
      <3> QED BY <1>18, <3>1 DEF InsertChunk, At, docvars, taskvars, past, keys, index
    <2>2. Held' = Held \cup {t}
      BY <1>3, <2>1 DEF Held
    <2>3. Counted' = Counted
      BY <1>3, <1>12, <2>1 DEF Counted, Early
    <2>4. RecordInv'
      BY <1>3, <1>12, <2>1 DEF Exact, RecordInv, Early
    <2>5. Held \subseteq Tasks
      BY <1>3 DEF Held
    <2> QED BY <1>11, <1>13, <2>1, <2>2, <2>3, <2>4, <2>5
  <1>19. CASE RecordIds(t) /\ h[t] = "unstored"
    <2>1. Elsewhere(t)
      BY <1>3, <1>19 DEF RecordIds, At, Elsewhere, Early, docvars, taskvars, past, keys, index,
         update_chunk_ids
    <2> QED BY <1>15, <2>1
  <1>22. CASE RecordIds(t) /\ h[t] # "unstored"
    <2>1. /\ ids' = ids \cup {t}
          /\ h' = [h EXCEPT ![t] = "recorded"]
          /\ h[t] = "stored"
          /\ UNCHANGED <<chunkNum, store, queue>>
      BY <1>4, <1>10, <1>12, <1>22 DEF RecordIds, update_chunk_ids, At, docvars, past, keys, index
    <2>2. Held' = Held
      BY <1>3, <2>1 DEF Held
    <2>3. Counted' = Counted
      BY <1>3, <1>12, <2>1 DEF Counted, Early
    <2>4. RecordInv'
      BY <1>3, <1>12, <2>1 DEF Exact, RecordInv, Early
    <2>5. Held \subseteq Tasks
      BY <1>3 DEF Held
    <2> QED BY <1>11, <1>13, <2>1, <2>2, <2>3, <2>4, <2>5
  <1>20. CASE CountDocument(t)
    <2>1. /\ chunkNum' = chunkNum + 1
          /\ \E l \in {"finish", "toc", "unstored"} : h' = [h EXCEPT ![t] = l]
          /\ h[t] = "count"
          /\ UNCHANGED <<ids, store, queue>>
      BY <1>10, <1>20 DEF CountDocument, At, taskvars, past, keys, index
    <2>2. Held' = Held
      BY <1>3, <2>1 DEF Held
    <2>3. Counted' = Counted \cup {t} /\ t \notin Counted
      BY <1>3, <1>12, <2>1 DEF Counted, Early
    <2>4. RecordInv'
      BY <1>3, <1>12, <2>1 DEF Exact, RecordInv, Early
    <2>5. Held \subseteq Tasks /\ Counted \subseteq Tasks
      BY <1>3 DEF Held, Counted
    <2>6. IsFiniteSet(Counted)
      BY <2>5, TasksFinite, FS_Subset
    <2>7. Cardinality(Counted \cup {t}) = Cardinality(Counted) + 1
      BY <2>3, <2>6, FS_AddElement
    <2>8. chunkNum' = Cardinality(Counted')
      BY <1>13, <2>1, <2>3, <2>7
    <2> QED BY <1>11, <1>13, <2>1, <2>2, <2>4, <2>5, <2>8
  <1> QED BY <1>16, <1>17, <1>18, <1>19, <1>20, <1>21, <1>22 DEF Handler

\* _sync_progress writes no row, no chunk and no count.
LEMMA DoneSync ==
  ASSUME TInv, Rest, Exact, NEW s \in Syncers, Sync(s)
  PROVE  Exact'
  <1>1. SyncEffect(s)
    BY SyncSteps DEF Rest
  <1>2. UNCHANGED <<chunkNum, gen, config, prog, ids, tocd, queue, store, api>>
    BY DEF Sync, SyncTasks, SyncDoc, SyncWrite, docvars, taskvars, past, keys, index
  <1>3. \A x \in Tasks : h'[x] = h[x] \/ (h[x] = "record" /\ h'[x] = "ack")
    BY <1>1 DEF SyncEffect
  <1>4. ids \subseteq Tasks /\ queue \subseteq Tasks
    BY DEF TInv, TypeOK, rows
  <1>5. Held' = Held
    BY <1>2, <1>3 DEF Held
  <1>6. Counted' = Counted
    BY <1>2, <1>3, <1>4 DEF Counted
  <1>7. RunInv'
    BY <1>2 DEF Exact, RunInv, rows
  <1>8. RecordInv'
    BY <1>2, <1>3, <1>4 DEF Exact, RecordInv, Early
  <1>9. IndexInv'
    BY <1>2, <1>5, <1>6 DEF Exact, IndexInv, ChunkOf, TakenOver, Dropped, rows
  <1> QED BY <1>7, <1>8, <1>9 DEF Exact
-----------------------------------------------------------------------------
(* Requests.                                                               *)

\* What a step has to establish when it leaves nothing queued.
LEMMA ExactAtRest ==
  ASSUME TInv', QueuedInv', queue' = {},
         RunInv',
         api'.at \in LiveStages =>
           store' = {ChunkOf(t)' : t \in ids'} /\ chunkNum' = Cardinality(ids'),
         api'.at = "read" => store' = {ChunkOf(t)' : t \in ids'},
         api'.at \in {"replace", "dropOld"} => (store \ Dropped = TakenOver)',
         api'.at \in {"recount", "insert"} => (store = TakenOver)',
         api'.at = "insert" => chunkNum' = Cardinality(api'.reuse),
         api'.at \in {"begin", "push"} => /\ ids' = {<<gen', p>> : p \in api'.reuse}
                                          /\ \A p \in api'.parts : <<gen', p>> \in rows'
  PROVE  Exact'
  <1>1. \A t \in Tasks : h'[t] = "none"
    BY DEF QueuedInv
  <1>2. ids' \subseteq Tasks
    BY DEF TInv, TypeOK, rows
  <1>3. Held' = ids' /\ Counted' = ids'
    BY <1>1, <1>2 DEF Held, Counted
  <1>4. RecordInv'
    BY DEF RecordInv
  <1> QED BY <1>3, <1>4 DEF Exact, IndexInv

\* The rows the document had are kept where the part, finished, was chunked
\* under the same configuration: what is left in the store is theirs.
LEMMA DoneRead ==
  ASSUME TInv, Rest, Exact, NEW c \in Configs, NEW parts \in SUBSET Parts, QueueRead(c, parts)
  PROVE  (store \ Dropped = TakenOver)'
  <1> DEFINE kept == {t \in rows : t[2] \in parts /\ Reusable(t, c)}
  <1>1. /\ gen + 1 \in 1..MaxRuns
        /\ config \in [1..MaxRuns -> Configs]
        /\ ids \subseteq rows /\ rows \subseteq Tasks
        /\ gen \in Nat
    BY IngestAssumption DEF QueueRead, TInv, TypeOK, GenInv, rows, past, keys, index
  <1>2. /\ api'.reuse = {t[2] : t \in kept}
        /\ api'.old = ids \ kept
        /\ api'.tocs = {}
        /\ config'[gen' + 1] = c
        /\ store' = store
    BY <1>1 DEF QueueRead, index, Exact, RunInv, past, keys
  <1>3. store = {ChunkOf(t) : t \in ids}
    BY DEF QueueRead, Exact, IndexInv, past, keys, index
  <1>4. \A t \in kept : t \in ids /\ ChunkOf(t) = <<t[2], c>>
    BY DEF Reusable, ChunkOf
  <1>5. \A t \in ids : t[1] = gen /\ t \in Tasks
    BY <1>1 DEF Exact, RunInv
  <1>6. \A t, u \in ids : ChunkOf(t) = ChunkOf(u) => t = u
    <2>1. ids \in SUBSET Tasks /\ \A t \in ids : t[1] = gen
      BY <1>5
    <2> QED BY <2>1, ChunksOfRun
  <1>7. \A t \in ids : ChunkOf(t)' = ChunkOf(t)
    BY <1>1, <1>5 DEF QueueRead, ChunkOf, Tasks, past, keys, index
  <1> HIDE DEF kept
  <1>8. Dropped' = {ChunkOf(t) : t \in ids \ kept}
    BY <1>2, <1>7 DEF Dropped
  <1>9. store \ Dropped' = {ChunkOf(t) : t \in kept}
    BY <1>3, <1>4, <1>6, <1>8
  <1>10. {ChunkOf(t) : t \in kept} = {<<t[2], c>> : t \in kept}
    BY <1>4
  <1>11. {<<t[2], c>> : t \in kept} = {<<p, c>> : p \in api'.reuse}
    BY <1>2
  <1> QED BY <1>2, <1>9, <1>10, <1>11 DEF TakenOver

\* The stages of queue_tasks that drop the rows, chunks and count of earlier runs.
LEMMA DoneQueueing ==
  ASSUME TInv, Rest, TInv', Rest', Exact, queue = {}, api.at \in QuietStages,
         DropRows \/ DropChunks \/ QueueReplace \/ QueueDropOld \/ QueueRecount
  PROVE  Exact'
  <1>1. api \in Requests /\ queue = {} /\ ids' \subseteq rows' /\ ids \subseteq rows
    BY DEF TInv, TypeOK, Requests
  <1>2. QueuedInv'
    BY DEF Rest
  <1>DropRows. CASE DropRows
    <2>1. /\ api'.at = "dropChunks" /\ rows' = {} /\ queue' = {}
          /\ tocd' = {} /\ api'.tocs = {}
      BY <1>DropRows, <1>1, ApiMoves DEF Exact, RunInv, DropRows, Stages, NoRows, rows, QuietStages, past, keys,
         index, DeleteRows, Untold
    <2>2. RunInv'
      BY <2>1 DEF RunInv, Exact
    <2> QED BY <1>2, <2>1, <2>2, ExactAtRest DEF LiveStages
  <1>DropChunks. CASE DropChunks
    <2>1. /\ api'.at = "read" /\ rows = {} /\ rows' = {} /\ ids' = {} /\ queue' = {} /\ store' = {}
          /\ tocd' = {} /\ api'.tocs = {}
      BY <1>DropChunks, <1>1, ApiMoves
         DEF DropChunks, Stages, rows, QuietStages, Exact, RunInv, taskvars, past, keys, index,
            DeleteChunks
    <2>2. RunInv'
      BY <2>1 DEF RunInv, Exact
    <2> QED BY <1>2, <2>1, <2>2, ExactAtRest DEF LiveStages
  <1>QueueReplace. CASE QueueReplace
    <2>1. /\ api'.at = "dropOld" /\ rows' = {} /\ queue' = {}
          /\ tocd' = {} /\ api'.tocs = {}
          /\ api'.old = api.old /\ api'.reuse = api.reuse
          /\ UNCHANGED <<store, gen, config>>
      BY <1>QueueReplace, <1>1, ApiMoves DEF Exact, RunInv, QueueReplace, ApiAt, Stages, NoRows, rows, past,
         keys, index, DeleteRows, Untold
    <2>2. RunInv'
      BY <2>1 DEF RunInv, Exact
    <2>3. (store \ Dropped = TakenOver)'
      BY <1>QueueReplace, <2>1 DEF Exact, RunInv, IndexInv, TakenOver, Dropped, ChunkOf, QueueReplace, past, keys, index,
         DeleteRows, Untold
    <2> QED BY <1>2, <2>1, <2>2, <2>3, ExactAtRest DEF LiveStages
  <1>QueueDropOld. CASE QueueDropOld
    <2>1. /\ api'.at = "recount" /\ rows' = {} /\ queue' = {}
          /\ tocd' = {} /\ api'.tocs = {}
          /\ api'.reuse = api.reuse
          /\ store' = store \ Dropped
          /\ UNCHANGED <<gen, config>>
      BY <1>QueueDropOld, <1>1, ApiMoves
         DEF QueueDropOld, Dropped, ApiAt, Stages, rows, taskvars, Exact, RunInv, past, keys, index
    <2>2. RunInv'
      BY <2>1 DEF RunInv, Exact
    <2>3. (store = TakenOver)'
      BY <1>QueueDropOld, <2>1 DEF Exact, IndexInv, TakenOver, QueueDropOld, past, keys, index
    <2> QED BY <1>2, <2>1, <2>2, <2>3, ExactAtRest DEF LiveStages
  <1>QueueRecount. CASE QueueRecount
    <2>1. /\ api'.at = "insert" /\ rows' = {} /\ queue' = {}
          /\ tocd' = {} /\ api'.tocs = {}
          /\ api'.reuse = api.reuse
          /\ chunkNum' = Cardinality(api.reuse)
          /\ UNCHANGED <<store, gen, config>>
      BY <1>QueueRecount, <1>1, ApiMoves
         DEF QueueRecount, ApiAt, Stages, rows, taskvars, Exact, RunInv, past, keys, index
    <2>2. RunInv'
      BY <2>1 DEF RunInv, Exact
    <2>3. (store = TakenOver)'
      BY <1>QueueRecount, <2>1 DEF Exact, IndexInv, TakenOver, QueueRecount, past, keys, index
    <2> QED BY <1>2, <2>1, <2>2, <2>3, ExactAtRest DEF LiveStages
  <1> QED BY <1>DropRows, <1>DropChunks, <1>QueueReplace, <1>QueueDropOld, <1>QueueRecount

\* The new rows: what is taken over is recorded and counted from the start.
LEMMA DoneInsert ==
  ASSUME TInv, Rest, QuietInv, TInv', Rest', Exact, QueueInsert
  PROVE  Exact'
  <1>1. api \in Requests /\ gen \in Nat /\ gen + 1 \in 1..MaxRuns /\ queue' = {}
    BY IngestAssumption DEF QueueInsert, QuietInv, QuietStages, TInv, TypeOK, GenInv,
       Requests, past, keys, index
  <1>2. /\ api'.at = "begin" /\ api'.reuse = api.reuse /\ api'.parts = api.parts
        /\ tocd' = {} /\ api'.tocs = {}
        /\ gen' = gen + 1
        /\ ids' = {<<gen + 1, p>> : p \in api.reuse}
        /\ UNCHANGED <<chunkNum, store, config>>
    BY <1>1, ApiMoves DEF Exact, RunInv, QueueInsert, ApiAt, Stages, docvars, past, keys, index
  <1>3. /\ \A t \in rows' : t[1] = gen'
        /\ \A p \in api'.parts : <<gen', p>> \in rows'
    <2>1. \A t \in Tasks : prog[t] = "none"
      BY DEF QueueInsert, Exact, RunInv, rows, past, keys, index
    <2>2. \A t \in Tasks : prog'[t] =
            IF t[1] # gen + 1 \/ t[2] \notin api.parts THEN "none"
            ELSE IF t[2] \in api.reuse THEN "done" ELSE "new"
      BY <2>1 DEF QueueInsert, past, keys, index
    <2> QED BY <1>1, <1>2, <2>2 DEF rows, Tasks, Requests
  <1>4. RunInv'
    BY <1>1, <1>2, <1>3 DEF RunInv
  <1>5. (store = {ChunkOf(t) : t \in ids})'
    <2>1. store = {<<p, config[gen + 1]>> : p \in api.reuse}
      BY DEF QueueInsert, Exact, IndexInv, TakenOver, past, keys, index
    <2>2. \A p \in api.reuse : ChunkOf(<<gen, p>>)' = <<p, config[gen + 1]>>
      BY <1>2 DEF ChunkOf
    <2>3. ids' = {<<gen', p>> : p \in api.reuse}
      BY <1>2
    <2>4. {ChunkOf(t)' : t \in ids'} = {ChunkOf(<<gen, p>>)' : p \in api.reuse}
      BY <2>3
    <2> QED BY <1>2, <2>1, <2>2, <2>4
  <1>6. chunkNum' = Cardinality(ids')
    <2>1. chunkNum = Cardinality(api.reuse)
      BY DEF QueueInsert, Exact, IndexInv, past, keys, index
    <2>2. Cardinality({<<gen + 1, p>> : p \in api.reuse}) = Cardinality(api.reuse)
      BY <1>1, TasksOfParts DEF Requests
    <2> QED BY <1>2, <2>1, <2>2
  <1>7. QueuedInv'
    BY DEF Rest
  <1> QED BY <1>1, <1>2, <1>3, <1>4, <1>5, <1>6, <1>7, ExactAtRest DEF LiveStages

\* The stages of a request that begin or go on while nothing is queued.
LEMMA DoneStart ==
  ASSUME TInv, Rest, TInv', Rest', Exact, queue = {},
         \/ begin2parse
         \/ \E del \in BOOLEAN : RunUpdate(del)
         \/ \E c \in Configs, parts \in SUBSET Parts : QueueRead(c, parts)
         \/ DeleteDocs
  PROVE  Exact'
  <1>1. api \in Requests /\ queue = {} /\ ids' \subseteq rows' /\ ids \subseteq rows
    BY DEF TInv, TypeOK, Requests
  <1>2. QueuedInv'
    BY DEF Rest
  <1>3. Held = ids /\ Counted = ids
    BY AtRest DEF Rest
  <1>begin2parse. CASE begin2parse
    <2>1. /\ api'.at = "push" /\ queue' = {} /\ api'.reuse = api.reuse /\ api'.parts = api.parts
          /\ tocd' = {} /\ api'.tocs = {}
          /\ UNCHANGED <<chunkNum, gen, config, prog, ids, store>>
      BY <1>begin2parse, <1>1, ApiMoves DEF Exact, RunInv, begin2parse, ApiAt, Stages, taskvars, past, keys, index
    <2>2. rows' = rows /\ api.at = "begin"
      BY <1>begin2parse, <2>1 DEF rows, begin2parse, past, keys, index
    <2>3. RunInv'
      BY <2>1, <2>2 DEF Exact, RunInv
    <2>4. store' = {ChunkOf(t)' : t \in ids'} /\ chunkNum' = Cardinality(ids')
      BY <1>3, <2>1, <2>2 DEF Exact, IndexInv, LiveStages, ChunkOf
    <2>5. /\ ids' = {<<gen', p>> : p \in api'.reuse}
          /\ \A p \in api'.parts : <<gen', p>> \in rows'
      BY <2>1, <2>2 DEF Exact, IndexInv
    <2> QED BY <1>2, <2>1, <2>3, <2>4, <2>5, ExactAtRest
  <1>RunUpdate. ASSUME NEW del \in BOOLEAN, RunUpdate(del) PROVE Exact'
    <2>1. /\ api'.at \in {"drop", "read"} /\ queue' = {} /\ api.at = "idle"
          /\ tocd' = {} /\ api'.tocs = {}
          /\ UNCHANGED <<gen, config, prog, ids, store>>
      BY <1>RunUpdate, <1>1 DEF Exact, RunInv, RunUpdate, Begun, taskvars, past, keys, index
    <2>2. rows' = rows
      BY <2>1 DEF rows
    <2>3. RunInv'
      BY <2>1, <2>2 DEF Exact, RunInv
    <2>4. store' = {ChunkOf(t)' : t \in ids'}
      BY <1>3, <2>1 DEF Exact, IndexInv, LiveStages, ChunkOf
    <2> QED BY <1>2, <2>1, <2>3, <2>4, ExactAtRest DEF LiveStages
  <1>QueueRead. ASSUME NEW c \in Configs, NEW parts \in SUBSET Parts, QueueRead(c, parts)
              PROVE  Exact'
    <2>1. /\ api'.at = "replace" /\ queue' = {} /\ api.at = "read"
          /\ tocd' = {} /\ api'.tocs = {}
          /\ UNCHANGED <<gen, prog>>
      BY <1>QueueRead, <1>1 DEF Exact, RunInv, QueueRead, past, keys, index
    <2>2. rows' = rows
      BY <2>1 DEF rows
    <2>3. RunInv'
      BY <2>1, <2>2 DEF Exact, RunInv
    <2>4. (store \ Dropped = TakenOver)'
      BY <1>QueueRead, DoneRead
    <2> QED BY <1>2, <2>1, <2>3, <2>4, ExactAtRest DEF LiveStages
  <1>DeleteDocs. CASE DeleteDocs
    <2>1. /\ api'.at = "remove" /\ rows' = {} /\ queue' = {}
          /\ tocd' = {} /\ api'.tocs = {}
      BY <1>DeleteDocs, <1>1, ApiMoves DEF Exact, RunInv, DeleteDocs, Stages, NoRows, rows, past, keys, index,
         DeleteRows, Untold
    <2>2. RunInv'
      BY <2>1 DEF RunInv, Exact
    <2> QED BY <1>2, <2>1, <2>2, ExactAtRest DEF LiveStages
  <1> QED BY <1>begin2parse, <1>RunUpdate, <1>QueueRead, <1>DeleteDocs

\* Posting a message queues a task whose row is there.
LEMMA DonePush ==
  ASSUME TInv, Rest, QuietInv, Exact, QueuePush
  PROVE  Exact'
  <1>1. api \in Requests /\ queue = {} /\ api.at = "push" /\ ids \subseteq rows
    BY DEF QueuePush, QuietInv, QuietStages, TInv, TypeOK, Requests, past, keys, index
  <1>2. /\ api'.at = "idle"
        /\ queue' = {<<gen, p>> : p \in api.parts \ api.reuse}
        /\ tocd' = {} /\ api'.tocs = {}
        /\ UNCHANGED <<chunkNum, gen, config, prog, ids, store, h>>
    BY <1>1, ApiMoves DEF Exact, RunInv, QueuePush, docvars, taskvars, past, keys, index
  <1>3. rows' = rows
    BY <1>2 DEF rows
  <1>4. /\ ids = {<<gen, p>> : p \in api.reuse}
        /\ \A p \in api.parts : <<gen, p>> \in rows
        /\ store = {ChunkOf(t) : t \in Held} /\ chunkNum = Cardinality(Counted)
    BY <1>1 DEF Exact, IndexInv, LiveStages
  <1>5. RunInv'
    BY <1>2, <1>3, <1>4 DEF Exact, RunInv
  <1>6. \A t \in Tasks : h[t] = "none"
    BY <1>1, AtRest DEF Rest
  <1>7. queue' \subseteq rows /\ rows \subseteq Tasks
    BY <1>2, <1>4 DEF rows
  <1>8. RecordInv'
    BY <1>2, <1>4, <1>6, <1>7 DEF RecordInv
  <1>9. Held' = Held /\ Counted' = Counted
    BY <1>2 DEF Held, Counted
  <1> QED BY <1>2, <1>4, <1>5, <1>8, <1>9 DEF Exact, IndexInv, ChunkOf

\* A cancellation that flags nothing, of a document without rows.
LEMMA DoneCancel ==
  ASSUME TInv, Rest, Calm, Calm', Exact,
         \/ CancelUpdate
         \/ \E del \in BOOLEAN : CancelBegin(del)
         \/ api.at = "cancelDrop" /\ DropRows
         \/ api.at = "cancelDropChunks" /\ DropChunks
  PROVE  Exact'
  <1>1. api \in Requests /\ ids \subseteq rows
    BY DEF TInv, TypeOK, Requests
  <1>2. rows = {}
    BY DEF Rest, FlaggedInv, Calm, CancelUpdate, CancelBegin, cancel_all_task_of, Exact, RunInv,
       past, keys, index
  <1>3. queue = {} /\ ids = {}
    BY <1>1, <1>2 DEF Exact, RunInv
  <1>4. Held = {} /\ Counted = {}
    BY <1>3, AtRest DEF Rest
  <1>5. api.at \in LiveStages \ {"begin", "push"}
    BY DEF CancelUpdate, CancelBegin, LiveStages, past, keys, index
  <1>6. store = {} /\ chunkNum = Cardinality({})
    BY <1>4, <1>5 DEF Exact, IndexInv
  <1>7. /\ api'.at \in LiveStages \ {"begin", "push"}
        /\ queue' = {} /\ ids' = {} /\ rows' = {} /\ store' = {} /\ chunkNum' = chunkNum
        /\ h' = h /\ tocd' = {} /\ api'.tocs = {}
    <2>1. CASE CancelUpdate
      BY <1>1, <1>2, <1>3, <1>6, <2>1, ApiMoves
         DEF Exact, RunInv, CancelUpdate, Stages, LiveStages, taskvars, rows, past, keys, index
    <2>2. ASSUME NEW del \in BOOLEAN, CancelBegin(del) PROVE <1>7!:
      BY <1>2, <1>3, <1>6, <2>2 DEF Exact, RunInv, CancelBegin, Begun, LiveStages, docvars, taskvars, rows, past,
         keys, index
    <2>3. CASE api.at = "cancelDrop" /\ DropRows
      BY <1>1, <1>2, <1>3, <1>6, <2>3, ApiMoves
         DEF Exact, RunInv, DropRows, Stages, LiveStages, docvars, NoRows, rows, past, keys, index, DeleteRows,
            Untold
    <2>4. CASE api.at = "cancelDropChunks" /\ DropChunks
      BY <1>1, <1>2, <1>3, <1>6, <2>4, ApiMoves
         DEF Exact, RunInv, DropChunks, Stages, LiveStages, docvars, taskvars, rows, past, keys, index,
            DeleteChunks
    <2> QED BY <2>1, <2>2, <2>3, <2>4
  <1>8. Held' = {} /\ Counted' = {}
    BY <1>3, <1>4, <1>7 DEF Held, Counted
  <1>9. RunInv' /\ RecordInv'
    BY <1>7 DEF RunInv, RecordInv, LiveStages
  <1> QED BY <1>6, <1>7, <1>8, <1>9 DEF Exact, IndexInv, LiveStages

\* A request made in a hurry is never forgotten.
LEMMA HurriedStays ==
  ASSUME hurried, [Next]_vars
  PROVE  hurried'
  <1>1. CASE Request \/ RequestFails
    BY <1>1 DEF Request, RequestFails, DropRows, DropChunks, QueueRead, QueueReplace, QueueDropOld,
       QueueRecount, QueueInsert, begin2parse, QueuePush, CancelUpdate, RemoveCancel, RemoveTasks,
       RemoveChunks, taskvars, past
  <1>2. CASE User
    BY <1>2 DEF User, RunUpdate, CancelBegin, DeleteDocs, RemoveRow, Hurry, taskvars, past
  <1>3. ASSUME NEW t \in Tasks, Handler(t) \/ Crash(t) \/ CancelExpires(t) PROVE hurried'
    BY <1>3 DEF Handler, Collect, Build, Embed, MaybeInsert, InsertMother, InsertToc, RecordToc,
       CountToc, InsertChunk, RecordIds, LookAgain, CountDocument, Finish, Clean, Ack, Crash,
       CancelExpires, taskvars, past
  <1>4. ASSUME NEW s \in Syncers, Sync(s) PROVE hurried'
    BY <1>4 DEF Sync, SyncTasks, SyncDoc, SyncWrite, taskvars, past
  <1>5. CASE UNCHANGED vars
    BY <1>5 DEF vars, taskvars, past
  <1> QED BY <1>1, <1>2, <1>3, <1>4, <1>5 DEF Next

\* With a patient user no task is queued while the rows are replaced.
LEMMA QuietStep ==
  ASSUME TInv, Rest, QuietInv, [Next]_vars, ~hurried'
  PROVE  QuietInv'
  <1>1. api \in Requests
    BY DEF TInv, TypeOK, Requests
  <1> USE DEF QuietInv, QuietStages
  <1>2. CASE Request
    <2>1. ASSUME NEW l \in Stages, ApiAt(l) PROVE api'.at = l
      BY <1>1, <2>1, ApiMoves
    <2>2. ApiIdle => api'.at = "idle"
      BY ApiMoves
    <2>3. QueuePush \/ api.at \in {"removeCancel", "removeTasks", "removeChunks", "cancelUpdate",
                                  "cancelDrop", "cancelDropChunks"} => api'.at \notin QuietStages
      BY <1>2, <2>1, <2>2 DEF Request, DropRows, DropChunks, QueueRead, QueueReplace, QueueDropOld,
         QueueRecount, QueueInsert, begin2parse, QueuePush, CancelUpdate, RemoveCancel, RemoveTasks,
         RemoveChunks, Stages
    <2>4. queue' = queue \/ QueuePush
      BY <1>2 DEF Request, DropRows, DropChunks, QueueRead, QueueReplace, QueueDropOld,
         QueueRecount, QueueInsert, begin2parse, CancelUpdate, RemoveCancel, RemoveTasks,
         RemoveChunks
    <2>5. api.at \in QuietStages \cup {"removeCancel", "removeTasks", "removeChunks",
                                     "cancelUpdate", "cancelDrop", "cancelDropChunks"}
      BY <1>2 DEF Request, DropRows, DropChunks, QueueRead, QueueReplace, QueueDropOld,
         QueueRecount, QueueInsert, begin2parse, QueuePush, CancelUpdate, RemoveCancel,
         RemoveTasks, RemoveChunks
    <2> QED BY <2>3, <2>4, <2>5
  <1>3. CASE User
    <2>1. RemoveRow => api'.at = "removeCancel"
      BY <1>1, ApiMoves DEF RemoveRow, Stages
    <2>2. Hurry => queue = {}
      BY DEF Hurry
    <2> QED BY <1>3, <2>1, <2>2 DEF User, RunUpdate, CancelBegin, DeleteDocs, RemoveRow, Begun
  <1>4. CASE RequestFails
    BY <1>4, ApiMoves DEF RequestFails
  <1>5. ASSUME NEW t \in Tasks, Handler(t) PROVE QuietInv'
    <2>1. HandlerEffect(t)
      BY <1>5, HandlerSteps DEF Rest, QueuedInv
    <2> QED BY <2>1 DEF HandlerEffect
  <1>6. ASSUME NEW t \in Tasks, Crash(t) \/ CancelExpires(t) PROVE QuietInv'
    BY <1>6 DEF Crash, CancelExpires
  <1>7. ASSUME NEW s \in Syncers, Sync(s) PROVE QuietInv'
    BY <1>7 DEF Sync, SyncTasks, SyncDoc, SyncWrite
  <1>8. CASE UNCHANGED vars
    BY <1>8 DEF vars
  <1> QED BY <1>2, <1>3, <1>4, <1>5, <1>6, <1>7, <1>8 DEF Next

\* Cancel keys, failures and removal are never undone.
LEMMA CalmBefore ==
  ASSUME TInv, Rest, [Next]_vars, Calm'
  PROVE  Calm
  <1>1. ASSUME Request \/ User \/ RequestFails
        PROVE  /\ cancel \subseteq cancel' /\ expired' = expired /\ extracted' = extracted
               /\ crashes' = crashes /\ (errors' = errors \/ Error)
    BY <1>1 DEF Request, User, RequestFails, DropRows, DropChunks, QueueRead, QueueReplace,
       QueueDropOld, QueueRecount, QueueInsert, begin2parse, QueuePush, CancelUpdate,
       RemoveCancel, RemoveTasks, RemoveChunks, RunUpdate, CancelBegin, DeleteDocs, RemoveRow,
       cancel_all_task_of, taskvars, past, keys, index, DeleteRows, Untold, DeleteChunks
  <1>2. ASSUME Request \/ User \/ RequestFails, status = "gone" PROVE status' = "gone"
    <2>1. api.at \in {"idle", "removeCancel", "removeTasks", "removeChunks"}
      BY <1>2 DEF Rest, GoneInv
    <2> QED BY <1>2, <2>1
       DEF Request, User, RequestFails, DropRows, DropChunks, QueueRead, QueueReplace,
          QueueDropOld, QueueRecount, QueueInsert, begin2parse, QueuePush, CancelUpdate,
          RemoveCancel, RemoveTasks, RemoveChunks, RunUpdate, CancelBegin, DeleteDocs, RemoveRow,
          docvars, past, keys, index, DeleteRows, Untold, DeleteChunks
  <1>3. errors \in Nat /\ crashes \in Nat
    BY IngestAssumption DEF TInv, TypeOK
  <1>4. CASE Request \/ User \/ RequestFails
    BY <1>1, <1>2, <1>3, <1>4, HurriedStays DEF Calm, Error
  <1>5. ASSUME NEW t \in Tasks, Handler(t) PROVE Calm
    <2>1. HandlerEffect(t)
      BY <1>5, HandlerSteps DEF Rest, QueuedInv
    <2>2. ~extracted' => ~extracted
      BY <1>5 DEF Handler, Collect, Build, Embed, MaybeInsert, InsertMother, InsertToc, RecordToc,
         CountToc, InsertChunk, RecordIds, LookAgain, CountDocument, Finish, Clean, Ack, taskvars,
         past, update_chunk_ids
    <2> QED BY <2>1, <2>2, HurriedStays DEF HandlerEffect, Calm
  <1>6. ASSUME NEW t \in Tasks, Crash(t) PROVE Calm
    BY <1>3, <1>6 DEF Crash, Calm, docvars, taskvars, past, keys, index
  <1>7. ASSUME NEW s \in Syncers, Sync(s) PROVE Calm
    <2>1. SyncEffect(s)
      BY <1>7, SyncSteps DEF Rest
    <2>2. extracted' = extracted
      BY <1>7 DEF Sync, SyncTasks, SyncDoc, SyncWrite, taskvars, past
    <2> QED BY <2>1, <2>2, HurriedStays DEF SyncEffect, Calm
  <1>9. \A t \in Tasks : ~CancelExpires(t)
    BY DEF CancelExpires, Calm
  <1>8. CASE UNCHANGED vars
    BY <1>8 DEF vars, docvars, taskvars, Calm, past, keys, index
  <1> QED BY <1>4, <1>5, <1>6, <1>7, <1>8, <1>9 DEF Next

\* No step takes away the mother of a chunk that stays.
LEMMA MotherStep ==
  ASSUME TInv, Rest, QuietInv, Calm, Calm', Exact, Mothers, [Next]_vars
  PROVE  Mothers'
  <1>1. /\ h \in [Tasks -> Positions] /\ queue \subseteq Tasks
        /\ gen \in Nat /\ config \in [1..MaxRuns -> Configs]
        /\ crashes \in Nat /\ errors \in Nat
    BY IngestAssumption DEF TInv, TypeOK
  <1>2. CASE Request \/ User \/ RequestFails
    <2>1. /\ ~RequestFails /\ ~RemoveCancel /\ ~RemoveTasks /\ ~RemoveChunks /\ ~RemoveRow
          /\ h' = h
      BY <1>1, <1>2 DEF Request, User, RequestFails, Error, DropRows, DropChunks, QueueRead,
         QueueReplace, QueueDropOld, QueueRecount, QueueInsert, begin2parse, QueuePush,
         CancelUpdate, RemoveCancel, RemoveTasks, RemoveChunks, RunUpdate, CancelBegin, DeleteDocs,
         RemoveRow, Exact, RunInv, Calm
    <2>2. CASE DropChunks
      <3>1. queue = {} /\ queue' = {} /\ store' = {}
        BY <2>2 DEF DropChunks, DeleteChunks, Exact, RunInv
      <3> QED BY <3>1 DEF Mothers
    <2>3. CASE QueueDropOld
      <3>1. queue = {} /\ queue' = {} /\ store' \subseteq store
        BY <2>3 DEF QueueDropOld, Exact, RunInv
      <3>2. extra' = extra
        BY <2>3 DEF QueueDropOld, Exact, RunInv
      <3> QED BY <3>1, <3>2 DEF Mothers
    <2>4. CASE QueuePush
      <3>1. queue = {} /\ index' = index
        BY <2>4 DEF QueuePush, QuietInv, QuietStages
      <3>2. \A t \in Tasks : h[t] = "none"
        BY <3>1, AtRest DEF Rest
      <3>3. queue' \subseteq Tasks
        BY <2>4, <3>1 DEF QueuePush, TInv, TypeOK, GenInv, Tasks
      <3> QED BY <2>1, <3>1, <3>2, <3>3 DEF Mothers, index
    <2>5. ASSUME NEW c \in Configs, NEW parts \in SUBSET Parts, QueueRead(c, parts) PROVE Mothers'
      <3>1. queue = {} /\ queue' = {} /\ index' = index
        BY <2>5 DEF QueueRead, QuietInv, QuietStages
      <3> QED BY <3>1 DEF Mothers, index
    <2>6. CASE UNCHANGED <<queue, store, extra, h, config>>
      BY <2>6 DEF Mothers, ChunkOf, Rich
    <2> QED BY <1>2, <2>1, <2>2, <2>3, <2>4, <2>5, <2>6
       DEF Request, User, DropRows, QueueReplace, QueueRecount, QueueInsert, begin2parse,
           CancelUpdate, RunUpdate, CancelBegin, DeleteDocs, taskvars, past, index
  <1>3. ASSUME NEW t \in Tasks, Handler(t) PROVE Mothers'
    <2>1. ~Error
      BY <1>1 DEF Error, Calm
    <2>2. /\ config' = config /\ queue' \subseteq queue
          /\ \A x \in Tasks : x # t => h'[x] = h[x]
      <3>1. HandlerEffect(t)
        BY <1>3, HandlerSteps DEF Rest, QueuedInv
      <3> QED BY <3>1 DEF HandlerEffect
    <2>3. t \in queue
      <3>1. h[t] # "none" \/ t \in queue
        BY <1>3 DEF Handler, Collect, Build, Embed, MaybeInsert, InsertMother, InsertToc, RecordToc,
           CountToc, InsertChunk, RecordIds, LookAgain, CountDocument, Finish, Clean, Ack
      <3> QED BY <3>1 DEF Rest, QueuedInv
    <2>4. t \notin cancel
      BY DEF Calm
    <2>5. CASE InsertMother(t)
      <3>1. /\ extra' = extra \cup {<<"mother", ChunkOf(t)>>} /\ store' = store
            /\ h' = [h EXCEPT ![t] = "mothered"]
        BY <2>1, <2>5 DEF InsertMother, At
      <3> QED BY <1>1, <2>2, <3>1 DEF Mothers, ChunkOf, Rich
    <2>6. CASE InsertChunk(t)
      <3>1. /\ extra' = extra /\ store' = store \cup {ChunkOf(t)} /\ h[t] = "insert"
            /\ h' = [h EXCEPT ![t] = "stored"]
        BY <2>1, <2>6 DEF InsertChunk, At
      <3>2. ChunkOf(t)[2] \in RichConfigs => <<"mother", ChunkOf(t)>> \in extra
        BY <2>3, <3>1 DEF Mothers, ChunkOf, Rich
      <3>3. \A c \in store' : c[2] \in RichConfigs => <<"mother", c>> \in extra'
        BY <3>1, <3>2 DEF Mothers
      <3> QED BY <1>1, <2>2, <3>1, <3>3 DEF Mothers, ChunkOf, Rich
    <2>7. CASE InsertToc(t)
      <3>1. /\ extra \subseteq extra' /\ store' = store
            /\ h'[t] \in {"tocStored", "unstored"}
        BY <1>1, <2>7 DEF InsertToc, At
      <3> QED BY <1>1, <2>2, <3>1 DEF Mothers, ChunkOf, Rich
    <2>8. CASE MaybeInsert(t)
      <3>1. /\ index' = index /\ h'[t] # "mothered" /\ (h'[t] = "insert" => ~Rich(t))
        BY <1>1, <2>4, <2>8 DEF MaybeInsert, At
      <3> QED BY <1>1, <2>2, <3>1 DEF Mothers, ChunkOf, Rich, index
    <2>9. CASE LookAgain(t)
      <3>1. /\ index' = index /\ h'[t] # "mothered" /\ (h'[t] = "insert" => h[t] = "mothered")
        BY <1>1, <2>4, <2>9 DEF LookAgain, At
      <3> QED BY <1>1, <2>2, <2>3, <3>1 DEF Mothers, ChunkOf, Rich, index
    <2>10. CASE \/ Collect(t) \/ Build(t) \/ Embed(t) \/ RecordIds(t) \/ CountDocument(t)
                \/ RecordToc(t) \/ CountToc(t) \/ Finish(t) \/ Clean(t) \/ Ack(t)
      <3>1. /\ index' = index /\ h'[t] # "mothered" /\ h'[t] # "insert"
        BY <1>1, <2>4, <2>10 DEF Collect, Build, Embed, RecordIds, CountDocument, RecordToc,
           CountToc, Finish, Clean, Ack, At, index
      <3> QED BY <1>1, <2>2, <3>1 DEF Mothers, ChunkOf, Rich, index
    <2> QED BY <1>3, <2>5, <2>6, <2>7, <2>8, <2>9, <2>10 DEF Handler
  <1>4. \A t \in Tasks : ~Crash(t) /\ ~CancelExpires(t)
    BY <1>1 DEF Crash, CancelExpires, Calm
  <1>5. ASSUME NEW s \in Syncers, Sync(s) PROVE Mothers'
    <2>1. SyncEffect(s)
      BY <1>5, SyncSteps DEF Rest
    <2>2. \A x \in Tasks : h'[x] \in {"mothered", "insert"} => h'[x] = h[x]
      BY <2>1 DEF SyncEffect
    <2> QED BY <1>1, <2>1, <2>2 DEF SyncEffect, Mothers, ChunkOf, Rich
  <1>6. CASE UNCHANGED vars
    BY <1>6 DEF vars, taskvars, past, index, Mothers, ChunkOf, Rich
  <1> QED BY <1>2, <1>3, <1>4, <1>5, <1>6 DEF Next

\* Every step preserves CalmInv.
LEMMA DoneStep ==
  ASSUME TInv, Rest, PatientInv, TInv', Rest', CalmInv, [Next]_vars
  PROVE  CalmInv'
  <1> SUFFICES ASSUME Calm' PROVE Exact' /\ Mothers'
    BY DEF CalmInv
  <1>1. Calm /\ Exact /\ Mothers
    BY CalmBefore DEF CalmInv
  <1>12. QuietInv
    BY <1>1 DEF PatientInv, Calm
  <1>11. Mothers'
    BY <1>1, <1>12, MotherStep
  <1>2. errors = 0 /\ errors' = 0 /\ crashes' = 0 /\ crashes \in Nat
    BY <1>1, IngestAssumption DEF Calm, TInv, TypeOK
  <1>3. ~RequestFails
    BY <1>2 DEF RequestFails, Error, past, keys, index
  <1>4. ~RemoveCancel /\ ~RemoveTasks /\ ~RemoveChunks /\ ~RemoveRow
    BY <1>1 DEF RemoveCancel, RemoveTasks, RemoveChunks, RemoveRow, Exact, RunInv, Calm, past,
       keys, index, DeleteRows, Untold, DeleteChunks
  <1>5. ASSUME Request PROVE Exact'
    <2>1. CASE api.at \in QuietStages
      <3>1. queue = {}
        BY <1>12, <2>1 DEF QuietInv
      <3>2. ~CancelUpdate
        BY <2>1 DEF CancelUpdate, QuietStages, past, keys, index
      <3> QED BY <1>1, <1>4, <1>5, <1>12, <2>1, <3>1, <3>2, DoneQueueing, DoneInsert, DoneStart, DonePush
             DEF Request
    <2>2. CASE api.at \notin QuietStages
      <3>1. /\ \A c \in Configs, parts \in SUBSET Parts : ~QueueRead(c, parts)
            /\ ~QueueReplace /\ ~QueueDropOld /\ ~QueueRecount /\ ~QueueInsert
            /\ ~begin2parse /\ ~QueuePush
        BY <2>2 DEF QueueRead, QueueReplace, QueueDropOld, QueueRecount, QueueInsert, begin2parse,
           QueuePush, QuietStages, past, keys, index, DeleteRows, Untold
      <3>2. /\ DropRows => api.at = "cancelDrop"
            /\ DropChunks => api.at = "cancelDropChunks"
        BY <2>2 DEF DropRows, DropChunks, QuietStages, past, keys, index, DeleteRows, Untold,
           DeleteChunks
      <3> QED BY <1>1, <1>4, <1>5, <3>1, <3>2, DoneCancel DEF Request
    <2> QED BY <2>1, <2>2
  <1>6. ASSUME User PROVE Exact'
    <2>1. ASSUME NEW del \in BOOLEAN, RunUpdate(del) PROVE queue = {}
      BY <2>1 DEF RunUpdate, Hurry, Calm
    <2>2. DeleteDocs => queue = {}
      BY DEF DeleteDocs, Hurry, Calm
    <2> QED BY <1>1, <1>4, <1>6, <1>12, <2>1, <2>2, DoneStart, DoneCancel DEF User
  <1>7. ASSUME NEW t \in Tasks, Handler(t) PROVE Exact'
    BY <1>1, <1>7, <1>12, DoneHandler
  <1>8. \A t \in Tasks : ~Crash(t) /\ ~CancelExpires(t)
    BY <1>2 DEF Crash, CancelExpires, Calm
  <1>9. ASSUME NEW s \in Syncers, Sync(s) PROVE Exact'
    BY <1>1, <1>9, DoneSync
  <1>10. ASSUME UNCHANGED vars PROVE Exact'
    BY <1>1, <1>10 DEF vars, docvars, taskvars, Exact, RunInv, RecordInv, IndexInv, Held, Counted,
       TakenOver, Dropped, ChunkOf, rows, past, keys, index
  <1> QED BY <1>3, <1>5, <1>6, <1>7, <1>8, <1>9, <1>10, <1>11 DEF Next

\* A document that is done and has no task left is indexed exactly: the store
\* holds the chunks its task rows record, no more and no fewer, each with the
\* mother it was split from, and chunk_num is their number, whatever runs before
\* it reused, dropped or rebuilt (queue_tasks, reuse_prev_task_chunks,
\* insert_chunks, increment_chunk_num).  For any number of parts and runs,
\* provided no run was started over queued tasks, nothing was cancelled, nothing
\* failed and no table of contents took the place of chunk_ids.
THEOREM DoneIsExact == Spec => []DoneIsIndexed
  <1> DEFINE Inv == IInv /\ PatientInv /\ CalmInv
  <1>1. Init => Inv
    <2> SUFFICES ASSUME Init, IInv PROVE QuietInv /\ Exact /\ Mothers
      BY IngestInductive DEF CalmInv, PatientInv
    <2>1. /\ rows = {} /\ queue = {} /\ ids = {} /\ store = {} /\ chunkNum = 0
          /\ api.at = "idle" /\ tocd = {} /\ api.tocs = {}
      BY DEF Init, rows, NoRows, NoRequest, Begun
    <2>2. Held = {} /\ Counted = {}
      BY <2>1, AtRest DEF IInv
    <2>3. Cardinality({}) = 0
      BY FS_EmptySet
    <2>4. IndexInv
      BY <2>1, <2>2, <2>3 DEF IndexInv
    <2> QED BY <2>1, <2>4 DEF Exact, RunInv, RecordInv, QuietInv, Mothers
  <1>2. Inv /\ [Next]_vars => Inv'
    <2> SUFFICES ASSUME IInv, PatientInv, CalmInv, [Next]_vars PROVE PatientInv' /\ CalmInv'
      BY IngestInductive
    <2>1. IInv'
      BY IngestInductive
    <2>2. PatientInv'
      <3>1. ~hurried' => ~hurried
        BY HurriedStays
      <3> QED BY <3>1, QuietStep DEF IInv, Rest, PatientInv
    <2>3. CalmInv'
      BY <2>1, DoneStep DEF IInv, Rest
    <2> QED BY <2>2, <2>3
  <1>3. Inv => DoneIsIndexed
    <2> SUFFICES ASSUME IInv, CalmInv, DoneQuietly, ~extracted
                 PROVE  /\ store = {ChunkOf(t) : t \in ids} /\ chunkNum = Cardinality(store)
                        /\ \A t \in ids : Rich(t) => <<"mother", ChunkOf(t)>> \in extra
      BY DEF DoneIsIndexed
    <2>1. Exact /\ Mothers
      BY DEF CalmInv, Calm, DoneQuietly
    <2>2. Held = ids /\ Counted = ids
      BY AtRest DEF IInv, DoneQuietly
    <2>3. store = {ChunkOf(t) : t \in ids} /\ chunkNum = Cardinality(ids)
      BY <2>1, <2>2 DEF Exact, IndexInv, LiveStages, DoneQuietly
    <2>4. ids \in SUBSET Tasks /\ \A t \in ids : t[1] = gen
      BY <2>1 DEF IInv, TInv, TypeOK, rows, Exact, RunInv
    <2>5. \A t \in ids : Rich(t) => <<"mother", ChunkOf(t)>> \in extra
      BY <2>1, <2>3 DEF Mothers, Rich, ChunkOf
    <2> QED BY <2>3, <2>4, <2>5, ChunksOfRun
  <1> HIDE DEF Inv
  <1> QED BY <1>1, <1>2, <1>3, PTL DEF Spec
=============================================================================
