----------------------------- MODULE Ingest_proofs -----------------------------
(***************************************************************************)
(* Proofs about Ingest, for any number of parts and runs.                  *)
(***************************************************************************)
EXTENDS Ingest, TLAPS, FiniteSetTheorems

\* After the first insertion and before the end of the cleanup.
Stored == {"mothered", "insert", "stored", "unstored", "recorded", "count", "toc", "tocInsert",
           "tocStored", "tocCount", "finish", "clean"}

\* A task that is being handled has not been acknowledged, and its handler
\* computes progress at one place only.
QueuedInv ==
  \A t \in Tasks : /\ h[t] # "none" => t \in queue
                   /\ sync[t].at # "idle" => h[t] = "record"

\* Rows are flagged before cancel and remove_document delete them.
FlaggedInv ==
  api.at \in {"cancelUpdate", "cancelDrop", "removeTasks"} => rows \subseteq cancel \cup expired

\* A handler at work has a row, was cancelled, or was never told to stop.
WorkInv ==
  \A t \in Tasks : h[t] \in Busy => prog[t] # "none" \/ t \in cancel \cup expired \cup untold

\* Chunks that may be left: of handlers never told to stop, of handlers whose
\* key ran out, and of flagged handlers that have yet to clean up.
Left == {ChunkOf(t) : t \in untold \cup expired \cup {u \in cancel : h[u] \in Stored}}

\* A removed document: which requests can still be under way, when its rows are
\* gone, and whose chunks it still has.
GoneInv ==
  status = "gone" =>
    /\ api.at \in {"idle", "removeCancel", "removeTasks", "removeChunks"}
    /\ api.at \in {"idle", "removeChunks"} => \A t \in Tasks : prog[t] = "none"
    /\ (api.at = "idle" /\ crashes = 0 /\ errors = 0) =>
         store \subseteq Left /\ \A x \in extra : x[2] \in Left

\* Runs are only started below the bound, and pushed after they are numbered;
\* what is reused are parts of the run.
GenInv ==
  /\ api.at \in {"drop", "dropChunks", "read", "replace", "dropOld", "recount", "insert"} => gen < MaxRuns
  /\ api.at \in {"begin", "push"} => gen >= 1
  /\ api.reuse \subseteq api.parts

TInv == TypeOK /\ GenInv
IInv == TInv /\ QueuedInv /\ FlaggedInv /\ WorkInv /\ GoneInv

-----------------------------------------------------------------------------
(* Type correctness.                                                       *)

\* A new document has its types.
LEMMA TypeInit == Init => TInv
  <1> SUFFICES ASSUME Init PROVE TInv
    OBVIOUS
  <1>1. GenInv /\ api \in [at : Stages, del : BOOLEAN, parts : SUBSET Parts,
                          reuse : SUBSET Parts, old : SUBSET Tasks, tocs : SUBSET Tasks]
    BY DEF Init, GenInv, NoRequest, Begun, Stages
  <1>2. /\ config \in [1..MaxRuns -> Configs] /\ h \in [Tasks -> Positions]
        /\ prog \in [Tasks -> {"none", "new", "part", "done", "bad"}]
    BY DEF Init, NoRows, Configs, Positions
  <1>3. sync \in [Syncers -> [at : {"idle", "doc", "write"},
                            verdict : {"zero", "open", "fail", "done"},
                            st : Statuses \ {"cancel", "gone"}]]
    BY DEF Init, NoSync, Statuses
  <1>4. /\ status \in Statuses /\ progress \in {"zero", "part", "one", "bad"}
        /\ chunkNum \in Nat /\ gen \in 0..MaxRuns
        /\ crashes \in 0..MaxFaults /\ errors \in 0..MaxFaults
    BY IngestAssumption DEF Init, Statuses
  <1>5. /\ ids \subseteq rows /\ tocd \subseteq ids /\ queue \subseteq Tasks
        /\ cancel \subseteq Tasks /\ expired \subseteq Tasks /\ untold \subseteq Tasks
        /\ store \subseteq Chunks /\ extra \subseteq Extras
    BY DEF Init
  <1>6. {extracted, hurried} \subseteq BOOLEAN
    BY DEF Init
  <1> QED BY <1>1, <1>2, <1>3, <1>4, <1>5, <1>6 DEF TInv, TypeOK

\* Reporting progress creates and deletes no row.
LEMMA SetProgressRows ==
  ASSUME TypeOK, NEW t \in Tasks, NEW p \in {"done", "bad"}, SetProgress(t, p)
  PROVE  /\ prog' \in [Tasks -> {"none", "new", "part", "done", "bad"}]
         /\ \A x \in Tasks : prog'[x] = "none" <=> prog[x] = "none"
         /\ rows' = rows
  <1>1. prog \in [Tasks -> {"none", "new", "part", "done", "bad"}]
    BY DEF TypeOK
  <1>2. /\ prog' \in [Tasks -> {"none", "new", "part", "done", "bad"}]
        /\ \A x \in Tasks : prog'[x] = "none" <=> prog[x] = "none"
    BY <1>1 DEF SetProgress, update_progress, rows
  <1>3. rows' = rows
    BY <1>2 DEF rows
  <1> QED BY <1>2, <1>3

Requests == [at : Stages, del : BOOLEAN, parts : SUBSET Parts, reuse : SUBSET Parts,
             old : SUBSET Tasks, tocs : SUBSET Tasks]
Syncs == [at : {"idle", "doc", "write"}, verdict : {"zero", "open", "fail", "done"},
          st : Statuses \ {"cancel", "gone"}]
Progresses == {"none", "new", "part", "done", "bad"}

\* Moving a request on, and ending it.
LEMMA ApiMoves ==
  /\ api \in Requests => \A l \in Stages : ApiAt(l) =>
       /\ api' \in Requests /\ api'.at = l
       /\ api'.parts = api.parts /\ api'.reuse = api.reuse
       /\ api'.old = api.old /\ api'.tocs = api.tocs
  /\ ApiIdle => api' \in Requests /\ api'.at = "idle" /\ api'.reuse = {} /\ api'.tocs = {}
  <1>1. api \in Requests => \A l \in Stages : ApiAt(l) =>
          /\ api' \in Requests /\ api'.at = l
          /\ api'.parts = api.parts /\ api'.reuse = api.reuse
          /\ api'.old = api.old /\ api'.tocs = api.tocs
    BY DEF ApiAt, Requests
  <1>2. ApiIdle => api' \in Requests /\ api'.at = "idle" /\ api'.reuse = {} /\ api'.tocs = {}
    BY DEF ApiIdle, Requests, NoRequest, Begun, Stages
  <1> QED BY <1>1, <1>2

\* Every step keeps them.
LEMMA TypeStep == TInv /\ [Next]_vars => TInv'
  <1> SUFFICES ASSUME TInv, [Next]_vars PROVE TInv'
    OBVIOUS
  <1> USE IngestAssumption
  <1> USE DEF TInv
  <1>DropRows. CASE DropRows
    <2>1. api' \in Requests /\ GenInv'
      BY <1>DropRows, ApiMoves DEF DropRows, TypeOK, docvars, taskvars, Requests, GenInv, Stages,
         past, keys, index, DeleteRows, Untold
    <2> QED BY <1>DropRows, <2>1 DEF DropRows, TypeOK, docvars, taskvars, Requests, GenInv, rows,
       NoRows, past, keys, index, DeleteRows, Untold
  <1>DropChunks. CASE DropChunks
    <2>1. api' \in Requests /\ GenInv'
      BY <1>DropChunks, ApiMoves DEF DropChunks, TypeOK, docvars, taskvars, Requests, GenInv,
         Stages, past, keys, index, DeleteChunks
    <2> QED BY <1>DropChunks, <2>1 DEF DropChunks, TypeOK, docvars, taskvars, Requests, GenInv,
       rows, past, keys, index, DeleteChunks
  <1>QueueReplace. CASE QueueReplace
    <2>1. api' \in Requests /\ GenInv'
      BY <1>QueueReplace, ApiMoves DEF QueueReplace, TypeOK, docvars, taskvars, Requests, GenInv,
         Stages, past, keys, index, DeleteRows, Untold
    <2> QED BY <1>QueueReplace, <2>1 DEF QueueReplace, TypeOK, docvars, taskvars, Requests,
       GenInv, rows, NoRows, past, keys, index, DeleteRows, Untold
  <1>QueueDropOld. CASE QueueDropOld
    <2>1. api' \in Requests /\ GenInv'
      BY <1>QueueDropOld, ApiMoves DEF QueueDropOld, TypeOK, docvars, taskvars, Requests, GenInv,
         Stages, past, keys, index
    <2> QED BY <1>QueueDropOld, <2>1 DEF QueueDropOld, TypeOK, docvars, taskvars, Requests,
       GenInv, rows, past, keys, index
  <1>QueueRecount. CASE QueueRecount
    <2>1. api' \in Requests /\ GenInv'
      BY <1>QueueRecount, ApiMoves DEF QueueRecount, TypeOK, docvars, taskvars, Requests, GenInv,
         Stages, past, keys, index
    <2>2. IsFiniteSet(api.reuse)
      BY FS_Subset DEF TypeOK
    <2>3. chunkNum' \in Nat
      BY <1>QueueRecount, <2>2, FS_CardinalityType DEF QueueRecount, past, keys, index
    <2> QED BY <1>QueueRecount, <2>1, <2>3 DEF QueueRecount, TypeOK, docvars, taskvars, Requests,
       GenInv, rows, past, keys, index
  <1>QueueInsert. CASE QueueInsert
    <2>1. api' \in Requests /\ GenInv'
      BY <1>QueueInsert, ApiMoves DEF QueueInsert, TypeOK, docvars, taskvars, Requests, GenInv,
         Stages, past, keys, index
    <2>2. gen + 1 \in 1..MaxRuns /\ gen' \in 0..MaxRuns
      BY <1>QueueInsert DEF QueueInsert, TypeOK, GenInv
    <2>3. prog' \in [Tasks -> {"none", "new", "part", "done", "bad"}]
      BY <1>QueueInsert DEF QueueInsert, TypeOK
    <2>4. \A p \in api.reuse : <<gen + 1, p>> \in Tasks /\ prog'[<<gen + 1, p>>] # "none"
      <3> SUFFICES ASSUME NEW p \in api.reuse
                   PROVE  <<gen + 1, p>> \in Tasks /\ prog'[<<gen + 1, p>>] # "none"
        OBVIOUS
      <3>1. p \in Parts /\ p \in api.parts
        BY DEF TypeOK, GenInv
      <3>2. <<gen + 1, p>> \in Tasks
        BY <2>2, <3>1 DEF Tasks
      <3> QED BY <1>QueueInsert, <3>1, <3>2 DEF QueueInsert
    <2>5. ids' = {<<gen + 1, p>> : p \in api.reuse} /\ tocd' \subseteq ids'
      BY <1>QueueInsert DEF QueueInsert
    <2>6. ids' \subseteq rows'
      BY <2>4, <2>5 DEF rows
    <2>7. UNCHANGED <<docvars, config, untold, extracted, hurried, keys, queue, index, h, sync, crashes, errors>>
      BY <1>QueueInsert DEF QueueInsert
    <2> QED BY <2>1, <2>2, <2>3, <2>5, <2>6, <2>7 DEF TypeOK, docvars, keys, index, Requests
  <1>begin2parse. CASE begin2parse
    <2>1. api' \in Requests /\ GenInv'
      BY <1>begin2parse, ApiMoves DEF begin2parse, TypeOK, docvars, taskvars, Requests, GenInv,
         Stages, past, keys, index
    <2> QED BY <1>begin2parse, <2>1 DEF begin2parse, TypeOK, docvars, taskvars, Requests, GenInv,
       Statuses, rows, past, keys, index
  <1>QueuePush. CASE QueuePush
    <2>1. api' \in Requests /\ GenInv'
      BY <1>QueuePush, ApiMoves DEF QueuePush, TypeOK, docvars, taskvars, Requests, GenInv,
         Stages, past, keys, index
    <2> QED BY <1>QueuePush, <2>1 DEF QueuePush, TypeOK, docvars, taskvars, Requests, GenInv,
       Tasks, rows, past, keys, index
  <1>CancelUpdate. CASE CancelUpdate
    <2>1. api' \in Requests /\ GenInv'
      BY <1>CancelUpdate, ApiMoves DEF CancelUpdate, TypeOK, docvars, taskvars, Requests, GenInv,
         Stages, past, keys, index
    <2> QED BY <1>CancelUpdate, <2>1 DEF CancelUpdate, TypeOK, docvars, taskvars, Requests,
       GenInv, Statuses, rows, past, keys, index
  <1>DeleteDocs. CASE DeleteDocs
    <2>1. api' \in Requests /\ GenInv'
      BY <1>DeleteDocs, ApiMoves DEF DeleteDocs, TypeOK, docvars, taskvars, Requests, GenInv,
         Stages, past, keys, index, DeleteRows, Untold
    <2>2. hurried' \in BOOLEAN
      BY <1>DeleteDocs DEF DeleteDocs, Hurry
    <2> QED BY <1>DeleteDocs, <2>1, <2>2 DEF DeleteDocs, TypeOK, docvars, taskvars, Requests, GenInv,
       rows, NoRows, past, keys, index, DeleteRows, Untold
  <1>RemoveRow. CASE RemoveRow
    <2>1. api' \in Requests /\ GenInv'
      BY <1>RemoveRow, ApiMoves DEF RemoveRow, TypeOK, docvars, taskvars, Requests, GenInv,
         Stages, past, keys, index
    <2> QED BY <1>RemoveRow, <2>1 DEF RemoveRow, TypeOK, docvars, taskvars, Requests, GenInv,
       Statuses, rows, past, keys, index
  <1>RemoveCancel. CASE RemoveCancel
    <2>1. api' \in Requests /\ GenInv'
      BY <1>RemoveCancel, ApiMoves DEF RemoveCancel, cancel_all_task_of, TypeOK, docvars,
         taskvars, Requests, GenInv, Stages, past, keys, index
    <2> QED BY <1>RemoveCancel, <2>1 DEF RemoveCancel, cancel_all_task_of, TypeOK, docvars,
       taskvars, Requests, GenInv, rows, past, keys, index
  <1>RemoveTasks. CASE RemoveTasks
    <2>1. api' \in Requests /\ GenInv'
      BY <1>RemoveTasks, ApiMoves DEF RemoveTasks, TypeOK, docvars, taskvars, Requests, GenInv,
         Stages, past, keys, index, DeleteRows, Untold
    <2> QED BY <1>RemoveTasks, <2>1 DEF RemoveTasks, TypeOK, docvars, taskvars, Requests, GenInv,
       rows, NoRows, past, keys, index, DeleteRows, Untold
  <1>RemoveChunks. CASE RemoveChunks
    <2>1. api' \in Requests /\ GenInv'
      BY <1>RemoveChunks, ApiMoves DEF RemoveChunks, TypeOK, docvars, taskvars, Requests, GenInv,
         Stages, past, keys, index, DeleteChunks
    <2> QED BY <1>RemoveChunks, <2>1 DEF RemoveChunks, TypeOK, docvars, taskvars, Requests,
       GenInv, Error, rows, past, keys, index, DeleteChunks
  <1>RequestFails. CASE RequestFails
    <2>1. api' \in Requests /\ GenInv'
      BY <1>RequestFails, ApiMoves DEF RequestFails, TypeOK, docvars, taskvars, Requests, GenInv,
         Stages, past, keys, index
    <2> QED BY <1>RequestFails, <2>1 DEF RequestFails, TypeOK, docvars, taskvars, Requests,
       GenInv, Error, Tasks, rows, past, keys, index
  <1>RunUpdate. ASSUME NEW del \in BOOLEAN, RunUpdate(del) PROVE TInv'
    <2>1. api' \in Requests /\ GenInv'
      BY <1>RunUpdate DEF RunUpdate, Begun, TypeOK, Requests, GenInv, taskvars, Stages, past,
         keys, index
    <2>2. status' \in Statuses /\ progress' \in {"zero", "part", "one", "bad"} /\ chunkNum' \in Nat
      BY <1>RunUpdate DEF RunUpdate, TypeOK, Statuses, past, keys, index
    <2>3. hurried' \in BOOLEAN
      BY <1>RunUpdate DEF RunUpdate, Hurry
    <2> QED BY <1>RunUpdate, <2>1, <2>2, <2>3 DEF RunUpdate, TypeOK, taskvars, Requests, rows, past,
       keys, index
  <1>CancelBegin. ASSUME NEW del \in BOOLEAN, CancelBegin(del) PROVE TInv'
    <2>1. api' \in Requests /\ GenInv'
      BY <1>CancelBegin DEF CancelBegin, cancel_all_task_of, Begun, TypeOK, Requests, GenInv,
         taskvars, Stages, past, keys, index
    <2> QED BY <1>CancelBegin, <2>1 DEF CancelBegin, cancel_all_task_of, TypeOK, docvars,
       taskvars, Requests, rows, past, keys, index
  <1>QueueRead. ASSUME NEW c \in Configs, NEW parts \in SUBSET Parts, QueueRead(c, parts) PROVE TInv'
    <2>1. gen + 1 \in 1..MaxRuns /\ config' \in [1..MaxRuns -> Configs]
      BY <1>QueueRead DEF QueueRead, TypeOK, GenInv, past, keys, index
    <2>2. {t[2] : t \in {t \in rows : t[2] \in parts /\ Reusable(t, c)}} \in SUBSET Parts
      BY DEF rows, Tasks
    <2>3. ids \in SUBSET Tasks /\ tocd \in SUBSET Tasks
      BY DEF TypeOK, rows
    <2>4. api' \in Requests /\ api'.at = "replace"
      BY <1>QueueRead, <2>2, <2>3 DEF QueueRead, Requests, Stages, TypeOK, past, keys, index
    <2>5. GenInv'
      BY <1>QueueRead, <2>4 DEF QueueRead, GenInv, past, keys, index
    <2> QED BY <1>QueueRead, <2>1, <2>4, <2>5
       DEF QueueRead, TypeOK, docvars, keys, index, Requests, rows, past
  <1>Build. ASSUME NEW t \in Tasks, Build(t) PROVE TInv'
    <2>1. h' \in [Tasks -> Positions]
      BY <1>Build DEF Build, At, TypeOK, Positions, past, keys, index, Busy
    <2>2. prog' \in [Tasks -> Progresses] /\ rows' = rows
      BY <1>Build, SetProgressRows DEF Build, TypeOK, Progresses, rows, past, keys, index
    <2> QED BY <1>Build, <2>1, <2>2 DEF Build, TypeOK, docvars, GenInv, Progresses, past, keys,
       index
  <1>Embed. ASSUME NEW t \in Tasks, Embed(t) PROVE TInv'
    <2>1. h' \in [Tasks -> Positions]
      BY <1>Embed DEF Embed, At, TypeOK, Positions, past, keys, index, Busy
    <2>2. prog' \in [Tasks -> Progresses] /\ rows' = rows
      BY <1>Embed, SetProgressRows DEF Embed, TypeOK, Progresses, rows, past, keys, index
    <2> QED BY <1>Embed, <2>1, <2>2 DEF Embed, TypeOK, docvars, GenInv, Progresses, past, keys,
       index
  <1>MaybeInsert. ASSUME NEW t \in Tasks, MaybeInsert(t) PROVE TInv'
    <2>1. h' \in [Tasks -> Positions]
      BY <1>MaybeInsert DEF MaybeInsert, At, TypeOK, Positions, past, keys, index, Busy
    <2>2. prog' \in [Tasks -> Progresses] /\ rows' = rows
      BY <1>MaybeInsert, SetProgressRows DEF MaybeInsert, TypeOK, Progresses, rows, past, keys,
         index
    <2> QED BY <1>MaybeInsert, <2>1, <2>2 DEF MaybeInsert, TypeOK, docvars, GenInv, Progresses,
       past, keys, index
  <1>Finish. ASSUME NEW t \in Tasks, Finish(t) PROVE TInv'
    <2>1. h' \in [Tasks -> Positions]
      BY <1>Finish DEF Finish, At, TypeOK, Positions, past, keys, index, Busy
    <2>2. prog' \in [Tasks -> Progresses] /\ rows' = rows
      BY <1>Finish, SetProgressRows DEF Finish, TypeOK, Progresses, rows, past, keys, index
    <2> QED BY <1>Finish, <2>1, <2>2 DEF Finish, TypeOK, docvars, GenInv, Progresses, past, keys,
       index
  <1>LookAgain. ASSUME NEW t \in Tasks, LookAgain(t) PROVE TInv'
    <2>1. h' \in [Tasks -> Positions]
      BY <1>LookAgain DEF LookAgain, At, TypeOK, Positions, past, keys, index, Busy
    <2>2. prog' \in [Tasks -> Progresses] /\ rows' = rows
      BY <1>LookAgain, SetProgressRows DEF LookAgain, TypeOK, Progresses, rows, past, keys, index
    <2> QED BY <1>LookAgain, <2>1, <2>2 DEF LookAgain, TypeOK, docvars, GenInv, Progresses, past,
       keys, index
  <1>RecordIds. ASSUME NEW t \in Tasks, RecordIds(t) PROVE TInv'
    <2>1. h' \in [Tasks -> Positions]
      BY <1>RecordIds DEF RecordIds, update_chunk_ids, At, TypeOK, Positions, past, keys, index,
         Busy
    <2>2. prog' \in [Tasks -> Progresses] /\ rows' = rows
      BY <1>RecordIds, SetProgressRows DEF RecordIds, update_chunk_ids, TypeOK, Progresses, rows,
         past, keys, index
    <2> QED BY <1>RecordIds, <2>1, <2>2 DEF RecordIds, update_chunk_ids, TypeOK, docvars, GenInv,
       Progresses, past, keys, index
  <1>Collect. ASSUME NEW t \in Tasks, Collect(t) PROVE TInv'
    <2>1. h' \in [Tasks -> Positions]
      BY <1>Collect DEF Collect, At, TypeOK, Positions, past, keys, index, Busy
    <2>2. prog' \in [Tasks -> Progresses] /\ rows' = rows
      BY <1>Collect DEF Collect, TypeOK, Progresses, rows, past, keys, index
    <2>3. queue' \subseteq Tasks
      BY <1>Collect DEF Collect, TypeOK, past, keys, index
    <2> QED BY <1>Collect, <2>1, <2>2, <2>3 DEF Collect, TypeOK, docvars, GenInv, Progresses,
       past, keys, index
  <1>InsertChunk. ASSUME NEW t \in Tasks, InsertChunk(t) PROVE TInv'
    <2>1. h' \in [Tasks -> Positions]
      BY <1>InsertChunk DEF InsertChunk, At, TypeOK, Positions, past, keys, index, Busy
    <2>2. store' \subseteq Chunks /\ errors' \in 0..MaxFaults
      BY <1>InsertChunk DEF InsertChunk, TypeOK, ChunkOf, Chunks, Tasks, Error, past, keys, index,
         Extras
    <2> QED BY <1>InsertChunk, <2>1, <2>2 DEF InsertChunk, TypeOK, docvars, taskvars, GenInv,
       rows, Syncs, past, keys, index
  <1>InsertMother. ASSUME NEW t \in Tasks, InsertMother(t) PROVE TInv'
    <2>1. h' \in [Tasks -> Positions]
      BY <1>InsertMother DEF InsertMother, At, TypeOK, Positions, Busy, past, keys, index
    <2>2. extra' \subseteq Extras /\ errors' \in 0..MaxFaults
      BY <1>InsertMother DEF InsertMother, TypeOK, ChunkOf, Chunks, Extras, Tasks, Error, past,
         keys, index
    <2> QED BY <1>InsertMother, <2>1, <2>2 DEF InsertMother, TypeOK, docvars, taskvars, past,
       keys, GenInv, rows, Syncs, index
  <1>InsertToc. ASSUME NEW t \in Tasks, InsertToc(t) PROVE TInv'
    <2>1. h' \in [Tasks -> Positions]
      BY <1>InsertToc DEF InsertToc, At, TypeOK, Positions, Busy, past, keys, index
    <2>2. extra' \subseteq Extras /\ errors' \in 0..MaxFaults
      BY <1>InsertToc DEF InsertToc, TypeOK, ChunkOf, Chunks, Extras, Tasks, Error, past, keys,
         index
    <2> QED BY <1>InsertToc, <2>1, <2>2 DEF InsertToc, TypeOK, docvars, taskvars, past, keys,
       GenInv, rows, Syncs, index
  <1>RecordToc. ASSUME NEW t \in Tasks, RecordToc(t) PROVE TInv'
    <2>1. h' \in [Tasks -> Positions]
      BY <1>RecordToc DEF RecordToc, At, TypeOK, Positions, Busy, past, keys, index,
         update_chunk_ids
    <2>2. prog' \in [Tasks -> Progresses] /\ rows' = rows
      BY <1>RecordToc, SetProgressRows DEF RecordToc, TypeOK, Progresses, rows, past, keys, index,
         update_chunk_ids
    <2>3. ids' \subseteq rows' /\ tocd' \subseteq ids' /\ extracted' \in BOOLEAN
      BY <1>RecordToc, <2>2 DEF RecordToc, update_chunk_ids, TypeOK, past, keys, index
    <2> QED BY <1>RecordToc, <2>1, <2>2, <2>3 DEF RecordToc, TypeOK, docvars, keys, index, GenInv,
       Progresses, past, update_chunk_ids
  <1>CountToc. ASSUME NEW t \in Tasks, CountToc(t) PROVE TInv'
    <2>1. h' \in [Tasks -> Positions]
      BY <1>CountToc DEF CountToc, At, TypeOK, Positions, Busy, past, keys, index
    <2>2. chunkNum' \in Nat
      BY <1>CountToc DEF CountToc, TypeOK, past, keys, index
    <2> QED BY <1>CountToc, <2>1, <2>2 DEF CountToc, TypeOK, docvars, taskvars, past, keys, index,
       GenInv, rows, Syncs
  <1>CancelExpires. ASSUME NEW t \in Tasks, CancelExpires(t) PROVE TInv'
    BY <1>CancelExpires DEF CancelExpires, TypeOK, docvars, taskvars, past, index, GenInv, rows,
       keys
  <1>CountDocument. ASSUME NEW t \in Tasks, CountDocument(t) PROVE TInv'
    <2>1. h' \in [Tasks -> Positions]
      BY <1>CountDocument DEF CountDocument, At, TypeOK, Positions, past, keys, index, Busy
    <2>2. chunkNum' \in Nat
      BY <1>CountDocument DEF CountDocument, TypeOK, past, keys, index
    <2> QED BY <1>CountDocument, <2>1, <2>2 DEF CountDocument, TypeOK, docvars, taskvars, GenInv,
       rows, Syncs, past, keys, index
  <1>Clean. ASSUME NEW t \in Tasks, Clean(t) PROVE TInv'
    <2>1. h' \in [Tasks -> Positions]
      BY <1>Clean DEF Clean, At, TypeOK, Positions, past, keys, index, DeleteChunks, Busy
    <2>2. store' \subseteq Chunks /\ errors' \in 0..MaxFaults
      BY <1>Clean DEF Clean, TypeOK, Error, past, keys, index, DeleteChunks
    <2> QED BY <1>Clean, <2>1, <2>2 DEF Clean, TypeOK, docvars, taskvars, GenInv, rows, Syncs,
       past, keys, index, DeleteChunks
  <1>Ack. ASSUME NEW t \in Tasks, Ack(t) PROVE TInv'
    <2>1. h' \in [Tasks -> Positions]
      BY <1>Ack DEF Ack, At, TypeOK, Positions, past, keys, index, Busy
    <2>2. queue' \subseteq Tasks
      BY <1>Ack DEF Ack, TypeOK, past, keys, index
    <2> QED BY <1>Ack, <2>1, <2>2 DEF Ack, TypeOK, docvars, taskvars, GenInv, rows, Syncs, past,
       keys, index
  <1>Crash. ASSUME NEW t \in Tasks, Crash(t) PROVE TInv'
    <2>1. h' \in [Tasks -> Positions]
      BY <1>Crash DEF Crash, At, TypeOK, Positions, past, keys, index, Busy
    <2>2. crashes' \in 0..MaxFaults
      BY <1>Crash DEF Crash, TypeOK, past, keys, index
    <2>3. NoSync \in Syncs
      BY DEF NoSync, Syncs, Statuses
    <2>4. sync' \in [Syncers -> Syncs]
      BY <1>Crash, <2>3 DEF Crash, TypeOK, Syncs, past, keys, index
    <2> QED BY <1>Crash, <2>1, <2>2, <2>4 DEF Crash, TypeOK, docvars, taskvars, GenInv, rows,
       Syncs, past, keys, index
  <1>SyncTasks. ASSUME NEW s \in Syncers, SyncTasks(s) PROVE TInv'
    <2>1. h' \in [Tasks -> Positions]
      BY <1>SyncTasks DEF SyncTasks, EndSync, SyncAt, TypeOK, Positions, past, keys, index, Busy
    <2>2. sync' \in [Syncers -> Syncs]
      BY <1>SyncTasks DEF SyncTasks, EndSync, SyncAt, TypeOK, Syncs, NoSync, Statuses, Verdict,
         past, keys, index
    <2> QED BY <1>SyncTasks, <2>1, <2>2 DEF SyncTasks, TypeOK, docvars, taskvars, GenInv, rows,
       Syncs, past, keys, index
  <1>SyncDoc. ASSUME NEW s \in Syncers, SyncDoc(s) PROVE TInv'
    <2>1. h' \in [Tasks -> Positions]
      BY <1>SyncDoc DEF SyncDoc, EndSync, SyncAt, TypeOK, Positions, past, keys, index, Busy
    <2>2. sync' \in [Syncers -> Syncs]
      BY <1>SyncDoc DEF SyncDoc, EndSync, SyncAt, TypeOK, Syncs, NoSync, Statuses, past, keys, index
    <2> QED BY <1>SyncDoc, <2>1, <2>2 DEF SyncDoc, TypeOK, docvars, taskvars, GenInv, rows, Syncs,
       past, keys, index
  <1>SyncWrite. ASSUME NEW s \in Syncers, SyncWrite(s) PROVE TInv'
    <2>1. h' \in [Tasks -> Positions]
      BY <1>SyncWrite DEF SyncWrite, EndSync, SyncAt, TypeOK, Positions, past, keys, index, Busy
    <2>2. sync' \in [Syncers -> Syncs]
      BY <1>SyncWrite DEF SyncWrite, EndSync, SyncAt, TypeOK, Syncs, NoSync, Statuses, past, keys,
         index
    <2>3. sync[s] \in Syncs
      BY DEF TypeOK, Syncs
    <2>4. status' \in Statuses /\ progress' \in {"zero", "part", "one", "bad"}
      BY <1>SyncWrite, <2>3 DEF SyncWrite, StatusOf, ProgressOf, TypeOK, Syncs, Statuses, past,
         keys, index
    <2> QED BY <1>SyncWrite, <2>1, <2>2, <2>4 DEF SyncWrite, TypeOK, taskvars, GenInv, rows,
       Syncs, past, keys, index
  <1>Stutter. CASE UNCHANGED vars
    BY <1>Stutter DEF vars, TypeOK, docvars, taskvars, GenInv, rows, past, keys, index
  <1> QED
    BY <1>DropRows, <1>DropChunks, <1>QueueReplace, <1>QueueDropOld, <1>QueueRecount,
       <1>QueueInsert, <1>begin2parse, <1>QueuePush, <1>CancelUpdate, <1>DeleteDocs,
       <1>RemoveRow, <1>RemoveCancel, <1>RemoveTasks, <1>RemoveChunks, <1>RequestFails,
       <1>RunUpdate, <1>CancelBegin, <1>QueueRead, <1>Build, <1>Embed, <1>MaybeInsert, <1>Finish,
       <1>LookAgain, <1>RecordIds, <1>Collect, <1>InsertChunk, <1>CountDocument, <1>Clean,
       <1>InsertMother, <1>InsertToc, <1>RecordToc, <1>CountToc, <1>CancelExpires,
       <1>Ack, <1>Crash, <1>SyncTasks, <1>SyncDoc, <1>SyncWrite, <1>Stutter
    DEF Next, User, Request, Handler, Sync

\* Every table, key, position and counter keeps its type, whatever requests,
\* handlers, progress computations and failures interleave.
THEOREM IngestTypes == Spec => []TypeOK
  <1>1. TInv => TypeOK
    BY DEF TInv
  <1> QED BY <1>1, TypeInit, TypeStep, PTL DEF Spec

-----------------------------------------------------------------------------
(* What handlers and progress computations leave alone.                    *)

\* What the invariants need to know of a step of the handler of t.
HandlerEffect(t) ==
  /\ UNCHANGED <<status, cancel, expired, untold, config, api, crashes, sync>>
  /\ \A x \in Tasks : prog'[x] = "none" <=> prog[x] = "none"
  /\ \A x \in Tasks : x # t => h'[x] = h[x]
  /\ queue' \subseteq queue
  /\ \A x \in Tasks : x # t => (x \in queue' <=> x \in queue)
  /\ h[t] # "record"
  /\ h'[t] = "none" \/ t \in queue'
  /\ h'[t] \in Busy => h[t] \in Busy \/ prog[t] # "none"
  /\ errors' = 0 => errors = 0
  /\ \/ store' \subseteq store /\ extra' \subseteq extra
     \/ /\ h[t] \in Busy /\ h'[t] \in Stored
        /\ store' \subseteq store \cup {ChunkOf(t)}
        /\ \A x \in extra' : x \in extra \/ x[2] = ChunkOf(t)
  /\ (t \in cancel /\ h[t] \in Stored /\ errors' = 0) =>
       h'[t] \in Stored \/ (store' = {} /\ extra' = {})

\* Every stage of do_handle_task has the effect summarised in HandlerEffect.
LEMMA HandlerSteps ==
  ASSUME TInv, NEW t \in Tasks, Handler(t), h[t] # "none" => t \in queue
  PROVE  HandlerEffect(t)
  <1> USE DEF HandlerEffect, Busy, Stored
  <1>1. h \in [Tasks -> Positions] /\ prog \in [Tasks -> Progresses] /\ TypeOK /\ errors \in Nat
    BY IngestAssumption DEF TInv, TypeOK, Progresses
  <1>Build. CASE Build(t)
    <2>1. \A x \in Tasks : prog'[x] = "none" <=> prog[x] = "none"
      BY <1>Build, <1>1, SetProgressRows DEF Build, past, keys, index
    <2> QED BY <1>Build, <1>1, <2>1 DEF Build, At, docvars, past, keys, index
  <1>Embed. CASE Embed(t)
    <2>1. \A x \in Tasks : prog'[x] = "none" <=> prog[x] = "none"
      BY <1>Embed, <1>1, SetProgressRows DEF Embed, past, keys, index
    <2> QED BY <1>Embed, <1>1, <2>1 DEF Embed, At, docvars, past, keys, index
  <1>MaybeInsert. CASE MaybeInsert(t)
    <2>1. \A x \in Tasks : prog'[x] = "none" <=> prog[x] = "none"
      BY <1>MaybeInsert, <1>1, SetProgressRows DEF MaybeInsert, past, keys, index
    <2> QED BY <1>MaybeInsert, <1>1, <2>1 DEF MaybeInsert, At, docvars, past, keys, index
  <1>Finish. CASE Finish(t)
    <2>1. \A x \in Tasks : prog'[x] = "none" <=> prog[x] = "none"
      BY <1>Finish, <1>1, SetProgressRows DEF Finish, past, keys, index
    <2> QED BY <1>Finish, <1>1, <2>1 DEF Finish, At, docvars, past, keys, index
  <1>LookAgain. CASE LookAgain(t)
    <2>1. \A x \in Tasks : prog'[x] = "none" <=> prog[x] = "none"
      BY <1>LookAgain, <1>1, SetProgressRows DEF LookAgain, past, keys, index
    <2> QED BY <1>LookAgain, <1>1, <2>1 DEF LookAgain, At, docvars, past, keys, index
  <1>RecordIds. CASE RecordIds(t)
    <2>1. \A x \in Tasks : prog'[x] = "none" <=> prog[x] = "none"
      BY <1>RecordIds, <1>1, SetProgressRows DEF RecordIds, update_chunk_ids, past, keys, index
    <2> QED BY <1>RecordIds, <1>1, <2>1 DEF RecordIds, update_chunk_ids, At, docvars, past, keys,
       index
  <1>Collect. CASE Collect(t)
    BY <1>Collect, <1>1 DEF Collect, At, docvars, rows, past, keys, index
  <1>InsertChunk. CASE InsertChunk(t)
    BY <1>InsertChunk, <1>1 DEF InsertChunk, At, docvars, taskvars, Error, past, keys, index
  <1>CountDocument. CASE CountDocument(t)
    BY <1>CountDocument, <1>1 DEF CountDocument, At, taskvars, past, keys, index
  <1>Clean. CASE Clean(t)
    BY <1>Clean, <1>1 DEF Clean, At, docvars, taskvars, Error, past, keys, index, DeleteChunks
  <1>InsertMother. CASE InsertMother(t)
    BY <1>InsertMother, <1>1 DEF InsertMother, At, docvars, taskvars, past, keys, Error, index
  <1>InsertToc. CASE InsertToc(t)
    BY <1>InsertToc, <1>1 DEF InsertToc, At, docvars, taskvars, past, keys, Error, index
  <1>RecordToc. CASE RecordToc(t)
    <2>1. \A x \in Tasks : prog'[x] = "none" <=> prog[x] = "none"
      BY <1>RecordToc, <1>1, SetProgressRows DEF RecordToc, past, keys, index, update_chunk_ids
    <2> QED BY <1>RecordToc, <1>1, <2>1 DEF RecordToc, update_chunk_ids, At, docvars, keys, index,
       past
  <1>CountToc. CASE CountToc(t)
    BY <1>CountToc, <1>1 DEF CountToc, At, taskvars, past, keys, index
  <1>Ack. CASE Ack(t)
    BY <1>Ack, <1>1 DEF Ack, At, docvars, taskvars, past, keys, index
  <1> QED
    BY <1>Build, <1>Embed, <1>MaybeInsert, <1>Finish, <1>LookAgain, <1>RecordIds, <1>Collect,
       <1>InsertChunk, <1>CountDocument, <1>Clean, <1>Ack, <1>InsertMother, <1>InsertToc,
       <1>RecordToc, <1>CountToc DEF Handler

\* A progress computation touches no row, chunk or key, revives no document,
\* and only moves its own handler, from recording to acknowledging.
SyncEffect(s) ==
  /\ UNCHANGED <<gen, config, prog, ids, cancel, expired, untold, queue, store, extra, api,
                 crashes, errors>>
  /\ status' = "gone" <=> status = "gone"
  /\ \A x \in Tasks : h'[x] = h[x] \/ (h[x] = "record" /\ h'[x] = "ack" /\ sync'[x].at = "idle")
  /\ \A x \in Tasks : sync'[x].at # "idle" => h'[x] = "record"

\* Every stage of _sync_progress has the effect summarised in SyncEffect.
LEMMA SyncSteps ==
  ASSUME TInv, QueuedInv, NEW s \in Syncers, Sync(s)
  PROVE  SyncEffect(s)
  <1>1. /\ h \in [Tasks -> Positions]
        /\ sync \in [Syncers -> Syncs]
        /\ Tasks \subseteq Syncers /\ Thread \notin Tasks
    BY IngestAssumption DEF TInv, TypeOK, Syncs, Syncers, Tasks
  <1>2. \A x \in Tasks : sync[x].at # "idle" => h[x] = "record"
    BY DEF QueuedInv
  <1>3. s # Thread => s \in Tasks
    BY DEF Syncers
  <1>4. sync[s].at # "idle" \/ (s # Thread => h[s] = "record")
    BY DEF Sync, SyncTasks, SyncDoc, SyncWrite, past, keys, index
  <1>5. s # Thread => h[s] = "record"
    BY <1>2, <1>3, <1>4
  <1> DEFINE Moves == /\ \A x \in Tasks : h'[x] = h[x] \/ (h[x] = "record" /\ h'[x] = "ack" /\ sync'[x].at = "idle")
                     /\ \A x \in Tasks : sync'[x].at # "idle" => h'[x] = "record"
  <1>6. ASSUME EndSync(s) PROVE Moves
    <2>1. \A x \in Tasks : h'[x] = IF x = s THEN "ack" ELSE h[x]
      BY <1>1, <1>3, <1>6 DEF EndSync
    <2>2. \A x \in Tasks : sync'[x] = IF x = s THEN NoSync ELSE sync[x]
      BY <1>1, <1>6 DEF EndSync
    <2>3. NoSync.at = "idle"
      BY DEF NoSync
    <2> QED BY <1>1, <1>2, <1>5, <2>1, <2>2, <2>3
  <1>7. ASSUME NEW l, NEW v, NEW st, SyncAt(s, l, v, st) PROVE Moves
    <2>1. \A x \in Tasks : x # s => sync'[x] = sync[x]
      BY <1>1, <1>7 DEF SyncAt
    <2> QED BY <1>1, <1>2, <1>5, <1>7, <2>1 DEF SyncAt
  <1>8. CASE SyncTasks(s)
    <2>1. Moves
      BY <1>6, <1>7, <1>8 DEF SyncTasks, past, keys, index
    <2> QED BY <1>8, <2>1 DEF SyncTasks, SyncEffect, docvars, taskvars, past, keys, index
  <1>9. CASE SyncDoc(s)
    <2>1. Moves
      BY <1>6, <1>7, <1>9 DEF SyncDoc, past, keys, index
    <2> QED BY <1>9, <2>1 DEF SyncDoc, SyncEffect, docvars, taskvars, past, keys, index
  <1>10. CASE SyncWrite(s)
    <2>1. Moves
      BY <1>6, <1>10 DEF SyncWrite, past, keys, index
    <2>2. StatusOf(s) # "gone"
      BY <1>1 DEF StatusOf, Syncs
    <2> QED BY <1>10, <2>1, <2>2 DEF SyncWrite, SyncEffect, taskvars, past, keys, index
  <1> QED BY <1>8, <1>9, <1>10 DEF Sync

-----------------------------------------------------------------------------
(* The inductive invariant.                                                *)

Rest == QueuedInv /\ FlaggedInv /\ WorkInv /\ GoneInv

\* The rest of the invariant: initially,
LEMMA RestInit == Init => Rest
  BY IngestAssumption DEF Init, Rest, QueuedInv, FlaggedInv, WorkInv, Busy,
     GoneInv, NoRequest, Begun, NoSync, NoRows, Syncers, Tasks

\* ... under the steps of a handler,
LEMMA RestHandler ==
  ASSUME TInv, Rest, NEW t \in Tasks, Handler(t)
  PROVE  Rest'
  <1>1. HandlerEffect(t)
    BY HandlerSteps DEF Rest, QueuedInv
  <1>2. QueuedInv'
    BY <1>1 DEF HandlerEffect, Rest, QueuedInv
  <1>3. FlaggedInv'
    BY <1>1 DEF HandlerEffect, Rest, FlaggedInv, rows
  <1>4. WorkInv'
    BY <1>1 DEF HandlerEffect, Rest, WorkInv
  <1>5. GoneInv'
    <2> SUFFICES ASSUME status = "gone", GoneInv, WorkInv PROVE GoneInv'
      BY <1>1 DEF HandlerEffect, Rest, GoneInv
    <2>1. ASSUME api.at = "idle", crashes = 0, errors' = 0
          PROVE  store' \subseteq Left' /\ \A x \in extra' : x[2] \in Left'
      <3>1. \A x \in Tasks : prog[x] = "none"
        BY <2>1 DEF GoneInv
      <3>2. store \subseteq Left /\ \A x \in extra : x[2] \in Left
        BY <1>1, <2>1 DEF GoneInv, HandlerEffect
      <3>3. h[t] \in Busy => t \in cancel \cup expired \cup untold
        BY <3>1 DEF WorkInv
      <3>4. \A x \in Tasks : ChunkOf(x)' = ChunkOf(x)
        BY <1>1 DEF HandlerEffect, ChunkOf
      <3>5. cancel \subseteq Tasks /\ expired \subseteq Tasks /\ untold \subseteq Tasks
        BY DEF TInv, TypeOK
      <3>6. CASE store' = {} /\ extra' = {}
        BY <3>6
      <3>7. CASE ~(store' = {} /\ extra' = {})
        <4>1. t \in cancel /\ h[t] \in Stored => h'[t] \in Stored
          BY <1>1, <2>1, <3>7 DEF HandlerEffect
        <4>2. Left \subseteq Left'
          BY <1>1, <3>4, <3>5, <4>1 DEF HandlerEffect, Left
        <4>3. h[t] \in Busy /\ h'[t] \in Stored => ChunkOf(t) \in Left'
          BY <1>1, <3>3, <3>4, <3>5 DEF HandlerEffect, Left
        <4> QED BY <1>1, <3>2, <4>2, <4>3 DEF HandlerEffect
      <3> QED BY <3>6, <3>7
    <2> QED BY <1>1, <2>1 DEF HandlerEffect, GoneInv
  <1> QED BY <1>2, <1>3, <1>4, <1>5 DEF Rest

\* ... of a progress computation,
LEMMA RestSync ==
  ASSUME TInv, Rest, NEW s \in Syncers, Sync(s)
  PROVE  Rest'
  <1>1. SyncEffect(s)
    BY SyncSteps DEF Rest
  <1>2. QueuedInv'
    BY <1>1 DEF SyncEffect, Rest, QueuedInv
  <1>3. FlaggedInv'
    BY <1>1 DEF SyncEffect, Rest, FlaggedInv, rows
  <1>4. WorkInv'
    BY <1>1 DEF SyncEffect, Rest, WorkInv, Busy
  <1>5. Left \subseteq Left'
    <2>1. \A x \in Tasks : ChunkOf(x)' = ChunkOf(x)
      BY <1>1 DEF SyncEffect, ChunkOf
    <2>2. \A x \in Tasks : h[x] \in Stored => h'[x] \in Stored
      BY <1>1 DEF SyncEffect, Stored
    <2>3. cancel \subseteq Tasks /\ expired \subseteq Tasks /\ untold \subseteq Tasks
      BY DEF TInv, TypeOK
    <2> QED BY <1>1, <2>1, <2>2, <2>3 DEF SyncEffect, Left
  <1>6. GoneInv'
    BY <1>1, <1>5 DEF SyncEffect, Rest, GoneInv
  <1> QED BY <1>2, <1>3, <1>4, <1>6 DEF Rest

\* ... when an executor dies,
LEMMA RestCrash ==
  ASSUME TInv, Rest, NEW t \in Tasks, Crash(t)
  PROVE  Rest'
  <1>1. /\ \A x \in Tasks : h'[x] = IF x = t THEN "none" ELSE h[x]
        /\ \A x \in Tasks : sync'[x] = IF x = t THEN NoSync ELSE sync[x]
        /\ NoSync.at = "idle"
    BY DEF TInv, TypeOK, Crash, At, Syncers, NoSync, past, keys, index
  <1>2. /\ crashes' # 0
        /\ UNCHANGED <<status, prog, cancel, expired, untold, queue, api>>
    BY IngestAssumption DEF Crash, docvars, taskvars, TInv, TypeOK, past, keys, index
  <1>3. QueuedInv'
    BY <1>1, <1>2 DEF Rest, QueuedInv
  <1>4. FlaggedInv' /\ WorkInv'
    BY <1>1, <1>2 DEF Rest, FlaggedInv, WorkInv, Busy, rows
  <1>5. GoneInv'
    BY <1>2 DEF Rest, GoneInv
  <1> QED BY <1>3, <1>4, <1>5 DEF Rest

\* ... when a cancel key runs out,
LEMMA RestExpires ==
  ASSUME TInv, Rest, NEW t \in Tasks, CancelExpires(t)
  PROVE  Rest'
  <1>1. /\ cancel' = cancel \ {t} /\ expired' = expired \cup {t}
        /\ UNCHANGED <<status, config, prog, untold, queue, store, extra, h, sync, api, crashes,
                       errors>>
    BY DEF CancelExpires, docvars, taskvars, past, index, keys
  <1>2. QueuedInv' /\ FlaggedInv' /\ WorkInv'
    BY <1>1 DEF Rest, QueuedInv, FlaggedInv, WorkInv, rows
  <1>3. Left \subseteq Left'
    BY <1>1 DEF Left, ChunkOf
  <1>4. GoneInv'
    BY <1>1, <1>3 DEF Rest, GoneInv
  <1> QED BY <1>2, <1>4 DEF Rest

\* ... and under the stages of a request.
LEMMA RestRequest ==
  ASSUME TInv, Rest, Request \/ User \/ RequestFails
  PROVE  Rest'
  <1>1. api \in Requests /\ prog \in [Tasks -> Progresses] /\ errors \in Nat
    BY IngestAssumption DEF TInv, TypeOK, Requests, Progresses
  <1> USE DEF Rest, QueuedInv, FlaggedInv, WorkInv, GoneInv
  <1>DropRows. CASE DropRows
    <2>1. api'.at = IF api.at = "drop" THEN "dropChunks" ELSE "cancelDropChunks"
      BY <1>DropRows, <1>1, ApiMoves DEF DropRows, Stages, past, keys, index, DeleteRows, Untold
    <2> QED BY <1>DropRows, <1>1, <2>1 DEF DropRows, docvars, NoRows, Busy, rows, past, keys,
       index, DeleteRows, Untold
  <1>DropChunks. CASE DropChunks
    <2>1. api'.at = IF api.at = "dropChunks" THEN "read" ELSE "idle"
      BY <1>DropChunks, <1>1, ApiMoves DEF DropChunks, Stages, past, keys, index, DeleteChunks
    <2> QED BY <1>DropChunks, <1>1, <2>1 DEF DropChunks, docvars, taskvars, past, keys, index,
       DeleteChunks
  <1>QueueReplace. CASE QueueReplace
    <2>1. api'.at = "dropOld"
      BY <1>QueueReplace, <1>1, ApiMoves DEF QueueReplace, Stages, past, keys, index, DeleteRows,
         Untold
    <2> QED BY <1>QueueReplace, <1>1, <2>1 DEF QueueReplace, rows, docvars, NoRows, Busy, past, keys,
       index, DeleteRows, Untold
  <1>QueueDropOld. CASE QueueDropOld
    <2>1. api'.at = "recount"
      BY <1>QueueDropOld, <1>1, ApiMoves DEF QueueDropOld, Stages, past, keys, index
    <2> QED BY <1>QueueDropOld, <1>1, <2>1 DEF QueueDropOld, docvars, taskvars, past, keys, index
  <1>QueueRecount. CASE QueueRecount
    <2>1. api'.at = "insert"
      BY <1>QueueRecount, <1>1, ApiMoves DEF QueueRecount, Stages, past, keys, index
    <2> QED BY <1>QueueRecount, <1>1, <2>1 DEF QueueRecount, taskvars, past, keys, index
  <1>QueueInsert. CASE QueueInsert
    <2>1. api'.at = "begin"
      BY <1>QueueInsert, <1>1, ApiMoves DEF QueueInsert, Stages, past, keys, index
    <2> QED BY <1>QueueInsert, <1>1, <2>1 DEF QueueInsert, docvars, Busy, past, keys, index
  <1>begin2parse. CASE begin2parse
    <2>1. api'.at = "push"
      BY <1>begin2parse, <1>1, ApiMoves DEF begin2parse, Stages, past, keys, index
    <2> QED BY <1>begin2parse, <1>1, <2>1 DEF begin2parse, taskvars, past, keys, index
  <1>QueuePush. CASE QueuePush
    <2>1. api'.at = "idle"
      BY <1>QueuePush, <1>1, ApiMoves DEF QueuePush, Stages, past, keys, index
    <2> QED BY <1>QueuePush, <1>1, <2>1 DEF QueuePush, docvars, taskvars, past, keys, index
  <1>RequestFails. CASE RequestFails
    <2>1. api'.at = "idle"
      BY <1>RequestFails, <1>1, ApiMoves DEF RequestFails, Stages, past, keys, index
    <2> QED BY <1>RequestFails, <1>1, <2>1 DEF RequestFails, docvars, taskvars, past, keys, index
  <1>CancelUpdate. CASE CancelUpdate
    <2>1. api'.at = IF api.del THEN "cancelDrop" ELSE "idle"
      BY <1>CancelUpdate, <1>1, ApiMoves DEF CancelUpdate, Stages, past, keys, index
    <2> QED BY <1>CancelUpdate, <1>1, <2>1 DEF CancelUpdate, taskvars, rows, past, keys, index
  <1>DeleteDocs. CASE DeleteDocs
    <2>1. api'.at = "remove"
      BY <1>DeleteDocs, <1>1, ApiMoves DEF DeleteDocs, Stages, past, keys, index, DeleteRows, Untold
    <2> QED BY <1>DeleteDocs, <1>1, <2>1 DEF DeleteDocs, rows, docvars, NoRows, Busy, past, keys, index,
       DeleteRows, Untold
  <1>RemoveRow. CASE RemoveRow
    <2>1. api'.at = "removeCancel"
      BY <1>RemoveRow, <1>1, ApiMoves DEF RemoveRow, Stages, past, keys, index
    <2> QED BY <1>RemoveRow, <1>1, <2>1 DEF RemoveRow, taskvars, past, keys, index
  <1>RemoveCancel. CASE RemoveCancel
    <2>1. api'.at = "removeTasks"
      BY <1>RemoveCancel, <1>1, ApiMoves DEF RemoveCancel, cancel_all_task_of, Stages, past, keys,
         index
    <2> QED BY <1>RemoveCancel, <1>1, <2>1 DEF RemoveCancel, cancel_all_task_of, docvars,
       taskvars, rows, past, keys, index
  <1>RemoveTasks. CASE RemoveTasks
    <2>1. api'.at = "removeChunks"
      BY <1>RemoveTasks, <1>1, ApiMoves DEF RemoveTasks, Stages, past, keys, index, DeleteRows,
         Untold
    <2> QED BY <1>RemoveTasks, <1>1, <2>1 DEF RemoveTasks, docvars, NoRows, Busy, rows, past,
       keys, index, DeleteRows, Untold
  <1>RemoveChunks. CASE RemoveChunks
    <2>1. api'.at = "idle"
      BY <1>RemoveChunks, <1>1, ApiMoves DEF RemoveChunks, Stages, past, keys, index, DeleteChunks
    <2> QED BY <1>RemoveChunks, <1>1, <2>1 DEF RemoveChunks, docvars, taskvars, Error, past, keys,
       index, DeleteChunks
  <1>RunUpdate. ASSUME NEW del \in BOOLEAN, RunUpdate(del) PROVE Rest'
    <2>1. api'.at \in {"drop", "read"}
      BY <1>RunUpdate DEF RunUpdate, Begun, past, keys, index
    <2> QED BY <1>RunUpdate, <2>1 DEF RunUpdate, taskvars, past, keys, index
  <1>CancelBegin. ASSUME NEW del \in BOOLEAN, CancelBegin(del) PROVE Rest'
    <2>1. api'.at = "cancelUpdate" /\ status # "gone"
      BY <1>CancelBegin DEF CancelBegin, cancel_all_task_of, Begun, past, keys, index
    <2> QED BY <1>CancelBegin, <2>1 DEF CancelBegin, cancel_all_task_of, docvars, taskvars, rows,
       past, keys, index
  <1>QueueRead. ASSUME NEW c \in Configs, NEW parts \in SUBSET Parts, QueueRead(c, parts) PROVE Rest'
    <2>1. api'.at = "replace"
      BY <1>QueueRead DEF QueueRead, past, keys, index
    <2> QED BY <1>QueueRead, <2>1 DEF QueueRead, docvars, past, keys, index
  <1> HIDE DEF Rest
  <1> QED
    BY <1>DropRows, <1>DropChunks, <1>QueueReplace, <1>QueueDropOld, <1>QueueRecount,
       <1>QueueInsert, <1>begin2parse, <1>QueuePush, <1>RequestFails, <1>CancelUpdate,
       <1>DeleteDocs, <1>RemoveRow, <1>RemoveCancel, <1>RemoveTasks, <1>RemoveChunks,
       <1>RunUpdate, <1>CancelBegin, <1>QueueRead DEF Request, User

\* The invariant is inductive.
LEMMA IngestInductive ==
  /\ Init => IInv
  /\ IInv /\ [Next]_vars => IInv'
  <1>1. Init => IInv
    BY TypeInit, RestInit DEF IInv, Rest
  <1>2. IInv /\ [Next]_vars => IInv'
    <2> SUFFICES ASSUME TInv, Rest, [Next]_vars PROVE Rest'
      BY TypeStep DEF IInv, Rest
    <2>1. CASE UNCHANGED vars
      BY <2>1 DEF vars, docvars, taskvars, past, keys, index, Rest, QueuedInv, FlaggedInv,
         WorkInv, GoneInv, Left, ChunkOf, rows
    <2> QED BY <2>1, RestRequest, RestHandler, RestCrash, RestExpires, RestSync DEF Next
  <1> QED BY <1>1, <1>2

\* What a removed document leaves in the store, once no handler is at work on it,
\* comes from handlers that were never told to stop (delete_docs or /run deleted
\* their row without a cancel key) or whose key ran out; remove_document,
\* cancel_all_task_of and the cleanup in do_handle_task see to all others.  For
\* any user, any number of parts and earlier runs, with no executor dying and no
\* call failing.
THEOREM RemovalIsClean == Spec => []GhostsExplained
  <1>1. ASSUME IInv, RemovedCleanly
        PROVE  LET left == {ChunkOf(t) : t \in untold \cup expired}
               IN  store \subseteq left /\ \A x \in extra : x[2] \in left
    <2>1. store \subseteq Left /\ \A x \in extra : x[2] \in Left
      BY <1>1 DEF IInv, GoneInv, RemovedCleanly
    <2>2. \A u \in cancel : h[u] \notin Stored
      BY <1>1 DEF IInv, TInv, TypeOK, RemovedCleanly, Stored, Busy
    <2> QED BY <2>1, <2>2 DEF Left
  <1>2. IInv => GhostsExplained
    BY <1>1 DEF GhostsExplained
  <1> QED BY <1>2, IngestInductive, PTL DEF Spec

\* Only a request of the user makes a cancelled document anything else: the
\* writes of _sync_progress, however stale what they were computed from, do not.
THEOREM CancellationSticks == Spec => CancelSticks
  <1>1. ASSUME TInv, Next, status = "cancel", status' \notin {"cancel", "gone"}
        PROVE  api' # api
    <2>1. api \in Requests
      BY <1>1 DEF TInv, TypeOK, Requests
    <2>2. ASSUME NEW del \in BOOLEAN, RunUpdate(del) PROVE api' # api
      BY <2>2 DEF RunUpdate, Begun, past, keys, index
    <2>3. ASSUME NEW del \in BOOLEAN, CancelBegin(del) PROVE status' = status
      BY <2>3 DEF CancelBegin, docvars, past, keys, index
    <2>4. CASE begin2parse
      <3>1. api'.at = "push"
        BY <2>1, <2>4, ApiMoves DEF begin2parse, Stages, past, keys, index
      <3> QED BY <2>4, <3>1 DEF begin2parse, past, keys, index
    <2>5. DeleteDocs \/ RequestFails => status' = status
      BY DEF DeleteDocs, RequestFails, docvars, past, keys, index, DeleteRows, Untold
    <2>6. RemoveRow \/ CancelUpdate => status' \in {"cancel", "gone"}
      BY DEF RemoveRow, CancelUpdate, past, keys, index
    <2>7. ASSUME NEW c \in Configs, NEW parts \in SUBSET Parts, QueueRead(c, parts)
          PROVE  status' = status
      BY <2>7 DEF QueueRead, docvars, past, keys, index
    <2>8. /\ DropRows \/ DropChunks \/ QueueReplace \/ QueueDropOld => status' = status
          /\ QueueRecount \/ QueueInsert \/ QueuePush => status' = status
          /\ RemoveCancel \/ RemoveTasks \/ RemoveChunks => status' = status
      BY DEF DropRows, DropChunks, QueueReplace, QueueDropOld, QueueRecount, QueueInsert,
         QueuePush, RemoveCancel, RemoveTasks, RemoveChunks, docvars, past, keys, index,
         DeleteRows, Untold, DeleteChunks
    <2>9. ASSUME NEW t \in Tasks, Handler(t) \/ Crash(t) \/ CancelExpires(t)
          PROVE  status' = status
      BY <2>9 DEF Handler, Collect, Build, Embed, MaybeInsert, InsertMother, InsertToc, RecordToc,
         CountToc, CancelExpires, InsertChunk, RecordIds, LookAgain, CountDocument, Finish, Clean,
         Ack, Crash, docvars, past, keys, index, DeleteChunks, update_chunk_ids
    <2>10. ASSUME NEW s \in Syncers, Sync(s) PROVE status' = status
      BY <1>1, <2>10 DEF Sync, SyncTasks, SyncDoc, SyncWrite, docvars, past, keys, index
    <2> QED BY <1>1, <2>2, <2>3, <2>4, <2>5, <2>6, <2>7, <2>8, <2>9, <2>10 DEF Next, User, Request
  <1>2. TInv /\ [Next]_vars =>
          [status = "cancel" /\ status' \notin {"cancel", "gone"} => api' # api]_vars
    BY <1>1 DEF vars
  <1> QED BY <1>2, TypeInit, TypeStep, PTL DEF Spec, CancelSticks
=============================================================================
