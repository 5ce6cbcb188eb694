-------------------------------- MODULE Ingest --------------------------------
(***************************************************************************)
(* The life of one document: parsing, cancelling, parsing again, removing. *)
(*                                                                         *)
(* A /run request replaces the tasks of the document, one per part (page   *)
(* range), and queues them; executors handle them and put chunks into the  *)
(* document store; the status of the document is an aggregate of its tasks *)
(* that the progress thread and every finishing handler compute and write. *)
(* Requests, handlers and these writers share no lock: each statement or   *)
(* document store call is a step.                                          *)
(*                                                                         *)
(* TaskStream models delivery; here the queue only keeps a task until its  *)
(* handler acknowledges it, and each handler runs in an executor of its    *)
(* own.  The user waits for the answer of a request before sending the     *)
(* next.  One chunk stands for those of a part; beside it the document     *)
(* store may hold its mother chunk (the text the chunk was split from) and *)
(* a table of contents, which no task row records or only one records.     *)
(***************************************************************************)
EXTENDS Integers, FiniteSets

CONSTANTS
  Parts,       \* page ranges of the document
  Thread,      \* the progress thread of the API server
  Patient,     \* bound: the user only parses again, or deletes, a document whose
               \* tasks have all been acknowledged
  RichConfigs, \* configurations that split chunks into children
               \* (children_delimiter) and extract a table of contents (toc_extraction)
  MaxRuns,     \* bound: /run requests that start parsing
  MaxExpired,  \* bound: tasks whose cancel key runs out
  MaxFaults    \* bound: executor deaths and failed calls of the API server, the
               \* store or Redis; below the three attempts of get_task

ASSUME IngestAssumption ==
  /\ IsFiniteSet(Parts)
  /\ Patient \in BOOLEAN
  /\ RichConfigs \subseteq {0, 1}
  /\ MaxRuns \in Nat /\ MaxExpired \in Nat /\ MaxFaults \in 0..2
  /\ Thread \notin (1..MaxRuns) \X Parts

Tasks == (1..MaxRuns) \X Parts
Syncers == {Thread} \cup Tasks

\* Chunk ids are hashes of the content: the same part under the same chunking
\* configuration gives the same id in every run.
Configs == {0, 1}
Chunks == Parts \X Configs
Extras == {"mother", "toc"} \X Chunks

VARIABLES
  status,    \* document.run, or "gone"
  progress,  \* document.progress: zero, part, one, bad (-1)
  chunkNum,  \* document.chunk_num
  gen,       \* number of the current run
  config,    \* run -> chunking configuration its digests were computed from
  prog,      \* Tasks -> task.progress: new, part, done, bad (-1); none without a row
  ids,       \* tasks whose chunk_ids are recorded
  tocd,      \* those whose chunk_ids are the id of a table of contents alone
  cancel,    \* tasks with a "{id}-cancel" key
  queue,     \* tasks queued and not acknowledged
  store,     \* chunks of the document in the document store
  extra,     \* its mother chunks and tables of contents there
  h,         \* Tasks -> where the handler stands
  sync,      \* Syncers -> [at, verdict, st] of a _sync_progress in progress
  api,       \* [at, del, parts, reuse, old, tocs] of the request in progress
  crashes, errors,  \* used up so far
  expired,   \* history: tasks whose cancel key ran out
  untold,    \* history: tasks whose row was deleted under their handler at
             \* work, without a cancel key
  extracted, \* history: a table of contents has taken the place of chunk_ids
  hurried    \* history: parsed again, or deleted, with tasks still queued

docvars == <<status, progress, chunkNum>>
past == <<gen, config, untold, extracted, hurried>>
taskvars == <<past, prog, ids, tocd>>
keys == <<cancel, expired>>
index == <<store, extra>>
vars == <<docvars, taskvars, keys, queue, index, h, sync, api, crashes, errors>>

\* Rows of the task table.
rows == {t \in Tasks : prog[t] # "none"}
NoRows == [t \in Tasks |-> "none"]

ChunkOf(t) == <<t[2], config[t[1]]>>
Rich(t) == config[t[1]] \in RichConfigs

NoSync == [at |-> "idle", verdict |-> "zero", st |-> "unstart"]
Begun(l, d) == [at |-> l, del |-> d, parts |-> {}, reuse |-> {}, old |-> {}, tocs |-> {}]
NoRequest == Begun("idle", FALSE)

\* One more failed call.
Error == crashes + errors < MaxFaults /\ errors' = errors + 1

Init ==
  /\ status = "unstart"
  /\ progress = "zero"
  /\ chunkNum = 0
  /\ gen = 0
  /\ config = [g \in 1..MaxRuns |-> 0]
  /\ prog = NoRows
  /\ ids = {}
  /\ tocd = {}
  /\ cancel = {}
  /\ queue = {}
  /\ store = {}
  /\ extra = {}
  /\ h = [t \in Tasks |-> "none"]
  /\ sync = [s \in Syncers |-> NoSync]
  /\ api = NoRequest
  /\ crashes = 0
  /\ errors = 0
  /\ expired = {}
  /\ untold = {}
  /\ extracted = FALSE
  /\ hurried = FALSE

-----------------------------------------------------------------------------
(* POST /document/run with run=RUNNING; del says whether "delete" is set.  *)

ApiAt(l) == api' = [at |-> l, del |-> api.del, parts |-> api.parts,
                    reuse |-> api.reuse, old |-> api.old, tocs |-> api.tocs]
ApiIdle == api' = NoRequest

\* The history of requests made with tasks still queued.
Hurry == hurried' = (hurried \/ queue # {})

\* update_by_id(info).
RunUpdate(del) ==
  /\ api.at = "idle"
  /\ status # "gone"
  /\ gen < MaxRuns
  /\ Patient => queue = {}
  /\ Hurry
  /\ status' = "running"
  /\ progress' = "zero"
  /\ chunkNum' = IF del THEN 0 ELSE chunkNum
  /\ api' = Begun(IF del THEN "drop" ELSE "read", del)
  /\ UNCHANGED <<gen, config, untold, extracted, prog, ids, tocd>>
  /\ UNCHANGED <<keys, queue, index, h, sync, crashes, errors>>

\* Where the handler of a task stands between taking it and the end of
\* do_handle_task.
Busy == {"build", "embed", "try", "mother", "mothered", "insert", "stored", "unstored",
         "recorded", "count", "toc", "tocInsert", "tocStored", "tocCount", "finish", "clean"}

\* filter_delete of the task rows; without cancel keys, nobody is told to stop.
DeleteRows == prog' = NoRows /\ ids' = {} /\ tocd' = {}
Untold == untold' = untold \cup {t \in rows \ cancel : h[t] \in Busy}

\* delete=true: the task rows go, then the chunks.
DropRows ==
  /\ api.at \in {"drop", "cancelDrop"}
  /\ DeleteRows
  /\ IF api.at = "drop" THEN Untold ELSE untold' = untold
  /\ ApiAt(IF api.at = "drop" THEN "dropChunks" ELSE "cancelDropChunks")
  /\ UNCHANGED <<docvars, gen, config, extracted, hurried, keys, queue, index, h, sync, crashes, errors>>

\* docStoreConn.delete of everything that has the document's id.
DeleteChunks == store' = {} /\ extra' = {}

DropChunks ==
  /\ api.at \in {"dropChunks", "cancelDropChunks"}
  /\ DeleteChunks
  /\ IF api.at = "dropChunks" THEN ApiAt("read") ELSE ApiIdle
  /\ UNCHANGED <<docvars, taskvars, keys, queue, h, sync, crashes, errors>>

\* Mutant: the digest is not compared.
ReusableAnyDigest(t, c) == prog[t] = "done" /\ t \in ids

\* reuse_prev_task_chunks: same digest, finished, with chunk ids.
Reusable(t, c) == prog[t] = "done" /\ t \in ids /\ config[t[1]] = c

\* queue_tasks divides the file into parts (none when it has no page or row in
\* the ranges asked for), reads the previous tasks and decides what to keep; c
\* is the configuration in force.
QueueRead(c, parts) ==
  /\ api.at = "read"
  /\ LET kept == {t \in rows : t[2] \in parts /\ Reusable(t, c)} IN
       api' = [at |-> "replace", del |-> api.del, parts |-> parts,
               reuse |-> {t[2] : t \in kept}, old |-> ids \ kept, tocs |-> tocd]
  /\ config' = [config EXCEPT ![gen + 1] = c]
  /\ UNCHANGED <<docvars, gen, untold, extracted, hurried, prog, ids, tocd, keys, queue, index, h, sync, crashes, errors>>

\* The previous rows go, then the chunks they record that are not reused (a table
\* of contents, where it has taken their place), and chunk_num becomes the
\* number of reused ids.
QueueReplace ==
  /\ api.at = "replace"
  /\ DeleteRows
  /\ Untold
  /\ ApiAt("dropOld")
  /\ UNCHANGED <<docvars, gen, config, extracted, hurried, keys, queue, index, h, sync, crashes, errors>>

QueueDropOld ==
  /\ api.at = "dropOld"
  /\ store' = store \ {ChunkOf(t) : t \in api.old \ api.tocs}
  /\ extra' = extra \ {<<"toc", ChunkOf(t)>> : t \in api.old \cap api.tocs}
  /\ ApiAt("recount")
  /\ UNCHANGED <<docvars, taskvars, keys, queue, h, sync, crashes, errors>>

QueueRecount ==
  /\ api.at = "recount"
  /\ chunkNum' = Cardinality(api.reuse)
  /\ ApiAt("insert")
  /\ UNCHANGED <<status, progress, taskvars, keys, queue, index, h, sync, crashes, errors>>

\* bulk_insert_into_db of the new tasks.
QueueInsert ==
  /\ api.at = "insert"
  /\ gen' = gen + 1
  /\ ids' = {<<gen + 1, p>> : p \in api.reuse}
  /\ tocd' = {<<gen + 1, p>> : p \in {q \in api.reuse : <<gen, q>> \in api.tocs}}
  /\ prog' = [t \in Tasks |-> IF t[1] # gen + 1 \/ t[2] \notin api.parts THEN prog[t]
                              ELSE IF t[2] \in api.reuse THEN "done" ELSE "new"]
  /\ ApiAt("begin")
  /\ UNCHANGED <<docvars, config, untold, extracted, hurried, keys, queue, index, h, sync, crashes, errors>>

begin2parse ==
  /\ api.at = "begin"
  /\ status' = "running"
  /\ progress' = "part"
  /\ ApiAt("push")
  /\ UNCHANGED <<chunkNum, taskvars, keys, queue, index, h, sync, crashes, errors>>

QueuePush ==
  /\ api.at = "push"
  /\ queue' = queue \cup {<<gen, p>> : p \in api.parts \ api.reuse}
  /\ ApiIdle
  /\ UNCHANGED <<docvars, taskvars, keys, index, h, sync, crashes, errors>>

\* The request raises: chunks cannot be deleted, the file cannot be read, or
\* Redis refuses a message after some were posted.
RequestFails ==
  /\ Error
  /\ ApiIdle
  /\ \/ api.at \in {"read", "dropChunks", "cancelDropChunks", "dropOld"} /\ queue' = queue
     \/ /\ api.at = "push"
        /\ \E S \in SUBSET (api.parts \ api.reuse) :
             /\ S # api.parts \ api.reuse
             /\ queue' = queue \cup {<<gen, p>> : p \in S}
  /\ UNCHANGED <<docvars, taskvars, keys, index, h, sync, crashes>>

-----------------------------------------------------------------------------
(* POST /document/run with run=CANCEL.                                     *)

\* The tasks that have a row are flagged, each with a key that lasts an hour.
cancel_all_task_of == cancel' = cancel \cup rows /\ expired' = expired

CancelExpires(t) ==
  /\ t \in cancel
  /\ Cardinality(expired \cup {t}) <= MaxExpired
  /\ cancel' = cancel \ {t}
  /\ expired' = expired \cup {t}
  /\ UNCHANGED <<docvars, taskvars, queue, index, h, sync, api, crashes, errors>>

CancelBegin(del) ==
  /\ api.at = "idle"
  /\ \/ status \in {"running", "cancel"}
     \/ status # "gone" /\ \E t \in rows : prog[t] # "done"
  /\ cancel_all_task_of
  /\ api' = Begun("cancelUpdate", del)
  /\ UNCHANGED <<docvars, taskvars, queue, index, h, sync, crashes, errors>>

CancelUpdate ==
  /\ api.at = "cancelUpdate"
  /\ status' = "cancel"
  /\ progress' = "zero"
  /\ IF api.del THEN ApiAt("cancelDrop") ELSE ApiIdle
  /\ UNCHANGED <<chunkNum, taskvars, keys, queue, index, h, sync, crashes, errors>>

-----------------------------------------------------------------------------
(* Removal: DELETE of the document (FileService.delete_docs), or of what   *)
(* it belongs to, which calls remove_document directly.                    *)

\* delete_docs deletes the task rows before it calls remove_document.
DeleteDocs ==
  /\ api.at = "idle"
  /\ status # "gone"
  /\ Patient => queue = {}
  /\ Hurry
  /\ DeleteRows
  /\ Untold
  /\ ApiAt("remove")
  /\ UNCHANGED <<docvars, gen, config, extracted, keys, queue, index, h, sync, crashes, errors>>

\* delete_document_and_update_kb_counts: one transaction.
RemoveRow ==
  /\ api.at \in {"idle", "remove"}
  /\ status # "gone"
  /\ status' = "gone"
  /\ ApiAt("removeCancel")
  /\ UNCHANGED <<progress, chunkNum, taskvars, keys, queue, index, h, sync, crashes, errors>>

\* Mutant: the tasks are deleted without being cancelled.
RemoveCancelNothing ==
  /\ api.at = "removeCancel"
  /\ ApiAt("removeTasks")
  /\ UNCHANGED <<docvars, taskvars, keys, queue, index, h, sync, crashes, errors>>

RemoveCancel ==
  /\ api.at = "removeCancel"
  /\ cancel_all_task_of
  /\ ApiAt("removeTasks")
  /\ UNCHANGED <<docvars, taskvars, queue, index, h, sync, crashes, errors>>

RemoveTasks ==
  /\ api.at = "removeTasks"
  /\ DeleteRows
  /\ ApiAt("removeChunks")
  /\ UNCHANGED <<docvars, past, keys, queue, index, h, sync, crashes, errors>>

\* A failed deletion is logged and the request goes on.
RemoveChunks ==
  /\ api.at = "removeChunks"
  /\ \/ DeleteChunks /\ errors' = errors
     \/ UNCHANGED index /\ Error
  /\ ApiIdle
  /\ UNCHANGED <<docvars, taskvars, keys, queue, h, sync, crashes>>

-----------------------------------------------------------------------------
(* The handler of a task.                                                  *)

At(t, l) == h' = [h EXCEPT ![t] = l]

\* TaskService.update_progress: failure is final, progress never goes back,
\* and a task without a row is left alone.
update_progress(t, new) ==
  prog' = IF t \in rows /\ prog[t] # "bad" /\ (new = "bad" \/ prog[t] # "done")
          THEN [prog EXCEPT ![t] = new] ELSE prog

\* A cancelled task fails whatever is reported.
SetProgress(t, p) == update_progress(t, IF t \in cancel THEN "bad" ELSE p)

\* TaskService.update_chunk_ids overwrites what is recorded; it writes nothing,
\* and raises nothing, when the row is gone.
update_chunk_ids(t, toc) ==
  /\ ids' = ids \cup ({t} \cap rows)
  /\ tocd' = IF toc THEN tocd \cup ({t} \cap rows) ELSE tocd \ {t}
  /\ extracted' = (extracted \/ toc)

\* get_task marks the task as received, whatever became of it before; without
\* a row or a document, or cancelled, the message is acknowledged and dropped.
Collect(t) ==
  /\ t \in queue
  /\ h[t] = "none"
  /\ LET known == t \in rows /\ status # "gone" IN
       /\ prog' = IF known THEN [prog EXCEPT ![t] = "part"] ELSE prog
       /\ IF known /\ t \notin cancel
          THEN At(t, "build") /\ queue' = queue
          ELSE queue' = queue \ {t} /\ h' = h
  /\ UNCHANGED <<docvars, past, ids, tocd, keys, index, sync, api, crashes, errors>>

\* Binding the model and chunking end in chunks, without any, in an exception,
\* or at one of the looks at the cancel key.
Build(t) ==
  /\ h[t] = "build"
  /\ \/ At(t, "embed") /\ prog' = prog
     \/ At(t, "record") /\ SetProgress(t, "done")
     \/ At(t, "record") /\ SetProgress(t, "bad")
  /\ UNCHANGED <<docvars, past, ids, tocd, keys, queue, index, sync, api, crashes, errors>>

\* Embedding reports progress after every batch: cancelled, it raises there.
Embed(t) ==
  /\ h[t] = "embed"
  /\ \/ At(t, "try") /\ prog' = prog
     \/ At(t, "record") /\ SetProgress(t, "bad")
  /\ UNCHANGED <<docvars, past, ids, tocd, keys, queue, index, sync, api, crashes, errors>>

\* The last look at the cancel key before the document store.
MaybeInsert(t) ==
  /\ h[t] \in {"try", "toc"}
  /\ IF t \in cancel
     THEN At(t, "clean") /\ SetProgress(t, "bad")
     ELSE /\ At(t, IF h[t] = "toc" THEN "tocInsert" ELSE IF Rich(t) THEN "mother" ELSE "insert")
          /\ prog' = prog
  /\ UNCHANGED <<docvars, past, ids, tocd, keys, queue, index, sync, api, crashes, errors>>

\* Mother chunks are stored first; the result of that insertion is not looked at.
InsertMother(t) ==
  /\ h[t] = "mother"
  /\ \/ extra' = extra \cup {<<"mother", ChunkOf(t)>>} /\ errors' = errors
     \/ extra' = extra /\ Error
  /\ At(t, "mothered")
  /\ UNCHANGED <<docvars, taskvars, keys, queue, store, sync, api, crashes>>

\* docStoreConn.insert; a failed one may have stored the chunk.
InsertChunk(t) ==
  /\ h[t] = "insert"
  /\ \/ /\ store' = store \cup {ChunkOf(t)}
        /\ At(t, "stored")
        /\ errors' = errors
     \/ /\ store' \in {store, store \cup {ChunkOf(t)}}
        /\ At(t, "unstored")
        /\ Error
  /\ UNCHANGED <<docvars, taskvars, keys, queue, extra, sync, api, crashes>>

\* Cancelled or failed, the handler reports failure; else the ids are recorded.
RecordIds(t) ==
  /\ h[t] \in {"stored", "unstored"}
  /\ IF t \in cancel \/ h[t] = "unstored"
     THEN At(t, "clean") /\ SetProgress(t, "bad") /\ UNCHANGED <<ids, tocd, extracted>>
     ELSE At(t, "recorded") /\ prog' = prog /\ update_chunk_ids(t, FALSE)
  /\ UNCHANGED <<docvars, gen, config, untold, hurried, keys, queue, index, sync, api, crashes, errors>>

\* The looks after the mother chunks and after the last batch.
LookAgain(t) ==
  /\ h[t] \in {"mothered", "recorded"}
  /\ IF t \in cancel
     THEN At(t, "clean") /\ SetProgress(t, "bad")
     ELSE At(t, IF h[t] = "mothered" THEN "insert" ELSE "count") /\ prog' = prog
  /\ UNCHANGED <<docvars, past, ids, tocd, keys, queue, index, sync, api, crashes, errors>>

\* Mutant: decrement_chunk_num is called.
CountDocumentDown(t) ==
  /\ h[t] = "count"
  /\ chunkNum' = IF status = "gone" THEN chunkNum ELSE chunkNum - 1
  /\ At(t, "finish")
  /\ UNCHANGED <<status, progress, taskvars, keys, queue, index, sync, api, crashes, errors>>

\* increment_chunk_num, of the document if it is still there.  Then the thread
\* that extracts the table of contents is waited for: it gives one, none, or
\* raises.
CountDocument(t) ==
  /\ h[t] = "count"
  /\ chunkNum' = IF status = "gone" THEN chunkNum ELSE chunkNum + 1
  /\ \/ At(t, "finish")
     \/ Rich(t) /\ (At(t, "toc") \/ At(t, "unstored"))
  /\ UNCHANGED <<status, progress, taskvars, keys, queue, index, sync, api, crashes, errors>>

\* The table of contents goes through insert_chunks as the only chunk of a list:
\* its id replaces the ids the task had recorded.
InsertToc(t) ==
  /\ h[t] = "tocInsert"
  /\ \/ /\ extra' = extra \cup {<<"toc", ChunkOf(t)>>}
        /\ At(t, "tocStored")
        /\ errors' = errors
     \/ /\ extra' \in {extra, extra \cup {<<"toc", ChunkOf(t)>>}}
        /\ At(t, "unstored")
        /\ Error
  /\ UNCHANGED <<docvars, taskvars, keys, queue, store, sync, api, crashes>>

RecordToc(t) ==
  /\ h[t] = "tocStored"
  /\ IF t \in cancel
     THEN At(t, "clean") /\ SetProgress(t, "bad") /\ UNCHANGED <<ids, tocd, extracted>>
     ELSE At(t, "tocCount") /\ prog' = prog /\ update_chunk_ids(t, TRUE)
  /\ UNCHANGED <<docvars, gen, config, untold, hurried, keys, queue, index, sync, api, crashes, errors>>

CountToc(t) ==
  /\ h[t] = "tocCount"
  /\ chunkNum' = IF status = "gone" THEN chunkNum ELSE chunkNum + 1
  /\ At(t, "finish")
  /\ UNCHANGED <<status, progress, taskvars, keys, queue, index, sync, api, crashes, errors>>

Finish(t) ==
  /\ h[t] = "finish"
  /\ SetProgress(t, "done")
  /\ At(t, "clean")
  /\ UNCHANGED <<docvars, past, ids, tocd, keys, queue, index, sync, api, crashes, errors>>

\* finally: a cancelled task deletes every chunk of the document, its own and
\* those of other tasks and runs; a failed deletion is logged.
Clean(t) ==
  /\ h[t] = "clean"
  /\ \/ t \in cancel /\ DeleteChunks /\ errors' = errors
     \/ t \in cancel /\ UNCHANGED index /\ Error
     \/ t \notin cancel /\ UNCHANGED <<index, errors>>
  /\ At(t, "record")
  /\ UNCHANGED <<docvars, taskvars, keys, queue, sync, api, crashes>>

Ack(t) ==
  /\ h[t] = "ack"
  /\ queue' = queue \ {t}
  /\ At(t, "none")
  /\ UNCHANGED <<docvars, taskvars, keys, index, sync, api, crashes, errors>>

\* The executor dies; the task will be delivered again.
Crash(t) ==
  /\ h[t] # "none"
  /\ crashes + errors < MaxFaults
  /\ crashes' = crashes + 1
  /\ At(t, "none")
  /\ sync' = [sync EXCEPT ![t] = NoSync]
  /\ UNCHANGED <<docvars, taskvars, keys, queue, index, api, errors>>

-----------------------------------------------------------------------------
(* _sync_progress, called by the progress thread for unfinished documents  *)
(* and by every handler for its document (record_pipeline_operation).      *)

\* Mutant: only the tasks are looked at.
UnfinishedTasksOnly == status \notin {"gone", "cancel"} /\ \E t \in rows : prog[t] \in {"new", "part"}

\* get_unfinished_docs.
Unfinished ==
  /\ status \notin {"gone", "cancel"}
  /\ progress = "part" \/ \E t \in rows : prog[t] \in {"new", "part"}

SyncAt(s, l, v, st) ==
  /\ sync' = [sync EXCEPT ![s] = [at |-> l, verdict |-> v, st |-> st]]
  /\ h' = h

EndSync(s) ==
  /\ sync' = [sync EXCEPT ![s] = NoSync]
  /\ h' = IF s = Thread THEN h ELSE [h EXCEPT ![s] = "ack"]

\* What the task rows say of the document; "zero" when no task has progressed.
Verdict ==
  IF \E t \in rows : prog[t] \in {"new", "part"}
  THEN IF \E t \in rows : prog[t] \in {"part", "done"} THEN "open" ELSE "zero"
  ELSE IF \E t \in rows : prog[t] = "bad" THEN "fail" ELSE "done"

\* TaskService.query; a handler gives up when the document is gone.
SyncTasks(s) ==
  /\ IF s = Thread THEN Unfinished ELSE h[s] = "record"
  /\ sync[s].at = "idle"
  /\ IF rows = {} \/ status = "gone"
     THEN s # Thread /\ EndSync(s)
     ELSE SyncAt(s, "doc", Verdict, "unstart")
  /\ UNCHANGED <<docvars, taskvars, keys, queue, index, api, crashes, errors>>

\* The document is read after its tasks.
SyncDoc(s) ==
  /\ sync[s].at = "doc"
  /\ IF status \in {"gone", "cancel"}
     THEN EndSync(s)
     ELSE SyncAt(s, "write", sync[s].verdict, status)
  /\ UNCHANGED <<docvars, taskvars, keys, queue, index, api, crashes, errors>>

\* The status and progress a verdict stands for; st is the status read.
StatusOf(s) == IF sync[s].verdict \in {"fail", "done"} THEN sync[s].verdict ELSE sync[s].st
ProgressOf(s) ==
  CASE sync[s].verdict = "fail" -> "bad"
    [] sync[s].verdict = "done" -> "one"
    [] sync[s].verdict = "open" -> "part"
    [] sync[s].verdict = "zero" -> progress

\* Mutant: the update does not exclude cancelled documents.
SyncWriteUnguarded(s) ==
  /\ sync[s].at = "write"
  /\ status' = IF status = "gone" THEN status ELSE StatusOf(s)
  /\ progress' = IF status = "gone" THEN progress ELSE ProgressOf(s)
  /\ EndSync(s)
  /\ UNCHANGED <<chunkNum, taskvars, keys, queue, index, api, crashes, errors>>

\* UPDATE ... WHERE run != CANCEL.
SyncWrite(s) ==
  /\ sync[s].at = "write"
  /\ LET writes == status \notin {"gone", "cancel"} IN
       /\ status' = IF writes THEN StatusOf(s) ELSE status
       /\ progress' = IF writes THEN ProgressOf(s) ELSE progress
  /\ EndSync(s)
  /\ UNCHANGED <<chunkNum, taskvars, keys, queue, index, api, crashes, errors>>

-----------------------------------------------------------------------------
Request ==
  \/ DropRows \/ DropChunks \/ (\E c \in Configs, parts \in SUBSET Parts : QueueRead(c, parts))
  \/ QueueReplace \/ QueueDropOld \/ QueueRecount \/ QueueInsert \/ begin2parse \/ QueuePush
  \/ CancelUpdate \/ RemoveCancel \/ RemoveTasks \/ RemoveChunks

User ==
  \/ \E del \in BOOLEAN : RunUpdate(del) \/ CancelBegin(del)
  \/ DeleteDocs
  \/ RemoveRow

Handler(t) ==
  \/ Collect(t) \/ Build(t) \/ Embed(t) \/ MaybeInsert(t) \/ InsertMother(t)
  \/ InsertChunk(t) \/ RecordIds(t) \/ LookAgain(t) \/ CountDocument(t)
  \/ InsertToc(t) \/ RecordToc(t) \/ CountToc(t) \/ Finish(t) \/ Clean(t) \/ Ack(t)

Sync(s) == SyncTasks(s) \/ SyncDoc(s) \/ SyncWrite(s)

Next ==
  \/ User
  \/ Request
  \/ RequestFails
  \/ \E t \in Tasks : Handler(t) \/ Crash(t) \/ CancelExpires(t)
  \/ \E s \in Syncers : Sync(s)

Spec == Init /\ [][Next]_vars

\* A request that began is carried out, the progress thread runs every six
\* seconds, and handlers are scheduled: that the calls they wait for (parser,
\* model, store) return is ASSUMED, the timeouts on them being off unless
\* ENABLE_TIMEOUT_ASSERTION is set.
Fairness ==
  /\ WF_vars(Request \/ (api.at = "remove" /\ RemoveRow))
  /\ \A t \in Tasks : WF_vars(Handler(t))
  /\ \A s \in Syncers : WF_vars(Sync(s))

FairSpec == Spec /\ Fairness

-----------------------------------------------------------------------------
(* Properties.                                                             *)

Statuses == {"unstart", "running", "cancel", "done", "fail", "gone"}
Positions == Busy \cup {"none", "record", "ack"}
Stages == {"idle", "drop", "cancelDrop", "dropChunks", "cancelDropChunks", "read",
           "replace", "dropOld", "recount", "insert", "begin", "push", "cancelUpdate",
           "remove", "removeCancel", "removeTasks", "removeChunks"}

\* Types of the tables, the store and the positions of handlers, requests and
\* progress computations; the status a computation goes on with is never that
\* of a cancelled or removed document (_sync_progress skips those).
TypeOK ==
  /\ status \in Statuses
  /\ progress \in {"zero", "part", "one", "bad"}
  /\ chunkNum \in Nat
  /\ gen \in 0..MaxRuns
  /\ config \in [1..MaxRuns -> Configs]
  /\ prog \in [Tasks -> {"none", "new", "part", "done", "bad"}]
  /\ ids \subseteq rows /\ tocd \subseteq ids
  /\ cancel \subseteq Tasks /\ expired \subseteq Tasks /\ untold \subseteq Tasks
  /\ {extracted, hurried} \subseteq BOOLEAN
  /\ queue \subseteq Tasks
  /\ store \subseteq Chunks /\ extra \subseteq Extras
  /\ h \in [Tasks -> Positions]
  /\ sync \in [Syncers -> [at : {"idle", "doc", "write"},
                           verdict : {"zero", "open", "fail", "done"},
                           st : Statuses \ {"cancel", "gone"}]]
  /\ api \in [at : Stages, del : BOOLEAN, parts : SUBSET Parts, reuse : SUBSET Parts,
              old : SUBSET Tasks, tocs : SUBSET Tasks]
  /\ crashes \in 0..MaxFaults
  /\ errors \in 0..MaxFaults

\* A cancelled document stays cancelled until a user parses or removes it: the
\* guard of the UPDATE in _sync_progress keeps every progress computation that
\* started before the cancellation from undoing it.
CancelSticks ==
  [][status = "cancel" /\ status' \notin {"cancel", "gone"} => api' # api]_vars

\* The request that removed the document is over, no handler is at work on it
\* any more, no executor died and no call failed.
RemovedCleanly ==
  /\ status = "gone" /\ api.at = "idle"
  /\ \A t \in Tasks : h[t] \notin Busy
  /\ crashes = 0 /\ errors = 0

\* Whatever a user does while handlers are at work (parse again, cancel, remove
\* in either way), the chunks, mothers and tables of contents a removed document
\* leaves behind are those of handlers whose row had been deleted without a
\* cancel key, or whose key ran out before they looked at it: remove_document
\* flags all others, and a flagged handler cleans up after itself and everybody.
GhostsExplained ==
  RemovedCleanly =>
    LET left == {ChunkOf(t) : t \in untold \cup expired}
    IN  store \subseteq left /\ \A x \in extra : x[2] \in left

\* The document is done, no task is left, nothing was cancelled, nothing failed,
\* and it was never parsed again while tasks of an earlier run were queued.
DoneQuietly ==
  /\ status = "done" /\ api.at = "idle" /\ queue = {}
  /\ cancel = {} /\ expired = {} /\ crashes = 0 /\ errors = 0 /\ ~hurried

\* Once done, a document whose chunk_ids no table of contents ever replaced has
\* in the store exactly the chunks its task rows record, and chunk_num counts
\* them, whatever was reused, dropped or rebuilt by the runs before
\* (queue_tasks, reuse_prev_task_chunks, insert_chunks); every chunk split from
\* a mother has its mother there.  Mothers of earlier runs may be there too.
DoneIsIndexed ==
  DoneQuietly /\ ~extracted =>
    /\ store = {ChunkOf(t) : t \in ids}
    /\ chunkNum = Cardinality(store)
    /\ \A t \in ids : Rich(t) => <<"mother", ChunkOf(t)>> \in extra

\* Parsing comes to an end the user can see: the document leaves RUNNING or its
\* progress reaches 1 or -1, although progress thread and handlers write what
\* they computed from stale reads, executors die and keys run out.  Excepted is
\* a document divided into no part at all: it has no task to finish it.
ProgressEnds ==
  status = "running" ~> \/ status # "running" \/ progress \in {"one", "bad"}
                        \/ errors > 0
                        \/ api.at = "idle" /\ rows = {}
=============================================================================
