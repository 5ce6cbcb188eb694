# Formal models of RAGFlow: ingestion back end and agent editor

TLA+ models of the parts of this repository (a RAGFlow fork with local
directory scanning) that carry its own concurrent logic: the task queue between
the API server and the task executors, the life of a document while it is
parsed, the local directory scan, and the agent editor of the web page with the
part of the server it talks to. Every module is translated from the Python or
TypeScript source; `PROJECT.json` maps each definition to the lines it models, lists the
runs, the mutants that show a property can fail, the findings and the hazards.

## 1. Inventory

| Component | State it keeps | Operations | Interacts with | What is hard |
|---|---|---|---|---|
| Task queue (`rag/utils/redis_conn.py`, `api/db/services/task_service.py`) | two Redis streams, one consumer group, a pending-entries list (PEL) per executor, cancel keys | `queue_product`, `queue_consumer`, `get_unacked_iterator`, `RedisMsg.ack`, `cancel_all_task_of` | API server posts, executors consume | lost answers, redelivery, crash between read and ack |
| Task executor (`rag/svr/task_executor.py`) | unacked iterator, permits, running handlers | `collect`, `handle_task`, `do_handle_task`, `insert_chunks`, `report_status` | queue, MySQL, doc store, Redis | ack last, retry count, cancellation seen between awaits |
| Document and task tables (`document_service.py`, `task_service.py`) | run, progress, chunk_num, retry_count, chunk_ids, knowledge base totals | `run`, `begin2parse`, `queue_tasks`, `_sync_progress`, `increment_chunk_num`, `clear_chunk_num_when_rerun`, `remove_document` | API, executors, progress thread | read-then-write, counters in two tables, stale runs |
| Progress thread (`api/ragflow_server.py`) | Redis lock | `update_progress` every 6 s | document table | aggregate computed from a stale read |
| Local scan (`scanned_directory_service.py`, `scan_scheduler.py`, `document_app.py`) | directory records, documents by location, size and mtime | `scan_directory`, scheduler tick, register, remove or update a directory | document service | concurrent scans, file system changing underneath, path prefixes |
| Agent graph editor (`web/src/pages/agent/store.ts`, `hooks/`) | nodes, edges, the placeholder of an open menu | connect, add, drag to the pane, group, delete by button or key, copy, build the DSL | React Flow, the operators' forms | the same fact kept in edges, parents, ids and forms; several ways to delete |
| Agent editor session (`use-save-graph.ts`, `use-agent-history-manager.ts`, `use-fetch-data.ts`, `use-agent-request.ts`) | global graph store, cached detail, history, debounce, drawers | open, leave, edit, undo, redo, save, run, ask | agent API | debounce, requests and answers that outlive the page |
| Agent API and replica (`canvas_app.py`, `canvas_replica_service.py`) | agent rows, runtime replica per user in Redis | `/set`, `/get`, `/setting`, `/completion`, `/reset` | editor, agent canvas | runs that overlap saves, expiry |
| Agent chat stream (`use-send-message.ts`, `use-send-agent-message.ts`) | event list, bubbles, one second timer | send, stop, reset | `/completion` | timer of an old answer, stop before the first event |
| Redis lock (`RedisDistributedLock`) | key with token and TTL | `acquire`, `spin_acquire`, `release` | progress thread, heartbeat cleaner, GraphRAG | expiry while held, token shared by several holders |
| Data source sync (`connector_service.py`, `sync_data_source.py`) | sync logs, poll window | `schedule`, `start`, `done`, `resume`, `rebuild`, `link_connectors` | document service | window advanced past failed batches, cancel racing done |
| Memory (`memory_message_service.py`) | message ids, size cache | `queue_save_to_memory_task`, `embed_and_save` | queue, doc store, Redis | id allocation, cached size |
| Agent canvas (`agent/canvas.py`, `agent/component`) | graph path, component outputs | `run` | LLMs, tools | order of components, cancellation |
| Sandbox manager (`agent/sandbox/executor_manager`) | container pool | allocate, release, recreate | Docker | pool exhaustion, failed recreation |

The remaining parts (web UI, parsers, LLM adapters, Go rewrite, SDK, admin) are
listed in `PROJECT.json` with the reason they are left out.

How the modelled parts interact: a request or a scan inserts a document and
calls `DocumentService.run`, which inserts task rows and posts a message for each
(`queue_tasks`, `queue_product`). An executor reads the message (`collect`),
loads the row (`get_task`), works (`do_handle_task`), writes task progress, runs
`_sync_progress` for the document, and acknowledges. The progress thread runs the
same `_sync_progress` for all unfinished documents. Cancellation is a Redis key
per task, looked at between awaits.

What makes each part correct:

- queue: a message is never lost, never handled twice at once, served in the
  end, and abandoned after three attempts;
- document: a cancelled document stays cancelled, a removed one leaves no
  chunks but those of handlers that could not be told, a finished one has exactly
  the chunks its tasks recorded, parsing visibly ends;
- scan: duplicates within the number of scanning threads, no unmodified document
  removed, counters and side tables consistent, and the knowledge base catches up
  with a directory that exists;
- agent graph: acyclic, no edge across the border of a group, and a DSL that
  names only what exists and routes as it is drawn;
- agent session: a save stores the graph of its own agent, undo and redo agree
  with the canvas, the graph that was saved is the one that is run, a change is
  saved in the end.

## 2. Modules

| Module | Models | Modules that use it |
|---|---|---|
| `WorkQueue` | abstract specification: exclusive claims, settled once | `TaskStream` (refinement) |
| `TaskStream` | streams, consumer group, executors, retries | `MCTaskStream`, `TaskStream_proofs`, `TaskLife_proofs` |
| `Ingest` | one document: requests, handlers, progress computations | `MCIngest`, `Ingest_proofs`, `IngestDone_proofs` |
| `LocalScan` | scanning threads, tables, file system | `MCLocalScan`, `LocalScan_proofs` |
| `AgentGraph` | the graph on the canvas and the DSL built from it | `MCAgentGraph`, `AgentGraph_proofs` |
| `AgentSession` | pages, store, history, saves, chat; rows, replicas and runs of the server | `MCAgentSession`, `AgentSession_proofs` |
| `NatRecursion` | no code: induction and recursion over the naturals, for proofs about recursive functions | `AgentGraph_proofs` |

`Ingest` takes from `TaskStream` what that module establishes: a task stays
queued until its handler acknowledges it, and a message has one handler at a time.
It replaces the consumer group by the set `queue`, one message for each task: that
an XADD with a lost answer posts a task twice, so that two handlers can work on it at
once, is part of `TaskStream` only.

### TaskStream

State: `stream`, `delivered`, `pel`, `acked` are the Redis side; `pc`, `cursor`
(the unacked iterator), `current`, `seen`, `running`, `recorded`, `sleeping` are
the memory of an executor process; `row`, `retry`, `progress` the task table;
`producer`, `pushes` the `queue_product` call; `cancelled` the cancel key.
`Queues` are the two names of `settings.get_svr_queue_names`, high priority first.

| Code | Actions |
|---|---|
| `queue_tasks`, `queue_product` | `InsertTask`, `Push`, `PushFails` |
| `cancel_all_task_of`, row deletion | `CancelTask`, `CancelExpires`, `DropTask` |
| `collect`: iterator, then the two queues, one call each | `FetchUnacked`, `UnackedFails`, `FirstEmpty`, `FetchNew`, `FetchLost`, `FetchNothing` |
| `get_task` (SELECT, then UPDATE of `retry_count`) | `GetTaskSelect`, `GetTaskUpdate`; memory and debug tasks: `LoadUncounted`; `LoadFails` |
| `handle_task`: outcome, then ack | `Record`, `RecordFails`, `AckFinished`, `EndsUnacked` |
| permits, five second sleep | `Free`, `Wake` |
| process death, `entrypoint.sh` loop | `Crash`, `Restart` |

`collect` contains no `await`, so the coroutines of one process do not
interleave inside it; other processes and the server do, also between the reading of
the first queue and of the second. `collect` acknowledges an empty message; no
producer posts one, so that branch has no action.

### Ingest

One document with page ranges `Parts`; a task is a run number and a part. State:
`status`, `progress`, `chunkNum` are the document row; `prog`, `ids`, `config` the
task rows ("none": no row), their `chunk_ids` and their digests, `tocd` those whose
`chunk_ids` name a table of contents alone; `cancel` the cancel keys; `queue` the
messages not acknowledged; `store` the chunks in the document store (an id is a hash
of the content: part and configuration), `extra` the mother chunks and tables of
contents there; `h`, `sync`, `api` say where handlers, `_sync_progress` calls and the
request stand. `expired`, `untold`, `extracted` and `hurried` only observe: whose cancel
key ran out, whose row was deleted under a handler at work without a key, whether a
table of contents has replaced recorded ids, and whether the document was parsed again
or deleted while tasks were queued.

Under the configurations `RichConfigs` chunks are split into children, whose mothers
are stored first and recorded nowhere, and a table of contents is extracted; its
insertion is a second `insert_chunks`, which overwrites `chunk_ids`. Each run chooses
a configuration and the parts the document is divided into, none included. A cancel
key runs out at any moment after it was set (an hour in the code), for `MaxExpired`
tasks.

| Code | Actions |
|---|---|
| `run` with RUNNING, `queue_tasks` | `RunUpdate`, `DropRows`, `DropChunks`, `QueueRead`, `QueueReplace`, `QueueDropOld`, `QueueRecount`, `QueueInsert`, `begin2parse`, `QueuePush`, `RequestFails` |
| `run` with CANCEL, the key's hour | `CancelBegin`, `CancelUpdate`, `CancelExpires`, then `DropRows`, `DropChunks` with delete |
| `delete_docs`, `remove_document` | `DeleteDocs`, `RemoveRow`, `RemoveCancel`, `RemoveTasks`, `RemoveChunks` |
| `do_handle_task` | `Collect`, `Build`, `Embed`, `MaybeInsert`, `InsertMother`, `InsertChunk`, `RecordIds`, `LookAgain`, `CountDocument`, `InsertToc`, `RecordToc`, `CountToc`, `Finish`, `Clean`, `Ack`, `Crash` |
| `_sync_progress` | `SyncTasks`, `SyncDoc`, `SyncWrite` for the thread and for each handler |

A user waits for the answer of a request before sending the next, and may parse
again, cancel and remove at any moment. The constant `Patient` is a bound on the
instance of `ingest_live`: there the user parses again, or deletes through
`delete_docs`, only when no task is left in the queue. The knowledge base counters,
token counts, messages
and images are left out.

### LocalScan

`scan_directory` runs in the scheduler thread, in threads that GET
scanned_directories starts, and on the event loop, which also serves DELETE.
State: the file system (`fs` gives each file a version, `online` says whether the
volume is mounted, `gone` which registered directories have been deleted from it),
the tables `dirs`, `docs`, `fileRows`, `links`, `docNum`, and
for each thread its position and local variables.

| Code | Actions |
|---|---|
| `scan_worker`, `check_and_trigger_scan`, `scan_path` | `Tick`, `ScanPath`, `CheckPath` |
| `scan_directory`: walk, register, stamp, query | `Walk`, `LookUp`, `Create`, `Stamp`, `Query` |
| examine existing documents, remove | `Examine`, `Remove` (with `remove_document`), their failures |
| import | `CheckFile`, `InsertMissing`, `Insert`, `Count`, `InsertFile`, `Run`, `ImportFails` |
| `delete_scanned_directory` | `RemoveDirectory`, `Purge`, `PurgeFails`, `Unregister` |
| environment | `Parse`, `Elapse`, `Write`, `Unlink`, `DeleteDirectory`, `Unmount`, `Mount`, `Crash` |

`CheckPath` returns early for a path that does not exist, because the volume is not
mounted or because the directory was deleted from it; writing a file below a deleted
directory brings it back. `os.walk` is one look at the directory. Parsing is one step that records which
content was read. A changed scan interval only moves the moment a directory is due
(`Elapse`).

### AgentGraph

State: `nodes` and `edges` of the store, `created` (how many ids were drawn) and
`placeholder`, the node an open menu will replace. An id is `<<label, n>>`, since the
code reads the operator off the id's prefix; the start nodes of all groups of a kind
share one id, as `GroupStartNodeMap` gives it. A Switch has one case, whose targets
its form repeats (`to`). `conds` names the `conditions` object of the form: a copy of
a Switch has the object of the original, and `UpdateTo`, which writes in place,
changes the targets of every node that has it. `shared` observes which objects two
Switches have had in common.

| Code | Actions |
|---|---|
| `isValidConnection`, `onConnect` | `OnConnect` |
| `addCanvasNode` from a handle, a form, the tool popover | `AddNext`, `AddSubAgent`, `AddToolNode`, `DeleteAgentToolNode` |
| `onConnectEnd` on the pane, the menu | `DropOnPane`, `PickOperator`, `RemovePlaceholderNode` |
| toolbar, edge button, Delete key (`handleBeforeDelete`) | `ToolbarDelete`, `DeleteEdgeById`, `DeleteSelected` |
| duplicate, paste | `DuplicateNode`, `DuplicateIterationNode`, `PasteDeleted` |
| `buildDslData`, `buildDslComponentsByGraph` | operators `Components`, `DslDownstream`, `DslExceptionGoto` |

What React Flow removes when Delete is pressed (`WithChildren`) is external. Not
modelled: a Switch form that is open while edges change and writes its old targets
back, and a connection dragged backwards from a target handle, which
`ConnectionMode.Loose` allows.

### AgentSession

A graph is `<<owner, n>>`: the agent it was drawn for and the number of the edit; of
the rest of a DSL only whether it carries messages is kept. `page`, `mount`, `store`,
`data`, `timer`, `drawer`, `chat`, `asking`, `history`, `index` are the browser;
`gets`, `saves`, `resets`, `settings` the requests under way, in any order;
`row`, `replica`, `runs` the server. A member of `gets` says how far the handler is
and who waits for its answer: nobody, when the query has dropped it while the thread
goes on. `failures` counts requests that failed. `strayed` and `behind` only observe.

| Code | Actions |
|---|---|
| opening and leaving the page | `OpenPage`, `LeavePage` |
| canvas, `HistoryManager` | `Edit`, `Undo`, `Redo` |
| `useWatchAgentChange`, buttons, blur, variables | `Autosave`, `SaveByHand` |
| settings dialog | `SubmitSettings` |
| `handleRunAgent`, `RunSheet`, drawers | `RunClicked`, `RunSheetOk`, `HideDrawer` |
| `sendMessage`, end of the stream | `Send`, `StreamEnds` |
| `/set`: row and replica written; row only; refused | `SetCanvas`, `SetUnsynced`, `SetRefused` |
| `/reset`, `/setting` and their failures | `ResetCanvas`, `ResetFails`, `SetSetting`, `SettingRefused` |
| `/get`, in the steps of its thread | `ReadRow`, `ReadReplica`, `CreateReplica`, `GetWithoutRedis` |
| the answer in the browser, `useFetchDataOnMount` | `Respond` |
| a run and its commit (`/completion`) | `Send`, `RunEnds`, `RunFails` |
| expiry of the replica | `ReplicaExpires` |

Effects of a React render are part of the action that causes them: a change of the
store pushes to the history and restarts the debounce. The library behaviour used:
the debounce is cancelled when the page goes; a query whose request is under way
outlives its page; a new request of a query drops the one under way and uses the id
of whoever asks; an equal answer is not a change. `/set`, `/reset` and `/setting` are
coroutines without an `await` between their reads and writes, and each is one step.
`/get` is a plain function that runs in a worker thread beside them: reading the row,
looking for the replica, writing it and the receipt of the answer are steps of their
own. A run is two steps, the loading of the replica and the commit.

## 3. Runs

Bounds are CONSTANTS in the cfg files. They are chosen so that the counted event
happens at every point where it matters, and once more than the case needs.

| Run | Instance | Checks | Shows |
|---|---|---|---|
| `stream_safety` | 2 executors, a document and a memory task in different queues, 2 permits, 3 crashes | `TypeOK`, `Accounted`, `OneHandler`, `NothingStranded`, `SettledIsFinal`, `AttemptsBounded`, `PermitsRespected` | with crashes, cancellation and row deletion at any moment no message is lost, handled twice at once, forgotten by a live executor, or acknowledged without a final progress; after three crashes the task is abandoned; permits are never exceeded |
| `stream_faults` | 1 task, 2 executors, 1 crash, 2 failed calls | `Accounted`, `OneHandler`, `ImplementsWorkQueue` | lost answers of XADD, XREADGROUP, XACK and swallowed exceptions do not break the abstract queue |
| `stream_live` | 2 executors, document and debug task, 1 permit, 1 crash | `EventuallySettled` | every queued message is acknowledged in the end, if handlers end |
| `ingest_live` | at most 1 part, 2 runs, patient user, 1 executor death or failed call | `CancelSticks`, `ProgressEnds` | a cancellation is not undone by a progress computation; parsing visibly ends, if handlers return |
| `ingest_impatient` | at most 1 part, 2 runs, any user, mothers and table of contents in one configuration, 1 cancel key that runs out; the progress thread, which touches neither chunks nor keys, computes between requests when no task is queued (`ThreadWaits`) | `TypeOK`, `DoneIsIndexed`, `GhostsExplained` | a finished document has exactly its recorded chunks, each with its mother, unless it was parsed again over queued tasks; what a removed one leaves in the store comes from handlers that were never told to stop or whose key ran out; two runs are what reuse and replacement need |
| `scan_single` | scheduler alone, 3 files with a limit of 2, 3 writes, deleted directory, 1 failure | `NoOrphanRows`, `UnchangedKept` | one scanner keeps the side tables consistent and removes no unmodified document while files change |
| `scan_live` | scheduler and 1 request on the event loop, 1 file, 2 writes, deleted directory, 1 failure, crash or outage | `TypeOK`, `CountMatchesRows`, `DuplicatesBounded`, `ConvergesUndisturbed`, `Mirrors` | overlapping scans count correctly, multiply a file no further than once per thread and converge; later scans repair an interrupted one, for directories that exist |
| `scan_prefix` | directories /hdd1/a and /hdd1/ab | `UnchangedKept`, **violated** | scanning the first removes the documents of the second |
| `scan_gone` | scheduler alone, 1 directory with 1 file | `DeletedFollow`, **violated** | documents of a directory that is deleted itself stay for ever |
| `graph_edit` | Switch, Agent, Tool, Iteration, Loop; 3 new ids; 1 element selected | `TypeOK`, `Acyclic`, `EdgesStayInGroup`, `DownstreamExists`, `UncopiedSwitchNames`, `OneToolNode` | no sequence of edits makes a cycle, an edge across a group or a DSL that names missing nodes; three ids are enough for a group with a child and a copy, or an agent with tool and sub-agent |
| `session_edit` | 2 agents, one with inputs; 2 pages, 1 edit, 2 clicks, 1 run, 1 save and 2 `/get` under way, history of 2 | `TypeOK`, `NoForeignSave`, `HistoryConsistent` | two pages are what a leftover store, query or answer needs, a history of two is full after the load and one edit |
| `session_server` | 1 agent, 1 page, 1 edit, 3 clicks, 2 `/get` and 1 run under way, 1 failed request | `ReplicaFollowsUnlessBehind`, `SavedWithoutMessages`, `AutosaveReaches` | the replica follows the row unless a late writer or a failed write left it behind; the conversation stays out of the row; a pending change is saved; two threads of `/get` are what a check-then-write needs |

The violated properties state what a comment, docstring or page of the
documentation says; `findings` in `PROJECT.json` quotes it. Deadlock is not
checked where the system may rightly stop: a removed document with all tasks
acknowledged, a scan list that is empty, a user who does nothing more.

What the passing runs leave open, by their own wording:

- `OneHandler` is about messages. A task posted twice has two, which two handlers may
  work on at once; `AttemptsBounded` speaks of tasks posted once for the same reason
  (`retry_count` is read and written by two statements).
- `PermitsRespected` is an upper bound: permits in use are derived from what runs and
  sleeps, so a permit that is never given back cannot be expressed.
- `NothingStranded`, `SettledIsFinal` and `EventuallySettled` hold while no call fails
  (a lost XREADGROUP answer waits for the next restart). `SettledIsFinal` excepts
  cancelled tasks. With finitely many tasks `EventuallySettled` does not show that an
  endless supply for the first queue starves the second, which it would.
- `GhostsExplained` and `DoneIsIndexed` except executor deaths and failed calls.
- `GhostsExplained` does not say that a removed document leaves nothing: `delete_docs`
  deletes the task rows before `remove_document` looks for tasks to cancel (against
  the comment at `document_service.py:411`), so a handler at work stores its chunks
  afterwards and they stay.
- `DoneIsIndexed` excepts cancelled tasks (a finished task is reused although a
  cancelled sibling has deleted all chunks); documents whose ids a table of contents
  replaced (`chunk_ids` then names the table and no row records the chunks, against
  `task_service.py:201`); and documents parsed again while tasks were queued, whose
  replaced handlers go on storing chunks. It lets mothers of earlier runs stay.
- `ProgressEnds` accepts a final progress with status RUNNING, which a
  `_sync_progress` with an old read can leave, and excepts a document without any
  task, which nothing finishes.
- `DuplicatesBounded` does not exclude two documents of one file: two threads that
  scan at once both import it. `NoOrphanRows` and `UnchangedKept` are checked for the
  scheduler alone, the former failing when a removal of the directory, whose first
  call failed, overlaps an import; the latter with mounted volume and an mtime that
  tells versions apart. Every GET of the scan list starts a thread, so the scheduler
  is alone only while nobody looks at that page.
- `Mirrors` and `ConvergesUndisturbed` except directories above the file limit and
  directories that do not exist (`scan_gone`); the latter failed calls: a document
  inserted but not queued is skipped by later scans and never parsed.
  `CountMatchesRows` excepts a crash between the insert and the count.
- `EdgesStayInGroup` and `DownstreamExists` except start nodes, whose id a later group
  takes over, and `DownstreamExists` an edge drawn to a tool node.
  `UncopiedSwitchNames` excepts a Switch that was copied or is a copy: both have one
  `conditions` object, written in place (`store.ts:436`), so connecting a case of the
  one overwrites the targets of the other while its edges stay drawn.
- `NoForeignSave` names the three ways in which an editor is given another agent's
  graph: undoing past the load, opening a page while a request of the previous one is
  under way, and the end of an answer asked on an earlier page. It does not catch
  these.
- `ReplicaFollowsUnlessBehind` excepts a late write of what was read before the last
  save, and a `/set` that could not write the replica. A run that ends after a save
  puts the graph it began with back (`commit_after_run`, which the docstring of
  `canvas_replica_service.py` calls atomic), and a `/get` that had found no replica
  writes its old row over one saved since (`create_if_absent`, "keep existing state");
  the next question runs the old graph.
- No property says that edits survive: the detail fetched when an answer ends
  (`use-send-agent-message.ts:332`), or after the settings were changed, replaces what
  was drawn since the last save.
- `AutosaveReaches` is about changes that wait while the drawer is closed; those whose
  debounce ends with the drawer open are not saved, nor are those whose `/set` fails.
  Saves follow one another (`MaxSaves` is 1), so an older save that lands after a
  newer one is not covered.

### Fairness

- `TaskStream`: collecting, completing, waking and restarting of each executor,
  and a started push. The event loop runs all coroutines, `entrypoint.sh` restarts a
  dead executor under the same name, and the request thread that posts runs to its
  end. That handlers end is an assumption the code does not enforce: `@timeout` on
  `do_handle_task` waits without a limit unless `ENABLE_TIMEOUT_ASSERTION` is set
  (`common/connection_utils.py:71`), and nothing sets it. Nothing is assumed of users,
  cancellation or crashes.
- `Ingest`: a request that began is carried out; handlers are scheduled; the progress
  thread runs every six seconds. That the parser, the models and the store answer a
  handler is assumed, for the same reason.
- `LocalScan`: the scheduler ticks, a scan or removal that began goes on, queued
  documents are parsed, intervals elapse, an unmounted volume comes back. Nothing
  is assumed of users, GET threads or writes to files.
- `AgentSession`: the debounce ends, and a `/set` is carried out unless it fails.
  Nothing is assumed of the user, of other requests, of runs or of the replica's
  expiry. Edits are bounded, so the user pauses in the end; somebody who edits every
  few seconds keeps the debounce from ending.
- `AgentGraph` has no liveness.

## 4. Proofs

The invariants and action properties that a passing run checks are also theorems,
two of the scan apart (`NoOrphanRows`, `UnchangedKept`), and so is the refinement of
`WorkQueue`. TLAPS checks them for every value
of the constants that satisfies the assumptions named in the modules
(`StreamAssumption`, `IngestAssumption`, `ScanAssumption`, `KindsAssumption`,
`BoundsAssumption`, `SessionAssumption`), which say what kind of thing a constant is
(a finite set, a natural number, one of the code's kinds of task or operator): any
number of executors, tasks, crashes, failed calls, parts, runs, threads, files,
nodes, agents, pages. The one bound that remains is in `Ingest`: fewer executor
deaths and failed calls than the three attempts of `get_task`, since the module
takes from `TaskStream` that a task is not abandoned before.

| Module | Theorem (property) |
|---|---|
| `TaskStream_proofs` | `TypeCorrect` (`TypeOK`), `NoMessageLost` (`Accounted`), `OneHandlerAlways` (`OneHandler`), `Refinement` (`ImplementsWorkQueue`) |
| `TaskLife_proofs` | `PermitsAlwaysRespected`, `NothingEverStranded` (`NothingStranded`), `SettledAlwaysFinal` (`SettledIsFinal`), `AttemptsAlwaysBounded` |
| `Ingest_proofs` | `IngestTypes` (`TypeOK`), `CancellationSticks` (`CancelSticks`), `RemovalIsClean` (`GhostsExplained`) |
| `IngestDone_proofs` | `DoneIsExact` (`DoneIsIndexed`) |
| `LocalScan_proofs` | `TypeCorrect` (`TypeOK`), `CountAlwaysMatches` (`CountMatchesRows`), `DuplicatesAlwaysBounded` (`DuplicatesBounded`) |
| `AgentGraph_proofs` | `GraphTypes` (`TypeOK`), `NeverCyclic` (`Acyclic`), `GroupsAreClosed` (`EdgesStayInGroup`), `DslNamesWhatExists` (`DownstreamExists`), `UncopiedSwitchAlwaysNames` (`UncopiedSwitchNames`), `ToolNodeIsOne` (`OneToolNode`) |
| `AgentSession_proofs` | `SessionTypes` (`TypeOK`), `UndoAgrees` (`HistoryConsistent`), `RowsStayHome` (`NoForeignSave`), `ReplicaHoldsSaved` (`ReplicaFollowsUnlessBehind`), `RowsWithoutMessages` (`SavedWithoutMessages`) |

The theorems hold for the specifications as they stand; none has a hypothesis about
the user or the environment. What a property excepts is part of its statement. The
exception of a document parsed again over queued tasks, `hurried`, is needed: without
it TLC finds `DoneIsIndexed` violated, since the handlers of the replaced run go on
storing chunks which no row records.

### Arguments

`TaskStream_proofs`. The inductive invariant `IInv` is `TypeOK` with `PushInv`
(attempts left while a push is under way), `GroupInv` (the PELs and `acked` partition
what was delivered), `HandInv` (what a process holds in memory is in its own PEL, a
message being loaded is not yet running) and `CursorInv` (whatever runs lies behind
the unacked iterator). `OneHandler` is not inductive: that the iterator returns no
message with a handler needs `CursorInv`, and that two processes never share one
needs the disjoint PELs of `GroupInv`. Refinement follows step by step from `IInv`.

`TaskLife_proofs` builds on that invariant.
- Permits: `PermitInv` adds that an executor runs finitely many handlers, without
  which counting them says nothing.
- `NothingStranded`: while no call failed, a live executor's PEL is covered by what it
  runs, what it is loading and what its iterator will still visit (`Kept`). The
  iterator moves to the least unvisited entry, so nothing is skipped (`VisitNext`); a
  delivery from the stream happens only after it is exhausted; a failed handler is
  outside (it sets `faults`).
- `SettledIsFinal`: `SourceInv` (one message per task, posted before the producer
  ended) and `FinalInv` (a message past its handler has left a final progress).
- `AttemptsBounded`: for a task with one message, `starts` never exceeds the
  `retry_count` in the row, nor the value a process has read and not yet written back
  (`Counted`). With two messages two processes could read the same count, which is
  why the property speaks of tasks posted once.

`Ingest_proofs`.
- `CancelSticks` needs that no computation carries the status of a cancelled
  document, which is part of `TypeOK`.
- `GhostsExplained` is not inductive. It needs `TInv` (types, and where in a request a
  run may be numbered), `QueuedInv` (a task being handled has not been acknowledged),
  `FlaggedInv` (cancel and `remove_document` set the cancel keys of the rows before
  they delete them), `WorkInv` (a handler at work has a row, was flagged, or was never
  told) and `GoneInv` (once the removal has ended there are no rows, and what the
  store still holds belongs to a handler never told, to one whose key ran out, or to a
  flagged one that still has its cleanup ahead: `Left`). `HandlerEffect` and
  `SyncEffect` summarise what a step of a handler or of a progress computation leaves
  alone, so that each invariant is proved once against the summary. Nothing is assumed
  of the user, nor of how long a cancel key lasts.

`IngestDone_proofs`. As long as the document is not `hurried`, and it stays so once it
is (`HurriedStays`), nothing is queued while rows are replaced (`QuietInv`,
together `PatientInv`). While
nothing was cancelled, nothing failed, nothing was hurried and no table of contents
has replaced recorded ids (`Calm`) the state is `Exact`: the rows are those of the current run and the queue is among them
(`RunInv`); a queued task has its ids recorded from `RecordIds` on and not before
(`RecordInv`); and at each stage of a request the store and `chunk_num` hold what the
rows of that stage say, including those that are about to be taken over from or
dropped with an earlier run (`IndexInv`); and children never stand without their
mother, which is stored first (`Mothers`). `CalmInv`, `Calm => Exact /\ Mothers`, is
inductive on top of the invariant above. That `chunk_num` equals the number of chunks rests on
tasks of one run having chunks of their own.

`LocalScan_proofs`. `TypeOK` includes that a thread at a given position has set the
local variables that position reads (`Local`), and needs that a deleted document is
not brought back by an executor (`GoneInv`). `CountMatchesRows` is an argument on
cardinalities: a row counts once, in the thread that inserted it, and is subtracted
by the one statement that deleted it. `DuplicatesBounded` is stated of documents and
threads about to insert one together, which makes it inductive: a thread becomes one
only while the file has no document, and then there are at most as many as threads;
an insertion turns one into the other; everything else removes (`Fewer`).

`AgentGraph_proofs`. `Good(N, E, c, K)` is an invariant of nodes, edges, drawn ids and
shared `conditions`, taken as parameters so that an operation which passes through intermediate graphs
(deleting a placeholder and adding its replacement) is a chain of lemmas: `GoodAdd`,
`GoodRemove`, `GoodEdge`, `GoodForm`, `GoodNode`, `GoodGrow`, `GoodDrop`. Besides the
properties it has `Numbered` (a drawn number is that of one node), `Wired` (which
labels the handles join; a sub-agent has one edge into it), `Linked` (which dangling
edges deletions may leave) and `Shares` (`conditions` outside `K` are those of one
Switch, so that a write in place reaches no other). Acyclicity is stated as: every set of existing
nodes has one with no edge into the set. A new edge keeps it because the search of
`hasCycle` is complete (`ReachedClosed`): the sets it visits grow until they repeat,
which they do within as many rounds as there are nodes. An edge into a new or
unreached node closes nothing (`FreshTarget`).

`NatRecursion` supplies what the last argument needs. The library's induction
theorem takes the property as an operator; here it is a set (`SetInduction`),
derived from the least element of a set of naturals, and `Iterates` gives a
recursive function its equation. The two searches of `AgentGraph` are recursive
functions for this reason.

`AgentSession_proofs`. `TInv` adds to the types that the query has at most one
detail and one request, that an open page has a number, and `HistoryConsistent`.
`NoForeignSave` rests on `OwnInv`: what the canvas shows, what the query has kept and
what is on its way to the server or was read there belong to their agent or the
agent has strayed. `SavedWithoutMessages` needs the same of details, saves and `/get`
answers on their way (`QuietInv`), `ReplicaFollowsUnlessBehind` that a run, and a
thread of `/get` that has read the row, hold the graph of the row unless a save has
overtaken them (`RunInv`). `GetsStep` says once what a step may do to the requests in
`gets` (keep, drop, overtake, add one, read), and the invariants about them are proved
against that.

### Only model-checked

`EventuallySettled`, `ProgressEnds`, `ConvergesUndisturbed`, `Mirrors` and
`AutosaveReaches`: liveness under fairness, which with ENABLED is out of the prover's
reach. `NoOrphanRows` and `UnchangedKept` hold for a lone scanner in a bounded
instance; with other scanning threads they fail, and a theorem that assumes them away
would say little about the server. The violated properties of section 3 are refuted by TLC's counterexamples and
have no proof by nature.

## 5. Not modelled

Token counts, progress messages, images and thumbnails; the totals of the
knowledge base except `doc_num`; the SDK endpoints that start and stop parsing
(`api/apps/sdk/doc.py`), which repeat `run` with small differences; RAPTOR, GraphRAG,
mind map and data flow branches of the handler;
eviction by Redis of streams or keys; several API servers; the SDK's update of an
agent's row (`api/apps/sdk/agents.py:133`), which leaves the replica behind. Of the agent editor: the
forms of the operators (adding and removing cases of a Switch, categories, prompts),
forms that are open while edges change, connections dragged from a target handle,
notes, positions and names, the pipeline variant and its run sheet, versions, the
explore and shared pages, agents without any graph, and how streamed events become
chat bubbles. Most of the TypeScript under `web/src` is layout, forms, translations
and request wrappers, which have no state a property could be about; the modelled
hooks are a small part of its lines, and the rest would not gain from a model. The components with
status `not_modelled` in `PROJECT.json` are data transformation, clients of
external services, or ahead in the plan.

## 6. Plan

In this order; the first group is done.

1. Done: `TaskStream` with `WorkQueue`, `Ingest`, `LocalScan`, `AgentGraph`,
   `AgentSession`; proofs of their invariants and action properties.
2. `RedisLock`: key, token, expiry, `spin_acquire`; used by the progress thread, the
   heartbeat cleaner of `report_status` and GraphRAG's merge. Mutual exclusion while
   the lock outlives the work; what an expired or shared token does.
3. `SyncConnector`: sync logs, dispatcher and poll window against a connector whose
   batches fail; every document of the source is eventually asked for.
4. Knowledge base counters: `chunk_num` of document and knowledge base under
   increment, rerun, reset and removal.
5. `MemoryStore`: message ids, size cache, forgetting. `AutoIncrement`,
   `SecretKey`: small modules of the Redis helpers.
6. Page ranges of `queue_tasks` as a function, against a reference definition: every
   requested page in exactly one task.
7. `Sandbox` container pool; the order of components in the agent canvas.
8. `ChatStream`: the event list, its one second reset timer and the bubbles; text of
   a bubble only grows, a reset conversation is not continued.
9. Proofs: what of `UnchangedKept` and `NoOrphanRows` survives concurrent scans; what
   an impatient user's document holds while it exists; mutual exclusion of
   `RedisLock`. One abstract specification per component, as `WorkQueue` is for
   `TaskStream`, with its refinement proved.

Runs of the same module that ask related questions are merged as modules are
added.
