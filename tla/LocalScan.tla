------------------------------ MODULE LocalScan ------------------------------
(***************************************************************************)
(* Synchronisation of a knowledge base with directories of the server's    *)
(* file system (ScannedDirectoryService.scan_directory).                   *)
(*                                                                         *)
(* scan_directory runs to completion in the thread that calls it, and      *)
(* there are several: the event loop (POST scan_path, which also serves    *)
(* DELETE scanned_directories), the scheduler thread, and one thread per   *)
(* GET scanned_directories.  Nothing excludes one another; each database   *)
(* statement and each look at the file system is a step of its own, and    *)
(* files change underneath.                                                *)
(*                                                                         *)
(* os.walk is taken as one look at the directory.  A version of a file     *)
(* stands for its content; parsing itself is external.                     *)
(***************************************************************************)
EXTENDS Integers, FiniteSets

CONSTANTS
  Files,           \* paths of files with a supported extension
  Dirs,            \* paths given to scan_path
  Inside,          \* Dirs -> the files below the directory
  StartsWith,      \* Dirs -> the files whose path string has it as a prefix
  Scheduler,       \* the thread of scan_scheduler.py
  Triggers,        \* threads started by GET scanned_directories
  EventLoop,       \* the thread that serves requests
  Registered,      \* RecIds -> scan list when the server starts (None: no row)
  DocIds,          \* document ids
  RecIds,          \* ids of scanned_directory rows
  SizeOf,          \* version -> size of the file
  EditsPerSecond,  \* versions that fall into one second of st_mtime
  FileLimit,       \* MAX_SCAN_FILE_COUNT
  MaxVersion,      \* bound: writes to files
  MaxRequests,     \* bound: scan_path and DELETE requests
  MayUnmount,      \* whether the volume may be unmounted for a while
  MaxFailures,     \* bound: failed calls, deaths of the server, outages
  None             \* no row, no directory, no document

Threads == {Scheduler} \cup Triggers
Scanners == Threads \cup {EventLoop}

ASSUME ScanAssumption ==
  /\ Inside \in [Dirs -> SUBSET Files]
  /\ StartsWith \in [Dirs -> SUBSET Files]
  /\ \A d \in Dirs : Inside[d] \subseteq StartsWith[d]
  /\ EventLoop \notin Threads
  /\ Registered \in [RecIds -> Dirs \cup {None}]
  /\ None \notin Files /\ None \notin Dirs /\ None \notin DocIds /\ None \notin RecIds
  /\ IsFiniteSet(DocIds) /\ IsFiniteSet(Scanners)
  /\ SizeOf \in [1..MaxVersion -> Nat]
  /\ EditsPerSecond \in Nat \ {0}
  /\ MaxVersion \in Nat
  /\ MayUnmount \in BOOLEAN

NoDoc == [loc |-> None, size |-> 0, hash |-> 0, state |-> "gone", got |-> 0]
NoRec == [dir |-> None, last |-> "null"]

VARIABLES
  fs,         \* Files -> current version, 0 when the file does not exist
  edits,      \* last version written to any file
  online,     \* whether the volume is mounted
  gone,       \* directories of Dirs that have been deleted from it
  dirs,       \* RecIds -> row of scanned_directory
  docs,       \* DocIds -> row of document
  fileRows,   \* ids of rows of the file table
  links,      \* ids of rows of file2document
  docNum,     \* doc_num of the knowledge base
  pc,         \* Scanners -> where the thread stands in the code
  plan,       \* Scanners -> directories it still has to scan
  dir,        \* Scanners -> directory being scanned
  listed,     \* Scanners -> files os.walk returned
  rec,        \* Scanners -> scanned_directory row it creates or deletes
  todo,       \* Scanners -> documents of existing_docs still to examine
  left,       \* Scanners -> files of files_to_import still to import
  file,       \* Scanners -> file it is importing
  doc,        \* Scanners -> document it is removing or creating
  requests, failures   \* used up so far

disk == <<fs, edits, online, gone>>
tables == <<dirs, docs, fileRows, links, docNum>>
locals == <<plan, dir, listed, rec, todo, left, file, doc>>
used == <<requests, failures>>
vars == <<disk, tables, pc, locals, used>>

-----------------------------------------------------------------------------
(* File system and rows.                                                   *)

Exists(f) == online /\ fs[f] # 0

\* str(int(st_mtime)): the fraction of the second is dropped.
Mtime(v) == v \div EditsPerSecond

Rows == {i \in DocIds : docs[i].loc # None}
Recs == {r \in RecIds : dirs[r].dir # None}

\* DocumentService.insert takes size and content_hash from the file.
NewRow(f) == [loc |-> f, size |-> SizeOf[fs[f]], hash |-> Mtime(fs[f]),
              state |-> "new", got |-> 0]

\* Mutant: only the size is compared.
UnchangedBySize(i) == docs[i].size = SizeOf[fs[docs[i].loc]]

\* Same size and modification time as when the row was written.
Unchanged(i) == /\ docs[i].size = SizeOf[fs[docs[i].loc]]
                /\ docs[i].hash = Mtime(fs[docs[i].loc])

\* uuid4: ids that no row and no thread refers to; which one is taken does not
\* matter.
FreshDocs == {i \in DocIds : /\ i \notin Rows \cup fileRows \cup links
                             /\ \A s \in Scanners : i \notin todo[s] /\ i # doc[s]}
FreshRecs == {r \in RecIds : r \notin Recs /\ \A s \in Scanners : r # rec[s]}

\* One more failure: of a call, of the server, of the volume.
Fault == failures < MaxFailures /\ failures' = failures + 1

Init ==
  /\ fs = [f \in Files |-> 0]
  /\ edits = 0
  /\ online = TRUE
  /\ gone = {}
  /\ dirs = [r \in RecIds |-> IF Registered[r] = None THEN NoRec
                              ELSE [dir |-> Registered[r], last |-> "fresh"]]
  /\ docs = [i \in DocIds |-> NoDoc]
  /\ fileRows = {}
  /\ links = {}
  /\ docNum = 0
  /\ pc = [s \in Scanners |-> "idle"]
  /\ plan = [s \in Scanners |-> {}]
  /\ dir = [s \in Scanners |-> None]
  /\ listed = [s \in Scanners |-> {}]
  /\ rec = [s \in Scanners |-> None]
  /\ todo = [s \in Scanners |-> {}]
  /\ left = [s \in Scanners |-> {}]
  /\ file = [s \in Scanners |-> None]
  /\ doc = [s \in Scanners |-> None]
  /\ requests = 0
  /\ failures = 0

-----------------------------------------------------------------------------
(* Who starts a scan.                                                      *)

Goto(s, l) == pc' = [pc EXCEPT ![s] = l]

\* scan_directory returns, or an exception leaves it: on to the next directory.
Return(s) ==
  /\ Goto(s, "idle")
  /\ plan' = [plan EXCEPT ![s] = @ \ {dir[s]}]
  /\ dir' = [dir EXCEPT ![s] = None]
  /\ listed' = [listed EXCEPT ![s] = {}]
  /\ rec' = [rec EXCEPT ![s] = None]
  /\ todo' = [todo EXCEPT ![s] = {}]
  /\ left' = [left EXCEPT ![s] = {}]
  /\ file' = [file EXCEPT ![s] = None]
  /\ doc' = [doc EXCEPT ![s] = None]

\* A round of the scheduler, or of check_and_trigger_scan: the rows are read
\* once and the directories found due are then scanned one after the other.
Tick(s) ==
  /\ pc[s] = "idle" /\ plan[s] = {}
  /\ plan' = [plan EXCEPT ![s] = {dirs[r].dir : r \in {q \in Recs : dirs[q].last = "due"}}]
  /\ plan'[s] # {}
  /\ UNCHANGED <<disk, tables, pc, dir, listed, rec, todo, left, file, doc, used>>

\* POST scan_path.
ScanPath(d) ==
  /\ pc[EventLoop] = "idle" /\ plan[EventLoop] = {}
  /\ requests < MaxRequests
  /\ requests' = requests + 1
  /\ plan' = [plan EXCEPT ![EventLoop] = {d}]
  /\ UNCHANGED <<disk, tables, pc, dir, listed, rec, todo, left, file, doc, failures>>

-----------------------------------------------------------------------------
(* scan_directory: from the path checks to the directory row.              *)

\* The path must lie on a mounted volume, exist and be a directory; otherwise
\* scan_directory returns an error before it looks at any document.
CheckPath(s) ==
  /\ pc[s] = "idle"
  /\ \E d \in plan[s] :
       IF online /\ d \notin gone
       THEN /\ dir' = [dir EXCEPT ![s] = d]
            /\ Goto(s, "walk")
            /\ UNCHANGED plan
       ELSE /\ plan' = [plan EXCEPT ![s] = @ \ {d}]
            /\ UNCHANGED <<pc, dir>>
  /\ UNCHANGED <<disk, tables, listed, rec, todo, left, file, doc, used>>

\* Count the files, give up above the limit, collect them otherwise.
Walk(s) ==
  /\ pc[s] = "walk"
  /\ LET found == {f \in Inside[dir[s]] : Exists(f)} IN
       IF Cardinality(found) > FileLimit
       THEN Return(s)
       ELSE /\ listed' = [listed EXCEPT ![s] = found]
            /\ Goto(s, "lookup")
            /\ UNCHANGED <<plan, dir, rec, todo, left, file, doc>>
  /\ UNCHANGED <<disk, tables, used>>

\* Mutant: without a row for the path, the last_scan_time of none is set.
LookUpNeverCreates(s) ==
  /\ pc[s] = "lookup"
  /\ LET same == {r \in Recs : dirs[r].dir = dir[s]} IN
       \/ /\ same = {}
          /\ Goto(s, "stamp")
          /\ UNCHANGED dirs
       \/ \E r \in same :
            /\ dirs' = [dirs EXCEPT ![r].last = "fresh"]
            /\ Goto(s, "query")
  /\ UNCHANGED <<disk, docs, fileRows, links, docNum, locals, used>>

\* The first row with this path gets a new last_scan_time.
LookUp(s) ==
  /\ pc[s] = "lookup"
  /\ LET same == {r \in Recs : dirs[r].dir = dir[s]} IN
       \/ /\ same = {}
          /\ Goto(s, "create")
          /\ UNCHANGED dirs
       \/ \E r \in same :
            /\ dirs' = [dirs EXCEPT ![r].last = "fresh"]
            /\ Goto(s, "query")
  /\ UNCHANGED <<disk, docs, fileRows, links, docNum, locals, used>>

Create(s) ==
  /\ pc[s] = "create"
  /\ FreshRecs # {}
  /\ LET r == CHOOSE r \in FreshRecs : TRUE IN
       /\ dirs' = [dirs EXCEPT ![r] = [dir |-> dir[s], last |-> "null"]]
       /\ rec' = [rec EXCEPT ![s] = r]
  /\ Goto(s, "stamp")
  /\ UNCHANGED <<disk, docs, fileRows, links, docNum, plan, dir, listed, todo, left, file, doc, used>>

Stamp(s) ==
  /\ pc[s] = "stamp"
  /\ dirs' = IF dirs[rec[s]].dir = None THEN dirs
             ELSE [dirs EXCEPT ![rec[s]].last = "fresh"]
  /\ rec' = [rec EXCEPT ![s] = None]
  /\ Goto(s, "query")
  /\ UNCHANGED <<disk, docs, fileRows, links, docNum, plan, dir, listed, todo, left, file, doc, used>>

\* Documents whose location starts with the path.
UnderPath(d) == {i \in Rows : docs[i].loc \in StartsWith[d]}

Query(s) ==
  /\ pc[s] = "query"
  /\ todo' = [todo EXCEPT ![s] = UnderPath(dir[s])]
  /\ Goto(s, "examine")
  /\ UNCHANGED <<disk, tables, plan, dir, listed, rec, left, file, doc, used>>

\* A database error before the loops leaves scan_directory.
ScanFails(s) ==
  /\ pc[s] \in {"lookup", "create", "stamp", "query"}
  /\ Fault
  /\ Return(s)
  /\ UNCHANGED <<disk, tables, requests>>

-----------------------------------------------------------------------------
(* The deletion loop.                                                      *)

\* Mutant: size and mtime are not compared, every document is parsed again.
StaleAlways(s, i) == docs[i].loc # None

\* Mutant: the branch for deleted files is missing.
StaleModifiedOnly(s, i) ==
  docs[i].loc # None /\ Exists(docs[i].loc) /\ ~Unchanged(i)

\* What the loop decides about document i of existing_docs.
Stale(s, i) ==
  /\ docs[i].loc # None
  /\ \/ docs[i].loc \notin listed[s]
     \/ Exists(docs[i].loc) /\ ~Unchanged(i)

\* Mutant: the rows of file and file2document are forgotten.
ExamineKeepsFiles(s) ==
  /\ pc[s] = "examine"
  /\ \E i \in todo[s] :
       /\ todo' = [todo EXCEPT ![s] = @ \ {i}]
       /\ IF Stale(s, i)
          THEN doc' = [doc EXCEPT ![s] = i] /\ Goto(s, "remove")
          ELSE UNCHANGED <<doc, pc>>
  /\ UNCHANGED <<disk, tables, plan, dir, listed, rec, left, file, used>>

Examine(s) ==
  /\ pc[s] = "examine"
  /\ \E i \in todo[s] :
       /\ todo' = [todo EXCEPT ![s] = @ \ {i}]
       /\ IF Stale(s, i)
          THEN /\ fileRows' = fileRows \ {i}
               /\ links' = links \ {i}
               /\ doc' = [doc EXCEPT ![s] = i]
               /\ Goto(s, "remove")
          ELSE UNCHANGED <<fileRows, links, doc, pc>>
  /\ UNCHANGED <<disk, dirs, docs, docNum, plan, dir, listed, rec, left, file, used>>

\* A failure before anything, or after file2document, is logged: next document.
ExamineFails(s) ==
  /\ pc[s] = "examine"
  /\ Fault
  /\ \E i \in todo[s] :
       /\ Stale(s, i)
       /\ todo' = [todo EXCEPT ![s] = @ \ {i}]
       /\ links' \in {links, links \ {i}}
  /\ UNCHANGED <<disk, dirs, docs, fileRows, docNum, pc, plan, dir, listed, rec, left, file, doc,
                 requests>>

\* Mutant: doc_num is reduced whether or not the row was still there.
DeleteRowTwice(i) ==
  /\ docs' = [docs EXCEPT ![i] = NoDoc]
  /\ docNum' = docNum - 1

\* The row of i goes and doc_num is reduced, in one transaction, if the row
\* is still there.
DeleteRow(i) ==
  IF docs[i].loc = None THEN UNCHANGED <<docs, docNum>>
  ELSE /\ docs' = [docs EXCEPT ![i] = NoDoc]
       /\ docNum' = docNum - 1

\* remove_document, from the deletion loop or from DELETE scanned_directories.
Remove(s) ==
  /\ pc[s] \in {"remove", "purgeRow"}
  /\ DeleteRow(doc[s])
  /\ doc' = [doc EXCEPT ![s] = None]
  /\ Goto(s, IF pc[s] = "remove" THEN "examine" ELSE "purge")
  /\ UNCHANGED <<disk, dirs, fileRows, links, plan, dir, listed, rec, todo, left, file, used>>

RemoveFails(s) ==
  /\ pc[s] \in {"remove", "purgeRow"}
  /\ Fault
  /\ doc' = [doc EXCEPT ![s] = None]
  /\ Goto(s, IF pc[s] = "remove" THEN "examine" ELSE "purge")
  /\ UNCHANGED <<disk, tables, plan, dir, listed, rec, todo, left, file, requests>>

Examined(s) ==
  /\ pc[s] = "examine" /\ todo[s] = {}
  /\ left' = [left EXCEPT ![s] = listed[s]]
  /\ Goto(s, "import")
  /\ UNCHANGED <<disk, tables, plan, dir, listed, rec, todo, file, doc, used>>

-----------------------------------------------------------------------------
(* The import loop.                                                        *)

\* One more iteration is over, with or without an error.
NextFile(s) ==
  /\ Goto(s, "import")
  /\ file' = [file EXCEPT ![s] = None]
  /\ doc' = [doc EXCEPT ![s] = None]

\* Mutant: files are imported without looking for a document.
CheckFileBlind(s) ==
  /\ pc[s] = "import"
  /\ \E f \in left[s] :
       /\ left' = [left EXCEPT ![s] = @ \ {f}]
       /\ file' = [file EXCEPT ![s] = f]
  /\ Goto(s, "insert")
  /\ UNCHANGED <<disk, tables, plan, dir, listed, rec, todo, doc, used>>

\* A document of this location exists: skip the file.
CheckFile(s) ==
  /\ pc[s] = "import"
  /\ \E f \in left[s] :
       /\ left' = [left EXCEPT ![s] = @ \ {f}]
       /\ IF \E i \in Rows : docs[i].loc = f
          THEN UNCHANGED <<pc, file>>
          ELSE /\ file' = [file EXCEPT ![s] = f]
               /\ Goto(s, "insert")
  /\ UNCHANGED <<disk, tables, plan, dir, listed, rec, todo, doc, used>>

\* getsize and getmtime raise when the file has gone.
InsertMissing(s) ==
  /\ pc[s] = "insert"
  /\ ~Exists(file[s])
  /\ NextFile(s)
  /\ UNCHANGED <<disk, tables, plan, dir, listed, rec, todo, left, used>>

\* Only the row is written here; doc_num follows.
Insert(s) ==
  /\ pc[s] = "insert"
  /\ Exists(file[s])
  /\ FreshDocs # {}
  /\ LET i == CHOOSE i \in FreshDocs : TRUE IN
       /\ docs' = [docs EXCEPT ![i] = NewRow(file[s])]
       /\ doc' = [doc EXCEPT ![s] = i]
  /\ Goto(s, "count")
  /\ UNCHANGED <<disk, dirs, fileRows, links, docNum, plan, dir, listed, rec, todo, left, file, used>>

Count(s) ==
  /\ pc[s] = "count"
  /\ docNum' = docNum + 1
  /\ Goto(s, "file")
  /\ UNCHANGED <<disk, dirs, docs, fileRows, links, locals, used>>

\* Rows of file and file2document; getsize is called once more.
InsertFile(s) ==
  /\ pc[s] = "file"
  /\ IF Exists(file[s])
     THEN /\ fileRows' = fileRows \cup {doc[s]}
          /\ links' = links \cup {doc[s]}
          /\ Goto(s, "run")
          /\ UNCHANGED <<file, doc>>
     ELSE /\ NextFile(s)
          /\ UNCHANGED <<fileRows, links>>
  /\ UNCHANGED <<disk, dirs, docs, docNum, plan, dir, listed, rec, todo, left, used>>

\* A failed insert into file2document alone is only logged.
LinkFails(s) ==
  /\ pc[s] = "file"
  /\ Fault
  /\ Exists(file[s])
  /\ fileRows' = fileRows \cup {doc[s]}
  /\ Goto(s, "run")
  /\ UNCHANGED <<disk, dirs, docs, links, docNum, locals, requests>>

\* DocumentService.run queues the parsing; it raises when the row has gone.
Run(s) ==
  /\ pc[s] = "run"
  /\ docs' = IF docs[doc[s]].loc = None THEN docs
             ELSE [docs EXCEPT ![doc[s]].state = "queued"]
  /\ NextFile(s)
  /\ UNCHANGED <<disk, dirs, fileRows, links, docNum, plan, dir, listed, rec, todo, left, used>>

\* A database or Redis error anywhere in an iteration: "Failed to process file".
ImportFails(s) ==
  /\ pc[s] \in {"insert", "count", "file", "run"}
  /\ Fault
  /\ NextFile(s)
  /\ UNCHANGED <<disk, tables, plan, dir, listed, rec, todo, left, requests>>

\* update_last_scan_time_by_path, and the scan is over.
Finish(s) ==
  /\ pc[s] = "import" /\ left[s] = {}
  /\ dirs' = [r \in RecIds |-> IF dirs[r].dir = dir[s] THEN [dirs[r] EXCEPT !.last = "fresh"]
                               ELSE dirs[r]]
  /\ Return(s)
  /\ UNCHANGED <<disk, docs, fileRows, links, docNum, used>>

-----------------------------------------------------------------------------
(* DELETE scanned_directories/<id>, on the event loop.                     *)

RemoveDirectory(r) ==
  /\ pc[EventLoop] = "idle" /\ plan[EventLoop] = {}
  /\ requests < MaxRequests
  /\ requests' = requests + 1
  /\ r \in Recs
  /\ rec' = [rec EXCEPT ![EventLoop] = r]
  /\ todo' = [todo EXCEPT ![EventLoop] = UnderPath(dirs[r].dir)]
  /\ Goto(EventLoop, "purge")
  /\ UNCHANGED <<disk, tables, plan, dir, listed, left, file, doc, failures>>

Purge ==
  /\ pc[EventLoop] = "purge"
  /\ \E i \in todo[EventLoop] :
       /\ todo' = [todo EXCEPT ![EventLoop] = @ \ {i}]
       /\ doc' = [doc EXCEPT ![EventLoop] = i]
       /\ fileRows' = fileRows \ {i}
       /\ links' = links \ {i}
  /\ Goto(EventLoop, "purgeRow")
  /\ UNCHANGED <<disk, dirs, docs, docNum, plan, dir, listed, rec, left, file, used>>

\* Each of the deletions is tried whatever became of the one before.
PurgeFails ==
  /\ pc[EventLoop] = "purge"
  /\ Fault
  /\ \E i \in todo[EventLoop] :
       /\ todo' = [todo EXCEPT ![EventLoop] = @ \ {i}]
       /\ doc' = [doc EXCEPT ![EventLoop] = i]
       /\ fileRows' \in {fileRows, fileRows \ {i}}
       /\ links' \in {links, links \ {i}}
  /\ Goto(EventLoop, "purgeRow")
  /\ UNCHANGED <<disk, dirs, docs, docNum, plan, dir, listed, rec, left, file,
                 requests>>

Unregister ==
  /\ pc[EventLoop] = "purge" /\ todo[EventLoop] = {}
  /\ dirs' = [dirs EXCEPT ![rec[EventLoop]] = NoRec]
  /\ Return(EventLoop)
  /\ UNCHANGED <<disk, docs, fileRows, links, docNum, used>>

-----------------------------------------------------------------------------
(* The rest of the world.                                                  *)

\* An executor reads the file when it gets to the task (build_chunks).
Parse(i) ==
  /\ docs[i].state = "queued"
  /\ docs' = [docs EXCEPT ![i].state = IF Exists(docs[i].loc) THEN "parsed" ELSE "failed",
                          ![i].got = IF Exists(docs[i].loc) THEN fs[docs[i].loc] ELSE 0]
  /\ UNCHANGED <<disk, dirs, fileRows, links, docNum, pc, locals, used>>

\* scan_interval_minutes have passed since last_scan_time, or a PUT request has
\* set a shorter interval.
Elapse(r) ==
  /\ dirs[r].last = "fresh"
  /\ dirs' = [dirs EXCEPT ![r].last = "due"]
  /\ UNCHANGED <<disk, docs, fileRows, links, docNum, pc, locals, used>>

\* A file is created or written, and the directories above it if need be.
Write(f) ==
  /\ online
  /\ edits < MaxVersion
  /\ edits' = edits + 1
  /\ fs' = [fs EXCEPT ![f] = edits + 1]
  /\ gone' = {d \in gone : f \notin Inside[d]}
  /\ UNCHANGED <<online, tables, pc, locals, used>>

Unlink(f) ==
  /\ online
  /\ fs[f] # 0
  /\ fs' = [fs EXCEPT ![f] = 0]
  /\ UNCHANGED <<edits, online, gone, tables, pc, locals, used>>

\* A directory is deleted with all that is below it, or takes another name.
\* (Of two directories that hold the same files, both go.)
DeleteDirectory(d) ==
  /\ online
  /\ d \notin gone
  /\ gone' = gone \cup {e \in Dirs : Inside[e] \subseteq Inside[d]}
  /\ fs' = [f \in Files |-> IF f \in Inside[d] THEN 0 ELSE fs[f]]
  /\ UNCHANGED <<edits, online, tables, pc, locals, used>>

Unmount ==
  /\ online
  /\ MayUnmount
  /\ Fault
  /\ online' = FALSE
  /\ UNCHANGED <<fs, edits, gone, tables, pc, locals, requests>>

Mount ==
  /\ ~online
  /\ online' = TRUE
  /\ UNCHANGED <<fs, edits, gone, tables, pc, locals, used>>

\* The server process dies with all its threads and starts again.
Crash ==
  /\ Fault
  /\ pc' = [s \in Scanners |-> "idle"]
  /\ plan' = [s \in Scanners |-> {}]
  /\ dir' = [s \in Scanners |-> None]
  /\ listed' = [s \in Scanners |-> {}]
  /\ rec' = [s \in Scanners |-> None]
  /\ todo' = [s \in Scanners |-> {}]
  /\ left' = [s \in Scanners |-> {}]
  /\ file' = [s \in Scanners |-> None]
  /\ doc' = [s \in Scanners |-> None]
  /\ UNCHANGED <<disk, tables, requests>>

-----------------------------------------------------------------------------
Scan(s) ==
  \/ CheckPath(s) \/ Walk(s) \/ LookUp(s) \/ Create(s) \/ Stamp(s) \/ Query(s)
  \/ Examine(s) \/ Remove(s) \/ Examined(s)
  \/ CheckFile(s) \/ InsertMissing(s) \/ Insert(s) \/ Count(s) \/ InsertFile(s)
  \/ Run(s) \/ Finish(s)

Failure(s) ==
  \/ ScanFails(s) \/ ExamineFails(s) \/ RemoveFails(s) \/ LinkFails(s) \/ ImportFails(s)

Requests == \/ \E d \in Dirs : ScanPath(d)
            \/ \E r \in RecIds : RemoveDirectory(r)

Environment ==
  \/ \E i \in DocIds : Parse(i)
  \/ \E r \in RecIds : Elapse(r)
  \/ \E f \in Files : Write(f) \/ Unlink(f)
  \/ \E d \in Dirs : DeleteDirectory(d)
  \/ Unmount \/ Mount \/ Crash

Next ==
  \/ \E s \in Threads : Tick(s)
  \/ \E s \in Scanners : Scan(s) \/ Failure(s)
  \/ Requests \/ Purge \/ PurgeFails \/ Unregister
  \/ Environment

Spec == Init /\ [][Next]_vars

\* The scheduler wakes up every minute, a thread inside scan_directory runs
\* on, time passes, executors work through the queue.  Nothing is assumed of
\* the users, of the file system, or of the GET requests behind Triggers.
Fairness ==
  /\ WF_vars(Tick(Scheduler))
  /\ \A s \in Scanners : WF_vars(Scan(s))
  /\ WF_vars(Purge) /\ WF_vars(Unregister)
  /\ \A i \in DocIds : WF_vars(Parse(i))
  /\ \A r \in RecIds : WF_vars(Elapse(r))
  /\ WF_vars(Mount)

FairSpec == Spec /\ Fairness

-----------------------------------------------------------------------------
(* Properties.                                                             *)

States == {"gone", "new", "queued", "parsed", "failed"}
Labels == {"idle", "walk", "lookup", "create", "stamp", "query", "examine", "remove",
           "import", "insert", "count", "file", "run", "purge", "purgeRow"}

\* The local variables that the statement a thread stands at reads.
Local(s) ==
  /\ pc[s] \notin {"idle", "purge", "purgeRow"} => dir[s] \in Dirs
  /\ pc[s] \in {"insert", "count", "file", "run"} => file[s] \in Files
  /\ pc[s] \in {"remove", "count", "file", "run", "purgeRow"} => doc[s] \in DocIds
  /\ pc[s] \in {"stamp", "purge", "purgeRow"} => rec[s] \in RecIds

\* Type invariant of the file system, the four tables, and the local variables
\* of the threads inside scan_directory: wherever a thread stands, the
\* directory, file, document and record it is going to read have been set.
TypeOK ==
  /\ fs \in [Files -> 0..MaxVersion]
  /\ edits \in 0..MaxVersion
  /\ online \in BOOLEAN
  /\ gone \subseteq Dirs
  /\ dirs \in [RecIds -> [dir : Dirs \cup {None}, last : {"null", "fresh", "due"}]]
  /\ docs \in [DocIds -> [loc : Files \cup {None}, size : Nat, hash : Nat,
                          state : States, got : 0..MaxVersion]]
  /\ fileRows \subseteq DocIds
  /\ links \subseteq DocIds
  /\ docNum \in Int
  /\ pc \in [Scanners -> Labels]
  /\ plan \in [Scanners -> SUBSET Dirs]
  /\ dir \in [Scanners -> Dirs \cup {None}]
  /\ listed \in [Scanners -> SUBSET Files]
  /\ rec \in [Scanners -> RecIds \cup {None}]
  /\ todo \in [Scanners -> SUBSET DocIds]
  /\ left \in [Scanners -> SUBSET Files]
  /\ file \in [Scanners -> Files \cup {None}]
  /\ doc \in [Scanners -> DocIds \cup {None}]
  /\ requests \in Nat /\ failures \in Nat
  /\ \A s \in Scanners : Local(s)

\* As long as no call fails and the server lives, doc_num of the knowledge base
\* is the number of document rows, but for the inserts whose increment is
\* still to come: however many threads remove the same document, it is
\* subtracted once.
CountMatchesRows ==
  failures = 0 =>
    docNum = Cardinality(Rows) - Cardinality({s \in Scanners : pc[s] = "count"})

\* Documents of file f, and threads that have found none and are to insert one.
Copies(f) == {i \in Rows : docs[i].loc = f}
Importers(f) == {s \in Scanners : pc[s] = "insert" /\ file[s] = f}

\* Scans that overlap may import a file more than once, since the test for its
\* document and the insert are two statements; but the knowledge base never
\* holds more documents of a file than there are scanning threads, however
\* often they scan, whatever fails and whoever removes documents meanwhile.
DuplicatesBounded ==
  \A f \in Files :
    Cardinality(Copies(f)) + Cardinality(Importers(f)) <= Cardinality(Scanners)

\* Rows of file and file2document never outlive the document: a scan takes
\* them away before the document and adds them after it.
NoOrphanRows == fileRows \cup links \subseteq Rows

\* A scan never removes the document of a file that exists and has not
\* been modified.
UnchangedKept ==
  [][\A s \in Scanners :
       (pc[s] = "remove" /\ docs[doc[s]].loc # None /\ docs'[doc[s]].loc = None)
         => ~(fs[docs[doc[s]].loc] # 0 /\ Unchanged(doc[s]))]_vars

\* Row r has the file scanned again and again, together with not too many others.
Watches(r, f) ==
  /\ dirs[r].last # "null"
  /\ f \in Inside[dirs[r].dir]
  /\ Cardinality({g \in Inside[dirs[r].dir] : fs[g] # 0}) <= FileLimit

\* The file is below such a directory, which itself exists.
Covered(f) == \E r \in Recs : Watches(r, f) /\ dirs[r].dir \notin gone

\* A file that exists has a document parsed from its present content; one that
\* does not has none.
Synced(f) ==
  IF fs[f] = 0 THEN \A i \in Rows : docs[i].loc # f
  ELSE \E i \in Rows : docs[i].loc = f /\ docs[i].state = "parsed" /\ docs[i].got = fs[f]

\* Once files stop changing, the knowledge base catches up with every scanned
\* directory that exists and stays so.
Converges == \A f \in Files : <>[]Covered(f) => <>[]Synced(f)

\* It does, however the scanning threads overlapped with each other, with
\* requests and with changes of the files, if no call fails and the server and
\* the volume stay up.
ConvergesUndisturbed == [](failures = 0) => Converges

\* The documents below every directory that exists come to mirror its files,
\* even after crashes of the server, failed calls, an unmounted volume and
\* requests at any moment: the next scans repair what an interrupted one
\* left, parsing excepted.
Mirrors ==
  \A f \in Files : <>[]Covered(f) => <>[]((fs[f] # 0) <=> \E i \in Rows : docs[i].loc = f)

\* The documentation: the document of a file deleted from a scanned directory is
\* removed.  It does not except a file deleted with its directory, where
\* scan_directory returns before its deletion loop.
DeletedFollow ==
  \A f \in Files :
    <>[](fs[f] = 0 /\ \E r \in Recs : Watches(r, f)) => <>[](\A i \in Rows : docs[i].loc # f)
=============================================================================
