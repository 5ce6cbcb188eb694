--------------------------- MODULE LocalScan_proofs ---------------------------
(* Proofs about LocalScan for every set of files, directories, documents    *)
(* and scanning threads, and every number of requests and failures.         *)
EXTENDS LocalScan, FiniteSetTheorems, TLAPS

\* A deleted row is in no state an executor would act on.
GoneInv == \A i \in DocIds : docs[i].loc = None => docs[i].state = "gone"

TInv == TypeOK /\ GoneInv

\* Every thread starts idle and there is no document.
LEMMA InitTInv == Init => TInv
<1> SUFFICES ASSUME Init PROVE TInv
  OBVIOUS
<1>1. dirs \in [RecIds -> [dir : Dirs \cup {None}, last : {"null", "fresh", "due"}]]
  BY ScanAssumption DEF Init, NoRec
<1>2. docs \in [DocIds -> [loc : Files \cup {None}, size : Nat, hash : Nat, state : States, got : 0..MaxVersion]]
  BY ScanAssumption DEF Init, NoDoc, States
<1>3. TypeOK
  BY <1>1, <1>2, ScanAssumption DEF Init, TypeOK, Labels, Local
<1>4. QED
  BY <1>3 DEF Init, TInv, GoneInv, NoDoc

\* Size and modification time of a file that exists can be stored in a row.
LEMMA RowType ==
  ASSUME TypeOK, NEW f \in Files, fs[f] # 0
  PROVE  NewRow(f) \in [loc : Files \cup {None}, size : Nat, hash : Nat, state : States, got : 0..MaxVersion]
<1>1. fs[f] \in 1..MaxVersion /\ MaxVersion \in Nat /\ EditsPerSecond \in Nat \ {0}
  BY ScanAssumption DEF TypeOK
<1>2. SizeOf[fs[f]] \in Nat
  BY <1>1, ScanAssumption
<1>3. Mtime(fs[f]) \in Nat
  <2>1. \A a \in Nat : \A b \in Nat \ {0} : a \div b \in Nat
    OBVIOUS
  <2>2. QED BY <1>1, <2>1 DEF Mtime
<1>4. QED
  BY <1>1, <1>2, <1>3 DEF NewRow, States

DocType == [loc : Files \cup {None}, size : Nat, hash : Nat, state : States, got : 0..MaxVersion]
DirType == [dir : Dirs \cup {None}, last : {"null", "fresh", "due"}]

\* The tables and the file system keep their types.
LEMMA TableType ==
  ASSUME TInv, [Next]_vars
  PROVE  /\ fs' \in [Files -> 0..MaxVersion] /\ edits' \in 0..MaxVersion /\ online' \in BOOLEAN
         /\ gone' \subseteq Dirs /\ requests' \in Nat /\ failures' \in Nat
         /\ fileRows' \subseteq DocIds /\ links' \subseteq DocIds
<1>1. /\ fs \in [Files -> 0..MaxVersion] /\ edits \in 0..MaxVersion /\ online \in BOOLEAN /\ MaxVersion \in Nat
      /\ gone \subseteq Dirs /\ requests \in Nat /\ failures \in Nat
      /\ fileRows \subseteq DocIds /\ links \subseteq DocIds
  BY ScanAssumption DEF TInv, TypeOK
<1> DEFINE Disk == /\ fs' \in [Files -> 0..MaxVersion] /\ edits' \in 0..MaxVersion
                   /\ online' \in BOOLEAN /\ gone' \subseteq Dirs
           Used == requests' \in Nat /\ failures' \in Nat
           Links == fileRows' \subseteq DocIds /\ links' \subseteq DocIds
<1>2. ASSUME NEW s \in Scanners, Scan(s) PROVE Disk /\ Used /\ Links
  <2>1. UNCHANGED <<disk, used>>
    BY <1>2 DEF Scan, CheckPath, Walk, LookUp, Create, Stamp, Query, Examine, Remove, Examined, CheckFile,
       InsertMissing, Insert, Count, InsertFile, Run, Finish
  <2>2. Links
    <3>1. CASE Examine(s)
      BY <1>1, <3>1 DEF Examine
    <3>2. CASE InsertFile(s)
      <4>1. doc[s] \in DocIds
        BY <3>2 DEF TInv, TypeOK, Local, InsertFile
      <4>2. QED BY <1>1, <3>2, <4>1 DEF InsertFile
    <3>3. CASE ~Examine(s) /\ ~InsertFile(s)
      <4>1. UNCHANGED <<fileRows, links>>
        BY <1>2, <3>3 DEF Scan, CheckPath, Walk, LookUp, Create, Stamp, Query, Remove, Examined, CheckFile,
           InsertMissing, Insert, Count, Run, Finish, tables
      <4>2. QED BY <1>1, <4>1
    <3>4. QED BY <3>1, <3>2, <3>3
  <2>3. QED BY <1>1, <2>1, <2>2 DEF disk, used
<1>3. ASSUME NEW s \in Scanners, Failure(s) PROVE Disk /\ Used /\ Links
  <2>1. UNCHANGED <<disk, requests>> /\ Fault
    BY <1>3 DEF Failure, ScanFails, ExamineFails, RemoveFails, LinkFails, ImportFails
  <2>2. Links
    <3>1. CASE LinkFails(s)
      <4>1. doc[s] \in DocIds
        BY <3>1 DEF TInv, TypeOK, Local, LinkFails
      <4>2. QED BY <1>1, <3>1, <4>1 DEF LinkFails
    <3>2. CASE ExamineFails(s)
      BY <1>1, <3>2 DEF ExamineFails
    <3>3. CASE ScanFails(s) \/ RemoveFails(s) \/ ImportFails(s)
      BY <1>1, <3>3 DEF ScanFails, RemoveFails, ImportFails, tables
    <3>4. QED BY <1>3, <3>1, <3>2, <3>3 DEF Failure
  <2>3. QED BY <1>1, <2>1, <2>2 DEF disk, Fault
<1>4. CASE Requests \/ Purge \/ PurgeFails \/ Unregister \/ \E s \in Threads : Tick(s)
  <2>1. UNCHANGED disk /\ Used
    BY <1>1, <1>4 DEF Requests, ScanPath, RemoveDirectory, Purge, PurgeFails, Unregister, Tick, used, Fault
  <2>2. Links
    BY <1>1, <1>4 DEF Requests, ScanPath, RemoveDirectory, Purge, PurgeFails, Unregister, Tick, tables
  <2>3. QED BY <1>1, <2>1, <2>2 DEF disk
<1>5. CASE Environment
  <2>1. Used /\ UNCHANGED <<fileRows, links>>
    <3>1. UNCHANGED <<fileRows, links>>
      BY <1>5 DEF Environment, Parse, Elapse, Write, Unlink, DeleteDirectory, Unmount, Mount, Crash, tables
    <3>2. UNCHANGED requests /\ (UNCHANGED failures \/ Fault)
      BY <1>5 DEF Environment, Parse, Elapse, Write, Unlink, DeleteDirectory, Unmount, Mount, Crash, used
    <3>3. QED BY <1>1, <3>1, <3>2 DEF Fault
  <2>2. Disk
    <3>1. CASE \E f \in Files : Write(f) \/ Unlink(f)
      BY <1>1, <3>1 DEF Write, Unlink
    <3>2. CASE UNCHANGED <<fs, edits, gone>> /\ online' \in BOOLEAN
      BY <1>1, <3>2
    <3>3. CASE \E d \in Dirs : DeleteDirectory(d)
      BY <1>1, <3>3 DEF DeleteDirectory
    <3>4. QED BY <1>1, <1>5, <3>1, <3>2, <3>3 DEF Environment, Parse, Elapse, Unmount, Mount, Crash, disk
  <2>3. QED BY <1>1, <2>1, <2>2
<1>6. CASE UNCHANGED vars
  BY <1>1, <1>6 DEF vars, disk, tables, used
<1>7. QED
  BY <1>2, <1>3, <1>4, <1>5, <1>6 DEF Next

\* What a step does to the document rows: a new row for a file that exists, a
\* deletion, a change of the parsing state, or nothing.
Added(s) ==
  \E i \in FreshDocs : /\ pc[s] = "insert" /\ Exists(file[s])
                       /\ docs' = [docs EXCEPT ![i] = NewRow(file[s])]
                       /\ doc' = [doc EXCEPT ![s] = i]
                       /\ pc' = [pc EXCEPT ![s] = "count"]
                       /\ UNCHANGED <<docNum, failures>>
Touched ==
  \E i \in DocIds : /\ docs[i].loc # None
                    /\ docs' = [docs EXCEPT ![i] = docs'[i]]
                    /\ docs'[i] \in DocType
                    /\ docs'[i].loc = docs[i].loc /\ docs'[i].size = docs[i].size /\ docs'[i].hash = docs[i].hash

\* Inserting a document adds one fresh row.
LEMMA InsertAdds ==
  ASSUME NEW s \in Scanners, Insert(s)
  PROVE  Added(s)
<1>1. (CHOOSE i \in FreshDocs : TRUE) \in FreshDocs
  BY DEF Insert
<1>2. QED
  BY <1>1 DEF Insert, Added, Goto, used

\* Queueing and parsing a document only change its state.
LEMMA TouchOnly ==
  ASSUME TInv, (\E s \in Scanners : Run(s)) \/ (\E i \in DocIds : Parse(i))
  PROVE  UNCHANGED docs \/ Touched
<1>0. /\ docs \in [DocIds -> DocType] /\ MaxVersion \in Nat
      /\ fs \in [Files -> 0..MaxVersion]
  BY ScanAssumption DEF TInv, TypeOK, DocType
<1>1. ASSUME NEW s \in Scanners, Run(s), ~UNCHANGED docs PROVE Touched
  <2> DEFINE i == doc[s]
  <2>1. i \in DocIds /\ docs[i].loc # None /\ docs' = [docs EXCEPT ![i].state = "queued"]
    BY <1>1 DEF Run, TInv, TypeOK, Local
  <2>2. docs'[i] = [docs[i] EXCEPT !.state = "queued"] /\ docs[i] \in DocType
    BY <1>0, <2>1
  <2>3. /\ docs'[i] \in DocType
        /\ docs'[i].loc = docs[i].loc /\ docs'[i].size = docs[i].size /\ docs'[i].hash = docs[i].hash
    BY <2>2 DEF DocType, States
  <2>4. docs' = [docs EXCEPT ![i] = docs'[i]]
    BY <1>0, <2>1
  <2>5. QED BY <2>1, <2>3, <2>4 DEF Touched
<1>2. ASSUME NEW i \in DocIds, Parse(i) PROVE Touched
  <2>1. docs[i].loc # None /\ docs[i] \in DocType
    BY <1>0, <1>2 DEF Parse, TInv, GoneInv
  <2>2. docs[i].loc \in Files
    BY <2>1 DEF DocType
  <2>3. docs'[i] = [docs[i] EXCEPT !.state = IF Exists(docs[i].loc) THEN "parsed" ELSE "failed",
                                   !.got = IF Exists(docs[i].loc) THEN fs[docs[i].loc] ELSE 0]
    BY <1>0, <1>2 DEF Parse
  <2>4. /\ docs'[i] \in DocType
        /\ docs'[i].loc = docs[i].loc /\ docs'[i].size = docs[i].size /\ docs'[i].hash = docs[i].hash
    <3>1. PICK g \in 0..MaxVersion : g = IF Exists(docs[i].loc) THEN fs[docs[i].loc] ELSE 0
      BY <1>0, <2>2
    <3>2. PICK l \in {"parsed", "failed"} : l = IF Exists(docs[i].loc) THEN "parsed" ELSE "failed"
      BY Zenon
    <3>3. docs'[i] = [docs[i] EXCEPT !.state = l, !.got = g]
      BY <2>3, <3>1, <3>2
    <3>4. QED BY <2>1, <3>3 DEF DocType, States
  <2>5. docs' = [docs EXCEPT ![i] = docs'[i]]
    BY <1>0, <1>2 DEF Parse
  <2>6. QED BY <2>1, <2>4, <2>5 DEF Touched
<1>3. QED BY <1>1, <1>2

\* Document rows are written by Insert, Remove, Run and Parse only.
LEMMA DocsStep ==
  ASSUME TInv, [Next]_vars
  PROVE  \/ \E s \in Scanners : Added(s)
         \/ \E s \in Scanners : Remove(s)
         \/ \E s \in Scanners : Count(s)
         \/ Touched /\ UNCHANGED docNum
         \/ UNCHANGED <<docs, docNum>>
<1>1. ASSUME NEW s \in Scanners, Scan(s), ~Insert(s), ~Remove(s), ~Run(s), ~Count(s) PROVE UNCHANGED <<docs, docNum>>
  BY <1>1 DEF Scan, CheckPath, Walk, LookUp, Create, Stamp, Query, Examine, Examined, CheckFile,
     InsertMissing, InsertFile, Finish, tables
<1>2. ASSUME NEW s \in Scanners, Failure(s) PROVE UNCHANGED <<docs, docNum>>
  BY <1>2 DEF Failure, ScanFails, ExamineFails, RemoveFails, LinkFails, ImportFails, tables
<1>3. CASE Requests \/ Purge \/ PurgeFails \/ Unregister \/ \E s \in Threads : Tick(s)
  BY <1>3 DEF Requests, ScanPath, RemoveDirectory, Purge, PurgeFails, Unregister, Tick, tables
<1>4. CASE Environment /\ ~\E i \in DocIds : Parse(i)
  BY <1>4 DEF Environment, Elapse, Write, Unlink, DeleteDirectory, Unmount, Mount, Crash, tables
<1>5. CASE (\E s \in Scanners : Run(s)) \/ (\E i \in DocIds : Parse(i))
  BY <1>5, TouchOnly DEF Run, Parse
<1>6. CASE UNCHANGED vars
  BY <1>6 DEF vars, tables
<1>7. QED
  BY <1>1, <1>2, <1>3, <1>4, <1>5, <1>6, InsertAdds DEF Next

\* Rows keep their types and a deleted one stays out of the executors' sight.
LEMMA DocsType ==
  ASSUME TInv, [Next]_vars
  PROVE  docs' \in [DocIds -> DocType] /\ docNum' \in Int /\ GoneInv'
<1>0. docs \in [DocIds -> DocType] /\ docNum \in Int
  BY DEF TInv, TypeOK, DocType
<1>1. ASSUME NEW s \in Scanners, Added(s) PROVE docs' \in [DocIds -> DocType] /\ docNum' \in Int /\ GoneInv'
  <2>1. PICK i \in FreshDocs : docs' = [docs EXCEPT ![i] = NewRow(file[s])]
    BY <1>1 DEF Added
  <2>2. file[s] \in Files /\ fs[file[s]] # 0 /\ i \in DocIds
    BY <1>1 DEF Added, TInv, TypeOK, Local, Exists, FreshDocs
  <2>3. NewRow(file[s]) \in DocType
    BY <2>2, RowType DEF TInv, DocType
  <2>4. NewRow(file[s]).loc # None
    BY <2>2, ScanAssumption DEF NewRow
  <2>5. QED BY <1>0, <1>1, <2>1, <2>2, <2>3, <2>4 DEF Added, TInv, GoneInv
<1>2. ASSUME NEW s \in Scanners, Remove(s) PROVE docs' \in [DocIds -> DocType] /\ docNum' \in Int /\ GoneInv'
  <2>1. NoDoc \in DocType /\ NoDoc.state = "gone"
    BY ScanAssumption DEF NoDoc, DocType, States
  <2>2. QED BY <1>0, <1>2, <2>1 DEF Remove, DeleteRow, TInv, GoneInv
<1>3. ASSUME NEW s \in Scanners, Count(s) PROVE docs' \in [DocIds -> DocType] /\ docNum' \in Int /\ GoneInv'
  BY <1>0, <1>3 DEF Count, TInv, GoneInv
<1>4. CASE Touched /\ UNCHANGED docNum
  BY <1>0, <1>4 DEF Touched, TInv, GoneInv
<1>5. CASE UNCHANGED <<docs, docNum>>
  BY <1>0, <1>5 DEF TInv, GoneInv
<1>6. QED BY <1>1, <1>2, <1>3, <1>4, <1>5, DocsStep

\* The scan list keeps its type.
LEMMA DirsType ==
  ASSUME TInv, [Next]_vars
  PROVE  dirs' \in [RecIds -> DirType]
<1>0. dirs \in [RecIds -> DirType] /\ dir \in [Scanners -> Dirs \cup {None}]
  BY DEF TInv, TypeOK, DirType
<1>1. ASSUME NEW r \in RecIds, NEW l \in {"fresh", "due"} PROVE [dirs EXCEPT ![r].last = l] \in [RecIds -> DirType]
  BY <1>0 DEF DirType
<1>2. ASSUME NEW s \in Scanners, LookUp(s) PROVE dirs' \in [RecIds -> DirType]
  BY <1>0, <1>1, <1>2 DEF LookUp, Recs
<1>3. ASSUME NEW s \in Scanners, Create(s) PROVE dirs' \in [RecIds -> DirType]
  <2>1. [dir |-> dir[s], last |-> "null"] \in DirType
    BY <1>0 DEF DirType
  <2>2. QED BY <1>0, <1>3, <2>1 DEF Create
<1>4. ASSUME NEW s \in Scanners, Stamp(s) PROVE dirs' \in [RecIds -> DirType]
  <2>1. rec[s] \in RecIds
    BY <1>4 DEF Stamp, TInv, TypeOK, Local
  <2>2. QED BY <1>0, <1>1, <1>4, <2>1 DEF Stamp
<1>5. ASSUME NEW s \in Scanners, Finish(s) PROVE dirs' \in [RecIds -> DirType]
  BY <1>0, <1>5 DEF Finish, DirType
<1>6. CASE Unregister
  <2>1. NoRec \in DirType
    BY DEF NoRec, DirType
  <2>2. QED BY <1>0, <1>6, <2>1 DEF Unregister
<1>7. ASSUME NEW r \in RecIds, Elapse(r) PROVE dirs' \in [RecIds -> DirType]
  BY <1>1, <1>7 DEF Elapse
<1>8. ASSUME NEW s \in Scanners, Scan(s), ~LookUp(s), ~Create(s), ~Stamp(s), ~Finish(s) PROVE UNCHANGED dirs
  BY <1>8 DEF Scan, CheckPath, Walk, Query, Examine, Remove, Examined, CheckFile,
     InsertMissing, Insert, Count, InsertFile, Run, tables
<1>9. ASSUME NEW s \in Scanners, Failure(s) PROVE UNCHANGED dirs
  BY <1>9 DEF Failure, ScanFails, ExamineFails, RemoveFails, LinkFails, ImportFails, tables
<1>10. CASE Requests \/ Purge \/ PurgeFails \/ \E s \in Threads : Tick(s)
  BY <1>0, <1>10 DEF Requests, ScanPath, RemoveDirectory, Purge, PurgeFails, Tick, tables
<1>11. CASE Environment /\ ~\E r \in RecIds : Elapse(r)
  BY <1>0, <1>11 DEF Environment, Parse, Write, Unlink, DeleteDirectory, Unmount, Mount, Crash, tables
<1>12. CASE UNCHANGED vars
  BY <1>0, <1>12 DEF vars, tables
<1>13. QED
  BY <1>0, <1>2, <1>3, <1>4, <1>5, <1>6, <1>7, <1>8, <1>9, <1>10, <1>11, <1>12 DEF Next

\* The local variables of the threads have their types.
LocalTypes ==
  /\ pc \in [Scanners -> Labels]
  /\ plan \in [Scanners -> SUBSET Dirs]
  /\ dir \in [Scanners -> Dirs \cup {None}]
  /\ listed \in [Scanners -> SUBSET Files]
  /\ rec \in [Scanners -> RecIds \cup {None}]
  /\ todo \in [Scanners -> SUBSET DocIds]
  /\ left \in [Scanners -> SUBSET Files]
  /\ file \in [Scanners -> Files \cup {None}]
  /\ doc \in [Scanners -> DocIds \cup {None}]

\* Every thread keeps the local variables it is going to read.
LEMMA LocalStep ==
  ASSUME TInv, [Next]_vars
  PROVE  LocalTypes' /\ \A s \in Scanners : Local(s)'
<1> DEFINE Goal == LocalTypes' /\ \A t \in Scanners : Local(t)'
           Same(t) == /\ pc'[t] = pc[t] /\ dir'[t] = dir[t] /\ rec'[t] = rec[t]
                      /\ file'[t] = file[t] /\ doc'[t] = doc[t]
           Others(s) == \A t \in Scanners \ {s} : Same(t)
<1>0. LocalTypes /\ \A t \in Scanners : Local(t)
  BY DEF TInv, TypeOK, LocalTypes
<1>1. ASSUME NEW t \in Scanners, Same(t) PROVE Local(t)'
  BY <1>0, <1>1 DEF Local
<1>2. ASSUME NEW s \in Scanners, Others(s), Local(s)', LocalTypes' PROVE Goal
  BY <1>1, <1>2
<1>3. ASSUME NEW s \in Scanners, Return(s) PROVE Goal
  <2>1. LocalTypes' /\ Others(s) /\ pc'[s] = "idle"
    BY <1>0, <1>3 DEF Return, Goto, LocalTypes, Labels
  <2>2. Local(s)'
    BY <2>1 DEF Local
  <2>3. QED BY <1>2, <2>1, <2>2
<1> USE DEF Goto, Labels
<1>4. ASSUME NEW s \in Threads, Tick(s) PROVE Goal
  <2>1. {dirs[r].dir : r \in {q \in Recs : dirs[q].last = "due"}} \subseteq Dirs
    BY DEF Recs, TInv, TypeOK
  <2>2. LocalTypes' /\ \A t \in Scanners : Same(t)
    BY <1>0, <1>4, <2>1 DEF Tick, LocalTypes, Scanners
  <2>3. QED BY <1>1, <2>2
<1>5. ASSUME NEW d \in Dirs, ScanPath(d) PROVE Goal
  <2>1. LocalTypes' /\ \A t \in Scanners : Same(t)
    BY <1>0, <1>5 DEF ScanPath, LocalTypes
  <2>2. QED BY <1>1, <2>1
<1>6. ASSUME NEW s \in Scanners, CheckPath(s) PROVE Goal
  <2>1. PICK d \in plan[s] :
          \/ dir' = [dir EXCEPT ![s] = d] /\ Goto(s, "walk") /\ UNCHANGED plan
          \/ plan' = [plan EXCEPT ![s] = @ \ {d}] /\ UNCHANGED <<pc, dir>>
    BY <1>6 DEF CheckPath
  <2>2. d \in Dirs /\ UNCHANGED <<listed, rec, todo, left, file, doc>>
    BY <1>0, <1>6, <2>1 DEF CheckPath, LocalTypes
  <2>3. CASE dir' = [dir EXCEPT ![s] = d] /\ Goto(s, "walk") /\ UNCHANGED plan
    <3>1. LocalTypes' /\ Others(s) /\ pc'[s] = "walk" /\ dir'[s] \in Dirs
      BY <1>0, <2>1, <2>2, <2>3 DEF LocalTypes
    <3>2. Local(s)'
      BY <3>1 DEF Local
    <3>3. QED BY <1>2, <3>1, <3>2
  <2>4. CASE plan' = [plan EXCEPT ![s] = @ \ {d}] /\ UNCHANGED <<pc, dir>>
    <3>1. LocalTypes' /\ \A t \in Scanners : Same(t)
      BY <1>0, <2>1, <2>2, <2>4 DEF LocalTypes
    <3>2. QED BY <1>1, <3>1
  <2>5. QED BY <2>1, <2>3, <2>4
<1>7. ASSUME NEW s \in Scanners, Walk(s) PROVE Goal
  <2> DEFINE found == {f \in Inside[dir[s]] : Exists(f)}
  <2>1. CASE Return(s)
    BY <1>3, <2>1
  <2>2. CASE /\ listed' = [listed EXCEPT ![s] = found]
             /\ Goto(s, "lookup")
             /\ UNCHANGED <<plan, dir, rec, todo, left, file, doc>>
    <3>1. dir[s] \in Dirs /\ found \subseteq Files
      BY <1>0, <1>7, ScanAssumption DEF Walk, Local
    <3>2. LocalTypes' /\ Others(s) /\ pc'[s] = "lookup" /\ dir'[s] \in Dirs
      BY <1>0, <2>2, <3>1 DEF LocalTypes
    <3>3. Local(s)'
      BY <3>2 DEF Local
    <3>4. QED BY <1>2, <3>2, <3>3
  <2>3. QED BY <1>7, <2>1, <2>2 DEF Walk
<1>8. ASSUME NEW s \in Scanners, LookUp(s) PROVE Goal
  <2>1. UNCHANGED locals /\ \E l \in {"create", "query"} : pc' = [pc EXCEPT ![s] = l]
    BY <1>8 DEF LookUp
  <2>2. LocalTypes' /\ Others(s) /\ pc'[s] \in {"create", "query"} /\ dir'[s] \in Dirs
    BY <1>0, <1>8, <2>1 DEF LookUp, LocalTypes, locals, Local
  <2>3. Local(s)'
    BY <2>2 DEF Local
  <2>4. QED BY <1>2, <2>2, <2>3
<1>9. ASSUME NEW s \in Scanners, Create(s) PROVE Goal
  <2>1. PICK r \in RecIds : rec' = [rec EXCEPT ![s] = r]
    BY <1>9 DEF Create, FreshRecs
  <2>2. LocalTypes' /\ Others(s) /\ pc'[s] = "stamp" /\ dir'[s] \in Dirs /\ rec'[s] \in RecIds
    <3>1. /\ pc' = [pc EXCEPT ![s] = "stamp"] /\ pc[s] = "create" /\ "stamp" \in Labels
          /\ UNCHANGED <<plan, dir, listed, todo, left, file, doc>>
      BY <1>9 DEF Create, Goto, Labels
    <3>2. LocalTypes'
      BY <1>0, <2>1, <3>1 DEF LocalTypes
    <3> QED BY <1>0, <2>1, <3>1, <3>2 DEF LocalTypes, Local
  <2>3. Local(s)'
    BY <2>2 DEF Local
  <2>4. QED BY <1>2, <2>2, <2>3
<1>10. ASSUME NEW s \in Scanners, Stamp(s) PROVE Goal
  <2>1. LocalTypes' /\ Others(s) /\ pc'[s] = "query" /\ dir'[s] \in Dirs
    BY <1>0, <1>10 DEF Stamp, LocalTypes, Local
  <2>2. Local(s)'
    BY <2>1 DEF Local
  <2>3. QED BY <1>2, <2>1, <2>2
<1>11. ASSUME NEW s \in Scanners, Query(s) PROVE Goal
  <2>1. UnderPath(dir[s]) \subseteq DocIds
    BY DEF UnderPath, Rows
  <2>2. LocalTypes' /\ Others(s) /\ pc'[s] = "examine" /\ dir'[s] \in Dirs
    BY <1>0, <1>11, <2>1 DEF Query, LocalTypes, Local
  <2>3. Local(s)'
    BY <2>2 DEF Local
  <2>4. QED BY <1>2, <2>2, <2>3
<1>12. ASSUME NEW s \in Scanners, pc[s] = "examine", NEW i \in todo[s], todo' = [todo EXCEPT ![s] = @ \ {i}],
              UNCHANGED <<plan, dir, listed, rec, left, file>>,
              \/ UNCHANGED <<doc, pc>>
              \/ doc' = [doc EXCEPT ![s] = i] /\ Goto(s, "remove")
       PROVE Goal
  <2>1. i \in DocIds
    BY <1>0, <1>12 DEF LocalTypes
  <2>2. /\ LocalTypes' /\ Others(s) /\ dir'[s] \in Dirs
        /\ pc'[s] = "examine" \/ (pc'[s] = "remove" /\ doc'[s] \in DocIds)
    <3>1. CASE UNCHANGED <<doc, pc>>
      BY <1>0, <1>12, <2>1, <3>1 DEF LocalTypes, Local
    <3>2. CASE doc' = [doc EXCEPT ![s] = i] /\ Goto(s, "remove")
      BY <1>0, <1>12, <2>1, <3>2 DEF LocalTypes, Local
    <3>3. QED BY <1>12, <3>1, <3>2
  <2>3. Local(s)'
    BY <2>2 DEF Local
  <2>4. QED BY <1>2, <2>2, <2>3
<1>13. ASSUME NEW s \in Scanners, Examine(s) \/ ExamineFails(s) PROVE Goal
  BY <1>12, <1>13 DEF Examine, ExamineFails
<1>14. ASSUME NEW s \in Scanners, Remove(s) \/ RemoveFails(s) PROVE Goal
  <2>1. /\ doc' = [doc EXCEPT ![s] = None] /\ UNCHANGED <<plan, dir, listed, rec, todo, left, file>>
        /\ pc' = [pc EXCEPT ![s] = IF pc[s] = "remove" THEN "examine" ELSE "purge"]
        /\ pc[s] \in {"remove", "purgeRow"}
    BY <1>14 DEF Remove, RemoveFails
  <2>2. LocalTypes' /\ Others(s)
    BY <1>0, <2>1 DEF LocalTypes
  <2>3. Local(s)'
    BY <1>0, <2>1 DEF Local, LocalTypes
  <2>4. QED BY <1>2, <2>2, <2>3
<1>15. ASSUME NEW s \in Scanners, Examined(s) PROVE Goal
  <2>1. LocalTypes' /\ Others(s) /\ pc'[s] = "import" /\ dir'[s] \in Dirs
    BY <1>0, <1>15 DEF Examined, LocalTypes, Local
  <2>2. Local(s)'
    BY <2>1 DEF Local
  <2>3. QED BY <1>2, <2>1, <2>2
<1>16. ASSUME NEW s \in Scanners, CheckFile(s) PROVE Goal
  <2>1. PICK f \in left[s] :
          /\ left' = [left EXCEPT ![s] = @ \ {f}]
          /\ \/ UNCHANGED <<pc, file>>
             \/ file' = [file EXCEPT ![s] = f] /\ Goto(s, "insert")
    BY <1>16 DEF CheckFile
  <2>2. f \in Files /\ UNCHANGED <<plan, dir, listed, rec, todo, doc>> /\ pc[s] = "import"
    BY <1>0, <1>16, <2>1 DEF CheckFile, LocalTypes
  <2>3. CASE UNCHANGED <<pc, file>>
    <3>1. LocalTypes' /\ \A t \in Scanners : Same(t)
      BY <1>0, <2>1, <2>2, <2>3 DEF LocalTypes
    <3>2. QED BY <1>1, <3>1
  <2>4. CASE file' = [file EXCEPT ![s] = f] /\ Goto(s, "insert")
    <3>1. LocalTypes' /\ Others(s) /\ pc'[s] = "insert" /\ dir'[s] \in Dirs /\ file'[s] \in Files
      BY <1>0, <2>1, <2>2, <2>4 DEF LocalTypes, Local
    <3>2. Local(s)'
      BY <3>1 DEF Local
    <3>3. QED BY <1>2, <3>1, <3>2
  <2>5. QED BY <2>1, <2>3, <2>4
<1>17. ASSUME NEW s \in Scanners, pc[s] \in {"insert", "count", "file", "run"}, NextFile(s),
              UNCHANGED <<plan, dir, listed, rec, todo, left>>
       PROVE Goal
  <2>1. LocalTypes' /\ Others(s) /\ pc'[s] = "import" /\ dir'[s] \in Dirs
    BY <1>0, <1>17 DEF NextFile, LocalTypes, Local
  <2>2. Local(s)'
    BY <2>1 DEF Local
  <2>3. QED BY <1>2, <2>1, <2>2
<1>18. ASSUME NEW s \in Scanners, InsertMissing(s) \/ Run(s) \/ ImportFails(s) PROVE Goal
  BY <1>17, <1>18 DEF InsertMissing, Run, ImportFails
<1>19. ASSUME NEW s \in Scanners, Insert(s) PROVE Goal
  <2>1. PICK i \in DocIds : doc' = [doc EXCEPT ![s] = i]
    BY <1>19 DEF Insert, FreshDocs
  <2>2. /\ LocalTypes' /\ Others(s) /\ pc'[s] = "count" /\ dir'[s] \in Dirs
        /\ doc'[s] \in DocIds /\ file'[s] \in Files
    <3>1. /\ pc' = [pc EXCEPT ![s] = "count"] /\ pc[s] = "insert" /\ "count" \in Labels
          /\ UNCHANGED <<plan, dir, listed, rec, todo, left, file>>
      BY <1>19 DEF Insert, Goto, Labels
    <3>2. LocalTypes'
      BY <1>0, <2>1, <3>1 DEF LocalTypes
    <3> QED BY <1>0, <2>1, <3>1, <3>2 DEF LocalTypes, Local
  <2>3. Local(s)'
    BY <2>2 DEF Local
  <2>4. QED BY <1>2, <2>2, <2>3
<1>20. ASSUME NEW s \in Scanners, NEW l \in {"file", "run"}, Goto(s, l), pc[s] \in {"count", "file"},
              UNCHANGED locals
       PROVE Goal
  <2>1. /\ LocalTypes' /\ Others(s) /\ pc'[s] = l /\ dir'[s] \in Dirs
        /\ doc'[s] \in DocIds /\ file'[s] \in Files
    BY <1>0, <1>20 DEF LocalTypes, Local, locals
  <2>2. Local(s)'
    BY <2>1 DEF Local
  <2>3. QED BY <1>2, <2>1, <2>2
<1>21. ASSUME NEW s \in Scanners, Count(s) \/ InsertFile(s) \/ LinkFails(s) PROVE Goal
  BY <1>17, <1>20, <1>21 DEF Count, InsertFile, LinkFails, locals
<1>22. CASE \E r \in RecIds : RemoveDirectory(r)
  <2>1. PICK r \in RecIds : RemoveDirectory(r)
    BY <1>22
  <2>2. UnderPath(dirs[r].dir) \subseteq DocIds /\ EventLoop \in Scanners
    BY DEF UnderPath, Rows, Scanners
  <2>3. LocalTypes' /\ Others(EventLoop) /\ pc'[EventLoop] = "purge" /\ rec'[EventLoop] \in RecIds
    BY <1>0, <2>1, <2>2 DEF RemoveDirectory, LocalTypes
  <2>4. Local(EventLoop)'
    BY <2>3 DEF Local
  <2>5. QED BY <1>2, <2>2, <2>3, <2>4
<1>23. CASE Purge \/ PurgeFails
  <2>1. PICK i \in todo[EventLoop] : /\ todo' = [todo EXCEPT ![EventLoop] = @ \ {i}]
                                     /\ doc' = [doc EXCEPT ![EventLoop] = i]
    BY <1>23 DEF Purge, PurgeFails
  <2>2. /\ EventLoop \in Scanners /\ pc[EventLoop] = "purge" /\ pc' = [pc EXCEPT ![EventLoop] = "purgeRow"]
        /\ UNCHANGED <<plan, dir, listed, rec, left, file>>
    BY <1>23 DEF Purge, PurgeFails, Scanners
  <2>3. /\ LocalTypes' /\ Others(EventLoop) /\ pc'[EventLoop] = "purgeRow"
        /\ rec'[EventLoop] \in RecIds /\ doc'[EventLoop] \in DocIds
    BY <1>0, <2>1, <2>2 DEF LocalTypes, Local
  <2>4. Local(EventLoop)'
    BY <2>3 DEF Local
  <2>5. QED BY <1>2, <2>2, <2>3, <2>4
<1>24. CASE Unregister
  BY <1>3, <1>24 DEF Unregister, Scanners
<1>25. CASE Crash
  <2>1. LocalTypes'
    BY <1>25 DEF Crash, LocalTypes
  <2>2. \A t \in Scanners : Local(t)'
    BY <1>25 DEF Crash, Local
  <2>3. QED BY <2>1, <2>2
<1>26. CASE UNCHANGED <<pc, locals>>
  <2>1. LocalTypes' /\ \A t \in Scanners : Same(t)
    BY <1>0, <1>26 DEF locals, LocalTypes
  <2>2. QED BY <1>1, <2>1
<1>27. CASE Environment
  BY <1>25, <1>26, <1>27 DEF Environment, Parse, Elapse, Write, Unlink, DeleteDirectory, Unmount, Mount
<1>28. CASE UNCHANGED vars
  BY <1>26, <1>28 DEF vars
<1>29. ASSUME NEW s \in Scanners, Finish(s) \/ ScanFails(s) PROVE Goal
  BY <1>3, <1>29 DEF Finish, ScanFails
<1>30. ASSUME NEW s \in Scanners, Scan(s) PROVE Goal
  BY <1>6, <1>7, <1>8, <1>9, <1>10, <1>11, <1>13, <1>14, <1>15, <1>16, <1>18, <1>19, <1>21, <1>29, <1>30 DEF Scan
<1>31. ASSUME NEW s \in Scanners, Failure(s) PROVE Goal
  BY <1>13, <1>14, <1>18, <1>21, <1>29, <1>31 DEF Failure
<1>32. QED
  BY <1>4, <1>5, <1>22, <1>23, <1>24, <1>27, <1>28, <1>30, <1>31 DEF Next, Requests

\* The type invariant and what it rests on hold in every reachable state.
LEMMA TypeInductive == Spec => []TInv
<1>1. ASSUME TInv, [Next]_vars PROVE TInv'
  <2>1. TypeOK'
    BY <1>1, TableType, DocsType, DirsType, LocalStep DEF TypeOK, LocalTypes, DocType, DirType
  <2>2. QED BY <1>1, <2>1, DocsType, LocalStep DEF TInv
<1>2. QED BY <1>1, InitTInv, PTL DEF Spec

\* Every thread inside scan_directory reads a directory, a file, a document and
\* a record it has set before, whatever the others do, and every table keeps
\* its type (TypeOK).
THEOREM TypeCorrect == Spec => []TypeOK
<1>1. TInv => TypeOK
  BY DEF TInv
<1>2. QED BY <1>1, TypeInductive, PTL

-----------------------------------------------------------------------------
\* Threads that have inserted a document and not yet incremented doc_num.
Counting == {s \in Scanners : pc[s] = "count"}

\* Rows and threads can be counted.
LEMMA Countable ==
  /\ IsFiniteSet(Rows) /\ Cardinality(Rows) \in Nat
  /\ IsFiniteSet(Counting) /\ Cardinality(Counting) \in Nat
<1>1. Rows \in SUBSET DocIds /\ Counting \in SUBSET Scanners
  BY DEF Rows, Counting
<1>2. IsFiniteSet(Rows) /\ IsFiniteSet(Counting)
  BY <1>1, ScanAssumption, FS_Subset
<1>3. QED BY <1>2, FS_CardinalityType

\* One more element, one less.
LEMMA OneMore ==
  ASSUME NEW S, IsFiniteSet(S), NEW x
  PROVE  /\ x \notin S => Cardinality(S \cup {x}) = Cardinality(S) + 1
         /\ x \in S => Cardinality(S \ {x}) = Cardinality(S) - 1
<1>1. Cardinality(S \cup {x}) = IF x \in S THEN Cardinality(S) ELSE Cardinality(S) + 1
  BY FS_AddElement, Zenon
<1>2. Cardinality(S \ {x}) = IF x \in S THEN Cardinality(S) - 1 ELSE Cardinality(S)
  BY FS_RemoveElement, Zenon
<1>3. QED BY <1>1, <1>2

\* Every step without a failure keeps doc_num in step with the rows: an insert
\* announces itself by the label "count", and a deletion is counted with the
\* row it deletes, once.
LEMMA CountStep ==
  ASSUME TInv, CountMatchesRows, [Next]_vars
  PROVE  CountMatchesRows'
<1>0. /\ pc \in [Scanners -> Labels] /\ docs \in [DocIds -> DocType]
      /\ docNum \in Int /\ failures \in Nat
  BY DEF TInv, TypeOK, DocType
<1>1. CASE Fault
  BY <1>0, <1>1 DEF Fault, CountMatchesRows
<1>2. failures = 0 => docNum = Cardinality(Rows) - Cardinality(Counting)
  BY DEF CountMatchesRows, Counting
<1>3. ASSUME failures' = 0 => failures = 0,
             failures = 0 => docNum' = Cardinality(Rows') - Cardinality(Counting')
      PROVE  CountMatchesRows'
  BY <1>3 DEF CountMatchesRows, Counting
<1>4. ASSUME Rows' = Rows, docNum' = docNum, \A t \in Scanners : pc'[t] = "count" <=> pc[t] = "count",
             UNCHANGED failures
      PROVE  CountMatchesRows'
  <2>1. Counting' = Counting
    BY <1>4 DEF Counting
  <2>2. QED BY <1>2, <1>3, <1>4, <2>1
<1>5. ASSUME NEW s \in Scanners, Insert(s) PROVE CountMatchesRows'
  <2>1. PICK i \in FreshDocs : /\ docs' = [docs EXCEPT ![i] = NewRow(file[s])]
                               /\ pc' = [pc EXCEPT ![s] = "count"]
                               /\ UNCHANGED <<docNum, failures>>
    BY <1>5, InsertAdds DEF Added
  <2>2. i \in DocIds /\ i \notin Rows /\ file[s] \in Files /\ pc[s] = "insert"
    BY <1>5 DEF FreshDocs, TInv, TypeOK, Local, Insert
  <2>3. NewRow(file[s]).loc # None
    BY <2>2, ScanAssumption DEF NewRow
  <2>4. Rows' = Rows \cup {i}
    BY <1>0, <2>1, <2>2, <2>3 DEF Rows
  <2>5. Counting' = Counting \cup {s} /\ s \notin Counting
    BY <1>0, <2>1, <2>2 DEF Counting
  <2>6. Cardinality(Rows') = Cardinality(Rows) + 1
    BY <2>2, <2>4, Countable, OneMore
  <2>7. Cardinality(Counting') = Cardinality(Counting) + 1
    BY <2>5, Countable, OneMore
  <2>8. QED BY <1>0, <1>2, <1>3, <2>1, <2>6, <2>7, Countable
<1>6. ASSUME NEW s \in Scanners, Count(s) PROVE CountMatchesRows'
  <2>1. Rows' = Rows /\ docNum' = docNum + 1 /\ UNCHANGED failures
    BY <1>6 DEF Count, Rows, used
  <2>2. Counting' = Counting \ {s} /\ s \in Counting
    BY <1>0, <1>6 DEF Count, Goto, Counting
  <2>3. Cardinality(Counting') = Cardinality(Counting) - 1
    BY <2>2, Countable, OneMore
  <2>4. QED BY <1>0, <1>2, <1>3, <2>1, <2>3, Countable
<1>7. ASSUME NEW s \in Scanners, Remove(s) PROVE CountMatchesRows'
  <2>1. doc[s] \in DocIds /\ UNCHANGED failures /\ \A t \in Scanners : pc'[t] = "count" <=> pc[t] = "count"
    BY <1>0, <1>7 DEF Remove, TInv, TypeOK, Local, Goto, used
  <2>2. CASE doc[s] \notin Rows
    <3>1. Rows' = Rows /\ docNum' = docNum
      BY <1>7, <2>1, <2>2 DEF Remove, DeleteRow, Rows
    <3>2. QED BY <1>4, <2>1, <3>1
  <2>3. CASE doc[s] \in Rows
    <3>1. docs' = [docs EXCEPT ![doc[s]] = NoDoc] /\ docNum' = docNum - 1
      BY <1>7, <2>3 DEF Remove, DeleteRow, Rows
    <3>2. Rows' = Rows \ {doc[s]}
      BY <1>0, <2>1, <3>1 DEF Rows, NoDoc
    <3>3. Counting' = Counting
      BY <2>1 DEF Counting
    <3>4. Cardinality(Rows') = Cardinality(Rows) - 1
      BY <2>3, <3>2, Countable, OneMore
    <3>5. QED BY <1>0, <1>2, <1>3, <2>1, <3>1, <3>3, <3>4, Countable
  <2>4. QED BY <2>2, <2>3
<1>8. ASSUME UNCHANGED docs \/ Touched PROVE Rows' = Rows
  BY <1>0, <1>8 DEF Touched, Rows
<1>9. ASSUME NEW s \in Scanners, Run(s) PROVE CountMatchesRows'
  <2>1. Rows' = Rows
    BY <1>8, <1>9, TouchOnly
  <2>2. UNCHANGED <<docNum, failures>> /\ \A t \in Scanners : pc'[t] = "count" <=> pc[t] = "count"
    BY <1>0, <1>9 DEF Run, NextFile, Goto, used
  <2>3. QED BY <1>4, <2>1, <2>2
<1>10. ASSUME NEW i \in DocIds, Parse(i) PROVE CountMatchesRows'
  <2>1. Rows' = Rows
    BY <1>8, <1>10, TouchOnly
  <2>2. UNCHANGED <<docNum, failures, pc>>
    BY <1>10 DEF Parse, used
  <2>3. QED BY <1>4, <2>1, <2>2
<1>11. ASSUME UNCHANGED <<docs, docNum, failures>>, \A t \in Scanners : pc'[t] = "count" <=> pc[t] = "count"
       PROVE CountMatchesRows'
  BY <1>4, <1>8, <1>11
<1>12. ASSUME NEW s \in Scanners,
              \/ CheckPath(s) \/ Walk(s) \/ LookUp(s) \/ Create(s) \/ Stamp(s) \/ Query(s) \/ Examine(s)
              \/ Examined(s) \/ CheckFile(s) \/ InsertMissing(s) \/ InsertFile(s) \/ Finish(s)
       PROVE CountMatchesRows'
  <2>1. UNCHANGED <<docs, docNum, failures>>
    BY <1>12 DEF CheckPath, Walk, LookUp, Create, Stamp, Query, Examine, Examined, CheckFile,
       InsertMissing, InsertFile, Finish, tables, used
  <2>2. \A t \in Scanners : pc'[t] = "count" <=> pc[t] = "count"
    BY <1>0, <1>12 DEF CheckPath, Walk, LookUp, Create, Stamp, Query, Examine, Examined, CheckFile,
       InsertMissing, InsertFile, Finish, Return, NextFile, Goto
  <2>3. QED BY <1>11, <2>1, <2>2
<1>13. CASE Requests \/ Purge \/ Unregister \/ \E s \in Threads : Tick(s)
  <2>1. UNCHANGED <<docs, docNum, failures>>
    BY <1>13 DEF Requests, ScanPath, RemoveDirectory, Purge, Unregister, Tick, tables, used
  <2>2. \A t \in Scanners : pc'[t] = "count" <=> pc[t] = "count"
    BY <1>0, <1>13 DEF Requests, ScanPath, RemoveDirectory, Purge, Unregister, Tick, Return, Goto
  <2>3. QED BY <1>11, <2>1, <2>2
<1>14. CASE Environment
  <2>1. CASE UNCHANGED <<docs, docNum, failures, pc>>
    BY <1>11, <2>1
  <2>2. QED
    BY <1>1, <1>10, <1>14, <2>1 DEF Environment, Elapse, Write, Unlink, DeleteDirectory, Unmount, Mount, Crash, tables, used
<1>15. CASE UNCHANGED vars
  BY <1>11, <1>15 DEF vars, tables, used
<1>16. ASSUME NEW s \in Scanners, Failure(s) PROVE CountMatchesRows'
  BY <1>1, <1>16 DEF Failure, ScanFails, ExamineFails, RemoveFails, LinkFails, ImportFails
<1>17. ASSUME NEW s \in Scanners, Scan(s) PROVE CountMatchesRows'
  BY <1>5, <1>6, <1>7, <1>9, <1>12, <1>17 DEF Scan
<1>18. CASE PurgeFails
  BY <1>1, <1>18 DEF PurgeFails
<1>19. QED
  BY <1>13, <1>14, <1>15, <1>16, <1>17, <1>18 DEF Next

\* As long as nothing fails doc_num is the number of documents, but for the
\* inserts under way, for any number of scanning threads and requests that
\* remove and insert the same documents (CountMatchesRows).
THEOREM CountAlwaysMatches == Spec => []CountMatchesRows
<1>1. ASSUME Init PROVE CountMatchesRows
  <2>1. Rows = {} /\ {s \in Scanners : pc[s] = "count"} = {} /\ docNum = 0
    BY <1>1 DEF Init, Rows, NoDoc
  <2>2. Cardinality({}) = 0
    BY FS_EmptySet
  <2>3. QED BY <2>1, <2>2 DEF CountMatchesRows
<1>2. QED
  BY <1>1, CountStep, TypeInductive, PTL DEF Spec

-----------------------------------------------------------------------------
(* Overlapping scans and the documents of one file.                        *)

\* Documents and importers of a file can be counted.
LEMMA CopiesCountable ==
  ASSUME NEW f \in Files
  PROVE  /\ IsFiniteSet(Copies(f)) /\ Cardinality(Copies(f)) \in Nat
         /\ IsFiniteSet(Importers(f)) /\ Cardinality(Importers(f)) \in Nat
         /\ Cardinality(Importers(f)) <= Cardinality(Scanners)
         /\ Cardinality(Scanners) \in Nat
<1>1. Copies(f) \in SUBSET DocIds /\ Importers(f) \in SUBSET Scanners
  BY DEF Copies, Importers, Rows
<1>2. /\ IsFiniteSet(Copies(f)) /\ IsFiniteSet(Importers(f))
      /\ Cardinality(Importers(f)) <= Cardinality(Scanners)
  BY <1>1, ScanAssumption, FS_Subset
<1>3. QED BY <1>2, ScanAssumption, FS_CardinalityType

\* Documents and importers of f after the step are some of those before.
Fewer(f) == Copies(f)' \subseteq Copies(f) /\ Importers(f)' \subseteq Importers(f)

\* A thread becomes an importer of a file only while the file has no document,
\* and ceases to be one when it inserts the document; nothing else adds to
\* either.
LEMMA DuplicatesStep ==
  ASSUME TInv, DuplicatesBounded, [Next]_vars
  PROVE  DuplicatesBounded'
<1> SUFFICES ASSUME NEW f \in Files
             PROVE  Cardinality(Copies(f)') + Cardinality(Importers(f)') <= Cardinality(Scanners)
  BY DEF DuplicatesBounded
<1> DEFINE Goal == Cardinality(Copies(f)') + Cardinality(Importers(f)') <= Cardinality(Scanners)
<1>0. /\ pc \in [Scanners -> Labels] /\ docs \in [DocIds -> DocType]
      /\ file \in [Scanners -> Files \cup {None}]
  BY DEF TInv, TypeOK, DocType
<1>a. Cardinality(Copies(f)) + Cardinality(Importers(f)) <= Cardinality(Scanners)
  BY DEF DuplicatesBounded
<1>b. /\ IsFiniteSet(Copies(f)) /\ Cardinality(Copies(f)) \in Nat
      /\ IsFiniteSet(Importers(f)) /\ Cardinality(Importers(f)) \in Nat
      /\ Cardinality(Scanners) \in Nat /\ IsFiniteSet(Scanners)
  BY CopiesCountable, ScanAssumption
<1>1. ASSUME Fewer(f) PROVE Goal
  <2>1. Copies(f)' \in SUBSET Copies(f) /\ Importers(f)' \in SUBSET Importers(f)
    BY <1>1 DEF Fewer
  <2>2. /\ IsFiniteSet(Copies(f)') /\ Cardinality(Copies(f)') <= Cardinality(Copies(f))
        /\ IsFiniteSet(Importers(f)') /\ Cardinality(Importers(f)') <= Cardinality(Importers(f))
    BY <1>b, <2>1, FS_Subset
  <2>3. Cardinality(Copies(f)') \in Nat /\ Cardinality(Importers(f)') \in Nat
    BY <2>2, FS_CardinalityType
  <2>4. QED BY <1>a, <1>b, <2>2, <2>3
<1>2. ASSUME UNCHANGED docs \/ Touched PROVE Copies(f)' = Copies(f)
  BY <1>0, <1>2 DEF Touched, Copies, Rows
<1>3. ASSUME NEW s \in Scanners, \A t \in Scanners \ {s} : pc'[t] = pc[t] /\ file'[t] = file[t], pc'[s] # "insert"
      PROVE  Importers(f)' \subseteq Importers(f)
  BY <1>3 DEF Importers
<1>4. ASSUME UNCHANGED <<pc, file>> PROVE Importers(f)' = Importers(f)
  BY <1>4 DEF Importers
<1> USE DEF Goto
<1>5. ASSUME NEW s \in Scanners, CheckFile(s) PROVE Goal
  <2>0. UNCHANGED docs
    BY <1>5 DEF CheckFile, tables
  <2>1. Copies(f)' = Copies(f)
    BY <1>2, <2>0
  <2>2. CASE UNCHANGED <<pc, file>>
    BY <1>1, <1>4, <2>1, <2>2 DEF Fewer
  <2>3. CASE ~UNCHANGED <<pc, file>>
    <3>1. PICK g \in left[s] : /\ ~\E i \in Rows : docs[i].loc = g
                               /\ file' = [file EXCEPT ![s] = g] /\ pc' = [pc EXCEPT ![s] = "insert"]
      BY <1>5, <2>3 DEF CheckFile
    <3>2. CASE g = f
      <4>1. Copies(f)' = {}
        BY <2>1, <3>1, <3>2 DEF Copies
      <4>2. Cardinality(Copies(f)') = 0
        BY <4>1, FS_EmptySet
      <4>3. Importers(f)' \in SUBSET Scanners
        BY DEF Importers
      <4>4. IsFiniteSet(Importers(f)') /\ Cardinality(Importers(f)') <= Cardinality(Scanners)
        BY <1>b, <4>3, FS_Subset
      <4>5. Cardinality(Importers(f)') \in Nat
        BY <4>4, FS_CardinalityType
      <4>6. QED BY <1>b, <4>2, <4>4, <4>5
    <3>3. CASE g # f
      <4>1. Importers(f)' \subseteq Importers(f)
        BY <1>0, <3>1, <3>3 DEF Importers
      <4>2. QED BY <1>1, <2>1, <4>1 DEF Fewer
    <3>4. QED BY <3>2, <3>3
  <2>4. QED BY <2>2, <2>3
<1>6. ASSUME NEW s \in Scanners, Insert(s) PROVE Goal
  <2>1. PICK i \in FreshDocs : /\ docs' = [docs EXCEPT ![i] = NewRow(file[s])]
                               /\ pc' = [pc EXCEPT ![s] = "count"]
    BY <1>6, InsertAdds DEF Added
  <2>2. i \in DocIds /\ i \notin Rows /\ pc[s] = "insert" /\ UNCHANGED file /\ file[s] \in Files
    BY <1>6 DEF FreshDocs, Insert, TInv, TypeOK, Local
  <2>3. NewRow(file[s]).loc = file[s] /\ file[s] # None
    BY <2>2, ScanAssumption DEF NewRow
  <2>4. CASE file[s] = f
    <3>1. Copies(f)' = Copies(f) \cup {i} /\ i \notin Copies(f)
      BY <1>0, <2>1, <2>2, <2>3, <2>4 DEF Copies, Rows
    <3>2. Importers(f)' = Importers(f) \ {s} /\ s \in Importers(f)
      BY <1>0, <2>1, <2>2, <2>4 DEF Importers
    <3>3. Cardinality(Copies(f)') = Cardinality(Copies(f)) + 1
      BY <1>b, <3>1, OneMore
    <3>4. Cardinality(Importers(f)') = Cardinality(Importers(f)) - 1
      BY <1>b, <3>2, OneMore
    <3>5. QED BY <1>a, <1>b, <3>3, <3>4
  <2>5. CASE file[s] # f
    <3>1. Copies(f)' \subseteq Copies(f)
      BY <1>0, <2>1, <2>2, <2>3, <2>5 DEF Copies, Rows
    <3>2. Importers(f)' \subseteq Importers(f)
      BY <1>0, <2>1, <2>2 DEF Importers
    <3>3. QED BY <1>1, <3>1, <3>2 DEF Fewer
  <2>6. QED BY <2>4, <2>5
<1>7. ASSUME NEW s \in Scanners, Remove(s) PROVE Goal
  <2>1. Copies(f)' \subseteq Copies(f)
    <3>1. UNCHANGED docs \/ docs' = [docs EXCEPT ![doc[s]] = NoDoc]
      BY <1>7 DEF Remove, DeleteRow
    <3>2. CASE UNCHANGED docs
      BY <1>2, <3>2
    <3>3. CASE docs' = [docs EXCEPT ![doc[s]] = NoDoc]
      <4>1. doc[s] \in DocIds
        BY <1>7 DEF Remove, TInv, TypeOK, Local
      <4>2. NoDoc.loc = None
        BY DEF NoDoc
      <4>3. QED BY <1>0, <3>3, <4>1, <4>2 DEF Copies, Rows
    <3>4. QED BY <3>1, <3>2, <3>3
  <2>2. Importers(f)' \subseteq Importers(f)
    BY <1>0, <1>7 DEF Remove, Importers
  <2>3. QED BY <1>1, <2>1, <2>2 DEF Fewer
<1>8. ASSUME NEW s \in Scanners, Run(s) PROVE Goal
  <2>1. Copies(f)' = Copies(f)
    BY <1>2, <1>8, TouchOnly
  <2>2. Importers(f)' \subseteq Importers(f)
    BY <1>0, <1>8 DEF Run, NextFile, Importers
  <2>3. QED BY <1>1, <2>1, <2>2 DEF Fewer
<1>9. ASSUME UNCHANGED docs, Importers(f)' \subseteq Importers(f) PROVE Goal
  BY <1>1, <1>2, <1>9 DEF Fewer
<1>10. ASSUME NEW s \in Scanners,
              \/ CheckPath(s) \/ Walk(s) \/ LookUp(s) \/ Create(s) \/ Stamp(s) \/ Query(s) \/ Examine(s)
              \/ Examined(s) \/ InsertMissing(s) \/ Count(s) \/ InsertFile(s) \/ Finish(s) \/ Failure(s)
       PROVE Goal
  <2>1. UNCHANGED docs
    BY <1>10 DEF CheckPath, Walk, LookUp, Create, Stamp, Query, Examine, Examined, InsertMissing, Count,
       InsertFile, Finish, Failure, ScanFails, ExamineFails, RemoveFails, LinkFails, ImportFails, tables
  <2>2. CASE UNCHANGED <<pc, file>>
    BY <1>4, <1>9, <2>1, <2>2
  <2>3. CASE ~UNCHANGED <<pc, file>>
    <3>1. \A t \in Scanners \ {s} : pc'[t] = pc[t] /\ file'[t] = file[t]
      BY <1>0, <1>10 DEF CheckPath, Walk, LookUp, Create, Stamp, Query, Examine, Examined, InsertMissing, Count,
         InsertFile, Finish, Failure, ScanFails, ExamineFails, RemoveFails, LinkFails, ImportFails,
         Return, NextFile, locals
    <3>2. pc'[s] # "insert"
      BY <1>0, <1>10, <2>3 DEF CheckPath, Walk, LookUp, Create, Stamp, Query, Examine, Examined, InsertMissing,
         Count, InsertFile, Finish, Failure, ScanFails, ExamineFails, RemoveFails, LinkFails, ImportFails,
         Return, NextFile, locals
    <3>3. QED BY <1>3, <1>9, <2>1, <3>1, <3>2
  <2>4. QED BY <2>2, <2>3
<1>11. CASE Requests \/ Purge \/ PurgeFails \/ Unregister \/ \E s \in Threads : Tick(s)
  <2>1. UNCHANGED docs
    BY <1>11 DEF Requests, ScanPath, RemoveDirectory, Purge, PurgeFails, Unregister, Tick, tables
  <2>2. Importers(f)' \subseteq Importers(f)
    BY <1>0, <1>11 DEF Requests, ScanPath, RemoveDirectory, Purge, PurgeFails, Unregister, Tick, Return, Importers
  <2>3. QED BY <1>9, <2>1, <2>2
<1>12. CASE Environment
  <2>1. CASE Crash
    <3>1. UNCHANGED docs /\ Importers(f)' = {}
      BY <2>1 DEF Crash, tables, Importers
    <3>2. QED BY <1>9, <3>1
  <2>2. CASE \E i \in DocIds : Parse(i)
    <3>1. Copies(f)' = Copies(f)
      BY <1>2, <2>2, TouchOnly
    <3>2. UNCHANGED <<pc, file>>
      BY <2>2 DEF Parse, locals
    <3>3. QED BY <1>1, <1>4, <3>1, <3>2 DEF Fewer
  <2>3. CASE UNCHANGED <<docs, pc, file>>
    BY <1>4, <1>9, <2>3
  <2>4. QED
    BY <1>12, <2>1, <2>2, <2>3
       DEF Environment, Elapse, Write, Unlink, DeleteDirectory, Unmount, Mount, locals, tables
<1>13. CASE UNCHANGED vars
  BY <1>4, <1>9, <1>13 DEF vars, tables, locals
<1>14. QED
  BY <1>5, <1>6, <1>7, <1>8, <1>10, <1>11, <1>12, <1>13 DEF Next, Scan

\* However many threads scan the same directory at once, and whatever fails or
\* is removed meanwhile, there are never more documents of a file than scanning
\* threads (DuplicatesBounded).
THEOREM DuplicatesAlwaysBounded == Spec => []DuplicatesBounded
<1>1. ASSUME Init PROVE DuplicatesBounded
  <2>1. \A f \in Files : Copies(f) = {} /\ Importers(f) = {}
    BY <1>1 DEF Init, Copies, Importers, Rows, NoDoc
  <2>2. Cardinality({}) = 0 /\ Cardinality(Scanners) \in Nat
    BY ScanAssumption, FS_EmptySet, FS_CardinalityType
  <2>3. QED BY <2>1, <2>2 DEF DuplicatesBounded
<1>2. QED
  BY <1>1, DuplicatesStep, TypeInductive, PTL DEF Spec
=============================================================================
