---------------------------- MODULE AgentSession ----------------------------
(***************************************************************************)
(* One user editing and trying out agents in the browser, against the      *)
(* server's row of each agent and the runtime replica it keeps in Redis.   *)
(*                                                                         *)
(* Browser (src/web/src): the graph store is global and outlives the page; *)
(* the agent's detail is a react-query entry whose key does not name the   *)
(* agent; every change restarts a 20 s debounce that saves the graph; undo *)
(* and redo walk a list of graphs; Run saves, resets and opens the chat;   *)
(* the end of an answer fetches the agent's detail again.                  *)
(* Server (src/api/apps/canvas_app.py): /set writes the row and replaces   *)
(* the replica, /get creates a missing replica, /completion runs the       *)
(* replica and writes it back when the run ends, /reset and /setting       *)
(* rewrite the row.                                                        *)
(*                                                                         *)
(* /set, /reset and /setting are coroutines without an await after the     *)
(* request is read, so they run one after the other, each in one step.     *)
(* /get is a plain function: it runs in a worker thread beside them and is *)
(* a step for each of its accesses, to the row, to the replica and again   *)
(* to the replica.  A /get that reads between the two writes of a /set     *)
(* reads the new row, so that what it may write is what that /set writes.  *)
(*                                                                         *)
(* A graph is <<owner, n>>: n numbers the edits and owner is the agent the *)
(* graph was drawn for, which is what a foreign save is told by.  The      *)
(* other parts of a DSL are reduced to hist: whether it carries messages   *)
(* of a conversation.                                                      *)
(***************************************************************************)
EXTENDS Naturals, Sequences, FiniteSets

CONSTANTS Agents,      \* the agents of the user
          WithInputs,  \* those whose Begin node asks for inputs
          NoAgent,     \* no page is open; the owner of the empty canvas
          MaxHistory,  \* maxSize of the history (50 in the code)
          MaxEdits,    \* bound: edits
          MaxMounts,   \* bound: pages opened
          MaxClicks,   \* bound: undo, redo, saves by hand, drawer clicks
          MaxRuns,     \* bound: questions asked at once
          MaxSaves,    \* bound: saves under way at once
          MaxGets,     \* bound: /get requests under way or about to be sent
          MaxFailures  \* bound: requests that fail

ASSUME SessionAssumption ==
  /\ WithInputs \subseteq Agents
  /\ NoAgent \notin Agents
  /\ MaxHistory \in Nat \ {0}
  /\ {MaxEdits, MaxMounts, MaxClicks, MaxRuns, MaxSaves} \subseteq Nat
  /\ {MaxGets, MaxFailures} \subseteq Nat

VARIABLES
  page,      \* the agent whose page is open
  mount,     \* how many pages have been opened: the present one's number
  store,     \* the graph in the zustand store
  edits,     \* how many edits have been made
  clicks,    \* how many of the clicks that MaxClicks bounds
  data,      \* the set with the query's detail of an agent, empty for {}
  gets,      \* /get requests under way
  timer,     \* the debounce is running
  drawer,    \* chatDrawerVisible of the page
  chat,      \* the chat sheet is shown
  asking,    \* the question the shown chat waits for, 0 when done
  history, index,   \* HistoryManager
  saves,     \* /set requests under way
  resets,    \* /reset requests under way
  settings,  \* agents with a /setting request under way
  failures,  \* how many requests have failed
  row,       \* agent -> its DSL in the database
  replica,   \* agent -> the set with its DSL in Redis, empty when absent
  runs,      \* runs under way on the server
  strayed,   \* observer: pages that got another agent's graph to show
  behind     \* observer: agents whose replica has missed a save

browser == <<page, mount, store, edits, clicks, data, timer, drawer, chat,
             asking, history, index, strayed>>
server  == <<row, replica, runs, behind>>
calls   == <<gets, saves, resets, settings, failures>>
vars    == <<browser, calls, server>>

Empty  == <<NoAgent, 0>>
Graphs == {Empty} \cup (Agents \X (0..MaxEdits))
Dsls   == [g : Graphs, hist : BOOLEAN]
Open   == page # NoAgent
Owner(g) == g[1]

(* What the sent request does when it is answered. *)
Continuations == {"nothing", "run", "refetch"}
Saves == [agent : Agents, dsl : Dsls, next : Continuations,
          mount : 1..MaxMounts]
(* A /get: who waits for the answer, nobody once the query has dropped it; *)
(* how far the handler is; the row it read; what has happened to that row  *)
(* since; and whether the browser's detail is of that very row.            *)
Gets  == [agent : Agents, by : {"page", "chat", "form", "settings", "nobody"},
          phase : {"sent", "read", "absent", "done"}, dsl : Dsls,
          since : {"nothing", "touched", "saved"}, same : BOOLEAN]
Runs  == [id : 1..MaxRuns, agent : Agents, dsl : Dsls, stale : BOOLEAN]

(* The request of the query whose answer will be used. *)
Fetching == {f \in gets : f.by # "nobody"}

(* The type invariant; the query has one detail and one request at most. *)
TypeOK ==
  /\ page \in Agents \cup {NoAgent}
  /\ mount \in 0..MaxMounts
  /\ store \in Graphs
  /\ edits \in 0..MaxEdits
  /\ clicks \in 0..MaxClicks
  /\ data \in SUBSET [agent : Agents, dsl : Dsls, current : BOOLEAN]
  /\ gets \subseteq Gets
  /\ Cardinality(data) <= 1 /\ Cardinality(Fetching) <= 1
  /\ {timer, drawer, chat} \subseteq BOOLEAN
  /\ asking \in 0..MaxRuns
  /\ history \in Seq(Graphs)
  /\ index \in Nat
  /\ saves \subseteq Saves
  /\ resets \subseteq [agent : Agents, mount : 1..MaxMounts]
  /\ settings \subseteq Agents
  /\ failures \in 0..MaxFailures
  /\ row \in [Agents -> Dsls]
  /\ replica \in [Agents -> SUBSET Dsls]
  /\ runs \subseteq Runs
  /\ strayed \subseteq Agents
  /\ behind \subseteq Agents

Init ==
  /\ page = NoAgent /\ mount = 0
  /\ store = Empty /\ edits = 0 /\ clicks = 0
  /\ data = {} /\ gets = {} /\ settings = {} /\ failures = 0
  /\ timer = FALSE /\ drawer = FALSE /\ chat = FALSE /\ asking = 0
  /\ history = <<>> /\ index = 0
  /\ saves = {} /\ resets = {}
  /\ row = [a \in Agents |-> [g |-> <<a, 0>>, hist |-> FALSE]]
  /\ replica = [a \in Agents |-> {}]
  /\ runs = {}
  /\ strayed = {} /\ behind = {}

-----------------------------------------------------------------------------
(* Mutant: the index is not corrected when the oldest entry is dropped. *)
PushUncorrected(h, i, g) ==
  LET full == Append(SubSeq(h, 1, i), g)
  IN IF h # <<>> /\ h[i] = g THEN [list |-> h, at |-> i]
     ELSE [list |-> IF Len(full) > MaxHistory THEN Tail(full) ELSE full,
           at   |-> Len(full)]

(* The history: h with graph g pushed at position i.  A graph equal to the *)
(* present one is not pushed, what could be redone is dropped, and the     *)
(* oldest entry goes when the list is full.                                *)
Push(h, i, g) ==
  LET cut  == SubSeq(h, 1, i)
      full == Append(cut, g)
  IN IF h # <<>> /\ h[i] = g THEN [list |-> h, at |-> i]
     ELSE LET kept == IF Len(full) > MaxHistory THEN Tail(full) ELSE full
          IN [list |-> kept, at |-> Len(kept)]

(* The store gets graph g: the effects on nodes and edges push it to the   *)
(* history and restart the debounce.                                       *)
SetStore(g) ==
  LET pushed == Push(history, index, g)
  IN /\ store' = g
     /\ history' = pushed.list
     /\ index' = pushed.at
     /\ timer' = TRUE

Sent(a, by) == [agent |-> a, by |-> by, phase |-> "sent",
                dsl |-> [g |-> Empty, hist |-> FALSE], since |-> "nothing",
                same |-> FALSE]

(* Mutant: a request under way is not dropped. *)
RefetchBeside(G, a, by) == G \cup {Sent(a, by)}

(* Among the requests G the query asks for agent a's detail.  The one it   *)
(* was waiting for is dropped: its answer is not used, its handler goes on.*)
Refetch(G, a, by) ==
  {[f EXCEPT !.by = "nobody", !.same = FALSE] : f \in {h \in G : h.phase # "done"}}
    \cup {Sent(a, by)}

(* There is room for another request: every /get under way, and every call *)
(* that may send one when it ends, counts.                                 *)
Room ==
  Cardinality(gets) + Cardinality(runs) + Cardinality(settings)
    + Cardinality({s \in saves : s.next = "refetch"}) < MaxGets

(* saveGraph: nothing is sent before the page has the agent's detail, of   *)
(* which the parts other than the graph are sent back with the graph.      *)
Loaded == Open /\ data # {}

(* Mutant: what is missing of the detail is filled with defaults. *)
SaveGraphUnloaded(next) ==
  /\ Open /\ Cardinality(saves) < MaxSaves
  /\ saves' = saves \cup {[agent |-> page, dsl |-> [g |-> store, hist |-> FALSE],
                           next |-> next, mount |-> mount]}

SaveGraph(next) ==
  IF Loaded
  THEN /\ Cardinality(saves) < MaxSaves
       /\ \E d \in data :
            saves' = saves \cup {[agent |-> page,
                                  dsl   |-> [g |-> store, hist |-> d.dsl.hist],
                                  next  |-> next,
                                  mount |-> mount]}
  ELSE UNCHANGED saves

Click == clicks < MaxClicks /\ clicks' = clicks + 1

-----------------------------------------------------------------------------
(* The page of agent a is opened from the list.  The history starts with   *)
(* whatever the store still holds; the effect on the detail then shows the *)
(* graph of a detail the query still has, and the page asks for its own.   *)
OpenPage(a) ==
  LET shown == {d.dsl.g : d \in data} \ {Empty}
      first == [list |-> <<store>>, at |-> 1]
      g     == IF shown = {} THEN store ELSE CHOOSE x \in shown : TRUE
      after == Push(first.list, first.at, g)
  IN /\ ~Open /\ mount < MaxMounts /\ Room
     /\ page' = a /\ mount' = mount + 1
     /\ store' = g
     /\ history' = after.list /\ index' = after.at
     /\ timer' = TRUE
     /\ gets' = Refetch(gets, a, "page")
     /\ strayed' = strayed \cup
                     (IF \E d \in data : d.agent # a THEN {a} ELSE {})
     /\ UNCHANGED <<edits, clicks, data, drawer, chat, asking, saves, resets,
                    settings, failures, server>>

(* The page is left for the list: the debounce is cancelled, the history   *)
(* and the sheets go with the page, the store stays.  The query goes too   *)
(* unless a request of it is under way, and requests and answers go on.    *)
LeavePage ==
  /\ Open
  /\ page' = NoAgent
  /\ timer' = FALSE /\ drawer' = FALSE /\ chat' = FALSE /\ asking' = 0
  /\ history' = <<>> /\ index' = 0
  /\ data' = IF Fetching = {} THEN {} ELSE data
  /\ UNCHANGED <<mount, store, edits, clicks, strayed, calls, server>>

(* The user changes the graph on the canvas. *)
Edit ==
  /\ Open /\ store # Empty /\ edits < MaxEdits
  /\ edits' = edits + 1
  /\ SetStore(<<Owner(store), edits + 1>>)
  /\ UNCHANGED <<page, mount, clicks, data, drawer, chat, asking, strayed,
                 calls, server>>

(* Undo and redo: entry i of the history is shown. *)
Show(i) ==
  /\ Click
  /\ index' = i
  /\ store' = history[i]
  /\ history' = history
  /\ timer' = TRUE
  /\ strayed' = strayed \cup (IF Owner(history[i]) # page THEN {page} ELSE {})
  /\ UNCHANGED <<page, mount, edits, data, drawer, chat, asking, calls, server>>

Undo == Open /\ index > 1 /\ Show(index - 1)
Redo == Open /\ index < Len(history) /\ Show(index + 1)

-----------------------------------------------------------------------------
(* Mutant: the change is skipped while another save is under way. *)
AutosaveUnlessSaving ==
  /\ timer
  /\ timer' = FALSE
  /\ IF drawer \/ saves # {} THEN UNCHANGED saves ELSE SaveGraph("nothing")
  /\ UNCHANGED <<page, mount, store, edits, clicks, data, drawer, chat, asking,
                 history, index, strayed, gets, resets, settings, failures,
                 server>>

(* The debounce ends: the graph is saved unless the run or chat drawer is  *)
(* visible.  A change skipped for that reason is not taken up again.       *)
Autosave ==
  /\ timer
  /\ timer' = FALSE
  /\ IF drawer THEN UNCHANGED saves ELSE SaveGraph("nothing")
  /\ UNCHANGED <<page, mount, store, edits, clicks, data, drawer, chat, asking,
                 history, index, strayed, gets, resets, settings, failures,
                 server>>

(* A save by hand: the Save and Publish buttons, a form field losing the   *)
(* focus, the debug drawer of one node ("nothing"), or the sheet of the    *)
(* conversation variables, which fetches the detail afterwards.            *)
SaveByHand(next) ==
  /\ Click /\ Loaded /\ (next = "refetch" => Room)
  /\ SaveGraph(next)
  /\ UNCHANGED <<page, mount, store, edits, data, timer, drawer, chat, asking,
                 history, index, strayed, gets, resets, settings, failures,
                 server>>

(* The settings dialog is submitted, once at a time for an agent. *)
SubmitSettings ==
  /\ Click /\ Open /\ Room /\ page \notin settings
  /\ settings' = settings \cup {page}
  /\ UNCHANGED <<page, mount, store, edits, data, timer, drawer, chat, asking,
                 history, index, strayed, gets, saves, resets, failures, server>>

(* The Run button: an agent that asks for inputs gets the run sheet, which *)
(* takes the place of the chat; the others are saved.                      *)
RunClicked ==
  /\ Click /\ Loaded
  /\ IF page \in WithInputs
     THEN /\ ~drawer
          /\ drawer' = TRUE /\ chat' = FALSE /\ asking' = 0
          /\ UNCHANGED saves
     ELSE SaveGraph("run") /\ UNCHANGED <<drawer, chat, asking>>
  /\ UNCHANGED <<page, mount, store, edits, data, timer, history, index,
                 strayed, gets, resets, settings, failures, server>>

(* The run sheet is submitted: the inputs go into the Begin node, the      *)
(* graph is saved and the sheet closes.                                    *)
RunSheetOk ==
  /\ Click /\ Loaded /\ drawer /\ page \in WithInputs
  /\ SetStore(store)
  /\ SaveGraph("run")
  /\ drawer' = FALSE /\ chat' = FALSE /\ asking' = 0
  /\ UNCHANGED <<page, mount, edits, data, strayed, gets, resets, settings,
                 failures, server>>

(* The run sheet or the chat is closed. *)
HideDrawer ==
  /\ Click /\ (drawer \/ chat)
  /\ drawer' = FALSE /\ chat' = FALSE /\ asking' = 0
  /\ UNCHANGED <<page, mount, store, edits, data, timer, history, index,
                 strayed, calls, server>>

-----------------------------------------------------------------------------
(* Some request fails. *)
Failure == failures < MaxFailures /\ failures' = failures + 1

(* The row of agent a is written: the detail the query has is outdated.    *)
Outdate(a) ==
  data' = {[d EXCEPT !.current = @ /\ d.agent # a] : d \in data}

(* The requests when the row of agent a is written, as how says: those     *)
(* that have read it hold an old row.                                      *)
Overtaken(a, how) ==
  {IF f.agent = a /\ f.phase # "sent" /\ f.since # "saved"
   THEN [f EXCEPT !.since = how] ELSE f : f \in gets}

(* Mutant: /set keeps a replica that exists, as /get does. *)
ReplaceForSetIfAbsent(a, dsl) ==
  replica' = [replica EXCEPT ![a] = IF @ = {} THEN {dsl} ELSE @]

ReplaceForSet(a, dsl) == replica' = [replica EXCEPT ![a] = {dsl}]

(* The row gets what save s sent. *)
UpdateRow(s) ==
  /\ saves' = saves \ {s}
  /\ row' = [row EXCEPT ![s.agent] = s.dsl]
  /\ Outdate(s.agent)
  /\ runs' = {[r EXCEPT !.stale = @ \/ r.agent = s.agent] : r \in runs}

(* Save s is answered with code 0: the browser resets the agent or fetches *)
(* its detail, as it asked for.                                            *)
Saved(s) ==
  /\ resets' = IF s.next = "run"
               THEN resets \cup {[agent |-> s.agent, mount |-> s.mount]}
               ELSE resets
  /\ gets' = IF s.next = "refetch"
             THEN Refetch(Overtaken(s.agent, "saved"), s.agent, "form")
             ELSE Overtaken(s.agent, "saved")

(* /set: the row is updated and the replica replaced. *)
SetCanvas(s) ==
  /\ UpdateRow(s)
  /\ ReplaceForSet(s.agent, s.dsl)
  /\ behind' = behind \ {s.agent}
  /\ Saved(s)
  /\ UNCHANGED <<page, mount, store, edits, clicks, timer, drawer, chat,
                 asking, history, index, strayed, settings, failures>>

(* /set with the row updated and the replica left as it was.  Without the  *)
(* lock the answer is an error, "canvas saved, but replica sync failed.";  *)
(* a failed write to Redis is logged only, and the answer has code 0.      *)
SetUnsynced(s, reported) ==
  /\ Failure
  /\ UpdateRow(s)
  /\ behind' = IF replica[s.agent] = {} THEN behind ELSE behind \cup {s.agent}
  /\ IF reported
     THEN UNCHANGED resets /\ gets' = Overtaken(s.agent, "saved")
     ELSE Saved(s)
  /\ UNCHANGED <<page, mount, store, edits, clicks, timer, drawer, chat,
                 asking, history, index, strayed, settings, replica>>

(* /set is refused, or lost on its way. *)
SetRefused(s) ==
  /\ Failure
  /\ saves' = saves \ {s}
  /\ UNCHANGED <<browser, gets, resets, settings, server>>

(* /reset clears the conversation in the row.  Then the chat is shown, by  *)
(* the drawer or, after the run sheet, on its own; a page that was left    *)
(* shows nothing.                                                          *)
ResetCanvas(q) ==
  LET here == Open /\ q.mount = mount
  IN /\ resets' = resets \ {q}
     /\ row' = [row EXCEPT ![q.agent].hist = FALSE]
     /\ Outdate(q.agent)
     /\ gets' = Overtaken(q.agent, "touched")
     /\ chat' = (chat \/ here)
     /\ drawer' = (drawer \/ (here /\ page \notin WithInputs))
     /\ UNCHANGED <<page, mount, store, edits, clicks, timer, asking, history,
                    index, strayed, saves, settings, failures, replica, runs,
                    behind>>

(* The DSL of the row cannot be loaded: nothing is written or shown. *)
ResetFails(q) ==
  /\ Failure
  /\ resets' = resets \ {q}
  /\ UNCHANGED <<browser, gets, saves, settings, server>>

(* /setting writes the row back with another title; then the query of the  *)
(* page that is open, whichever it is, is invalidated and asks again.      *)
SetSetting(a) ==
  /\ settings' = settings \ {a}
  /\ Outdate(a)
  /\ gets' = IF Open THEN Refetch(Overtaken(a, "touched"), page, "settings")
             ELSE Overtaken(a, "touched")
  /\ UNCHANGED <<page, mount, store, edits, clicks, timer, drawer, chat,
                 asking, history, index, strayed, saves, resets, failures,
                 server>>

SettingRefused(a) ==
  /\ Failure
  /\ settings' = settings \ {a}
  /\ UNCHANGED <<browser, gets, saves, resets, server>>

-----------------------------------------------------------------------------
(* Mutant: the answer has the messages of the runtime replica. *)
GetCanvasReplica(a) ==
  [row[a] EXCEPT !.hist = @ \/ \E dsl \in replica[a] : dsl.hist]

GetCanvas(a) == row[a]

(* /get, first: the row is read. *)
ReadRow(f) ==
  /\ f.phase = "sent"
  /\ gets' = (gets \ {f}) \cup
       {[f EXCEPT !.phase = "read", !.dsl = GetCanvas(f.agent),
                  !.same = /\ f.by # "nobody"
                           /\ \E d \in data : d.agent = f.agent /\ d.current]}
  /\ UNCHANGED <<browser, saves, resets, settings, failures, server>>

(* The handler of f has nothing left to do but to answer. *)
Done(f) ==
  gets' = (gets \ {f}) \cup
            (IF f.by = "nobody" THEN {} ELSE {[f EXCEPT !.phase = "done"]})

(* /get, second: create_if_absent looks for the replica. *)
ReadReplica(f) ==
  /\ f.phase = "read"
  /\ IF replica[f.agent] = {}
     THEN gets' = (gets \ {f}) \cup {[f EXCEPT !.phase = "absent"]}
     ELSE Done(f)
  /\ UNCHANGED <<browser, saves, resets, settings, failures, server>>

(* /get, third: it writes the row it has read, over whatever is there now. *)
CreateReplica(f) ==
  /\ f.phase = "absent"
  /\ replica' = [replica EXCEPT ![f.agent] = {f.dsl}]
  /\ behind' = IF f.since = "saved" THEN behind \cup {f.agent}
               ELSE behind \ {f.agent}
  /\ Done(f)
  /\ UNCHANGED <<browser, saves, resets, settings, failures, row, runs>>

(* A call of /get to Redis fails, which is logged only: the replica counts *)
(* as missing, or is not written.                                          *)
GetWithoutRedis(f) ==
  /\ Failure
  /\ \/ f.phase = "read" /\ gets' = (gets \ {f}) \cup {[f EXCEPT !.phase = "absent"]}
     \/ f.phase = "absent" /\ Done(f)
  /\ UNCHANGED <<browser, saves, resets, settings, server>>

(* The answer reaches the browser.  When it differs from the detail the    *)
(* page has, the effect on the detail puts its graph into the store,       *)
(* unless it is empty.  Without a page the query is dropped.               *)
Respond(f) ==
  /\ f \in Fetching /\ f.phase = "done"
  /\ gets' = gets \ {f}
  /\ data' = IF Open THEN {[agent |-> f.agent, dsl |-> f.dsl,
                            current |-> f.since = "nothing"]}
             ELSE {}
  /\ IF Open /\ ~f.same /\ f.dsl.g # Empty
     THEN SetStore(f.dsl.g)
     ELSE UNCHANGED <<store, history, index, timer>>
  /\ strayed' = strayed \cup (IF Open /\ f.agent # page THEN {page} ELSE {})
  /\ UNCHANGED <<page, mount, edits, clicks, drawer, chat, asking, saves,
                 resets, settings, failures, server>>

-----------------------------------------------------------------------------
(* A question is sent: /completion loads the replica and runs it.  Without *)
(* a replica the request is refused and nothing changes.                   *)
Send ==
  /\ chat /\ asking = 0 /\ Loaded /\ Room
  /\ \E i \in 1..MaxRuns, dsl \in replica[page] :
       /\ \A r \in runs : r.id # i
       /\ \A j \in 1..(i - 1) : \E r \in runs : r.id = j
       /\ runs' = runs \cup {[id |-> i, agent |-> page, dsl |-> dsl,
                                stale |-> page \in behind]}
       /\ asking' = i
  /\ UNCHANGED <<page, mount, store, edits, clicks, data, timer, drawer, chat,
                 history, index, strayed, calls, row, replica, behind>>

(* commit_after_run: the DSL the run has worked on, now with the messages, *)
(* is written to the replica without a look at what is there.              *)
CommitAfterRun(r) ==
  /\ replica' = [replica EXCEPT ![r.agent] = {[r.dsl EXCEPT !.hist = TRUE]}]
  /\ behind' = IF r.stale THEN behind \cup {r.agent} ELSE behind \ {r.agent}

(* The stream of run r ends, in the page it was asked in or after it was   *)
(* left, and the browser fetches the detail of the run's agent.            *)
StreamEnds(r) ==
  /\ runs' = runs \ {r}
  /\ asking' = IF asking = r.id THEN 0 ELSE asking
  /\ gets' = Refetch(gets, r.agent, "chat")
  /\ UNCHANGED <<page, mount, store, edits, clicks, data, timer, drawer, chat,
                 history, index, strayed, saves, resets, settings, failures, row>>

RunEnds(r)  == CommitAfterRun(r) /\ StreamEnds(r)

(* A run that fails or is cancelled commits nothing. *)
RunFails(r) == StreamEnds(r) /\ UNCHANGED <<replica, behind>>

(* The replica lives three hours after it was last written. *)
ReplicaExpires(a) ==
  /\ replica[a] # {}
  /\ replica' = [replica EXCEPT ![a] = {}]
  /\ behind' = behind \ {a}
  /\ UNCHANGED <<browser, calls, row, runs>>

-----------------------------------------------------------------------------
Server ==
  \/ \E s \in saves : SetCanvas(s) \/ SetRefused(s)
  \/ \E s \in saves, reported \in BOOLEAN : SetUnsynced(s, reported)
  \/ \E q \in resets : ResetCanvas(q) \/ ResetFails(q)
  \/ \E a \in settings : SetSetting(a) \/ SettingRefused(a)
  \/ \E f \in gets : \/ ReadRow(f) \/ ReadReplica(f) \/ CreateReplica(f)
                     \/ GetWithoutRedis(f) \/ Respond(f)
  \/ \E r \in runs : RunEnds(r) \/ RunFails(r)
  \/ \E a \in Agents : ReplicaExpires(a)

User ==
  \/ \E a \in Agents : OpenPage(a)
  \/ LeavePage
  \/ Edit \/ Undo \/ Redo
  \/ SaveByHand("nothing") \/ SaveByHand("refetch") \/ SubmitSettings
  \/ RunClicked \/ RunSheetOk \/ HideDrawer
  \/ Send

Next == User \/ Autosave \/ Server

Spec == Init /\ [][Next]_vars

(* The debounce ends and a /set is carried out unless it fails; nothing    *)
(* else is owed, neither by the user nor by the other requests and runs.   *)
FairSpec ==
  /\ Spec
  /\ WF_vars(Autosave)
  /\ WF_vars(\E s \in saves : SetCanvas(s))

-----------------------------------------------------------------------------
(* An agent's row never gets the graph of another agent, nor the empty     *)
(* canvas, unless its page was given one to show: by undoing past the      *)
(* load, by a detail left over in the query or by an answer to a request   *)
(* of an earlier page.  In particular the graph that the global store      *)
(* still holds when a page opens is not saved before the page has loaded.  *)
NoForeignSave ==
  \A a \in Agents : Owner(row[a].g) # a => a \in strayed

(* The history and the canvas agree: the entry the history stands at is    *)
(* the graph shown, whatever mix of edits, loads, undo and redo led there, *)
(* and the list keeps its limit.                                           *)
HistoryConsistent ==
  Open => /\ index \in 1..Len(history)
          /\ Len(history) <= MaxHistory
          /\ history[index] = store

(* What a question is run on: the replica holds the saved graph, through   *)
(* saves, runs, expiry and the threads of /get that create a missing one,  *)
(* unless what it holds was read before the last save, by a run or a /get  *)
(* that wrote it after that save (commit_after_run, create_if_absent), or  *)
(* the last save could not write it (replace_for_set).                     *)
ReplicaFollowsUnlessBehind ==
  \A a \in Agents \ behind : \A dsl \in replica[a] : dsl.g = row[a].g

(* Messages of a conversation stay in the replica: they never get into the *)
(* row through a detail that was fetched and sent back by a save.          *)
SavedWithoutMessages ==
  \A a \in Agents : ~row[a].hist

(* A change waiting for the debounce reaches the row, or one made later    *)
(* does, when the user pauses with the drawer closed and the page open and *)
(* no request fails.                                                       *)
AutosaveReaches ==
  (Loaded /\ timer /\ ~drawer)
     ~> (~Open \/ drawer \/ row[page].g = store \/ failures > 0)

=============================================================================
