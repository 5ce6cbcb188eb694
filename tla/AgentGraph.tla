----------------------------- MODULE AgentGraph -----------------------------
(* The graph of an agent as the canvas edits it: the store of nodes and    *)
(* edges (web/src/pages/agent/store.ts), the hooks that add, connect and   *)
(* delete (hooks/use-add-node.ts, use-placeholder-manager.ts,              *)
(* use-connection-drag.ts, use-before-delete.tsx) and the DSL that a save  *)
(* builds from it (utils.ts).                                              *)
(*                                                                         *)
(* An id is <<label, n>>, as in the code, where it is the operator's name  *)
(* followed by random words: code that looks at the prefix of an id looks  *)
(* at the label here.  Positions, names and the forms' other fields are    *)
(* left out; of a Switch's form the targets of its case are kept, since    *)
(* they repeat what the edges say.  "Code" stands for every operator       *)
(* without handles or rules of its own.                                    *)
(*                                                                         *)
(* Not modelled: the forms.  Opening that of a Switch gives it conditions  *)
(* of its own, and while it is open it writes the targets it was opened    *)
(* with back (switch-form/use-watch-change.ts); copies and edits by the    *)
(* buttons of the canvas need no form.  Drags that start at the handle     *)
(* where connections arrive (ConnectionMode.Loose) and a new load of the   *)
(* agent from the server are left out too.                                 *)
EXTENDS Integers, FiniteSets

CONSTANTS
  Kinds,        \* the operators the menus offer in this instance
  MaxId,        \* bound: nodes created with an id of their own
  MaxSelected   \* bound: elements selected when Delete is pressed

Groups == {"Iteration", "Loop"}
Starts == {"IterationStart", "LoopStart"}

ASSUME KindsAssumption ==
  Kinds \subseteq {"Code", "Switch", "Agent", "Tool"} \cup Groups
ASSUME BoundsAssumption == MaxId \in Nat /\ MaxSelected \in Nat

VARIABLES
  nodes,        \* [id, parent, conds, to]: to is the form field of a Switch and
                \* conds the object in memory it is in, numbered by the Switch
                \* it was made for (0: no Switch)
  edges,        \* [src, handle, dst]
  created,      \* how many ids were drawn
  placeholder,  \* createdPlaceholderRef: the node the open menu will replace
  shared        \* observer: the conds that two Switches have had in common

vars == <<nodes, edges, created, placeholder, shared>>

Begin == <<"Begin", 0>>
None == <<"none", 0>>                    \* undefined
Label(id) == id[1]
StartOf(kind) == IF kind = "Iteration" THEN "IterationStart" ELSE "LoopStart"
\* GroupStartNodeMap is built once when the page is loaded: all groups of a
\* kind get a start node with the same id.
StartId(kind) == <<StartOf(kind), 0>>

\* A new Switch has conditions of its own by the next click: React Flow
\* measures a new node, and onNodesChange then copies all forms, the initial
\* values every new Switch starts from (initialSwitchValues) included.
Node(id, parent) ==
  [id |-> id, parent |-> parent, conds |-> IF Label(id) = "Switch" THEN id[2] ELSE 0, to |-> {}]
Edge(src, handle, dst) == [src |-> src, handle |-> handle, dst |-> dst]

Ids(N) == {n.id : n \in N}
Live(id) == id \in Ids(nodes)

\* Mutant: edges that arrive are kept.
TouchingOut(E, ids) == {e \in E : e.src \in ids}

Touching(E, ids) == {e \in E : e.src \in ids \/ e.dst \in ids}

\* nodes.find(x => x.id === id): among nodes that share a start id, the one
\* that was added first, to the oldest group.
GetNode(id) ==
  CHOOSE n \in nodes : /\ n.id = id
                       /\ \A m \in nodes : m.id = id => n.parent[2] <= m.parent[2]
ParentOf(id) == IF Live(id) THEN GetNode(id).parent ELSE None

Init ==
  /\ nodes = {Node(Begin, None)}
  /\ edges = {}
  /\ created = 0
  /\ placeholder = None
  /\ shared = {}

Fresh(label) == <<label, created + 1>>

-----------------------------------------------------------------------------
(* Handles.                                                                *)

IsBottomSubAgent(E, id) == \E e \in E : e.dst = id /\ e.handle = "bottom"

\* The handles a connection can leave a node by.  A bottom sub-agent keeps
\* only the one of its exception branch.
SourceHandles(id) ==
  CASE Label(id) = "Switch" -> {"case"}
    [] Label(id) = "Agent" /\ IsBottomSubAgent(edges, id) -> {"exception"}
    [] Label(id) = "Agent" /\ ~IsBottomSubAgent(edges, id) -> {"start", "exception"}
    [] OTHER -> {"start"}

TakesConnections(id) ==
  /\ Label(id) \notin Starts \cup {"Begin"}
  /\ ~IsBottomSubAgent(edges, id)

-----------------------------------------------------------------------------
(* The Switch's copy of its edges.                                         *)

\* updateNodeForm: lodash's set writes into the form's own conditions, and so
\* into every form that has the same ones.
UpdateTo(N, id, targets) ==
  LET own == {n.conds : n \in {m \in N : m.id = id}}
  IN {IF n.conds \in own THEN [n EXCEPT !.to = targets] ELSE n : n \in N}

\* Mutant: removing one target forgets the others.
UpdateSwitchFormDataReset(N, E, src, handle, removed) ==
  IF Label(src) = "Switch" /\ handle = "case"
  THEN UpdateTo(N, src, IF removed = {}
         THEN {e.dst : e \in {x \in E : x.src = src /\ Label(x.dst) # "Placeholder"}} ELSE {})
  ELSE N

\* updateSwitchFormData: an edge of another handle finds no condition.
UpdateSwitchFormData(N, E, src, handle, removed) ==
  IF Label(src) = "Switch" /\ handle = "case"
  THEN UpdateTo(N, src, {e.dst : e \in {x \in E :
           x.src = src /\ x.handle = handle /\ Label(x.dst) # "Placeholder"}}
         \ removed)
  ELSE N

\* addEdge of the store; N and E are the nodes and edges before it.
StoreEdges(N, E, e) ==
  /\ edges' = E \cup {e}
  /\ nodes' = UpdateSwitchFormData(N, E \cup {e}, e.src, e.handle, {})

-----------------------------------------------------------------------------
(* Connecting two nodes.                                                   *)

\* Mutant: edges may leave a group.
IsSameNodeChildOrNot(u, v) == TRUE

IsSameNodeChild(u, v) == ParentOf(u) = ParentOf(v)

\* Everything hasCycle visits from v: the nodes getOutgoers leads to.
Outgoers(ids) == {e.dst : e \in {x \in edges : x.src \in ids /\ Live(x.dst)}}

\* Mutant: only direct successors are looked at.
ReachedAtOnce(v) == Outgoers({v})

Reached(v) ==
  LET visited[k \in Nat] ==
        IF k = 0 THEN {v} ELSE LET seen == visited[k - 1] IN seen \cup Outgoers(seen)
  IN visited[Cardinality(nodes)]

IsValidConnection(u, v) ==
  /\ u # v
  /\ Label(u) # "" /\ Label(v) # "Begin"
  /\ IsSameNodeChild(u, v)
  /\ u \notin Reached(v)

\* A drag that ends on a handle of v.
OnConnect(u, handle, v) ==
  /\ TakesConnections(v)
  /\ IsValidConnection(u, v)
  /\ StoreEdges(nodes, edges, Edge(u, handle, v))
  /\ UNCHANGED <<created, placeholder, shared>>

-----------------------------------------------------------------------------
(* Adding nodes.                                                           *)

\* addGroupNode: the edge to the group leaves by "start" whatever handle
\* was clicked.
AddGroupNode(kind, u, parent) ==
  LET id == Fresh(kind)
      N == nodes \cup {Node(id, parent), Node(StartId(kind), id)}
  IN IF u = None
     THEN nodes' = N /\ UNCHANGED edges
     ELSE StoreEdges(N, edges, Edge(u, "start", id))

\* addCanvasNode from the menu of a handle of u.
AddNext(u, handle, kind) ==
  /\ created < MaxId
  /\ placeholder = None                  \* canShowDropdown
  /\ Label(u) \notin {"Tool", "Placeholder"}
  /\ IF kind \in Groups
     THEN AddGroupNode(kind, u, ParentOf(u))
     ELSE StoreEdges(nodes \cup {Node(Fresh(kind), ParentOf(u))}, edges,
                     Edge(u, handle, Fresh(kind)))
  /\ created' = created + 1
  /\ UNCHANGED <<placeholder, shared>>

\* "Add agent" in the form of an agent.
AddSubAgent(u) ==
  /\ created < MaxId
  /\ Label(u) = "Agent"
  /\ StoreEdges(nodes \cup {Node(Fresh("Agent"), ParentOf(u))}, edges,
                Edge(u, "bottom", Fresh("Agent")))
  /\ created' = created + 1
  /\ UNCHANGED <<placeholder, shared>>

\* Mutant: sub-agents are taken for the tool node.
ToolsOfAny(u) == {e \in edges : e.src = u /\ e.handle = "bottom"}

ToolsOf(u) == {e \in edges : e.src = u /\ e.handle = "tool"}

\* The tool popover's effect when the agent has tools: one node for all.
AddToolNode(u) ==
  /\ "Tool" \in Kinds
  /\ created < MaxId
  /\ Label(u) = "Agent"
  /\ ~\E e \in ToolsOf(u) : Live(e.dst)
  /\ StoreEdges(nodes \cup {Node(Fresh("Tool"), ParentOf(u))}, edges,
                Edge(u, "tool", Fresh("Tool")))
  /\ created' = created + 1
  /\ UNCHANGED <<placeholder, shared>>

\* ... and when its last tool was removed (deleteAgentToolNodeById).
DeleteAgentToolNode(e) ==
  /\ e.handle = "tool"
  /\ nodes' = {n \in nodes : n.id # e.dst}
  /\ edges' = edges \ Touching(edges, {e.dst})
  /\ UNCHANGED <<created, placeholder, shared>>

-----------------------------------------------------------------------------
(* The placeholder: a drag that ends on the pane adds one and opens a menu *)
(* whose choice replaces it.                                               *)

\* deleteElements with the placeholder and its edges.
WithoutNode(N, id) == {n \in N : n.id # id}

\* onConnectEnd off every handle
DropOnPane(u, handle) ==
  /\ created < MaxId
  /\ LET old == {n \in nodes : Label(n.id) = "Placeholder"}
         first == CHOOSE n \in old : \A m \in old : n.id[2] <= m.id[2]
         gone == IF old = {} THEN {} ELSE {first.id}
         E == edges \ Touching(edges, gone)
         id == Fresh("Placeholder")
     IN /\ StoreEdges({n \in nodes : n.id \notin gone} \cup {Node(id, ParentOf(u))},
                      E, Edge(u, handle, id))
        /\ placeholder' = id
  /\ created' = created + 1
  /\ UNCHANGED shared

\* removePlaceholderNode: a click on the pane, a move of the canvas, the
\* menu closed.
RemovePlaceholderNode ==
  /\ placeholder # None
  /\ nodes' = WithoutNode(nodes, placeholder)
  /\ edges' = edges \ Touching(edges, {placeholder})
  /\ placeholder' = None
  /\ UNCHANGED <<created, shared>>

\* onNodeCreated: the new node takes the placeholder's parent and the source
\* of its first edge, then the placeholder is deleted.
OnNodeCreated(N, id) ==
  LET in == {e \in edges : e.dst = placeholder}
      moved == {IF n.id = id THEN [n EXCEPT !.parent = ParentOf(placeholder)] ELSE n : n \in N}
      kept == edges \ Touching(edges, {placeholder})
  IN IF in = {}
     THEN /\ nodes' = WithoutNode(moved, placeholder)
          /\ edges' = kept
     ELSE \E e \in in : StoreEdges(WithoutNode(moved, placeholder), kept,
                                   Edge(e.src, e.handle, id))

PickOperator(kind) ==
  /\ created < MaxId
  /\ placeholder # None
  /\ LET id == Fresh(kind)
         start == IF kind \in Groups THEN {Node(StartId(kind), id)} ELSE {}
     IN OnNodeCreated(nodes \cup {Node(id, None)} \cup start, id)
  /\ placeholder' = None
  /\ created' = created + 1
  /\ UNCHANGED shared

-----------------------------------------------------------------------------
(* Deleting.                                                               *)

\* The button of an edge (deleteEdgeById).
DeleteEdgeById(e) ==
  /\ e.handle \notin {"bottom", "tool"}
  /\ Label(e.dst) \notin {"Tool", "Placeholder"}
  /\ nodes' = UpdateSwitchFormData(nodes, edges, e.src, e.handle, {e.dst})
  /\ edges' = edges \ {e}
  /\ UNCHANGED <<created, placeholder, shared>>

\* filterAllDownstreamAgentAndToolNodeIds over the edges E
Downstream(E, ids) ==
  LET down[k \in Nat] ==
        IF k = 0 THEN {}
        ELSE LET from == ids \cup down[k - 1]
             IN {e.dst : e \in {x \in E : x.src \in from /\ x.handle \in {"bottom", "tool"}}}
  IN down[Cardinality(E)]

\* The delete button of a node.  deleteAllDownstreamAgentsAndTool means to
\* collect the edges of the sub-agents and tools too, but its test keeps only
\* the first one, an edge of the deleted agent.  For a group only the edges
\* of the group itself go: no edge has one child at both ends.
ToolbarDelete(id) ==
  /\ Label(id) \notin Starts \cup {"Begin", "Tool", "Placeholder"}
  /\ LET gone == {id} \cup IF Label(id) = "Agent" THEN Downstream(edges, {id}) ELSE {}
     IN nodes' = {n \in nodes : n.id \notin gone /\ n.parent # id}
  /\ edges' = edges \ Touching(edges, {id})
  /\ UNCHANGED <<created, placeholder, shared>>

\* React Flow's own part of the Delete key (external): the selected nodes
\* with everything inside them, and the edges of those.
WithChildren(ids) ==
  LET inside[k \in Nat] ==
        IF k = 0 THEN ids
        ELSE LET found == inside[k - 1]
             IN found \cup Ids({n \in nodes : n.parent \in found})
  IN inside[Cardinality(nodes)]

\* handleBeforeDelete, given the ids about to be deleted.
Undeletable(n, ids) ==
  \/ Label(n.id) = "Begin"
  \/ Label(n.id) = "IterationStart" /\ n.parent \notin ids
StaysConnected(e, ids) ==
  /\ Label(e.src) \in {"Begin", "IterationStart"}
  /\ e.src \in ids
  /\ e.dst \notin ids

\* The Delete key.  Only the edges about to be deleted are searched for
\* sub-agents, so those of a sub-agent that was not selected stay.
DeleteSelected(selected, E) ==
  LET ids == WithChildren(selected)
      F == E \cup Touching(edges, ids)
      down == Downstream(F, {id \in ids : Label(id) = "Agent"})
      gone == {n.id : n \in {m \in nodes : m.id \in ids /\ ~Undeletable(m, ids)}}
  IN /\ nodes' = {n \in nodes : n.id \notin gone /\ n.id \notin down}
     /\ edges' = edges \ {e \in F : ~StaysConnected(e, ids)}
     /\ UNCHANGED <<created, placeholder, shared>>

\* The selections of at most MaxSelected elements of S.
Selections(S) ==
  {{}} \cup {{pick[i] : i \in 1..MaxSelected} : pick \in [1..MaxSelected -> S]}

-----------------------------------------------------------------------------
(* Copying: the button of a node, and a paste, which copies by id whatever *)
(* was selected at the time of the copy, even if it is gone.               *)

\* duplicateNode: duplicateNodeForm copies the fields of the form, not the
\* objects in them: the copy of a Switch has the conditions of the original,
\* and cloneDeep, which copies all nodes at once, keeps it so.
DuplicateNode(id) ==
  /\ created < MaxId
  /\ Label(id) \notin {"Begin", "Iteration"}
  /\ nodes' = nodes \cup {[GetNode(id) EXCEPT !.id = Fresh(Label(id))]}
  /\ created' = created + 1
  /\ shared' = shared \cup ({GetNode(id).conds} \ {0})
  /\ UNCHANGED <<edges, placeholder>>

\* ... of a node that was copied and is gone: a node without a label.
PasteDeleted ==
  /\ created < MaxId
  /\ \E k \in 1..created : \A n \in nodes : n.id[2] # k
  /\ nodes' = nodes \cup {Node(Fresh(""), None)}
  /\ created' = created + 1
  /\ UNCHANGED <<edges, placeholder, shared>>

\* Mutant: the copied children keep their ids.
DuplicateIterationNodeShared(id) ==
  /\ created < MaxId
  /\ Label(id) = "Iteration"
  /\ nodes' = nodes \cup {[GetNode(id) EXCEPT !.id = Fresh("Iteration")]}
       \cup {[c EXCEPT !.parent = Fresh("Iteration")] : c \in {n \in nodes : n.parent = id}}
  /\ created' = created + 1
  /\ UNCHANGED <<edges, placeholder, shared>>

\* duplicateIterationNode: the children, too, but none of their edges.
DuplicateIterationNode(id) ==
  /\ Label(id) = "Iteration"
  /\ LET children == {n \in nodes : n.parent = id}
         nth(c) == Cardinality({d \in children : d.id[2] <= c.id[2]})
         copy == Fresh("Iteration")
     IN /\ created + 1 + Cardinality(children) <= MaxId
        /\ nodes' = nodes \cup {[GetNode(id) EXCEPT !.id = copy]}
             \cup {[c EXCEPT !.id = <<Label(c.id), created + 1 + nth(c)>>, !.parent = copy]
                     : c \in children}
        /\ created' = created + 1 + Cardinality(children)
        /\ shared' = shared \cup ({c.conds : c \in children} \ {0})
  /\ UNCHANGED <<edges, placeholder>>

-----------------------------------------------------------------------------
Next ==
  \/ \E u \in Ids(nodes) : \E h \in SourceHandles(u) :
       \/ \E v \in Ids(nodes) : OnConnect(u, h, v)
       \/ \E kind \in Kinds \ {"Tool"} : AddNext(u, h, kind)
       \/ DropOnPane(u, h)
  \/ \E u \in Ids(nodes) : AddSubAgent(u) \/ AddToolNode(u)
  \/ \E e \in edges : DeleteAgentToolNode(e) \/ DeleteEdgeById(e)
  \/ RemovePlaceholderNode
  \/ \E kind \in Kinds \ {"Tool"} : PickOperator(kind)
  \/ \E id \in Ids(nodes) : ToolbarDelete(id)
  \/ \E ids \in Selections(Ids(nodes)), E \in Selections(edges) :
       /\ Cardinality(ids) + Cardinality(E) \in 1..MaxSelected
       /\ DeleteSelected(ids, E)
  \/ \E id \in Ids(nodes) : DuplicateNode(id) \/ DuplicateIterationNode(id)
  \/ PasteDeleted

Spec == Init /\ [][Next]_vars

-----------------------------------------------------------------------------
(* The DSL a save sends to the server.                                     *)

IsPlaceholder(id) == Live(id) /\ Label(id) = "Placeholder"

\* buildDslData leaves out placeholders and their edges,
DslEdges == {e \in edges : ~IsPlaceholder(e.src) /\ ~IsPlaceholder(e.dst)}
\* buildDslComponentsByGraph tools, notes and the sub-agents, which it nests
\* in their agent.
Components ==
  {id \in Ids(nodes) : /\ Label(id) \notin {"Tool", "Placeholder"}
                       /\ ~IsBottomSubAgent(DslEdges, id)}
\* buildComponentDownstreamOrUpstream
DslDownstream(id) ==
  {e.dst : e \in {x \in DslEdges :
     x.src = id /\ (Label(id) = "Agent" =>
                      x.handle # "exception" /\ x.handle # "bottom" /\ Label(x.dst) # "Tool")}}
\* buildAgentExceptionGoto
DslExceptionGoto(id) ==
  {e.dst : e \in {x \in DslEdges : x.src = id /\ x.handle = "exception"}}

-----------------------------------------------------------------------------
(* Properties.                                                             *)

AllLabels == Groups \cup Starts \cup {"Begin", "Code", "Switch", "Agent", "Tool", "Placeholder", ""}
AnyId == AllLabels \X (0..MaxId)

\* The variables have their types, and ids other than the start nodes' are
\* those of one node each (store.ts 60-80, addNode).
TypeOK ==
  /\ nodes \subseteq [id : AnyId, parent : AnyId \cup {None}, conds : 0..MaxId, to : SUBSET AnyId]
  /\ edges \subseteq [src : AnyId, handle : {"start", "exception", "case", "bottom", "tool"},
                      dst : AnyId]
  /\ created \in 0..MaxId
  /\ placeholder \in AnyId \cup {None}
  /\ shared \subseteq 1..MaxId
  /\ \A m, n \in nodes : m.id = n.id /\ Label(m.id) \notin Starts => m = n

\* Nodes that exist never form a cycle, whatever was deleted, copied or
\* connected in between: hasCanvasCycle, which looks only along nodes that
\* exist, and the edges other operations add are enough (hooks.tsx 144-163).
Acyclic ==
  \A S \in SUBSET Ids(nodes) :
    S # {} => \E v \in S : \A e \in edges : e.src = v => e.dst \notin S

\* No edge crosses the border of an Iteration or a Loop (isSameNodeChild,
\* hooks.tsx 132-142, and the parent every other operation gives a node).
\* Edges of a start node are left out: a later group takes over its id and,
\* with it, edges that were left behind.
EdgesStayInGroup ==
  \A e \in edges : Label(e.src) \notin Starts /\ Live(e.src) /\ Live(e.dst) =>
    ParentOf(e.src) = ParentOf(e.dst)

\* What the DSL names downstream of a component exists, whichever way nodes
\* were deleted; only a start node, whose id a later group takes over, and a
\* tool node somebody drew an edge to are left out (store.ts 357-421,
\* use-before-delete.tsx 16-79).
DownstreamExists ==
  \A c \in {x \in Components : Label(x) \notin Starts} :
    \A d \in DslDownstream(c) \cup DslExceptionGoto(c) : Label(d) # "Tool" => Live(d)

\* The forms of the Switches N, by which the server routes, name every target
\* of their case's edges.
NameTargets(N) ==
  \A e \in DslEdges : Live(e.src) /\ Label(e.src) = "Switch" /\ e.handle = "case" =>
    \A n \in N : n.id = e.src => e.dst \in n.to

\* A Switch that was never copied, and is no copy, names every target of its
\* case's edges, through placeholders and deletions, and whatever is copied,
\* connected and edited around it (store.ts 468-502).  A copy and its original
\* have their conditions in common: connecting the one overwrites the targets
\* of the other, so for these it fails.
UncopiedSwitchNames == NameTargets({n \in nodes : n.conds \notin shared})

\* An agent has at most one tool node on the canvas (use-add-node.ts 274-319).
OneToolNode ==
  \A d, e \in {x \in edges : x.handle = "tool" /\ Live(x.src) /\ Live(x.dst)} :
    d.src = e.src => d = e

=============================================================================
