--------------------------- MODULE AgentGraph_proofs ---------------------------
(***************************************************************************)
(* Proofs about AgentGraph: every invariant of the graph, for any set of   *)
(* operators and any number of nodes.                                      *)
(***************************************************************************)
EXTENDS AgentGraph, NatRecursion, FiniteSetTheorems

-----------------------------------------------------------------------------
(* What the recursive searches compute.                                    *)

\* Whatever filterAllDownstreamAgentAndToolNodeIds finds is at the end of an
\* edge of a bottom or tool handle.
LEMMA DownstreamEdges ==
  ASSUME NEW E, IsFiniteSet(E), NEW ids, NEW x \in Downstream(E, ids)
  PROVE  \E e \in E : e.dst = x /\ e.handle \in {"bottom", "tool"}
  <1> DEFINE Ends(from) == {e.dst : e \in {y \in E : y.src \in from /\ y.handle \in {"bottom", "tool"}}}
             S == SUBSET {e.dst : e \in E}
             step == [A \in S |-> Ends(ids \cup A)]
             D(g) == [k \in Nat |-> IF k = 0 THEN {} ELSE Ends(ids \cup g[k - 1])]
             down == CHOOSE g : g = D(g)
  <1>1. {} \in S /\ step \in [S -> S]
    OBVIOUS
  <1>2. \E f : f = D(f)
    <2>1. PICK f \in [Nat -> S] : f[0] = {} /\ \A k \in Nat : f[k + 1] = step[f[k]]
      <3> HIDE DEF S, step
      <3> QED BY <1>1, Iterates
    <2>2. \A k \in Nat : k # 0 => f[k] = Ends(ids \cup f[k - 1])
      <3> SUFFICES ASSUME NEW k \in Nat, k # 0 PROVE f[k] = Ends(ids \cup f[k - 1])
        OBVIOUS
      <3>1. k - 1 \in Nat /\ (k - 1) + 1 = k
        OBVIOUS
      <3>2. f[k] = step[f[k - 1]] /\ f[k - 1] \in S
        BY <2>1, <3>1
      <3> QED BY <3>2
    <2> HIDE DEF Ends
    <2>3. f = D(f)
      BY <2>1, <2>2
    <2> QED BY <2>3
  <1>3. down = D(down)
    <2> HIDE DEF D
    <2> QED BY <1>2
  <1>4. Downstream(E, ids) = down[Cardinality(E)]
    BY DEF Downstream
  <1>5. Cardinality(E) \in Nat
    BY FS_CardinalityType
  <1> HIDE DEF down, Ends
  <1>6. x \in Ends(ids \cup down[Cardinality(E) - 1])
    BY <1>3, <1>4, <1>5
  <1> QED BY <1>6 DEF Ends

\* hasCycle looks at v and at everything that can be reached from it.
LEMMA ReachedClosed ==
  ASSUME IsFiniteSet(nodes), NEW v \in Ids(nodes)
  PROVE  v \in Reached(v) /\ Outgoers(Reached(v)) \subseteq Reached(v)
  <1> DEFINE S == SUBSET Ids(nodes)
             step == [A \in S |-> A \cup Outgoers(A)]
             D(g) == [k \in Nat |-> IF k = 0 THEN {v} ELSE g[k - 1] \cup Outgoers(g[k - 1])]
             visited == CHOOSE g : g = D(g)
  <1>1. {v} \in S /\ step \in [S -> S]
    BY DEF Outgoers, Live
  <1>2. PICK f \in [Nat -> S] : f[0] = {v} /\ \A k \in Nat : f[k + 1] = step[f[k]]
    <2> HIDE DEF S, step
    <2> QED BY <1>1, Iterates
  <1>3. \A k \in Nat : f[k] \in S /\ f[k + 1] = f[k] \cup Outgoers(f[k])
    BY <1>2
  <1>4. f = D(f)
    <2>1. \A k \in Nat : k # 0 => f[k] = f[k - 1] \cup Outgoers(f[k - 1])
      <3> SUFFICES ASSUME NEW k \in Nat, k # 0 PROVE f[k] = f[k - 1] \cup Outgoers(f[k - 1])
        OBVIOUS
      <3>1. k - 1 \in Nat /\ (k - 1) + 1 = k
        OBVIOUS
      <3> QED BY <1>3, <3>1
    <2> QED BY <1>2, <2>1
  <1>5. visited = D(visited)
    <2> HIDE DEF D
    <2> QED BY <1>4
  <1>6. Reached(v) = visited[Cardinality(nodes)]
    BY DEF Reached
  <1> HIDE DEF visited, S, step
  <1>7. \A k \in Nat : visited[k] = f[k]
    <2> DEFINE Same == {k \in Nat : visited[k] = f[k]}
    <2>1. 0 \in Same
      BY <1>2, <1>5
    <2>2. ASSUME NEW k \in Nat, k \in Same PROVE k + 1 \in Same
      <3>1. k + 1 \in Nat /\ k + 1 # 0 /\ (k + 1) - 1 = k
        OBVIOUS
      <3>2. visited[k + 1] = visited[k] \cup Outgoers(visited[k])
        BY <1>5, <3>1
      <3>3. visited[k] = f[k] /\ f[k + 1] = f[k] \cup Outgoers(f[k])
        BY <1>3, <2>2
      <3>4. visited[k + 1] = f[k + 1]
        BY <3>2, <3>3, Zenon
      <3> QED BY <3>1, <3>4
    <2> HIDE DEF Same
    <2>3. \A k \in Nat : k \in Same
      BY <2>1, <2>2, SetInduction
    <2> QED BY <2>3 DEF Same
  <1>8. IsFiniteSet(Ids(nodes)) /\ Cardinality(Ids(nodes)) <= Cardinality(nodes)
    <2> DEFINE T == Ids(nodes)
               g == [n \in nodes |-> n.id]
    <2>1. g \in Surjection(nodes, T)
      BY DEF Surjection, Ids
    <2> HIDE DEF T, g
    <2>2. IsFiniteSet(T) /\ Cardinality(T) <= Cardinality(nodes)
      BY <2>1, FS_Surjection
    <2> QED BY <2>2 DEF T
  <1>9. \A k \in Nat : /\ IsFiniteSet(f[k]) /\ Cardinality(f[k]) \in Nat
                       /\ Cardinality(f[k]) <= Cardinality(Ids(nodes))
    <2> SUFFICES ASSUME NEW k \in Nat
                 PROVE  /\ IsFiniteSet(f[k]) /\ Cardinality(f[k]) \in Nat
                        /\ Cardinality(f[k]) <= Cardinality(Ids(nodes))
      OBVIOUS
    <2>1. f[k] \in SUBSET Ids(nodes)
      BY <1>3 DEF S
    <2>2. IsFiniteSet(f[k]) /\ Cardinality(f[k]) <= Cardinality(Ids(nodes))
      BY <1>8, <2>1, FS_Subset
    <2> QED BY <2>2, FS_CardinalityType
  <1>10. \A k \in Nat : v \in f[k]
    <2> DEFINE Has == {k \in Nat : v \in f[k]}
    <2>1. 0 \in Has
      BY <1>2
    <2>2. ASSUME NEW k \in Nat, k \in Has PROVE k + 1 \in Has
      BY <1>3, <2>2
    <2> HIDE DEF Has
    <2>3. \A k \in Nat : k \in Has
      BY <2>1, <2>2, SetInduction
    <2> QED BY <2>3 DEF Has
  \* Each round finds a node or there is none left to find.
  <1>11. \A k \in Nat : Outgoers(f[k]) \subseteq f[k] \/ Cardinality(f[k]) >= k + 1
    <2> DEFINE Grown == {k \in Nat : Outgoers(f[k]) \subseteq f[k] \/ Cardinality(f[k]) >= k + 1}
    <2>1. 0 \in Grown
      <3>1. Cardinality(f[0]) = 1
        BY <1>2, FS_Singleton
      <3> QED BY <3>1
    <2>2. ASSUME NEW k \in Nat, k \in Grown PROVE k + 1 \in Grown
      <3>1. f[k + 1] = f[k] \cup Outgoers(f[k])
        BY <1>3
      <3>2. CASE Outgoers(f[k]) \subseteq f[k]
        <4>1. f[k + 1] = f[k]
          BY <3>1, <3>2
        <4>2. Outgoers(f[k + 1]) \subseteq f[k + 1]
          BY <3>2, <4>1
        <4> QED BY <4>2
      <3>3. CASE ~(Outgoers(f[k]) \subseteq f[k])
        <4>1. Cardinality(f[k]) >= k + 1
          BY <2>2, <3>3
        <4>2. f[k] \in SUBSET f[k + 1] /\ f[k] # f[k + 1]
          BY <3>1, <3>3
        <4>3. IsFiniteSet(f[k + 1]) /\ Cardinality(f[k + 1]) \in Nat /\ Cardinality(f[k]) \in Nat
          BY <1>9
        <4>4. /\ Cardinality(f[k]) <= Cardinality(f[k + 1])
              /\ Cardinality(f[k + 1]) = Cardinality(f[k]) => f[k + 1] = f[k]
          BY <4>2, <4>3, FS_Subset
        <4>5. Cardinality(f[k + 1]) >= (k + 1) + 1
          BY <4>1, <4>2, <4>3, <4>4
        <4> QED BY <4>5
      <3> QED BY <3>2, <3>3
    <2> HIDE DEF Grown
    <2>3. \A k \in Nat : k \in Grown
      BY <2>1, <2>2, SetInduction
    <2> QED BY <2>3 DEF Grown
  <1>12. PICK n \in Nat : n = Cardinality(nodes)
    BY FS_CardinalityType
  <1>13. Cardinality(Ids(nodes)) \in Nat /\ Cardinality(Ids(nodes)) <= n
    BY <1>8, <1>12, FS_CardinalityType
  <1>14. Cardinality(f[n]) \in Nat /\ Cardinality(f[n]) <= n
    BY <1>9, <1>13
  <1>15. Outgoers(f[n]) \subseteq f[n]
    BY <1>11, <1>14
  <1>16. Reached(v) = f[n]
    BY <1>6, <1>7, <1>12
  <1> QED BY <1>10, <1>15, <1>16
-----------------------------------------------------------------------------
(* The inductive invariant, of any nodes N, edges E and number c of ids    *)
(* drawn: the operations are shown to preserve it one after the other.     *)

Nodes == [id : AnyId, parent : AnyId \cup {None}, conds : 0..MaxId, to : SUBSET AnyId]
Edges == [src : AnyId, handle : {"start", "exception", "case", "bottom", "tool"}, dst : AnyId]

Typed(N, E, c) == N \subseteq Nodes /\ E \subseteq Edges /\ c \in 0..MaxId

\* A number that was drawn is that of one node; number 0 is that of Begin and of
\* the start nodes groups are created with.
Numbered(N, c) ==
  /\ \A n \in N : n.id[2] <= c
  /\ \A n \in N : n.id[2] = 0 =>
       n = Node(Begin, None) \/ \E k \in Groups, j \in 1..c : n = Node(StartId(k), <<k, j>>)
  /\ \A m, n \in N : m.id[2] = n.id[2] /\ m.id[2] # 0 => m = n

\* Edges of nodes that were drawn, never into a start node; bottom and tool
\* handles lead from agents to sub-agents, which nothing else leads to, and to
\* tools.
Wired(E, c) ==
  /\ \A e \in E : /\ e.src[2] <= c /\ e.dst[2] \in 1..c
                  /\ Label(e.dst) \notin Starts \cup {"Begin"}
                  /\ e.handle = "bottom" => Label(e.src) = "Agent" /\ Label(e.dst) = "Agent"
                  /\ e.handle = "tool" => Label(e.src) = "Agent" /\ Label(e.dst) = "Tool"
  /\ \A d, e \in E : d.handle = "bottom" /\ e.dst = d.dst => e = d

\* What an edge of a node that exists leads to exists, sub-agents and tools
\* apart.
Linked(N, E) ==
  \A e \in E : e.src \in Ids(N) /\ Label(e.src) \notin Starts /\ e.dst \notin Ids(N) =>
    e.handle = "bottom" \/ Label(e.dst) = "Tool"

Grouped(N, E) ==
  \A e \in E, m, n \in N : m.id = e.src /\ n.id = e.dst /\ Label(e.src) \notin Starts =>
    m.parent = n.parent

Named(N, E, K) ==
  \A e \in E, n \in N :
    /\ n.id = e.src /\ Label(e.src) = "Switch" /\ e.handle = "case"
    /\ Label(e.dst) # "Placeholder" /\ n.conds \notin K
    => e.dst \in n.to

\* Conditions outside K, which no two Switches have had in common, are those of
\* one Switch.
Shares(N, c, K) ==
  /\ K \subseteq 1..c
  /\ \A n \in N : n.conds \in 0..c /\ (n.conds = 0 <=> Label(n.id) # "Switch")
  /\ \A m, n \in N : m.conds = n.conds /\ m.conds # 0 /\ m.conds \notin K => m = n

OneTool(N, E) ==
  \A d, e \in E :
    /\ d.handle = "tool" /\ e.handle = "tool" /\ d.src = e.src
    /\ d.src \in Ids(N) /\ d.dst \in Ids(N) /\ e.dst \in Ids(N)
    => d = e

NoCycle(N, E) ==
  \A S \in SUBSET Ids(N) : S # {} => \E v \in S : \A e \in E : e.src = v => e.dst \notin S

Good(N, E, c, K) ==
  /\ Typed(N, E, c) /\ Numbered(N, c) /\ Wired(E, c) /\ Linked(N, E) /\ Grouped(N, E)
  /\ Named(N, E, K) /\ Shares(N, c, K) /\ OneTool(N, E) /\ NoCycle(N, E)

PlaceholderInv ==
  placeholder = None \/ (placeholder \in AnyId /\ Label(placeholder) = "Placeholder")

IInv == Good(nodes, edges, created, shared) /\ PlaceholderInv

-----------------------------------------------------------------------------
(* Operations on a graph.                                                  *)

\* Removing nodes and edges: whoever still leads to a removed node leads to it
\* as a sub-agent or tool, or is a start node.
LEMMA GoodRemove ==
  ASSUME NEW N, NEW E, NEW c, NEW K, Good(N, E, c, K), NEW N2 \in SUBSET N, NEW E2 \in SUBSET E,
         Linked(N2, E2)
  PROVE  Good(N2, E2, c, K)
  <1>1. Ids(N2) \subseteq Ids(N)
    BY DEF Ids
  <1>2. Typed(N2, E2, c) /\ Numbered(N2, c) /\ Wired(E2, c)
    BY DEF Good, Typed, Numbered, Wired
  <1>3. Grouped(N2, E2) /\ Named(N2, E2, K) /\ Shares(N2, c, K)
    BY DEF Good, Grouped, Named, Shares
  <1>4. OneTool(N2, E2)
    BY <1>1 DEF Good, OneTool
  <1>5. NoCycle(N2, E2)
    <2> SUFFICES ASSUME NEW S \in SUBSET Ids(N2), S # {}
                 PROVE  \E v \in S : \A e \in E2 : e.src = v => e.dst \notin S
      BY DEF NoCycle
    <2>1. PICK v \in S : \A e \in E : e.src = v => e.dst \notin S
      BY <1>1 DEF Good, NoCycle
    <2> QED BY <2>1
  <1> QED BY <1>2, <1>3, <1>4, <1>5 DEF Good

\* Adding nodes with ids of their own, without edges.
LEMMA GoodAdd ==
  ASSUME NEW N, NEW E, NEW c, NEW K, Good(N, E, c, K), NEW c2 \in 0..MaxId, c <= c2,
         NEW M \in SUBSET Nodes,
         \A m \in M : m.id[2] \in (c + 1)..c2,
         \A m, n \in M : m.id[2] = n.id[2] => m = n,
         NEW K2 \in SUBSET (1..c2), K \subseteq K2,
         \A m \in M : m.conds \in 0..c2 /\ (m.conds = 0 <=> Label(m.id) # "Switch"),
         \A m \in M, n \in N \cup M : m.conds = n.conds /\ m.conds # 0 /\ m.conds \notin K2 => m = n
  PROVE  Good(N \cup M, E, c2, K2)
  <1> USE BoundsAssumption
  <1>1. c \in Nat /\ c2 \in Nat /\ \A n \in N \cup M : n.id[2] \in Nat
    BY DEF Good, Typed, Nodes, AnyId
  <1>2. /\ Ids(N \cup M) = Ids(N) \cup Ids(M)
        /\ \A x \in Ids(M) : x[2] \in (c + 1)..c2
    BY DEF Ids
  <1>3. \A e \in E : e \in Edges /\ e.src[2] \in Nat /\ e.src[2] <= c /\ e.dst[2] \in 1..c
    BY DEF Good, Typed, Wired, Edges, AnyId
  <1>4. \A e \in E : e.src \notin Ids(M) /\ e.dst \notin Ids(M)
    BY <1>1, <1>2, <1>3
  <1>5. \A e \in E, m \in M : e.src # m.id /\ e.dst # m.id
    BY <1>4 DEF Ids
  <1>6. Typed(N \cup M, E, c2)
    BY DEF Good, Typed
  <1>7. Numbered(N \cup M, c2)
    <2>1. \A n \in N \cup M : n.id[2] <= c2
      BY <1>1 DEF Good, Numbered
    <2>2. ASSUME NEW n \in N \cup M, n.id[2] = 0
          PROVE  n = Node(Begin, None) \/ \E k \in Groups, j \in 1..c2 : n = Node(StartId(k), <<k, j>>)
      <3>1. n \in N
        BY <1>1, <2>2
      <3> QED BY <1>1, <2>2, <3>1 DEF Good, Numbered
    <2>3. ASSUME NEW m \in N \cup M, NEW n \in N \cup M, m.id[2] = n.id[2], m.id[2] # 0 PROVE m = n
      <3>1. \A x \in N : x.id[2] <= c
        BY DEF Good, Numbered
      <3>2. (m \in N /\ n \in N) \/ (m \in M /\ n \in M)
        BY <1>1, <2>3, <3>1
      <3> QED BY <2>3, <3>2 DEF Good, Numbered
    <2> QED BY <2>1, <2>2, <2>3 DEF Numbered
  <1>8. Wired(E, c2)
    <2>1. \A e \in E : e.src[2] <= c2 /\ e.dst[2] \in 1..c2
      BY <1>1, <1>3
    <2> QED BY <2>1 DEF Good, Wired
  <1>9. Linked(N \cup M, E) /\ OneTool(N \cup M, E)
    BY <1>2, <1>4 DEF Good, Linked, OneTool
  <1>10. Grouped(N \cup M, E) /\ Named(N \cup M, E, K2)
    BY <1>5 DEF Good, Grouped, Named
  <1>12. Shares(N \cup M, c2, K2)
    <2>1. \A n \in N : n.conds \in 0..c2 /\ (n.conds = 0 <=> Label(n.id) # "Switch")
      BY <1>1 DEF Good, Shares
    <2>2. \A m, n \in N : m.conds = n.conds /\ m.conds # 0 /\ m.conds \notin K2 => m = n
      BY DEF Good, Shares
    <2> QED BY <2>1, <2>2 DEF Shares
  <1>11. NoCycle(N \cup M, E)
    <2> SUFFICES ASSUME NEW S \in SUBSET Ids(N \cup M), S # {}
                 PROVE  \E v \in S : \A e \in E : e.src = v => e.dst \notin S
      BY DEF NoCycle
    <2>1. CASE S \subseteq Ids(N)
      BY <2>1 DEF Good, NoCycle
    <2>2. ASSUME NEW v \in S, v \in Ids(M) PROVE \A e \in E : e.src # v
      BY <1>4, <2>2
    <2> QED BY <1>2, <2>1, <2>2
  <1> QED BY <1>6, <1>7, <1>8, <1>9, <1>10, <1>11, <1>12 DEF Good

\* Adding the start node of a group: its id may have been another's, with edges
\* that were left behind.
LEMMA GoodStart ==
  ASSUME NEW N, NEW E, NEW c, NEW K, Good(N, E, c, K), NEW k \in Groups, NEW j \in 1..c
  PROVE  Good(N \cup {Node(StartId(k), <<k, j>>)}, E, c, K)
  <1> USE BoundsAssumption
  <1> DEFINE s == StartId(k)
             n == Node(s, <<k, j>>)
             N2 == N \cup {n}
  <1>1. c \in 0..MaxId /\ c \in Nat
    BY DEF Good, Typed
  <1>2. s[2] = 0 /\ Label(s) \in Starts /\ s \in AnyId /\ <<k, j>> \in AnyId
    <2>1. s[2] = 0 /\ Label(s) \in Starts
      BY DEF StartId, StartOf, Label, Starts
    <2>2. s \in AnyId
      <3>1. StartOf(k) \in AllLabels
        BY DEF StartOf, AllLabels, Starts
      <3> QED BY <3>1 DEF StartId, AnyId
    <2>3. <<k, j>> \in AnyId
      <3>1. k \in AllLabels
        BY DEF AllLabels
      <3>2. j \in 0..MaxId
        BY <1>1
      <3> QED BY <3>1, <3>2 DEF AnyId
    <2> QED BY <2>1, <2>2, <2>3
  <1>3. n \in Nodes /\ n.id = s /\ n.conds = 0 /\ Label(n.id) # "Switch"
    <2>1. Label(s) # "Switch"
      BY <1>2 DEF Starts
    <2> QED BY <1>2, <2>1 DEF Node, Nodes
  <1>4. Ids(N2) = Ids(N) \cup {s}
    BY <1>3 DEF Ids
  <1>5. \A e \in E : e.dst # s /\ (Label(e.src) \notin Starts => e.src # s)
    BY <1>2 DEF Good, Wired
  <1>6. Typed(N2, E, c)
    BY <1>3 DEF Good, Typed
  <1>7. Numbered(N2, c)
    <2>1. n.id[2] = 0
      BY <1>2, <1>3
    <2> HIDE DEF n
    <2>2. \A m \in N2 : m.id[2] # 0 => m \in N
      BY <2>1
    <2>3. \A m \in N2 : m.id[2] = 0 =>
            m = Node(Begin, None) \/ \E kk \in Groups, jj \in 1..c : m = Node(StartId(kk), <<kk, jj>>)
      <3>1. \E kk \in Groups, jj \in 1..c : n = Node(StartId(kk), <<kk, jj>>)
        BY DEF n
      <3> QED BY <3>1 DEF Good, Numbered
    <2>4. \A m \in N2 : m.id[2] <= c
      BY <1>1, <2>1 DEF Good, Numbered
    <2>5. \A m, x \in N2 : m.id[2] = x.id[2] /\ m.id[2] # 0 => m = x
      BY <2>2 DEF Good, Numbered
    <2> QED BY <2>3, <2>4, <2>5 DEF Numbered
  <1> HIDE DEF s, n
  <1>8. Linked(N2, E)
    BY <1>4, <1>5 DEF Good, Linked
  <1>9. OneTool(N2, E)
    <2>1. \A e \in E : e.handle = "tool" => e.src # s
      BY <1>2, <1>5 DEF Good, Wired, Starts
    <2> QED BY <1>4, <1>5, <2>1 DEF Good, OneTool
  <1>10. Grouped(N2, E)
    BY <1>3, <1>5 DEF Good, Grouped
  <1>11. Named(N2, E, K)
    <2>1. \A e \in E : Label(e.src) = "Switch" => e.src # s
      BY <1>2 DEF Starts
    <2> QED BY <1>3, <2>1 DEF Good, Named
  <1>15. Shares(N2, c, K)
    BY <1>1, <1>3 DEF Good, Shares
  <1>12. NoCycle(N2, E)
    <2> SUFFICES ASSUME NEW S \in SUBSET Ids(N2), S # {}
                 PROVE  \E v \in S : \A e \in E : e.src = v => e.dst \notin S
      BY DEF NoCycle
    <2>1. CASE S = {s}
      BY <1>5, <2>1
    <2>2. CASE S # {s}
      <3>1. S \ {s} \in SUBSET Ids(N) /\ S \ {s} # {}
        BY <1>4, <2>2
      <3>2. PICK v \in S \ {s} : \A e \in E : e.src = v => e.dst \notin S \ {s}
        BY <3>1 DEF Good, NoCycle
      <3> QED BY <1>5, <3>2
    <2> QED BY <2>1, <2>2
  <1>13. Wired(E, c)
    BY DEF Good
  <1>14. Good(N2, E, c, K)
    <2> HIDE DEF N2
    <2> QED BY <1>6, <1>7, <1>8, <1>9, <1>10, <1>11, <1>12, <1>13, <1>15 DEF Good
  <1> QED BY <1>14 DEF s, n

\* updateSwitchFormData changes nothing but the targets in the conditions of
\* the Switch the edge leaves.
Renewed(N, E, src, handle, removed, N2) ==
  \E f \in [N -> Nodes] :
    /\ N2 = {f[n] : n \in N}
    /\ \A n \in N :
         /\ f[n].id = n.id /\ f[n].parent = n.parent /\ f[n].conds = n.conds
         /\ \/ Label(src) # "Switch" \/ handle # "case"
            \/ \A s \in N : s.id = src => s.conds # n.conds
            => f[n] = n
         /\ Label(src) = "Switch" /\ n.id = src /\ handle = "case" =>
              f[n].to = {e.dst : e \in {x \in E : x.src = src /\ x.handle = handle
                                               /\ Label(x.dst) # "Placeholder"}} \ removed

\* updateSwitchFormData touches the targets in the conditions of a Switch and
\* nothing else.
LEMMA SwitchForm ==
  ASSUME NEW N, NEW E, N \in SUBSET Nodes, E \in SUBSET Edges, NEW src, NEW handle, NEW removed,
         NEW N2, N2 = UpdateSwitchFormData(N, E, src, handle, removed)
  PROVE  Renewed(N, E, src, handle, removed, N2)
  <1> DEFINE T == {e.dst : e \in {x \in E : x.src = src /\ x.handle = handle
                                           /\ Label(x.dst) # "Placeholder"}} \ removed
             own == {n.conds : n \in {m \in N : m.id = src}}
             f == [n \in N |-> IF n.conds \in own THEN [n EXCEPT !.to = T] ELSE n]
             g == [n \in N |-> n]
  <1>1. CASE ~(Label(src) = "Switch" /\ handle = "case")
    <2>1. N2 = N
      BY <1>1 DEF UpdateSwitchFormData
    <2>2. g \in [N -> Nodes] /\ N2 = {g[n] : n \in N} /\ \A n \in N : g[n] = n
      BY <2>1
    <2> HIDE DEF g
    <2> QED BY <1>1, <2>2 DEF Renewed
  <1>2. CASE Label(src) = "Switch" /\ handle = "case"
    <2>1. N2 = {IF n.conds \in own THEN [n EXCEPT !.to = T] ELSE n : n \in N}
      BY <1>2 DEF UpdateSwitchFormData, UpdateTo
    <2>2. T \in SUBSET AnyId
      BY DEF Edges
    <2>3. \A n \in N : n.id = src => n.conds \in own
      OBVIOUS
    <2>4. \A n \in N : (\A s \in N : s.id = src => s.conds # n.conds) => n.conds \notin own
      OBVIOUS
    <2> HIDE DEF T, own
    <2>5. /\ f \in [N -> Nodes]
          /\ N2 = {f[n] : n \in N}
      BY <2>1, <2>2 DEF Nodes
    <2>6. \A n \in N : /\ f[n].id = n.id /\ f[n].parent = n.parent /\ f[n].conds = n.conds
                       /\ n.conds \notin own => f[n] = n
                       /\ n.conds \in own => f[n].to = T
      BY <2>2 DEF Nodes
    <2> HIDE DEF f
    <2>7. \A n \in N :
            /\ f[n].id = n.id /\ f[n].parent = n.parent /\ f[n].conds = n.conds
            /\ (\/ Label(src) # "Switch" \/ handle # "case"
                \/ \A s \in N : s.id = src => s.conds # n.conds) => f[n] = n
            /\ (Label(src) = "Switch" /\ n.id = src /\ handle = "case") => f[n].to = T
      BY <1>2, <2>3, <2>4, <2>6
    <2> QED BY <2>5, <2>7 DEF T, Renewed
  <1> QED BY <1>1, <1>2

\* Renewing the form of a Switch keeps the graph as it should be, provided the
\* form names the targets of the edges E2 that are left or added.
LEMMA GoodForm ==
  ASSUME NEW N, NEW E, NEW c, NEW K, NEW E2, NEW src, NEW handle, NEW removed, NEW N2,
         E \in SUBSET Edges, E2 \in SUBSET Edges,
         N2 = UpdateSwitchFormData(N, E, src, handle, removed),
         Typed(N, E2, c), Numbered(N, c), Wired(E2, c), Linked(N, E2), Grouped(N, E2),
         Shares(N, c, K), OneTool(N, E2), NoCycle(N, E2),
         \A e \in E2, n \in N :
           /\ n.id = e.src /\ Label(e.src) = "Switch" /\ e.handle = "case"
           /\ Label(e.dst) # "Placeholder" /\ n.conds \notin K
           => IF e.src = src /\ handle = "case" THEN e \in E /\ e.dst \notin removed
              ELSE e.dst \in n.to
  PROVE  Good(N2, E2, c, K)
  <1>10. Renewed(N, E, src, handle, removed, N2)
    BY SwitchForm DEF Typed
  <1>1. PICK f \in [N -> Nodes] :
          /\ N2 = {f[n] : n \in N}
          /\ \A n \in N :
               /\ f[n].id = n.id /\ f[n].parent = n.parent /\ f[n].conds = n.conds
               /\ \/ Label(src) # "Switch" \/ handle # "case"
                  \/ \A s \in N : s.id = src => s.conds # n.conds
                  => f[n] = n
               /\ Label(src) = "Switch" /\ n.id = src /\ handle = "case" =>
                    f[n].to = {e.dst : e \in {x \in E : x.src = src /\ x.handle = handle
                                                     /\ Label(x.dst) # "Placeholder"}} \ removed
    BY <1>10 DEF Renewed
  <1>2. /\ N2 \in SUBSET Nodes /\ Ids(N2) = Ids(N)
        /\ \A m \in N2 : \E n \in N : m = f[n] /\ m.id = n.id /\ m.parent = n.parent /\ m.conds = n.conds
    BY <1>1 DEF Ids
  <1>3. Typed(N2, E2, c)
    BY <1>2 DEF Typed
  \* Only a Switch has conditions.
  <1>4. \A n \in N : Label(n.id) # "Switch" => f[n] = n
    <2> SUFFICES ASSUME NEW n \in N, Label(n.id) # "Switch" PROVE f[n] = n
      OBVIOUS
    <2>1. n.conds = 0 /\ \A s \in N : Label(s.id) = "Switch" => s.conds # 0
      BY DEF Shares
    <2>2. Label(src) # "Switch" \/ \A s \in N : s.id = src => s.conds # n.conds
      BY <2>1
    <2> QED BY <1>1, <2>2
  <1>5. Numbered(N2, c)
    <2>1. \A n \in N2 : n.id[2] <= c
      BY <1>2 DEF Numbered
    <2>2. ASSUME NEW n \in N2, n.id[2] = 0
          PROVE  n = Node(Begin, None) \/ \E k \in Groups, j \in 1..c : n = Node(StartId(k), <<k, j>>)
      <3>1. PICK m \in N : n.id = m.id /\ n = f[m]
        BY <1>2
      <3>2. m = Node(Begin, None) \/ \E k \in Groups, j \in 1..c : m = Node(StartId(k), <<k, j>>)
        BY <2>2, <3>1 DEF Numbered
      <3>3. Label(m.id) # "Switch"
        BY <3>2 DEF Node, Label, Begin, StartId, StartOf
      <3> QED BY <1>4, <3>1, <3>2, <3>3
    <2>3. ASSUME NEW m \in N2, NEW n \in N2, m.id[2] = n.id[2], m.id[2] # 0 PROVE m = n
      BY <1>2, <2>3 DEF Numbered
    <2> QED BY <2>1, <2>2, <2>3 DEF Numbered
  <1>6. Linked(N2, E2) /\ OneTool(N2, E2) /\ NoCycle(N2, E2)
    BY <1>2 DEF Linked, OneTool, NoCycle
  <1>7. Grouped(N2, E2)
    BY <1>2 DEF Grouped
  <1>8. Shares(N2, c, K)
    <2>1. \A n \in N2 : n.conds \in 0..c /\ (n.conds = 0 <=> Label(n.id) # "Switch")
      BY <1>2 DEF Shares
    <2>2. \A m, n \in N2 : m.conds = n.conds /\ m.conds # 0 /\ m.conds \notin K => m = n
      BY <1>2 DEF Shares
    <2> QED BY <2>1, <2>2 DEF Shares
  <1>9. Named(N2, E2, K)
    <2> SUFFICES ASSUME NEW e \in E2, NEW m \in N2, m.id = e.src, Label(e.src) = "Switch",
                        e.handle = "case", Label(e.dst) # "Placeholder", m.conds \notin K
                 PROVE  e.dst \in m.to
      BY DEF Named
    <2>1. PICK n \in N : m = f[n] /\ m.id = n.id /\ m.conds = n.conds
      BY <1>2
    <2>2. CASE e.src = src /\ handle = "case"
      <3>1. e \in E /\ e.dst \notin removed
        BY <2>1, <2>2
      <3>2. m.to = {x.dst : x \in {y \in E : y.src = src /\ y.handle = handle
                                          /\ Label(y.dst) # "Placeholder"}} \ removed
        BY <1>1, <2>1, <2>2
      <3> QED BY <2>2, <3>1, <3>2
    <2>3. CASE ~(e.src = src /\ handle = "case")
      <3>1. e.dst \in n.to
        BY <2>1, <2>3
      <3>2. n.conds # 0 /\ n.conds \notin K
        BY <2>1 DEF Shares
      <3>3. handle # "case" \/ \A s \in N : s.id = src => s.conds # n.conds
        BY <2>1, <2>3, <3>2 DEF Shares
      <3> QED BY <1>1, <2>1, <3>1, <3>3
    <2> QED BY <2>2, <2>3
  <1> QED BY <1>3, <1>5, <1>6, <1>7, <1>8, <1>9 DEF Good

\* What an edge has to satisfy to be added: its target exists and is no start
\* node, it stays in its group, and bottom and tool edges lead to a node that
\* nothing else leads to.
Admissible(N, E, c, e) ==
  /\ e \in Edges /\ e.src[2] <= c
  /\ e.dst \in Ids(N) /\ e.dst[2] \in 1..c
  /\ Label(e.dst) \notin Starts \cup {"Begin"}
  /\ \A d \in E : d.handle = "bottom" => d.dst # e.dst
  /\ e.handle = "bottom" =>
       /\ Label(e.src) = "Agent" /\ Label(e.dst) = "Agent"
       /\ \A d \in E : d.dst # e.dst
  /\ e.handle = "tool" =>
       /\ Label(e.src) = "Agent" /\ Label(e.dst) = "Tool"
       /\ \A d \in E : d.handle = "tool" /\ d.src = e.src => d.dst \notin Ids(N)
  /\ Label(e.src) \notin Starts =>
       \A m, n \in N : m.id = e.src /\ n.id = e.dst => m.parent = n.parent
  /\ NoCycle(N, E \cup {e})

\* addEdge of the store.
LEMMA GoodEdge ==
  ASSUME NEW N, NEW E, NEW c, NEW K, Good(N, E, c, K), NEW e, Admissible(N, E, c, e), NEW N2,
         N2 = UpdateSwitchFormData(N, E \cup {e}, e.src, e.handle, {})
  PROVE  Good(N2, E \cup {e}, c, K)
  <1> DEFINE E2 == E \cup {e}
  <1>1. Typed(N, E2, c) /\ E2 \in SUBSET Edges
    BY DEF Good, Typed, Admissible
  <1>2. Wired(E2, c)
    <2>1. \A x \in E2 : /\ x.src[2] <= c /\ x.dst[2] \in 1..c
                        /\ Label(x.dst) \notin Starts \cup {"Begin"}
                        /\ x.handle = "bottom" => Label(x.src) = "Agent" /\ Label(x.dst) = "Agent"
                        /\ x.handle = "tool" => Label(x.src) = "Agent" /\ Label(x.dst) = "Tool"
      BY DEF Good, Wired, Admissible
    <2>2. \A d, x \in E2 : d.handle = "bottom" /\ x.dst = d.dst => x = d
      BY DEF Good, Wired, Admissible
    <2> HIDE DEF E2
    <2> QED BY <2>1, <2>2 DEF Wired
  <1>3. Linked(N, E2)
    BY DEF Good, Linked, Admissible
  <1>4. Grouped(N, E2)
    BY DEF Good, Grouped, Admissible
  <1>5. OneTool(N, E2)
    BY DEF Good, OneTool, Admissible
  <1>6. NoCycle(N, E2) /\ Numbered(N, c) /\ Shares(N, c, K)
    BY DEF Good, Admissible
  <1>7. \A x \in E2, n \in N :
           /\ n.id = x.src /\ Label(x.src) = "Switch" /\ x.handle = "case"
           /\ Label(x.dst) # "Placeholder" /\ n.conds \notin K
           => IF x.src = e.src /\ e.handle = "case" THEN x \in E2 /\ x.dst \notin {}
              ELSE x.dst \in n.to
    BY DEF Good, Named
  <1> HIDE DEF E2
  <1>8. N2 = UpdateSwitchFormData(N, E2, e.src, e.handle, {})
    BY DEF E2
  <1>9. Good(N2, E2, c, K)
    BY <1>1, <1>2, <1>3, <1>4, <1>5, <1>6, <1>7, <1>8, GoodForm
  <1> QED BY <1>9 DEF E2

\* An edge into a node without edges closes no cycle.
LEMMA FreshTarget ==
  ASSUME NEW N, NEW E, NoCycle(N, E), NEW e, e.src # e.dst, \A d \in E : d.src # e.dst
  PROVE  NoCycle(N, E \cup {e})
  <1> SUFFICES ASSUME NEW S \in SUBSET Ids(N), S # {}
               PROVE  \E v \in S : \A d \in E \cup {e} : d.src = v => d.dst \notin S
    BY DEF NoCycle
  <1>1. CASE e.dst \in S
    BY <1>1
  <1>2. CASE e.dst \notin S
    <2>1. PICK v \in S : \A d \in E : d.src = v => d.dst \notin S
      BY DEF NoCycle
    <2> QED BY <1>2, <2>1
  <1> QED BY <1>1, <1>2
\* A new node, with the start node of a group: addNode, addGroupNode.
LEMMA GoodNode ==
  ASSUME NEW N, NEW E, NEW c, NEW K, Good(N, E, c, K), c < MaxId,
         NEW label \in AllLabels, NEW P \in AnyId \cup {None}, NEW S,
         S = {} \/ (label \in Groups /\ S = {Node(StartId(label), <<label, c + 1>>)})
  PROVE  Good(N \cup {Node(<<label, c + 1>>, P)} \cup S, E, c + 1, K)
  <1> USE BoundsAssumption
  <1> DEFINE n == Node(<<label, c + 1>>, P)
             M == {n}
  <1>1. c \in Nat /\ c + 1 \in 0..MaxId /\ c <= c + 1
    BY DEF Good, Typed
  <1>2. /\ n \in Nodes /\ n.id[2] = c + 1
        /\ n.conds \in {0, c + 1} /\ (n.conds = 0 <=> Label(n.id) # "Switch")
    BY <1>1 DEF Node, Nodes, AnyId, Label
  <1> HIDE DEF n
  <1>3. /\ M \in SUBSET Nodes
        /\ \A m \in M : m.id[2] \in (c + 1)..(c + 1)
        /\ \A m, x \in M : m.id[2] = x.id[2] => m = x
        /\ \A m \in M : m.conds \in 0..(c + 1) /\ (m.conds = 0 <=> Label(m.id) # "Switch")
    BY <1>1, <1>2
  <1>7. K \in SUBSET (1..(c + 1)) /\ K \subseteq K
    BY <1>1 DEF Good, Shares
  <1>8. \A m \in M, x \in N \cup M : m.conds = x.conds /\ m.conds # 0 /\ m.conds \notin K => m = x
    <2>1. \A x \in N : x.conds \in 0..c
      BY DEF Good, Shares
    <2> QED BY <1>1, <1>2, <2>1
  <1> HIDE DEF M
  <1>4. Good(N \cup M, E, c + 1, K)
    BY <1>1, <1>3, <1>7, <1>8, GoodAdd
  <1>5. CASE S = {}
    BY <1>4, <1>5 DEF M, n
  <1>6. CASE label \in Groups /\ S = {Node(StartId(label), <<label, c + 1>>)}
    <2>1. c + 1 \in 1..(c + 1)
      BY <1>1
    <2>2. Good((N \cup M) \cup {Node(StartId(label), <<label, c + 1>>)}, E, c + 1, K)
      BY <1>4, <1>6, <2>1, GoodStart
    <2> QED BY <1>6, <2>2 DEF M, n
  <1> QED BY <1>5, <1>6

\* ... connected to the node u, whose parent it has.
LEMMA GoodGrow ==
  ASSUME NEW N, NEW E, NEW c, NEW K, Good(N, E, c, K), c < MaxId,
         NEW label \in AllLabels, label \notin Starts \cup {"Begin"},
         NEW P \in AnyId \cup {None}, NEW S,
         S = {} \/ (label \in Groups /\ S = {Node(StartId(label), <<label, c + 1>>)}),
         NEW u \in AnyId, u[2] <= c,
         Label(u) \notin Starts => \A m \in N : m.id = u => m.parent = P,
         NEW handle \in {"start", "exception", "case", "bottom", "tool"},
         handle = "bottom" => Label(u) = "Agent" /\ label = "Agent",
         handle = "tool" => /\ Label(u) = "Agent" /\ label = "Tool"
                            /\ \A d \in E : d.handle = "tool" /\ d.src = u => d.dst \notin Ids(N),
         NEW x, x = <<label, c + 1>>,
         NEW N2, N2 = UpdateSwitchFormData(N \cup {Node(x, P)} \cup S, E \cup {Edge(u, handle, x)},
                                           u, handle, {})
  PROVE  Good(N2, E \cup {Edge(u, handle, x)}, c + 1, K)
  <1> USE BoundsAssumption
  <1> DEFINE N1 == N \cup {Node(x, P)} \cup S
             e == Edge(u, handle, x)
  <1>1. c \in Nat /\ c + 1 \in 0..MaxId
    BY DEF Good, Typed
  <1>2. Good(N1, E, c + 1, K)
    BY GoodNode
  <1>3. x \in AnyId /\ x[2] = c + 1 /\ Label(x) = label
    BY <1>1 DEF AnyId, Label
  <1>4. e \in Edges /\ e.src = u /\ e.handle = handle /\ e.dst = x
    BY <1>3 DEF Edge, Edges
  <1>5. \A d \in E : d.src[2] <= c /\ d.dst[2] \in 1..c /\ Label(d.dst) \notin Starts
    BY DEF Good, Wired
  <1>6. \A d \in E : d.src # x /\ d.dst # x
    <2>1. \A d \in E : d.src[2] \in Nat
      BY DEF Good, Typed, Edges, AnyId
    <2> QED BY <1>1, <1>3, <1>5, <2>1
  <1>7. \A s \in S : Label(s.id) \in Starts
    BY DEF Node, StartId, StartOf, Label, Starts
  <1>8. Node(x, P).id = x /\ Node(x, P).parent = P
    BY DEF Node
  <1>9. /\ x \in Ids(N1)
        /\ \A y \in Ids(N1) : y \in Ids(N) \/ y = x \/ Label(y) \in Starts
    BY <1>7, <1>8 DEF Ids
  <1>10. \A n \in N : n.id # x
    <2>1. \A n \in N : n.id[2] <= c /\ n.id[2] \in Nat
      BY DEF Good, Numbered, Typed, Nodes, AnyId
    <2> QED BY <1>1, <1>3, <2>1
  <1>11. ASSUME NEW m \in N1, NEW n \in N1, Label(u) \notin Starts, m.id = u, n.id = x
         PROVE  m.parent = n.parent
    <2>1. u # x
      BY <1>1, <1>3 DEF AnyId
    <2>2. m \in N
      BY <1>7, <1>8, <1>11, <2>1
    <2>3. n = Node(x, P)
      BY <1>3, <1>7, <1>10, <1>11
    <2> QED BY <1>8, <1>11, <2>2, <2>3
  <1>12. NoCycle(N1, E \cup {e})
    <2>1. e.src # e.dst
      BY <1>1, <1>3, <1>4 DEF AnyId
    <2>2. NoCycle(N1, E)
      BY <1>2 DEF Good
    <2> HIDE DEF N1, e
    <2> QED BY <1>4, <1>6, <2>1, <2>2, FreshTarget
  <1>13. u[2] <= c + 1 /\ x[2] \in 1..(c + 1)
    BY <1>1, <1>3 DEF AnyId
  <1> HIDE DEF N1, e
  <1>14. handle = "tool" => \A d \in E : d.handle = "tool" /\ d.src = u => d.dst \notin Ids(N1)
    BY <1>5, <1>6, <1>9
  <1>15. Admissible(N1, E, c + 1, e)
    BY <1>3, <1>4, <1>6, <1>9, <1>11, <1>12, <1>13, <1>14 DEF Admissible
  <1>16. N2 = UpdateSwitchFormData(N1, E \cup {e}, e.src, e.handle, {})
    BY <1>4 DEF N1, e
  <1>17. Good(N2, E \cup {e}, c + 1, K)
    BY <1>2, <1>15, <1>16, GoodEdge
  <1> QED BY <1>17 DEF e

-----------------------------------------------------------------------------
(* The nodes of the canvas.                                                *)

\* Two elements make a finite set.
LEMMA PairFinite ==
  ASSUME NEW x, NEW y
  PROVE  IsFiniteSet({x, y})
  <1>1. IsFiniteSet({x}) /\ IsFiniteSet({y})
    BY FS_Singleton
  <1>2. IsFiniteSet({x} \cup {y})
    BY <1>1, FS_Union
  <1>3. {x} \cup {y} = {x, y}
    OBVIOUS
  <1> QED BY <1>2, <1>3

\* Ids, and with them nodes and edges, are finitely many.
LEMMA IdsFinite == IsFiniteSet(AnyId)
  <1>1. IsFiniteSet(AllLabels)
    <2> DEFINE A == {"Begin", "Code"}
               B == {"Switch", "Agent"}
               C == {"Tool", "Placeholder"}
               D == {"", "Begin"}
    <2>1. IsFiniteSet(Groups) /\ IsFiniteSet(Starts)
      BY PairFinite DEF Groups, Starts
    <2>2. IsFiniteSet(A) /\ IsFiniteSet(B) /\ IsFiniteSet(C) /\ IsFiniteSet(D)
      BY PairFinite
    <2>3. AllLabels = (((((Groups \cup Starts) \cup A) \cup B) \cup C) \cup D)
      BY DEF AllLabels
    <2> HIDE DEF A, B, C, D
    <2>4. IsFiniteSet(Groups \cup Starts)
      BY <2>1, FS_Union
    <2>5. IsFiniteSet((Groups \cup Starts) \cup A)
      BY <2>2, <2>4, FS_Union
    <2>6. IsFiniteSet(((Groups \cup Starts) \cup A) \cup B)
      BY <2>2, <2>5, FS_Union
    <2>7. IsFiniteSet((((Groups \cup Starts) \cup A) \cup B) \cup C)
      BY <2>2, <2>6, FS_Union
    <2>8. IsFiniteSet(((((Groups \cup Starts) \cup A) \cup B) \cup C) \cup D)
      BY <2>2, <2>7, FS_Union
    <2> QED BY <2>3, <2>8
  <1>2. IsFiniteSet(0..MaxId)
    BY BoundsAssumption, FS_Interval
  <1> QED BY <1>1, <1>2, FS_Product DEF AnyId

\* A canvas has finitely many nodes and edges.
LEMMA GraphFinite ==
  ASSUME NEW N, NEW E, NEW c, Typed(N, E, c)
  PROVE  IsFiniteSet(N) /\ IsFiniteSet(E)
  <1> DEFINE Q == AnyId \cup {None}
             L == (0..MaxId) \X (SUBSET AnyId)
             R == Q \X L
             H == {"start", "exception", "case", "bottom", "tool"}
             V == H \X AnyId
  <1>1. IsFiniteSet(Nodes)
    <2>1. IsFiniteSet({None})
      BY FS_Singleton
    <2>2. IsFiniteSet(Q)
      BY <2>1, IdsFinite, FS_Union
    <2>3. IsFiniteSet(SUBSET AnyId)
      BY IdsFinite, FS_SUBSET
    <2>9. IsFiniteSet(0..MaxId)
      BY BoundsAssumption, FS_Interval
    <2>10. IsFiniteSet(L)
      BY <2>3, <2>9, FS_Product
    <2>4. IsFiniteSet(R)
      BY <2>2, <2>10, FS_Product
    <2>5. IsFiniteSet(AnyId \X R)
      BY <2>4, IdsFinite, FS_Product
    <2> DEFINE f == [t \in AnyId \X R |-> [id |-> t[1], parent |-> t[2][1],
                                          conds |-> t[2][2][1], to |-> t[2][2][2]]]
    <2>6. f \in [AnyId \X R -> Nodes]
      BY DEF Nodes
    <2>7. \A n \in Nodes : \E t \in AnyId \X R : f[t] = n
      <3> SUFFICES ASSUME NEW n \in Nodes PROVE \E t \in AnyId \X R : f[t] = n
        OBVIOUS
      <3>1. <<n.id, <<n.parent, <<n.conds, n.to>>>>>> \in AnyId \X R
        BY DEF Nodes
      <3>2. f[<<n.id, <<n.parent, <<n.conds, n.to>>>>>>] = n
        BY <3>1 DEF Nodes
      <3> QED BY <3>1, <3>2
    <2> HIDE DEF f
    <2>8. f \in Surjection(AnyId \X R, Nodes)
      BY <2>6, <2>7 DEF Surjection
    <2> QED BY <2>5, <2>8, FS_Surjection
  <1>2. IsFiniteSet(Edges)
    <2>1. IsFiniteSet(H)
      <3>1. IsFiniteSet({"start", "exception"}) /\ IsFiniteSet({"case", "bottom"})
            /\ IsFiniteSet({"tool", "case"})
        BY PairFinite
      <3>2. IsFiniteSet({"start", "exception"} \cup {"case", "bottom"})
        BY <3>1, FS_Union
      <3>3. IsFiniteSet(({"start", "exception"} \cup {"case", "bottom"}) \cup {"tool", "case"})
        BY <3>1, <3>2, FS_Union
      <3>4. H = ({"start", "exception"} \cup {"case", "bottom"}) \cup {"tool", "case"}
        OBVIOUS
      <3> QED BY <3>3, <3>4
    <2> HIDE DEF H
    <2>2. IsFiniteSet(V)
      BY <2>1, IdsFinite, FS_Product
    <2>3. IsFiniteSet(AnyId \X V)
      BY <2>2, IdsFinite, FS_Product
    <2> DEFINE f == [t \in AnyId \X V |-> [src |-> t[1], handle |-> t[2][1], dst |-> t[2][2]]]
    <2>4. f \in [AnyId \X V -> Edges]
      BY DEF Edges, H
    <2>5. \A n \in Edges : \E t \in AnyId \X V : f[t] = n
      <3> SUFFICES ASSUME NEW n \in Edges PROVE \E t \in AnyId \X V : f[t] = n
        OBVIOUS
      <3>1. <<n.src, <<n.handle, n.dst>>>> \in AnyId \X V
        BY DEF Edges, H
      <3>2. f[<<n.src, <<n.handle, n.dst>>>>] = n
        BY <3>1 DEF Edges
      <3> QED BY <3>1, <3>2
    <2> HIDE DEF f
    <2>6. f \in Surjection(AnyId \X V, Edges)
      BY <2>4, <2>5 DEF Surjection
    <2> QED BY <2>3, <2>6, FS_Surjection
  <1> QED BY <1>1, <1>2, FS_Subset DEF Typed

\* An id is that of one node, the start nodes' apart.
LEMMA OneNode ==
  ASSUME NEW N, NEW c, Numbered(N, c), NEW m \in N, NEW n \in N, m.id = n.id,
         Label(m.id) \notin Starts
  PROVE  m = n
  <1>1. CASE m.id[2] # 0
    BY <1>1 DEF Numbered
  <1>2. CASE m.id[2] = 0
    <2>1. \A k : Label(StartId(k)) \in Starts
      BY DEF StartId, StartOf, Label, Starts
    <2>2. \A k, p : Node(StartId(k), p).id = StartId(k)
      BY DEF Node
    <2>3. ASSUME NEW x \in N, x.id = m.id PROVE x = Node(Begin, None)
      <3>1. x = Node(Begin, None) \/ \E k \in Groups, j \in 1..c : x = Node(StartId(k), <<k, j>>)
        BY <1>2, <2>3 DEF Numbered
      <3> QED BY <2>1, <2>2, <2>3, <3>1
    <2> QED BY <2>3
  <1> QED BY <1>1, <1>2

\* getNode finds a node, and the parent it gives is the one of every node with
\* that id, the start nodes' apart.
LEMMA Found ==
  ASSUME Good(nodes, edges, created, shared), NEW id \in Ids(nodes)
  PROVE  /\ GetNode(id) \in nodes /\ GetNode(id).id = id
         /\ ParentOf(id) = GetNode(id).parent
         /\ ParentOf(id) \in AnyId \cup {None}
         /\ Label(id) \notin Starts => \A n \in nodes : n.id = id => n.parent = ParentOf(id)
         /\ id \in AnyId /\ id[2] <= created
  <1> USE BoundsAssumption
  <1> DEFINE T == {n.parent[2] : n \in {m \in nodes : m.id = id}}
  <1>1. nodes \subseteq Nodes
    BY DEF Good, Typed
  <1>2. \A n \in nodes : n.parent[2] \in Nat /\ n.parent \in AnyId \cup {None} /\ n.id \in AnyId
    BY <1>1 DEF Nodes, AnyId, None
  <1>3. T \subseteq Nat /\ T # {}
    BY <1>2 DEF Ids
  <1>4. \E n \in nodes : n.id = id /\ \A m \in nodes : m.id = id => n.parent[2] <= m.parent[2]
    <2>1. PICK x \in T : \A y \in T : x <= y
      <3> HIDE DEF T
      <3> QED BY <1>3, LeastNatural
    <2> QED BY <2>1
  <1>5. GetNode(id) \in nodes /\ GetNode(id).id = id
    BY <1>4 DEF GetNode
  <1>6. ParentOf(id) = GetNode(id).parent
    BY DEF ParentOf, Live
  <1>7. Label(id) \notin Starts => \A n \in nodes : n.id = id => n = GetNode(id)
    BY <1>5, OneNode DEF Good
  <1>8. id \in AnyId /\ id[2] <= created
    BY <1>2, <1>5 DEF Good, Numbered
  <1> QED BY <1>2, <1>5, <1>6, <1>7, <1>8
-----------------------------------------------------------------------------
(* The steps.                                                              *)

\* The handles from which an edge can be drawn.
LEMMA Handles ==
  ASSUME NEW u, NEW handle \in SourceHandles(u)
  PROVE  handle \in {"start", "exception", "case"}
  BY DEF SourceHandles

\* Connecting: isValidConnection keeps the new edge in its group, and the search
\* of hasCycle, which is complete, keeps it from closing a cycle.
LEMMA StepConnect ==
  ASSUME IInv, NEW u \in Ids(nodes), NEW handle \in SourceHandles(u), NEW v \in Ids(nodes),
         OnConnect(u, handle, v)
  PROVE  IInv'
  <1> DEFINE e == Edge(u, handle, v)
  <1>1. Good(nodes, edges, created, shared)
    BY DEF IInv
  <1>2. /\ u \in AnyId /\ u[2] <= created
        /\ Label(u) \notin Starts => \A n \in nodes : n.id = u => n.parent = ParentOf(u)
    BY <1>1, Found
  <1>3. /\ v \in AnyId /\ v[2] <= created
        /\ Label(v) \notin Starts => \A n \in nodes : n.id = v => n.parent = ParentOf(v)
    BY <1>1, Found
  <1>4. /\ Label(v) \notin Starts \cup {"Begin"}
        /\ \A d \in edges : d.handle = "bottom" => d.dst # v
        /\ u # v /\ ParentOf(u) = ParentOf(v) /\ u \notin Reached(v)
    BY DEF OnConnect, TakesConnections, IsBottomSubAgent, IsValidConnection, IsSameNodeChild
  <1>5. handle \in {"start", "exception", "case"}
    BY Handles
  <1>6. e \in Edges /\ e.src = u /\ e.handle = handle /\ e.dst = v
    BY <1>2, <1>3, <1>5 DEF Edge, Edges
  <1>7. v[2] \in 1..created
    <2>1. v[2] # 0
      <3> SUFFICES ASSUME v[2] = 0 PROVE FALSE
        OBVIOUS
      <3>1. PICK n \in nodes : n.id = v
        BY DEF Ids
      <3>2. n = Node(Begin, None) \/ \E k \in Groups, j \in 1..created : n = Node(StartId(k), <<k, j>>)
        BY <1>1, <3>1 DEF Good, Numbered
      <3>3. n.id = Begin \/ \E k \in Groups : n.id = StartId(k)
        BY <3>2 DEF Node
      <3>4. Label(Begin) = "Begin" /\ \A k : Label(StartId(k)) \in Starts
        BY DEF Label, Begin, StartId, StartOf, Starts
      <3> QED BY <1>4, <3>1, <3>3, <3>4
    <2>2. v[2] \in Nat /\ created \in Nat
      BY <1>1, <1>3, BoundsAssumption DEF AnyId, Good, Typed
    <2> QED BY <1>3, <2>1, <2>2
  <1>8. NoCycle(nodes, edges \cup {e})
    <2>1. IsFiniteSet(nodes)
      BY <1>1, GraphFinite DEF Good
    <2>2. v \in Reached(v) /\ Outgoers(Reached(v)) \subseteq Reached(v)
      BY <2>1, ReachedClosed
    <2> SUFFICES ASSUME NEW S \in SUBSET Ids(nodes), S # {},
                        \A w \in S : \E d \in edges \cup {e} : d.src = w /\ d.dst \in S
                 PROVE  FALSE
      BY DEF NoCycle
    <2>3. \A w \in S : w # u => \E d \in edges : d.src = w /\ d.dst \in S
      BY <1>6
    <2>4. PICK w \in S : \A d \in edges : d.src = w => d.dst \notin S
      BY <1>1 DEF Good, NoCycle
    <2>5. w = u /\ v \in S
      BY <1>6, <2>3, <2>4
    <2> DEFINE R == S \cap Reached(v)
    <2>6. R \in SUBSET Ids(nodes) /\ R # {}
      BY <2>2, <2>5
    <2>7. PICK x \in R : \A d \in edges : d.src = x => d.dst \notin R
      BY <1>1, <2>6 DEF Good, NoCycle
    <2>8. PICK d \in edges : d.src = x /\ d.dst \in S
      BY <1>4, <2>3
    <2>9. d.dst \in Outgoers(Reached(v))
      BY <2>8 DEF Outgoers, Live
    <2> QED BY <2>2, <2>7, <2>8, <2>9
  <1>9. Admissible(nodes, edges, created, e)
    <2> HIDE DEF e
    <2> QED BY <1>2, <1>3, <1>4, <1>5, <1>6, <1>7, <1>8 DEF Admissible
  <1>10. /\ nodes' = UpdateSwitchFormData(nodes, edges \cup {e}, e.src, e.handle, {})
         /\ edges' = edges \cup {e}
         /\ created' = created /\ placeholder' = placeholder /\ shared' = shared
    BY DEF OnConnect, StoreEdges
  <1> HIDE DEF e
  <1>11. Good(nodes', edges', created', shared)
    BY <1>1, <1>9, <1>10, GoodEdge
  <1> QED BY <1>10, <1>11 DEF IInv, PlaceholderInv

\* A new node connected to a node that exists.
LEMMA StepGrow ==
  ASSUME IInv, NEW u \in Ids(nodes), NEW handle \in {"start", "exception", "case", "bottom", "tool"},
         created < MaxId,
         NEW label \in AllLabels, label \notin Starts \cup {"Begin"},
         NEW S, S = {} \/ (label \in Groups /\ S = {Node(StartId(label), Fresh(label))}),
         handle = "bottom" => Label(u) = "Agent" /\ label = "Agent",
         handle = "tool" => /\ Label(u) = "Agent" /\ label = "Tool"
                            /\ \A d \in edges : d.handle = "tool" /\ d.src = u => d.dst \notin Ids(nodes),
         StoreEdges(nodes \cup {Node(Fresh(label), ParentOf(u))} \cup S, edges,
                    Edge(u, handle, Fresh(label))),
         created' = created + 1, placeholder' = placeholder, shared' = shared
  PROVE  IInv'
  <1>1. Good(nodes, edges, created, shared)
    BY DEF IInv
  <1>2. /\ u \in AnyId /\ u[2] <= created /\ ParentOf(u) \in AnyId \cup {None}
        /\ Label(u) \notin Starts => \A n \in nodes : n.id = u => n.parent = ParentOf(u)
    BY <1>1, Found
  <1>3. PICK x : x = <<label, created + 1>>
    OBVIOUS
  <1>4. Fresh(label) = x
    BY <1>3 DEF Fresh
  <1>5. /\ nodes' = UpdateSwitchFormData(nodes \cup {Node(x, ParentOf(u))} \cup S,
                                        edges \cup {Edge(u, handle, x)}, u, handle, {})
        /\ edges' = edges \cup {Edge(u, handle, x)}
    BY <1>4 DEF StoreEdges, Edge
  <1>6. S = {} \/ (label \in Groups /\ S = {Node(StartId(label), <<label, created + 1>>)})
    BY DEF Fresh
  <1>7. Good(nodes', edges \cup {Edge(u, handle, x)}, created + 1, shared)
    BY <1>1, <1>2, <1>3, <1>5, <1>6, GoodGrow, ZenonT(30)
  <1> QED BY <1>5, <1>7 DEF IInv, PlaceholderInv

\* What a user can add is no start node, no Begin and no placeholder.
LEMMA KindLabels ==
  ASSUME NEW kind \in Kinds \ {"Tool"}
  PROVE  /\ kind \in AllLabels /\ kind \notin Starts \cup {"Begin"}
         /\ kind # "Placeholder"
  BY KindsAssumption DEF AllLabels, Starts, Groups

\* Adding a node behind the handle of another (addCanvasNode).
LEMMA StepAddNext ==
  ASSUME IInv, NEW u \in Ids(nodes), NEW handle \in SourceHandles(u),
         NEW kind \in Kinds \ {"Tool"}, AddNext(u, handle, kind)
  PROVE  IInv'
  <1>1. kind \in AllLabels /\ kind \notin Starts \cup {"Begin"}
    BY KindLabels
  <1>2. handle \in {"start", "exception", "case"}
    BY Handles
  <1>3. created < MaxId /\ created' = created + 1 /\ placeholder' = placeholder /\ shared' = shared
    BY DEF AddNext
  <1>4. CASE kind \in Groups
    <2> DEFINE S == {Node(StartId(kind), Fresh(kind))}
    <2>1. u # None
      <3>1. u \in AnyId
        BY Found DEF IInv
      <3>2. "none" \notin AllLabels
        BY DEF AllLabels, Groups, Starts
      <3> QED BY <3>1, <3>2 DEF AnyId, None
    <2>2. StoreEdges(nodes \cup {Node(Fresh(kind), ParentOf(u)), Node(StartId(kind), Fresh(kind))},
                     edges, Edge(u, "start", Fresh(kind)))
      BY <1>4, <2>1 DEF AddNext, AddGroupNode
    <2>3. nodes \cup {Node(Fresh(kind), ParentOf(u)), Node(StartId(kind), Fresh(kind))}
            = nodes \cup {Node(Fresh(kind), ParentOf(u))} \cup S
      OBVIOUS
    <2>4. StoreEdges(nodes \cup {Node(Fresh(kind), ParentOf(u))} \cup S,
                     edges, Edge(u, "start", Fresh(kind)))
      BY <2>2, <2>3, Zenon
    <2>5. kind \in Groups /\ S = {Node(StartId(kind), Fresh(kind))}
      BY <1>4
    <2> HIDE DEF S
    <2> QED BY <1>1, <1>3, <2>4, <2>5, StepGrow
  <1>5. CASE kind \notin Groups
    <2>1. StoreEdges(nodes \cup {Node(Fresh(kind), ParentOf(u))}, edges, Edge(u, handle, Fresh(kind)))
      BY <1>5 DEF AddNext
    <2>2. nodes \cup {Node(Fresh(kind), ParentOf(u))}
            = nodes \cup {Node(Fresh(kind), ParentOf(u))} \cup {}
      OBVIOUS
    <2>3. StoreEdges(nodes \cup {Node(Fresh(kind), ParentOf(u))} \cup {}, edges,
                     Edge(u, handle, Fresh(kind)))
      BY <2>1, <2>2, Zenon
    <2> QED BY <1>1, <1>2, <1>3, <2>3, StepGrow
  <1> QED BY <1>4, <1>5

\* Adding a sub-agent or the tool node of an agent.
LEMMA StepAddAgentOrTool ==
  ASSUME IInv, NEW u \in Ids(nodes), AddSubAgent(u) \/ AddToolNode(u)
  PROVE  IInv'
  <1>1. /\ created < MaxId /\ created' = created + 1 /\ placeholder' = placeholder
        /\ shared' = shared /\ Label(u) = "Agent"
    BY DEF AddSubAgent, AddToolNode
  <1>2. /\ "Agent" \in AllLabels /\ "Agent" \notin Starts \cup {"Begin"}
        /\ "Tool" \in AllLabels /\ "Tool" \notin Starts \cup {"Begin"}
    BY DEF AllLabels, Starts
  <1>3. CASE AddSubAgent(u)
    <2>1. StoreEdges(nodes \cup {Node(Fresh("Agent"), ParentOf(u))}, edges,
                     Edge(u, "bottom", Fresh("Agent")))
      BY <1>3 DEF AddSubAgent
    <2>2. nodes \cup {Node(Fresh("Agent"), ParentOf(u))}
            = nodes \cup {Node(Fresh("Agent"), ParentOf(u))} \cup {}
      OBVIOUS
    <2>3. StoreEdges(nodes \cup {Node(Fresh("Agent"), ParentOf(u))} \cup {}, edges,
                     Edge(u, "bottom", Fresh("Agent")))
      BY <2>1, <2>2, Zenon
    <2> QED BY <1>1, <1>2, <2>3, StepGrow
  <1>4. CASE AddToolNode(u)
    <2>1. StoreEdges(nodes \cup {Node(Fresh("Tool"), ParentOf(u))}, edges,
                     Edge(u, "tool", Fresh("Tool")))
      BY <1>4 DEF AddToolNode
    <2>2. nodes \cup {Node(Fresh("Tool"), ParentOf(u))}
            = nodes \cup {Node(Fresh("Tool"), ParentOf(u))} \cup {}
      OBVIOUS
    <2>3. StoreEdges(nodes \cup {Node(Fresh("Tool"), ParentOf(u))} \cup {}, edges,
                     Edge(u, "tool", Fresh("Tool")))
      BY <2>1, <2>2, Zenon
    <2>4. \A d \in edges : d.handle = "tool" /\ d.src = u => d.dst \notin Ids(nodes)
      BY <1>4 DEF AddToolNode, ToolsOf, Live
    <2> QED BY <1>1, <1>2, <2>3, <2>4, StepGrow
  <1> QED BY <1>3, <1>4

\* Removing nodes with all their edges.
LEMMA GoodDrop ==
  ASSUME NEW N, NEW E, NEW c, NEW K, Good(N, E, c, K), NEW gone, NEW N2, NEW E2,
         N2 = {n \in N : n.id \notin gone}, E2 = E \ Touching(E, gone)
  PROVE  Good(N2, E2, c, K)
  <1>1. \A x \in Ids(N) : x \notin Ids(N2) => x \in gone
    BY DEF Ids
  <1>2. Ids(N2) \subseteq Ids(N)
    BY DEF Ids
  <1>3. \A e \in E2 : e.dst \notin gone
    BY DEF Touching
  <1>4. Linked(N2, E2)
    BY <1>1, <1>2, <1>3 DEF Good, Linked
  <1> QED BY <1>4, GoodRemove

\* Dropping a connection on the pane: the old placeholder goes, a new one comes.
LEMMA StepDropOnPane ==
  ASSUME IInv, NEW u \in Ids(nodes), NEW handle \in SourceHandles(u), DropOnPane(u, handle)
  PROVE  IInv'
  <1> USE BoundsAssumption
  <1>1. Good(nodes, edges, created, shared) /\ created \in Nat
    BY DEF IInv, Good, Typed
  <1>2. handle \in {"start", "exception", "case"}
    BY Handles
  <1>3. /\ u \in AnyId /\ u[2] <= created /\ ParentOf(u) \in AnyId \cup {None}
        /\ Label(u) \notin Starts => \A n \in nodes : n.id = u => n.parent = ParentOf(u)
    BY <1>1, Found
  <1>4. PICK x : x = <<"Placeholder", created + 1>>
    OBVIOUS
  <1>5. PICK gone :
          /\ StoreEdges({n \in nodes : n.id \notin gone} \cup {Node(x, ParentOf(u))},
                        edges \ Touching(edges, gone), Edge(u, handle, x))
          /\ placeholder' = x /\ created < MaxId /\ created' = created + 1 /\ shared' = shared
    BY <1>4 DEF DropOnPane, Fresh
  <1>6. PICK N0, E0 : N0 = {n \in nodes : n.id \notin gone} /\ E0 = edges \ Touching(edges, gone)
    OBVIOUS
  <1>7. Good(N0, E0, created, shared)
    BY <1>1, <1>6, GoodDrop
  <1>8. /\ nodes' = UpdateSwitchFormData(N0 \cup {Node(x, ParentOf(u))}, E0 \cup {Edge(u, handle, x)},
                                        u, handle, {})
        /\ edges' = E0 \cup {Edge(u, handle, x)}
    BY <1>5, <1>6 DEF StoreEdges, Edge
  <1>9. N0 \cup {Node(x, ParentOf(u))} = N0 \cup {Node(x, ParentOf(u))} \cup {}
    OBVIOUS
  <1>10. nodes' = UpdateSwitchFormData(N0 \cup {Node(x, ParentOf(u))} \cup {},
                                       E0 \cup {Edge(u, handle, x)}, u, handle, {})
    BY <1>8, <1>9, Zenon
  <1>11. "Placeholder" \in AllLabels /\ "Placeholder" \notin Starts \cup {"Begin"}
    BY DEF AllLabels, Starts
  <1>12. Label(u) \notin Starts => \A n \in N0 : n.id = u => n.parent = ParentOf(u)
    BY <1>3, <1>6
  <1>13. Good(nodes', E0 \cup {Edge(u, handle, x)}, created + 1, shared)
    <2>1. PICK P, S, c, N2, label :
            P = ParentOf(u) /\ S = {} /\ c = created /\ N2 = nodes' /\ label = "Placeholder"
      OBVIOUS
    <2>2. /\ Good(N0, E0, c, shared) /\ c < MaxId /\ x = <<label, c + 1>>
          /\ label \in AllLabels /\ label \notin Starts \cup {"Begin"}
          /\ u \in AnyId /\ u[2] <= c /\ P \in AnyId \cup {None}
          /\ Label(u) \notin Starts => \A n \in N0 : n.id = u => n.parent = P
      BY <1>3, <1>4, <1>5, <1>7, <1>11, <1>12, <2>1
    <2>3. N2 = UpdateSwitchFormData(N0 \cup {Node(x, P)} \cup S, E0 \cup {Edge(u, handle, x)},
                                    u, handle, {})
      BY <1>10, <2>1
    <2>4. /\ handle \in {"start", "exception", "case", "bottom", "tool"}
          /\ handle # "bottom" /\ handle # "tool"
      BY <1>2
    <2>5. S = {} \/ (label \in Groups /\ S = {Node(StartId(label), <<label, c + 1>>)})
      BY <2>1
    <2>6. Good(N2, E0 \cup {Edge(u, handle, x)}, c + 1, shared)
      BY <2>2, <2>3, <2>4, <2>5, GoodGrow
    <2> QED BY <2>1, <2>6
  <1>14. placeholder' \in AnyId /\ Label(placeholder') = "Placeholder"
    BY <1>1, <1>4, <1>5, <1>11 DEF AnyId, Label
  <1> QED BY <1>5, <1>8, <1>13, <1>14 DEF IInv, PlaceholderInv

\* Dropping the placeholder, or the tool node of an agent.
LEMMA StepRemove ==
  ASSUME IInv, RemovePlaceholderNode \/ \E e \in edges : DeleteAgentToolNode(e)
  PROVE  IInv'
  <1>1. PICK x : /\ nodes' = {n \in nodes : n.id # x}
                 /\ edges' = edges \ Touching(edges, {x})
                 /\ created' = created /\ shared' = shared
                 /\ placeholder' = placeholder \/ placeholder' = None
    BY DEF RemovePlaceholderNode, WithoutNode, DeleteAgentToolNode
  <1>2. nodes' = {n \in nodes : n.id \notin {x}}
    BY <1>1
  <1>3. Good(nodes', edges', created, shared)
    BY <1>1, <1>2, GoodDrop DEF IInv
  <1> QED BY <1>1, <1>3 DEF IInv, PlaceholderInv
\* The operator picked in the menu takes the placeholder's place: its parent
\* and the source of one of its edges.
LEMMA StepPick ==
  ASSUME IInv, NEW kind \in Kinds \ {"Tool"}, PickOperator(kind)
  PROVE  IInv'
  <1> USE BoundsAssumption
  <1>1. Good(nodes, edges, created, shared) /\ created \in Nat
    BY DEF IInv, Good, Typed
  <1>2. kind \in AllLabels /\ kind \notin Starts \cup {"Begin"} /\ kind # "Placeholder"
    BY KindLabels
  <1>3. PICK x : x = <<kind, created + 1>>
    OBVIOUS
  <1>4. PICK S : S = IF kind \in Groups THEN {Node(StartId(kind), x)} ELSE {}
    OBVIOUS
  <1>5. PICK P : P = ParentOf(placeholder)
    OBVIOUS
  <1>6. PICK N0, E0 : /\ N0 = {n \in nodes : n.id \notin {placeholder}}
                      /\ E0 = edges \ Touching(edges, {placeholder})
    OBVIOUS
  <1>7. /\ placeholder \in AnyId /\ Label(placeholder) = "Placeholder"
        /\ placeholder' = None /\ created < MaxId /\ created' = created + 1 /\ shared' = shared
    BY DEF PickOperator, IInv, PlaceholderInv
  <1>8. Good(N0, E0, created, shared)
    BY <1>1, <1>6, GoodDrop
  <1>9. P \in AnyId \cup {None}
    <2>1. CASE placeholder \in Ids(nodes)
      BY <1>1, <1>5, <2>1, Found
    <2>2. CASE placeholder \notin Ids(nodes)
      BY <1>5, <2>2 DEF ParentOf, Live
    <2> QED BY <2>1, <2>2
  <1>10. S = {} \/ (kind \in Groups /\ S = {Node(StartId(kind), <<kind, created + 1>>)})
    BY <1>3, <1>4
  <1> DEFINE N == nodes \cup {Node(x, None)} \cup S
             moved == {IF n.id = x THEN [n EXCEPT !.parent = P] ELSE n : n \in N}
             N1 == N0 \cup {Node(x, P)} \cup S
  <1>11. WithoutNode(moved, placeholder) = N1
    <2>1. \A n \in nodes : n.id # x
      <3>1. \A n \in nodes : n.id[2] <= created /\ n.id[2] \in Nat
        BY <1>1 DEF Good, Numbered, Typed, Nodes, AnyId
      <3> QED BY <1>1, <1>3, <3>1
    <2>2. \A n \in S : n.id # x /\ n.id # placeholder
      <3>1. \A n \in S : n.id = StartId(kind)
        BY <1>4 DEF Node
      <3>2. Label(StartId(kind)) \in Starts
        BY DEF StartId, StartOf, Label, Starts
      <3>3. Label(x) = kind
        BY <1>3 DEF Label
      <3>4. "Placeholder" \notin Starts
        BY DEF Starts
      <3> QED BY <1>2, <1>7, <3>1, <3>2, <3>3, <3>4
    <2>3. Node(x, None).id = x /\ Node(x, P).id = x /\ [Node(x, None) EXCEPT !.parent = P] = Node(x, P)
      BY DEF Node
    <2>4. x # placeholder
      BY <1>2, <1>3, <1>7 DEF Label
    <2>5. moved = nodes \cup {Node(x, P)} \cup S
      BY <2>1, <2>2, <2>3
    <2> HIDE DEF moved
    <2> QED BY <1>6, <2>2, <2>3, <2>4, <2>5 DEF WithoutNode
  <1>12. OnNodeCreated(N, x)
    <2>1. OnNodeCreated(nodes \cup {Node(Fresh(kind), None)} \cup
                        (IF kind \in Groups THEN {Node(StartId(kind), Fresh(kind))} ELSE {}),
                        Fresh(kind))
      BY DEF PickOperator
    <2>2. Fresh(kind) = x
      BY <1>3 DEF Fresh
    <2> QED BY <1>4, <2>1, <2>2
  <1>13. \/ nodes' = N1 /\ edges' = E0
         \/ \E e \in edges : /\ e.dst = placeholder
                              /\ StoreEdges(N1, E0, Edge(e.src, e.handle, x))
    <2>1. moved = {IF n.id = x THEN [n EXCEPT !.parent = ParentOf(placeholder)] ELSE n : n \in N}
      BY <1>5
    <2> HIDE DEF N, N1, moved
    <2> QED BY <1>6, <1>11, <1>12, <2>1 DEF OnNodeCreated
  <1>14. CASE nodes' = N1 /\ edges' = E0
    <2>1. Good(N1, E0, created + 1, shared)
      BY <1>2, <1>3, <1>7, <1>8, <1>9, <1>10, GoodNode
    <2> HIDE DEF N1
    <2> QED BY <1>7, <1>14, <2>1 DEF IInv, PlaceholderInv
  <1>15. ASSUME NEW e \in edges, e.dst = placeholder, StoreEdges(N1, E0, Edge(e.src, e.handle, x))
         PROVE  IInv'
    <2>1. /\ e \in Edges /\ e.src \in AnyId /\ e.src[2] <= created
          /\ e.handle \in {"start", "exception", "case"}
      BY <1>1, <1>7, <1>15 DEF Good, Typed, Wired, Edges
    <2>2. Label(e.src) \notin Starts => \A m \in N0 : m.id = e.src => m.parent = P
      <3> SUFFICES ASSUME Label(e.src) \notin Starts, NEW m \in N0, m.id = e.src PROVE m.parent = P
        OBVIOUS
      <3>1. m \in nodes /\ e.src \in Ids(nodes)
        BY <1>6 DEF Ids
      <3>2. placeholder \in Ids(nodes)
        BY <1>1, <1>7, <1>15, <2>1, <3>1 DEF Good, Linked
      <3>3. "Placeholder" \notin Starts
        BY DEF Starts
      <3>4. PICK n \in nodes : n.id = placeholder /\ n.parent = P
        BY <1>1, <1>5, <3>2, Found
      <3> QED BY <1>1, <1>15, <3>1, <3>4 DEF Good, Grouped
    <2>3. PICK u, handle : u = e.src /\ handle = e.handle
      OBVIOUS
    <2>4. /\ nodes' = UpdateSwitchFormData(N1, E0 \cup {Edge(u, handle, x)}, u, handle, {})
          /\ edges' = E0 \cup {Edge(u, handle, x)}
      <3> HIDE DEF N1
      <3> QED BY <1>15, <2>3 DEF StoreEdges, Edge
    <2>5. /\ u \in AnyId /\ u[2] <= created
          /\ Label(u) \notin Starts => \A m \in N0 : m.id = u => m.parent = P
          /\ handle \in {"start", "exception", "case", "bottom", "tool"}
          /\ handle # "bottom" /\ handle # "tool"
      BY <2>1, <2>2, <2>3
    <2>6. Good(nodes', E0 \cup {Edge(u, handle, x)}, created + 1, shared)
      BY <1>2, <1>3, <1>7, <1>8, <1>9, <1>10, <2>4, <2>5, GoodGrow
    <2> QED BY <1>7, <2>4, <2>6 DEF IInv, PlaceholderInv
  <1> QED BY <1>13, <1>14, <1>15

\* The button of an edge: the form of a Switch forgets this target only.
LEMMA StepDeleteEdge ==
  ASSUME IInv, NEW e \in edges, DeleteEdgeById(e)
  PROVE  IInv'
  <1>1. Good(nodes, edges, created, shared)
    BY DEF IInv
  <1>2. PICK E2 : E2 = edges \ {e}
    OBVIOUS
  <1>3. Linked(nodes, E2) /\ E2 \in SUBSET edges /\ nodes \in SUBSET nodes
    BY <1>1, <1>2 DEF Good, Linked
  <1>4. Good(nodes, E2, created, shared)
    BY <1>1, <1>3, GoodRemove
  <1>5. edges \in SUBSET Edges /\ E2 \in SUBSET Edges
    BY <1>1, <1>2 DEF Good, Typed
  <1>6. \A x \in E2, n \in nodes :
           /\ n.id = x.src /\ Label(x.src) = "Switch" /\ x.handle = "case"
           /\ Label(x.dst) # "Placeholder" /\ n.conds \notin shared
           => IF x.src = e.src /\ e.handle = "case" THEN x \in edges /\ x.dst \notin {e.dst}
              ELSE x.dst \in n.to
    <2>1. \A x \in E2 : ~(x.src = e.src /\ x.handle = e.handle /\ x.dst = e.dst)
      BY <1>2, <1>5 DEF Edges
    <2> QED BY <1>1, <1>3, <2>1 DEF Good, Named
  <1>7. nodes' = UpdateSwitchFormData(nodes, edges, e.src, e.handle, {e.dst})
    BY DEF DeleteEdgeById
  <1>8. /\ Typed(nodes, E2, created) /\ Numbered(nodes, created) /\ Wired(E2, created)
        /\ Shares(nodes, created, shared)
        /\ Linked(nodes, E2) /\ Grouped(nodes, E2) /\ OneTool(nodes, E2) /\ NoCycle(nodes, E2)
    BY <1>4 DEF Good
  <1>9. Good(nodes', E2, created, shared)
    BY <1>5, <1>6, <1>7, <1>8, GoodForm
  <1> QED BY <1>2, <1>9 DEF DeleteEdgeById, IInv, PlaceholderInv

\* What leads to a sub-agent or tool found downstream leads to it as such.
LEMMA DownstreamApart ==
  ASSUME NEW c, NEW F \in SUBSET edges, Typed(nodes, edges, c), Wired(edges, c), NEW ids,
         NEW e \in edges, e.dst \in Downstream(F, ids)
  PROVE  e.handle = "bottom" \/ Label(e.dst) = "Tool"
  <1>1. IsFiniteSet(F)
    BY GraphFinite, FS_Subset
  <1>2. PICK d \in F : d.dst = e.dst /\ d.handle \in {"bottom", "tool"}
    BY <1>1, DownstreamEdges
  <1> QED BY <1>2 DEF Wired

\* Delete in the toolbar of a node: a group goes with its children, an agent with
\* its sub-agents and tools.
LEMMA StepToolbarDelete ==
  ASSUME IInv, NEW id \in Ids(nodes), ToolbarDelete(id)
  PROVE  IInv'
  <1>1. Good(nodes, edges, created, shared)
    BY DEF IInv
  <1>2. PICK gone : /\ gone = {id} \cup IF Label(id) = "Agent" THEN Downstream(edges, {id}) ELSE {}
                    /\ nodes' = {n \in nodes : n.id \notin gone /\ n.parent # id}
    BY DEF ToolbarDelete
  <1>3. /\ edges' = edges \ Touching(edges, {id}) /\ created' = created /\ placeholder' = placeholder
        /\ shared' = shared
    BY DEF ToolbarDelete
  <1>4. nodes' \in SUBSET nodes /\ edges' \in SUBSET edges
    BY <1>2, <1>3
  <1>5. Linked(nodes', edges')
    <2> SUFFICES ASSUME NEW e \in edges', e.src \in Ids(nodes'), Label(e.src) \notin Starts,
                        e.dst \notin Ids(nodes')
                 PROVE  e.handle = "bottom" \/ Label(e.dst) = "Tool"
      BY DEF Linked
    <2>1. e \in edges /\ e.dst # id
      BY <1>3 DEF Touching
    <2>2. PICK m \in nodes' : m.id = e.src
      BY DEF Ids
    <2>3. m \in nodes /\ e.src \in Ids(nodes) /\ m.parent # id
      BY <1>2, <2>2 DEF Ids
    <2>4. CASE e.dst \notin Ids(nodes)
      BY <1>1, <2>1, <2>3, <2>4 DEF Good, Linked
    <2>5. ASSUME NEW n \in nodes, n.id = e.dst PROVE e.handle = "bottom" \/ Label(e.dst) = "Tool"
      <3>1. n.parent # id
        BY <1>1, <2>1, <2>2, <2>3, <2>5 DEF Good, Grouped
      <3>2. e.dst \in gone
        BY <1>2, <2>5, <3>1 DEF Ids
      <3>3. e.dst \in Downstream(edges, {id})
        BY <1>2, <2>1, <3>2
      <3> QED BY <1>1, <2>1, <3>3, DownstreamApart DEF Good
    <2> QED BY <2>4, <2>5 DEF Ids
  <1>6. Good(nodes', edges', created, shared)
    BY <1>1, <1>4, <1>5, GoodRemove
  <1> QED BY <1>3, <1>6 DEF IInv, PlaceholderInv

\* The Delete key, once handleBeforeDelete has chosen what goes.
LEMMA StepDeleteSelected ==
  ASSUME IInv, NEW selected, NEW E \in SUBSET edges, DeleteSelected(selected, E)
  PROVE  IInv'
  <1>1. Good(nodes, edges, created, shared)
    BY DEF IInv
  <1>2. PICK ids : ids = WithChildren(selected)
    OBVIOUS
  <1>3. PICK F : F = E \cup Touching(edges, ids)
    OBVIOUS
  <1>4. PICK down : down = Downstream(F, {id \in ids : Label(id) = "Agent"})
    OBVIOUS
  <1>5. PICK gone : gone = {n.id : n \in {m \in nodes : m.id \in ids /\ ~Undeletable(m, ids)}}
    OBVIOUS
  <1>6. /\ nodes' = {n \in nodes : n.id \notin gone /\ n.id \notin down}
        /\ edges' = edges \ {e \in F : ~StaysConnected(e, ids)}
        /\ created' = created /\ placeholder' = placeholder /\ shared' = shared
    BY <1>2, <1>3, <1>4, <1>5 DEF DeleteSelected
  <1>7. nodes' \in SUBSET nodes /\ edges' \in SUBSET edges /\ F \in SUBSET edges
    BY <1>3, <1>6 DEF Touching
  <1>8. Linked(nodes', edges')
    <2> SUFFICES ASSUME NEW e \in edges', e.src \in Ids(nodes'), Label(e.src) \notin Starts,
                        e.dst \notin Ids(nodes')
                 PROVE  e.handle = "bottom" \/ Label(e.dst) = "Tool"
      BY DEF Linked
    <2>1. e \in edges /\ e.src \in Ids(nodes)
      BY <1>7 DEF Ids
    <2>2. CASE e.dst \notin Ids(nodes)
      BY <1>1, <2>1, <2>2 DEF Good, Linked
    <2>3. CASE e.dst \in Ids(nodes)
      <3>1. e.dst \in gone \/ e.dst \in down
        BY <1>6, <2>3 DEF Ids
      <3>2. e.dst \notin gone
        <4> SUFFICES ASSUME e.dst \in gone PROVE FALSE
          OBVIOUS
        <4>1. e.dst \in ids
          BY <1>5
        <4>2. e \in F
          BY <1>3, <2>1, <4>1 DEF Touching
        <4>3. ~StaysConnected(e, ids)
          BY <4>1 DEF StaysConnected
        <4> QED BY <1>6, <4>2, <4>3
      <3> QED BY <1>1, <1>4, <1>7, <2>1, <3>1, <3>2, DownstreamApart DEF Good
    <2> QED BY <2>2, <2>3
  <1>9. Good(nodes', edges', created, shared)
    BY <1>1, <1>7, <1>8, GoodRemove
  <1> QED BY <1>6, <1>9 DEF IInv, PlaceholderInv

\* Pasting what was just deleted, or copying a node, adds one node with the next
\* number and touches no edge.
LEMMA StepDuplicate ==
  ASSUME IInv, PasteDeleted \/ \E id \in Ids(nodes) : DuplicateNode(id)
  PROVE  IInv'
  <1> USE BoundsAssumption
  <1>1. Good(nodes, edges, created, shared) /\ created \in Nat
    BY DEF IInv, Good, Typed
  <1>2. /\ created < MaxId /\ created' = created + 1
        /\ edges' = edges /\ placeholder' = placeholder
    BY DEF PasteDeleted, DuplicateNode
  <1>3. PICK n \in Nodes :
          /\ n.id[2] = created + 1 /\ nodes' = nodes \cup {n}
          /\ n.conds \in 0..created /\ (n.conds = 0 <=> Label(n.id) # "Switch")
          /\ shared' = shared \cup ({n.conds} \ {0})
    <2>1. CASE PasteDeleted
      <3>1. <<"", created + 1>> \in AnyId
        <4>1. "" \in AllLabels
          BY DEF AllLabels
        <4>2. created + 1 \in 0..MaxId
          BY <1>1, <1>2
        <4> QED BY <4>1, <4>2 DEF AnyId
      <3>2. PICK n : n = Node(Fresh(""), None)
        OBVIOUS
      <3>6. PICK x : x = <<"", created + 1>>
        OBVIOUS
      <3>7. x \in AnyId /\ x[2] = created + 1 /\ Label(x) # "Switch"
        BY <3>1, <3>6 DEF Label
      <3>8. n = [id |-> x, parent |-> None, conds |-> 0, to |-> {}]
        BY <3>2, <3>6, <3>7 DEF Node, Fresh
      <3>9. n.id = x /\ n.conds = 0
        BY <3>8
      <3>10. n \in Nodes
        BY <3>7, <3>8 DEF Nodes
      <3>3. n \in Nodes /\ n.id[2] = created + 1 /\ n.conds = 0 /\ Label(n.id) # "Switch"
        BY <3>7, <3>9, <3>10
      <3>4. nodes' = nodes \cup {n} /\ shared' = shared
        BY <2>1, <3>2 DEF PasteDeleted
      <3>5. n.conds \in 0..created /\ shared \cup ({n.conds} \ {0}) = shared
        BY <1>1, <3>3
      <3> QED BY <3>3, <3>4, <3>5
    <2>2. ASSUME NEW id \in Ids(nodes), DuplicateNode(id)
          PROVE  \E n \in Nodes :
                   /\ n.id[2] = created + 1 /\ nodes' = nodes \cup {n}
                   /\ n.conds \in 0..created /\ (n.conds = 0 <=> Label(n.id) # "Switch")
                   /\ shared' = shared \cup ({n.conds} \ {0})
      <3>1. GetNode(id) \in nodes /\ GetNode(id).id = id /\ id \in AnyId
        BY <1>1, Found
      <3>2. /\ GetNode(id) \in Nodes
            /\ GetNode(id).conds \in 0..created
            /\ GetNode(id).conds = 0 <=> Label(id) # "Switch"
        BY <1>1, <3>1 DEF Good, Typed, Shares
      <3>3. PICK x : x = <<Label(id), created + 1>>
        OBVIOUS
      <3>4. x \in AnyId /\ x[2] = created + 1 /\ Label(x) = Label(id)
        BY <1>1, <1>2, <3>1, <3>3 DEF Label, AnyId
      <3>5. PICK n : n = [GetNode(id) EXCEPT !.id = x]
        OBVIOUS
      <3>6. nodes' = nodes \cup {n} /\ shared' = shared \cup ({GetNode(id).conds} \ {0})
        BY <2>2, <3>3, <3>5 DEF DuplicateNode, Fresh
      <3>7. n \in Nodes /\ n.id = x /\ n.conds = GetNode(id).conds
        BY <3>2, <3>4, <3>5 DEF Nodes
      <3> QED BY <3>2, <3>4, <3>6, <3>7
    <2> QED BY <2>1, <2>2
  <1>4. PICK M, c2, K2 : M = {n} /\ c2 = created + 1 /\ K2 = shared \cup ({n.conds} \ {0})
    OBVIOUS
  <1>5. /\ c2 \in 0..MaxId /\ created <= c2 /\ M \in SUBSET Nodes
        /\ \A m \in M : m.id[2] \in (created + 1)..c2
        /\ \A m, y \in M : m.id[2] = y.id[2] => m = y
    BY <1>1, <1>2, <1>3, <1>4
  <1>6. K2 \in SUBSET (1..c2) /\ shared \subseteq K2
    <2>1. shared \subseteq 1..created
      BY <1>1 DEF Good, Shares
    <2>2. \A k \in K2 : k \in 1..created
      <3>1. \A k \in K2 : k \in shared \/ (k = n.conds /\ k # 0)
        BY <1>4
      <3>2. n.conds # 0 => n.conds \in 1..created
        BY <1>1, <1>3
      <3>3. QED BY <2>1, <3>1, <3>2
    <2>3. \A k \in 1..created : k \in 1..c2
      BY <1>1, <1>4
    <2> QED BY <1>4, <2>2, <2>3
  <1>7. \A m \in M : m.conds \in 0..c2 /\ (m.conds = 0 <=> Label(m.id) # "Switch")
    BY <1>1, <1>3, <1>4
  <1>8. \A m \in M, x \in nodes \cup M : m.conds = x.conds /\ m.conds # 0 /\ m.conds \notin K2 => m = x
    BY <1>4
  <1>9. Good(nodes \cup M, edges, c2, K2)
    BY <1>1, <1>5, <1>6, <1>7, <1>8, GoodAdd
  <1> QED BY <1>2, <1>3, <1>4, <1>9 DEF IInv, PlaceholderInv

\* Copying an Iteration with what is in it: the copies are numbered in the order
\* of the originals, so that no two get one number.
LEMMA StepDuplicateIteration ==
  ASSUME IInv, NEW id \in Ids(nodes), DuplicateIterationNode(id)
  PROVE  IInv'
  <1> USE BoundsAssumption
  <1>1. Good(nodes, edges, created, shared) /\ created \in Nat /\ nodes \in SUBSET Nodes
    BY DEF IInv, Good, Typed
  <1> DEFINE children == {n \in nodes : n.parent = id}
             Upto(c) == {d \in children : d.id[2] <= c.id[2]}
             nth(c) == Cardinality(Upto(c))
             copy == Fresh("Iteration")
             Copied(c) == [c EXCEPT !.id = <<Label(c.id), created + 1 + nth(c)>>, !.parent = copy]
             first == [GetNode(id) EXCEPT !.id = copy]
             M == {first} \cup {Copied(c) : c \in children}
             c2 == created + 1 + Cardinality(children)
  <1>2. /\ nodes' = nodes \cup {first} \cup {Copied(c) : c \in children}
        /\ created' = c2 /\ c2 <= MaxId
        /\ edges' = edges /\ placeholder' = placeholder
        /\ Label(id) = "Iteration"
        /\ shared' = shared \cup ({c.conds : c \in children} \ {0})
    BY DEF DuplicateIterationNode
  <1>3. IsFiniteSet(children) /\ Cardinality(children) \in Nat
    <2>1. IsFiniteSet(nodes)
      BY <1>1, GraphFinite DEF Good
    <2>2. IsFiniteSet(children)
      BY <2>1, FS_Subset
    <2> QED BY <2>2, FS_CardinalityType
  <1>4. \A c \in children : c.id \in AnyId /\ c.id[2] \in Nat /\ Label(c.id) \in AllLabels
    BY <1>1 DEF Nodes, AnyId, Label
  <1>5. ASSUME NEW c \in children
        PROVE  /\ Upto(c) \in SUBSET children /\ c \in Upto(c)
               /\ IsFiniteSet(Upto(c)) /\ nth(c) \in Nat
               /\ nth(c) >= 1 /\ nth(c) <= Cardinality(children)
    <2>1. Upto(c) \in SUBSET children /\ c \in Upto(c)
      BY <1>4
    <2> HIDE DEF Upto, children
    <2>2. IsFiniteSet(Upto(c)) /\ Cardinality(Upto(c)) <= Cardinality(children)
      BY <1>3, <2>1, FS_Subset
    <2>3. Cardinality(Upto(c)) \in Nat
      BY <2>2, FS_CardinalityType
    <2>4. Cardinality(Upto(c)) # 0
      BY <2>1, <2>2, FS_EmptySet
    <2> QED BY <2>1, <2>2, <2>3, <2>4
  \* Children have different numbers,
  <1>6. ASSUME NEW c \in children, NEW d \in children, c.id[2] = d.id[2] PROVE c = d
    <2>1. CASE c.id[2] # 0
      BY <1>1, <1>6, <2>1 DEF Good, Numbered
    <2>2. CASE c.id[2] = 0
      <3>1. ASSUME NEW n \in children, n.id[2] = 0
            PROVE  n = Node(StartId("Iteration"), id)
        <4>1. n = Node(Begin, None) \/ \E k \in Groups, j \in 1..created : n = Node(StartId(k), <<k, j>>)
          BY <1>1, <3>1 DEF Good, Numbered
        <4>2. n # Node(Begin, None)
          <5>1. Node(Begin, None).parent = None /\ n.parent = id
            BY <3>1 DEF Node
          <5>2. None # id
            <6>1. Label(None) # Label(id)
              BY <1>2 DEF None, Label
            <6> QED BY <6>1
          <5> QED BY <5>1, <5>2
        <4>3. PICK k \in Groups, j \in 1..created : n = Node(StartId(k), <<k, j>>)
          BY <4>1, <4>2
        <4>4. <<k, j>> = id
          BY <4>3 DEF Node
        <4>5. k = "Iteration"
          BY <1>2, <4>4 DEF Label
        <4> QED BY <4>3, <4>4, <4>5
      <3> QED BY <1>6, <2>2, <3>1
    <2> QED BY <2>1, <2>2
  \* ... and so have their copies.
  <1>7. ASSUME NEW c \in children, NEW d \in children, c.id[2] < d.id[2] PROVE nth(c) < nth(d)
    <2>1. Upto(c) \in SUBSET Upto(d) /\ d \notin Upto(c) /\ d \in Upto(d)
      BY <1>4, <1>7
    <2>2. IsFiniteSet(Upto(d)) /\ nth(c) \in Nat /\ nth(d) \in Nat
      BY <1>5
    <2> HIDE DEF Upto
    <2>3. /\ Cardinality(Upto(c)) <= Cardinality(Upto(d))
          /\ Cardinality(Upto(d)) = Cardinality(Upto(c)) => Upto(d) = Upto(c)
      BY <2>1, <2>2, FS_Subset
    <2> QED BY <2>1, <2>2, <2>3
  <1>8. ASSUME NEW c \in children, NEW d \in children, nth(c) = nth(d) PROVE c = d
    <2>1. nth(c) \in Nat /\ nth(d) \in Nat
      BY <1>5
    <2> HIDE DEF nth, children
    <2>2. ~(c.id[2] < d.id[2]) /\ ~(d.id[2] < c.id[2])
      BY <1>7, <1>8, <2>1
    <2>3. c.id[2] = d.id[2]
      BY <1>4, <2>2
    <2> QED BY <1>6, <2>3
  <1>9. c2 \in 0..MaxId /\ created <= c2 /\ created + 1 \in 0..MaxId /\ created + 1 <= c2
    <2>1. PICK q : q = Cardinality(children)
      OBVIOUS
    <2>2. q \in Nat /\ c2 = created + 1 + q /\ created + 1 + q <= MaxId
      BY <1>2, <1>3, <2>1
    <2> HIDE DEF children, c2
    <2>3. /\ created + 1 + q \in 0..MaxId /\ created <= created + 1 + q
          /\ created + 1 \in 0..MaxId /\ created + 1 <= created + 1 + q
      BY <1>1, <2>2
    <2> QED BY <2>2, <2>3
  <1>10. copy \in AnyId /\ copy[2] = created + 1
    <2>1. "Iteration" \in AllLabels
      BY DEF AllLabels, Groups
    <2> QED BY <1>9, <2>1 DEF Fresh, AnyId
  <1>11. /\ first \in Nodes /\ first.id[2] = created + 1
         /\ first.conds = 0 /\ Label(first.id) # "Switch"
    <2>1. /\ GetNode(id) \in Nodes /\ GetNode(id) \in nodes
          /\ GetNode(id).id = id
      BY <1>1, Found
    <2>2. GetNode(id).conds = 0
      BY <1>1, <1>2, <2>1 DEF Good, Shares
    <2>3. Label(copy) # "Switch"
      BY DEF Fresh, Label
    <2> HIDE DEF copy
    <2> QED BY <1>10, <2>1, <2>2, <2>3 DEF Nodes
  <1>12. ASSUME NEW c \in children
         PROVE  /\ Copied(c) \in Nodes
                /\ Copied(c).id[2] = created + 1 + nth(c)
                /\ Copied(c).id[2] \in (created + 2)..c2
                /\ Copied(c).conds = c.conds /\ Label(Copied(c).id) = Label(c.id)
    <2>1. PICK k : k = nth(c)
      OBVIOUS
    <2>2. k \in Nat /\ k >= 1 /\ k <= Cardinality(children)
      BY <1>5, <2>1
    <2>3. c \in Nodes /\ Label(c.id) \in AllLabels
      BY <1>1, <1>4
    <2> HIDE DEF nth, children, copy
    <2>4. created + 1 + k \in 0..MaxId /\ created + 1 + k \in (created + 2)..c2
      <3>1. PICK q : q = Cardinality(children)
        OBVIOUS
      <3>2. /\ q \in Nat /\ k <= q
            /\ c2 = created + 1 + q /\ created + 1 + q <= MaxId
        BY <1>2, <1>3, <2>2, <3>1
      <3> HIDE DEF c2
      <3>3. created + 1 + k \in 0..MaxId /\ created + 1 + k \in (created + 2)..(created + 1 + q)
        BY <1>1, <2>2, <3>2
      <3> QED BY <3>2, <3>3
    <2>5. <<Label(c.id), created + 1 + k>> \in AnyId
      BY <2>3, <2>4 DEF AnyId
    <2>6. Copied(c) = [c EXCEPT !.id = <<Label(c.id), created + 1 + k>>, !.parent = copy]
      BY <2>1
    <2>7. /\ Copied(c) \in Nodes /\ Copied(c).id = <<Label(c.id), created + 1 + k>>
          /\ Copied(c).conds = c.conds
      BY <1>10, <2>3, <2>5, <2>6 DEF Nodes
    <2>8. Label(Copied(c).id) = Label(c.id)
      BY <2>7 DEF Label
    <2> QED BY <2>1, <2>4, <2>7, <2>8
  <1> HIDE DEF first, Copied, children, nth, c2, copy
  <1>13. /\ M \in SUBSET Nodes
         /\ \A m \in M : m.id[2] \in (created + 1)..c2
    BY <1>1, <1>9, <1>11, <1>12
  <1>14. \A m, n \in M : m.id[2] = n.id[2] => m = n
    <2>1. \A c \in children : nth(c) \in Nat /\ nth(c) >= 1
      BY <1>5 DEF nth
    <2>2. \A c, d \in children : nth(c) = nth(d) => c = d
      BY <1>8
    <2>3. \A c \in children : Copied(c).id[2] = created + 1 + nth(c)
      BY <1>12
    <2>4. \A c \in children : Copied(c).id[2] # created + 1
      BY <1>1, <2>1, <2>3
    <2>5. \A c, d \in children : Copied(c).id[2] = Copied(d).id[2] => c = d
      BY <1>1, <2>1, <2>2, <2>3
    <2> QED BY <1>11, <2>4, <2>5
  <1>15. nodes' = nodes \cup M
    BY <1>2
  \* Their conditions are those of the originals, which are shared from now on.
  <1>16. PICK K2 : K2 = shared \cup ({c.conds : c \in children} \ {0})
    OBVIOUS
  <1>17. \A c \in children :
            /\ c \in nodes /\ c.conds \in 0..created
            /\ c.conds = 0 <=> Label(c.id) # "Switch"
    BY <1>1 DEF children, Good, Shares
  <1>18. K2 \in SUBSET (1..c2) /\ shared \subseteq K2
    <2>1. shared \subseteq 1..created
      BY <1>1 DEF Good, Shares
    <2>2. \A k \in K2 : k \in 1..created
      <3>1. \A c \in children : c.conds = 0 \/ c.conds \in 1..created
        BY <1>1, <1>17
      <3>2. \A k \in K2 : k \in shared \/ (k # 0 /\ \E c \in children : k = c.conds)
        BY <1>16
      <3> QED BY <2>1, <3>1, <3>2
    <2>3. c2 \in Nat /\ created <= c2
      BY <1>9
    <2>4. \A k \in 1..created : k \in 1..c2
      BY <1>1, <2>3
    <2> QED BY <1>16, <2>2, <2>4
  <1>19. \A m \in M : m.conds \in 0..c2 /\ (m.conds = 0 <=> Label(m.id) # "Switch")
    <2>1. c2 \in Nat /\ created <= c2
      BY <1>9
    <2>2. \A k \in 0..created : k \in 0..c2
      BY <1>1, <2>1
    <2>3. 0 \in 0..created
      BY <1>1
    <2>4. \A c \in children :
            /\ Copied(c).conds \in 0..c2
            /\ Copied(c).conds = 0 <=> Label(Copied(c).id) # "Switch"
      <3> SUFFICES ASSUME NEW c \in children
                   PROVE  /\ Copied(c).conds \in 0..c2
                          /\ Copied(c).conds = 0 <=> Label(Copied(c).id) # "Switch"
        OBVIOUS
      <3>1. Copied(c).conds = c.conds /\ Label(Copied(c).id) = Label(c.id)
        BY <1>12
      <3>2. c.conds \in 0..c2
        BY <1>17, <2>2
      <3>3. c.conds = 0 <=> Label(c.id) # "Switch"
        BY <1>17
      <3> QED BY <3>1, <3>2, <3>3
    <2>5. first.conds \in 0..c2 /\ (first.conds = 0 <=> Label(first.id) # "Switch")
      BY <1>11, <2>2, <2>3
    <2> QED BY <2>4, <2>5
  <1>20. \A m \in M : m.conds = 0 \/ m.conds \in K2
    BY <1>11, <1>12, <1>16
  <1> HIDE DEF M
  <1>21. Good(nodes \cup M, edges, c2, K2)
    BY <1>1, <1>9, <1>13, <1>14, <1>18, <1>19, <1>20, GoodAdd
  <1> QED BY <1>2, <1>15, <1>16, <1>21 DEF IInv, PlaceholderInv

-----------------------------------------------------------------------------
(* The theorems.                                                           *)

\* A new agent, Begin alone, satisfies the invariant.
LEMMA GraphInit == Init => IInv
  <1> SUFFICES ASSUME Init PROVE IInv
    OBVIOUS
  <1> USE BoundsAssumption
  <1> DEFINE b == Node(Begin, None)
  <1>1. /\ b \in Nodes /\ b.id = Begin /\ Begin[2] = 0
        /\ b.conds = 0 /\ Label(b.id) # "Switch"
    <2>1. "Begin" \in AllLabels
      BY DEF AllLabels
    <2> QED BY <2>1 DEF Node, Nodes, AnyId, Begin, Label
  <1>2. nodes = {b} /\ edges = {} /\ created = 0 /\ placeholder = None /\ shared = {}
    BY DEF Init
  <1>3. Numbered(nodes, created)
    BY <1>1, <1>2 DEF Numbered
  <1> HIDE DEF b
  <1>4. Typed(nodes, edges, created)
    BY <1>1, <1>2 DEF Typed
  <1>5. /\ Wired(edges, created) /\ Linked(nodes, edges) /\ Grouped(nodes, edges)
        /\ Named(nodes, edges, shared) /\ OneTool(nodes, edges) /\ NoCycle(nodes, edges)
    BY <1>2 DEF Wired, Linked, Grouped, Named, OneTool, NoCycle
  <1>6. Shares(nodes, created, shared)
    BY <1>1, <1>2 DEF Shares
  <1> QED BY <1>2, <1>3, <1>4, <1>5, <1>6 DEF IInv, Good, PlaceholderInv

\* Every operation of the canvas preserves it.
LEMMA GraphStep == IInv /\ [Next]_vars => IInv'
  <1> SUFFICES ASSUME IInv, [Next]_vars PROVE IInv'
    OBVIOUS
  <1>1. CASE UNCHANGED vars
    BY <1>1 DEF vars, IInv, PlaceholderInv
  <1>2. ASSUME NEW ids \in Selections(Ids(nodes)), NEW E \in Selections(edges), DeleteSelected(ids, E)
        PROVE  IInv'
    <2>1. E \in SUBSET edges
      <3>1. \A pick \in [1..MaxSelected -> edges] : {pick[i] : i \in 1..MaxSelected} \subseteq edges
        OBVIOUS
      <3> QED BY <3>1 DEF Selections
    <2> QED BY <1>2, <2>1, StepDeleteSelected
  <1>3. ASSUME NEW u \in Ids(nodes), NEW handle \in SourceHandles(u),
               \/ \E v \in Ids(nodes) : OnConnect(u, handle, v)
               \/ \E kind \in Kinds \ {"Tool"} : AddNext(u, handle, kind)
               \/ DropOnPane(u, handle)
        PROVE  IInv'
    BY <1>3, StepConnect, StepAddNext, StepDropOnPane
  <1>4. ASSUME NEW u \in Ids(nodes), AddSubAgent(u) \/ AddToolNode(u) PROVE IInv'
    BY <1>4, StepAddAgentOrTool
  <1>5. ASSUME RemovePlaceholderNode \/ \E e \in edges : DeleteAgentToolNode(e) \/ DeleteEdgeById(e)
        PROVE  IInv'
    BY <1>5, StepRemove, StepDeleteEdge
  <1>6. ASSUME NEW kind \in Kinds \ {"Tool"}, PickOperator(kind) PROVE IInv'
    BY <1>6, StepPick
  <1>7. ASSUME NEW id \in Ids(nodes), ToolbarDelete(id) \/ DuplicateIterationNode(id) PROVE IInv'
    BY <1>7, StepToolbarDelete, StepDuplicateIteration
  <1>8. ASSUME PasteDeleted \/ \E id \in Ids(nodes) : DuplicateNode(id) PROVE IInv'
    BY <1>8, StepDuplicate
  <1> QED BY <1>1, <1>2, <1>3, <1>4, <1>5, <1>6, <1>7, <1>8 DEF Next

\* The graph of an agent keeps its types, and an id, a start node's apart, is
\* that of one node, through every addition, copy and deletion.
THEOREM GraphTypes == Spec => []TypeOK
  <1>1. IInv => TypeOK
    <2> SUFFICES ASSUME IInv PROVE TypeOK
      OBVIOUS
    <2>1. /\ nodes \subseteq [id : AnyId, parent : AnyId \cup {None}, conds : 0..MaxId, to : SUBSET AnyId]
          /\ edges \subseteq [src : AnyId, handle : {"start", "exception", "case", "bottom", "tool"},
                              dst : AnyId]
          /\ created \in 0..MaxId
      BY DEF IInv, Good, Typed, Nodes, Edges
    <2>2. placeholder \in AnyId \cup {None}
      BY DEF IInv, PlaceholderInv
    <2>3. \A m, n \in nodes : m.id = n.id /\ Label(m.id) \notin Starts => m = n
      BY OneNode DEF IInv, Good
    <2>4. shared \subseteq 1..MaxId
      <3>1. shared \subseteq 1..created /\ created \in Nat /\ created <= MaxId
        BY BoundsAssumption DEF IInv, Good, Shares, Typed
      <3> QED BY <3>1, BoundsAssumption
    <2> QED BY <2>1, <2>2, <2>3, <2>4 DEF TypeOK
  <1> QED BY <1>1, GraphInit, GraphStep, PTL DEF Spec

\* Nodes that exist never form a cycle: the search of hasCycle finds every way
\* back from the target of a new edge, and nothing else closes one, for any
\* number of nodes and whatever was deleted, copied or replaced in between.
THEOREM NeverCyclic == Spec => []Acyclic
  <1>1. IInv => Acyclic
    BY DEF IInv, Good, NoCycle, Acyclic
  <1> QED BY <1>1, GraphInit, GraphStep, PTL DEF Spec

\* No edge crosses the border of an Iteration or a Loop (isSameNodeChild and
\* the parents addNode, addGroupNode and onNodeCreated give).
THEOREM GroupsAreClosed == Spec => []EdgesStayInGroup
  <1>1. IInv => EdgesStayInGroup
    <2> SUFFICES ASSUME IInv, NEW e \in edges, Label(e.src) \notin Starts,
                        e.src \in Ids(nodes), e.dst \in Ids(nodes)
                 PROVE  ParentOf(e.src) = ParentOf(e.dst)
      BY DEF EdgesStayInGroup, Live
    <2>1. Good(nodes, edges, created, shared)
      BY DEF IInv
    <2>2. GetNode(e.src) \in nodes /\ GetNode(e.src).id = e.src /\ ParentOf(e.src) = GetNode(e.src).parent
      BY <2>1, Found
    <2>3. GetNode(e.dst) \in nodes /\ GetNode(e.dst).id = e.dst /\ ParentOf(e.dst) = GetNode(e.dst).parent
      BY <2>1, Found
    <2> QED BY <2>1, <2>2, <2>3 DEF Good, Grouped
  <1> QED BY <1>1, GraphInit, GraphStep, PTL DEF Spec

\* What the saved DSL names downstream of a component exists, although the
\* deletions leave edges behind (deleteNodeById, deleteIterationNodeById,
\* deleteAllDownstreamAgentsAndTool, handleBeforeDelete).
THEOREM DslNamesWhatExists == Spec => []DownstreamExists
  <1>1. IInv => DownstreamExists
    <2> SUFFICES ASSUME IInv, NEW c \in Components, Label(c) \notin Starts,
                        NEW d \in DslDownstream(c) \cup DslExceptionGoto(c), Label(d) # "Tool"
                 PROVE  d \in Ids(nodes)
      BY DEF DownstreamExists, Live
    <2>1. PICK e \in edges : /\ e.src = c /\ e.dst = d
                             /\ e.handle = "exception" \/ (Label(c) = "Agent" => e.handle # "bottom")
      BY DEF DslDownstream, DslExceptionGoto, DslEdges
    <2>2. e.handle # "bottom"
      BY <2>1 DEF IInv, Good, Wired
    <2>3. c \in Ids(nodes)
      BY DEF Components
    <2> QED BY <2>1, <2>2, <2>3 DEF IInv, Good, Linked
  <1> QED BY <1>1, GraphInit, GraphStep, PTL DEF Spec

\* The form of a Switch that was never copied and is no copy names every
\* target of its case's edges (updateSwitchFormData), through placeholders and
\* deletions, and whatever is copied, connected and edited around it: writing
\* into the conditions of one Switch never reaches another's unless the two
\* have them in common.
THEOREM UncopiedSwitchAlwaysNames == Spec => []UncopiedSwitchNames
  <1>1. IInv => UncopiedSwitchNames
    <2> SUFFICES ASSUME IInv, NEW e \in DslEdges, e.src \in Ids(nodes), Label(e.src) = "Switch",
                        e.handle = "case", NEW n \in nodes, n.conds \notin shared, n.id = e.src
                 PROVE  e.dst \in n.to
      BY DEF UncopiedSwitchNames, NameTargets, Live
    <2>1. e \in edges /\ ~(e.dst \in Ids(nodes) /\ Label(e.dst) = "Placeholder")
      BY DEF DslEdges, IsPlaceholder, Live
    <2>2. Label(e.dst) # "Placeholder"
      BY <2>1 DEF IInv, Good, Linked, Starts
    <2> QED BY <2>1, <2>2 DEF IInv, Good, Named
  <1> QED BY <1>1, GraphInit, GraphStep, PTL DEF Spec

\* An agent has at most one tool node on the canvas (addToolNode), however many
\* were deleted or copied before.
THEOREM ToolNodeIsOne == Spec => []OneToolNode
  <1>1. IInv => OneToolNode
    BY DEF IInv, Good, OneTool, OneToolNode, Live
  <1> QED BY <1>1, GraphInit, GraphStep, PTL DEF Spec
=============================================================================
