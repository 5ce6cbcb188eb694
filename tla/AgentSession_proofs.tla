------------------------ MODULE AgentSession_proofs ------------------------
(* Proofs about AgentSession for any number of agents, pages, edits, saves, *)
(* runs and any length of the history.                                      *)
EXTENDS AgentSession, FiniteSetTheorems, SequenceTheorems, TLAPS

\* The query has at most one detail and one request; Cardinality alone would
\* not say that the sets are finite.
AtMostOne(S) == S = {} \/ \E x : S = {x}
QueryInv == AtMostOne(data) /\ AtMostOne(Fetching)

\* An open page has a number.
PageInv == Open => mount # 0

TInv == TypeOK /\ QueryInv /\ PageInv /\ HistoryConsistent

\* What a page that has its detail shows, what the query has kept, what a /get
\* has read and what is on its way to the server belongs to its agent, or the
\* agent has strayed.  An answer that is the page's own detail finds it there.
OwnInv ==
  /\ Loaded => Owner(store) = page \/ page \in strayed
  /\ \A d \in data : Owner(d.dsl.g) = d.agent \/ d.agent \in strayed
  /\ \A s \in saves : Owner(s.dsl.g) = s.agent \/ s.agent \in strayed
  /\ \A f \in gets : f.phase # "sent" => Owner(f.dsl.g) = f.agent \/ f.agent \in strayed
  /\ \A f \in gets : f.same => f.by # "nobody" /\ data # {}

\* Neither a detail nor a save nor the answer of a /get carries messages.
QuietInv ==
  /\ \A d \in data : ~d.dsl.hist
  /\ \A s \in saves : ~s.dsl.hist
  /\ \A f \in gets : ~f.dsl.hist

\* A run works on, and a /get holds, the saved graph unless a save has
\* overtaken it.
RunInv ==
  /\ \A r \in runs : ~r.stale => r.dsl.g = row[r.agent].g
  /\ \A f \in gets : f.phase # "sent" /\ f.since # "saved" => f.dsl.g = row[f.agent].g

IInv ==
  /\ TInv
  /\ OwnInv /\ NoForeignSave
  /\ QuietInv /\ SavedWithoutMessages
  /\ RunInv /\ ReplicaFollowsUnlessBehind

-----------------------------------------------------------------------------
\* The bounds are natural numbers.
LEMMA Bounds ==
  /\ MaxEdits \in Nat /\ MaxMounts \in Nat /\ MaxClicks \in Nat
  /\ MaxRuns \in Nat /\ MaxSaves \in Nat /\ MaxGets \in Nat /\ MaxFailures \in Nat
  /\ MaxHistory \in Nat \ {0}
  BY SessionAssumption

\* A set with at most one element has cardinality at most one.
LEMMA AtMostOneCardinality ==
  ASSUME NEW S, AtMostOne(S)
  PROVE  Cardinality(S) <= 1
<1>1. CASE S = {}
  <2>1. Cardinality(S) = 0
    BY <1>1, FS_EmptySet
  <2>2. QED BY <2>1
<1>2. ASSUME NEW x, S = {x} PROVE Cardinality(S) <= 1
  <2>1. Cardinality({x}) = 1
    BY FS_Singleton
  <2>2. QED BY <1>2, <2>1
<1>3. QED BY <1>1, <1>2 DEF AtMostOne

\* HistoryManager.push: the list it leaves is within the limit and stands at
\* the graph pushed, from an empty history or one that stands at an entry.
LEMMA PushHistory ==
  ASSUME NEW l \in Seq(Graphs), NEW i \in 1..Len(l), NEW g \in Graphs, Len(l) <= MaxHistory
  PROVE  LET p == Push(l, i, g)
         IN /\ p.list \in Seq(Graphs)
            /\ p.at \in 1..Len(p.list)
            /\ Len(p.list) <= MaxHistory
            /\ p.list[p.at] = g
<1> DEFINE cut == SubSeq(l, 1, i)
           full == Append(cut, g)
           kept == IF Len(full) > MaxHistory THEN Tail(full) ELSE full
<1>1. MaxHistory \in Nat \ {0} /\ Len(l) \in Nat
  BY SessionAssumption
<1>2. CASE l[i] = g
  <2>1. l # <<>>
    BY <1>1
  <2>2. Push(l, i, g) = [list |-> l, at |-> i]
    BY <1>2, <2>1 DEF Push
  <2>3. QED BY <1>2, <2>2
<1>3. CASE l[i] # g
  <2>1. cut \in Seq(Graphs) /\ Len(cut) = i
    BY SubSeqProperties, <1>1, ElementOfSeq
  <2> HIDE DEF cut
  <2>2. full \in Seq(Graphs) /\ Len(full) = i + 1 /\ full[i + 1] = g
    BY <2>1
  <2> HIDE DEF full
  <2>3. full # <<>> /\ Len(Tail(full)) = i /\ Tail(full) \in Seq(Graphs) /\ Tail(full)[i] = g
    BY <2>2, HeadTailProperties
  <2>4. kept \in Seq(Graphs) /\ Len(kept) \in 1..MaxHistory /\ kept[Len(kept)] = g
    BY <1>1, <2>2, <2>3
  <2>5. Push(l, i, g) = [list |-> kept, at |-> Len(kept)]
    BY <1>3 DEF Push, cut, full
  <2> HIDE DEF kept
  <2>6. QED BY <1>1, <2>4, <2>5
<1>4. QED BY <1>2, <1>3

\* Every step that puts a graph into the store of an open page leaves the
\* history standing at it.
LEMMA SetStoreHistory ==
  ASSUME TInv, Open, NEW g \in Graphs, SetStore(g)
  PROVE  /\ store' \in Graphs /\ timer' \in BOOLEAN
         /\ history' \in Seq(Graphs) /\ index' \in 1..Len(history')
         /\ Len(history') <= MaxHistory
         /\ history'[index'] = store'
<1>1. history \in Seq(Graphs) /\ index \in 1..Len(history) /\ Len(history) <= MaxHistory
  BY DEF TInv, TypeOK, HistoryConsistent
<1>2. QED BY <1>1, PushHistory DEF SetStore

\* A save that is sent names the open page, its mount and its store.
LEMMA SaveGraphEffect ==
  ASSUME TInv, NEW next \in Continuations, SaveGraph(next)
  PROVE  \/ saves' = saves
         \/ /\ Open /\ data # {}
            /\ \E d \in data : \E s \in Saves :
                 /\ saves' = saves \cup {s}
                 /\ s.agent = page /\ s.dsl.g = store /\ s.dsl.hist = d.dsl.hist
<1>1. CASE ~Loaded
  BY <1>1 DEF SaveGraph
<1>2. CASE Loaded
  <2>1. PICK d \in data :
          saves' = saves \cup {[agent |-> page,
                                dsl   |-> [g |-> store, hist |-> d.dsl.hist],
                                next  |-> next,
                                mount |-> mount]}
    BY <1>2 DEF SaveGraph
  <2> DEFINE s == [agent |-> page, dsl |-> [g |-> store, hist |-> d.dsl.hist],
                   next |-> next, mount |-> mount]
  <2>2. page \in Agents /\ mount \in 1..MaxMounts /\ store \in Graphs
    BY <1>2, SessionAssumption DEF Loaded, Open, TInv, TypeOK, PageInv
  <2>3. d.dsl.hist \in BOOLEAN
    BY DEF TInv, TypeOK, Dsls
  <2>4. s \in Saves
    BY <2>2, <2>3 DEF Saves, Dsls
  <2>5. QED BY <1>2, <2>1, <2>4 DEF Loaded
<1>3. QED BY <1>1, <1>2

-----------------------------------------------------------------------------
\* The detail a write of the row outdates stays one detail.
LEMMA OutdateType ==
  ASSUME TInv, NEW a \in Agents, Outdate(a)
  PROVE  /\ data' \in SUBSET [agent : Agents, dsl : Dsls, current : BOOLEAN]
         /\ AtMostOne(data')
         /\ \A e \in data' : \E d \in data : e.agent = d.agent /\ e.dsl = d.dsl
         /\ data = {} <=> data' = {}
<1>1. data \in SUBSET [agent : Agents, dsl : Dsls, current : BOOLEAN] /\ AtMostOne(data)
  BY DEF TInv, TypeOK, QueryInv
<1>2. data' = {[d EXCEPT !.current = @ /\ d.agent # a] : d \in data}
  BY DEF Outdate
<1>3. \A e \in data' : \E d \in data : e = [d EXCEPT !.current = @ /\ d.agent # a]
  BY <1>2
<1>4. \A d \in data : /\ [d EXCEPT !.current = @ /\ d.agent # a] \in [agent : Agents, dsl : Dsls, current : BOOLEAN]
                      /\ [d EXCEPT !.current = @ /\ d.agent # a].agent = d.agent
                      /\ [d EXCEPT !.current = @ /\ d.agent # a].dsl = d.dsl
  BY <1>1
<1>5. AtMostOne(data')
  <2>1. CASE data = {}
    BY <1>2, <2>1 DEF AtMostOne
  <2>2. ASSUME NEW x, data = {x} PROVE AtMostOne(data')
    <3>1. data' = {[x EXCEPT !.current = @ /\ x.agent # a]}
      BY <1>2, <2>2
    <3>2. QED BY <3>1 DEF AtMostOne
  <2>3. QED BY <1>1, <2>1, <2>2 DEF AtMostOne
<1>6. data' \in SUBSET [agent : Agents, dsl : Dsls, current : BOOLEAN]
  BY <1>3, <1>4
<1>7. \A e \in data' : \E d \in data : e.agent = d.agent /\ e.dsl = d.dsl
  BY <1>3, <1>4
<1>8. data = {} <=> data' = {}
  BY <1>2
<1>9. QED BY <1>5, <1>6, <1>7, <1>8

\* The initial state: no page, no request, the rows hold their own graphs.
LEMMA InitIInv == Init => IInv
<1> SUFFICES ASSUME Init PROVE IInv
  OBVIOUS
<1>1. Empty \in Graphs /\ \A a \in Agents : <<a, 0>> \in Graphs
  BY SessionAssumption DEF Graphs
<1>2. AtMostOne(data) /\ AtMostOne(Fetching)
  BY DEF AtMostOne, Init, Fetching
<1>3. TypeOK
  <2>1. Cardinality(data) <= 1 /\ Cardinality(Fetching) <= 1
    BY <1>2, AtMostOneCardinality
  <2>2. row \in [Agents -> Dsls]
    BY <1>1 DEF Init, Dsls
  <2>3. history \in Seq(Graphs)
    BY DEF Init
  <2>4. mount \in 0..MaxMounts /\ edits \in 0..MaxEdits /\ clicks \in 0..MaxClicks
        /\ asking \in 0..MaxRuns /\ index \in Nat /\ failures \in 0..MaxFailures
    BY Bounds DEF Init
  <2>5. {timer, drawer, chat} \subseteq BOOLEAN
    BY DEF Init
  <2>6. replica \in [Agents -> SUBSET Dsls]
    BY DEF Init
  <2>7. QED BY <1>1, <2>1, <2>2, <2>3, <2>4, <2>5, <2>6 DEF Init, TypeOK
<1>4. ~Open
  BY DEF Init, Open
<1>5. TInv
  BY <1>2, <1>3, <1>4 DEF TInv, QueryInv, PageInv, HistoryConsistent
<1>6. OwnInv /\ QuietInv /\ RunInv
  BY <1>4 DEF Init, OwnInv, QuietInv, RunInv, Loaded
<1>7. NoForeignSave /\ SavedWithoutMessages /\ ReplicaFollowsUnlessBehind
  BY DEF Init, NoForeignSave, SavedWithoutMessages, ReplicaFollowsUnlessBehind, Owner
<1>8. QED BY <1>5, <1>6, <1>7 DEF IInv

-----------------------------------------------------------------------------
\* Where a /get request h of the next state comes from: it was under way and
\* has gone on, or it is sent now, or it has just read the row.
Kept(h) ==
  \E f \in gets :
    /\ h.agent = f.agent /\ h.dsl = f.dsl /\ (h.phase = "sent" <=> f.phase = "sent")
    /\ f.since = "saved" => h.since = "saved"
    /\ h.same => f.same /\ h.by = f.by
    /\ h.phase = "sent" \/ h.since = "saved" \/ row'[h.agent].g = row[h.agent].g
New(h) ==
  \E a \in Agents, by \in {"page", "chat", "form", "settings"} : h = Sent(a, by)
JustRead(h) ==
  /\ h.agent \in Agents /\ h.dsl = row[h.agent] /\ UNCHANGED <<row, data>>
  /\ h.same => h.by # "nobody" /\ data # {}

\* A request that is sent has the type of one.
LEMMA SentType ==
  ASSUME NEW a \in Agents, NEW by \in {"page", "chat", "form", "settings"}
  PROVE  /\ Sent(a, by) \in Gets
         /\ Sent(a, by).phase = "sent" /\ ~Sent(a, by).dsl.hist
         /\ ~Sent(a, by).same /\ Sent(a, by).by # "nobody"
<1>1. [g |-> Empty, hist |-> FALSE] \in Dsls
  BY DEF Dsls, Graphs
<1>2. QED BY <1>1 DEF Sent, Gets

\* Request h is what is left of f when the query drops it.
DroppedFrom(h, f) ==
  /\ h.agent = f.agent /\ h.dsl = f.dsl
  /\ h.phase = f.phase /\ h.since = f.since
  /\ ~h.same

\* Refetch leaves one request whose answer is used; the others are requests
\* that were there, dropped.
LEMMA RefetchType ==
  ASSUME NEW G \in SUBSET Gets, NEW a \in Agents,
         NEW by \in {"page", "chat", "form", "settings"}
  PROVE  /\ Refetch(G, a, by) \in SUBSET Gets
         /\ Sent(a, by) \in Refetch(G, a, by)
         /\ \A h \in Refetch(G, a, by) : h.by # "nobody" => h = Sent(a, by)
         /\ \A h \in Refetch(G, a, by) : h = Sent(a, by) \/ \E f \in G : DroppedFrom(h, f)
<1> DEFINE D(f) == [f EXCEPT !.by = "nobody", !.same = FALSE]
<1>1. \A f \in G : /\ D(f) \in Gets /\ D(f).by = "nobody" /\ ~D(f).same
                   /\ D(f).agent = f.agent /\ D(f).dsl = f.dsl
                   /\ D(f).phase = f.phase /\ D(f).since = f.since
  BY DEF Gets
<1>2. Refetch(G, a, by) = {D(f) : f \in {h \in G : h.phase # "done"}} \cup {Sent(a, by)}
  BY DEF Refetch
<1> HIDE DEF D
<1>3. \A h \in Refetch(G, a, by) : h = Sent(a, by) \/ \E f \in G : h = D(f)
  BY <1>2
<1>4. Sent(a, by) \in Refetch(G, a, by)
  BY <1>2
<1>5. QED BY <1>1, <1>3, <1>4, SentType DEF DroppedFrom

\* Request h is f once the row of agent a has been written.
LaterThan(h, f, a, how) ==
  /\ h.agent = f.agent /\ h.dsl = f.dsl /\ h.phase = f.phase
  /\ h.by = f.by /\ h.same = f.same
  /\ f.since = "saved" => h.since = "saved"
  /\ how = "saved" /\ h.agent = a => h.phase = "sent" \/ h.since = "saved"

\* A write of the row changes only what the requests know of it.
LEMMA OvertakenType ==
  ASSUME TInv, NEW a \in Agents, NEW how \in {"touched", "saved"}
  PROVE  /\ Overtaken(a, how) \in SUBSET Gets
         /\ AtMostOne({h \in Overtaken(a, how) : h.by # "nobody"})
         /\ \A h \in Overtaken(a, how) : \E f \in gets : LaterThan(h, f, a, how)
<1> DEFINE C(f) == f.agent = a /\ f.phase # "sent" /\ f.since # "saved"
           U(f) == IF C(f) THEN [f EXCEPT !.since = how] ELSE f
<1>0. gets \in SUBSET Gets /\ AtMostOne(Fetching)
  BY DEF TInv, TypeOK, QueryInv
<1>1. \A f \in gets : U(f) \in Gets /\ U(f).by = f.by /\ LaterThan(U(f), f, a, how)
  BY <1>0 DEF Gets, LaterThan
<1>2. Overtaken(a, how) = {U(f) : f \in gets}
  BY DEF Overtaken
<1> HIDE DEF U
<1>3. \A h \in Overtaken(a, how) : \E f \in gets : h = U(f)
  BY <1>2
<1>4. AtMostOne({h \in Overtaken(a, how) : h.by # "nobody"})
  <2>1. CASE Fetching = {}
    BY <1>1, <1>3, <2>1 DEF Fetching, AtMostOne
  <2>2. ASSUME NEW x, Fetching = {x} PROVE {h \in Overtaken(a, how) : h.by # "nobody"} = {U(x)}
    <3>1. x \in gets /\ x.by # "nobody" /\ \A f \in gets : f.by # "nobody" => f = x
      BY <2>2 DEF Fetching
    <3>2. QED BY <1>1, <1>2, <1>3, <3>1
  <2>3. QED BY <1>0, <2>1, <2>2 DEF AtMostOne
<1>5. QED BY <1>1, <1>3, <1>4

\* Every step: the requests keep their type, at most one is waited for, and
\* each comes from somewhere.
LEMMA GetsStep ==
  ASSUME TInv, [Next]_vars
  PROVE  /\ gets' \in SUBSET Gets
         /\ AtMostOne(Fetching')
         /\ \A h \in gets' : Kept(h) \/ New(h) \/ JustRead(h)
<1> DEFINE Goal == /\ gets' \in SUBSET Gets
                   /\ AtMostOne({h \in gets' : h.by # "nobody"})
                   /\ \A h \in gets' : Kept(h) \/ New(h) \/ JustRead(h)
<1> SUFFICES Goal
  BY DEF Fetching
<1> USE DEF browser, calls, server
<1>0. /\ gets \in SUBSET Gets /\ AtMostOne({h \in gets : h.by # "nobody"})
      /\ row \in [Agents -> Dsls] /\ page \in Agents \cup {NoAgent}
      /\ saves \in SUBSET Saves /\ resets \in SUBSET [agent : Agents, mount : 1..MaxMounts]
      /\ settings \in SUBSET Agents /\ runs \in SUBSET Runs
  BY DEF TInv, TypeOK, QueryInv, Fetching
<1>1. ASSUME UNCHANGED <<gets, row>> PROVE Goal
  <2>1. \A h \in gets' : Kept(h)
    BY <1>1 DEF Kept
  <2>2. QED BY <1>0, <1>1, <2>1
<1>2. ASSUME NEW a \in Agents, NEW by \in {"page", "chat", "form", "settings"},
             gets' = Refetch(gets, a, by), UNCHANGED row
      PROVE  Goal
  <2>1. /\ gets' \in SUBSET Gets
        /\ Sent(a, by) \in gets'
        /\ \A h \in gets' : h.by # "nobody" => h = Sent(a, by)
        /\ \A h \in gets' : h = Sent(a, by) \/ \E f \in gets : DroppedFrom(h, f)
    BY <1>0, <1>2, RefetchType
  <2>2. {h \in gets' : h.by # "nobody"} = {Sent(a, by)}
    BY <2>1, SentType
  <2>3. ASSUME NEW h \in gets' PROVE Kept(h) \/ New(h)
    BY <1>2, <2>1 DEF Kept, New, DroppedFrom
  <2>4. QED BY <2>1, <2>2, <2>3 DEF AtMostOne
<1>3. ASSUME NEW a \in Agents, NEW how \in {"touched", "saved"},
             \A b \in Agents : row'[b].g = row[b].g \/ (how = "saved" /\ b = a),
             gets' = Overtaken(a, how)
      PROVE  Goal
  <2>1. /\ gets' \in SUBSET Gets /\ AtMostOne({h \in gets' : h.by # "nobody"})
        /\ \A h \in gets' : \E f \in gets : LaterThan(h, f, a, how)
    BY <1>3, OvertakenType
  <2>2. ASSUME NEW h \in gets' PROVE Kept(h)
    <3>1. h.agent \in Agents
      BY <2>1 DEF Gets
    <3>2. PICK f \in gets : LaterThan(h, f, a, how)
      BY <2>1
    <3>3. h.phase = "sent" \/ h.since = "saved" \/ row'[h.agent].g = row[h.agent].g
      BY <1>3, <3>1, <3>2 DEF LaterThan
    <3>4. QED BY <3>2, <3>3 DEF Kept, LaterThan
  <2>3. QED BY <2>1, <2>2
<1>4. ASSUME NEW a \in Agents, NEW how \in {"touched", "saved"},
             NEW c \in Agents, NEW by \in {"page", "chat", "form", "settings"},
             \A b \in Agents : row'[b].g = row[b].g \/ (how = "saved" /\ b = a),
             gets' = Refetch(Overtaken(a, how), c, by)
      PROVE  Goal
  <2>1. PICK G : G = Overtaken(a, how)
    OBVIOUS
  <2>2. G \in SUBSET Gets /\ \A g \in G : \E f \in gets : LaterThan(g, f, a, how)
    BY <2>1, OvertakenType
  <2>3. /\ gets' \in SUBSET Gets
        /\ Sent(c, by) \in gets'
        /\ \A h \in gets' : h.by # "nobody" => h = Sent(c, by)
        /\ \A h \in gets' : h = Sent(c, by) \/ \E g \in G : DroppedFrom(h, g)
    <3>1. G \in SUBSET Gets
      BY <2>2
    <3>2. gets' = Refetch(G, c, by)
      BY <1>4, <2>1
    <3>3. QED BY <3>1, <3>2, RefetchType
  <2>4. ASSUME NEW h \in gets', h # Sent(c, by) PROVE Kept(h)
    <3>1. PICK g \in G : DroppedFrom(h, g)
      BY <2>3, <2>4
    <3>2. PICK f \in gets : LaterThan(g, f, a, how)
      BY <2>2
    <3>3. h.agent \in Agents
      BY <2>3 DEF Gets
    <3>4. h.phase = "sent" \/ h.since = "saved" \/ row'[h.agent].g = row[h.agent].g
      BY <1>4, <3>1, <3>2, <3>3 DEF DroppedFrom, LaterThan
    <3>5. QED BY <3>1, <3>2, <3>4 DEF Kept, DroppedFrom, LaterThan
  <2>5. {h \in gets' : h.by # "nobody"} = {Sent(c, by)}
    BY <2>3, SentType
  <2>6. QED BY <2>3, <2>4, <2>5 DEF New, AtMostOne
<1>5. ASSUME NEW f \in gets, NEW g \in Gets, UNCHANGED row,
             gets' = (gets \ {f}) \cup {g}, g.by = f.by, Kept(g) \/ JustRead(g)
      PROVE  Goal
  <2>1. \A h \in gets : h \in gets' => Kept(h)
    BY <1>5 DEF Kept
  <2>2. AtMostOne({h \in gets' : h.by # "nobody"})
    <3>1. CASE {h \in gets : h.by # "nobody"} = {}
      BY <1>5, <3>1 DEF AtMostOne
    <3>2. ASSUME NEW x, {h \in gets : h.by # "nobody"} = {x} PROVE AtMostOne({h \in gets' : h.by # "nobody"})
      <4>1. x \in gets /\ x.by # "nobody" /\ \A h \in gets : h.by # "nobody" => h = x
        BY <3>2
      <4>2. CASE f = x
        <5>1. {h \in gets' : h.by # "nobody"} = {g}
          BY <1>5, <4>1, <4>2
        <5>2. QED BY <5>1 DEF AtMostOne
      <4>3. CASE f # x
        <5>1. {h \in gets' : h.by # "nobody"} = {x}
          BY <1>5, <4>1, <4>3
        <5>2. QED BY <5>1 DEF AtMostOne
      <4>4. QED BY <4>2, <4>3
    <3>3. QED BY <1>0, <3>1, <3>2 DEF AtMostOne
  <2>3. QED BY <1>0, <1>5, <2>1, <2>2
<1>6. ASSUME NEW f \in gets, gets' = gets \ {f}, UNCHANGED row PROVE Goal
  <2>1. \A h \in gets' : Kept(h)
    BY <1>6 DEF Kept
  <2>2. AtMostOne({h \in gets' : h.by # "nobody"})
    BY <1>0, <1>6 DEF AtMostOne
  <2>3. QED BY <1>0, <1>6, <2>1, <2>2
<1>7. ASSUME NEW f \in gets, Done(f), f.phase # "sent", UNCHANGED row PROVE Goal
  <2>1. CASE f.by = "nobody"
    BY <1>6, <1>7, <2>1 DEF Done
  <2>2. CASE f.by # "nobody"
    <3>1. PICK g : g = [f EXCEPT !.phase = "done"]
      OBVIOUS
    <3>2. g \in Gets /\ g.by = f.by /\ Kept(g)
      BY <1>0, <1>7, <3>1 DEF Gets, Kept
    <3>3. gets' = (gets \ {f}) \cup {g}
      BY <1>7, <2>2, <3>1 DEF Done
    <3>4. QED BY <1>5, <1>7, <3>2, <3>3
  <2>3. QED BY <2>1, <2>2
<1>8. ASSUME NEW f \in gets, gets' = (gets \ {f}) \cup {[f EXCEPT !.phase = "absent"]},
             f.phase = "read", UNCHANGED row
      PROVE  Goal
  <2>1. PICK g : g = [f EXCEPT !.phase = "absent"]
    OBVIOUS
  <2>2. g \in Gets /\ g.by = f.by /\ Kept(g)
    BY <1>0, <1>8, <2>1 DEF Gets, Kept
  <2>3. QED BY <1>5, <1>8, <2>1, <2>2
<1> HIDE DEF Goal
<1>9. ASSUME NEW f \in gets, ReadRow(f) PROVE Goal
  <2>1. PICK b \in BOOLEAN : b = (f.by # "nobody" /\ \E d \in data : d.agent = f.agent /\ d.current)
    OBVIOUS
  <2>2. PICK g : g = [f EXCEPT !.phase = "read", !.dsl = row[f.agent], !.same = b]
    OBVIOUS
  <2>3. gets' = (gets \ {f}) \cup {g}
    BY <1>9, <2>1, <2>2 DEF ReadRow, GetCanvas
  <2>4. UNCHANGED <<row, data>> /\ f \in Gets /\ row[f.agent] \in Dsls
    BY <1>0, <1>9 DEF ReadRow, Gets
  <2>5. g \in Gets /\ g.by = f.by /\ g.agent = f.agent /\ g.dsl = row[f.agent] /\ g.same = b
    BY <2>2, <2>4 DEF Gets
  <2>6. b => f.by # "nobody" /\ data # {}
    BY <2>1
  <2>7. JustRead(g)
    BY <2>4, <2>5, <2>6 DEF JustRead, Gets
  <2>8. QED BY <1>5, <2>3, <2>4, <2>5, <2>7
<1>10. ASSUME NEW f \in gets, ReadReplica(f) PROVE Goal
  BY <1>7, <1>8, <1>10 DEF ReadReplica
<1>11. ASSUME NEW f \in gets, CreateReplica(f) PROVE Goal
  BY <1>7, <1>11 DEF CreateReplica
<1>12. ASSUME NEW f \in gets, GetWithoutRedis(f) PROVE Goal
  BY <1>7, <1>8, <1>12 DEF GetWithoutRedis
<1>13. ASSUME NEW f \in gets, Respond(f) PROVE Goal
  BY <1>6, <1>13 DEF Respond
<1>14. ASSUME NEW s \in saves, UpdateRow(s)
       PROVE  s.agent \in Agents /\ \A b \in Agents : row'[b].g = row[b].g \/ b = s.agent
  BY <1>0, <1>14 DEF UpdateRow, Saves
<1>15. ASSUME NEW s \in saves, UpdateRow(s), Saved(s) \/ gets' = Overtaken(s.agent, "saved") PROVE Goal
  <2>1. CASE gets' = Overtaken(s.agent, "saved")
    BY <1>3, <1>14, <1>15, <2>1
  <2>2. CASE gets' = Refetch(Overtaken(s.agent, "saved"), s.agent, "form")
    BY <1>4, <1>14, <1>15, <2>2
  <2>3. QED BY <1>15, <2>1, <2>2 DEF Saved
<1>16. ASSUME NEW s \in saves, SetCanvas(s) PROVE Goal
  BY <1>15, <1>16 DEF SetCanvas
<1>17. ASSUME NEW s \in saves, NEW reported \in BOOLEAN, SetUnsynced(s, reported) PROVE Goal
  BY <1>15, <1>17 DEF SetUnsynced
<1>18. ASSUME NEW q \in resets, ResetCanvas(q) PROVE Goal
  <2>1. q.agent \in Agents /\ gets' = Overtaken(q.agent, "touched")
    BY <1>0, <1>18 DEF ResetCanvas
  <2>2. \A b \in Agents : row'[b].g = row[b].g
    BY <1>0, <1>18, <2>1 DEF ResetCanvas, Dsls
  <2>3. QED BY <1>3, <2>1, <2>2
<1>19. ASSUME NEW a \in settings, SetSetting(a) PROVE Goal
  <2>1. a \in Agents /\ UNCHANGED row
    BY <1>0, <1>19 DEF SetSetting
  <2>2. CASE Open
    BY <1>0, <1>4, <1>19, <2>1, <2>2 DEF SetSetting, Open
  <2>3. CASE ~Open
    BY <1>3, <1>19, <2>1, <2>3 DEF SetSetting
  <2>4. QED BY <2>2, <2>3
<1>20. ASSUME NEW a \in Agents, OpenPage(a) PROVE Goal
  BY <1>2, <1>20 DEF OpenPage
<1>21. ASSUME NEW r \in runs, RunEnds(r) \/ RunFails(r) PROVE Goal
  BY <1>0, <1>2, <1>21 DEF RunEnds, RunFails, StreamEnds, Runs
<1>22. CASE \/ UNCHANGED vars \/ LeavePage \/ Edit \/ Undo \/ Redo \/ SubmitSettings
            \/ SaveByHand("nothing") \/ SaveByHand("refetch") \/ RunClicked \/ RunSheetOk
            \/ HideDrawer \/ Send \/ Autosave
            \/ (\E a \in Agents : ReplicaExpires(a)) \/ (\E s \in saves : SetRefused(s))
            \/ (\E q \in resets : ResetFails(q)) \/ (\E a \in settings : SettingRefused(a))
  <2>1. UNCHANGED <<gets, row>>
    BY <1>22 DEF vars, LeavePage, Edit, Undo, Redo, Show, SubmitSettings, SaveByHand, RunClicked,
                 RunSheetOk, HideDrawer, Send, Autosave, ReplicaExpires, SetRefused, ResetFails,
                 SettingRefused
  <2>2. QED BY <1>1, <2>1
<1> HIDE DEF browser, calls, server
<1>23. CASE User
  BY <1>20, <1>22, <1>23 DEF User
<1>24. CASE Server
  BY <1>9, <1>10, <1>11, <1>12, <1>13, <1>16, <1>17, <1>18, <1>19, <1>21, <1>22, <1>24 DEF Server
<1>25. Goal
  BY <1>22, <1>23, <1>24 DEF Next
<1>26. QED BY <1>25

-----------------------------------------------------------------------------
\* Every step keeps the types, at most one detail and one request in the
\* query, and the agreement of history and canvas.
LEMMA TypeStep ==
  ASSUME TInv, [Next]_vars
  PROVE  TInv'
<1> DEFINE Goal == TInv'
<1> USE Bounds DEF browser, calls, server
<1>0. /\ page \in Agents \cup {NoAgent} /\ mount \in 0..MaxMounts /\ store \in Graphs
      /\ edits \in 0..MaxEdits /\ clicks \in 0..MaxClicks
      /\ data \in SUBSET [agent : Agents, dsl : Dsls, current : BOOLEAN]
      /\ settings \in SUBSET Agents /\ failures \in 0..MaxFailures
      /\ timer \in BOOLEAN /\ drawer \in BOOLEAN /\ chat \in BOOLEAN
      /\ asking \in 0..MaxRuns /\ history \in Seq(Graphs) /\ index \in Nat
      /\ saves \in SUBSET Saves /\ resets \in SUBSET [agent : Agents, mount : 1..MaxMounts]
      /\ row \in [Agents -> Dsls] /\ replica \in [Agents -> SUBSET Dsls]
      /\ runs \in SUBSET Runs /\ strayed \in SUBSET Agents /\ behind \in SUBSET Agents
  BY DEF TInv, TypeOK
<1>00. AtMostOne(data) /\ PageInv /\ HistoryConsistent
  BY DEF TInv, QueryInv
<1>1. ASSUME /\ page' \in Agents \cup {NoAgent} /\ mount' \in 0..MaxMounts /\ store' \in Graphs
             /\ edits' \in 0..MaxEdits /\ clicks' \in 0..MaxClicks
             /\ data' \in SUBSET [agent : Agents, dsl : Dsls, current : BOOLEAN]
             /\ settings' \in SUBSET Agents /\ failures' \in 0..MaxFailures
             /\ timer' \in BOOLEAN /\ drawer' \in BOOLEAN /\ chat' \in BOOLEAN
             /\ asking' \in 0..MaxRuns /\ history' \in Seq(Graphs) /\ index' \in Nat
             /\ saves' \in SUBSET Saves /\ resets' \in SUBSET [agent : Agents, mount : 1..MaxMounts]
             /\ row' \in [Agents -> Dsls] /\ replica' \in [Agents -> SUBSET Dsls]
             /\ runs' \in SUBSET Runs /\ strayed' \in SUBSET Agents /\ behind' \in SUBSET Agents,
             AtMostOne(data'), PageInv', HistoryConsistent'
      PROVE Goal
  <2>1. Cardinality(data') <= 1 /\ Cardinality(Fetching') <= 1
    BY <1>1, GetsStep, AtMostOneCardinality
  <2>2. TypeOK'
    BY <1>1, <2>1, GetsStep DEF TypeOK
  <2>3. QED BY <1>1, <2>2, GetsStep DEF TInv, QueryInv, AtMostOne
<1>2. CASE UNCHANGED vars
  <2>1. UNCHANGED <<page, mount, store, edits, clicks, data, timer, drawer, chat, asking, history,
                    index, saves, resets, settings, failures, strayed, row, replica, runs, behind>>
    BY <1>2 DEF vars
  <2>2. QED
    BY <1>0, <1>00, <1>1, <2>1 DEF PageInv, HistoryConsistent, Open
<1>3. ASSUME NEW a \in Agents, OpenPage(a) PROVE Goal
  <2> DEFINE shown == {d.dsl.g : d \in data} \ {Empty}
             g == IF shown = {} THEN store ELSE CHOOSE x \in shown : TRUE
             after == Push(<<store>>, 1, g)
  <2>1. g \in Graphs
    <3>1. shown \subseteq Graphs
      BY <1>0 DEF Dsls
    <3>2. QED BY <1>0, <3>1
  <2>2. store' = g /\ history' = after.list /\ index' = after.at
    BY <1>3 DEF OpenPage
  <2>3. /\ after.list \in Seq(Graphs) /\ after.at \in 1..Len(after.list)
        /\ Len(after.list) <= MaxHistory /\ after.list[after.at] = g
    <3>1. <<store>> \in Seq(Graphs) /\ Len(<<store>>) = 1 /\ 1 \in 1..Len(<<store>>) /\ Len(<<store>>) <= MaxHistory
      BY <1>0
    <3> HIDE DEF g
    <3>2. QED BY <2>1, <3>1, PushHistory
  <2> HIDE DEF after, g, shown
  <2>4. /\ UNCHANGED <<edits, clicks, data, drawer, chat, asking, saves, resets, settings, failures, row, replica, runs, behind>>
        /\ page' = a /\ mount' = mount + 1 /\ mount < MaxMounts /\ timer' = TRUE
        /\ strayed' \in SUBSET Agents
    BY <1>0, <1>3 DEF OpenPage
  <2>5. AtMostOne(data')
    BY <1>00, <2>4 DEF AtMostOne
  <2>6. PageInv' /\ HistoryConsistent' /\ mount' \in 0..MaxMounts
    BY <1>0, <2>2, <2>3, <2>4 DEF PageInv, HistoryConsistent
  <2>7. QED BY <1>0, <1>1, <2>1, <2>2, <2>3, <2>4, <2>5, <2>6
<1>4. CASE LeavePage
  <2>1. /\ page' = NoAgent /\ timer' = FALSE /\ drawer' = FALSE /\ chat' = FALSE /\ asking' = 0
        /\ history' = <<>> /\ index' = 0 /\ (data' = {} \/ data' = data)
        /\ UNCHANGED <<mount, store, edits, clicks, saves, resets, settings, failures, strayed, row, replica, runs, behind>>
    BY <1>4 DEF LeavePage
  <2>2. AtMostOne(data') /\ PageInv' /\ HistoryConsistent'
    BY <1>00, <2>1 DEF AtMostOne, PageInv, HistoryConsistent, Open
  <2>3. history' \in Seq(Graphs) /\ index' \in Nat /\ asking' \in 0..MaxRuns
    BY <2>1
  <2>4. timer' \in BOOLEAN /\ drawer' \in BOOLEAN /\ chat' \in BOOLEAN
    BY <2>1
  <2>5. page' \in Agents \cup {NoAgent}
        /\ data' \in SUBSET [agent : Agents, dsl : Dsls, current : BOOLEAN]
    BY <1>0, <2>1
  <2>6. QED BY <1>0, <1>1, <2>1, <2>2, <2>3, <2>4, <2>5
<1>5. ASSUME Open, NEW g \in Graphs, SetStore(g), UNCHANGED <<page, mount>>
      PROVE  /\ store' \in Graphs /\ timer' \in BOOLEAN /\ history' \in Seq(Graphs) /\ index' \in Nat
             /\ HistoryConsistent' /\ PageInv'
  BY <1>0, <1>00, <1>5, SetStoreHistory DEF HistoryConsistent, PageInv, Open
<1>6. CASE Edit
  <2>1. <<Owner(store), edits + 1>> \in Graphs
    <3>1. store \in Agents \X (0..MaxEdits)
      BY <1>0, <1>6 DEF Edit, Graphs
    <3>2. Owner(store) \in Agents
      BY <3>1 DEF Owner
    <3>3. edits + 1 \in 0..MaxEdits
      BY <1>0, <1>6 DEF Edit
    <3>4. QED BY <3>2, <3>3 DEF Graphs
  <2>2. /\ UNCHANGED <<page, mount, clicks, data, drawer, chat, asking, saves, resets, settings, failures, strayed,
                        row, replica, runs, behind>>
        /\ edits' \in 0..MaxEdits /\ Open /\ SetStore(<<Owner(store), edits + 1>>)
    BY <1>0, <1>6 DEF Edit
  <2>3. QED BY <1>0, <1>00, <1>1, <1>5, <2>1, <2>2
<1>7. ASSUME NEW i \in 1..Len(history), Open, Show(i) PROVE Goal
  <2>1. /\ UNCHANGED <<page, mount, edits, data, drawer, chat, asking, saves, resets,
                        settings, failures, row, replica, runs, behind>>
        /\ clicks' \in 0..MaxClicks /\ index' = i /\ store' = history[i] /\ history' = history /\ timer' = TRUE
    BY <1>0, <1>7 DEF Show, Click
  <2>2. history[i] \in Graphs
    BY <1>0
  <2>3. strayed' \in SUBSET Agents
    BY <1>0, <1>7 DEF Show, Open
  <2>4. PageInv' /\ HistoryConsistent'
    BY <1>0, <1>00, <1>7, <2>1 DEF PageInv, HistoryConsistent, Open
  <2>5. QED BY <1>0, <1>00, <1>1, <2>1, <2>2, <2>3, <2>4
<1>8. CASE Undo \/ Redo
  <2>1. Open /\ index \in 1..Len(history) /\ Len(history) \in Nat
    BY <1>0, <1>00, <1>8 DEF Undo, Redo, HistoryConsistent
  <2>2. QED BY <1>7, <1>8, <2>1 DEF Undo, Redo
<1>9. ASSUME UNCHANGED <<page, mount, store, history, index>> PROVE PageInv' /\ HistoryConsistent'
  BY <1>00, <1>9 DEF PageInv, HistoryConsistent, Open
<1>10. ASSUME NEW next \in Continuations, SaveGraph(next) PROVE saves' \in SUBSET Saves
  BY <1>0, <1>10, SaveGraphEffect
<1>11. CASE Autosave
  <2>1. saves' \in SUBSET Saves
    BY <1>0, <1>10, <1>11 DEF Autosave, Continuations
  <2>2. QED BY <1>0, <1>00, <1>1, <1>9, <1>11, <2>1 DEF Autosave
<1>12. ASSUME NEW next \in {"nothing", "refetch"}, SaveByHand(next) PROVE Goal
  <2>1. saves' \in SUBSET Saves
    BY <1>0, <1>10, <1>12 DEF SaveByHand, Continuations
  <2>2. clicks' \in 0..MaxClicks
    BY <1>0, <1>12 DEF SaveByHand, Click
  <2>3. QED BY <1>0, <1>00, <1>1, <1>9, <1>12, <2>1, <2>2 DEF SaveByHand
<1>13. CASE RunClicked
  <2>1. saves' \in SUBSET Saves
    BY <1>0, <1>10, <1>13 DEF RunClicked, Continuations
  <2>2. /\ clicks' \in 0..MaxClicks
        /\ drawer' \in BOOLEAN /\ chat' \in BOOLEAN
        /\ asking' \in 0..MaxRuns
    <3>1. clicks' \in 0..MaxClicks
      BY <1>0, <1>13 DEF RunClicked, Click
    <3>2. drawer' \in BOOLEAN /\ chat' \in BOOLEAN
      BY <1>0, <1>13 DEF RunClicked
    <3>3. asking' \in 0..MaxRuns
      BY <1>0, <1>13 DEF RunClicked
    <3>4. QED BY <3>1, <3>2, <3>3
  <2>3. QED BY <1>0, <1>00, <1>1, <1>9, <1>13, <2>1, <2>2 DEF RunClicked
<1>14. CASE RunSheetOk
  <2>1. saves' \in SUBSET Saves
    BY <1>0, <1>10, <1>14 DEF RunSheetOk, Continuations
  <2>2. /\ clicks' \in 0..MaxClicks
        /\ drawer' \in BOOLEAN /\ chat' \in BOOLEAN
        /\ asking' \in 0..MaxRuns
    <3>1. clicks' \in 0..MaxClicks
      BY <1>0, <1>14 DEF RunSheetOk, Click
    <3>2. drawer' \in BOOLEAN /\ chat' \in BOOLEAN
      BY <1>0, <1>14 DEF RunSheetOk
    <3>3. asking' \in 0..MaxRuns
      BY <1>0, <1>14 DEF RunSheetOk
    <3>4. QED BY <3>1, <3>2, <3>3
  <2>3. Open /\ SetStore(store) /\ UNCHANGED <<page, mount>>
    BY <1>14 DEF RunSheetOk, Loaded
  <2>4. QED BY <1>0, <1>00, <1>1, <1>5, <1>14, <2>1, <2>2, <2>3 DEF RunSheetOk
<1>15. CASE HideDrawer
  <2>1. /\ clicks' \in 0..MaxClicks
        /\ drawer' \in BOOLEAN /\ chat' \in BOOLEAN
        /\ asking' \in 0..MaxRuns
    <3>1. clicks' \in 0..MaxClicks
      BY <1>0, <1>15 DEF HideDrawer, Click
    <3>2. drawer' \in BOOLEAN /\ chat' \in BOOLEAN
      BY <1>0, <1>15 DEF HideDrawer
    <3>3. asking' \in 0..MaxRuns
      BY <1>0, <1>15 DEF HideDrawer
    <3>4. QED BY <3>1, <3>2, <3>3
  <2>2. QED BY <1>0, <1>00, <1>1, <1>9, <1>15, <2>1 DEF HideDrawer
<1>16. CASE Send
  <2>1. PICK i \in 1..MaxRuns, dsl \in replica[page] :
          /\ runs' = runs \cup {[id |-> i, agent |-> page, dsl |-> dsl, stale |-> page \in behind]}
          /\ asking' = i
    BY <1>16 DEF Send
  <2>2. page \in Agents
    BY <1>0, <1>16 DEF Send, Loaded, Open
  <2>3. [id |-> i, agent |-> page, dsl |-> dsl, stale |-> page \in behind] \in Runs
    BY <1>0, <2>2 DEF Runs
  <2>4. runs' \in SUBSET Runs /\ asking' \in 0..MaxRuns
    BY <1>0, <2>1, <2>3
  <2>5. QED BY <1>0, <1>00, <1>1, <1>9, <1>16, <2>4 DEF Send
<1>161. ASSUME Failure PROVE failures' \in 0..MaxFailures
  BY <1>0, <1>161 DEF Failure
<1>162. ASSUME NEW s \in saves, UpdateRow(s)
        PROVE  /\ data' \in SUBSET [agent : Agents, dsl : Dsls, current : BOOLEAN] /\ AtMostOne(data')
               /\ row' \in [Agents -> Dsls] /\ runs' \in SUBSET Runs /\ saves' \in SUBSET Saves
  <2>1. s.agent \in Agents /\ s.dsl \in Dsls /\ s.mount \in 1..MaxMounts
    BY <1>0 DEF Saves
  <2>2. data' \in SUBSET [agent : Agents, dsl : Dsls, current : BOOLEAN] /\ AtMostOne(data')
    BY <1>162, <2>1, OutdateType DEF UpdateRow
  <2>3. row' \in [Agents -> Dsls] /\ saves' \in SUBSET Saves
    BY <1>0, <1>162, <2>1 DEF UpdateRow
  <2>4. runs' \in SUBSET Runs
    <3>1. \A r \in runs : [r EXCEPT !.stale = @ \/ r.agent = s.agent] \in Runs
      BY <1>0 DEF Runs
    <3>2. QED BY <1>162, <3>1 DEF UpdateRow
  <2>5. QED BY <2>2, <2>3, <2>4
<1>163. ASSUME NEW s \in saves, Saved(s) PROVE resets' \in SUBSET [agent : Agents, mount : 1..MaxMounts]
  <2>1. s.agent \in Agents /\ s.mount \in 1..MaxMounts
    BY <1>0 DEF Saves
  <2>2. QED BY <1>0, <1>163, <2>1 DEF Saved
<1>17. ASSUME NEW s \in saves, SetCanvas(s) PROVE Goal
  <2>1. s.agent \in Agents /\ s.dsl \in Dsls
    BY <1>0 DEF Saves
  <2>2. replica' \in [Agents -> SUBSET Dsls] /\ behind' \in SUBSET Agents
    BY <1>0, <1>17, <2>1 DEF SetCanvas, ReplaceForSet
  <2>3. /\ UpdateRow(s) /\ Saved(s)
        /\ UNCHANGED <<page, mount, store, edits, clicks, timer, drawer, chat, asking, history, index,
                       strayed, settings, failures>>
    BY <1>17 DEF SetCanvas
  <2>4. QED BY <1>0, <1>1, <1>9, <1>162, <1>163, <2>2, <2>3
<1>171. ASSUME NEW s \in saves, NEW reported \in BOOLEAN, SetUnsynced(s, reported) PROVE Goal
  <2>1. s.agent \in Agents
    BY <1>0 DEF Saves
  <2>2. behind' \in SUBSET Agents
    BY <1>0, <1>171, <2>1 DEF SetUnsynced
  <2>3. /\ UpdateRow(s) /\ Failure
        /\ UNCHANGED <<page, mount, store, edits, clicks, timer, drawer, chat, asking, history, index,
                       strayed, settings, replica>>
    BY <1>171 DEF SetUnsynced
  <2>4. resets' \in SUBSET [agent : Agents, mount : 1..MaxMounts]
    BY <1>0, <1>163, <1>171 DEF SetUnsynced
  <2>5. QED BY <1>0, <1>1, <1>9, <1>161, <1>162, <2>2, <2>3, <2>4
<1>172. ASSUME NEW s \in saves, SetRefused(s) PROVE Goal
  <2>1. saves' \in SUBSET Saves /\ Failure
    BY <1>0, <1>172 DEF SetRefused
  <2>2. QED BY <1>0, <1>00, <1>1, <1>9, <1>161, <1>172, <2>1 DEF SetRefused
<1>173. ASSUME NEW q \in resets, ResetFails(q) PROVE Goal
  <2>1. resets' \in SUBSET [agent : Agents, mount : 1..MaxMounts] /\ Failure
    BY <1>0, <1>173 DEF ResetFails
  <2>2. QED BY <1>0, <1>00, <1>1, <1>9, <1>161, <1>173, <2>1 DEF ResetFails
<1>174. ASSUME NEW a \in settings, SettingRefused(a) PROVE Goal
  <2>1. settings' \in SUBSET Agents /\ Failure
    BY <1>0, <1>174 DEF SettingRefused
  <2>2. QED BY <1>0, <1>00, <1>1, <1>9, <1>161, <1>174, <2>1 DEF SettingRefused
<1>175. ASSUME NEW a \in settings, SetSetting(a) PROVE Goal
  <2>1. a \in Agents /\ settings' \in SUBSET Agents
    BY <1>0, <1>175 DEF SetSetting
  <2>2. data' \in SUBSET [agent : Agents, dsl : Dsls, current : BOOLEAN] /\ AtMostOne(data')
    BY <1>175, <2>1, OutdateType DEF SetSetting
  <2>3. QED BY <1>0, <1>1, <1>9, <1>175, <2>1, <2>2 DEF SetSetting
<1>176. CASE SubmitSettings
  <2>1. clicks' \in 0..MaxClicks
    BY <1>0, <1>176 DEF SubmitSettings, Click
  <2>2. settings' \in SUBSET Agents
    BY <1>0, <1>176 DEF SubmitSettings, Open
  <2>3. QED BY <1>0, <1>00, <1>1, <1>9, <1>176, <2>1, <2>2 DEF SubmitSettings
<1>18. ASSUME NEW q \in resets, ResetCanvas(q) PROVE Goal
  <2>1. q.agent \in Agents
    BY <1>0
  <2>2. data' \in SUBSET [agent : Agents, dsl : Dsls, current : BOOLEAN] /\ AtMostOne(data')
    BY <1>18, <2>1, OutdateType DEF ResetCanvas
  <2>3. row' \in [Agents -> Dsls]
    BY <1>0, <1>18, <2>1 DEF ResetCanvas, Dsls
  <2>4. drawer' \in BOOLEAN /\ chat' \in BOOLEAN
    BY <1>0, <1>18 DEF ResetCanvas
  <2>5. /\ resets' \in SUBSET [agent : Agents, mount : 1..MaxMounts]
        /\ UNCHANGED <<page, mount, store, edits, clicks, timer, asking, history, index, saves,
                       settings, failures, strayed, replica, runs, behind>>
    BY <1>0, <1>18 DEF ResetCanvas
  <2>6. QED BY <1>0, <1>00, <1>1, <1>9, <2>2, <2>3, <2>4, <2>5
<1>19. ASSUME NEW f \in gets, Respond(f) PROVE Goal
  <2>1. f.agent \in Agents /\ f.dsl \in Dsls /\ f.dsl.g \in Graphs
    BY DEF TInv, TypeOK, Gets, Dsls
  <2>2. PICK new : new = [agent |-> f.agent, dsl |-> f.dsl, current |-> f.since = "nothing"]
    OBVIOUS
  <2>3. new \in [agent : Agents, dsl : Dsls, current : BOOLEAN]
    BY <2>1, <2>2
  <2>4. data' = {new} \/ data' = {}
    BY <1>19, <2>2 DEF Respond
  <2>5. AtMostOne(data')
    BY <2>4 DEF AtMostOne
  <2>6. strayed' \in SUBSET Agents
    BY <1>0, <1>19 DEF Respond, Open
  <2>7. UNCHANGED <<page, mount, edits, clicks, drawer, chat, asking, saves, resets, settings, failures,
                    row, replica, runs, behind>>
    BY <1>19 DEF Respond
  <2>8. \/ Open /\ SetStore(f.dsl.g)
        \/ UNCHANGED <<store, history, index, timer>>
    BY <1>19 DEF Respond
  <2>9. /\ store' \in Graphs /\ timer' \in BOOLEAN /\ history' \in Seq(Graphs) /\ index' \in Nat
        /\ HistoryConsistent' /\ PageInv'
    BY <1>0, <1>5, <1>9, <2>1, <2>7, <2>8
  <2>10. QED BY <1>0, <1>1, <2>3, <2>4, <2>5, <2>6, <2>7, <2>9
<1>191. ASSUME NEW f \in gets, ReadRow(f) \/ ReadReplica(f) PROVE Goal
  <2>1. UNCHANGED <<browser, saves, resets, settings, failures, server>>
    BY <1>191 DEF ReadRow, ReadReplica
  <2>2. QED BY <1>0, <1>00, <1>1, <1>9, <2>1
<1>192. ASSUME NEW f \in gets, GetWithoutRedis(f) PROVE Goal
  <2>1. UNCHANGED <<browser, saves, resets, settings, server>> /\ Failure
    BY <1>192 DEF GetWithoutRedis
  <2>2. QED BY <1>0, <1>00, <1>1, <1>9, <1>161, <2>1
<1>193. ASSUME NEW f \in gets, CreateReplica(f) PROVE Goal
  <2>1. f.agent \in Agents /\ f.dsl \in Dsls
    BY DEF TInv, TypeOK, Gets
  <2>2. replica' \in [Agents -> SUBSET Dsls] /\ behind' \in SUBSET Agents
    BY <1>0, <1>193, <2>1 DEF CreateReplica
  <2>3. UNCHANGED <<browser, saves, resets, settings, failures, row, runs>>
    BY <1>193 DEF CreateReplica
  <2>4. QED BY <1>0, <1>00, <1>1, <1>9, <2>2, <2>3
<1>20. ASSUME NEW r \in runs, RunEnds(r) \/ RunFails(r) PROVE Goal
  <2>1. r.agent \in Agents /\ r.dsl \in Dsls /\ [r.dsl EXCEPT !.hist = TRUE] \in Dsls
    BY <1>0 DEF Runs, Dsls
  <2>2. replica' \in [Agents -> SUBSET Dsls] /\ behind' \in SUBSET Agents
    <3>1. CASE RunFails(r)
      BY <1>0, <3>1 DEF RunFails
    <3>2. CASE RunEnds(r)
      <4>1. PICK d \in Dsls : d = [r.dsl EXCEPT !.hist = TRUE]
        BY <2>1
      <4>2. replica' = [replica EXCEPT ![r.agent] = {d}]
        BY <3>2, <4>1 DEF RunEnds, CommitAfterRun
      <4>3. replica' \in [Agents -> SUBSET Dsls]
        BY <1>0, <4>1, <4>2
      <4>4. behind' \in SUBSET Agents
        BY <1>0, <2>1, <3>2 DEF RunEnds, CommitAfterRun
      <4> QED BY <4>3, <4>4
    <3> QED BY <1>20, <3>1, <3>2
  <2>4. /\ asking' \in 0..MaxRuns /\ runs' \in SUBSET Runs
        /\ UNCHANGED <<page, mount, store, edits, clicks, data, timer, drawer, chat, history, index,
                       saves, resets, settings, failures, strayed, row>>
    BY <1>0, <1>20 DEF RunEnds, RunFails, StreamEnds
  <2>5. QED BY <1>0, <1>00, <1>1, <1>9, <2>2, <2>4
<1>21. ASSUME NEW a \in Agents, ReplicaExpires(a) PROVE Goal
  <2>1. replica' \in [Agents -> SUBSET Dsls] /\ behind' \in SUBSET Agents
    BY <1>0, <1>21 DEF ReplicaExpires
  <2>2. QED BY <1>0, <1>00, <1>1, <1>9, <1>21, <2>1 DEF ReplicaExpires
<1> HIDE Bounds DEF browser, calls, server
<1>22. CASE User
  BY <1>3, <1>4, <1>6, <1>8, <1>12, <1>13, <1>14, <1>15, <1>16, <1>176, <1>22 DEF User
<1>23. CASE Server
  BY <1>17, <1>171, <1>172, <1>173, <1>174, <1>175, <1>18, <1>19, <1>191, <1>192, <1>193, <1>20, <1>21,
     <1>23 DEF Server
<1>24. Goal
  BY <1>2, <1>11, <1>22, <1>23 DEF Next
<1>25. QED BY <1>24

-----------------------------------------------------------------------------
\* Every step keeps what belongs to an agent with that agent: pages, details
\* and saves, and with them the rows.
LEMMA OwnStep ==
  ASSUME TInv, OwnInv, NoForeignSave, [Next]_vars
  PROVE  OwnInv' /\ NoForeignSave'
<1> DEFINE Goal == OwnInv' /\ NoForeignSave'
           Page == Open' /\ data' # {} => Owner(store') = page' \/ page' \in strayed'
           Details == \A d \in data' : Owner(d.dsl.g) = d.agent \/ d.agent \in strayed'
           Pending == \A s \in saves' : Owner(s.dsl.g) = s.agent \/ s.agent \in strayed'
           Rows == \A a \in Agents : Owner(row'[a].g) # a => a \in strayed'
           Same == \A f \in gets' : f.same => f.by # "nobody" /\ data' # {}
<1> USE DEF browser, calls, server
<1>0. /\ \A a \in Agents : Owner(row[a].g) = a \/ a \in strayed
      /\ \A d \in data : Owner(d.dsl.g) = d.agent \/ d.agent \in strayed
      /\ \A s \in saves : Owner(s.dsl.g) = s.agent \/ s.agent \in strayed
      /\ Open /\ data # {} => Owner(store) = page \/ page \in strayed
      /\ \A f \in gets : f.agent \in Agents
      /\ \A f \in gets : f.phase # "sent" => Owner(f.dsl.g) = f.agent \/ f.agent \in strayed
      /\ \A f \in gets : f.same => f.by # "nobody" /\ data # {}
  BY DEF OwnInv, NoForeignSave, Loaded, TInv, TypeOK, Gets
<1>00. strayed \subseteq strayed'
  BY DEF Next, User, Server, vars, OpenPage, LeavePage, Edit, Undo, Redo, Show, SaveByHand, SubmitSettings,
         RunClicked, RunSheetOk, HideDrawer, Send, Autosave, SetCanvas, SetUnsynced, SetRefused,
         ResetCanvas, ResetFails, SetSetting, SettingRefused, ReadRow, ReadReplica, CreateReplica,
         GetWithoutRedis, Respond, RunEnds, RunFails, StreamEnds, ReplicaExpires
<1>01. \A h \in gets' : h.phase # "sent" => Owner(h.dsl.g) = h.agent \/ h.agent \in strayed'
  <2> SUFFICES ASSUME NEW h \in gets', h.phase # "sent"
               PROVE  Owner(h.dsl.g) = h.agent \/ h.agent \in strayed'
    OBVIOUS
  <2>1. CASE Kept(h)
    <3>1. PICK f \in gets : h.agent = f.agent /\ h.dsl = f.dsl /\ f.phase # "sent"
      BY <2>1 DEF Kept
    <3>2. QED BY <1>0, <1>00, <3>1
  <2>2. CASE New(h)
    BY <2>2, SentType DEF New
  <2>3. CASE JustRead(h)
    BY <1>0, <1>00, <2>3 DEF JustRead
  <2>4. QED BY <2>1, <2>2, <2>3, GetsStep
<1>02. ASSUME data # {} => data' # {} PROVE Same
  <2> SUFFICES ASSUME NEW h \in gets', h.same PROVE h.by # "nobody" /\ data' # {}
    OBVIOUS
  <2>1. CASE Kept(h)
    <3>1. PICK f \in gets : f.same /\ h.by = f.by
      BY <2>1 DEF Kept
    <3>2. QED BY <1>0, <1>02, <3>1
  <2>2. CASE New(h)
    BY <2>2, SentType DEF New
  <2>3. CASE JustRead(h)
    BY <2>3 DEF JustRead
  <2>4. QED BY <2>1, <2>2, <2>3, GetsStep
<1>1. ASSUME Page, Details, Pending, Rows, Same PROVE Goal
  <2>1. \A h \in gets' : h.phase # "sent" => Owner(h.dsl.g) = h.agent \/ h.agent \in strayed'
    BY <1>01
  <2>2. QED BY <1>1, <2>1 DEF OwnInv, NoForeignSave, Loaded, Owner
<1>2. ASSUME UNCHANGED <<data, saves, row>>, strayed \subseteq strayed'
      PROVE Details /\ Pending /\ Rows
  BY <1>0, <1>2 DEF Owner
<1>3. CASE UNCHANGED vars
  BY <1>0, <1>02, <1>1, <1>3 DEF vars, Open, Owner
<1>4. ASSUME NEW a \in Agents, OpenPage(a) PROVE Goal
  <2> DEFINE shown == {d.dsl.g : d \in data} \ {Empty}
  <2>1. /\ page' = a /\ UNCHANGED <<data, saves, row>>
        /\ store' = IF shown = {} THEN store ELSE CHOOSE x \in shown : TRUE
        /\ strayed \subseteq strayed'
        /\ (\E d \in data : d.agent # a) => a \in strayed'
    BY <1>4 DEF OpenPage
  <2>2. Page
    <3> SUFFICES ASSUME data # {}, a \notin strayed' PROVE Owner(store') = a
      BY <2>1
    <3>1. PICK d : data = {d}
      BY DEF TInv, QueryInv, AtMostOne
    <3>2. d.agent = a /\ Owner(d.dsl.g) = a
      BY <1>0, <2>1, <3>1
    <3>3. d.dsl.g # Empty
      BY <3>2, SessionAssumption DEF Owner, Empty
    <3>4. shown = {d.dsl.g}
      BY <3>1, <3>3
    <3>5. store' = d.dsl.g
      BY <2>1, <3>4
    <3>6. QED BY <3>2, <3>5
  <2>3. QED BY <1>02, <1>1, <1>2, <2>1, <2>2
<1>5. CASE LeavePage
  <2>1. ~Open' /\ data' \subseteq data /\ UNCHANGED <<saves, row, strayed, gets>>
    BY <1>5 DEF LeavePage, Open
  <2>2. Same
    <3>1. Fetching # {} => data' = data
      BY <1>5 DEF LeavePage
    <3>2. \A f \in gets : f.same => f \in Fetching
      BY <1>0 DEF Fetching
    <3>3. QED BY <1>0, <2>1, <3>1, <3>2
  <2>3. QED BY <1>0, <1>1, <2>1, <2>2 DEF Owner
<1>6. ASSUME UNCHANGED <<page, store, data, strayed, row>>, Pending PROVE Goal
  BY <1>0, <1>02, <1>1, <1>6 DEF Open, Owner
<1>7. CASE Edit
  <2>1. /\ UNCHANGED <<page, data, saves, strayed, row>> /\ Owner(store') = Owner(store)
    BY <1>7 DEF Edit, SetStore, Owner
  <2>2. Page
    BY <1>0, <2>1 DEF Open, Owner
  <2>3. QED BY <1>02, <1>1, <1>2, <2>1, <2>2
<1>8. ASSUME NEW i, Open, Show(i) PROVE Goal
  <2>1. /\ UNCHANGED <<page, data, saves, row>> /\ store' = history[i] /\ strayed \subseteq strayed'
        /\ Owner(history[i]) # page => page \in strayed'
    BY <1>8 DEF Show
  <2>2. Page
    BY <2>1 DEF Owner
  <2>3. QED BY <1>02, <1>1, <1>2, <2>1, <2>2
<1>9. ASSUME NEW next \in Continuations, SaveGraph(next), UNCHANGED strayed PROVE Pending
  BY <1>0, <1>9, SaveGraphEffect DEF Owner
<1>10. CASE Autosave
  <2>1. Pending
    BY <1>0, <1>9, <1>10 DEF Autosave, Continuations, Owner
  <2>2. QED BY <1>6, <1>10, <2>1 DEF Autosave
<1>11. ASSUME NEW next \in {"nothing", "refetch"}, SaveByHand(next) PROVE Goal
  <2>1. Pending
    BY <1>9, <1>11 DEF SaveByHand, Continuations
  <2>2. QED BY <1>6, <1>11, <2>1 DEF SaveByHand
<1>12. CASE RunClicked
  <2>1. Pending
    BY <1>0, <1>9, <1>12 DEF RunClicked, Continuations, Owner
  <2>2. QED BY <1>6, <1>12, <2>1 DEF RunClicked
<1>13. CASE RunSheetOk
  <2>1. Pending
    BY <1>9, <1>13 DEF RunSheetOk, Continuations
  <2>2. QED BY <1>6, <1>13, <2>1 DEF RunSheetOk, SetStore
<1>14. CASE \/ HideDrawer \/ Send \/ SubmitSettings
            \/ (\E a \in Agents : ReplicaExpires(a)) \/ (\E r \in runs : RunEnds(r) \/ RunFails(r))
            \/ (\E q \in resets : ResetFails(q)) \/ (\E a \in settings : SettingRefused(a))
            \/ (\E f \in gets : ReadRow(f) \/ ReadReplica(f) \/ CreateReplica(f) \/ GetWithoutRedis(f))
  <2>1. UNCHANGED <<page, store, data, saves, strayed, row>>
    BY <1>14 DEF HideDrawer, Send, SubmitSettings, ReplicaExpires, RunEnds, RunFails, StreamEnds, ResetFails,
                 SettingRefused, ReadRow, ReadReplica, CreateReplica, GetWithoutRedis
  <2>2. QED BY <1>0, <1>6, <2>1 DEF Owner
<1>141. ASSUME NEW s \in saves, SetRefused(s) PROVE Goal
  <2>1. UNCHANGED <<page, store, data, strayed, row>> /\ saves' \subseteq saves
    BY <1>141 DEF SetRefused
  <2>2. QED BY <1>0, <1>6, <2>1 DEF Owner
<1>142. ASSUME NEW a \in settings, SetSetting(a) PROVE Goal
  <2>1. a \in Agents /\ UNCHANGED <<page, store, strayed, saves, row>>
    BY <1>142 DEF SetSetting, TInv, TypeOK
  <2>2. /\ \A e \in data' : \E d \in data : e.agent = d.agent /\ e.dsl = d.dsl
        /\ data = {} <=> data' = {}
    BY <1>142, <2>1, OutdateType DEF SetSetting
  <2>3. Page /\ Details /\ Pending /\ Rows
    BY <1>0, <2>1, <2>2 DEF Open, Owner
  <2>4. QED BY <1>02, <1>1, <2>2, <2>3
<1>15. ASSUME NEW s \in saves, UpdateRow(s), UNCHANGED <<page, store, strayed>> PROVE Goal
  <2>1. s.agent \in Agents
    BY DEF TInv, TypeOK, Saves
  <2>2. /\ saves' \subseteq saves /\ UNCHANGED <<page, store, strayed>>
        /\ row' = [row EXCEPT ![s.agent] = s.dsl]
    BY <1>15 DEF UpdateRow
  <2>3. /\ \A e \in data' : \E d \in data : e.agent = d.agent /\ e.dsl = d.dsl
        /\ data = {} <=> data' = {}
    BY <1>15, <2>1, OutdateType DEF UpdateRow
  <2>4. Page /\ Details /\ Pending
    BY <1>0, <2>2, <2>3 DEF Open, Owner
  <2>5. Rows
    BY <1>0, <2>1, <2>2 DEF Owner, TInv, TypeOK
  <2>6. QED BY <1>02, <1>1, <2>3, <2>4, <2>5
<1>16. ASSUME NEW q \in resets, ResetCanvas(q) PROVE Goal
  <2>1. q.agent \in Agents
    BY DEF TInv, TypeOK
  <2>2. /\ UNCHANGED <<page, store, strayed, saves>>
        /\ row' = [row EXCEPT ![q.agent].hist = FALSE]
    BY <1>16 DEF ResetCanvas
  <2>3. /\ \A e \in data' : \E d \in data : e.agent = d.agent /\ e.dsl = d.dsl
        /\ data = {} <=> data' = {}
    BY <1>16, <2>1, OutdateType DEF ResetCanvas
  <2>4. Page /\ Details /\ Pending
    BY <1>0, <2>2, <2>3 DEF Open, Owner
  <2>5. \A a \in Agents : row'[a].g = row[a].g
    BY <2>1, <2>2 DEF TInv, TypeOK, Dsls
  <2>6. Rows
    BY <1>0, <2>2, <2>5 DEF Owner
  <2>7. QED BY <1>02, <1>1, <2>3, <2>4, <2>6
<1>17. ASSUME NEW f \in gets, Respond(f) PROVE Goal
  <2>0. PICK new : new = [agent |-> f.agent, dsl |-> f.dsl, current |-> f.since = "nothing"]
    OBVIOUS
  <2>1. new.agent = f.agent /\ new.dsl = f.dsl
    BY <2>0
  <2>2. /\ UNCHANGED <<page, saves, row>>
        /\ f.phase = "done" /\ f \in Fetching /\ gets' = gets \ {f}
        /\ Open /\ f.agent # page => page \in strayed'
        /\ data' = IF Open THEN {new} ELSE {}
        /\ IF Open /\ ~f.same /\ f.dsl.g # Empty
           THEN store' = f.dsl.g ELSE UNCHANGED store
    BY <1>17, <2>0 DEF Respond, SetStore
  <2>3. Owner(f.dsl.g) = f.agent \/ f.agent \in strayed
    BY <1>0, <2>2
  <2>4. Details
    BY <1>00, <2>1, <2>2, <2>3
  <2>5. Pending /\ Rows
    BY <1>0, <1>00, <2>2 DEF Owner
  <2>6. Page
    <3> SUFFICES ASSUME Open, page \notin strayed' PROVE Owner(store') = page
      BY <2>2 DEF Open
    <3>1. f.agent = page /\ Owner(f.dsl.g) = page
      BY <1>00, <2>2, <2>3
    <3>2. f.dsl.g # Empty
      BY <1>0, <3>1, SessionAssumption DEF Owner, Empty
    <3>3. CASE f.same
      BY <1>0, <1>00, <2>2, <3>3 DEF Owner
    <3>4. CASE ~f.same
      BY <2>2, <3>1, <3>2, <3>4 DEF Owner
    <3>5. QED BY <3>3, <3>4
  <2>7. Same
    <3>1. \A g \in gets : g.same => g = f
      BY <1>0, <2>2 DEF TInv, QueryInv, AtMostOne, Fetching
    <3>2. QED BY <2>2, <3>1
  <2>8. QED BY <1>1, <2>4, <2>5, <2>6, <2>7
<1>171. ASSUME NEW s \in saves, SetCanvas(s) PROVE Goal
  BY <1>15, <1>171 DEF SetCanvas
<1>172. ASSUME NEW s \in saves, NEW reported \in BOOLEAN, SetUnsynced(s, reported) PROVE Goal
  BY <1>15, <1>172 DEF SetUnsynced
<1> HIDE DEF browser, calls, server
<1>18. CASE User
  BY <1>4, <1>5, <1>7, <1>8, <1>11, <1>12, <1>13, <1>14, <1>18 DEF User, Undo, Redo
<1>19. CASE Server
  BY <1>14, <1>141, <1>142, <1>16, <1>17, <1>171, <1>172, <1>19 DEF Server
<1>20. QED
  BY <1>3, <1>10, <1>18, <1>19 DEF Next

\* Messages of a conversation stay out of details, saves and rows.
LEMMA QuietStep ==
  ASSUME TInv, QuietInv, SavedWithoutMessages, [Next]_vars
  PROVE  QuietInv' /\ SavedWithoutMessages'
<1> DEFINE Goal == QuietInv' /\ SavedWithoutMessages'
           Pending == \A s \in saves' : ~s.dsl.hist
<1> USE DEF QuietInv, SavedWithoutMessages, browser, calls, server
<1>0. \A h \in gets' : ~h.dsl.hist
  <2> SUFFICES ASSUME NEW h \in gets' PROVE ~h.dsl.hist
    OBVIOUS
  <2>1. CASE Kept(h)
    BY <2>1 DEF Kept
  <2>2. CASE New(h)
    BY <2>2, SentType DEF New
  <2>3. CASE JustRead(h)
    BY <2>3 DEF JustRead
  <2>4. QED BY <2>1, <2>2, <2>3, GetsStep
<1>1. ASSUME data' \subseteq data, Pending, UNCHANGED row PROVE Goal
  BY <1>0, <1>1
<1>2. ASSUME NEW next \in Continuations, SaveGraph(next) PROVE Pending
  BY <1>2, SaveGraphEffect
<1>3. CASE \/ UNCHANGED vars \/ \E a \in Agents : OpenPage(a) \/ ReplicaExpires(a)
           \/ LeavePage \/ Edit \/ Undo \/ Redo \/ HideDrawer \/ Send \/ SubmitSettings
           \/ \E r \in runs : RunEnds(r) \/ RunFails(r)
           \/ \E q \in resets : ResetFails(q)
           \/ \E a \in settings : SettingRefused(a)
           \/ \E f \in gets : ReadRow(f) \/ ReadReplica(f) \/ CreateReplica(f) \/ GetWithoutRedis(f)
  <2>1. data' \subseteq data /\ UNCHANGED <<saves, row>>
    BY <1>3 DEF vars, OpenPage, ReplicaExpires, LeavePage, Edit, Undo, Redo, Show, HideDrawer, Send,
                RunEnds, RunFails, StreamEnds, SubmitSettings, ResetFails, SettingRefused, ReadRow, ReadReplica,
                CreateReplica, GetWithoutRedis
  <2>2. QED BY <1>1, <2>1
<1>4. CASE Autosave \/ SaveByHand("nothing") \/ SaveByHand("refetch") \/ RunClicked \/ RunSheetOk
  <2>1. UNCHANGED <<data, row>>
    BY <1>4 DEF Autosave, SaveByHand, RunClicked, RunSheetOk
  <2>2. Pending
    BY <1>2, <1>4 DEF Autosave, SaveByHand, RunClicked, RunSheetOk, Continuations
  <2>3. QED BY <1>1, <2>1, <2>2
<1>41. ASSUME NEW s \in saves, SetRefused(s) PROVE Goal
  <2>1. UNCHANGED <<data, row>> /\ saves' \subseteq saves
    BY <1>41 DEF SetRefused
  <2>2. QED BY <1>1, <2>1
<1>42. ASSUME NEW a \in settings, SetSetting(a) PROVE Goal
  <2>1. a \in Agents /\ UNCHANGED <<saves, row>>
    BY <1>42 DEF SetSetting, TInv, TypeOK
  <2>2. \A e \in data' : \E d \in data : e.agent = d.agent /\ e.dsl = d.dsl
    BY <1>42, <2>1, OutdateType DEF SetSetting
  <2>3. QED BY <1>0, <2>1, <2>2
<1>5. ASSUME NEW s \in saves, UpdateRow(s) PROVE Goal
  <2>1. s.agent \in Agents
    BY DEF TInv, TypeOK, Saves
  <2>2. saves' \subseteq saves /\ row' = [row EXCEPT ![s.agent] = s.dsl]
    BY <1>5 DEF UpdateRow
  <2>3. \A e \in data' : \E d \in data : e.agent = d.agent /\ e.dsl = d.dsl
    BY <1>5, <2>1, OutdateType DEF UpdateRow
  <2>4. QED BY <1>0, <2>1, <2>2, <2>3 DEF TInv, TypeOK
<1>6. ASSUME NEW q \in resets, ResetCanvas(q) PROVE Goal
  <2>1. q.agent \in Agents
    BY DEF TInv, TypeOK
  <2>2. UNCHANGED saves /\ row' = [row EXCEPT ![q.agent].hist = FALSE]
    BY <1>6 DEF ResetCanvas
  <2>3. \A e \in data' : \E d \in data : e.agent = d.agent /\ e.dsl = d.dsl
    BY <1>6, <2>1, OutdateType DEF ResetCanvas
  <2>4. \A a \in Agents : ~row'[a].hist
    BY <2>1, <2>2 DEF TInv, TypeOK, Dsls
  <2>5. QED BY <1>0, <2>2, <2>3, <2>4
<1>7. ASSUME NEW f \in gets, Respond(f) PROVE Goal
  <2>1. UNCHANGED <<saves, row>> /\ \A d \in data' : d.dsl = f.dsl
    BY <1>7 DEF Respond
  <2>2. QED BY <1>0, <2>1
<1> HIDE DEF browser, calls, server
<1>8. CASE User
  BY <1>3, <1>4, <1>8 DEF User
<1>9. CASE Server
  <2>1. ASSUME NEW s \in saves, SetCanvas(s) PROVE Goal
    BY <1>5, <2>1 DEF SetCanvas
  <2>2. ASSUME NEW s \in saves, NEW reported \in BOOLEAN, SetUnsynced(s, reported) PROVE Goal
    BY <1>5, <2>2 DEF SetUnsynced
  <2>3. QED BY <1>3, <1>41, <1>42, <1>6, <1>7, <1>9, <2>1, <2>2 DEF Server
<1>10. QED
  BY <1>3, <1>4, <1>8, <1>9 DEF Next

\* A replica holds the saved graph, or it has missed a save.
LEMMA ReplicaStep ==
  ASSUME TInv, RunInv, ReplicaFollowsUnlessBehind, [Next]_vars
  PROVE  RunInv' /\ ReplicaFollowsUnlessBehind'
<1> DEFINE Goal == RunInv' /\ ReplicaFollowsUnlessBehind'
<1> USE DEF browser, calls, server
<1>0. /\ row \in [Agents -> Dsls] /\ replica \in [Agents -> SUBSET Dsls] /\ runs \subseteq Runs
      /\ \A r \in runs : r.agent \in Agents /\ r.dsl \in Dsls /\ r.stale \in BOOLEAN
      /\ \A r \in runs : ~r.stale => r.dsl.g = row[r.agent].g
      /\ \A a \in Agents : \A dsl \in replica[a] : a \in behind \/ dsl.g = row[a].g
  BY DEF TInv, TypeOK, Runs, RunInv, ReplicaFollowsUnlessBehind
<1>00. /\ gets \in SUBSET Gets
       /\ \A f \in gets : f.phase # "sent" /\ f.since # "saved" => f.dsl.g = row[f.agent].g
  BY DEF TInv, TypeOK, RunInv
<1>01. \A h \in gets' : h.phase # "sent" /\ h.since # "saved" => h.dsl.g = row'[h.agent].g
  <2> SUFFICES ASSUME NEW h \in gets', h.phase # "sent", h.since # "saved"
               PROVE  h.dsl.g = row'[h.agent].g
    OBVIOUS
  <2>1. CASE Kept(h)
    <3>1. PICK f \in gets : /\ h.agent = f.agent /\ h.dsl = f.dsl /\ f.phase # "sent"
                            /\ f.since # "saved" /\ row'[h.agent].g = row[h.agent].g
      BY <2>1 DEF Kept
    <3>2. QED BY <1>00, <3>1
  <2>2. CASE New(h)
    BY <2>2, SentType DEF New
  <2>3. CASE JustRead(h)
    BY <2>3 DEF JustRead
  <2>4. QED BY <2>1, <2>2, <2>3, GetsStep
<1>1. ASSUME \A r \in runs' : ~r.stale => r.dsl.g = row'[r.agent].g,
             \A a \in Agents : \A dsl \in replica'[a] : a \in behind' \/ dsl.g = row'[a].g
      PROVE  Goal
  <2>1. \A h \in gets' : h.phase # "sent" /\ h.since # "saved" => h.dsl.g = row'[h.agent].g
    BY <1>01
  <2>2. QED BY <1>1, <2>1 DEF RunInv, ReplicaFollowsUnlessBehind
<1>2. CASE UNCHANGED server
  BY <1>0, <1>1, <1>2
<1>3. CASE Send
  <2>1. PICK dsl \in replica[page], i \in 1..MaxRuns :
          runs' = runs \cup {[id |-> i, agent |-> page, dsl |-> dsl, stale |-> page \in behind]}
    BY <1>3 DEF Send
  <2> DEFINE r0 == [id |-> i, agent |-> page, dsl |-> dsl, stale |-> page \in behind]
  <2>2. page \in Agents /\ UNCHANGED <<row, replica, behind>>
    BY <1>3 DEF Send, Loaded, Open, TInv, TypeOK
  <2>3. r0.agent = page /\ r0.dsl = dsl /\ (r0.stale <=> page \in behind)
    OBVIOUS
  <2> HIDE DEF r0
  <2>4. ~r0.stale => r0.dsl.g = row[r0.agent].g
    BY <1>0, <2>2, <2>3
  <2>5. \A r \in runs' : r \in runs \/ r = r0
    BY <2>1 DEF r0
  <2>6. QED BY <1>0, <1>1, <2>2, <2>4, <2>5
<1>4. ASSUME NEW s \in saves, UpdateRow(s)
      PROVE  /\ s.agent \in Agents /\ row' = [row EXCEPT ![s.agent] = s.dsl]
             /\ \A t \in runs' : ~t.stale => t.dsl.g = row'[t.agent].g
  <2>1. s.agent \in Agents
    BY DEF TInv, TypeOK, Saves
  <2>2. /\ row' = [row EXCEPT ![s.agent] = s.dsl]
        /\ runs' = {[r EXCEPT !.stale = @ \/ r.agent = s.agent] : r \in runs}
    BY <1>4 DEF UpdateRow
  <2>3. \A t \in runs' : ~t.stale => t.dsl.g = row'[t.agent].g
    <3> SUFFICES ASSUME NEW r \in runs, NEW t, t = [r EXCEPT !.stale = @ \/ r.agent = s.agent], ~t.stale
                 PROVE  t.dsl.g = row'[t.agent].g
      BY <2>2
    <3>1. t.agent = r.agent /\ t.dsl = r.dsl /\ (t.stale <=> r.stale \/ r.agent = s.agent)
      BY <1>0 DEF Runs
    <3>2. QED BY <1>0, <2>1, <2>2, <3>1
  <2>4. QED BY <2>1, <2>2, <2>3
<1>41. ASSUME NEW s \in saves, SetCanvas(s) PROVE Goal
  <2>1. /\ UpdateRow(s) /\ replica' = [replica EXCEPT ![s.agent] = {s.dsl}]
        /\ behind' = behind \ {s.agent}
    BY <1>41 DEF SetCanvas, ReplaceForSet
  <2>2. \A a \in Agents : \A dsl \in replica'[a] : a \in behind' \/ dsl.g = row'[a].g
    BY <1>0, <1>4, <2>1
  <2>3. QED BY <1>1, <1>4, <2>1, <2>2
<1>42. ASSUME NEW s \in saves, NEW reported \in BOOLEAN, SetUnsynced(s, reported) PROVE Goal
  <2>1. /\ UpdateRow(s) /\ replica' = replica
        /\ behind' = IF replica[s.agent] = {} THEN behind ELSE behind \cup {s.agent}
    BY <1>42 DEF SetUnsynced
  <2>2. \A a \in Agents : \A dsl \in replica'[a] : a \in behind' \/ dsl.g = row'[a].g
    BY <1>0, <1>4, <2>1
  <2>3. QED BY <1>1, <1>4, <2>1, <2>2
<1>5. ASSUME NEW q \in resets, ResetCanvas(q) PROVE Goal
  <2>1. q.agent \in Agents
    BY DEF TInv, TypeOK
  <2>2. row' = [row EXCEPT ![q.agent].hist = FALSE] /\ UNCHANGED <<replica, runs, behind>>
    BY <1>5 DEF ResetCanvas
  <2>3. \A a \in Agents : row'[a].g = row[a].g
    BY <1>0, <2>1, <2>2 DEF Dsls
  <2>4. QED BY <1>0, <1>1, <2>2, <2>3
<1>6. ASSUME NEW f \in gets, CreateReplica(f) PROVE Goal
  <2>1. /\ f.phase = "absent" /\ replica' = [replica EXCEPT ![f.agent] = {f.dsl}]
        /\ behind' = IF f.since = "saved" THEN behind \cup {f.agent} ELSE behind \ {f.agent}
        /\ UNCHANGED <<row, runs>>
    BY <1>6 DEF CreateReplica
  <2>2. f.agent \in Agents /\ (f.since # "saved" => f.dsl.g = row[f.agent].g)
    BY <1>00, <2>1 DEF Gets
  <2>3. QED BY <1>0, <1>1, <2>1, <2>2
<1>7. ASSUME NEW r \in runs, RunEnds(r) PROVE Goal
  <2>1. /\ replica' = [replica EXCEPT ![r.agent] = {[r.dsl EXCEPT !.hist = TRUE]}]
        /\ behind' = IF r.stale THEN behind \cup {r.agent} ELSE behind \ {r.agent}
        /\ runs' \subseteq runs /\ UNCHANGED row
    BY <1>7 DEF RunEnds, CommitAfterRun, StreamEnds
  <2>2. r.agent \in Agents /\ r.dsl \in Dsls
    BY <1>0
  <2>3. [r.dsl EXCEPT !.hist = TRUE].g = r.dsl.g
    BY <2>2 DEF Dsls
  <2>4. QED BY <1>0, <1>1, <2>1, <2>2, <2>3
<1>8. ASSUME NEW r \in runs, RunFails(r) PROVE Goal
  <2>1. runs' \subseteq runs /\ UNCHANGED <<row, replica, behind>>
    BY <1>8 DEF RunFails, StreamEnds
  <2>2. QED BY <1>0, <1>1, <2>1
<1>9. ASSUME NEW a \in Agents, ReplicaExpires(a) PROVE Goal
  <2>1. replica' = [replica EXCEPT ![a] = {}] /\ behind' = behind \ {a} /\ UNCHANGED <<row, runs>>
    BY <1>9 DEF ReplicaExpires
  <2>2. QED BY <1>0, <1>1, <2>1
<1>10. CASE UNCHANGED vars
  BY <1>2, <1>10 DEF vars
<1> HIDE DEF browser, calls, server
<1>11. CASE User
  <2>1. User => Send \/ UNCHANGED server
    BY DEF User, OpenPage, LeavePage, Edit, Undo, Redo, Show, SaveByHand, SubmitSettings, RunClicked, RunSheetOk,
           HideDrawer
  <2>2. QED BY <1>2, <1>3, <1>11, <2>1
<1>12. CASE Autosave
  BY <1>2, <1>12 DEF Autosave
<1>13. CASE Server
  <2>1. ASSUME \/ \E s \in saves : SetRefused(s)
               \/ \E q \in resets : ResetFails(q)
               \/ \E a \in settings : SetSetting(a) \/ SettingRefused(a)
               \/ \E f \in gets : ReadRow(f) \/ ReadReplica(f) \/ GetWithoutRedis(f) \/ Respond(f)
        PROVE  UNCHANGED server
    BY <2>1 DEF SetRefused, ResetFails, SetSetting, SettingRefused, ReadRow, ReadReplica, GetWithoutRedis, Respond
  <2>2. QED BY <1>2, <1>41, <1>42, <1>5, <1>6, <1>7, <1>8, <1>9, <1>13, <2>1 DEF Server
<1>14. QED
  BY <1>10, <1>11, <1>12, <1>13 DEF Next

-----------------------------------------------------------------------------
\* The inductive invariant holds in every reachable state.
THEOREM SessionInductive == Spec => []IInv
<1>1. ASSUME IInv, [Next]_vars PROVE IInv'
  BY <1>1, TypeStep, OwnStep, QuietStep, ReplicaStep DEF IInv
<1>2. QED
  BY <1>1, InitIInv, PTL DEF Spec

\* Every variable of the browser and the server keeps its type; the query of
\* useFetchAgent never has two details or two requests.
THEOREM SessionTypes == Spec => []TypeOK
<1>1. IInv => TypeOK
  BY DEF IInv, TInv
<1>2. QED BY <1>1, SessionInductive, PTL

\* Undo and redo agree with the canvas for every length of the history
\* (HistoryConsistent, use-agent-history-manager.ts).
THEOREM UndoAgrees == Spec => []HistoryConsistent
<1>1. IInv => HistoryConsistent
  BY DEF IInv, TInv
<1>2. QED BY <1>1, SessionInductive, PTL

\* The graph of another agent reaches a row only through a page that was given
\* it to show (NoForeignSave, useSaveGraph and SetCanvas).
THEOREM RowsStayHome == Spec => []NoForeignSave
<1>1. IInv => NoForeignSave
  BY DEF IInv
<1>2. QED BY <1>1, SessionInductive, PTL

\* The replica holds the saved graph, through every interleaving of /set, the
\* threads of /get, runs, expiry and failed calls to Redis, unless its last
\* writer had read its DSL before the last save or that save could not write
\* it (ReplicaFollowsUnlessBehind: create_if_absent, commit_after_run and
\* replace_for_set).
THEOREM ReplicaHoldsSaved == Spec => []ReplicaFollowsUnlessBehind
<1>1. IInv => ReplicaFollowsUnlessBehind
  BY DEF IInv
<1>2. QED BY <1>1, SessionInductive, PTL

\* The messages of a conversation never reach a row (SavedWithoutMessages).
THEOREM RowsWithoutMessages == Spec => []SavedWithoutMessages
<1>1. IInv => SavedWithoutMessages
  BY DEF IInv
<1>2. QED BY <1>1, SessionInductive, PTL
=============================================================================
