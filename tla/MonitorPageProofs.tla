--------------------------- MODULE MonitorPageProofs ---------------------------
(***************************************************************************)
(* What the monitor's page shows, for any tables, names, locations, window *)
(* and length of the log: an endpoint once, a link once, the name the user *)
(* saved, events as they were, and no recovered node for ever.             *)
(***************************************************************************)
EXTENDS MonitorPage, FiniteSetTheorems, SequenceTheorems, WellFoundedInduction, TLAPS

(***************************************************************************)
(* Least elements                                                          *)
(***************************************************************************)

\* A set of numbers that is not empty has a least one.
LEMMA LeastNumber ==
  ASSUME NEW T, T \subseteq Nat, T # {}
  PROVE  \E x \in T : \A y \in T : x <= y
<1>1. PICK x \in T : \A y \in T : <<y, x>> \notin OpToRel(<, Nat)
  BY NatLessThanWellFounded, WFMin
<1>2. ASSUME NEW y \in T PROVE x <= y
  <2>1. ~ (y < x)
    BY <1>1, <1>2 DEF OpToRel
  <2> QED
    BY <2>1
<1> QED
  BY <1>2

(***************************************************************************)
(* Tables and what is shown of them                                        *)
(***************************************************************************)

DatedRow == [id : STRING \ {""}, role : {"CORE", "NODE"}, status : {"ONLINE", "OFFLINE"},
             ip : STRING, port : Nat, previous_status : {"ONLINE", "OFFLINE"},
             status_changed_at : Int]

\* An id of a core, or none.
CoreIds == STRING \cup {""}

\* The tables a monitor may hold.
RawTables ==
  {t \in [version : Nat, nodes : Seq(DatedRow), links : Seq([from_id : STRING, to_id : STRING]),
          active_core_id : CoreIds, backup_core_id : CoreIds] :
     /\ \A i, j \in DOMAIN t.nodes : t.nodes[i].id = t.nodes[j].id => i = j
     /\ \A i \in DOMAIN t.nodes : t.nodes[i].id \in ToSet(Order)}

\* Of the rows at an endpoint one is shown, ONLINE if any of them is.
LEMMA OneRowStands ==
  ASSUME NEW t \in RawTables, NEW hidden, NEW key, CandidatesAt(t, hidden, key) # {}
  PROVE  LET k == ShownAt(t, hidden, key)
         IN  /\ k \in CandidatesAt(t, hidden, key)
             /\ \A j \in CandidatesAt(t, hidden, key) :
                  t.nodes[j].status = "ONLINE" => t.nodes[k].status = "ONLINE"
<1> DEFINE At      == CandidatesAt(t, hidden, key)
           row(i)  == t.nodes[i]
           Best(i) == \A j \in At : /\ j < i => PreferPresentationNode(row(j), row(i)) = row(i)
                                    /\ i < j => PreferPresentationNode(row(i), row(j)) = row(i)
<1>1. t.nodes \in Seq(DatedRow) /\ At \subseteq DOMAIN t.nodes
  BY DEF RawTables, CandidatesAt
<1>2. /\ At \subseteq Nat
      /\ \A i \in At : row(i).status \in {"ONLINE", "OFFLINE"} /\ row(i) # NoNode
  <2>1. DOMAIN t.nodes = 1..Len(t.nodes) /\ Len(t.nodes) \in Nat
    BY <1>1, LenProperties
  <2>2. \A i \in DOMAIN t.nodes : row(i) \in DatedRow
    BY <1>1, <2>1, ElementOfSeq
  <2>3. \A r \in DatedRow : r.status \in {"ONLINE", "OFFLINE"} /\ r # NoNode
    <3>1. NoNode.status = "" /\ "" \notin {"ONLINE", "OFFLINE"}
      BY DEF NoNode
    <3>2. \A r \in DatedRow : r.status \in {"ONLINE", "OFFLINE"}
      BY DEF DatedRow
    <3> QED
      BY <3>1, <3>2
  <2>4. At \subseteq Nat
    BY <1>1, <2>1
  <2> QED
    BY <1>1, <2>2, <2>3, <2>4
<1> HIDE DEF At, row
<1>3. \E i \in At : Best(i)
  <2>1. CASE \E i \in At : row(i).status = "ONLINE"
    <3> DEFINE T == {i \in At : row(i).status = "ONLINE"}
    <3>1. PICK i \in T : \A j \in T : i <= j
      <4>1. T \subseteq Nat /\ T # {}
        BY <1>2, <2>1
      <4> QED
        BY <4>1, LeastNumber
    <3>2. ASSUME NEW j \in At, j < i PROVE row(j).status # "ONLINE"
      <4>1. j \in Nat /\ i \in Nat /\ ~ (i <= j)
        BY <1>2, <3>2
      <4> QED
        BY <3>1, <4>1
    <3>3. ASSUME NEW j \in At, j < i PROVE PreferPresentationNode(row(j), row(i)) = row(i)
      BY <3>1, <3>2, <3>3 DEF PreferPresentationNode
    <3>4. ASSUME NEW j \in At PROVE PreferPresentationNode(row(i), row(j)) = row(i)
      BY <1>2, <3>1 DEF PreferPresentationNode
    <3> QED
      BY <3>1, <3>3, <3>4
  <2>2. CASE \A i \in At : row(i).status # "ONLINE"
    <3>1. PICK i \in At : \A j \in At : i <= j
      BY <1>2, LeastNumber DEF At
    <3>2. ASSUME NEW j \in At PROVE ~ (j < i)
      <4>1. j \in Nat /\ i \in Nat /\ i <= j
        BY <1>2, <3>1
      <4> QED
        BY <4>1
    <3>3. ASSUME NEW j \in At PROVE PreferPresentationNode(row(i), row(j)) = row(i)
      BY <1>2, <2>2 DEF PreferPresentationNode
    <3> QED
      BY <3>2, <3>3
  <2> QED
    BY <2>1, <2>2
<1> DEFINE k == ShownAt(t, hidden, key)
<1>4. k \in At /\ Best(k)
  <2>1. k = CHOOSE i \in At : Best(i)
    BY DEF ShownAt, At, row
  <2> HIDE DEF k, Best
  <2> QED
    BY <1>3, <2>1
<1> HIDE DEF k
<1>5. ASSUME NEW j \in At, row(j).status = "ONLINE" PROVE row(k).status = "ONLINE"
  <2>1. CASE j = k
    BY <1>5, <2>1
  <2>2. CASE j < k
    <3>1. PreferPresentationNode(row(j), row(k)) = row(k)
      BY <1>4, <2>2
    <3> QED
      BY <1>2, <1>5, <3>1 DEF PreferPresentationNode
  <2>3. CASE k < j
    <3>1. PreferPresentationNode(row(k), row(j)) = row(k)
      BY <1>4, <2>3
    <3> QED
      BY <1>2, <1>4, <1>5, <3>1 DEF PreferPresentationNode
  <2>4. j \in Nat /\ k \in Nat
    BY <1>2, <1>4
  <2> QED
    BY <2>1, <2>2, <2>3, <2>4
<1> QED
  BY <1>4, <1>5 DEF k, At, row

\* What is shown of a table: rows of it, one at each endpoint, and the links
\* between them.
LEMMA PresentedRows ==
  ASSUME NEW t \in RawTables
  PROVE  LET p == BuildPresentationTopology(t, {})
         IN  /\ p.nodes \subseteq Rows(t)
             /\ \A m \in p.nodes, n \in p.nodes : EndpointKey(m) = EndpointKey(n) => m = n
             /\ \A row \in Rows(t) : row.role # "CORE" =>
                  \E n \in p.nodes : /\ EndpointKey(n) = EndpointKey(row)
                                     /\ row.status = "ONLINE" => n.status = "ONLINE"
             /\ p.links = {l \in ToSet(t.links) : /\ l.from_id \in {n.id : n \in p.nodes}
                                                  /\ l.to_id \in {n.id : n \in p.nodes}}
<1> DEFINE p       == BuildPresentationTopology(t, {})
           visible == {n \in Rows(t) : IsVisible(n, t, {})}
           shown(n) == t.nodes[ShownAt(t, {}, EndpointKey(n))]
<1>1. /\ p.nodes = {shown(n) : n \in visible}
      /\ p.links = {l \in ToSet(t.links) : /\ l.from_id \in {n.id : n \in p.nodes}
                                           /\ l.to_id \in {n.id : n \in p.nodes}}
  BY DEF RawTables, BuildPresentationTopology
<1>2. ASSUME NEW n \in visible
      PROVE  /\ shown(n) \in Rows(t) /\ EndpointKey(shown(n)) = EndpointKey(n)
             /\ n.status = "ONLINE" => shown(n).status = "ONLINE"
  <2> DEFINE key == EndpointKey(n)
             At  == CandidatesAt(t, {}, key)
             k   == ShownAt(t, {}, key)
  <2>1. PICK i \in DOMAIN t.nodes : n = t.nodes[i]
    BY DEF Rows, ToSet
  <2>2. i \in At
    BY <2>1 DEF CandidatesAt
  <2>3. k \in At /\ \A j \in At : t.nodes[j].status = "ONLINE" => t.nodes[k].status = "ONLINE"
    BY <2>2, OneRowStands
  <2>4. k \in DOMAIN t.nodes /\ EndpointKey(t.nodes[k]) = key
    BY <2>3 DEF CandidatesAt
  <2> QED
    BY <2>1, <2>2, <2>3, <2>4 DEF Rows, ToSet
<1> HIDE DEF p, shown
<1>3. p.nodes \subseteq Rows(t)
  BY <1>1, <1>2
<1>4. ASSUME NEW m \in p.nodes, NEW n \in p.nodes, EndpointKey(m) = EndpointKey(n)
      PROVE  m = n
  <2>1. PICK a \in visible : m = shown(a)
    BY <1>1
  <2>2. PICK b \in visible : n = shown(b)
    BY <1>1
  <2>3. EndpointKey(a) = EndpointKey(b)
    BY <1>2, <1>4, <2>1, <2>2
  <2> QED
    BY <2>1, <2>2, <2>3 DEF shown
<1>5. ASSUME NEW row \in Rows(t), row.role # "CORE"
      PROVE  \E n \in p.nodes : /\ EndpointKey(n) = EndpointKey(row)
                                /\ row.status = "ONLINE" => n.status = "ONLINE"
  <2>1. row \in visible
    BY <1>5 DEF IsVisible
  <2>2. shown(row) \in p.nodes
    BY <1>1, <2>1
  <2> QED
    BY <1>2, <2>1, <2>2
<1> QED
  BY <1>1, <1>3, <1>4, <1>5 DEF p

\* The rows that are shown have the types of rows, and different ids.
LEMMA PresentedIds ==
  ASSUME NEW t \in RawTables
  PROVE  LET p == BuildPresentationTopology(t, {})
         IN  /\ p.nodes \subseteq DatedRow
             /\ \A m \in p.nodes, n \in p.nodes : m.id = n.id => m = n
             /\ {n.id : n \in p.nodes} \subseteq ToSet(Order)
<1> DEFINE nodes == BuildPresentationTopology(t, {}).nodes
<1>1. nodes \subseteq Rows(t)
  BY PresentedRows
<1>2. t.nodes \in Seq(DatedRow)
  BY DEF RawTables
<1>3. \A i \in DOMAIN t.nodes : t.nodes[i] \in DatedRow
  BY <1>2, LenProperties, ElementOfSeq
<1>4. \A n \in nodes : \E i \in DOMAIN t.nodes : n = t.nodes[i]
  BY <1>1 DEF Rows, ToSet
<1> HIDE DEF nodes
<1>5. nodes \subseteq DatedRow
  BY <1>3, <1>4
<1>6. ASSUME NEW m \in nodes, NEW n \in nodes, m.id = n.id PROVE m = n
  BY <1>4, <1>6 DEF RawTables
<1>7. {n.id : n \in nodes} \subseteq ToSet(Order)
  BY <1>4 DEF RawTables
<1> QED
  BY <1>5, <1>6, <1>7 DEF nodes

(***************************************************************************)
(* Lines                                                                   *)
(***************************************************************************)

\* Of two different ids exactly one precedes the other.
LEMMA OrderIsTotal ==
  ASSUME NEW a \in ToSet(Order), NEW b \in ToSet(Order), a # b
  PROVE  Precedes(Order, a, b) <=> ~ Precedes(Order, b, a)
<1>1. /\ Order \in Seq(STRING)
      /\ \A i, j \in DOMAIN Order : Order[i] = Order[j] => i = j
  BY ListingsAssumption
<1>2. DOMAIN Order = 1..Len(Order) /\ Len(Order) \in Nat
  BY <1>1, LenProperties
<1>3. PICK i \in DOMAIN Order : Order[i] = a
  BY DEF ToSet
<1>4. PICK j \in DOMAIN Order : Order[j] = b
  BY DEF ToSet
<1>5. Precedes(Order, a, b) <=> i < j
  BY <1>1, <1>3, <1>4 DEF Precedes
<1>6. Precedes(Order, b, a) <=> j < i
  BY <1>1, <1>3, <1>4 DEF Precedes
<1>7. i \in Nat /\ j \in Nat /\ i # j
  BY <1>2, <1>3, <1>4
<1>8. (i < j) <=> ~ (j < i)
  BY <1>7
<1> QED
  BY <1>5, <1>6, <1>8

\* Both directions of a link are drawn in the same one.
LEMMA OneDirection ==
  ASSUME NEW p, NEW a \in ToSet(Order), NEW b \in ToSet(Order), a # b
  PROVE  /\ NormalizeLinkDirection(a, b, p, Order) \in {<<a, b>>, <<b, a>>}
         /\ NormalizeLinkDirection(a, b, p, Order) = NormalizeLinkDirection(b, a, p, Order)
<1>1. Precedes(Order, a, b) <=> ~ Precedes(Order, b, a)
  BY OrderIsTotal
<1>2. RoleOf(p, a) \in {"CORE", "NODE"} /\ RoleOf(p, b) \in {"CORE", "NODE"}
  BY DEF RoleOf
<1>3. CASE RoleOf(p, a) # RoleOf(p, b)
  BY <1>2, <1>3 DEF NormalizeLinkDirection
<1>4. CASE RoleOf(p, a) = RoleOf(p, b)
  BY <1>1, <1>4 DEF NormalizeLinkDirection
<1> QED
  BY <1>3, <1>4

Ends(l) == {l.from_id, l.to_id}
PairsOf(links) == {Ends(l) : l \in links}
LinesAt(lines, pair) == {l \in lines : Ends(l) = pair}

\* The lines of the graph join what is linked, once.
LEMMA LinesJoin ==
  ASSUME NEW p, NEW drawn, drawn \subseteq ToSet(Order),
         \A l \in p.links : l.from_id \in drawn /\ l.to_id \in drawn
  PROVE  /\ \A pair \in PairsOf(p.links) : Cardinality(pair) = 2 =>
              Cardinality(LinesAt(BuildTopologyGraphLinks(p, drawn, Order), pair)) = 1
         /\ \A l \in BuildTopologyGraphLinks(p, drawn, Order) :
              Ends(l) \in PairsOf(p.links) /\ Ends(l) \subseteq drawn
<1> USE DEF Ends
<1> DEFINE lines   == BuildTopologyGraphLinks(p, drawn, Order)
           linked  == {Ends(l) : l \in p.links}
           real    == {l \in p.links : l.from_id # l.to_id}
           dir(l)  == NormalizeLinkDirection(l.from_id, l.to_id, p, Order)
           line(e) == [from_id |-> e[1], to_id |-> e[2],
                       edgeKind |-> ClassifyTopologyLink(p, e[1], e[2])]
<1>1. lines = {line(dir(l)) : l \in real}
  BY DEF BuildTopologyGraphLinks
<1>2. ASSUME NEW l \in real PROVE Ends(line(dir(l))) = Ends(l)
  <2>1. l.from_id \in ToSet(Order) /\ l.to_id \in ToSet(Order) /\ l.from_id # l.to_id
    BY <1>2
  <2>2. dir(l) \in {<<l.from_id, l.to_id>>, <<l.to_id, l.from_id>>}
    BY <2>1, OneDirection
  <2>3. CASE dir(l) = <<l.from_id, l.to_id>>
    BY <2>3
  <2>4. CASE dir(l) = <<l.to_id, l.from_id>>
    BY <2>4
  <2> QED
    BY <2>2, <2>3, <2>4
<1>3. ASSUME NEW l \in real, NEW m \in real, Ends(l) = Ends(m) PROVE dir(l) = dir(m)
  <2>1. l.from_id \in ToSet(Order) /\ l.to_id \in ToSet(Order) /\ l.from_id # l.to_id
    BY <1>3
  <2>2. \/ l.from_id = m.from_id /\ l.to_id = m.to_id
        \/ l.from_id = m.to_id /\ l.to_id = m.from_id
    BY <1>3, <2>1
  <2>3. NormalizeLinkDirection(l.from_id, l.to_id, p, Order) = NormalizeLinkDirection(l.to_id, l.from_id, p, Order)
    BY <2>1, OneDirection
  <2> QED
    BY <2>2, <2>3
<1> HIDE DEF lines, line, dir
<1>4. ASSUME NEW pair \in linked, Cardinality(pair) = 2
      PROVE  Cardinality({l \in lines : Ends(l) = pair}) = 1
  <2>1. PICK m \in p.links : pair = Ends(m)
    OBVIOUS
  <2>2. m.from_id # m.to_id
    <3>1. ASSUME m.from_id = m.to_id PROVE FALSE
      <4>1. pair = {m.from_id}
        BY <2>1, <3>1
      <4>2. Cardinality(pair) = 1
        BY <4>1, FS_Singleton
      <4> QED
        BY <1>4, <4>2
    <3> QED
      BY <3>1
  <2>3. m \in real
    BY <2>2
  <2>4. line(dir(m)) \in lines /\ Ends(line(dir(m))) = pair
    BY <1>1, <1>2, <2>1, <2>3
  <2>5. ASSUME NEW l \in lines, Ends(l) = pair PROVE l = line(dir(m))
    <3>1. PICK n \in real : l = line(dir(n))
      BY <1>1
    <3>2. Ends(n) = Ends(m)
      BY <1>2, <2>1, <2>5, <3>1
    <3>3. dir(n) = dir(m)
      BY <1>3, <2>3, <3>2
    <3> QED
      BY <3>1, <3>3
  <2>6. {l \in lines : Ends(l) = pair} = {line(dir(m))}
    BY <2>4, <2>5
  <2> QED
    BY <2>6, FS_Singleton
<1>5. ASSUME NEW l \in lines PROVE Ends(l) \in linked /\ Ends(l) \subseteq drawn
  <2>1. PICK m \in real : l = line(dir(m))
    BY <1>1
  <2>2. Ends(l) = Ends(m)
    BY <1>2, <2>1
  <2> QED
    BY <2>2
<1> QED
  BY <1>4, <1>5 DEF lines, PairsOf, LinesAt

(***************************************************************************)
(* Names and views                                                         *)
(***************************************************************************)

Event == [msg_id : Nat, node : EdgeIds, place : Places \cup {NoAlias}]

\* What the user saved are names.
SavedNames(saved) == \A key \in DOMAIN saved : saved[key] \in Names

\* A saved name resolves to a name, or to none.
LEMMA SavedResolve ==
  ASSUME NEW saved, SavedNames(saved), NEW n
  PROVE  ResolveNodeAlias(n, saved) \in Names \cup {NoAlias}
<1>1. \A key : AliasAt(saved, key) \in Names \cup {NoAlias}
  BY DEF AliasAt, SavedNames
<1> QED
  BY <1>1 DEF ResolveNodeAlias

\* The names events give are their locations.
LEMMA AutoNamesArePlaces ==
  ASSUME NEW t, NEW log \in Seq(Event)
  PROVE  \A key \in DOMAIN BuildAutoNodeAliases(t, log) : BuildAutoNodeAliases(t, log)[key] \in Places
<1> DEFINE Keys(e) == {<<e.node, 0>>} \cup
                        {GetNodeAliasKey(n) : n \in {r \in t.nodes : r.id = e.node}}
           Named   == {i \in DOMAIN log : log[i].node # "" /\ log[i].place # NoAlias}
           Newest(key) == CHOOSE i \in Named :
                            /\ key \in Keys(log[i])
                            /\ \A j \in Named : key \in Keys(log[j]) => i <= j
           auto    == BuildAutoNodeAliases(t, log)
<1>1. auto = [key \in UNION {Keys(log[i]) : i \in Named} |-> log[Newest(key)].place]
  BY DEF BuildAutoNodeAliases
<1>2. /\ Named \subseteq Nat
      /\ \A i \in Named : log[i].place \in Places
  <2>1. DOMAIN log = 1..Len(log) /\ Len(log) \in Nat
    BY LenProperties
  <2>2. \A i \in DOMAIN log : log[i] \in Event
    BY <2>1, ElementOfSeq
  <2>3. \A i \in Named : log[i].place \in Places
    BY <2>2 DEF Event
  <2>4. Named \subseteq DOMAIN log
    OBVIOUS
  <2>5. DOMAIN log \subseteq Nat
    BY <2>1
  <2> QED
    BY <2>3, <2>4, <2>5
<1> HIDE DEF Named, auto, Keys
<1>3. ASSUME NEW key \in DOMAIN auto PROVE auto[key] \in Places
  <2> DEFINE T == {i \in Named : key \in Keys(log[i])}
             First(i) == key \in Keys(log[i]) /\ \A j \in Named : key \in Keys(log[j]) => i <= j
  <2>1. key \in UNION {Keys(log[i]) : i \in Named} /\ auto[key] = log[Newest(key)].place
    BY <1>1, <1>3
  <2>2. T \subseteq Nat /\ T # {}
    BY <1>2, <2>1
  <2>3. PICK i \in T : \A j \in T : i <= j
    BY <2>2, LeastNumber
  <2>4. i \in Named /\ First(i)
    BY <2>3
  <2>5. Newest(key) \in Named
    BY <2>4
  <2> QED
    BY <1>2, <2>1, <2>5
<1> QED
  BY <1>3 DEF auto

\* Every name the page may show is one of the user or a location.
LEMMA EffectiveNames ==
  ASSUME NEW t, NEW log \in Seq(Event), NEW saved, SavedNames(saved), NEW n
  PROVE  ResolveNodeAlias(n, EffectiveNodeAliases(t, log, saved)) \in Labels
<1> DEFINE auto  == BuildAutoNodeAliases(t, log)
           names == EffectiveNodeAliases(t, log, saved)
<1>1. \A key \in DOMAIN auto : auto[key] \in Places
  BY AutoNamesArePlaces
<1>2. names = [key \in DOMAIN saved \cup DOMAIN auto |-> IF key \in DOMAIN saved THEN saved[key] ELSE auto[key]]
  BY DEF EffectiveNodeAliases
<1> HIDE DEF auto, names
<1>3. \A key \in DOMAIN names : names[key] \in Labels
  BY <1>1, <1>2 DEF SavedNames, Labels
<1>4. \A key : AliasAt(names, key) \in Labels
  BY <1>3 DEF AliasAt, Labels
<1>5. ResolveNodeAlias(n, names) \in Labels
  BY <1>4 DEF ResolveNodeAlias
<1> QED
  BY <1>5 DEF names

LoggedIds(log) == {e.msg_id : e \in ToSet(log)}

ViewsOf(log, previous, t, saved) ==
  BuildEventPresentationSnapshots(log, previous, t, EffectiveNodeAliases(t, log, saved))

\* The views of a render: one for every event of the log, the old ones kept.
LEMMA ViewsMade ==
  ASSUME NEW t, NEW log \in Seq(Event), NEW saved, SavedNames(saved),
         NEW previous, \A id \in DOMAIN previous : previous[id].title \in Labels
  PROVE  /\ DOMAIN ViewsOf(log, previous, t, saved) = LoggedIds(log)
         /\ \A id \in DOMAIN ViewsOf(log, previous, t, saved) :
              ViewsOf(log, previous, t, saved)[id].title \in Labels
         /\ \A id \in DOMAIN previous \cap DOMAIN ViewsOf(log, previous, t, saved) :
              ViewsOf(log, previous, t, saved)[id] = previous[id]
<1> DEFINE names == EffectiveNodeAliases(t, log, saved)
           made  == BuildEventPresentationSnapshots(log, previous, t, names)
           ids   == {e.msg_id : e \in ToSet(log)}
           event(id) == CHOOSE e \in ToSet(log) : e.msg_id = id
<1>1. made = [id \in ids |-> IF id \in DOMAIN previous THEN previous[id]
                             ELSE GetEventPresentation(event(id), t, names)]
  BY DEF BuildEventPresentationSnapshots
<1>2. \A n : ResolveNodeAlias(n, names) \in Labels
  BY EffectiveNames
<1>3. \A id \in ids : event(id) \in ToSet(log)
  OBVIOUS
<1>4. \A e \in ToSet(log) : e.place \in Labels
  <2>1. DOMAIN log = 1..Len(log)
    BY LenProperties
  <2>2. \A e \in ToSet(log) : e \in Event
    BY <2>1, ElementOfSeq DEF ToSet
  <2> QED
    BY <2>2 DEF Event, Labels
<1> HIDE DEF names, event, made, ids
<1>5. ASSUME NEW e \in ToSet(log) PROVE GetEventPresentation(e, t, names).title \in Labels
  BY <1>2, <1>4 DEF GetEventPresentation, Labels
<1>6. \A id \in DOMAIN made : made[id].title \in Labels
  BY <1>1, <1>3, <1>5
<1>7. DOMAIN made = ids /\ \A id \in DOMAIN previous \cap DOMAIN made : made[id] = previous[id]
  BY <1>1
<1> QED
  BY <1>6, <1>7 DEF LoggedIds, ViewsOf, names, made, ids

\* The log takes one event and forgets the oldest when it is full.
LEMMA LogGrows ==
  ASSUME NEW log \in Seq(Event), Len(log) <= MAX_EVENTS, NEW e \in Event
  PROVE  LET k == IF Len(log) < MAX_EVENTS THEN Len(log) + 1 ELSE MAX_EVENTS
             next == SubSeq(<<e>> \o log, 1, k)
         IN  next \in Seq(Event) /\ Len(next) <= MAX_EVENTS
<1> DEFINE k == IF Len(log) < MAX_EVENTS THEN Len(log) + 1 ELSE MAX_EVENTS
           s == <<e>> \o log
<1>1. s \in Seq(Event) /\ Len(s) = Len(log) + 1 /\ Len(log) \in Nat
  <2>1. <<e>> \in Seq(Event) /\ Len(<<e>>) = 1
    OBVIOUS
  <2>2. Len(log) \in Nat
    BY LenProperties
  <2>3. s \in Seq(Event) /\ Len(s) = 1 + Len(log)
    BY <2>1, ConcatProperties
  <2> QED
    BY <2>2, <2>3
<1>2. MAX_EVENTS \in Nat \ {0}
  BY PageConstants
<1> HIDE DEF s
<1>3. k \in Nat /\ 1 <= k /\ k <= Len(s) /\ k <= MAX_EVENTS
  BY <1>1, <1>2
<1> HIDE DEF k
<1>4. SubSeq(s, 1, k) \in Seq(Event) /\ Len(SubSeq(s, 1, k)) = k
  BY <1>1, <1>3, SubSeqProperties
<1>5. SubSeq(s, 1, k) \in Seq(Event) /\ Len(SubSeq(s, 1, k)) <= MAX_EVENTS
  BY <1>3, <1>4
<1> QED
  BY <1>5 DEF s, k

(***************************************************************************)
(* Recovered nodes                                                         *)
(***************************************************************************)

\* The timer is set to the first deadline that is still to come.
LEMMA TimerArmed ==
  ASSUME NEW t, t.nodes \subseteq DatedRow, now \in Nat, ArmTimer(t)
  PROVE  /\ timer'.at \in Int /\ timer'.ran = now
         /\ \A n \in t.nodes : MayBeRecovered(n) /\ GetRecentRecoveryDeadline(n) > now =>
              timer'.at # NoTimer /\ timer'.at <= GetRecentRecoveryDeadline(n) + 1
<1> DEFINE back  == {r \in t.nodes : MayBeRecovered(r)}
           later == {d \in {GetRecentRecoveryDeadline(n) : n \in back} : d > now}
           first == CHOOSE d \in later : \A x \in later : d <= x
<1>1. timer' = [at |-> IF later = {} THEN NoTimer ELSE first + 1, ran |-> now]
  BY DEF ArmTimer
<1>2. \A n \in back : GetRecentRecoveryDeadline(n) \in Int
  <2>1. WINDOW \in Int
    BY PageConstants
  <2>2. \A n \in back : n.status_changed_at \in Int
    BY DEF DatedRow
  <2> QED
    BY <2>1, <2>2 DEF GetRecentRecoveryDeadline
<1>3. later \subseteq Nat
  <2>1. ASSUME NEW d \in Int, d > now PROVE d \in Nat
    BY <2>1
  <2> QED
    BY <1>2, <2>1
<1>4. \A n \in t.nodes : MayBeRecovered(n) /\ GetRecentRecoveryDeadline(n) > now =>
        GetRecentRecoveryDeadline(n) \in later
  OBVIOUS
<1> HIDE DEF later
<1>5. CASE later = {}
  <2>1. timer'.at = NoTimer /\ timer'.ran = now
    BY <1>1, <1>5
  <2>2. NoTimer \in Int
    BY DEF NoTimer
  <2> QED
    BY <1>4, <1>5, <2>1, <2>2
<1>6. CASE later # {}
  <2>1. first \in later /\ \A x \in later : first <= x
    <3>1. \E d \in later : \A x \in later : d <= x
      BY <1>3, <1>6, LeastNumber
    <3> QED
      BY <3>1
  <2> HIDE DEF first
  <2>2. timer'.at = first + 1 /\ timer'.ran = now
    BY <1>1, <1>6
  <2>3. first \in Nat
    BY <1>3, <2>1
  <2>4. first + 1 \in Int /\ first + 1 # NoTimer
    BY <2>3 DEF NoTimer
  <2>5. ASSUME NEW x \in later PROVE first + 1 <= x + 1
    <3>1. x \in Nat /\ first <= x
      BY <1>3, <2>1
    <3> QED
      BY <2>3, <3>1
  <2> QED
    BY <1>4, <2>2, <2>4, <2>5
<1> QED
  BY <1>5, <1>6

(***************************************************************************)
(* The inductive invariants                                                *)
(***************************************************************************)

\* What is shown is what the newest table says, and the graph was drawn of it.
ShownInv ==
  /\ now \in Nat
  /\ raw \in RawTables
  /\ topology = BuildPresentationTopology(raw, {})
  /\ graph.links = BuildTopologyGraphLinks(topology, {n.id : n \in topology.nodes}, Order)

\* The timer belongs to the nodes that are shown; a node is drawn as recovered
\* by its id, so ids must be unique.
RecoveryInv ==
  /\ graph.recovered \subseteq {n.id : n \in {r \in topology.nodes : MayBeRecovered(r)}}
  /\ timer.at \in Int
  /\ \A n \in topology.nodes : MayBeRecovered(n) /\ GetRecentRecoveryDeadline(n) > timer.ran =>
       timer.at # NoTimer /\ timer.at <= GetRecentRecoveryDeadline(n) + 1

\* Names are what the user typed, in the dialog and after it; views are of the
\* log.
NamesInv ==
  /\ count \in [events : Nat, tables : Nat, saves : Nat]
  /\ events \in Seq(Event) /\ Len(events) <= MAX_EVENTS
  /\ DOMAIN views = {e.msg_id : e \in ToSet(events)}
  /\ \A id \in DOMAIN views : views[id].title \in Labels
  /\ SavedNames(aliases)
  /\ modal = [open |-> modal.open, drafts |-> modal.drafts]
  /\ modal.open =>
       /\ DOMAIN modal.drafts = {GetNodeAliasKey(n) : n \in Edges(topology)}
       /\ \A key \in DOMAIN modal.drafts : modal.drafts[key] \in Names \cup {NoAlias}

\* The moment the status of a row changed is a number.
LEMMA RowAge ==
  ASSUME NEW row \in ListingRow, NEW time \in Nat
  PROVE  time - row.age \in Int
<1>1. row.age \in Int
  BY DEF ListingRow
<1> QED
  BY <1>1

\* A listed row, dated.
LEMMA RowDated ==
  ASSUME NEW row \in ListingRow, NEW d \in Int
  PROVE  [id |-> row.id, role |-> row.role, status |-> row.status, ip |-> row.ip,
          port |-> row.port, previous_status |-> row.previous_status, status_changed_at |-> d] \in DatedRow
BY DEF ListingRow, DatedRow

\* The table a monitor makes of a published one.
LEMMA DatedTable ==
  ASSUME NEW listing \in Listings, now \in Nat, TableArrives(listing)
  PROVE  /\ raw' \in RawTables
         /\ \A i \in DOMAIN raw'.nodes :
              /\ i \in DOMAIN listing.nodes
              /\ raw'.nodes[i].role = listing.nodes[i].role
              /\ raw'.nodes[i].ip = listing.nodes[i].ip /\ raw'.nodes[i].port = listing.nodes[i].port
<1> DEFINE Dated(row) == [id |-> row.id, role |-> row.role, status |-> row.status, ip |-> row.ip,
                          port |-> row.port, previous_status |-> row.previous_status,
                          status_changed_at |-> now - row.age]
           dated == [i \in DOMAIN listing.nodes |-> Dated(listing.nodes[i])]
<1>1. raw' = [listing EXCEPT !.nodes = dated]
  BY DEF TableArrives
<1>2. /\ listing \in [version : Nat, nodes : Seq(ListingRow),
                      links : Seq([from_id : STRING, to_id : STRING]),
                      active_core_id : STRING, backup_core_id : STRING]
      /\ \A i, j \in DOMAIN listing.nodes : listing.nodes[i].id = listing.nodes[j].id => i = j
      /\ \A i \in DOMAIN listing.nodes : listing.nodes[i].id \in ToSet(Order)
  BY ListingsAssumption
<1>3. listing.nodes \in Seq(ListingRow)
  BY <1>2
<1>4. DOMAIN listing.nodes = 1..Len(listing.nodes) /\ Len(listing.nodes) \in Nat
  BY <1>3, LenProperties
<1>5. ASSUME NEW row \in ListingRow PROVE Dated(row) \in DatedRow
  <2>1. PICK d \in Int : d = now - row.age
    BY RowAge
  <2> QED
    BY <2>1, RowDated
<1>6. \A i \in DOMAIN listing.nodes : listing.nodes[i] \in ListingRow
  BY <1>3, <1>4, ElementOfSeq
<1>7. dated \in [1..Len(listing.nodes) -> DatedRow]
  BY <1>4, <1>5, <1>6
<1>8. dated \in Seq(DatedRow)
  BY <1>4, <1>7, SeqDef
<1>9. /\ DOMAIN dated = DOMAIN listing.nodes
      /\ \A i \in DOMAIN dated : /\ dated[i].id = listing.nodes[i].id
                                 /\ dated[i].role = listing.nodes[i].role
                                 /\ dated[i].ip = listing.nodes[i].ip
                                 /\ dated[i].port = listing.nodes[i].port
  OBVIOUS
<1> HIDE DEF dated
<1>10. raw'.nodes = dated
  BY <1>1, <1>2
<1>11. raw' \in [version : Nat, nodes : Seq(DatedRow), links : Seq([from_id : STRING, to_id : STRING]),
                 active_core_id : CoreIds, backup_core_id : CoreIds]
  BY <1>1, <1>2, <1>8 DEF CoreIds
<1>12. raw' \in RawTables
  BY <1>2, <1>9, <1>10, <1>11 DEF RawTables
<1> QED
  BY <1>9, <1>10, <1>12

(***************************************************************************)
(* Every change keeps them                                                 *)
(***************************************************************************)

\* Tables change what is shown; everything else draws it again, or does not;
\* the timer is set when a table comes and when it fires.
LEMMA PageSteps ==
  ASSUME [Next]_vars
  PROVE  \/ \E listing \in Listings : TableArrives(listing)
         \/ /\ UNCHANGED <<raw, topology>>
            /\ Redraw(topology) \/ UNCHANGED graph
            /\ UNCHANGED timer \/ ArmTimer(topology)
            /\ now' = now \/ now' = now + 1
<1>1. CASE OpenAliasModal \/ CloseAliasModal \/ SaveAliasModal
  BY <1>1 DEF OpenAliasModal, CloseAliasModal, SaveAliasModal, Render
<1>2. CASE TimerFires
  BY <1>2 DEF TimerFires
<1>3. CASE Tick \/ UNCHANGED vars
  BY <1>3 DEF Tick, vars
<1>4. CASE \E node \in EdgeIds, place \in Places \cup {NoAlias} : EventArrives(node, place)
  BY <1>4 DEF EventArrives, Render
<1>5. CASE \E key \in DOMAIN modal.drafts, name \in Names \cup {NoAlias} : TypeName(key, name)
  BY <1>5 DEF TypeName, Render
<1> QED
  BY <1>1, <1>2, <1>3, <1>4, <1>5 DEF Next

\* What is shown stays what the newest table says.
LEMMA ShownKept ==
  ASSUME ShownInv, [Next]_vars
  PROVE  ShownInv'
<1>1. CASE \E listing \in Listings : TableArrives(listing)
  <2>1. PICK listing \in Listings : TableArrives(listing)
    BY <1>1
  <2>2. now \in Nat
    BY DEF ShownInv
  <2>3. raw' \in RawTables
    BY <2>1, <2>2, DatedTable
  <2>4. topology' = BuildPresentationTopology(raw', {}) /\ Redraw(topology') /\ now' = now
    BY <2>1 DEF TableArrives, Render
  <2>5. graph.links' = BuildTopologyGraphLinks(topology', {n.id : n \in topology'.nodes}, Order)
    BY <2>4 DEF Redraw
  <2> QED
    BY <2>2, <2>3, <2>4, <2>5 DEF ShownInv
<1>2. CASE /\ UNCHANGED <<raw, topology>>
           /\ Redraw(topology) \/ UNCHANGED graph
           /\ now' = now \/ now' = now + 1
  <2>1. now' \in Nat
    BY <1>2 DEF ShownInv
  <2>2. graph.links' = BuildTopologyGraphLinks(topology, {n.id : n \in topology.nodes}, Order)
    BY <1>2 DEF ShownInv, Redraw
  <2> QED
    BY <1>2, <2>1, <2>2 DEF ShownInv
<1> QED
  BY <1>1, <1>2, PageSteps

\* A drawing shows as recovered only nodes the timer knows of.
LEMMA RecoveryKept ==
  ASSUME ShownInv, RecoveryInv, [Next]_vars
  PROVE  RecoveryInv'
<1>1. ASSUME NEW t, Redraw(t)
      PROVE  graph'.recovered \subseteq {n.id : n \in {r \in t.nodes : MayBeRecovered(r)}}
  BY <1>1 DEF Redraw, IsRecentlyRecoveredNode
<1>2. ASSUME NEW t, t.nodes \subseteq DatedRow, topology' = t, Redraw(t) \/ UNCHANGED <<topology, graph>>, ArmTimer(t)
      PROVE  RecoveryInv'
  <2>1. graph'.recovered \subseteq {n.id : n \in {r \in t.nodes : MayBeRecovered(r)}}
    BY <1>1, <1>2 DEF RecoveryInv
  <2>2. now \in Nat
    BY DEF ShownInv
  <2>3. /\ timer'.at \in Int /\ timer'.ran = now
        /\ \A n \in t.nodes : MayBeRecovered(n) /\ GetRecentRecoveryDeadline(n) > now =>
             timer'.at # NoTimer /\ timer'.at <= GetRecentRecoveryDeadline(n) + 1
    BY <1>2, <2>2, TimerArmed
  <2> QED
    BY <1>2, <2>1, <2>3 DEF RecoveryInv
<1>3. CASE \E listing \in Listings : TableArrives(listing)
  <2>1. PICK listing \in Listings : TableArrives(listing)
    BY <1>3
  <2>2. raw' \in RawTables
    BY <2>1, DatedTable DEF ShownInv
  <2>3. topology' = BuildPresentationTopology(raw', {}) /\ Redraw(topology') /\ ArmTimer(topology')
    BY <2>1 DEF TableArrives, Render
  <2>4. topology'.nodes \subseteq DatedRow
    BY <2>2, <2>3, PresentedIds
  <2> QED
    BY <1>2, <2>3, <2>4
<1>4. CASE /\ UNCHANGED topology
           /\ Redraw(topology) \/ UNCHANGED graph
           /\ ArmTimer(topology)
  <2>1. topology.nodes \subseteq DatedRow
    BY PresentedIds DEF ShownInv
  <2> QED
    BY <1>2, <1>4, <2>1
<1>5. CASE /\ UNCHANGED topology
           /\ Redraw(topology) \/ UNCHANGED graph
           /\ UNCHANGED timer
  <2>1. graph'.recovered \subseteq {n.id : n \in {r \in topology.nodes : MayBeRecovered(r)}}
    BY <1>1, <1>5 DEF RecoveryInv
  <2> QED
    BY <1>5, <2>1 DEF RecoveryInv
<1> QED
  BY <1>3, <1>4, <1>5, PageSteps

\* Drafts: one for every edge, a name or none, what was typed kept.
LEMMA DraftsMade ==
  ASSUME NEW t, NEW previous, \A key \in DOMAIN previous : previous[key] \in Names \cup {NoAlias},
         NEW saved, SavedNames(saved)
  PROVE  /\ DOMAIN Drafts(t, previous, saved) = {GetNodeAliasKey(n) : n \in Edges(t)}
         /\ \A key \in DOMAIN Drafts(t, previous, saved) :
              Drafts(t, previous, saved)[key] \in Names \cup {NoAlias}
         /\ \A key \in DOMAIN previous \cap DOMAIN Drafts(t, previous, saved) :
              Drafts(t, previous, saved)[key] = previous[key]
<1>1. \A n : ResolveNodeAlias(n, saved) \in Names \cup {NoAlias}
  BY SavedResolve
<1> QED
  BY <1>1 DEF Drafts

\* What a save leaves: names; the names of other edges, but for keys of an
\* older version.
LEMMA NamesSaved ==
  ASSUME SavedNames(aliases),
         DOMAIN modal.drafts = {GetNodeAliasKey(n) : n \in Edges(topology)},
         \A key \in DOMAIN modal.drafts : modal.drafts[key] \in Names \cup {NoAlias}
  PROVE  /\ SavedNames(NamesAfterSave)
         /\ \A key \in DOMAIN NamesAfterSave :
              key \in DOMAIN aliases \/ key \in {GetNodeAliasKey(n) : n \in Edges(topology)}
         /\ \A key \in DOMAIN aliases :
              key \notin {GetNodeAliasKey(n) : n \in Edges(topology)} \cup {<<n.id, 0>> : n \in Edges(topology)} =>
                key \in DOMAIN NamesAfterSave /\ NamesAfterSave[key] = aliases[key]
<1> DEFINE Listed  == {GetNodeAliasKey(n) : n \in Edges(topology)}
           Legacy  == {<<n.id, 0>> : n \in Edges(topology)}
           Cleared == {key \in Listed : modal.drafts[key] = NoAlias}
<1>1. NamesAfterSave = [key \in ((DOMAIN aliases \ Legacy) \cup Listed) \ Cleared |->
                          IF key \in Listed THEN modal.drafts[key] ELSE aliases[key]]
  BY DEF NamesAfterSave
<1> HIDE DEF Listed, Legacy
<1>2. DOMAIN modal.drafts = Listed
  BY DEF Listed
<1>3. SavedNames(NamesAfterSave)
  BY <1>1, <1>2 DEF SavedNames
<1>4. \A key \in DOMAIN NamesAfterSave : key \in DOMAIN aliases \/ key \in Listed
  BY <1>1
<1>5. \A key \in DOMAIN aliases : key \notin Listed /\ key \notin Legacy =>
        key \in DOMAIN NamesAfterSave /\ NamesAfterSave[key] = aliases[key]
  BY <1>1
<1> QED
  BY <1>3, <1>4, <1>5 DEF Listed, Legacy

\* The views a render makes of a log.
LEMMA ViewsKept ==
  ASSUME NEW t, NEW log \in Seq(Event), NEW saved, SavedNames(saved),
         \A id \in DOMAIN views : views[id].title \in Labels,
         views' = ViewsOf(log, views, t, saved)
  PROVE  /\ DOMAIN views' = LoggedIds(log)
         /\ \A id \in DOMAIN views' : views'[id].title \in Labels
         /\ \A id \in DOMAIN views \cap DOMAIN views' : views'[id] = views[id]
<1>1. DOMAIN ViewsOf(log, views, t, saved) = LoggedIds(log)
  BY ViewsMade
<1>2. \A id \in DOMAIN ViewsOf(log, views, t, saved) : ViewsOf(log, views, t, saved)[id].title \in Labels
  BY ViewsMade
<1>3. \A id \in DOMAIN views \cap DOMAIN ViewsOf(log, views, t, saved) :
        ViewsOf(log, views, t, saved)[id] = views[id]
  BY ViewsMade
<1> QED
  BY <1>1, <1>2, <1>3

\* A render of the same log, with other names or drafts.
LEMMA NamesRendered ==
  ASSUME NamesInv, NEW t, Render(t, events, aliases'), SavedNames(aliases'), events' = events,
         count' \in [events : Nat, tables : Nat, saves : Nat],
         modal' = [open |-> modal'.open, drafts |-> modal'.drafts],
         modal'.open =>
           /\ DOMAIN modal'.drafts = {GetNodeAliasKey(n) : n \in Edges(topology')}
           /\ \A key \in DOMAIN modal'.drafts : modal'.drafts[key] \in Names \cup {NoAlias}
  PROVE  NamesInv' /\ \A id \in DOMAIN views \cap DOMAIN views' : views'[id] = views[id]
<1>1. /\ events \in Seq(Event) /\ Len(events) <= MAX_EVENTS
      /\ \A id \in DOMAIN views : views[id].title \in Labels
  BY DEF NamesInv
<1>2. views' = ViewsOf(events, views, t, aliases')
  BY DEF Render, ViewsOf
<1>3. /\ DOMAIN views' = LoggedIds(events)
      /\ \A id \in DOMAIN views' : views'[id].title \in Labels
      /\ \A id \in DOMAIN views \cap DOMAIN views' : views'[id] = views[id]
  BY <1>1, <1>2, ViewsKept
<1> QED
  BY <1>1, <1>3 DEF NamesInv, LoggedIds

\* Every change keeps the names and the views.
LEMMA NamesKept ==
  ASSUME NamesInv, [Next]_vars
  PROVE  NamesInv' /\ \A id \in DOMAIN views \cap DOMAIN views' : views'[id] = views[id]
<1>1. /\ count \in [events : Nat, tables : Nat, saves : Nat]
      /\ SavedNames(aliases)
      /\ modal = [open |-> modal.open, drafts |-> modal.drafts]
  BY DEF NamesInv
<1>2. modal.open =>
        /\ DOMAIN modal.drafts = {GetNodeAliasKey(n) : n \in Edges(topology)}
        /\ \A key \in DOMAIN modal.drafts : modal.drafts[key] \in Names \cup {NoAlias}
  BY DEF NamesInv
<1>3. ASSUME NEW listing \in Listings, TableArrives(listing)
      PROVE  NamesInv' /\ \A id \in DOMAIN views \cap DOMAIN views' : views'[id] = views[id]
  <2>1. /\ Render(topology', events, aliases) /\ events' = events /\ aliases' = aliases
        /\ count' = [count EXCEPT !.tables = @ + 1]
        /\ modal' = IF modal.open THEN [modal EXCEPT !.drafts = Drafts(topology', @, aliases)] ELSE modal
    BY <1>3 DEF TableArrives
  <2>2. count' \in [events : Nat, tables : Nat, saves : Nat]
    BY <1>1, <2>1
  <2>3. CASE modal.open
    <3>1. modal' = [open |-> modal.open, drafts |-> Drafts(topology', modal.drafts, aliases)]
      BY <1>1, <2>1, <2>3
    <3>2. /\ DOMAIN Drafts(topology', modal.drafts, aliases) = {GetNodeAliasKey(n) : n \in Edges(topology')}
          /\ \A key \in DOMAIN Drafts(topology', modal.drafts, aliases) :
               Drafts(topology', modal.drafts, aliases)[key] \in Names \cup {NoAlias}
      <4>1. \A key \in DOMAIN modal.drafts : modal.drafts[key] \in Names \cup {NoAlias}
        BY <1>2, <2>3
      <4>2. PICK t, d : t = topology' /\ d = modal.drafts
        OBVIOUS
      <4>3. \A key \in DOMAIN d : d[key] \in Names \cup {NoAlias}
        BY <4>1, <4>2
      <4>4. /\ DOMAIN Drafts(t, d, aliases) = {GetNodeAliasKey(n) : n \in Edges(t)}
            /\ \A key \in DOMAIN Drafts(t, d, aliases) : Drafts(t, d, aliases)[key] \in Names \cup {NoAlias}
        BY <1>1, <4>3, DraftsMade
      <4> QED
        BY <4>2, <4>4
    <3>3. SavedNames(aliases')
      BY <1>1, <2>1
    <3> QED
      BY <2>1, <2>2, <3>1, <3>2, <3>3, NamesRendered
  <2>4. CASE ~ modal.open
    <3>1. modal' = modal
      BY <2>1, <2>4
    <3>2. SavedNames(aliases')
      BY <1>1, <2>1
    <3> QED
      BY <1>1, <2>1, <2>2, <2>4, <3>1, <3>2, NamesRendered
  <2> QED
    BY <2>3, <2>4
<1>4. ASSUME NEW node \in EdgeIds, NEW place \in Places \cup {NoAlias}, EventArrives(node, place)
      PROVE  NamesInv' /\ \A id \in DOMAIN views \cap DOMAIN views' : views'[id] = views[id]
  <2> DEFINE e == [msg_id |-> count.events + 1, node |-> node, place |-> place]
             k == IF Len(events) < MAX_EVENTS THEN Len(events) + 1 ELSE MAX_EVENTS
             log == SubSeq(<<e>> \o events, 1, k)
  <2>1. /\ events' = log /\ Render(topology, log, aliases)
        /\ aliases' = aliases /\ modal' = modal /\ topology' = topology
        /\ count' = [count EXCEPT !.events = @ + 1]
    BY <1>4 DEF EventArrives
  <2>2. count' \in [events : Nat, tables : Nat, saves : Nat]
    BY <1>1, <2>1
  <2>3. e \in Event
    BY <1>1, <1>4 DEF Event
  <2>4. events \in Seq(Event) /\ Len(events) <= MAX_EVENTS
    BY DEF NamesInv
  <2> HIDE DEF e
  <2>5. log \in Seq(Event) /\ Len(log) <= MAX_EVENTS
    BY <2>3, <2>4, LogGrows
  <2> HIDE DEF log
  <2>6. /\ DOMAIN views' = LoggedIds(log)
        /\ \A id \in DOMAIN views' : views'[id].title \in Labels
        /\ \A id \in DOMAIN views \cap DOMAIN views' : views'[id] = views[id]
    <3>1. views' = ViewsOf(log, views, topology, aliases)
      BY <2>1 DEF Render, ViewsOf
    <3>2. \A id \in DOMAIN views : views[id].title \in Labels
      BY DEF NamesInv
    <3> QED
      BY <1>1, <2>5, <3>1, <3>2, ViewsKept
  <2>7. NamesInv'
    BY <1>1, <1>2, <2>1, <2>2, <2>5, <2>6 DEF NamesInv, SavedNames, LoggedIds
  <2> QED
    BY <2>6, <2>7
<1>5. ASSUME OpenAliasModal
      PROVE  NamesInv' /\ \A id \in DOMAIN views \cap DOMAIN views' : views'[id] = views[id]
  <2>1. /\ Render(topology, events, aliases') /\ events' = events /\ aliases' = aliases /\ topology' = topology
        /\ count' = count /\ modal' = [open |-> TRUE, drafts |-> Drafts(topology, NoNames, aliases)]
    BY <1>5 DEF OpenAliasModal
  <2>2. \A key \in DOMAIN NoNames : NoNames[key] \in Names \cup {NoAlias}
    BY DEF NoNames
  <2>3. /\ DOMAIN Drafts(topology, NoNames, aliases) = {GetNodeAliasKey(n) : n \in Edges(topology)}
        /\ \A key \in DOMAIN Drafts(topology, NoNames, aliases) :
             Drafts(topology, NoNames, aliases)[key] \in Names \cup {NoAlias}
    BY <1>1, <2>2, DraftsMade
  <2>4. SavedNames(aliases')
    BY <1>1, <2>1
  <2> QED
    BY <1>1, <2>1, <2>3, <2>4, NamesRendered
<1>6. ASSUME CloseAliasModal
      PROVE  NamesInv' /\ \A id \in DOMAIN views \cap DOMAIN views' : views'[id] = views[id]
  <2>1. /\ Render(topology, events, aliases') /\ events' = events /\ aliases' = aliases /\ topology' = topology
        /\ count' = count
    BY <1>6 DEF CloseAliasModal
  <2>2. modal' = [open |-> FALSE, drafts |-> modal.drafts]
    BY <1>1, <1>6 DEF CloseAliasModal
  <2>3. SavedNames(aliases')
    BY <1>1, <2>1
  <2> QED
    BY <1>1, <2>1, <2>2, <2>3, NamesRendered
<1>7. ASSUME NEW key \in DOMAIN modal.drafts, NEW name \in Names \cup {NoAlias}, TypeName(key, name)
      PROVE  NamesInv' /\ \A id \in DOMAIN views \cap DOMAIN views' : views'[id] = views[id]
  <2> DEFINE typed == [modal.drafts EXCEPT ![key] = name]
  <2>1. /\ Render(topology, events, aliases') /\ events' = events /\ aliases' = aliases /\ topology' = topology
        /\ count' = count /\ modal.open
    BY <1>7 DEF TypeName
  <2>2. modal' = [open |-> modal.open, drafts |-> typed]
    BY <1>1, <1>7 DEF TypeName
  <2>3. DOMAIN typed = DOMAIN modal.drafts /\ \A k \in DOMAIN typed : typed[k] \in Names \cup {NoAlias}
    BY <1>2, <2>1
  <2> HIDE DEF typed
  <2>4. SavedNames(aliases')
    BY <1>1, <2>1
  <2> QED
    BY <1>1, <1>2, <2>1, <2>2, <2>3, <2>4, NamesRendered
<1>8. ASSUME SaveAliasModal
      PROVE  NamesInv' /\ \A id \in DOMAIN views \cap DOMAIN views' : views'[id] = views[id]
  <2>1. /\ Render(topology, events, aliases') /\ events' = events /\ topology' = topology
        /\ aliases' = NamesAfterSave /\ modal.open
        /\ count' = [count EXCEPT !.saves = @ + 1]
    BY <1>8 DEF SaveAliasModal
  <2>2. count' \in [events : Nat, tables : Nat, saves : Nat]
    BY <1>1, <2>1
  <2>3. modal' = [open |-> FALSE, drafts |-> modal.drafts]
    BY <1>1, <1>8 DEF SaveAliasModal
  <2>4. SavedNames(NamesAfterSave)
    BY <1>1, <1>2, <2>1, NamesSaved
  <2>5. SavedNames(aliases')
    BY <2>1, <2>4
  <2> QED
    BY <2>1, <2>2, <2>3, <2>5, NamesRendered
<1>9. ASSUME UNCHANGED <<topology, events, views, aliases, modal, count>>
      PROVE  NamesInv' /\ \A id \in DOMAIN views \cap DOMAIN views' : views'[id] = views[id]
  BY <1>9 DEF NamesInv, SavedNames
<1>10. CASE TimerFires \/ Tick \/ UNCHANGED vars
  <2>1. UNCHANGED <<topology, events, views, aliases, modal, count>>
    BY <1>10 DEF TimerFires, Tick, vars
  <2> QED
    BY <1>9, <2>1
<1> QED
  BY <1>3, <1>4, <1>5, <1>6, <1>7, <1>8, <1>10 DEF Next

\* The table of a page that has received none.
LEMMA EmptyTable ==
  ASSUME NEW Row, NEW Link
  PROVE  NoTable \in [version : Nat, nodes : Seq(Row), links : Seq(Link),
                      active_core_id : CoreIds, backup_core_id : CoreIds]
<1>1. <<>> \in Seq(Row)
  OBVIOUS
<1>2. <<>> \in Seq(Link)
  OBVIOUS
<1>3. PICK rows \in Seq(Row) : rows = <<>>
  BY <1>1, Zenon
<1>4. PICK links \in Seq(Link) : links = <<>>
  BY <1>2, Zenon
<1>5. PICK id \in CoreIds : id = ""
  BY DEF CoreIds
<1>6. PICK number \in Nat : number = 0
  OBVIOUS
<1>7. [version |-> number, nodes |-> rows, links |-> links, active_core_id |-> id, backup_core_id |-> id]
        \in [version : Nat, nodes : Seq(Row), links : Seq(Link), active_core_id : CoreIds, backup_core_id : CoreIds]
  OBVIOUS
<1>8. NoTable = [version |-> number, nodes |-> rows, links |-> links, active_core_id |-> id, backup_core_id |-> id]
  BY <1>3, <1>4, <1>5, <1>6, Zenon DEF NoTable
<1> QED
  BY <1>7, <1>8, Zenon

\* The first render shows an empty page.
LEMMA PageStarts ==
  ASSUME Init
  PROVE  ShownInv /\ RecoveryInv /\ NamesInv
<1>1. /\ DOMAIN NoTable.nodes = {} /\ Rows(NoTable) = {} /\ ToSet(NoTable.links) = {}
      /\ NoTable \in RawTables
  <2>1. NoTable.nodes = <<>> /\ NoTable.links = <<>>
    BY DEF NoTable
  <2>2. DOMAIN NoTable.nodes = {} /\ DOMAIN NoTable.links = {}
    BY <2>1
  <2>3. Rows(NoTable) = {} /\ ToSet(NoTable.links) = {}
    BY <2>2 DEF Rows, ToSet
  <2>4. NoTable \in [version : Nat, nodes : Seq(DatedRow), links : Seq([from_id : STRING, to_id : STRING]),
                     active_core_id : CoreIds, backup_core_id : CoreIds]
    BY EmptyTable
  <2> QED
    BY <2>2, <2>3, <2>4 DEF RawTables
<1>2. topology.nodes = {} /\ topology.links = {}
  BY DEF Init, NoTable
<1>3. ShownInv
  <2>1. BuildPresentationTopology(NoTable, {}) = topology
    <3>1. {n \in Rows(NoTable) : IsVisible(n, NoTable, {})} = {}
      BY <1>1
    <3>2. BuildPresentationTopology(NoTable, {}) = [NoTable EXCEPT !.nodes = {}, !.links = {}]
      BY <1>1, <3>1 DEF BuildPresentationTopology, NoTable
    <3> QED
      BY <3>2 DEF Init
  <2>2. BuildTopologyGraphLinks(topology, {n.id : n \in topology.nodes}, Order) = {}
    BY <1>2 DEF BuildTopologyGraphLinks
  <2>3. raw = NoTable /\ now \in Nat /\ graph.links = {}
    BY DEF Init
  <2> QED
    BY <1>1, <2>1, <2>2, <2>3 DEF ShownInv
<1>4. RecoveryInv
  BY <1>2 DEF Init, RecoveryInv, NoTimer
<1>5. NamesInv
  <2>1. events = <<>> /\ views = <<>> /\ aliases = <<>>
    BY DEF Init, NoNames
  <2>2. DOMAIN views = {} /\ DOMAIN aliases = {} /\ ToSet(events) = {}
    BY <2>1 DEF ToSet
  <2>3. events \in Seq(Event) /\ Len(events) = 0
    BY <2>1
  <2>4. MAX_EVENTS \in Nat
    BY PageConstants
  <2>5. /\ count \in [events : Nat, tables : Nat, saves : Nat]
        /\ ~ modal.open /\ modal = [open |-> modal.open, drafts |-> modal.drafts]
    BY DEF Init
  <2> QED
    BY <2>2, <2>3, <2>4, <2>5 DEF NamesInv, SavedNames
<1> QED
  BY <1>3, <1>4, <1>5

\* All three hold for ever.
LEMMA PageInvariant == Spec => [](ShownInv /\ RecoveryInv /\ NamesInv)
<1>1. ShownInv /\ RecoveryInv /\ NamesInv /\ [Next]_vars => (ShownInv /\ RecoveryInv /\ NamesInv)'
  BY ShownKept, RecoveryKept, NamesKept
<1> QED
  BY <1>1, PageStarts, PTL DEF Spec

(***************************************************************************)
(* The theorems                                                            *)
(***************************************************************************)

\* The page holds what its renders expect (App, eventSnapshot, TopologyGraph).
THEOREM PageTypeCorrect == Spec => []TypeOK
<1>1. RecoveryInv /\ NamesInv => TypeOK
  BY DEF RecoveryInv, NamesInv, SavedNames, TypeOK
<1> QED
  BY <1>1, PageInvariant, PTL

\* nodePresentation: the name saved for an endpoint is the name shown, whatever
\* the locations in the log.
THEOREM SavedNamesShown == Spec => []SavedNameShown
<1>1. NamesInv => SavedNameShown
  <2> SUFFICES ASSUME NamesInv, NEW n \in Edges(topology), GetNodeAliasKey(n) \in DOMAIN aliases
               PROVE  ResolveNodeAlias(n, EffectiveNodeAliases(topology, events, aliases)) =
                        aliases[GetNodeAliasKey(n)]
    BY DEF SavedNameShown
  <2> DEFINE key   == GetNodeAliasKey(n)
             names == EffectiveNodeAliases(topology, events, aliases)
  <2>1. aliases[key] # NoAlias
    BY PageConstants DEF NamesInv, SavedNames
  <2>2. key \in DOMAIN names /\ names[key] = aliases[key]
    BY DEF EffectiveNodeAliases
  <2>3. AliasAt(names, key) = aliases[key]
    BY <2>2 DEF AliasAt
  <2> QED
    BY <2>1, <2>3 DEF ResolveNodeAlias
<1> QED
  BY <1>1, PageInvariant, PTL

\* topologyVisibility: an endpoint with rows in the table is shown once, and
\* ONLINE if one of its rows is.
THEOREM EachEndpointShown == Spec => []EndpointsShown
<1>1. ShownInv => EndpointsShown
  <2> SUFFICES ASSUME ShownInv PROVE EndpointsShown
    OBVIOUS
  <2>1. raw \in RawTables /\ topology = BuildPresentationTopology(raw, {})
    BY DEF ShownInv
  <2>2. /\ \A m \in topology.nodes, n \in topology.nodes : EndpointKey(m) = EndpointKey(n) => m = n
        /\ \A row \in Rows(raw) : row.role # "CORE" =>
             \E n \in topology.nodes : /\ EndpointKey(n) = EndpointKey(row)
                                       /\ row.status = "ONLINE" => n.status = "ONLINE"
    BY <2>1, PresentedRows
  <2> QED
    BY <2>2 DEF EndpointsShown
<1> QED
  BY <1>1, PageInvariant, PTL

\* topologyGraphModel: two nodes that are linked, in one direction or both, are
\* joined by one line, and no line ends at a node that is not drawn.
THEOREM EachLinkDrawnOnce == Spec => []LinksDrawnOnce
<1>1. ShownInv => LinksDrawnOnce
  <2> SUFFICES ASSUME ShownInv PROVE LinksDrawnOnce
    OBVIOUS
  <2> DEFINE drawn == {n.id : n \in topology.nodes}
  <2>1. raw \in RawTables /\ topology = BuildPresentationTopology(raw, {})
    BY DEF ShownInv
  <2>2. drawn \subseteq ToSet(Order)
    BY <2>1, PresentedIds
  <2>3. \A l \in topology.links : l.from_id \in drawn /\ l.to_id \in drawn
    BY <2>1, PresentedRows
  <2>4. graph.links = BuildTopologyGraphLinks(topology, drawn, Order)
    BY DEF ShownInv
  <2> HIDE DEF drawn
  <2>5. /\ \A pair \in PairsOf(topology.links) : Cardinality(pair) = 2 =>
             Cardinality(LinesAt(graph.links, pair)) = 1
        /\ \A l \in graph.links : Ends(l) \in PairsOf(topology.links) /\ Ends(l) \subseteq drawn
    BY <2>2, <2>3, <2>4, LinesJoin
  <2> QED
    BY <2>5 DEF LinksDrawnOnce, drawn, PairsOf, LinesAt, Ends
<1> QED
  BY <1>1, PageInvariant, PTL

\* nodeTransitions, TopologyGraph: no node is drawn as recovered for ever.
THEOREM RecoveryAlwaysEnds == Spec => []RecoveryEnds
<1>1. ShownInv /\ RecoveryInv => RecoveryEnds
  <2> SUFFICES ASSUME ShownInv, RecoveryInv, NEW n \in topology.nodes, n.id \in graph.recovered,
                      GetRecentRecoveryDeadline(n) > timer.ran
               PROVE  timer.at # NoTimer /\ timer.at <= GetRecentRecoveryDeadline(n) + 1
    BY DEF RecoveryEnds
  <2>1. PICK r \in topology.nodes : MayBeRecovered(r) /\ r.id = n.id
    BY DEF RecoveryInv
  <2>2. r = n
    BY <2>1, PresentedIds DEF ShownInv
  <2> QED
    BY <2>1, <2>2 DEF RecoveryInv
<1> QED
  BY <1>1, PageInvariant, PTL

\* eventSnapshot: tables, names and numbers change, an event of the log is shown
\* as it was.
THEOREM ViewsStay == Spec => ViewsFrozen
<1>1. NamesInv /\ [Next]_vars => [\A id \in DOMAIN views \cap DOMAIN views' : views'[id] = views[id]]_vars
  BY NamesKept
<1> QED
  BY <1>1, PageInvariant, PTL DEF Spec, ViewsFrozen

\* App: while the dialog is open, tables do not undo what the user has typed.
THEOREM DraftsStay == Spec => DraftsKept
<1>1. NamesInv /\ [Next]_vars =>
        [modal.open /\ modal'.open /\ topology' # topology =>
           \A key \in DOMAIN modal.drafts \cap DOMAIN modal'.drafts :
             modal'.drafts[key] = modal.drafts[key]]_vars
  <2> SUFFICES ASSUME NamesInv, [Next]_vars, modal.open, topology' # topology
               PROVE  \A key \in DOMAIN modal.drafts \cap DOMAIN modal'.drafts :
                        modal'.drafts[key] = modal.drafts[key]
    OBVIOUS
  <2>1. PICK listing \in Listings : TableArrives(listing)
    BY PageSteps
  <2>2. modal = [open |-> modal.open, drafts |-> modal.drafts]
    BY DEF NamesInv
  <2>3. modal'.drafts = Drafts(topology', modal.drafts, aliases)
    BY <2>1, <2>2 DEF TableArrives
  <2> QED
    BY <2>3 DEF Drafts
<1> QED
  BY <1>1, PageInvariant, PTL DEF Spec, DraftsKept

\* An edge listens at an address and a port and registers with both.
EdgesAddressed ==
  \A listing \in Listings : \A i \in DOMAIN listing.nodes :
    listing.nodes[i].role # "CORE" => listing.nodes[i].ip # "" /\ listing.nodes[i].port # 0

\* So no name is kept under an id: a save takes such keys away.
AddressInv ==
  /\ \A i \in DOMAIN raw.nodes : raw.nodes[i].role # "CORE" => raw.nodes[i].ip # "" /\ raw.nodes[i].port # 0
  /\ \A key \in DOMAIN aliases : key[2] # 0

\* The keys of the edges that are shown are addresses.
LEMMA ListedKeys ==
  ASSUME ShownInv, AddressInv, NEW n \in Edges(topology)
  PROVE  GetNodeAliasKey(n)[2] # 0
<1>1. n \in Rows(raw) /\ n.role # "CORE"
  <2>1. n \in topology.nodes /\ n.role # "CORE"
    BY DEF Edges
  <2>2. topology.nodes \subseteq Rows(raw)
    BY PresentedRows DEF ShownInv
  <2> QED
    BY <2>1, <2>2
<1>2. PICK i \in DOMAIN raw.nodes : n = raw.nodes[i]
  BY <1>1 DEF Rows, ToSet
<1>3. n.ip # "" /\ n.port # 0
  BY <1>1, <1>2 DEF AddressInv
<1> QED
  BY <1>3 DEF GetNodeAliasKey

\* Tables keep it, and so does a save.
LEMMA AddressKept ==
  ASSUME EdgesAddressed, ShownInv, NamesInv, AddressInv, [Next]_vars
  PROVE  AddressInv'
<1>1. CASE \E listing \in Listings : TableArrives(listing)
  <2>1. PICK listing \in Listings : TableArrives(listing)
    BY <1>1
  <2>2. now \in Nat
    BY DEF ShownInv
  <2>3. \A i \in DOMAIN raw'.nodes :
          /\ i \in DOMAIN listing.nodes
          /\ raw'.nodes[i].role = listing.nodes[i].role
          /\ raw'.nodes[i].ip = listing.nodes[i].ip /\ raw'.nodes[i].port = listing.nodes[i].port
    BY <2>1, <2>2, DatedTable
  <2>4. aliases' = aliases
    BY <2>1 DEF TableArrives
  <2>5. \A i \in DOMAIN listing.nodes :
          listing.nodes[i].role # "CORE" => listing.nodes[i].ip # "" /\ listing.nodes[i].port # 0
    BY DEF EdgesAddressed
  <2> QED
    BY <2>3, <2>4, <2>5 DEF AddressInv
<1>2. CASE SaveAliasModal
  <2>1. raw' = raw /\ aliases' = NamesAfterSave /\ modal.open
    BY <1>2 DEF SaveAliasModal
  <2>2. \A key \in DOMAIN NamesAfterSave :
          key \in DOMAIN aliases \/ key \in {GetNodeAliasKey(n) : n \in Edges(topology)}
    BY <2>1, NamesSaved DEF NamesInv
  <2>3. \A key \in DOMAIN NamesAfterSave : key[2] # 0
    BY <2>2, ListedKeys DEF AddressInv
  <2> QED
    BY <2>1, <2>3 DEF AddressInv
<1>3. CASE UNCHANGED <<raw, aliases>>
  BY <1>3 DEF AddressInv
<1> QED
  BY <1>1, <1>2, <1>3
  DEF Next, vars, OpenAliasModal, CloseAliasModal, TimerFires, Tick, EventArrives, TypeName

\* App: saving names does not touch those of edges that are away, if every edge
\* registers with an address.
THEOREM AbsentNamesStay == ASSUME EdgesAddressed PROVE Spec => AbsentNamesKept
<1>1. Init => AddressInv
  <2>1. ASSUME Init PROVE DOMAIN raw.nodes = {} /\ DOMAIN aliases = {}
    <3>1. raw.nodes = <<>> /\ aliases = <<>>
      BY <2>1 DEF Init, NoTable, NoNames
    <3> QED
      BY <3>1
  <2> QED
    BY <2>1 DEF AddressInv
<1>2. ShownInv /\ NamesInv /\ AddressInv /\ [Next]_vars => AddressInv'
  BY AddressKept
<1>3. ShownInv /\ NamesInv /\ AddressInv /\ [Next]_vars =>
        [\A key \in DOMAIN aliases :
           key \notin {GetNodeAliasKey(n) : n \in Edges(topology)} =>
             key \in DOMAIN aliases' /\ aliases'[key] = aliases[key]]_vars
  <2> SUFFICES ASSUME ShownInv, NamesInv, AddressInv, [Next]_vars, NEW key \in DOMAIN aliases,
                      key \notin {GetNodeAliasKey(n) : n \in Edges(topology)}
               PROVE  key \in DOMAIN aliases' /\ aliases'[key] = aliases[key]
    OBVIOUS
  <2>1. CASE SaveAliasModal
    <3>1. aliases' = NamesAfterSave /\ modal.open
      BY <2>1 DEF SaveAliasModal
    <3>2. key \notin {<<n.id, 0>> : n \in Edges(topology)}
      <4>1. ASSUME NEW n \in Edges(topology), key = <<n.id, 0>> PROVE FALSE
        <5>1. key[2] = 0
          BY <4>1
        <5> QED
          BY <5>1 DEF AddressInv
      <4> QED
        BY <4>1
    <3>3. \A k \in DOMAIN aliases :
            k \notin {GetNodeAliasKey(n) : n \in Edges(topology)} \cup {<<n.id, 0>> : n \in Edges(topology)} =>
              k \in DOMAIN NamesAfterSave /\ NamesAfterSave[k] = aliases[k]
      BY <3>1, NamesSaved DEF NamesInv
    <3> QED
      BY <3>1, <3>2, <3>3
  <2>2. CASE aliases' = aliases
    BY <2>2
  <2> QED
    BY <2>1, <2>2
    DEF Next, vars, OpenAliasModal, CloseAliasModal, TimerFires, Tick, EventArrives, TypeName, TableArrives
<1> QED
  BY <1>1, <1>2, <1>3, PageInvariant, PTL DEF Spec, AbsentNamesKept
=============================================================================
