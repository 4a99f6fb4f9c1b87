----------------------------- MODULE MonitorPage -----------------------------
(***************************************************************************)
(* The monitor's page: client/src/App.jsx and TopologyGraph.jsx, over the  *)
(* tables and the log that useMqtt hands them.                             *)
(*                                                                         *)
(* React renders the page after every change of its state: an action is a  *)
(* change and the render that follows it, with the effects of that render. *)
(* nodeDisplayMap is a new object in every render, so every render redraws *)
(* the graph; only the timer of TopologyGraph looks at what has changed.   *)
(* A tick of now is longer than the 60 ms the timer adds to a deadline.    *)
(***************************************************************************)
EXTENDS MonitorTopology, FiniteSets

CONSTANTS Listings,      \* tables the cores may publish
          Order,         \* the addresses and ids in the order of localeCompare
          EdgeIds,       \* ids of edges in events
          Names,         \* names a user may type for an edge
          Places,        \* locations in events
          WINDOW,        \* RECENT_NODE_TRANSITION_WINDOW_MS, in ticks
          MAX_EVENTS,
          MaxEvents, MaxTables, MaxTime, MaxSaves    \* bounds

ASSUME PageConstants ==
  /\ NoAlias \notin Names \cup Places
  /\ {WINDOW, MAX_EVENTS} \subseteq Nat \ {0}
  /\ {MaxEvents, MaxTables, MaxTime, MaxSaves} \subseteq Nat

ListingRow == [id : STRING \ {""}, role : {"CORE", "NODE"}, status : {"ONLINE", "OFFLINE"},
           ip : STRING, port : Nat, previous_status : {"ONLINE", "OFFLINE"}, age : Int]

\* A core gives an id one row (addNode), and localeCompare orders all ids.
ASSUME ListingsAssumption ==
  /\ Order \in Seq(STRING)
  /\ \A i, j \in DOMAIN Order : Order[i] = Order[j] => i = j
  /\ \A listing \in Listings :
       /\ listing \in [version : Nat, nodes : Seq(ListingRow),
                       links : Seq([from_id : STRING, to_id : STRING]),
                       active_core_id : STRING, backup_core_id : STRING]
       /\ \A i, j \in DOMAIN listing.nodes : listing.nodes[i].id = listing.nodes[j].id => i = j
       /\ \A i \in DOMAIN listing.nodes : listing.nodes[i].id \in ToSet(Order)

VARIABLES
  raw,        \* rawTopologyRef: the newest table
  topology,   \* what useMqtt shows of it
  events,     \* the log, newest first
  views,      \* eventSnapshotsRef: how the events of the log are shown
  aliases,    \* nodeAliases, which localStorage keeps as well
  modal,      \* the dialog of names: open, and its drafts
  graph,      \* recovered: the nodes drawn as recovered
  timer,      \* of TopologyGraph: at (NoTimer if none), and when its effect ran
  now,
  count       \* events, tables and saves so far

vars == <<raw, topology, events, views, aliases, modal, graph, timer, now, count>>

NoTimer == -1
NoNames == <<>>

Edges(t) == {n \in t.nodes : n.role # "CORE"}

Init ==
  /\ raw = NoTable
  /\ topology = [NoTable EXCEPT !.nodes = {}, !.links = {}]
  /\ events = <<>> /\ views = <<>>
  /\ aliases = NoNames
  /\ modal = [open |-> FALSE, drafts |-> NoNames]
  /\ graph = [recovered |-> {}, links |-> {}]
  /\ timer = [at |-> NoTimer, ran |-> 0]
  /\ now = 0
  /\ count = [events |-> 0, tables |-> 0, saves |-> 0]

-----------------------------------------------------------------------------
(* What a render computes. *)

\* compareNodeEndpoints, for the addresses of an instance.
EdgeNumber(t, node) ==
  Cardinality({n \in Edges(t) : (n.ip = node.ip /\ n.port < node.port) \/ Precedes(Order, n.ip, node.ip)}) + 1

\* Mutant of EffectiveNodeAliases: the saved names spread first.
EffectiveAutoFirst(t, log, saved) == BuildAutoNodeAliases(t, log) @@ saved

\* { ...autoNodeAliases, ...nodeAliases }
EffectiveNodeAliases(t, log, saved) ==
  LET auto == BuildAutoNodeAliases(t, log)
  IN [key \in DOMAIN saved \cup DOMAIN auto |->
        IF key \in DOMAIN saved THEN saved[key] ELSE auto[key]]

\* sourceTitle of an event: the name of its edge, its location, the number.
GetEventPresentation(e, t, names) ==
  LET Node  == {n \in Edges(t) : n.id = e.node}
      node  == CHOOSE n \in Node : TRUE
      alias == IF Node = {} THEN NoAlias ELSE ResolveNodeAlias(node, names)
  IN [source |-> e.node,
      title  |-> IF alias # NoAlias THEN alias ELSE e.place,
      number |-> IF Node = {} THEN 0 ELSE EdgeNumber(t, node)]

\* Mutants of BuildEventPresentationSnapshots: views of forgotten events are
\* kept; views are made anew.
SnapshotsForEver(log, previous, t, names) ==
  previous @@ [id \in {e.msg_id : e \in ToSet(log)} |->
                 GetEventPresentation(CHOOSE e \in ToSet(log) : e.msg_id = id, t, names)]
SnapshotsAnew(log, previous, t, names) ==
  [id \in {e.msg_id : e \in ToSet(log)} |->
     GetEventPresentation(CHOOSE e \in ToSet(log) : e.msg_id = id, t, names)]

\* What an event was shown as once, it is shown as for as long as it is listed.
BuildEventPresentationSnapshots(log, previous, t, names) ==
  [id \in {e.msg_id : e \in ToSet(log)} |->
     IF id \in DOMAIN previous THEN previous[id]
     ELSE GetEventPresentation(CHOOSE e \in ToSet(log) : e.msg_id = id, t, names)]

GetRecentRecoveryDeadline(node) == node.status_changed_at + WINDOW

MayBeRecovered(node) ==
  node.role # "CORE" /\ node.status = "ONLINE" /\ node.previous_status = "OFFLINE"

IsRecentlyRecoveredNode(node) == MayBeRecovered(node) /\ now <= GetRecentRecoveryDeadline(node)

\* The effect that draws: nodes, their kinds and the links between them.
Redraw(t) ==
  graph' = [recovered |-> {n.id : n \in {r \in t.nodes : IsRecentlyRecoveredNode(r)}},
            links |-> BuildTopologyGraphLinks(t, {n.id : n \in t.nodes}, Order)]

\* The effect that sees to it that a recovered node is drawn as any other later.
ArmTimer(t) ==
  LET later == {d \in {GetRecentRecoveryDeadline(n) : n \in {r \in t.nodes : MayBeRecovered(r)}} :
                  d > now}
  IN timer' = [at |-> IF later = {} THEN NoTimer
                      ELSE (CHOOSE d \in later : \A x \in later : d <= x) + 1,
               ran |-> now]

Render(t, log, saved) ==
  /\ views' = BuildEventPresentationSnapshots(log, views, t, EffectiveNodeAliases(t, log, saved))
  /\ Redraw(t)

\* Mutant of Drafts: the drafts are read from the saved names again.
DraftsReset(t, previous, saved) ==
  [key \in {GetNodeAliasKey(n) : n \in Edges(t)} |->
     ResolveNodeAlias(CHOOSE n \in Edges(t) : GetNodeAliasKey(n) = key, saved)]

\* The effect on [isAliasModalOpen, edgeNodeIdsKey, nodeAliases].
Drafts(t, previous, saved) ==
  [key \in {GetNodeAliasKey(n) : n \in Edges(t)} |->
     IF key \in DOMAIN previous THEN previous[key]
     ELSE ResolveNodeAlias(CHOOSE n \in Edges(t) : GetNodeAliasKey(n) = key, saved)]

-----------------------------------------------------------------------------
(* Changes. *)

\* A table of the cores; a row's age is how long ago its status changed.
TableArrives(listing) ==
  LET Dated(row) == [id |-> row.id, role |-> row.role, status |-> row.status, ip |-> row.ip,
                     port |-> row.port, previous_status |-> row.previous_status,
                     status_changed_at |-> now - row.age]
      t == BuildPresentationTopology(raw', {})
  IN /\ count.tables < MaxTables
     /\ count' = [count EXCEPT !.tables = @ + 1]
     /\ raw' = [listing EXCEPT !.nodes = [i \in DOMAIN @ |-> Dated(@[i])]]
     /\ topology' = t
     /\ modal' = IF modal.open THEN [modal EXCEPT !.drafts = Drafts(t, @, aliases)] ELSE modal
     /\ Render(t, events, aliases)
     /\ ArmTimer(t)
     /\ UNCHANGED <<events, aliases, now>>

EventArrives(node, place) ==
  LET e   == [msg_id |-> count.events + 1, node |-> node, place |-> place]
      log == SubSeq(<<e>> \o events, 1, IF Len(events) < MAX_EVENTS THEN Len(events) + 1 ELSE MAX_EVENTS)
  IN /\ count.events < MaxEvents
     /\ count' = [count EXCEPT !.events = @ + 1]
     /\ events' = log
     /\ Render(topology, log, aliases)
     /\ UNCHANGED <<raw, topology, aliases, modal, timer, now>>

OpenAliasModal ==
  /\ ~modal.open
  /\ modal' = [open |-> TRUE, drafts |-> Drafts(topology, NoNames, aliases)]
  /\ Render(topology, events, aliases)
  /\ UNCHANGED <<raw, topology, events, aliases, timer, now, count>>

CloseAliasModal ==
  /\ modal.open
  /\ modal' = [modal EXCEPT !.open = FALSE]
  /\ Render(topology, events, aliases)
  /\ UNCHANGED <<raw, topology, events, aliases, timer, now, count>>

TypeName(key, name) ==
  /\ modal.open /\ key \in DOMAIN modal.drafts
  /\ modal' = [modal EXCEPT !.drafts[key] = name]
  /\ Render(topology, events, aliases)
  /\ UNCHANGED <<raw, topology, events, aliases, timer, now, count>>

\* Mutant of NamesAfterSave: only the names in the dialog are saved.
NamesInDialog ==
  LET Listed == {GetNodeAliasKey(n) : n \in Edges(topology)}
  IN [key \in {k \in Listed : modal.drafts[k] # NoAlias} |-> modal.drafts[key]]

\* Saved names of the edges the dialog does not list stay as they are.  The
\* key of an older version, the bare id, goes first: for an edge without an
\* address it is the key its name is then saved under.
NamesAfterSave ==
  LET Listed  == {GetNodeAliasKey(n) : n \in Edges(topology)}
      Legacy  == {<<n.id, 0>> : n \in Edges(topology)}
      Cleared == {key \in Listed : modal.drafts[key] = NoAlias}
  IN [key \in ((DOMAIN aliases \ Legacy) \cup Listed) \ Cleared |->
        IF key \in Listed THEN modal.drafts[key] ELSE aliases[key]]

SaveAliasModal ==
  /\ modal.open /\ count.saves < MaxSaves
  /\ count' = [count EXCEPT !.saves = @ + 1]
  /\ aliases' = NamesAfterSave
  /\ modal' = [modal EXCEPT !.open = FALSE]
  /\ Render(topology, events, NamesAfterSave)
  /\ UNCHANGED <<raw, topology, events, timer, now>>

\* Mutant of TimerFires: the effect of the timer does not depend on the epoch.
TimerFiresOnce ==
  /\ timer.at # NoTimer /\ now >= timer.at
  /\ Redraw(topology)
  /\ timer' = [timer EXCEPT !.at = NoTimer]
  /\ UNCHANGED <<raw, topology, events, views, aliases, modal, now, count>>

\* The timer bumps transitionEpoch.
TimerFires ==
  /\ timer.at # NoTimer /\ now >= timer.at
  /\ Redraw(topology)
  /\ ArmTimer(topology)
  /\ UNCHANGED <<raw, topology, events, views, aliases, modal, now, count>>

Tick ==
  /\ now < MaxTime
  /\ now' = now + 1
  /\ UNCHANGED <<raw, topology, events, views, aliases, modal, graph, timer, count>>

Next ==
  \/ OpenAliasModal \/ CloseAliasModal \/ SaveAliasModal \/ TimerFires \/ Tick
  \/ \E listing \in Listings : TableArrives(listing)
  \/ \E node \in EdgeIds, place \in Places \cup {NoAlias} : EventArrives(node, place)
  \/ \E key \in DOMAIN modal.drafts, name \in Names \cup {NoAlias} : TypeName(key, name)

Spec == Init /\ [][Next]_vars

-----------------------------------------------------------------------------
(* Properties. *)

Labels == Names \cup Places \cup {NoAlias}

\* The page holds what its renders expect: a view for every event of the log
\* and, in an open dialog, a draft for every edge.
TypeOK ==
  /\ Len(events) <= MAX_EVENTS
  /\ DOMAIN views = {e.msg_id : e \in ToSet(events)}
  /\ \A id \in DOMAIN views : views[id].title \in Labels
  /\ \A key \in DOMAIN aliases : aliases[key] \in Names
  /\ modal.open => DOMAIN modal.drafts = {GetNodeAliasKey(n) : n \in Edges(topology)}
  /\ timer.at \in Int

\* nodePresentation 58-90, App 144-145: a name the user saved for an endpoint is
\* the name shown, under whatever id the edge is back and whatever locations its
\* events report.
SavedNameShown ==
  \A n \in Edges(topology) :
    GetNodeAliasKey(n) \in DOMAIN aliases =>
      ResolveNodeAlias(n, EffectiveNodeAliases(topology, events, aliases)) = aliases[GetNodeAliasKey(n)]

\* topologyVisibility 11-31, 57-93: an endpoint with edges in the table is shown
\* once, and ONLINE if one of its rows is, wherever its old rows are.
EndpointsShown ==
  /\ \A m, n \in topology.nodes : m # n => EndpointKey(m) # EndpointKey(n)
  /\ \A row \in {r \in Rows(raw) : r.role # "CORE"} :
       \E n \in topology.nodes : /\ EndpointKey(n) = EndpointKey(row)
                                 /\ row.status = "ONLINE" => n.status = "ONLINE"

\* topologyGraphModel 192-249, TopologyGraph 295-343: two nodes that a table
\* links, in one direction or both, are joined by one line, and every line joins
\* two nodes that are drawn: the library throws otherwise.
LinksDrawnOnce ==
  LET Ends(l)  == {l.from_id, l.to_id}
      drawn    == {n.id : n \in topology.nodes}
      linked   == {Ends(l) : l \in topology.links}
  IN /\ \A pair \in linked : Cardinality(pair) = 2 =>
          Cardinality({l \in graph.links : Ends(l) = pair}) = 1
     /\ \A l \in graph.links : Ends(l) \in linked /\ Ends(l) \subseteq drawn

\* nodeTransitions 8-27, TopologyGraph 274-293: a node drawn as recovered has a
\* timer that ends it, also when several recovered at different times.  The
\* moment a deadline passes is left out: an effect run then sets no timer.
RecoveryEnds ==
  \A n \in topology.nodes :
    n.id \in graph.recovered /\ GetRecentRecoveryDeadline(n) > timer.ran =>
      timer.at # NoTimer /\ timer.at <= GetRecentRecoveryDeadline(n) + 1

\* eventSnapshot 3-23: tables, names and numbers change, an event of the log is
\* shown as it was.
ViewsFrozen == [][\A id \in DOMAIN views \cap DOMAIN views' : views'[id] = views[id]]_vars

\* App 213-229: saving names does not touch those of edges that are away.
AbsentNamesKept ==
  [][\A key \in DOMAIN aliases :
       key \notin {GetNodeAliasKey(n) : n \in Edges(topology)} =>
         key \in DOMAIN aliases' /\ aliases'[key] = aliases[key]]_vars

\* App 231-243: while the dialog is open, tables that add or remove other edges
\* do not undo what the user has typed for an edge.
DraftsKept ==
  [][modal.open /\ modal'.open /\ topology' # topology =>
       \A key \in DOMAIN modal.drafts \cap DOMAIN modal'.drafts :
         modal'.drafts[key] = modal.drafts[key]]_vars
=============================================================================
