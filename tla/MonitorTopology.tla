--------------------------- MODULE MonitorTopology ---------------------------
(***************************************************************************)
(* What the monitor makes of a Connection Table before it draws it:        *)
(* client/src/mqtt/failover.js, topologyVisibility.js, nodePresentation.js *)
(* and client/src/components/topologyGraphModel.js.                        *)
(*                                                                         *)
(* A table is [version, nodes, links, active_core_id, backup_core_id], its *)
(* nodes and links sequences; a node is [id, role, status, ip, port] and a *)
(* link [from_id, to_id]: RTTs are printed beside a link, nothing more.    *)
(***************************************************************************)
EXTENDS Integers, Sequences, SequencesExt

NoTable == [version |-> 0, nodes |-> <<>>, links |-> <<>>,
            active_core_id |-> "", backup_core_id |-> ""]
NoNode  == [id |-> "", role |-> "", status |-> "", ip |-> "", port |-> 0]

Rows(topology) == ToSet(topology.nodes)

-----------------------------------------------------------------------------
(* failover.js: where to reconnect. *)

FindNodeById(nodes, id) ==
  LET Hits == {i \in DOMAIN nodes : id # "" /\ nodes[i].id = id}
  IN IF Hits = {} THEN NoNode ELSE nodes[CHOOSE i \in Hits : \A j \in Hits : i <= j]

ResolveBackupReconnectTarget(topology) ==
  LET backup == FindNodeById(topology.nodes, topology.backup_core_id)
  IN IF backup.status = "OFFLINE" THEN NoNode ELSE backup

\* NoNode if there was no table before, or the Active is the same, or it is the
\* core the monitor dials already.
SelectPromotedActiveNode(previous, next, host) ==
  LET active == FindNodeById(next.nodes, next.active_core_id)
  IN IF \/ previous = NoTable \/ previous.active_core_id = next.active_core_id
        \/ active.status = "OFFLINE" \/ active.ip = host
     THEN NoNode ELSE active

-----------------------------------------------------------------------------
(* topologyVisibility.js: what is shown of a table. *)

EndpointKey(node) ==
  CASE node.role = "CORE"                 -> <<"CORE", node.id, 0>>
    [] node.role # "CORE" /\ node.ip # "" -> <<"NODE", node.ip, node.port>>
    [] OTHER                              -> <<"NODE_ID", node.id, 0>>

\* Mutant of PreferPresentationNode: the first row stands for its endpoint.
PreferFirstNode(current, candidate) == IF current = NoNode THEN candidate ELSE current

\* An edge that came back under a new id replaces its old row; of two that are
\* both ONLINE, or both OFFLINE, the first stays.
PreferPresentationNode(current, candidate) ==
  IF current = NoNode \/ (current.status # "ONLINE" /\ candidate.status = "ONLINE")
  THEN candidate ELSE current

ReconcileHiddenNodeIds(topology, hidden) ==
  hidden \ {n.id : n \in {r \in Rows(topology) : r.status = "ONLINE"}}

IsCurrentCoreNode(node, topology) == node.id \in {topology.active_core_id, topology.backup_core_id}

IsVisible(node, topology, hidden) ==
  /\ node.id \notin hidden
  /\ node.role = "CORE" => IsCurrentCoreNode(node, topology) /\ node.status = "ONLINE"

\* The positions of the rows that compete for an endpoint.
CandidatesAt(topology, hidden, key) ==
  {i \in DOMAIN topology.nodes : /\ IsVisible(topology.nodes[i], topology, hidden)
                                 /\ EndpointKey(topology.nodes[i]) = key}

\* The position of the row that stands for the endpoint: it replaces whichever
\* row came before it, and no later one replaces it.
ShownAt(topology, hidden, key) ==
  LET At     == CandidatesAt(topology, hidden, key)
      row(i) == topology.nodes[i]
  IN CHOOSE i \in At : \A j \in At :
       /\ j < i => PreferPresentationNode(row(j), row(i)) = row(i)
       /\ i < j => PreferPresentationNode(row(i), row(j)) = row(i)

\* The order of nodes and links does not matter to what is drawn: sets.
BuildPresentationTopology(topology, hidden) ==
  LET visible == {n \in Rows(topology) : IsVisible(n, topology, hidden)}
      nodes   == {topology.nodes[ShownAt(topology, hidden, EndpointKey(n))] : n \in visible}
      ids     == {n.id : n \in nodes}
  IN [topology EXCEPT !.nodes = nodes,
        !.links = {l \in ToSet(@) : l.from_id \in ids /\ l.to_id \in ids}]

-----------------------------------------------------------------------------
(* topologyGraphModel.js: what the graph draws of what is shown. *)

RoleOf(topology, id) ==
  IF \E n \in topology.nodes : n.id = id /\ n.role = "CORE" THEN "CORE" ELSE "NODE"

\* localeCompare: order lists what is compared.
Precedes(order, a, b) ==
  \E i, j \in DOMAIN order : i < j /\ order[i] = a /\ order[j] = b

\* Mutant of NormalizeLinkDirection: links stay as the table has them.
KeepLinkDirection(from, to, topology, order) == <<from, to>>

\* Core first; two nodes of one role in the order of their ids.
NormalizeLinkDirection(from, to, topology, order) ==
  IF RoleOf(topology, from) # RoleOf(topology, to)
  THEN IF RoleOf(topology, from) = "CORE" THEN <<from, to>> ELSE <<to, from>>
  ELSE IF Precedes(order, from, to) THEN <<from, to>> ELSE <<to, from>>

ClassifyTopologyLink(topology, from, to) ==
  LET cores == {id \in {from, to} : RoleOf(topology, id) = "CORE"}
  IN CASE cores = {from, to}                 -> "core-peer-link"
       [] cores = {}                         -> "peer-link"
       [] cores = {topology.active_core_id}  -> "active-link"
       [] cores = {topology.backup_core_id}  -> "backup-link"
       [] OTHER                              -> "default-link"

\* Both directions of a link become one.
BuildTopologyGraphLinks(topology, drawn, order) ==
  LET drawable == {l \in topology.links : l.from_id # l.to_id /\ {l.from_id, l.to_id} \subseteq drawn}
      ends     == {NormalizeLinkDirection(l.from_id, l.to_id, topology, order) : l \in drawable}
  IN {[from_id |-> e[1], to_id |-> e[2],
       edgeKind |-> ClassifyTopologyLink(topology, e[1], e[2])] : e \in ends}

-----------------------------------------------------------------------------
(* nodePresentation.js: names. *)

NoAlias == ""

GetNodeAliasKey(node) == IF node.ip # "" THEN <<node.ip, node.port>> ELSE <<node.id, 0>>

\* aliases is a function from keys to names; ResolveNodeAlias looks for the
\* endpoint, then for the id (a key of an older version of the page).
AliasAt(aliases, key) == IF key \in DOMAIN aliases THEN aliases[key] ELSE NoAlias

ResolveNodeAlias(node, aliases) ==
  LET byEndpoint == AliasAt(aliases, GetNodeAliasKey(node))
  IN IF byEndpoint # NoAlias THEN byEndpoint ELSE AliasAt(aliases, <<node.id, 0>>)

\* The location in the newest event of an edge (events are newest first), under
\* its endpoint if the table has the edge, and under its id.
BuildAutoNodeAliases(topology, events) ==
  LET Keys(e) == {<<e.node, 0>>} \cup
                 {GetNodeAliasKey(n) : n \in {r \in topology.nodes : r.id = e.node}}
      Named   == {i \in DOMAIN events : events[i].node # "" /\ events[i].place # NoAlias}
      Newest(key) == CHOOSE i \in Named :
                       /\ key \in Keys(events[i])
                       /\ \A j \in Named : key \in Keys(events[j]) => i <= j
  IN [key \in UNION {Keys(events[i]) : i \in Named} |-> events[Newest(key)].place]
=============================================================================
