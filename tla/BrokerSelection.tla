--------------------------- MODULE BrokerSelection ---------------------------
(***************************************************************************)
(* How the browser publisher reads a Connection Table:                     *)
(* publisher_client/src/mqtt/ctFailover.js.                                *)
(*                                                                         *)
(* A table is [version, nodes, links, active_core_id, backup_core_id], its *)
(* nodes and links sequences, because the code takes the first that        *)
(* matches.  A node is [id, role, status, ip, hop_to_core]; ports are left *)
(* out: usePublisher dials every broker at the port the user typed.  What  *)
(* is not a number in the JSON (an rtt_ms, a hop_to_core) is NotANumber.   *)
(***************************************************************************)
EXTENDS Integers, Sequences

NotANumber == -1
Infinity   == 1000000     \* above every RTT
NoTable    == [version |-> NotANumber, nodes |-> <<>>, links |-> <<>>,
               active_core_id |-> "", backup_core_id |-> ""]
NoNode     == [id |-> "", role |-> "", status |-> "", ip |-> "", hop_to_core |-> NotANumber]

\* Array.prototype.find on the nodes: the first at the positions that match.
FirstNode(nodes, Hits) ==
  IF Hits = {} THEN NoNode ELSE nodes[CHOOSE i \in Hits : \A j \in Hits : i <= j]

\* The first link between the two, whatever its direction, even one without an RTT.
GetRtt(links, from, to) ==
  LET Hits == {i \in DOMAIN links : {links[i].from_id, links[i].to_id} = {from, to}}
      rtt  == links[CHOOSE i \in Hits : \A j \in Hits : i <= j].rtt_ms
  IN IF from = "" \/ Hits = {} \/ rtt = NotANumber THEN Infinity ELSE rtt

HopOf(node) == IF node.hop_to_core = NotANumber THEN 999 ELSE node.hop_to_core

IsBrokerNode(node, role) == node.role = role /\ node.status = "ONLINE" /\ node.ip # ""

IsExcludedNode(node, primaryId, primaryIp) ==
  IF primaryId # "" THEN node.id = primaryId ELSE primaryIp # "" /\ node.ip = primaryIp

IsBetterCandidate(candidate, best) ==
  candidate.rtt < best.rtt \/ (candidate.rtt = best.rtt /\ candidate.hop < best.hop)

BuildCandidate(nodes, links, primaryId, i) ==
  [node |-> nodes[i], at |-> i, rtt |-> GetRtt(links, primaryId, nodes[i].id), hop |-> HopOf(nodes[i])]

\* Does the loop over the nodes end with the one rather than the other?  It keeps
\* the first of equals.
IsKept(one, other) ==
  \/ IsBetterCandidate(one, other)
  \/ ~IsBetterCandidate(other, one) /\ one.at <= other.at

PickBestCandidate(nodes, links, primaryId, role, primaryIp) ==
  LET Hits       == {i \in DOMAIN nodes : IsBrokerNode(nodes[i], role)
                                         /\ ~IsExcludedNode(nodes[i], primaryId, primaryIp)}
      Candidates == {BuildCandidate(nodes, links, primaryId, i) : i \in Hits}
  IN IF Hits = {} THEN NoNode
     ELSE (CHOOSE c \in Candidates : \A other \in Candidates : IsKept(c, other)).node

FindPreferredCoreBroker(ct, primaryId) ==
  LET Core(id) == FirstNode(ct.nodes, {i \in DOMAIN ct.nodes :
                               ct.nodes[i].id = id /\ IsBrokerNode(ct.nodes[i], "CORE")})
  IN CASE Core(ct.active_core_id) # NoNode -> Core(ct.active_core_id)
       [] Core(ct.backup_core_id) # NoNode -> Core(ct.backup_core_id)
       [] OTHER -> PickBestCandidate(ct.nodes, ct.links, primaryId, "CORE", "")

SelectFallbackBroker(ct, primaryId, primaryIp) ==
  LET bestEdge == PickBestCandidate(ct.nodes, ct.links, primaryId, "NODE", primaryIp)
  IN IF bestEdge # NoNode THEN bestEdge ELSE FindPreferredCoreBroker(ct, primaryId)

ShouldReturnToPrimary(ct, primaryId) ==
  primaryId # "" /\ \E i \in DOMAIN ct.nodes :
                       ct.nodes[i].id = primaryId /\ ct.nodes[i].status = "ONLINE"

\* A malformed table does not get here: only its version is left to look at.
ShouldAcceptCtUpdate(previous, next) ==
  previous = NoTable \/ next.version > previous.version

ResolvePrimaryEdgeId(ct, ip) ==
  FirstNode(ct.nodes, {i \in DOMAIN ct.nodes : ct.nodes[i].role = "NODE" /\ ct.nodes[i].ip = ip}).id
=============================================================================
