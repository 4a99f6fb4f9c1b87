--------------------------- MODULE ConnectionTable ---------------------------
(***************************************************************************)
(* The Connection Table (CT): who is in the network, whether it is up, and *)
(* how it is linked.  Every core and every edge holds one, guarded by the  *)
(* mutex of ConnectionTableManager; tables travel between cores as whole   *)
(* snapshots and are merged row by row.                                    *)
(*                                                                         *)
(* This module holds the pure operations: the mutators of                  *)
(* broker/src/common/connection_table_manager.cpp and the merges of        *)
(* broker/include/core_helpers.h.                                          *)
(*                                                                         *)
(* Abstractions.  The role, endpoint and hop count of an id never change   *)
(* (an edge derives its id from its endpoint, a core takes a fresh one),   *)
(* so a row keeps only the fields that do: status, previous status and the *)
(* time of the last transition (whole seconds; 0 is the empty string).     *)
(* The arrays nodes[] and links[] are a function and a set: their order    *)
(* shows only when a full table refuses rows, where the caller chooses     *)
(* which rows of the snapshot were admitted.  Every link the cores keep    *)
(* has rtt 0, so a link is a pair; MAX_LINKS (256) is left out.            *)
(***************************************************************************)
EXTENDS Integers, FiniteSets

CONSTANTS Cores,     \* ids of the core brokers
          Edges,     \* ids of the edge brokers
          Endpoint,  \* [Edges -> ...]: the "ip:port" an edge announces
          NoId,      \* the empty id ""
          MaxNodes   \* MAX_NODES, rows a table can hold

ASSUME TableConstants ==
  /\ Cores \cap Edges = {}
  /\ NoId \notin Cores \cup Edges
  /\ IsFiniteSet(Cores \cup Edges)
  /\ DOMAIN Endpoint = Edges
  /\ MaxNodes \in Nat

Ids == Cores \cup Edges

Online  == "ONLINE"
Offline == "OFFLINE"
Absent  == "ABSENT"     \* the id has no row

Row == [status : {Online, Offline, Absent},
        prev   : {Online, Offline, Absent},
        at     : Nat]

NoRow == [status |-> Absent, prev |-> Absent, at |-> 0]

Table == [version : Nat,
          active  : Ids \cup {NoId},
          backup  : Ids \cup {NoId},
          nodes   : [Ids -> Row],
          links   : SUBSET (Ids \X Ids)]

Known(t) == {i \in Ids : t.nodes[i].status # Absent}

Room(t) == MaxNodes - Cardinality(Known(t))

(***************************************************************************)
(* ConnectionTableManager                                                  *)
(***************************************************************************)

\* Mutant of NewTable: the version is left as the memory held it.
NewTableUncounted(active, backup) ==
  [version |-> -2, active |-> active, backup |-> backup,
   nodes |-> [i \in Ids |-> NoRow], links |-> {}]

\* init(): everything zeroed but the two core ids.
NewTable(active, backup) ==
  [version |-> 0, active |-> active, backup |-> backup,
   nodes |-> [i \in Ids |-> NoRow], links |-> {}]

\* What a process knows of a node it registers: the status, no transition.
Announced(status) == [status |-> status, prev |-> Online, at |-> 0]

\* Mutant of PutRow: bumpVersion() forgotten.
PutRowSilently(t, id, row) == [t EXCEPT !.nodes[id] = row]

\* Every change of a row counts one version (bumpVersion()).
PutRow(t, id, row) == [t EXCEPT !.version = @ + 1, !.nodes[id] = row]

\* addNode(): refused when the table is full or the id is known; an empty
\* transition time is filled in.
AddNode(t, id, row, now) ==
  IF Room(t) <= 0 \/ id \in Known(t) THEN t
  ELSE IF row.at # 0 THEN PutRow(t, id, row)
  ELSE PutRow(t, id, [status |-> row.status, prev |-> row.status, at |-> now])

\* updateNode(): replaces the row; an empty transition time is kept from the
\* old row, or set when the status changes.
UpdateNode(t, id, row, now) ==
  LET old == t.nodes[id] IN
  IF id \notin Known(t) THEN t
  ELSE IF row.at # 0 THEN PutRow(t, id, row)
  ELSE IF old.status = row.status
    THEN PutRow(t, id, [status |-> row.status, prev |-> old.prev, at |-> old.at])
    ELSE PutRow(t, id, [status |-> row.status, prev |-> old.status, at |-> now])

\* setNodeStatus(): no-op on an unknown id and on the status it already has.
SetNodeStatus(t, id, status, now) ==
  IF id \notin Known(t) \/ t.nodes[id].status = status THEN t
  ELSE PutRow(t, id, [status |-> status, prev |-> t.nodes[id].status, at |-> now])

AddLink(t, from, to) ==
  IF <<from, to>> \in t.links
    THEN t
    ELSE [t EXCEPT !.version = @ + 1, !.links = @ \cup {<<from, to>>}]

SetActiveCoreId(t, id) ==
  IF t.active = id THEN t ELSE [t EXCEPT !.version = @ + 1, !.active = id]

SetBackupCoreId(t, id) ==
  IF t.backup = id THEN t ELSE [t EXCEPT !.version = @ + 1, !.backup = id]

(***************************************************************************)
(* core_helpers.h: comparing and merging                                   *)
(***************************************************************************)

\* same_node_entry(): the transition is compared only when both rows have one.
SameNodeEntry(left, right) ==
  /\ left.status = right.status
  /\ (left.at # 0 /\ right.at # 0) => (left.prev = right.prev /\ left.at = right.at)

FreshRows(t, remote) == Known(remote) \ Known(t)

DifferingRows(t, remote) ==
  {i \in Known(remote) \cap Known(t) : ~ SameNodeEntry(t.nodes[i], remote.nodes[i])}

\* Which fresh rows fit: all of them, or as many as there is room for.
Admissions(t, remote) ==
  LET fresh == FreshRows(t, remote)
      fits  == IF Cardinality(fresh) <= Room(t) THEN Cardinality(fresh) ELSE Room(t)
  IN  {S \in SUBSET fresh : Cardinality(S) = fits}

\* The loops of both merges: take the rows in `taken` and every link of the
\* snapshot, one version per row taken and per link that was new.
Absorb(t, remote, taken) ==
  [t EXCEPT !.version = @ + Cardinality(taken) + Cardinality(remote.links \ t.links),
            !.nodes   = [i \in Ids |-> IF i \in taken THEN remote.nodes[i]
                                                      ELSE t.nodes[i]],
            !.links   = @ \cup remote.links]

\* Mutant of MergeConnectionTables: only rows that are known are merged.
MergeKnownRows(t, remote, admitted) == Absorb(t, remote, DifferingRows(t, remote))

\* merge_connection_tables(): what the Backup does with a CT of the Active.
MergeConnectionTables(t, remote, admitted) ==
  Absorb(t, remote, admitted \cup DifferingRows(t, remote))

\* Its result: a fresh row counts as a change even when the table is full.
MergeChanges(t, remote) ==
  \/ FreshRows(t, remote) # {}
  \/ DifferingRows(t, remote) # {}
  \/ ~ (remote.links \subseteq t.links)

\* Mutant of AdoptBackup: a registration older than the own table is ignored.
AdoptBackupIfNewer(t, self, remote) ==
  IF remote.backup = NoId \/ remote.version <= t.version
    THEN t
    ELSE AddLink(SetBackupCoreId(t, remote.backup), self, remote.backup)

\* The first half of merge_backup_registration(): the Active takes over the
\* backup's id and keeps a link to it.
AdoptBackup(t, self, remote) ==
  IF remote.backup = NoId
    THEN t
    ELSE AddLink(SetBackupCoreId(t, remote.backup), self, remote.backup)

\* Mutant of ProtectedRows: the guard on edge liveness dropped.
NoProtectedRows(t, remote) == {}

\* "The Active is the authority on edge liveness": a registration may not
\* put an edge the Active sees ONLINE to OFFLINE.
ProtectedRows(t, remote) ==
  {i \in Edges : t.nodes[i].status = Online /\ remote.nodes[i].status = Offline}

MergeBackupRegistration(t, self, remote, admitted) ==
  Absorb(AdoptBackup(t, self, remote), remote,
         admitted \cup (DifferingRows(t, remote) \ ProtectedRows(t, remote)))

\* Mutant of RegistrationChanges: a new link alone does not count as a change.
RegistrationChangesRows(t, self, remote) ==
  \/ AdoptBackup(t, self, remote) # t
  \/ FreshRows(t, remote) # {}
  \/ DifferingRows(t, remote) \ ProtectedRows(t, remote) # {}

RegistrationChanges(t, self, remote) ==
  \/ AdoptBackup(t, self, remote) # t
  \/ FreshRows(t, remote) # {}
  \/ DifferingRows(t, remote) \ ProtectedRows(t, remote) # {}
  \/ ~ (remote.links \subseteq AdoptBackup(t, self, remote).links)

\* mark_duplicate_endpoint_nodes_offline(): an edge that registers puts every
\* other ONLINE edge row with its endpoint to OFFLINE.
Duplicates(t, e) ==
  {d \in Edges \ {e} : Endpoint[d] = Endpoint[e] /\ t.nodes[d].status = Online}

MarkDuplicateEndpointNodesOffline(t, e, now) ==
  [t EXCEPT !.version = @ + Cardinality(Duplicates(t, e)),
            !.nodes   = [i \in Ids |->
                           IF i \in Duplicates(t, e)
                             THEN [status |-> Offline, prev |-> Online, at |-> now]
                             ELSE t.nodes[i]]]

(***************************************************************************)
(* Whole-table steps of core/main.cpp's handlers                           *)
(***************************************************************************)

\* The STATUS branch of on_message(): new, recovered or repeated edge, and
\* the link from this core to it.
RegisterEdge(t, self, e, now) ==
  LET dedup == MarkDuplicateEndpointNodesOffline(t, e, now)
      row   == Announced(Online)
      known == IF e \notin Known(dedup) THEN AddNode(dedup, e, row, now)
               ELSE IF SameNodeEntry(dedup.nodes[e], row) THEN dedup
               ELSE UpdateNode(dedup, e, row, now)
  IN  AddLink(known, self, e)

\* promote_core_after_failover().
PromoteCoreAfterFailover(t, promoted, failed, now) ==
  LET marked == IF failed \in {NoId, promoted}
                  THEN t ELSE SetNodeStatus(t, failed, Offline, now)
  IN  SetBackupCoreId(SetActiveCoreId(marked, promoted), NoId)

\* should_promote_backup_on_core_will().
ShouldPromoteBackupOnCoreWill(t, backup, failed) ==
  /\ failed \notin {NoId, backup}
  /\ t.active \in {NoId, failed}

\* The core-will branch of on_message(): the Active drops a backup that went.
DropPeerCore(t, core, now) ==
  SetNodeStatus(IF t.backup = core THEN SetBackupCoreId(t, NoId) ELSE t,
                core, Offline, now)
=============================================================================
