------------------------ MODULE ConnectionTableProofs ------------------------
(***************************************************************************)
(* Lemmas about the operations of ConnectionTable, for every set of ids    *)
(* and every table: each returns a table, and returns either the table it  *)
(* was given or one with a higher version.                                 *)
(***************************************************************************)
EXTENDS ConnectionTable, FiniteSetTheorems, TLAPS

\* u is t, or carries a higher version: what every mutation owes a receiver
\* that compares versions.
Advances(t, u) == u = t \/ u.version > t.version

\* A chain of mutations advances as well.
LEMMA AdvancesTransitive ==
  ASSUME NEW t \in Table, NEW u \in Table, NEW v \in Table,
         Advances(t, u), Advances(u, v)
  PROVE  Advances(t, v)
BY DEF Advances, Table

\* What the operations count is finite.
LEMMA FiniteCounts ==
  ASSUME NEW S, S \subseteq Ids \/ S \subseteq Ids \X Ids
  PROVE  /\ Cardinality(S) \in Nat
         /\ Cardinality(S) = 0 <=> S = {}
<1>1. IsFiniteSet(Ids)
  BY TableConstants DEF Ids
<1>2. IsFiniteSet(Ids \X Ids)
  BY <1>1, FS_Product
<1>3. IsFiniteSet(S)
  BY <1>1, <1>2, FS_Subset
<1> QED
  BY <1>3, FS_CardinalityType, FS_EmptySet

\* NewTable returns a table.
LEMMA NewTableType ==
  ASSUME NEW a \in Ids \cup {NoId}, NEW b \in Ids \cup {NoId}
  PROVE  NewTable(a, b) \in Table
BY DEF NewTable, Table, Row, NoRow, Online, Offline, Absent

\* Replacing fields of a table by values of their types.
LEMMA Rebuild ==
  ASSUME NEW t \in Table
  PROVE  \A v \in Nat :
           /\ \A c \in Ids \cup {NoId} :
                /\ [t EXCEPT !.version = v, !.active = c] \in Table
                /\ [t EXCEPT !.version = v, !.backup = c] \in Table
           /\ \A l \in SUBSET (Ids \X Ids) :
                [t EXCEPT !.version = v, !.links = l] \in Table
           /\ \A n \in [Ids -> Row] :
                [t EXCEPT !.version = v, !.nodes = n] \in Table
           /\ \A n \in [Ids -> Row], l \in SUBSET (Ids \X Ids) :
                [t EXCEPT !.version = v, !.nodes = n, !.links = l] \in Table
BY DEF Table

\* Storing a row.
LEMMA PutRowAdvances ==
  ASSUME NEW t \in Table, NEW id \in Ids, NEW row \in Row
  PROVE  /\ PutRow(t, id, row) \in Table
         /\ PutRow(t, id, row).version > t.version
         /\ PutRow(t, id, row).nodes = [t.nodes EXCEPT ![id] = row]
<1>1. t.version + 1 \in Nat /\ t.version + 1 > t.version
  BY DEF Table
<1>2. \A v \in Nat : [t EXCEPT !.version = v, !.nodes[id] = row] \in Table
  BY DEF Table
<1>3. PutRow(t, id, row) \in Table
  BY <1>1, <1>2 DEF PutRow
<1>4. /\ PutRow(t, id, row).version = t.version + 1
      /\ PutRow(t, id, row).nodes = [t.nodes EXCEPT ![id] = row]
  BY DEF PutRow, Table
<1> QED
  BY <1>1, <1>3, <1>4

\* addNode, updateNode and setNodeStatus.
LEMMA RowOperationsAdvance ==
  ASSUME NEW t \in Table, NEW id \in Ids, NEW row \in Row,
         NEW status \in {Online, Offline}, NEW now \in Nat
  PROVE  /\ AddNode(t, id, row, now) \in Table
         /\ Advances(t, AddNode(t, id, row, now))
         /\ UpdateNode(t, id, row, now) \in Table
         /\ Advances(t, UpdateNode(t, id, row, now))
         /\ SetNodeStatus(t, id, status, now) \in Table
         /\ Advances(t, SetNodeStatus(t, id, status, now))
<1>1. \A r \in Row : PutRow(t, id, r) \in Table /\ Advances(t, PutRow(t, id, r))
  BY PutRowAdvances DEF Advances
<1>2. /\ t.nodes[id] \in Row
      /\ \A s \in {row.status, status}, p \in {row.status, t.nodes[id].status, t.nodes[id].prev},
            a \in {now, t.nodes[id].at} : [status |-> s, prev |-> p, at |-> a] \in Row
  BY DEF Table, Row
<1>3. Advances(t, t)
  BY DEF Advances
<1>4. AddNode(t, id, row, now) \in Table /\ Advances(t, AddNode(t, id, row, now))
  BY <1>1, <1>2, <1>3 DEF AddNode
<1>5. UpdateNode(t, id, row, now) \in Table /\ Advances(t, UpdateNode(t, id, row, now))
  BY <1>1, <1>2, <1>3 DEF UpdateNode
<1>6. SetNodeStatus(t, id, status, now) \in Table /\ Advances(t, SetNodeStatus(t, id, status, now))
  BY <1>1, <1>2, <1>3 DEF SetNodeStatus
<1> QED
  BY <1>4, <1>5, <1>6

\* addLink.
LEMMA AddLinkAdvances ==
  ASSUME NEW t \in Table, NEW from \in Ids, NEW to \in Ids
  PROVE  AddLink(t, from, to) \in Table /\ Advances(t, AddLink(t, from, to))
<1>1. /\ t.version + 1 \in Nat /\ t.version + 1 > t.version
      /\ t.links \cup {<<from, to>>} \in SUBSET (Ids \X Ids)
  BY DEF Table
<1>2. [t EXCEPT !.version = t.version + 1, !.links = t.links \cup {<<from, to>>}] \in Table
  BY <1>1, Rebuild
<1>3. [t EXCEPT !.version = t.version + 1, !.links = t.links \cup {<<from, to>>}].version
        = t.version + 1
  BY DEF Table
<1> QED
  BY <1>1, <1>2, <1>3 DEF AddLink, Advances

\* setActiveCoreId and setBackupCoreId.
LEMMA SetCoreIdAdvances ==
  ASSUME NEW t \in Table, NEW id \in Ids \cup {NoId}
  PROVE  /\ SetActiveCoreId(t, id) \in Table /\ Advances(t, SetActiveCoreId(t, id))
         /\ SetBackupCoreId(t, id) \in Table /\ Advances(t, SetBackupCoreId(t, id))
<1>1. t.version + 1 \in Nat /\ t.version + 1 > t.version
  BY DEF Table
<1>2. /\ [t EXCEPT !.version = t.version + 1, !.active = id] \in Table
      /\ [t EXCEPT !.version = t.version + 1, !.backup = id] \in Table
  BY <1>1, Rebuild
<1>3. /\ [t EXCEPT !.version = t.version + 1, !.active = id].version = t.version + 1
      /\ [t EXCEPT !.version = t.version + 1, !.backup = id].version = t.version + 1
  BY DEF Table
<1> QED
  BY <1>1, <1>2, <1>3 DEF SetActiveCoreId, SetBackupCoreId, Advances

\* The loops shared by the two merges: one version per row or link taken.
LEMMA AbsorbAdvances ==
  ASSUME NEW t \in Table, NEW r \in Table, NEW taken \in SUBSET Ids
  PROVE  Absorb(t, r, taken) \in Table /\ Advances(t, Absorb(t, r, taken))
<1> DEFINE new == r.links \ t.links
           u   == Absorb(t, r, taken)
<1>1. /\ Cardinality(taken) \in Nat /\ (Cardinality(taken) = 0 <=> taken = {})
      /\ Cardinality(new) \in Nat /\ (Cardinality(new) = 0 <=> new = {})
  <2>1. new \subseteq Ids \X Ids
    BY DEF Table
  <2> QED
    BY <2>1, FiniteCounts
<1> DEFINE v == t.version + Cardinality(taken) + Cardinality(new)
           n == [i \in Ids |-> IF i \in taken THEN r.nodes[i] ELSE t.nodes[i]]
           l == t.links \cup r.links
<1>2. v \in Nat /\ n \in [Ids -> Row] /\ l \in SUBSET (Ids \X Ids)
  BY <1>1 DEF Table
<1>3. u = [t EXCEPT !.version = v, !.nodes = n, !.links = l]
  BY DEF Absorb
<1> HIDE DEF v, n, l, u
<1>4. u \in Table /\ u.version = v
  <2>1. u \in Table
    BY <1>2, <1>3, Rebuild
  <2>2. u.version = v
    BY <1>3 DEF Table
  <2> QED
    BY <2>1, <2>2
<1>5. ASSUME taken = {}, new = {}  PROVE u = t
  <2>1. v = t.version
    BY <1>1, <1>5 DEF v, Table
  <2>2. n = t.nodes
    BY <1>5 DEF n, Table
  <2>3. l = t.links
    BY <1>5 DEF l
  <2> QED
    BY <1>3, <2>1, <2>2, <2>3 DEF Table
<1>6. ASSUME ~ (taken = {} /\ new = {})  PROVE v > t.version
  BY <1>1, <1>6 DEF v, Table
<1> QED
  BY <1>4, <1>5, <1>6 DEF Advances, u

\* adopt_backup, the first half of merge_backup_registration.
LEMMA AdoptBackupAdvances ==
  ASSUME NEW t \in Table, NEW self \in Ids, NEW r \in Table
  PROVE  AdoptBackup(t, self, r) \in Table /\ Advances(t, AdoptBackup(t, self, r))
<1>1. CASE r.backup = NoId
  BY <1>1 DEF AdoptBackup, Advances
<1>2. CASE r.backup # NoId
  <2> DEFINE u == SetBackupCoreId(t, r.backup)
  <2>1. r.backup \in Ids
    BY <1>2 DEF Table
  <2>2. u \in Table /\ Advances(t, u)
    BY <2>1, SetCoreIdAdvances
  <2> HIDE DEF u
  <2>3. AddLink(u, self, r.backup) \in Table /\ Advances(u, AddLink(u, self, r.backup))
    BY <2>1, <2>2, AddLinkAdvances
  <2>4. Advances(t, AddLink(u, self, r.backup))
    BY <2>2, <2>3, AdvancesTransitive
  <2>5. AdoptBackup(t, self, r) = AddLink(u, self, r.backup)
    BY <1>2 DEF AdoptBackup, u
  <2> QED
    BY <2>3, <2>4, <2>5
<1> QED
  BY <1>1, <1>2

\* merge_connection_tables and merge_backup_registration.
LEMMA MergesAdvance ==
  ASSUME NEW t \in Table, NEW self \in Ids, NEW r \in Table,
         NEW admitted \in Admissions(t, r)
  PROVE  /\ MergeConnectionTables(t, r, admitted) \in Table
         /\ Advances(t, MergeConnectionTables(t, r, admitted))
         /\ MergeBackupRegistration(t, self, r, admitted) \in Table
         /\ Advances(t, MergeBackupRegistration(t, self, r, admitted))
<1>1. admitted \in SUBSET Ids
  BY DEF Admissions, FreshRows, Known
<1>2. DifferingRows(t, r) \in SUBSET Ids
  BY DEF DifferingRows, Known
<1>3. /\ MergeConnectionTables(t, r, admitted) \in Table
      /\ Advances(t, MergeConnectionTables(t, r, admitted))
  BY <1>1, <1>2, AbsorbAdvances DEF MergeConnectionTables
<1> DEFINE u     == AdoptBackup(t, self, r)
           taken == admitted \cup (DifferingRows(t, r) \ ProtectedRows(t, r))
<1>4. u \in Table /\ Advances(t, u)
  BY AdoptBackupAdvances
<1>5. taken \in SUBSET Ids
  BY <1>1, <1>2
<1>6. MergeBackupRegistration(t, self, r, admitted) = Absorb(u, r, taken)
  BY DEF MergeBackupRegistration
<1> HIDE DEF u, taken
<1>7. Absorb(u, r, taken) \in Table /\ Advances(u, Absorb(u, r, taken))
  BY <1>4, <1>5, AbsorbAdvances
<1>8. Advances(t, Absorb(u, r, taken))
  BY <1>4, <1>7, AdvancesTransitive
<1> QED
  BY <1>3, <1>6, <1>7, <1>8

\* mark_duplicate_endpoint_nodes_offline.
LEMMA MarkDuplicatesAdvances ==
  ASSUME NEW t \in Table, NEW e \in Edges, NEW now \in Nat
  PROVE  /\ MarkDuplicateEndpointNodesOffline(t, e, now) \in Table
         /\ Advances(t, MarkDuplicateEndpointNodesOffline(t, e, now))
<1> DEFINE dups == Duplicates(t, e)
           v    == t.version + Cardinality(dups)
           n    == [i \in Ids |->
                      IF i \in dups THEN [status |-> Offline, prev |-> Online, at |-> now]
                                    ELSE t.nodes[i]]
           u    == MarkDuplicateEndpointNodesOffline(t, e, now)
<1>1. u = [t EXCEPT !.version = v, !.nodes = n]
  BY DEF MarkDuplicateEndpointNodesOffline
<1>2. dups \subseteq Ids
  BY DEF Duplicates, Ids
<1> HIDE DEF dups
<1>3. Cardinality(dups) \in Nat /\ (Cardinality(dups) = 0 <=> dups = {})
  BY <1>2, FiniteCounts
<1>4. v \in Nat /\ n \in [Ids -> Row]
  BY <1>3 DEF Table, Row, Online, Offline
<1>5. ASSUME dups = {}  PROVE u = t
  <2>1. v = t.version /\ n = t.nodes
    BY <1>3, <1>5 DEF Table
  <2> HIDE DEF v, n, u
  <2> QED
    BY <1>1, <2>1 DEF Table
<1>6. ASSUME dups # {}  PROVE v > t.version
  BY <1>3, <1>6 DEF Table
<1> HIDE DEF v, n, u
<1>7. u \in Table
  BY <1>1, <1>4, Rebuild
<1>8. u.version = v
  BY <1>1 DEF Table
<1> QED
  BY <1>5, <1>6, <1>7, <1>8 DEF Advances, u

\* The STATUS branch of on_message.
LEMMA RegisterEdgeAdvances ==
  ASSUME NEW t \in Table, NEW self \in Ids, NEW e \in Edges, NEW now \in Nat
  PROVE  /\ RegisterEdge(t, self, e, now) \in Table
         /\ Advances(t, RegisterEdge(t, self, e, now))
<1> DEFINE dedup == MarkDuplicateEndpointNodesOffline(t, e, now)
           row   == Announced(Online)
           known == IF e \notin Known(dedup) THEN AddNode(dedup, e, row, now)
                    ELSE IF SameNodeEntry(dedup.nodes[e], row) THEN dedup
                    ELSE UpdateNode(dedup, e, row, now)
<1>1. row \in Row /\ e \in Ids
  BY DEF Announced, Row, Online, Ids
<1>2. dedup \in Table /\ Advances(t, dedup)
  BY MarkDuplicatesAdvances
<1>3. RegisterEdge(t, self, e, now) = AddLink(known, self, e)
  BY DEF RegisterEdge
<1> HIDE DEF dedup, row
<1>4. known \in Table /\ Advances(dedup, known)
  <2>1. /\ AddNode(dedup, e, row, now) \in Table
        /\ Advances(dedup, AddNode(dedup, e, row, now))
        /\ UpdateNode(dedup, e, row, now) \in Table
        /\ Advances(dedup, UpdateNode(dedup, e, row, now))
    BY <1>1, <1>2, RowOperationsAdvance DEF Online, Offline
  <2>2. Advances(dedup, dedup)
    BY DEF Advances
  <2> QED
    BY <1>2, <2>1, <2>2
<1> HIDE DEF known
<1>5. AddLink(known, self, e) \in Table /\ Advances(known, AddLink(known, self, e))
  BY <1>1, <1>4, AddLinkAdvances
<1>6. Advances(t, known)
  BY <1>2, <1>4, AdvancesTransitive
<1> QED
  BY <1>2, <1>3, <1>4, <1>5, <1>6, AdvancesTransitive

\* promote_core_after_failover: a table again, which names the promoted core
\* and no backup.
LEMMA PromoteAdvances ==
  ASSUME NEW t \in Table, NEW promoted \in Ids, NEW failed \in Ids \cup {NoId},
         NEW now \in Nat
  PROVE  /\ PromoteCoreAfterFailover(t, promoted, failed, now) \in Table
         /\ Advances(t, PromoteCoreAfterFailover(t, promoted, failed, now))
         /\ PromoteCoreAfterFailover(t, promoted, failed, now).active = promoted
         /\ PromoteCoreAfterFailover(t, promoted, failed, now).backup = NoId
<1> DEFINE marked == IF failed \in {NoId, promoted}
                       THEN t ELSE SetNodeStatus(t, failed, Offline, now)
           named  == SetActiveCoreId(marked, promoted)
           u      == SetBackupCoreId(named, NoId)
<1>1. marked \in Table /\ Advances(t, marked)
  <2>1. CASE failed \in {NoId, promoted}
    BY <2>1 DEF Advances
  <2>2. CASE failed \notin {NoId, promoted}
    <3>1. failed \in Ids /\ Announced(Online) \in Row
      BY <2>2 DEF Announced, Row, Online
    <3> QED
      BY <2>2, <3>1, RowOperationsAdvance DEF Online, Offline
  <2> QED
    BY <2>1, <2>2
<1>2. PromoteCoreAfterFailover(t, promoted, failed, now) = u
  BY DEF PromoteCoreAfterFailover
<1> HIDE DEF marked
<1>3. named \in Table /\ Advances(marked, named)
  BY <1>1, SetCoreIdAdvances
<1>4. named.active = promoted
  BY <1>1 DEF SetActiveCoreId, Table
<1> HIDE DEF named
<1>5. u \in Table /\ Advances(named, u)
  BY <1>3, SetCoreIdAdvances
<1>6. u.active = promoted /\ u.backup = NoId
  BY <1>3, <1>4 DEF SetBackupCoreId, Table
<1> HIDE DEF u
<1>7. Advances(t, u)
  BY <1>1, <1>3, <1>5, AdvancesTransitive
<1> QED
  BY <1>2, <1>5, <1>6, <1>7

\* What the Active does with the will of another core.
LEMMA DropPeerCoreAdvances ==
  ASSUME NEW t \in Table, NEW core \in Ids, NEW now \in Nat
  PROVE  DropPeerCore(t, core, now) \in Table /\ Advances(t, DropPeerCore(t, core, now))
<1> DEFINE u == IF t.backup = core THEN SetBackupCoreId(t, NoId) ELSE t
<1>1. u \in Table /\ Advances(t, u)
  BY SetCoreIdAdvances DEF Advances
<1>2. DropPeerCore(t, core, now) = SetNodeStatus(u, core, Offline, now)
  BY DEF DropPeerCore
<1> HIDE DEF u
<1>3. Announced(Online) \in Row
  BY DEF Announced, Row, Online
<1>4. /\ SetNodeStatus(u, core, Offline, now) \in Table
      /\ Advances(u, SetNodeStatus(u, core, Offline, now))
  BY <1>1, <1>3, RowOperationsAdvance DEF Online, Offline
<1> QED
  BY <1>1, <1>2, <1>4, AdvancesTransitive

(***************************************************************************)
(* What a table knows, and how much room it has left                       *)
(***************************************************************************)

\* The room of a table is a number, and what knows more has less of it.
LEMMA RoomShrinks ==
  ASSUME NEW t, NEW u, Known(t) \subseteq Known(u)
  PROVE  /\ Room(t) \in Int /\ Room(u) \in Int /\ Room(u) <= Room(t)
         /\ IsFiniteSet(Known(t)) /\ IsFiniteSet(Known(u))
<1>1. IsFiniteSet(Ids) /\ Known(t) \subseteq Ids /\ Known(u) \subseteq Ids
  BY TableConstants DEF Ids, Known
<1>2. IsFiniteSet(Known(t)) /\ IsFiniteSet(Known(u))
  BY <1>1, FS_Subset
<1>3. /\ Cardinality(Known(t)) \in Nat /\ Cardinality(Known(u)) \in Nat
      /\ Cardinality(Known(t)) <= Cardinality(Known(u))
  BY <1>2, FS_CardinalityType, FS_Subset
<1>4. MaxNodes \in Nat
  BY TableConstants
<1> QED
  BY <1>2, <1>3, <1>4 DEF Room

\* Two tables with the same rows know the same.
LEMMA SameRows ==
  ASSUME NEW t, NEW u, t.nodes = u.nodes
  PROVE  Known(t) = Known(u) /\ Room(t) = Room(u)
BY DEF Known, Room

\* A row that is stored is known, and no other is forgotten.
LEMMA PutRowKnows ==
  ASSUME NEW t \in Table, NEW id \in Ids, NEW row \in Row, row.status # Absent
  PROVE  /\ Known(PutRow(t, id, row)) = Known(t) \cup {id}
         /\ PutRow(t, id, row).nodes = [t.nodes EXCEPT ![id] = row]
         /\ PutRow(t, id, row).links = t.links
         /\ PutRow(t, id, row).active = t.active /\ PutRow(t, id, row).backup = t.backup
<1>1. /\ PutRow(t, id, row).nodes = [t.nodes EXCEPT ![id] = row]
      /\ PutRow(t, id, row).links = t.links
      /\ PutRow(t, id, row).active = t.active /\ PutRow(t, id, row).backup = t.backup
  BY DEF PutRow, Table
<1>2. t.nodes \in [Ids -> Row]
  BY DEF Table
<1> QED
  BY <1>1, <1>2 DEF Known

\* setNodeStatus: of all rows at most this one changes, and none is added.
LEMMA SetNodeStatusKnows ==
  ASSUME NEW t \in Table, NEW id \in Ids, NEW now \in Nat
  PROVE  LET u == SetNodeStatus(t, id, Offline, now)
         IN  /\ Known(u) = Known(t) /\ u.links = t.links
             /\ u.active = t.active /\ u.backup = t.backup
             /\ \A i \in Ids \ {id} : u.nodes[i] = t.nodes[i]
<1> DEFINE row == [status |-> Offline, prev |-> t.nodes[id].status, at |-> now]
<1>1. row \in Row /\ row.status # Absent
  BY DEF Row, Table, Offline, Absent
<1>2. CASE id \notin Known(t) \/ t.nodes[id].status = Offline
  BY <1>2 DEF SetNodeStatus
<1>3. CASE ~ (id \notin Known(t) \/ t.nodes[id].status = Offline)
  <2>1. SetNodeStatus(t, id, Offline, now) = PutRow(t, id, row)
    BY <1>3 DEF SetNodeStatus
  <2>2. id \in Known(t) /\ t.nodes \in [Ids -> Row]
    BY <1>3 DEF Table
  <2> DEFINE u == PutRow(t, id, row)
  <2>3. /\ Known(u) = Known(t) \cup {id} /\ u.nodes = [t.nodes EXCEPT ![id] = row]
        /\ u.links = t.links /\ u.active = t.active /\ u.backup = t.backup
    BY <1>1, PutRowKnows
  <2> HIDE DEF row, u
  <2>4. \A i \in Ids \ {id} : u.nodes[i] = t.nodes[i]
    BY <2>2, <2>3
  <2>5. Known(u) = Known(t)
    BY <2>2, <2>3
  <2> QED
    BY <2>1, <2>3, <2>4, <2>5 DEF u
<1> QED
  BY <1>2, <1>3

\* addLink adds its link and nothing else.
LEMMA AddLinkKnows ==
  ASSUME NEW t \in Table, NEW from \in Ids, NEW to \in Ids
  PROVE  LET u == AddLink(t, from, to)
         IN  /\ u.nodes = t.nodes /\ u.links = t.links \cup {<<from, to>>}
             /\ u.active = t.active /\ u.backup = t.backup
BY DEF AddLink, Table

\* setActiveCoreId and setBackupCoreId set their id and nothing else.
LEMMA SetCoreIdKnows ==
  ASSUME NEW t \in Table, NEW id \in Ids \cup {NoId}
  PROVE  /\ LET u == SetActiveCoreId(t, id)
            IN  u.nodes = t.nodes /\ u.links = t.links /\ u.active = id /\ u.backup = t.backup
         /\ LET u == SetBackupCoreId(t, id)
            IN  u.nodes = t.nodes /\ u.links = t.links /\ u.active = t.active /\ u.backup = id
BY DEF SetActiveCoreId, SetBackupCoreId, Table

\* The merges know what they knew and the rows they took.
LEMMA AbsorbKnows ==
  ASSUME NEW t \in Table, NEW r \in Table, NEW taken \in SUBSET Known(r)
  PROVE  LET u == Absorb(t, r, taken)
         IN  /\ Known(u) = Known(t) \cup taken /\ u.links = t.links \cup r.links
             /\ u.active = t.active /\ u.backup = t.backup
             /\ \A i \in Ids : u.nodes[i] = IF i \in taken THEN r.nodes[i] ELSE t.nodes[i]
<1> DEFINE u == Absorb(t, r, taken)
<1>1. /\ u.links = t.links \cup r.links /\ u.active = t.active /\ u.backup = t.backup
      /\ u.nodes = [i \in Ids |-> IF i \in taken THEN r.nodes[i] ELSE t.nodes[i]]
  BY DEF Absorb, Table
<1> HIDE DEF u
<1>2. \A i \in Ids : u.nodes[i] = IF i \in taken THEN r.nodes[i] ELSE t.nodes[i]
  BY <1>1
<1>3. Known(u) = Known(t) \cup taken
  BY <1>2 DEF Known
<1> QED
  BY <1>1, <1>2, <1>3 DEF u

\* A merge that leaves room has taken every row of the snapshot: rows are
\* refused only when the table is full.
LEMMA AdmissionsFill ==
  ASSUME NEW t, NEW r, NEW admitted \in Admissions(t, r),
         NEW u, Known(t) \cup admitted \subseteq Known(u), Room(u) > 0
  PROVE  Known(r) \subseteq Known(u)
<1> DEFINE fresh == FreshRows(t, r)
<1>1. /\ admitted \subseteq fresh /\ fresh \subseteq Ids
      /\ Cardinality(admitted) = IF Cardinality(fresh) <= Room(t) THEN Cardinality(fresh) ELSE Room(t)
  BY DEF Admissions, FreshRows, Known
<1>2. IsFiniteSet(fresh) /\ IsFiniteSet(admitted)
  BY <1>1, TableConstants, FS_Subset DEF Ids
<1>3. CASE Cardinality(fresh) <= Room(t)
  <2>1. fresh = admitted
    BY <1>1, <1>2, <1>3, FS_Subset
  <2> QED
    BY <2>1 DEF FreshRows
<1>4. CASE ~ (Cardinality(fresh) <= Room(t))
  <2> DEFINE some == Known(t) \cup admitted
  <2>1. Known(t) \cap admitted = {}
    BY <1>1 DEF FreshRows
  <2>2. IsFiniteSet(Known(t)) /\ IsFiniteSet(Known(u)) /\ Room(u) \in Int
    BY RoomShrinks
  <2>3. IsFiniteSet(some) /\ Cardinality(some) = Cardinality(Known(t)) + Cardinality(admitted) - 0
    BY <1>2, <2>1, <2>2, FS_Union, FS_EmptySet
  <2>4. Cardinality(some) <= Cardinality(Known(u))
    BY <2>2, <2>3, FS_Subset
  <2>5. /\ Cardinality(Known(t)) \in Nat /\ Cardinality(Known(u)) \in Nat
        /\ Cardinality(admitted) \in Nat /\ MaxNodes \in Nat
    BY <1>2, <2>2, FS_CardinalityType, TableConstants
  <2>6. Cardinality(admitted) = MaxNodes - Cardinality(Known(t))
    BY <1>1, <1>4 DEF Room
  <2>7. MaxNodes - Cardinality(Known(u)) > 0
    BY DEF Room
  <2> QED
    BY <2>3, <2>4, <2>5, <2>6, <2>7
<1> QED
  BY <1>3, <1>4

\* adopt_backup leaves the rows, names the backup of the registration and
\* links to it.
LEMMA AdoptBackupKnows ==
  ASSUME NEW t \in Table, NEW self \in Ids, NEW r \in Table
  PROVE  LET u == AdoptBackup(t, self, r)
         IN  /\ u.nodes = t.nodes /\ u.active = t.active
             /\ u.backup = IF r.backup = NoId THEN t.backup ELSE r.backup
             /\ u.links = IF r.backup = NoId THEN t.links ELSE t.links \cup {<<self, r.backup>>}
<1>1. CASE r.backup = NoId
  BY <1>1 DEF AdoptBackup
<1>2. CASE r.backup # NoId
  <2> DEFINE v == SetBackupCoreId(t, r.backup)
  <2>1. r.backup \in Ids /\ r.backup \in Ids \cup {NoId}
    BY <1>2 DEF Table
  <2>2. v \in Table /\ v.nodes = t.nodes /\ v.links = t.links /\ v.active = t.active /\ v.backup = r.backup
    BY <2>1, SetCoreIdAdvances, SetCoreIdKnows
  <2>3. AdoptBackup(t, self, r) = AddLink(v, self, r.backup)
    BY <1>2 DEF AdoptBackup
  <2> HIDE DEF v
  <2> QED
    BY <1>2, <2>1, <2>2, <2>3, AddLinkKnows
<1> QED
  BY <1>1, <1>2

\* merge_connection_tables: nothing is forgotten, nothing is refused that fits.
LEMMA MergeKnows ==
  ASSUME NEW t \in Table, NEW r \in Table, NEW admitted \in Admissions(t, r)
  PROVE  LET u == MergeConnectionTables(t, r, admitted)
         IN  /\ Known(t) \subseteq Known(u) /\ (Room(u) > 0 => Known(r) \subseteq Known(u))
             /\ u.links = t.links \cup r.links /\ u.active = t.active /\ u.backup = t.backup
             /\ FreshRows(t, r) = {} => Known(u) = Known(t)
<1> DEFINE taken == admitted \cup DifferingRows(t, r)
           u     == MergeConnectionTables(t, r, admitted)
<1>1. taken \in SUBSET Known(r) /\ DifferingRows(t, r) \subseteq Known(t)
      /\ admitted \subseteq FreshRows(t, r)
  BY DEF Admissions, FreshRows, DifferingRows
<1>2. u = Absorb(t, r, taken)
  BY DEF MergeConnectionTables
<1> HIDE DEF u
<1>3. /\ Known(u) = Known(t) \cup taken /\ u.links = t.links \cup r.links
      /\ u.active = t.active /\ u.backup = t.backup
  BY <1>1, <1>2, AbsorbKnows
<1>4. Room(u) > 0 => Known(r) \subseteq Known(u)
  BY <1>3, AdmissionsFill
<1>5. FreshRows(t, r) = {} => Known(u) = Known(t)
  BY <1>1, <1>3
<1> QED
  BY <1>3, <1>4, <1>5 DEF u

\* merge_backup_registration, in the same way; an edge that is ONLINE stays so.
LEMMA RegistrationKnows ==
  ASSUME NEW t \in Table, NEW self \in Ids, NEW r \in Table, NEW admitted \in Admissions(t, r)
  PROVE  LET u == MergeBackupRegistration(t, self, r, admitted)
         IN  /\ Known(t) \subseteq Known(u) /\ (Room(u) > 0 => Known(r) \subseteq Known(u))
             /\ u.active = t.active
             /\ u.backup = IF r.backup = NoId THEN t.backup ELSE r.backup
             /\ u.links = t.links \cup r.links \cup (IF r.backup = NoId THEN {} ELSE {<<self, r.backup>>})
             /\ \A e \in Edges : t.nodes[e].status = Online => u.nodes[e].status = Online
             /\ \A i \in Ids : t.nodes[i].status = Absent /\ Room(t) <= 0 => u.nodes[i].status = Absent
<1> DEFINE taken == admitted \cup (DifferingRows(t, r) \ ProtectedRows(t, r))
           v     == AdoptBackup(t, self, r)
           u     == MergeBackupRegistration(t, self, r, admitted)
<1>1. /\ taken \in SUBSET Known(r) /\ DifferingRows(t, r) \subseteq Known(t)
      /\ admitted \subseteq FreshRows(t, r)
  BY DEF Admissions, FreshRows, DifferingRows
<1>2. u = Absorb(v, r, taken)
  BY DEF MergeBackupRegistration
<1>3. /\ v \in Table /\ v.nodes = t.nodes /\ v.active = t.active
      /\ v.backup = IF r.backup = NoId THEN t.backup ELSE r.backup
      /\ v.links = IF r.backup = NoId THEN t.links ELSE t.links \cup {<<self, r.backup>>}
  <2>1. v \in Table
    BY AdoptBackupAdvances
  <2>2. v.nodes = t.nodes /\ v.active = t.active
    BY AdoptBackupKnows
  <2>3. v.backup = IF r.backup = NoId THEN t.backup ELSE r.backup
    BY AdoptBackupKnows
  <2>4. v.links = IF r.backup = NoId THEN t.links ELSE t.links \cup {<<self, r.backup>>}
    BY AdoptBackupKnows
  <2> QED
    BY <2>1, <2>2, <2>3, <2>4, Zenon
<1> HIDE DEF u, v
<1>4. /\ Known(u) = Known(v) \cup taken /\ u.links = v.links \cup r.links
      /\ u.active = v.active /\ u.backup = v.backup
      /\ \A i \in Ids : u.nodes[i] = IF i \in taken THEN r.nodes[i] ELSE v.nodes[i]
  BY <1>1, <1>2, <1>3, AbsorbKnows
<1>5. Known(v) = Known(t)
  BY <1>3, SameRows
<1>6. Room(u) > 0 => Known(r) \subseteq Known(u)
  BY <1>4, <1>5, AdmissionsFill
<1>7. ASSUME NEW e \in Edges, t.nodes[e].status = Online PROVE u.nodes[e].status = Online
  <2>1. e \in Ids /\ r.nodes[e] \in Row
    BY DEF Ids, Table
  <2>2. CASE e \in taken
    <3>1. e \in Known(t) /\ e \notin admitted
      BY <1>1, <1>7, <2>1 DEF Known, FreshRows, Online, Absent
    <3>2. e \in Known(r) /\ e \notin ProtectedRows(t, r)
      BY <1>1, <2>2, <3>1
    <3>3. r.nodes[e].status # Offline /\ r.nodes[e].status # Absent
      BY <1>7, <3>2 DEF ProtectedRows, Known
    <3> QED
      BY <1>4, <2>1, <2>2, <3>3 DEF Row
  <2>3. CASE e \notin taken
    BY <1>3, <1>4, <1>7, <2>1, <2>3
  <2> QED
    BY <2>2, <2>3
<1>8. ASSUME NEW i \in Ids, t.nodes[i].status = Absent, Room(t) <= 0 PROVE u.nodes[i].status = Absent
  <2>1. admitted = {}
    <3>1. IsFiniteSet(FreshRows(t, r)) /\ IsFiniteSet(admitted)
      <4>1. FreshRows(t, r) \subseteq Ids
        BY DEF FreshRows, Known
      <4> QED
        BY <1>1, <4>1, TableConstants, FS_Subset DEF Ids
    <3>2. Cardinality(FreshRows(t, r)) \in Nat /\ Cardinality(admitted) \in Nat /\ Room(t) \in Int
      BY <3>1, FS_CardinalityType, RoomShrinks
    <3>3. Cardinality(admitted) <= Room(t)
      BY <3>2 DEF Admissions
    <3>4. Cardinality(admitted) = 0
      BY <1>8, <3>2, <3>3
    <3> QED
      BY <3>1, <3>4, FS_EmptySet
  <2>2. i \notin Known(t)
    BY <1>8 DEF Known
  <2> QED
    BY <1>1, <1>3, <1>4, <1>8, <2>1, <2>2
<1> QED
  BY <1>3, <1>4, <1>5, <1>6, <1>7, <1>8 DEF u

\* The result of merge_backup_registration tells the truth: without a change
\* the table is the same.
LEMMA RegistrationUnchanged ==
  ASSUME NEW t \in Table, NEW self \in Ids, NEW r \in Table, NEW admitted \in Admissions(t, r),
         ~ RegistrationChanges(t, self, r)
  PROVE  MergeBackupRegistration(t, self, r, admitted) = t
<1>1. /\ AdoptBackup(t, self, r) = t /\ FreshRows(t, r) = {}
      /\ DifferingRows(t, r) \ ProtectedRows(t, r) = {} /\ r.links \subseteq t.links
  BY DEF RegistrationChanges
<1>2. admitted = {}
  BY <1>1 DEF Admissions
<1>3. MergeBackupRegistration(t, self, r, admitted) = Absorb(t, r, {})
  BY <1>1, <1>2 DEF MergeBackupRegistration
<1>4. Cardinality({}) = 0 /\ r.links \ t.links = {}
  BY <1>1, FS_EmptySet
<1>5. t.version + Cardinality({}) + Cardinality(r.links \ t.links) = t.version
  BY <1>4 DEF Table
<1>6. [i \in Ids |-> IF i \in {} THEN r.nodes[i] ELSE t.nodes[i]] = t.nodes
  BY DEF Table
<1>7. t.links \cup r.links = t.links
  BY <1>1
<1>8. Absorb(t, r, {}) = [t EXCEPT !.version = t.version, !.nodes = t.nodes, !.links = t.links]
  BY <1>5, <1>6, <1>7 DEF Absorb
<1> QED
  BY <1>3, <1>8 DEF Table

\* The duplicates of an edge are marked, no row is added or removed.
LEMMA MarkDuplicatesKnows ==
  ASSUME NEW t \in Table, NEW e \in Edges, NEW now \in Nat
  PROVE  LET u == MarkDuplicateEndpointNodesOffline(t, e, now)
         IN  /\ Known(u) = Known(t) /\ u.links = t.links
             /\ u.active = t.active /\ u.backup = t.backup
             /\ u.nodes[e] = t.nodes[e]
             /\ \A i \in Ids : \/ u.nodes[i] = t.nodes[i]
                               \/ i \in Edges \ {e} /\ Endpoint[i] = Endpoint[e]
<1> DEFINE u == MarkDuplicateEndpointNodesOffline(t, e, now)
<1>1. /\ u.links = t.links /\ u.active = t.active /\ u.backup = t.backup
      /\ u.nodes = [i \in Ids |-> IF i \in Duplicates(t, e)
                                    THEN [status |-> Offline, prev |-> Online, at |-> now]
                                    ELSE t.nodes[i]]
  BY DEF MarkDuplicateEndpointNodesOffline, Table
<1> HIDE DEF u
<1>2. e \in Ids /\ e \notin Duplicates(t, e)
  BY DEF Ids, Duplicates
<1>3. \A i \in Ids : i \notin Duplicates(t, e) => u.nodes[i] = t.nodes[i]
  BY <1>1
<1>4. \A i \in Ids : i \in Duplicates(t, e) => u.nodes[i].status = Offline
  BY <1>1
<1>5. \A i \in Duplicates(t, e) : /\ i \in Edges \ {e} /\ Endpoint[i] = Endpoint[e]
                                  /\ t.nodes[i].status = Online
  BY DEF Duplicates
<1>6. Known(u) = Known(t)
  BY <1>3, <1>4, <1>5 DEF Known, Online, Offline, Absent
<1> QED
  BY <1>1, <1>2, <1>3, <1>5, <1>6 DEF u

\* The STATUS of an edge: the edge is ONLINE afterwards unless the table is
\* full, and only edges with its endpoint are touched besides.
LEMMA RegisterEdgeKnows ==
  ASSUME NEW t \in Table, NEW self \in Ids, NEW e \in Edges, NEW now \in Nat
  PROVE  LET u == RegisterEdge(t, self, e, now)
         IN  /\ Known(t) \subseteq Known(u) /\ u.links = t.links \cup {<<self, e>>}
             /\ u.active = t.active /\ u.backup = t.backup
             /\ \/ e \in Known(u) /\ u.nodes[e].status = Online
                \/ u.nodes[e].status = Absent /\ Room(u) <= 0
             /\ \A i \in Ids \ {e} : \/ u.nodes[i] = t.nodes[i]
                                     \/ i \in Edges /\ Endpoint[i] = Endpoint[e]
<1> DEFINE dedup == MarkDuplicateEndpointNodesOffline(t, e, now)
           row   == Announced(Online)
           next  == IF e \notin Known(dedup) THEN AddNode(dedup, e, row, now)
                    ELSE IF SameNodeEntry(dedup.nodes[e], row) THEN dedup
                    ELSE UpdateNode(dedup, e, row, now)
<1>1. e \in Ids /\ row \in Row /\ row.status = Online /\ row.at = 0
  BY DEF Announced, Row, Online, Ids
<1>2. /\ dedup \in Table /\ Known(dedup) = Known(t) /\ dedup.links = t.links
      /\ dedup.active = t.active /\ dedup.backup = t.backup
      /\ \A i \in Ids \ {e} : \/ dedup.nodes[i] = t.nodes[i]
                              \/ i \in Edges /\ Endpoint[i] = Endpoint[e]
  BY MarkDuplicatesAdvances, MarkDuplicatesKnows
<1>3. RegisterEdge(t, self, e, now) = AddLink(next, self, e)
  BY DEF RegisterEdge
<1> HIDE DEF dedup, row
<1>4. /\ dedup.nodes \in [Ids -> Row] /\ dedup.nodes[e].prev \in {Online, Offline, Absent}
      /\ dedup.nodes[e].status \in {Online, Offline, Absent} /\ dedup.nodes[e].at \in Nat
  BY <1>1, <1>2 DEF Table, Row
<1>5. next \in Table
  BY <1>1, <1>2, RowOperationsAdvance DEF Online, Offline
\* Either nothing happens, or a row that says ONLINE is stored.
<1>6. \/ next = dedup /\ e \notin Known(dedup) /\ Room(dedup) <= 0
      \/ next = dedup /\ e \in Known(dedup) /\ dedup.nodes[e].status = Online
      \/ \E p \in {Online, Offline, Absent}, a \in Nat :
           next = PutRow(dedup, e, [status |-> Online, prev |-> p, at |-> a])
  <2>1. CASE e \notin Known(dedup)
    <3>1. CASE Room(dedup) <= 0
      BY <2>1, <3>1 DEF AddNode
    <3>2. CASE ~ (Room(dedup) <= 0)
      BY <1>1, <2>1, <3>2 DEF AddNode, Online
    <3> QED
      BY <3>1, <3>2
  <2>2. CASE e \in Known(dedup) /\ SameNodeEntry(dedup.nodes[e], row)
    BY <1>1, <2>2 DEF SameNodeEntry
  <2>3. CASE e \in Known(dedup) /\ ~ SameNodeEntry(dedup.nodes[e], row)
    BY <1>1, <1>4, <2>3 DEF UpdateNode
  <2> QED
    BY <2>1, <2>2, <2>3
<1> DEFINE Registered ==
             /\ Known(t) \subseteq Known(next) /\ next.links = t.links
             /\ next.active = t.active /\ next.backup = t.backup
             /\ \/ e \in Known(next) /\ next.nodes[e].status = Online
                \/ next.nodes[e].status = Absent /\ Room(next) <= 0
             /\ \A i \in Ids \ {e} : next.nodes[i] = dedup.nodes[i]
<1>7. Registered
  <2> HIDE DEF next
  <2>1. CASE next = dedup /\ e \notin Known(dedup) /\ Room(dedup) <= 0
    <3>1. dedup.nodes[e].status = Absent
      BY <1>1, <2>1 DEF Known
    <3> QED
      BY <1>2, <2>1, <3>1
  <2>2. CASE next = dedup /\ e \in Known(dedup) /\ dedup.nodes[e].status = Online
    BY <1>2, <2>2
  <2>3. ASSUME NEW p \in {Online, Offline, Absent}, NEW a \in Nat,
               next = PutRow(dedup, e, [status |-> Online, prev |-> p, at |-> a])
        PROVE  Registered
    <3> DEFINE new == [status |-> Online, prev |-> p, at |-> a]
    <3>1. new \in Row /\ new.status = Online /\ new.status # Absent
      BY DEF Row, Online, Absent
    <3>2. next = PutRow(dedup, e, new)
      BY <2>3
    <3> HIDE DEF new
    <3>3. /\ Known(next) = Known(dedup) \cup {e} /\ next.nodes = [dedup.nodes EXCEPT ![e] = new]
          /\ next.links = dedup.links
          /\ next.active = dedup.active /\ next.backup = dedup.backup
      BY <1>1, <1>2, <3>1, <3>2, PutRowKnows
    <3>4. next.nodes[e] = new /\ \A i \in Ids \ {e} : next.nodes[i] = dedup.nodes[i]
      BY <1>1, <1>4, <3>3
    <3> QED
      BY <1>2, <3>1, <3>3, <3>4
  <2> HIDE DEF Registered
  <2> QED
    BY <1>6, <2>1, <2>2, <2>3
<1> HIDE DEF next
<1> DEFINE u == AddLink(next, self, e)
<1>8. /\ u.nodes = next.nodes /\ u.links = next.links \cup {<<self, e>>}
      /\ u.active = next.active /\ u.backup = next.backup
  BY <1>1, <1>5, AddLinkKnows
<1>9. Known(u) = Known(next) /\ Room(u) = Room(next)
  BY <1>8, SameRows
<1> HIDE DEF u
<1> QED
  BY <1>2, <1>3, <1>7, <1>8, <1>9 DEF u

\* A promotion marks the failed core and sets the two ids.
LEMMA PromoteKnows ==
  ASSUME NEW t \in Table, NEW promoted \in Ids, NEW failed \in Ids \cup {NoId},
         NEW now \in Nat
  PROVE  LET u == PromoteCoreAfterFailover(t, promoted, failed, now)
         IN  /\ Known(u) = Known(t) /\ u.links = t.links
             /\ u.active = promoted /\ u.backup = NoId
             /\ \A i \in Ids \ {failed} : u.nodes[i] = t.nodes[i]
<1> DEFINE marked == IF failed \in {NoId, promoted}
                       THEN t ELSE SetNodeStatus(t, failed, Offline, now)
           named  == SetActiveCoreId(marked, promoted)
<1>1. /\ marked \in Table /\ Known(marked) = Known(t) /\ marked.links = t.links
      /\ \A i \in Ids \ {failed} : marked.nodes[i] = t.nodes[i]
  <2>1. CASE failed \in {NoId, promoted}
    BY <2>1
  <2>2. CASE failed \notin {NoId, promoted}
    <3>1. failed \in Ids /\ Announced(Online) \in Row
      BY <2>2 DEF Announced, Row, Online
    <3>2. SetNodeStatus(t, failed, Offline, now) \in Table
      BY <3>1, RowOperationsAdvance DEF Online, Offline
    <3> QED
      BY <2>2, <3>1, <3>2, SetNodeStatusKnows
  <2> QED
    BY <2>1, <2>2
<1>2. PromoteCoreAfterFailover(t, promoted, failed, now) = SetBackupCoreId(named, NoId)
  BY DEF PromoteCoreAfterFailover
<1> HIDE DEF marked
<1>3. named \in Table /\ named.nodes = marked.nodes /\ named.links = marked.links /\ named.active = promoted
  BY <1>1, SetCoreIdAdvances, SetCoreIdKnows
<1> HIDE DEF named
<1> DEFINE u == SetBackupCoreId(named, NoId)
<1>4. u.nodes = named.nodes /\ u.links = named.links /\ u.active = named.active /\ u.backup = NoId
  BY <1>3, SetCoreIdKnows
<1> HIDE DEF u
<1>5. Known(u) = Known(marked)
  BY <1>3, <1>4, SameRows
<1> QED
  BY <1>1, <1>2, <1>3, <1>4, <1>5 DEF u

\* The will of another core marks its row and takes its name off.
LEMMA DropPeerCoreKnows ==
  ASSUME NEW t \in Table, NEW core \in Ids, NEW now \in Nat
  PROVE  LET u == DropPeerCore(t, core, now)
         IN  /\ Known(u) = Known(t) /\ u.links = t.links /\ u.active = t.active
             /\ u.backup = IF t.backup = core THEN NoId ELSE t.backup
             /\ \A i \in Ids \ {core} : u.nodes[i] = t.nodes[i]
<1> DEFINE v == IF t.backup = core THEN SetBackupCoreId(t, NoId) ELSE t
<1>1. /\ v \in Table /\ v.nodes = t.nodes /\ v.links = t.links /\ v.active = t.active
      /\ v.backup = IF t.backup = core THEN NoId ELSE t.backup
  BY SetCoreIdAdvances, SetCoreIdKnows
<1>2. DropPeerCore(t, core, now) = SetNodeStatus(v, core, Offline, now)
  BY DEF DropPeerCore
<1> HIDE DEF v
<1>3. Known(v) = Known(t)
  BY <1>1, SameRows
<1> QED
  BY <1>1, <1>2, <1>3, SetNodeStatusKnows
=============================================================================
