---------------------------- MODULE MCMonitorPage ----------------------------
(***************************************************************************)
(* Instances of MonitorPage for TLC.                                       *)
(***************************************************************************)
EXTENDS MonitorPage

MCOrder == <<"core", "e1", "e2", "e3", "h1", "h2", "h9">>

Row(id, ip, role, status, previous, age) ==
  [id |-> id, role |-> role, status |-> status, ip |-> ip, port |-> 1,
   previous_status |-> previous, age |-> age]

Core == Row("core", "h9", "CORE", "ONLINE", "ONLINE", 0)

Listing(rows, links) ==
  [version |-> 1, nodes |-> rows, links |-> links, active_core_id |-> "core", backup_core_id |-> ""]

\* One edge; two that recovered one after the other; one that is back under a
\* new id, its old row first.
MCListings == {
  Listing(<<Core, Row("e1", "h1", "NODE", "ONLINE", "ONLINE", 0)>>,
          <<[from_id |-> "e1", to_id |-> "core"]>>),
  Listing(<<Core, Row("e1", "h1", "NODE", "ONLINE", "OFFLINE", 1), Row("e2", "h2", "NODE", "ONLINE", "OFFLINE", 0)>>,
          <<[from_id |-> "core", to_id |-> "e1"], [from_id |-> "e1", to_id |-> "core"],
            [from_id |-> "e2", to_id |-> "e1"], [from_id |-> "e1", to_id |-> "e2"]>>),
  Listing(<<Core, Row("e1", "h1", "NODE", "OFFLINE", "ONLINE", 0), Row("e3", "h1", "NODE", "ONLINE", "OFFLINE", 0)>>,
          <<[from_id |-> "core", to_id |-> "e1"], [from_id |-> "core", to_id |-> "e3"]>>)}
=============================================================================
