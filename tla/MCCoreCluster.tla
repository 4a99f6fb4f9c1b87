---------------------------- MODULE MCCoreCluster ----------------------------
(***************************************************************************)
(* Instances of CoreCluster for TLC: edges are model values.  Either every *)
(* edge has an endpoint of its own, or an edge was set up anew under       *)
(* another id and shares its endpoint with the id it had.                  *)
(***************************************************************************)
EXTENDS CoreCluster

CONSTANTS Renamed   \* edges that share one endpoint

Endpoints == [e \in Edges |-> IF e \in Renamed THEN "shared" ELSE e]

EverywhereAttach == Cores \X Edges
ActiveOnlyAttach == {CoreA} \X Edges
BackupOnlyAttach == {CoreB} \X Edges

\* The old id was known to the Backup only, the new one attaches to the Active;
\* every other edge attaches to both.
RenamedAttach ==
  (Cores \X (Edges \ Renamed))
    \cup {<<CoreA, CHOOSE e \in Renamed : TRUE>>}
    \cup ({CoreB} \X (Renamed \ {CHOOSE e \in Renamed : TRUE}))
=============================================================================
