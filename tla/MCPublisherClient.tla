-------------------------- MODULE MCPublisherClient --------------------------
(***************************************************************************)
(* Instances of PublisherClient for TLC.                                   *)
(***************************************************************************)
EXTENDS PublisherClient

\* One other edge, or none of the rows yet (an empty snapshot).
MCListings == {<<>>, <<"core", "primary", "edge">>}
MCLinks    == <<[from_id |-> "edge", to_id |-> "primary", rtt_ms |-> 5]>>
=============================================================================
