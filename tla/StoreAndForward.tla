--------------------------- MODULE StoreAndForward ---------------------------
(***************************************************************************)
(* What the edge promises about the events of its cameras (FR-07): they    *)
(* wait in one queue and leave it for an upstream connection in the order  *)
(* in which they came, each exactly once.  Events are numbered as they     *)
(* come.                                                                   *)
(***************************************************************************)
EXTENDS Naturals, Sequences

VARIABLES accepted,   \* number of events so far
          backlog,    \* events that wait, oldest first
          delivered   \* events given to a connection, in that order

Init == accepted = 0 /\ backlog = <<>> /\ delivered = <<>>

Accept ==
  /\ accepted' = accepted + 1
  /\ backlog' = Append(backlog, accepted + 1)
  /\ UNCHANGED delivered

Forward ==
  /\ backlog # <<>>
  /\ delivered' = Append(delivered, Head(backlog))
  /\ backlog' = Tail(backlog)
  /\ UNCHANGED accepted

Next == Accept \/ Forward

Spec == Init /\ [][Next]_<<accepted, backlog, delivered>>
=============================================================================
