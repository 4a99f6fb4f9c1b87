----------------------------- MODULE CoreCluster -----------------------------
(***************************************************************************)
(* The two cores and what keeps them in step: broker/src/core/main.cpp.    *)
(*                                                                         *)
(* CoreA starts as the Active on its own broker, CoreB as the Backup on    *)
(* another one.  CoreB runs two network threads that share its context:    *)
(* "self", connected to its own broker, and "peer", connected to CoreA's   *)
(* broker, where it receives CT_SYNC, the will of CoreA and election       *)
(* traffic and from where it sends its node_register snapshots.  CoreA     *)
(* runs one thread, so a handler of CoreA is one step; a handler of CoreB  *)
(* is cut where the other thread can get in between: after the version     *)
(* check of CT_SYNC, and between the snapshot and the publication of every *)
(* message it sends.                                                       *)
(*                                                                         *)
(* The brokers (mosquitto, external) keep one retained message per topic,  *)
(* deliver in order, forget a clean-session client when it disconnects and *)
(* publish its will when it goes without a DISCONNECT.                     *)
(*                                                                         *)
(* Edges are the environment: an edge registers (STATUS) or dies (its will *)
(* is published) on either broker.  Faults names what else may happen.     *)
(***************************************************************************)
EXTENDS ConnectionTable, Sequences

CONSTANTS CoreA, CoreB,
          Attach,      \* <<core, edge>> pairs: where an edge may connect
          Faults,      \* faults the environment may inject
          MaxInputs,   \* bound on edge inputs and injected faults
          MaxClock,    \* bound on the seconds that pass
          MaxVersion   \* horizon: cores stop receiving once a table is past it

FaultKinds == {"stopA", "stopB", "crashA", "crashB", "hostLoss",
               "peerDrop", "selfDrop", "request", "outsideVote"}

ASSUME ClusterConstants ==
  /\ CoreA # CoreB
  /\ Cores = {CoreA, CoreB}
  /\ Attach \subseteq Cores \X Edges
  /\ Faults \subseteq FaultKinds
  /\ MaxInputs \in Nat /\ MaxVersion \in Nat
  /\ MaxClock \in Nat \ {0}
  /\ MaxNodes >= 2

VARIABLES
  ct,        \* [Cores -> Table]: each core's connection table
  isBackup,  \* [Cores -> BOOLEAN]: CoreContext.is_backup
  alive,     \* [Cores -> BOOLEAN]: the core process runs
  leaving,   \* cores whose main() has left its loop and sent its notice
  selfUp,    \* CoreA's connection to its own broker
  peer,      \* CoreB's connection to CoreA's broker: "up", "down" (it will
             \* reconnect), "closing" (mosquitto_disconnect called), "closed"
  hostUp,    \* CoreA's broker runs
  aIn,       \* messages CoreA's broker holds for CoreA, in order
  peerIn,    \* messages CoreA's broker holds for CoreB's peer client
  peerOut,   \* publications the peer client holds while disconnected
  work,      \* [Threads -> Seq(step)]: what is left of a callback of CoreB
  topology,  \* [Cores -> Table]: retained campus/monitor/topology per broker
  ctSync,    \* retained _core/sync/connection_table on CoreA's broker
  switched,  \* cores that have published campus/alert/core_switch
  attached,  \* [Cores -> SUBSET Edges]: edges whose last word was STATUS
  clock, inputs

coreVars == <<ct, isBackup, alive, leaving, work>>
linkVars == <<selfUp, peer, hostUp, aIn, peerIn, peerOut>>
viewVars == <<topology, ctSync, switched>>
envVars  == <<attached, clock, inputs>>
vars     == <<coreVars, linkVars, viewVars, envVars>>

Threads == {"self", "peer"}

(***************************************************************************)
(* Messages and the steps of a callback                                    *)
(***************************************************************************)
CtSync(t)        == [kind |-> "ct_sync", table |-> t]
NodeRegister(t)  == [kind |-> "node_register", table |-> t]
CoreWill(c)      == [kind |-> "core_will", core |-> c]
Request(c)       == [kind |-> "request", candidate |-> c]
Vote(voter, c)   == [kind |-> "vote", voter |-> voter, candidate |-> c]

Message ==
       [kind : {"ct_sync", "node_register"}, table : Table]
  \cup [kind : {"core_will"}, core : Cores]
  \cup [kind : {"request"}, candidate : Cores]
  \cup [kind : {"vote"}, voter : Cores, candidate : Cores]

\* Where a snapshot is published.  "changed" is the second publication of
\* on_ct_changed(): CT_SYNC on the own broker, or node_register to the peer.
Topics == {"topology", "changed", "register", "ownSync",
           "peerTopology", "peerSync"}

Snapshot(topic)  == [do |-> "snapshot", topic |-> topic]
Emit(topic, t)   == [do |-> "emit", topic |-> topic, table |-> t]
Merge(t)         == [do |-> "merge", table |-> t]
Switch           == [do |-> "switch"]
StopPeer         == [do |-> "stop"]

Step ==
       [do : {"snapshot"}, topic : Topics]
  \cup [do : {"emit"}, topic : Topics, table : Table]
  \cup [do : {"merge"}, table : Table]
  \cup [do : {"switch", "stop"}]

\* Mutant of PromotionScript: campus/alert/core_switch forgotten.
SilentPromotion ==
  <<Snapshot("topology"), Snapshot("ownSync"), Snapshot("peerTopology"),
    Snapshot("peerSync"), StopPeer>>

\* What a promotion on the peer thread leaves to publish.
PromotionScript ==
  <<Snapshot("topology"), Snapshot("ownSync"), Snapshot("peerTopology"),
    Snapshot("peerSync"), Switch, StopPeer>>

(***************************************************************************)
(* Initial states: both cores have registered themselves and finished      *)
(* on_connect() on their own brokers; the peer client is still connecting. *)
(***************************************************************************)
StartTable(c) ==
  AddNode(IF c = CoreA THEN NewTable(c, NoId) ELSE NewTable(NoId, c),
          c, Announced(Online), 1)

Init ==
  /\ ct = [c \in Cores |-> StartTable(c)]
  /\ isBackup = [c \in Cores |-> c = CoreB]
  /\ alive = [c \in Cores |-> TRUE]
  /\ leaving = {}
  /\ selfUp = TRUE /\ hostUp = TRUE
  /\ peer = "down"
  /\ aIn = <<>> /\ peerIn = <<>> /\ peerOut = <<>>
  /\ work = [th \in Threads |-> <<>>]
  /\ topology = [c \in Cores |-> StartTable(c)]
  /\ ctSync = StartTable(CoreA)
  /\ switched = {}
  /\ attached = [c \in Cores |-> {}]
  /\ clock = 1 /\ inputs = 0

Horizon == \E c \in Cores : ct[c].version > MaxVersion

(***************************************************************************)
(* Delivery                                                                *)
(***************************************************************************)
Listening == alive[CoreA] /\ selfUp

\* Until the broker has read the DISCONNECT it goes on delivering.
Connected == peer \in {"up", "closing"}

ForA(msgs)    == IF Listening THEN aIn \o msgs ELSE aIn
ForPeer(msgs) == IF Connected THEN peerIn \o msgs ELSE peerIn

\* A publication of the peer client leaves at once, or waits in its queue;
\* after mosquitto_disconnect it goes nowhere.
SendByPeer(m) ==
  IF peer = "up"
    THEN aIn' = ForA(<<m>>) /\ UNCHANGED peerOut
    ELSE /\ UNCHANGED aIn
         /\ peerOut' = IF peer = "down" THEN Append(peerOut, m) ELSE peerOut

\* publish_active_view(): topology and CT_SYNC, both retained on CoreA's broker.
PublishActiveView(t) ==
  /\ topology' = [topology EXCEPT ![CoreA] = t]
  /\ ctSync' = t
  /\ peerIn' = ForPeer(<<CtSync(t)>>)

\* A handler of CoreA leaves the table t and publishes it when it changed.
ActiveMoves(t, changed) ==
  /\ ct' = [ct EXCEPT ![CoreA] = t]
  /\ IF changed THEN PublishActiveView(t) ELSE UNCHANGED <<topology, ctSync, peerIn>>

(***************************************************************************)
(* CoreA: on_message() on its only thread                                  *)
(***************************************************************************)
ReceivedByA(kind) ==
  /\ Listening /\ ~ Horizon
  /\ aIn # <<>> /\ Head(aIn).kind = kind

\* Merge a snapshot of the Backup's table.
NodeRegisterAtActive ==
  /\ ReceivedByA("node_register")
  /\ LET remote == Head(aIn).table
         local  == ct[CoreA]
     IN  \E admitted \in Admissions(local, remote) :
           ActiveMoves(MergeBackupRegistration(local, CoreA, remote, admitted),
                       RegistrationChanges(local, CoreA, remote))
  /\ aIn' = Tail(aIn)
  /\ UNCHANGED <<isBackup, alive, leaving, work, selfUp, peer, hostUp, peerOut, switched, envVars>>

\* The will of a core: ignored when it is the receiver's own.
CoreWillAtActive ==
  /\ ReceivedByA("core_will")
  /\ LET core == Head(aIn).core
         next == IF core = CoreA THEN ct[CoreA] ELSE DropPeerCore(ct[CoreA], core, clock)
     IN  ActiveMoves(next, next # ct[CoreA])
  /\ aIn' = Tail(aIn)
  /\ UNCHANGED <<isBackup, alive, leaving, work, selfUp, peer, hostUp, peerOut, switched, envVars>>

\* Vote for whoever asks; the vote goes to everyone on the broker.
ElectionRequestAtActive ==
  /\ ReceivedByA("request")
  /\ LET candidate == Head(aIn).candidate
     IN  peerIn' = IF candidate = CoreA THEN peerIn
                   ELSE ForPeer(<<Vote(CoreA, candidate)>>)
  /\ aIn' = Tail(aIn)
  /\ UNCHANGED <<coreVars, selfUp, peer, hostUp, peerOut, viewVars, envVars>>

\* One vote is a majority of two cores.  The winner here already is Active:
\* what changes is that it forgets its backup.
ElectionResultAtActive ==
  /\ ReceivedByA("vote")
  /\ LET vote == Head(aIn) IN
     IF vote.voter # CoreA /\ vote.candidate = CoreA
       THEN /\ ActiveMoves(PromoteCoreAfterFailover(ct[CoreA], CoreA, ct[CoreA].active, clock), TRUE)
            /\ switched' = switched \cup {CoreA}
       ELSE UNCHANGED <<ct, topology, ctSync, peerIn, switched>>
  /\ aIn' = Tail(aIn)
  /\ UNCHANGED <<isBackup, alive, leaving, work, selfUp, peer, hostUp, peerOut, envVars>>

\* on_connect() after CoreA's own connection came back.  A notice that was
\* not acknowledged before is sent (again) after it.
ActiveReconnects ==
  /\ alive[CoreA] /\ ~ selfUp
  /\ selfUp' = TRUE
  /\ topology' = [topology EXCEPT ![CoreA] = ct[CoreA]]
  /\ ctSync' = ct[CoreA]
  /\ \/ peerIn' = ForPeer(<<CtSync(ct[CoreA])>>)
     \/ CoreA \in leaving /\ peerIn' = ForPeer(<<CtSync(ct[CoreA]), CoreWill(CoreA)>>)
  /\ UNCHANGED <<coreVars, peer, hostUp, aIn, peerOut, switched, envVars>>

(***************************************************************************)
(* CoreB, peer thread                                                      *)
(***************************************************************************)
Idle(th) == alive[CoreB] /\ work[th] = <<>>

Running(th, what) ==
  /\ alive[CoreB]
  /\ work[th] # <<>> /\ Head(work[th]).do = what

\* The next message of the peer client.  on_message_peer() returns at once
\* when the core no longer is the Backup: what still comes before the
\* connection is closed, or after a promotion on the other thread.
ReceivedByPeer(kind) ==
  /\ Idle("peer") /\ Connected /\ ~ Horizon
  /\ peerIn # <<>> /\ Head(peerIn).kind = kind
  /\ peerIn' = Tail(peerIn)

\* Mutant of PeerConnects: the node_register at connection forgotten.
PeerConnectsUnregistered ==
  /\ Idle("peer") /\ peer = "down" /\ hostUp
  /\ aIn' = ForA(peerOut)
  /\ peerOut' = <<>>
  /\ IF isBackup[CoreB]
       THEN peer' = "up" /\ peerIn' = <<CtSync(ctSync)>>
       ELSE peer' = "closed" /\ UNCHANGED peerIn
  /\ UNCHANGED <<ct, isBackup, alive, leaving, work, selfUp, hostUp, viewVars, envVars>>

\* on_connect_peer(): flush what the client holds, subscribe (which brings
\* the retained CT_SYNC) and register; a promoted core hangs up instead.
PeerConnects ==
  /\ Idle("peer") /\ peer = "down" /\ hostUp
  /\ aIn' = ForA(peerOut)
  /\ peerOut' = <<>>
  /\ IF isBackup[CoreB]
       THEN /\ peer' = "up"
            /\ peerIn' = <<CtSync(ctSync)>>
            /\ work' = [work EXCEPT !["peer"] = <<Snapshot("register")>>]
       ELSE /\ peer' = "closed"
            /\ UNCHANGED <<peerIn, work>>
  /\ UNCHANGED <<ct, isBackup, alive, leaving, selfUp, hostUp, viewVars, envVars>>

\* Mutant of CtSyncAtBackup: is_backup is not looked at (line 460).
CtSyncInAnyRole ==
  /\ ReceivedByPeer("ct_sync")
  /\ LET remote == Head(peerIn).table IN
     work' = IF remote.version > ct[CoreB].version
               THEN [work EXCEPT !["peer"] = <<Merge(remote)>>]
               ELSE work
  /\ UNCHANGED <<ct, isBackup, alive, leaving, selfUp, peer, hostUp, aIn, peerOut, viewVars, envVars>>

\* CT_SYNC, first half: drop a table that is not newer than the own one.
CtSyncAtBackup ==
  /\ ReceivedByPeer("ct_sync")
  /\ LET remote == Head(peerIn).table IN
     work' = IF isBackup[CoreB] /\ remote.version > ct[CoreB].version
               THEN [work EXCEPT !["peer"] = <<Merge(remote)>>]
               ELSE work
  /\ UNCHANGED <<ct, isBackup, alive, leaving, selfUp, peer, hostUp, aIn, peerOut, viewVars, envVars>>

\* CT_SYNC, second half: take over the Active's id and merge its rows.
MergeAtBackup ==
  /\ Running("peer", "merge")
  /\ LET remote == Head(work["peer"]).table
         local  == IF remote.active = NoId THEN ct[CoreB]
                   ELSE SetActiveCoreId(ct[CoreB], remote.active)
     IN  /\ \E admitted \in Admissions(local, remote) :
              ct' = [ct EXCEPT ![CoreB] = MergeConnectionTables(local, remote, admitted)]
         /\ work' = [work EXCEPT !["peer"] =
                       IF MergeChanges(local, remote)
                         THEN <<Snapshot("topology"), Snapshot("register")>> ELSE <<>>]
  /\ UNCHANGED <<isBackup, alive, leaving, linkVars, viewVars, envVars>>

\* promote_core_after_failover(), is_backup cleared, the rest to publish.
Promote(th, failed, script) ==
  /\ ct' = [ct EXCEPT ![CoreB] = PromoteCoreAfterFailover(ct[CoreB], CoreB, failed, clock)]
  /\ isBackup' = [isBackup EXCEPT ![CoreB] = FALSE]
  /\ work' = [work EXCEPT ![th] = script]

\* The will of the Active.
CoreWillAtBackup ==
  /\ ReceivedByPeer("core_will")
  /\ LET failed == Head(peerIn).core IN
     IF isBackup[CoreB] /\ ShouldPromoteBackupOnCoreWill(ct[CoreB], CoreB, failed)
       THEN Promote("peer", failed, PromotionScript)
       ELSE UNCHANGED <<ct, isBackup, work>>
  /\ UNCHANGED <<alive, leaving, selfUp, peer, hostUp, aIn, peerOut, viewVars, envVars>>

ElectionRequestAtBackup ==
  /\ ReceivedByPeer("request")
  /\ LET candidate == Head(peerIn).candidate
     IN  aIn' = IF isBackup[CoreB] /\ candidate # CoreB
                  THEN ForA(<<Vote(CoreB, candidate)>>) ELSE aIn
  /\ UNCHANGED <<coreVars, selfUp, peer, hostUp, peerOut, viewVars, envVars>>

ElectionResultAtBackup ==
  /\ ReceivedByPeer("vote")
  /\ LET vote == Head(peerIn) IN
     IF isBackup[CoreB] /\ vote.voter # CoreB /\ vote.candidate = CoreB
       THEN Promote("peer", ct[CoreB].active, PromotionScript)
       ELSE UNCHANGED <<ct, isBackup, work>>
  /\ UNCHANGED <<alive, leaving, selfUp, peer, hostUp, aIn, peerOut, viewVars, envVars>>

(***************************************************************************)
(* CoreB, publications of either thread: the snapshot, then the message.   *)
(***************************************************************************)
TakeSnapshot(th) ==
  /\ Running(th, "snapshot")
  /\ LET asked == Head(work[th]).topic
         topic == IF asked # "changed" THEN asked
                  ELSE IF isBackup[CoreB] THEN "register" ELSE "ownSync"
     IN  work' = [work EXCEPT ![th] = <<Emit(topic, ct[CoreB])>> \o Tail(@)]
  /\ UNCHANGED <<ct, isBackup, alive, leaving, linkVars, viewVars, envVars>>

\* CT_SYNC on CoreB's own broker has no reader among the cores, and the one
\* on CoreA's broker comes back to its sender only, who ignores it.
Publish(th) ==
  /\ Running(th, "emit")
  /\ LET topic == Head(work[th]).topic
         t     == Head(work[th]).table
         toA   == topic \in {"peerTopology", "peerSync"} /\ peer = "up"
     IN  /\ topology' = IF topic = "topology" THEN [topology EXCEPT ![CoreB] = t]
                        ELSE IF toA /\ topic = "peerTopology"
                          THEN [topology EXCEPT ![CoreA] = t]
                        ELSE topology
         /\ ctSync' = IF toA /\ topic = "peerSync" THEN t ELSE ctSync
         /\ IF topic = "register" THEN SendByPeer(NodeRegister(t)) ELSE UNCHANGED <<aIn, peerOut>>
  /\ work' = [work EXCEPT ![th] = Tail(@)]
  /\ UNCHANGED <<ct, isBackup, alive, leaving, selfUp, peer, hostUp, peerIn, switched, envVars>>

AnnounceSwitch(th) ==
  /\ Running(th, "switch")
  /\ switched' = switched \cup {CoreB}
  /\ work' = [work EXCEPT ![th] = Tail(@)]
  /\ UNCHANGED <<ct, isBackup, alive, leaving, linkVars, topology, ctSync, envVars>>

\* stop_peer_channel_after_promotion() calls mosquitto_disconnect() inside a
\* callback: the DISCONNECT is queued, and messages may come before it is sent.
StopPeerChannel ==
  /\ Running("peer", "stop")
  /\ peer' = IF peer = "up" THEN "closing" ELSE "closed"
  /\ peerOut' = <<>>
  /\ work' = [work EXCEPT !["peer"] = Tail(@)]
  /\ UNCHANGED <<ct, isBackup, alive, leaving, selfUp, hostUp, aIn, peerIn, viewVars, envVars>>

\* The DISCONNECT is out: no will, and nothing comes any more.
PeerChannelCloses ==
  /\ Idle("peer") /\ peer = "closing"
  /\ peer' = "closed"
  /\ peerIn' = <<>>
  /\ UNCHANGED <<coreVars, selfUp, hostUp, aIn, peerOut, viewVars, envVars>>

(***************************************************************************)
(* Edges: STATUS and the will of a node, on either core's broker           *)
(***************************************************************************)
Input == inputs < MaxInputs /\ inputs' = inputs + 1

\* What the handler of core c does with the new table.  A message for CoreA
\* while its own connection is down is lost (clean session).
EdgeMoves(c, t) ==
  IF c = CoreA
    THEN /\ ActiveMoves(IF Listening THEN t ELSE ct[c], Listening /\ t # ct[c])
         /\ UNCHANGED work
    ELSE /\ Idle("self")
         /\ ct' = [ct EXCEPT ![c] = t]
         /\ work' = IF t = ct[c] THEN work
                    ELSE [work EXCEPT !["self"] = <<Snapshot("topology"), Snapshot("changed")>>]
         /\ UNCHANGED <<topology, ctSync, peerIn>>

EdgeStatus(c, e) ==
  /\ Input /\ alive[c] /\ <<c, e>> \in Attach
  /\ EdgeMoves(c, RegisterEdge(ct[c], c, e, clock))
  /\ attached' = [attached EXCEPT ![c] = @ \cup {e}]
  /\ UNCHANGED <<isBackup, alive, leaving, selfUp, peer, hostUp, aIn, peerOut, switched, clock>>

NodeWill(c, e) ==
  /\ Input /\ alive[c] /\ e \in attached[c]
  /\ EdgeMoves(c, SetNodeStatus(ct[c], e, Offline, clock))
  /\ attached' = [attached EXCEPT ![c] = @ \ {e}]
  /\ UNCHANGED <<isBackup, alive, leaving, selfUp, peer, hostUp, aIn, peerOut, switched, clock>>

(***************************************************************************)
(* Faults and time                                                         *)
(***************************************************************************)
Fault(kind) == kind \in Faults /\ Input

\* A process ends without a DISCONNECT, 250 ms after its notice or by a crash.
Ends(c, crash) ==
  /\ alive[c]
  /\ alive' = [alive EXCEPT ![c] = FALSE]
  /\ \/ c \in leaving /\ UNCHANGED inputs
     \/ Fault(crash)

\* CoreA is told to stop: it publishes the text of its will as a notice, which
\* it receives itself too, and runs on as before.
NoticeOfActive ==
  /\ Fault("stopA") /\ alive[CoreA] /\ CoreA \notin leaving
  /\ leaving' = leaving \cup {CoreA}
  /\ aIn' = ForA(<<CoreWill(CoreA)>>)
  /\ peerIn' = IF selfUp THEN ForPeer(<<CoreWill(CoreA)>>) ELSE peerIn
  /\ UNCHANGED <<ct, isBackup, alive, work, selfUp, peer, hostUp, peerOut, viewVars, attached, clock>>

\* CoreA ends while its broker stays and publishes its will.
ActiveEnds ==
  /\ Ends(CoreA, "crashA")
  /\ aIn' = <<>>
  /\ peerIn' = IF selfUp THEN ForPeer(<<CoreWill(CoreA)>>) ELSE peerIn
  /\ UNCHANGED <<ct, isBackup, leaving, work, selfUp, peer, hostUp, peerOut, viewVars, attached, clock>>

\* A connection that breaks is made again, unless it was being closed.
Broken == IF peer \in {"up", "down"} THEN "down" ELSE "closed"

\* The machine of CoreA and of its broker dies: no will reaches anyone.
LoseActiveHost ==
  /\ Fault("hostLoss") /\ hostUp
  /\ hostUp' = FALSE
  /\ alive' = [alive EXCEPT ![CoreA] = FALSE]
  /\ peer' = Broken
  /\ aIn' = <<>> /\ peerIn' = <<>>
  /\ UNCHANGED <<ct, isBackup, leaving, work, selfUp, peerOut, viewVars, attached, clock>>

\* CoreA's connection to its own broker breaks: the broker publishes its will
\* although the process runs on.
DropSelf ==
  /\ Fault("selfDrop") /\ Listening /\ hostUp
  /\ selfUp' = FALSE
  /\ aIn' = <<>>
  /\ peerIn' = ForPeer(<<CoreWill(CoreA)>>)
  /\ UNCHANGED <<coreVars, peer, hostUp, peerOut, viewVars, attached, clock>>

\* Mutant of DropPeer: on_disconnect_peer() takes the silence for a death.
DropPeerPromotes ==
  /\ Fault("peerDrop") /\ peer = "up" /\ Idle("peer") /\ isBackup[CoreB]
  /\ peer' = "down"
  /\ peerIn' = <<>>
  /\ aIn' = ForA(<<CoreWill(CoreB)>>)
  /\ Promote("peer", ct[CoreB].active, PromotionScript)
  /\ UNCHANGED <<alive, leaving, selfUp, hostUp, peerOut, viewVars, attached, clock>>

\* The peer connection breaks: what was queued for it is gone, and CoreA is
\* told that CoreB went.
DropPeer ==
  /\ Fault("peerDrop") /\ Connected
  /\ peer' = Broken
  /\ peerIn' = <<>>
  /\ aIn' = ForA(<<CoreWill(CoreB)>>)
  /\ UNCHANGED <<coreVars, selfUp, hostUp, peerOut, viewVars, attached, clock>>

\* CoreB is told to stop: its peer client publishes the notice, and both
\* threads run on.  (The notice on its own broker has no reader but itself.)
NoticeOfBackup ==
  /\ Fault("stopB") /\ alive[CoreB] /\ CoreB \notin leaving
  /\ leaving' = leaving \cup {CoreB}
  /\ SendByPeer(CoreWill(CoreB))
  /\ UNCHANGED <<ct, isBackup, alive, work, selfUp, peer, hostUp, peerIn, viewVars, attached, clock>>

\* CoreB ends, its threads wherever they are; CoreA's broker publishes the
\* will of the peer client.
BackupEnds ==
  /\ Ends(CoreB, "crashB")
  /\ work' = [th \in Threads |-> <<>>]
  /\ peer' = "closed"
  /\ peerIn' = <<>> /\ peerOut' = <<>>
  /\ aIn' = IF Connected THEN ForA(<<CoreWill(CoreB)>>) ELSE aIn
  /\ UNCHANGED <<ct, isBackup, leaving, selfUp, hostUp, viewVars, attached, clock>>

\* Nothing in the repository sends an election request; its tests do, on the
\* Active's broker, in the name of either core.
RequestElection ==
  /\ Fault("request") /\ hostUp
  /\ \E candidate \in Cores :
       /\ aIn' = ForA(<<Request(candidate)>>)
       /\ peerIn' = ForPeer(<<Request(candidate)>>)
  /\ UNCHANGED <<coreVars, selfUp, peer, hostUp, peerOut, viewVars, attached, clock>>

\* Mutant of ElectionResultOnSelf: the promoted core does not call the edges.
ElectionResultOnSelfSilent ==
  /\ Fault("outsideVote") /\ Idle("self")
  /\ Promote("self", ct[CoreB].active, <<Snapshot("topology"), Snapshot("changed")>>)
  /\ UNCHANGED <<alive, leaving, linkVars, viewVars, attached, clock>>

\* A vote for CoreB on its own broker, where only an outsider can cast it.
\* This promotion, on the self thread, leaves the peer channel open.
ElectionResultOnSelf ==
  /\ Fault("outsideVote") /\ Idle("self")
  /\ Promote("self", ct[CoreB].active,
             <<Snapshot("topology"), Snapshot("changed"), Switch>>)
  /\ UNCHANGED <<alive, leaving, linkVars, viewVars, attached, clock>>

Tick ==
  /\ clock < MaxClock
  /\ clock' = clock + 1
  /\ UNCHANGED <<coreVars, linkVars, viewVars, attached, inputs>>

(***************************************************************************)
(* The specification                                                       *)
(***************************************************************************)
ActiveSteps ==
  \/ NodeRegisterAtActive \/ CoreWillAtActive
  \/ ElectionRequestAtActive \/ ElectionResultAtActive
  \/ ActiveReconnects

PeerSteps ==
  \/ PeerConnects \/ CtSyncAtBackup \/ MergeAtBackup \/ CoreWillAtBackup
  \/ ElectionRequestAtBackup \/ ElectionResultAtBackup
  \/ StopPeerChannel \/ PeerChannelCloses

ScriptSteps(th) == TakeSnapshot(th) \/ Publish(th) \/ AnnounceSwitch(th)

EnvironmentSteps ==
  \/ \E c \in Cores, e \in Edges : EdgeStatus(c, e) \/ NodeWill(c, e)
  \/ NoticeOfActive \/ ActiveEnds \/ LoseActiveHost
  \/ NoticeOfBackup \/ BackupEnds
  \/ DropSelf \/ DropPeer
  \/ RequestElection \/ ElectionResultOnSelf
  \/ Tick

Next ==
  \/ ActiveSteps
  \/ PeerSteps
  \/ \E th \in Threads : ScriptSteps(th)
  \/ EnvironmentSteps

Spec == Init /\ [][Next]_vars

\* Network threads keep running and libmosquitto keeps reconnecting; nothing
\* is assumed of the environment.
Fairness ==
  /\ WF_vars(ActiveSteps)
  /\ WF_vars(PeerSteps \/ ScriptSteps("peer"))
  /\ WF_vars(ScriptSteps("self"))

FairSpec == Spec /\ Fairness

(***************************************************************************)
(* What must hold                                                          *)
(***************************************************************************)

\* The type invariant.
TypeOK ==
  /\ ct \in [Cores -> Table]
  /\ isBackup \in [Cores -> BOOLEAN]
  /\ alive \in [Cores -> BOOLEAN] /\ leaving \subseteq Cores
  /\ selfUp \in BOOLEAN /\ hostUp \in BOOLEAN
  /\ peer \in {"up", "down", "closing", "closed"}
  /\ aIn \in Seq(Message) /\ peerIn \in Seq(Message) /\ peerOut \in Seq(Message)
  /\ work \in [Threads -> Seq(Step)]
  /\ topology \in [Cores -> Table]
  /\ ctSync \in Table
  /\ switched \subseteq Cores
  /\ attached \in [Cores -> SUBSET Edges]
  /\ clock \in Nat /\ inputs \in Nat

\* No message is on its way and no callback is half done.
Quiet ==
  /\ aIn = <<>> /\ peerIn = <<>> /\ peerOut = <<>>
  /\ \A th \in Threads : work[th] = <<>>

\* The cluster as deployed: both cores run, all connections are up, and the
\* Backup has not announced its end.
Paired ==
  /\ Listening /\ peer = "up"
  /\ alive[CoreB] /\ isBackup[CoreB] /\ CoreB \notin leaving

\* The core c has ended or has announced that it will.
Ending(c) == ~ alive[c] \/ c \in leaving

ActiveCore(c) == alive[c] /\ ~ isBackup[c]

\* Two running cores act as Active together only while the first is shutting
\* down: a Backup takes over from an Active that has announced its end or is
\* dead, never from one that has merely become silent to it (is_backup and
\* the promotions of on_message_peer, core/main.cpp 497-540).
TwoActivesOnlyAtShutdown ==
  \A c, d \in Cores : c # d /\ ActiveCore(c) /\ ActiveCore(d) => CoreA \in leaving

\* A promoted Backup names itself the Active and no backup, and no CT_SYNC
\* takes that back: neither one that was queued before, nor one the old Active
\* sends after its notice, before the peer channel is closed
\* (core/main.cpp on_message_peer 460, promote_core_after_failover).
PromotedNamesItself ==
  ~ isBackup[CoreB] => ct[CoreB].active = CoreB /\ ct[CoreB].backup = NoId

\* The Active never shows OFFLINE an edge that is registered with it,
\* whatever old table the Backup sends (merge_backup_registration).
AttachedEdgesOnline ==
  \A e \in attached[CoreA] :
    ct[CoreA].nodes[e].status = Offline =>
      \E d \in Edges \ {e} : Endpoint[d] = Endpoint[e]

\* What the Active has retained on its broker, for late subscribers and for
\* the Backup, is its table: no handler changes the table and forgets to
\* publish it (on_ct_changed and the `changed` results of the merges).  Once
\* CoreB is promoted both publish on that broker, and the last one counts.
ActiveViewPublished ==
  Listening /\ isBackup[CoreB] => topology[CoreA] = ct[CoreA] /\ ctSync = ct[CoreA]

\* A link joins two nodes of the table, as long as the table has room.
LinkEndsKnown ==
  \A c \in Cores : Room(ct[c]) > 0 =>
    \A l \in ct[c].links : {l[1], l[2]} \subseteq Known(ct[c])

\* Once all messages are handled, the Active knows its backup and every node
\* the Backup knows (node_register and its merge).
RegistrationComplete ==
  Quiet /\ Paired =>
    /\ ct[CoreA].backup = CoreB
    /\ Room(ct[CoreA]) > 0 => Known(ct[CoreB]) \subseteq Known(ct[CoreA])

\* A table whose contents change gets a higher version: receivers drop a
\* table that is not newer (bumpVersion, CT_SYNC's version check).
VersionCountsChanges ==
  [][\A c \in Cores : ct'[c] # ct[c] => ct'[c].version > ct[c].version]_vars

\* The will of the Active, once queued for the Backup, makes the Backup take
\* over and call the edges, unless it loses the connection or stops first.
Failover ==
  (isBackup[CoreB] /\ \E i \in 1..Len(peerIn) : peerIn[i] = CoreWill(CoreA))
    ~> (CoreB \in switched \/ ~ alive[CoreB] \/ peer = "down" \/ Horizon)

\* However a Backup is promoted, it ends by calling the edges to itself.
PromotionAnnounced ==
  (~ isBackup[CoreB]) ~> (CoreB \in switched \/ ~ alive[CoreB])

\* A connected Backup comes to be advertised by the Active.
BackupAdvertised ==
  (Paired /\ alive[CoreA])
    ~> (ct[CoreA].backup = CoreB \/ ~ Paired \/ Horizon)

(***************************************************************************)
(* What the documents say and the code does not do                         *)
(***************************************************************************)

\* An edge whose will the Active has handled does not come back to life from
\* a snapshot: the Active is the authority on edge liveness.
DeadEdgesOffline ==
  Quiet /\ Listening =>
    \A e \in Edges : ct[CoreA].nodes[e].status = Online => e \in attached[CoreA]

\* A main core that comes back after the Backup took over becomes the Backup.
RecoveredActiveStepsDown ==
  (Listening /\ ~ isBackup[CoreB]) ~> (isBackup[CoreA] \/ ~ Listening \/ Horizon)
=============================================================================
