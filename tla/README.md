# A TLA+ development of the campus CCTV event network

The repository moves camera events over MQTT: cameras publish to an *edge*
broker, edges forward to an *Active core*, a *Backup core* stands by, and
browsers watch.  Who is in the network is kept in a *Connection Table* (CT) that
the cores synchronise and hand to everybody as a retained message.

This directory holds TLA+ models of that system, TLC configurations that check
them, and proofs that TLAPS checks.  All paths below are relative to the
repository; `broker/src/core/main.cpp` is written core/main.cpp, and
`broker/src/edge/main.cpp` edge/main.cpp.

- [Inventory](#inventory)
- [Modules and the code](#modules-and-the-code)
- [Runs](#runs)
- [Fairness](#fairness)
- [Proofs](#proofs)
- [Abstractions and limits](#abstractions-and-limits)
- [Plan](#plan)

## Inventory

**ConnectionTableManager** (`broker/src/common/connection_table_manager.cpp`).
State: one `ConnectionTable` (version, the ids of Active and Backup, up to 64
node rows, up to 256 links) under a mutex.  Operations: init, addNode,
updateNode, setNodeStatus, addLink, updateLinkRtt, setActiveCoreId,
setBackupCoreId, replace, snapshot; every mutation that changes something counts
one version.  Hard: each operation is atomic, a handler made of several is not.
Correct when the version tells any two contents apart, rows are never lost or
torn, and links join known nodes.

**Core helpers** (`broker/include/core_helpers.h`).  Pure over a manager:
same_node_entry, merge_connection_tables, merge_backup_registration,
mark_duplicate_endpoint_nodes_offline, promote_core_after_failover,
should_promote_backup_on_core_will.  Correct when a merge takes over what is new,
does not resurrect what is dead and reports every change it made.

**Core broker process** (core/main.cpp).  State: its table, `is_backup`, ids
seen, votes, two MQTT clients.  The Active has one network thread.  The Backup
has two, *self* on its own broker and *peer* on the Active's broker, both over
the same context.  Operations: STATUS and will of an edge, will of a core,
NODE_REGISTER, CT_SYNC, election request and result, event deduplication,
(re)connection, shutdown.  Hard: unlocked state shared by two threads; snapshot
and publication are two steps; messages are lost with a session; wills arrive
late, twice, or never; a stopping core announces its end and runs on for 250 ms.
Correct when two cores are Active together at most while one shuts down, a dead
Active is replaced and the edges are called, the tables converge, and late
subscribers get the current table.

**Edge broker process** (edge/main.cpp, `broker/include/edge_helpers.h`).  State:
the store queue, connection flags, its copy of the table, RTTs and a relay.  Four
threads: local client, core client, backup client, main loop.  Operations: take
an event, flush, (dis)connect, core will, core switch, topology, ping and pong,
relay.  Correct when events are forwarded in order, once, and none waits for ever
while a way is open; and when the edge follows the newest Active.

**pub_sim** (`broker/src/publisher/main.cpp`,
`broker/include/publisher_helpers.h`).  A simulated camera: queue, failover to a
fallback broker chosen by RTT and hops, return to the primary.

**Publisher client** (`publisher_client/src`): a camera page.  State, all in refs
of the hook `usePublisher`: the MQTT client and its status, the primary and the
active broker, the newest table, the core remembered from it, one timer (failover
or return to the primary), a queue of up to 100 events, and the publications that
wait for an acknowledgement, each with a timeout.  Operations: connect,
disconnect, publish; the client's connect, close, error and message events; the
timers.  `mqtt/ctFailover.js` chooses the broker to go to.  Hard: closing a client
calls the callbacks of everything in flight inside the handler that closes it;
timeouts race late answers; handlers see the status of the last render.  Correct
when an accepted event is acknowledged or still held, once; when a page that wants
a connection is always on the way to one; and when it gets there.

**Monitor client** (`client/src`).  The hook `useMqtt` keeps the newest table (with a
version guard, which a failover message lifts for one table), the ids of messages
and alerts seen, the log of events and the broker's address; an effect owns the
client and makes a new one when the address changes.  Pure modules derive what is
shown: which rows (`topologyVisibility.js`), under which names
(`nodePresentation.js`), with which links (`topologyGraphModel.js`), for how long a
node is drawn as recovered (`nodeTransitions.js`, `TopologyGraph.jsx`), and how an
event is described, once and for all (`eventSnapshot.js`).  `App.jsx` keeps the names
the user gave.  Hard: tables of two cores that count apart; messages missed while
the session is down; the old client still delivering after the address changed;
renders, timers and typing in any order.  Correct when it comes to show the
promoted core, goes back to an older table only where a failover asks for it,
shows no event twice, and undoes nothing the user typed.

**JSON and ids** (`broker/src/common/mqtt_json.cpp`, `broker/include/uuid.h`).
Stateless.

**External**: mosquitto and libmosquitto, MQTT.js.  **Scripts**: install, demo,
tests; read as statements of what is intended.

How they interact:

| from | to | message |
|---|---|---|
| edge | both cores' brokers | STATUS (registration); will of the edge, on the core connection only |
| Active | its broker | `campus/monitor/topology` and CT_SYNC, both retained |
| Backup | Active's broker | NODE_REGISTER: its whole table; will of the peer client |
| Active's broker | Backup | CT_SYNC, notice and will of the Active, elections |
| stopping core | its own broker, and the peer's | a notice, the text of its will, 250 ms before it ends |
| promoted core | its own broker | topology, CT_SYNC, `campus/alert/core_switch`; the topology on the old Active's broker as well |
| camera page | an edge, another edge, or a core | events, QoS 1; it reads the topology there |
| cores' brokers | monitor | topology, events, alerts, wills, core switches |
| edge | Active, else Backup, else a relay | events, QoS 1 |

The hazards that follow from this are listed, each at its line, in
`PROJECT.json`.

## Modules and the code

`PROJECT.json` maps every definition to the lines it stands for.

| module | stands for |
|---|---|
| `ConnectionTable` | the manager's mutators and all of core_helpers.h, as operators from tables to tables |
| `CoreCluster` | two core processes, their brokers' queues and retained messages, edges as environment |
| `MCCoreCluster` | its instances: endpoints, and which edge may attach where |
| `StoreAndForward` | abstract: one queue, events leave in the order they came, each once |
| `EdgeForwarding` | the store queue of an edge and the four threads that work on it; implements `StoreAndForward` |
| `MCEdgeForwarding` | its instances |
| `BrokerSelection` | ctFailover.js: how the publisher chooses a broker from a table |
| `PublisherClient` | the hook usePublisher with the page around it, over brokers that fail and tables that come |
| `MCPublisherClient` | its instance |
| `MonitorTopology` | the pure modules of the monitor: what of a table is shown, names, links, whom to follow |
| `MonitorClient` | the hook useMqtt, beside two cores that fail over |
| `MCMonitorClient` | its instance |
| `MonitorPage` | App.jsx and TopologyGraph.jsx: renders, the dialog of names, frozen event views, the recovery timer |
| `MCMonitorPage` | its instance: three tables |
| `ConnectionTableProofs` | what each table operation returns |
| `CoreClusterProofs` | theorems about `CoreCluster`: types, versions, takeover |
| `CoreClusterViewProofs` | theorems about `CoreCluster`: links, attached edges, the published view, registration |
| `EdgeForwardingProofs` | theorems about `EdgeForwarding` |
| `PublisherClientProofs` | theorems about `PublisherClient` |
| `MonitorClientProofs` | theorems about `MonitorClient` |
| `MonitorPageProofs` | theorems about `MonitorPage` and the operators of `MonitorTopology` it is made of |

### ConnectionTable

A row keeps the fields that change: `status`, `previous_status` (`prev`) and
`status_changed_at` (`at`, whole seconds, 0 for the empty string).  The merges are
set expressions: `FreshRows` and `DifferingRows` are what the loop over
`remote.nodes` finds, and `Absorb` adds one version per row and link taken, as the
loop does.  When a table is full, which fresh rows of a snapshot get in depends on
the order of its array; `Admissions` allows every choice.  `MergeChanges` and
`RegistrationChanges` are the returned booleans, which are computed apart from
what is stored: a row refused by a full table still counts as a change.

### CoreCluster

`CoreA` starts as Active, `CoreB` as Backup.  Variables: `ct`, `isBackup`, `alive`
per core; `leaving`, the cores that have announced their end; `peer`, CoreB's
connection to CoreA's broker; `aIn` and `peerIn`, what CoreA's broker still has to deliver to CoreA and
to CoreB's peer client; `peerOut`, registrations that client holds while it is not
connected; `topology`, `ctSync`, `switched`, the retained messages and the core
switches published; `work`, what is left of a callback of CoreB.

CoreA has one thread, so each of its handlers is one action.  A handler of CoreB
shares state with the other thread, so it is cut where that thread can get in:
CT_SYNC after its version check (`CtSyncAtBackup`, `MergeAtBackup`), and every
publication between the snapshot of the table and the sending of it
(`TakeSnapshot`, `Publish`).  `PromotionScript` is the list of publications a
promotion makes, in the code's order.

| handler | action |
|---|---|
| on_message: NODE_REGISTER, core will, election request, election result | `NodeRegisterAtActive`, `CoreWillAtActive`, `ElectionRequestAtActive`, `ElectionResultAtActive` |
| on_message: STATUS, will of an edge, at either core | `EdgeStatus`, `NodeWill` |
| on_message: election result, at CoreB's own broker | `ElectionResultOnSelf` |
| on_connect after a reconnection | `ActiveReconnects` |
| on_connect_peer, on_disconnect_peer | `PeerConnects`, `DropPeer` |
| on_message_peer: CT_SYNC, core will, election request, election result | `CtSyncAtBackup`+`MergeAtBackup`, `CoreWillAtBackup`, `ElectionRequestAtBackup`, `ElectionResultAtBackup` |
| publish_topology, publish_ct_sync, publish_node_register | `TakeSnapshot`+`Publish` |
| stop_peer_channel_after_promotion, core_switch | `StopPeerChannel`, `PeerChannelCloses`, `AnnounceSwitch` |
| shutdown of a core: notice | `NoticeOfActive`, `NoticeOfBackup` |
| shutdown of a core: end after 250 ms; or a crash | `ActiveEnds`, `BackupEnds` |
| host, link and outside world | `LoseActiveHost`, `DropSelf`, `RequestElection`, `Tick` |

A shutdown takes two steps, as in `main`: the core publishes the text of its will
as a notice, its threads run on for 250 ms, and then it ends without a DISCONNECT,
so that the will itself follows.  In between (`c \in leaving`) it keeps its role: the
Active handles messages, publishes tables and CT_SYNC, and shares the name of Active
with the Backup that its notice has promoted.  How much happens in the 250 ms is left
open.  A notice that was sent while CoreA's own connection was down is sent, or sent
again, after the reconnection (`ActiveReconnects`).  A crash is the end without the
notice.

`stop_peer_channel_after_promotion` calls `mosquitto_disconnect` inside a callback of
the same client: the DISCONNECT is queued, and what the broker has sent before it
reads it still arrives (`peer = "closing"`).  `on_message_peer` returns at once then,
because `is_backup` is false; this is the check that keeps the tables of the old
Active out of a promoted core, and the mutant `CtSyncInAnyRole` drops it.

### EdgeForwarding

Each thread has a `pc`.  `flush_mutex` is `flushLock`; `queue_mutex` is held for one
look at the queue, so what is done under it is one action.  Sending is one action
per way tried, because the flags (`core_connected`, `backup_connected`,
`prefer_backup`) are plain fields that callbacks of other threads write.  `sock` is
the true state of a connection, which the flags may miss: `"lost"` is a connection
that is dead and not reported yet.  `out` is what libmosquitto accepted and has no
PUBACK for.

| code | action |
|---|---|
| handle_local_event_delivery | `LocalEvent`, `CheckPending`, `RecheckPending`, `QueueEvent` |
| main loop | `MainFlush` |
| flush_store_queue | `Lock`, `Peek`, `Pop`, `Leave` |
| forward_message_upstream, publish_to_upstream | `ChooseRoute`, `Send`, `TryNext`, `GiveUp` |
| on_connect_core, on_connect_backup, on_disconnect_* | `OnConnect`, `OnDisconnect` |
| handle_core_will_message | `CoreWill` |
| handle_core_switch_message, reconnection in handle_topology_message | `CoreSwitch` |

`handed` is a history variable: the events given to a connection, in order.  The
refinement maps the backlog of `StoreAndForward` to the store queue, less an event
that was sent but not removed yet, plus the one the local thread has in hand.

### PublisherClient

`pub` is the record of the hook's refs.  Its functions call each other, also
through callbacks that `client.end(true)` runs inside them, so they are operators
from `pub` to `pub` under the names they have in the code, and only what the browser
starts by itself is an action.  `FailInFlight` is what those callbacks do: they put
flushed events back, queue pending ones and declare the connection lost once more,
in the middle of the `DestroyClient` that caused them.  An event in flight is in
`pending` or in `flushing`, according to which of `publish` and `flushQueue` sent it.
`shown` is the status of the last render: the buttons and the motion detector act
on it.  `phase` `"silent"` is a connection whose broker stopped answering.

| code | action or operator |
|---|---|
| connect, disconnect, publish (with the controls of App.jsx) | `Connect`, `ConnectNowhere`, `Disconnect`, `Publish` |
| client.on('connect') with flushQueue, 'close'/'error', 'message' | `Connected`, `ConnectionLost`, `CtArrives` |
| callbacks of client.publish, ACK timeout, health interval | `Ack`, `AckTimeout`, `GoSilent`, `HealthCheck` |
| reconnect timer: attemptFailover, or the primary | `FailoverTimer`, `PrimaryTimer` |
| handleConnectionLoss, destroyClient, connectToBroker, attemptFailover, handleCtMessage | operators of these names |
| brokers, tables, React | `BrokerFails`, `BrokerReturns`, `PublishTable`, `Render` |

Two URLs of one host differ when one was typed and one built (`TypedUrl`,
`BuildBrokerUrl`): `URL.toString()` ends in a slash, and the code compares strings.

`BrokerSelection` gives each loop over a table by what it returns: `find` is the row
at the least position that matches, and `PickBestCandidate` the candidate that
`IsKept` against every other one, since the loop replaces its best only by a better
one (`IsBetterCandidate`: RTT, then hops) and so keeps the first of equals.

### MonitorClient

`mon` is the state of the hook, `session` the client the effect made: its host, which
is also the one in the closure of its handlers, and what it has received but not
handled.  `EffectRunsAgain` is a step of its own, so that the old client delivers
between `setBrokerUrl` and the new effect.

| code | action or operator |
|---|---|
| message handlers for topology, data, node alerts, core_switch, core will | `OnTopology`, `OnData`, `OnNodeAlert`, `OnCoreSwitch`, `OnCoreWill`, run by `Receive` |
| the effect and mqtt.js | `EffectRunsAgain`, `Connected`, `Dropped` |
| the form of App.jsx | `SetBrokerUrl` |
| cores and edges (external to the client) | `PublishTable`, `CoreDies`, `Promote`, `PromotedViewOnPeer`, `PublishData`, `RepeatData` |

The cores publish what `CoreCluster` has them publish, reduced to what a monitor can
tell apart: each counts its own versions, the promoted one announces itself on its
own broker and its table on both.

### MonitorPage

An action is a change of state with the render and the effects it causes.
`Render` makes the views of events and redraws the graph; `ArmTimer` belongs to the
effect that depends on the table and on the epoch, so only a table and the timer
itself run it; `Drafts` is the effect of the open dialog.

What is shown of a table is a set of rows and a set of links, as their order does not
matter to the page.  Of the rows of one endpoint the loop over the table keeps one:
`ShownAt` is its position, the one that replaces every row before it and that none
after it replaces.

## Runs

Passing runs:

| run | checks | bounds, and why they are enough |
|---|---|---|
| `ClusterSync` | `TypeOK`, `AttachedEdgesOnline`, `ActiveViewPublished`, `RegistrationComplete`, `LinkEndsKnown`, `VersionCountsChanges` | 3 edges, two of them ids of one endpoint, room for 4 rows (5 ids: the table can fill up), 3 inputs, no fault. Three inputs are an edge that joins, leaves and comes back, or three edges that join at different cores, while snapshots of every age are on their way. A second passes at any moment, so rows differ in their transition times. About 960 000 states. |
| `ClusterFaults` | `TwoActivesOnlyAtShutdown`, `PromotedNamesItself`, `Failover`, `BackupAdvertised` | 1 edge at the Active, 3 inputs or faults among shutdown of A, shutdown of B, crash of A, crash of B, loss of A's host, drop of the peer link; the end that follows a notice is not counted. Three allow a drop, a shutdown and an edge that makes the stopping Active send one more table, in each order. Tables up to version 9: an exchange that goes on beyond is cut off (below). About 117 000 states. |
| `ClusterElection` | `PromotionAnnounced` | 1 edge at the Backup, 2 of: election request, outside vote, own connection of A dropped (a will of a living core). About 25 000 states; no table comes to the version bound. |
| `Edge` | `TypeOK`, `ForwardsInOrder`, `ReachesACore` | 2 events, which suffice to swap, double or skip one; 2 faults among break, will, switch and loss of the Active's host: getting stuck takes a pair that leaves the flags wrong. Backup and relay. About 300 000 states. The order is proved for any number of events and faults. |
| `Publisher` | `TypeOK`, `NothingForgotten`, `HeldOnce`, `NotStranded`, `OpenMeansFlushed`, `Delivered` | A primary edge, another edge and a core; 3 events and a queue of 2, so that it overflows; 2 tables, empty or full, so that one is stale; 3 clicks, failures or late answers, as many as "lost, back on the primary, timeout" takes. About 210 000 states. |
| `Monitor` | `TypeOK`, `OneRollbackPerFailover`, `GoneStaysGone`, `ShowsActive` | 2 tables besides the promoted one, so that the promoted core's version is below, equal to or above the old one's; one broken session, one typed address; 2 events and one repetition in a log of 1, so that an event is forgotten and comes again; events come when fewer than 2 messages wait. A core dies at any moment, its will with or without the backup's address. About 566 000 states. Without events, 3 tables were checked as well. |
| `MonitorPage` | `TypeOK`, `SavedNameShown`, `EndpointsShown`, `LinksDrawnOnce`, `RecoveryEnds`, `ViewsFrozen`, `AbsentNamesKept`, `DraftsKept` | 2 tables out of: one edge; two that recovered at different times, linked in both directions; one that is back under a new id. 2 events in a log of 1, 2 saves, 4 ticks with a recovery window of 2: a node recovers, and another one, before the first deadline. About 175 000 states. |

Runs that show where the code departs from what the repository says of it (each
is quoted under `findings` in `PROJECT.json`):

| run | property | what happens |
|---|---|---|
| `DeadEdge` | `DeadEdgesOffline` | The Active handles the will of an edge, then a registration that the Backup made before it: merge_backup_registration guards ONLINE against OFFLINE and not the reverse. |
| `SplitBrain` | `RecoveredActiveStepsDown` | The Active loses its own connection for a moment: its will promotes the Backup, and nothing ever makes the Active a Backup. |
| `EdgeStuck` | `UpLinkDrains` | The will of the Active clears `core_connected`, but the connection to the broker is up and stays so: no reconnection sets it again. Without a backup core events wait for ever. |
| `PublisherStuck` | `FailoverSucceeds` | The newest table lists an edge that is dead as ONLINE. Each failed attempt chooses it again; the retry of the primary is reached only if the choice is the broker the page is connected to, which a loss has cleared. Neither the primary nor the core, both up, is dialled. |
| `MonitorFollows` | `FollowsActive` | The session of a monitor is down when the Active's will is published. The promoted core's table comes with a version that is not higher, is dropped as stale, and the monitor stays with the dead Active's broker. |

Bounds that cap counters: `MaxInputs` (edge messages and faults), `MaxClock`
(seconds; transition times are compared, so the clock moves once in `ClusterSync`
and stands in the others), `MaxVersion` (the cores stop receiving when a table is
past it: registrations and CT_SYNC can chase each other without end, so the exchange
needs a horizon; in `ClusterSync` raising it from 14 to 16 adds 546 states to 963
000: nothing but such exchanges is cut off; in `ClusterFaults` the two liveness
properties hold or the horizon is reached), `MaxEvents`, `MaxFaults`, `MaxTables`,
`MaxDisturbances` (clicks and failures of the publisher), `MaxDrops`, `MaxTyped`,
`MaxRepeats`, `MaxBacklog` (messages waiting when an event comes to the monitor),
`MaxSaves`, `MaxTime`.  `CHECK_DEADLOCK FALSE` is set everywhere because the system
may rest: the inputs are used up, or both cores have stopped.

## Fairness

`CoreCluster`: weak fairness of CoreA's thread, of CoreB's peer thread and of what
CoreB's self thread still has to publish.  libmosquitto runs each client in a
thread (`mosquitto_loop_start`) that handles messages as long as it is connected
and reconnects by itself (`mosquitto_reconnect_delay_set(…, 2, 30, false)`).
Nothing is assumed of edges, faults or time.

`EdgeForwarding`: weak fairness of each thread's own steps, of the callbacks of a
client (a broken connection is noticed by keepalive, and dialled again) and of the
delivery of what libmosquitto holds on a live connection.  Strong fairness of
taking `flush_mutex`: a `std::mutex` promises no order, but the only thread that
takes it again and again is the main loop, which sleeps a second in between, and
the other three flush once per callback.

`PublisherClient`: weak fairness of the two timers, of the answers of a broker that
can be reached (`Connected`, `Ack`), of the health interval, and of the loss of a
connection to a broker that cannot (MQTT.js's connectTimeout and keepalive).  Brokers
need not fail or return, tables need not come; `Delivered` assumes in its premise
that brokers are back for good and the user leaves the page alone.

`MonitorClient`: weak fairness of mqtt.js's redial (`reconnectPeriod`), of the
handlers and the effect (the browser's event loop runs what is due), and of the
promoted core's publication on the peer connection.  Nothing makes a core publish,
die or be promoted.  `MonitorPage` has safety properties only.

## Proofs

TLAPS checks them for all values of the constants that satisfy the assumptions the
modules state: `TableConstants`, `ClusterConstants` and `EdgeConstants` (any finite
set of edges, endpoints, attach relation and capacity), `PublisherConstants` and
`PublisherListings` (any brokers; the rows of a table are brokers, an RTT is a number
below `Infinity` or missing), `MonitorConstants`, `PageConstants` and
`ListingsAssumption` (a core gives an id one row, and `localeCompare` orders all ids);
and any bounds.  TLC evaluates each of them on the runs.  A theorem that needs more
says so in its statement.

- `TypeCorrect`: every reachable state of `CoreCluster` satisfies `TypeOK`.  One
  lemma per group of steps; the content is that every table operation maps
  tables to tables, including the cardinalities the merges add.
- `VersionsCountChanges`: no step changes a table without raising its version.
  The lemmas of `ConnectionTableProofs` show for each operation that its result is
  a table that equals its argument or has a higher version (`Advances`), a relation
  that is transitive along the operations a handler chains.
- `OverlapIsShutdown` and `PromotedKeepsItsName`, from the assumption
  `OnlyRealEnds`: the environment neither drops the Active's own connection, whose will
  would announce the end of a core that goes on, nor calls elections.  Without it they are
  false (run `SplitBrain`; an election while the Active lives).  Shutdowns with their
  250 ms, crashes, host loss and drops of the peer link are all allowed.
  `TwoActivesOnlyAtShutdown` is not inductive: that CoreA has ended or announced it
  (`Ending`) when CoreB is promoted depends on the queue.  `TakeoverInv` adds what may
  be queued: CoreA gets registrations, wills of CoreB and its own notice; the peer client
  gets CT_SYNC, and `core_will` of CoreA once CoreA is ending.  Nothing leads back from
  ending (`NoReturn`).  Of a promoted core the invariant says that no merge is left in its
  callbacks, that it names itself Active and has no backup: from the will on, the peer
  thread is busy with the promotion, and what reaches it afterwards, the tables CoreA
  sends between notice and end included, meets the `is_backup` check.
- `LinksJoinKnownNodes`, without further assumption: `LinkInv` says of every table
  there is (the cores', and those in a queue, in a callback or retained, since a link
  may come from any of them) that its links join known nodes or it is full.  A row that
  did not get into a table means that the table is full.
- `AttachedEdgesStayOnline`, if the Active's own connection is not dropped
  (`OwnConnectionHolds`; during such a drop it may miss a STATUS).  `EdgeInv` is
  stronger in one place: an edge may be missing from a table only while the table is
  full, for a table that refused it and then had room could take an OFFLINE row of it
  from a snapshot.
- `ViewStaysPublished`, without further assumption, and `RegistrationCompletes`, from
  `OnlyRealEnds`.  While CoreB is the Backup, what CoreA's broker retains is CoreA's table
  whenever CoreA listens: no callback of a Backup has a publication for that broker
  in it.  Once CoreB is promoted both write there, also while CoreA shuts down, and
  the property claims nothing.  `RegInv` says that what the Backup knows and the
  Active does not is accounted for: a registration is queued or held by the client, or
  the callback that learnt it still has to send one.  When everything is at rest
  nothing is left to account for.
- `EdgeTypes` and `Implements`: the edge's four threads implement
  `StoreAndForward` (`ForwardsInOrder`), whatever breaks, wills and switches happen
  and however many.  The step mapping needs `QueueInv`: who is inside a flush holds
  `flush_mutex`; a flush between sending and removing has the head of the queue in
  hand; and when the local thread sends directly, the queue is empty, because only
  that thread appends.

- `NothingForgottenHolds`, `HeldOnceHolds`, `NotStrandedHolds`, `OpenMeansFlushedHolds`:
  for any brokers, tables, queue length and number of events.  The four depend on
  each other, so one invariant carries them: `Lists` (queue, pending and flushing
  are sequences without repetition and share nothing, and what is in none of them
  is acknowledged or given up), `Connection` (nothing is in flight without a client,
  nothing queued behind an open one, no client after a click on Disconnect) and
  `Waiting` (a page that wants a connection and has none has a timer).  There is
  one lemma per function of the hook (`DestroyClientKeeps`, ...), since functions
  run inside each other; `Lists` takes a set of events that are missing for the
  moment, which is how a handler may hold one in hand while it calls another.  Which
  broker is chosen plays no part in these.
- `PublisherTypeCorrect`: what the refs of the hook hold is what their readers expect.
  It needs to know that a chosen broker is a row of the table.  `OneIsKept` shows that
  among any candidates one is kept against all others, so that the choice is one of
  them: of the nearest the least hops, of these the first, each by the least-number
  principle (`LeastNatural`, from the well-foundedness of `<` in the library, which
  stands in for an induction over the rows).  `RefsInv` carries it through the
  functions of the hook, one lemma each, with the tables published so far.
- `OneRollback` and `GoneForGood`: for any tables, events, repetitions and sessions,
  an older table replaces a newer one at most once per failover message
  (`OneRollbackPerFailover`), and an event the log forgot does not come back
  (`GoneStaysGone`).  `MonitorInv` adds what is true of messages on their way (a will
  or a core switch has the id of one), of versions (naturals) and of what was
  logged (its id is remembered).
- `MonitorTypeCorrect`: `MonitorInv`, with `SentInv` (what is counted are numbers) and
  `HiddenInv` (only cores are hidden), gives the type invariant of `MonitorClient`, its
  log without repetition included.
- `PageTypeCorrect`, `SavedNamesShown`, `EachEndpointShown`, `EachLinkDrawnOnce`,
  `RecoveryAlwaysEnds`, `ViewsStay`, `DraftsStay`: for any tables the cores may list.
  The lemmas about `MonitorTopology` show that the loop over the rows of an endpoint
  keeps one of them (`ShownAt` is defined), and that it is ONLINE if one of them is.
  `ShownInv` ties what is shown and drawn to the newest table; `RecoveryInv` is about
  all nodes that may be recovered, drawn as such or not, since the redraws that mark
  them do not run the timer's effect; `NamesInv` says which keys names and drafts have.  `AbsentNamesStay` also assumes `EdgesAddressed`, that every edge in a table has
  an address: without one an edge is named by its id, and a later save, when the edge
  has an address, moves that key away.

Every safety invariant and action property of a passing run is a theorem.
Model-checked only are the liveness properties (`Failover`, `PromotionAnnounced`,
`BackupAdvertised`, `ReachesACore`, `Delivered`, `ShowsActive`): they rest on fairness,
and so on ENABLED, which TLAPS does not handle.  The five violations are
counterexamples of TLC.

## Abstractions and limits

- Publications nobody in the models reads are left out: `campus/alert/node_down`,
  `node_up`, CT_SYNC on the Backup's own broker.
- A handler's changes to the table are one step although each locks on its own;
  only the version check of CT_SYNC and the snapshots are cut out, because these
  are the places where a value read earlier is used later.
- Roles, addresses and hop counts of an id are fixed; links between cores and
  edges carry RTT 0, so `addLink` never updates one; MAX_LINKS (4 × MAX_NODES) is
  left out.
- Votes: the counters are always zero before a vote and one vote promotes, so
  `election_votes` and `election_voters` do not appear.  That two threads write
  them without a lock is not modelled.
- CoreB's connection to its own broker does not break; a stopped core does not
  come back with a fresh id; a third core does not exist.
- QoS 1 redelivery: copies of one message in one client are not told apart.
- `EdgeForwarding` lets the flag writes of one callback be one step, and takes
  the judgement "this will is the Active's" as given: a will that arrives before
  the first table, when every will counts, is covered by the same action.
- `main` destroys the peer client of a stopping Backup before it stops the thread of
  the other one, whose callbacks may still use it; the model ends both in one step.
- What the models show and no run states: two tables that differ in the Backup's own row,
  both on their way after the peer link dropped and came back twice, are merged,
  registered and published again in turn without end, and so are two full tables
  with different rows; the Backup can skip a CT_SYNC with news,
  because the cores count apart, and stay without a node; two threads of the Backup
  can leave the older of two tables retained; an Active that dies while the peer
  connection is down is not replaced, since its will is not retained; an event in
  the hands of libmosquitto is lost with the host it was for; a publisher's queue
  can grow past MAX_QUEUE and is not always in the order of publication; a monitor
  whose user typed the promoted core's address keeps the old table until the
  version passes it; a timer armed at the very moment of a deadline is not set.
- `PublisherClient`: messages are numbers; the suppression of equal events within
  150 ms, the unmount of the page, ports and the camera are left out.  A broker
  acknowledges in order; delays are arbitrary, so a timer may fire at once.
- `MonitorClient`: incidents, alert banners and malformed messages are left out; the
  brokers stay up when a core's process dies.
- `MonitorPage`: positions, labels, colours, filters and the forms of nested
  publisher messages are left out; the order of addresses is given (`Order`).
- Anything that only formats, logs or renders.

Not modelled: pub_sim and the control plane of the edge (planned), the camera and
motion detection, JSON, ids, scripts.

## Plan

1. *Done*: `ConnectionTable`, `CoreCluster`, `StoreAndForward`, `EdgeForwarding`,
   type correctness, versions, takeover.
2. *Done*: `BrokerSelection`, `PublisherClient` with its safety proofs;
   `MonitorTopology`, `MonitorClient`, `MonitorPage`.
3. `CoreEvents`: event and relay deduplication with the bounded set of ids seen;
   abstract specification: each event is forwarded at most once within the window.
   Then `EdgeForwarding` and `CoreEvents` composed, from camera to subscriber.
4. `EdgeTopology`: the edge's copy of the table, `last_ct_version`, the two
   threads of handle_topology_message, core_switch and wills, pings and the relay.
5. `PubSim`, with select_fallback_broker against `BrokerSelection`.
6. Restarts with fresh ids in `CoreCluster`, and re-registration with a promoted
   core.
7. *Done*: theorems for the safety properties of every run.
8. Theorems for the modules of 3 to 6, and `SelectFallbackBroker` against the
   requirement of the PRD.
