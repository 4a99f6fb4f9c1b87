--------------------------- MODULE EdgeForwarding ---------------------------
(***************************************************************************)
(* Store-and-forward on an edge: broker/src/edge/main.cpp.                 *)
(*                                                                         *)
(* Four threads work on the store queue: the network thread of the local   *)
(* client takes the cameras' events, the main loop flushes once a second,  *)
(* and the network threads of the core and of the backup client flush from *)
(* their callbacks.  A flush holds flush_mutex; queue_mutex is held only   *)
(* for one look at the queue, so a step below is what happens between two  *)
(* of its uses.  Each attempt to send is a step too: the flags it reads    *)
(* are written by callbacks of other threads without a lock.               *)
(*                                                                         *)
(* The flags are not the connections: core_connected is also cleared by    *)
(* the will of the Active, while the connection may be up, and it stays    *)
(* set while a dead connection has not been reported yet.                  *)
(*                                                                         *)
(* libmosquitto (external) keeps what it accepts, at QoS 1, until the      *)
(* broker has it, over reconnections and over a change of host.  Of a      *)
(* publication it refuses (MOSQ_ERR_NO_CONN) it may keep a copy as well.   *)
(* Copies of one event in one client are not told apart.                   *)
(***************************************************************************)
EXTENDS Integers, Sequences

CONSTANTS HasBackup,   \* a backup core is configured
          HasRelay,    \* a relay node has been chosen (relay_node_id)
          Faults,      \* what may go wrong: "break", "will", "switch", "hostLoss"
          MaxEvents,   \* bound on the cameras' events
          MaxFaults    \* bound on faults

ASSUME EdgeConstants ==
  /\ HasBackup \in BOOLEAN /\ HasRelay \in BOOLEAN
  /\ Faults \subseteq {"break", "will", "switch", "hostLoss"}
  /\ MaxEvents \in Nat /\ MaxFaults \in Nat

Threads == {"local", "main", "core", "backup"}
Clients == {"core", "backup"}
Hosts   == {"A", "B"}      \* the two cores; the backup client dials B

VARIABLES
  storeQueue,       \* store_queue
  flushLock,        \* the holder of flush_mutex, or "free"
  pc,               \* [Threads -> where the thread is]
  item,             \* [Threads -> the event it is sending]
  route,            \* [Threads -> the ways it has not tried yet]
  core_connected, backup_connected, prefer_backup,
  target,           \* active_core_ip/port: the host the core client dials
  sock,             \* [Clients -> "up", "lost" (not reported yet), "down"]
  hostUp,           \* [Hosts -> BOOLEAN]
  out,              \* [Clients -> events libmosquitto holds for the broker]
  arrived,          \* events that reached a core's broker
  accepted,         \* events taken from the local broker so far
  handed,           \* events whose mosquitto_publish() succeeded, in order
  faults

threadVars == <<pc, item, route>>
queueVars  == <<storeQueue, flushLock>>
flagVars   == <<core_connected, backup_connected, prefer_backup>>
netVars    == <<target, sock, hostUp>>
logVars    == <<out, arrived, accepted, handed>>
vars == <<threadVars, queueVars, flagVars, netVars, logVars, faults>>

Init ==
  /\ storeQueue = <<>> /\ flushLock = "free"
  /\ pc = [th \in Threads |-> "idle"]
  /\ item = [th \in Threads |-> 0]
  /\ route = [th \in Threads |-> <<>>]
  /\ core_connected = FALSE /\ backup_connected = FALSE /\ prefer_backup = FALSE
  /\ target = "A"
  /\ sock = [c \in Clients |-> "down"]
  /\ hostUp = [h \in Hosts |-> TRUE]
  /\ out = [c \in Clients |-> <<>>]
  /\ arrived = {} /\ accepted = 0 /\ handed = <<>>
  /\ faults = 0

Goes(th, place) == pc' = [pc EXCEPT ![th] = place]

\* The locals of a call end with it.
Forget(th) ==
  /\ item' = [item EXCEPT ![th] = 0]
  /\ route' = [route EXCEPT ![th] = <<>>]

(***************************************************************************)
(* handle_local_event_delivery()                                           *)
(***************************************************************************)
LocalEvent ==
  /\ pc["local"] = "idle" /\ accepted < MaxEvents
  /\ accepted' = accepted + 1
  /\ Goes("local", "check")
  /\ UNCHANGED <<item, route, queueVars, flagVars, netVars, out, arrived, handed, faults>>

\* Older events first: flush when there are any.
CheckPending ==
  /\ pc["local"] = "check"
  /\ Goes("local", IF storeQueue # <<>> THEN "lock" ELSE "route")
  /\ item' = [item EXCEPT !["local"] = IF storeQueue # <<>> THEN @ ELSE accepted]
  /\ UNCHANGED <<route, queueVars, flagVars, netVars, logVars, faults>>

\* Some are left after the flush: queue up behind them.
RecheckPending ==
  /\ pc["local"] = "recheck"
  /\ Goes("local", IF storeQueue # <<>> THEN "store" ELSE "route")
  /\ item' = [item EXCEPT !["local"] = IF storeQueue # <<>> THEN @ ELSE accepted]
  /\ UNCHANGED <<route, queueVars, flagVars, netVars, logVars, faults>>

\* queue_event().
QueueEvent ==
  /\ pc["local"] = "store"
  /\ storeQueue' = Append(storeQueue, accepted)
  /\ Goes("local", "idle")
  /\ UNCHANGED <<item, route, flushLock, flagVars, netVars, logVars, faults>>

(***************************************************************************)
(* flush_store_queue()                                                     *)
(***************************************************************************)
\* Mutant of MainFlush: the main loop flushes only towards the core.
MainFlushToCore ==
  /\ pc["main"] = "idle" /\ core_connected
  /\ Goes("main", "lock")
  /\ UNCHANGED <<item, route, queueVars, flagVars, netVars, logVars, faults>>

\* The main loop, once a second.
MainFlush ==
  /\ pc["main"] = "idle"
  /\ Goes("main", "lock")
  /\ UNCHANGED <<item, route, queueVars, flagVars, netVars, logVars, faults>>

\* Mutant of Lock: no flush_mutex.
LockNothing(th) ==
  /\ pc[th] = "lock"
  /\ flushLock' = th
  /\ Goes(th, "peek")
  /\ UNCHANGED <<item, route, storeQueue, flagVars, netVars, logVars, faults>>

Lock(th) ==
  /\ pc[th] = "lock" /\ flushLock = "free"
  /\ flushLock' = th
  /\ Goes(th, "peek")
  /\ UNCHANGED <<item, route, storeQueue, flagVars, netVars, logVars, faults>>

\* Return from the flush.
Leave(th) ==
  /\ flushLock' = "free"
  /\ Goes(th, IF th = "local" THEN "recheck" ELSE "idle")

Peek(th) ==
  /\ pc[th] = "peek"
  /\ IF storeQueue = <<>>
       THEN Leave(th) /\ UNCHANGED item
       ELSE /\ item' = [item EXCEPT ![th] = Head(storeQueue)]
            /\ Goes(th, "route")
            /\ UNCHANGED flushLock
  /\ UNCHANGED <<route, storeQueue, flagVars, netVars, logVars, faults>>

\* Remove the event, if it still is the first one.
Pop(th) ==
  /\ pc[th] = "pop"
  /\ storeQueue' = IF storeQueue # <<>> /\ Head(storeQueue) = item[th]
                     THEN Tail(storeQueue) ELSE storeQueue
  /\ Goes(th, "peek") /\ Forget(th)
  /\ UNCHANGED <<flushLock, flagVars, netVars, logVars, faults>>

(***************************************************************************)
(* forward_message_upstream()                                              *)
(***************************************************************************)
\* The order in which the ways are tried; a relay only as a last resort.
ChooseRoute(th) ==
  /\ pc[th] = "route"
  /\ route' = [route EXCEPT ![th] = IF prefer_backup THEN <<"backup", "core">>
                                    ELSE <<"core", "backup", "relay">>]
  /\ Goes(th, "try")
  /\ UNCHANGED <<item, queueVars, flagVars, netVars, logVars, faults>>

Usable(way) ==
  CASE way = "core"   -> core_connected
    [] way = "backup" -> backup_connected
    [] way = "relay"  -> HasRelay

Carrier(way) == IF way = "backup" THEN "backup" ELSE "core"

Hold(c, e) ==
  out' = IF \E i \in DOMAIN out[c] : out[c][i] = e THEN out
         ELSE [out EXCEPT ![c] = Append(@, e)]

\* mosquitto_publish() succeeds: always on a live connection, perhaps on one
\* that is dead without the library knowing.
Send(th) ==
  /\ pc[th] = "try" /\ route[th] # <<>>
  /\ LET way == Head(route[th]) IN
       /\ Usable(way)
       /\ sock[Carrier(way)] \in {"up", "lost"}
       /\ Hold(Carrier(way), item[th])
  /\ handed' = Append(handed, item[th])
  /\ IF flushLock = th
       THEN Goes(th, "pop") /\ UNCHANGED <<item, route>>
       ELSE Goes(th, "idle") /\ Forget(th)
  /\ UNCHANGED <<queueVars, flagVars, netVars, arrived, accepted, faults>>

\* The way is not usable, or mosquitto_publish() fails on a dead connection.
TryNext(th) ==
  /\ pc[th] = "try" /\ route[th] # <<>>
  /\ LET way == Head(route[th]) IN
       \/ ~ Usable(way) /\ UNCHANGED out
       \/ /\ Usable(way) /\ sock[Carrier(way)] # "up"
          /\ Hold(Carrier(way), item[th]) \/ UNCHANGED out
  /\ route' = [route EXCEPT ![th] = Tail(@)]
  /\ UNCHANGED <<pc, item, queueVars, flagVars, netVars, arrived, accepted, handed, faults>>

\* No way is left: keep the event in the queue, or put it there.
GiveUp(th) ==
  /\ pc[th] = "try" /\ route[th] = <<>>
  /\ IF flushLock = th THEN Leave(th) ELSE Goes(th, "store") /\ UNCHANGED flushLock
  /\ Forget(th)
  /\ UNCHANGED <<storeQueue, flagVars, netVars, logVars, faults>>

(***************************************************************************)
(* Callbacks of the core and the backup client, on their own threads       *)
(***************************************************************************)
Host(c) == IF c = "core" THEN target ELSE "B"

OnConnect(c) ==
  /\ pc[c] = "idle" /\ sock[c] = "down" /\ hostUp[Host(c)]
  /\ c = "backup" => HasBackup
  /\ sock' = [sock EXCEPT ![c] = "up"]
  /\ IF c = "core"
       THEN core_connected' = TRUE /\ prefer_backup' = FALSE /\ UNCHANGED backup_connected
       ELSE backup_connected' = TRUE /\ UNCHANGED <<core_connected, prefer_backup>>
  /\ Goes(c, "lock")
  /\ UNCHANGED <<item, route, queueVars, target, hostUp, logVars, faults>>

OnDisconnect(c) ==
  /\ pc[c] = "idle" /\ sock[c] = "lost"
  /\ sock' = [sock EXCEPT ![c] = "down"]
  /\ core_connected' = (core_connected /\ c # "core")
  /\ backup_connected' = (backup_connected /\ c # "backup")
  /\ UNCHANGED <<threadVars, queueVars, prefer_backup, target, hostUp, logVars, faults>>

Fault(kind) == kind \in Faults /\ faults < MaxFaults /\ faults' = faults + 1

\* handle_core_will_message(): the will of the core that the edge takes for
\* the Active, on whichever client is connected to that core's broker.
CoreWill(c) ==
  /\ Fault("will")
  /\ pc[c] = "idle" /\ sock[c] = "up" /\ Host(c) = target
  /\ core_connected' = FALSE /\ prefer_backup' = TRUE
  /\ IF backup_connected THEN Goes(c, "lock") ELSE UNCHANGED pc
  /\ UNCHANGED <<item, route, queueVars, backup_connected, netVars, logVars>>

\* Mutant of CoreSwitch: an address that does not parse is taken all the same.
CoreSwitchUnparsed(c) ==
  /\ Fault("switch")
  /\ pc[c] = "idle" /\ sock[c] = "up"
  /\ target' \in {"A", "B", ""} \ {target}
  /\ sock' = [sock EXCEPT !["core"] = IF @ = "up" THEN "lost" ELSE @]
  /\ prefer_backup' = FALSE
  /\ UNCHANGED <<threadVars, queueVars, core_connected, backup_connected, hostUp, logVars>>

\* handle_core_switch_message(), and the same in handle_topology_message():
\* another core is the Active, let the core client dial that one.
CoreSwitch(c) ==
  /\ Fault("switch")
  /\ pc[c] = "idle" /\ sock[c] = "up"
  /\ target' = IF target = "A" THEN "B" ELSE "A"
  /\ sock' = [sock EXCEPT !["core"] = IF @ = "up" THEN "lost" ELSE @]
  /\ prefer_backup' = FALSE
  /\ UNCHANGED <<threadVars, queueVars, core_connected, backup_connected, hostUp, logVars>>

(***************************************************************************)
(* The network                                                             *)
(***************************************************************************)
LinkBreaks(c) ==
  /\ Fault("break") /\ sock[c] = "up"
  /\ sock' = [sock EXCEPT ![c] = "lost"]
  /\ UNCHANGED <<threadVars, queueVars, flagVars, target, hostUp, logVars>>

\* The machine of core A dies, its broker with it.
HostLost ==
  /\ Fault("hostLoss") /\ hostUp["A"]
  /\ hostUp' = [hostUp EXCEPT !["A"] = FALSE]
  /\ sock' = [sock EXCEPT !["core"] = IF @ = "up" /\ target = "A" THEN "lost" ELSE @]
  /\ UNCHANGED <<threadVars, queueVars, flagVars, target, logVars>>

\* The broker has an event and says so (PUBACK).
Arrive(c) ==
  /\ sock[c] = "up" /\ out[c] # <<>>
  /\ arrived' = arrived \cup {Head(out[c])}
  /\ out' = [out EXCEPT ![c] = Tail(@)]
  /\ UNCHANGED <<threadVars, queueVars, flagVars, netVars, accepted, handed, faults>>

(***************************************************************************)
(* The specification                                                       *)
(***************************************************************************)
LocalSteps == CheckPending \/ RecheckPending \/ QueueEvent

FlushSteps(th) == Peek(th) \/ Pop(th) \/ ChooseRoute(th) \/ Send(th) \/ TryNext(th) \/ GiveUp(th)

Callbacks(c) == OnConnect(c) \/ OnDisconnect(c)

Next ==
  \/ LocalEvent \/ LocalSteps \/ MainFlush
  \/ \E th \in Threads : Lock(th) \/ FlushSteps(th)
  \/ \E c \in Clients : \/ Callbacks(c) \/ Arrive(c)
                        \/ CoreWill(c) \/ CoreSwitch(c) \/ LinkBreaks(c)
  \/ HostLost

Spec == Init /\ [][Next]_vars

\* Threads run, the main loop ticks, lost connections are reported and dialled
\* again, and brokers take what they are sent.  The main loop sleeps between
\* two flushes, so whoever waits for flush_mutex gets it.
Fairness ==
  /\ WF_vars(LocalSteps) /\ WF_vars(MainFlush)
  /\ \A th \in Threads : SF_vars(Lock(th)) /\ WF_vars(FlushSteps(th))
  /\ \A c \in Clients : WF_vars(Callbacks(c)) /\ WF_vars(Arrive(c))

FairSpec == Spec /\ Fairness

(***************************************************************************)
(* What must hold                                                          *)
(***************************************************************************)

\* The type invariant.
TypeOK ==
  /\ storeQueue \in Seq(Nat)
  /\ flushLock \in Threads \cup {"free"}
  /\ pc \in [Threads -> {"idle", "check", "recheck", "store", "lock", "peek",
                         "route", "try", "pop"}]
  /\ item \in [Threads -> Nat]
  /\ route \in [Threads -> Seq({"core", "backup", "relay"})]
  /\ core_connected \in BOOLEAN /\ backup_connected \in BOOLEAN
  /\ prefer_backup \in BOOLEAN
  /\ target \in Hosts
  /\ sock \in [Clients -> {"up", "lost", "down"}]
  /\ hostUp \in [Hosts -> BOOLEAN]
  /\ out \in [Clients -> Seq(Nat)]
  /\ arrived \subseteq Nat /\ accepted \in Nat
  /\ handed \in Seq(Nat) /\ faults \in Nat

\* What still waits: the queue, less an event that was sent and not removed
\* yet, and the event the local thread has in hand.
Sent == \E th \in Threads : pc[th] = "pop"

Waiting ==
  (IF Sent THEN Tail(storeQueue) ELSE storeQueue)
    \o (IF pc["local"] = "idle" THEN <<>> ELSE <<accepted>>)

Promise == INSTANCE StoreAndForward WITH backlog <- Waiting, delivered <- handed

\* The four threads together forward in the order of arrival, each event once,
\* and lose none (flush_mutex, has_pending_queue, the msg_id check of the pop).
ForwardsInOrder == Promise!Spec

\* With a backup configured whose host stays up, every event reaches a core in
\* the end, whatever wills, breaks and core switches come (main loop, callbacks).
\* The one exception: libmosquitto keeps what it took for a host that is gone.
ReachesACore ==
  []<>(\A e \in 1..accepted :
         e \in arrived \/ (~ hostUp[target] /\ \E i \in DOMAIN out["core"] : out["core"][i] = e))

(***************************************************************************)
(* What the documents say and the code does not do                         *)
(***************************************************************************)

\* While the connection to the Active is up, what waits is sent to it.
UpLinkDrains ==
  \A e \in 1..MaxEvents :
    (accepted >= e /\ sock["core"] = "up") ~> (Len(handed) >= e \/ sock["core"] # "up")
=============================================================================
