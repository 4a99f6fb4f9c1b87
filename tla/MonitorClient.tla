---------------------------- MODULE MonitorClient ----------------------------
(***************************************************************************)
(* The monitor's connection and its tables: client/src/hooks/useMqtt.js,   *)
(* beside the two cores it listens to.                                     *)
(*                                                                         *)
(* The hook's effect dials one broker and is run again, with a new client, *)
(* when brokerUrl changes; between the two the old client still delivers,  *)
(* and its handlers know the old URL only.  A client that loses its broker *)
(* redials the same URL (reconnectPeriod) with a clean session: what was   *)
(* published meanwhile is lost, but for the retained table.                *)
(*                                                                         *)
(* The cores are as CoreCluster has them, reduced to what they publish:    *)
(* each counts the versions of its tables by itself, a promoted Backup     *)
(* publishes its table on its own broker and, over the peer connection, on *)
(* the old Active's, and core_switch on its own only.  A core's process    *)
(* may die; the brokers stay.  Incidents, alert banners and their timers   *)
(* only display what is handled here and are left out.                     *)
(***************************************************************************)
EXTENDS MonitorTopology, FiniteSets

CONSTANTS Main, Standby,    \* the two cores, and the hosts of their brokers
          Edge,             \* an edge: its id and its host
          Hints,            \* the backup host in the Active's will, "" if it has none
          MAX_EVENTS,
          MaxTables, MaxDrops, MaxTyped, MaxEvents, MaxRepeats, MaxBacklog    \* bounds

Cores == {Main, Standby}

ASSUME MonitorConstants ==
  /\ Main # Standby /\ Edge \notin Cores /\ Hints \subseteq {"", Standby}
  /\ MAX_EVENTS \in Nat \ {0} /\ {MaxTables, MaxDrops, MaxTyped, MaxEvents, MaxRepeats, MaxBacklog} \subseteq Nat

VARIABLES
  mon,       \* the state and the refs of the hook
  session,   \* the client of the effect: host, whether it is connected, what it received
  cores,     \* the processes, their tables and what their brokers retain
  sent,      \* tables of the cores, events of the edges and repeated events so far
  drops,     \* sessions that broke so far
  typed      \* broker addresses the user entered so far

vars == <<mon, session, cores, sent, drops, typed>>

\* rollbacks and logged are history: tables replaced by an older version, and
\* what was ever put into the log.
Init ==
  /\ \E h \in Cores : mon = [brokerUrl |-> h, raw |-> NoTable, hidden |-> {}, forceAcceptNext |-> FALSE,
                             seenMsgIds |-> {}, seenAlerts |-> {}, events |-> <<>>, rollbacks |-> 0,
                             logged |-> {}]
  /\ session = [host |-> mon.brokerUrl, open |-> FALSE, inbox |-> <<>>]
  /\ cores = [alive |-> Cores, active |-> Main, version |-> [c \in Cores |-> 0],
              retained |-> [c \in Cores |-> NoTable], peerView |-> FALSE]
  /\ sent = [tables |-> 0, events |-> 0, repeats |-> 0]
  /\ drops = 0
  /\ typed = 0

\* A msg_id names what the message is about, in place of a UUID.
NoId      == <<"", "", 0>>
LwtId(c, h) == <<"LWT", c, IF h = Main THEN 1 ELSE 2>>
SwitchId  == <<"STATUS", Standby, 0>>
DataId(e) == <<"DATA", Edge, e>>

Message(topic, id, ct, from, endpoint) ==
  [topic |-> topic, msg_id |-> id, ct |-> ct, from |-> from, endpoint |-> endpoint]

-----------------------------------------------------------------------------
(* The handlers, from mon to mon; host is the one in their closure. *)

\* Mutant of ReconnectToBrokerHost: an empty host is dialled.
ReconnectAnywhere(m, host, next) ==
  IF next = host THEN m ELSE [m EXCEPT !.brokerUrl = next]

\* The other URL takes effect when the effect is run again.
ReconnectToBrokerHost(m, host, next) ==
  IF next \in {"", host} THEN m ELSE [m EXCEPT !.brokerUrl = next]

ApplyPresentationTopology(m, ct) ==
  [m EXCEPT !.raw = ct, !.hidden = ReconcileHiddenNodeIds(ct, @),
            !.rollbacks = @ + (IF ct.version < m.raw.version THEN 1 ELSE 0)]

RefreshVisibleTopology(m) ==
  IF m.raw = NoTable THEN m ELSE [m EXCEPT !.hidden = ReconcileHiddenNodeIds(m.raw, @)]

\* Does the version guard of M-04 keep the table out?
IsStale(m, ct) == ~m.forceAcceptNext /\ m.raw # NoTable /\ ct.version <= m.raw.version

\* Mutant of OnTopology: the bypass of the guard is not used up.
OnTopologyStillForced(m, host, msg) ==
  IF IsStale(m, msg.ct) THEN m
  ELSE ReconnectToBrokerHost(ApplyPresentationTopology(m, msg.ct), host,
                             SelectPromotedActiveNode(m.raw, msg.ct, host).ip)

OnTopology(m, host, msg) ==
  LET promoted == SelectPromotedActiveNode(m.raw, msg.ct, host)
  IN IF IsStale(m, msg.ct) THEN m
     ELSE ReconnectToBrokerHost(
            ApplyPresentationTopology([m EXCEPT !.forceAcceptNext = FALSE], msg.ct),
            host, promoted.ip)

\* The log is newest first and keeps MAX_EVENTS.
Logged(events, e) ==
  SubSeq(<<e>> \o events, 1, IF Len(events) < MAX_EVENTS THEN Len(events) + 1 ELSE MAX_EVENTS)

\* Mutant of OnData: only what the log still holds is known.
OnDataByLog(m, host, msg) ==
  IF Contains(m.events, msg.msg_id) THEN m
  ELSE [m EXCEPT !.events = Logged(@, msg.msg_id), !.logged = @ \cup {msg.msg_id}]

OnData(m, host, msg) ==
  IF msg.msg_id \in m.seenMsgIds THEN m
  ELSE [m EXCEPT !.seenMsgIds = @ \cup {msg.msg_id}, !.events = Logged(@, msg.msg_id),
                 !.logged = @ \cup {msg.msg_id}]

\* The table of an alert is applied without a look at its active core.
OnNodeAlert(m, host, msg) ==
  LET key   == <<msg.topic, msg.from, msg.ct.version>>
      known == [m EXCEPT !.seenAlerts = @ \cup {key}]
  IN IF key \in m.seenAlerts THEN m
     ELSE IF m.raw = NoTable \/ msg.ct.version > m.raw.version
     THEN ApplyPresentationTopology(known, msg.ct)
     ELSE RefreshVisibleTopology(known)

OnCoreSwitch(m, host, msg) ==
  IF msg.msg_id \in m.seenMsgIds THEN m
  ELSE ReconnectToBrokerHost([m EXCEPT !.seenMsgIds = @ \cup {msg.msg_id}, !.forceAcceptNext = TRUE],
                             host, msg.endpoint)

\* Mutant of OnCoreWill: forceAcceptNext is not set.
OnCoreWillGuarded(m, host, msg) ==
  LET hidden == RefreshVisibleTopology([m EXCEPT !.hidden = @ \cup {msg.from}])
      known  == [hidden EXCEPT !.seenMsgIds = @ \cup {msg.msg_id}]
      backup == ResolveBackupReconnectTarget(m.raw)
  IN IF msg.msg_id \in m.seenMsgIds \/ m.raw.active_core_id # msg.from THEN hidden
     ELSE ReconnectToBrokerHost(known, host, IF backup.ip # "" THEN backup.ip ELSE msg.endpoint)

OnCoreWill(m, host, msg) ==
  LET hidden  == RefreshVisibleTopology([m EXCEPT !.hidden = @ \cup {msg.from}])
      known   == [hidden EXCEPT !.seenMsgIds = @ \cup {msg.msg_id}, !.forceAcceptNext = TRUE]
      backup  == ResolveBackupReconnectTarget(m.raw)
      next    == IF backup.ip # "" THEN backup.ip ELSE msg.endpoint
  IN CASE msg.msg_id \in m.seenMsgIds -> hidden
       [] msg.msg_id \notin m.seenMsgIds /\ m.raw.active_core_id # msg.from -> known
       [] OTHER -> ReconnectToBrokerHost(known, host, next)

Handler(m, host, msg) ==
  CASE msg.topic = "campus/monitor/topology"  -> OnTopology(m, host, msg)
    [] msg.topic = "campus/data"              -> OnData(m, host, msg)
    [] msg.topic = "campus/alert/node_up"        -> OnNodeAlert(m, host, msg)
    [] msg.topic = "campus/alert/core_switch" -> OnCoreSwitch(m, host, msg)
    [] msg.topic = "campus/will/core"         -> OnCoreWill(m, host, msg)

-----------------------------------------------------------------------------
(* The client of the effect. *)

MonitorStep == UNCHANGED <<cores, sent>>

TableMessage(ct) == Message("campus/monitor/topology", NoId, ct, "", "")

\* 'connect', and the subscription, which the retained table answers.  A redial
\* takes seconds: React has run the effect long before.
Connected ==
  /\ ~session.open /\ mon.brokerUrl = session.host
  /\ session' = [session EXCEPT !.open = TRUE,
                   !.inbox = IF cores.retained[session.host] = NoTable THEN <<>>
                             ELSE <<TableMessage(cores.retained[session.host])>>]
  /\ MonitorStep /\ UNCHANGED <<mon, drops, typed>>

Dropped ==
  /\ session.open /\ drops < MaxDrops
  /\ session' = [session EXCEPT !.open = FALSE, !.inbox = <<>>]
  /\ drops' = drops + 1
  /\ MonitorStep /\ UNCHANGED <<mon, typed>>

Receive ==
  /\ session.inbox # <<>>
  /\ mon' = Handler(mon, session.host, Head(session.inbox))
  /\ session' = [session EXCEPT !.inbox = Tail(@)]
  /\ MonitorStep /\ UNCHANGED <<drops, typed>>

\* client.end(true) and mqtt.connect with the new URL.
EffectRunsAgain ==
  /\ mon.brokerUrl # session.host
  /\ session' = [host |-> mon.brokerUrl, open |-> FALSE, inbox |-> <<>>]
  /\ MonitorStep /\ UNCHANGED <<mon, drops, typed>>

\* The form of App.jsx.
SetBrokerUrl(h) ==
  /\ typed < MaxTyped /\ h # mon.brokerUrl
  /\ typed' = typed + 1
  /\ mon' = [mon EXCEPT !.brokerUrl = h]
  /\ MonitorStep /\ UNCHANGED <<session, drops>>

-----------------------------------------------------------------------------
(* The cores. *)

CoreStep == UNCHANGED <<mon, drops, typed>>

\* What is published on the broker of h reaches the session that is open there.
Deliver(h, msgs) ==
  session' = IF session.open /\ session.host = h
             THEN [session EXCEPT !.inbox = @ \o msgs] ELSE session

CoreRow(c, status) == [id |-> c, role |-> "CORE", status |-> status, ip |-> c, port |-> 1]
EdgeRow            == [id |-> Edge, role |-> "NODE", status |-> "ONLINE", ip |-> Edge, port |-> 1]

Table(version, rows, active, backup) ==
  [version |-> version, nodes |-> rows, active_core_id |-> active, backup_core_id |-> backup,
   links |-> <<[from_id |-> active, to_id |-> Edge]>>]

\* A core counts one more change: a recovered edge, and a backup it may or may
\* not know.  The Active adds an alert with the same table.
PublishTable(c, backup) ==
  LET version == cores.version[c] + 1
      others  == IF backup = "" THEN <<>> ELSE <<CoreRow(backup, "ONLINE")>>
      ct      == Table(version, <<CoreRow(cores.active, "ONLINE")>> \o others \o <<EdgeRow>>,
                       cores.active, backup)
      alert   == IF c = cores.active THEN <<Message("campus/alert/node_up", NoId, ct, Edge, "")>> ELSE <<>>
  IN /\ c \in cores.alive /\ sent.tables < MaxTables
     /\ sent' = [sent EXCEPT !.tables = @ + 1]
     /\ cores.active \in cores.alive /\ backup # cores.active
     /\ cores' = [cores EXCEPT !.version[c] = version, !.retained[c] = ct]
     /\ Deliver(c, <<TableMessage(ct)>> \o alert)
     /\ CoreStep

\* The will is published by the core's own broker; the Backup's by the peer
\* broker as well, each with a msg_id of its own.
CoreDies(c, hint) ==
  LET Will(h) == <<Message("campus/will/core", LwtId(c, h), NoTable, c,
                           IF c = Main THEN hint ELSE "")>>
  IN /\ cores.alive = Cores
     /\ cores' = [cores EXCEPT !.alive = @ \ {c}]
     /\ IF c = Standby /\ session.host = Main THEN Deliver(Main, Will(Main)) ELSE Deliver(c, Will(c))
     /\ CoreStep /\ UNCHANGED sent

PromotedTable == Table(cores.version[Standby] + 1,
                       <<CoreRow(Main, "OFFLINE"), CoreRow(Standby, "ONLINE"), EdgeRow>>,
                       Standby, "")

Promote ==
  /\ Main \notin cores.alive /\ cores.active = Main
  /\ cores' = [cores EXCEPT !.active = Standby, !.version[Standby] = @ + 1,
                            !.retained[Standby] = PromotedTable, !.peerView = TRUE]
  /\ Deliver(Standby, <<TableMessage(PromotedTable),
                        Message("campus/alert/core_switch", SwitchId,
                                NoTable, Standby, Standby)>>)
  /\ CoreStep /\ UNCHANGED sent

\* publish_active_view on the peer connection gets to the old Active's broker.
PromotedViewOnPeer ==
  /\ cores.peerView
  /\ cores' = [cores EXCEPT !.peerView = FALSE, !.retained[Main] = cores.retained[Standby]]
  /\ Deliver(Main, <<TableMessage(cores.retained[Standby])>>)
  /\ CoreStep /\ UNCHANGED sent

\* The next event of an edge, on a broker of a core.  No more than MaxBacklog
\* messages wait when one comes.
PublishData(h) ==
  /\ h \in cores.alive /\ sent.events < MaxEvents /\ Len(session.inbox) < MaxBacklog
  /\ sent' = [sent EXCEPT !.events = @ + 1]
  /\ Deliver(h, <<Message("campus/data", DataId(sent.events + 1), NoTable, Edge, "")>>)
  /\ CoreStep /\ UNCHANGED cores

\* A core publishes what it receives again, on the same topic, and an edge that
\* is not sure sends it to the other core.
RepeatData(e, h) ==
  /\ h \in cores.alive /\ e <= sent.events /\ sent.repeats < MaxRepeats
  /\ Len(session.inbox) < MaxBacklog
  /\ sent' = [sent EXCEPT !.repeats = @ + 1]
  /\ Deliver(h, <<Message("campus/data", DataId(e), NoTable, Edge, "")>>)
  /\ CoreStep /\ UNCHANGED cores

Next ==
  \/ Connected \/ Dropped \/ Receive \/ EffectRunsAgain \/ Promote \/ PromotedViewOnPeer
  \/ \E h \in Cores : SetBrokerUrl(h)
  \/ \E c \in Cores, backup \in {"", Standby} : PublishTable(c, backup)
  \/ \E c \in Cores, hint \in Hints : CoreDies(c, hint)
  \/ \E h \in Cores : PublishData(h) \/ \E e \in 1..MaxEvents : RepeatData(e, h)

Spec == Init /\ [][Next]_vars

\* mqtt.js redials, the browser runs handlers and effects, a promotion reaches
\* the brokers.  Nothing makes a core publish, die or be promoted.
Fairness ==
  /\ WF_vars(Connected) /\ WF_vars(Receive) /\ WF_vars(EffectRunsAgain) /\ WF_vars(PromotedViewOnPeer)

FairSpec == Spec /\ Fairness

-----------------------------------------------------------------------------
(* Properties. *)

Tables    == [version : Nat, nodes : Seq([id : Cores \cup {Edge}, role : {"CORE", "NODE"}, port : {1},
                status : {"ONLINE", "OFFLINE"}, ip : Cores \cup {Edge}]),
              links : Seq([from_id : Cores, to_id : {Edge}]),
              active_core_id : Cores, backup_core_id : {"", Standby}]
Failovers == {LwtId(c, h) : c, h \in Cores} \cup {SwitchId}

\* The hook's state is what the page and the handlers expect.
TypeOK ==
  /\ {mon.brokerUrl, session.host} \subseteq Cores
  /\ mon.raw \in Tables \cup {NoTable}
  /\ mon.hidden \subseteq Cores
  /\ mon.forceAcceptNext \in BOOLEAN /\ session.open \in BOOLEAN
  /\ mon.seenMsgIds \subseteq {DataId(e) : e \in 1..MaxEvents} \cup Failovers
  /\ Len(mon.events) <= MAX_EVENTS /\ IsInjective(mon.events)

\* useMqtt 109-117, 190-192, 248-288: a table of an older version replaces a
\* newer one at most once for every failover message, however often one is
\* repeated and whatever tables, alerts and reconnections come between.
OneRollbackPerFailover ==
  mon.rollbacks + (IF mon.forceAcceptNext THEN 1 ELSE 0) <= Cardinality(mon.seenMsgIds \cap Failovers)

\* useMqtt 129-169: an event the log has forgotten does not come back, though
\* cores publish what they receive again and an edge may send it to both.
GoneStaysGone ==
  [][\A e \in mon.logged : ~Contains(mon.events, e) => ~Contains(mon'.events, e)]_vars

CoresShown ==
  {n.id : n \in {r \in BuildPresentationTopology(mon.raw, mon.hidden).nodes : r.role = "CORE"}}

Promoted == cores.active = Standby

\* useMqtt 109-126, 215-292: a monitor that has turned to the promoted core by
\* itself, or was there from the start, comes to show this core and no other,
\* though the version it counts is lower than that of the table shown before.
ShowsActive ==
  <>[](Promoted /\ mon.brokerUrl = Standby /\ typed = 0) => <>[](CoresShown = {Standby})

\* PRD failover step 4: a monitor that showed the old Active is in the end
\* connected to the promoted core.
FollowsActive ==
  <>(mon.raw.active_core_id = Main) /\ <>[](Promoted /\ typed = 0)
    => <>[](session.host = Standby)
=============================================================================
