--------------------------- MODULE PublisherClient ---------------------------
(***************************************************************************)
(* The browser camera: publisher_client/src/hooks/usePublisher.js and the  *)
(* controls of App.jsx that call it.                                       *)
(*                                                                         *)
(* JavaScript has one thread, but a handler may run inside another one:    *)
(* client.end(true) calls the callbacks of everything still in flight with *)
(* an error, synchronously (MQTT.js, external), and such a callback may    *)
(* declare the connection lost while a new one is being set up.  So the    *)
(* hook's refs are one record, pub, its functions are operators from pub   *)
(* to pub that call each other as in the code, and an action is what the   *)
(* browser runs from one event to the next: a timer, a callback, a click.  *)
(*                                                                         *)
(* Events are numbered as they are published.  An event in flight is in    *)
(* pending (sent by publish, its entry in pendingPublishesRef) or in       *)
(* flushing (sent again by flushQueue, known to its callback only).        *)
(* Delays are left out: a timer may fire at any moment after it is set.    *)
(***************************************************************************)
EXTENDS BrokerSelection, FiniteSets, SequencesExt

CONSTANTS Edges, Cores,     \* hosts of edge brokers and of core brokers
          Typed,            \* the hosts a user may type as primary
          MAX_QUEUE,
          Listings,         \* the rows a table may have: sequences of brokers
          Links,            \* the links of every table
          ActiveCore, BackupCore,   \* the ids in every table
          MaxEvents, MaxTables, MaxDisturbances   \* bounds

Brokers == Edges \cup Cores

ASSUME PublisherConstants ==
  /\ Typed \subseteq Brokers /\ "" \notin Brokers
  /\ MAX_QUEUE \in Nat \ {0} /\ MaxEvents \in Nat /\ MaxTables \in Nat
  /\ MaxDisturbances \in Nat

\* The rows are brokers; the RTT of a link is known or not.
ASSUME PublisherListings ==
  /\ Listings \subseteq Seq(Brokers)
  /\ Links \in Seq([from_id : Brokers, to_id : Brokers, rtt_ms : Nat \cup {NotANumber}])
  /\ \A i \in DOMAIN Links : Links[i].rtt_ms < Infinity

\* URL.toString() ends a typed URL with a slash, buildBrokerUrl does not: two
\* URLs of one host compare as different.
TypedUrl(h)       == [host |-> h, form |-> "typed"]
BuildBrokerUrl(h) == [host |-> h, form |-> "built"]
NoUrl == [host |-> "", form |-> "none"]
Urls  == {NoUrl} \cup [host : Brokers, form : {"typed", "built"}]

VARIABLES
  pub,        \* the refs of the hook
  shown,      \* the status the page was last rendered with
  published,  \* events accepted by publish so far
  up,         \* brokers that can be reached
  tables,     \* the tables the cores published, by version
  disturbed   \* clicks, host failures, broken connections and late answers so far

vars == <<pub, shown, published, up, tables, disturbed>>

\* phase is the client and its status: "silent" is connected, with
\* isBrokerActivityStale; in "disconnected" and "error" there is no client.
\* acked and lost are history: confirmed events, and events given up.
Init ==
  /\ pub = [manual |-> FALSE, phase |-> "disconnected", url |-> NoUrl, primary |-> NoUrl,
            timer |-> "none", queue |-> <<>>, pending |-> <<>>, flushing |-> <<>>,
            ct |-> NoTable, primaryId |-> "", core |-> NoUrl, onFallback |-> FALSE,
            acked |-> {}, lost |-> {}]
  /\ shown = "disconnected"
  /\ published = 0
  /\ up = Brokers
  /\ tables = <<>>
  /\ disturbed = 0

Status(s)   == IF s.phase = "silent" THEN "connected" ELSE s.phase
IsOpen(s)   == s.phase \in {"connected", "silent"}
IsClient(s) == IsOpen(s) \/ s.phase = "connecting"

-----------------------------------------------------------------------------
(* The functions of the hook. *)

\* queuePublish for each of es, none of which is queued: every push on a full
\* queue shifts its oldest event out, and only one.
Enqueue(s, es) ==
  LET all  == s.queue \o es
      room == IF Len(s.queue) >= MAX_QUEUE THEN Len(s.queue)
              ELSE IF Len(all) <= MAX_QUEUE THEN Len(all) ELSE MAX_QUEUE
      cut  == Len(all) - room
  IN [s EXCEPT !.queue = SubSeq(all, cut + 1, Len(all)),
               !.lost = @ \cup ToSet(SubSeq(all, 1, cut))]

QueuePublish(s, e) == IF Contains(s.queue, e) THEN s ELSE Enqueue(s, <<e>>)

\* Mutant of QueuePending: the timers are cleared, the events not queued.
QueuePendingForgets(s) == [s EXCEPT !.pending = <<>>]

\* clearPendingPublishes('queue')
QueuePending(s) == [Enqueue(s, s.pending) EXCEPT !.pending = <<>>]

\* The error callbacks run by client.end(true): each flushed event is unshifted,
\* then the first pending one is queued and declares the loss of a connection
\* that is gone, which queues the other ones.
FailInFlight(s) ==
  LET unshifted == [s EXCEPT !.queue = Reverse(s.flushing) \o @, !.flushing = <<>>]
  IN IF s.pending = <<>> \/ s.manual THEN unshifted
     ELSE [QueuePending(unshifted) EXCEPT !.url = NoUrl, !.timer = "failover"]

DestroyClient(s) == FailInFlight([s EXCEPT !.timer = "none", !.phase = "disconnected"])

\* Mutant of HandleConnectionLoss: scheduleReconnect before destroyClient.
HandleConnectionLossSwapped(s) ==
  IF s.manual THEN s
  ELSE DestroyClient([QueuePending(s) EXCEPT !.url = NoUrl, !.timer = "failover"])

HandleConnectionLoss(s) ==
  IF s.manual THEN s
  ELSE [DestroyClient([QueuePending(s) EXCEPT !.url = NoUrl]) EXCEPT !.timer = "failover"]

ConnectToBroker(s, url) ==
  IF url = NoUrl THEN s
  ELSE [DestroyClient(s) EXCEPT !.url = url, !.phase = "connecting"]

SchedulePrimaryRetry(s) == [s EXCEPT !.timer = "primary"]

FailoverTo(s, url) == ConnectToBroker([s EXCEPT !.onFallback = (url # s.primary)], url)

AttemptFailover(s) ==
  LET selected == SelectFallbackBroker(s.ct, s.primaryId, s.primary.host)
      built    == BuildBrokerUrl(selected.ip)
      target   == IF built = s.primary /\ s.core \notin {NoUrl, built} THEN s.core ELSE built
  IN CASE s.manual -> s
       [] ~s.manual /\ s.ct.nodes = <<>> ->
            IF s.core # NoUrl THEN FailoverTo(s, s.core) ELSE SchedulePrimaryRetry(s)
       [] OTHER -> IF selected = NoNode \/ target = s.url
                   THEN SchedulePrimaryRetry(s)
                   ELSE FailoverTo(s, target)

\* Mutant of RememberPreferredCore: no check that a core was found.
RememberAnyCore(s) ==
  [s EXCEPT !.core = BuildBrokerUrl(FindPreferredCoreBroker(s.ct, s.primaryId).ip)]

RememberPreferredCore(s) ==
  LET preferred == FindPreferredCoreBroker(s.ct, s.primaryId)
  IN IF preferred = NoNode THEN s ELSE [s EXCEPT !.core = BuildBrokerUrl(preferred.ip)]

ResolvePrimary(s) ==
  LET id == ResolvePrimaryEdgeId(s.ct, s.primary.host)
  IN IF s.primary = NoUrl \/ id = "" THEN s ELSE [s EXCEPT !.primaryId = id]

HandleCtMessage(s, ct) ==
  LET known == ResolvePrimary(RememberPreferredCore([s EXCEPT !.ct = ct]))
      back  == ShouldReturnToPrimary(ct, known.primaryId)
  IN CASE ~ShouldAcceptCtUpdate(s.ct, ct) -> s
       [] ShouldAcceptCtUpdate(s.ct, ct) /\ known.onFallback /\ back ->
            ConnectToBroker([known EXCEPT !.onFallback = FALSE], known.primary)
       [] OTHER ->
            IF ~known.onFallback /\ known.primaryId # "" /\ ~back
            THEN AttemptFailover(known) ELSE known

\* Mutants of OnConnect: flushQueue does not empty the queue; there is no flush.
OnConnectKeepsQueue(s) == [s EXCEPT !.phase = "connected", !.flushing = @ \o s.queue]
OnConnectNoFlush(s)    == [s EXCEPT !.phase = "connected"]

\* The 'connect' event: whatever is queued is sent again, in order.
OnConnect(s) == [s EXCEPT !.phase = "connected", !.flushing = @ \o s.queue, !.queue = <<>>]

-----------------------------------------------------------------------------
(* The page. *)

Disturb == disturbed < MaxDisturbances /\ disturbed' = disturbed + 1

\* React renders later than setState: a click or a motion sees the old status.
Render == shown # Status(pub) /\ shown' = Status(pub) /\ UNCHANGED <<pub, published, up, tables, disturbed>>

Connect(h) ==
  /\ shown # "connected"
  /\ pub' = ConnectToBroker([pub EXCEPT !.manual = FALSE, !.primary = TypedUrl(h), !.core = NoUrl,
                             !.onFallback = FALSE, !.primaryId = "", !.ct = NoTable], TypedUrl(h))
  /\ Disturb
  /\ UNCHANGED <<shown, published, up, tables>>

\* No URL in what the user typed.
ConnectNowhere ==
  /\ shown # "connected"
  /\ pub' = [DestroyClient([pub EXCEPT !.manual = FALSE]) EXCEPT !.phase = "error"]
  /\ Disturb
  /\ UNCHANGED <<shown, published, up, tables>>

Disconnect ==
  /\ shown = "connected"
  /\ pub' = DestroyClient([pub EXCEPT !.manual = TRUE, !.primary = NoUrl, !.core = NoUrl,
                           !.onFallback = FALSE, !.ct = NoTable, !.url = NoUrl,
                           !.queue = <<>>, !.pending = <<>>,
                           !.lost = @ \cup ToSet(pub.queue) \cup ToSet(pub.pending)])
  /\ Disturb
  /\ UNCHANGED <<shown, published, up, tables>>

\* A button or the motion detector.  The guard of handleConnectionLoss looks at
\* the status of the closure, which is the one shown: never "connecting" here.
Publish ==
  /\ shown = "connected" /\ published < MaxEvents
  /\ published' = published + 1
  /\ pub' = IF pub.phase = "connected"
            THEN [pub EXCEPT !.pending = Append(@, published + 1)]
            ELSE HandleConnectionLoss(QueuePublish(pub, published + 1))
  /\ UNCHANGED <<shown, up, tables, disturbed>>

-----------------------------------------------------------------------------
(* Timers and the events of the client. *)

HookStep == UNCHANGED <<shown, published, up, tables>>
Reachable == pub.url.host \in up

\* What a broker that cannot be reached causes, and one that can be rarely does.
Fails == IF Reachable THEN Disturb ELSE UNCHANGED disturbed

FailoverTimer ==
  /\ pub.timer = "failover"
  /\ pub' = AttemptFailover([pub EXCEPT !.timer = "none"])
  /\ HookStep /\ UNCHANGED disturbed

\* Mutant of PrimaryTimer: an interval in place of a timeout.
PrimaryInterval ==
  /\ pub.timer = "primary" /\ ~pub.manual
  /\ pub' = [ConnectToBroker(pub, pub.primary) EXCEPT !.timer = "primary"]
  /\ HookStep /\ UNCHANGED disturbed

PrimaryTimer ==
  /\ pub.timer = "primary"
  /\ pub' = LET fired == [pub EXCEPT !.timer = "none"]
            IN IF pub.manual THEN fired ELSE ConnectToBroker(fired, pub.primary)
  /\ HookStep /\ UNCHANGED disturbed

Connected ==
  /\ pub.phase = "connecting" /\ Reachable
  /\ pub' = OnConnect(pub)
  /\ HookStep /\ UNCHANGED disturbed

\* 'close' or 'error', which differ in the delay only.
ConnectionLost ==
  /\ IsClient(pub)
  /\ pub' = HandleConnectionLoss(pub)
  /\ HookStep /\ Fails

GoSilent ==
  /\ pub.phase = "connected" /\ ~Reachable
  /\ pub' = [pub EXCEPT !.phase = "silent"]
  /\ HookStep /\ UNCHANGED disturbed

HealthCheck ==
  /\ pub.phase = "silent"
  /\ pub' = HandleConnectionLoss(pub)
  /\ HookStep /\ UNCHANGED disturbed

\* The oldest publication has waited PUBLISH_ACK_TIMEOUT_MS.
AckTimeout ==
  /\ IsOpen(pub) /\ pub.pending # <<>>
  /\ pub' = HandleConnectionLoss(QueuePublish([pub EXCEPT !.pending = Tail(@)], Head(pub.pending)))
  /\ HookStep /\ Fails

\* Brokers acknowledge in the order of the publications.
Ack ==
  /\ IsOpen(pub) /\ Reachable
  /\ \/ /\ pub.flushing # <<>>
        /\ pub' = [pub EXCEPT !.phase = "connected", !.flushing = Tail(@),
                              !.acked = @ \cup {Head(pub.flushing)}]
     \/ /\ pub.flushing = <<>> /\ pub.pending # <<>>
        /\ pub' = [pub EXCEPT !.phase = "connected", !.pending = Tail(@),
                              !.acked = @ \cup {Head(pub.pending)}]
  /\ HookStep /\ UNCHANGED disturbed

\* A table as the broker retains it, which need not be the newest.
CtArrives(v) ==
  /\ IsOpen(pub) /\ Reachable
  /\ pub' = HandleCtMessage([pub EXCEPT !.phase = "connected"], tables[v])
  /\ HookStep /\ UNCHANGED disturbed

-----------------------------------------------------------------------------
(* The cores and the network. *)

RoleOf(b) == IF b \in Cores THEN "CORE" ELSE "NODE"

NodeOf(b) == [id |-> b, role |-> RoleOf(b), status |-> IF b \in up THEN "ONLINE" ELSE "OFFLINE",
              ip |-> b, hop_to_core |-> IF b \in Cores THEN 0 ELSE 1]

PublishTable(rows) ==
  /\ Len(tables) < MaxTables
  /\ tables' = Append(tables, [version |-> Len(tables) + 1, nodes |-> [i \in DOMAIN rows |-> NodeOf(rows[i])],
                               links |-> Links, active_core_id |-> ActiveCore,
                               backup_core_id |-> BackupCore])
  /\ UNCHANGED <<pub, shown, published, up, disturbed>>

BrokerFails(b) ==
  /\ b \in up /\ up' = up \ {b} /\ Disturb
  /\ UNCHANGED <<pub, shown, published, tables>>

BrokerReturns(b) ==
  /\ b \notin up /\ up' = up \cup {b}
  /\ UNCHANGED <<pub, shown, published, tables, disturbed>>

Next ==
  \/ Render \/ ConnectNowhere \/ Disconnect \/ Publish
  \/ FailoverTimer \/ PrimaryTimer \/ Connected \/ ConnectionLost
  \/ GoSilent \/ HealthCheck \/ AckTimeout \/ Ack
  \/ \E h \in Typed : Connect(h)
  \/ \E v \in DOMAIN tables : CtArrives(v)
  \/ \E rows \in Listings : PublishTable(rows)
  \/ \E b \in Brokers : BrokerFails(b) \/ BrokerReturns(b)

Spec == Init /\ [][Next]_vars

\* Timers fire, brokers that can be reached answer, and a connection to one that
\* cannot is given up (connectTimeout, keepalive) or found silent.
Fairness ==
  /\ WF_vars(FailoverTimer) /\ WF_vars(PrimaryTimer)
  /\ WF_vars(Connected) /\ WF_vars(Ack)
  /\ WF_vars(~Reachable /\ ConnectionLost) /\ WF_vars(HealthCheck)

FairSpec == Spec /\ Fairness

-----------------------------------------------------------------------------
(* Properties. *)

Events == 1..published
Held   == ToSet(pub.queue) \cup ToSet(pub.pending) \cup ToSet(pub.flushing)

\* Every ref holds what the code that reads it expects.
TypeOK ==
  /\ pub.manual \in BOOLEAN /\ pub.onFallback \in BOOLEAN
  /\ pub.phase \in {"disconnected", "error", "connecting", "connected", "silent"}
  /\ pub.timer \in {"none", "failover", "primary"}
  /\ {pub.url, pub.primary, pub.core} \subseteq Urls
  /\ {pub.queue, pub.pending, pub.flushing} \subseteq Seq(Events)
  /\ pub.primaryId \in Brokers \cup {""}
  /\ pub.ct \in ToSet(tables) \cup {NoTable}
  /\ pub.acked \subseteq Events /\ pub.lost \subseteq Events
  /\ up \subseteq Brokers

\* usePublisher 101-131, 173-235, 438-555: an event that publish accepted is
\* acknowledged, shifted out of a full queue, thrown away by disconnect, or
\* still held, whatever handler ran inside whatever other one.
NothingForgotten == Events \subseteq pub.acked \cup pub.lost \cup Held

\* usePublisher 101-131, 173-212: an event waits in one place, once: no path
\* queues what is still in flight, so a reconnection sends nothing twice.
HeldOnce ==
  LET all == pub.queue \o pub.pending \o pub.flushing
  IN \A i, j \in DOMAIN all : i # j => all[i] # all[j]

\* usePublisher 214-235, 307-357: as long as the user wants a connection there
\* is a client or a timer that will make one: destroyClient clears the timer,
\* so the order in which it and the schedulers run matters.
NotStranded ==
  ~pub.manual /\ pub.phase = "disconnected" /\ pub.primary # NoUrl => pub.timer # "none"

\* usePublisher 101-112, 265-272: the queue is only filled when the connection
\* goes, so nothing waits behind a working one, which no later step would flush.
OpenMeansFlushed == IsOpen(pub) => pub.queue = <<>>

\* usePublisher 214-220, 307-357: once the brokers can be reached and the user
\* leaves the connection alone, everything held is acknowledged.
Delivered ==
  <>[](up = Brokers /\ ~pub.manual /\ pub.primary # NoUrl /\ pub.phase # "error") => <>[](Held = {})

\* PRD FR-16, FR-17: with the primary edge and a core in reach for good, the
\* publisher keeps coming back to a connection.
FailoverSucceeds ==
  <>[](/\ ~pub.manual /\ pub.phase # "error" /\ pub.primary # NoUrl
       /\ pub.primary.host \in up /\ Cores \subseteq up) => []<>IsOpen(pub)
=============================================================================
