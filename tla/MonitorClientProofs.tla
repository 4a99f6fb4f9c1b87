-------------------------- MODULE MonitorClientProofs --------------------------
(***************************************************************************)
(* The monitor goes back to an older table at most once per failover       *)
(* message, and shows no event twice that its log has forgotten, for any   *)
(* number of tables, events, repetitions and broken sessions.              *)
(***************************************************************************)
EXTENDS MonitorClient, FiniteSetTheorems, TLAPS

(***************************************************************************)
(* The inductive invariant                                                 *)
(***************************************************************************)

Fields == {"brokerUrl", "raw", "hidden", "forceAcceptNext", "seenMsgIds", "seenAlerts",
           "events", "rollbacks", "logged"}

Bypass(m) == IF m.forceAcceptNext THEN 1 ELSE 0

DataIds == {DataId(e) : e \in 1..MaxEvents}

\* A table of a core, or none: its cores have the addresses of cores.
Addressed(ct) ==
  /\ ct \in Tables \cup {NoTable}
  /\ ct.version \in Nat
  /\ DOMAIN ct.nodes \subseteq {1, 2, 3}
  /\ \A i \in DOMAIN ct.nodes : ct.nodes[i].id \in Cores => ct.nodes[i].ip \in Cores
  /\ {ct.active_core_id, ct.backup_core_id} \subseteq Cores \cup {""}

\* The log holds what was logged, each event once.
LogKept(events, logged) ==
  events \in Seq(logged) /\ Len(events) <= MAX_EVENTS /\ IsInjective(events)

\* The hook: it dials cores; a rollback that was made, or may still be, is paid for by the id of
\* a failover message, and what was logged is remembered.
Counted(m) ==
  /\ DOMAIN m = Fields
  /\ m.brokerUrl \in Cores /\ Addressed(m.raw)
  /\ m.forceAcceptNext \in BOOLEAN /\ m.rollbacks \in Nat
  /\ m.rollbacks + Bypass(m) <= Cardinality(m.seenMsgIds \cap Failovers)
  /\ m.logged \subseteq m.seenMsgIds /\ m.seenMsgIds \subseteq DataIds \cup Failovers
  /\ LogKept(m.events, m.logged)

Topics == {"campus/monitor/topology", "campus/data", "campus/alert/node_up",
           "campus/alert/core_switch", "campus/will/core"}

\* A message on its way: failovers and events can be told by their ids.
Sound(msg) ==
  /\ msg.topic \in Topics /\ Addressed(msg.ct) /\ msg.endpoint \in Cores \cup {""}
  /\ msg.topic \in {"campus/alert/core_switch", "campus/will/core"} => msg.msg_id \in Failovers
  /\ msg.topic = "campus/data" => msg.msg_id \in DataIds
  /\ msg.topic = "campus/will/core" => msg.from \in Cores

Inbox(q) == \E S : q \in Seq(S) /\ \A msg \in S : Sound(msg)

CoresCount ==
  /\ DOMAIN cores = {"alive", "active", "version", "retained", "peerView"}
  /\ cores.version \in [Cores -> Nat]
  /\ DOMAIN cores.retained = Cores /\ \A c \in Cores : Addressed(cores.retained[c])
  /\ cores.active \in Cores

MonitorInv ==
  /\ Counted(mon)
  /\ DOMAIN session = {"host", "open", "inbox"} /\ session.host \in Cores /\ Inbox(session.inbox)
  /\ CoresCount

\* What is counted are numbers.
SentInv == sent \in [tables : Nat, events : Nat, repeats : Nat]

\* Only cores are hidden, and a client is connected or not.
HiddenInv == mon.hidden \subseteq Cores /\ session.open \in BOOLEAN

(***************************************************************************)
(* Sequences and sets                                                      *)
(***************************************************************************)

\* There are five failover messages.
LEMMA FailoversFinite == IsFiniteSet(Failovers)
<1>1. Failovers = ((((({} \cup {LwtId(Main, Main)}) \cup {LwtId(Main, Standby)})
                     \cup {LwtId(Standby, Main)}) \cup {LwtId(Standby, Standby)}) \cup {SwitchId})
  BY DEF Failovers, Cores
<1> QED
  BY <1>1, FS_EmptySet, FS_AddElement

\* More ids seen are no fewer failovers.
LEMMA SeenGrows ==
  ASSUME NEW A, NEW B, A \subseteq B
  PROVE  /\ Cardinality(A \cap Failovers) \in Nat
         /\ Cardinality(B \cap Failovers) \in Nat
         /\ Cardinality(A \cap Failovers) <= Cardinality(B \cap Failovers)
<1>1. /\ A \cap Failovers \subseteq B \cap Failovers
      /\ B \cap Failovers \subseteq Failovers
  OBVIOUS
<1>2. IsFiniteSet(B \cap Failovers)
  BY <1>1, FailoversFinite, FS_Subset
<1> QED
  BY <1>1, <1>2, FS_Subset, FS_CardinalityType

\* One more failover that was not seen counts one more.
LEMMA SeenFailover ==
  ASSUME NEW A, NEW id \in Failovers, id \notin A
  PROVE  /\ Cardinality(A \cap Failovers) \in Nat
         /\ Cardinality((A \cup {id}) \cap Failovers) = Cardinality(A \cap Failovers) + 1
<1>1. /\ (A \cup {id}) \cap Failovers = (A \cap Failovers) \cup {id}
      /\ id \notin A \cap Failovers
      /\ A \cap Failovers \subseteq Failovers
  OBVIOUS
<1>2. IsFiniteSet(A \cap Failovers)
  BY <1>1, FailoversFinite, FS_Subset
<1> QED
  BY <1>1, <1>2, FS_AddElement, FS_CardinalityType

\* Messages are received in sequence.
LEMMA InboxEmpty == Inbox(<<>>)
<1>1. PICK S : S = {}
  OBVIOUS
<1>2. <<>> \in Seq(S) /\ \A msg \in S : Sound(msg)
  BY <1>1
<1> QED
  BY <1>2, Zenon DEF Inbox

\* One message that is sound.
LEMMA InboxOne ==
  ASSUME NEW a, Sound(a)
  PROVE  Inbox(<<a>>)
<1>1. PICK S : S = {a}
  OBVIOUS
<1>2. <<a>> \in Seq(S) /\ \A msg \in S : Sound(msg)
  BY <1>1
<1> QED
  BY <1>2, Zenon DEF Inbox

\* Two messages that are.
LEMMA InboxTwo ==
  ASSUME NEW a, NEW b, Sound(a), Sound(b)
  PROVE  Inbox(<<a, b>>)
<1>1. PICK S : S = {a, b}
  OBVIOUS
<1>2. <<a, b>> \in Seq(S) /\ \A msg \in S : Sound(msg)
  BY <1>1
<1> QED
  BY <1>2, Zenon DEF Inbox

\* What is delivered joins what was received.
LEMMA InboxConcat ==
  ASSUME NEW p, NEW q, Inbox(p), Inbox(q)
  PROVE  Inbox(p \o q)
<1>1. PICK S : p \in Seq(S) /\ \A msg \in S : Sound(msg)
  BY DEF Inbox
<1>2. PICK T : q \in Seq(T) /\ \A msg \in T : Sound(msg)
  BY DEF Inbox
<1>3. p \in Seq(S \cup T) /\ q \in Seq(S \cup T)
  <2>1. /\ Len(p) \in Nat /\ p = [i \in 1..Len(p) |-> p[i]] /\ \A i \in 1..Len(p) : p[i] \in S
        /\ Len(q) \in Nat /\ q = [i \in 1..Len(q) |-> q[i]] /\ \A i \in 1..Len(q) : q[i] \in T
    BY <1>1, <1>2
  <2>2. [i \in 1..Len(p) |-> p[i]] \in Seq(S \cup T)
    BY <2>1
  <2>3. [i \in 1..Len(q) |-> q[i]] \in Seq(S \cup T)
    BY <2>1
  <2> QED
    BY <2>1, <2>2, <2>3
<1>4. p \o q \in Seq(S \cup T) /\ \A msg \in S \cup T : Sound(msg)
  BY <1>1, <1>2, <1>3
<1> QED
  BY <1>4, Zenon DEF Inbox

LEMMA InboxHead ==
  ASSUME NEW q, Inbox(q), q # <<>>
  PROVE  Sound(Head(q)) /\ Inbox(Tail(q))
<1>1. PICK S : q \in Seq(S) /\ \A msg \in S : Sound(msg)
  BY DEF Inbox
<1>2. Head(q) \in S /\ Tail(q) \in Seq(S)
  BY <1>1
<1> QED
  BY <1>1, <1>2, Zenon DEF Inbox

\* The log with one more event holds this event and old ones.
LEMMA LoggedEvents ==
  ASSUME NEW events, NEW e, \E S : events \in Seq(S)
  PROVE  /\ \E S : Logged(events, e) \in Seq(S)
         /\ ToSet(Logged(events, e)) \subseteq ToSet(events) \cup {e}
<1> DEFINE all == <<e>> \o events
           n   == IF Len(events) < MAX_EVENTS THEN Len(events) + 1 ELSE MAX_EVENTS
<1>1. PICK S : events \in Seq(S)
  OBVIOUS
<1>2. /\ Len(events) \in Nat /\ DOMAIN events = 1..Len(events)
      /\ \A i \in 1..Len(events) : events[i] \in S
  BY <1>1
<1>3. /\ Len(all) = Len(events) + 1 /\ DOMAIN all = 1..(Len(events) + 1)
      /\ all[1] = e /\ \A i \in 1..(Len(events) + 1) : i # 1 => all[i] = events[i - 1]
  BY <1>1
<1>4. n \in Nat /\ n <= Len(events) + 1
  <2>1. MAX_EVENTS \in Nat
    BY MonitorConstants
  <2> QED
    BY <2>1, <1>2
<1>5. \A i \in 1..n : all[i] \in ToSet(events) \cup {e}
  <2> SUFFICES ASSUME NEW i \in 1..n, i # 1 PROVE all[i] \in ToSet(events)
    BY <1>3
  <2>1. i \in 1..(Len(events) + 1) /\ i - 1 \in DOMAIN events
    BY <1>2, <1>4
  <2> QED
    BY <2>1, <1>3 DEF ToSet
<1> HIDE DEF all, n
<1>6. Logged(events, e) = SubSeq(all, 1, n)
  BY DEF Logged, all, n
<1>7. SubSeq(all, 1, n) = [i \in 1..n |-> all[i]]
  BY <1>4
<1>8. [i \in 1..n |-> all[i]] \in Seq(ToSet(events) \cup {e})
  BY <1>4, <1>5
<1>9. ToSet([i \in 1..n |-> all[i]]) \subseteq ToSet(events) \cup {e}
  BY <1>5 DEF ToSet
<1> QED
  BY <1>6, <1>7, <1>8, <1>9

\* A log is a sequence.
LEMMA LogTyped ==
  ASSUME NEW events, NEW logged, LogKept(events, logged)
  PROVE  \E S : events \in Seq(S)
<1>1. events \in Seq(logged)
  BY DEF LogKept
<1> QED
  BY <1>1, Zenon

\* An event that was never logged joins the log.
LEMMA LogGrows ==
  ASSUME NEW events, NEW logged, NEW e, LogKept(events, logged), e \notin logged
  PROVE  LogKept(Logged(events, e), logged \cup {e})
<1> DEFINE all == <<e>> \o events
           n   == IF Len(events) < MAX_EVENTS THEN Len(events) + 1 ELSE MAX_EVENTS
           log == [i \in 1..n |-> all[i]]
<1>1. /\ events \in Seq(logged) /\ Len(events) <= MAX_EVENTS
      /\ \A i, j \in DOMAIN events : events[i] = events[j] => i = j
  BY DEF LogKept, IsInjective
<1>2. /\ Len(events) \in Nat /\ DOMAIN events = 1..Len(events)
      /\ \A i \in 1..Len(events) : events[i] \in logged
  BY <1>1
<1>3. /\ Len(all) = Len(events) + 1 /\ DOMAIN all = 1..(Len(events) + 1)
      /\ all[1] = e /\ \A i \in 1..(Len(events) + 1) : i # 1 => all[i] = events[i - 1]
  BY <1>1
<1>4. n \in Nat /\ n <= Len(events) + 1 /\ n <= MAX_EVENTS
  <2>1. MAX_EVENTS \in Nat
    BY MonitorConstants
  <2> QED
    BY <2>1, <1>2
<1>5. Logged(events, e) = log
  <2>1. Logged(events, e) = SubSeq(all, 1, n)
    BY DEF Logged
  <2> HIDE DEF all, n
  <2> QED
    BY <1>4, <2>1
<1> HIDE DEF all, n
<1>6. \A i \in 1..n : i # 1 => i - 1 \in 1..Len(events) /\ all[i] = events[i - 1]
  BY <1>2, <1>3, <1>4
<1>7. \A i \in 1..n : all[i] \in logged \cup {e}
  BY <1>2, <1>3, <1>6
<1>8. log \in Seq(logged \cup {e}) /\ Len(log) = n /\ DOMAIN log = 1..n
  BY <1>4, <1>7
<1>9. ASSUME NEW i \in 1..n, NEW j \in 1..n, all[i] = all[j] PROVE i = j
  <2>1. CASE i = 1 \/ j = 1
    BY <1>2, <1>3, <1>6, <1>9, <2>1
  <2>2. CASE i # 1 /\ j # 1
    <3>1. i - 1 = j - 1
      BY <1>1, <1>2, <1>6, <1>9, <2>2
    <3> QED
      BY <3>1, <1>4
  <2> QED
    BY <2>1, <2>2
<1>10. IsInjective(log)
  BY <1>8, <1>9 DEF IsInjective
<1> HIDE DEF log
<1> QED
  BY <1>4, <1>5, <1>8, <1>10 DEF LogKept

(***************************************************************************)
(* The handlers                                                            *)
(***************************************************************************)

\* What leaves the log alone and pays for its rollbacks keeps the count.
LEMMA CountedStep ==
  ASSUME NEW m, NEW r, Counted(m), DOMAIN r = Fields,
         r.brokerUrl \in Cores, Addressed(r.raw),
         r.forceAcceptNext \in BOOLEAN, r.rollbacks \in Nat,
         r.rollbacks + Bypass(r) <= m.rollbacks + Bypass(m),
         r.seenMsgIds = m.seenMsgIds, r.logged = m.logged, r.events = m.events
  PROVE  Counted(r)
<1>1. /\ Cardinality(m.seenMsgIds \cap Failovers) \in Nat
      /\ Cardinality(r.seenMsgIds \cap Failovers) \in Nat
      /\ Cardinality(m.seenMsgIds \cap Failovers) <= Cardinality(r.seenMsgIds \cap Failovers)
  BY SeenGrows
<1>2. /\ m.rollbacks \in Nat /\ Bypass(m) \in Nat /\ Bypass(r) \in Nat
      /\ m.rollbacks + Bypass(m) <= Cardinality(m.seenMsgIds \cap Failovers)
  BY DEF Counted, Bypass
<1>3. r.rollbacks + Bypass(r) <= Cardinality(r.seenMsgIds \cap Failovers)
  BY <1>1, <1>2
<1>4. /\ r.logged \subseteq r.seenMsgIds /\ r.seenMsgIds \subseteq DataIds \cup Failovers
      /\ LogKept(r.events, r.logged)
  BY DEF Counted
<1> QED
  BY <1>3, <1>4 DEF Counted

\* Another address.
LEMMA ReconnectKeeps ==
  ASSUME NEW m, NEW host, NEW next \in Cores \cup {""}, Counted(m)
  PROVE  /\ Counted(ReconnectToBrokerHost(m, host, next))
         /\ ReconnectToBrokerHost(m, host, next).events = m.events
<1>1. CASE next \in {"", host}
  BY <1>1 DEF ReconnectToBrokerHost
<1>2. CASE next \notin {"", host}
  <2> DEFINE r == [m EXCEPT !.brokerUrl = next]
  <2>1. /\ DOMAIN r = Fields /\ r.forceAcceptNext = m.forceAcceptNext /\ r.raw = m.raw /\ r.brokerUrl = next
        /\ r.rollbacks = m.rollbacks /\ r.seenMsgIds = m.seenMsgIds
        /\ r.logged = m.logged /\ r.events = m.events
    BY DEF Counted, Fields
  <2> HIDE DEF r
  <2>2. Counted(r)
    BY <1>2, <2>1 DEF Counted, Bypass
  <2>3. ReconnectToBrokerHost(m, host, next) = r
    BY <1>2 DEF ReconnectToBrokerHost, r
  <2> QED
    BY <2>1, <2>2, <2>3
<1> QED
  BY <1>1, <1>2

\* Of up to three positions one is the first.
LEMMA LeastOfThree ==
  ASSUME NEW H, H \subseteq {1, 2, 3}, H # {}
  PROVE  \E i \in H : \A j \in H : i <= j
<1>1. CASE 1 \in H
  <2>1. \A j \in {1, 2, 3} : 1 <= j
    OBVIOUS
  <2> QED
    BY <2>1, <1>1
<1>2. CASE 1 \notin H /\ 2 \in H
  <2>1. \A j \in {2, 3} : 2 <= j
    OBVIOUS
  <2>2. H \subseteq {2, 3}
    BY <1>2
  <2> QED
    BY <2>1, <2>2, <1>2
<1>3. CASE 1 \notin H /\ 2 \notin H
  <2>1. H = {3}
    BY <1>3
  <2> QED
    BY <2>1
<1> QED
  BY <1>1, <1>2, <1>3

\* The core a table names has the address of a core, if it has a row.
LEMMA FoundAddress ==
  ASSUME NEW ct, Addressed(ct), NEW id \in Cores \cup {""}
  PROVE  FindNodeById(ct.nodes, id).ip \in Cores \cup {""}
<1> DEFINE Hits == {i \in DOMAIN ct.nodes : id # "" /\ ct.nodes[i].id = id}
           first == CHOOSE i \in Hits : \A j \in Hits : i <= j
<1>1. CASE Hits = {}
  BY <1>1 DEF FindNodeById, NoNode
<1>2. CASE Hits # {}
  <2>1. Hits \subseteq {1, 2, 3}
    BY DEF Addressed
  <2>2. \E i \in Hits : \A j \in Hits : i <= j
    <3> HIDE DEF Hits
    <3> QED
      BY <2>1, <1>2, LeastOfThree
  <2>3. first \in Hits
    BY <2>2
  <2>4. FindNodeById(ct.nodes, id) = ct.nodes[first]
    BY <1>2 DEF FindNodeById
  <2> QED
    BY <2>3, <2>4 DEF Addressed
<1> QED
  BY <1>1, <1>2

LEMMA PromotedAddress ==
  ASSUME NEW previous, NEW next, NEW host, Addressed(next)
  PROVE  SelectPromotedActiveNode(previous, next, host).ip \in Cores \cup {""}
<1>1. next.active_core_id \in Cores \cup {""}
  BY DEF Addressed
<1>2. FindNodeById(next.nodes, next.active_core_id).ip \in Cores \cup {""}
  BY <1>1, FoundAddress
<1>3. NoNode.ip = ""
  BY DEF NoNode
<1> QED
  BY <1>2, <1>3 DEF SelectPromotedActiveNode

LEMMA BackupAddress ==
  ASSUME NEW ct, Addressed(ct)
  PROVE  ResolveBackupReconnectTarget(ct).ip \in Cores \cup {""}
<1>1. ct.backup_core_id \in Cores \cup {""}
  BY DEF Addressed
<1>2. FindNodeById(ct.nodes, ct.backup_core_id).ip \in Cores \cup {""}
  BY <1>1, FoundAddress
<1>3. NoNode.ip = ""
  BY DEF NoNode
<1> QED
  BY <1>2, <1>3 DEF ResolveBackupReconnectTarget

\* Other nodes hidden.
LEMMA HiddenKeeps ==
  ASSUME NEW m, NEW nodes, Counted(m)
  PROVE  LET r == [m EXCEPT !.hidden = nodes]
         IN Counted(r) /\ r.seenMsgIds = m.seenMsgIds /\ r.events = m.events
<1> DEFINE r == [m EXCEPT !.hidden = nodes]
<1>1. /\ DOMAIN r = Fields /\ r.forceAcceptNext = m.forceAcceptNext /\ r.raw = m.raw /\ r.brokerUrl = m.brokerUrl
      /\ r.rollbacks = m.rollbacks /\ r.seenMsgIds = m.seenMsgIds
      /\ r.logged = m.logged /\ r.events = m.events
  BY DEF Counted, Fields
<1> HIDE DEF r
<1>2. Counted(r)
  BY <1>1 DEF Counted, Bypass
<1> QED
  BY <1>1, <1>2 DEF r

LEMMA RefreshKeeps ==
  ASSUME NEW m, Counted(m)
  PROVE  LET r == RefreshVisibleTopology(m)
         IN Counted(r) /\ r.seenMsgIds = m.seenMsgIds /\ r.events = m.events
<1>1. CASE m.raw = NoTable
  BY <1>1 DEF RefreshVisibleTopology
<1>2. CASE m.raw # NoTable
  <2>1. RefreshVisibleTopology(m) = [m EXCEPT !.hidden = ReconcileHiddenNodeIds(m.raw, m.hidden)]
    BY <1>2 DEF RefreshVisibleTopology
  <2> QED
    BY <2>1, HiddenKeeps
<1> QED
  BY <1>1, <1>2

\* A table that is not older needs no payment.
LEMMA ApplyKeeps ==
  ASSUME NEW m, NEW ct, Counted(m), Addressed(ct), ct.version >= m.raw.version
  PROVE  LET r == ApplyPresentationTopology(m, ct)
         IN Counted(r) /\ r.events = m.events
<1> DEFINE r == ApplyPresentationTopology(m, ct)
<1>0. /\ m.raw.version \in Nat /\ ct.version \in Nat /\ m.rollbacks \in Nat /\ DOMAIN m = Fields
      /\ m.forceAcceptNext \in BOOLEAN /\ m.brokerUrl \in Cores
  BY DEF Counted, Addressed
<1>1. /\ DOMAIN r = Fields /\ r.forceAcceptNext = m.forceAcceptNext /\ r.raw = ct /\ r.brokerUrl = m.brokerUrl
      /\ r.rollbacks = m.rollbacks + 0 /\ r.seenMsgIds = m.seenMsgIds
      /\ r.logged = m.logged /\ r.events = m.events
  BY <1>0 DEF ApplyPresentationTopology, Fields
<1> HIDE DEF r
<1>2. r.rollbacks = m.rollbacks
  BY <1>0, <1>1
<1>3. Counted(r)
  BY <1>0, <1>1, <1>2 DEF Counted, Bypass
<1> QED
  BY <1>1, <1>3 DEF r

\* The table a failover has asked for is paid for by the flag it uses up.
LEMMA ForcedKeeps ==
  ASSUME NEW m, NEW ct, Counted(m), Addressed(ct), m.forceAcceptNext
  PROVE  LET r == ApplyPresentationTopology([m EXCEPT !.forceAcceptNext = FALSE], ct)
         IN Counted(r) /\ r.events = m.events
<1> DEFINE k == [m EXCEPT !.forceAcceptNext = FALSE]
           r == ApplyPresentationTopology(k, ct)
<1>0. /\ m.raw.version \in Nat /\ ct.version \in Nat /\ m.rollbacks \in Nat /\ DOMAIN m = Fields
      /\ m.brokerUrl \in Cores
  BY DEF Counted, Addressed
<1>1. /\ DOMAIN k = Fields /\ k.forceAcceptNext = FALSE /\ k.raw = m.raw /\ k.brokerUrl = m.brokerUrl
      /\ k.rollbacks = m.rollbacks /\ k.seenMsgIds = m.seenMsgIds
      /\ k.logged = m.logged /\ k.events = m.events
  BY <1>0 DEF Fields
<1> HIDE DEF k
<1>2. /\ DOMAIN r = Fields /\ r.forceAcceptNext = FALSE /\ r.raw = ct /\ r.brokerUrl = m.brokerUrl
      /\ r.seenMsgIds = m.seenMsgIds /\ r.logged = m.logged /\ r.events = m.events
      /\ r.rollbacks = m.rollbacks + (IF ct.version < m.raw.version THEN 1 ELSE 0)
  BY <1>0, <1>1 DEF ApplyPresentationTopology, Fields
<1> HIDE DEF r
<1>3. r.rollbacks \in Nat /\ r.rollbacks + Bypass(r) <= m.rollbacks + Bypass(m)
  BY <1>0, <1>2 DEF Bypass
<1>4. Counted(r)
  BY <1>0, <1>2, <1>3, CountedStep
<1> QED
  BY <1>2, <1>4 DEF r, k

\* A table on the topology topic.
LEMMA OnTopologyKeeps ==
  ASSUME NEW m, NEW host, NEW msg, Counted(m), Sound(msg)
  PROVE  LET r == OnTopology(m, host, msg)
         IN Counted(r) /\ r.events = m.events
<1> DEFINE next == SelectPromotedActiveNode(m.raw, msg.ct, host).ip
           r    == ApplyPresentationTopology([m EXCEPT !.forceAcceptNext = FALSE], msg.ct)
<1>0. /\ Addressed(msg.ct) /\ msg.ct.version \in Nat /\ m.raw.version \in Nat
      /\ DOMAIN m = Fields /\ m.forceAcceptNext \in BOOLEAN
  BY DEF Sound, Counted, Addressed
<1>1. CASE IsStale(m, msg.ct)
  BY <1>1 DEF OnTopology
<1>2. CASE ~IsStale(m, msg.ct)
  <2>1. Counted(r) /\ r.events = m.events
    <3>1. CASE m.forceAcceptNext
      BY <3>1, <1>0, ForcedKeeps
    <3>2. CASE ~m.forceAcceptNext
      <4> DEFINE k == [m EXCEPT !.forceAcceptNext = FALSE]
      <4>1. /\ DOMAIN k = Fields /\ k.forceAcceptNext = m.forceAcceptNext /\ k.raw = m.raw /\ k.brokerUrl = m.brokerUrl
            /\ k.rollbacks = m.rollbacks /\ k.seenMsgIds = m.seenMsgIds
            /\ k.logged = m.logged /\ k.events = m.events
        BY <1>0, <3>2 DEF Fields
      <4> HIDE DEF k
      <4>2. Counted(k)
        BY <4>1 DEF Counted, Bypass
      <4>3. m.raw = NoTable \/ msg.ct.version > m.raw.version
        BY <1>0, <1>2, <3>2 DEF IsStale
      <4>4. NoTable.version = 0
        BY DEF NoTable
      <4>5. msg.ct.version >= k.raw.version
        BY <1>0, <4>1, <4>3, <4>4
      <4> QED
        BY <4>1, <4>2, <4>5, <1>0, ApplyKeeps DEF k
    <3> QED
      BY <3>1, <3>2
  <2>3. next \in Cores \cup {""}
    BY <1>0, PromotedAddress
  <2>2. OnTopology(m, host, msg) = ReconnectToBrokerHost(r, host, next)
    BY <1>2 DEF OnTopology
  <2> HIDE DEF r, next
  <2> QED
    BY <2>1, <2>2, <2>3, ReconnectKeeps
<1> QED
  BY <1>1, <1>2

\* A message that was seen once.
LEMMA SeenKeeps ==
  ASSUME NEW m, NEW id, Counted(m)
  PROVE  LET r == [m EXCEPT !.seenAlerts = m.seenAlerts \cup {id}]
         IN Counted(r) /\ r.events = m.events /\ r.raw = m.raw
<1> DEFINE r == [m EXCEPT !.seenAlerts = m.seenAlerts \cup {id}]
<1>1. /\ DOMAIN r = Fields /\ r.forceAcceptNext = m.forceAcceptNext /\ r.raw = m.raw /\ r.brokerUrl = m.brokerUrl
      /\ r.rollbacks = m.rollbacks /\ r.seenMsgIds = m.seenMsgIds
      /\ r.logged = m.logged /\ r.events = m.events
  BY DEF Counted, Fields
<1> HIDE DEF r
<1>2. Counted(r)
  BY <1>1 DEF Counted, Bypass
<1> QED
  BY <1>1, <1>2 DEF r

\* An alert about a node, with its table.
LEMMA OnNodeAlertKeeps ==
  ASSUME NEW m, NEW host, NEW msg, Counted(m), Sound(msg)
  PROVE  LET r == OnNodeAlert(m, host, msg)
         IN Counted(r) /\ r.events = m.events
<1> DEFINE key   == <<msg.topic, msg.from, msg.ct.version>>
           known == [m EXCEPT !.seenAlerts = m.seenAlerts \cup {key}]
<1>0. Addressed(msg.ct) /\ msg.ct.version \in Nat /\ m.raw.version \in Nat
  BY DEF Sound, Counted, Addressed
<1>1. Counted(known) /\ known.events = m.events /\ known.raw = m.raw
  BY SeenKeeps
<1> HIDE DEF known
<1>2. CASE key \in m.seenAlerts
  BY <1>2 DEF OnNodeAlert
<1>3. CASE key \notin m.seenAlerts /\ (m.raw = NoTable \/ msg.ct.version > m.raw.version)
  <2>0. NoTable.version = 0
    BY DEF NoTable
  <2>1. msg.ct.version >= known.raw.version
    BY <1>0, <1>1, <1>3, <2>0
  <2>2. OnNodeAlert(m, host, msg) = ApplyPresentationTopology(known, msg.ct)
    BY <1>3 DEF OnNodeAlert, known
  <2> QED
    BY <2>1, <2>2, <1>0, <1>1, ApplyKeeps
<1>4. CASE key \notin m.seenAlerts /\ ~(m.raw = NoTable \/ msg.ct.version > m.raw.version)
  <2>1. OnNodeAlert(m, host, msg) = RefreshVisibleTopology(known)
    BY <1>4 DEF OnNodeAlert, known
  <2> QED
    BY <2>1, <1>1, RefreshKeeps
<1> QED
  BY <1>2, <1>3, <1>4

\* A failover message that was not seen pays for one rollback.
LEMMA FailoverSeen ==
  ASSUME NEW m, NEW id \in Failovers, Counted(m), id \notin m.seenMsgIds
  PROVE  LET r == [m EXCEPT !.seenMsgIds = m.seenMsgIds \cup {id}, !.forceAcceptNext = TRUE]
         IN Counted(r) /\ r.events = m.events
<1> DEFINE r == [m EXCEPT !.seenMsgIds = m.seenMsgIds \cup {id}, !.forceAcceptNext = TRUE]
<1>0. /\ Addressed(m.raw) /\ m.brokerUrl \in Cores /\ m.rollbacks \in Nat /\ DOMAIN m = Fields
      /\ m.logged \subseteq m.seenMsgIds
  BY DEF Counted
<1>1. /\ DOMAIN r = Fields /\ r.forceAcceptNext = TRUE /\ r.raw = m.raw /\ r.brokerUrl = m.brokerUrl
      /\ r.rollbacks = m.rollbacks /\ r.seenMsgIds = m.seenMsgIds \cup {id}
      /\ r.logged = m.logged /\ r.events = m.events
  BY <1>0 DEF Fields
<1> HIDE DEF r
<1>2. m.rollbacks <= Cardinality(m.seenMsgIds \cap Failovers)
  <2>1. Cardinality(m.seenMsgIds \cap Failovers) \in Nat
    BY SeenFailover
  <2>2. Bypass(m) \in Nat /\ m.rollbacks + Bypass(m) <= Cardinality(m.seenMsgIds \cap Failovers)
    BY DEF Counted, Bypass
  <2> QED
    BY <2>1, <2>2, <1>0
<1>3. r.rollbacks + Bypass(r) <= Cardinality(r.seenMsgIds \cap Failovers)
  BY <1>0, <1>1, <1>2, SeenFailover DEF Bypass
<1>4. Counted(r)
  BY <1>0, <1>1, <1>3 DEF Counted
<1> QED
  BY <1>1, <1>4 DEF r

\* The promoted core announces itself.
LEMMA OnCoreSwitchKeeps ==
  ASSUME NEW m, NEW host, NEW msg, Counted(m), msg.msg_id \in Failovers,
         msg.endpoint \in Cores \cup {""}
  PROVE  LET r == OnCoreSwitch(m, host, msg)
         IN Counted(r) /\ r.events = m.events
<1> DEFINE r == [m EXCEPT !.seenMsgIds = m.seenMsgIds \cup {msg.msg_id}, !.forceAcceptNext = TRUE]
<1>1. CASE msg.msg_id \in m.seenMsgIds
  BY <1>1 DEF OnCoreSwitch
<1>2. CASE msg.msg_id \notin m.seenMsgIds
  <2>1. Counted(r) /\ r.events = m.events
    BY <1>2, FailoverSeen
  <2> HIDE DEF r
  <2>2. OnCoreSwitch(m, host, msg) = ReconnectToBrokerHost(r, host, msg.endpoint)
    BY <1>2 DEF OnCoreSwitch, r
  <2> QED
    BY <2>1, <2>2, ReconnectKeeps
<1> QED
  BY <1>1, <1>2

\* A core's will.
LEMMA OnCoreWillKeeps ==
  ASSUME NEW m, NEW host, NEW msg, Counted(m), msg.msg_id \in Failovers,
         msg.endpoint \in Cores \cup {""}
  PROVE  LET r == OnCoreWill(m, host, msg)
         IN Counted(r) /\ r.events = m.events
<1> DEFINE shut   == [m EXCEPT !.hidden = m.hidden \cup {msg.from}]
           hidden == RefreshVisibleTopology(shut)
           known  == [hidden EXCEPT !.seenMsgIds = hidden.seenMsgIds \cup {msg.msg_id},
                                    !.forceAcceptNext = TRUE]
           backup == ResolveBackupReconnectTarget(m.raw)
           next   == IF backup.ip # "" THEN backup.ip ELSE msg.endpoint
<1>1. Counted(shut) /\ shut.seenMsgIds = m.seenMsgIds /\ shut.events = m.events
  BY HiddenKeeps
<1> HIDE DEF shut
<1>2. Counted(hidden) /\ hidden.seenMsgIds = m.seenMsgIds /\ hidden.events = m.events
  BY <1>1, RefreshKeeps
<1> HIDE DEF hidden
<1>3. OnCoreWill(m, host, msg) =
        CASE msg.msg_id \in m.seenMsgIds -> hidden
          [] msg.msg_id \notin m.seenMsgIds /\ m.raw.active_core_id # msg.from -> known
          [] OTHER -> ReconnectToBrokerHost(known, host, next)
  BY DEF OnCoreWill, hidden, shut
<1>4. CASE msg.msg_id \in m.seenMsgIds
  BY <1>2, <1>3, <1>4
<1>5. CASE msg.msg_id \notin m.seenMsgIds
  <2>1. Counted(known) /\ known.events = m.events
    BY <1>2, <1>5, FailoverSeen
  <2>3. next \in Cores \cup {""}
    BY BackupAddress DEF Counted
  <2> HIDE DEF known, next
  <2>2. /\ Counted(ReconnectToBrokerHost(known, host, next))
        /\ ReconnectToBrokerHost(known, host, next).events = m.events
    BY <2>1, <2>3, ReconnectKeeps
  <2> QED
    BY <2>1, <2>2, <1>3, <1>5
<1> QED
  BY <1>4, <1>5

\* An event, which is new to the log or changes nothing.
LEMMA OnDataKeeps ==
  ASSUME NEW m, NEW host, NEW msg, Counted(m), msg.msg_id \in DataIds
  PROVE  LET r == OnData(m, host, msg)
         IN /\ Counted(r)
            /\ r.events = m.events \/ \A e \in m.logged : e \notin ToSet(m.events) => e \notin ToSet(r.events)
<1> DEFINE id == msg.msg_id
           r  == [m EXCEPT !.seenMsgIds = m.seenMsgIds \cup {id}, !.events = Logged(m.events, id),
                           !.logged = m.logged \cup {id}]
<1>1. CASE id \in m.seenMsgIds
  BY <1>1 DEF OnData
<1>2. CASE id \notin m.seenMsgIds
  <2>0. DOMAIN m = Fields /\ m.logged \subseteq m.seenMsgIds /\ \E S : m.events \in Seq(S)
    BY LogTyped DEF Counted
  <2>1. OnData(m, host, msg) = r
    BY <1>2 DEF OnData
  <2>2. /\ DOMAIN r = Fields /\ r.forceAcceptNext = m.forceAcceptNext /\ r.raw = m.raw /\ r.brokerUrl = m.brokerUrl
        /\ r.rollbacks = m.rollbacks /\ r.seenMsgIds = m.seenMsgIds \cup {id}
        /\ r.logged = m.logged \cup {id} /\ r.events = Logged(m.events, id)
    BY <2>0 DEF Fields
  <2> HIDE DEF r
  <2>3. /\ ToSet(r.events) \subseteq ToSet(m.events) \cup {id}
        /\ LogKept(r.events, r.logged)
    <3>1. LogKept(m.events, m.logged) /\ id \notin m.logged
      BY <1>2 DEF Counted
    <3>2. LogKept(Logged(m.events, id), m.logged \cup {id})
      BY <3>1, LogGrows
    <3> QED
      BY <3>2, <2>0, <2>2, LoggedEvents
  <2>4. r.rollbacks + Bypass(r) <= Cardinality(r.seenMsgIds \cap Failovers)
    <3>1. /\ Cardinality(m.seenMsgIds \cap Failovers) \in Nat
          /\ Cardinality(r.seenMsgIds \cap Failovers) \in Nat
          /\ Cardinality(m.seenMsgIds \cap Failovers) <= Cardinality(r.seenMsgIds \cap Failovers)
      BY <2>2, SeenGrows
    <3>2. m.rollbacks \in Nat /\ Bypass(m) \in Nat /\ Bypass(r) = Bypass(m)
          /\ m.rollbacks + Bypass(m) <= Cardinality(m.seenMsgIds \cap Failovers)
      BY <2>2 DEF Counted, Bypass
    <3> QED
      BY <3>1, <3>2, <2>2
  <2>5. Counted(r)
    BY <2>0, <2>2, <2>3, <2>4 DEF Counted
  <2> QED
    BY <2>0, <2>1, <2>3, <2>5, <1>2
<1> QED
  BY <1>1, <1>2

\* Whatever is received.
LEMMA HandlerKeeps ==
  ASSUME NEW m, NEW host, NEW msg, Counted(m), Sound(msg)
  PROVE  LET r == Handler(m, host, msg)
         IN /\ Counted(r)
            /\ r.events = m.events \/ \A e \in m.logged : e \notin ToSet(m.events) => e \notin ToSet(r.events)
<1>1. CASE msg.topic = "campus/monitor/topology"
  BY <1>1, OnTopologyKeeps DEF Handler
<1>2. CASE msg.topic = "campus/data"
  BY <1>2, OnDataKeeps DEF Handler, Sound
<1>3. CASE msg.topic = "campus/alert/node_up"
  BY <1>3, OnNodeAlertKeeps DEF Handler
<1>4. CASE msg.topic = "campus/alert/core_switch"
  BY <1>4, OnCoreSwitchKeeps DEF Handler, Sound
<1>5. CASE msg.topic = "campus/will/core"
  BY <1>5, OnCoreWillKeeps DEF Handler, Sound
<1> QED
  BY <1>1, <1>2, <1>3, <1>4, <1>5 DEF Sound, Topics

(***************************************************************************)
(* The actions                                                             *)
(***************************************************************************)

\* Messages that carry no table are sound in this as well.
LEMMA NoTableAddressed == Addressed(NoTable)
  BY DEF NoTable, Addressed

\* The first state: no table, no message, nothing seen.
LEMMA InitHolds == Init => MonitorInv
<1> SUFFICES ASSUME Init PROVE MonitorInv
  OBVIOUS
<1>1. /\ DOMAIN mon = Fields /\ mon.raw = NoTable /\ mon.forceAcceptNext = FALSE
      /\ mon.seenMsgIds = {} /\ mon.events = <<>> /\ mon.rollbacks = 0 /\ mon.logged = {}
      /\ session.host = mon.brokerUrl
  BY DEF Init, Fields
<1>2. Addressed(NoTable)
  BY NoTableAddressed
<1>3. Counted(mon)
  <2>1. Cardinality(mon.seenMsgIds \cap Failovers) \in Nat
    BY SeenGrows
  <2>2. mon.events \in Seq(mon.logged) /\ Len(mon.events) = 0 /\ DOMAIN mon.events = {}
    BY <1>1
  <2>3. MAX_EVENTS \in Nat
    BY MonitorConstants
  <2>4. LogKept(mon.events, mon.logged)
    BY <2>2, <2>3 DEF LogKept, IsInjective
  <2>5. mon.brokerUrl \in Cores
    BY DEF Init
  <2>6. mon.rollbacks + Bypass(mon) <= Cardinality(mon.seenMsgIds \cap Failovers)
    BY <1>1, <2>1 DEF Bypass
  <2>7. mon.logged \subseteq mon.seenMsgIds /\ mon.seenMsgIds \subseteq DataIds \cup Failovers
    BY <1>1
  <2>8. Addressed(mon.raw) /\ mon.forceAcceptNext \in BOOLEAN /\ mon.rollbacks \in Nat
    <3>1. Addressed(mon.raw)
      BY <1>1, <1>2, Zenon
    <3>2. mon.forceAcceptNext \in BOOLEAN
      BY <1>1, Zenon
    <3>3. mon.rollbacks \in Nat
      BY <1>1
    <3> QED
      BY <3>1, <3>2, <3>3
  <2> QED
    BY <1>1, <2>4, <2>5, <2>6, <2>7, <2>8 DEF Counted
<1>4. DOMAIN session = {"host", "open", "inbox"} /\ session.host \in Cores /\ Inbox(session.inbox)
  BY <1>1, <1>3, InboxEmpty DEF Init, Counted
<1>5. CoresCount
  BY <1>2 DEF Init, CoresCount, Cores
<1> QED
  BY <1>3, <1>4, <1>5 DEF MonitorInv

\* The table on the topology topic.
LEMMA TableSound ==
  ASSUME NEW ct, Addressed(ct)
  PROVE  Sound(TableMessage(ct))
  BY DEF Sound, Topics, TableMessage, Message

\* What is delivered joins what was received.
LEMMA DeliverKeeps ==
  ASSUME NEW h, NEW msgs, MonitorInv, Deliver(h, msgs), Inbox(msgs)
  PROVE  DOMAIN session' = {"host", "open", "inbox"} /\ session'.host \in Cores /\ Inbox(session'.inbox)
<1>1. CASE session.open /\ session.host = h
  <2>1. session' = [session EXCEPT !.inbox = session.inbox \o msgs]
    BY <1>1 DEF Deliver
  <2>2. /\ DOMAIN session' = {"host", "open", "inbox"} /\ session'.inbox = session.inbox \o msgs
        /\ session'.host = session.host
    BY <2>1 DEF MonitorInv
  <2> QED
    BY <2>2, InboxConcat DEF MonitorInv
<1>2. CASE ~(session.open /\ session.host = h)
  BY <1>2 DEF Deliver, MonitorInv
<1> QED
  BY <1>1, <1>2

\* The client and the form.
LEMMA ClientHolds ==
  MonitorInv /\ (Connected \/ Dropped \/ EffectRunsAgain \/ \E h \in Cores : SetBrokerUrl(h)) => MonitorInv'
<1> SUFFICES ASSUME MonitorInv PROVE Connected \/ Dropped \/ EffectRunsAgain \/ (\E h \in Cores : SetBrokerUrl(h)) => MonitorInv'
  OBVIOUS
<1>0. /\ Counted(mon) /\ mon.brokerUrl \in Cores /\ CoresCount
      /\ DOMAIN session = {"host", "open", "inbox"} /\ session.host \in Cores /\ Inbox(session.inbox)
  BY DEF MonitorInv, Counted
<1>c. ASSUME MonitorStep PROVE CoresCount'
  BY <1>c, <1>0 DEF MonitorStep, CoresCount
<1>1. ASSUME Connected PROVE MonitorInv'
  <2>1. /\ DOMAIN session' = {"host", "open", "inbox"} /\ session'.host = session.host
        /\ session'.inbox = IF cores.retained[session.host] = NoTable THEN <<>>
                            ELSE <<TableMessage(cores.retained[session.host])>>
    BY <1>0, <1>1 DEF Connected
  <2>2. Inbox(session'.inbox)
    <3>1. CASE cores.retained[session.host] = NoTable
      BY <3>1, <2>1, InboxEmpty
    <3>2. CASE cores.retained[session.host] # NoTable
      <4>1. Sound(TableMessage(cores.retained[session.host]))
        BY <1>0, TableSound DEF CoresCount, MonitorInv
      <4> QED
        BY <4>1, <3>2, <2>1, InboxOne
    <3> QED
      BY <3>1, <3>2
  <2> QED
    BY <2>1, <2>2, <1>0, <1>1, <1>c DEF MonitorInv, Connected
<1>2. ASSUME Dropped PROVE MonitorInv'
  <2>1. DOMAIN session' = {"host", "open", "inbox"} /\ session'.host = session.host /\ session'.inbox = <<>>
    BY <1>0, <1>2 DEF Dropped
  <2> QED
    BY <2>1, <1>0, <1>2, <1>c, InboxEmpty DEF MonitorInv, Dropped
<1>3. ASSUME EffectRunsAgain PROVE MonitorInv'
  <2>1. DOMAIN session' = {"host", "open", "inbox"} /\ session'.host \in Cores /\ session'.inbox = <<>>
    BY <1>0, <1>3 DEF EffectRunsAgain
  <2> QED
    BY <2>1, <1>0, <1>3, <1>c, InboxEmpty DEF MonitorInv, EffectRunsAgain
<1>4. ASSUME NEW h \in Cores, SetBrokerUrl(h) PROVE MonitorInv'
  <2>1. /\ DOMAIN mon' = Fields /\ mon'.forceAcceptNext = mon.forceAcceptNext /\ mon'.raw = mon.raw /\ mon'.brokerUrl = h
        /\ mon'.rollbacks = mon.rollbacks /\ mon'.seenMsgIds = mon.seenMsgIds
        /\ mon'.logged = mon.logged /\ mon'.events = mon.events
    BY <1>0, <1>4 DEF SetBrokerUrl, Counted, Fields
  <2>2. Counted(mon)'
    BY <2>1, <1>0, <1>4 DEF Counted, Bypass
  <2> QED
    BY <2>2, <1>0, <1>4, <1>c DEF MonitorInv, SetBrokerUrl
<1> QED
  BY <1>1, <1>2, <1>3, <1>4

\* A handler runs.
LEMMA ReceiveHolds == MonitorInv /\ Receive => MonitorInv'
<1> SUFFICES ASSUME MonitorInv, Receive PROVE MonitorInv'
  OBVIOUS
<1>1. Sound(Head(session.inbox)) /\ Inbox(Tail(session.inbox))
  BY InboxHead DEF MonitorInv, Receive
<1>2. Counted(mon)'
  BY <1>1, HandlerKeeps DEF MonitorInv, Receive
<1>3. /\ DOMAIN session' = {"host", "open", "inbox"} /\ session'.host \in Cores
      /\ session'.inbox = Tail(session.inbox)
  BY DEF MonitorInv, Receive
<1>4. CoresCount'
  BY DEF MonitorInv, Receive, MonitorStep, CoresCount
<1> QED
  BY <1>1, <1>2, <1>3, <1>4 DEF MonitorInv

\* Sequences of no row and of one.
LEMMA OneRow ==
  ASSUME NEW S, NEW x \in S
  PROVE  <<x>> \in Seq(S) /\ Len(<<x>>) = 1
  OBVIOUS

LEMMA NoRow ==
  ASSUME NEW S
  PROVE  <<>> \in Seq(S) /\ Len(<<>>) = 0
  OBVIOUS

\* A row of a table; the host of a core, or of an edge, is its id.
TableRow == [id : Cores \cup {Edge}, role : {"CORE", "NODE"}, port : {1},
             status : {"ONLINE", "OFFLINE"}, ip : Cores \cup {Edge}]
OwnRow   == {x \in TableRow : x.ip = x.id}

\* A sequence of at most three.
LEMMA ThreePlaces ==
  ASSUME NEW S, NEW q \in Seq(S), Len(q) <= 3
  PROVE  DOMAIN q \subseteq {1, 2, 3} /\ \A i \in DOMAIN q : q[i] \in S
  OBVIOUS

\* A sequence over a set is one over a larger set.
LEMMA WiderSeq ==
  ASSUME NEW S, NEW T, S \subseteq T, NEW q \in Seq(S)
  PROVE  q \in Seq(T)
<1>1. Len(q) \in Nat /\ q = [i \in 1..Len(q) |-> q[i]] /\ \A i \in 1..Len(q) : q[i] \in S
  OBVIOUS
<1>2. \A i \in 1..Len(q) : q[i] \in T
  BY <1>1
<1>3. [i \in 1..Len(q) |-> q[i]] \in Seq(T)
  BY <1>1, <1>2
<1> QED
  BY <1>1, <1>3, Zenon

\* A record of a table, from its parts.
LEMMA TableOfParts ==
  ASSUME NEW R, NEW L, NEW A, NEW B, NEW v \in Nat, NEW rows \in Seq(R), NEW links \in Seq(L),
         NEW active \in A, NEW backup \in B
  PROVE  [version |-> v, nodes |-> rows, active_core_id |-> active, backup_core_id |-> backup,
          links |-> links]
           \in [version : Nat, nodes : Seq(R), links : Seq(L), active_core_id : A, backup_core_id : B]
  OBVIOUS

\* A table of a core is one of the tables, and addressed well.
LEMMA TableAddressed ==
  ASSUME NEW version \in Nat, NEW rows \in Seq(OwnRow), NEW active \in Cores, NEW backup \in {"", Standby},
         Len(rows) <= 3
  PROVE  Addressed(Table(version, rows, active, backup))
<1> DEFINE ct   == Table(version, rows, active, backup)
           Link == [from_id : Cores, to_id : {Edge}]
<1>1. OwnRow \subseteq TableRow /\ \A x \in OwnRow : x.ip = x.id
  BY DEF OwnRow
<1>2. DOMAIN rows \subseteq {1, 2, 3} /\ \A i \in DOMAIN rows : rows[i] \in OwnRow
  BY ThreePlaces
<1>3. rows \in Seq(TableRow)
  BY <1>1, WiderSeq
<1>4. \A i \in DOMAIN rows : rows[i].id \in Cores => rows[i].ip \in Cores
  BY <1>1, <1>2, Zenon
<1>5. PICK links \in Seq(Link) : links = <<[from_id |-> active, to_id |-> Edge]>>
  <2>1. PICK l \in Link : l = [from_id |-> active, to_id |-> Edge]
    OBVIOUS
  <2>2. <<l>> \in Seq(Link)
    BY <2>1, OneRow
  <2> QED
    BY <2>1, <2>2
<1> HIDE DEF Link
<1>6. ct = [version |-> version, nodes |-> rows, active_core_id |-> active, backup_core_id |-> backup,
            links |-> links]
  BY <1>5 DEF Table
<1> HIDE DEF ct
<1>7. ct \in [version : Nat, nodes : Seq(TableRow), links : Seq(Link),
              active_core_id : Cores, backup_core_id : {"", Standby}]
  BY <1>3, <1>6, TableOfParts, Zenon
<1>8. ct \in Tables
  BY <1>7 DEF Tables, TableRow, Link
<1>9. {active, backup} \subseteq Cores \cup {""}
  BY DEF Cores
<1>10. /\ ct.version = version /\ ct.nodes = rows
       /\ ct.active_core_id = active /\ ct.backup_core_id = backup
  BY <1>6
<1>11. Addressed(ct)
  BY <1>2, <1>4, <1>8, <1>9, <1>10, Zenon DEF Addressed
<1> QED
  BY <1>11 DEF ct

\* A version after a version.
LEMMA OneMore ==
  ASSUME NEW n \in Nat
  PROVE  n + 1 \in Nat
  OBVIOUS

\* A sequence after a sequence.
LEMMA TwoTogether ==
  ASSUME NEW S, NEW p \in Seq(S), NEW q \in Seq(S)
  PROVE  p \o q \in Seq(S) /\ Len(p \o q) = Len(p) + Len(q)
  OBVIOUS

\* Two are more than one, and three no more than three.
LEMMA UpToThree ==
  ASSUME NEW a, NEW b, NEW c, a = 1, b = 0 \/ b = 1, c = 1
  PROVE  (a + b) + c <= 3
  OBVIOUS

\* A row before and a row behind.
LEMMA RowsTogether ==
  ASSUME NEW S, NEW p \in Seq(S), NEW q \in Seq(S), NEW r \in Seq(S),
         Len(p) = 1, Len(q) = 0 \/ Len(q) = 1, Len(r) = 1
  PROVE  p \o q \o r \in Seq(S) /\ Len(p \o q \o r) <= 3
<1>1. PICK pq : pq = p \o q
  OBVIOUS
<1>2. pq \in Seq(S) /\ Len(pq) = Len(p) + Len(q)
  BY <1>1, TwoTogether, Zenon
<1>3. pq \o r \in Seq(S) /\ Len(pq \o r) = Len(pq) + Len(r)
  BY <1>2, TwoTogether, Zenon
<1>4. (Len(p) + Len(q)) + Len(r) <= 3
  BY UpToThree, Zenon
<1> QED
  BY <1>1, <1>2, <1>3, <1>4, Zenon

\* One row, at most one more, and one more.
LEMMA RowsAround ==
  ASSUME NEW S, NEW x \in S, NEW q \in Seq(S), NEW z \in S,
         Len(q) = 0 \/ Len(q) = 1
  PROVE  <<x>> \o q \o <<z>> \in Seq(S) /\ Len(<<x>> \o q \o <<z>>) <= 3
<1>1. PICK p, r : p = <<x>> /\ r = <<z>>
  OBVIOUS
<1>2. p \in Seq(S) /\ r \in Seq(S) /\ Len(p) = 1 /\ Len(r) = 1
  BY <1>1, OneRow
<1>3. p \o q \o r \in Seq(S) /\ Len(p \o q \o r) <= 3
  BY <1>2, RowsTogether, Zenon
<1> QED
  BY <1>1, <1>3, Zenon

\* The rows a core publishes.
LEMMA CoreRows ==
  ASSUME NEW active \in Cores, NEW backup \in {"", Standby}
  PROVE  LET others == IF backup = "" THEN <<>> ELSE <<CoreRow(backup, "ONLINE")>>
             rows   == <<CoreRow(active, "ONLINE")>> \o others \o <<EdgeRow>>
         IN rows \in Seq(OwnRow) /\ Len(rows) <= 3
<1>1. PICK row, other : row = CoreRow(active, "ONLINE") /\ other = CoreRow(backup, "ONLINE")
  OBVIOUS
<1>2. PICK others : others = IF backup = "" THEN <<>> ELSE <<other>>
  OBVIOUS
<1>3. row \in OwnRow /\ EdgeRow \in OwnRow
  BY <1>1 DEF CoreRow, EdgeRow, OwnRow, TableRow
<1>4. backup # "" => other \in OwnRow
  BY <1>1 DEF CoreRow, OwnRow, TableRow, Cores
<1>5. others \in Seq(OwnRow) /\ (Len(others) = 0 \/ Len(others) = 1)
  <2>1. CASE backup = ""
    BY <1>2, <2>1, NoRow
  <2>2. CASE backup # ""
    BY <1>2, <1>4, <2>2, OneRow
  <2> QED
    BY <2>1, <2>2
<1>6. /\ <<row>> \o others \o <<EdgeRow>> \in Seq(OwnRow)
      /\ Len(<<row>> \o others \o <<EdgeRow>>) <= 3
  BY <1>3, <1>5, RowsAround, Zenon
<1> QED
  BY <1>1, <1>2, <1>6, Zenon

\* A core counts one more change.
LEMMA PublishTableHolds ==
  ASSUME NEW c \in Cores, NEW backup \in {"", Standby}, MonitorInv, PublishTable(c, backup)
  PROVE  MonitorInv'
<1> DEFINE version == cores.version[c] + 1
           others  == IF backup = "" THEN <<>> ELSE <<CoreRow(backup, "ONLINE")>>
           rows    == <<CoreRow(cores.active, "ONLINE")>> \o others \o <<EdgeRow>>
           ct      == Table(version, rows, cores.active, backup)
           alert   == IF c = cores.active THEN <<Message("campus/alert/node_up", NoId, ct, Edge, "")>> ELSE <<>>
<1>1. /\ cores' = [cores EXCEPT !.version[c] = version, !.retained[c] = ct]
      /\ Deliver(c, <<TableMessage(ct)>> \o alert)
      /\ mon' = mon
  BY DEF PublishTable, CoreStep
<1>a. Counted(mon) /\ CoresCount
  BY DEF MonitorInv
<1>2. rows \in Seq(OwnRow) /\ Len(rows) <= 3
  BY <1>a, CoreRows DEF CoresCount
<1> HIDE DEF rows, others, ct, alert
<1>0. cores.active \in Cores /\ version \in Nat
  <2>1. cores.active \in Cores /\ cores.version \in [Cores -> Nat]
    BY <1>a DEF CoresCount
  <2>2. cores.version[c] \in Nat
    BY <2>1
  <2>3. version \in Nat
    BY <2>2, OneMore, Zenon
  <2> HIDE DEF version
  <2> QED
    BY <2>1, <2>3, Zenon
<1> USE DEF ct, alert
<1> HIDE DEF version
<1>3. Addressed(ct)
  BY <1>0, <1>2, TableAddressed
<1> HIDE DEF ct
<1>4. Inbox(<<TableMessage(ct)>>)
  BY <1>3, TableSound, InboxOne
<1>5. Inbox(alert)
  <2>1. PICK msg : msg = Message("campus/alert/node_up", NoId, ct, Edge, "")
    OBVIOUS
  <2>2. Sound(msg)
    BY <1>3, <2>1 DEF Sound, Topics, Message
  <2>3. Inbox(<<msg>>)
    BY <2>2, InboxOne
  <2>4. alert = IF c = cores.active THEN <<msg>> ELSE <<>>
    BY <2>1
  <2> HIDE DEF alert
  <2> QED
    BY <2>3, <2>4, InboxEmpty, Zenon
<1> HIDE DEF alert
<1>6. DOMAIN session' = {"host", "open", "inbox"} /\ session'.host \in Cores /\ Inbox(session'.inbox)
  BY <1>1, <1>4, <1>5, InboxConcat, DeliverKeeps
<1>7. CoresCount'
  <2>1. /\ DOMAIN cores' = DOMAIN cores /\ cores'.active = cores.active
        /\ cores'.version = [cores.version EXCEPT ![c] = version]
        /\ cores'.retained = [cores.retained EXCEPT ![c] = ct]
    <3> HIDE DEF ct
    <3>1. cores' = [cores EXCEPT !.version[c] = version, !.retained[c] = ct]
      BY <1>1
    <3>2. DOMAIN cores = {"alive", "active", "version", "retained", "peerView"}
      BY <1>a DEF CoresCount
    <3> QED
      BY <3>1, <3>2
  <2>2. cores'.version \in [Cores -> Nat]
    <3>1. PICK counts \in [Cores -> Nat] : counts = cores.version
      BY <1>a DEF CoresCount
    <3>2. PICK v \in Nat : v = version
      BY <1>0
    <3>3. [counts EXCEPT ![c] = v] \in [Cores -> Nat]
      OBVIOUS
    <3> QED
      BY <2>1, <3>1, <3>2, <3>3, Zenon
  <2>3. DOMAIN cores'.retained = Cores /\ \A d \in Cores : Addressed(cores'.retained[d])
    <3>1. DOMAIN cores.retained = Cores
      BY <1>a DEF CoresCount
    <3>2. ASSUME NEW d \in Cores PROVE Addressed(cores'.retained[d])
      <4>1. CASE d = c
        BY <4>1, <3>1, <2>1, <1>3
      <4>2. CASE d # c
        BY <4>2, <3>1, <2>1, <1>a DEF CoresCount
      <4> QED
        BY <4>1, <4>2
    <3> QED
      BY <3>1, <3>2, <2>1
  <2> QED
    BY <1>a, <2>1, <2>2, <2>3 DEF CoresCount
<1> QED
  BY <1>a, <1>1, <1>6, <1>7 DEF MonitorInv

\* A core stops: the will has the id of one.
LEMMA CoreDiesHolds ==
  ASSUME NEW c \in Cores, NEW hint \in Hints, MonitorInv, CoreDies(c, hint)
  PROVE  MonitorInv'
<1> DEFINE Will(h) == <<Message("campus/will/core", LwtId(c, h), NoTable, c,
                               IF c = Main THEN hint ELSE "")>>
<1>1. ASSUME NEW h \in Cores PROVE Inbox(Will(h))
  <2>1. LwtId(c, h) \in Failovers
    BY <1>1 DEF Failovers
  <2>2. (IF c = Main THEN hint ELSE "") \in Cores \cup {""}
    BY MonitorConstants DEF Cores
  <2>3. Sound(Message("campus/will/core", LwtId(c, h), NoTable, c, IF c = Main THEN hint ELSE ""))
    BY <2>1, <2>2, NoTableAddressed DEF Sound, Topics, Message
  <2> QED
    BY <2>3, InboxOne
<1>2. \E h \in Cores : Deliver(h, Will(h))
  BY DEF CoreDies, Cores
<1>3. DOMAIN session' = {"host", "open", "inbox"} /\ session'.host \in Cores /\ Inbox(session'.inbox)
  BY <1>1, <1>2, DeliverKeeps
<1>4. CoresCount'
  BY DEF CoreDies, MonitorInv, CoresCount
<1> QED
  BY <1>3, <1>4 DEF CoreDies, CoreStep, MonitorInv

\* The table a promoted core publishes.
LEMMA PromotedAddressed == CoresCount => Addressed(PromotedTable)
<1> SUFFICES ASSUME CoresCount PROVE Addressed(PromotedTable)
  OBVIOUS
<1>1. cores.version \in [Cores -> Nat] /\ Standby \in Cores
  BY DEF CoresCount, Cores
<1>2. cores.version[Standby] + 1 \in Nat
  BY <1>1
<1>3. PICK first, second, third :
        first = CoreRow(Main, "OFFLINE") /\ second = CoreRow(Standby, "ONLINE") /\ third = EdgeRow
  OBVIOUS
<1>4. first \in OwnRow /\ second \in OwnRow /\ third \in OwnRow
  BY <1>3 DEF CoreRow, EdgeRow, OwnRow, TableRow, Cores
<1>5. <<first, second, third>> \in Seq(OwnRow) /\ Len(<<first, second, third>>) <= 3
  BY <1>4
<1>6. Addressed(Table(cores.version[Standby] + 1, <<first, second, third>>, Standby, ""))
  BY <1>1, <1>2, <1>5, TableAddressed
<1> QED
  BY <1>3, <1>6 DEF PromotedTable

\* A promotion: its table, and the message that tells of it.
LEMMA PromoteHolds == MonitorInv /\ Promote => MonitorInv'
<1> SUFFICES ASSUME MonitorInv, Promote PROVE MonitorInv'
  OBVIOUS
<1> DEFINE switch == Message("campus/alert/core_switch", SwitchId, NoTable, Standby, Standby)
<1>a. Counted(mon) /\ CoresCount /\ Addressed(PromotedTable)
  BY PromotedAddressed DEF MonitorInv
<1>1. Sound(TableMessage(PromotedTable))
  BY <1>a, TableSound
<1>2. Sound(switch)
  BY NoTableAddressed DEF Sound, Topics, Message, Failovers, Cores
<1>3. Deliver(Standby, <<TableMessage(PromotedTable), switch>>)
  BY DEF Promote
<1> HIDE DEF switch
<1>4. Inbox(<<TableMessage(PromotedTable), switch>>)
  BY <1>1, <1>2, InboxTwo
<1>5. DOMAIN session' = {"host", "open", "inbox"} /\ session'.host \in Cores /\ Inbox(session'.inbox)
  BY <1>3, <1>4, DeliverKeeps
<1>6. CoresCount'
  <2>0. /\ DOMAIN cores = {"alive", "active", "version", "retained", "peerView"}
        /\ cores.version \in [Cores -> Nat] /\ DOMAIN cores.retained = Cores
    BY <1>a DEF CoresCount
  <2>1. /\ DOMAIN cores' = DOMAIN cores /\ cores'.active = Standby
        /\ cores'.version = [cores.version EXCEPT ![Standby] = cores.version[Standby] + 1]
        /\ cores'.retained = [cores.retained EXCEPT ![Standby] = PromotedTable]
    BY <2>0 DEF Promote
  <2>2. cores'.version \in [Cores -> Nat] /\ cores'.active \in Cores
    BY <2>0, <2>1 DEF Cores
  <2>3. ASSUME NEW d \in Cores PROVE Addressed(cores'.retained[d])
    <3>1. CASE d = Standby
      BY <3>1, <2>0, <2>1, <1>a
    <3>2. CASE d # Standby
      BY <3>2, <2>0, <2>1, <1>a DEF CoresCount
    <3> QED
      BY <3>1, <3>2
  <2>4. DOMAIN cores'.retained = Cores
    BY <2>0, <2>1
  <2> QED
    BY <2>0, <2>1, <2>2, <2>3, <2>4 DEF CoresCount
<1> QED
  BY <1>a, <1>5, <1>6 DEF MonitorInv, Promote, CoreStep

\* The promoted core's table comes to the old Active's broker.
LEMMA PromotedViewOnPeerHolds == MonitorInv /\ PromotedViewOnPeer => MonitorInv'
<1> SUFFICES ASSUME MonitorInv, PromotedViewOnPeer PROVE MonitorInv'
  OBVIOUS
<1>0. /\ Counted(mon) /\ CoresCount /\ Main \in Cores /\ Standby \in Cores
      /\ DOMAIN cores = {"alive", "active", "version", "retained", "peerView"}
      /\ DOMAIN cores.retained = Cores
  BY DEF MonitorInv, CoresCount, Cores
<1>1. Addressed(cores.retained[Standby])
  BY <1>0 DEF CoresCount
<1>2. Inbox(<<TableMessage(cores.retained[Standby])>>)
  BY <1>1, TableSound, InboxOne
<1>3. DOMAIN session' = {"host", "open", "inbox"} /\ session'.host \in Cores /\ Inbox(session'.inbox)
  BY <1>2, DeliverKeeps DEF PromotedViewOnPeer
<1>4. CoresCount'
  <2>1. /\ DOMAIN cores' = DOMAIN cores /\ cores'.active = cores.active
        /\ cores'.version = cores.version
        /\ cores'.retained = [cores.retained EXCEPT ![Main] = cores.retained[Standby]]
    BY <1>0 DEF PromotedViewOnPeer
  <2>2. ASSUME NEW d \in Cores PROVE Addressed(cores'.retained[d])
    <3>1. CASE d = Main
      BY <3>1, <1>0, <1>1, <2>1
    <3>2. CASE d # Main
      BY <3>2, <1>0, <2>1 DEF CoresCount
    <3> QED
      BY <3>1, <3>2
  <2>3. DOMAIN cores'.retained = Cores
    BY <1>0, <2>1
  <2> QED
    BY <1>0, <2>1, <2>2, <2>3 DEF CoresCount
<1> QED
  BY <1>0, <1>3, <1>4 DEF MonitorInv, PromotedViewOnPeer, CoreStep

\* An event, for the first time or again.
LEMMA EventHolds ==
  ASSUME NEW h, NEW e \in 1..MaxEvents, MonitorInv, CoreStep, UNCHANGED cores,
         Deliver(h, <<Message("campus/data", DataId(e), NoTable, Edge, "")>>)
  PROVE  MonitorInv'
<1>1. Sound(Message("campus/data", DataId(e), NoTable, Edge, ""))
  <2>1. DataId(e) \in DataIds
    BY DEF DataIds
  <2> QED
    BY <2>1, NoTableAddressed DEF Sound, Topics, Message
<1>2. DOMAIN session' = {"host", "open", "inbox"} /\ session'.host \in Cores /\ Inbox(session'.inbox)
  BY <1>1, InboxOne, DeliverKeeps
<1>3. CoresCount'
  BY DEF MonitorInv, CoresCount
<1> QED
  BY <1>2, <1>3 DEF MonitorInv, CoreStep

\* The next of at most m.
LEMMA UpTo ==
  ASSUME NEW n \in Nat, NEW m \in Nat, n < m
  PROVE  n + 1 \in 1..m
  OBVIOUS

\* Every step.
LEMMA NextHolds == MonitorInv /\ SentInv /\ [Next]_vars => MonitorInv'
<1> SUFFICES ASSUME MonitorInv, SentInv, [Next]_vars PROVE MonitorInv'
  OBVIOUS
<1>1. CASE Connected \/ Dropped \/ EffectRunsAgain \/ \E h \in Cores : SetBrokerUrl(h)
  BY <1>1, ClientHolds
<1>2. CASE Receive
  BY <1>2, ReceiveHolds
<1>3. CASE Promote
  BY <1>3, PromoteHolds
<1>4. CASE PromotedViewOnPeer
  BY <1>4, PromotedViewOnPeerHolds
<1>5. CASE \E c \in Cores, backup \in {"", Standby} : PublishTable(c, backup)
  BY <1>5, PublishTableHolds
<1>6. CASE \E c \in Cores, hint \in Hints : CoreDies(c, hint)
  BY <1>6, CoreDiesHolds
<1>7. ASSUME NEW h \in Cores, PublishData(h) PROVE MonitorInv'
  <2>1. sent.events + 1 \in 1..MaxEvents
    <3>1. sent.events < MaxEvents
      BY <1>7, Zenon DEF PublishData
    <3>2. sent.events \in Nat /\ MaxEvents \in Nat
      BY MonitorConstants DEF SentInv
    <3> QED
      BY <3>1, <3>2, UpTo
  <2> QED
    BY <1>7, <2>1, EventHolds DEF PublishData
<1>8. ASSUME NEW h \in Cores, NEW e \in 1..MaxEvents, RepeatData(e, h) PROVE MonitorInv'
  BY <1>8, EventHolds DEF RepeatData
<1>9. CASE UNCHANGED vars
  BY <1>9 DEF vars, MonitorInv, Counted, Bypass, CoresCount
<1> QED
  BY <1>1, <1>2, <1>3, <1>4, <1>5, <1>6, <1>7, <1>8, <1>9 DEF Next

\* One more of what is counted.
LEMMA OneMoreSent ==
  ASSUME NEW s \in [tables : Nat, events : Nat, repeats : Nat]
  PROVE  /\ [s EXCEPT !.tables = @ + 1] \in [tables : Nat, events : Nat, repeats : Nat]
         /\ [s EXCEPT !.events = @ + 1] \in [tables : Nat, events : Nat, repeats : Nat]
         /\ [s EXCEPT !.repeats = @ + 1] \in [tables : Nat, events : Nat, repeats : Nat]
  OBVIOUS

\* Counters count.
LEMMA SentKept == SentInv /\ [Next]_vars => SentInv'
<1> SUFFICES ASSUME SentInv, [Next]_vars PROVE SentInv'
  OBVIOUS
<1>1. ASSUME NEW c, NEW backup, PublishTable(c, backup) PROVE SentInv'
  <2>1. sent' = [sent EXCEPT !.tables = @ + 1]
    BY <1>1, Zenon DEF PublishTable
  <2> QED
    BY <2>1, OneMoreSent DEF SentInv
<1>2. ASSUME NEW h, PublishData(h) PROVE SentInv'
  <2>1. sent' = [sent EXCEPT !.events = @ + 1]
    BY <1>2, Zenon DEF PublishData
  <2> QED
    BY <2>1, OneMoreSent DEF SentInv
<1>3. ASSUME NEW h, NEW e, RepeatData(e, h) PROVE SentInv'
  <2>1. sent' = [sent EXCEPT !.repeats = @ + 1]
    BY <1>3, Zenon DEF RepeatData
  <2> QED
    BY <2>1, OneMoreSent DEF SentInv
<1>4. CASE UNCHANGED sent
  BY <1>4 DEF SentInv
<1> QED
  BY <1>1, <1>2, <1>3, <1>4
  DEF Next, vars, Connected, Dropped, Receive, EffectRunsAgain, SetBrokerUrl, MonitorStep,
      Promote, PromotedViewOnPeer, CoreDies

(***************************************************************************)
(* The theorems                                                            *)
(***************************************************************************)

\* useMqtt dials cores only, and pays for every rollback with the id of a
\* failover message, in every state.
THEOREM MonitorInvariant == Spec => []MonitorInv
<1>1. Init => SentInv
  BY DEF Init, SentInv
<1> QED
  BY <1>1, InitHolds, NextHolds, SentKept, PTL DEF Spec

\* useMqtt 109-117, 190-192, 248-288: an older table replaces a newer one at
\* most once for every failover message, whatever is published and repeated.
THEOREM OneRollback == Spec => []OneRollbackPerFailover
<1>1. MonitorInv => OneRollbackPerFailover
  BY DEF MonitorInv, Counted, Bypass, OneRollbackPerFailover
<1> QED
  BY <1>1, MonitorInvariant, PTL

\* What a handler starts from and leaves: a hook that hides cores only.
Hides(m) == DOMAIN m = Fields /\ m.hidden \subseteq Cores

\* The fields a handler assigns beside hidden.
LEMMA HidesWith ==
  ASSUME NEW m, NEW v, Hides(m)
  PROVE  /\ Hides([m EXCEPT !.brokerUrl = v])
         /\ Hides([m EXCEPT !.forceAcceptNext = v])
         /\ Hides([m EXCEPT !.seenMsgIds = v])
         /\ Hides([m EXCEPT !.seenAlerts = v])
  BY DEF Hides, Fields

\* A dialled core hides nothing.
LEMMA ReconnectHides ==
  ASSUME NEW m, NEW host, NEW next, Hides(m)
  PROVE  Hides(ReconnectToBrokerHost(m, host, next))
  BY HidesWith DEF ReconnectToBrokerHost

\* Reconciling only shows.
LEMMA RefreshHides ==
  ASSUME NEW m, Hides(m)
  PROVE  Hides(RefreshVisibleTopology(m))
<1>1. ReconcileHiddenNodeIds(m.raw, m.hidden) \subseteq Cores
  BY DEF ReconcileHiddenNodeIds, Hides
<1>2. Hides([m EXCEPT !.hidden = ReconcileHiddenNodeIds(m.raw, m.hidden)])
  BY <1>1 DEF Hides, Fields
<1> QED
  BY <1>2 DEF RefreshVisibleTopology

\* So does a table that is applied.
LEMMA ApplyHides ==
  ASSUME NEW m, NEW ct, Hides(m)
  PROVE  Hides(ApplyPresentationTopology(m, ct))
<1> DEFINE r == ApplyPresentationTopology(m, ct)
<1>1. DOMAIN r = Fields /\ r.hidden = ReconcileHiddenNodeIds(ct, m.hidden)
  BY DEF ApplyPresentationTopology, Hides, Fields
<1>2. ReconcileHiddenNodeIds(ct, m.hidden) \subseteq Cores
  BY DEF ReconcileHiddenNodeIds, Hides
<1> HIDE DEF r
<1>3. Hides(r)
  BY <1>1, <1>2 DEF Hides
<1> QED
  BY <1>3 DEF r

\* A core's will hides that core.
LEMMA WillHides ==
  ASSUME NEW m, NEW host, NEW msg, Hides(m), msg.from \in Cores
  PROVE  Hides(OnCoreWill(m, host, msg))
<1> DEFINE hid    == [m EXCEPT !.hidden = m.hidden \cup {msg.from}]
           hidden == RefreshVisibleTopology(hid)
           seen   == [hidden EXCEPT !.seenMsgIds = hidden.seenMsgIds \cup {msg.msg_id}]
           known  == [seen EXCEPT !.forceAcceptNext = TRUE]
           both   == [hidden EXCEPT !.seenMsgIds = hidden.seenMsgIds \cup {msg.msg_id},
                                    !.forceAcceptNext = TRUE]
           backup == ResolveBackupReconnectTarget(m.raw)
           next   == IF backup.ip # "" THEN backup.ip ELSE msg.endpoint
<1>1. Hides(hid)
  BY DEF Hides, Fields
<1>2. Hides(hidden)
  <2> HIDE DEF hid
  <2> QED
    BY <1>1, RefreshHides
<1>3. Hides(known)
  <2> HIDE DEF hidden
  <2>1. Hides(seen)
    BY <1>2, HidesWith
  <2> HIDE DEF seen
  <2> QED
    BY <2>1, HidesWith
<1>4. both = known
  <2> HIDE DEF hidden
  <2> QED
    OBVIOUS
<1>5. OnCoreWill(m, host, msg) \in {hidden, both, ReconnectToBrokerHost(both, host, next)}
  <2>1. CASE msg.msg_id \in m.seenMsgIds
    BY <2>1 DEF OnCoreWill
  <2>2. CASE msg.msg_id \notin m.seenMsgIds /\ m.raw.active_core_id # msg.from
    BY <2>2 DEF OnCoreWill
  <2>3. CASE msg.msg_id \notin m.seenMsgIds /\ ~(m.raw.active_core_id # msg.from)
    BY <2>3 DEF OnCoreWill
  <2> QED
    BY <2>1, <2>2, <2>3
<1> HIDE DEF hidden, known, both, next
<1>6. Hides(both)
  BY <1>3, <1>4
<1> QED
  BY <1>2, <1>5, <1>6, ReconnectHides

\* Whatever is received, cores only are hidden.
LEMMA HandlerHides ==
  ASSUME NEW m, NEW host, NEW msg, Hides(m), Sound(msg)
  PROVE  Hides(Handler(m, host, msg))
<1>1. CASE msg.topic = "campus/monitor/topology"
  <2> DEFINE next == SelectPromotedActiveNode(m.raw, msg.ct, host).ip
             k    == [m EXCEPT !.forceAcceptNext = FALSE]
  <2>1. Hides(k)
    BY HidesWith
  <2> HIDE DEF k
  <2>2. Hides(ApplyPresentationTopology(k, msg.ct))
    BY <2>1, ApplyHides
  <2>3. Hides(ReconnectToBrokerHost(ApplyPresentationTopology(k, msg.ct), host, next))
    BY <2>2, ReconnectHides
  <2>4. \/ OnTopology(m, host, msg) = m
        \/ OnTopology(m, host, msg) = ReconnectToBrokerHost(ApplyPresentationTopology(k, msg.ct), host, next)
    BY DEF OnTopology, k
  <2>5. Hides(OnTopology(m, host, msg))
    BY <2>3, <2>4
  <2> QED
    BY <1>1, <2>5 DEF Handler
<1>2. CASE msg.topic = "campus/data"
  <2>1. Hides(OnData(m, host, msg))
    BY DEF OnData, Hides, Fields
  <2> QED
    BY <1>2, <2>1 DEF Handler
<1>3. CASE msg.topic = "campus/alert/node_up"
  <2> DEFINE known == [m EXCEPT !.seenAlerts = m.seenAlerts \cup {<<msg.topic, msg.from, msg.ct.version>>}]
  <2>1. Hides(known)
    BY HidesWith
  <2>2. OnNodeAlert(m, host, msg) \in {m, ApplyPresentationTopology(known, msg.ct), RefreshVisibleTopology(known)}
    BY DEF OnNodeAlert
  <2> HIDE DEF known
  <2>3. Hides(OnNodeAlert(m, host, msg))
    BY <2>1, <2>2, ApplyHides, RefreshHides
  <2> QED
    BY <1>3, <2>3 DEF Handler
<1>4. CASE msg.topic = "campus/alert/core_switch"
  <2> DEFINE seen  == [m EXCEPT !.seenMsgIds = m.seenMsgIds \cup {msg.msg_id}]
             known == [m EXCEPT !.seenMsgIds = m.seenMsgIds \cup {msg.msg_id}, !.forceAcceptNext = TRUE]
  <2>1. Hides(known)
    BY DEF Hides, Fields
  <2>2. OnCoreSwitch(m, host, msg) \in {m, ReconnectToBrokerHost(known, host, msg.endpoint)}
    BY DEF OnCoreSwitch
  <2> HIDE DEF known
  <2>3. Hides(OnCoreSwitch(m, host, msg))
    BY <2>1, <2>2, ReconnectHides
  <2> QED
    BY <1>4, <2>3 DEF Handler
<1>5. CASE msg.topic = "campus/will/core"
  BY <1>5, WillHides DEF Handler, Sound
<1> QED
  BY <1>1, <1>2, <1>3, <1>4, <1>5 DEF Sound, Topics

\* A message that arrives does not open a session.
LEMMA DeliverOpen ==
  ASSUME NEW h, NEW msgs, Deliver(h, msgs), DOMAIN session = {"host", "open", "inbox"}
  PROVE  session'.open = session.open
  BY DEF Deliver

\* Every step hides cores only, and opens a session or does not.
LEMMA HiddenHolds == MonitorInv /\ HiddenInv /\ [Next]_vars => HiddenInv'
<1> SUFFICES ASSUME MonitorInv, HiddenInv, [Next]_vars PROVE HiddenInv'
  OBVIOUS
<1>0. DOMAIN session = {"host", "open", "inbox"} /\ Hides(mon)
  BY DEF MonitorInv, HiddenInv, Counted, Hides
<1>1. CASE Connected \/ Dropped \/ EffectRunsAgain
  <2>1. mon' = mon
    BY <1>1 DEF Connected, Dropped, EffectRunsAgain
  <2>2. session'.open \in BOOLEAN
    <3>1. CASE Connected
      <4>1. PICK i : session' = [session EXCEPT !.open = TRUE, !.inbox = i]
        BY <3>1, Zenon DEF Connected
      <4> QED
        BY <1>0, <4>1
    <3>2. CASE Dropped
      <4>1. session' = [session EXCEPT !.open = FALSE, !.inbox = <<>>]
        BY <3>2, Zenon DEF Dropped
      <4> QED
        BY <1>0, <4>1
    <3>3. CASE EffectRunsAgain
      BY <3>3 DEF EffectRunsAgain
    <3> QED
      BY <1>1, <3>1, <3>2, <3>3
  <2> QED
    BY <2>1, <2>2 DEF HiddenInv
<1>2. ASSUME NEW h \in Cores, SetBrokerUrl(h) PROVE HiddenInv'
  <2>1. session' = session /\ mon' = [mon EXCEPT !.brokerUrl = h]
    BY <1>2 DEF SetBrokerUrl
  <2>2. mon'.hidden = mon.hidden
    BY <1>0, <2>1 DEF Hides, Fields
  <2> QED
    BY <2>1, <2>2 DEF HiddenInv
<1>3. CASE Receive
  <2>1. Sound(Head(session.inbox))
    BY <1>3, InboxHead DEF MonitorInv, Receive
  <2>2. Hides(mon')
    BY <1>0, <1>3, <2>1, HandlerHides DEF Receive
  <2>3. session'.open = session.open
    BY <1>0, <1>3 DEF Receive
  <2> QED
    BY <2>2, <2>3 DEF HiddenInv, Hides
<1>4. ASSUME mon' = mon, \E h, msgs : Deliver(h, msgs) PROVE HiddenInv'
  BY <1>0, <1>4, DeliverOpen DEF HiddenInv
<1>5. CASE Promote \/ PromotedViewOnPeer
  BY <1>5, <1>4, Zenon DEF Promote, PromotedViewOnPeer, CoreStep
<1>6. ASSUME NEW c \in Cores, NEW backup \in {"", Standby}, PublishTable(c, backup) PROVE HiddenInv'
  BY <1>6, <1>4, Zenon DEF PublishTable, CoreStep
<1>7. ASSUME NEW c \in Cores, NEW hint \in Hints, CoreDies(c, hint) PROVE HiddenInv'
  <2>1. mon' = mon
    BY <1>7 DEF CoreDies, CoreStep
  <2>2. \E h, msgs : Deliver(h, msgs)
    BY <1>7 DEF CoreDies
  <2> QED
    BY <2>1, <2>2, <1>4
<1>8. ASSUME NEW h \in Cores, PublishData(h) PROVE HiddenInv'
  BY <1>8, <1>4, Zenon DEF PublishData, CoreStep
<1>9. ASSUME NEW h \in Cores, NEW e \in 1..MaxEvents, RepeatData(e, h) PROVE HiddenInv'
  BY <1>9, <1>4, Zenon DEF RepeatData, CoreStep
<1>10. CASE UNCHANGED vars
  BY <1>10 DEF vars, HiddenInv
<1> QED
  BY <1>1, <1>2, <1>3, <1>5, <1>6, <1>7, <1>8, <1>9, <1>10 DEF Next

\* useMqtt 41-75, 109-292: the hook dials and hides cores only, shows a table a
\* core published or none, knows the ids that were sent, and keeps at most
\* MAX_EVENTS events, each once.
THEOREM MonitorTypeCorrect == Spec => []TypeOK
<1>1. Init => HiddenInv
  BY DEF Init, HiddenInv
<1>2. MonitorInv /\ HiddenInv => TypeOK
  <2> SUFFICES ASSUME MonitorInv, HiddenInv PROVE TypeOK
    OBVIOUS
  <2>1. Counted(mon) /\ session.host \in Cores
    BY DEF MonitorInv
  <2>2. mon.brokerUrl \in Cores /\ mon.forceAcceptNext \in BOOLEAN /\ mon.raw \in Tables \cup {NoTable}
    BY <2>1 DEF Counted, Addressed
  <2>3. mon.seenMsgIds \subseteq {DataId(e) : e \in 1..MaxEvents} \cup Failovers
    BY <2>1 DEF Counted, DataIds
  <2>4. Len(mon.events) <= MAX_EVENTS /\ IsInjective(mon.events)
    BY <2>1 DEF Counted, LogKept
  <2>5. mon.hidden \subseteq Cores /\ session.open \in BOOLEAN
    BY DEF HiddenInv
  <2> QED
    BY <2>1, <2>2, <2>3, <2>4, <2>5, Zenon DEF TypeOK
<1> QED
  BY <1>1, <1>2, InitHolds, NextHolds, HiddenHolds, MonitorInvariant, PTL DEF Spec

\* What a log contains is a matter of its set.
LEMMA ContainsSet ==
  ASSUME NEW S, NEW events \in Seq(S), NEW e
  PROVE  Contains(events, e) <=> e \in ToSet(events)
  BY DEF Contains, ToSet

\* useMqtt 129-169: an event the log of MAX_EVENTS has forgotten does not come
\* back, for any number of events, copies and reconnections.
THEOREM GoneForGood == Spec => GoneStaysGone
<1> DEFINE Stays == \A e \in mon.logged : ~Contains(mon.events, e) => ~Contains(mon'.events, e)
<1>1. ASSUME MonitorInv, MonitorInv', Next PROVE Stays
  <2>1. CASE Receive
    <3>1. Sound(Head(session.inbox))
      BY <2>1, InboxHead, <1>1 DEF MonitorInv, Receive
    <3>2. mon'.events = mon.events
            \/ \A e \in mon.logged : e \notin ToSet(mon.events) => e \notin ToSet(mon'.events)
      BY <2>1, <3>1, <1>1, HandlerKeeps DEF MonitorInv, Receive
    <3>3. PICK S : mon.events \in Seq(S)
      BY <1>1, LogTyped DEF MonitorInv, Counted
    <3>4. PICK T : mon'.events \in Seq(T)
      BY <1>1, LogTyped DEF MonitorInv, Counted
    <3> QED
      BY <3>2, <3>3, <3>4, ContainsSet
  <2>2. CASE \E h \in Cores : SetBrokerUrl(h)
    <3>1. mon'.events = mon.events
      BY <2>2, <1>1 DEF SetBrokerUrl, MonitorInv, Counted, Fields
    <3> QED
      BY <3>1
  <2>3. CASE mon' = mon
    BY <2>3
  <2>4. Receive \/ (\E h \in Cores : SetBrokerUrl(h)) \/ mon' = mon
    BY <1>1 DEF Next, Connected, Dropped, EffectRunsAgain, Promote, PromotedViewOnPeer, PublishTable,
                CoreDies, PublishData, RepeatData, CoreStep
  <2> QED
    BY <2>1, <2>2, <2>3, <2>4
<1>2. MonitorInv /\ MonitorInv' /\ [Next]_vars => [Stays]_vars
  BY <1>1
<1>3. Spec => [][Stays]_vars
  BY <1>2, MonitorInvariant, PTL DEF Spec
<1> QED
  BY <1>3 DEF GoneStaysGone
=============================================================================
