----------------------- MODULE CoreClusterViewProofs -----------------------
(***************************************************************************)
(* What the tables of the two cores say, for every set of edges, every     *)
(* attachment, every size of a table and every bound: links join known     *)
(* nodes, registered edges are not shown OFFLINE, the retained view is the *)
(* table, and a registration leaves nothing of the Backup's table out.     *)
(***************************************************************************)
EXTENDS CoreClusterProofs

(***************************************************************************)
(* How a table may change                                                  *)
(***************************************************************************)

\* The table of the Active id a CT_SYNC names, before its rows are merged.
Renamed(t, remote) ==
  IF remote.active = NoId THEN t ELSE SetActiveCoreId(t, remote.active)

\* Every way a step may change the table of core c.
TableMoves(c) ==
  \/ ct'[c] = ct[c]
  \/ \E e \in Edges : \/ ct'[c] = RegisterEdge(ct[c], c, e, clock)
                      \/ /\ ct'[c] = SetNodeStatus(ct[c], e, Offline, clock)
                         /\ e \notin attached'[c]
  \/ /\ c = CoreA /\ aIn # <<>> /\ Head(aIn).kind = "node_register"
     /\ \E admitted \in Admissions(ct[c], Head(aIn).table) :
          ct'[c] = MergeBackupRegistration(ct[c], c, Head(aIn).table, admitted)
  \/ c = CoreA /\ \E core \in Cores : ct'[c] = DropPeerCore(ct[c], core, clock)
  \/ /\ c = CoreB => ~ isBackup'[CoreB]
     /\ \E failed \in Cores \cup {ct[c].active} :
          ct'[c] = PromoteCoreAfterFailover(ct[c], c, failed, clock)
  \/ /\ c = CoreB /\ work["peer"] # <<>> /\ Head(work["peer"]).do = "merge"
     /\ LET remote == Head(work["peer"]).table
            local  == Renamed(ct[c], remote)
        IN  \E admitted \in Admissions(local, remote) :
              ct'[c] = MergeConnectionTables(local, remote, admitted)

\* No step changes a table in another way.
LEMMA TablesMove ==
  ASSUME TypeOK, Next, NEW c \in Cores
  PROVE  TableMoves(c)
<1>a. ASSUME UNCHANGED ct PROVE TableMoves(c)
  BY <1>a DEF TableMoves
<1>b. c = CoreA \/ c = CoreB
  BY ClusterConstants
<1>c. ct \in [Cores -> Table] /\ CoreA # CoreB
  BY CoreIds DEF TypeOK
<1>d. \A x \in Cores : ct[x].active \in Ids \cup {NoId}
  BY <1>c DEF Table
<1>1. CASE ActiveSteps
  <2>a. ASSUME c = CoreB PROVE TableMoves(c)
    BY <1>1, <1>c, <2>a DEF ActiveSteps, NodeRegisterAtActive, CoreWillAtActive,
         ElectionRequestAtActive, ElectionResultAtActive, ActiveReconnects, coreVars,
         ActiveMoves, TableMoves
  <2>1. CASE NodeRegisterAtActive /\ c = CoreA
    BY <1>c, <2>1 DEF NodeRegisterAtActive, ReceivedByA, ActiveMoves, TableMoves
  <2>2. CASE CoreWillAtActive /\ c = CoreA
    <3>1. Head(aIn).core \in Cores
      BY <2>2, HeadTailProperties, MessageFields DEF CoreWillAtActive, ReceivedByA, TypeOK
    <3>2. ct'[c] = IF Head(aIn).core = CoreA THEN ct[c] ELSE DropPeerCore(ct[c], Head(aIn).core, clock)
      BY <1>c, <2>2 DEF CoreWillAtActive, ActiveMoves
    <3> QED
      BY <2>2, <3>1, <3>2 DEF TableMoves
  <2>3. CASE ElectionResultAtActive /\ c = CoreA
    BY <1>c, <1>d, <2>3 DEF ElectionResultAtActive, ActiveMoves, TableMoves
  <2>4. CASE (ElectionRequestAtActive \/ ActiveReconnects) /\ c = CoreA
    BY <1>c, <2>4 DEF ElectionRequestAtActive, ActiveReconnects, coreVars, ActiveMoves, TableMoves
  <2> QED
    BY <1>1, <1>b, <2>a, <2>1, <2>2, <2>3, <2>4 DEF ActiveSteps
\* A promotion, on whatever thread.
<1>p. ASSUME NEW th, NEW failed \in Cores \cup {ct[CoreB].active}, NEW script,
             Promote(th, failed, script)
      PROVE  TableMoves(c)
  <2>1. CASE c = CoreA
    BY <1>c, <1>p, <2>1 DEF Promote, TableMoves
  <2>2. CASE c = CoreB
    <3>1. ~ isBackup'[CoreB]
      BY <1>p, CoreIds DEF Promote, TypeOK
    <3> QED
      BY <1>c, <1>p, <2>2, <3>1 DEF Promote, TableMoves
  <2> QED
    BY <1>b, <2>1, <2>2
<1>2. CASE PeerSteps
  <2>1. CASE MergeAtBackup
    <3>1. CASE c = CoreA
      BY <1>c, <2>1, <3>1 DEF MergeAtBackup, TableMoves
    <3>2. CASE c = CoreB
      BY <1>c, <2>1, <3>2 DEF MergeAtBackup, Running, Renamed, TableMoves
    <3> QED
      BY <1>b, <3>1, <3>2
  <2>2. CASE CoreWillAtBackup
    <3>1. Head(peerIn).core \in Cores
      BY <2>2, HeadTailProperties, MessageFields
         DEF CoreWillAtBackup, ReceivedByPeer, TypeOK
    <3> QED
      BY <1>a, <1>p, <2>2, <3>1 DEF CoreWillAtBackup
  <2>3. CASE ElectionResultAtBackup
    BY <1>a, <1>d, <1>p, <2>3, CoreIds DEF ElectionResultAtBackup
  <2>4. CASE PeerConnects \/ CtSyncAtBackup \/ ElectionRequestAtBackup \/ StopPeerChannel
             \/ PeerChannelCloses
    BY <1>a, <2>4 DEF PeerConnects, CtSyncAtBackup, ElectionRequestAtBackup, StopPeerChannel,
                      PeerChannelCloses, coreVars
  <2> QED
    BY <1>2, <2>1, <2>2, <2>3, <2>4 DEF PeerSteps
<1>3. ASSUME NEW th \in Threads, ScriptSteps(th) PROVE TableMoves(c)
  BY <1>3, <1>a DEF ScriptSteps, TakeSnapshot, Publish, AnnounceSwitch
<1>4. CASE EnvironmentSteps
  <2>1. ASSUME NEW x \in Cores, NEW e \in Edges, EdgeStatus(x, e) \/ NodeWill(x, e)
        PROVE  TableMoves(c)
    <3>1. \/ EdgeMoves(x, RegisterEdge(ct[x], x, e, clock))
          \/ /\ EdgeMoves(x, SetNodeStatus(ct[x], e, Offline, clock))
             /\ e \notin attached'[x]
      BY <2>1 DEF EdgeStatus, NodeWill, TypeOK
    <3>2. ASSUME NEW t, EdgeMoves(x, t)
          PROVE  ct'[c] = ct[c] \/ (c = x /\ ct'[c] = t)
      BY <1>b, <1>c, <3>2, CoreIds DEF EdgeMoves, ActiveMoves
    <3> QED
      BY <3>1, <3>2 DEF TableMoves
  <2>2. CASE ElectionResultOnSelf
    BY <1>d, <1>p, <2>2, CoreIds DEF ElectionResultOnSelf
  <2>3. CASE \/ NoticeOfActive \/ ActiveEnds \/ LoseActiveHost \/ NoticeOfBackup \/ BackupEnds
             \/ DropSelf \/ DropPeer \/ RequestElection \/ Tick
    BY <1>a, <2>3 DEF NoticeOfActive, ActiveEnds, LoseActiveHost, NoticeOfBackup, BackupEnds,
                      DropSelf, DropPeer, RequestElection, Tick, coreVars
  <2> QED
    BY <1>4, <2>1, <2>2, <2>3 DEF EnvironmentSteps
<1> QED
  BY <1>1, <1>2, <1>3, <1>4 DEF Next

(***************************************************************************)
(* Tables on their way                                                     *)
(***************************************************************************)

\* Messages, callback steps and retained tables that carry nothing but
\* tables of the set T.
MessagesOf(T) == {m \in Message : m.kind \in {"ct_sync", "node_register"} => m.table \in T}

StepsOf(T) == {s \in Step : s.do \in {"emit", "merge"} => s.table \in T}

Carries(T) ==
  /\ ctSync \in T
  /\ aIn \in Seq(MessagesOf(T)) /\ peerIn \in Seq(MessagesOf(T))
  /\ peerOut \in Seq(MessagesOf(T))
  /\ work \in [Threads -> Seq(StepsOf(T))]

\* Which messages and steps carry tables of T.
LEMMA CarriersOf ==
  ASSUME NEW T \in SUBSET Table
  PROVE  /\ \A t \in T : CtSync(t) \in MessagesOf(T) /\ NodeRegister(t) \in MessagesOf(T)
         /\ \A c \in Cores : CoreWill(c) \in MessagesOf(T) /\ Request(c) \in MessagesOf(T)
         /\ \A c \in Cores, v \in Cores : Vote(v, c) \in MessagesOf(T)
         /\ \A topic \in Topics : Snapshot(topic) \in StepsOf(T)
         /\ \A topic \in Topics, t \in T : Emit(topic, t) \in StepsOf(T)
         /\ \A t \in T : Merge(t) \in StepsOf(T)
         /\ Switch \in StepsOf(T) /\ StopPeer \in StepsOf(T)
         /\ MessagesOf(T) \subseteq Message /\ StepsOf(T) \subseteq Step
<1>1. \A t \in T : t \in Table
  OBVIOUS
<1>2. /\ \A t \in T : CtSync(t) \in MessagesOf(T) /\ NodeRegister(t) \in MessagesOf(T)
      /\ \A c \in Cores : CoreWill(c) \in MessagesOf(T) /\ Request(c) \in MessagesOf(T)
      /\ \A c \in Cores, v \in Cores : Vote(v, c) \in MessagesOf(T)
  BY <1>1, MessageTypes DEF MessagesOf, CtSync, NodeRegister, CoreWill, Request, Vote
<1>3. /\ \A topic \in Topics : Snapshot(topic) \in StepsOf(T)
      /\ \A topic \in Topics, t \in T : Emit(topic, t) \in StepsOf(T)
      /\ \A t \in T : Merge(t) \in StepsOf(T)
      /\ Switch \in StepsOf(T) /\ StopPeer \in StepsOf(T)
  BY <1>1, StepTypes DEF StepsOf, Snapshot, Emit, Merge, Switch, StopPeer
<1> QED
  BY <1>2, <1>3 DEF MessagesOf, StepsOf

\* The first message of a queue and the first step of a callback.
LEMMA CarriedHead ==
  ASSUME NEW T \in SUBSET Table, Carries(T)
  PROVE  /\ \A q \in Seq(MessagesOf(T)) : q # <<>> =>
              /\ Head(q) \in MessagesOf(T) /\ Tail(q) \in Seq(MessagesOf(T))
              /\ Head(q).kind \in {"ct_sync", "node_register"} => Head(q).table \in T
         /\ \A th \in Threads : work[th] # <<>> =>
              /\ Head(work[th]) \in StepsOf(T) /\ Tail(work[th]) \in Seq(StepsOf(T))
              /\ Head(work[th]).do \in {"emit", "merge"} => Head(work[th]).table \in T
<1>1. \A q \in Seq(MessagesOf(T)) : q # <<>> =>
        Head(q) \in MessagesOf(T) /\ Tail(q) \in Seq(MessagesOf(T))
  BY HeadTailProperties
<1>2. \A th \in Threads : work[th] # <<>> =>
        Head(work[th]) \in StepsOf(T) /\ Tail(work[th]) \in Seq(StepsOf(T))
  BY HeadTailProperties DEF Carries
<1> QED
  BY <1>1, <1>2 DEF MessagesOf, StepsOf

\* Sending keeps what the queues carry.
LEMMA CarriedOn ==
  ASSUME NEW T \in SUBSET Table, Carries(T)
  PROVE  /\ \A q \in Seq(MessagesOf(T)) : ForA(q) \in Seq(MessagesOf(T)) /\ ForPeer(q) \in Seq(MessagesOf(T))
         /\ \A m \in MessagesOf(T) : /\ ForA(<<m>>) \in Seq(MessagesOf(T))
                                     /\ ForPeer(<<m>>) \in Seq(MessagesOf(T))
         /\ \A m \in MessagesOf(T) :
              SendByPeer(m) => aIn' \in Seq(MessagesOf(T)) /\ peerOut' \in Seq(MessagesOf(T))
         /\ \A th \in Threads, s \in Seq(StepsOf(T)) :
              [work EXCEPT ![th] = s] \in [Threads -> Seq(StepsOf(T))]
<1>1. \A q \in Seq(MessagesOf(T)) : ForA(q) \in Seq(MessagesOf(T)) /\ ForPeer(q) \in Seq(MessagesOf(T))
  BY ConcatProperties DEF Carries, ForA, ForPeer
<1>2. \A m \in MessagesOf(T) : <<m>> \in Seq(MessagesOf(T))
  OBVIOUS
<1>4. ASSUME NEW m \in MessagesOf(T), SendByPeer(m)
      PROVE  aIn' \in Seq(MessagesOf(T)) /\ peerOut' \in Seq(MessagesOf(T))
  <2>1. ForA(<<m>>) \in Seq(MessagesOf(T)) /\ Append(peerOut, m) \in Seq(MessagesOf(T))
    BY <1>1, <1>2, AppendProperties DEF Carries
  <2> QED
    BY <1>4, <2>1 DEF SendByPeer, Carries
<1>3. \A th \in Threads, s \in Seq(StepsOf(T)) :
        [work EXCEPT ![th] = s] \in [Threads -> Seq(StepsOf(T))]
  BY DEF Carries
<1> QED
  BY <1>1, <1>2, <1>3, <1>4

\* CoreA publishes its own new table, or nothing.
LEMMA ActiveMovesCarry ==
  ASSUME NEW T \in SUBSET Table, TypeOK, Carries(T), ct' \in [Cores -> T],
         NEW t, NEW changed, ActiveMoves(t, changed)
  PROVE  ctSync' \in T /\ peerIn' \in Seq(MessagesOf(T))
<1>1. t \in T
  <2>1. ct'[CoreA] = t
    BY CoreIds DEF ActiveMoves, TypeOK
  <2> QED
    BY <2>1, CoreIds
<1>2. ForPeer(<<CtSync(t)>>) \in Seq(MessagesOf(T))
  BY <1>1, CarriersOf, CarriedOn
<1> QED
  BY <1>1, <1>2 DEF ActiveMoves, PublishActiveView, Carries

\* CoreA's handlers take from its queue and publish its table.
LEMMA ActiveStepsCarry ==
  ASSUME NEW T \in SUBSET Table, TypeOK, Carries(T), ct' \in [Cores -> T], ActiveSteps
  PROVE  Carries(T)'
<1>a. ASSUME aIn # <<>> PROVE Tail(aIn) \in Seq(MessagesOf(T)) /\ Head(aIn) \in Message
  BY <1>a, CarriedHead, CarriersOf DEF Carries
<1>1. CASE NodeRegisterAtActive
  <2>1. \E t, changed : ActiveMoves(t, changed)
    BY <1>1 DEF NodeRegisterAtActive
  <2> QED
    BY <1>1, <1>a, <2>1, ActiveMovesCarry DEF NodeRegisterAtActive, ReceivedByA, Carries
<1>2. CASE CoreWillAtActive
  <2>1. \E t, changed : ActiveMoves(t, changed)
    BY <1>2 DEF CoreWillAtActive
  <2> QED
    BY <1>2, <1>a, <2>1, ActiveMovesCarry DEF CoreWillAtActive, ReceivedByA, Carries
<1>3. CASE ElectionRequestAtActive
  <2>1. Head(aIn).candidate \in Cores
    BY <1>3, <1>a, MessageFields DEF ElectionRequestAtActive, ReceivedByA
  <2>2. ForPeer(<<Vote(CoreA, Head(aIn).candidate)>>) \in Seq(MessagesOf(T))
    BY <2>1, CoreIds, CarriersOf, CarriedOn
  <2> QED
    BY <1>3, <1>a, <2>2 DEF ElectionRequestAtActive, ReceivedByA, Carries, coreVars, viewVars
<1>4. CASE ElectionResultAtActive
  <2>1. (\E t, changed : ActiveMoves(t, changed)) \/ UNCHANGED <<ctSync, peerIn>>
    BY <1>4 DEF ElectionResultAtActive
  <2> QED
    BY <1>4, <1>a, <2>1, ActiveMovesCarry DEF ElectionResultAtActive, ReceivedByA, Carries
<1>5. CASE ActiveReconnects
  <2>1. ct[CoreA] \in T
    BY <1>5, CoreIds DEF ActiveReconnects, coreVars
  <2>2. CtSync(ct[CoreA]) \in MessagesOf(T) /\ CoreWill(CoreA) \in MessagesOf(T)
    BY <2>1, CoreIds, CarriersOf
  <2>3. /\ <<CtSync(ct[CoreA])>> \in Seq(MessagesOf(T))
        /\ <<CtSync(ct[CoreA]), CoreWill(CoreA)>> \in Seq(MessagesOf(T))
    BY <2>2
  <2>4. \A q \in Seq(MessagesOf(T)) : ForPeer(q) \in Seq(MessagesOf(T))
    BY CarriedOn
  <2>5. peerIn' \in Seq(MessagesOf(T))
    BY <1>5, <2>3, <2>4 DEF ActiveReconnects
  <2> QED
    BY <1>5, <2>1, <2>5 DEF ActiveReconnects, Carries, coreVars
<1> QED
  BY <1>1, <1>2, <1>3, <1>4, <1>5 DEF ActiveSteps

\* The callback a promotion leaves carries no table yet.
LEMMA PromotionCarries ==
  ASSUME NEW T \in SUBSET Table
  PROVE  /\ PromotionScript \in Seq(StepsOf(T))
         /\ <<Snapshot("topology"), Snapshot("changed"), Switch>> \in Seq(StepsOf(T))
         /\ <<Snapshot("topology"), Snapshot("changed")>> \in Seq(StepsOf(T))
         /\ <<Snapshot("topology"), Snapshot("register")>> \in Seq(StepsOf(T))
         /\ <<Snapshot("register")>> \in Seq(StepsOf(T))
         /\ <<>> \in Seq(StepsOf(T))
<1> DEFINE a == Snapshot("topology")
           b == Snapshot("ownSync")
           c == Snapshot("peerTopology")
           d == Snapshot("peerSync")
           e == Snapshot("changed")
           f == Snapshot("register")
<1>1. {a, b, c, d, e, f, Switch, StopPeer} \subseteq StepsOf(T)
  BY StepTypes, CarriersOf
<1>2. PromotionScript = <<a, b, c, d, Switch, StopPeer>>
  BY DEF PromotionScript
<1> HIDE DEF a, b, c, d, e, f
<1>3. /\ PromotionScript \in Seq(StepsOf(T)) /\ <<a, e, Switch>> \in Seq(StepsOf(T))
      /\ <<a, e>> \in Seq(StepsOf(T)) /\ <<a, f>> \in Seq(StepsOf(T))
      /\ <<f>> \in Seq(StepsOf(T)) /\ <<>> \in Seq(StepsOf(T))
  BY <1>1, <1>2
<1> QED
  BY <1>3 DEF a, e, f

\* CoreB's peer thread passes on what it receives.
LEMMA PeerStepsCarry ==
  ASSUME NEW T \in SUBSET Table, TypeOK, Carries(T), PeerSteps
  PROVE  Carries(T)'
<1>a. ASSUME peerIn # <<>>
      PROVE  /\ Tail(peerIn) \in Seq(MessagesOf(T)) /\ Head(peerIn) \in Message
             /\ Head(peerIn).kind \in {"ct_sync", "node_register"} => Head(peerIn).table \in T
  BY <1>a, CarriedHead, CarriersOf DEF Carries
<1>b. "peer" \in Threads /\ <<>> \in Seq(MessagesOf(T))
  BY DEF Threads
<1>c. \A s \in Seq(StepsOf(T)) : [work EXCEPT !["peer"] = s] \in [Threads -> Seq(StepsOf(T))]
  BY <1>b, CarriedOn
<1>1. CASE PeerConnects
  <2>1. aIn' \in Seq(MessagesOf(T)) /\ peerOut' \in Seq(MessagesOf(T))
    BY <1>1, <1>b, CarriedOn DEF PeerConnects, Carries
  <2>2. peerIn' \in Seq(MessagesOf(T))
    <3>1. CtSync(ctSync) \in MessagesOf(T)
      BY CarriersOf DEF Carries
    <3>2. <<CtSync(ctSync)>> \in Seq(MessagesOf(T))
      BY <3>1
    <3> QED
      BY <1>1, <3>2 DEF PeerConnects, Carries
  <2>3. work' \in [Threads -> Seq(StepsOf(T))]
    BY <1>1, <1>c, PromotionCarries DEF PeerConnects, Carries
  <2> QED
    BY <1>1, <2>1, <2>2, <2>3 DEF PeerConnects, Carries, viewVars
<1>2. CASE CtSyncAtBackup
  <2>1. /\ peerIn' \in Seq(MessagesOf(T)) /\ Head(peerIn).table \in T
    BY <1>2, <1>a DEF CtSyncAtBackup, ReceivedByPeer
  <2>2. Merge(Head(peerIn).table) \in StepsOf(T)
    BY <2>1, CarriersOf
  <2>3. <<Merge(Head(peerIn).table)>> \in Seq(StepsOf(T))
    BY <2>2
  <2>4. work' \in [Threads -> Seq(StepsOf(T))]
    BY <1>2, <1>c, <2>3 DEF CtSyncAtBackup, Carries
  <2> QED
    BY <1>2, <2>1, <2>4 DEF CtSyncAtBackup, Carries, viewVars
<1>3. CASE MergeAtBackup
  <2>1. \E s \in Seq(StepsOf(T)) : work' = [work EXCEPT !["peer"] = s]
    BY <1>3, PromotionCarries DEF MergeAtBackup
  <2> QED
    BY <1>3, <1>c, <2>1 DEF MergeAtBackup, Carries, linkVars, viewVars
<1>4. CASE CoreWillAtBackup \/ ElectionResultAtBackup
  <2>1. peerIn' \in Seq(MessagesOf(T))
    BY <1>4, <1>a DEF CoreWillAtBackup, ElectionResultAtBackup, ReceivedByPeer
  <2>2. work' = work \/ work' = [work EXCEPT !["peer"] = PromotionScript]
    BY <1>4 DEF CoreWillAtBackup, ElectionResultAtBackup, Promote
  <2>3. work' \in [Threads -> Seq(StepsOf(T))]
    BY <1>c, <2>2, PromotionCarries DEF Carries
  <2> QED
    BY <1>4, <2>1, <2>3 DEF CoreWillAtBackup, ElectionResultAtBackup, Carries, viewVars
<1>5. CASE ElectionRequestAtBackup
  <2>1. Head(peerIn).candidate \in Cores /\ peerIn' \in Seq(MessagesOf(T))
    BY <1>5, <1>a, MessageFields DEF ElectionRequestAtBackup, ReceivedByPeer
  <2>2. ForA(<<Vote(CoreB, Head(peerIn).candidate)>>) \in Seq(MessagesOf(T))
    BY <2>1, CoreIds, CarriersOf, CarriedOn
  <2> QED
    BY <1>5, <2>1, <2>2 DEF ElectionRequestAtBackup, Carries, coreVars, viewVars
<1>6. CASE StopPeerChannel
  <2>1. Tail(work["peer"]) \in Seq(StepsOf(T))
    BY <1>6, <1>b, CarriedHead DEF StopPeerChannel, Running
  <2>2. work' \in [Threads -> Seq(StepsOf(T))]
    BY <1>6, <1>c, <2>1 DEF StopPeerChannel
  <2> QED
    BY <1>6, <1>b, <2>2 DEF StopPeerChannel, Carries, viewVars
<1>7. CASE PeerChannelCloses
  BY <1>7, <1>b DEF PeerChannelCloses, Carries, coreVars, viewVars
<1> QED
  BY <1>1, <1>2, <1>3, <1>4, <1>5, <1>6, <1>7 DEF PeerSteps

\* CoreB's snapshots are of its table, its publications of its snapshots.
LEMMA ScriptStepsCarry ==
  ASSUME NEW T \in SUBSET Table, TypeOK, Carries(T), ct \in [Cores -> T],
         NEW th \in Threads, ScriptSteps(th)
  PROVE  Carries(T)'
<1>a. ASSUME work[th] # <<>>
      PROVE  /\ Head(work[th]) \in Step /\ Tail(work[th]) \in Seq(StepsOf(T))
             /\ [work EXCEPT ![th] = Tail(work[th])] \in [Threads -> Seq(StepsOf(T))]
  BY <1>a, CarriedHead, CarriedOn, CarriersOf
<1>1. CASE TakeSnapshot(th)
  <2> DEFINE asked == Head(work[th]).topic
             topic == IF asked # "changed" THEN asked
                      ELSE IF isBackup[CoreB] THEN "register" ELSE "ownSync"
             step  == Emit(topic, ct[CoreB])
             rest  == Tail(work[th])
  <2>1. asked \in Topics /\ rest \in Seq(StepsOf(T))
    BY <1>1, <1>a, StepFields DEF TakeSnapshot, Running
  <2>2. topic \in Topics
    BY <2>1, StepTypes
  <2>3. step \in StepsOf(T)
    BY <2>2, CoreIds, CarriersOf
  <2>4. work' = [work EXCEPT ![th] = <<step>> \o rest]
    BY <1>1 DEF TakeSnapshot, Carries
  <2> HIDE DEF step, rest
  <2>5. <<step>> \o rest \in Seq(StepsOf(T))
    <3>1. <<step>> \in Seq(StepsOf(T))
      BY <2>3
    <3> QED
      BY <2>1, <3>1, ConcatProperties
  <2>6. work' \in [Threads -> Seq(StepsOf(T))]
    BY <2>4, <2>5, CarriedOn
  <2> QED
    BY <1>1, <2>6 DEF TakeSnapshot, Carries, linkVars, viewVars
<1>2. CASE Publish(th)
  <2> DEFINE t == Head(work[th]).table
  <2>1. t \in T
    BY <1>2, CarriedHead DEF Publish, Running
  <2>2. ctSync' \in T
    BY <1>2, <2>1 DEF Publish, Carries
  <2>3. NodeRegister(t) \in MessagesOf(T)
    BY <2>1, CarriersOf
  <2>4. aIn' \in Seq(MessagesOf(T)) /\ peerOut' \in Seq(MessagesOf(T))
    <3>1. CASE SendByPeer(NodeRegister(t))
      BY <2>3, <3>1, CarriedOn
    <3>2. CASE UNCHANGED <<aIn, peerOut>>
      BY <3>2 DEF Carries
    <3> QED
      BY <1>2, <3>1, <3>2 DEF Publish
  <2>5. work' \in [Threads -> Seq(StepsOf(T))]
    BY <1>2, <1>a DEF Publish, Running, Carries
  <2> QED
    BY <1>2, <2>2, <2>4, <2>5 DEF Publish, Carries
<1>3. CASE AnnounceSwitch(th)
  <2>1. work' \in [Threads -> Seq(StepsOf(T))]
    BY <1>3, <1>a DEF AnnounceSwitch, Running, Carries
  <2> QED
    BY <1>3, <2>1 DEF AnnounceSwitch, Carries, linkVars
<1> QED
  BY <1>1, <1>2, <1>3 DEF ScriptSteps

\* Edges cause publications of the table they changed; faults send wills.
LEMMA EnvironmentStepsCarry ==
  ASSUME NEW T \in SUBSET Table, TypeOK, Carries(T), ct' \in [Cores -> T], EnvironmentSteps
  PROVE  Carries(T)'
<1>a. "self" \in Threads /\ <<>> \in Seq(MessagesOf(T))
  BY DEF Threads
<1>b. \A c \in Cores : /\ CoreWill(c) \in MessagesOf(T)
                       /\ ForA(<<CoreWill(c)>>) \in Seq(MessagesOf(T))
                       /\ ForPeer(<<CoreWill(c)>>) \in Seq(MessagesOf(T))
  BY CarriersOf, CarriedOn
<1>1. ASSUME NEW c \in Cores, NEW e \in Edges, EdgeStatus(c, e) \/ NodeWill(c, e)
      PROVE  Carries(T)'
  <2>1. PICK t : EdgeMoves(c, t)
    BY <1>1 DEF EdgeStatus, NodeWill
  <2>2. UNCHANGED <<aIn, peerOut>>
    BY <1>1 DEF EdgeStatus, NodeWill
  <2>3. CASE c = CoreA
    <3>1. UNCHANGED work /\ \E u, changed : ActiveMoves(u, changed)
      BY <2>1, <2>3 DEF EdgeMoves
    <3> QED
      BY <2>2, <3>1, ActiveMovesCarry DEF Carries
  <2>4. CASE c # CoreA
    <3>1. \/ work' = work
          \/ work' = [work EXCEPT !["self"] = <<Snapshot("topology"), Snapshot("changed")>>]
      BY <2>1, <2>4 DEF EdgeMoves
    <3>2. work' \in [Threads -> Seq(StepsOf(T))]
      BY <1>a, <3>1, CarriedOn, PromotionCarries DEF Carries
    <3> QED
      BY <2>1, <2>2, <2>4, <3>2 DEF EdgeMoves, Carries
  <2> QED
    BY <2>3, <2>4
<1>2. CASE NoticeOfActive \/ ActiveEnds
  BY <1>2, <1>a, <1>b, CoreIds DEF NoticeOfActive, ActiveEnds, Carries, viewVars
<1>3. CASE LoseActiveHost
  BY <1>3, <1>a DEF LoseActiveHost, Carries, viewVars
<1>4. CASE BackupEnds
  <2>1. work' \in [Threads -> Seq(StepsOf(T))]
    BY <1>4, PromotionCarries DEF BackupEnds
  <2> QED
    BY <1>4, <1>a, <1>b, <2>1, CoreIds DEF BackupEnds, Carries, viewVars
<1>9. CASE NoticeOfBackup
  BY <1>9, <1>b, CoreIds, CarriedOn DEF NoticeOfBackup, Carries, viewVars
<1>5. CASE DropSelf \/ DropPeer
  BY <1>5, <1>a, <1>b, CoreIds DEF DropSelf, DropPeer, Carries, coreVars, viewVars
<1>6. CASE RequestElection
  <2>1. PICK candidate \in Cores :
          aIn' = ForA(<<Request(candidate)>>) /\ peerIn' = ForPeer(<<Request(candidate)>>)
    BY <1>6 DEF RequestElection
  <2>2. Request(candidate) \in MessagesOf(T)
    BY CarriersOf
  <2>3. aIn' \in Seq(MessagesOf(T)) /\ peerIn' \in Seq(MessagesOf(T))
    BY <2>1, <2>2, CarriedOn
  <2> QED
    BY <1>6, <2>3 DEF RequestElection, Carries, coreVars, viewVars
<1>7. CASE ElectionResultOnSelf
  <2>1. work' \in [Threads -> Seq(StepsOf(T))]
    BY <1>7, <1>a, CarriedOn, PromotionCarries DEF ElectionResultOnSelf, Promote
  <2> QED
    BY <1>7, <2>1 DEF ElectionResultOnSelf, Carries, linkVars, viewVars
<1>8. CASE Tick
  BY <1>8 DEF Tick, Carries, coreVars, linkVars, viewVars
<1> QED
  BY <1>1, <1>2, <1>3, <1>4, <1>5, <1>6, <1>7, <1>8, <1>9 DEF EnvironmentSteps

\* While the cores' own tables are in T, nothing else is ever on its way.
LEMMA CarriesKept ==
  ASSUME NEW T \in SUBSET Table, TypeOK, Carries(T),
         ct \in [Cores -> T], ct' \in [Cores -> T], Next
  PROVE  Carries(T)'
BY ActiveStepsCarry, PeerStepsCarry, ScriptStepsCarry, EnvironmentStepsCarry DEF Next

(***************************************************************************)
(* Links                                                                   *)
(***************************************************************************)

\* A table that has room left names no node it has no row for.
Linked(t) ==
  Room(t) > 0 => /\ \A l \in t.links : {l[1], l[2]} \subseteq Known(t)
                 /\ t.backup \in Known(t) \cup {NoId}

LinkedTables == {t \in Table : Linked(t)}

\* The tables of core c that are linked and hold the row of c itself, which
\* every link the core adds starts at.
OwnTables(c) == {t \in LinkedTables : c \in Known(t)}

\* The inductive invariant: a link may come from any snapshot that is on its
\* way, so every table anywhere is linked.
LinkInv ==
  /\ \A c \in Cores : ct[c] \in OwnTables(c)
  /\ Carries(LinkedTables)

\* A table that grows within its room stays linked if its new links and its
\* backup are known.
LEMMA StaysLinked ==
  ASSUME NEW t \in Table, NEW u \in Table, Linked(t), Known(t) \subseteq Known(u),
         Room(u) > 0 => /\ \A l \in u.links \ t.links : {l[1], l[2]} \subseteq Known(u)
                        /\ u.backup \in Known(u) \cup {NoId, t.backup}
  PROVE  Linked(u)
<1> SUFFICES ASSUME Room(u) > 0
             PROVE  /\ \A l \in u.links : {l[1], l[2]} \subseteq Known(u)
                    /\ u.backup \in Known(u) \cup {NoId}
  BY DEF Linked
<1>1. Room(t) > 0
  <2>1. Room(t) \in Int /\ Room(u) \in Int /\ Room(u) <= Room(t)
    BY RoomShrinks
  <2> QED
    BY <2>1
<1>2. /\ \A l \in t.links : {l[1], l[2]} \subseteq Known(t)
      /\ t.backup \in Known(t) \cup {NoId}
  BY <1>1 DEF Linked
<1> QED
  BY <1>2

\* Both merges of a linked snapshot into a linked table.
LEMMA MergesStayLinked ==
  ASSUME NEW t \in LinkedTables, NEW r \in LinkedTables, NEW admitted \in Admissions(t, r),
         NEW self \in Known(t)
  PROVE  /\ Linked(MergeConnectionTables(t, r, admitted))
         /\ Linked(MergeBackupRegistration(t, self, r, admitted))
<1>1. t \in Table /\ Linked(t) /\ r \in Table /\ Linked(r) /\ self \in Ids
  BY DEF LinkedTables, Known
\* With room left every row of the snapshot was taken, so it has room as well.
<1>2. ASSUME NEW u, Room(u) > 0, Known(r) \subseteq Known(u)
      PROVE  /\ \A l \in r.links : {l[1], l[2]} \subseteq Known(u)
             /\ r.backup \in Known(u) \cup {NoId}
  <2>1. Room(r) > 0
    <3>1. Room(r) \in Int /\ Room(u) \in Int /\ Room(u) <= Room(r)
      BY <1>2, RoomShrinks
    <3> QED
      BY <1>2, <3>1
  <2> QED
    BY <1>1, <1>2, <2>1 DEF Linked
<1>3. Linked(MergeConnectionTables(t, r, admitted))
  <2> DEFINE u == MergeConnectionTables(t, r, admitted)
  <2>1. /\ u \in Table /\ Known(t) \subseteq Known(u) /\ (Room(u) > 0 => Known(r) \subseteq Known(u))
        /\ u.links = t.links \cup r.links /\ u.backup = t.backup
    BY <1>1, MergesAdvance, MergeKnows
  <2> HIDE DEF u
  <2>2. ASSUME Room(u) > 0
        PROVE  \A l \in u.links \ t.links : {l[1], l[2]} \subseteq Known(u)
    BY <1>2, <2>1, <2>2
  <2> QED
    BY <1>1, <2>1, <2>2, StaysLinked DEF u
<1>4. Linked(MergeBackupRegistration(t, self, r, admitted))
  <2> DEFINE u == MergeBackupRegistration(t, self, r, admitted)
  <2>1. /\ u \in Table /\ Known(t) \subseteq Known(u) /\ (Room(u) > 0 => Known(r) \subseteq Known(u))
        /\ u.backup = IF r.backup = NoId THEN t.backup ELSE r.backup
        /\ u.links = t.links \cup r.links \cup (IF r.backup = NoId THEN {} ELSE {<<self, r.backup>>})
    BY <1>1, MergesAdvance, RegistrationKnows
  <2> HIDE DEF u
  <2>2. ASSUME Room(u) > 0
        PROVE  /\ \A l \in u.links \ t.links : {l[1], l[2]} \subseteq Known(u)
               /\ u.backup \in Known(u) \cup {NoId, t.backup}
    <3>1. /\ \A l \in r.links : {l[1], l[2]} \subseteq Known(u)
          /\ r.backup \in Known(u) \cup {NoId}
      BY <1>2, <2>1, <2>2
    <3>2. r.backup # NoId => {self, r.backup} \subseteq Known(u)
      BY <2>1, <3>1
    <3>3. ASSUME NEW l \in u.links \ t.links PROVE {l[1], l[2]} \subseteq Known(u)
      <4>1. CASE l \in r.links
        BY <3>1, <4>1
      <4>2. CASE l \notin r.links
        <5>1. r.backup # NoId /\ l = <<self, r.backup>>
          BY <2>1, <3>3, <4>2
        <5> QED
          BY <3>2, <5>1
      <4> QED
        BY <4>1, <4>2
    <3> QED
      BY <2>1, <3>1, <3>3
  <2> QED
    BY <1>1, <2>1, <2>2, StaysLinked DEF u
<1> QED
  BY <1>3, <1>4

\* Renaming the Active changes neither rows nor links.
LEMMA RenamedKnows ==
  ASSUME NEW t \in Table, NEW r \in Table
  PROVE  LET u == Renamed(t, r)
         IN  /\ u \in Table /\ u.nodes = t.nodes /\ u.links = t.links /\ u.backup = t.backup
             /\ Known(u) = Known(t) /\ Room(u) = Room(t)
<1> DEFINE u == Renamed(t, r)
<1>1. u \in Table /\ u.nodes = t.nodes /\ u.links = t.links /\ u.backup = t.backup
  <2>1. CASE r.active = NoId
    BY <2>1 DEF Renamed
  <2>2. CASE r.active # NoId
    <3>1. r.active \in Ids \cup {NoId} /\ u = SetActiveCoreId(t, r.active)
      BY <2>2 DEF Table, Renamed
    <3> QED
      BY <3>1, SetCoreIdAdvances, SetCoreIdKnows
  <2> QED
    BY <2>1, <2>2
<1> HIDE DEF u
<1>2. Known(u) = Known(t) /\ Room(u) = Room(t)
  BY <1>1, SameRows
<1> QED
  BY <1>1, <1>2 DEF u

\* Whatever changes the table of a core leaves it linked, with its own row.
LEMMA OwnTablesKept ==
  ASSUME TypeOK, LinkInv, Next, NEW c \in Cores
  PROVE  ct'[c] \in OwnTables(c)
<1> DEFINE t == ct[c]
           u == ct'[c]
<1>1. t \in Table /\ Linked(t) /\ c \in Known(t) /\ c \in Ids /\ t \in LinkedTables
  BY CoreIds DEF LinkInv, OwnTables, LinkedTables
<1>2. u \in Table
  <2>1. TypeOK'
    BY TypeCorrectStep
  <2> QED
    BY <2>1 DEF TypeOK
<1>3. clock \in Nat
  BY DEF TypeOK
<1>4. LinkedTables \in SUBSET Table
  BY DEF LinkedTables
<1>5. TableMoves(c)
  BY TablesMove
<1> SUFFICES Linked(u) /\ c \in Known(u)
  BY <1>2 DEF OwnTables, LinkedTables
\* Steps that add no link and keep the backup or clear it.
<1>a. ASSUME Known(u) = Known(t), u.links = t.links, u.backup \in {t.backup, NoId}
      PROVE  Linked(u) /\ c \in Known(u)
  <2>1. /\ \A l \in u.links \ t.links : {l[1], l[2]} \subseteq Known(u)
        /\ u.backup \in Known(u) \cup {NoId, t.backup}
    BY <1>a
  <2> HIDE DEF t, u
  <2> QED
    BY <1>1, <1>2, <1>a, <2>1, StaysLinked
<1>6. CASE ct'[c] = ct[c]
  BY <1>1, <1>6
<1>7. ASSUME NEW e \in Edges, ct'[c] = RegisterEdge(ct[c], c, e, clock)
      PROVE  Linked(u) /\ c \in Known(u)
  <2>1. /\ Known(t) \subseteq Known(u) /\ u.links = t.links \cup {<<c, e>>} /\ u.backup = t.backup
        /\ e \in Known(u) \/ Room(u) <= 0
    BY <1>1, <1>3, <1>7, RegisterEdgeKnows
  <2>2. ASSUME Room(u) > 0 PROVE e \in Known(u)
    <3>1. Room(u) \in Int
      BY RoomShrinks
    <3>2. ~ (Room(u) <= 0)
      BY <2>2, <3>1
    <3> QED
      BY <2>1, <3>2
  <2>3. ASSUME Room(u) > 0, NEW l \in u.links \ t.links PROVE {l[1], l[2]} \subseteq Known(u)
    <3>1. l = <<c, e>>
      BY <2>1, <2>3
    <3> QED
      BY <1>1, <2>1, <2>2, <2>3, <3>1
  <2> HIDE DEF t, u
  <2> QED
    BY <1>1, <1>2, <2>1, <2>3, StaysLinked
<1>8. ASSUME NEW e \in Edges, ct'[c] = SetNodeStatus(ct[c], e, Offline, clock)
      PROVE  Linked(u) /\ c \in Known(u)
  BY <1>1, <1>3, <1>8, <1>a, CoreIds, SetNodeStatusKnows
<1>9. ASSUME c = CoreA, aIn # <<>>, Head(aIn).kind = "node_register",
             NEW admitted \in Admissions(ct[c], Head(aIn).table),
             ct'[c] = MergeBackupRegistration(ct[c], c, Head(aIn).table, admitted)
      PROVE  Linked(u) /\ c \in Known(u)
  <2>1. Head(aIn).table \in LinkedTables
    BY <1>4, <1>9, CarriedHead DEF LinkInv, Carries
  <2>2. Head(aIn).table \in Table
    BY <1>4, <2>1
  <2>3. Linked(u)
    BY <1>1, <1>9, <2>1, MergesStayLinked
  <2>4. Known(t) \subseteq Known(u)
    BY <1>1, <1>9, <2>2, RegistrationKnows
  <2> QED
    BY <1>1, <2>3, <2>4
<1>10. ASSUME NEW core \in Cores, ct'[c] = DropPeerCore(ct[c], core, clock)
       PROVE  Linked(u) /\ c \in Known(u)
  BY <1>1, <1>3, <1>10, <1>a, CoreIds, DropPeerCoreKnows
<1>11. ASSUME NEW failed \in Cores \cup {ct[c].active},
              ct'[c] = PromoteCoreAfterFailover(ct[c], c, failed, clock)
       PROVE  Linked(u) /\ c \in Known(u)
  <2>1. failed \in Ids \cup {NoId}
    BY <1>1, CoreIds DEF Table
  <2>2. Known(u) = Known(t) /\ u.links = t.links /\ u.backup = NoId
    BY <1>1, <1>3, <1>11, <2>1, PromoteKnows
  <2> QED
    BY <1>a, <2>2
<1>12. ASSUME c = CoreB, work["peer"] # <<>>, Head(work["peer"]).do = "merge",
              NEW remote, remote = Head(work["peer"]).table,
              NEW admitted \in Admissions(Renamed(ct[c], remote), remote),
              ct'[c] = MergeConnectionTables(Renamed(ct[c], remote), remote, admitted)
       PROVE  Linked(u) /\ c \in Known(u)
  <2>1. remote \in LinkedTables /\ remote \in Table
    BY <1>4, <1>12, CarriedHead DEF LinkInv, Threads
  <2> DEFINE local == Renamed(t, remote)
  <2>2. /\ local \in Table /\ local.links = t.links /\ local.backup = t.backup
        /\ Known(local) = Known(t) /\ Room(local) = Room(t)
    BY <1>1, <2>1, RenamedKnows
  <2>3. local \in LinkedTables /\ c \in Known(local)
    BY <1>1, <2>2 DEF LinkedTables, Linked
  <2>4. Linked(u)
    BY <1>12, <2>1, <2>3, MergesStayLinked
  <2>5. Known(local) \subseteq Known(u)
    BY <1>12, <2>1, <2>2, MergeKnows
  <2> QED
    BY <2>3, <2>4, <2>5
<1> QED
  BY <1>5, <1>6, <1>7, <1>8, <1>9, <1>10, <1>11, <1>12 DEF TableMoves

\* The table a core starts with.
LEMMA StartTableKnows ==
  ASSUME NEW c \in Cores
  PROVE  LET t == StartTable(c)
         IN  /\ t \in Table /\ Known(t) = {c} /\ t.links = {}
             /\ t.active = (IF c = CoreA THEN CoreA ELSE NoId)
             /\ t.backup = (IF c = CoreA THEN NoId ELSE c)
<1> DEFINE t0  == IF c = CoreA THEN NewTable(c, NoId) ELSE NewTable(NoId, c)
           row == [status |-> Online, prev |-> Online, at |-> 1]
<1>1. /\ t0 \in Table /\ Known(t0) = {} /\ t0.links = {}
      /\ t0.active = (IF c = CoreA THEN CoreA ELSE NoId)
      /\ t0.backup = (IF c = CoreA THEN NoId ELSE c)
  <2>1. t0 \in Table
    BY CoreIds, NewTableType
  <2> QED
    BY <2>1 DEF NewTable, NoRow, Known
<1>2. Room(t0) > 0
  <2>1. Cardinality(Known(t0)) = 0
    BY <1>1, FS_EmptySet
  <2>2. MaxNodes \in Nat /\ MaxNodes >= 2
    BY TableConstants, ClusterConstants
  <2> QED
    BY <2>1, <2>2 DEF Room
<1>3. Room(t0) \in Int
  BY RoomShrinks
<1>4. ~ (Room(t0) <= 0 \/ c \in Known(t0))
  BY <1>1, <1>2, <1>3
<1>5. StartTable(c) = AddNode(t0, c, Announced(Online), 1)
  BY DEF StartTable
<1> HIDE DEF t0
<1>6. StartTable(c) = PutRow(t0, c, row)
  BY <1>4, <1>5 DEF AddNode, Announced
<1>7. row \in Row /\ row.status # Absent /\ c \in Ids
  BY CoreIds DEF Row, Online, Absent
<1> HIDE DEF row
<1> DEFINE u == PutRow(t0, c, row)
<1>8. /\ u \in Table /\ Known(u) = Known(t0) \cup {c} /\ u.links = t0.links
      /\ u.active = t0.active /\ u.backup = t0.backup
  <2>1. t0 \in Table
    BY <1>1
  <2>2. u \in Table
    BY <1>7, <2>1, PutRowAdvances
  <2>3. /\ Known(u) = Known(t0) \cup {c} /\ u.links = t0.links
        /\ u.active = t0.active /\ u.backup = t0.backup
    BY <1>7, <2>1, PutRowKnows
  <2> QED
    BY <2>2, <2>3
<1> HIDE DEF u
<1> QED
  BY <1>1, <1>6, <1>8 DEF u

\* The links of every table anywhere are sound in every reachable state.
LEMMA LinkInvariant == Spec => []LinkInv
<1>1. LinkedTables \in SUBSET Table
  BY DEF LinkedTables
<1>2. Init => LinkInv
  <2> SUFFICES ASSUME Init PROVE LinkInv
    OBVIOUS
  <2>1. \A c \in Cores : StartTable(c) \in OwnTables(c)
    BY StartTableKnows DEF OwnTables, LinkedTables, Linked
  <2>2. StartTable(CoreA) \in LinkedTables
    BY <2>1, CoreIds DEF OwnTables
  <2>3. <<>> \in Seq(MessagesOf(LinkedTables)) /\ <<>> \in Seq(StepsOf(LinkedTables))
    OBVIOUS
  <2> QED
    BY <2>1, <2>2, <2>3 DEF Init, LinkInv, Carries
<1>3. TypeOK /\ LinkInv /\ [Next]_vars => LinkInv'
  <2> SUFFICES ASSUME TypeOK, LinkInv, [Next]_vars PROVE LinkInv'
    OBVIOUS
  <2>1. CASE Next
    <3>1. \A c \in Cores : ct'[c] \in OwnTables(c)
      BY <2>1, OwnTablesKept
    <3>2. ct \in [Cores -> LinkedTables] /\ ct' \in [Cores -> LinkedTables]
      <4>1. ct \in [Cores -> Table] /\ ct' \in [Cores -> Table]
        BY <2>1, TypeCorrectStep DEF TypeOK
      <4> QED
        BY <3>1, <4>1 DEF LinkInv, OwnTables
    <3>3. Carries(LinkedTables)'
      BY <1>1, <2>1, <3>2, CarriesKept DEF LinkInv
    <3> QED
      BY <3>1, <3>3 DEF LinkInv
  <2>2. CASE UNCHANGED vars
    BY <2>2 DEF vars, coreVars, linkVars, viewVars, LinkInv, Carries
  <2> QED
    BY <2>1, <2>2
<1> QED
  BY <1>2, <1>3, TypeCorrect, PTL DEF Spec

\* As long as a core's table has room, every link in it joins two nodes it has
\* rows for, whatever snapshots it has merged and in whatever order: a link is
\* only ever stored together with both rows, or by a table that is full.
THEOREM LinksJoinKnownNodes == Spec => []LinkEndsKnown
<1>1. LinkInv => LinkEndsKnown
  BY DEF LinkInv, OwnTables, LinkedTables, Linked, LinkEndsKnown
<1> QED
  BY <1>1, LinkInvariant, PTL

(***************************************************************************)
(* Registered edges                                                        *)
(***************************************************************************)

\* The Active's connection to its own broker does not break.
OwnConnectionHolds == "selfDrop" \notin Faults

\* What a table shows of an edge that registered: ONLINE, unless another id
\* announced the same endpoint or the table was full.
Shown(t, e) ==
  \/ t.nodes[e].status = Online
  \/ \E d \in Edges \ {e} : Endpoint[d] = Endpoint[e]
  \/ t.nodes[e].status = Absent /\ Room(t) <= 0

\* The inductive invariant.  An edge that a full table refused must stay
\* refused: an OFFLINE row of it may arrive in a snapshot.
EdgeInv ==
  /\ selfUp
  /\ ct[CoreA].active = CoreA
  /\ \A e \in attached[CoreA] : Shown(ct[CoreA], e)

\* CoreA's connection stays up.
LEMMA SelfStaysUp ==
  ASSUME TypeOK, OwnConnectionHolds, selfUp, Next
  PROVE  selfUp'
<1>1. CASE ActiveSteps
  BY <1>1 DEF ActiveSteps, NodeRegisterAtActive, CoreWillAtActive, ElectionRequestAtActive,
              ElectionResultAtActive, ActiveReconnects
<1>2. CASE PeerSteps
  BY <1>2 DEF PeerSteps, PeerConnects, CtSyncAtBackup, MergeAtBackup, CoreWillAtBackup,
              ElectionRequestAtBackup, ElectionResultAtBackup, StopPeerChannel,
              PeerChannelCloses, linkVars
<1>3. ASSUME NEW th \in Threads, ScriptSteps(th) PROVE selfUp'
  BY <1>3 DEF ScriptSteps, TakeSnapshot, Publish, AnnounceSwitch, linkVars
<1>4. CASE EnvironmentSteps
  BY <1>4 DEF EnvironmentSteps, EdgeStatus, NodeWill, NoticeOfActive, ActiveEnds,
              LoseActiveHost, NoticeOfBackup, BackupEnds, DropSelf, DropPeer, RequestElection, ElectionResultOnSelf, Tick,
              linkVars, Fault, OwnConnectionHolds
<1> QED
  BY <1>1, <1>2, <1>3, <1>4 DEF Next

\* An edge is attached to CoreA by the step in which CoreA registers it.
LEMMA AttachedRegisters ==
  ASSUME TypeOK, selfUp, Next
  PROVE  \/ attached'[CoreA] \subseteq attached[CoreA]
         \/ \E e \in Edges : /\ attached'[CoreA] = attached[CoreA] \cup {e}
                             /\ ct'[CoreA] = RegisterEdge(ct[CoreA], CoreA, e, clock)
<1>1. CASE ActiveSteps
  BY <1>1 DEF ActiveSteps, NodeRegisterAtActive, CoreWillAtActive, ElectionRequestAtActive,
              ElectionResultAtActive, ActiveReconnects, envVars
<1>2. CASE PeerSteps
  BY <1>2 DEF PeerSteps, PeerConnects, CtSyncAtBackup, MergeAtBackup, CoreWillAtBackup,
              ElectionRequestAtBackup, ElectionResultAtBackup, StopPeerChannel,
              PeerChannelCloses, envVars
<1>3. CASE \E th \in Threads : ScriptSteps(th)
  BY <1>3 DEF ScriptSteps, TakeSnapshot, Publish, AnnounceSwitch, envVars
<1>4. CASE EnvironmentSteps
  <2>1. ASSUME NEW c \in Cores, NEW e \in Edges, EdgeStatus(c, e)
        PROVE  \/ attached'[CoreA] \subseteq attached[CoreA]
               \/ /\ attached'[CoreA] = attached[CoreA] \cup {e}
                  /\ ct'[CoreA] = RegisterEdge(ct[CoreA], CoreA, e, clock)
    <3>1. CASE c # CoreA
      BY <2>1, <3>1 DEF EdgeStatus, TypeOK
    <3>2. CASE c = CoreA
      <4>1. Listening
        BY <2>1, <3>2 DEF EdgeStatus, Listening
      <4> QED
        BY <2>1, <3>2, <4>1, CoreIds DEF EdgeStatus, EdgeMoves, ActiveMoves, TypeOK
    <3> QED
      BY <3>1, <3>2
  <2>2. ASSUME NEW c \in Cores, NEW e \in Edges, NodeWill(c, e)
        PROVE  attached'[CoreA] \subseteq attached[CoreA]
    BY <2>2 DEF NodeWill, TypeOK
  <2>3. CASE \/ NoticeOfActive \/ ActiveEnds \/ LoseActiveHost \/ NoticeOfBackup \/ BackupEnds
             \/ DropSelf \/ DropPeer \/ RequestElection \/ ElectionResultOnSelf \/ Tick
    BY <2>3 DEF NoticeOfActive, ActiveEnds, LoseActiveHost, NoticeOfBackup, BackupEnds,
                DropSelf, DropPeer, RequestElection, ElectionResultOnSelf, Tick
  <2> QED
    BY <1>4, <2>1, <2>2, <2>3 DEF EnvironmentSteps
<1> QED
  BY <1>1, <1>2, <1>3, <1>4 DEF Next

\* CoreA names itself the Active for ever.
LEMMA ActiveNamesItself ==
  ASSUME TypeOK, ct[CoreA].active = CoreA, Next
  PROVE  ct'[CoreA].active = CoreA
<1>1. /\ ct[CoreA] \in Table /\ clock \in Nat /\ CoreA \in Cores /\ CoreA \in Ids
      /\ CoreA # CoreB /\ Edges \subseteq Ids /\ Cores \subseteq Ids
  BY CoreIds DEF TypeOK
<1>2. TableMoves(CoreA)
  BY <1>1, TablesMove
<1>3. ASSUME aIn # <<>>, Head(aIn).kind = "node_register" PROVE Head(aIn).table \in Table
  BY <1>3, HeadTailProperties, MessageFields DEF TypeOK
<1>4. CASE \E e \in Edges : \/ ct'[CoreA] = RegisterEdge(ct[CoreA], CoreA, e, clock)
                            \/ ct'[CoreA] = SetNodeStatus(ct[CoreA], e, Offline, clock)
  BY <1>1, <1>4, EdgeKeepsCoreIds
<1>5. CASE /\ aIn # <<>> /\ Head(aIn).kind = "node_register"
           /\ \E admitted \in Admissions(ct[CoreA], Head(aIn).table) :
                ct'[CoreA] = MergeBackupRegistration(ct[CoreA], CoreA, Head(aIn).table, admitted)
  BY <1>1, <1>3, <1>5, RegistrationKnows
<1>6. CASE \E core \in Cores : ct'[CoreA] = DropPeerCore(ct[CoreA], core, clock)
  BY <1>1, <1>6, DropPeerCoreKnows
<1>7. CASE \E failed \in Cores \cup {ct[CoreA].active} :
             ct'[CoreA] = PromoteCoreAfterFailover(ct[CoreA], CoreA, failed, clock)
  <2>1. PICK failed \in Cores \cup {ct[CoreA].active} :
          ct'[CoreA] = PromoteCoreAfterFailover(ct[CoreA], CoreA, failed, clock)
    BY <1>7
  <2>2. failed \in Ids \cup {NoId}
    BY <1>1
  <2> QED
    BY <1>1, <2>1, <2>2, PromoteKnows
<1> QED
  BY <1>1, <1>2, <1>4, <1>5, <1>6, <1>7 DEF TableMoves

\* No move of CoreA's table takes an attached edge off the screen.
LEMMA EdgesStayShown ==
  ASSUME TypeOK, EdgeInv, Next, NEW e \in attached'[CoreA]
  PROVE  Shown(ct'[CoreA], e)
<1> DEFINE t == ct[CoreA]
           u == ct'[CoreA]
<1>1. /\ t \in Table /\ clock \in Nat /\ CoreA \in Cores /\ CoreA \in Ids /\ CoreA # CoreB
      /\ Edges \subseteq Ids /\ Cores \subseteq Ids
      /\ Cores \cap Edges = {}
  BY CoreIds, TableConstants DEF TypeOK
<1>2. e \in Edges
  <2>1. TypeOK'
    BY TypeCorrectStep
  <2> QED
    BY <1>1, <2>1 DEF TypeOK
\* A table that knows at least as much and has the same row, or an ONLINE one.
<1>a. ASSUME Shown(t, e), Known(t) \subseteq Known(u),
             \/ u.nodes[e] = t.nodes[e]
             \/ \E d \in Edges \ {e} : Endpoint[d] = Endpoint[e]
             \/ u.nodes[e].status = Online
      PROVE  Shown(u, e)
  <2> HIDE DEF t, u
  <2>1. Room(t) \in Int /\ Room(u) \in Int /\ Room(u) <= Room(t)
    BY <1>a, RoomShrinks
  <2>2. Room(t) <= 0 => Room(u) <= 0
    BY <2>1
  <2> QED
    BY <1>a, <2>2 DEF Shown
<1>3. ASSUME NEW d \in Edges, u = RegisterEdge(t, CoreA, d, clock), d = e \/ Shown(t, e)
      PROVE  Shown(u, e)
  <2>1. /\ Known(t) \subseteq Known(u)
        /\ \/ d \in Known(u) /\ u.nodes[d].status = Online
           \/ u.nodes[d].status = Absent /\ Room(u) <= 0
        /\ \A i \in Ids \ {d} : \/ u.nodes[i] = t.nodes[i]
                                \/ i \in Edges /\ Endpoint[i] = Endpoint[d]
    BY <1>1, <1>3, RegisterEdgeKnows
  <2>2. CASE d = e
    BY <2>1, <2>2 DEF Shown
  <2>3. CASE d # e
    <3>1. Shown(t, e) /\ e \in Ids \ {d} /\ d \in Edges \ {e}
      BY <1>1, <1>2, <1>3, <2>3
    <3> HIDE DEF t, u
    <3> QED
      BY <1>a, <2>1, <3>1
  <2> QED
    BY <2>2, <2>3
<1>4. CASE \E d \in Edges : /\ attached'[CoreA] = attached[CoreA] \cup {d}
                            /\ u = RegisterEdge(t, CoreA, d, clock)
  BY <1>3, <1>4 DEF EdgeInv
<1>5. CASE attached'[CoreA] \subseteq attached[CoreA]
  <2>1. Shown(t, e)
    BY <1>5 DEF EdgeInv
  <2>2. TableMoves(CoreA)
    BY <1>1, TablesMove
  <2>3. CASE u = t
    BY <2>1, <2>3
  <2>4. CASE \E d \in Edges : u = RegisterEdge(t, CoreA, d, clock)
    BY <1>3, <2>1, <2>4
  <2>5. ASSUME NEW d \in Edges, u = SetNodeStatus(t, d, Offline, clock), d \notin attached'[CoreA]
        PROVE  Shown(u, e)
    <3>1. e # d
      BY <2>5
    <3>2. Known(u) = Known(t) /\ u.nodes[e] = t.nodes[e]
      BY <1>1, <1>2, <2>5, <3>1, SetNodeStatusKnows
    <3> HIDE DEF t, u
    <3> QED
      BY <1>a, <2>1, <3>2
  <2>6. ASSUME aIn # <<>>, Head(aIn).kind = "node_register",
               NEW admitted \in Admissions(t, Head(aIn).table),
               u = MergeBackupRegistration(t, CoreA, Head(aIn).table, admitted)
        PROVE  Shown(u, e)
    <3>1. Head(aIn).table \in Table
      BY <2>6, HeadTailProperties, MessageFields DEF TypeOK
    <3>2. /\ Known(t) \subseteq Known(u)
          /\ t.nodes[e].status = Online => u.nodes[e].status = Online
          /\ t.nodes[e].status = Absent /\ Room(t) <= 0 => u.nodes[e].status = Absent
      BY <1>1, <1>2, <2>6, <3>1, RegistrationKnows
    <3> HIDE DEF t, u
    <3>3. Room(t) \in Int /\ Room(u) \in Int /\ Room(u) <= Room(t)
      BY <3>2, RoomShrinks
    <3>4. Room(t) <= 0 => Room(u) <= 0
      BY <3>3
    <3> QED
      BY <2>1, <3>2, <3>4 DEF Shown
  <2>7. ASSUME NEW core \in Cores, u = DropPeerCore(t, core, clock)
        PROVE  Shown(u, e)
    <3>1. e # core /\ core \in Ids /\ e \in Ids
      BY <1>1, <1>2
    <3>2. Known(u) = Known(t) /\ u.nodes[e] = t.nodes[e]
      BY <1>1, <2>7, <3>1, DropPeerCoreKnows
    <3> HIDE DEF t, u
    <3> QED
      BY <1>a, <2>1, <3>2
  <2>8. ASSUME NEW failed \in Cores \cup {ct[CoreA].active},
               u = PromoteCoreAfterFailover(t, CoreA, failed, clock)
        PROVE  Shown(u, e)
    <3>1. failed \in Cores
      BY <1>1 DEF EdgeInv
    <3>2. e # failed /\ failed \in Ids \cup {NoId} /\ e \in Ids
      BY <1>1, <1>2, <3>1
    <3>3. Known(u) = Known(t) /\ u.nodes[e] = t.nodes[e]
      BY <1>1, <2>8, <3>2, PromoteKnows
    <3> HIDE DEF t, u
    <3> QED
      BY <1>a, <2>1, <3>3
  <2> QED
    BY <1>1, <2>2, <2>3, <2>4, <2>5, <2>6, <2>7, <2>8 DEF TableMoves
<1> QED
  BY <1>4, <1>5, AttachedRegisters DEF EdgeInv

\* The invariant holds in every reachable state.
LEMMA EdgeInvariant ==
  ASSUME OwnConnectionHolds
  PROVE  Spec => []EdgeInv
<1>1. Init => EdgeInv
  BY CoreIds, StartTableKnows DEF Init, EdgeInv
<1>2. TypeOK /\ LinkInv /\ EdgeInv /\ [Next]_vars => EdgeInv'
  <2> SUFFICES ASSUME TypeOK, LinkInv, EdgeInv, [Next]_vars PROVE EdgeInv'
    OBVIOUS
  <2>1. CASE Next
    <3>1. selfUp' /\ ct'[CoreA].active = CoreA
      BY <2>1, SelfStaysUp, ActiveNamesItself DEF EdgeInv
    <3>2. \A e \in attached'[CoreA] : Shown(ct'[CoreA], e)
      BY <2>1, EdgesStayShown
    <3> QED
      BY <3>1, <3>2 DEF EdgeInv, Shown, Room, Known
  <2>2. CASE UNCHANGED vars
    BY <2>2 DEF vars, coreVars, linkVars, envVars, EdgeInv, Shown, Room, Known
  <2> QED
    BY <2>1, <2>2
<1> QED
  BY <1>1, <1>2, TypeCorrect, LinkInvariant, PTL DEF Spec

\* While the Active's own connection holds, an edge whose last word was STATUS
\* is never OFFLINE in the Active's table, however old the snapshots are that
\* the Backup sends and in whatever order wills and registrations arrive.  An
\* edge that shares its endpoint with another id may be, as its duplicate.
THEOREM AttachedEdgesStayOnline ==
  ASSUME OwnConnectionHolds
  PROVE  Spec => []AttachedEdgesOnline
<1>1. EdgeInv => AttachedEdgesOnline
  BY DEF EdgeInv, Shown, AttachedEdgesOnline, Offline, Online, Absent
<1> QED
  BY <1>1, EdgeInvariant, PTL

(***************************************************************************)
(* The retained view of the Active                                         *)
(***************************************************************************)

\* The steps of a callback that publish nothing on the Active's broker but
\* registrations.
HomeSteps == {s \in Step : s.do \in {"snapshot", "emit"} =>
                             s.topic \notin {"peerTopology", "peerSync"}}

\* The inductive invariant: nobody but CoreA writes its retained messages
\* while CoreB is the Backup, since only a promotion has a callback publish
\* there, and a promoted core stays promoted.
ViewInv ==
  /\ isBackup[CoreB] => work \in [Threads -> Seq(HomeSteps)]
  /\ ActiveViewPublished

\* The callbacks of a Backup are at home.
LEMMA HomeCallbacks ==
  /\ <<Snapshot("topology"), Snapshot("changed")>> \in Seq(HomeSteps)
  /\ <<Snapshot("topology"), Snapshot("register")>> \in Seq(HomeSteps)
  /\ <<Snapshot("register")>> \in Seq(HomeSteps)
  /\ \A t \in Table : <<Merge(t)>> \in Seq(HomeSteps)
  /\ <<>> \in Seq(HomeSteps)
<1> DEFINE a == Snapshot("topology")
           e == Snapshot("changed")
           f == Snapshot("register")
<1>1. a \in HomeSteps /\ e \in HomeSteps /\ f \in HomeSteps
  BY StepTypes DEF HomeSteps, Snapshot
<1>2. \A t \in Table : Merge(t) \in HomeSteps
  BY StepTypes DEF HomeSteps, Merge
<1>3. \A t \in Table : <<Merge(t)>> \in Seq(HomeSteps)
  BY <1>2
<1> HIDE DEF a, e, f
<1>4. <<a, e>> \in Seq(HomeSteps) /\ <<a, f>> \in Seq(HomeSteps) /\ <<f>> \in Seq(HomeSteps)
  BY <1>1
<1>5. <<>> \in Seq(HomeSteps)
  OBVIOUS
<1> QED
  BY <1>3, <1>4, <1>5 DEF a, e, f

\* A Backup that stays Backup starts only such callbacks.
LEMMA HomeKept ==
  ASSUME TypeOK, isBackup[CoreB] => work \in [Threads -> Seq(HomeSteps)], Next, isBackup'[CoreB]
  PROVE  isBackup[CoreB] /\ work' \in [Threads -> Seq(HomeSteps)]
<1>a. isBackup \in [Cores -> BOOLEAN] /\ CoreB \in Cores /\ "peer" \in Threads /\ "self" \in Threads
  BY CoreIds DEF TypeOK, Threads
<1>b. ASSUME NEW th, NEW failed, NEW script, Promote(th, failed, script) PROVE FALSE
  BY <1>a, <1>b DEF Promote
<1>1. CASE UNCHANGED <<isBackup, work>>
  BY <1>1
\* A callback starts, or goes on with what is left of it.
<1>2. ASSUME UNCHANGED isBackup, NEW th \in Threads, NEW s, work' = [work EXCEPT ![th] = s],
             work \in [Threads -> Seq(HomeSteps)] => s \in Seq(HomeSteps)
      PROVE  isBackup[CoreB] /\ work' \in [Threads -> Seq(HomeSteps)]
  BY <1>2
<1>3. \A th \in Threads : work \in [Threads -> Seq(HomeSteps)] /\ work[th] # <<>> =>
        Head(work[th]) \in HomeSteps /\ Tail(work[th]) \in Seq(HomeSteps)
  BY HeadTailProperties
<1>4. CASE ActiveSteps
  BY <1>1, <1>4 DEF ActiveSteps, NodeRegisterAtActive, CoreWillAtActive, ElectionRequestAtActive,
                    ElectionResultAtActive, ActiveReconnects, coreVars
<1>5. CASE PeerSteps
  <2>1. CASE PeerConnects
    <3>1. CASE isBackup[CoreB]
      BY <1>2, <1>a, <2>1, <3>1, HomeCallbacks DEF PeerConnects
    <3>2. CASE ~ isBackup[CoreB]
      BY <1>1, <2>1, <3>2 DEF PeerConnects
    <3> QED
      BY <3>1, <3>2
  <2>2. CASE CtSyncAtBackup
    <3>1. Head(peerIn).table \in Table
      BY <2>2, HeadTailProperties, MessageFields DEF CtSyncAtBackup, ReceivedByPeer, TypeOK
    <3>2. CASE UNCHANGED work
      BY <1>1, <2>2, <3>2 DEF CtSyncAtBackup
    <3>3. CASE work' = [work EXCEPT !["peer"] = <<Merge(Head(peerIn).table)>>]
      BY <1>2, <1>a, <2>2, <3>1, <3>3, HomeCallbacks DEF CtSyncAtBackup
    <3> QED
      BY <2>2, <3>2, <3>3 DEF CtSyncAtBackup
  <2>3. CASE MergeAtBackup
    <3>1. UNCHANGED isBackup /\ \E s \in Seq(HomeSteps) : work' = [work EXCEPT !["peer"] = s]
      BY <2>3, HomeCallbacks DEF MergeAtBackup
    <3> QED
      BY <1>2, <1>a, <3>1
  <2>4. CASE CoreWillAtBackup \/ ElectionResultAtBackup
    BY <1>1, <1>b, <2>4 DEF CoreWillAtBackup, ElectionResultAtBackup
  <2>5. CASE ElectionRequestAtBackup
    BY <1>1, <2>5 DEF ElectionRequestAtBackup, coreVars
  <2>7. CASE PeerChannelCloses
    BY <1>1, <2>7 DEF PeerChannelCloses, coreVars
  <2>6. CASE StopPeerChannel
    <3>1. work["peer"] # <<>> /\ UNCHANGED isBackup /\ work' = [work EXCEPT !["peer"] = Tail(work["peer"])]
      BY <2>6 DEF StopPeerChannel, Running
    <3> QED
      BY <1>2, <1>3, <1>a, <3>1
  <2> QED
    BY <1>5, <2>1, <2>2, <2>3, <2>4, <2>5, <2>6, <2>7 DEF PeerSteps
<1>6. ASSUME NEW th \in Threads, ScriptSteps(th)
      PROVE  isBackup[CoreB] /\ work' \in [Threads -> Seq(HomeSteps)]
  <2>1. CASE Publish(th) \/ AnnounceSwitch(th)
    <3>1. work[th] # <<>> /\ UNCHANGED isBackup /\ work' = [work EXCEPT ![th] = Tail(work[th])]
      BY <2>1 DEF Publish, AnnounceSwitch, Running
    <3> QED
      BY <1>2, <1>3, <3>1
  <2>2. CASE TakeSnapshot(th)
    <3> DEFINE asked == Head(work[th]).topic
               topic == IF asked # "changed" THEN asked
                        ELSE IF isBackup[CoreB] THEN "register" ELSE "ownSync"
               step  == Emit(topic, ct[CoreB])
               rest  == Tail(work[th])
    <3>1. /\ work[th] # <<>> /\ Head(work[th]).do = "snapshot"
          /\ UNCHANGED isBackup /\ work' = [work EXCEPT ![th] = <<step>> \o rest]
      BY <2>2 DEF TakeSnapshot, Running
    <3>2. asked \in Topics
      BY <3>1, WorkTypes, StepFields
    <3>3. topic \in Topics /\ ct[CoreB] \in Table
      BY <3>2, StepTypes, CoreIds DEF TypeOK
    <3>4. step \in Step /\ step.topic = topic /\ step.do = "emit"
      BY <3>3, StepTypes DEF Emit
    <3>5. ASSUME work \in [Threads -> Seq(HomeSteps)]
          PROVE  <<step>> \o rest \in Seq(HomeSteps)
      <4>1. Head(work[th]) \in HomeSteps /\ rest \in Seq(HomeSteps)
        BY <1>3, <3>1, <3>5
      <4>2. asked \notin {"peerTopology", "peerSync"}
        BY <3>1, <4>1 DEF HomeSteps
      <4>3. topic \notin {"peerTopology", "peerSync"}
        BY <4>2
      <4> HIDE DEF step, rest, topic
      <4>4. step \in HomeSteps
        BY <3>4, <4>3 DEF HomeSteps
      <4>5. <<step>> \in Seq(HomeSteps)
        BY <4>4
      <4> QED
        BY <4>1, <4>5, ConcatProperties
    <3> HIDE DEF step, rest
    <3> QED
      BY <1>2, <3>1, <3>5
  <2> QED
    BY <1>6, <2>1, <2>2 DEF ScriptSteps
<1>7. CASE EnvironmentSteps
  <2>1. ASSUME NEW c \in Cores, NEW e \in Edges, EdgeStatus(c, e) \/ NodeWill(c, e)
        PROVE  isBackup[CoreB] /\ work' \in [Threads -> Seq(HomeSteps)]
    <3>1. UNCHANGED isBackup
      BY <2>1 DEF EdgeStatus, NodeWill
    <3>2. \/ UNCHANGED work
          \/ work' = [work EXCEPT !["self"] = <<Snapshot("topology"), Snapshot("changed")>>]
      BY <2>1 DEF EdgeStatus, NodeWill, EdgeMoves
    <3> QED
      BY <1>1, <1>2, <1>a, <3>1, <3>2, HomeCallbacks
  <2>2. CASE BackupEnds
    BY <1>a, <2>2, HomeCallbacks DEF BackupEnds
  <2>3. CASE ElectionResultOnSelf
    BY <1>b, <2>3 DEF ElectionResultOnSelf
  <2>4. CASE \/ NoticeOfActive \/ ActiveEnds \/ LoseActiveHost \/ NoticeOfBackup
             \/ DropSelf \/ DropPeer \/ RequestElection \/ Tick
    BY <1>1, <2>4 DEF NoticeOfActive, ActiveEnds, LoseActiveHost, NoticeOfBackup,
                      DropSelf, DropPeer, RequestElection, Tick, coreVars
  <2> QED
    BY <1>7, <2>1, <2>2, <2>3, <2>4 DEF EnvironmentSteps
<1> QED
  BY <1>4, <1>5, <1>6, <1>7 DEF Next

\* CoreA publishes the table it moves to, if the move is published at all.
LEMMA MovesPublished ==
  ASSUME TypeOK, ActiveViewPublished, Listening, isBackup[CoreB],
         NEW t, NEW changed, ActiveMoves(t, changed), ~ changed => t = ct[CoreA]
  PROVE  topology'[CoreA] = ct'[CoreA] /\ ctSync' = ct'[CoreA]
<1>1. ct \in [Cores -> Table] /\ topology \in [Cores -> Table] /\ CoreA \in Cores
  BY CoreIds DEF TypeOK
<1>2. CASE changed
  BY <1>1, <1>2 DEF ActiveMoves, PublishActiveView
<1>3. CASE ~ changed
  BY <1>1, <1>3 DEF ActiveMoves, ActiveViewPublished
<1> QED
  BY <1>2, <1>3

\* A connection that is there was there before, unless CoreA has just
\* reconnected.
LEMMA ListenedBefore ==
  ASSUME TypeOK, Next, Listening'
  PROVE  Listening \/ ActiveReconnects
<1>1. alive \in [Cores -> BOOLEAN] /\ CoreA \in Cores /\ CoreB \in Cores /\ CoreA # CoreB
  BY CoreIds DEF TypeOK
<1>2. CASE ActiveSteps
  BY <1>2 DEF ActiveSteps, NodeRegisterAtActive, CoreWillAtActive, ElectionRequestAtActive,
                    ElectionResultAtActive, ReceivedByA
<1>3. CASE PeerSteps
  BY <1>3 DEF PeerSteps, PeerConnects, CtSyncAtBackup, MergeAtBackup, CoreWillAtBackup,
              ElectionRequestAtBackup, ElectionResultAtBackup, StopPeerChannel,
              PeerChannelCloses, coreVars, linkVars, Listening
<1>4. ASSUME NEW th \in Threads, ScriptSteps(th) PROVE Listening
  BY <1>4 DEF ScriptSteps, TakeSnapshot, Publish, AnnounceSwitch, linkVars, Listening
<1>5. CASE EnvironmentSteps
  BY <1>1, <1>5 DEF EnvironmentSteps, EdgeStatus, NodeWill, NoticeOfActive, ActiveEnds,
                    LoseActiveHost, NoticeOfBackup, BackupEnds, DropSelf, DropPeer,
                    RequestElection, ElectionResultOnSelf, Tick, Ends, coreVars, linkVars,
                    Listening
<1> QED
  BY <1>2, <1>3, <1>4, <1>5 DEF Next

\* No step leaves the retained view of a listening Active behind.
LEMMA ViewKept ==
  ASSUME TypeOK, ViewInv, Next
  PROVE  ActiveViewPublished'
<1> SUFFICES ASSUME Listening', isBackup'[CoreB], ~ ActiveReconnects
             PROVE  topology'[CoreA] = ct'[CoreA] /\ ctSync' = ct'[CoreA]
  <2>1. CASE ActiveReconnects
    BY <2>1, CoreIds DEF ActiveReconnects, coreVars, ActiveViewPublished, TypeOK
  <2> QED
    BY <2>1 DEF ActiveViewPublished
<1>a. Listening /\ isBackup[CoreB] /\ work \in [Threads -> Seq(HomeSteps)]
  BY ListenedBefore, HomeKept DEF ViewInv
<1>b. ActiveViewPublished /\ ct[CoreA] \in Table /\ CoreA \in Cores /\ CoreA \in Ids /\ CoreB \in Cores
      /\ CoreA # CoreB /\ ct \in [Cores -> Table] /\ topology \in [Cores -> Table]
  BY CoreIds DEF ViewInv, TypeOK
<1>c. ASSUME ct'[CoreA] = ct[CoreA], topology'[CoreA] = topology[CoreA], UNCHANGED ctSync
      PROVE  topology'[CoreA] = ct'[CoreA] /\ ctSync' = ct'[CoreA]
  BY <1>a, <1>b, <1>c DEF ActiveViewPublished
<1>1. CASE ActiveSteps
  <2>1. CASE NodeRegisterAtActive
    <3>1. Head(aIn).table \in Table
      BY <2>1, HeadTailProperties, MessageFields DEF NodeRegisterAtActive, ReceivedByA, TypeOK
    <3>2. PICK admitted \in Admissions(ct[CoreA], Head(aIn).table) :
            ActiveMoves(MergeBackupRegistration(ct[CoreA], CoreA, Head(aIn).table, admitted),
                        RegistrationChanges(ct[CoreA], CoreA, Head(aIn).table))
      BY <2>1 DEF NodeRegisterAtActive
    <3>3. ~ RegistrationChanges(ct[CoreA], CoreA, Head(aIn).table) =>
            MergeBackupRegistration(ct[CoreA], CoreA, Head(aIn).table, admitted) = ct[CoreA]
      BY <1>b, <3>1, RegistrationUnchanged
    <3> QED
      BY <1>a, <1>b, <3>2, <3>3, MovesPublished
  <2>2. CASE CoreWillAtActive
    <3>1. \E next : ActiveMoves(next, next # ct[CoreA])
      BY <2>2 DEF CoreWillAtActive
    <3> QED
      BY <1>a, <1>b, <3>1, MovesPublished
  <2>3. CASE ElectionResultAtActive
    <3>1. (\E next : ActiveMoves(next, TRUE)) \/ UNCHANGED <<ct, topology, ctSync>>
      BY <2>3 DEF ElectionResultAtActive
    <3> QED
      BY <1>a, <1>b, <1>c, <3>1, MovesPublished
  <2>4. CASE ElectionRequestAtActive
    BY <1>c, <2>4 DEF ElectionRequestAtActive, coreVars, viewVars
  <2> QED
    BY <1>1, <2>1, <2>2, <2>3, <2>4 DEF ActiveSteps
<1>2. CASE PeerSteps
  <2>1. UNCHANGED <<topology, ctSync>>
    BY <1>2 DEF PeerSteps, PeerConnects, CtSyncAtBackup, MergeAtBackup, CoreWillAtBackup,
                ElectionRequestAtBackup, ElectionResultAtBackup, StopPeerChannel,
                PeerChannelCloses, viewVars
  <2>2. ct' = ct \/ \E t : ct' = [ct EXCEPT ![CoreB] = t]
    BY <1>2 DEF PeerSteps, PeerConnects, CtSyncAtBackup, MergeAtBackup, CoreWillAtBackup,
                ElectionRequestAtBackup, ElectionResultAtBackup, StopPeerChannel,
                PeerChannelCloses, coreVars, Promote
  <2> QED
    BY <1>b, <1>c, <2>1, <2>2
<1>3. ASSUME NEW th \in Threads, ScriptSteps(th)
      PROVE  topology'[CoreA] = ct'[CoreA] /\ ctSync' = ct'[CoreA]
  <2>1. CASE TakeSnapshot(th) \/ AnnounceSwitch(th)
    BY <1>c, <2>1 DEF TakeSnapshot, AnnounceSwitch, viewVars
  <2>2. CASE Publish(th)
    <3>1. work[th] # <<>> /\ Head(work[th]).do = "emit"
      BY <2>2 DEF Publish, Running
    <3>2. Head(work[th]) \in HomeSteps
      BY <1>a, <3>1, HeadTailProperties
    <3>3. Head(work[th]).topic \notin {"peerTopology", "peerSync"}
      BY <3>1, <3>2 DEF HomeSteps
    <3>4. UNCHANGED <<ct, ctSync>> /\ topology'[CoreA] = topology[CoreA]
      BY <1>b, <2>2, <3>3 DEF Publish
    <3> QED
      BY <1>c, <3>4
  <2> QED
    BY <1>3, <2>1, <2>2 DEF ScriptSteps
<1>4. CASE EnvironmentSteps
  <2>1. ASSUME NEW c \in Cores, NEW t, EdgeMoves(c, t)
        PROVE  topology'[CoreA] = ct'[CoreA] /\ ctSync' = ct'[CoreA]
    <3>1. CASE c = CoreA
      <4>1. ActiveMoves(t, t # ct[CoreA])
        BY <1>a, <2>1, <3>1 DEF EdgeMoves
      <4> QED
        BY <1>a, <1>b, <4>1, MovesPublished
    <3>2. CASE c # CoreA
      BY <1>b, <1>c, <2>1, <3>2 DEF EdgeMoves
    <3> QED
      BY <3>1, <3>2
  <2>2. ASSUME NEW c \in Cores, NEW e \in Edges, EdgeStatus(c, e) \/ NodeWill(c, e)
        PROVE  topology'[CoreA] = ct'[CoreA] /\ ctSync' = ct'[CoreA]
    BY <2>1, <2>2 DEF EdgeStatus, NodeWill
  <2>3. CASE ElectionResultOnSelf
    BY <1>b, <2>3 DEF ElectionResultOnSelf, Promote, TypeOK
  <2>4. CASE \/ NoticeOfActive \/ ActiveEnds \/ LoseActiveHost \/ NoticeOfBackup \/ BackupEnds
             \/ DropSelf \/ DropPeer \/ RequestElection \/ Tick
    BY <1>c, <2>4 DEF NoticeOfActive, ActiveEnds, LoseActiveHost, NoticeOfBackup, BackupEnds,
                      DropSelf, DropPeer, RequestElection, Tick, coreVars, viewVars
  <2> QED
    BY <1>4, <2>2, <2>3, <2>4 DEF EnvironmentSteps
<1> QED
  BY <1>1, <1>2, <1>3, <1>4 DEF Next

\* The invariant holds in every reachable state.
LEMMA ViewInvariant == Spec => []ViewInv
<1>1. Init => ViewInv
  BY CoreIds, HomeCallbacks DEF Init, ViewInv, ActiveViewPublished
<1>2. TypeOK /\ ViewInv /\ [Next]_vars => ViewInv'
  <2> SUFFICES ASSUME TypeOK, ViewInv, [Next]_vars PROVE ViewInv'
    OBVIOUS
  <2>1. CASE Next
    <3>1. ActiveViewPublished'
      BY <2>1, ViewKept
    <3>2. isBackup'[CoreB] => work' \in [Threads -> Seq(HomeSteps)]
      BY <2>1, HomeKept DEF ViewInv
    <3> QED
      BY <3>1, <3>2 DEF ViewInv
  <2>2. CASE UNCHANGED vars
    BY <2>2 DEF vars, coreVars, linkVars, viewVars, ViewInv, ActiveViewPublished, Listening
  <2> QED
    BY <2>1, <2>2
<1> QED
  BY <1>1, <1>2, TypeCorrect, PTL DEF Spec

\* As long as CoreB is the Backup, what CoreA's broker keeps for late
\* subscribers and for CoreB is CoreA's table at every moment CoreA listens,
\* whatever fails, breaks or is elected: every handler that changes the table
\* publishes it, the results of the merges never say "unchanged" of a change,
\* a reconnection publishes it anew, and no callback of a Backup, however old
\* its snapshot, publishes on that broker (core/main.cpp on_ct_changed,
\* on_message, on_connect).
THEOREM ViewStaysPublished == Spec => []ActiveViewPublished
<1>1. ViewInv => ActiveViewPublished
  BY DEF ViewInv
<1> QED
  BY <1>1, ViewInvariant, PTL

(***************************************************************************)
(* Registration                                                            *)
(***************************************************************************)

\* The elements of a sequence.
Elements(s) == {s[i] : i \in 1..Len(s)}

\* Elements of the sequences the queues and callbacks go through.
LEMMA ElementsOf ==
  ASSUME NEW S
  PROVE  /\ Elements(<<>>) = {}
         /\ \A s \in Seq(S) : Elements(s) \subseteq S
         /\ \A s \in Seq(S) : s # <<>> => Elements(s) = {Head(s)} \cup Elements(Tail(s))
         /\ \A s \in Seq(S), x \in S : Elements(s \o <<x>>) = Elements(s) \cup {x}
         /\ \A s \in Seq(S), x \in S : Elements(<<x>> \o s) = Elements(s) \cup {x}
         /\ \A x \in S : Elements(<<x>>) = {x}
         /\ \A x \in S, y \in S : Elements(<<x, y>>) = {x, y}
<1>1. Elements(<<>>) = {}
  BY DEF Elements
<1>2. ASSUME NEW s \in Seq(S) PROVE Elements(s) \subseteq S
  BY ElementOfSeq DEF Elements
<1>3. ASSUME NEW s \in Seq(S), s # <<>>
      PROVE  Elements(s) = {Head(s)} \cup Elements(Tail(s))
  <2>1. /\ Len(s) \in Nat /\ Len(s) >= 1 /\ Head(s) = s[1]
        /\ Tail(s) \in Seq(S) /\ Len(Tail(s)) = Len(s) - 1
        /\ \A i \in 1..Len(Tail(s)) : Tail(s)[i] = s[i + 1]
    BY <1>3, EmptySeq, LenProperties, HeadTailProperties
  <2>2. ASSUME NEW i \in 1..Len(s) PROVE s[i] \in {Head(s)} \cup Elements(Tail(s))
    <3>1. CASE i = 1
      BY <2>1, <3>1
    <3>2. CASE i # 1
      <4>1. i - 1 \in 1..Len(Tail(s)) /\ (i - 1) + 1 = i
        BY <2>1, <3>2
      <4>2. Tail(s)[i - 1] = s[i]
        BY <2>1, <4>1
      <4> QED
        BY <4>1, <4>2 DEF Elements
    <3> QED
      BY <3>1, <3>2
  <2>3. ASSUME NEW i \in 1..Len(Tail(s)) PROVE Tail(s)[i] \in Elements(s)
    <3>1. i + 1 \in 1..Len(s) /\ Tail(s)[i] = s[i + 1]
      BY <2>1
    <3> QED
      BY <3>1 DEF Elements
  <2>4. Head(s) \in Elements(s)
    <3>1. 1 \in 1..Len(s)
      BY <2>1
    <3> QED
      BY <2>1, <3>1 DEF Elements
  <2> QED
    BY <2>2, <2>3, <2>4 DEF Elements
<1>4. ASSUME NEW s \in Seq(S), NEW t \in Seq(S)
      PROVE  Elements(s \o t) = Elements(s) \cup Elements(t)
  <2>1. /\ Len(s) \in Nat /\ Len(t) \in Nat /\ Len(s \o t) = Len(s) + Len(t)
        /\ \A i \in 1..(Len(s) + Len(t)) :
             (s \o t)[i] = IF i <= Len(s) THEN s[i] ELSE t[i - Len(s)]
    BY LenProperties, ConcatProperties
  <2>2. ASSUME NEW i \in 1..Len(s \o t) PROVE (s \o t)[i] \in Elements(s) \cup Elements(t)
    <3>1. CASE i <= Len(s)
      <4>1. i \in 1..Len(s) /\ (s \o t)[i] = s[i]
        BY <2>1, <3>1
      <4> QED
        BY <4>1 DEF Elements
    <3>2. CASE ~ (i <= Len(s))
      <4>1. i - Len(s) \in 1..Len(t) /\ (s \o t)[i] = t[i - Len(s)]
        BY <2>1, <3>2
      <4> QED
        BY <4>1 DEF Elements
    <3> QED
      BY <3>1, <3>2
  <2>3. ASSUME NEW i \in 1..Len(s) PROVE s[i] \in Elements(s \o t)
    <3>1. i \in 1..Len(s \o t) /\ (s \o t)[i] = s[i]
      BY <2>1
    <3> QED
      BY <3>1 DEF Elements
  <2>4. ASSUME NEW i \in 1..Len(t) PROVE t[i] \in Elements(s \o t)
    <3>1. i + Len(s) \in 1..Len(s \o t) /\ ~ (i + Len(s) <= Len(s)) /\ (i + Len(s)) - Len(s) = i
      BY <2>1
    <3>2. (s \o t)[i + Len(s)] = t[i]
      BY <2>1, <3>1
    <3> QED
      BY <3>1, <3>2 DEF Elements
  <2> QED
    BY <2>2, <2>3, <2>4 DEF Elements
<1>5. ASSUME NEW x \in S PROVE Elements(<<x>>) = {x} /\ <<x>> \in Seq(S)
  BY DEF Elements
<1>6. ASSUME NEW x \in S, NEW y \in S PROVE Elements(<<x, y>>) = {x, y}
  <2>1. PICK p : p = <<x, y>>
    OBVIOUS
  <2>2. Len(p) = 2 /\ p[1] = x /\ p[2] = y
    BY <2>1
  <2>3. 1..2 = {1, 2}
    OBVIOUS
  <2>4. Elements(p) = {x, y}
    BY <2>2, <2>3 DEF Elements
  <2> QED
    BY <2>1, <2>4
<1>7. ASSUME NEW s \in Seq(S), NEW x \in S
      PROVE  /\ Elements(s \o <<x>>) = Elements(s) \cup {x}
             /\ Elements(<<x>> \o s) = Elements(s) \cup {x}
  <2>1. PICK one \in Seq(S) : one = <<x>> /\ Elements(one) = {x}
    BY <1>5
  <2>2. Elements(s \o one) = Elements(s) \cup Elements(one)
    BY <1>4
  <2>3. Elements(one \o s) = Elements(one) \cup Elements(s)
    BY <1>4
  <2> QED
    BY <2>1, <2>2, <2>3
<1>8. \A x \in S : Elements(<<x>>) = {x}
  BY <1>5
<1> QED
  BY <1>1, <1>2, <1>3, <1>6, <1>7, <1>8

\* A message that makes the Active forget its backup.
Forgets(m) == m.kind = "core_will" /\ m.core = CoreB

\* Whether the Active, once it has handled the queue q, will advertise CoreB:
\* the last word on CoreB is a registration.  b is the backup it names now.
Advertised(q, b) ==
  \/ \E i \in 1..Len(q) :
       /\ q[i].kind = "node_register" /\ q[i].table.backup = CoreB
       /\ \A j \in (i + 1)..Len(q) : ~ Forgets(q[j])
  \/ b = CoreB /\ \A j \in 1..Len(q) : ~ Forgets(q[j])

\* A registration that is queued is the last word.
LEMMA AdvertisedByAppend ==
  ASSUME NEW S, NEW q \in Seq(S), NEW m \in S, NEW b,
         m.kind = "node_register", m.table.backup = CoreB
  PROVE  Advertised(q \o <<m>>, b)
<1> DEFINE r == q \o <<m>>
           n == Len(q) + 1
<1>1. Len(q) \in Nat /\ Len(r) = n /\ r[n] = m
  <2>1. <<m>> \in Seq(S) /\ Len(<<m>>) = 1 /\ <<m>>[1] = m
    OBVIOUS
  <2>2. Len(q) \in Nat
    BY LenProperties
  <2>3. Len(r) = Len(q) + 1
    BY <2>1, <2>2, ConcatProperties
  <2>4. n \in 1..(Len(q) + Len(<<m>>)) /\ ~ (n <= Len(q)) /\ n - Len(q) = 1
    BY <2>1, <2>2
  <2>5. r[n] = <<m>>[1]
    BY <2>1, <2>4, ConcatProperties
  <2> QED
    BY <2>1, <2>2, <2>3, <2>5
<1> HIDE DEF r
<1>2. n \in 1..Len(r) /\ (n + 1)..Len(r) = {}
  BY <1>1
<1> HIDE DEF n
<1>3. r[n].kind = "node_register" /\ r[n].table.backup = CoreB
  BY <1>1
<1>4. \A j \in (n + 1)..Len(r) : ~ Forgets(r[j])
  BY <1>2
<1>5. \E i \in 1..Len(r) : /\ r[i].kind = "node_register" /\ r[i].table.backup = CoreB
                           /\ \A j \in (i + 1)..Len(r) : ~ Forgets(r[j])
  BY <1>2, <1>3, <1>4
<1> QED
  BY <1>5 DEF Advertised, r

\* A message that is handled does its part: a registration that names CoreB
\* makes it the backup, one that names nobody changes nothing, nor does the
\* will of CoreA, and what comes after the will of CoreB does not rest on what
\* was before it.
LEMMA AdvertisedByHandling ==
  ASSUME NEW S, NEW q \in Seq(S), q # <<>>, NEW b, NEW c, Advertised(q, b),
         \/ Forgets(Head(q))
         \/ Head(q).kind = "core_will" /\ ~ Forgets(Head(q)) /\ c = b
         \/ /\ Head(q).kind = "node_register"
            /\ Head(q).table.backup \in {NoId, CoreB}
            /\ c = IF Head(q).table.backup = NoId THEN b ELSE Head(q).table.backup
  PROVE  Advertised(Tail(q), c)
<1> DEFINE r == Tail(q)
<1>1. /\ Len(q) \in Nat /\ Len(q) >= 1 /\ Head(q) = q[1] /\ Len(r) = Len(q) - 1
      /\ \A i \in 1..Len(r) : r[i] = q[i + 1]
  BY EmptySeq, LenProperties, HeadTailProperties
<1> HIDE DEF r
<1>2. ASSUME NEW i \in 1..Len(q), i # 1,
             \A j \in (i + 1)..Len(q) : ~ Forgets(q[j])
      PROVE  /\ i - 1 \in 1..Len(r) /\ r[i - 1] = q[i]
             /\ \A j \in ((i - 1) + 1)..Len(r) : ~ Forgets(r[j])
  <2>1. i - 1 \in 1..Len(r) /\ (i - 1) + 1 = i
    BY <1>1, <1>2
  <2>2. ASSUME NEW j \in ((i - 1) + 1)..Len(r) PROVE ~ Forgets(r[j])
    <3>1. j \in 1..Len(r) /\ j + 1 \in (i + 1)..Len(q)
      BY <1>1
    <3> QED
      BY <1>1, <1>2, <3>1
  <2> QED
    BY <1>1, <2>1, <2>2
<1>3. CASE \E i \in 1..Len(q) : /\ i # 1
                                /\ q[i].kind = "node_register" /\ q[i].table.backup = CoreB
                                /\ \A j \in (i + 1)..Len(q) : ~ Forgets(q[j])
  <2>1. PICK i \in 1..Len(q) : /\ i # 1
                               /\ q[i].kind = "node_register" /\ q[i].table.backup = CoreB
                               /\ \A j \in (i + 1)..Len(q) : ~ Forgets(q[j])
    BY <1>3
  <2>2. PICK k \in 1..Len(r) : r[k] = q[i] /\ \A j \in (k + 1)..Len(r) : ~ Forgets(r[j])
    BY <1>2, <2>1
  <2> QED
    BY <2>1, <2>2 DEF Advertised, r
<1>4. ASSUME \A j \in 2..Len(q) : ~ Forgets(q[j]), c = CoreB
      PROVE  Advertised(r, c)
  <2>1. ASSUME NEW j \in 1..Len(r) PROVE ~ Forgets(r[j])
    <3>1. j + 1 \in 2..Len(q)
      BY <1>1
    <3> QED
      BY <1>1, <1>4, <3>1
  <2> QED
    BY <1>4, <2>1 DEF Advertised
<1>5. CASE /\ q[1].kind = "node_register" /\ q[1].table.backup = CoreB
           /\ \A j \in 2..Len(q) : ~ Forgets(q[j])
  <2>1. c = CoreB
    BY <1>1, <1>5, CoreIds DEF Forgets
  <2> QED
    BY <1>4, <1>5, <2>1 DEF r
<1>6. CASE b = CoreB /\ \A j \in 1..Len(q) : ~ Forgets(q[j])
  <2>1. 1 \in 1..Len(q) /\ \A j \in 2..Len(q) : j \in 1..Len(q)
    BY <1>1
  <2>2. ~ Forgets(Head(q)) /\ \A j \in 2..Len(q) : ~ Forgets(q[j])
    BY <1>1, <1>6, <2>1
  <2>3. c = CoreB
    BY <1>6, <2>2
  <2> QED
    BY <1>4, <2>2, <2>3 DEF r
<1>7. CASE \E i \in 1..Len(q) : /\ i = 1
                                /\ q[i].kind = "node_register" /\ q[i].table.backup = CoreB
                                /\ \A j \in (i + 1)..Len(q) : ~ Forgets(q[j])
  <2>1. 1 + 1 = 2
    OBVIOUS
  <2> QED
    BY <1>5, <1>7, <2>1
<1> QED
  BY <1>3, <1>6, <1>7 DEF Advertised

\* The steps CoreB's callbacks still have before them: what asks for a
\* registration, and what holds one that is about to be sent.
StepsAhead == Elements(work["self"]) \cup Elements(work["peer"])

Asking(s) == s.do = "snapshot" /\ s.topic \in {"register", "changed"}
Offering(s) == s.do = "emit" /\ s.topic = "register"

Asked == \E s \in StepsAhead : Asking(s)

\* The tables the Active is about to receive.
Offered ==
  {s.table : s \in {x \in StepsAhead : Offering(x)}}
    \cup {m.table : m \in {x \in Elements(aIn) : x.kind = "node_register"}}

NamesBackup == {t \in Table : t.backup \in {NoId, CoreB}}

\* Every node the Backup knows is known to the Active, or in a snapshot on its
\* way, or in one that is still to be taken, unless the Active is full.
NodesComing ==
  \/ Asked
  \/ Room(ct[CoreA]) <= 0
  \/ \A i \in Known(ct[CoreB]) : i \in Known(ct[CoreA]) \/ \E t \in Offered : i \in Known(t)

\* The Active names the Backup, or will, in the same way.
BackupComing ==
  \/ Asked
  \/ \E s \in StepsAhead : Offering(s) /\ s.table.backup = CoreB
  \/ Advertised(aIn, ct[CoreA].backup)

\* The inductive invariant.  A merge must be the last step of its callback: it
\* replaces what is left of it, and would forget a registration asked for.
RegInv ==
  /\ \A c \in Cores : ct[c] \in NamesBackup
  /\ Carries(NamesBackup)
  /\ isBackup[CoreB] => ct[CoreB].backup = CoreB
  /\ \/ work["peer"] \in Seq({s \in Step : s.do # "merge"})
     \/ \E t \in Table : work["peer"] = <<Merge(t)>>
  /\ Paired => NodesComing /\ BackupComing

\* No table ever names another backup than CoreB.
LEMMA BackupNames ==
  ASSUME TypeOK, RegInv, Next
  PROVE  /\ \A c \in Cores : ct'[c] \in NamesBackup
         /\ Carries(NamesBackup)'
         /\ isBackup'[CoreB] /\ isBackup[CoreB] => ct'[CoreB].backup = CoreB
<1>a. /\ ct \in [Cores -> Table] /\ clock \in Nat /\ CoreA # CoreB /\ CoreA \in Cores /\ CoreB \in Cores
      /\ Cores \subseteq Ids /\ Edges \subseteq Ids /\ NoId \notin Ids
  BY CoreIds DEF TypeOK
<1>b. NamesBackup \in SUBSET Table
  BY DEF NamesBackup
<1>c. ct' \in [Cores -> Table]
  <2>1. TypeOK'
    BY TypeCorrectStep
  <2> QED
    BY <2>1 DEF TypeOK
<1>1. ASSUME NEW c \in Cores
      PROVE  /\ ct'[c].backup \in {NoId, CoreB}
             /\ c = CoreB /\ isBackup'[CoreB] => ct'[c].backup = ct[c].backup
  <2>1. ct[c].backup \in {NoId, CoreB} /\ ct[c] \in Table /\ c \in Ids
    BY <1>a DEF RegInv, NamesBackup
  <2>2. TableMoves(c)
    BY TablesMove
  <2>3. CASE \E e \in Edges : \/ ct'[c] = RegisterEdge(ct[c], c, e, clock)
                              \/ ct'[c] = SetNodeStatus(ct[c], e, Offline, clock)
    BY <1>a, <2>1, <2>3, EdgeKeepsCoreIds
  <2>4. ASSUME c = CoreA, aIn # <<>>, Head(aIn).kind = "node_register",
               NEW admitted \in Admissions(ct[c], Head(aIn).table),
               ct'[c] = MergeBackupRegistration(ct[c], c, Head(aIn).table, admitted)
        PROVE  ct'[c].backup \in {NoId, CoreB}
    <3>1. Head(aIn).table \in NamesBackup
      BY <1>b, <2>4, CarriedHead DEF RegInv, Carries
    <3>2. Head(aIn).table \in Table /\ Head(aIn).table.backup \in {NoId, CoreB}
      BY <3>1 DEF NamesBackup
    <3>3. ct'[c].backup = IF Head(aIn).table.backup = NoId THEN ct[c].backup ELSE Head(aIn).table.backup
      BY <2>1, <2>4, <3>2, RegistrationKnows
    <3> QED
      BY <2>1, <3>2, <3>3
  <2>5. ASSUME c = CoreA, NEW core \in Cores, ct'[c] = DropPeerCore(ct[c], core, clock)
        PROVE  ct'[c].backup \in {NoId, CoreB}
    <3>1. ct'[c].backup = IF ct[c].backup = core THEN NoId ELSE ct[c].backup
      BY <1>a, <2>1, <2>5, DropPeerCoreKnows
    <3> QED
      BY <2>1, <3>1
  <2>6. ASSUME NEW failed \in Cores \cup {ct[c].active},
               ct'[c] = PromoteCoreAfterFailover(ct[c], c, failed, clock)
        PROVE  ct'[c].backup = NoId
    <3>1. failed \in Ids \cup {NoId}
      BY <1>a, <2>1 DEF Table
    <3> QED
      BY <1>a, <2>1, <2>6, <3>1, PromoteKnows
  <2>7. ASSUME work["peer"] # <<>>, Head(work["peer"]).do = "merge",
               NEW remote, remote = Head(work["peer"]).table,
               NEW admitted \in Admissions(Renamed(ct[c], remote), remote),
               ct'[c] = MergeConnectionTables(Renamed(ct[c], remote), remote, admitted)
        PROVE  ct'[c].backup = ct[c].backup
    <3>1. remote \in Table
      BY <2>7, WorkTypes, StepFields DEF Threads
    <3>2. Renamed(ct[c], remote) \in Table /\ Renamed(ct[c], remote).backup = ct[c].backup
      BY <2>1, <3>1, RenamedKnows
    <3> QED
      BY <2>7, <3>1, <3>2, MergeKnows
  <2>8. CASE ct'[c] = ct[c]
    BY <2>1, <2>8
  <2> QED
    BY <1>a, <2>1, <2>2, <2>3, <2>4, <2>5, <2>6, <2>7, <2>8 DEF TableMoves
<1>2. \A c \in Cores : ct'[c] \in NamesBackup
  BY <1>1, <1>c DEF NamesBackup
<1>3. ct \in [Cores -> NamesBackup] /\ ct' \in [Cores -> NamesBackup]
  BY <1>2, <1>a, <1>c DEF RegInv
<1>4. Carries(NamesBackup)'
  BY <1>3, <1>b, CarriesKept DEF RegInv
<1> QED
  BY <1>1, <1>2, <1>4, <1>a DEF RegInv

\* The peer thread merges at the end of its callback.
LEMMA MergeIsLast ==
  ASSUME TypeOK, RegInv, Next
  PROVE  \/ work'["peer"] \in Seq({s \in Step : s.do # "merge"})
         \/ \E t \in Table : work'["peer"] = <<Merge(t)>>
<1> DEFINE Plain == {s \in Step : s.do # "merge"}
           Good(w) == w \in Seq(Plain) \/ \E t \in Table : w = <<Merge(t)>>
<1>a. "peer" \in Threads /\ "self" \in Threads /\ work \in [Threads -> Seq(Step)] /\ Good(work["peer"])
  BY DEF TypeOK, Threads, RegInv
<1>b. /\ PromotionScript \in Seq(Plain) /\ <<>> \in Seq(Plain)
      /\ <<Snapshot("register")>> \in Seq(Plain)
      /\ <<Snapshot("topology"), Snapshot("register")>> \in Seq(Plain)
  <2> DEFINE a == Snapshot("topology")
             b == Snapshot("ownSync")
             c == Snapshot("peerTopology")
             d == Snapshot("peerSync")
             f == Snapshot("register")
  <2>1. {a, b, c, d, f, Switch, StopPeer} \subseteq Plain
    BY StepTypes DEF Snapshot, Switch, StopPeer
  <2>2. PromotionScript = <<a, b, c, d, Switch, StopPeer>>
    BY DEF PromotionScript
  <2> HIDE DEF a, b, c, d, f, Plain
  <2>3. /\ PromotionScript \in Seq(Plain) /\ <<f>> \in Seq(Plain) /\ <<a, f>> \in Seq(Plain)
        /\ <<>> \in Seq(Plain)
    BY <2>1, <2>2
  <2> QED
    BY <2>3 DEF a, f
\* What is left after the first step of a callback.
<1>c. ASSUME work["peer"] # <<>> PROVE Tail(work["peer"]) \in Seq(Plain)
  <2>1. CASE work["peer"] \in Seq(Plain)
    BY <1>c, <2>1, HeadTailProperties
  <2>2. ASSUME NEW t \in Table, work["peer"] = <<Merge(t)>>
        PROVE  Tail(work["peer"]) \in Seq(Plain)
    <3>1. PICK m : m = Merge(t)
      OBVIOUS
    <3>2. Tail(<<m>>) = <<>>
      OBVIOUS
    <3> QED
      BY <1>b, <2>2, <3>1, <3>2
  <2> QED
    BY <1>a, <2>1, <2>2
<1>d. ASSUME UNCHANGED work PROVE Good(work'["peer"])
  BY <1>a, <1>d
<1>1. CASE ActiveSteps
  BY <1>1, <1>d DEF ActiveSteps, NodeRegisterAtActive, CoreWillAtActive, ElectionRequestAtActive,
                    ElectionResultAtActive, ActiveReconnects, coreVars
<1>2. CASE PeerSteps
  <2>1. CASE PeerConnects
    BY <1>a, <1>b, <1>d, <2>1 DEF PeerConnects
  <2>2. CASE CtSyncAtBackup
    <3>1. Head(peerIn).table \in Table
      BY <2>2, HeadTailProperties, MessageFields DEF CtSyncAtBackup, ReceivedByPeer, TypeOK
    <3> QED
      BY <1>a, <1>d, <2>2, <3>1 DEF CtSyncAtBackup
  <2>3. CASE MergeAtBackup
    BY <1>a, <1>b, <2>3 DEF MergeAtBackup
  <2>4. CASE CoreWillAtBackup \/ ElectionResultAtBackup
    BY <1>a, <1>b, <1>d, <2>4 DEF CoreWillAtBackup, ElectionResultAtBackup, Promote
  <2>5. CASE ElectionRequestAtBackup
    BY <1>d, <2>5 DEF ElectionRequestAtBackup, coreVars
  <2>6. CASE StopPeerChannel
    BY <1>a, <1>c, <2>6 DEF StopPeerChannel, Running
  <2>7. CASE PeerChannelCloses
    BY <1>d, <2>7 DEF PeerChannelCloses, coreVars
  <2> QED
    BY <1>2, <2>1, <2>2, <2>3, <2>4, <2>5, <2>6, <2>7 DEF PeerSteps
<1>3. ASSUME NEW th \in Threads, ScriptSteps(th) PROVE Good(work'["peer"])
  <2>1. CASE th # "peer"
    BY <1>3, <1>a, <2>1 DEF ScriptSteps, TakeSnapshot, Publish, AnnounceSwitch
  <2>2. CASE th = "peer" /\ (Publish(th) \/ AnnounceSwitch(th))
    BY <1>a, <1>c, <2>2 DEF Publish, AnnounceSwitch, Running
  <2>3. CASE th = "peer" /\ TakeSnapshot(th)
    <3> DEFINE asked == Head(work[th]).topic
               topic == IF asked # "changed" THEN asked
                        ELSE IF isBackup[CoreB] THEN "register" ELSE "ownSync"
               step  == Emit(topic, ct[CoreB])
    <3>1. /\ work[th] # <<>> /\ Head(work[th]).do = "snapshot"
          /\ work' = [work EXCEPT ![th] = <<step>> \o Tail(work[th])]
      BY <2>3 DEF TakeSnapshot, Running
    <3>2. asked \in Topics
      BY <3>1, WorkTypes, StepFields
    <3>3. topic \in Topics /\ ct[CoreB] \in Table
      BY <3>2, StepTypes, CoreIds DEF TypeOK
    <3>4. step \in Plain
      BY <3>3, StepTypes DEF Emit
    <3> HIDE DEF step, Plain
    <3>5. <<step>> \in Seq(Plain)
      BY <3>4
    <3>6. <<step>> \o Tail(work["peer"]) \in Seq(Plain)
      BY <1>c, <2>3, <3>1, <3>5, ConcatProperties
    <3> QED
      BY <1>a, <2>3, <3>1, <3>6
  <2> QED
    BY <1>3, <2>1, <2>2, <2>3 DEF ScriptSteps
<1>4. CASE EnvironmentSteps
  <2>1. ASSUME NEW c \in Cores, NEW e \in Edges, EdgeStatus(c, e) \/ NodeWill(c, e)
        PROVE  work'["peer"] = work["peer"]
    BY <1>a, <2>1 DEF EdgeStatus, NodeWill, EdgeMoves
  <2>2. CASE BackupEnds
    BY <1>a, <1>b, <2>2 DEF BackupEnds
  <2>3. CASE ElectionResultOnSelf
    BY <1>a, <2>3 DEF ElectionResultOnSelf, Promote
  <2>4. CASE \/ NoticeOfActive \/ ActiveEnds \/ LoseActiveHost \/ NoticeOfBackup
             \/ DropSelf \/ DropPeer \/ RequestElection \/ Tick
    BY <1>d, <2>4 DEF NoticeOfActive, ActiveEnds, LoseActiveHost, NoticeOfBackup,
                      DropSelf, DropPeer, RequestElection, Tick, coreVars
  <2> QED
    BY <1>4, <1>a, <2>1, <2>2, <2>3, <2>4 DEF EnvironmentSteps
<1> QED
  BY <1>1, <1>2, <1>3, <1>4 DEF Next

\* Another registration does not undo one that is queued.
LEMMA AdvertisedStays ==
  ASSUME NEW S, NEW q \in Seq(S), NEW m \in S, NEW b, ~ Forgets(m), Advertised(q, b)
  PROVE  Advertised(q \o <<m>>, b)
<1> DEFINE r == q \o <<m>>
<1>1. /\ Len(q) \in Nat /\ Len(r) = Len(q) + 1 /\ r[Len(q) + 1] = m
      /\ \A i \in 1..Len(q) : r[i] = q[i]
  <2>1. <<m>> \in Seq(S) /\ Len(<<m>>) = 1 /\ <<m>>[1] = m
    OBVIOUS
  <2>2. Len(q) \in Nat /\ Len(r) = Len(q) + 1
    BY <2>1, LenProperties, ConcatProperties
  <2>3. Len(q) + 1 \in 1..(Len(q) + Len(<<m>>)) /\ ~ (Len(q) + 1 <= Len(q)) /\ Len(q) + 1 - Len(q) = 1
    BY <2>1, <2>2
  <2>4. r[Len(q) + 1] = <<m>>[1]
    BY <2>1, <2>3, ConcatProperties
  <2>5. ASSUME NEW i \in 1..Len(q) PROVE r[i] = q[i]
    <3>1. i \in 1..(Len(q) + Len(<<m>>)) /\ i <= Len(q)
      BY <2>1, <2>2
    <3> QED
      BY <2>1, <3>1, ConcatProperties
  <2> QED
    BY <2>1, <2>2, <2>4, <2>5
<1> HIDE DEF r
<1>2. ASSUME NEW k \in Nat, \A j \in k..Len(q) : ~ Forgets(q[j]), k >= 1
      PROVE  \A j \in k..Len(r) : ~ Forgets(r[j])
  <2> SUFFICES ASSUME NEW j \in k..Len(r) PROVE ~ Forgets(r[j])
    OBVIOUS
  <2>1. CASE j = Len(q) + 1
    BY <1>1, <2>1
  <2>2. CASE j # Len(q) + 1
    <3>1. j \in k..Len(q) /\ j \in 1..Len(q)
      BY <1>1, <1>2, <2>2
    <3> QED
      BY <1>1, <1>2, <3>1
  <2> QED
    BY <2>1, <2>2
<1>3. ASSUME NEW i \in 1..Len(q), q[i].kind = "node_register", q[i].table.backup = CoreB,
             \A j \in (i + 1)..Len(q) : ~ Forgets(q[j])
      PROVE  Advertised(r, b)
  <2>1. i \in 1..Len(r) /\ i + 1 \in Nat /\ i + 1 >= 1 /\ r[i] = q[i]
    BY <1>1
  <2>2. \A j \in (i + 1)..Len(r) : ~ Forgets(r[j])
    BY <1>2, <1>3, <2>1
  <2> QED
    BY <1>3, <2>1, <2>2 DEF Advertised
<1>4. ASSUME b = CoreB, \A j \in 1..Len(q) : ~ Forgets(q[j])
      PROVE  Advertised(r, b)
  <2>1. 1 \in Nat /\ 1 >= 1
    OBVIOUS
  <2>2. \A j \in 1..Len(r) : ~ Forgets(r[j])
    BY <1>2, <1>4, <2>1
  <2> QED
    BY <1>4, <2>2 DEF Advertised
<1> QED
  BY <1>3, <1>4 DEF Advertised, r

\* What the Active knows it never forgets, and a full table stays full.
LEMMA ActiveKnowsMore ==
  ASSUME TypeOK, Next
  PROVE  /\ Known(ct[CoreA]) \subseteq Known(ct'[CoreA])
         /\ Room(ct[CoreA]) <= 0 => Room(ct'[CoreA]) <= 0
<1> DEFINE t == ct[CoreA]
           u == ct'[CoreA]
<1>1. /\ t \in Table /\ clock \in Nat /\ CoreA \in Cores /\ CoreA \in Ids
      /\ CoreA # CoreB /\ Edges \subseteq Ids /\ Cores \subseteq Ids
  BY CoreIds DEF TypeOK
<1>2. TableMoves(CoreA)
  BY <1>1, TablesMove
<1>3. Known(t) \subseteq Known(u)
  <2>1. ASSUME NEW e \in Edges, u = RegisterEdge(t, CoreA, e, clock) PROVE Known(t) \subseteq Known(u)
    BY <1>1, <2>1, RegisterEdgeKnows
  <2>2. ASSUME NEW e \in Edges, u = SetNodeStatus(t, e, Offline, clock) PROVE Known(t) \subseteq Known(u)
    BY <1>1, <2>2, SetNodeStatusKnows
  <2>3. ASSUME aIn # <<>>, Head(aIn).kind = "node_register",
               NEW admitted \in Admissions(t, Head(aIn).table),
               u = MergeBackupRegistration(t, CoreA, Head(aIn).table, admitted)
        PROVE  Known(t) \subseteq Known(u)
    <3>1. Head(aIn).table \in Table
      BY <2>3, HeadTailProperties, MessageFields DEF TypeOK
    <3> QED
      BY <1>1, <2>3, <3>1, RegistrationKnows
  <2>4. ASSUME NEW core \in Cores, u = DropPeerCore(t, core, clock) PROVE Known(t) \subseteq Known(u)
    <3>1. core \in Ids
      BY <1>1
    <3> QED
      BY <1>1, <2>4, <3>1, DropPeerCoreKnows
  <2>5. ASSUME NEW failed \in Cores \cup {t.active}, u = PromoteCoreAfterFailover(t, CoreA, failed, clock)
        PROVE  Known(t) \subseteq Known(u)
    <3>1. failed \in Ids \cup {NoId}
      BY <1>1 DEF Table
    <3> QED
      BY <1>1, <2>5, <3>1, PromoteKnows
  <2>6. CASE u = t
    BY <2>6
  <2> QED
    BY <1>1, <1>2, <2>1, <2>2, <2>3, <2>4, <2>5, <2>6 DEF TableMoves
<1>4. Room(t) \in Int /\ Room(u) \in Int /\ Room(u) <= Room(t)
  BY <1>3, RoomShrinks
<1> HIDE DEF t, u
<1>5. Room(t) <= 0 => Room(u) <= 0
  BY <1>4
<1> QED
  BY <1>3, <1>5 DEF t, u

\* The nodes stay on their way when nothing that carries them is lost unread.
LEMMA NodesKept ==
  ASSUME TypeOK, Next, NodesComing, Asked => Asked',
         Known(ct'[CoreB]) \subseteq Known(ct[CoreB]),
         \A t \in Offered : \/ t \in Offered'
                            \/ Room(ct'[CoreA]) <= 0
                            \/ Known(t) \subseteq Known(ct'[CoreA])
  PROVE  NodesComing'
<1>1. /\ Known(ct[CoreA]) \subseteq Known(ct'[CoreA])
      /\ Room(ct[CoreA]) <= 0 => Room(ct'[CoreA]) <= 0
  BY ActiveKnowsMore
<1>2. CASE Asked \/ Room(ct[CoreA]) <= 0 \/ Room(ct'[CoreA]) <= 0
  BY <1>1, <1>2 DEF NodesComing
<1>3. CASE /\ ~ (Room(ct'[CoreA]) <= 0)
           /\ \A i \in Known(ct[CoreB]) : i \in Known(ct[CoreA]) \/ \E t \in Offered : i \in Known(t)
  <2>1. \A i \in Known(ct'[CoreB]) : i \in Known(ct'[CoreA]) \/ \E t \in Offered' : i \in Known(t)
    BY <1>1, <1>3
  <2> QED
    BY <2>1 DEF NodesComing
<1> QED
  BY <1>2, <1>3 DEF NodesComing

\* So does the name of the Backup.
LEMMA BackupKept ==
  ASSUME BackupComing, Asked => Asked',
         \A s \in StepsAhead : Offering(s) /\ s.table.backup = CoreB =>
           s \in StepsAhead' \/ Advertised(aIn', ct'[CoreA].backup),
         Advertised(aIn, ct[CoreA].backup) => Advertised(aIn', ct'[CoreA].backup)
  PROVE  BackupComing'
BY DEF BackupComing

\* The steps ahead, when the callback of one thread goes on.
LEMMA StepsLeft ==
  ASSUME TypeOK, NEW th \in Threads, NEW w, work' = [work EXCEPT ![th] = w]
  PROVE  \E other : /\ StepsAhead = Elements(work[th]) \cup other
                    /\ StepsAhead' = Elements(w) \cup other
<1>1. work \in [Threads -> Seq(Step)] /\ "self" \in Threads /\ "peer" \in Threads
  BY DEF TypeOK, Threads
<1>2. th = "self" \/ th = "peer"
  BY DEF Threads
<1>3. CASE th = "self"
  <2>1. StepsAhead = Elements(work[th]) \cup Elements(work["peer"])
    BY <1>3 DEF StepsAhead
  <2>2. StepsAhead' = Elements(w) \cup Elements(work["peer"])
    BY <1>1, <1>3 DEF StepsAhead
  <2> QED
    BY <2>1, <2>2
<1>4. CASE th = "peer"
  <2>1. StepsAhead = Elements(work[th]) \cup Elements(work["self"])
    BY <1>4 DEF StepsAhead
  <2>2. StepsAhead' = Elements(w) \cup Elements(work["self"])
    BY <1>1, <1>4 DEF StepsAhead
  <2> QED
    BY <2>1, <2>2
<1> QED
  BY <1>2, <1>3, <1>4

\* Nothing is lost when neither the callbacks nor the queue of the Active
\* nor what the Backup knows changes.
LEMMA NothingHandled ==
  ASSUME TypeOK, Next, NodesComing, BackupComing,
         StepsAhead' = StepsAhead, aIn' = aIn, Known(ct'[CoreB]) = Known(ct[CoreB]),
         ct'[CoreA].backup = ct[CoreA].backup
  PROVE  NodesComing' /\ BackupComing'
<1>1. Asked => Asked'
  BY DEF Asked
<1>2. Offered' = Offered
  BY DEF Offered
<1>3. NodesComing'
  BY <1>1, <1>2, NodesKept
<1>4. BackupComing'
  BY <1>1, BackupKept
<1> QED
  BY <1>3, <1>4

\* A registration, or a will, that the Active handles.
LEMMA ActiveStepsRegister ==
  ASSUME TypeOK, TakeoverInv, selfUp, RegInv, NodesComing, BackupComing, Next, ActiveSteps
  PROVE  NodesComing' /\ BackupComing'
<1>a. /\ ct \in [Cores -> Table] /\ clock \in Nat /\ CoreA # CoreB /\ CoreA \in Cores /\ CoreB \in Cores
      /\ Cores \subseteq Ids /\ NoId \notin Ids /\ ct[CoreA] \in Table /\ CoreA \in Ids
  BY CoreIds DEF TypeOK
<1>b. aIn \in Seq(ActiveInbox) /\ aIn \in Seq(Message)
  BY DEF TakeoverInv, Inboxes, TypeOK
<1>c. aIn # <<>> => Head(aIn) \in ActiveInbox /\ Head(aIn).kind \in {"node_register", "core_will"}
  BY <1>b, HeadTailProperties DEF ActiveInbox
<1>d. ~ ElectionRequestAtActive /\ ~ ElectionResultAtActive /\ ~ ActiveReconnects
  BY <1>c DEF ElectionRequestAtActive, ElectionResultAtActive, ActiveReconnects, ReceivedByA
<1>e. aIn # <<>> => Elements(aIn) = {Head(aIn)} \cup Elements(Tail(aIn))
  BY <1>b, ElementsOf
<1>1. CASE NodeRegisterAtActive
  <2> DEFINE m == Head(aIn)
             r == m.table
             b == ct[CoreA].backup
  <2>1. /\ aIn # <<>> /\ m.kind = "node_register" /\ aIn' = Tail(aIn) /\ UNCHANGED work
        /\ \E admitted \in Admissions(ct[CoreA], r) :
             ct' = [ct EXCEPT ![CoreA] = MergeBackupRegistration(ct[CoreA], CoreA, r, admitted)]
    BY <1>1 DEF NodeRegisterAtActive, ReceivedByA, ActiveMoves
  <2>2. PICK admitted \in Admissions(ct[CoreA], r) :
          ct' = [ct EXCEPT ![CoreA] = MergeBackupRegistration(ct[CoreA], CoreA, r, admitted)]
    BY <2>1
  <2>3. r \in NamesBackup
    <3>1. NamesBackup \in SUBSET Table
      BY DEF NamesBackup
    <3> QED
      BY <2>1, <3>1, CarriedHead DEF RegInv, Carries
  <2>4. r \in Table /\ r.backup \in {NoId, CoreB}
    BY <2>3 DEF NamesBackup
  <2>5. ct'[CoreA] = MergeBackupRegistration(ct[CoreA], CoreA, r, admitted) /\ ct'[CoreB] = ct[CoreB]
    BY <1>a, <2>2
  <2>6. /\ Room(ct'[CoreA]) > 0 => Known(r) \subseteq Known(ct'[CoreA])
        /\ ct'[CoreA].backup = IF r.backup = NoId THEN b ELSE r.backup
    BY <1>a, <2>4, <2>5, RegistrationKnows
  <2>7. StepsAhead' = StepsAhead
    BY <2>1 DEF StepsAhead
  <2>8. Asked => Asked'
    BY <2>7 DEF Asked
  <2>9. Room(ct'[CoreA]) \in Int
    BY RoomShrinks
  <2>10. Room(ct'[CoreA]) <= 0 \/ Room(ct'[CoreA]) > 0
    BY <2>9
  <2>11. ASSUME NEW t \in Offered
         PROVE  t \in Offered' \/ t = r
    <3>1. Elements(aIn) = {m} \cup Elements(aIn')
      BY <1>e, <2>1
    <3> QED
      BY <2>7, <2>11, <3>1 DEF Offered
  <2>12. NodesComing'
    <3>1. \A t \in Offered : \/ t \in Offered' \/ Room(ct'[CoreA]) <= 0
                             \/ Known(t) \subseteq Known(ct'[CoreA])
      BY <2>6, <2>10, <2>11
    <3> QED
      BY <2>5, <2>8, <3>1, NodesKept
  <2>13. Advertised(aIn, b) => Advertised(aIn', ct'[CoreA].backup)
    BY <1>b, <2>1, <2>4, <2>6, AdvertisedByHandling
  <2>14. BackupComing'
    BY <2>7, <2>8, <2>13, BackupKept
  <2> QED
    BY <2>12, <2>14
<1>2. CASE CoreWillAtActive
  <2>1. /\ aIn # <<>> /\ Head(aIn).kind = "core_will" /\ aIn' = Tail(aIn) /\ UNCHANGED work
        /\ \E t : ct' = [ct EXCEPT ![CoreA] = t]
    BY <1>2 DEF CoreWillAtActive, ReceivedByA, ActiveMoves
  <2>2. StepsAhead' = StepsAhead /\ ct'[CoreB] = ct[CoreB]
    BY <1>a, <2>1 DEF StepsAhead
  <2>3. Asked => Asked'
    BY <2>2 DEF Asked
  <2>4. Offered' = Offered
    <3>1. Elements(aIn) = {Head(aIn)} \cup Elements(aIn')
      BY <1>e, <2>1
    <3>2. {x \in Elements(aIn) : x.kind = "node_register"} =
          {x \in Elements(aIn') : x.kind = "node_register"}
      BY <2>1, <3>1
    <3> QED
      BY <2>2, <3>2 DEF Offered
  <2>5. Advertised(aIn, ct[CoreA].backup) => Advertised(aIn', ct'[CoreA].backup)
    <3>1. CASE Forgets(Head(aIn))
      BY <1>b, <2>1, <3>1, AdvertisedByHandling
    <3>2. CASE ~ Forgets(Head(aIn))
      <4>1. Head(aIn).core \in Cores
        BY <1>b, <2>1, HeadTailProperties, MessageFields
      <4>2. Head(aIn).core = CoreA
        BY <2>1, <3>2, <4>1, ClusterConstants DEF Forgets
      <4>3. ct'[CoreA] = ct[CoreA]
        BY <1>2, <1>a, <4>2 DEF CoreWillAtActive, ActiveMoves
      <4> QED
        BY <1>b, <2>1, <3>2, <4>3, AdvertisedByHandling
    <3> QED
      BY <3>1, <3>2
  <2>6. NodesComing'
    BY <2>2, <2>3, <2>4, NodesKept
  <2>7. BackupComing'
    BY <2>2, <2>3, <2>5, BackupKept
  <2> QED
    BY <2>6, <2>7
<1> QED
  BY <1>1, <1>2, <1>d DEF ActiveSteps

\* A callback may drop the steps that neither ask for a registration nor
\* hold one.
LEMMA OtherStepsDone ==
  ASSUME TypeOK, Next, NodesComing, BackupComing,
         NEW th \in Threads, NEW w, work' = [work EXCEPT ![th] = w],
         \A s \in Elements(work[th]) : s \in Elements(w) \/ (~ Asking(s) /\ ~ Offering(s)),
         aIn' = aIn, Known(ct'[CoreB]) \subseteq Known(ct[CoreB]),
         ct'[CoreA].backup = ct[CoreA].backup
  PROVE  NodesComing' /\ BackupComing'
<1>1. PICK other : StepsAhead = Elements(work[th]) \cup other /\ StepsAhead' = Elements(w) \cup other
  BY StepsLeft
<1>2. \A s \in StepsAhead : s \in StepsAhead' \/ (~ Asking(s) /\ ~ Offering(s))
  BY <1>1
<1>3. Asked => Asked'
  BY <1>2 DEF Asked
<1>4. \A t \in Offered : t \in Offered'
  BY <1>2 DEF Offered
<1>5. NodesComing'
  BY <1>3, <1>4, NodesKept
<1>6. \A s \in StepsAhead : Offering(s) => s \in StepsAhead'
  BY <1>2
<1>7. BackupComing'
  BY <1>3, <1>6, BackupKept
<1> QED
  BY <1>5, <1>7

\* A callback of CoreB that asks for a registration.
LEMMA AskedByCallback ==
  ASSUME TypeOK, NEW th \in Threads, NEW w, work' = [work EXCEPT ![th] = w],
         \E s \in Elements(w) : Asking(s)
  PROVE  NodesComing' /\ BackupComing'
<1>1. PICK other : StepsAhead' = Elements(w) \cup other
  BY StepsLeft
<1>2. Asked'
  BY <1>1 DEF Asked
<1> QED
  BY <1>2 DEF NodesComing, BackupComing

\* The callbacks that ask, and a merge, which does not.
LEMMA AskingCallbacks ==
  /\ \E s \in Elements(<<Snapshot("register")>>) : Asking(s)
  /\ \E s \in Elements(<<Snapshot("topology"), Snapshot("register")>>) : Asking(s)
  /\ \E s \in Elements(<<Snapshot("topology"), Snapshot("changed")>>) : Asking(s)
  /\ \A t \in Table : Elements(<<Merge(t)>>) = {Merge(t)} /\ ~ Asking(Merge(t)) /\ ~ Offering(Merge(t))
<1> DEFINE a == Snapshot("topology")
           b == Snapshot("changed")
           c == Snapshot("register")
<1>1. a \in Step /\ b \in Step /\ c \in Step /\ \A t \in Table : Merge(t) \in Step
  BY StepTypes
<1>2. Asking(b) /\ Asking(c)
  BY DEF Asking, Snapshot
<1>3. \A t \in Table : ~ Asking(Merge(t)) /\ ~ Offering(Merge(t))
  BY DEF Asking, Offering, Merge
<1> HIDE DEF a, b, c
<1>4. Elements(<<c>>) = {c} /\ Elements(<<a, c>>) = {a, c} /\ Elements(<<a, b>>) = {a, b}
  <2>1. /\ \A x \in Step : Elements(<<x>>) = {x}
        /\ \A x \in Step, y \in Step : Elements(<<x, y>>) = {x, y}
    BY ElementsOf
  <2>2. Elements(<<c>>) = {c}
    BY <1>1, <2>1
  <2>3. Elements(<<a, c>>) = {a, c}
    BY <1>1, <2>1
  <2>4. Elements(<<a, b>>) = {a, b}
    BY <1>1, <2>1
  <2> QED
    BY <2>2, <2>3, <2>4
<1>5. \A t \in Table : Elements(<<Merge(t)>>) = {Merge(t)}
  BY <1>1, ElementsOf
<1> QED
  BY <1>2, <1>3, <1>4, <1>5 DEF a, b, c

\* The peer thread asks for a registration whenever it connects and whenever
\* a merge added a node.
LEMMA PeerStepsRegister ==
  ASSUME TypeOK, TakeoverInv, RegInv, Next, PeerSteps, Paired'
  PROVE  NodesComing' /\ BackupComing'
<1>a. /\ "peer" \in Threads /\ ct \in [Cores -> Table] /\ CoreA # CoreB
      /\ CoreA \in Cores /\ CoreB \in Cores /\ isBackup \in [Cores -> BOOLEAN]
  BY CoreIds DEF TypeOK, Threads
<1>1. CASE PeerConnects
  <2>1. work' = [work EXCEPT !["peer"] = <<Snapshot("register")>>]
    BY <1>1 DEF PeerConnects, Paired
  <2> QED
    BY <1>a, <2>1, AskingCallbacks, AskedByCallback
<1> DEFINE before == Paired => NodesComing /\ BackupComing
<1>b. before
  BY DEF RegInv
<1>2. CASE CtSyncAtBackup
  <2>1. /\ UNCHANGED <<ct, isBackup, alive, leaving, selfUp, peer, aIn>> /\ work["peer"] = <<>>
        /\ peerIn # <<>> /\ Head(peerIn).kind = "ct_sync"
    BY <1>2 DEF CtSyncAtBackup, ReceivedByPeer, Idle
  <2>2. NodesComing /\ BackupComing
    BY <1>b, <2>1 DEF Paired, Listening
  <2>3. \E w : work' = [work EXCEPT !["peer"] = w]
    <3>1. UNCHANGED work => work' = [work EXCEPT !["peer"] = work["peer"]]
      BY <1>a DEF TypeOK
    <3> QED
      BY <1>2, <3>1 DEF CtSyncAtBackup
  <2>4. Elements(work["peer"]) = {}
    BY <2>1, ElementsOf
  <2> QED
    BY <1>a, <2>1, <2>2, <2>3, <2>4, OtherStepsDone
<1>3. CASE MergeAtBackup
  <2> DEFINE remote == Head(work["peer"]).table
             local  == Renamed(ct[CoreB], remote)
  <2>1. /\ work["peer"] # <<>> /\ Head(work["peer"]).do = "merge"
        /\ UNCHANGED <<isBackup, alive, leaving, selfUp, peer, aIn>>
        /\ \E admitted \in Admissions(local, remote) :
             ct' = [ct EXCEPT ![CoreB] = MergeConnectionTables(local, remote, admitted)]
        /\ work' = [work EXCEPT !["peer"] =
                       IF MergeChanges(local, remote)
                         THEN <<Snapshot("topology"), Snapshot("register")>> ELSE <<>>]
    BY <1>3 DEF MergeAtBackup, Running, linkVars, Renamed
  <2>2. NodesComing /\ BackupComing
    <3>1. Paired
      BY <2>1 DEF Paired, Listening
    <3> QED
      BY <1>b, <3>1
  <2>3. remote \in Table
    BY <1>a, <2>1, WorkTypes, StepFields
  <2>4. CASE MergeChanges(local, remote)
    <3>1. work' = [work EXCEPT !["peer"] = <<Snapshot("topology"), Snapshot("register")>>]
      BY <2>1, <2>4
    <3> QED
      BY <1>a, <3>1, AskingCallbacks, AskedByCallback
  <2>5. CASE ~ MergeChanges(local, remote)
    <3>1. work' = [work EXCEPT !["peer"] = <<>>] /\ FreshRows(local, remote) = {}
      BY <2>1, <2>5 DEF MergeChanges
    <3>2. PICK t \in Table : work["peer"] = <<Merge(t)>>
      <4>1. work["peer"] \notin Seq({s \in Step : s.do # "merge"})
        <5>1. ASSUME work["peer"] \in Seq({s \in Step : s.do # "merge"}) PROVE FALSE
          <6>1. Head(work["peer"]) \in {s \in Step : s.do # "merge"}
            BY <2>1, <5>1, HeadTailProperties
          <6> QED
            BY <2>1, <6>1
        <5> QED
          BY <5>1
      <4> QED
        BY <4>1 DEF RegInv
    <3>3. Elements(work["peer"]) = {Merge(t)} /\ ~ Asking(Merge(t)) /\ ~ Offering(Merge(t))
      BY <3>2, AskingCallbacks
    <3>4. ct[CoreB] \in Table
      BY <1>a
    <3>5. local \in Table /\ Known(local) = Known(ct[CoreB])
      BY <2>3, <3>4, RenamedKnows
    <3>6. PICK admitted \in Admissions(local, remote) :
            ct' = [ct EXCEPT ![CoreB] = MergeConnectionTables(local, remote, admitted)]
      BY <2>1
    <3>7. Known(MergeConnectionTables(local, remote, admitted)) = Known(local)
      BY <2>3, <3>1, <3>5, MergeKnows
    <3>8. Known(ct'[CoreB]) = Known(ct[CoreB]) /\ ct'[CoreA] = ct[CoreA]
      BY <1>a, <3>5, <3>6, <3>7
    <3> QED
      BY <1>a, <2>1, <2>2, <3>1, <3>3, <3>8, OtherStepsDone
  <2> QED
    BY <2>4, <2>5
<1>4. CASE CoreWillAtBackup
  <2>1. UNCHANGED <<ct, isBackup, work, alive, leaving, selfUp, peer, aIn>>
    <3>1. ASSUME NEW failed, Promote("peer", failed, PromotionScript) PROVE FALSE
      BY <1>a, <3>1 DEF Promote, Paired
    <3> QED
      BY <1>4, <3>1 DEF CoreWillAtBackup
  <2>2. NodesComing /\ BackupComing
    BY <1>b, <2>1 DEF Paired, Listening
  <2>3. StepsAhead' = StepsAhead
    BY <2>1 DEF StepsAhead
  <2> QED
    BY <2>1, <2>2, <2>3, NothingHandled
<1>5. ~ ElectionRequestAtBackup /\ ~ ElectionResultAtBackup
  BY PeerHead DEF ElectionRequestAtBackup, ElectionResultAtBackup, ReceivedByPeer, TakeoverInv
<1>6. ~ StopPeerChannel /\ ~ PeerChannelCloses
  BY DEF StopPeerChannel, PeerChannelCloses, Paired
<1> QED
  BY <1>1, <1>2, <1>3, <1>4, <1>5, <1>6 DEF PeerSteps

\* A registration is asked for, taken and sent without a gap.
LEMMA ScriptStepsRegister ==
  ASSUME TypeOK, RegInv, Next, NEW th \in Threads, ScriptSteps(th), Paired'
  PROVE  NodesComing' /\ BackupComing'
<1> DEFINE s == Head(work[th])
           rest == Tail(work[th])
<1>1. /\ work[th] # <<>> /\ s.do \in {"snapshot", "emit", "switch"}
      /\ UNCHANGED <<ct, isBackup, alive, leaving, selfUp, peer>>
  BY DEF ScriptSteps, TakeSnapshot, Publish, AnnounceSwitch, Running, linkVars
<1>2. NodesComing /\ BackupComing /\ Listening /\ isBackup[CoreB] /\ peer = "up"
  BY <1>1 DEF Paired, Listening, RegInv
<1>3. /\ s \in Step /\ rest \in Seq(Step) /\ work[th] \in Seq(Step)
      /\ ct[CoreB] \in Table /\ ct[CoreB].backup = CoreB
  BY <1>1, <1>2, WorkTypes, CoreIds DEF RegInv, TypeOK
<1>4. Elements(work[th]) = {s} \cup Elements(rest)
  BY <1>1, <1>3, ElementsOf
<1>5. CASE AnnounceSwitch(th)
  <2>1. work' = [work EXCEPT ![th] = rest] /\ s.do = "switch" /\ UNCHANGED aIn
    BY <1>5 DEF AnnounceSwitch, Running, linkVars
  <2>2. ~ Asking(s) /\ ~ Offering(s)
    BY <2>1 DEF Asking, Offering
  <2>3. \A x \in Elements(work[th]) : x \in Elements(rest) \/ (~ Asking(x) /\ ~ Offering(x))
    BY <1>4, <2>2
  <2> HIDE DEF s, rest
  <2> QED
    BY <1>1, <1>2, <2>1, <2>3, OtherStepsDone
<1>6. CASE Publish(th)
  <2>1. work' = [work EXCEPT ![th] = rest] /\ s.do = "emit"
    BY <1>6 DEF Publish, Running
  <2>2. CASE s.topic # "register"
    <3>1. UNCHANGED aIn
      BY <1>6, <2>2 DEF Publish
    <3>2. ~ Asking(s) /\ ~ Offering(s)
      BY <2>1, <2>2 DEF Asking, Offering
    <3>3. \A x \in Elements(work[th]) : x \in Elements(rest) \/ (~ Asking(x) /\ ~ Offering(x))
      BY <1>4, <3>2
    <3> HIDE DEF s, rest
    <3> QED
      BY <1>1, <1>2, <2>1, <3>1, <3>3, OtherStepsDone
  <2>3. CASE s.topic = "register"
    <3> DEFINE t == s.table
               m == NodeRegister(t)
    <3>1. aIn' = aIn \o <<m>>
      BY <1>2, <1>6, <2>3 DEF Publish, SendByPeer, ForA
    <3>2. t \in Table /\ m \in Message /\ aIn \in Seq(Message)
      BY <1>3, <2>1, StepFields, MessageTypes DEF TypeOK
    <3>3. m.kind = "node_register" /\ m.table = t
      BY DEF NodeRegister
    <3>4. PICK other : StepsAhead = Elements(work[th]) \cup other /\ StepsAhead' = Elements(rest) \cup other
      BY <2>1, StepsLeft
    <3>5. ~ Asking(s)
      BY <2>1 DEF Asking
    <3>6. StepsAhead = StepsAhead' \cup {s}
          \/ StepsAhead = StepsAhead'
      BY <1>4, <3>4
    <3> HIDE DEF m
    <3>7. Elements(aIn') = Elements(aIn) \cup {m}
      BY <3>1, <3>2, ElementsOf
    <3> HIDE DEF s, rest, t
    <3>8. Asked => Asked'
      BY <3>5, <3>6 DEF Asked
    <3>9. ASSUME NEW x \in Offered PROVE x \in Offered'
      <4>1. m \in Elements(aIn') /\ Elements(aIn) \subseteq Elements(aIn')
        BY <3>7
      <4>2. t \in Offered'
        BY <3>3, <4>1 DEF Offered
      <4>3. CASE \E y \in Elements(aIn) : y.kind = "node_register" /\ x = y.table
        BY <4>1, <4>3 DEF Offered
      <4>4. CASE \E y \in StepsAhead : Offering(y) /\ x = y.table
        BY <3>6, <4>2, <4>4 DEF Offered, t
      <4> QED
        BY <4>3, <4>4 DEF Offered
    <3>10. NodesComing'
      BY <1>1, <1>2, <3>8, <3>9, NodesKept
    <3>11. ASSUME s.table.backup = CoreB PROVE Advertised(aIn', ct'[CoreA].backup)
      BY <3>1, <3>2, <3>3, <3>11, AdvertisedByAppend DEF t
    <3>12. Advertised(aIn, ct[CoreA].backup) => Advertised(aIn', ct'[CoreA].backup)
      <4>1. ~ Forgets(m) /\ ct' = ct
        BY <1>1, <3>3 DEF Forgets
      <4> QED
        BY <3>1, <3>2, <4>1, AdvertisedStays
    <3>13. \A x \in StepsAhead : Offering(x) /\ x.table.backup = CoreB =>
             x \in StepsAhead' \/ Advertised(aIn', ct'[CoreA].backup)
      BY <3>6, <3>11
    <3>14. BackupComing'
      BY <1>2, <3>8, <3>12, <3>13, BackupKept
    <3> QED
      BY <3>10, <3>14
  <2> QED
    BY <2>2, <2>3
<1>7. CASE TakeSnapshot(th)
  <2> DEFINE topic == IF s.topic # "changed" THEN s.topic ELSE "register"
             step  == Emit(topic, ct[CoreB])
             w     == <<step>> \o rest
  <2>1. /\ work' = [work EXCEPT ![th] = w] /\ s.do = "snapshot" /\ UNCHANGED aIn
    BY <1>2, <1>7 DEF TakeSnapshot, Running, linkVars
  <2>2. step \in Step /\ step.do = "emit" /\ step.topic = topic /\ step.table = ct[CoreB]
    <3>1. s.topic \in Topics
      BY <1>3, <2>1, StepFields
    <3>2. topic \in Topics
      BY <3>1, StepTypes
    <3> QED
      BY <1>3, <3>2, StepTypes DEF Emit
  <2>a. topic = IF s.topic # "changed" THEN s.topic ELSE "register"
    OBVIOUS
  <2> HIDE DEF s, rest, step, topic
  <2>3. Elements(w) = Elements(rest) \cup {step}
    BY <1>3, <2>2, ElementsOf
  <2> HIDE DEF w
  <2>4. CASE Asking(s)
    <3>1. PICK other : StepsAhead' = Elements(w) \cup other
      BY <2>1, StepsLeft
    <3>2. Offering(step) /\ step \in StepsAhead'
      BY <2>2, <2>3, <2>4, <2>a, <3>1 DEF Asking, Offering
    <3>3. ct[CoreB] \in Offered'
      BY <2>2, <3>2 DEF Offered
    <3>4. NodesComing'
      BY <1>1, <3>3 DEF NodesComing
    <3>5. BackupComing'
      BY <1>3, <2>2, <3>2 DEF BackupComing
    <3> QED
      BY <3>4, <3>5
  <2>5. CASE ~ Asking(s)
    <3>1. ~ Offering(s)
      BY <2>1 DEF Offering
    <3>2. \A x \in Elements(work[th]) : x \in Elements(w) \/ (~ Asking(x) /\ ~ Offering(x))
      BY <1>4, <2>3, <2>5, <3>1
    <3> QED
      BY <1>1, <1>2, <2>1, <3>2, OtherStepsDone
  <2> QED
    BY <2>4, <2>5
<1> QED
  BY <1>5, <1>6, <1>7 DEF ScriptSteps

\* An edge that registers or goes away on CoreB makes CoreB ask; on CoreA it
\* leaves the registration alone.
LEMMA EnvironmentStepsRegister ==
  ASSUME TypeOK, OnlyRealEnds, selfUp, RegInv, Next, EnvironmentSteps, Paired'
  PROVE  NodesComing' /\ BackupComing'
<1>a. /\ ct \in [Cores -> Table] /\ clock \in Nat /\ CoreA # CoreB /\ CoreA \in Cores /\ CoreB \in Cores
      /\ Cores \subseteq Ids /\ "self" \in Threads /\ work \in [Threads -> Seq(Step)]
      /\ alive \in [Cores -> BOOLEAN]
  BY CoreIds DEF TypeOK, Threads
<1>1. ASSUME NEW c \in Cores, NEW e \in Edges, NEW t, EdgeMoves(c, t),
             UNCHANGED <<isBackup, alive, leaving, selfUp, peer, aIn>>,
             t.backup = ct[c].backup
      PROVE  NodesComing' /\ BackupComing'
  <2>1. NodesComing /\ BackupComing /\ Listening
    BY <1>1 DEF RegInv, Paired, Listening
  <2>2. CASE c = CoreA
    <3>1. ct' = [ct EXCEPT ![CoreA] = t] /\ UNCHANGED work
      BY <1>1, <2>1, <2>2 DEF EdgeMoves, ActiveMoves
    <3>2. ct'[CoreB] = ct[CoreB] /\ ct'[CoreA].backup = ct[CoreA].backup /\ StepsAhead' = StepsAhead
      BY <1>1, <1>a, <2>2, <3>1 DEF StepsAhead
    <3> QED
      BY <1>1, <2>1, <3>2, NothingHandled
  <2>3. CASE c # CoreA /\ t # ct[c]
    <3>1. work' = [work EXCEPT !["self"] = <<Snapshot("topology"), Snapshot("changed")>>]
      BY <1>1, <2>3 DEF EdgeMoves
    <3> QED
      BY <1>a, <3>1, AskingCallbacks, AskedByCallback
  <2>4. CASE c # CoreA /\ t = ct[c]
    <3>1. ct' = [ct EXCEPT ![c] = t] /\ UNCHANGED work
      BY <1>1, <2>4 DEF EdgeMoves
    <3>2. ct' = ct
      BY <1>a, <2>4, <3>1
    <3>3. StepsAhead' = StepsAhead
      BY <3>1 DEF StepsAhead
    <3> QED
      BY <1>1, <2>1, <3>2, <3>3, NothingHandled
  <2> QED
    BY <2>2, <2>3, <2>4
<1>2. ASSUME NEW c \in Cores, NEW e \in Edges, EdgeStatus(c, e) \/ NodeWill(c, e)
      PROVE  NodesComing' /\ BackupComing'
  <2>1. ct[c] \in Table /\ c \in Ids
    BY <1>a
  <2>2. /\ RegisterEdge(ct[c], c, e, clock).backup = ct[c].backup
        /\ SetNodeStatus(ct[c], e, Offline, clock).backup = ct[c].backup
    BY <1>a, <2>1, EdgeKeepsCoreIds
  <2>3. UNCHANGED <<isBackup, alive, leaving, selfUp, peer, aIn>>
    BY <1>2 DEF EdgeStatus, NodeWill
  <2>4. CASE EdgeStatus(c, e)
    BY <1>1, <2>2, <2>3, <2>4 DEF EdgeStatus
  <2>5. CASE NodeWill(c, e)
    BY <1>1, <2>2, <2>3, <2>5 DEF NodeWill
  <2> QED
    BY <1>2, <2>4, <2>5
<1>3. CASE Tick
  <2>1. UNCHANGED <<ct, isBackup, work, alive, leaving, selfUp, peer, aIn>>
    BY <1>3 DEF Tick, coreVars, linkVars
  <2>2. NodesComing /\ BackupComing /\ StepsAhead' = StepsAhead
    BY <2>1 DEF RegInv, Paired, Listening, StepsAhead
  <2> QED
    BY <2>1, <2>2, NothingHandled
<1>4. ~ DropSelf /\ ~ RequestElection /\ ~ ElectionResultOnSelf
  BY DEF DropSelf, RequestElection, ElectionResultOnSelf, Fault, OnlyRealEnds
<1>5. ~ ActiveEnds /\ ~ LoseActiveHost /\ ~ NoticeOfBackup /\ ~ BackupEnds /\ ~ DropPeer
  <2>1. ~ ActiveEnds /\ ~ LoseActiveHost /\ ~ BackupEnds
    BY <1>a DEF ActiveEnds, LoseActiveHost, BackupEnds, Ends, Paired, Listening
  <2>2. ~ NoticeOfBackup
    BY DEF NoticeOfBackup, Paired
  <2>3. ~ DropPeer
    BY DEF DropPeer, Broken, Paired
  <2> QED
    BY <2>1, <2>2, <2>3
<1>6. CASE NoticeOfActive
  <2> DEFINE m == CoreWill(CoreA)
  <2>1. UNCHANGED <<ct, isBackup, work, alive, selfUp, peer>> /\ leaving' = leaving \cup {CoreA}
    BY <1>6 DEF NoticeOfActive
  <2>2. NodesComing /\ BackupComing /\ StepsAhead' = StepsAhead
    BY <2>1 DEF RegInv, Paired, Listening, StepsAhead
  <2>3. m \in Message /\ aIn \in Seq(Message) /\ m.kind = "core_will" /\ m.core = CoreA
    BY <1>a, MessageTypes DEF CoreWill, TypeOK
  <2>4. aIn' = aIn \o <<m>>
    BY <1>6, <2>1 DEF NoticeOfActive, ForA, Paired, Listening
  <2>5. ~ Forgets(m)
    BY <1>a, <2>3 DEF Forgets
  <2> HIDE DEF m
  <2>6. Elements(aIn') = Elements(aIn) \cup {m}
    BY <2>3, <2>4, ElementsOf
  <2>7. Offered' = Offered /\ (Asked => Asked')
    <3>1. {x \in Elements(aIn') : x.kind = "node_register"} =
          {x \in Elements(aIn) : x.kind = "node_register"}
      BY <2>3, <2>6
    <3> QED
      BY <2>2, <3>1 DEF Offered, Asked
  <2>8. NodesComing'
    BY <2>1, <2>2, <2>7, NodesKept
  <2>9. Advertised(aIn, ct[CoreA].backup) => Advertised(aIn', ct'[CoreA].backup)
    BY <2>1, <2>3, <2>4, <2>5, AdvertisedStays
  <2> QED
    BY <2>2, <2>7, <2>8, <2>9, BackupKept
<1> QED
  BY <1>2, <1>3, <1>4, <1>5, <1>6 DEF EnvironmentSteps

\* The invariant holds in every reachable state.
LEMMA RegInvariant ==
  ASSUME OnlyRealEnds
  PROVE  Spec => []RegInv
<1>1. OwnConnectionHolds
  BY DEF OnlyRealEnds, OwnConnectionHolds
<1>2. Init => RegInv
  <2> SUFFICES ASSUME Init PROVE RegInv
    OBVIOUS
  <2>1. TypeOK /\ "peer" \in Threads /\ "self" \in Threads
    BY InitTypes DEF Threads
  <2>2. /\ \A c \in Cores : ct[c] = StartTable(c) /\ topology[c] = StartTable(c)
        /\ ctSync = StartTable(CoreA) /\ aIn = <<>> /\ peerIn = <<>> /\ peerOut = <<>>
        /\ \A th \in Threads : work[th] = <<>>
    BY DEF Init
  <2>3. \A c \in Cores : StartTable(c) \in Table
    BY <2>1, <2>2 DEF TypeOK
  <2>4. StartTable(CoreA).backup = NoId /\ StartTable(CoreB).backup = CoreB
    <3>1. NewTable(CoreA, NoId) \in Table /\ NewTable(NoId, CoreB) \in Table
      BY CoreIds, NewTableType
    <3>2. \A t \in Table, c \in Ids : AddNode(t, c, Announced(Online), 1).backup = t.backup
      BY DEF AddNode, PutRow, Table
    <3> QED
      BY <3>1, <3>2, CoreIds DEF StartTable, NewTable
  <2>5. \A c \in Cores : StartTable(c) \in NamesBackup
    BY <2>3, <2>4, ClusterConstants DEF NamesBackup
  <2>6. Carries(NamesBackup)
    <3>1. NamesBackup \in SUBSET Table /\ <<>> \in Seq(MessagesOf(NamesBackup)) /\ <<>> \in Seq(StepsOf(NamesBackup))
      BY DEF NamesBackup
    <3>2. work \in [Threads -> Seq(StepsOf(NamesBackup))]
      BY <2>1, <2>2, <3>1 DEF TypeOK
    <3> QED
      BY <2>2, <2>5, <3>1, <3>2, CoreIds DEF Carries
  <2>7. ct[CoreB].backup = CoreB /\ \A c \in Cores : ct[c] \in NamesBackup
    BY <2>2, <2>4, <2>5, CoreIds
  <2>8. work["peer"] \in Seq({s \in Step : s.do # "merge"})
    <3>1. work["peer"] = <<>> /\ \A S : <<>> \in Seq(S)
      BY <2>1, <2>2
    <3> QED
      BY <3>1
  <2>9. ~ Paired
    BY DEF Init, Paired
  <2> QED
    BY <2>6, <2>7, <2>8, <2>9 DEF RegInv
<1>3. TypeOK /\ TakeoverInv /\ EdgeInv /\ ViewInv /\ RegInv /\ [Next]_vars => RegInv'
  <2> SUFFICES ASSUME TypeOK, TakeoverInv, EdgeInv, ViewInv, RegInv, [Next]_vars PROVE RegInv'
    OBVIOUS
  <2>1. CASE Next
    <3>1. isBackup'[CoreB] => isBackup[CoreB]
      BY <2>1, HomeKept DEF ViewInv
    <3>2. /\ \A c \in Cores : ct'[c] \in NamesBackup
          /\ Carries(NamesBackup)'
          /\ isBackup'[CoreB] => ct'[CoreB].backup = CoreB
      BY <2>1, <3>1, BackupNames
    <3>3. \/ work'["peer"] \in Seq({s \in Step : s.do # "merge"})
          \/ \E t \in Table : work'["peer"] = <<Merge(t)>>
      BY <2>1, MergeIsLast
    <3>4. ASSUME Paired' PROVE NodesComing' /\ BackupComing'
      <4>1. selfUp
        BY DEF EdgeInv
      <4>2. CASE ActiveSteps
        <5>1. Paired
          <6>1. UNCHANGED <<alive, leaving, peer>>
            BY <4>2 DEF ActiveSteps, NodeRegisterAtActive, CoreWillAtActive,
                        ElectionRequestAtActive, ElectionResultAtActive, ActiveReconnects, coreVars
          <6>2. alive[CoreA]
            BY <3>4, <6>1 DEF Paired, Listening
          <6> QED
            BY <3>1, <3>4, <4>1, <6>1, <6>2 DEF Paired, Listening
        <5> QED
          BY <2>1, <4>1, <4>2, <5>1, ActiveStepsRegister DEF RegInv
      <4>3. CASE PeerSteps
        BY <2>1, <3>4, <4>3, PeerStepsRegister
      <4>4. CASE \E th \in Threads : ScriptSteps(th)
        BY <2>1, <3>4, <4>4, ScriptStepsRegister
      <4>5. CASE EnvironmentSteps
        BY <2>1, <3>4, <4>1, <4>5, EnvironmentStepsRegister
      <4> QED
        BY <2>1, <4>2, <4>3, <4>4, <4>5 DEF Next
    <3> QED
      BY <3>2, <3>3, <3>4 DEF RegInv
  <2>2. CASE UNCHANGED vars
    BY <2>2 DEF vars, coreVars, linkVars, viewVars, RegInv, Carries, Paired, Listening,
                NodesComing, BackupComing, Asked, Offered, StepsAhead
  <2> QED
    BY <2>1, <2>2
<1>4. Spec => []EdgeInv
  BY <1>1, EdgeInvariant
<1>5. Spec => []ViewInv
  BY ViewInvariant
<1> QED
  BY <1>2, <1>3, <1>4, <1>5, TypeCorrect, TakeoverInvariant, PTL DEF Spec

\* If nothing but an end is announced as one, a cluster that has come to rest with
\* both cores up and connected has registered its Backup: the Active names
\* it, and knows every node the Backup knows unless its table is full.  The
\* node_register at connection and after every merge and change is enough, in
\* whatever order wills, merges and registrations met.
THEOREM RegistrationCompletes ==
  ASSUME OnlyRealEnds
  PROVE  Spec => []RegistrationComplete
<1>1. TypeOK /\ RegInv => RegistrationComplete
  <2> SUFFICES ASSUME TypeOK, RegInv, Quiet, Paired
               PROVE  /\ ct[CoreA].backup = CoreB
                      /\ Room(ct[CoreA]) > 0 => Known(ct[CoreB]) \subseteq Known(ct[CoreA])
    BY DEF RegistrationComplete
  <2>1. aIn = <<>> /\ work["self"] = <<>> /\ work["peer"] = <<>>
    BY DEF Quiet, Threads
  <2>2. Elements(<<>>) = {}
    BY ElementsOf
  <2>3. StepsAhead = {} /\ Offered = {} /\ ~ Asked
    BY <2>1, <2>2 DEF StepsAhead, Offered, Asked
  <2>4. Advertised(<<>>, ct[CoreA].backup)
    BY <2>1, <2>3 DEF RegInv, BackupComing
  <2>5. ct[CoreA].backup = CoreB
    <3>1. Len(<<>>) = 0 /\ 1..0 = {}
      OBVIOUS
    <3> QED
      BY <2>4, <3>1 DEF Advertised
  <2>6. Room(ct[CoreA]) <= 0 \/ Known(ct[CoreB]) \subseteq Known(ct[CoreA])
    BY <2>3 DEF RegInv, NodesComing
  <2>7. Room(ct[CoreA]) \in Int
    BY RoomShrinks
  <2> DEFINE room == Room(ct[CoreA])
  <2>8. room <= 0 => ~ (room > 0)
    BY <2>7
  <2> HIDE DEF room
  <2> QED
    BY <2>5, <2>6, <2>8 DEF room
<1> QED
  BY <1>1, RegInvariant, TypeCorrect, PTL
=============================================================================
