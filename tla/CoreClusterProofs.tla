-------------------------- MODULE CoreClusterProofs --------------------------
(***************************************************************************)
(* Theorems about CoreCluster for every set of edges, every attachment and *)
(* every bound.                                                            *)
(***************************************************************************)
EXTENDS CoreCluster, ConnectionTableProofs, SequenceTheorems

(***************************************************************************)
(* Types                                                                   *)
(***************************************************************************)

\* The two cores are ids of the table.
LEMMA CoreIds ==
  /\ CoreA \in Cores /\ CoreB \in Cores /\ CoreA # CoreB
  /\ Cores \subseteq Ids /\ Edges \subseteq Ids /\ NoId \notin Ids
BY ClusterConstants, TableConstants DEF Ids

\* Every message constructor returns a message.
LEMMA MessageTypes ==
  /\ \A t \in Table : CtSync(t) \in Message /\ NodeRegister(t) \in Message
  /\ \A c \in Cores : CoreWill(c) \in Message /\ Request(c) \in Message
  /\ \A c \in Cores, v \in Cores : Vote(v, c) \in Message
BY DEF Message, CtSync, NodeRegister, CoreWill, Request, Vote

\* The constructors of callback steps return steps.
LEMMA StepTypes ==
  /\ \A topic \in Topics : Snapshot(topic) \in Step
  /\ \A topic \in Topics, t \in Table : Emit(topic, t) \in Step
  /\ \A t \in Table : Merge(t) \in Step
  /\ Switch \in Step /\ StopPeer \in Step
  /\ Topics = {"topology", "changed", "register", "ownSync", "peerTopology", "peerSync"}
BY DEF Step, Snapshot, Emit, Merge, Switch, StopPeer, Topics

\* Sequences of up to six given elements.
LEMMA ShortSeqs ==
  ASSUME NEW S, NEW a \in S, NEW b \in S, NEW c \in S, NEW d \in S, NEW e \in S, NEW f \in S
  PROVE  /\ <<>> \in Seq(S) /\ <<a>> \in Seq(S) /\ <<a, b>> \in Seq(S)
         /\ <<a, b, c>> \in Seq(S) /\ <<a, b, c, d, e, f>> \in Seq(S)
OBVIOUS

\* The fields of a received message.
LEMMA MessageFields ==
  ASSUME NEW m \in Message
  PROVE  /\ m.kind \in {"ct_sync", "node_register"} => m.table \in Table
         /\ m.kind = "core_will" => m.core \in Cores
         /\ m.kind = "request" => m.candidate \in Cores
         /\ m.kind = "vote" => m.candidate \in Cores /\ m.voter \in Cores
BY DEF Message

\* The fields of a step of a callback.
LEMMA StepFields ==
  ASSUME NEW s \in Step
  PROVE  /\ s.do \in {"snapshot", "emit"} => s.topic \in Topics
         /\ s.do \in {"emit", "merge"} => s.table \in Table
BY DEF Step

\* The initial states are of the declared types.
LEMMA InitTypes == Init => TypeOK
<1> SUFFICES ASSUME Init PROVE TypeOK
  OBVIOUS
<1>1. \A c \in Cores : StartTable(c) \in Table
  <2> TAKE c \in Cores
  <2> DEFINE t == IF c = CoreA THEN NewTable(c, NoId) ELSE NewTable(NoId, c)
  <2>1. t \in Table
    BY CoreIds, NewTableType
  <2>2. Announced(Online) \in Row
    BY DEF Announced, Row, Online
  <2>3. StartTable(c) = AddNode(t, c, Announced(Online), 1)
    BY DEF StartTable
  <2> HIDE DEF t
  <2> QED
    BY <2>1, <2>2, <2>3, CoreIds, RowOperationsAdvance DEF Online, Offline
<1>2. <<>> \in Seq(Message) /\ <<>> \in Seq(Step)
  OBVIOUS
<1> QED
  BY <1>1, <1>2, CoreIds DEF Init, TypeOK

\* Appending to a queue.
LEMMA QueueTypes ==
  ASSUME TypeOK, NEW msgs \in Seq(Message)
  PROVE  ForA(msgs) \in Seq(Message) /\ ForPeer(msgs) \in Seq(Message)
BY ConcatProperties DEF TypeOK, ForA, ForPeer

\* Queueing one message.
LEMMA OneMessage ==
  ASSUME TypeOK, NEW m \in Message
  PROVE  ForA(<<m>>) \in Seq(Message) /\ ForPeer(<<m>>) \in Seq(Message)
<1>1. <<m>> \in Seq(Message)
  OBVIOUS
<1> QED
  BY <1>1, QueueTypes

\* A publication of the peer client.
LEMMA SendByPeerTypes ==
  ASSUME TypeOK, NEW m \in Message, SendByPeer(m)
  PROVE  aIn' \in Seq(Message) /\ peerOut' \in Seq(Message)
<1>1. ForA(<<m>>) \in Seq(Message)
  BY OneMessage
<1>2. Append(peerOut, m) \in Seq(Message)
  BY AppendProperties DEF TypeOK
<1> QED
  BY <1>1, <1>2 DEF SendByPeer, TypeOK

\* A step that gives CoreA a new table, or keeps the old one.
LEMMA ActiveMovesTypes ==
  ASSUME TypeOK, NEW t \in Table, NEW changed \in BOOLEAN, ActiveMoves(t, changed)
  PROVE  /\ ct' \in [Cores -> Table] /\ topology' \in [Cores -> Table]
         /\ ctSync' \in Table /\ peerIn' \in Seq(Message)
<1>1. CASE changed
  <2>1. CtSync(t) \in Message
    BY MessageTypes
  <2>2. ForPeer(<<CtSync(t)>>) \in Seq(Message)
    BY <2>1, OneMessage
  <2> QED
    BY <1>1, <2>2 DEF ActiveMoves, PublishActiveView, TypeOK
<1>2. CASE ~ changed
  BY <1>2 DEF ActiveMoves, TypeOK
<1> QED
  BY <1>1, <1>2

\* Every handler of CoreA keeps the types.
LEMMA ActiveStepTypes == TypeOK /\ ActiveSteps => TypeOK'
<1> SUFFICES ASSUME TypeOK, ActiveSteps PROVE TypeOK'
  OBVIOUS
<1>a. ASSUME aIn # <<>>
      PROVE  Head(aIn) \in Message /\ Tail(aIn) \in Seq(Message)
  BY <1>a, HeadTailProperties DEF TypeOK
<1>b. ct[CoreA] \in Table /\ clock \in Nat /\ CoreA \in Ids
  BY CoreIds DEF TypeOK
<1>1. CASE NodeRegisterAtActive
  <2> DEFINE remote == Head(aIn).table
             local  == ct[CoreA]
  <2>1. remote \in Table /\ Tail(aIn) \in Seq(Message)
    BY <1>1, <1>a, MessageFields DEF NodeRegisterAtActive, ReceivedByA
  <2>2. PICK admitted \in Admissions(local, remote) :
          ActiveMoves(MergeBackupRegistration(local, CoreA, remote, admitted),
                      RegistrationChanges(local, CoreA, remote))
    BY <1>1 DEF NodeRegisterAtActive
  <2>3. MergeBackupRegistration(local, CoreA, remote, admitted) \in Table
    BY <1>b, <2>1, MergesAdvance
  <2>4. RegistrationChanges(local, CoreA, remote) \in BOOLEAN
    BY DEF RegistrationChanges
  <2>5. /\ ct' \in [Cores -> Table] /\ topology' \in [Cores -> Table]
        /\ ctSync' \in Table /\ peerIn' \in Seq(Message)
    BY <2>2, <2>3, <2>4, ActiveMovesTypes
  <2> QED
    BY <1>1, <2>1, <2>5 DEF NodeRegisterAtActive, TypeOK, envVars
<1>2. CASE CoreWillAtActive
  <2> DEFINE core == Head(aIn).core
             next == IF core = CoreA THEN ct[CoreA] ELSE DropPeerCore(ct[CoreA], core, clock)
  <2>1. core \in Cores /\ Tail(aIn) \in Seq(Message)
    BY <1>2, <1>a, MessageFields DEF CoreWillAtActive, ReceivedByA
  <2>2. next \in Table
    BY <1>b, <2>1, CoreIds, DropPeerCoreAdvances
  <2>3. ActiveMoves(next, next # ct[CoreA])
    BY <1>2 DEF CoreWillAtActive
  <2>4. /\ ct' \in [Cores -> Table] /\ topology' \in [Cores -> Table]
        /\ ctSync' \in Table /\ peerIn' \in Seq(Message)
    BY <2>2, <2>3, ActiveMovesTypes
  <2> QED
    BY <1>2, <2>1, <2>4 DEF CoreWillAtActive, TypeOK, envVars
<1>3. CASE ElectionRequestAtActive
  <2> DEFINE candidate == Head(aIn).candidate
  <2>1. candidate \in Cores /\ Tail(aIn) \in Seq(Message)
    BY <1>3, <1>a, MessageFields DEF ElectionRequestAtActive, ReceivedByA
  <2>2. Vote(CoreA, candidate) \in Message
    BY <2>1, CoreIds, MessageTypes
  <2>3. ForPeer(<<Vote(CoreA, candidate)>>) \in Seq(Message)
    BY <2>2, OneMessage
  <2> QED
    BY <1>3, <2>1, <2>3 DEF ElectionRequestAtActive, TypeOK, coreVars, viewVars, envVars
<1>4. CASE ElectionResultAtActive
  <2> DEFINE next == PromoteCoreAfterFailover(ct[CoreA], CoreA, ct[CoreA].active, clock)
  <2>1. Tail(aIn) \in Seq(Message)
    BY <1>4, <1>a DEF ElectionResultAtActive, ReceivedByA
  <2>2. next \in Table
    BY <1>b, PromoteAdvances DEF Table
  <2>3. ActiveMoves(next, TRUE) \/ UNCHANGED <<ct, topology, ctSync, peerIn>>
    BY <1>4 DEF ElectionResultAtActive
  <2>4. /\ ct' \in [Cores -> Table] /\ topology' \in [Cores -> Table]
        /\ ctSync' \in Table /\ peerIn' \in Seq(Message)
    <3>1. CASE ActiveMoves(next, TRUE)
      BY <2>2, <3>1, ActiveMovesTypes
    <3>2. CASE UNCHANGED <<ct, topology, ctSync, peerIn>>
      BY <3>2 DEF TypeOK
    <3> QED
      BY <2>3, <3>1, <3>2
  <2>5. switched' \subseteq Cores
    BY <1>4, CoreIds DEF ElectionResultAtActive, TypeOK
  <2> QED
    BY <1>4, <2>1, <2>4, <2>5 DEF ElectionResultAtActive, TypeOK, envVars
<1>5. CASE ActiveReconnects
  <2>1. topology' \in [Cores -> Table] /\ ctSync' \in Table
    BY <1>5, <1>b DEF ActiveReconnects, TypeOK
  <2>2. peerIn' \in Seq(Message)
    <3>1. CtSync(ct[CoreA]) \in Message /\ CoreWill(CoreA) \in Message
      BY <1>b, CoreIds, MessageTypes
    <3>2. /\ <<CtSync(ct[CoreA])>> \in Seq(Message)
          /\ <<CtSync(ct[CoreA]), CoreWill(CoreA)>> \in Seq(Message)
      BY <3>1
    <3> QED
      BY <1>5, <3>2, QueueTypes DEF ActiveReconnects
  <2> QED
    BY <1>5, <2>1, <2>2 DEF ActiveReconnects, TypeOK, coreVars, envVars
<1> QED
  BY <1>1, <1>2, <1>3, <1>4, <1>5 DEF ActiveSteps

\* What is left of a callback, as a sequence of steps.
LEMMA WorkTypes ==
  ASSUME TypeOK, NEW th \in Threads
  PROVE  /\ work[th] \in Seq(Step)
         /\ \A s \in Seq(Step) : [work EXCEPT ![th] = s] \in [Threads -> Seq(Step)]
         /\ work[th] # <<>> => Head(work[th]) \in Step /\ Tail(work[th]) \in Seq(Step)
<1>1. work[th] \in Seq(Step)
  BY DEF TypeOK
<1>2. \A s \in Seq(Step) : [work EXCEPT ![th] = s] \in [Threads -> Seq(Step)]
  BY DEF TypeOK
<1> QED
  BY <1>1, <1>2, HeadTailProperties

\* A promotion, with a list of steps to follow.
LEMMA PromoteTypes ==
  ASSUME TypeOK, NEW th \in Threads, NEW failed \in Ids \cup {NoId},
         NEW script \in Seq(Step), Promote(th, failed, script)
  PROVE  /\ ct' \in [Cores -> Table] /\ isBackup' \in [Cores -> BOOLEAN]
         /\ work' \in [Threads -> Seq(Step)]
<1>1. ct[CoreB] \in Table /\ CoreB \in Ids /\ clock \in Nat
  BY CoreIds DEF TypeOK
<1>2. PromoteCoreAfterFailover(ct[CoreB], CoreB, failed, clock) \in Table
  BY <1>1, PromoteAdvances
<1>3. ct' \in [Cores -> Table] /\ isBackup' \in [Cores -> BOOLEAN]
  BY <1>2 DEF Promote, TypeOK
<1>4. work' \in [Threads -> Seq(Step)]
  BY WorkTypes DEF Promote
<1> QED
  BY <1>3, <1>4

\* The publications of a promotion are a sequence of steps.
LEMMA PromotionScriptType == PromotionScript \in Seq(Step)
<1> DEFINE a == Snapshot("topology")
           b == Snapshot("ownSync")
           c == Snapshot("peerTopology")
           d == Snapshot("peerSync")
<1>1. a \in Step /\ b \in Step /\ c \in Step /\ d \in Step
      /\ Switch \in Step /\ StopPeer \in Step
  BY StepTypes
<1>2. PromotionScript = <<a, b, c, d, Switch, StopPeer>>
  BY DEF PromotionScript
<1> HIDE DEF a, b, c, d
<1> QED
  BY <1>1, <1>2

\* Every step of CoreB's peer thread keeps the types.
LEMMA PeerStepTypes == TypeOK /\ PeerSteps => TypeOK'
<1> SUFFICES ASSUME TypeOK, PeerSteps PROVE TypeOK'
  OBVIOUS
<1>a. ASSUME peerIn # <<>>
      PROVE  Head(peerIn) \in Message /\ Tail(peerIn) \in Seq(Message)
  BY <1>a, HeadTailProperties DEF TypeOK
<1>b. /\ ct[CoreB] \in Table /\ clock \in Nat /\ CoreB \in Ids
      /\ ct[CoreB].active \in Ids \cup {NoId}
  BY CoreIds DEF TypeOK, Table
<1>c. <<>> \in Seq(Message) /\ <<>> \in Seq(Step) /\ "peer" \in Threads
  BY DEF Threads
<1>1. CASE PeerConnects
  <2>1. aIn' \in Seq(Message) /\ peerOut' \in Seq(Message)
    BY <1>1, <1>c, QueueTypes DEF PeerConnects, TypeOK
  <2>2. peerIn' \in Seq(Message)
    <3>1. CtSync(ctSync) \in Message
      BY MessageTypes DEF TypeOK
    <3>2. <<CtSync(ctSync)>> \in Seq(Message)
      BY <3>1
    <3> QED
      BY <1>1, <3>2 DEF PeerConnects, TypeOK
  <2>3. work' \in [Threads -> Seq(Step)]
    <3>1. Snapshot("register") \in Step
      BY StepTypes
    <3>2. <<Snapshot("register")>> \in Seq(Step)
      BY <3>1
    <3> QED
      BY <1>1, <1>c, <3>2, WorkTypes DEF PeerConnects, TypeOK
  <2>4. peer' \in {"up", "down", "closing", "closed"}
    BY <1>1 DEF PeerConnects
  <2> QED
    BY <1>1, <2>1, <2>2, <2>3, <2>4 DEF PeerConnects, TypeOK, viewVars, envVars
<1>2. CASE CtSyncAtBackup
  <2>1. Head(peerIn).table \in Table /\ peerIn' \in Seq(Message)
    BY <1>2, <1>a, MessageFields DEF CtSyncAtBackup, ReceivedByPeer
  <2>2. Merge(Head(peerIn).table) \in Step
    BY <2>1, StepTypes
  <2>3. <<Merge(Head(peerIn).table)>> \in Seq(Step)
    BY <2>2
  <2>4. work' \in [Threads -> Seq(Step)]
    BY <1>2, <1>c, <2>3, WorkTypes DEF CtSyncAtBackup, TypeOK
  <2> QED
    BY <1>2, <2>1, <2>4 DEF CtSyncAtBackup, TypeOK, viewVars, envVars
<1>3. CASE MergeAtBackup
  <2> DEFINE remote == Head(work["peer"]).table
             local  == IF remote.active = NoId THEN ct[CoreB]
                       ELSE SetActiveCoreId(ct[CoreB], remote.active)
  <2>1. remote \in Table
    BY <1>3, <1>c, WorkTypes, StepFields DEF MergeAtBackup, Running
  <2>2. local \in Table
    BY <1>b, <2>1, SetCoreIdAdvances DEF Table
  <2>3. \E admitted \in Admissions(local, remote) :
          ct' = [ct EXCEPT ![CoreB] = MergeConnectionTables(local, remote, admitted)]
    BY <1>3 DEF MergeAtBackup
  <2>4. ct' \in [Cores -> Table]
    <3> HIDE DEF remote, local
    <3>1. PICK admitted \in Admissions(local, remote) :
            ct' = [ct EXCEPT ![CoreB] = MergeConnectionTables(local, remote, admitted)]
      BY <2>3
    <3>2. MergeConnectionTables(local, remote, admitted) \in Table
      BY <1>b, <2>1, <2>2, MergesAdvance
    <3> QED
      BY <3>1, <3>2 DEF TypeOK
  <2>5. work' \in [Threads -> Seq(Step)]
    <3>1. Snapshot("topology") \in Step /\ Snapshot("register") \in Step
      BY StepTypes
    <3>2. <<Snapshot("topology"), Snapshot("register")>> \in Seq(Step)
      BY <3>1
    <3>3. \E s \in Seq(Step) : work' = [work EXCEPT !["peer"] = s]
      BY <1>3, <1>c, <3>2 DEF MergeAtBackup
    <3> QED
      BY <1>c, <3>3, WorkTypes
  <2> QED
    BY <1>3, <2>4, <2>5 DEF MergeAtBackup, TypeOK, linkVars, viewVars, envVars
<1>4. CASE CoreWillAtBackup
  <2>1. Head(peerIn).core \in Cores /\ peerIn' \in Seq(Message)
    BY <1>4, <1>a, MessageFields DEF CoreWillAtBackup, ReceivedByPeer
  <2>2. /\ ct' \in [Cores -> Table] /\ isBackup' \in [Cores -> BOOLEAN]
        /\ work' \in [Threads -> Seq(Step)]
    <3>1. CASE Promote("peer", Head(peerIn).core, PromotionScript)
      BY <1>c, <2>1, <3>1, CoreIds, PromotionScriptType, PromoteTypes
    <3>2. CASE UNCHANGED <<ct, isBackup, work>>
      BY <3>2 DEF TypeOK
    <3> QED
      BY <1>4, <3>1, <3>2 DEF CoreWillAtBackup
  <2> QED
    BY <1>4, <2>1, <2>2 DEF CoreWillAtBackup, TypeOK, viewVars, envVars
<1>5. CASE ElectionRequestAtBackup
  <2>1. Head(peerIn).candidate \in Cores /\ peerIn' \in Seq(Message)
    BY <1>5, <1>a, MessageFields DEF ElectionRequestAtBackup, ReceivedByPeer
  <2>2. Vote(CoreB, Head(peerIn).candidate) \in Message
    BY <2>1, CoreIds, MessageTypes
  <2>3. ForA(<<Vote(CoreB, Head(peerIn).candidate)>>) \in Seq(Message)
    BY <2>2, OneMessage
  <2> QED
    BY <1>5, <2>1, <2>3 DEF ElectionRequestAtBackup, TypeOK, coreVars, viewVars, envVars
<1>6. CASE ElectionResultAtBackup
  <2>1. peerIn' \in Seq(Message)
    BY <1>6, <1>a DEF ElectionResultAtBackup, ReceivedByPeer
  <2>2. /\ ct' \in [Cores -> Table] /\ isBackup' \in [Cores -> BOOLEAN]
        /\ work' \in [Threads -> Seq(Step)]
    <3>1. CASE Promote("peer", ct[CoreB].active, PromotionScript)
      BY <1>b, <1>c, <3>1, PromotionScriptType, PromoteTypes
    <3>2. CASE UNCHANGED <<ct, isBackup, work>>
      BY <3>2 DEF TypeOK
    <3> QED
      BY <1>6, <3>1, <3>2 DEF ElectionResultAtBackup
  <2> QED
    BY <1>6, <2>1, <2>2 DEF ElectionResultAtBackup, TypeOK, viewVars, envVars
<1>7. CASE StopPeerChannel
  <2>1. work' \in [Threads -> Seq(Step)]
    BY <1>7, <1>c, WorkTypes DEF StopPeerChannel, Running
  <2> QED
    BY <1>7, <1>c, <2>1 DEF StopPeerChannel, TypeOK, viewVars, envVars
<1>8. CASE PeerChannelCloses
  BY <1>8, <1>c DEF PeerChannelCloses, TypeOK, coreVars, viewVars, envVars
<1> QED
  BY <1>1, <1>2, <1>3, <1>4, <1>5, <1>6, <1>7, <1>8 DEF PeerSteps

\* Every publication of CoreB keeps the types.
LEMMA ScriptStepTypes ==
  ASSUME TypeOK, NEW th \in Threads, ScriptSteps(th)
  PROVE  TypeOK'
<1>a. ASSUME work[th] # <<>>
      PROVE  Head(work[th]) \in Step /\ Tail(work[th]) \in Seq(Step)
  BY <1>a, WorkTypes
<1>1. CASE TakeSnapshot(th)
  <2> DEFINE asked == Head(work[th]).topic
             topic == IF asked # "changed" THEN asked
                      ELSE IF isBackup[CoreB] THEN "register" ELSE "ownSync"
             step  == Emit(topic, ct[CoreB])
             rest  == Tail(work[th])
  <2>1. asked \in Topics /\ rest \in Seq(Step)
    BY <1>1, <1>a, StepFields DEF TakeSnapshot, Running
  <2>2. topic \in Topics
    BY <2>1, StepTypes
  <2>3. step \in Step
    BY <2>2, CoreIds, StepTypes DEF TypeOK
  <2>4. work' = [work EXCEPT ![th] = <<step>> \o rest]
    BY <1>1 DEF TakeSnapshot, TypeOK
  <2> HIDE DEF step, rest
  <2>5. <<step>> \o rest \in Seq(Step)
    <3>1. <<step>> \in Seq(Step)
      BY <2>3
    <3> QED
      BY <2>1, <3>1, ConcatProperties
  <2>6. work' \in [Threads -> Seq(Step)]
    BY <2>4, <2>5, WorkTypes
  <2> QED
    BY <1>1, <2>6 DEF TakeSnapshot, TypeOK, linkVars, viewVars, envVars
<1>2. CASE Publish(th)
  <2> DEFINE topic == Head(work[th]).topic
             t     == Head(work[th]).table
             toA   == topic \in {"peerTopology", "peerSync"} /\ peer = "up"
  <2>1. t \in Table
    BY <1>2, <1>a, StepFields DEF Publish, Running
  <2>2. topology' \in [Cores -> Table] /\ ctSync' \in Table
    <3>1. topology' = IF topic = "topology" THEN [topology EXCEPT ![CoreB] = t]
                      ELSE IF toA /\ topic = "peerTopology"
                        THEN [topology EXCEPT ![CoreA] = t]
                      ELSE topology
      BY <1>2 DEF Publish
    <3>2. ctSync' = IF toA /\ topic = "peerSync" THEN t ELSE ctSync
      BY <1>2 DEF Publish
    <3> HIDE DEF t, topic, toA
    <3> QED
      BY <2>1, <3>1, <3>2 DEF TypeOK
  <2>3. aIn' \in Seq(Message) /\ peerOut' \in Seq(Message)
    <3>1. NodeRegister(t) \in Message
      BY <2>1, MessageTypes
    <3>2. CASE SendByPeer(NodeRegister(t))
      BY <3>1, <3>2, SendByPeerTypes
    <3>3. CASE UNCHANGED <<aIn, peerOut>>
      BY <3>3 DEF TypeOK
    <3> QED
      BY <1>2, <3>2, <3>3 DEF Publish
  <2>4. work' \in [Threads -> Seq(Step)]
    BY <1>2, <1>a, WorkTypes DEF Publish, Running, TypeOK
  <2> QED
    BY <1>2, <2>2, <2>3, <2>4 DEF Publish, TypeOK, envVars
<1>3. CASE AnnounceSwitch(th)
  <2>1. work' \in [Threads -> Seq(Step)]
    BY <1>3, <1>a, WorkTypes DEF AnnounceSwitch, Running, TypeOK
  <2>2. switched' \subseteq Cores
    BY <1>3, CoreIds DEF AnnounceSwitch, TypeOK
  <2> QED
    BY <1>3, <2>1, <2>2 DEF AnnounceSwitch, TypeOK, linkVars, envVars
<1> QED
  BY <1>1, <1>2, <1>3 DEF ScriptSteps

\* What a core does with a message of an edge.
LEMMA EdgeMovesTypes ==
  ASSUME TypeOK, NEW c \in Cores, NEW t \in Table, EdgeMoves(c, t)
  PROVE  /\ ct' \in [Cores -> Table] /\ topology' \in [Cores -> Table]
         /\ ctSync' \in Table /\ peerIn' \in Seq(Message)
         /\ work' \in [Threads -> Seq(Step)]
<1>1. CASE c = CoreA
  <2> DEFINE u == IF Listening THEN t ELSE ct[c]
  <2>1. ActiveMoves(u, Listening /\ t # ct[c]) /\ UNCHANGED work
    BY <1>1 DEF EdgeMoves
  <2>2. u \in Table /\ (Listening /\ t # ct[c]) \in BOOLEAN
    BY DEF TypeOK
  <2>3. work' \in [Threads -> Seq(Step)]
    BY <2>1 DEF TypeOK
  <2> QED
    BY <2>1, <2>2, <2>3, ActiveMovesTypes
<1>2. CASE c # CoreA
  <2>1. Snapshot("topology") \in Step /\ Snapshot("changed") \in Step
        /\ "self" \in Threads
    BY StepTypes DEF Threads
  <2>2. <<Snapshot("topology"), Snapshot("changed")>> \in Seq(Step)
    BY <2>1
  <2>3. work' \in [Threads -> Seq(Step)]
    BY <1>2, <2>1, <2>2, WorkTypes DEF EdgeMoves, TypeOK
  <2> QED
    BY <1>2, <2>3 DEF EdgeMoves, TypeOK
<1> QED
  BY <1>1, <1>2

\* Every input, fault and tick keeps the types.
LEMMA EnvironmentStepTypes == TypeOK /\ EnvironmentSteps => TypeOK'
<1> SUFFICES ASSUME TypeOK, EnvironmentSteps PROVE TypeOK'
  OBVIOUS
<1>a. ASSUME Input PROVE inputs' \in Nat
  BY <1>a DEF Input, TypeOK
<1>b. <<>> \in Seq(Message) /\ \A c \in Cores :
        <<CoreWill(c)>> \in Seq(Message)
  <2>1. \A m \in Message : <<m>> \in Seq(Message)
    OBVIOUS
  <2> QED
    BY <2>1, MessageTypes
<1>1. ASSUME NEW c \in Cores, NEW e \in Edges, EdgeStatus(c, e) PROVE TypeOK'
  <2> DEFINE t == RegisterEdge(ct[c], c, e, clock)
  <2>1. t \in Table
    BY CoreIds, RegisterEdgeAdvances DEF TypeOK
  <2>2. EdgeMoves(c, t)
    BY <1>1 DEF EdgeStatus
  <2> HIDE DEF t
  <2>3. /\ ct' \in [Cores -> Table] /\ topology' \in [Cores -> Table]
        /\ ctSync' \in Table /\ peerIn' \in Seq(Message)
        /\ work' \in [Threads -> Seq(Step)]
    BY <2>1, <2>2, EdgeMovesTypes
  <2>4. attached' \in [Cores -> SUBSET Edges] /\ inputs' \in Nat
    BY <1>1, <1>a DEF EdgeStatus, TypeOK
  <2> QED
    BY <1>1, <2>3, <2>4 DEF EdgeStatus, TypeOK
<1>2. ASSUME NEW c \in Cores, NEW e \in Edges, NodeWill(c, e) PROVE TypeOK'
  <2> DEFINE t == SetNodeStatus(ct[c], e, Offline, clock)
  <2>1. t \in Table
    <3>1. Announced(Online) \in Row /\ e \in Ids /\ ct[c] \in Table /\ clock \in Nat
      BY CoreIds DEF Announced, Row, Online, TypeOK
    <3> QED
      BY <3>1, RowOperationsAdvance DEF Online, Offline
  <2>2. EdgeMoves(c, t)
    BY <1>2 DEF NodeWill
  <2> HIDE DEF t
  <2>3. /\ ct' \in [Cores -> Table] /\ topology' \in [Cores -> Table]
        /\ ctSync' \in Table /\ peerIn' \in Seq(Message)
        /\ work' \in [Threads -> Seq(Step)]
    BY <2>1, <2>2, EdgeMovesTypes
  <2>4. attached' \in [Cores -> SUBSET Edges] /\ inputs' \in Nat
    BY <1>2, <1>a DEF NodeWill, TypeOK
  <2> QED
    BY <1>2, <2>3, <2>4 DEF NodeWill, TypeOK
<1>3. CASE NoticeOfActive
  <2>1. aIn' \in Seq(Message) /\ peerIn' \in Seq(Message)
    BY <1>3, <1>b, CoreIds, QueueTypes DEF NoticeOfActive, TypeOK
  <2>2. leaving' \subseteq Cores
    BY <1>3, CoreIds DEF NoticeOfActive, TypeOK
  <2> QED
    BY <1>3, <1>a, <2>1, <2>2 DEF NoticeOfActive, Fault, TypeOK, viewVars
<1>4. CASE LoseActiveHost
  <2>1. peer' \in {"up", "down", "closing", "closed"}
    BY <1>4 DEF LoseActiveHost, Broken
  <2> QED
    BY <1>4, <1>a, <1>b, <2>1, CoreIds DEF LoseActiveHost, Fault, TypeOK, viewVars
<1>5. CASE NoticeOfBackup
  <2>1. aIn' \in Seq(Message) /\ peerOut' \in Seq(Message)
    BY <1>5, CoreIds, MessageTypes, SendByPeerTypes DEF NoticeOfBackup
  <2>2. leaving' \subseteq Cores
    BY <1>5, CoreIds DEF NoticeOfBackup, TypeOK
  <2> QED
    BY <1>5, <1>a, <2>1, <2>2 DEF NoticeOfBackup, Fault, TypeOK, viewVars
<1>11. ASSUME NEW c \in Cores, NEW crash, Ends(c, crash)
       PROVE  alive' \in [Cores -> BOOLEAN] /\ inputs' \in Nat
  BY <1>11, <1>a DEF Ends, Fault, TypeOK
<1>12. CASE ActiveEnds
  <2>1. peerIn' \in Seq(Message)
    BY <1>12, <1>b, CoreIds, QueueTypes DEF ActiveEnds, TypeOK
  <2>2. alive' \in [Cores -> BOOLEAN] /\ inputs' \in Nat
    BY <1>11, <1>12, CoreIds DEF ActiveEnds
  <2> QED
    BY <1>12, <1>b, <2>1, <2>2 DEF ActiveEnds, TypeOK, viewVars
<1>13. CASE BackupEnds
  <2>1. aIn' \in Seq(Message)
    BY <1>13, <1>b, CoreIds, QueueTypes DEF BackupEnds, TypeOK
  <2>2. work' \in [Threads -> Seq(Step)]
    BY <1>13 DEF BackupEnds
  <2>3. alive' \in [Cores -> BOOLEAN] /\ inputs' \in Nat
    BY <1>11, <1>13, CoreIds DEF BackupEnds
  <2> QED
    BY <1>13, <1>b, <2>1, <2>2, <2>3 DEF BackupEnds, TypeOK, viewVars
<1>6. CASE DropSelf
  <2>1. ForPeer(<<CoreWill(CoreA)>>) \in Seq(Message)
    BY <1>b, CoreIds, QueueTypes
  <2> QED
    BY <1>6, <1>a, <1>b, <2>1 DEF DropSelf, Fault, TypeOK, coreVars, viewVars
<1>7. CASE DropPeer
  <2>1. ForA(<<CoreWill(CoreB)>>) \in Seq(Message)
    BY <1>b, CoreIds, QueueTypes
  <2>2. peer' \in {"up", "down", "closing", "closed"}
    BY <1>7 DEF DropPeer, Broken
  <2> QED
    BY <1>7, <1>a, <1>b, <2>1, <2>2 DEF DropPeer, Fault, TypeOK, coreVars, viewVars
<1>8. CASE RequestElection
  <2>1. PICK candidate \in Cores :
          /\ aIn' = ForA(<<Request(candidate)>>)
          /\ peerIn' = ForPeer(<<Request(candidate)>>)
    BY <1>8 DEF RequestElection
  <2>2. Request(candidate) \in Message
    BY MessageTypes
  <2>3. aIn' \in Seq(Message) /\ peerIn' \in Seq(Message)
    BY <2>1, <2>2, OneMessage
  <2> QED
    BY <1>8, <1>a, <2>3 DEF RequestElection, Fault, TypeOK, coreVars, viewVars
<1>9. CASE ElectionResultOnSelf
  <2> DEFINE a == Snapshot("topology")
             b == Snapshot("changed")
  <2>1. a \in Step /\ b \in Step /\ Switch \in Step /\ "self" \in Threads
    BY StepTypes DEF Threads
  <2>2. Promote("self", ct[CoreB].active, <<a, b, Switch>>)
    BY <1>9 DEF ElectionResultOnSelf
  <2> HIDE DEF a, b
  <2>3. <<a, b, Switch>> \in Seq(Step)
    BY <2>1
  <2>4. ct[CoreB].active \in Ids \cup {NoId}
    BY CoreIds DEF TypeOK, Table
  <2>5. /\ ct' \in [Cores -> Table] /\ isBackup' \in [Cores -> BOOLEAN]
        /\ work' \in [Threads -> Seq(Step)]
    BY <2>1, <2>2, <2>3, <2>4, PromoteTypes
  <2> QED
    BY <1>9, <1>a, <2>5 DEF ElectionResultOnSelf, Fault, TypeOK, linkVars, viewVars
<1>10. CASE Tick
  BY <1>10 DEF Tick, TypeOK, coreVars, linkVars, viewVars
<1> QED
  BY <1>1, <1>2, <1>3, <1>4, <1>5, <1>6, <1>7, <1>8, <1>9, <1>10, <1>12, <1>13
     DEF EnvironmentSteps

\* So does every step.
LEMMA TypeCorrectStep == TypeOK /\ [Next]_vars => TypeOK'
<1> SUFFICES ASSUME TypeOK, [Next]_vars PROVE TypeOK'
  OBVIOUS
<1>1. CASE Next
  BY <1>1, ActiveStepTypes, PeerStepTypes, ScriptStepTypes, EnvironmentStepTypes DEF Next
<1>2. CASE UNCHANGED vars
  BY <1>2 DEF TypeOK, vars, coreVars, linkVars, viewVars, envVars
<1> QED
  BY <1>1, <1>2

\* Every reachable state is of the declared types: in particular no handler
\* ever builds a malformed table, whatever snapshots it merges.
THEOREM TypeCorrect == Spec => []TypeOK
BY InitTypes, TypeCorrectStep, PTL DEF Spec

(***************************************************************************)
(* Versions                                                                *)
(***************************************************************************)

\* Each group of steps leaves every table as it is or advances it.
TablesAdvance == \A c \in Cores : Advances(ct[c], ct'[c])

\* CoreA moves to an advanced table.
LEMMA ActiveMovesAdvance ==
  ASSUME TypeOK, NEW t \in Table, NEW changed \in BOOLEAN,
         ActiveMoves(t, changed), Advances(ct[CoreA], t)
  PROVE  TablesAdvance
BY DEF ActiveMoves, PublishActiveView, TypeOK, TablesAdvance, Advances

\* CoreA's handlers advance its table or keep it.
LEMMA ActiveStepsAdvance == TypeOK /\ ActiveSteps => TablesAdvance
<1> SUFFICES ASSUME TypeOK, ActiveSteps PROVE TablesAdvance
  OBVIOUS
<1>a. ASSUME aIn # <<>> PROVE Head(aIn) \in Message
  BY <1>a, HeadTailProperties DEF TypeOK
<1>b. ct[CoreA] \in Table /\ clock \in Nat /\ CoreA \in Ids
  BY CoreIds DEF TypeOK
<1>1. CASE NodeRegisterAtActive
  <2> DEFINE remote == Head(aIn).table
             local  == ct[CoreA]
  <2>1. remote \in Table
    BY <1>1, <1>a, MessageFields DEF NodeRegisterAtActive, ReceivedByA
  <2>2. PICK admitted \in Admissions(local, remote) :
          ActiveMoves(MergeBackupRegistration(local, CoreA, remote, admitted),
                      RegistrationChanges(local, CoreA, remote))
    BY <1>1 DEF NodeRegisterAtActive
  <2> DEFINE next == MergeBackupRegistration(local, CoreA, remote, admitted)
  <2>3. next \in Table /\ Advances(ct[CoreA], next)
    BY <1>b, <2>1, MergesAdvance
  <2>4. RegistrationChanges(local, CoreA, remote) \in BOOLEAN
    BY DEF RegistrationChanges
  <2> QED
    BY <2>2, <2>3, <2>4, ActiveMovesAdvance
<1>2. CASE CoreWillAtActive
  <2> DEFINE core == Head(aIn).core
             next == IF core = CoreA THEN ct[CoreA] ELSE DropPeerCore(ct[CoreA], core, clock)
  <2>1. core \in Cores
    BY <1>2, <1>a, MessageFields DEF CoreWillAtActive, ReceivedByA
  <2>2. next \in Table /\ Advances(ct[CoreA], next)
    BY <1>b, <2>1, CoreIds, DropPeerCoreAdvances DEF Advances
  <2>3. ActiveMoves(next, next # ct[CoreA])
    BY <1>2 DEF CoreWillAtActive
  <2> QED
    BY <2>2, <2>3, ActiveMovesAdvance
<1>3. CASE ElectionRequestAtActive
  BY <1>3 DEF ElectionRequestAtActive, coreVars, TablesAdvance, Advances
<1>4. CASE ElectionResultAtActive
  <2> DEFINE next == PromoteCoreAfterFailover(ct[CoreA], CoreA, ct[CoreA].active, clock)
  <2>1. next \in Table /\ Advances(ct[CoreA], next)
    BY <1>b, PromoteAdvances DEF Table
  <2>2. CASE ActiveMoves(next, TRUE)
    BY <2>1, <2>2, ActiveMovesAdvance
  <2>3. CASE UNCHANGED ct
    BY <2>3 DEF TablesAdvance, Advances
  <2> QED
    BY <1>4, <2>2, <2>3 DEF ElectionResultAtActive
<1>5. CASE ActiveReconnects
  BY <1>5 DEF ActiveReconnects, coreVars, TablesAdvance, Advances
<1> QED
  BY <1>1, <1>2, <1>3, <1>4, <1>5 DEF ActiveSteps

\* A promotion advances CoreB's table or keeps it.
LEMMA PromoteStepAdvances ==
  ASSUME TypeOK, NEW th \in Threads, NEW failed \in Ids \cup {NoId}, NEW script,
         Promote(th, failed, script)
  PROVE  /\ TablesAdvance
         /\ ct'[CoreB].active = CoreB /\ ct'[CoreB].backup = NoId
         /\ ct'[CoreA] = ct[CoreA]
<1> DEFINE next == PromoteCoreAfterFailover(ct[CoreB], CoreB, failed, clock)
<1>1. /\ next \in Table /\ Advances(ct[CoreB], next)
      /\ next.active = CoreB /\ next.backup = NoId
  <2>1. ct[CoreB] \in Table /\ clock \in Nat /\ CoreB \in Ids
    BY CoreIds DEF TypeOK
  <2>2. PICK t \in Table : t = ct[CoreB]
    BY <2>1
  <2>3. /\ PromoteCoreAfterFailover(t, CoreB, failed, clock) \in Table
        /\ Advances(t, PromoteCoreAfterFailover(t, CoreB, failed, clock))
        /\ PromoteCoreAfterFailover(t, CoreB, failed, clock).active = CoreB
        /\ PromoteCoreAfterFailover(t, CoreB, failed, clock).backup = NoId
    BY <2>1, PromoteAdvances
  <2> QED
    BY <2>2, <2>3, Zenon
<1>2. ct' = [ct EXCEPT ![CoreB] = next]
  BY DEF Promote
<1> HIDE DEF next
<1> QED
  BY <1>1, <1>2, CoreIds DEF TypeOK, TablesAdvance, Advances

\* So do the steps of CoreB's peer thread.
LEMMA PeerStepsAdvance == TypeOK /\ PeerSteps => TablesAdvance
<1> SUFFICES ASSUME TypeOK, PeerSteps PROVE TablesAdvance
  OBVIOUS
<1>a. ASSUME peerIn # <<>> PROVE Head(peerIn) \in Message
  BY <1>a, HeadTailProperties DEF TypeOK
<1>b. /\ ct[CoreB] \in Table /\ CoreB \in Ids /\ "peer" \in Threads
      /\ ct[CoreB].active \in Ids \cup {NoId}
  BY CoreIds DEF TypeOK, Table, Threads
<1>c. ASSUME UNCHANGED ct PROVE TablesAdvance
  BY <1>c DEF TablesAdvance, Advances
<1>1. CASE PeerConnects
  BY <1>1, <1>c DEF PeerConnects
<1>2. CASE CtSyncAtBackup
  BY <1>2, <1>c DEF CtSyncAtBackup
<1>3. CASE MergeAtBackup
  <2> DEFINE remote == Head(work["peer"]).table
             local  == IF remote.active = NoId THEN ct[CoreB]
                       ELSE SetActiveCoreId(ct[CoreB], remote.active)
  <2>1. remote \in Table
    BY <1>3, <1>b, WorkTypes, StepFields DEF MergeAtBackup, Running
  <2>2. local \in Table /\ Advances(ct[CoreB], local)
    BY <1>b, <2>1, SetCoreIdAdvances DEF Table, Advances
  <2>3. \E admitted \in Admissions(local, remote) :
          ct' = [ct EXCEPT ![CoreB] = MergeConnectionTables(local, remote, admitted)]
    BY <1>3 DEF MergeAtBackup
  <2> HIDE DEF remote, local
  <2>4. PICK admitted \in Admissions(local, remote) :
          ct' = [ct EXCEPT ![CoreB] = MergeConnectionTables(local, remote, admitted)]
    BY <2>3
  <2> DEFINE next == MergeConnectionTables(local, remote, admitted)
  <2>5. next \in Table /\ Advances(local, next)
    BY <1>b, <2>1, <2>2, MergesAdvance
  <2>6. Advances(ct[CoreB], next)
    BY <1>b, <2>2, <2>5, AdvancesTransitive
  <2> QED
    BY <2>4, <2>6 DEF TypeOK, TablesAdvance, Advances
<1>4. CASE CoreWillAtBackup
  <2>1. Head(peerIn).core \in Ids
    BY <1>4, <1>a, CoreIds, MessageFields DEF CoreWillAtBackup, ReceivedByPeer
  <2> QED
    BY <1>4, <1>b, <1>c, <2>1, PromoteStepAdvances DEF CoreWillAtBackup
<1>5. CASE ElectionRequestAtBackup
  BY <1>5, <1>c DEF ElectionRequestAtBackup, coreVars
<1>6. CASE ElectionResultAtBackup
  BY <1>6, <1>b, <1>c, PromoteStepAdvances DEF ElectionResultAtBackup
<1>7. CASE StopPeerChannel \/ PeerChannelCloses
  BY <1>7, <1>c DEF StopPeerChannel, PeerChannelCloses, coreVars
<1> QED
  BY <1>1, <1>2, <1>3, <1>4, <1>5, <1>6, <1>7 DEF PeerSteps

\* A core that takes in a message of an edge moves to an advanced table.
LEMMA EdgeMovesAdvance ==
  ASSUME TypeOK, NEW c \in Cores, NEW t \in Table, EdgeMoves(c, t), Advances(ct[c], t)
  PROVE  TablesAdvance
<1>1. CASE c = CoreA
  <2> DEFINE u == IF Listening THEN t ELSE ct[c]
  <2>1. ActiveMoves(u, Listening /\ t # ct[c])
    BY <1>1 DEF EdgeMoves
  <2>2. /\ u \in Table /\ (Listening /\ t # ct[c]) \in BOOLEAN
        /\ Advances(ct[c], u)
    BY DEF TypeOK, Advances
  <2> QED
    BY <1>1, <2>1, <2>2, ActiveMovesAdvance
<1>2. CASE c # CoreA
  BY <1>2 DEF EdgeMoves, TypeOK, TablesAdvance, Advances
<1> QED
  BY <1>1, <1>2

\* Edges advance tables; faults and time leave them alone.
LEMMA EnvironmentStepsAdvance == TypeOK /\ EnvironmentSteps => TablesAdvance
<1> SUFFICES ASSUME TypeOK, EnvironmentSteps PROVE TablesAdvance
  OBVIOUS
<1>1. ASSUME NEW c \in Cores, NEW e \in Edges, EdgeStatus(c, e) PROVE TablesAdvance
  <2>1. /\ RegisterEdge(ct[c], c, e, clock) \in Table
        /\ Advances(ct[c], RegisterEdge(ct[c], c, e, clock))
    BY CoreIds, RegisterEdgeAdvances DEF TypeOK
  <2> QED
    BY <1>1, <2>1, EdgeMovesAdvance DEF EdgeStatus
<1>2. ASSUME NEW c \in Cores, NEW e \in Edges, NodeWill(c, e) PROVE TablesAdvance
  <2>1. Announced(Online) \in Row /\ e \in Ids /\ ct[c] \in Table /\ clock \in Nat
    BY CoreIds DEF Announced, Row, Online, TypeOK
  <2>2. /\ SetNodeStatus(ct[c], e, Offline, clock) \in Table
        /\ Advances(ct[c], SetNodeStatus(ct[c], e, Offline, clock))
    BY <2>1, RowOperationsAdvance DEF Online, Offline
  <2> QED
    BY <1>2, <2>2, EdgeMovesAdvance DEF NodeWill
<1>3. CASE ElectionResultOnSelf
  <2>1. "self" \in Threads /\ ct[CoreB].active \in Ids \cup {NoId}
    BY CoreIds DEF Threads, TypeOK, Table
  <2> QED
    BY <1>3, <2>1, PromoteStepAdvances DEF ElectionResultOnSelf
<1>4. CASE \/ NoticeOfActive \/ ActiveEnds \/ LoseActiveHost \/ NoticeOfBackup
           \/ BackupEnds \/ DropSelf \/ DropPeer \/ RequestElection \/ Tick
  BY <1>4 DEF NoticeOfActive, ActiveEnds, LoseActiveHost, NoticeOfBackup, BackupEnds,
              DropSelf, DropPeer, RequestElection, Tick, coreVars, TablesAdvance, Advances
<1> QED
  BY <1>1, <1>2, <1>3, <1>4 DEF EnvironmentSteps

\* A core's table never changes under an old version, and its version never
\* goes back: a receiver that drops what is not newer drops nothing new of
\* this sender (bumpVersion in every mutator and in every merge).
THEOREM VersionsCountChanges == Spec => VersionCountsChanges
<1>1. TypeOK /\ [Next]_vars =>
        [\A c \in Cores : ct'[c] # ct[c] => ct'[c].version > ct[c].version]_vars
  <2> SUFFICES ASSUME TypeOK, Next
               PROVE  \A c \in Cores : ct'[c] # ct[c] => ct'[c].version > ct[c].version
    OBVIOUS
  <2>1. ASSUME NEW th \in Threads, ScriptSteps(th) PROVE TablesAdvance
    BY <2>1 DEF ScriptSteps, TakeSnapshot, Publish, AnnounceSwitch, TablesAdvance, Advances
  <2>2. TablesAdvance
    BY <2>1, ActiveStepsAdvance, PeerStepsAdvance, EnvironmentStepsAdvance DEF Next
  <2> QED
    BY <2>2 DEF TablesAdvance, Advances
<1> QED
  BY <1>1, TypeCorrect, PTL DEF Spec, VersionCountsChanges

(***************************************************************************)
(* Taking over                                                             *)
(***************************************************************************)

\* No connection of a running Active breaks and nobody calls an election.
OnlyRealEnds == Faults \cap {"selfDrop", "request", "outsideVote"} = {}

\* What the Active may find in its queue, and the Backup in its own: the will
\* of the Active only once the Active has announced its end or is dead.
ActiveInbox == {m \in Message : m.kind \in {"node_register", "core_will"}}

PeerInbox == {m \in Message : \/ m.kind = "ct_sync"
                              \/ m = CoreWill(CoreA) /\ Ending(CoreA)}

\* A promoted core has no merge left from the time it was a Backup.
PeerWork == IF isBackup[CoreB] THEN Step ELSE {s \in Step : s.do # "merge"}

Inboxes ==
  /\ aIn \in Seq(ActiveInbox) /\ peerOut \in Seq(ActiveInbox)
  /\ peerIn \in Seq(PeerInbox)

Takeover ==
  ~ isBackup[CoreB] =>
    /\ Ending(CoreA)
    /\ ct[CoreB].active = CoreB /\ ct[CoreB].backup = NoId

\* The inductive invariant behind both theorems.  TwoActivesOnlyAtShutdown
\* alone is not inductive: that a promotion finds CoreA ending rests on what
\* the queues hold.
TakeoverInv == Inboxes /\ Takeover /\ work["peer"] \in Seq(PeerWork)

\* Which messages may be in which queue.
LEMMA InboxKinds ==
  /\ \A t \in Table : NodeRegister(t) \in ActiveInbox /\ CtSync(t) \in PeerInbox
  /\ CoreWill(CoreB) \in ActiveInbox
  /\ CoreWill(CoreA) \in ActiveInbox
  /\ Ending(CoreA) => CoreWill(CoreA) \in PeerInbox
  /\ \A m \in PeerInbox : m.kind \in {"ct_sync", "core_will"}
  /\ \A m \in PeerInbox : m.kind = "core_will" => m.core = CoreA /\ Ending(CoreA)
BY MessageTypes, CoreIds DEF ActiveInbox, PeerInbox, NodeRegister, CtSync, CoreWill

\* An Active that has announced its end takes nothing back, and a dead one
\* stays dead.
LEMMA NoReturn == TypeOK /\ Next /\ Ending(CoreA) => Ending(CoreA)'
<1> SUFFICES ASSUME TypeOK, Next, Ending(CoreA) PROVE Ending(CoreA)'
  OBVIOUS
<1>a. ASSUME UNCHANGED <<alive, leaving>> PROVE Ending(CoreA)'
  BY <1>a DEF Ending
<1>1. CASE ActiveSteps
  BY <1>a, <1>1 DEF ActiveSteps, NodeRegisterAtActive, CoreWillAtActive,
              ElectionRequestAtActive, ElectionResultAtActive, ActiveReconnects, coreVars
<1>2. CASE PeerSteps
  BY <1>a, <1>2 DEF PeerSteps, PeerConnects, CtSyncAtBackup, MergeAtBackup, CoreWillAtBackup,
              ElectionRequestAtBackup, ElectionResultAtBackup, StopPeerChannel,
              PeerChannelCloses, coreVars
<1>3. ASSUME NEW th \in Threads, ScriptSteps(th) PROVE Ending(CoreA)'
  BY <1>a, <1>3 DEF ScriptSteps, TakeSnapshot, Publish, AnnounceSwitch
<1>4. CASE EnvironmentSteps
  <2>1. CASE NoticeOfActive \/ NoticeOfBackup
    BY <2>1 DEF NoticeOfActive, NoticeOfBackup, Ending
  <2>2. CASE ActiveEnds \/ BackupEnds \/ LoseActiveHost
    BY <2>2, CoreIds DEF ActiveEnds, BackupEnds, LoseActiveHost, Ends, Ending, TypeOK
  <2>3. ASSUME NEW c \in Cores, NEW e \in Edges, EdgeStatus(c, e) \/ NodeWill(c, e)
        PROVE  Ending(CoreA)'
    BY <1>a, <2>3 DEF EdgeStatus, NodeWill
  <2>4. CASE DropSelf \/ DropPeer \/ RequestElection \/ ElectionResultOnSelf \/ Tick
    BY <1>a, <2>4 DEF DropSelf, DropPeer, RequestElection, ElectionResultOnSelf, Tick, coreVars
  <2> QED
    BY <1>4, <2>1, <2>2, <2>3, <2>4 DEF EnvironmentSteps
<1> QED
  BY <1>1, <1>2, <1>3, <1>4 DEF Next

\* So what the Backup may find in its queue only grows.
LEMMA PeerInboxGrows ==
  ASSUME TypeOK, Next, NEW q \in Seq(PeerInbox)
  PROVE  q \in Seq(PeerInbox')
<1>1. PeerInbox \subseteq PeerInbox'
  BY NoReturn DEF PeerInbox
<1> QED
  BY <1>1, SeqMonotonic

\* The steps that only forward what belongs in the queues.
LEMMA SendTypes ==
  ASSUME Inboxes
  PROVE  /\ \A m \in ActiveInbox : ForA(<<m>>) \in Seq(ActiveInbox)
         /\ \A m \in PeerInbox : ForPeer(<<m>>) \in Seq(PeerInbox) /\ <<m>> \in Seq(PeerInbox)
         /\ \A q \in Seq(ActiveInbox) : ForA(q) \in Seq(ActiveInbox)
         /\ \A q \in Seq(PeerInbox) : ForPeer(q) \in Seq(PeerInbox)
<1>1. /\ \A m \in ActiveInbox : <<m>> \in Seq(ActiveInbox)
      /\ \A m \in PeerInbox : <<m>> \in Seq(PeerInbox)
  OBVIOUS
<1>2. \A q \in Seq(ActiveInbox) : ForA(q) \in Seq(ActiveInbox)
  BY ConcatProperties DEF Inboxes, ForA
<1>3. \A q \in Seq(PeerInbox) : ForPeer(q) \in Seq(PeerInbox)
  BY ConcatProperties DEF Inboxes, ForPeer
<1> QED
  BY <1>1, <1>2, <1>3

\* What the peer client publishes goes to the Active, now or later.
LEMMA SendByPeerInboxes ==
  ASSUME Inboxes, NEW m \in ActiveInbox, SendByPeer(m)
  PROVE  aIn' \in Seq(ActiveInbox) /\ peerOut' \in Seq(ActiveInbox)
<1>1. ForA(<<m>>) \in Seq(ActiveInbox)
  BY SendTypes
<1>2. Append(peerOut, m) \in Seq(ActiveInbox)
  BY AppendProperties DEF Inboxes
<1> QED
  BY <1>1, <1>2 DEF SendByPeer, Inboxes

\* A table CoreA publishes goes to the Backup's queue.
LEMMA ActiveMovesInbox ==
  ASSUME TypeOK, Inboxes, NEW t \in Table, NEW changed \in BOOLEAN, ActiveMoves(t, changed)
  PROVE  peerIn' \in Seq(PeerInbox)
<1>1. ForPeer(<<CtSync(t)>>) \in Seq(PeerInbox)
  BY InboxKinds, SendTypes
<1> QED
  BY <1>1 DEF ActiveMoves, PublishActiveView, Inboxes

\* The queues, step by step.  (PeerInbox, not PeerInbox': see PeerInboxGrows.)
LEMMA ActiveStepsInboxes ==
  ASSUME TypeOK, Inboxes, ActiveSteps
  PROVE  /\ aIn' \in Seq(ActiveInbox) /\ peerOut' \in Seq(ActiveInbox)
         /\ peerIn' \in Seq(PeerInbox)
<1>a. ASSUME aIn # <<>>
      PROVE  /\ Head(aIn) \in Message /\ Head(aIn).kind \in {"node_register", "core_will"}
             /\ Tail(aIn) \in Seq(ActiveInbox)
  BY <1>a, HeadTailProperties DEF Inboxes, ActiveInbox
<1>b. ct[CoreA] \in Table /\ clock \in Nat /\ CoreA \in Ids
  BY CoreIds DEF TypeOK
<1>1. CASE NodeRegisterAtActive
  <2> DEFINE remote == Head(aIn).table
             local  == ct[CoreA]
  <2>1. remote \in Table
    BY <1>1, <1>a, MessageFields DEF NodeRegisterAtActive, ReceivedByA
  <2>2. PICK admitted \in Admissions(local, remote) :
          ActiveMoves(MergeBackupRegistration(local, CoreA, remote, admitted),
                      RegistrationChanges(local, CoreA, remote))
    BY <1>1 DEF NodeRegisterAtActive
  <2>3. MergeBackupRegistration(local, CoreA, remote, admitted) \in Table
    BY <1>b, <2>1, MergesAdvance
  <2>4. RegistrationChanges(local, CoreA, remote) \in BOOLEAN
    BY DEF RegistrationChanges
  <2>5. peerIn' \in Seq(PeerInbox)
    BY <2>2, <2>3, <2>4, ActiveMovesInbox
  <2> QED
    BY <1>1, <1>a, <2>5 DEF NodeRegisterAtActive, ReceivedByA, Inboxes
<1>2. CASE CoreWillAtActive
  <2> DEFINE core == Head(aIn).core
             next == IF core = CoreA THEN ct[CoreA] ELSE DropPeerCore(ct[CoreA], core, clock)
  <2>1. core \in Cores
    BY <1>2, <1>a, MessageFields DEF CoreWillAtActive, ReceivedByA
  <2>2. next \in Table
    BY <1>b, <2>1, CoreIds, DropPeerCoreAdvances
  <2>3. ActiveMoves(next, next # ct[CoreA])
    BY <1>2 DEF CoreWillAtActive
  <2>4. peerIn' \in Seq(PeerInbox)
    BY <2>2, <2>3, ActiveMovesInbox
  <2> QED
    BY <1>2, <1>a, <2>4 DEF CoreWillAtActive, ReceivedByA, Inboxes
<1>3. CASE ElectionRequestAtActive \/ ElectionResultAtActive
  BY <1>3, <1>a DEF ElectionRequestAtActive, ElectionResultAtActive, ReceivedByA
<1>4. CASE ActiveReconnects
  <2>1. CtSync(ct[CoreA]) \in PeerInbox
    BY <1>b, InboxKinds
  <2>2. CoreA \in leaving => CoreWill(CoreA) \in PeerInbox
    BY InboxKinds DEF Ending
  <2>3. /\ <<CtSync(ct[CoreA])>> \in Seq(PeerInbox)
        /\ CoreA \in leaving => <<CtSync(ct[CoreA]), CoreWill(CoreA)>> \in Seq(PeerInbox)
    BY <2>1, <2>2
  <2>4. peerIn' \in Seq(PeerInbox)
    BY <1>4, <2>3, SendTypes DEF ActiveReconnects
  <2> QED
    BY <1>4, <2>4 DEF ActiveReconnects, Inboxes
<1> QED
  BY <1>1, <1>2, <1>3, <1>4 DEF ActiveSteps

\* The next message of the peer client under the invariant.
LEMMA PeerHead ==
  ASSUME Inboxes, peerIn # <<>>
  PROVE  /\ Tail(peerIn) \in Seq(PeerInbox)
         /\ Head(peerIn).kind \in {"ct_sync", "core_will"}
         /\ Head(peerIn).kind = "core_will" => Head(peerIn).core = CoreA /\ Ending(CoreA)
<1>1. Head(peerIn) \in PeerInbox /\ Tail(peerIn) \in Seq(PeerInbox)
  BY HeadTailProperties DEF Inboxes
<1> QED
  BY <1>1, InboxKinds

\* The peer thread takes from its queue and flushes registrations.
LEMMA PeerStepsInboxes ==
  ASSUME TypeOK, Inboxes, PeerSteps
  PROVE  /\ aIn' \in Seq(ActiveInbox) /\ peerOut' \in Seq(ActiveInbox)
         /\ peerIn' \in Seq(PeerInbox)
<1>a. <<>> \in Seq(ActiveInbox) /\ <<>> \in Seq(PeerInbox)
  OBVIOUS
<1>1. CASE PeerConnects
  <2>1. aIn' \in Seq(ActiveInbox) /\ peerOut' \in Seq(ActiveInbox)
    BY <1>1, <1>a, SendTypes DEF PeerConnects, Inboxes
  <2>2. CtSync(ctSync) \in PeerInbox
    BY InboxKinds DEF TypeOK
  <2>3. <<CtSync(ctSync)>> \in Seq(PeerInbox)
    BY <2>2
  <2>4. peerIn' \in Seq(PeerInbox)
    BY <1>1, <2>3 DEF PeerConnects, Inboxes
  <2> QED
    BY <2>1, <2>4
<1>2. CASE CtSyncAtBackup \/ CoreWillAtBackup
  BY <1>2, PeerHead DEF CtSyncAtBackup, CoreWillAtBackup, ReceivedByPeer, Inboxes
<1>3. CASE ElectionRequestAtBackup \/ ElectionResultAtBackup
  BY <1>3, PeerHead DEF ElectionRequestAtBackup, ElectionResultAtBackup, ReceivedByPeer
<1>4. CASE MergeAtBackup
  BY <1>4 DEF MergeAtBackup, linkVars, Inboxes
<1>5. CASE StopPeerChannel \/ PeerChannelCloses
  BY <1>5, <1>a DEF StopPeerChannel, PeerChannelCloses, Inboxes
<1> QED
  BY <1>1, <1>2, <1>3, <1>4, <1>5 DEF PeerSteps

\* CoreB's publications add nothing but registrations.
LEMMA ScriptStepsInboxes ==
  ASSUME TypeOK, Inboxes, NEW th \in Threads, ScriptSteps(th)
  PROVE  /\ aIn' \in Seq(ActiveInbox) /\ peerOut' \in Seq(ActiveInbox)
         /\ peerIn' \in Seq(PeerInbox)
<1>1. CASE TakeSnapshot(th) \/ AnnounceSwitch(th)
  BY <1>1 DEF TakeSnapshot, AnnounceSwitch, linkVars, Inboxes
<1>2. CASE Publish(th)
  <2> DEFINE t == Head(work[th]).table
  <2>1. t \in Table
    BY <1>2, WorkTypes, StepFields DEF Publish, Running
  <2>2. NodeRegister(t) \in ActiveInbox
    BY <2>1, InboxKinds
  <2>3. CASE SendByPeer(NodeRegister(t))
    BY <1>2, <2>2, <2>3, SendByPeerInboxes DEF Publish, Inboxes
  <2>4. CASE UNCHANGED <<aIn, peerOut>>
    BY <1>2, <2>4 DEF Publish, Inboxes
  <2> QED
    BY <1>2, <2>3, <2>4 DEF Publish
<1> QED
  BY <1>1, <1>2 DEF ScriptSteps

\* Here the will of CoreA enters the queue: in the step that kills CoreA, or as
\* the notice that puts CoreA among those that are leaving.
LEMMA EnvironmentStepsInboxes ==
  ASSUME TypeOK, Inboxes, OnlyRealEnds, EnvironmentSteps
  PROVE  Inboxes'
<1>a. <<>> \in Seq(ActiveInbox) /\ <<>> \in Seq(PeerInbox) /\ <<>> \in Seq(PeerInbox')
  OBVIOUS
<1>b. \A q \in Seq(PeerInbox) : q \in Seq(PeerInbox')
  BY PeerInboxGrows DEF Next
<1>1. ASSUME NEW c \in Cores, NEW e \in Edges, EdgeStatus(c, e) \/ NodeWill(c, e)
      PROVE  Inboxes'
  <2>1. PICK t \in Table : EdgeMoves(c, t)
    <3>1. Announced(Online) \in Row /\ c \in Ids /\ e \in Ids /\ ct[c] \in Table /\ clock \in Nat
      BY CoreIds DEF Announced, Row, Online, TypeOK
    <3>2. /\ RegisterEdge(ct[c], c, e, clock) \in Table
          /\ SetNodeStatus(ct[c], e, Offline, clock) \in Table
      BY <3>1, RegisterEdgeAdvances, RowOperationsAdvance DEF Online, Offline
    <3> QED
      BY <1>1, <3>2 DEF EdgeStatus, NodeWill
  <2>2. peerIn' \in Seq(PeerInbox)
    <3>1. CASE c = CoreA
      <4> DEFINE u == IF Listening THEN t ELSE ct[c]
      <4>1. ActiveMoves(u, Listening /\ t # ct[c])
        BY <2>1, <3>1 DEF EdgeMoves
      <4>2. u \in Table /\ (Listening /\ t # ct[c]) \in BOOLEAN
        BY DEF TypeOK
      <4> QED
        BY <4>1, <4>2, ActiveMovesInbox
    <3>2. CASE c # CoreA
      BY <2>1, <3>2 DEF EdgeMoves, Inboxes
    <3> QED
      BY <3>1, <3>2
  <2>3. UNCHANGED <<aIn, peerOut>>
    BY <1>1 DEF EdgeStatus, NodeWill
  <2> QED
    BY <1>b, <2>2, <2>3 DEF Inboxes, ActiveInbox
<1>2. CASE NoticeOfActive \/ ActiveEnds
  <2>1. Ending(CoreA)'
    BY <1>2, CoreIds DEF NoticeOfActive, ActiveEnds, Ends, Ending, TypeOK
  <2>2. CoreWill(CoreA) \in PeerInbox'
    BY <2>1, MessageTypes, CoreIds DEF PeerInbox
  <2>3. <<CoreWill(CoreA)>> \in Seq(PeerInbox') /\ peerIn \in Seq(PeerInbox')
    BY <1>b, <2>2 DEF Inboxes
  <2>4. peerIn \o <<CoreWill(CoreA)>> \in Seq(PeerInbox')
    BY <2>3, ConcatProperties
  <2>5. peerIn' = IF selfUp THEN ForPeer(<<CoreWill(CoreA)>>) ELSE peerIn
    BY <1>2 DEF NoticeOfActive, ActiveEnds
  <2>6. peerIn' \in Seq(PeerInbox')
    BY <2>3, <2>4, <2>5 DEF ForPeer
  <2>7. ForA(<<CoreWill(CoreA)>>) \in Seq(ActiveInbox)
    BY InboxKinds, SendTypes
  <2>8. aIn' \in Seq(ActiveInbox) /\ peerOut' \in Seq(ActiveInbox)
    BY <1>2, <1>a, <2>7 DEF NoticeOfActive, ActiveEnds, Inboxes
  <2> QED
    BY <2>6, <2>8 DEF Inboxes, ActiveInbox
<1>3. CASE LoseActiveHost
  BY <1>3, <1>a DEF LoseActiveHost, Inboxes, ActiveInbox
<1>4. CASE BackupEnds
  <2>1. ForA(<<CoreWill(CoreB)>>) \in Seq(ActiveInbox)
    BY InboxKinds, SendTypes
  <2> QED
    BY <1>4, <1>a, <2>1 DEF BackupEnds, Inboxes, ActiveInbox
<1>8. CASE NoticeOfBackup
  <2>1. aIn' \in Seq(ActiveInbox) /\ peerOut' \in Seq(ActiveInbox)
    BY <1>8, InboxKinds, SendByPeerInboxes DEF NoticeOfBackup
  <2>2. peerIn' \in Seq(PeerInbox')
    BY <1>8, <1>b DEF NoticeOfBackup, Inboxes
  <2> QED
    BY <2>1, <2>2 DEF Inboxes, ActiveInbox
<1>5. CASE DropPeer
  <2>1. ForA(<<CoreWill(CoreB)>>) \in Seq(ActiveInbox)
    BY InboxKinds, SendTypes
  <2> QED
    BY <1>5, <1>a, <2>1 DEF DropPeer, Inboxes, ActiveInbox
<1>6. CASE DropSelf \/ RequestElection \/ ElectionResultOnSelf
  BY <1>6 DEF DropSelf, RequestElection, ElectionResultOnSelf, Fault, OnlyRealEnds
<1>7. CASE Tick
  BY <1>7, <1>b DEF Tick, linkVars, Inboxes, ActiveInbox
<1> QED
  BY <1>1, <1>2, <1>3, <1>4, <1>5, <1>6, <1>7, <1>8 DEF EnvironmentSteps

\* The queues of both cores stay as described.
LEMMA InboxesKept ==
  ASSUME TypeOK, Inboxes, OnlyRealEnds, Next
  PROVE  Inboxes'
<1>1. CASE EnvironmentSteps
  BY <1>1, EnvironmentStepsInboxes
<1>2. CASE ~ EnvironmentSteps
  <2>1. /\ aIn' \in Seq(ActiveInbox) /\ peerOut' \in Seq(ActiveInbox)
        /\ peerIn' \in Seq(PeerInbox)
    BY <1>2, ActiveStepsInboxes, PeerStepsInboxes, ScriptStepsInboxes DEF Next
  <2>2. peerIn' \in Seq(PeerInbox')
    BY <2>1, PeerInboxGrows
  <2> QED
    BY <2>1, <2>2 DEF Inboxes, ActiveInbox
<1> QED
  BY <1>1, <1>2

\* A message of an edge does not touch the ids of the two cores.
LEMMA EdgeKeepsCoreIds ==
  ASSUME NEW t \in Table, NEW e \in Edges, NEW c \in Ids, NEW now \in Nat
  PROVE  /\ RegisterEdge(t, c, e, now).active = t.active
         /\ RegisterEdge(t, c, e, now).backup = t.backup
         /\ SetNodeStatus(t, e, Offline, now).active = t.active
         /\ SetNodeStatus(t, e, Offline, now).backup = t.backup
<1>1. \A u \in Table, id \in Ids, row \in Row :
        PutRow(u, id, row).active = u.active /\ PutRow(u, id, row).backup = u.backup
  BY DEF PutRow, Table
<1>2. \A u \in Table, x \in Ids :
        AddLink(u, c, x).active = u.active /\ AddLink(u, c, x).backup = u.backup
  BY DEF AddLink, Table
<1>3. /\ SetNodeStatus(t, e, Offline, now).active = t.active
      /\ SetNodeStatus(t, e, Offline, now).backup = t.backup
  <2>1. [status |-> Offline, prev |-> t.nodes[e].status, at |-> now] \in Row /\ e \in Ids
    BY DEF Row, Table, Ids, Offline
  <2> QED
    BY <1>1, <2>1 DEF SetNodeStatus
<1> DEFINE dedup == MarkDuplicateEndpointNodesOffline(t, e, now)
           row   == Announced(Online)
           known == IF e \notin Known(dedup) THEN AddNode(dedup, e, row, now)
                    ELSE IF SameNodeEntry(dedup.nodes[e], row) THEN dedup
                    ELSE UpdateNode(dedup, e, row, now)
<1>4. dedup \in Table /\ dedup.active = t.active /\ dedup.backup = t.backup
  <2>1. dedup \in Table
    BY MarkDuplicatesAdvances
  <2>2. dedup.active = t.active /\ dedup.backup = t.backup
    BY DEF MarkDuplicateEndpointNodesOffline, Table
  <2> QED
    BY <2>1, <2>2
<1>5. RegisterEdge(t, c, e, now) = AddLink(known, c, e)
  BY DEF RegisterEdge
<1>6. row \in Row /\ e \in Ids
  BY DEF Announced, Row, Online, Ids
<1> HIDE DEF dedup, row
<1>7. known \in Table /\ known.active = dedup.active /\ known.backup = dedup.backup
  <2>1. AddNode(dedup, e, row, now) \in Table /\ UpdateNode(dedup, e, row, now) \in Table
    BY <1>4, <1>6, RowOperationsAdvance DEF Online, Offline
  <2>2. \A s, p \in {Online, Offline, Absent}, a \in Nat :
          [status |-> s, prev |-> p, at |-> a] \in Row
    BY DEF Row
  <2>3. /\ row.status \in {Online, Offline, Absent}
        /\ dedup.nodes[e].status \in {Online, Offline, Absent}
        /\ dedup.nodes[e].prev \in {Online, Offline, Absent}
        /\ dedup.nodes[e].at \in Nat
    BY <1>4, <1>6 DEF Table, Row
  <2>4. /\ AddNode(dedup, e, row, now).active = dedup.active
        /\ AddNode(dedup, e, row, now).backup = dedup.backup
    BY <1>1, <1>4, <1>6, <2>2, <2>3 DEF AddNode
  <2>5. /\ UpdateNode(dedup, e, row, now).active = dedup.active
        /\ UpdateNode(dedup, e, row, now).backup = dedup.backup
    BY <1>1, <1>4, <1>6, <2>2, <2>3 DEF UpdateNode
  <2> QED
    BY <1>4, <2>1, <2>4, <2>5
<1> HIDE DEF known
<1> QED
  BY <1>2, <1>3, <1>4, <1>5, <1>6, <1>7

\* A promotion finds CoreA ending; nothing after it renames the Active.
LEMMA TakeoverKept ==
  ASSUME TypeOK, TakeoverInv, OnlyRealEnds, Next
  PROVE  Takeover' /\ work'["peer"] \in Seq(PeerWork')
<1>a. "peer" \in Threads /\ work["peer"] \in Seq(Step)
  BY DEF Threads, TypeOK
<1>b. ASSUME ct'[CoreB] = ct[CoreB], isBackup'[CoreB] = isBackup[CoreB]
      PROVE  Takeover'
  BY <1>b, NoReturn DEF Takeover, TakeoverInv
<1>c. ASSUME UNCHANGED isBackup, work'["peer"] = work["peer"]
      PROVE  work'["peer"] \in Seq(PeerWork')
  BY <1>c DEF PeerWork, TakeoverInv
<1>d. \A s \in Seq(PeerWork) : s # <<>> => Head(s) \in PeerWork /\ Tail(s) \in Seq(PeerWork)
  BY HeadTailProperties
<1>1. CASE ActiveSteps
  <2>1. UNCHANGED <<isBackup, work>>
    BY <1>1 DEF ActiveSteps, NodeRegisterAtActive, CoreWillAtActive, ElectionRequestAtActive,
                ElectionResultAtActive, ActiveReconnects, coreVars
  <2>2. ct'[CoreB] = ct[CoreB]
    BY <1>1, CoreIds DEF ActiveSteps, NodeRegisterAtActive, CoreWillAtActive,
                ElectionRequestAtActive, ElectionResultAtActive, ActiveReconnects, coreVars,
                ActiveMoves, PublishActiveView, TypeOK
  <2> QED
    BY <1>b, <1>c, <2>1, <2>2
<1>2. CASE PeerSteps
  <2>1. CASE PeerConnects
    <3>1. ct' = ct /\ isBackup' = isBackup
      BY <2>1 DEF PeerConnects
    <3>2. CASE isBackup[CoreB]
      <4>1. PeerWork' = Step
        BY <3>1, <3>2 DEF PeerWork
      <4>2. Snapshot("register") \in Step
        BY StepTypes
      <4>3. <<Snapshot("register")>> \in Seq(Step)
        BY <4>2
      <4>4. work'["peer"] = <<Snapshot("register")>>
        BY <1>a, <2>1, <3>2 DEF PeerConnects, TypeOK
      <4> QED
        BY <1>b, <3>1, <4>1, <4>3, <4>4
    <3>3. CASE ~ isBackup[CoreB]
      BY <1>b, <1>c, <2>1, <3>1, <3>3 DEF PeerConnects
    <3> QED
      BY <3>2, <3>3
  <2>2. CASE CtSyncAtBackup
    <3>1. ct' = ct /\ isBackup' = isBackup
      BY <2>2 DEF CtSyncAtBackup
    <3>2. CASE isBackup[CoreB]
      <4>1. PeerWork' = Step
        BY <3>1, <3>2 DEF PeerWork
      <4>2. work' \in [Threads -> Seq(Step)]
        BY <2>2, PeerStepTypes DEF PeerSteps, TypeOK
      <4> QED
        BY <1>a, <1>b, <3>1, <4>1, <4>2
    <3>3. CASE ~ isBackup[CoreB]
      BY <1>b, <1>c, <2>2, <3>1, <3>3 DEF CtSyncAtBackup
    <3> QED
      BY <3>2, <3>3
  <2>3. CASE MergeAtBackup
    <3>1. isBackup[CoreB]
      <4>1. work["peer"] # <<>> /\ Head(work["peer"]).do = "merge"
        BY <2>3 DEF MergeAtBackup, Running
      <4>2. Head(work["peer"]) \in PeerWork
        BY <1>d, <4>1 DEF TakeoverInv
      <4> QED
        BY <4>1, <4>2 DEF PeerWork
    <3>2. isBackup' = isBackup
      BY <2>3 DEF MergeAtBackup
    <3>3. PeerWork' = Step /\ Takeover'
      BY <3>1, <3>2 DEF PeerWork, Takeover
    <3>4. work' \in [Threads -> Seq(Step)]
      BY <2>3, PeerStepTypes DEF PeerSteps, TypeOK
    <3> QED
      BY <1>a, <3>3, <3>4
  <2>4. CASE CoreWillAtBackup
    <3>1. CASE Promote("peer", Head(peerIn).core, PromotionScript)
      <4>1. Head(peerIn).kind = "core_will" /\ peerIn # <<>>
        BY <2>4 DEF CoreWillAtBackup, ReceivedByPeer
      <4>2. Head(peerIn).core = CoreA /\ Ending(CoreA)
        BY <4>1, PeerHead DEF TakeoverInv
      <4>3. ct'[CoreB].active = CoreB /\ ct'[CoreB].backup = NoId
        BY <1>a, <3>1, <4>2, CoreIds, PromoteStepAdvances
      <4>4. Ending(CoreA)'
        BY <4>2, NoReturn
      <4>5. work'["peer"] = PromotionScript
        BY <1>a, <3>1 DEF Promote, TypeOK
      <4>6. PromotionScript \in Seq(PeerWork')
        <5> DEFINE a == Snapshot("topology")
                   b == Snapshot("ownSync")
                   c == Snapshot("peerTopology")
                   d == Snapshot("peerSync")
        <5>1. /\ a \in Step /\ b \in Step /\ c \in Step /\ d \in Step
              /\ Switch \in Step /\ StopPeer \in Step
          BY StepTypes
        <5>2. /\ a.do # "merge" /\ b.do # "merge" /\ c.do # "merge" /\ d.do # "merge"
              /\ Switch.do # "merge" /\ StopPeer.do # "merge"
          BY DEF Snapshot, Switch, StopPeer
        <5>3. PromotionScript = <<a, b, c, d, Switch, StopPeer>>
          BY DEF PromotionScript
        <5> HIDE DEF a, b, c, d
        <5>4. {a, b, c, d, Switch, StopPeer} \subseteq PeerWork'
          BY <5>1, <5>2 DEF PeerWork
        <5> QED
          BY <5>3, <5>4
      <4> QED
        BY <4>3, <4>4, <4>5, <4>6 DEF Takeover
    <3>2. CASE UNCHANGED <<ct, isBackup, work>>
      BY <1>b, <1>c, <3>2
    <3> QED
      BY <2>4, <3>1, <3>2 DEF CoreWillAtBackup
  <2>5. CASE ElectionRequestAtBackup \/ ElectionResultAtBackup
    BY <2>5, PeerHead DEF ElectionRequestAtBackup, ElectionResultAtBackup, ReceivedByPeer,
                          TakeoverInv
  <2>7. CASE PeerChannelCloses
    BY <1>b, <1>c, <2>7 DEF PeerChannelCloses, coreVars
  <2>6. CASE StopPeerChannel
    <3>1. UNCHANGED <<ct, isBackup>> /\ work'["peer"] = Tail(work["peer"])
          /\ work["peer"] # <<>>
      BY <1>a, <2>6 DEF StopPeerChannel, Running, TypeOK
    <3>2. PeerWork' = PeerWork
      BY <3>1 DEF PeerWork
    <3> QED
      BY <1>b, <1>d, <3>1, <3>2 DEF TakeoverInv
  <2> QED
    BY <1>2, <2>1, <2>2, <2>3, <2>4, <2>5, <2>6, <2>7 DEF PeerSteps
<1>3. ASSUME NEW th \in Threads, ScriptSteps(th)
      PROVE  Takeover' /\ work'["peer"] \in Seq(PeerWork')
  <2>1. UNCHANGED <<ct, isBackup>>
    BY <1>3 DEF ScriptSteps, TakeSnapshot, Publish, AnnounceSwitch
  <2>2. PeerWork' = PeerWork
    BY <2>1 DEF PeerWork
  <2>3. work'["peer"] \in Seq(PeerWork)
    <3>1. CASE th # "peer"
      BY <1>a, <1>3, <3>1 DEF ScriptSteps, TakeSnapshot, Publish, AnnounceSwitch, TypeOK,
                              TakeoverInv
    <3>2. CASE th = "peer" /\ (Publish(th) \/ AnnounceSwitch(th))
      <4>1. work["peer"] # <<>> /\ work'["peer"] = Tail(work["peer"])
        BY <1>a, <3>2 DEF Publish, AnnounceSwitch, Running, TypeOK
      <4> QED
        BY <1>d, <4>1 DEF TakeoverInv
    <3>3. CASE th = "peer" /\ TakeSnapshot(th)
      <4>1. PICK topic : work'["peer"] = <<Emit(topic, ct[CoreB])>> \o Tail(work["peer"])
        BY <1>a, <3>3 DEF TakeSnapshot, TypeOK
      <4>2. work'["peer"] \in Seq(Step)
        BY <1>a, <1>3, ScriptStepTypes DEF TypeOK
      <4>3. work["peer"] # <<>> /\ Tail(work["peer"]) \in Seq(PeerWork)
        BY <1>d, <3>3 DEF TakeSnapshot, Running, TakeoverInv
      <4>4. Emit(topic, ct[CoreB]) \in PeerWork
        <5>1. Emit(topic, ct[CoreB]).do # "merge"
          BY DEF Emit
        <5>2. Emit(topic, ct[CoreB]) \in Step
          <6>1. Len(work'["peer"]) >= 1 /\ work'["peer"][1] = Emit(topic, ct[CoreB])
            BY <1>a, <4>1, HeadTailProperties, <4>3
          <6> QED
            BY <4>2, <6>1, ElementOfSeq
        <5> QED
          BY <5>1, <5>2 DEF PeerWork
      <4>5. <<Emit(topic, ct[CoreB])>> \in Seq(PeerWork)
        BY <4>4
      <4> QED
        BY <4>1, <4>3, <4>5, ConcatProperties
    <3> QED
      BY <1>3, <3>1, <3>2, <3>3 DEF ScriptSteps
  <2> QED
    BY <1>b, <2>1, <2>2, <2>3
<1>4. CASE EnvironmentSteps
  <2>1. ASSUME NEW c \in Cores, NEW e \in Edges, EdgeStatus(c, e) \/ NodeWill(c, e)
        PROVE  Takeover' /\ work'["peer"] \in Seq(PeerWork')
    <3>1. UNCHANGED <<isBackup, alive, leaving>> /\ work'["peer"] = work["peer"]
      BY <1>a, <2>1 DEF EdgeStatus, NodeWill, EdgeMoves, TypeOK, Threads
    <3>2. /\ ct'[CoreB].active = ct[CoreB].active
          /\ ct'[CoreB].backup = ct[CoreB].backup
      <4>1. PICK t : /\ EdgeMoves(c, t)
                     /\ t.active = ct[c].active /\ t.backup = ct[c].backup
        <5>1. ct[c] \in Table /\ c \in Ids /\ clock \in Nat
          BY CoreIds DEF TypeOK
        <5> QED
          BY <2>1, <5>1, EdgeKeepsCoreIds DEF EdgeStatus, NodeWill
      <4>2. CASE c = CoreA
        BY <4>1, <4>2, CoreIds DEF EdgeMoves, ActiveMoves, PublishActiveView, TypeOK
      <4>3. CASE c = CoreB
        BY <4>1, <4>3, CoreIds DEF EdgeMoves, TypeOK
      <4> QED
        BY <4>2, <4>3, ClusterConstants
    <3> QED
      BY <1>c, <3>1, <3>2 DEF Takeover, TakeoverInv, Ending
  <2>2. CASE BackupEnds
    <3>1. UNCHANGED <<ct, isBackup>> /\ work'["peer"] = <<>>
      BY <1>a, <2>2 DEF BackupEnds
    <3> QED
      BY <1>b, <3>1
  <2>3. CASE \/ NoticeOfActive \/ ActiveEnds \/ LoseActiveHost \/ NoticeOfBackup
             \/ DropPeer \/ Tick
    BY <1>b, <1>c, <2>3 DEF NoticeOfActive, ActiveEnds, LoseActiveHost, NoticeOfBackup,
                            DropPeer, Tick, coreVars
  <2>4. CASE DropSelf \/ RequestElection \/ ElectionResultOnSelf
    BY <2>4 DEF DropSelf, RequestElection, ElectionResultOnSelf, Fault, OnlyRealEnds
  <2> QED
    BY <1>4, <2>1, <2>2, <2>3, <2>4 DEF EnvironmentSteps
<1> QED
  BY <1>1, <1>2, <1>3, <1>4 DEF Next

\* The strengthened invariant holds in every reachable state.
LEMMA TakeoverInvariant ==
  ASSUME OnlyRealEnds
  PROVE  Spec => []TakeoverInv
<1>1. Init => TakeoverInv
  <2>1. <<>> \in Seq(ActiveInbox) /\ <<>> \in Seq(PeerInbox) /\ <<>> \in Seq(PeerWork)
    OBVIOUS
  <2> QED
    BY <2>1, CoreIds DEF Init, TakeoverInv, Inboxes, Takeover, Threads
<1>2. TypeOK /\ TakeoverInv /\ [Next]_vars => TakeoverInv'
  <2> SUFFICES ASSUME TypeOK, TakeoverInv, [Next]_vars PROVE TakeoverInv'
    OBVIOUS
  <2>1. CASE Next
    BY <2>1, InboxesKept, TakeoverKept DEF TakeoverInv
  <2>2. CASE UNCHANGED vars
    BY <2>2 DEF vars, coreVars, linkVars, TakeoverInv, Inboxes, Takeover,
                ActiveInbox, PeerInbox, PeerWork, Ending
  <2> QED
    BY <2>1, <2>2
<1> QED
  BY <1>1, <1>2, TypeCorrect, PTL DEF Spec

\* As long as only real ends are announced - no will of an Active that goes
\* on, no election - two cores act as Active together only while CoreA shuts
\* down, in the 250 ms between its notice and its end (main), in whatever
\* order notices, wills, snapshots and disconnections arrive.
THEOREM OverlapIsShutdown ==
  ASSUME OnlyRealEnds
  PROVE  Spec => []TwoActivesOnlyAtShutdown
<1>1. TakeoverInv => TwoActivesOnlyAtShutdown
  BY ClusterConstants DEF TakeoverInv, Takeover, TwoActivesOnlyAtShutdown, ActiveCore, Ending
<1> QED
  BY <1>1, TakeoverInvariant, PTL

\* Under the same assumption no CT_SYNC renames the Active in the table of a
\* promoted core: none that was queued before the notice of CoreA, and none of
\* those CoreA goes on sending until it ends, which reach the promoted core
\* until its peer channel is closed (on_message_peer, 460 and 465-494).
THEOREM PromotedKeepsItsName ==
  ASSUME OnlyRealEnds
  PROVE  Spec => []PromotedNamesItself
<1>1. TakeoverInv => PromotedNamesItself
  BY DEF TakeoverInv, Takeover, PromotedNamesItself
<1> QED
  BY <1>1, TakeoverInvariant, PTL
=============================================================================
