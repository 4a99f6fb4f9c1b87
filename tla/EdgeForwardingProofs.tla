------------------------ MODULE EdgeForwardingProofs ------------------------
(***************************************************************************)
(* EdgeForwarding implements StoreAndForward, for any number of events,    *)
(* breaks, wills and switches.                                             *)
(***************************************************************************)
EXTENDS EdgeForwarding, SequenceTheorems, TLAPS

(***************************************************************************)
(* Sequences                                                               *)
(***************************************************************************)

\* The head and the tail of a concatenation are those of its first part.
LEMMA HeadTailOfConcat ==
  ASSUME NEW S, NEW s \in Seq(S), NEW t \in Seq(S), s # <<>>
  PROVE  /\ s \o t # <<>>
         /\ Head(s \o t) = Head(s)
         /\ Tail(s \o t) = Tail(s) \o t
<1>1. Len(s) \in Nat \ {0}
  BY EmptySeq
<1>2. /\ s \o t \in Seq(S)
      /\ Len(s \o t) = Len(s) + Len(t)
      /\ \A i \in 1 .. Len(s) + Len(t) :
           (s \o t)[i] = IF i <= Len(s) THEN s[i] ELSE t[i - Len(s)]
  BY ConcatProperties
<1>3. Len(t) \in Nat
  BY LenProperties
<1>4. s \o t # <<>>
  BY ConcatEqualIffEmpty
<1>5. Head(s \o t) = Head(s)
  BY <1>1, <1>2, <1>3
<1>6. Tail(s \o t) = Tail(s) \o t
  <2>1. /\ Tail(s \o t) \in Seq(S)
        /\ Len(Tail(s \o t)) = Len(s \o t) - 1
        /\ \A i \in 1 .. Len(Tail(s \o t)) : Tail(s \o t)[i] = (s \o t)[i + 1]
    BY <1>2, <1>4, HeadTailProperties
  <2>2. /\ Tail(s) \in Seq(S)
        /\ Len(Tail(s)) = Len(s) - 1
        /\ \A i \in 1 .. Len(Tail(s)) : Tail(s)[i] = s[i + 1]
    BY HeadTailProperties
  <2>3. /\ Tail(s) \o t \in Seq(S)
        /\ Len(Tail(s) \o t) = Len(Tail(s)) + Len(t)
        /\ \A i \in 1 .. Len(Tail(s)) + Len(t) :
             (Tail(s) \o t)[i] =
               IF i <= Len(Tail(s)) THEN Tail(s)[i] ELSE t[i - Len(Tail(s))]
    BY <2>2, ConcatProperties
  <2>4. Len(Tail(s \o t)) = Len(Tail(s) \o t)
    BY <1>1, <1>2, <1>3, <2>1, <2>2, <2>3
  <2>5. ASSUME NEW i \in 1 .. Len(Tail(s \o t))
        PROVE  Tail(s \o t)[i] = (Tail(s) \o t)[i]
    <3>1. /\ i \in Nat /\ i >= 1 /\ i + 1 <= Len(s) + Len(t)
          /\ i + 1 \in 1 .. Len(s) + Len(t)
          /\ i \in 1 .. Len(Tail(s)) + Len(t)
      BY <1>1, <1>2, <1>3, <2>1, <2>2
    <3>2. Tail(s \o t)[i] = IF i + 1 <= Len(s) THEN s[i + 1] ELSE t[i + 1 - Len(s)]
      BY <1>2, <2>1, <3>1
    <3>3. (Tail(s) \o t)[i] =
            IF i <= Len(s) - 1 THEN Tail(s)[i] ELSE t[i - (Len(s) - 1)]
      BY <2>2, <2>3, <3>1
    <3>4. CASE i + 1 <= Len(s)
      <4>1. i <= Len(s) - 1 /\ i \in 1 .. Len(Tail(s))
        BY <3>1, <3>4, <1>1, <2>2
      <4> QED
        BY <4>1, <3>2, <3>3, <3>4, <2>2
    <3>5. CASE ~ (i + 1 <= Len(s))
      <4>1. ~ (i <= Len(s) - 1) /\ i + 1 - Len(s) = i - (Len(s) - 1)
        BY <3>1, <3>5, <1>1
      <4> QED
        BY <4>1, <3>2, <3>3, <3>5
    <3> QED
      BY <3>4, <3>5
  <2> QED
    BY <2>1, <2>3, <2>4, <2>5, SeqEqual
<1> QED
  BY <1>4, <1>5, <1>6

\* A queue that gets one more event at its end.
LEMMA AppendBehind ==
  ASSUME NEW S, NEW s \in Seq(S), NEW e \in S
  PROVE  /\ Append(s, e) = s \o <<e>>
         /\ s # <<>> => Tail(Append(s, e)) = Tail(s) \o <<e>>
         /\ s # <<>> => Head(Append(s, e)) = Head(s)
<1>1. <<e>> \in Seq(S)
  OBVIOUS
<1>2. Append(s, e) = s \o <<e>>
  BY AppendIsConcat
<1> QED
  BY <1>1, <1>2, HeadTailOfConcat

(***************************************************************************)
(* Types                                                                   *)
(***************************************************************************)

\* Where a thread can be (the values of pc).
Places == {"idle", "check", "recheck", "store", "lock", "peek", "route", "try", "pop"}

\* A thread that moves on, and one that leaves a call.
LEMMA MoveTypes ==
  ASSUME TypeOK, NEW th \in Threads
  PROVE  /\ \A place \in Places : Goes(th, place) => pc' \in [Threads -> Places]
         /\ Leave(th) => /\ pc' \in [Threads -> Places]
                         /\ flushLock' \in Threads \cup {"free"}
         /\ Forget(th) => /\ item' \in [Threads -> Nat]
                          /\ route' \in [Threads -> Seq({"core", "backup", "relay"})]
<1>1. ASSUME NEW place \in Places, Goes(th, place)
      PROVE  pc' \in [Threads -> Places]
  BY <1>1 DEF Goes, Places, TypeOK
<1>2. ASSUME Leave(th)
      PROVE  pc' \in [Threads -> Places] /\ flushLock' \in Threads \cup {"free"}
  <2>1. (IF th = "local" THEN "recheck" ELSE "idle") \in Places
    BY DEF Places
  <2> QED
    BY <1>1, <1>2, <2>1 DEF Leave
<1>3. ASSUME Forget(th)
      PROVE  /\ item' \in [Threads -> Nat]
             /\ route' \in [Threads -> Seq({"core", "backup", "relay"})]
  <2>1. <<>> \in Seq({"core", "backup", "relay"})
    BY EmptySeq
  <2> QED
    BY <1>3, <2>1 DEF Forget, TypeOK
<1> QED
  BY <1>1, <1>2, <1>3

\* The steps of the local thread keep the types.
LEMMA LocalStepTypes == TypeOK /\ (LocalEvent \/ LocalSteps) => TypeOK'
<1> SUFFICES ASSUME TypeOK, LocalEvent \/ LocalSteps PROVE TypeOK'
  OBVIOUS
<1>0. "local" \in Threads
  BY DEF Threads
<1>1. CASE LocalEvent
  BY <1>0, <1>1, MoveTypes DEF Places, LocalEvent, TypeOK, queueVars, flagVars, netVars
<1>2. CASE CheckPending
  BY <1>0, <1>2, MoveTypes DEF Places, CheckPending, TypeOK, queueVars, flagVars, netVars, logVars
<1>3. CASE RecheckPending
  BY <1>0, <1>3, MoveTypes DEF Places, RecheckPending, TypeOK, queueVars, flagVars, netVars, logVars
<1>4. CASE QueueEvent
  <2>1. storeQueue' \in Seq(Nat)
    BY <1>4, AppendProperties DEF QueueEvent, TypeOK
  <2> QED
    BY <1>0, <1>4, <2>1, MoveTypes DEF Places, QueueEvent, TypeOK, flagVars, netVars, logVars
<1> QED
  BY <1>1, <1>2, <1>3, <1>4 DEF LocalSteps

\* The events libmosquitto holds.
LEMMA HoldTypes ==
  ASSUME TypeOK, NEW c \in Clients, NEW e \in Nat, Hold(c, e)
  PROVE  out' \in [Clients -> Seq(Nat)]
<1>1. out[c] \in Seq(Nat)
  BY DEF TypeOK
<1>2. Append(out[c], e) \in Seq(Nat)
  BY <1>1, AppendProperties
<1> QED
  BY <1>2 DEF Hold, TypeOK

\* The steps of a flush keep the types.
LEMMA FlushStepTypes ==
  ASSUME TypeOK, NEW th \in Threads, Lock(th) \/ FlushSteps(th)
  PROVE  TypeOK'
<1>0. /\ \A way : Carrier(way) \in Clients
      /\ item[th] \in Nat
      /\ route[th] \in Seq({"core", "backup", "relay"})
  BY DEF Carrier, Clients, TypeOK
<1>1. CASE Lock(th)
  BY <1>1, MoveTypes DEF Places, Lock, TypeOK, flagVars, netVars, logVars
<1>2. CASE Peek(th)
  <2>1. CASE storeQueue = <<>>
    BY <1>2, <2>1, MoveTypes DEF Places, Peek, TypeOK, flagVars, netVars, logVars
  <2>2. CASE storeQueue # <<>>
    <3>1. Head(storeQueue) \in Nat
      BY <2>2, HeadTailProperties DEF TypeOK
    <3> QED
      BY <1>2, <2>2, <3>1, MoveTypes DEF Places, Peek, TypeOK, flagVars, netVars, logVars
  <2> QED
    BY <2>1, <2>2
<1>3. CASE Pop(th)
  <2>1. storeQueue' \in Seq(Nat)
    BY <1>3, HeadTailProperties DEF Pop, TypeOK
  <2> QED
    BY <1>3, <2>1, MoveTypes DEF Places, Pop, TypeOK, flagVars, netVars, logVars
<1>4. CASE ChooseRoute(th)
  <2>1. <<"backup", "core">> \in Seq({"core", "backup", "relay"})
    OBVIOUS
  <2>2. <<"core", "backup", "relay">> \in Seq({"core", "backup", "relay"})
    OBVIOUS
  <2>3. route' \in [Threads -> Seq({"core", "backup", "relay"})]
    BY <1>4, <2>1, <2>2 DEF ChooseRoute, TypeOK
  <2> QED
    BY <1>4, <2>3, MoveTypes DEF Places, ChooseRoute, TypeOK, queueVars, flagVars, netVars, logVars
<1>5. CASE Send(th)
  <2>1. out' \in [Clients -> Seq(Nat)]
    BY <1>0, <1>5, HoldTypes DEF Send
  <2>2. handed' \in Seq(Nat)
    BY <1>0, <1>5, AppendProperties DEF Send, TypeOK
  <2>3. /\ pc' \in [Threads -> Places]
        /\ item' \in [Threads -> Nat]
        /\ route' \in [Threads -> Seq({"core", "backup", "relay"})]
    BY <1>5, MoveTypes DEF Places, Send, TypeOK
  <2> QED
    BY <1>5, <2>1, <2>2, <2>3 DEF Places, Send, TypeOK, queueVars, flagVars, netVars
<1>6. CASE TryNext(th)
  <2>1. out' \in [Clients -> Seq(Nat)]
    BY <1>0, <1>6, HoldTypes DEF TryNext, TypeOK
  <2>2. route' \in [Threads -> Seq({"core", "backup", "relay"})]
    BY <1>0, <1>6, HeadTailProperties DEF TryNext, TypeOK
  <2> QED
    BY <1>6, <2>1, <2>2 DEF TryNext, TypeOK, queueVars, flagVars, netVars
<1>7. CASE GiveUp(th)
  BY <1>7, MoveTypes DEF Places, GiveUp, TypeOK, flagVars, netVars, logVars
<1> QED
  BY <1>1, <1>2, <1>3, <1>4, <1>5, <1>6, <1>7 DEF FlushSteps

\* The callbacks, the main loop and the network keep the types.
LEMMA OtherStepTypes ==
  ASSUME TypeOK,
         \/ MainFlush \/ HostLost
         \/ \E c \in Clients : \/ Callbacks(c) \/ Arrive(c)
                               \/ CoreWill(c) \/ CoreSwitch(c) \/ LinkBreaks(c)
  PROVE  TypeOK'
<1>0. Clients \subseteq Threads /\ "main" \in Threads
  BY DEF Clients, Threads
<1>1. CASE MainFlush
  BY <1>0, <1>1, MoveTypes DEF Places, MainFlush, TypeOK, queueVars, flagVars, netVars, logVars
<1>2. CASE HostLost
  <2>1. faults' \in Nat
    BY <1>2 DEF HostLost, Fault, TypeOK
  <2>2. hostUp' \in [Hosts -> BOOLEAN]
    BY <1>2 DEF HostLost, TypeOK
  <2>3. sock' \in [Clients -> {"up", "lost", "down"}]
    BY <1>2 DEF HostLost, TypeOK
  <2> QED
    BY <1>2, <2>1, <2>2, <2>3
       DEF HostLost, TypeOK, threadVars, queueVars, flagVars, logVars
<1>3. ASSUME NEW c \in Clients, Callbacks(c) PROVE TypeOK'
  <2>1. CASE OnConnect(c)
    BY <1>0, <2>1, MoveTypes DEF Places, OnConnect, TypeOK, queueVars, logVars
  <2>2. CASE OnDisconnect(c)
    BY <2>2 DEF OnDisconnect, TypeOK, threadVars, queueVars, logVars
  <2> QED
    BY <1>3, <2>1, <2>2 DEF Callbacks
<1>4. ASSUME NEW c \in Clients, Arrive(c) PROVE TypeOK'
  <2>1. Head(out[c]) \in Nat /\ Tail(out[c]) \in Seq(Nat)
    BY <1>4, HeadTailProperties DEF Arrive, TypeOK
  <2> QED
    BY <1>4, <2>1 DEF Arrive, TypeOK, threadVars, queueVars, flagVars, netVars
<1>5. ASSUME NEW c \in Clients, CoreWill(c) PROVE TypeOK'
  <2>1. faults' \in Nat
    BY <1>5 DEF CoreWill, Fault, TypeOK
  <2>2. pc' \in [Threads -> Places]
    <3>1. CASE backup_connected
      BY <1>0, <1>5, <3>1, MoveTypes DEF CoreWill, Places
    <3>2. CASE ~ backup_connected
      BY <1>5, <3>2 DEF CoreWill, TypeOK, Places
    <3> QED
      BY <3>1, <3>2
  <2>3. core_connected' \in BOOLEAN /\ prefer_backup' \in BOOLEAN
    BY <1>5 DEF CoreWill
  <2> QED
    BY <1>5, <2>1, <2>2, <2>3 DEF CoreWill, Places, TypeOK, queueVars, netVars, logVars
<1>6. ASSUME NEW c \in Clients, CoreSwitch(c) PROVE TypeOK'
  <2>1. faults' \in Nat
    BY <1>6 DEF CoreSwitch, Fault, TypeOK
  <2>2. target' \in Hosts /\ prefer_backup' \in BOOLEAN
    BY <1>6 DEF CoreSwitch, Hosts
  <2>3. sock' \in [Clients -> {"up", "lost", "down"}]
    BY <1>6 DEF CoreSwitch, TypeOK
  <2> QED
    BY <1>6, <2>1, <2>2, <2>3 DEF CoreSwitch, TypeOK, threadVars, queueVars, logVars
<1>7. ASSUME NEW c \in Clients, LinkBreaks(c) PROVE TypeOK'
  BY <1>7 DEF LinkBreaks, Fault, TypeOK, threadVars, queueVars, flagVars, logVars
<1> QED
  BY <1>1, <1>2, <1>3, <1>4, <1>5, <1>6, <1>7

\* Every reachable state of the edge is of the declared types.
THEOREM EdgeTypes == Spec => []TypeOK
<1>1. Init => TypeOK
  <2> SUFFICES ASSUME Init PROVE TypeOK
    OBVIOUS
  <2>1. /\ <<>> \in Seq(Nat) /\ <<>> \in Seq({"core", "backup", "relay"})
    BY EmptySeq
  <2>2. /\ storeQueue \in Seq(Nat) /\ handed \in Seq(Nat)
        /\ route \in [Threads -> Seq({"core", "backup", "relay"})]
        /\ out \in [Clients -> Seq(Nat)]
    BY <2>1 DEF Init
  <2>3. /\ flushLock \in Threads \cup {"free"}
        /\ pc \in [Threads -> {"idle", "check", "recheck", "store", "lock", "peek",
                               "route", "try", "pop"}]
        /\ sock \in [Clients -> {"up", "lost", "down"}]
        /\ target \in Hosts
    BY DEF Init, Hosts
  <2>4. /\ item \in [Threads -> Nat]
        /\ arrived \subseteq Nat /\ accepted \in Nat /\ faults \in Nat
    BY DEF Init
  <2>5. /\ core_connected \in BOOLEAN /\ backup_connected \in BOOLEAN
        /\ prefer_backup \in BOOLEAN
        /\ hostUp \in [Hosts -> BOOLEAN]
    BY DEF Init
  <2> QED
    BY <2>2, <2>3, <2>4, <2>5 DEF TypeOK
<1>2. TypeOK /\ [Next]_vars => TypeOK'
  <2> SUFFICES ASSUME TypeOK, [Next]_vars PROVE TypeOK'
    OBVIOUS
  <2>1. CASE Next
    BY <2>1, LocalStepTypes, FlushStepTypes, OtherStepTypes DEF Next
  <2>2. CASE UNCHANGED vars
    BY <2>2 DEF vars, threadVars, queueVars, flagVars, netVars, logVars, TypeOK
  <2> QED
    BY <2>1, <2>2
<1> QED
  BY <1>1, <1>2, PTL DEF Spec

(***************************************************************************)
(* Who works on the queue                                                  *)
(***************************************************************************)

\* Only the holder of flush_mutex looks at the queue, sends from it and pops.
OneFlusher ==
  /\ \A th \in Threads : pc[th] \in {"peek", "pop"} => flushLock = th
  /\ \A th \in Threads \ {"local"} :
       /\ pc[th] \notin {"check", "recheck", "store"}
       /\ pc[th] \in {"route", "try"} => flushLock = th
  /\ \A th \in Threads : flushLock = th => pc[th] \in {"peek", "route", "try", "pop"}

\* What the flusher sends is the first event of the queue, until it pops it.
FlushesHead ==
  \A th \in Threads :
    flushLock = th /\ pc[th] # "peek" =>
      storeQueue # <<>> /\ Head(storeQueue) = item[th]

\* The local thread sends an event past the queue only when that is empty.
NoOvertaking ==
  pc["local"] \in {"route", "try"} /\ flushLock # "local" =>
    storeQueue = <<>> /\ item["local"] = accepted

QueueInv == OneFlusher /\ FlushesHead /\ NoOvertaking

\* The local thread keeps the discipline of the queue.
LEMMA LocalStepKeepsQueue ==
  TypeOK /\ QueueInv /\ (LocalEvent \/ LocalSteps) => QueueInv'
<1> SUFFICES ASSUME TypeOK, QueueInv, LocalEvent \/ LocalSteps PROVE QueueInv'
  OBVIOUS
<1>0. "local" \in Threads
  BY DEF Threads
<1>1. CASE LocalEvent
  BY <1>0, <1>1
     DEF QueueInv, OneFlusher, FlushesHead, NoOvertaking, TypeOK, LocalEvent, Goes, queueVars
<1>2. CASE CheckPending
  BY <1>0, <1>2
     DEF QueueInv, OneFlusher, FlushesHead, NoOvertaking, TypeOK, CheckPending, Goes,
         queueVars, logVars
<1>3. CASE RecheckPending
  BY <1>0, <1>3
     DEF QueueInv, OneFlusher, FlushesHead, NoOvertaking, TypeOK, RecheckPending, Goes,
         queueVars, logVars
<1>4. CASE QueueEvent
  <2>1. storeQueue # <<>> =>
          storeQueue' # <<>> /\ Head(storeQueue') = Head(storeQueue)
    <3>0. accepted \in Nat /\ storeQueue \in Seq(Nat)
      BY DEF TypeOK
    <3>1. storeQueue' = storeQueue \o <<accepted>> /\ <<accepted>> \in Seq(Nat)
      BY <1>4, <3>0, AppendBehind DEF QueueEvent
    <3> QED
      BY <3>1, HeadTailOfConcat DEF TypeOK
  <2>2. OneFlusher' /\ NoOvertaking'
    BY <1>0, <1>4 DEF QueueInv, OneFlusher, NoOvertaking, TypeOK, QueueEvent, Goes
  <2>3. FlushesHead'
    BY <1>0, <1>4, <2>1 DEF QueueInv, OneFlusher, FlushesHead, TypeOK, QueueEvent, Goes
  <2> QED
    BY <2>2, <2>3 DEF QueueInv
<1> QED
  BY <1>1, <1>2, <1>3, <1>4 DEF LocalSteps

\* A thread that gives up flush_mutex.
LEMMA LeaveKeepsQueue ==
  ASSUME TypeOK, QueueInv, NEW th \in Threads, flushLock = th, Leave(th),
         UNCHANGED <<storeQueue, accepted>>,
         \A other \in Threads \ {th} : item'[other] = item[other]
  PROVE  QueueInv'
<1>0. "local" \in Threads /\ "free" \notin Threads
  BY DEF Threads
<1>1. \A other \in Threads \ {th} : pc'[other] = pc[other]
  BY DEF Leave, Goes, TypeOK
<1>2. pc'[th] = IF th = "local" THEN "recheck" ELSE "idle"
  BY DEF Leave, Goes, TypeOK
<1>3. flushLock' = "free"
  BY DEF Leave
<1>4. OneFlusher'
  BY <1>0, <1>1, <1>2, <1>3 DEF QueueInv, OneFlusher
<1>5. FlushesHead'
  BY <1>0, <1>3 DEF FlushesHead
<1>6. NoOvertaking'
  BY <1>0, <1>1, <1>2, <1>3 DEF QueueInv, NoOvertaking
<1> QED
  BY <1>4, <1>5, <1>6 DEF QueueInv

\* The steps of a flush keep the discipline of the queue.
LEMMA FlushStepKeepsQueue ==
  ASSUME TypeOK, QueueInv, NEW th \in Threads, Lock(th) \/ FlushSteps(th)
  PROVE  QueueInv'
<1>0. "local" \in Threads /\ "free" \notin Threads
  BY DEF Threads
<1>1. CASE Lock(th)
  BY <1>0, <1>1
     DEF QueueInv, OneFlusher, FlushesHead, NoOvertaking, TypeOK, Lock, Goes, logVars
<1>2. CASE Peek(th)
  <2>1. CASE storeQueue = <<>>
    <3>1. flushLock = th
      BY <1>2 DEF Peek, QueueInv, OneFlusher
    <3> QED
      BY <1>2, <2>1, <3>1, LeaveKeepsQueue DEF Peek, logVars
  <2>2. CASE storeQueue # <<>>
    BY <1>0, <1>2, <2>2
       DEF QueueInv, OneFlusher, FlushesHead, NoOvertaking, TypeOK, Peek, Goes, logVars
  <2> QED
    BY <2>1, <2>2
<1>3. CASE Pop(th)
  BY <1>0, <1>3
     DEF QueueInv, OneFlusher, FlushesHead, NoOvertaking, TypeOK, Pop, Forget, Goes, logVars
<1>4. CASE ChooseRoute(th)
  BY <1>0, <1>4
     DEF QueueInv, OneFlusher, FlushesHead, NoOvertaking, TypeOK, ChooseRoute, Goes,
         queueVars, logVars
<1>5. CASE Send(th)
  <2>1. CASE flushLock = th
    <3>1. /\ pc[th] = "try" /\ DOMAIN pc = Threads
          /\ pc' = [pc EXCEPT ![th] = "pop"] /\ item' = item
          /\ storeQueue' = storeQueue /\ flushLock' = flushLock /\ accepted' = accepted
      BY <1>5, <2>1 DEF TypeOK, Send, Goes, queueVars
    <3>2. OneFlusher'
      BY <2>1, <3>1 DEF QueueInv, OneFlusher
    <3>3. FlushesHead'
      BY <2>1, <3>1 DEF QueueInv, FlushesHead
    <3>4. NoOvertaking'
      BY <1>0, <2>1, <3>1 DEF QueueInv, NoOvertaking
    <3> QED
      BY <3>2, <3>3, <3>4 DEF QueueInv
  <2>2. CASE flushLock # th
    BY <1>0, <1>5, <2>2
       DEF QueueInv, OneFlusher, FlushesHead, NoOvertaking, TypeOK, Send, Goes, Forget, queueVars
  <2> QED
    BY <2>1, <2>2
<1>6. CASE TryNext(th)
  BY <1>0, <1>6
     DEF QueueInv, OneFlusher, FlushesHead, NoOvertaking, TypeOK, TryNext, queueVars
<1>7. CASE GiveUp(th)
  <2>1. CASE flushLock = th
    BY <1>7, <2>1, LeaveKeepsQueue DEF GiveUp, Forget, TypeOK, logVars
  <2>2. CASE flushLock # th
    BY <1>0, <1>7, <2>2
       DEF QueueInv, OneFlusher, FlushesHead, NoOvertaking, TypeOK, GiveUp, Forget, Goes, logVars
  <2> QED
    BY <2>1, <2>2
<1> QED
  BY <1>1, <1>2, <1>3, <1>4, <1>5, <1>6, <1>7 DEF FlushSteps

\* What the callbacks, the main loop and the network leave alone.
LEMMA OtherSteps ==
  ASSUME TypeOK,
         \/ MainFlush \/ HostLost
         \/ \E c \in Clients : \/ Callbacks(c) \/ Arrive(c)
                               \/ CoreWill(c) \/ CoreSwitch(c) \/ LinkBreaks(c)
  PROVE  /\ UNCHANGED <<storeQueue, flushLock, item, accepted, handed>>
         /\ \/ UNCHANGED pc
            \/ \E th \in Threads \ {"local"} : pc[th] = "idle" /\ Goes(th, "lock")
<1>0. Clients \subseteq Threads \ {"local"} /\ "main" \in Threads \ {"local"}
  BY DEF Clients, Threads
<1>1. CASE MainFlush
  BY <1>0, <1>1 DEF MainFlush, queueVars, logVars
<1>2. CASE HostLost
  BY <1>2 DEF HostLost, threadVars, queueVars, logVars
<1>3. ASSUME NEW c \in Clients, Callbacks(c) \/ Arrive(c)
      PROVE  /\ UNCHANGED <<storeQueue, flushLock, item, accepted, handed>>
             /\ UNCHANGED pc \/ (pc[c] = "idle" /\ Goes(c, "lock"))
  BY <1>3 DEF Callbacks, OnConnect, OnDisconnect, Arrive, threadVars, queueVars, logVars
<1>4. ASSUME NEW c \in Clients, CoreWill(c) \/ CoreSwitch(c) \/ LinkBreaks(c)
      PROVE  /\ UNCHANGED <<storeQueue, flushLock, item, accepted, handed>>
             /\ UNCHANGED pc \/ (pc[c] = "idle" /\ Goes(c, "lock"))
  BY <1>4 DEF CoreWill, CoreSwitch, LinkBreaks, threadVars, queueVars, logVars
<1> QED
  BY <1>0, <1>1, <1>2, <1>3, <1>4

\* So do these.
LEMMA OtherStepKeepsQueue ==
  ASSUME TypeOK, QueueInv,
         \/ MainFlush \/ HostLost
         \/ \E c \in Clients : \/ Callbacks(c) \/ Arrive(c)
                               \/ CoreWill(c) \/ CoreSwitch(c) \/ LinkBreaks(c)
  PROVE  QueueInv'
<1>1. UNCHANGED <<storeQueue, flushLock, item, accepted, handed>>
  BY OtherSteps
<1>2. CASE UNCHANGED pc
  BY <1>1, <1>2 DEF QueueInv, OneFlusher, FlushesHead, NoOvertaking
<1>3. ASSUME NEW th \in Threads \ {"local"}, pc[th] = "idle", Goes(th, "lock")
      PROVE  QueueInv'
  BY <1>1, <1>3 DEF QueueInv, OneFlusher, FlushesHead, NoOvertaking, TypeOK, Goes
<1> QED
  BY <1>2, <1>3, OtherSteps

\* Initially nobody flushes; every step keeps the discipline.
LEMMA QueueDiscipline == Spec => [](TypeOK /\ QueueInv)
<1>1. Init => QueueInv
  BY DEF Init, QueueInv, OneFlusher, FlushesHead, NoOvertaking, Threads
<1>2. TypeOK /\ QueueInv /\ [Next]_vars => QueueInv'
  <2> SUFFICES ASSUME TypeOK, QueueInv, [Next]_vars PROVE QueueInv'
    OBVIOUS
  <2>1. CASE Next
    BY <2>1, LocalStepKeepsQueue, FlushStepKeepsQueue, OtherStepKeepsQueue DEF Next
  <2>2. CASE UNCHANGED vars
    BY <2>2 DEF vars, threadVars, queueVars, logVars,
                QueueInv, OneFlusher, FlushesHead, NoOvertaking
  <2> QED
    BY <2>1, <2>2
<1> QED
  BY <1>1, <1>2, EdgeTypes, PTL DEF Spec

(***************************************************************************)
(* Refinement                                                              *)
(***************************************************************************)

\* The two parts of Waiting: in the queue, and in the hand of the local thread.
Queued == IF Sent THEN Tail(storeQueue) ELSE storeQueue
InHand == IF pc["local"] = "idle" THEN <<>> ELSE <<accepted>>

\* Whether the first event was sent is up to the holder of flush_mutex.
LEMMA FlusherSends ==
  ASSUME QueueInv
  PROVE  /\ Sent => flushLock \in Threads /\ pc[flushLock] = "pop"
         /\ \A th \in Threads : pc[th] = "pop" => Sent
BY DEF Sent, QueueInv, OneFlusher

\* Parts and whole.
LEMMA WaitingParts ==
  ASSUME TypeOK, QueueInv
  PROVE  /\ Queued \in Seq(Nat) /\ InHand \in Seq(Nat)
         /\ Waiting = Queued \o InHand
<1>1. Sent => storeQueue # <<>>
  BY FlusherSends DEF QueueInv, FlushesHead
<1>2. Queued \in Seq(Nat)
  BY <1>1, HeadTailProperties DEF Queued, TypeOK
<1>3. InHand \in Seq(Nat)
  <2>1. <<>> \in Seq(Nat)
    BY EmptySeq
  <2>2. accepted \in Nat
    BY DEF TypeOK
  <2>3. <<accepted>> \in Seq(Nat)
    BY <2>2
  <2> QED
    BY <2>1, <2>3 DEF InHand
<1> QED
  BY <1>2, <1>3 DEF Waiting, Queued, InHand

\* Steps that the promise does not see.
LEMMA Stutters ==
  ASSUME UNCHANGED <<storeQueue, accepted, handed>>,
         Sent' <=> Sent,
         (pc["local"] = "idle")' <=> (pc["local"] = "idle")
  PROVE  UNCHANGED <<accepted, Waiting, handed>>
<1>1. (IF Sent THEN Tail(storeQueue) ELSE storeQueue)'
        = (IF Sent THEN Tail(storeQueue) ELSE storeQueue)
  OBVIOUS
<1>2. (IF pc["local"] = "idle" THEN <<>> ELSE <<accepted>>)'
        = (IF pc["local"] = "idle" THEN <<>> ELSE <<accepted>>)
  OBVIOUS
<1> QED
  BY <1>1, <1>2 DEF Waiting

\* A step that moves one thread, not to and not from the place before a pop.
LEMMA SentStays ==
  ASSUME TypeOK, NEW th \in Threads, NEW place \in Places \ {"pop"},
         pc[th] # "pop", Goes(th, place)
  PROVE  /\ Sent' <=> Sent
         /\ th # "local" \/ (pc["local"] # "idle" /\ place # "idle") =>
              ((pc["local"] = "idle")' <=> (pc["local"] = "idle"))
<1>1. pc' = [pc EXCEPT ![th] = place] /\ pc \in [Threads -> Places]
  BY DEF Goes, TypeOK, Places
<1>2. pc'[th] = place /\ \A other \in Threads \ {th} : pc'[other] = pc[other]
  BY <1>1
<1>3. Sent' <=> Sent
  BY <1>2 DEF Sent
<1>4. ASSUME th # "local" \/ (pc["local"] # "idle" /\ place # "idle")
      PROVE  (pc["local"] = "idle")' <=> (pc["local"] = "idle")
  <2>1. "local" \in Threads
    BY DEF Threads
  <2> QED
    BY <1>2, <1>4, <2>1
<1> QED
  BY <1>3, <1>4

\* What the promise does not see.
Stutter == UNCHANGED <<accepted, Waiting, handed>>

\* A new event is accepted behind those that wait.
LEMMA LocalEventAccepts ==
  ASSUME TypeOK, QueueInv, QueueInv', TypeOK', LocalEvent
  PROVE  Promise!Accept
<1>0. "local" \in Threads /\ pc["local"] = "idle" /\ pc'["local"] = "check"
  BY DEF Threads, LocalEvent, Goes, TypeOK
<1>1. Sent' <=> Sent
  <2>1. pc["local"] # "pop" /\ Goes("local", "check") /\ "check" \in Places \ {"pop"}
    BY DEF LocalEvent, Places
  <2> QED
    BY <1>0, <2>1, SentStays
<1>2. Queued' = Queued
  BY <1>1 DEF Queued, LocalEvent, queueVars
<1>3. InHand = <<>> /\ InHand' = <<accepted + 1>>
  BY <1>0 DEF InHand, LocalEvent
<1>4. Waiting = Queued /\ Waiting' = Queued \o <<accepted + 1>>
  BY <1>2, <1>3, WaitingParts, ConcatEmptySeq DEF Waiting, Queued, InHand
<1>5. Waiting' = Append(Waiting, accepted + 1)
  <2>1. accepted + 1 \in Nat /\ Queued \in Seq(Nat)
    BY WaitingParts DEF TypeOK
  <2> QED
    BY <1>4, <2>1, AppendBehind
<1> QED
  BY <1>5 DEF Promise!Accept, LocalEvent

\* Storing an event moves it from the hand to the end of the queue.
LEMMA QueueEventStutters ==
  ASSUME TypeOK, QueueInv, TypeOK', QueueInv', QueueEvent
  PROVE  Stutter
<1>0. /\ "local" \in Threads /\ pc["local"] = "store" /\ pc'["local"] = "idle"
      /\ accepted \in Nat /\ storeQueue \in Seq(Nat)
      /\ storeQueue' = Append(storeQueue, accepted)
      /\ accepted' = accepted /\ handed' = handed
  BY DEF Threads, QueueEvent, Goes, TypeOK, logVars
<1>1. Sent' <=> Sent
  BY DEF QueueEvent, Goes, Sent, TypeOK
<1>2. InHand = <<accepted>> /\ InHand' = <<>>
  BY <1>0 DEF InHand
<1>3. Sent => storeQueue # <<>>
  BY FlusherSends DEF QueueInv, FlushesHead
<1>4. Queued' = Queued \o <<accepted>>
  <2>1. CASE Sent
    BY <1>0, <1>1, <1>3, <2>1, AppendBehind DEF Queued
  <2>2. CASE ~ Sent
    BY <1>0, <1>1, <2>2, AppendBehind DEF Queued
  <2> QED
    BY <2>1, <2>2
<1>5. Waiting' = Queued'
  <2>1. Waiting' = Queued' \o InHand'
    BY DEF Waiting, Queued, InHand
  <2>2. Queued' \in Seq(Nat)
    <3>1. <<accepted>> \in Seq(Nat) /\ Queued \in Seq(Nat)
      BY <1>0, WaitingParts
    <3> QED
      BY <1>4, <3>1, ConcatProperties
  <2> QED
    BY <1>2, <2>1, <2>2, ConcatEmptySeq
<1>6. Waiting = Queued \o <<accepted>>
  BY <1>2, WaitingParts
<1> QED
  BY <1>0, <1>4, <1>5, <1>6 DEF Stutter

\* The local thread only looks whether events are pending.
LEMMA LooksStutter ==
  ASSUME TypeOK, CheckPending \/ RecheckPending
  PROVE  Stutter
<1>1. \E place \in {"lock", "route", "store"} :
        pc["local"] \in {"check", "recheck"} /\ Goes("local", place)
  BY DEF CheckPending, RecheckPending
<1>2. UNCHANGED <<storeQueue, accepted, handed>>
  BY DEF CheckPending, RecheckPending, queueVars, logVars
<1>3. (Sent' <=> Sent) /\ ((pc["local"] = "idle")' <=> (pc["local"] = "idle"))
  BY <1>1, SentStays DEF Places, Threads
<1> QED
  BY <1>2, <1>3, Stutters DEF Stutter

\* The event that is popped was sent before.
LEMMA PopStutters ==
  ASSUME TypeOK, QueueInv, NEW th \in Threads, Pop(th)
  PROVE  Stutter
<1>1. flushLock = th /\ pc[th] = "pop" /\ pc' = [pc EXCEPT ![th] = "peek"]
  BY DEF Pop, Goes, QueueInv, OneFlusher
<1>2. storeQueue # <<>> /\ Head(storeQueue) = item[th]
  BY <1>1 DEF QueueInv, FlushesHead
<1>3. Sent
  BY <1>1, FlusherSends
<1>4. ~ Sent'
  BY <1>1 DEF Sent, QueueInv, OneFlusher, TypeOK
<1>5. Queued' = Queued
  BY <1>2, <1>3, <1>4 DEF Queued, Pop
<1>6. (pc["local"] = "idle")' <=> (pc["local"] = "idle")
  BY <1>1 DEF TypeOK
<1>7. accepted' = accepted /\ handed' = handed
  BY DEF Pop, logVars
<1>8. InHand' = InHand
  BY <1>6, <1>7 DEF InHand
<1> QED
  BY <1>5, <1>7, <1>8 DEF Stutter, Waiting, Queued, InHand

\* The other steps of a flush, and of an attempt to send.
LEMMA FlushStutters ==
  ASSUME TypeOK, QueueInv, NEW th \in Threads,
         Lock(th) \/ Peek(th) \/ ChooseRoute(th) \/ TryNext(th) \/ GiveUp(th)
  PROVE  Stutter
<1>1. UNCHANGED <<storeQueue, accepted, handed>>
  BY DEF Lock, Peek, ChooseRoute, TryNext, GiveUp, queueVars, logVars
<1>2. CASE TryNext(th)
  <2>1. pc' = pc
    BY <1>2 DEF TryNext
  <2> QED
    BY <1>1, <2>1, Stutters DEF Stutter, Sent
<1>3. CASE Lock(th) \/ Peek(th) \/ ChooseRoute(th) \/ GiveUp(th)
  <2>1. pc[th] \in {"lock", "peek", "route", "try"}
    BY <1>3 DEF Lock, Peek, ChooseRoute, GiveUp
  <2>2. \E place \in {"peek", "route", "try", "recheck", "store", "idle"} :
          Goes(th, place) /\ (place = "idle" => th # "local")
    <3>1. ASSUME Lock(th) \/ ChooseRoute(th)
          PROVE  Goes(th, "peek") \/ Goes(th, "try")
      BY <3>1 DEF Lock, ChooseRoute
    <3>2. ASSUME Peek(th) \/ GiveUp(th)
          PROVE  Leave(th) \/ Goes(th, "route") \/ Goes(th, "store")
      BY <3>2 DEF Peek, GiveUp
    <3>3. ASSUME Leave(th)
          PROVE  Goes(th, "recheck") \/ (Goes(th, "idle") /\ th # "local")
      BY <3>3 DEF Leave
    <3> QED
      BY <1>3, <3>1, <3>2, <3>3
  <2>3. (Sent' <=> Sent) /\ ((pc["local"] = "idle")' <=> (pc["local"] = "idle"))
    BY <2>1, <2>2, SentStays DEF Places
  <2> QED
    BY <1>1, <2>3, Stutters DEF Stutter
<1> QED
  BY <1>2, <1>3

\* What is sent is the oldest of the events that wait.
LEMMA SendForwards ==
  ASSUME TypeOK, QueueInv, NEW th \in Threads, Send(th)
  PROVE  Promise!Forward
<1>0. /\ "local" \in Threads /\ pc[th] = "try"
      /\ storeQueue' = storeQueue /\ accepted' = accepted
      /\ handed' = Append(handed, item[th])
  BY DEF Threads, Send, queueVars
<1>1. CASE flushLock = th
  <2>1. pc' = [pc EXCEPT ![th] = "pop"]
    BY <1>1 DEF Send, Goes
  <2>2. storeQueue # <<>> /\ Head(storeQueue) = item[th]
    BY <1>0, <1>1 DEF QueueInv, FlushesHead
  <2>3. ~ Sent /\ Sent'
    <3>1. ~ Sent
      BY <1>0, <1>1, FlusherSends
    <3>2. Sent'
      BY <2>1 DEF Sent, TypeOK
    <3> QED
      BY <3>1, <3>2
  <2>4. Queued = storeQueue /\ Queued' = Tail(storeQueue)
    BY <1>0, <2>3 DEF Queued
  <2>5. InHand' = InHand
    BY <1>0, <2>1 DEF InHand, TypeOK
  <2>6. /\ Waiting # <<>> /\ Head(Waiting) = item[th]
        /\ Tail(Waiting) = Tail(storeQueue) \o InHand
    <3>1. PICK q \in Seq(Nat), h \in Seq(Nat) : q = Queued /\ h = InHand /\ Waiting = q \o h
      BY WaitingParts
    <3>2. q \o h # <<>> /\ Head(q \o h) = Head(q) /\ Tail(q \o h) = Tail(q) \o h
      BY <2>2, <2>4, <3>1, HeadTailOfConcat
    <3> QED
      BY <2>2, <2>4, <3>1, <3>2
  <2>7. Waiting' = Tail(storeQueue) \o InHand
    BY <2>4, <2>5 DEF Waiting, Queued, InHand
  <2> QED
    BY <1>0, <2>6, <2>7 DEF Promise!Forward
<1>2. CASE flushLock # th
  <2>1. th = "local" /\ pc' = [pc EXCEPT ![th] = "idle"]
    BY <1>0, <1>2 DEF Send, Goes, QueueInv, OneFlusher
  <2>2. storeQueue = <<>> /\ item[th] = accepted
    BY <1>0, <1>2, <2>1 DEF QueueInv, NoOvertaking
  <2>3. ~ Sent
    BY <2>2, FlusherSends DEF QueueInv, FlushesHead
  <2>4. ~ Sent'
    BY <2>1, <2>3 DEF Sent, TypeOK
  <2>5. Queued = <<>> /\ Queued' = <<>>
    BY <1>0, <2>2, <2>3, <2>4 DEF Queued
  <2>6. InHand = <<accepted>> /\ InHand' = <<>>
    BY <1>0, <2>1 DEF InHand, TypeOK
  <2>7. Waiting = <<accepted>>
    BY <2>5, <2>6, WaitingParts, ConcatEmptySeq
  <2>8. Waiting' = <<>>
    <3>1. Waiting' = <<>> \o <<>>
      BY <2>5, <2>6 DEF Waiting, Queued, InHand
    <3> QED
      BY <3>1
  <2>9. Waiting # <<>> /\ Head(Waiting) = item[th] /\ Tail(Waiting) = <<>>
    BY <2>2, <2>7
  <2> QED
    BY <1>0, <2>8, <2>9 DEF Promise!Forward
<1> QED
  BY <1>1, <1>2

\* The other threads' callbacks and the network forward nothing.
LEMMA OthersStutter ==
  ASSUME TypeOK,
         \/ MainFlush \/ HostLost
         \/ \E c \in Clients : \/ Callbacks(c) \/ Arrive(c)
                               \/ CoreWill(c) \/ CoreSwitch(c) \/ LinkBreaks(c)
  PROVE  Stutter
<1>1. UNCHANGED <<storeQueue, accepted, handed>>
  BY OtherSteps
<1>2. CASE UNCHANGED pc
  BY <1>1, <1>2, Stutters DEF Stutter, Sent
<1>3. ASSUME NEW th \in Threads \ {"local"}, pc[th] = "idle", Goes(th, "lock")
      PROVE  Stutter
  <2>1. (Sent' <=> Sent) /\ ((pc["local"] = "idle")' <=> (pc["local"] = "idle"))
    BY <1>3, SentStays DEF Places
  <2> QED
    BY <1>1, <2>1, Stutters DEF Stutter
<1> QED
  BY <1>2, <1>3, OtherSteps

\* The four threads of the edge keep its promise: events leave the queue for a
\* connection in the order in which they came, each once and none skipped
\* (flush_store_queue, handle_local_event_delivery, queue_event).
THEOREM Implements == Spec => ForwardsInOrder
<1>1. Init => Promise!Init
  <2> SUFFICES ASSUME Init PROVE Promise!Init
    OBVIOUS
  <2>1. ~ Sent /\ storeQueue = <<>> /\ pc["local"] = "idle"
    BY DEF Init, Sent, Threads
  <2>2. Waiting = <<>> \o <<>>
    BY <2>1 DEF Waiting
  <2>3. Waiting = <<>>
    BY <2>2
  <2> QED
    BY <2>3 DEF Init, Promise!Init
<1>2. TypeOK /\ TypeOK' /\ QueueInv /\ QueueInv' /\ [Next]_vars
        => [Promise!Next]_<<accepted, Waiting, handed>>
  <2> SUFFICES ASSUME TypeOK, TypeOK', QueueInv, QueueInv', [Next]_vars
               PROVE  Promise!Accept \/ Promise!Forward \/ Stutter
    BY DEF Promise!Next, Stutter
  <2>1. CASE LocalEvent \/ LocalSteps
    BY <2>1, LocalEventAccepts, LooksStutter, QueueEventStutters DEF LocalSteps
  <2>2. ASSUME NEW th \in Threads, Lock(th) \/ FlushSteps(th)
        PROVE  Promise!Forward \/ Stutter
    BY <2>2, PopStutters, FlushStutters, SendForwards DEF FlushSteps
  <2>3. CASE \/ MainFlush \/ HostLost
             \/ \E c \in Clients : \/ Callbacks(c) \/ Arrive(c)
                                   \/ CoreWill(c) \/ CoreSwitch(c) \/ LinkBreaks(c)
    BY <2>3, OthersStutter
  <2>4. CASE UNCHANGED vars
    <3>1. UNCHANGED <<storeQueue, pc, accepted, handed>>
      BY <2>4 DEF vars, threadVars, queueVars, logVars
    <3> QED
      BY <3>1, Stutters DEF Stutter, Sent
  <2> QED
    BY <2>1, <2>2, <2>3, <2>4 DEF Next
<1> QED
  BY <1>1, <1>2, QueueDiscipline, PTL DEF Spec, ForwardsInOrder, Promise!Spec
=============================================================================
