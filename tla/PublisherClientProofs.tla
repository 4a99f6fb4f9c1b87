------------------------ MODULE PublisherClientProofs ------------------------
(***************************************************************************)
(* The publisher neither forgets an event nor holds it twice nor stops     *)
(* trying, and its refs hold what the code that reads them expects, for    *)
(* any brokers, tables, links, bounds and queue lengths.                   *)
(*                                                                         *)
(* The first part does not look at which broker a table makes the client   *)
(* choose: it uses of AttemptFailover only that it dials something, sets   *)
(* the retry or gives up after a click.  The second part (The choice of a  *)
(* broker) shows that what is chosen is a row of the table.                *)
(***************************************************************************)
EXTENDS PublisherClient, WellFoundedInduction, TLAPS

(***************************************************************************)
(* Sequences without repetition                                            *)
(***************************************************************************)

Once(q) == \A i, j \in DOMAIN q : i # j => q[i] # q[j]

\* The empty sequence and its elements.
LEMMA EmptyOnce == Once(<<>>) /\ ToSet(<<>>) = {} /\ \A S : <<>> \in Seq(S)
  BY DEF Once, ToSet

\* The lengths of a concatenation and of what Enqueue shifts out.
LEMMA ConcatLen ==
  ASSUME NEW S, NEW p \in Seq(S), NEW q \in Seq(S)
  PROVE  Len(p) \in Nat /\ Len(q) \in Nat /\ Len(p \o q) = Len(p) + Len(q)
  OBVIOUS

LEMMA CutBound ==
  ASSUME NEW a \in Nat, NEW b \in Nat, NEW m \in Nat
  PROVE  (a + b) - (IF a >= m THEN a ELSE IF a + b <= m THEN a + b ELSE m) \in 0..(a + b)
  OBVIOUS

\* Two sequences that share nothing make one without repetition.
LEMMA ConcatOnce ==
  ASSUME NEW S, NEW p \in Seq(S), NEW q \in Seq(S), Once(p), Once(q),
         ToSet(p) \cap ToSet(q) = {}
  PROVE  /\ p \o q \in Seq(S)
         /\ Once(p \o q)
         /\ ToSet(p \o q) = ToSet(p) \cup ToSet(q)
<1>1. /\ p \o q \in Seq(S)
      /\ Len(p \o q) = Len(p) + Len(q)
      /\ Len(p) \in Nat /\ Len(q) \in Nat
      /\ DOMAIN p = 1..Len(p) /\ DOMAIN q = 1..Len(q)
      /\ DOMAIN (p \o q) = 1..(Len(p) + Len(q))
  OBVIOUS
<1>2. /\ \A i \in 1..Len(p) : (p \o q)[i] = p[i]
      /\ \A i \in 1..(Len(p) + Len(q)) : i > Len(p) => (p \o q)[i] = q[i - Len(p)]
  BY <1>1
<1>3. Once(p \o q)
  <2>1. SUFFICES ASSUME NEW i \in 1..(Len(p) + Len(q)), NEW j \in 1..(Len(p) + Len(q)), i # j
                 PROVE  (p \o q)[i] # (p \o q)[j]
    BY <1>1 DEF Once
  <2>2. CASE i <= Len(p) /\ j <= Len(p)
    <3>1. i \in DOMAIN p /\ j \in DOMAIN p /\ (p \o q)[i] = p[i] /\ (p \o q)[j] = p[j]
      BY <1>1, <1>2, <2>2
    <3> QED
      BY <3>1, <2>1 DEF Once
  <2>3. CASE i > Len(p) /\ j > Len(p)
    <3>1. i - Len(p) \in DOMAIN q /\ j - Len(p) \in DOMAIN q /\ i - Len(p) # j - Len(p)
      BY <1>1, <2>3, <2>1
    <3> QED
      BY <3>1, <1>2, <2>3 DEF Once
  <2>4. CASE i <= Len(p) /\ j > Len(p)
    <3>1. i \in DOMAIN p /\ j - Len(p) \in DOMAIN q
      BY <1>1, <2>4
    <3> QED
      BY <3>1, <1>1, <1>2, <2>4 DEF ToSet
  <2>5. CASE i > Len(p) /\ j <= Len(p)
    <3>1. j \in DOMAIN p /\ i - Len(p) \in DOMAIN q
      BY <1>1, <2>5
    <3> QED
      BY <3>1, <1>1, <1>2, <2>5 DEF ToSet
  <2> QED
    BY <2>2, <2>3, <2>4, <2>5, <1>1
<1>4. ToSet(p \o q) = ToSet(p) \cup ToSet(q)
  <2>1. ASSUME NEW x \in ToSet(p \o q) PROVE x \in ToSet(p) \cup ToSet(q)
    <3>1. PICK i \in 1..(Len(p) + Len(q)) : x = (p \o q)[i]
      BY <1>1, <2>1 DEF ToSet
    <3>2. CASE i <= Len(p)
      BY <3>1, <3>2, <1>1, <1>2 DEF ToSet
    <3>3. CASE i > Len(p)
      <4>1. i - Len(p) \in DOMAIN q /\ x = q[i - Len(p)]
        BY <3>1, <3>3, <1>1, <1>2
      <4> QED
        BY <4>1 DEF ToSet
    <3> QED
      BY <3>2, <3>3, <1>1
  <2>2. ASSUME NEW x \in ToSet(p) PROVE x \in ToSet(p \o q)
    <3>1. PICK i \in DOMAIN p : x = p[i]
      BY <2>2 DEF ToSet
    <3>2. i \in 1..(Len(p) + Len(q)) /\ (p \o q)[i] = x
      BY <3>1, <1>1, <1>2
    <3> QED
      BY <3>2, <1>1 DEF ToSet
  <2>3. ASSUME NEW x \in ToSet(q) PROVE x \in ToSet(p \o q)
    <3>1. PICK i \in DOMAIN q : x = q[i]
      BY <2>3 DEF ToSet
    <3>2. i + Len(p) \in 1..(Len(p) + Len(q)) /\ i + Len(p) > Len(p) /\ (i + Len(p)) - Len(p) = i
      BY <3>1, <1>1
    <3>3. (p \o q)[i + Len(p)] = x
      BY <3>1, <3>2, <1>2
    <3> QED
      BY <3>2, <3>3, <1>1 DEF ToSet
  <2> QED
    BY <2>1, <2>2, <2>3
<1> QED
  BY <1>1, <1>3, <1>4

\* An element that is not there is appended.
LEMMA AppendOnce ==
  ASSUME NEW S, NEW q \in Seq(S), Once(q), NEW e \in S, e \notin ToSet(q)
  PROVE  Append(q, e) \in Seq(S) /\ Once(Append(q, e)) /\ ToSet(Append(q, e)) = ToSet(q) \cup {e}
<1> DEFINE w == <<e>>
<1>1. w \in Seq(S) /\ DOMAIN w = {1} /\ w[1] = e /\ Append(q, e) = q \o w
  OBVIOUS
<1> HIDE DEF w
<1>2. Once(w) /\ ToSet(w) = {e}
  BY <1>1 DEF Once, ToSet
<1>3. ToSet(q) \cap ToSet(w) = {}
  BY <1>2
<1>4. q \o w \in Seq(S) /\ Once(q \o w) /\ ToSet(q \o w) = ToSet(q) \cup ToSet(w)
  BY <1>1, <1>2, <1>3, ConcatOnce
<1> QED
  BY <1>1, <1>2, <1>4

\* A sequence over a set is one over a wider set.
LEMMA WiderOnce ==
  ASSUME NEW S, NEW q \in Seq(S), NEW e
  PROVE  q \in Seq(S \cup {e}) /\ (e \notin S => e \notin ToSet(q))
<1>1. Len(q) \in Nat /\ DOMAIN q = 1..Len(q) /\ \A i \in 1..Len(q) : q[i] \in S
  OBVIOUS
<1>2. q = [i \in 1..Len(q) |-> q[i]]
  OBVIOUS
<1>3. [i \in 1..Len(q) |-> q[i]] \in Seq(S \cup {e})
  BY <1>1
<1> QED
  BY <1>1, <1>2, <1>3 DEF ToSet

\* Reverse changes the order only.
LEMMA ReverseOnce ==
  ASSUME NEW S, NEW q \in Seq(S), Once(q)
  PROVE  Reverse(q) \in Seq(S) /\ Once(Reverse(q)) /\ ToSet(Reverse(q)) = ToSet(q)
<1>1. /\ Len(q) \in Nat /\ DOMAIN q = 1..Len(q) /\ DOMAIN Reverse(q) = 1..Len(q)
      /\ \A i \in 1..Len(q) : (Len(q) - i) + 1 \in 1..Len(q) /\ Reverse(q)[i] = q[(Len(q) - i) + 1]
  BY DEF Reverse
<1>2. Reverse(q) \in Seq(S)
  <2>1. \A i \in 1..Len(q) : q[(Len(q) - i) + 1] \in S
    BY <1>1
  <2> QED
    BY <1>1, <2>1 DEF Reverse
<1>3. Once(Reverse(q))
  <2>1. SUFFICES ASSUME NEW i \in 1..Len(q), NEW j \in 1..Len(q), i # j
                 PROVE  Reverse(q)[i] # Reverse(q)[j]
    BY <1>1 DEF Once
  <2>2. (Len(q) - i) + 1 # (Len(q) - j) + 1
    BY <2>1, <1>1
  <2> QED
    BY <2>2, <1>1 DEF Once
<1>4. ToSet(Reverse(q)) = ToSet(q)
  <2>1. ASSUME NEW x \in ToSet(q) PROVE x \in ToSet(Reverse(q))
    <3>1. PICK i \in 1..Len(q) : x = q[i]
      BY <2>1, <1>1 DEF ToSet
    <3>2. (Len(q) - ((Len(q) - i) + 1)) + 1 = i
      BY <1>1
    <3>3. Reverse(q)[(Len(q) - i) + 1] = x
      BY <3>1, <3>2, <1>1
    <3> QED
      BY <3>3, <1>1 DEF ToSet
  <2>2. ASSUME NEW x \in ToSet(Reverse(q)) PROVE x \in ToSet(q)
    <3>1. PICK i \in 1..Len(q) : x = Reverse(q)[i]
      BY <2>2, <1>1 DEF ToSet
    <3> QED
      BY <3>1, <1>1 DEF ToSet
  <2> QED
    BY <2>1, <2>2
<1> QED
  BY <1>2, <1>3, <1>4

\* A sequence cut in two keeps its elements.
LEMMA CutOnce ==
  ASSUME NEW S, NEW q \in Seq(S), Once(q), NEW cut \in 0..Len(q)
  PROVE  /\ SubSeq(q, cut + 1, Len(q)) \in Seq(S)
         /\ Once(SubSeq(q, cut + 1, Len(q)))
         /\ ToSet(SubSeq(q, cut + 1, Len(q))) \subseteq ToSet(q)
         /\ ToSet(q) \subseteq ToSet(SubSeq(q, 1, cut)) \cup ToSet(SubSeq(q, cut + 1, Len(q)))
         /\ ToSet(SubSeq(q, 1, cut)) \subseteq ToSet(q)
<1> DEFINE front == SubSeq(q, 1, cut)
           back  == SubSeq(q, cut + 1, Len(q))
<1>1. /\ Len(q) \in Nat /\ cut \in Nat /\ DOMAIN q = 1..Len(q)
      /\ DOMAIN front = 1..cut /\ DOMAIN back = 1..(Len(q) - cut)
      /\ \A i \in 1..cut : i \in DOMAIN q /\ front[i] = q[i]
      /\ \A i \in 1..(Len(q) - cut) : cut + i \in DOMAIN q /\ back[i] = q[cut + i]
      /\ back \in Seq(S)
  OBVIOUS
<1> HIDE DEF front, back
<1>2. Once(back)
  <2>1. SUFFICES ASSUME NEW i \in 1..(Len(q) - cut), NEW j \in 1..(Len(q) - cut), i # j
                 PROVE  back[i] # back[j]
    BY <1>1 DEF Once
  <2>2. cut + i # cut + j
    BY <2>1, <1>1
  <2>3. /\ cut + i \in DOMAIN q /\ back[i] = q[cut + i]
        /\ cut + j \in DOMAIN q /\ back[j] = q[cut + j]
    BY <2>1, <1>1
  <2>4. q[cut + i] # q[cut + j]
    BY <2>2, <2>3, Zenon DEF Once
  <2> QED
    BY <2>3, <2>4
<1>3. ToSet(back) \subseteq ToSet(q) /\ ToSet(front) \subseteq ToSet(q)
  BY <1>1 DEF ToSet
<1>4. ASSUME NEW x \in ToSet(q) PROVE x \in ToSet(front) \cup ToSet(back)
  <2>1. PICK i \in 1..Len(q) : x = q[i]
    BY <1>4, <1>1 DEF ToSet
  <2>2. CASE i <= cut
    <3>1. i \in DOMAIN front /\ front[i] = x
      BY <2>1, <2>2, <1>1
    <3> QED
      BY <3>1 DEF ToSet
  <2>3. CASE i > cut
    <3>1. i - cut \in 1..(Len(q) - cut) /\ cut + (i - cut) = i
      BY <2>1, <2>3, <1>1
    <3>2. i - cut \in DOMAIN back /\ back[i - cut] = x
      BY <3>1, <2>1, <1>1
    <3> QED
      BY <3>2 DEF ToSet
  <2> QED
    BY <2>2, <2>3, <1>1
<1> QED
  BY <1>1, <1>2, <1>3, <1>4 DEF front, back

(***************************************************************************)
(* The inductive invariant, on the record of the hook                      *)
(***************************************************************************)

Fields == {"manual", "phase", "url", "primary", "timer", "queue", "pending", "flushing",
           "ct", "primaryId", "core", "onFallback", "acked", "lost"}
Phases == {"disconnected", "error", "connecting", "connected", "silent"}
Timers == {"none", "failover", "primary"}

\* Of the events 1..n, those outside missing are confirmed, given up or held,
\* and what is held is held once.
Lists(s, n, missing) ==
  /\ DOMAIN s = Fields
  /\ s.queue \in Seq(1..n) /\ s.pending \in Seq(1..n) /\ s.flushing \in Seq(1..n)
  /\ Once(s.queue) /\ Once(s.pending) /\ Once(s.flushing)
  /\ ToSet(s.queue) \cap ToSet(s.pending) = {}
  /\ ToSet(s.queue) \cap ToSet(s.flushing) = {}
  /\ ToSet(s.pending) \cap ToSet(s.flushing) = {}
  /\ missing \cap (ToSet(s.queue) \cup ToSet(s.pending) \cup ToSet(s.flushing)) = {}
  /\ 1..n \subseteq missing \cup s.acked \cup s.lost
                     \cup ToSet(s.queue) \cup ToSet(s.pending) \cup ToSet(s.flushing)

Control(s) == s.manual \in BOOLEAN /\ s.phase \in Phases /\ s.timer \in Timers

\* Nothing is in flight without a connection, nor queued behind one, and a click
\* on Disconnect leaves no client.
Connection(s) ==
  /\ IsOpen(s) => s.queue = <<>>
  /\ ~IsOpen(s) => s.pending = <<>> /\ s.flushing = <<>>
  /\ s.manual => ~IsClient(s)

\* NotStranded of one record.
Waiting(s) ==
  ~s.manual /\ s.phase = "disconnected" /\ s.primary # NoUrl => s.timer # "none"

Settled(s, n) == Lists(s, n, {}) /\ Control(s) /\ Connection(s)
Good(s, n)    == Settled(s, n) /\ Waiting(s)

IInv == published \in Nat /\ Good(pub, published)

\* Fields that neither the queue nor the lists in flight are made of.
SameControl(r, s) ==
  r.manual = s.manual /\ r.phase = s.phase /\ r.timer = s.timer /\ r.primary = s.primary

(***************************************************************************)
(* The functions of the hook                                               *)
(***************************************************************************)

\* Enqueue keeps every event or gives it up.
LEMMA EnqueueKeeps ==
  ASSUME NEW s, NEW n \in Nat, NEW es \in Seq(1..n), DOMAIN s = Fields,
         s.queue \in Seq(1..n), Once(s.queue), Once(es), ToSet(s.queue) \cap ToSet(es) = {}
  PROVE  /\ DOMAIN Enqueue(s, es) = Fields
         /\ Enqueue(s, es).queue \in Seq(1..n)
         /\ Once(Enqueue(s, es).queue)
         /\ ToSet(Enqueue(s, es).queue) \subseteq ToSet(s.queue) \cup ToSet(es)
         /\ ToSet(s.queue) \cup ToSet(es) \cup s.lost
              \subseteq ToSet(Enqueue(s, es).queue) \cup Enqueue(s, es).lost
         /\ s.lost \subseteq Enqueue(s, es).lost
         /\ Enqueue(s, es).pending = s.pending
         /\ Enqueue(s, es).flushing = s.flushing
         /\ Enqueue(s, es).acked = s.acked
         /\ SameControl(Enqueue(s, es), s)
<1> DEFINE all  == s.queue \o es
           room == IF Len(s.queue) >= MAX_QUEUE THEN Len(s.queue)
                   ELSE IF Len(all) <= MAX_QUEUE THEN Len(all) ELSE MAX_QUEUE
           cut  == Len(all) - room
           r    == [s EXCEPT !.queue = SubSeq(all, cut + 1, Len(all)),
                             !.lost = @ \cup ToSet(SubSeq(all, 1, cut))]
<1>1. Enqueue(s, es) = r
  BY DEF Enqueue
<1>2. all \in Seq(1..n) /\ Once(all) /\ ToSet(all) = ToSet(s.queue) \cup ToSet(es)
  BY ConcatOnce
<1>3. cut \in 0..Len(all)
  <2>1. /\ Len(s.queue) \in Nat /\ Len(es) \in Nat /\ MAX_QUEUE \in Nat
        /\ Len(all) = Len(s.queue) + Len(es)
    <3> HIDE DEF cut, room, r
    <3> QED
      BY ConcatLen, PublisherConstants
  <2>2. cut = Len(all) - (IF Len(s.queue) >= MAX_QUEUE THEN Len(s.queue)
                          ELSE IF Len(all) <= MAX_QUEUE THEN Len(all) ELSE MAX_QUEUE)
    BY DEF cut, room
  <2> HIDE DEF all, cut, room, r
  <2> QED
    BY <2>1, <2>2, CutBound
<1>4. /\ SubSeq(all, cut + 1, Len(all)) \in Seq(1..n)
      /\ Once(SubSeq(all, cut + 1, Len(all)))
      /\ ToSet(SubSeq(all, cut + 1, Len(all))) \subseteq ToSet(all)
      /\ ToSet(all) \subseteq ToSet(SubSeq(all, 1, cut)) \cup ToSet(SubSeq(all, cut + 1, Len(all)))
  <2> HIDE DEF all, cut
  <2> QED
    BY <1>2, <1>3, CutOnce
<1>5. /\ DOMAIN r = Fields
      /\ r.queue = SubSeq(all, cut + 1, Len(all))
      /\ r.lost = s.lost \cup ToSet(SubSeq(all, 1, cut))
      /\ r.pending = s.pending /\ r.flushing = s.flushing /\ r.acked = s.acked
      /\ r.manual = s.manual /\ r.phase = s.phase /\ r.timer = s.timer /\ r.primary = s.primary
  <2> HIDE DEF all, cut
  <2> QED
    BY DEF Fields
<1> HIDE DEF all, room, cut, r
<1> QED
  BY <1>1, <1>2, <1>4, <1>5 DEF SameControl

\* What was in flight is queued.
LEMMA QueuePendingKeeps ==
  ASSUME NEW s, NEW n \in Nat, Lists(s, n, {})
  PROVE  /\ Lists(QueuePending(s), n, {})
         /\ QueuePending(s).pending = <<>>
         /\ QueuePending(s).flushing = s.flushing
         /\ SameControl(QueuePending(s), s)
<1> DEFINE t == Enqueue(s, s.pending)
<1>1. /\ DOMAIN t = Fields /\ t.queue \in Seq(1..n) /\ Once(t.queue)
      /\ ToSet(t.queue) \subseteq ToSet(s.queue) \cup ToSet(s.pending)
      /\ ToSet(s.queue) \cup ToSet(s.pending) \cup s.lost \subseteq ToSet(t.queue) \cup t.lost
      /\ t.flushing = s.flushing /\ t.acked = s.acked /\ SameControl(t, s)
  BY EnqueueKeeps DEF Lists
<1>2. QueuePending(s) = [t EXCEPT !.pending = <<>>]
  BY DEF QueuePending
<1> HIDE DEF t
<1>3. /\ DOMAIN QueuePending(s) = Fields
      /\ QueuePending(s).pending = <<>>
      /\ QueuePending(s).queue = t.queue
      /\ QueuePending(s).flushing = s.flushing
      /\ QueuePending(s).acked = s.acked
      /\ QueuePending(s).lost = t.lost
      /\ SameControl(QueuePending(s), s)
  BY <1>1, <1>2 DEF Fields, SameControl
<1>4. Lists(QueuePending(s), n, {})
  BY <1>1, <1>3, EmptyOnce DEF Lists
<1> QED
  BY <1>3, <1>4

\* An event that is nowhere is queued.
LEMMA QueuePublishKeeps ==
  ASSUME NEW s, NEW n \in Nat, NEW e \in 1..n, Lists(s, n, {e})
  PROVE  /\ Lists(QueuePublish(s, e), n, {})
         /\ QueuePublish(s, e).pending = s.pending
         /\ QueuePublish(s, e).flushing = s.flushing
         /\ SameControl(QueuePublish(s, e), s)
<1>1. /\ <<e>> \in Seq(1..n) /\ Once(<<e>>) /\ ToSet(<<e>>) = {e}
  <2>1. <<e>> \in Seq(1..n) /\ DOMAIN <<e>> = {1} /\ <<e>>[1] = e
    OBVIOUS
  <2> QED
    BY <2>1 DEF Once, ToSet
<1>2. QueuePublish(s, e) = Enqueue(s, <<e>>)
  <2>1. s.queue \in Seq(1..n) /\ e \notin ToSet(s.queue)
    BY DEF Lists
  <2>2. ~Contains(s.queue, e)
    BY <2>1 DEF Contains, ToSet
  <2> QED
    BY <2>2 DEF QueuePublish
<1>3. /\ DOMAIN Enqueue(s, <<e>>) = Fields
      /\ Enqueue(s, <<e>>).queue \in Seq(1..n) /\ Once(Enqueue(s, <<e>>).queue)
      /\ ToSet(Enqueue(s, <<e>>).queue) \subseteq ToSet(s.queue) \cup {e}
      /\ ToSet(s.queue) \cup {e} \cup s.lost
           \subseteq ToSet(Enqueue(s, <<e>>).queue) \cup Enqueue(s, <<e>>).lost
      /\ Enqueue(s, <<e>>).pending = s.pending
      /\ Enqueue(s, <<e>>).flushing = s.flushing
      /\ Enqueue(s, <<e>>).acked = s.acked
      /\ SameControl(Enqueue(s, <<e>>), s)
  <2>1. /\ DOMAIN s = Fields /\ s.queue \in Seq(1..n) /\ Once(s.queue)
        /\ ToSet(s.queue) \cap ToSet(<<e>>) = {}
    BY <1>1 DEF Lists
  <2> QED
    BY <1>1, <2>1, EnqueueKeeps
<1>4. Lists(Enqueue(s, <<e>>), n, {})
  BY <1>3 DEF Lists
<1> QED
  BY <1>2, <1>3, <1>4

\* What a function that leaves the lists alone keeps.
SameLists(r, s) ==
  /\ DOMAIN r = Fields
  /\ r.queue = s.queue /\ r.pending = s.pending /\ r.flushing = s.flushing
  /\ r.acked = s.acked /\ r.lost = s.lost

LEMMA SameListsKeeps ==
  ASSUME NEW r, NEW s, NEW n, NEW missing, SameLists(r, s), Lists(s, n, missing)
  PROVE  Lists(r, n, missing)
  BY DEF SameLists, Lists

\* The callbacks that client.end(true) runs move what is in flight to the queue.
LEMMA FailInFlightKeeps ==
  ASSUME NEW s, NEW n \in Nat, Lists(s, n, {}), s.manual => s.pending = <<>>
  PROVE  /\ Lists(FailInFlight(s), n, {})
         /\ FailInFlight(s).pending = <<>> /\ FailInFlight(s).flushing = <<>>
         /\ FailInFlight(s).manual = s.manual /\ FailInFlight(s).phase = s.phase
         /\ FailInFlight(s).primary = s.primary
         /\ FailInFlight(s).timer \in {s.timer, "failover"}
<1> DEFINE q == Reverse(s.flushing) \o s.queue
           u == [s EXCEPT !.queue = q, !.flushing = <<>>]
<1>1. /\ q \in Seq(1..n) /\ Once(q)
      /\ ToSet(q) = ToSet(s.flushing) \cup ToSet(s.queue)
  <2>1. /\ s.flushing \in Seq(1..n) /\ Once(s.flushing)
        /\ s.queue \in Seq(1..n) /\ Once(s.queue)
        /\ ToSet(s.queue) \cap ToSet(s.flushing) = {}
    BY DEF Lists
  <2>2. /\ Reverse(s.flushing) \in Seq(1..n) /\ Once(Reverse(s.flushing))
        /\ ToSet(Reverse(s.flushing)) = ToSet(s.flushing)
    BY <2>1, ReverseOnce
  <2> HIDE DEF u
  <2> QED
    BY <2>1, <2>2, ConcatOnce
<1>2. /\ DOMAIN u = Fields /\ u.queue = q /\ u.flushing = <<>> /\ u.pending = s.pending
      /\ u.acked = s.acked /\ u.lost = s.lost /\ SameControl(u, s)
  <2>1. DOMAIN s = Fields
    BY DEF Lists
  <2> HIDE DEF q
  <2> QED
    BY <2>1 DEF Fields, SameControl
<1>3. FailInFlight(s) = IF s.pending = <<>> \/ s.manual THEN u
                        ELSE [QueuePending(u) EXCEPT !.url = NoUrl, !.timer = "failover"]
  BY DEF FailInFlight
<1> HIDE DEF q, u
<1>4. Lists(u, n, {})
  BY <1>1, <1>2, EmptyOnce DEF Lists
<1>5. CASE s.pending = <<>> \/ s.manual
  BY <1>2, <1>3, <1>4, <1>5 DEF SameControl
<1>6. CASE ~(s.pending = <<>> \/ s.manual)
  <2> DEFINE v == QueuePending(u)
             w == [v EXCEPT !.url = NoUrl, !.timer = "failover"]
  <2>1. Lists(v, n, {}) /\ v.pending = <<>> /\ v.flushing = u.flushing /\ SameControl(v, u)
    BY <1>4, QueuePendingKeeps
  <2>2. FailInFlight(s) = w
    BY <1>3, <1>6
  <2> HIDE DEF v
  <2>3. SameLists(w, v) /\ w.timer = "failover" /\ w.manual = v.manual /\ w.phase = v.phase
        /\ w.primary = v.primary
    BY <2>1 DEF Lists, Fields, SameLists
  <2> HIDE DEF w
  <2> QED
    BY <1>2, <2>1, <2>2, <2>3, SameListsKeeps DEF SameLists, SameControl
<1> QED
  BY <1>5, <1>6

\* destroyClient leaves nothing in flight, no client, and no timer but the one
\* its callbacks may set.
LEMMA DestroyClientKeeps ==
  ASSUME NEW s, NEW n \in Nat, Lists(s, n, {}), s.manual => s.pending = <<>>
  PROVE  /\ Lists(DestroyClient(s), n, {})
         /\ DestroyClient(s).pending = <<>> /\ DestroyClient(s).flushing = <<>>
         /\ DestroyClient(s).manual = s.manual /\ DestroyClient(s).primary = s.primary
         /\ DestroyClient(s).phase = "disconnected"
         /\ DestroyClient(s).timer \in {"none", "failover"}
<1> DEFINE r == [s EXCEPT !.timer = "none", !.phase = "disconnected"]
<1>1. SameLists(r, s) /\ r.timer = "none" /\ r.phase = "disconnected"
      /\ r.manual = s.manual /\ r.primary = s.primary
  BY DEF Lists, Fields, SameLists
<1>2. DestroyClient(s) = FailInFlight(r)
  BY DEF DestroyClient
<1> HIDE DEF r
<1>3. Lists(r, n, {}) /\ (r.manual => r.pending = <<>>)
  BY <1>1, SameListsKeeps DEF SameLists
<1> QED
  BY <1>1, <1>2, <1>3, FailInFlightKeeps

\* A lost connection is given up for the failover timer.
LEMMA HandleConnectionLossKeeps ==
  ASSUME NEW s, NEW n \in Nat, Lists(s, n, {}), s.manual \in BOOLEAN, s.manual => Good(s, n)
  PROVE  Good(HandleConnectionLoss(s), n)
<1>1. CASE s.manual
  BY <1>1 DEF HandleConnectionLoss
<1>2. CASE ~s.manual
  <2> DEFINE v == QueuePending(s)
             w == [v EXCEPT !.url = NoUrl]
             d == DestroyClient(w)
             r == [d EXCEPT !.timer = "failover"]
  <2>1. HandleConnectionLoss(s) = r
    BY <1>2 DEF HandleConnectionLoss
  <2>2. Lists(v, n, {}) /\ SameControl(v, s)
    BY QueuePendingKeeps
  <2> HIDE DEF v
  <2>3. SameLists(w, v) /\ w.manual = v.manual
    BY <2>2 DEF Lists, Fields, SameLists
  <2> HIDE DEF w
  <2>4. Lists(w, n, {}) /\ w.manual = s.manual
    BY <2>2, <2>3, SameListsKeeps DEF SameControl
  <2>5. /\ Lists(d, n, {}) /\ d.pending = <<>> /\ d.flushing = <<>>
        /\ d.manual = s.manual /\ d.phase = "disconnected"
    BY <1>2, <2>4, DestroyClientKeeps
  <2> HIDE DEF d
  <2>6. SameLists(r, d) /\ r.timer = "failover" /\ r.manual = d.manual /\ r.phase = d.phase
    BY <2>5 DEF Lists, Fields, SameLists
  <2> HIDE DEF r
  <2>7. Lists(r, n, {})
    BY <2>5, <2>6, SameListsKeeps
  <2>8. /\ r.pending = <<>> /\ r.flushing = <<>> /\ ~IsOpen(r) /\ ~r.manual
        /\ r.manual \in BOOLEAN
    BY <1>2, <2>5, <2>6 DEF SameLists, IsOpen
  <2>9. Control(r) /\ Waiting(r)
    BY <2>5, <2>6, <2>8 DEF Control, Waiting, Phases, Timers
  <2> QED
    BY <2>1, <2>7, <2>8, <2>9 DEF Good, Settled, Connection
<1> QED
  BY <1>1, <1>2

\* connectToBroker with a URL makes a client.
LEMMA ConnectToBrokerKeeps ==
  ASSUME NEW s, NEW n \in Nat, Lists(s, n, {}), s.manual \in BOOLEAN, ~s.manual,
         NEW url, url # NoUrl
  PROVE  Good(ConnectToBroker(s, url), n)
<1> DEFINE d == DestroyClient(s)
           r == [d EXCEPT !.url = url, !.phase = "connecting"]
<1>1. ConnectToBroker(s, url) = r
  BY DEF ConnectToBroker
<1>2. /\ Lists(d, n, {}) /\ d.pending = <<>> /\ d.flushing = <<>>
      /\ d.manual = s.manual /\ d.timer \in {"none", "failover"}
  BY DestroyClientKeeps
<1> HIDE DEF d
<1>3. SameLists(r, d) /\ r.timer = d.timer /\ r.manual = d.manual /\ r.phase = "connecting"
  BY <1>2 DEF Lists, Fields, SameLists
<1> HIDE DEF r
<1>4. Lists(r, n, {})
  BY <1>2, <1>3, SameListsKeeps
<1>5. /\ r.pending = <<>> /\ r.flushing = <<>> /\ ~IsOpen(r) /\ ~r.manual
      /\ r.manual \in BOOLEAN
  BY <1>2, <1>3 DEF SameLists, IsOpen
<1>6. Control(r) /\ Waiting(r)
  BY <1>2, <1>3, <1>5 DEF Control, Waiting, Phases, Timers
<1> QED
  BY <1>1, <1>4, <1>5, <1>6 DEF Good, Settled, Connection

\* A record that differs in neither the lists nor the control is as good.
LEMMA SameKeeps ==
  ASSUME NEW r, NEW s, NEW n, SameLists(r, s), SameControl(r, s)
  PROVE  (Settled(s, n) => Settled(r, n)) /\ (Good(s, n) => Good(r, n))
<1>1. Lists(s, n, {}) => Lists(r, n, {})
  BY SameListsKeeps
<1>2. Control(s) => Control(r)
  BY DEF SameControl, Control
<1>3. Connection(s) => Connection(r)
  BY DEF SameControl, SameLists, Connection, IsOpen, IsClient
<1>4. Waiting(s) => Waiting(r)
  BY DEF SameControl, Waiting
<1> QED
  BY <1>1, <1>2, <1>3, <1>4 DEF Settled, Good

\* A timer that is set is one more reason not to be stranded.
LEMMA TimerKeeps ==
  ASSUME NEW s, NEW n, Settled(s, n), NEW timer \in {"failover", "primary"}
  PROVE  Good([s EXCEPT !.timer = timer], n)
<1> DEFINE r == [s EXCEPT !.timer = timer]
<1>1. SameLists(r, s) /\ r.timer = timer /\ r.manual = s.manual /\ r.phase = s.phase
  BY DEF Settled, Lists, Fields, SameLists
<1> HIDE DEF r
<1>2. Lists(r, n, {})
  BY <1>1, SameListsKeeps DEF Settled
<1>3. Control(r) /\ Waiting(r)
  BY <1>1 DEF Settled, Control, Timers, Waiting
<1>4. Connection(r)
  BY <1>1 DEF Settled, Connection, SameLists, IsOpen, IsClient
<1> QED
  BY <1>2, <1>3, <1>4 DEF Good, Settled, r

LEMMA FailoverToKeeps ==
  ASSUME NEW s, NEW n \in Nat, Settled(s, n), ~s.manual, NEW url, url # NoUrl
  PROVE  Good(FailoverTo(s, url), n)
<1> DEFINE r == [s EXCEPT !.onFallback = (url # s.primary)]
<1>1. SameLists(r, s) /\ r.manual = s.manual
  BY DEF Settled, Lists, Fields, SameLists
<1>2. FailoverTo(s, url) = ConnectToBroker(r, url)
  BY DEF FailoverTo
<1> HIDE DEF r
<1>3. Lists(r, n, {}) /\ r.manual \in BOOLEAN /\ ~r.manual
  BY <1>1, SameListsKeeps DEF Settled, Control
<1> QED
  BY <1>2, <1>3, ConnectToBrokerKeeps

\* A URL that names a host is one to dial.
LEMMA BuiltUrl == \A h : BuildBrokerUrl(h) # NoUrl /\ TypedUrl(h) # NoUrl
<1>1. \A h : BuildBrokerUrl(h).form = "built" /\ TypedUrl(h).form = "typed"
  BY DEF BuildBrokerUrl, TypedUrl
<1>2. NoUrl.form = "none"
  BY DEF NoUrl
<1> QED
  BY <1>1, <1>2

\* attemptFailover dials, waits, or was called after a click on Disconnect.
LEMMA AttemptFailoverKeeps ==
  ASSUME NEW s, NEW n \in Nat, Settled(s, n)
  PROVE  Good(AttemptFailover(s), n)
<1> DEFINE selected == SelectFallbackBroker(s.ct, s.primaryId, s.primary.host)
           built    == BuildBrokerUrl(selected.ip)
           target   == IF built = s.primary /\ s.core \notin {NoUrl, built} THEN s.core ELSE built
<1>1. AttemptFailover(s) =
        CASE s.manual -> s
          [] ~s.manual /\ s.ct.nodes = <<>> ->
               IF s.core # NoUrl THEN FailoverTo(s, s.core) ELSE SchedulePrimaryRetry(s)
          [] OTHER -> IF selected = NoNode \/ target = s.url
                      THEN SchedulePrimaryRetry(s)
                      ELSE FailoverTo(s, target)
  BY DEF AttemptFailover
<1>2. target # NoUrl
  BY BuiltUrl
<1> HIDE DEF selected, built, target
<1>3. s.manual \in BOOLEAN
  BY DEF Settled, Control
<1>4. Good(SchedulePrimaryRetry(s), n)
  BY TimerKeeps DEF SchedulePrimaryRetry
<1>5. CASE s.manual
  <2>1. AttemptFailover(s) = s
    BY <1>1, <1>5
  <2> QED
    BY <2>1, <1>5 DEF Good, Waiting
<1>6. CASE ~s.manual /\ s.ct.nodes = <<>>
  <2>1. AttemptFailover(s) = IF s.core # NoUrl THEN FailoverTo(s, s.core) ELSE SchedulePrimaryRetry(s)
    BY <1>1, <1>6
  <2>2. s.core # NoUrl => Good(FailoverTo(s, s.core), n)
    BY <1>6, FailoverToKeeps
  <2> QED
    BY <2>1, <2>2, <1>4
<1>7. CASE ~s.manual /\ s.ct.nodes # <<>>
  <2>1. AttemptFailover(s) = IF selected = NoNode \/ target = s.url THEN SchedulePrimaryRetry(s)
                             ELSE FailoverTo(s, target)
    BY <1>1, <1>7
  <2>2. Good(FailoverTo(s, target), n)
    BY <1>2, <1>7, FailoverToKeeps
  <2> QED
    BY <2>1, <2>2, <1>4
<1> QED
  BY <1>3, <1>5, <1>6, <1>7

\* Learning from a table touches neither the lists nor the control.
LEMMA RememberKeeps ==
  ASSUME NEW s, DOMAIN s = Fields
  PROVE  /\ SameLists(ResolvePrimary(RememberPreferredCore(s)), s)
         /\ SameControl(ResolvePrimary(RememberPreferredCore(s)), s)
<1>1. ASSUME NEW r, DOMAIN r = Fields PROVE SameLists(r, r) /\ SameControl(r, r)
  BY <1>1 DEF SameLists, SameControl
<1>2. ASSUME NEW r, DOMAIN r = Fields
      PROVE  SameLists(RememberPreferredCore(r), r) /\ SameControl(RememberPreferredCore(r), r)
  <2> DEFINE core == BuildBrokerUrl(FindPreferredCoreBroker(r.ct, r.primaryId).ip)
  <2>1. RememberPreferredCore(r) \in {r, [r EXCEPT !.core = core]}
    BY DEF RememberPreferredCore
  <2> HIDE DEF core
  <2>2. SameLists([r EXCEPT !.core = core], r) /\ SameControl([r EXCEPT !.core = core], r)
    BY <1>2 DEF Fields, SameLists, SameControl
  <2> QED
    BY <1>1, <1>2, <2>1, <2>2
<1>3. ASSUME NEW r, DOMAIN r = Fields
      PROVE  SameLists(ResolvePrimary(r), r) /\ SameControl(ResolvePrimary(r), r)
  <2> DEFINE id == ResolvePrimaryEdgeId(r.ct, r.primary.host)
  <2>1. ResolvePrimary(r) \in {r, [r EXCEPT !.primaryId = id]}
    BY DEF ResolvePrimary
  <2> HIDE DEF id
  <2>2. SameLists([r EXCEPT !.primaryId = id], r) /\ SameControl([r EXCEPT !.primaryId = id], r)
    BY <1>3 DEF Fields, SameLists, SameControl
  <2> QED
    BY <1>1, <1>3, <2>1, <2>2
<1> DEFINE m == RememberPreferredCore(s)
           p == ResolvePrimary(m)
<1>4. SameLists(m, s) /\ SameControl(m, s)
  BY <1>2
<1>5. SameLists(p, m) /\ SameControl(p, m)
  BY <1>3, <1>4 DEF SameLists
<1> HIDE DEF m, p
<1>6. SameLists(p, s) /\ SameControl(p, s)
  BY <1>4, <1>5 DEF SameLists, SameControl
<1> QED
  BY <1>6 DEF m, p

\* A table, on an open connection.
LEMMA HandleCtMessageKeeps ==
  ASSUME NEW s, NEW n \in Nat, Good(s, n), IsOpen(s), NEW ct
  PROVE  Good(HandleCtMessage(s, ct), n)
<1> DEFINE t     == [s EXCEPT !.ct = ct]
           known == ResolvePrimary(RememberPreferredCore(t))
           back  == ShouldReturnToPrimary(ct, known.primaryId)
           home  == [known EXCEPT !.onFallback = FALSE]
<1>1. SameLists(t, s) /\ SameControl(t, s)
  BY DEF Good, Settled, Lists, Fields, SameLists, SameControl
<1>2. HandleCtMessage(s, ct) \in {s, ConnectToBroker(home, known.primary), AttemptFailover(known), known}
  BY DEF HandleCtMessage
<1> HIDE DEF t
<1>3. SameLists(known, t) /\ SameControl(known, t)
  BY <1>1, RememberKeeps DEF SameLists
<1> HIDE DEF known, back
<1>4. SameLists(home, known) /\ SameControl(home, known)
  BY <1>3 DEF Fields, SameLists, SameControl
<1> HIDE DEF home
<1>5. Good(t, n) /\ Good(known, n) /\ Good(home, n)
  BY <1>1, <1>3, <1>4, SameKeeps
<1>6. ~home.manual
  <2>1. ~s.manual
    BY DEF Good, Settled, Connection, IsClient
  <2> QED
    BY <2>1, <1>1, <1>3, <1>4 DEF SameControl
<1>7. Good(AttemptFailover(known), n)
  BY <1>5, AttemptFailoverKeeps DEF Good
<1>8. Good(ConnectToBroker(home, known.primary), n)
  <2>1. CASE known.primary = NoUrl
    BY <2>1, <1>5 DEF ConnectToBroker
  <2>2. CASE known.primary # NoUrl
    <3>1. Lists(home, n, {}) /\ home.manual \in BOOLEAN
      BY <1>5 DEF Good, Settled, Control
    <3> QED
      BY <2>2, <3>1, <1>6, ConnectToBrokerKeeps
  <2> QED
    BY <2>1, <2>2
<1> QED
  BY <1>2, <1>5, <1>7, <1>8

\* Elements move from the head of a sequence.
LEMMA HeadTail ==
  ASSUME NEW S, NEW q \in Seq(S), Once(q), q # <<>>
  PROVE  /\ Head(q) \in S /\ Tail(q) \in Seq(S)
         /\ Once(Tail(q))
         /\ Head(q) \in ToSet(q) /\ ToSet(Tail(q)) = ToSet(q) \ {Head(q)}
<1>1. /\ Len(q) \in Nat /\ Len(q) # 0 /\ DOMAIN q = 1..Len(q) /\ Head(q) = q[1]
      /\ Tail(q) \in Seq(S) /\ Head(q) \in S
      /\ DOMAIN Tail(q) = 1..(Len(q) - 1)
      /\ \A i \in 1..(Len(q) - 1) : Tail(q)[i] = q[i + 1] /\ i + 1 \in 1..Len(q)
  OBVIOUS
<1>2. Once(Tail(q))
  <2>1. SUFFICES ASSUME NEW i \in 1..(Len(q) - 1), NEW j \in 1..(Len(q) - 1), i # j
                 PROVE  Tail(q)[i] # Tail(q)[j]
    BY <1>1 DEF Once
  <2>2. i + 1 # j + 1
    BY <2>1, <1>1
  <2> QED
    BY <2>2, <1>1 DEF Once
<1>3. Head(q) \in ToSet(q)
  <2>1. 1 \in DOMAIN q
    BY <1>1
  <2> QED
    BY <2>1, <1>1 DEF ToSet
<1>4. ASSUME NEW x \in ToSet(Tail(q)) PROVE x \in ToSet(q) \ {Head(q)}
  <2>1. PICK i \in 1..(Len(q) - 1) : x = Tail(q)[i]
    BY <1>1, <1>4 DEF ToSet
  <2>2. i + 1 \in DOMAIN q /\ 1 \in DOMAIN q /\ i + 1 # 1 /\ x = q[i + 1]
    BY <2>1, <1>1
  <2>3. q[i + 1] # q[1]
    BY <2>2 DEF Once
  <2> QED
    BY <2>2, <2>3, <1>1 DEF ToSet
<1>5. ASSUME NEW x \in ToSet(q), x # Head(q) PROVE x \in ToSet(Tail(q))
  <2>1. PICK i \in 1..Len(q) : x = q[i]
    BY <1>1, <1>5 DEF ToSet
  <2>2. i # 1
    BY <2>1, <1>1, <1>5
  <2>3. i - 1 \in 1..(Len(q) - 1) /\ (i - 1) + 1 = i
    BY <2>1, <2>2, <1>1
  <2>4. Tail(q)[i - 1] = x
    BY <2>1, <2>3, <1>1
  <2> QED
    BY <2>3, <2>4, <1>1 DEF ToSet
<1> QED
  BY <1>1, <1>2, <1>3, <1>4, <1>5

(***************************************************************************)
(* The actions                                                             *)
(***************************************************************************)

\* The first state.
LEMMA InitGood == Init => IInv
<1> SUFFICES ASSUME Init PROVE IInv
  OBVIOUS
<1>1. /\ DOMAIN pub = Fields
      /\ pub.queue = <<>> /\ pub.pending = <<>> /\ pub.flushing = <<>>
      /\ pub.manual = FALSE /\ pub.phase = "disconnected" /\ pub.timer = "none"
      /\ pub.primary = NoUrl /\ published = 0
  BY DEF Init, Fields
<1>2. Lists(pub, 0, {})
  <2>1. 1..0 = {}
    OBVIOUS
  <2> QED
    BY <1>1, <2>1, EmptyOnce DEF Lists
<1>3. Control(pub) /\ Connection(pub) /\ Waiting(pub)
  BY <1>1 DEF Control, Phases, Timers, Connection, Waiting, IsOpen, IsClient
<1> QED
  BY <1>1, <1>2, <1>3 DEF IInv, Good, Settled

\* The Connect button.
LEMMA ConnectGood == \A h : IInv /\ Connect(h) => IInv'
<1> SUFFICES ASSUME IInv, NEW h, Connect(h) PROVE IInv'
  OBVIOUS
<1> DEFINE r == [pub EXCEPT !.manual = FALSE, !.primary = TypedUrl(h), !.core = NoUrl,
                            !.onFallback = FALSE, !.primaryId = "", !.ct = NoTable]
<1>1. pub' = ConnectToBroker(r, TypedUrl(h)) /\ published' = published
  BY DEF Connect
<1>2. SameLists(r, pub) /\ r.manual = FALSE
  BY DEF IInv, Good, Settled, Lists, Fields, SameLists
<1> HIDE DEF r
<1>3. Lists(r, published, {})
  BY <1>2, SameListsKeeps DEF IInv, Good, Settled
<1>4. published \in Nat
  BY DEF IInv
<1>5. Good(ConnectToBroker(r, TypedUrl(h)), published)
  BY <1>2, <1>3, <1>4, BuiltUrl, ConnectToBrokerKeeps
<1> QED
  BY <1>1, <1>4, <1>5 DEF IInv

\* The Connect button with no URL typed.
LEMMA ConnectNowhereGood == IInv /\ ConnectNowhere => IInv'
<1> SUFFICES ASSUME IInv, ConnectNowhere PROVE IInv'
  OBVIOUS
<1> DEFINE r == [pub EXCEPT !.manual = FALSE]
           d == DestroyClient(r)
           f == [d EXCEPT !.phase = "error"]
<1>1. pub' = f /\ published' = published
  BY DEF ConnectNowhere
<1>2. SameLists(r, pub) /\ r.manual = FALSE
  BY DEF IInv, Good, Settled, Lists, Fields, SameLists
<1> HIDE DEF r
<1>3. Lists(r, published, {}) /\ published \in Nat
  BY <1>2, SameListsKeeps DEF IInv, Good, Settled
<1>4. /\ Lists(d, published, {}) /\ d.pending = <<>> /\ d.flushing = <<>>
      /\ d.manual = FALSE /\ d.timer \in {"none", "failover"}
  BY <1>2, <1>3, DestroyClientKeeps
<1> HIDE DEF d
<1>5. SameLists(f, d) /\ f.manual = d.manual /\ f.timer = d.timer /\ f.phase = "error"
  BY <1>4 DEF Lists, Fields, SameLists
<1> HIDE DEF f
<1>6. Lists(f, published, {})
  BY <1>4, <1>5, SameListsKeeps
<1>7. Control(f) /\ Connection(f) /\ Waiting(f)
  BY <1>4, <1>5 DEF Control, Phases, Timers, Connection, Waiting, IsOpen, IsClient, SameLists
<1> QED
  BY <1>1, <1>3, <1>6, <1>7 DEF IInv, Good, Settled

\* The Disconnect button.
LEMMA DisconnectGood == IInv /\ Disconnect => IInv'
<1> SUFFICES ASSUME IInv, Disconnect PROVE IInv'
  OBVIOUS
<1> DEFINE n    == published
           given == pub.lost \cup ToSet(pub.queue) \cup ToSet(pub.pending)
           r    == [pub EXCEPT !.manual = TRUE, !.primary = NoUrl, !.core = NoUrl,
                               !.onFallback = FALSE, !.ct = NoTable, !.url = NoUrl,
                               !.queue = <<>>, !.pending = <<>>, !.lost = given]
           d    == DestroyClient(r)
<1>1. pub' = d /\ published' = n
  <2>1. pub' = DestroyClient([pub EXCEPT !.manual = TRUE, !.primary = NoUrl, !.core = NoUrl,
                               !.onFallback = FALSE, !.ct = NoTable, !.url = NoUrl,
                               !.queue = <<>>, !.pending = <<>>,
                               !.lost = @ \cup ToSet(pub.queue) \cup ToSet(pub.pending)])
        /\ published' = published
    BY DEF Disconnect
  <2> QED
    BY <2>1
<1>2. Lists(pub, n, {}) /\ n \in Nat
  BY DEF IInv, Good, Settled
<1> HIDE DEF d
<1>3. /\ DOMAIN r = Fields /\ r.queue = <<>> /\ r.pending = <<>> /\ r.flushing = pub.flushing
      /\ r.acked = pub.acked /\ r.lost = given /\ r.manual = TRUE
  <2> HIDE DEF given
  <2> QED
    BY <1>2 DEF Lists, Fields
<1> HIDE DEF r
<1>4. Lists(r, n, {})
  BY <1>2, <1>3, EmptyOnce DEF Lists
<1>5. /\ Lists(d, n, {}) /\ d.pending = <<>> /\ d.flushing = <<>>
      /\ d.manual = TRUE /\ d.timer \in {"none", "failover"} /\ d.phase = "disconnected"
  BY <1>2, <1>3, <1>4, DestroyClientKeeps DEF d
<1>6. Control(d) /\ Connection(d) /\ Waiting(d)
  BY <1>5 DEF Control, Phases, Timers, Connection, Waiting, IsOpen, IsClient
<1> QED
  BY <1>1, <1>2, <1>5, <1>6 DEF IInv, Good, Settled

\* Publish, connected or not.
LEMMA PublishGood == IInv /\ Publish => IInv'
<1> SUFFICES ASSUME IInv, Publish PROVE IInv'
  OBVIOUS
<1> DEFINE e == published + 1
<1>1. /\ published' = e /\ published \in Nat /\ e \in Nat /\ e \in 1..e /\ e \notin 1..published
      /\ 1..e = (1..published) \cup {e}
  BY DEF IInv, Publish
<1>2. pub' = IF pub.phase = "connected" THEN [pub EXCEPT !.pending = Append(@, e)]
             ELSE HandleConnectionLoss(QueuePublish(pub, e))
  BY DEF Publish
<1> HIDE DEF e
<1>3. Lists(pub, e, {e})
  <2>1. Lists(pub, published, {})
    BY DEF IInv, Good, Settled
  <2>2. ASSUME NEW q \in Seq(1..published) PROVE q \in Seq(1..e) /\ e \notin ToSet(q)
    BY <1>1, WiderOnce
  <2> QED
    BY <2>1, <2>2, <1>1 DEF Lists
<1>4. CASE pub.phase = "connected"
  <2> DEFINE p == Append(pub.pending, e)
             r == [pub EXCEPT !.pending = p]
  <2>1. p \in Seq(1..e) /\ Once(p) /\ ToSet(p) = ToSet(pub.pending) \cup {e}
    <3>1. /\ pub.pending \in Seq(1..e) /\ Once(pub.pending) /\ e \notin ToSet(pub.pending)
      BY <1>3 DEF Lists
    <3> QED
      BY <3>1, <1>1, AppendOnce
  <2>2. /\ DOMAIN r = Fields /\ r.queue = pub.queue /\ r.pending = p /\ r.flushing = pub.flushing
        /\ r.acked = pub.acked /\ r.lost = pub.lost /\ SameControl(r, pub)
    <3> HIDE DEF p
    <3> QED
      BY <1>3 DEF Lists, Fields, SameControl
  <2>3. pub' = r
    BY <1>2, <1>4
  <2> HIDE DEF p, r
  <2>4. Lists(r, e, {})
    BY <1>3, <2>1, <2>2 DEF Lists
  <2>5. Control(r) /\ Connection(r) /\ Waiting(r)
    BY <1>4, <2>2 DEF IInv, Good, Settled, SameControl, Control, Connection, Waiting, IsOpen, IsClient
  <2> QED
    BY <1>1, <2>3, <2>4, <2>5 DEF IInv, Good, Settled
<1>5. CASE pub.phase # "connected"
  <2> DEFINE v == QueuePublish(pub, e)
  <2>1. /\ Lists(v, e, {}) /\ v.pending = pub.pending /\ v.flushing = pub.flushing
        /\ SameControl(v, pub)
    BY <1>1, <1>3, QueuePublishKeeps
  <2>2. pub' = HandleConnectionLoss(v)
    BY <1>2, <1>5
  <2> HIDE DEF v
  <2>3. v.manual \in BOOLEAN /\ Control(v)
    BY <2>1 DEF IInv, Good, Settled, SameControl, Control
  <2>4. v.manual => Good(v, e)
    BY <2>1, <2>3 DEF IInv, Good, Settled, SameControl, Connection, Waiting, IsOpen, IsClient
  <2> QED
    BY <1>1, <2>1, <2>2, <2>3, <2>4, HandleConnectionLossKeeps DEF IInv
<1> QED
  BY <1>4, <1>5

\* The failover timer.
LEMMA FailoverTimerGood == IInv /\ FailoverTimer => IInv'
<1> SUFFICES ASSUME IInv, FailoverTimer PROVE IInv'
  OBVIOUS
<1> DEFINE r == [pub EXCEPT !.timer = "none"]
<1>1. pub' = AttemptFailover(r) /\ published' = published
  BY DEF FailoverTimer, HookStep
<1>2. SameLists(r, pub) /\ r.manual = pub.manual /\ r.phase = pub.phase /\ r.timer = "none"
  BY DEF IInv, Good, Settled, Lists, Fields, SameLists
<1> HIDE DEF r
<1>3. Lists(r, published, {}) /\ published \in Nat
  BY <1>2, SameListsKeeps DEF IInv, Good, Settled
<1>4. Control(r) /\ Connection(r)
  BY <1>2 DEF IInv, Good, Settled, Control, Timers, Connection, SameLists, IsOpen, IsClient
<1> QED
  BY <1>1, <1>3, <1>4, AttemptFailoverKeeps DEF IInv, Settled

\* The retry of the primary.
LEMMA PrimaryTimerGood == IInv /\ PrimaryTimer => IInv'
<1> SUFFICES ASSUME IInv, PrimaryTimer PROVE IInv'
  OBVIOUS
<1> DEFINE r == [pub EXCEPT !.timer = "none"]
<1>1. pub' = (IF pub.manual THEN r ELSE ConnectToBroker(r, pub.primary)) /\ published' = published
  BY DEF PrimaryTimer, HookStep
<1>2. SameLists(r, pub) /\ r.manual = pub.manual /\ r.phase = pub.phase /\ r.timer = "none"
      /\ r.primary = pub.primary
  BY DEF IInv, Good, Settled, Lists, Fields, SameLists
<1> HIDE DEF r
<1>3. Lists(r, published, {}) /\ published \in Nat
  BY <1>2, SameListsKeeps DEF IInv, Good, Settled
<1>4. Control(r) /\ Connection(r)
  BY <1>2 DEF IInv, Good, Settled, Control, Timers, Connection, SameLists, IsOpen, IsClient
<1>5. CASE pub.manual \/ pub.primary = NoUrl
  <2>1. pub' = r
    BY <1>1, <1>5 DEF ConnectToBroker
  <2>2. Waiting(r)
    BY <1>2, <1>5 DEF Waiting
  <2> QED
    BY <1>1, <1>3, <1>4, <2>1, <2>2 DEF IInv, Good, Settled
<1>6. CASE ~(pub.manual \/ pub.primary = NoUrl)
  <2>1. pub' = ConnectToBroker(r, pub.primary)
    BY <1>1, <1>6
  <2>2. ~r.manual /\ r.manual \in BOOLEAN
    BY <1>2, <1>4, <1>6 DEF Control
  <2>3. Good(ConnectToBroker(r, pub.primary), published)
    BY <1>3, <1>6, <2>2, ConnectToBrokerKeeps
  <2> QED
    BY <1>1, <1>3, <2>1, <2>3 DEF IInv
<1> QED
  BY <1>5, <1>6

\* The connection opens and the queue is sent.
LEMMA ConnectedGood == IInv /\ Connected => IInv'
<1> SUFFICES ASSUME IInv, Connected PROVE IInv'
  OBVIOUS
<1> DEFINE n == published
           q == pub.flushing \o pub.queue
           r == [pub EXCEPT !.phase = "connected", !.flushing = q, !.queue = <<>>]
<1>1. pub' = r /\ published' = n /\ pub.phase = "connecting"
  BY DEF Connected, OnConnect, HookStep
<1>2. Lists(pub, n, {}) /\ n \in Nat
  BY DEF IInv, Good, Settled
<1>3. /\ q \in Seq(1..n) /\ Once(q) /\ ToSet(q) = ToSet(pub.flushing) \cup ToSet(pub.queue)
  <2>1. /\ pub.flushing \in Seq(1..n) /\ Once(pub.flushing)
        /\ pub.queue \in Seq(1..n) /\ Once(pub.queue)
        /\ ToSet(pub.flushing) \cap ToSet(pub.queue) = {}
    BY <1>2 DEF Lists
  <2> HIDE DEF r, n
  <2> QED
    BY <2>1, ConcatOnce
<1>4. /\ DOMAIN r = Fields /\ r.queue = <<>> /\ r.flushing = q /\ r.pending = pub.pending
      /\ r.acked = pub.acked /\ r.lost = pub.lost /\ r.manual = pub.manual
      /\ r.timer = pub.timer /\ r.phase = "connected"
  <2> HIDE DEF q
  <2> QED
    BY <1>2 DEF Lists, Fields
<1> HIDE DEF q, r, n
<1>5. Lists(r, n, {})
  BY <1>2, <1>3, <1>4, EmptyOnce DEF Lists
<1>6. Control(r) /\ Connection(r) /\ Waiting(r)
  BY <1>1, <1>4 DEF IInv, Good, Settled, Control, Phases, Connection, Waiting, IsOpen, IsClient
<1> QED
  BY <1>1, <1>2, <1>5, <1>6 DEF IInv, Good, Settled

\* The connection closes, or the health check gives it up.
LEMMA ConnectionLostGood == IInv /\ (ConnectionLost \/ HealthCheck) => IInv'
<1> SUFFICES ASSUME IInv, ConnectionLost \/ HealthCheck PROVE IInv'
  OBVIOUS
<1>1. pub' = HandleConnectionLoss(pub) /\ published' = published
  BY DEF ConnectionLost, HealthCheck, HookStep
<1>2. Lists(pub, published, {}) /\ pub.manual \in BOOLEAN /\ Good(pub, published) /\ published \in Nat
  BY DEF IInv, Good, Settled, Control
<1> QED
  BY <1>1, <1>2, HandleConnectionLossKeeps DEF IInv

\* The broker falls silent.
LEMMA GoSilentGood == IInv /\ GoSilent => IInv'
<1> SUFFICES ASSUME IInv, GoSilent PROVE IInv'
  OBVIOUS
<1> DEFINE r == [pub EXCEPT !.phase = "silent"]
<1>1. pub' = r /\ published' = published /\ pub.phase = "connected"
  BY DEF GoSilent, HookStep
<1>2. SameLists(r, pub) /\ r.manual = pub.manual /\ r.timer = pub.timer /\ r.phase = "silent"
  BY DEF IInv, Good, Settled, Lists, Fields, SameLists
<1> HIDE DEF r
<1>3. Lists(r, published, {})
  BY <1>2, SameListsKeeps DEF IInv, Good, Settled
<1>4. Control(r) /\ Connection(r) /\ Waiting(r)
  BY <1>1, <1>2 DEF IInv, Good, Settled, Control, Phases, Connection, Waiting, SameLists, IsOpen, IsClient
<1> QED
  BY <1>1, <1>3, <1>4 DEF IInv, Good, Settled

\* An event that nobody acknowledged in time goes back to the queue.
LEMMA AckTimeoutGood == IInv /\ AckTimeout => IInv'
<1> SUFFICES ASSUME IInv, AckTimeout PROVE IInv'
  OBVIOUS
<1> DEFINE n == published
           h == Head(pub.pending)
           q == Tail(pub.pending)
           r == [pub EXCEPT !.pending = q]
           v == QueuePublish(r, h)
<1>1. pub' = HandleConnectionLoss(v) /\ published' = n /\ IsOpen(pub) /\ pub.pending # <<>>
  BY DEF AckTimeout, HookStep
<1>2. Lists(pub, n, {}) /\ n \in Nat
  BY DEF IInv, Good, Settled
<1> HIDE DEF v
<1>3. h \in 1..n /\ q \in Seq(1..n) /\ Once(q) /\ h \in ToSet(pub.pending)
      /\ ToSet(q) = ToSet(pub.pending) \ {h}
  <2>1. pub.pending \in Seq(1..n) /\ Once(pub.pending)
    BY <1>2 DEF Lists
  <2> HIDE DEF n
  <2> QED
    BY <1>1, <2>1, HeadTail
<1> HIDE DEF h, q, n
<1>4. /\ DOMAIN r = Fields /\ r.queue = pub.queue /\ r.flushing = pub.flushing /\ r.pending = q
      /\ r.acked = pub.acked /\ r.lost = pub.lost /\ r.manual = pub.manual
  BY <1>2 DEF Lists, Fields
<1> HIDE DEF r
<1>5. Lists(r, n, {h})
  BY <1>2, <1>3, <1>4 DEF Lists
<1>6. Lists(v, n, {}) /\ v.manual = r.manual
  BY <1>2, <1>3, <1>5, QueuePublishKeeps DEF v, SameControl
<1>7. ~v.manual /\ v.manual \in BOOLEAN
  BY <1>1, <1>4, <1>6 DEF IInv, Good, Settled, Control, Connection, IsClient
<1>8. Good(HandleConnectionLoss(v), n)
  BY <1>2, <1>6, <1>7, HandleConnectionLossKeeps
<1> QED
  BY <1>1, <1>2, <1>8 DEF IInv

\* The broker acknowledges an event.
LEMMA AckGood == IInv /\ Ack => IInv'
<1> SUFFICES ASSUME IInv, Ack PROVE IInv'
  OBVIOUS
<1> DEFINE n == published
           F == [pub EXCEPT !.phase = "connected", !.flushing = Tail(@),
                            !.acked = @ \cup {Head(pub.flushing)}]
           P == [pub EXCEPT !.phase = "connected", !.pending = Tail(@),
                            !.acked = @ \cup {Head(pub.pending)}]
<1>1. /\ published' = n /\ IsOpen(pub)
      /\ (pub.flushing # <<>> /\ pub' = F) \/ (pub.pending # <<>> /\ pub' = P)
  BY DEF Ack, HookStep
<1>2. Lists(pub, n, {}) /\ n \in Nat
  BY DEF IInv, Good, Settled
<1>3. ASSUME NEW q \in Seq(1..n), Once(q), q # <<>>
      PROVE  /\ Tail(q) \in Seq(1..n) /\ Once(Tail(q))
             /\ Head(q) \in ToSet(q) /\ ToSet(Tail(q)) = ToSet(q) \ {Head(q)}
  <2> HIDE DEF n, F, P
  <2> QED
    BY <1>3, HeadTail
<1> HIDE DEF n
<1>4. ASSUME NEW r, Lists(r, n, {}), r.phase = "connected", r.queue = pub.queue,
             SameControl([r EXCEPT !.phase = pub.phase], pub)
      PROVE  Good(r, n)
  <2>1. r.manual = pub.manual /\ r.timer = pub.timer
    BY <1>4 DEF SameControl, Lists, Fields
  <2>2. Control(r) /\ Connection(r) /\ Waiting(r)
    BY <1>1, <1>4, <2>1 DEF IInv, Good, Settled, Control, Phases, Connection, Waiting, IsOpen, IsClient
  <2> QED
    BY <1>4, <2>2 DEF Good, Settled
<1>5. CASE pub.flushing # <<>> /\ pub' = F
  <2> DEFINE h == Head(pub.flushing)
             q == Tail(pub.flushing)
  <2>1. /\ q \in Seq(1..n) /\ Once(q) /\ h \in ToSet(pub.flushing)
        /\ ToSet(q) = ToSet(pub.flushing) \ {h}
    BY <1>2, <1>3, <1>5 DEF Lists
  <2>2. F = [pub EXCEPT !.phase = "connected", !.flushing = q, !.acked = pub.acked \cup {h}]
    OBVIOUS
  <2> HIDE DEF h, q, F
  <2>3. /\ DOMAIN F = Fields /\ F.queue = pub.queue /\ F.pending = pub.pending /\ F.flushing = q
        /\ F.acked = pub.acked \cup {h} /\ F.lost = pub.lost /\ F.phase = "connected"
        /\ SameControl([F EXCEPT !.phase = pub.phase], pub)
    BY <1>2, <2>2 DEF Lists, Fields, SameControl
  <2>4. Lists(F, n, {})
    BY <1>2, <2>1, <2>3 DEF Lists
  <2> QED
    BY <1>1, <1>2, <1>4, <1>5, <2>3, <2>4 DEF IInv
<1>6. CASE pub.pending # <<>> /\ pub' = P
  <2> DEFINE h == Head(pub.pending)
             q == Tail(pub.pending)
  <2>1. /\ q \in Seq(1..n) /\ Once(q) /\ h \in ToSet(pub.pending)
        /\ ToSet(q) = ToSet(pub.pending) \ {h}
    BY <1>2, <1>3, <1>6 DEF Lists
  <2>2. P = [pub EXCEPT !.phase = "connected", !.pending = q, !.acked = pub.acked \cup {h}]
    OBVIOUS
  <2> HIDE DEF h, q, P
  <2>3. /\ DOMAIN P = Fields /\ P.queue = pub.queue /\ P.pending = q /\ P.flushing = pub.flushing
        /\ P.acked = pub.acked \cup {h} /\ P.lost = pub.lost /\ P.phase = "connected"
        /\ SameControl([P EXCEPT !.phase = pub.phase], pub)
    BY <1>2, <2>2 DEF Lists, Fields, SameControl
  <2>4. Lists(P, n, {})
    BY <1>2, <2>1, <2>3 DEF Lists
  <2> QED
    BY <1>1, <1>2, <1>4, <1>6, <2>3, <2>4 DEF IInv
<1> QED
  BY <1>1, <1>5, <1>6

\* A table arrives.
LEMMA CtArrivesGood == \A v : IInv /\ CtArrives(v) => IInv'
<1> SUFFICES ASSUME IInv, NEW v, CtArrives(v) PROVE IInv'
  OBVIOUS
<1> DEFINE r == [pub EXCEPT !.phase = "connected"]
<1>1. pub' = HandleCtMessage(r, tables[v]) /\ published' = published /\ IsOpen(pub)
  BY DEF CtArrives, HookStep
<1>2. SameLists(r, pub) /\ r.manual = pub.manual /\ r.timer = pub.timer /\ r.phase = "connected"
  BY DEF IInv, Good, Settled, Lists, Fields, SameLists
<1> HIDE DEF r
<1>3. Lists(r, published, {}) /\ published \in Nat
  BY <1>2, SameListsKeeps DEF IInv, Good, Settled
<1>4. Control(r) /\ Connection(r) /\ Waiting(r)
  BY <1>1, <1>2 DEF IInv, Good, Settled, Control, Phases, Connection, Waiting, SameLists, IsOpen, IsClient
<1>5. Good(r, published) /\ IsOpen(r)
  BY <1>2, <1>3, <1>4 DEF Good, Settled, IsOpen
<1> QED
  BY <1>1, <1>3, <1>5, HandleCtMessageKeeps DEF IInv

(***************************************************************************)
(* The invariant and what follows from it                                  *)
(***************************************************************************)

\* Every step keeps it.
LEMMA NextGood == IInv /\ [Next]_vars => IInv'
<1> SUFFICES ASSUME IInv, [Next]_vars PROVE IInv'
  OBVIOUS
<1>1. CASE UNCHANGED <<pub, published>>
  BY <1>1 DEF IInv
<1>2. CASE Render
  BY <1>1, <1>2 DEF Render
<1>3. CASE ConnectNowhere
  BY <1>3, ConnectNowhereGood
<1>4. CASE Disconnect
  BY <1>4, DisconnectGood
<1>5. CASE Publish
  BY <1>5, PublishGood
<1>6. CASE FailoverTimer
  BY <1>6, FailoverTimerGood
<1>7. CASE PrimaryTimer
  BY <1>7, PrimaryTimerGood
<1>8. CASE Connected
  BY <1>8, ConnectedGood
<1>9. CASE ConnectionLost \/ HealthCheck
  BY <1>9, ConnectionLostGood
<1>10. CASE GoSilent
  BY <1>10, GoSilentGood
<1>11. CASE AckTimeout
  BY <1>11, AckTimeoutGood
<1>12. CASE Ack
  BY <1>12, AckGood
<1>13. ASSUME NEW h \in Typed, Connect(h) PROVE IInv'
  BY <1>13, ConnectGood
<1>14. ASSUME NEW v \in DOMAIN tables, CtArrives(v) PROVE IInv'
  BY <1>14, CtArrivesGood
<1>15. ASSUME NEW rows \in Listings, PublishTable(rows) PROVE IInv'
  BY <1>1, <1>15 DEF PublishTable
<1>16. ASSUME NEW b \in Brokers, BrokerFails(b) \/ BrokerReturns(b) PROVE IInv'
  BY <1>1, <1>16 DEF BrokerFails, BrokerReturns
<1>17. CASE UNCHANGED vars
  BY <1>1, <1>17 DEF vars
<1> QED
  BY <1>2, <1>3, <1>4, <1>5, <1>6, <1>7, <1>8, <1>9, <1>10, <1>11, <1>12, <1>13, <1>14, <1>15,
     <1>16, <1>17 DEF Next

\* The inductive invariant holds in every reachable state.
THEOREM Invariant == Spec => []IInv
<1> QED
  BY InitGood, NextGood, PTL DEF Spec

\* usePublisher 101-131, 173-235, 438-555: no event that publish accepted is
\* forgotten.
THEOREM NothingForgottenHolds == Spec => []NothingForgotten
<1>1. IInv => NothingForgotten
  BY DEF IInv, Good, Settled, Lists, NothingForgotten, Events, Held
<1> QED
  BY <1>1, Invariant, PTL

\* usePublisher 101-131, 173-212: no event is held twice.
THEOREM HeldOnceHolds == Spec => []HeldOnce
<1>1. IInv => HeldOnce
  <2> SUFFICES ASSUME IInv PROVE HeldOnce
    OBVIOUS
  <2> DEFINE S == 1..published
             a == pub.queue \o pub.pending
  <2>1. /\ pub.queue \in Seq(S) /\ pub.pending \in Seq(S) /\ pub.flushing \in Seq(S)
        /\ Once(pub.queue) /\ Once(pub.pending) /\ Once(pub.flushing)
        /\ ToSet(pub.queue) \cap ToSet(pub.pending) = {}
        /\ (ToSet(pub.queue) \cup ToSet(pub.pending)) \cap ToSet(pub.flushing) = {}
    BY DEF IInv, Good, Settled, Lists
  <2> HIDE DEF S
  <2>2. a \in Seq(S) /\ Once(a) /\ ToSet(a) = ToSet(pub.queue) \cup ToSet(pub.pending)
    BY <2>1, ConcatOnce
  <2> HIDE DEF a
  <2>3. Once(a \o pub.flushing)
    BY <2>1, <2>2, ConcatOnce
  <2> QED
    BY <2>3 DEF HeldOnce, Once, a
<1> QED
  BY <1>1, Invariant, PTL

\* usePublisher 214-235, 307-357: a connection the user wants is never given up.
THEOREM NotStrandedHolds == Spec => []NotStranded
<1>1. IInv => NotStranded
  BY DEF IInv, Good, Waiting, NotStranded
<1> QED
  BY <1>1, Invariant, PTL

\* usePublisher 101-112, 265-272: nothing is queued behind an open connection.
THEOREM OpenMeansFlushedHolds == Spec => []OpenMeansFlushed
<1>1. IInv => OpenMeansFlushed
  BY DEF IInv, Good, Settled, Connection, OpenMeansFlushed
<1> QED
  BY <1>1, Invariant, PTL

(***************************************************************************)
(* The choice of a broker                                                  *)
(***************************************************************************)

\* Of natural numbers one is the least.
LEMMA LeastNatural ==
  ASSUME NEW T, T \subseteq Nat, T # {}
  PROVE  \E m \in T : \A k \in T : m <= k
<1> DEFINE R == {ss \in Nat \X Nat : ss[1] < ss[2]}
<1>1. IsWellFoundedOn(R, Nat)
  BY NatLessThanWellFounded DEF OpToRel
<1>2. \A x, y \in Nat : x < y => <<x, y>> \in R
  OBVIOUS
<1> HIDE DEF R
<1>3. PICK m \in T : \A k \in T : ~(<<k, m>> \in R)
  BY <1>1, WFMin
<1>4. \A k \in T : ~(k < m)
  BY <1>2, <1>3
<1>5. \A k \in T : m <= k
  BY <1>4
<1> QED
  BY <1>5

\* Of places in a sequence one is the first.
LEMMA FirstPlace ==
  ASSUME NEW Hits, Hits \subseteq Nat, Hits # {}
  PROVE  (CHOOSE i \in Hits : \A j \in Hits : i <= j) \in Hits
<1>1. \E i \in Hits : \A j \in Hits : i <= j
  BY LeastNatural
<1> QED
  BY <1>1, Zenon

\* What find returns is in the array, or there is nothing to find.
LEMMA FirstNodeFound ==
  ASSUME NEW nodes, NEW Hits, Hits \subseteq DOMAIN nodes, DOMAIN nodes \subseteq Nat
  PROVE  FirstNode(nodes, Hits) = NoNode \/ \E i \in DOMAIN nodes : FirstNode(nodes, Hits) = nodes[i]
<1>1. CASE Hits = {}
  BY <1>1 DEF FirstNode
<1>2. CASE Hits # {}
  <2>1. PICK i \in Hits : i = CHOOSE k \in Hits : \A j \in Hits : k <= j
    BY <1>2, FirstPlace
  <2>2. FirstNode(nodes, Hits) = nodes[i]
    BY <1>2, <2>1 DEF FirstNode
  <2> QED
    BY <2>1, <2>2
<1> QED
  BY <1>1, <1>2

\* A link between two nodes has an RTT or counts as infinitely far.
LEMMA RttNumber ==
  ASSUME NEW links, DOMAIN links \subseteq Nat, NEW from, NEW to,
         \A i \in DOMAIN links : links[i].rtt_ms \in Nat \cup {NotANumber}
  PROVE  GetRtt(links, from, to) \in Nat
<1> DEFINE Hits == {i \in DOMAIN links : {links[i].from_id, links[i].to_id} = {from, to}}
           first == CHOOSE i \in Hits : \A j \in Hits : i <= j
           rtt   == links[first].rtt_ms
<1>1. Infinity \in Nat
  BY DEF Infinity
<1>2. GetRtt(links, from, to) = IF from = "" \/ Hits = {} \/ rtt = NotANumber THEN Infinity ELSE rtt
  BY DEF GetRtt
<1>3. Hits # {} => rtt \in Nat \cup {NotANumber}
  <2>1. Hits \subseteq DOMAIN links
    OBVIOUS
  <2> HIDE DEF Hits
  <2>2. Hits # {} => first \in Hits
    BY <2>1, FirstPlace
  <2> QED
    BY <2>1, <2>2
<1> HIDE DEF Hits, rtt
<1> QED
  BY <1>1, <1>2, <1>3

\* Candidates that can be compared.
Comparable(C) == \A c \in C : c.rtt \in Nat /\ c.hop \in Nat /\ c.at \in Nat

\* pickBestCandidate: of candidates one is kept against all of them, so the loop
\* ends with a broker whenever one is not skipped.
LEMMA OneIsKept ==
  ASSUME NEW C, C # {}, Comparable(C)
  PROVE  \E c \in C : \A other \in C : IsKept(c, other)
<1>1. PICK near \in C : \A other \in C : near.rtt <= other.rtt
  <2> DEFINE R == {c.rtt : c \in C}
  <2>1. R \subseteq Nat /\ R # {}
    BY DEF Comparable
  <2>2. PICK r \in R : \A k \in R : r <= k
    BY <2>1, LeastNatural
  <2> QED
    BY <2>2
<1> DEFINE N == {c \in C : c.rtt = near.rtt}
<1>2. PICK high \in N : \A other \in N : high.hop <= other.hop
  <2> DEFINE H == {c.hop : c \in N}
  <2>1. H \subseteq Nat /\ H # {}
    BY DEF Comparable
  <2>2. PICK h \in H : \A k \in H : h <= k
    BY <2>1, LeastNatural
  <2> QED
    BY <2>2
<1> DEFINE B == {c \in N : c.hop = high.hop}
<1>3. PICK first \in B : \A other \in B : first.at <= other.at
  <2> DEFINE A == {c.at : c \in B}
  <2>1. A \subseteq Nat /\ A # {}
    BY DEF Comparable
  <2>2. PICK a \in A : \A k \in A : a <= k
    BY <2>1, LeastNatural
  <2> QED
    BY <2>2
<1>4. first \in C /\ first.rtt = near.rtt /\ first.hop = high.hop
  OBVIOUS
<1>5. ASSUME NEW other \in C PROVE IsKept(first, other)
  <2>1. /\ first.rtt \in Nat /\ first.hop \in Nat /\ first.at \in Nat
        /\ other.rtt \in Nat /\ other.hop \in Nat /\ other.at \in Nat
        /\ first.rtt <= other.rtt
    BY <1>1, <1>4, <1>5 DEF Comparable
  <2>2. CASE first.rtt < other.rtt
    BY <2>2 DEF IsKept, IsBetterCandidate
  <2>3. CASE first.rtt = other.rtt
    <3>1. other \in N /\ first.hop <= other.hop
      BY <1>2, <1>4, <2>3
    <3>2. CASE first.hop < other.hop
      BY <2>3, <3>2 DEF IsKept, IsBetterCandidate
    <3>3. CASE first.hop = other.hop
      <4>1. first.at <= other.at
        BY <1>3, <1>4, <3>1, <3>3
      <4> QED
        BY <2>1, <2>3, <3>3, <4>1 DEF IsKept, IsBetterCandidate
    <3> QED
      BY <2>1, <3>1, <3>2, <3>3
  <2> QED
    BY <2>1, <2>2, <2>3
<1> QED
  BY <1>4, <1>5

\* A table whose rows are brokers.
Listed(ct) ==
  /\ DOMAIN ct.nodes \subseteq Nat /\ DOMAIN ct.links \subseteq Nat
  /\ \A i \in DOMAIN ct.nodes : /\ ct.nodes[i].id \in Brokers /\ ct.nodes[i].ip \in Brokers
                                /\ ct.nodes[i].hop_to_core \in Nat
  /\ \A i \in DOMAIN ct.links : ct.links[i].rtt_ms \in Nat \cup {NotANumber}

\* The answer of a selection: a row of the table or none.
FoundIn(node, ct) == node = NoNode \/ \E i \in DOMAIN ct.nodes : node = ct.nodes[i]

\* pickBestCandidate chooses a row of the table.
LEMMA PickFound ==
  ASSUME NEW ct, Listed(ct), NEW primaryId, NEW role, NEW primaryIp
  PROVE  FoundIn(PickBestCandidate(ct.nodes, ct.links, primaryId, role, primaryIp), ct)
<1> DEFINE nodes == ct.nodes
           Hits  == {i \in DOMAIN nodes : IsBrokerNode(nodes[i], role)
                                         /\ ~IsExcludedNode(nodes[i], primaryId, primaryIp)}
           Cand(i) == BuildCandidate(nodes, ct.links, primaryId, i)
           C     == {Cand(i) : i \in Hits}
           best  == CHOOSE c \in C : \A other \in C : IsKept(c, other)
<1>1. PickBestCandidate(nodes, ct.links, primaryId, role, primaryIp)
        = IF Hits = {} THEN NoNode ELSE best.node
  BY DEF PickBestCandidate
<1>2. Hits \subseteq DOMAIN nodes
  OBVIOUS
<1> HIDE DEF Hits
<1>3. ASSUME NEW i \in Hits
      PROVE  Cand(i).node = nodes[i] /\ Cand(i).rtt \in Nat /\ Cand(i).hop \in Nat /\ Cand(i).at \in Nat
  <2>1. PICK rtt \in Nat : rtt = GetRtt(ct.links, primaryId, nodes[i].id)
    BY RttNumber DEF Listed
  <2>2. PICK hop \in Nat : hop = HopOf(nodes[i])
    BY <1>2, <1>3 DEF Listed, HopOf
  <2>3. i \in Nat
    BY <1>2, <1>3 DEF Listed
  <2>4. Cand(i) = [node |-> nodes[i], at |-> i, rtt |-> rtt, hop |-> hop]
    BY <2>1, <2>2 DEF BuildCandidate
  <2> QED
    BY <2>3, <2>4
<1> HIDE DEF nodes, Cand
<1>4. Comparable(C) /\ (Hits # {} => C # {})
  BY <1>3 DEF Comparable
<1>5. \A c \in C : \E i \in Hits : c.node = nodes[i]
  BY <1>3
<1> HIDE DEF C
<1>6. Hits # {} => best \in C
  <2>1. Hits # {} => \E c \in C : \A other \in C : IsKept(c, other)
    BY <1>4, OneIsKept
  <2> QED
    BY <2>1, Zenon
<1> HIDE DEF best
<1>7. Hits # {} => \E i \in DOMAIN nodes : best.node = nodes[i]
  BY <1>2, <1>5, <1>6
<1> QED
  BY <1>1, <1>7 DEF FoundIn, nodes

\* Array.prototype.find on a table.
LEMMA FirstFound ==
  ASSUME NEW ct, Listed(ct), NEW Hits, Hits \subseteq DOMAIN ct.nodes
  PROVE  FoundIn(FirstNode(ct.nodes, Hits), ct)
<1>1. DOMAIN ct.nodes \subseteq Nat
  BY DEF Listed
<1> QED
  BY <1>1, FirstNodeFound DEF FoundIn

\* findPreferredCoreBroker returns a row of the table or none.
LEMMA CoreFound ==
  ASSUME NEW ct, Listed(ct), NEW primaryId
  PROVE  FoundIn(FindPreferredCoreBroker(ct, primaryId), ct)
<1> DEFINE Core(id) == FirstNode(ct.nodes, {i \in DOMAIN ct.nodes :
                               ct.nodes[i].id = id /\ IsBrokerNode(ct.nodes[i], "CORE")})
           picked   == PickBestCandidate(ct.nodes, ct.links, primaryId, "CORE", "")
<1>1. ASSUME NEW id PROVE FoundIn(Core(id), ct)
  BY FirstFound
<1>2. FoundIn(picked, ct)
  BY PickFound
<1>3. FindPreferredCoreBroker(ct, primaryId) =
        CASE Core(ct.active_core_id) # NoNode -> Core(ct.active_core_id)
          [] Core(ct.backup_core_id) # NoNode -> Core(ct.backup_core_id)
          [] OTHER -> picked
  BY DEF FindPreferredCoreBroker
<1> HIDE DEF Core, picked
<1>4. CASE Core(ct.active_core_id) = NoNode /\ Core(ct.backup_core_id) = NoNode
  BY <1>2, <1>3, <1>4
<1>5. FindPreferredCoreBroker(ct, primaryId) \in {Core(ct.active_core_id), Core(ct.backup_core_id), picked}
  BY <1>3
<1> QED
  BY <1>1, <1>2, <1>5

\* selectFallbackBroker returns a row of the table or none.
LEMMA FallbackFound ==
  ASSUME NEW ct, Listed(ct), NEW primaryId, NEW primaryIp
  PROVE  FoundIn(SelectFallbackBroker(ct, primaryId, primaryIp), ct)
<1>1. FoundIn(PickBestCandidate(ct.nodes, ct.links, primaryId, "NODE", primaryIp), ct)
  BY PickFound
<1> QED
  BY <1>1, CoreFound DEF SelectFallbackBroker

\* The URL of a row of a table is one of a broker.
LEMMA FoundUrl ==
  ASSUME NEW ct, Listed(ct), NEW node, FoundIn(node, ct), node # NoNode
  PROVE  BuildBrokerUrl(node.ip) \in Urls
<1>1. PICK ip \in Brokers : ip = node.ip
  BY DEF FoundIn, Listed
<1> QED
  BY <1>1 DEF BuildBrokerUrl, Urls

\* resolvePrimaryEdgeId returns the id of a broker or none.
LEMMA PrimaryIdFound ==
  ASSUME NEW ct, Listed(ct), NEW ip
  PROVE  ResolvePrimaryEdgeId(ct, ip) \in Brokers \cup {""}
<1> DEFINE Hits == {i \in DOMAIN ct.nodes : ct.nodes[i].role = "NODE" /\ ct.nodes[i].ip = ip}
<1>1. PICK node : node = FirstNode(ct.nodes, Hits)
  OBVIOUS
<1>2. Hits \subseteq DOMAIN ct.nodes
  OBVIOUS
<1>3. ResolvePrimaryEdgeId(ct, ip) = node.id
  BY <1>1 DEF ResolvePrimaryEdgeId
<1> HIDE DEF Hits
<1>4. FoundIn(node, ct)
  BY <1>1, <1>2, FirstFound
<1>5. node = NoNode => node.id = ""
  <2>1. NoNode.id = ""
    BY DEF NoNode
  <2> QED
    BY <2>1
<1>6. node # NoNode => node.id \in Brokers
  BY <1>4 DEF FoundIn, Listed
<1> QED
  BY <1>3, <1>5, <1>6

(***************************************************************************)
(* The values of the refs                                                  *)
(***************************************************************************)

\* A sequence stays one over its set when it is cut, reversed or extended.
LEMMA PiecesIn ==
  ASSUME NEW S, NEW q \in Seq(S)
  PROVE  /\ ToSet(q) \subseteq S
         /\ Reverse(q) \in Seq(S)
         /\ \A p \in Seq(S) : q \o p \in Seq(S)
         /\ q # <<>> => Head(q) \in S /\ Tail(q) \in Seq(S)
         /\ \A cut \in 0..Len(q) : /\ SubSeq(q, cut + 1, Len(q)) \in Seq(S)
                                   /\ ToSet(SubSeq(q, 1, cut)) \subseteq S
<1>1. Len(q) \in Nat /\ DOMAIN q = 1..Len(q) /\ \A i \in 1..Len(q) : q[i] \in S
  OBVIOUS
<1>2. ToSet(q) \subseteq S
  BY <1>1 DEF ToSet
<1>3. Reverse(q) \in Seq(S)
  <2>1. \A i \in 1..Len(q) : q[(Len(q) - i) + 1] \in S
    BY <1>1
  <2> QED
    BY <1>1, <2>1 DEF Reverse
<1>4. ASSUME NEW cut \in 0..Len(q)
      PROVE  SubSeq(q, cut + 1, Len(q)) \in Seq(S) /\ ToSet(SubSeq(q, 1, cut)) \subseteq S
  <2> DEFINE front == SubSeq(q, 1, cut)
  <2>1. DOMAIN front = 1..cut /\ \A i \in 1..cut : front[i] = q[i] /\ i \in 1..Len(q)
    BY <1>1
  <2>2. SubSeq(q, cut + 1, Len(q)) \in Seq(S)
    BY <1>1
  <2> HIDE DEF front
  <2>3. ToSet(front) \subseteq S
    BY <1>1, <2>1 DEF ToSet
  <2> QED
    BY <2>2, <2>3 DEF front
<1>5. q # <<>> => Head(q) \in S /\ Tail(q) \in Seq(S)
  OBVIOUS
<1>6. \A p \in Seq(S) : q \o p \in Seq(S)
  OBVIOUS
<1> QED
  BY <1>2, <1>3, <1>4, <1>5, <1>6

\* The tables a client may hold.
Readable(T) == \A ct \in T : Listed(ct)

\* The refs that are not about control, over the events 1..n and the tables T.
Refs(s, n, T) ==
  /\ DOMAIN s = Fields
  /\ s.url \in Urls /\ s.primary \in Urls /\ s.core \in Urls
  /\ s.onFallback \in BOOLEAN
  /\ s.primaryId \in Brokers \cup {""}
  /\ s.ct \in T
  /\ s.queue \in Seq(1..n) /\ s.pending \in Seq(1..n) /\ s.flushing \in Seq(1..n)
  /\ s.acked \subseteq 1..n /\ s.lost \subseteq 1..n

\* What the user typed is a URL or none.
LEMMA NoUrlIn == NoUrl \in Urls /\ \A h \in Brokers : TypedUrl(h) \in Urls /\ TypedUrl(h).host = h
  BY DEF Urls, TypedUrl

\* queuePublish for each of es.
LEMMA EnqueueRefs ==
  ASSUME NEW s, NEW n \in Nat, NEW T, Refs(s, n, T), NEW es \in Seq(1..n)
  PROVE  Refs(Enqueue(s, es), n, T)
<1> DEFINE all  == s.queue \o es
           room == IF Len(s.queue) >= MAX_QUEUE THEN Len(s.queue)
                   ELSE IF Len(all) <= MAX_QUEUE THEN Len(all) ELSE MAX_QUEUE
           cut  == Len(all) - room
           back == SubSeq(all, cut + 1, Len(all))
           out  == ToSet(SubSeq(all, 1, cut))
<1>1. s.queue \in Seq(1..n)
  BY DEF Refs
<1>2. all \in Seq(1..n)
  BY <1>1
<1>3. cut \in 0..Len(all)
  <2>1. /\ Len(s.queue) \in Nat /\ Len(es) \in Nat /\ MAX_QUEUE \in Nat
        /\ Len(all) = Len(s.queue) + Len(es)
    <3> HIDE DEF cut, room, back, out
    <3> QED
      BY <1>1, ConcatLen, PublisherConstants
  <2>2. cut = Len(all) - (IF Len(s.queue) >= MAX_QUEUE THEN Len(s.queue)
                          ELSE IF Len(all) <= MAX_QUEUE THEN Len(all) ELSE MAX_QUEUE)
    BY DEF cut, room
  <2> HIDE DEF all, cut, room, back, out
  <2> QED
    BY <2>1, <2>2, CutBound
<1>4. back \in Seq(1..n) /\ out \subseteq 1..n
  <2> HIDE DEF all, cut
  <2> QED
    BY <1>2, <1>3, PiecesIn
<1>5. Enqueue(s, es) = [s EXCEPT !.queue = back, !.lost = @ \cup out]
  BY DEF Enqueue
<1> HIDE DEF all, room, cut, back, out
<1> QED
  BY <1>4, <1>5 DEF Refs, Fields

\* queuePublish of one event.
LEMMA QueuePublishRefs ==
  ASSUME NEW s, NEW n \in Nat, NEW T, Refs(s, n, T), NEW e \in 1..n
  PROVE  Refs(QueuePublish(s, e), n, T)
<1>1. <<e>> \in Seq(1..n)
  OBVIOUS
<1>2. Refs(Enqueue(s, <<e>>), n, T)
  BY <1>1, EnqueueRefs
<1> QED
  BY <1>2 DEF QueuePublish

\* clearPendingPublishes('queue').
LEMMA QueuePendingRefs ==
  ASSUME NEW s, NEW n \in Nat, NEW T, Refs(s, n, T)
  PROVE  Refs(QueuePending(s), n, T)
<1>1. s.pending \in Seq(1..n)
  BY DEF Refs
<1>2. PICK r : r = Enqueue(s, s.pending)
  OBVIOUS
<1>3. Refs(r, n, T)
  BY <1>1, <1>2, EnqueueRefs
<1>4. QueuePending(s) = [r EXCEPT !.pending = <<>>]
  BY <1>2 DEF QueuePending
<1>5. DOMAIN r = Fields
  BY <1>3 DEF Refs
<1> DEFINE w == QueuePending(s)
<1>6. /\ DOMAIN w = Fields /\ w.pending = <<>>
      /\ w.url = r.url /\ w.primary = r.primary /\ w.core = r.core
      /\ w.onFallback = r.onFallback /\ w.primaryId = r.primaryId /\ w.ct = r.ct
      /\ w.queue = r.queue /\ w.flushing = r.flushing
      /\ w.acked = r.acked /\ w.lost = r.lost
  BY <1>4, <1>5 DEF Fields
<1> HIDE DEF w
<1> QED
  BY <1>3, <1>6, EmptyOnce DEF Refs, w

\* The error callbacks.
LEMMA FailInFlightRefs ==
  ASSUME NEW s, NEW n \in Nat, NEW T, Refs(s, n, T)
  PROVE  Refs(FailInFlight(s), n, T)
<1> DEFINE u == [s EXCEPT !.queue = Reverse(s.flushing) \o @, !.flushing = <<>>]
<1>1. s.flushing \in Seq(1..n) /\ s.queue \in Seq(1..n)
  BY DEF Refs
<1>2. PICK back \in Seq(1..n) : back = Reverse(s.flushing)
  BY <1>1, PiecesIn
<1>3. back \o s.queue \in Seq(1..n)
  BY <1>1, <1>2
<1>4. u = [s EXCEPT !.queue = back \o s.queue, !.flushing = <<>>]
  BY <1>2
<1>5. FailInFlight(s) = IF s.pending = <<>> \/ s.manual THEN u
                        ELSE [QueuePending(u) EXCEPT !.url = NoUrl, !.timer = "failover"]
  BY DEF FailInFlight
<1> HIDE DEF u
<1>6. Refs(u, n, T)
  <2>1. /\ DOMAIN u = Fields /\ u.queue = back \o s.queue /\ u.flushing = <<>>
        /\ \A f \in Fields \ {"queue", "flushing"} : u[f] = s[f]
    BY <1>4 DEF Refs, Fields
  <2> QED
    BY <1>3, <2>1, EmptyOnce DEF Refs, Fields
<1>7. PICK r : r = QueuePending(u)
  OBVIOUS
<1>8. Refs([r EXCEPT !.url = NoUrl, !.timer = "failover"], n, T)
  BY <1>6, <1>7, QueuePendingRefs, NoUrlIn DEF Refs, Fields
<1> QED
  BY <1>5, <1>6, <1>7, <1>8

\* The status and the timers are no refs of this kind.
LEMMA ControlRefs ==
  ASSUME NEW s, NEW n, NEW T, Refs(s, n, T), NEW phase, NEW timer, NEW manual
  PROVE  /\ Refs([s EXCEPT !.phase = phase], n, T)
         /\ Refs([s EXCEPT !.timer = timer], n, T)
         /\ Refs([s EXCEPT !.manual = manual], n, T)
         /\ Refs([s EXCEPT !.timer = timer, !.phase = phase], n, T)
<1>1. Refs([s EXCEPT !.phase = phase], n, T)
  BY DEF Refs, Fields
<1>2. Refs([s EXCEPT !.timer = timer], n, T)
  BY DEF Refs, Fields
<1>3. Refs([s EXCEPT !.manual = manual], n, T)
  BY DEF Refs, Fields
<1>4. Refs([s EXCEPT !.timer = timer, !.phase = phase], n, T)
  BY DEF Refs, Fields
<1> QED
  BY <1>1, <1>2, <1>3, <1>4

\* destroyClient.
LEMMA DestroyClientRefs ==
  ASSUME NEW s, NEW n \in Nat, NEW T, Refs(s, n, T)
  PROVE  Refs(DestroyClient(s), n, T)
<1>1. PICK r : r = [s EXCEPT !.timer = "none", !.phase = "disconnected"]
  OBVIOUS
<1>2. Refs(r, n, T)
  BY <1>1, ControlRefs
<1> QED
  BY <1>1, <1>2, FailInFlightRefs DEF DestroyClient

\* handleConnectionLoss.
LEMMA HandleConnectionLossRefs ==
  ASSUME NEW s, NEW n \in Nat, NEW T, Refs(s, n, T)
  PROVE  Refs(HandleConnectionLoss(s), n, T)
<1>1. PICK q : q = QueuePending(s)
  OBVIOUS
<1>2. Refs(q, n, T)
  BY <1>1, QueuePendingRefs
<1>3. PICK r : r = [q EXCEPT !.url = NoUrl]
  OBVIOUS
<1>4. Refs(r, n, T)
  BY <1>2, <1>3, NoUrlIn DEF Refs, Fields
<1>5. PICK d : d = DestroyClient(r)
  OBVIOUS
<1>6. Refs([d EXCEPT !.timer = "failover"], n, T)
  BY <1>4, <1>5, DestroyClientRefs, ControlRefs
<1> QED
  BY <1>1, <1>3, <1>5, <1>6 DEF HandleConnectionLoss

\* connectToBroker.
LEMMA ConnectToBrokerRefs ==
  ASSUME NEW s, NEW n \in Nat, NEW T, Refs(s, n, T), NEW url \in Urls
  PROVE  Refs(ConnectToBroker(s, url), n, T)
<1>1. PICK d : d = DestroyClient(s)
  OBVIOUS
<1>2. Refs(d, n, T)
  BY <1>1, DestroyClientRefs
<1>3. Refs([d EXCEPT !.url = url, !.phase = "connecting"], n, T)
  BY <1>2 DEF Refs, Fields
<1> QED
  BY <1>1, <1>3 DEF ConnectToBroker

\* Dialling another broker than the primary is a fallback.
LEMMA FailoverToRefs ==
  ASSUME NEW s, NEW n \in Nat, NEW T, Refs(s, n, T), NEW url \in Urls
  PROVE  Refs(FailoverTo(s, url), n, T)
<1>1. PICK r : r = [s EXCEPT !.onFallback = (url # s.primary)]
  OBVIOUS
<1>2. PICK b \in BOOLEAN : b = (url # s.primary)
  OBVIOUS
<1>3. r = [s EXCEPT !.onFallback = b]
  BY <1>1, <1>2
<1>4. Refs(r, n, T)
  BY <1>3 DEF Refs, Fields
<1> QED
  BY <1>1, <1>4, ConnectToBrokerRefs DEF FailoverTo

\* attemptFailover dials a core it remembers or a row of the table.
LEMMA AttemptFailoverRefs ==
  ASSUME NEW s, NEW n \in Nat, NEW T, Refs(s, n, T), Readable(T)
  PROVE  Refs(AttemptFailover(s), n, T)
<1> DEFINE selected == SelectFallbackBroker(s.ct, s.primaryId, s.primary.host)
           built    == BuildBrokerUrl(selected.ip)
           target   == IF built = s.primary /\ s.core \notin {NoUrl, built} THEN s.core ELSE built
<1>1. s.core \in Urls /\ Listed(s.ct)
  BY DEF Refs, Readable
<1>2. FoundIn(selected, s.ct)
  BY <1>1, FallbackFound
<1>3. selected # NoNode => built \in Urls
  <2> HIDE DEF selected
  <2> QED
    BY <1>1, <1>2, FoundUrl
<1>4. selected # NoNode => target \in Urls
  <2> HIDE DEF selected, built
  <2> QED
    BY <1>1, <1>3
<1>5. Refs(SchedulePrimaryRetry(s), n, T)
  BY ControlRefs DEF SchedulePrimaryRetry
<1>6. Refs(FailoverTo(s, s.core), n, T)
  BY <1>1, FailoverToRefs
<1>7. selected # NoNode => Refs(FailoverTo(s, target), n, T)
  <2> HIDE DEF selected, target
  <2> QED
    BY <1>4, FailoverToRefs
<1>8. AttemptFailover(s) =
        CASE s.manual -> s
          [] ~s.manual /\ s.ct.nodes = <<>> ->
               IF s.core # NoUrl THEN FailoverTo(s, s.core) ELSE SchedulePrimaryRetry(s)
          [] OTHER -> IF selected = NoNode \/ target = s.url
                      THEN SchedulePrimaryRetry(s)
                      ELSE FailoverTo(s, target)
  BY DEF AttemptFailover
<1> HIDE DEF selected, target, built
<1>9. \/ AttemptFailover(s) = s
      \/ AttemptFailover(s) = FailoverTo(s, s.core)
      \/ AttemptFailover(s) = SchedulePrimaryRetry(s)
      \/ selected # NoNode /\ AttemptFailover(s) = FailoverTo(s, target)
  <2>1. CASE s.manual
    BY <1>8, <2>1, Zenon
  <2>2. CASE ~s.manual /\ s.ct.nodes = <<>>
    BY <1>8, <2>2
  <2>3. CASE ~s.manual /\ s.ct.nodes # <<>>
    BY <1>8, <2>3
  <2> QED
    BY <2>1, <2>2, <2>3
<1> QED
  BY <1>5, <1>6, <1>7, <1>9, Zenon

\* rememberPreferredCore.
LEMMA RememberRefs ==
  ASSUME NEW s, NEW n \in Nat, NEW T, Refs(s, n, T), Readable(T)
  PROVE  Refs(RememberPreferredCore(s), n, T)
<1>1. Listed(s.ct)
  BY DEF Refs, Readable
<1>2. PICK preferred : preferred = FindPreferredCoreBroker(s.ct, s.primaryId)
  OBVIOUS
<1>3. FoundIn(preferred, s.ct)
  BY <1>1, <1>2, CoreFound
<1>4. ASSUME preferred # NoNode PROVE Refs([s EXCEPT !.core = BuildBrokerUrl(preferred.ip)], n, T)
  <2>1. PICK url \in Urls : url = BuildBrokerUrl(preferred.ip)
    BY <1>1, <1>3, <1>4, FoundUrl
  <2>2. Refs([s EXCEPT !.core = url], n, T)
    BY DEF Refs, Fields
  <2> QED
    BY <2>1, <2>2
<1> QED
  BY <1>2, <1>4 DEF RememberPreferredCore

\* resolvePrimaryEdgeId into its ref.
LEMMA ResolveRefs ==
  ASSUME NEW s, NEW n \in Nat, NEW T, Refs(s, n, T), Readable(T)
  PROVE  Refs(ResolvePrimary(s), n, T)
<1>1. Listed(s.ct)
  BY DEF Refs, Readable
<1>2. PICK id \in Brokers \cup {""} : id = ResolvePrimaryEdgeId(s.ct, s.primary.host)
  BY <1>1, PrimaryIdFound
<1>3. Refs([s EXCEPT !.primaryId = id], n, T)
  BY DEF Refs, Fields
<1> QED
  BY <1>2, <1>3 DEF ResolvePrimary

\* handleCtMessage.
LEMMA HandleCtMessageRefs ==
  ASSUME NEW s, NEW n \in Nat, NEW T, Refs(s, n, T), Readable(T), NEW ct \in T
  PROVE  Refs(HandleCtMessage(s, ct), n, T)
<1>1. PICK a : a = [s EXCEPT !.ct = ct]
  OBVIOUS
<1>2. Refs(a, n, T)
  BY <1>1 DEF Refs, Fields
<1>3. PICK b : b = RememberPreferredCore(a)
  OBVIOUS
<1>4. Refs(b, n, T)
  BY <1>2, <1>3, RememberRefs
<1>5. PICK known : known = ResolvePrimary(b)
  OBVIOUS
<1>6. Refs(known, n, T)
  BY <1>4, <1>5, ResolveRefs
<1>7. PICK c : c = [known EXCEPT !.onFallback = FALSE]
  OBVIOUS
<1>8. Refs(c, n, T) /\ known.primary \in Urls
  BY <1>6, <1>7 DEF Refs, Fields
<1>9. Refs(ConnectToBroker(c, known.primary), n, T)
  BY <1>8, ConnectToBrokerRefs
<1>10. Refs(AttemptFailover(known), n, T)
  BY <1>6, AttemptFailoverRefs
<1>11. HandleCtMessage(s, ct) =
         CASE ~ShouldAcceptCtUpdate(s.ct, ct) -> s
           [] ShouldAcceptCtUpdate(s.ct, ct) /\ known.onFallback
                /\ ShouldReturnToPrimary(ct, known.primaryId) -> ConnectToBroker(c, known.primary)
           [] OTHER ->
                IF ~known.onFallback /\ known.primaryId # "" /\ ~ShouldReturnToPrimary(ct, known.primaryId)
                THEN AttemptFailover(known) ELSE known
  BY <1>1, <1>3, <1>5, <1>7 DEF HandleCtMessage
<1>12. HandleCtMessage(s, ct) \in {s, ConnectToBroker(c, known.primary), AttemptFailover(known), known}
  <2> DEFINE ok   == ShouldAcceptCtUpdate(s.ct, ct)
             back == ShouldReturnToPrimary(ct, known.primaryId)
  <2>1. CASE ~ok
    BY <1>11, <2>1
  <2>2. CASE ok /\ known.onFallback /\ back
    BY <1>11, <2>2
  <2>3. CASE ok /\ ~(known.onFallback /\ back)
    BY <1>11, <2>3
  <2> QED
    BY <2>1, <2>2, <2>3
<1> QED
  BY <1>6, <1>9, <1>10, <1>12

\* The 'connect' event.
LEMMA OnConnectRefs ==
  ASSUME NEW s, NEW n \in Nat, NEW T, Refs(s, n, T)
  PROVE  Refs(OnConnect(s), n, T)
<1>1. s.flushing \in Seq(1..n) /\ s.queue \in Seq(1..n)
  BY DEF Refs
<1>2. s.flushing \o s.queue \in Seq(1..n)
  BY <1>1
<1>3. PICK q \in Seq(1..n) : q = s.flushing \o s.queue
  BY <1>2
<1>4. OnConnect(s) = [s EXCEPT !.phase = "connected", !.flushing = q, !.queue = <<>>]
  BY <1>3 DEF OnConnect
<1>5. PICK none \in Seq(1..n) : none = <<>>
  BY EmptyOnce
<1>6. Refs([s EXCEPT !.phase = "connected", !.flushing = q, !.queue = none], n, T)
  BY DEF Refs, Fields
<1> QED
  BY <1>4, <1>5, <1>6

\* More events and tables leave the refs where they were.
LEMMA RefsGrow ==
  ASSUME NEW s, NEW n \in Nat, NEW m \in Nat, n <= m, NEW T, NEW U, T \subseteq U, Refs(s, n, T)
  PROVE  Refs(s, m, U)
<1>1. 1..n \subseteq 1..m
  OBVIOUS
<1>2. \A q \in Seq(1..n) : q \in Seq(1..m)
  <2>1. SUFFICES ASSUME NEW q \in Seq(1..n) PROVE q \in Seq(1..m)
    OBVIOUS
  <2>2. Len(q) \in Nat /\ q = [i \in 1..Len(q) |-> q[i]] /\ \A i \in 1..Len(q) : q[i] \in 1..n
    OBVIOUS
  <2> DEFINE D == 1..m
  <2>3. \A i \in 1..Len(q) : q[i] \in D
    BY <1>1, <2>2
  <2> HIDE DEF D
  <2>4. q \in Seq(D)
    BY <2>2, <2>3
  <2> QED
    BY <2>4 DEF D
<1> DEFINE E == 1..n
           F == 1..m
<1>3. /\ E \subseteq F
      /\ s.queue \in Seq(F) /\ s.pending \in Seq(F) /\ s.flushing \in Seq(F)
      /\ s.acked \subseteq E /\ s.lost \subseteq E
  BY <1>1, <1>2 DEF Refs
<1> HIDE DEF E
<1>4. s.acked \subseteq F /\ s.lost \subseteq F /\ s.ct \in U
  BY <1>3 DEF Refs
<1> QED
  BY <1>3, <1>4 DEF Refs

(***************************************************************************)
(* The tables                                                              *)
(***************************************************************************)

Row  == [id : Brokers, role : {"CORE", "NODE"}, status : {"ONLINE", "OFFLINE"},
         ip : Brokers, hop_to_core : {0, 1}]
Link == [from_id : Brokers, to_id : Brokers, rtt_ms : Nat \cup {NotANumber}]
Table == [version : Nat, nodes : Seq(Row), links : Seq(Link),
          active_core_id : {ActiveCore}, backup_core_id : {BackupCore}]

KnownTables == ToSet(tables) \cup {NoTable}

\* Every table lists brokers.
LEMMA TableListed == \A ct \in Table \cup {NoTable} : Listed(ct)
<1>1. ASSUME NEW ct \in Table PROVE Listed(ct)
  <2>1. PICK nodes \in Seq(Row), links \in Seq(Link) : ct.nodes = nodes /\ ct.links = links
    BY DEF Table
  <2>2. /\ Len(nodes) \in Nat /\ DOMAIN nodes = 1..Len(nodes) /\ \A i \in 1..Len(nodes) : nodes[i] \in Row
        /\ Len(links) \in Nat /\ DOMAIN links = 1..Len(links) /\ \A i \in 1..Len(links) : links[i] \in Link
    OBVIOUS
  <2>3. DOMAIN nodes \subseteq Nat /\ DOMAIN links \subseteq Nat
    BY <2>2
  <2>4. \A i \in DOMAIN nodes : /\ nodes[i].id \in Brokers /\ nodes[i].ip \in Brokers
                                /\ nodes[i].hop_to_core \in Nat
    BY <2>2 DEF Row
  <2>5. \A i \in DOMAIN links : links[i].rtt_ms \in Nat \cup {NotANumber}
    BY <2>2 DEF Link
  <2> QED
    BY <2>1, <2>3, <2>4, <2>5 DEF Listed
<1>2. Listed(NoTable)
  <2>1. NoTable.nodes = <<>> /\ NoTable.links = <<>>
    BY DEF NoTable
  <2>2. \A e : e = <<>> => DOMAIN e = {}
    OBVIOUS
  <2>3. DOMAIN NoTable.nodes = {} /\ DOMAIN NoTable.links = {}
    BY <2>1, <2>2
  <2> QED
    BY <2>3 DEF Listed
<1> QED
  BY <1>1, <1>2

\* publish_ct: a table is one.
LEMMA PublishedTable ==
  ASSUME NEW rows \in Seq(Brokers), NEW version \in Nat
  PROVE  [version |-> version, nodes |-> [i \in DOMAIN rows |-> NodeOf(rows[i])], links |-> Links,
          active_core_id |-> ActiveCore, backup_core_id |-> BackupCore] \in Table
<1>1. \A b \in Brokers : NodeOf(b) \in Row
  BY DEF NodeOf, RoleOf, Row
<1>2. Len(rows) \in Nat /\ DOMAIN rows = 1..Len(rows) /\ \A i \in 1..Len(rows) : rows[i] \in Brokers
  OBVIOUS
<1> DEFINE nodes == [i \in DOMAIN rows |-> NodeOf(rows[i])]
<1>3. nodes \in Seq(Row)
  <2>1. \A i \in 1..Len(rows) : NodeOf(rows[i]) \in Row
    BY <1>1, <1>2
  <2> QED
    BY <1>2, <2>1
<1>4. Links \in Seq(Link)
  BY PublisherListings DEF Link
<1> HIDE DEF nodes
<1>5. [version |-> version, nodes |-> nodes, links |-> Links, active_core_id |-> ActiveCore,
       backup_core_id |-> BackupCore] \in Table
  BY <1>3, <1>4 DEF Table
<1> QED
  BY <1>5 DEF nodes

(***************************************************************************)
(* The invariant of the refs                                               *)
(***************************************************************************)

RefsInv ==
  /\ published \in Nat
  /\ tables \in Seq(Table)
  /\ up \subseteq Brokers
  /\ Refs(pub, published, KnownTables)

\* The tables a client knows can be read.
LEMMA KnownReadable == tables \in Seq(Table) => Readable(KnownTables)
<1>1. tables \in Seq(Table) => ToSet(tables) \subseteq Table
  BY PiecesIn
<1> QED
  BY <1>1, TableListed DEF Readable, KnownTables

\* Initially.
LEMMA InitRefs == Init => RefsInv
<1> SUFFICES ASSUME Init PROVE RefsInv
  OBVIOUS
<1>1. published = 0 /\ tables = <<>> /\ up = Brokers
  BY DEF Init
<1>2. tables \in Seq(Table) /\ published \in Nat
  BY <1>1, EmptyOnce
<1> DEFINE n == published
<1>3. <<>> \in Seq(1..n)
  BY EmptyOnce
<1>4. NoTable \in KnownTables
  BY DEF KnownTables
<1>5. Refs(pub, n, KnownTables)
  <2> HIDE DEF n
  <2> QED
    BY <1>3, <1>4, NoUrlIn DEF Init, Refs, Fields
<1> QED
  BY <1>1, <1>2, <1>5 DEF RefsInv

\* A step that only touches the hook keeps the invariant if it keeps the refs.
LEMMA HookStepRefs ==
  ASSUME RefsInv, HookStep, Refs(pub', published, KnownTables)
  PROVE  RefsInv'
BY DEF RefsInv, HookStep, KnownTables

\* A click on Connect.
LEMMA ConnectRefs ==
  ASSUME RefsInv, NEW h \in Typed, Connect(h)
  PROVE  RefsInv'
<1> DEFINE n == published
           T == KnownTables
<1>1. PICK url \in Urls : url = TypedUrl(h)
  BY NoUrlIn, PublisherConstants
<1>2. PICK r : r = [pub EXCEPT !.manual = FALSE, !.primary = url, !.core = NoUrl,
                               !.onFallback = FALSE, !.primaryId = "", !.ct = NoTable]
  OBVIOUS
<1>3. pub' = ConnectToBroker(r, url) /\ HookStep
  BY <1>1, <1>2 DEF Connect, HookStep
<1>4. n \in Nat /\ NoTable \in T /\ Refs(pub, n, T)
  BY DEF RefsInv, KnownTables
<1> HIDE DEF n, T
<1>5. Refs(r, n, T)
  BY <1>2, <1>4, NoUrlIn DEF Refs, Fields
<1>6. Refs(pub', n, T)
  BY <1>3, <1>4, <1>5, ConnectToBrokerRefs
<1> QED
  BY <1>3, <1>6, HookStepRefs DEF n, T

\* A click on Connect with no URL.
LEMMA ConnectNowhereRefs ==
  ASSUME RefsInv, ConnectNowhere
  PROVE  RefsInv'
<1> DEFINE n == published
           T == KnownTables
<1>1. n \in Nat /\ Refs(pub, n, T)
  BY DEF RefsInv
<1>2. PICK r : r = [pub EXCEPT !.manual = FALSE]
  OBVIOUS
<1>3. PICK d : d = DestroyClient(r)
  OBVIOUS
<1>4. pub' = [d EXCEPT !.phase = "error"] /\ HookStep
  BY <1>2, <1>3 DEF ConnectNowhere, HookStep
<1> HIDE DEF n, T
<1>5. Refs(r, n, T)
  BY <1>1, <1>2, ControlRefs
<1>6. Refs(d, n, T)
  BY <1>1, <1>3, <1>5, DestroyClientRefs
<1>7. Refs(pub', n, T)
  BY <1>4, <1>6, ControlRefs
<1> QED
  BY <1>4, <1>7, HookStepRefs DEF n, T

\* A click on Disconnect.
LEMMA DisconnectRefs ==
  ASSUME RefsInv, Disconnect
  PROVE  RefsInv'
<1> DEFINE n == published
           T == KnownTables
           E == 1..n
<1>1. n \in Nat /\ NoTable \in T /\ Refs(pub, n, T)
  BY DEF RefsInv, KnownTables
<1>2. PICK lost : lost = pub.lost \cup ToSet(pub.queue) \cup ToSet(pub.pending)
  OBVIOUS
<1>3. pub.queue \in Seq(E) /\ pub.pending \in Seq(E) /\ pub.lost \subseteq E
  BY <1>1 DEF Refs
<1>4. lost \subseteq E
  <2> HIDE DEF E
  <2> QED
    BY <1>2, <1>3, PiecesIn
<1>5. PICK none \in Seq(E) : none = <<>>
  BY EmptyOnce
<1>6. PICK r : r = [pub EXCEPT !.manual = TRUE, !.primary = NoUrl, !.core = NoUrl,
                               !.onFallback = FALSE, !.ct = NoTable, !.url = NoUrl,
                               !.queue = none, !.pending = none, !.lost = lost]
  OBVIOUS
<1>7. pub' = DestroyClient(r) /\ HookStep
  BY <1>2, <1>5, <1>6 DEF Disconnect, HookStep
<1> HIDE DEF n, T
<1>8. Refs(r, n, T)
  BY <1>1, <1>4, <1>5, <1>6, NoUrlIn DEF Refs, Fields
<1>9. Refs(pub', n, T)
  BY <1>1, <1>7, <1>8, DestroyClientRefs
<1> QED
  BY <1>7, <1>9, HookStepRefs DEF n, T

\* A publication.
LEMMA PublishRefs ==
  ASSUME RefsInv, Publish
  PROVE  RefsInv'
<1> DEFINE n == published
           T == KnownTables
           m == n + 1
<1>1. n \in Nat /\ Refs(pub, n, T) /\ tables \in Seq(Table) /\ up \subseteq Brokers
  BY DEF RefsInv
<1>2. m \in Nat /\ n <= m /\ m \in 1..m
  BY <1>1
<1>3. published' = m /\ tables' = tables /\ up' = up
  BY DEF Publish
<1>4. \/ pub' = [pub EXCEPT !.pending = Append(@, m)]
      \/ pub' = HandleConnectionLoss(QueuePublish(pub, m))
  BY DEF Publish
<1> HIDE DEF n, T, m
<1>5. Refs(pub, m, T)
  BY <1>1, <1>2, RefsGrow
<1>6. Refs([pub EXCEPT !.pending = Append(@, m)], m, T)
  <2>1. pub.pending \in Seq(1..m)
    BY <1>5 DEF Refs
  <2>2. Append(pub.pending, m) \in Seq(1..m)
    BY <1>2, <2>1
  <2>3. PICK q \in Seq(1..m) : q = Append(pub.pending, m)
    BY <2>2
  <2>4. Refs([pub EXCEPT !.pending = q], m, T)
    BY <1>5 DEF Refs, Fields
  <2> QED
    BY <2>3, <2>4
<1>7. Refs(HandleConnectionLoss(QueuePublish(pub, m)), m, T)
  <2>1. PICK v : v = QueuePublish(pub, m)
    OBVIOUS
  <2>2. Refs(v, m, T)
    BY <1>2, <1>5, <2>1, QueuePublishRefs
  <2> QED
    BY <1>2, <2>1, <2>2, HandleConnectionLossRefs
<1>8. Refs(pub', m, T)
  BY <1>4, <1>6, <1>7
<1>9. KnownTables' = T
  BY <1>3 DEF KnownTables, T
<1> QED
  BY <1>1, <1>2, <1>3, <1>8, <1>9 DEF RefsInv

\* The timers.
LEMMA TimerRefs ==
  ASSUME RefsInv, FailoverTimer \/ PrimaryTimer
  PROVE  RefsInv'
<1> DEFINE n == published
           T == KnownTables
<1>1. n \in Nat /\ Refs(pub, n, T) /\ Readable(T)
  BY KnownReadable DEF RefsInv
<1>2. PICK fired : fired = [pub EXCEPT !.timer = "none"]
  OBVIOUS
<1>3. HookStep /\ pub' \in {AttemptFailover(fired), fired, ConnectToBroker(fired, pub.primary)}
  BY <1>2 DEF FailoverTimer, PrimaryTimer
<1> HIDE DEF n, T
<1>4. Refs(fired, n, T)
  BY <1>1, <1>2, ControlRefs
<1>5. Refs(AttemptFailover(fired), n, T)
  BY <1>1, <1>4, AttemptFailoverRefs
<1>6. pub.primary \in Urls
  BY <1>1 DEF Refs
<1>7. Refs(ConnectToBroker(fired, pub.primary), n, T)
  BY <1>1, <1>4, <1>6, ConnectToBrokerRefs
<1>8. Refs(pub', n, T)
  BY <1>3, <1>4, <1>5, <1>7
<1> QED
  BY <1>3, <1>8, HookStepRefs DEF n, T

\* The connection opens, goes silent or is lost.
LEMMA ClientRefs ==
  ASSUME RefsInv, Connected \/ ConnectionLost \/ GoSilent \/ HealthCheck
  PROVE  RefsInv'
<1> DEFINE n == published
           T == KnownTables
<1>1. n \in Nat /\ Refs(pub, n, T)
  BY DEF RefsInv
<1>2. /\ HookStep
      /\ pub' \in {OnConnect(pub), HandleConnectionLoss(pub), [pub EXCEPT !.phase = "silent"]}
  BY DEF Connected, ConnectionLost, GoSilent, HealthCheck
<1> HIDE DEF n, T
<1>3. Refs(OnConnect(pub), n, T) /\ Refs(HandleConnectionLoss(pub), n, T)
  BY <1>1, OnConnectRefs, HandleConnectionLossRefs
<1>4. Refs([pub EXCEPT !.phase = "silent"], n, T)
  BY <1>1, ControlRefs
<1>5. Refs(pub', n, T)
  BY <1>2, <1>3, <1>4
<1> QED
  BY <1>2, <1>5, HookStepRefs DEF n, T

\* An acknowledgement does not come in time.
LEMMA AckTimeoutRefs ==
  ASSUME RefsInv, AckTimeout
  PROVE  RefsInv'
<1> DEFINE n == published
           T == KnownTables
           E == 1..n
<1>1. n \in Nat /\ Refs(pub, n, T) /\ pub.pending # <<>> /\ pub.pending \in Seq(E)
  BY DEF RefsInv, AckTimeout, Refs
<1>2. PICK e \in E, q \in Seq(E) : e = Head(pub.pending) /\ q = Tail(pub.pending)
  <2> HIDE DEF E
  <2> QED
    BY <1>1, PiecesIn
<1>3. PICK r : r = [pub EXCEPT !.pending = q]
  OBVIOUS
<1>4. PICK v : v = QueuePublish(r, e)
  OBVIOUS
<1>5. HookStep /\ pub' = HandleConnectionLoss(v)
  BY <1>2, <1>3, <1>4 DEF AckTimeout
<1> HIDE DEF n, T
<1>6. Refs(r, n, T)
  BY <1>1, <1>3 DEF Refs, Fields
<1>7. Refs(v, n, T)
  BY <1>1, <1>2, <1>4, <1>6, QueuePublishRefs
<1>8. Refs(pub', n, T)
  BY <1>1, <1>5, <1>7, HandleConnectionLossRefs
<1> QED
  BY <1>5, <1>8, HookStepRefs DEF n, T

\* An acknowledgement.
LEMMA AckRefs ==
  ASSUME RefsInv, Ack
  PROVE  RefsInv'
<1> DEFINE n == published
           T == KnownTables
           E == 1..n
<1>1. n \in Nat /\ Refs(pub, n, T) /\ pub.pending \in Seq(E) /\ pub.flushing \in Seq(E) /\ pub.acked \subseteq E
  BY DEF RefsInv, Refs
<1>2. CASE pub.flushing # <<>>
  <2>1. PICK e \in E, q \in Seq(E) : e = Head(pub.flushing) /\ q = Tail(pub.flushing)
    <3> HIDE DEF E
    <3> QED
      BY <1>1, <1>2, PiecesIn
  <2>2. PICK acked : acked = pub.acked \cup {e}
    OBVIOUS
  <2>3. HookStep /\ pub' = [pub EXCEPT !.phase = "connected", !.flushing = q, !.acked = acked]
    BY <1>2, <2>1, <2>2 DEF Ack
  <2>4. acked \subseteq E
    BY <1>1, <2>1, <2>2
  <2> HIDE DEF n, T
  <2>5. Refs(pub', n, T)
    BY <1>1, <2>3, <2>4 DEF Refs, Fields
  <2> QED
    BY <2>3, <2>5, HookStepRefs DEF n, T
<1>3. CASE pub.flushing = <<>>
  <2>1. pub.pending # <<>>
    BY <1>3 DEF Ack
  <2>2. PICK e \in E, q \in Seq(E) : e = Head(pub.pending) /\ q = Tail(pub.pending)
    <3> HIDE DEF E
    <3> QED
      BY <1>1, <2>1, PiecesIn
  <2>3. PICK acked : acked = pub.acked \cup {e}
    OBVIOUS
  <2>4. HookStep /\ pub' = [pub EXCEPT !.phase = "connected", !.pending = q, !.acked = acked]
    BY <1>3, <2>2, <2>3 DEF Ack
  <2>5. acked \subseteq E
    BY <1>1, <2>2, <2>3
  <2> HIDE DEF n, T
  <2>6. Refs(pub', n, T)
    BY <1>1, <2>4, <2>5 DEF Refs, Fields
  <2> QED
    BY <2>4, <2>6, HookStepRefs DEF n, T
<1> QED
  BY <1>2, <1>3

\* A table arrives.
LEMMA CtArrivesRefs ==
  ASSUME RefsInv, NEW v \in DOMAIN tables, CtArrives(v)
  PROVE  RefsInv'
<1> DEFINE n == published
           T == KnownTables
<1>1. n \in Nat /\ Refs(pub, n, T) /\ Readable(T)
  BY KnownReadable DEF RefsInv
<1>2. PICK ct \in T : ct = tables[v]
  BY DEF KnownTables, ToSet
<1>3. PICK r : r = [pub EXCEPT !.phase = "connected"]
  OBVIOUS
<1>4. HookStep /\ pub' = HandleCtMessage(r, ct)
  BY <1>2, <1>3 DEF CtArrives
<1> HIDE DEF n, T
<1>5. Refs(r, n, T)
  BY <1>1, <1>3, ControlRefs
<1>6. Refs(pub', n, T)
  BY <1>1, <1>2, <1>4, <1>5, HandleCtMessageRefs
<1> QED
  BY <1>4, <1>6, HookStepRefs DEF n, T

\* A core publishes a table.
LEMMA PublishTableRefs ==
  ASSUME RefsInv, NEW rows \in Listings, PublishTable(rows)
  PROVE  RefsInv'
<1> DEFINE n == published
           T == KnownTables
<1>1. n \in Nat /\ Refs(pub, n, T) /\ tables \in Seq(Table) /\ up \subseteq Brokers
  BY DEF RefsInv
<1>2. rows \in Seq(Brokers) /\ Len(tables) + 1 \in Nat
  BY <1>1, PublisherListings
<1>3. PICK t \in Table : tables' = Append(tables, t)
  BY <1>2, PublishedTable DEF PublishTable
<1>4. pub' = pub /\ published' = n /\ up' = up
  BY DEF PublishTable
<1>5. tables' \in Seq(Table) /\ ToSet(tables) \subseteq ToSet(tables')
  <2> HIDE DEF n, T
  <2>1. /\ Len(tables) \in Nat /\ DOMAIN tables = 1..Len(tables)
        /\ Append(tables, t) \in Seq(Table)
        /\ DOMAIN Append(tables, t) = 1..(Len(tables) + 1)
        /\ \A i \in 1..Len(tables) : Append(tables, t)[i] = tables[i] /\ i \in 1..(Len(tables) + 1)
    BY <1>1, <1>3
  <2>2. ToSet(tables) \subseteq ToSet(Append(tables, t))
    BY <2>1 DEF ToSet
  <2> QED
    BY <1>3, <2>1, <2>2
<1>6. T \subseteq KnownTables'
  BY <1>5 DEF KnownTables
<1>7. Refs(pub, n, KnownTables')
  <2> HIDE DEF n, T
  <2>1. PICK U : U = KnownTables'
    OBVIOUS
  <2>2. n <= n
    BY <1>1
  <2> QED
    BY <1>1, <1>6, <2>1, <2>2, RefsGrow
<1> QED
  BY <1>1, <1>4, <1>5, <1>7 DEF RefsInv

\* Every step keeps the refs.
LEMMA NextRefs == RefsInv /\ [Next]_vars => RefsInv'
<1> SUFFICES ASSUME RefsInv, [Next]_vars PROVE RefsInv'
  OBVIOUS
<1>1. ASSUME UNCHANGED <<pub, published, tables>>, up' \subseteq Brokers PROVE RefsInv'
  BY <1>1 DEF RefsInv, KnownTables
<1>2. CASE Render
  BY <1>1, <1>2 DEF Render, RefsInv
<1>3. CASE ConnectNowhere
  BY <1>3, ConnectNowhereRefs
<1>4. CASE Disconnect
  BY <1>4, DisconnectRefs
<1>5. CASE Publish
  BY <1>5, PublishRefs
<1>6. CASE FailoverTimer \/ PrimaryTimer
  BY <1>6, TimerRefs
<1>7. CASE Connected \/ ConnectionLost \/ GoSilent \/ HealthCheck
  BY <1>7, ClientRefs
<1>8. CASE AckTimeout
  BY <1>8, AckTimeoutRefs
<1>9. CASE Ack
  BY <1>9, AckRefs
<1>10. ASSUME NEW h \in Typed, Connect(h) PROVE RefsInv'
  BY <1>10, ConnectRefs
<1>11. ASSUME NEW v \in DOMAIN tables, CtArrives(v) PROVE RefsInv'
  BY <1>11, CtArrivesRefs
<1>12. ASSUME NEW rows \in Listings, PublishTable(rows) PROVE RefsInv'
  BY <1>12, PublishTableRefs
<1>13. ASSUME NEW b \in Brokers, BrokerFails(b) \/ BrokerReturns(b) PROVE RefsInv'
  BY <1>1, <1>13 DEF BrokerFails, BrokerReturns, RefsInv
<1>14. CASE UNCHANGED vars
  BY <1>1, <1>14 DEF vars, RefsInv
<1> QED
  BY <1>2, <1>3, <1>4, <1>5, <1>6, <1>7, <1>8, <1>9, <1>10, <1>11, <1>12, <1>13, <1>14 DEF Next

\* usePublisher 20-61, 101-357, ctFailover 1-102: every ref of the hook holds what
\* the code that reads it expects: an URL is one of a broker or none, the primary
\* is a broker of a table the cores published, and nothing is acknowledged, queued
\* or given up that publish did not accept.
THEOREM PublisherTypeCorrect == Spec => []TypeOK
<1>1. Spec => []RefsInv
  BY InitRefs, NextRefs, PTL DEF Spec
<1>2. IInv /\ RefsInv => TypeOK
  <2> SUFFICES ASSUME IInv, RefsInv PROVE TypeOK
    OBVIOUS
  <2>1. Control(pub) /\ Refs(pub, published, KnownTables) /\ up \subseteq Brokers
    BY DEF IInv, Good, Settled, RefsInv
  <2> QED
    BY <2>1 DEF TypeOK, Control, Phases, Timers, Refs, KnownTables, Events
<1> QED
  BY <1>1, <1>2, Invariant, PTL
=============================================================================
