--------------------------- MODULE MsgQueueProofs ---------------------------
(***************************************************************************)
(* Proofs about the message queue, for every ring size and every number of  *)
(* messages.  The inductive invariant locates each message: Behind(i) is    *)
(* the number of posts since slot i was written, read off the tail, and     *)
(* Ahead(i) the number of slots the head still has to walk to reach it.     *)
(* Both are written with the comparisons of the code, not with a modulus.   *)
(***************************************************************************)
EXTENDS MsgQueue, TLAPS

Behind(i) == IF i < tail THEN tail - i ELSE (tail + MSG_QUEUE_MAX) - i
Ahead(i)  == IF head <= i THEN i - head ELSE (i + MSG_QUEUE_MAX) - head

\* History values are consistent: a message carries the number of a post
\* that happened, and so does everything that was delivered.
Numbered ==
    /\ epoch <= posted
    /\ \A n \in delivered : n <= posted
    /\ \A i \in Slots : IsUnread(i) => queue[i].num >= 1 /\ queue[i].num <= posted

\* The number of a message posted since the last restart is determined by
\* its distance from the tail.
Placed ==
    \A i \in Slots : (IsUnread(i) /\ queue[i].num > epoch)
        => queue[i].num + Behind(i) = posted + 1

\* The polls a message has waited and those it still has to wait fit in one
\* lap of the head.
Approaching ==
    \A i \in Slots : IsUnread(i) => queue[i].polls + Ahead(i) < MSG_QUEUE_MAX

QInv == TypeOK /\ Numbered /\ AtMostOnce /\ Placed /\ Approaching

----------------------------------------------------------------------------
\* The code's wrap by comparison keeps an index inside the ring.
LEMMA AdvanceInRing == ASSUME NEW i \in Slots PROVE Advance(i) \in Slots
BY RingAssumption DEF Slots, Advance

\* The queue starts in a state that satisfies the invariant.
LEMMA QInit == Init => QInv
<1> SUFFICES ASSUME Init PROVE QInv
  OBVIOUS
<1>1. TypeOK
  <2>1. 0 \in Slots
    BY RingAssumption DEF Slots
  <2>2. queue \in [Slots -> [msg : Msgs \cup {NullMsg}, num : Nat, polls : Nat]]
    BY DEF Init, Empty
  <2> QED
    BY <2>1, <2>2 DEF Init, TypeOK
<1>2. \A i \in Slots : ~IsUnread(i)
  BY DEF Init, IsUnread, Empty
<1>3. Numbered
  BY <1>2 DEF Init, Numbered
<1> QED
  BY <1>1, <1>2, <1>3 DEF QInv, AtMostOnce, Placed, Approaching

----------------------------------------------------------------------------
\* A post, coalesced or not, preserves the invariant: the new message is one
\* post behind the tail and every other one has fallen one further back.
LEMMA QEnqueue ==
    ASSUME QInv, NEW m \in Msgs \cup {NullMsg}, Enqueue(m)
    PROVE  QInv'
<1> USE DEF QInv
<1>1. tail \in Slots /\ head \in Slots /\ posted \in Nat /\ epoch \in Nat
  BY DEF TypeOK
<1>2. tail' = Advance(tail) /\ tail' \in Slots
  BY <1>1, AdvanceInRing DEF Enqueue
<1>3. TypeOK'
  BY <1>2 DEF Enqueue, TypeOK, ctl
<1>4. \A i \in Slots : i # tail => queue'[i] = queue[i]
  BY DEF Enqueue, TypeOK
<1>5. queue'[tail] = [msg |-> m, num |-> IF m = NullMsg THEN 0 ELSE posted + 1,
                      polls |-> 0]
  BY <1>1 DEF Enqueue, TypeOK
<1>6. \A i \in Slots : queue[i].num \in Nat /\ queue[i].polls \in Nat
  BY DEF TypeOK
<1>7. posted' = posted + 1 /\ epoch' = epoch /\ delivered' = delivered /\ head' = head
  BY DEF Enqueue
<1>8. delivered \subseteq Nat
  BY DEF TypeOK
<1>9. Numbered'
  BY <1>1, <1>4, <1>5, <1>6, <1>7, <1>8 DEF Numbered, IsUnread
<1>10. AtMostOnce'
  <2>1. ASSUME NEW i \in Slots, IsUnread(i)', i # tail
        PROVE  queue'[i] = queue[i] /\ IsUnread(i) /\ queue[i].num <= posted
    BY <1>4, <2>1 DEF IsUnread, Numbered
  <2>2. queue'[tail].msg # NullMsg => queue'[tail].num = posted + 1
    BY <1>5
  <2>3. \A n \in delivered : n # posted + 1
    BY <1>1, <1>8 DEF Numbered
  <2> QED
    BY <1>1, <1>6, <1>7, <2>1, <2>2, <2>3 DEF AtMostOnce, IsUnread
<1>11. Placed'
  <2> SUFFICES ASSUME NEW i \in Slots, IsUnread(i)', (queue[i].num > epoch)'
               PROVE  (queue[i].num + Behind(i) = posted + 1)'
    BY DEF Placed
  <2>1. CASE i = tail
    BY <2>1, <1>1, <1>2, <1>5, <1>7, RingAssumption DEF Behind, Advance, Slots, IsUnread
  <2>2. CASE i # tail
    <3>1. queue[i].num + Behind(i) = posted + 1
      BY <2>2, <1>4, <1>7 DEF Placed, IsUnread
    <3>2. Behind(i)' = Behind(i) + 1
      BY <2>2, <1>1, <1>2, RingAssumption DEF Behind, Advance, Slots
    <3>3. Behind(i) \in Nat
      BY <1>1, RingAssumption DEF Behind, Slots
    <3> QED
      BY <3>1, <3>2, <3>3, <2>2, <1>1, <1>4, <1>6, <1>7
  <2> QED
    BY <2>1, <2>2
<1>12. Approaching'
  <2> SUFFICES ASSUME NEW i \in Slots, IsUnread(i)'
               PROVE  (queue[i].polls + Ahead(i) < MSG_QUEUE_MAX)'
    BY DEF Approaching
  <2>1. CASE i = tail
    BY <2>1, <1>1, <1>5, <1>7, RingAssumption DEF Ahead, Slots
  <2>2. CASE i # tail
    BY <2>2, <1>4, <1>7 DEF Ahead, IsUnread, Approaching
  <2> QED
    BY <2>1, <2>2
<1> QED
  BY <1>3, <1>9, <1>10, <1>11, <1>12

----------------------------------------------------------------------------
\* What a step that posts nothing does to the messages: it may take one out
\* of its slot and deliver it, and it may restart the ring.
Drains ==
    /\ posted' = posted
    /\ \A i \in Slots : queue'[i].msg # NullMsg =>
           IsUnread(i) /\ queue'[i].num = queue[i].num
    /\ \/ delivered' = delivered
       \/ \E j \in Slots : /\ IsUnread(j)
                           /\ queue'[j].msg = NullMsg
                           /\ delivered' = delivered \cup {queue[j].num}
    /\ \/ epoch' = epoch /\ tail' = tail
       \/ epoch' = posted

\* Such a step preserves everything but the position of the head.
LEMMA QDrain ==
    ASSUME QInv, TypeOK', Drains
    PROVE  Numbered' /\ AtMostOnce' /\ Placed'
<1> USE DEF QInv
<1>1. posted \in Nat /\ epoch \in Nat /\ delivered \subseteq Nat
  BY DEF TypeOK
<1>2. \A i \in Slots : queue[i].num \in Nat
  BY DEF TypeOK
<1>3. \A i \in Slots : queue'[i].msg # NullMsg =>
         IsUnread(i) /\ queue'[i].num = queue[i].num
  BY DEF Drains
<1>4. Numbered'
  <2>1. epoch' <= posted'
    BY <1>1 DEF Drains, Numbered
  <2>2. \A n \in delivered' : n <= posted'
    BY <1>1, <1>2 DEF Drains, Numbered
  <2> QED
    BY <1>3, <2>1, <2>2 DEF Numbered, IsUnread, Drains
<1>5. AtMostOnce'
  <2>1. CASE delivered' = delivered
    BY <1>3, <2>1 DEF AtMostOnce, IsUnread
  <2>2. ASSUME NEW j \in Slots, IsUnread(j), queue'[j].msg = NullMsg,
               delivered' = delivered \cup {queue[j].num}
        PROVE  AtMostOnce'
    BY <1>3, <2>2 DEF AtMostOnce, IsUnread
  <2> QED
    BY <2>1, <2>2 DEF Drains
<1>6. Placed'
  <2>1. CASE epoch' = epoch /\ tail' = tail
    BY <1>3, <2>1 DEF Placed, Behind, IsUnread, Drains
  <2>2. CASE epoch' = posted
    <3>1. \A i \in Slots : queue'[i].msg # NullMsg => ~(queue'[i].num > epoch')
      BY <1>1, <1>2, <1>3, <2>2 DEF Numbered
    <3> QED
      BY <3>1 DEF Placed, IsUnread
  <2> QED
    BY <2>1, <2>2 DEF Drains
<1> QED
  BY <1>4, <1>5, <1>6

\* One more step of the head brings every message that stays one closer.
LEMMA QHeadStep ==
    ASSUME QInv, NEW i \in Slots, i # head, head' = Advance(head)
    PROVE  Ahead(i)' + 1 = Ahead(i)
BY RingAssumption DEF QInv, TypeOK, Ahead, Advance, Slots

\* The records of the ring keep their type when their polls are changed.
LEMMA WalkedType ==
    ASSUME TypeOK
    PROVE  /\ Walked(queue) \in [Slots -> [msg : Msgs \cup {NullMsg}, num : Nat, polls : Nat]]
           /\ \A i \in Slots : /\ Walked(queue)[i].msg = queue[i].msg
                               /\ Walked(queue)[i].num = queue[i].num
                               /\ IsUnread(i) => Walked(queue)[i].polls = queue[i].polls + 1
           /\ Recounted(queue) \in [Slots -> [msg : Msgs \cup {NullMsg}, num : Nat, polls : Nat]]
           /\ \A i \in Slots : /\ Recounted(queue)[i].msg = queue[i].msg
                               /\ Recounted(queue)[i].num = queue[i].num
                               /\ Recounted(queue)[i].polls = 0
BY DEF TypeOK, Walked, Recounted, IsUnread

\* Service 111 delivers the message at the head.
LEMMA QGetHit == ASSUME QInv, GetHit PROVE QInv'
<1> USE DEF QInv
<1>1. TypeOK /\ head \in Slots
  BY DEF TypeOK
<1>2. queue' = [Walked(queue) EXCEPT ![head] = Empty] /\ head' = Advance(head)
  BY DEF GetHit
<1>3. TypeOK'
  <2>1. queue' \in [Slots -> [msg : Msgs \cup {NullMsg}, num : Nat, polls : Nat]]
    BY <1>1, <1>2, WalkedType DEF Empty
  <2>2. queue[head].num \in Nat
    BY <1>1 DEF TypeOK
  <2> QED
    BY <1>1, <1>2, <2>1, <2>2, AdvanceInRing DEF GetHit, TypeOK, ctl
<1>4. /\ queue'[head].msg = NullMsg
      /\ \A i \in Slots : i # head => queue'[i] = Walked(queue)[i]
  BY <1>1, <1>2, WalkedType DEF Empty
<1>5. Drains
  <2>1. \A i \in Slots : queue'[i].msg # NullMsg =>
           IsUnread(i) /\ queue'[i].num = queue[i].num
    BY <1>1, <1>4, WalkedType DEF IsUnread
  <2> QED
    BY <1>1, <1>4, <2>1 DEF Drains, GetHit
<1>6. Approaching'
  <2> SUFFICES ASSUME NEW i \in Slots, queue'[i].msg # NullMsg
               PROVE  queue'[i].polls + Ahead(i)' < MSG_QUEUE_MAX
    BY DEF Approaching, IsUnread
  <2>1. i # head /\ IsUnread(i) /\ queue'[i].polls = queue[i].polls + 1
    BY <1>1, <1>4, WalkedType DEF IsUnread
  <2>2. Ahead(i)' + 1 = Ahead(i) /\ queue[i].polls + Ahead(i) < MSG_QUEUE_MAX
    BY <1>2, <2>1, QHeadStep DEF Approaching
  <2>3. queue[i].polls \in Nat /\ head' \in Slots
    BY <1>1, <1>2, AdvanceInRing DEF TypeOK
  <2>4. Ahead(i)' \in Int /\ Ahead(i) \in Int
    BY <1>1, <2>3, RingAssumption DEF Ahead, Slots
  <2> QED
    BY <2>1, <2>2, <2>3, <2>4, RingAssumption
<1> QED
  BY <1>3, <1>5, <1>6, QDrain

\* Service 111 finds an empty slot; no message is touched.
LEMMA QGetMiss == ASSUME QInv, GetMiss PROVE QInv'
<1> USE DEF QInv
<1>1. TypeOK /\ head \in Slots
  BY DEF TypeOK
<1>2. queue' = Walked(queue) /\ head' = Advance(head)
  BY DEF GetMiss
<1>3. TypeOK'
  <2>1. missCount' \in Nat
    <3>1. missCount \in Nat /\ MissAgain \in Nat
      BY <1>1 DEF MissAgain, TypeOK
    <3> QED
      BY <3>1 DEF GetMiss
  <2>2. blockReq' \in BOOLEAN
    BY <1>1 DEF GetMiss, TypeOK
  <2> QED
    BY <1>1, <1>2, <2>1, <2>2, WalkedType, AdvanceInRing DEF GetMiss, TypeOK, history
<1>4. Drains
  BY <1>1, <1>2, WalkedType DEF Drains, GetMiss, history, IsUnread
<1>5. Approaching'
  <2> SUFFICES ASSUME NEW i \in Slots, queue'[i].msg # NullMsg
               PROVE  queue'[i].polls + Ahead(i)' < MSG_QUEUE_MAX
    BY DEF Approaching, IsUnread
  <2>1. i # head /\ IsUnread(i) /\ queue'[i].polls = queue[i].polls + 1
    BY <1>1, <1>2, WalkedType DEF IsUnread, GetMiss
  <2>2. Ahead(i)' + 1 = Ahead(i) /\ queue[i].polls + Ahead(i) < MSG_QUEUE_MAX
    BY <1>2, <2>1, QHeadStep DEF Approaching
  <2>3. queue[i].polls \in Nat /\ head' \in Slots
    BY <1>1, <1>2, AdvanceInRing DEF TypeOK
  <2>4. Ahead(i)' \in Int /\ Ahead(i) \in Int
    BY <1>1, <2>3, RingAssumption DEF Ahead, Slots
  <2> QED
    BY <2>1, <2>2, <2>3, <2>4, RingAssumption
<1> QED
  BY <1>3, <1>4, <1>5, QDrain

\* Service 120: after the head was set and the polls recounted, every message
\* is less than a lap away.
LEMMA QRecounted ==
    ASSUME QInv, TypeOK', \A i \in Slots : queue'[i].polls = 0
    PROVE  Approaching'
<1> SUFFICES ASSUME NEW i \in Slots
             PROVE  queue'[i].polls + Ahead(i)' < MSG_QUEUE_MAX
  BY DEF Approaching
<1>1. head' \in Slots
  BY DEF TypeOK
<1>2. /\ head' \in Int /\ 0 <= head' /\ head' < MSG_QUEUE_MAX
      /\ i \in Int /\ 0 <= i /\ i < MSG_QUEUE_MAX
  BY <1>1, RingAssumption DEF Slots
<1>3. CASE head' <= i
  BY <1>2, <1>3, RingAssumption DEF Ahead
<1>4. CASE ~(head' <= i)
  BY <1>2, <1>4, RingAssumption DEF Ahead
<1> QED
  BY <1>3, <1>4

\* The indexes that service 120 leaves behind are inside the ring.
LEMMA QRewind ==
    ASSUME QInv, NEW from \in Slots, NEW r \in BOOLEAN, Rewind(from, r)
    PROVE  /\ head' \in Slots /\ tail' \in Slots /\ epoch' \in Nat
           /\ \/ epoch' = epoch /\ tail' = tail
              \/ epoch' = posted
<1>1. 0 \in Slots
  BY RingAssumption DEF Slots
<1> QED
  BY <1>1, AdvanceInRing DEF QInv, TypeOK, Rewind

LEMMA QGetAt ==
    ASSUME QInv, NEW index \in Slots, NEW r \in BOOLEAN, GetAt(index, r)
    PROVE  QInv'
<1> USE DEF QInv
<1>1. TypeOK /\ Rewind(index, r) /\ queue[index].num \in Nat
  BY DEF TypeOK, GetAt
<1>2. \/ queue' = Recounted(queue)
      \/ queue' = [Recounted(queue) EXCEPT ![index] = Empty]
  BY DEF GetAt
<1>3. /\ queue' \in [Slots -> [msg : Msgs \cup {NullMsg}, num : Nat, polls : Nat]]
      /\ \A i \in Slots : queue'[i].polls = 0
  BY <1>1, <1>2, WalkedType DEF Empty
<1>4. TypeOK'
  <2>1. blockReq' \in BOOLEAN
    BY DEF GetAt, TypeOK
  <2>2. delivered' \subseteq Nat
    BY <1>1 DEF GetAt, TypeOK
  <2> QED
    BY <1>1, <1>3, <2>1, <2>2, QRewind DEF GetAt, TypeOK
<1>5. Drains
  <2>1. \A i \in Slots : queue'[i].msg # NullMsg =>
           IsUnread(i) /\ queue'[i].num = queue[i].num
    BY <1>1, <1>2, WalkedType DEF IsUnread, Empty
  <2>2. IsUnread(index) => queue'[index].msg = NullMsg
    BY <1>1, WalkedType DEF GetAt, Empty
  <2>3. \/ delivered' = delivered
        \/ IsUnread(index) /\ delivered' = delivered \cup {queue[index].num}
    BY DEF GetAt
  <2>4. posted' = posted
    BY DEF GetAt
  <2> QED
    BY <1>1, <2>1, <2>2, <2>3, <2>4, QRewind DEF Drains
<1> QED
  BY <1>3, <1>4, <1>5, QDrain, QRecounted

LEMMA QGetBadIndex ==
    ASSUME QInv, NEW r \in BOOLEAN, GetBadIndex(r)
    PROVE  QInv'
<1> USE DEF QInv
<1>1. CASE UNCHANGED <<queue, head, tail, epoch>>
  BY <1>1 DEF GetBadIndex, ctl, TypeOK, Numbered, AtMostOnce, Placed, Approaching,
              IsUnread, Behind, Ahead
<1>2. CASE queue' = Recounted(queue) /\ Rewind(head, r)
  <2>1. head \in Slots
    BY DEF TypeOK
  <2>2. TypeOK'
    BY <1>2, <2>1, WalkedType, QRewind DEF GetBadIndex, TypeOK, ctl
  <2>3. Drains
    BY <1>2, <2>1, WalkedType, QRewind DEF Drains, GetBadIndex, IsUnread
  <2> QED
    BY <1>2, <2>2, <2>3, WalkedType, QDrain, QRecounted
<1> QED
  BY <1>1, <1>2 DEF GetBadIndex

\* The steps that leave the ring alone.
LEMMA QControl ==
    ASSUME QInv, UNCHANGED <<ring, history>>, TypeOK'
    PROVE  QInv'
BY DEF QInv, ring, history, Numbered, AtMostOnce, Placed, Approaching, IsUnread,
       Behind, Ahead

----------------------------------------------------------------------------
\* Every step of the queue preserves the invariant.
LEMMA QNext == QInv /\ [Next]_vars => QInv'
<1> SUFFICES ASSUME QInv, [Next]_vars PROVE QInv'
  OBVIOUS
<1>1. ASSUME NEW f \in Flags, PostFlag(f) PROVE QInv'
  <2>1. TypeOK'
    BY <1>1 DEF QInv, TypeOK, PostFlag, ring, ctl, history
  <2> QED
    BY <1>1, <2>1, QControl DEF PostFlag
<1>2. ASSUME NEW m \in Msgs, Post(m) PROVE QInv'
  <2>1. CASE UNCHANGED vars
    BY <2>1 DEF vars, QInv, TypeOK, Numbered, AtMostOnce, Placed, Approaching,
                IsUnread, Behind, Ahead
  <2>2. CASE Enqueue(m)
    BY <2>2, QEnqueue
  <2> QED
    BY <1>2, <2>1, <2>2 DEF Post
<1>3. ASSUME NEW m \in Msgs \cup {NullMsg}, Post2(m) PROVE QInv'
  BY <1>3, QEnqueue DEF Post2
<1>4. CASE GetFlag
  <2>1. TypeOK'
    BY <1>4 DEF QInv, TypeOK, GetFlag, ring, ctl, history
  <2> QED
    BY <1>4, <2>1, QControl DEF GetFlag
<1>5. CASE GetHit
  BY <1>5, QGetHit
<1>6. CASE GetMiss
  BY <1>6, QGetMiss
<1>7. ASSUME NEW i \in Indexes \cap Slots, NEW r \in BOOLEAN, GetAt(i, r) PROVE QInv'
  BY <1>7, QGetAt
<1>8. ASSUME NEW i \in Indexes \ Slots, NEW r \in BOOLEAN, GetBadIndex(r) PROVE QInv'
  BY <1>8, QGetBadIndex
<1>9. ASSUME NEW b \in BOOLEAN, MsgCtl(b) PROVE QInv'
  <2>1. TypeOK'
    BY <1>9 DEF QInv, TypeOK, MsgCtl, ring, history
  <2> QED
    BY <1>9, <2>1, QControl DEF MsgCtl
<1>10. CASE SchedBlock
  <2>1. TypeOK'
    BY <1>10 DEF QInv, TypeOK, SchedBlock, ring, history
  <2> QED
    BY <1>10, <2>1, QControl DEF SchedBlock
<1>11. CASE DsEvent
  <2>1. TypeOK'
    BY <1>11 DEF QInv, TypeOK, DsEvent, ring, history
  <2> QED
    BY <1>11, <2>1, QControl DEF DsEvent
<1>12. CASE UNCHANGED vars
  BY <1>12 DEF vars, QInv, TypeOK, Numbered, AtMostOnce, Placed, Approaching,
               IsUnread, Behind, Ahead
<1> QED
  BY <1>1, <1>2, <1>3, <1>4, <1>5, <1>6, <1>7, <1>8, <1>9, <1>10, <1>11, <1>12
     DEF Next, Produce, Consume

\* The inductive invariant holds in every reachable state of the queue.
THEOREM QueueInvariant == Spec => []QInv
<1> QED
  BY QInit, QNext, PTL DEF Spec

\* The ring of ipc.c keeps its shape: indexes in range, slots well formed.
THEOREM QueueTypeOK == Spec => []TypeOK
<1>1. QInv => TypeOK
  BY DEF QInv
<1> QED
  BY <1>1, QueueInvariant, PTL

\* No message of the ring is delivered twice, for any ring size.
THEOREM QueueAtMostOnce == Spec => []AtMostOnce
<1>1. QInv => AtMostOnce
  BY DEF QInv
<1> QED
  BY <1>1, QueueInvariant, PTL

\* Service 111 passes over a message fewer than MSG_QUEUE_MAX times.
THEOREM QueueBoundedDelay == Spec => []BoundedDelay
<1>1. QInv => BoundedDelay
  <2> SUFFICES ASSUME QInv, NEW i \in Slots, IsUnread(i)
               PROVE  queue[i].polls < MSG_QUEUE_MAX
    BY DEF BoundedDelay
  <2>1. head \in Slots /\ queue[i].polls \in Nat
    BY DEF QInv, TypeOK
  <2>2. Ahead(i) \in Nat
    BY <2>1, RingAssumption DEF Ahead, Slots
  <2>3. queue[i].polls + Ahead(i) < MSG_QUEUE_MAX
    BY DEF QInv, Approaching
  <2> QED
    BY <2>1, <2>2, <2>3, RingAssumption
<1> QED
  BY <1>1, QueueInvariant, PTL

\* A message that leaves its slot undelivered was overwritten by the post
\* that lapped it, exactly MSG_QUEUE_MAX posts after its own.
THEOREM QueueLostOnlyByLapping == Spec => LostOnlyByLapping
<1> DEFINE Lapped ==
        \A i \in Slots :
          (/\ IsUnread(i)
           /\ queue[i].num > epoch
           /\ queue'[i].num # queue[i].num)
          => \/ queue[i].num \in delivered'
             \/ posted' = queue[i].num + MSG_QUEUE_MAX
<1>1. QInv /\ [Next]_vars => Lapped
  <2> SUFFICES ASSUME QInv, [Next]_vars, NEW i \in Slots, IsUnread(i),
                      queue[i].num > epoch, queue'[i].num # queue[i].num
               PROVE  \/ queue[i].num \in delivered'
                      \/ posted' = queue[i].num + MSG_QUEUE_MAX
    OBVIOUS
  <2>1. TypeOK
    BY DEF QInv
  <2>2. ASSUME NEW m, Enqueue(m) PROVE posted' = queue[i].num + MSG_QUEUE_MAX
    <3>1. i = tail
      BY <2>1, <2>2 DEF Enqueue, TypeOK
    <3>2. queue[i].num + Behind(i) = posted + 1 /\ posted' = posted + 1
      BY <2>2 DEF QInv, Placed, Enqueue
    <3>3. Behind(i) = MSG_QUEUE_MAX
      BY <2>1, <3>1, RingAssumption DEF Behind, TypeOK, Slots
    <3> QED
      BY <3>2, <3>3
  <2>3. CASE queue' = queue
    BY <2>3
  <2>4. CASE GetHit
    <3>1. i # head => queue'[i].num = queue[i].num
      BY <2>1, <2>4, WalkedType DEF GetHit, TypeOK
    <3> QED
      BY <2>4, <3>1 DEF GetHit
  <2>5. CASE GetMiss
    BY <2>1, <2>5, WalkedType DEF GetMiss
  <2>6. ASSUME NEW index \in Slots, NEW r \in BOOLEAN, GetAt(index, r)
        PROVE  queue[i].num \in delivered'
    <3>1. i # index \/ ~IsUnread(index) => queue'[i].num = queue[i].num
      BY <2>1, <2>6, WalkedType DEF GetAt, TypeOK
    <3> QED
      BY <2>6, <3>1 DEF GetAt
  <2>7. ASSUME NEW r \in BOOLEAN, GetBadIndex(r) PROVE FALSE
    BY <2>1, <2>7, WalkedType DEF GetBadIndex
  <2> QED
    BY <2>2, <2>3, <2>4, <2>5, <2>6, <2>7
       DEF Next, Produce, Consume, Post, Post2, PostFlag, GetFlag, MsgCtl, SchedBlock,
           DsEvent, ring, vars
<1> QED
  BY <1>1, QueueInvariant, PTL DEF Spec, LostOnlyByLapping
----------------------------------------------------------------------------
(* The ring implements the mailbox.                                         *)

\* A letter is a message that is unread.
LEMMA LettersAre ==
    /\ \A l : l \in Letters <=> \E i \in Slots : IsUnread(i) /\ l = Letter(i)
    /\ \A l : l \in Letters' <=> \E i \in Slots : IsUnread(i)' /\ l = Letter(i)'
BY DEF Letters

\* Messages that keep their slots, their numbers and their contents are the
\* same letters.
LEMMA SameLetters ==
    ASSUME \A i \in Slots : queue'[i].msg = queue[i].msg /\ queue'[i].num = queue[i].num
    PROVE  Letters' = Letters
<1>1. \A i \in Slots : IsUnread(i)' = IsUnread(i) /\ Letter(i)' = Letter(i)
  BY DEF IsUnread, Letter
<1> QED
  BY <1>1, LettersAre

\* No letter is in two slots.
LEMMA LetterOnce ==
    ASSUME QInv, NEW i \in Slots, NEW j \in Slots, IsUnread(i), IsUnread(j), i # j
    PROVE  Letter(i) # Letter(j)
<1>1. queue[i].num # queue[j].num
  BY DEF QInv, AtMostOnce
<1>2. Letter(i).num = queue[i].num /\ Letter(j).num = queue[j].num
  BY DEF Letter
<1> QED
  BY <1>1, <1>2

\* A message that is taken out of its slot takes one letter out of the box.
LEMMA OneLess ==
    ASSUME QInv, NEW j \in Slots, IsUnread(j), queue'[j].msg = NullMsg,
           \A i \in Slots : i # j => queue'[i].msg = queue[i].msg /\ queue'[i].num = queue[i].num
    PROVE  Letters' = Letters \ {Letter(j)}
<1>1. \A i \in Slots : i # j => IsUnread(i)' = IsUnread(i) /\ Letter(i)' = Letter(i)
  BY DEF IsUnread, Letter
<1>2. ~ IsUnread(j)'
  BY DEF IsUnread
<1>3. ASSUME NEW l, l \in Letters' PROVE l \in Letters \ {Letter(j)}
  <2>1. PICK i \in Slots : IsUnread(i)' /\ l = Letter(i)'
    BY <1>3, LettersAre
  <2>2. i # j /\ IsUnread(i) /\ l = Letter(i)
    BY <1>1, <1>2, <2>1
  <2>3. l # Letter(j) /\ l \in Letters
    BY <2>2, LetterOnce, LettersAre
  <2> QED
    BY <2>3
<1>4. ASSUME NEW l, l \in Letters \ {Letter(j)} PROVE l \in Letters'
  <2>1. PICK i \in Slots : IsUnread(i) /\ l = Letter(i)
    BY <1>4, LettersAre
  <2>2. i # j
    BY <1>4, <2>1
  <2> QED
    BY <1>1, <2>1, <2>2, LettersAre
<1> QED
  BY <1>3, <1>4

\* A post drops the letter in the slot at the tail, if there is one, and that
\* is the one it laps.
LEMMA TailDropped ==
    ASSUME QInv
    PROVE  {Letter(i) : i \in {k \in {tail} : IsUnread(k)}} \in Mail!Dropped
<1>1. /\ tail \in Slots /\ posted \in Nat /\ epoch \in Nat /\ queue[tail].num \in Nat
  BY DEF QInv, TypeOK
<1>2. CASE ~ IsUnread(tail)
  BY <1>2 DEF Mail!Dropped
<1>3. CASE IsUnread(tail)
  <2>1. Letter(tail) \in Letters /\ Letter(tail).num = queue[tail].num
    BY <1>1, <1>3, LettersAre DEF Letter
  <2>2. queue[tail].num + MSG_QUEUE_MAX = posted + 1 \/ queue[tail].num <= epoch
    <3>1. Behind(tail) = MSG_QUEUE_MAX
      BY <1>1, RingAssumption DEF Behind, Slots
    <3>2. queue[tail].num > epoch => queue[tail].num + Behind(tail) = posted + 1
      BY <1>1, <1>3 DEF QInv, Placed
    <3> QED
      BY <1>1, <3>1, <3>2
  <2>3. {Letter(i) : i \in {k \in {tail} : IsUnread(k)}} = {Letter(tail)}
    BY <1>3
  <2>4. {Letter(tail)} \in Mail!Dropped
    BY <2>1, <2>2 DEF Mail!Dropped
  <2> QED
    BY <2>3, <2>4
<1> QED
  BY <1>2, <1>3

\* What a post does to the letters.
LEMMA EnqueueMail ==
    ASSUME QInv, NEW m \in Msgs \cup {NullMsg}, Enqueue(m)
    PROVE  Mail!Next
<1>1. /\ tail \in Slots /\ posted \in Nat
  BY DEF QInv, TypeOK
<1>2. PICK d \in Mail!Dropped : d = {Letter(i) : i \in {k \in {tail} : IsUnread(k)}}
  BY TailDropped
<1>3. /\ posted' = posted + 1 /\ epoch' = epoch /\ delivered' = delivered
  BY DEF Enqueue
<1>4. PICK t \in Slots : t = tail
  BY <1>1
<1>5. /\ queue'[t].msg = m /\ (m # NullMsg => queue'[t].num = posted + 1)
      /\ \A i \in Slots : i # t => queue'[i] = queue[i]
  BY <1>4 DEF Enqueue, QInv, TypeOK
<1>6. \A i \in Slots : i # t => IsUnread(i)' = IsUnread(i) /\ Letter(i)' = Letter(i)
  BY <1>5 DEF IsUnread, Letter
<1>7. \A l : l \in Letters \ d <=> \E i \in Slots : i # t /\ IsUnread(i) /\ l = Letter(i)
  <2>1. ASSUME NEW l, l \in Letters \ d PROVE \E i \in Slots : i # t /\ IsUnread(i) /\ l = Letter(i)
    BY <1>2, <1>4, <2>1, LettersAre
  <2>2. ASSUME NEW i \in Slots, i # t, IsUnread(i) PROVE Letter(i) \in Letters \ d
    <3>1. Letter(i) \in Letters
      BY <2>2, LettersAre
    <3>2. IsUnread(t) => Letter(i) # Letter(t)
      BY <2>2, LetterOnce
    <3> QED
      BY <1>2, <1>4, <3>1, <3>2
  <2> QED
    BY <2>1, <2>2
<1>8. CASE m = NullMsg
  <2>1. ~ IsUnread(t)'
    BY <1>5, <1>8 DEF IsUnread
  <2>2. Letters' = Letters \ d
    BY <1>6, <1>7, <2>1, LettersAre
  <2> QED
    BY <1>2, <1>3, <2>2 DEF Mail!Next, Mail!PostVoid
<1>9. CASE m \in Msgs
  <2>1. m # NullMsg
    BY <1>9, MsgAssumption
  <2>2. IsUnread(t)' /\ Letter(t)' = [num |-> posted + 1, msg |-> m]
    BY <1>5, <2>1 DEF IsUnread, Letter
  <2>3. \A l : l \in Letters' <=> (l \in Letters \ d \/ l = [num |-> posted + 1, msg |-> m])
    BY <1>6, <1>7, <2>2, LettersAre
  <2>4. Letters' = (Letters \ d) \cup {[num |-> posted + 1, msg |-> m]}
    BY <2>3
  <2>5. Mail!Post(m)
    BY <1>2, <1>3, <2>4 DEF Mail!Post
  <2> QED
    BY <1>9, <2>5 DEF Mail!Next
<1> QED
  BY <1>8, <1>9

\* A message that is delivered is a letter that is taken.
LEMMA DeliverMail ==
    ASSUME QInv, NEW j \in Slots, IsUnread(j), queue'[j].msg = NullMsg,
           \A i \in Slots : i # j => queue'[i].msg = queue[i].msg /\ queue'[i].num = queue[i].num,
           delivered' = delivered \cup {queue[j].num}, posted' = posted,
           epoch' \in {epoch, posted}
    PROVE  Mail!Next
<1>1. Letter(j) \in Letters /\ Letter(j).num = queue[j].num
  BY LettersAre DEF Letter
<1>2. Letters' = Letters \ {Letter(j)}
  BY OneLess
<1>3. PICK l \in Letters : l = Letter(j)
  BY <1>1
<1>4. Mail!Take(l)
  BY <1>1, <1>2, <1>3 DEF Mail!Take
<1> QED
  BY <1>3, <1>4 DEF Mail!Next

\* A step that leaves every message where it is, and may restart the ring.
LEMMA StayMail ==
    ASSUME \A i \in Slots : queue'[i].msg = queue[i].msg /\ queue'[i].num = queue[i].num,
           delivered' = delivered, posted' = posted, epoch' \in {epoch, posted}
    PROVE  [Mail!Next]_(Mail!mailVars)
<1>1. Letters' = Letters
  BY SameLetters
<1> QED
  BY <1>1 DEF Mail!Next, Mail!Restart, Mail!mailVars

\* Every step of the queue is a step of the mailbox or leaves it alone.
LEMMA NextMail == QInv /\ [Next]_vars => [Mail!Next]_(Mail!mailVars)
<1> SUFFICES ASSUME QInv, [Next]_vars PROVE [Mail!Next]_(Mail!mailVars)
  OBVIOUS
<1>1. TypeOK /\ head \in Slots
  BY DEF QInv, TypeOK
<1>2. CASE UNCHANGED <<queue, posted, epoch, delivered>>
  BY <1>2, StayMail
<1>3. ASSUME NEW m \in Msgs \cup {NullMsg}, Enqueue(m) PROVE Mail!Next
  BY <1>3, EnqueueMail
<1>4. CASE GetHit
  <2>1. /\ IsUnread(head) /\ delivered' = delivered \cup {queue[head].num}
        /\ queue' = [Walked(queue) EXCEPT ![head] = Empty]
        /\ UNCHANGED <<posted, epoch>>
    BY <1>4 DEF GetHit
  <2>2. /\ queue'[head].msg = NullMsg
        /\ \A i \in Slots : i # head => queue'[i].msg = queue[i].msg /\ queue'[i].num = queue[i].num
    BY <1>1, <2>1, WalkedType DEF Empty
  <2>3. epoch' \in {epoch, posted} /\ posted' = posted
    BY <2>1
  <2>4. PICK j \in Slots : j = head
    BY <1>1
  <2>5. /\ IsUnread(j) /\ queue'[j].msg = NullMsg /\ delivered' = delivered \cup {queue[j].num}
        /\ \A i \in Slots : i # j => queue'[i].msg = queue[i].msg /\ queue'[i].num = queue[i].num
    BY <2>1, <2>2, <2>4
  <2> QED
    BY <2>3, <2>5, DeliverMail
<1>5. CASE GetMiss
  BY <1>1, <1>5, WalkedType, StayMail DEF GetMiss, history
<1>6. ASSUME NEW index \in Slots, NEW r \in BOOLEAN, GetAt(index, r)
      PROVE  [Mail!Next]_(Mail!mailVars)
  <2>1. posted' = posted /\ epoch' \in {epoch, posted}
    BY <1>6 DEF GetAt, Rewind
  <2>2. CASE IsUnread(index)
    <3>1. /\ delivered' = delivered \cup {queue[index].num}
          /\ queue' = [Recounted(queue) EXCEPT ![index] = Empty]
      BY <1>6, <2>2 DEF GetAt
    <3>2. /\ queue'[index].msg = NullMsg
          /\ \A i \in Slots : i # index =>
                queue'[i].msg = queue[i].msg /\ queue'[i].num = queue[i].num
      BY <1>1, <3>1, WalkedType DEF Empty
    <3> QED
      BY <2>1, <2>2, <3>1, <3>2, DeliverMail
  <2>3. CASE ~ IsUnread(index)
    <3>1. queue' = Recounted(queue) /\ delivered' = delivered
      BY <1>6, <2>3 DEF GetAt
    <3> QED
      BY <1>1, <2>1, <3>1, WalkedType, StayMail
  <2> QED
    BY <2>2, <2>3
<1>7. ASSUME NEW r \in BOOLEAN, GetBadIndex(r) PROVE [Mail!Next]_(Mail!mailVars)
  <2>1. /\ queue' = queue \/ queue' = Recounted(queue)
        /\ posted' = posted /\ delivered' = delivered /\ epoch' \in {epoch, posted}
    BY <1>7 DEF GetBadIndex, Rewind
  <2> QED
    BY <1>1, <2>1, WalkedType, StayMail
<1>8. QED
  BY <1>2, <1>3, <1>4, <1>5, <1>6, <1>7
     DEF Next, Produce, Consume, Post, Post2, PostFlag, GetFlag, MsgCtl, SchedBlock,
         DsEvent, ring, history, vars

\* The ring of a thread, with its two services, its coalescing and its
\* restarts, implements the mailbox for every size of the ring: a message is
\* kept unchanged until it is delivered, once, or lapped, and no step loses
\* more than one.
THEOREM QueueImplementsMailbox == Spec => ImplementsMailbox
<1>1. Init => Mail!Init
  <2> SUFFICES ASSUME Init PROVE Mail!Init
    OBVIOUS
  <2>1. \A i \in Slots : ~ IsUnread(i)
    BY DEF Init, IsUnread, Empty
  <2> QED
    BY <2>1, LettersAre DEF Init, Mail!Init
<1> QED
  BY <1>1, QueueInvariant, NextMail, PTL DEF Spec, ImplementsMailbox, Mail!Spec
=============================================================================
