------------------------------ MODULE MsgQueue ------------------------------
(***************************************************************************)
(* The message queue of one thread of the castleos kernel: the ring         *)
(* MsgQueue[] of struct thread_d with its MsgQueueHead and MsgQueueTail,    *)
(* the coalescing input flags, and the "block on empty" control (msgctl).   *)
(* Producers are ipc_post_message_to_tid and ipc_post_message_to_tid2       *)
(* (device interrupts and other threads); the consumer is the owner thread, *)
(* through ipc_get_message (service 111) and sys_get_message2 (service 120).*)
(* Every handler runs with interrupts disabled, so it is one action.        *)
(*                                                                          *)
(* A message is a member of Msgs: a message code together with the part of  *)
(* its payload that the code compares.  Ring posts are numbered; the number *)
(* is a history value that no action reads.                                 *)
(***************************************************************************)
EXTENDS Integers

CONSTANTS
    MSG_QUEUE_MAX,  \* number of slots of the ring
    MISS_LIMIT,     \* misses that are tolerated before a deferred block
    Msgs,           \* messages with a positive code that use the ring
    Repeating,      \* the ones that coalesce: MSG_KEYDOWN, MSG_CONTROL_ARROW_*
    Indexes,        \* the indexes that programs pass to service 120
    NullMsg,        \* message code 0, the code of an empty slot
    MaxPosts        \* bound on the number of ring posts

ASSUME RingAssumption ==
    /\ MSG_QUEUE_MAX \in Nat \ {0}
    /\ MISS_LIMIT \in Nat
    /\ MaxPosts \in Nat

ASSUME MsgAssumption ==
    /\ Repeating \subseteq Msgs
    /\ NullMsg \notin Msgs

VARIABLES
    queue,      \* MsgQueue[]: slot -> message, its post number, polls since
    head,       \* MsgQueueHead
    tail,       \* MsgQueueTail
    flags,      \* input_flags
    blockOnEmpty, \* msgctl.block_on_empty
    missCount,  \* msgctl.miss_count
    blockReq,   \* msgctl.block_in_progress
    blocked,    \* the thread is BLOCKED with WAIT_REASON_LOOP
    posted,     \* history: number of ring posts so far
    epoch,      \* history: value of posted when the ring was last restarted
    delivered   \* history: post numbers of the messages handed to the thread

ring    == <<queue, head, tail>>
ctl     == <<blockOnEmpty, missCount, blockReq, blocked>>
history == <<posted, epoch, delivered>>
vars    == <<queue, head, tail, flags, blockOnEmpty, missCount, blockReq,
             blocked, posted, epoch, delivered>>

Slots == 0 .. MSG_QUEUE_MAX - 1

\* Messages of which only a flag is kept, IFLAGS_MOUSEMOVE and IFLAGS_PAINT.
MOUSEMOVE == "MSG_MOUSEMOVE"
PAINT     == "MSG_PAINT"
Flags     == {MOUSEMOVE, PAINT}

Empty == [msg |-> NullMsg, num |-> 0, polls |-> 0]

IsUnread(i) == queue[i].msg # NullMsg

\* Mutations of Advance: an index that wraps one slot too late, or too early.
AdvanceLate(i)  == IF i >= MSG_QUEUE_MAX THEN 0 ELSE i + 1
AdvanceEarly(i) == IF i + 2 >= MSG_QUEUE_MAX THEN 0 ELSE i + 1

\* The successor of an index, wrapped by comparison as the code does.
Advance(i) == IF i + 1 >= MSG_QUEUE_MAX THEN 0 ELSE i + 1

\* The slot written last: (MsgQueueTail - 1 + MSG_QUEUE_MAX) % MSG_QUEUE_MAX.
LastSlot == IF tail = 0 THEN MSG_QUEUE_MAX - 1 ELSE tail - 1

----------------------------------------------------------------------------
\* __ps_initialize_thread_common_elements: empty slots, no preference set.
Init ==
    /\ queue = [i \in Slots |-> Empty]
    /\ head = 0
    /\ tail = 0
    /\ flags = {}
    /\ blockOnEmpty = FALSE
    /\ missCount = 0
    /\ blockReq = FALSE
    /\ blocked = FALSE
    /\ posted = 0
    /\ epoch = 0
    /\ delivered = {}

----------------------------------------------------------------------------
(* Producers.                                                               *)

\* The common tail of both post routines: the slot at MsgQueueTail is
\* overwritten whatever it holds, and the tail advances.
Enqueue(m) ==
    /\ posted < MaxPosts
    /\ queue' = [queue EXCEPT ![tail] =
                    [msg |-> m,
                     num |-> IF m = NullMsg THEN 0 ELSE posted + 1,
                     polls |-> 0]]
    /\ tail' = Advance(tail)
    /\ posted' = posted + 1
    /\ UNCHANGED <<head, flags, ctl, epoch, delivered>>

\* ipc_post_message_to_tid, MSG_MOUSEMOVE and MSG_PAINT: flag-based
\* coalescing, nothing is queued.
PostFlag(f) ==
    /\ flags' = flags \cup {f}
    /\ UNCHANGED <<ring, ctl, history>>

\* ipc_post_message_to_tid: a repeated key is counted into the last message
\* that was queued, if that one is still there; all else is queued.
Coalesces(m) == m \in Repeating /\ queue[LastSlot].msg = m

Post(m) ==
    \/ Coalesces(m) /\ UNCHANGED vars
    \/ ~Coalesces(m) /\ Enqueue(m)

\* ipc_post_message_to_tid2: no coalescing, and code 0 is not refused.
Post2(m) == Enqueue(m)

----------------------------------------------------------------------------
(* The consumer.                                                            *)

\* Head moves on; every message that stays has been passed over once more.
Walked(q) ==
    [i \in Slots |-> IF q[i].msg = NullMsg THEN q[i]
                                           ELSE [q[i] EXCEPT !.polls = @ + 1]]

\* ipc_get_message: a pending flag is served first, a mouse move before a
\* paint, and the ring is not read.
GetFlag ==
    /\ ~blocked
    /\ flags # {}
    /\ flags' = IF MOUSEMOVE \in flags THEN flags \ {MOUSEMOVE} ELSE {}
    /\ UNCHANGED <<ring, ctl, history>>

\* Mutation of GetHit: the entry is not cleared after it was copied.
GetHitNotCleared ==
    /\ ~blocked
    /\ flags = {}
    /\ IsUnread(head)
    /\ delivered' = delivered \cup {queue[head].num}
    /\ head' = Advance(head)
    /\ UNCHANGED <<queue, tail, flags, ctl, posted, epoch>>

\* ipc_get_message: the slot at the head holds a message.
GetHit ==
    /\ ~blocked
    /\ flags = {}
    /\ IsUnread(head)
    /\ delivered' = delivered \cup {queue[head].num}
    /\ queue' = [Walked(queue) EXCEPT ![head] = Empty]
    /\ head' = Advance(head)
    /\ UNCHANGED <<tail, flags, ctl, posted, epoch>>

\* ipc_get_message: the slot is empty.  The miss is counted, the deferred
\* block is requested past the limit, and the head advances all the same.
MissAgain == IF missCount > MISS_LIMIT THEN missCount ELSE missCount + 1

\* Mutation of GetMiss: an early return that leaves the head where it is.
GetMissStays ==
    /\ ~blocked
    /\ flags = {}
    /\ ~IsUnread(head)
    /\ missCount' = MissAgain
    /\ queue' = Walked(queue)
    /\ UNCHANGED <<head, tail, flags, blockOnEmpty, blockReq, blocked, history>>

GetMiss ==
    /\ ~blocked
    /\ flags = {}
    /\ ~IsUnread(head)
    /\ IF blockOnEmpty /\ MissAgain > MISS_LIMIT
         THEN blockReq' = TRUE /\ missCount' = 0
         ELSE missCount' = MissAgain /\ UNCHANGED blockReq
    /\ queue' = Walked(queue)
    /\ head' = Advance(head)
    /\ UNCHANGED <<tail, flags, blockOnEmpty, blocked, history>>

\* The end of sys_get_message2: restart puts head and tail back to slot 0.
Rewind(from, restart) ==
    /\ head' = IF restart THEN 0 ELSE Advance(from)
    /\ tail' = IF restart THEN 0 ELSE tail
    /\ epoch' = IF restart THEN posted ELSE epoch

\* Polls are counted anew after the head was set explicitly.
Recounted(q) == [i \in Slots |-> [q[i] EXCEPT !.polls = 0]]

\* Mutation of GetAt: the slot at the old head is cleared, not the one that
\* was copied.
GetAtClearsHead(index, restart) ==
    /\ ~blocked
    /\ IF IsUnread(index)
         THEN /\ delivered' = delivered \cup {queue[index].num}
              /\ queue' = [Recounted(queue) EXCEPT ![head] = Empty]
              /\ UNCHANGED blockReq
         ELSE /\ queue' = Recounted(queue)
              /\ blockReq' = (blockReq \/ blockOnEmpty)
              /\ UNCHANGED delivered
    /\ Rewind(index, restart)
    /\ UNCHANGED <<flags, blockOnEmpty, missCount, blocked, posted>>

\* sys_get_message2 with a valid index: the head is set to the index.
GetAt(index, restart) ==
    /\ ~blocked
    /\ IF IsUnread(index)
         THEN /\ delivered' = delivered \cup {queue[index].num}
              /\ queue' = [Recounted(queue) EXCEPT ![index] = Empty]
              /\ UNCHANGED blockReq
         ELSE /\ queue' = Recounted(queue)
              /\ blockReq' = (blockReq \/ blockOnEmpty)
              /\ UNCHANGED delivered
    /\ Rewind(index, restart)
    /\ UNCHANGED <<flags, blockOnEmpty, missCount, blocked, posted>>

\* sys_get_message2 with an index out of range jumps to fail0, which tests
\* the message pointer before it was assigned: either it returns at once or
\* it moves the head as after an empty slot.
GetBadIndex(restart) ==
    /\ ~blocked
    /\ \/ UNCHANGED <<queue, head, tail, epoch>>
       \/ queue' = Recounted(queue) /\ Rewind(head, restart)
    /\ UNCHANGED <<flags, ctl, posted, delivered>>

\* sys_msgctl, options 1000 and 1001.
MsgCtl(b) ==
    /\ ~blocked
    /\ blockOnEmpty' = b
    /\ UNCHANGED <<ring, flags, missCount, blockReq, blocked, history>>

----------------------------------------------------------------------------
(* The scheduler's half of blocking.                                        *)

\* __scheduler_rr serves block_in_progress.
SchedBlock ==
    /\ blockReq
    /\ blocked' = TRUE
    /\ blockReq' = FALSE
    /\ UNCHANGED <<ring, flags, blockOnEmpty, missCount, history>>

\* __scheduler_rr serves has_event_from_ds: the only way out.
DsEvent ==
    /\ blocked
    /\ blocked' = FALSE
    /\ UNCHANGED <<ring, flags, blockOnEmpty, missCount, blockReq, history>>

----------------------------------------------------------------------------
Produce ==
    \/ \E f \in Flags : PostFlag(f)
    \/ \E m \in Msgs : Post(m)
    \/ \E m \in Msgs \cup {NullMsg} : Post2(m)

Consume ==
    \/ GetFlag
    \/ GetHit
    \/ GetMiss
    \/ \E i \in Indexes \cap Slots, r \in BOOLEAN : GetAt(i, r)
    \/ \E i \in Indexes \ Slots, r \in BOOLEAN : GetBadIndex(r)
    \/ \E b \in BOOLEAN : MsgCtl(b)

Next == Produce \/ Consume \/ SchedBlock \/ DsEvent

Spec == Init /\ [][Next]_vars

----------------------------------------------------------------------------
(* Properties.                                                              *)

\* The type invariant of the queue of a thread: every slot holds the null
\* message or a numbered one, and both indexes stay inside the ring.
TypeOK ==
    /\ queue \in [Slots -> [msg : Msgs \cup {NullMsg}, num : Nat, polls : Nat]]
    /\ head \in Slots
    /\ tail \in Slots
    /\ flags \subseteq Flags
    /\ blockOnEmpty \in BOOLEAN
    /\ missCount \in Nat
    /\ blockReq \in BOOLEAN
    /\ blocked \in BOOLEAN
    /\ posted \in Nat
    /\ epoch \in Nat
    /\ delivered \subseteq Nat

\* A message is handed to the thread at most once: neither the head walking
\* around the ring nor a jump with service 120 finds a consumed message again,
\* and no two slots hold the same post.
AtMostOnce ==
    \A i \in Slots : IsUnread(i) =>
        /\ queue[i].num \notin delivered
        /\ \A j \in Slots \ {i} : IsUnread(j) => queue[i].num # queue[j].num

\* Posting overwrites the slot at the tail without looking at it.  A message
\* can be lost that way only to the post that laps it, the MSG_QUEUE_MAX-th
\* one after it, unless the program restarted the ring in between.
LostOnlyByLapping ==
    [][\A i \in Slots :
          (/\ IsUnread(i)
           /\ queue[i].num > epoch
           /\ queue'[i].num # queue[i].num)
          => \/ queue[i].num \in delivered'
             \/ posted' = queue[i].num + MSG_QUEUE_MAX]_vars

\* ipc_get_message advances the head on empty slots too, so the head meets
\* every message: one that stays in the ring is passed over fewer than
\* MSG_QUEUE_MAX times by service 111 before it is delivered.
BoundedDelay ==
    \A i \in Slots : IsUnread(i) => queue[i].polls < MSG_QUEUE_MAX

\* The message of a slot, as a letter of the mailbox.
Letter(i) == [num |-> queue[i].num, msg |-> queue[i].msg]

Letters == {Letter(i) : i \in {k \in Slots : IsUnread(k)}}

Mail == INSTANCE Mailbox WITH
    Room <- MSG_QUEUE_MAX,
    box <- Letters,
    last <- posted,
    barrier <- epoch,
    taken <- delivered

\* The ring implements the mailbox: whichever slots head, tail, an index of
\* service 120 or a restart make the code read, clear or overwrite, a message
\* stays as it was posted until it is delivered or lapped, and no operation
\* makes two messages disappear.
ImplementsMailbox == Mail!Spec
=============================================================================
