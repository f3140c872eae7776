----------------------------- MODULE ThreadQueue -----------------------------
(***************************************************************************)
(* The zero-copy message queue of                                          *)
(* src/src/lib/shared/thread/eina_thread_queue.c.                          *)
(*                                                                         *)
(* Messages are carved out of blocks.  Writers fill blocks of the list     *)
(* thq->data under lock_write; the first block is moved to thq->read when  *)
(* a reader needs one, after every writer of it is done: a block counts    *)
(* its writers and its lock_non_0_ref is held while that count is not 0.   *)
(* Readers count too, and the last one done with an exhausted block frees  *)
(* it: to a pool of spare blocks, or for good.  A semaphore counts the     *)
(* messages whose writer is done.                                          *)
(*                                                                         *)
(* Every atomic operation and every lock operation on a block is a step of *)
(* its own, in the order of the code (its relaxed memory order is not      *)
(* modelled).  Sizes are in units of the model.  Parent queues, the fd,    *)
(* failing allocations and eina_thread_queue_free are left out.            *)
(***************************************************************************)
EXTENDS Integers, Sequences, FiniteSets

CONSTANTS
    Writers,   \* threads that send
    Readers,   \* threads that fetch
    NoThread,
    MaxMsg,    \* bound: messages sent in a behaviour
    MinSize,   \* MIN_SIZE: the least size of a block
    PoolMax,   \* how many blocks of that size the pool keeps (20)
    Sizes,     \* sizes of messages
    MaxOpen    \* bound: messages a writer has open (sent, not send_done)

ASSUME ThreadAssumption ==
    NoThread \notin Writers \cup Readers /\ Writers \cap Readers = {}
ASSUME SizeAssumption ==
    /\ MinSize \in Nat \ {0} /\ Sizes \subseteq Nat \ {0} /\ MaxOpen \in Nat \ {0}
    /\ PoolMax \in Nat
ASSUME MsgAssumption == MaxMsg \in Nat
ASSUME FiniteAssumption == IsFiniteSet(Writers) /\ IsFiniteSet(Readers)

VARIABLES
    blk,      \* the blocks
    pool,     \* _eina_thread_queue_block_pool, the next one to use first
    data,     \* the blocks of thq->data, thq->last at the end
    read,     \* thq->read (0 is NULL)
    sem,      \* thq->sem
    pending,  \* thq->pending
    lockW,    \* who holds thq->lock_write
    lockR,    \* who holds thq->lock_read
    wr,       \* the writers
    rd,       \* the readers
    at,       \* where every message is: its block, its position, its size
    next      \* the next message (history)

vars == <<blk, pool, data, read, sem, pending, lockW, lockR, wr, rd, at, next>>

Msg == 1..MaxMsg     \* messages are numbered in the order of their places
Blocks == Msg        \* every message needs at most one new block
NULL == 0

\* A block: cap is its size; first and last are positions in it; ref counts
\* open reads and writes; lock says lock_non_0_ref is held; frees counts
\* _eina_thread_queue_msg_block_free since it was last handed out, and gone
\* says that its memory was freed.
Block == [cap: Nat, first: Nat, last: Nat, ref: Int, lock: BOOLEAN, frees: Nat,
          gone: BOOLEAN]

Place == [blk: Blocks \cup {NULL}, pos: Nat, size: Nat]

Writer == [pc: {"idle", "send", "lock", "pend", "unlock", "post"},
           open: Seq(Msg \X Blocks), blk: Blocks \cup {NULL}]

Reader == [pc: {"idle", "lockR", "fetch", "lockB", "take", "ref", "sem", "count",
                "have", "done"},
           mode: {"wait", "poll"}, msg: Msg \cup {NULL}, blk: Blocks \cup {NULL},
           ref: Int]

TypeOK ==
    /\ blk \in [Blocks -> Block]
    /\ data \in Seq(Blocks) /\ pool \in Seq(Blocks)
    /\ read \in Blocks \cup {NULL}
    /\ sem \in Nat /\ pending \in Int
    /\ lockW \in Writers \cup Readers \cup {NoThread}
    /\ lockR \in Readers \cup {NoThread}
    /\ wr \in [Writers -> Writer]
    /\ rd \in [Readers -> Reader]
    /\ at \in [Msg -> Place]
    /\ next \in Nat \ {0}

NewBlock(c) == [cap |-> c, first |-> 0, last |-> 0, ref |-> 0,
                lock |-> FALSE, frees |-> 0, gone |-> FALSE]

Init ==
    /\ blk = [b \in Blocks |-> NewBlock(0)]
    /\ data = <<>> /\ read = NULL /\ pool = <<>>
    /\ sem = 0 /\ pending = 0
    /\ lockW = NoThread /\ lockR = NoThread
    /\ wr = [w \in Writers |-> [pc |-> "idle", open |-> <<>>, blk |-> NULL]]
    /\ rd = [r \in Readers |-> [pc |-> "idle", mode |-> "wait", msg |-> NULL,
                                blk |-> NULL, ref |-> 0]]
    /\ at = [m \in Msg |-> [blk |-> NULL, pos |-> 0, size |-> 0]]
    /\ next = 1

-----------------------------------------------------------------------------
(* Writers *)

\* A message of size s goes to thq->last if it fits there, else to a new block
\* of MIN_SIZE or of its own size: one from the pool, whose lock stays as it is,
\* if that is large enough.
Fits(s) == data # <<>> /\ LET b == blk[data[Len(data)]] IN b.cap - b.last >= s
FromPool(c) == pool # <<>> /\ blk[Head(pool)].cap >= c
BlockSize(s) == IF s < MinSize THEN MinSize ELSE s
Target(s) ==
    IF Fits(s) THEN data[Len(data)]
    ELSE IF FromPool(BlockSize(s)) THEN Head(pool) ELSE next
BlockFor(s) ==
    IF Fits(s) THEN blk[data[Len(data)]]
    ELSE IF FromPool(BlockSize(s))
      THEN [blk[Head(pool)] EXCEPT !.first = 0, !.last = 0, !.ref = 0, !.frees = 0]
    ELSE NewBlock(BlockSize(s))

\* eina_thread_queue_send: the writer wants lock_write...
eina_thread_queue_send(w) ==
    /\ wr[w].pc = "idle" /\ Len(wr[w].open) < MaxOpen
    /\ next + Cardinality({x \in Writers : wr[x].pc = "send"}) \in Msg
    /\ wr' = [wr EXCEPT ![w].pc = "send"]
    /\ UNCHANGED <<blk, pool, data, read, sem, pending, lockW, lockR, rd, at, next>>

\* ..._eina_thread_queue_msg_alloc gives a message of size s its place; the first
\* writer of a block also takes its lock_non_0_ref before lock_write is released.
MsgAlloc(w, s) ==
    LET b == Target(s)
        old == BlockFor(s)
    IN
    /\ wr[w].pc = "send" /\ lockW = NoThread
    /\ next' = next + 1
    /\ blk' = [blk EXCEPT ![b] = [old EXCEPT !.last = @ + s, !.ref = @ + 1]]
    /\ data' = IF Fits(s) THEN data ELSE Append(data, b)
    /\ pool' = IF ~Fits(s) /\ FromPool(BlockSize(s)) THEN Tail(pool) ELSE pool
    /\ at' = [at EXCEPT ![next] = [blk |-> b, pos |-> old.last, size |-> s]]
    /\ wr' = [wr EXCEPT ![w].pc = IF old.ref = 0 THEN "lock" ELSE "pend",
                        ![w].open = Append(@, <<next, b>>), ![w].blk = b]
    /\ lockW' = IF old.ref = 0 THEN w ELSE NoThread
    /\ UNCHANGED <<read, sem, pending, lockR, rd>>

LockNonZero(w) ==
    /\ wr[w].pc = "lock" /\ ~blk[wr[w].blk].lock
    /\ blk' = [blk EXCEPT ![wr[w].blk].lock = TRUE]
    /\ wr' = [wr EXCEPT ![w].pc = "pend"]
    /\ lockW' = NoThread
    /\ UNCHANGED <<pool, data, read, sem, pending, lockR, rd, at, next>>

CountPending(w) ==
    /\ wr[w].pc = "pend"
    /\ pending' = pending + 1
    /\ wr' = [wr EXCEPT ![w].pc = "idle", ![w].blk = NULL]
    /\ UNCHANGED <<blk, pool, data, read, sem, lockW, lockR, rd, at, next>>

\* _eina_thread_queue_msg_alloc_done: the count goes down; the writer that
\* brings it to 0 releases lock_non_0_ref, whoever took it.
eina_thread_queue_send_done(w) ==
    /\ wr[w].pc = "idle" /\ wr[w].open # <<>>
    /\ LET b == Head(wr[w].open)[2] IN
       /\ blk' = [blk EXCEPT ![b].ref = @ - 1]
       /\ wr' = [wr EXCEPT ![w].pc = IF blk[b].ref = 1 THEN "unlock" ELSE "post",
                           ![w].blk = b, ![w].open = Tail(@)]
    /\ UNCHANGED <<pool, data, read, sem, pending, lockW, lockR, rd, at, next>>

UnlockNonZero(w) ==
    /\ wr[w].pc = "unlock"
    /\ blk' = [blk EXCEPT ![wr[w].blk].lock = FALSE]
    /\ wr' = [wr EXCEPT ![w].pc = "post"]
    /\ UNCHANGED <<pool, data, read, sem, pending, lockW, lockR, rd, at, next>>

\* A plausible bug in the definition that follows: the semaphore is not released.
WakeLost(w) ==
    /\ wr[w].pc = "post"
    /\ wr' = [wr EXCEPT ![w].pc = "idle", ![w].blk = NULL]
    /\ UNCHANGED <<blk, pool, data, read, sem, pending, lockW, lockR, rd, at, next>>

\* _eina_thread_queue_wake.
Wake(w) ==
    /\ wr[w].pc = "post"
    /\ sem' = sem + 1
    /\ wr' = [wr EXCEPT ![w].pc = "idle", ![w].blk = NULL]
    /\ UNCHANGED <<blk, pool, data, read, pending, lockW, lockR, rd, at, next>>

-----------------------------------------------------------------------------
(* Readers *)

\* A plausible bug in the definition that follows: nobody waits for the semaphore.
WaitUnchecked(r) ==
    /\ rd[r].pc = "idle"
    /\ sem' = sem - 1
    /\ rd' = [rd EXCEPT ![r].pc = "lockR", ![r].mode = "wait"]
    /\ UNCHANGED <<blk, pool, data, read, pending, lockW, lockR, wr, at, next>>

\* eina_thread_queue_wait takes the semaphore before it looks for a message.
eina_thread_queue_wait(r) ==
    /\ rd[r].pc = "idle" /\ sem > 0
    /\ sem' = sem - 1
    /\ rd' = [rd EXCEPT ![r].pc = "lockR", ![r].mode = "wait"]
    /\ UNCHANGED <<blk, pool, data, read, pending, lockW, lockR, wr, at, next>>

\* eina_thread_queue_poll looks first.
eina_thread_queue_poll(r) ==
    /\ rd[r].pc = "idle"
    /\ rd' = [rd EXCEPT ![r].pc = "lockR", ![r].mode = "poll"]
    /\ UNCHANGED <<blk, pool, data, read, sem, pending, lockW, lockR, wr, at, next>>

LockRead(r) ==
    /\ rd[r].pc = "lockR" /\ lockR = NoThread
    /\ lockR' = r
    /\ rd' = [rd EXCEPT ![r].pc = IF read = NULL THEN "fetch" ELSE "take"]
    /\ UNCHANGED <<blk, pool, data, read, sem, pending, lockW, wr, at, next>>

\* A plausible bug in the definition that follows: the last block is taken.
MoveLastBlock ==
    /\ read' = data[Len(data)]
    /\ data' = SubSeq(data, 1, Len(data) - 1)
    /\ lockW' = NoThread

\* The first block of thq->data becomes thq->read.
MoveBlock ==
    /\ read' = Head(data)
    /\ data' = Tail(data)
    /\ lockW' = NoThread

\* A plausible bug in the definition that follows: the writers of the block are ignored.
FetchBlockEarly(r) ==
    /\ rd[r].pc = "fetch" /\ lockW = NoThread /\ data # <<>>
    /\ MoveBlock
    /\ rd' = [rd EXCEPT ![r].pc = "take"]
    /\ UNCHANGED <<blk, pool, sem, pending, lockR, wr, at, next>>

\* _eina_thread_queue_msg_fetch without a block to read: under lock_write.  If
\* the block has writers its lock_non_0_ref must be had first.
FetchBlock(r) ==
    /\ rd[r].pc = "fetch" /\ lockW = NoThread /\ data # <<>>
    /\ IF blk[Head(data)].ref > 0
         THEN /\ lockW' = r /\ UNCHANGED <<read, data>>
              /\ rd' = [rd EXCEPT ![r].pc = "lockB"]
         ELSE /\ MoveBlock
              /\ rd' = [rd EXCEPT ![r].pc = "take"]
    /\ UNCHANGED <<blk, pool, sem, pending, lockR, wr, at, next>>

\* No block at all: NULL is returned, by eina_thread_queue_wait too.
FetchNothing(r) ==
    /\ rd[r].pc = "fetch" /\ lockW = NoThread /\ data = <<>>
    /\ lockR' = NoThread
    /\ rd' = [rd EXCEPT ![r].pc = IF rd[r].mode = "wait" THEN "count" ELSE "idle"]
    /\ UNCHANGED <<blk, pool, data, read, sem, pending, lockW, wr, at, next>>

\* lock_non_0_ref is taken, the block moved, and the lock released again.
FetchLocked(r) ==
    /\ rd[r].pc = "lockB" /\ ~blk[Head(data)].lock
    /\ MoveBlock
    /\ rd' = [rd EXCEPT ![r].pc = "take"]
    /\ UNCHANGED <<blk, pool, sem, pending, lockR, wr, at, next>>

\* The message whose header is at the first position of block b.
MessageAt(b) == CHOOSE m \in Msg : at[m].blk = b /\ at[m].pos = blk[b].first

\* The message at first is taken; an exhausted block leaves thq->read.
TakeMessage(r) ==
    LET b == read
        m == MessageAt(b)
        first == blk[b].first + at[m].size
    IN
    /\ rd[r].pc = "take"
    /\ blk' = [blk EXCEPT ![b].first = first]
    /\ read' = IF first >= blk[b].last THEN NULL ELSE read
    /\ rd' = [rd EXCEPT ![r].pc = "ref", ![r].msg = m, ![r].blk = b]
    /\ at' = [at EXCEPT ![m].blk = NULL]
    /\ UNCHANGED <<pool, data, sem, pending, lockW, lockR, wr, next>>

RefBlock(r) ==
    /\ rd[r].pc = "ref"
    /\ blk' = [blk EXCEPT ![rd[r].blk].ref = @ + 1]
    /\ lockR' = NoThread
    /\ rd' = [rd EXCEPT ![r].pc = IF rd[r].mode = "wait" THEN "count" ELSE "sem"]
    /\ UNCHANGED <<pool, data, read, sem, pending, lockW, wr, at, next>>

\* eina_thread_queue_poll waits for the semaphore once it has a message.
PollSemaphore(r) ==
    /\ rd[r].pc = "sem" /\ sem > 0
    /\ sem' = sem - 1
    /\ rd' = [rd EXCEPT ![r].pc = "count"]
    /\ UNCHANGED <<blk, pool, data, read, pending, lockW, lockR, wr, at, next>>

\* A plausible bug in the definition that follows: polled messages stay pending.
UncountWaited(r) ==
    /\ rd[r].pc = "count"
    /\ pending' = IF rd[r].mode = "wait" THEN pending - 1 ELSE pending
    /\ rd' = [rd EXCEPT ![r].pc = IF rd[r].msg = NULL THEN "idle" ELSE "have"]
    /\ UNCHANGED <<blk, pool, data, read, sem, lockW, lockR, wr, at, next>>

\* thq->pending--, and the caller has its message.
UncountPending(r) ==
    /\ rd[r].pc = "count"
    /\ pending' = pending - 1
    /\ rd' = [rd EXCEPT ![r].pc = IF rd[r].msg = NULL THEN "idle" ELSE "have"]
    /\ UNCHANGED <<blk, pool, data, read, sem, lockW, lockR, wr, at, next>>

\* _eina_thread_queue_msg_fetch_done: the count goes down...
eina_thread_queue_wait_done(r) ==
    /\ rd[r].pc = "have"
    /\ blk' = [blk EXCEPT ![rd[r].blk].ref = @ - 1]
    /\ rd' = [rd EXCEPT ![r].pc = "done", ![r].msg = NULL,
                        ![r].ref = blk[rd[r].blk].ref - 1]
    /\ UNCHANGED <<pool, data, read, sem, pending, lockW, lockR, wr, at, next>>

\* The block has no message left and this reader was the last one.
Exhausted(r) == blk[rd[r].blk].first >= blk[rd[r].blk].last /\ rd[r].ref = 0

\* The pool keeps blocks of the least size only.
ToPool(b) == blk[b].cap = MinSize /\ Len(pool) < PoolMax

\* A plausible bug in the definition that follows: the lock is not taken first.
RealFreeUnlocked(b) == b \in Blocks

\* _eina_thread_queue_msg_block_real_free takes lock_non_0_ref first.
RealFreeReady(b) == ~blk[b].lock

\* ...then first is loaded, and an exhausted block freed: it goes to the pool
\* (_eina_thread_queue_msg_block_free) or, once its lock_non_0_ref could be
\* taken, its memory is freed (_eina_thread_queue_msg_block_real_free).
FreeBlock(r) ==
    LET b == rd[r].blk IN
    /\ rd[r].pc = "done"
    /\ \/ ~Exhausted(r) /\ UNCHANGED <<blk, pool>>
       \/ /\ Exhausted(r) /\ ToPool(b)
          /\ pool' = <<b>> \o pool
          /\ blk' = [blk EXCEPT ![b].frees = @ + 1]
       \/ /\ Exhausted(r) /\ ~ToPool(b) /\ RealFreeReady(b)
          /\ blk' = [blk EXCEPT ![b].frees = @ + 1, ![b].gone = TRUE]
          /\ UNCHANGED pool
    /\ rd' = [rd EXCEPT ![r].pc = "idle", ![r].blk = NULL, ![r].ref = 0]
    /\ UNCHANGED <<data, read, sem, pending, lockW, lockR, wr, at, next>>

-----------------------------------------------------------------------------
WriterStep(w) ==
    \/ \E s \in Sizes : MsgAlloc(w, s)
    \/ LockNonZero(w) \/ CountPending(w) \/ eina_thread_queue_send_done(w)
    \/ UnlockNonZero(w) \/ Wake(w)

ReaderStep(r) ==
    \/ eina_thread_queue_wait(r) \/ LockRead(r) \/ FetchBlock(r)
    \/ FetchNothing(r) \/ FetchLocked(r) \/ TakeMessage(r) \/ RefBlock(r)
    \/ PollSemaphore(r) \/ UncountPending(r) \/ eina_thread_queue_wait_done(r)
    \/ FreeBlock(r)

Next ==
    \/ \E w \in Writers : WriterStep(w) \/ eina_thread_queue_send(w)
    \/ \E r \in Readers : ReaderStep(r) \/ eina_thread_queue_poll(r)

\* Every thread is scheduled, writers finish what they send, and readers wait
\* for messages and finish with them.
Fairness ==
    /\ \A w \in Writers : WF_vars(WriterStep(w))
    /\ \A r \in Readers : WF_vars(ReaderStep(r))

Spec == Init /\ [][Next]_vars
FairSpec == Spec /\ Fairness

-----------------------------------------------------------------------------
(* Properties *)

\* The messages that have their place and are not fetched, oldest first: those
\* left in thq->read, then those of thq->data block by block.
QueueBlocks == ({read} \ {NULL}) \cup {data[i] : i \in DOMAIN data}
Unfetched(m) ==
    /\ m < next
    /\ at[m].blk \in QueueBlocks
    /\ at[m].pos >= blk[at[m].blk].first

InOrder(S) ==
    [i \in 1..Cardinality(S) |-> CHOOSE m \in S : Cardinality({n \in S : n < m}) = i - 1]
UnfetchedSeq == InOrder({m \in 1..(next - 1) : Unfetched(m)})

\* The queue implements MsgQueue: every message is fetched exactly once, in the
\* order in which eina_thread_queue_send gave the messages their places.
Abstract == INSTANCE MsgQueue WITH queue <- UnfetchedSeq, sent <- 1..(next - 1)
ImplementsMsgQueue == Abstract!Spec

\* A block is given back once, and not while a writer fills it, a reader reads
\* from it or the queue still points to it.  A writer that still has to release
\* lock_non_0_ref may see its block go to the pool, but never its memory freed.
BlocksInUse ==
    QueueBlocks
      \cup {wr[w].blk : w \in {x \in Writers : wr[x].pc \in {"lock", "pend"}}}
      \cup (UNION {{wr[w].open[i][2] : i \in DOMAIN wr[w].open} : w \in Writers})
      \cup {rd[r].blk : r \in {x \in Readers : rd[x].pc # "idle"}}

FreedUnused ==
    \A b \in Blocks :
      /\ blk[b].frees <= 1
      /\ blk[b].frees > 0 => b \notin BlocksInUse
      /\ blk[b].gone => \A w \in Writers : wr[w].pc = "unlock" => wr[w].blk # b

\* A reader never gets a message that its writer is still filling in.
Open(w) == {wr[w].open[i][1] : i \in DOMAIN wr[w].open}
FetchedComplete ==
    \A r \in Readers : \A w \in Writers : rd[r].msg \notin Open(w)

\* thq->pending is the number of messages to fetch, give or take the threads
\* that are about to count theirs; it is never negative for a user.
PendingExact ==
    pending = Len(UnfetchedSeq)
                - Cardinality({w \in Writers : wr[w].pc \in {"lock", "pend"}})
                + Cardinality({r \in Readers : rd[r].pc \in {"ref", "sem", "count"}})

\* Every message that is sent is fetched.
AllFetched == \A m \in Msg : (m < next) ~> (m < next /\ ~Unfetched(m))

=============================================================================
