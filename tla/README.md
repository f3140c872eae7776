# Verification of the asynchronous core of EFL

TLA+ models of the asynchronous core of this repository, checked with TLC, and
TLAPS proofs about them. EFL is a C library stack: object system, main loop,
data types and their bindings. Most of it is sequential code driven by the main
loop. What is hard to test in it is where other threads meet that loop, and where
callbacks of the loop reenter the code that calls them; these two are what the
project is about.

## 1. Inventory

| part | state it keeps | operations | talks to |
|---|---|---|---|
| worker-thread pool, `lib/core/core_thread.c` | two pending lists, the running list, thread counters and their limit, per job: cancel, kill and reschedule flags, notification counters, a waiter | `core_thread_run`, `core_thread_feedback_run`, `_cancel`, `_wait`, `_feedback`, `_reschedule`, `_max_set`, init, shutdown; the worker threads | posts job ends, notifications and joins to the main loop |
| safe calls, `lib/core/core.c` | list of orders `_thread_cb`, wakeup pipe, `_thread_id`, `_thread_id_max`, `_thread_id_update`, `_thread_loop` | `core_main_loop_thread_safe_call_async/_sync/_wait`, `core_thread_main_loop_begin/_end`, `_core_main_call_flush` | used by the pool and by every thread; uses the pipe |
| thread queue, `lib/shared/thread/eina_thread_queue.c` | blocks with reference counts, write list, read block, semaphore, pool of spare blocks | `send`, `send_done`, `wait`, `wait_done`, `poll` | threads among themselves |
| promises, `lib/shared/data/eina_promise.c`, scheduler in `lib/eo/eo_base_class.c` | links between promises, futures and their chains, `_pending_futures`, all/race contexts, the scheduler's entries and listener | new, then, resolve, reject, cancel, all, race, `eina_future_as_value`, dispatch | delivered by the main loop through an event of an Eo object |
| pipe, `lib/core/core_pipe.c` | half-read message, handling count, delete flag, descriptors | write, read, wait, freeze, thaw, close, del | a thread writes, the main loop reads |
| timers, `lib/core/core_timer.c`, and their part of `lib/core/core_main.c` | `timers`, `suspended`, `timer_current`, `timers_added`, `loop_time`; per timer: expiry, pending, frozen, just added, inside a call, to be deleted | add, del, interval, delay, reset, freeze, thaw; the walk of the expired timers | the main loop walks, callbacks change the lists and iterate the loop |
| rest of the main loop: idlers, jobs, descriptors, events | lists walked while callbacks change them | iterate, add, del | everything |
| Eo objects | ids with generations, references, callback frames | ref, unref, del, callbacks | everything |
| processes, I/O streams, tasks, models, D-Bus, Wayland, input | per component | | main loop, Eo, futures |
| containers, values, strings, memory | sequential data, reference counts | | everything |
| Eolian | sequential compiler of `.eo` files | | build time |

What is hard, and what makes the modelled parts correct:

* *Pool*: every job gets exactly one of `func_end` and `func_cancel`, after all its
  notifications, and nothing uses it afterwards, although cancellation,
  rescheduling, waiting, failing thread creation and shutdown race with the
  threads; the counters are right; shutdown leaves nothing behind unless it gives up
  waiting, and then only what its threads still have; queued jobs run.
* *Safe calls*: a posted call is never stranded; a thread that suspends the main
  loop is alone in it; `eina_main_loop_is` names the right thread; an order is
  freed once, after it was executed; every call returns.
* *Queue*: a FIFO in which each message is fetched once, complete, and whose blocks
  are freed once, by the last user.
* *Promises*: a callback is called once, in the order of its chain, whether the
  promise is resolved, rejected or cancelled; no link, list entry or function still on
  the stack refers to what was freed; what was resolved is delivered.
* *Pipe*: messages arrive whole, once and in order however the kernel cuts them up and
  however the handler reenters the reader; nothing arrives after deletion; the memory
  goes when no frame uses it; nothing is left in the pipe.
* *Timers*: the lists stay exact while a walk goes over them; a walk calls a timer once
  and ends; no function is called after its timer was deleted; a timer expires.

`PROJECT.json` lists each hazard at its line, with the properties that would catch
it or the reason why none does.

## 2. Modules

| module | models | 
|---|---|
| `CoreThread` | the pool; `MCCoreThread` adds symmetry for TLC |
| `CoreThreadProofs` | theorems about `CoreThread` |
| `SafeCall` | safe calls and main-loop suspension |
| `SafeCallProofs` | theorems about `SafeCall`: the main loop and its suspension |
| `SafeCallOrderProofs` | theorems about `SafeCall`: the orders; extends `SafeCallProofs` |
| `MsgQueue` | abstract: a FIFO of messages |
| `ThreadQueue` | `eina_thread_queue`, shown to implement `MsgQueue` |
| `ThreadQueueProofs` | theorems about `ThreadQueue` and its refinement |
| `Promise` | promises, futures and their scheduler |
| `PromiseProofs` | theorems about `Promise`: types, callbacks once and in order |
| `PromiseOwnerProofs` | theorems about `Promise`: memory and lists; extends `PromiseProofs` |
| `PipeSpec` | abstract: what the two ends of a pipe are promised |
| `CorePipe` | `core_pipe`, shown to implement `PipeSpec`; `MCCorePipe` gives the sizes of the messages |
| `CorePipeProofs` | theorems about `CorePipe` and its refinement |
| `Timer` | timers and the iteration of the main loop that drives them |
| `TimerProofs` | theorems about `Timer` |

Definitions have the names of the C functions where one action is a whole function.
A function that releases a lock or waits in the middle is split there, and the
comments chain the parts ("... and then"). An operator introduced by "A plausible
bug in the definition that follows" is a deliberately wrong variant used to see
that a property can fail; no specification uses it.

### CoreThread

`job[j]` holds the fields of a `Core_Pthread_Worker`, `hist[j]` what the user saw.
`pending`, `pendingFb`, `running`, `count`, `countNQ`, `max` are the static
variables. `thr[w]` is a thread: its control point and job. `orders` is `_thread_cb`;
`outer` is the batch taken by the main loop's own flush, `inner` that of a flush
inside an API call (a failed creation, `core_thread_wait`, shutdown). `main` says
where the main thread is; `main.cbk` is the job whose `func_notify` is on the stack.

Each critical section is a step. Where the main thread keeps the pending lock
across a flush, the guard `PendingLockFree` keeps other threads out. `MayMark` shows
that the branch of `core_thread_cancel` which removes a pending job cannot be
reached, so it has no action. `FunctionKilled` is `pthread_cancel` taking effect in a
function that made itself cancellable: the request is remembered per thread.

`_core_thread_shutdown` waits for the threads in a loop of at most fifty rounds. Its two
exits are `ShutdownDrained` (both counters 0) and `ShutdownGiveUp` (threads still counted);
rounds are not counted, since one in which nothing was posted changes nothing. Either way
`core_shutdown` goes on with the last flush and destroys pipe and locks. After a shutdown
that gave up (`main.op = "left"`) the threads go on as if the locks still worked, calls they
post stay in `_thread_cb` for ever, and the program ends (`Ended`): `core_init` is modelled
only after a shutdown that waited (`"down"`). The warning behind the loop (line 650)
asks for `iteration == 20`, but with threads counted the loop only ends at 50, so it is
never printed.

A job that `core_thread_run` takes back after two failed creations (`TakeBack`) is marked
in `hist.stale` if it was no longer in its list. The mark is history: no action and no
property of a run looks at it; the proofs use it to say when such a thing has happened.

### SafeCall

`obj` are the order objects, `cb` the list, `pipe` the unread wakeups, `stack` the
batches of nested flushes, `mpc` and `tpc` the control points of the main thread and
the others, `owner` the thread for which `eina_main_loop_is` holds. `depth` is a
history variable: begins minus ends of the thread that has the loop.

### ThreadQueue and MsgQueue

`blk` are the blocks with `first`, `last`, `ref` and `lock_non_0_ref`; `data`, `read`,
`sem`, `pending`, `lockW`, `lockR` are the queue; `pool` the spare blocks. Every atomic
operation and every lock operation is its own step. Messages are numbered by the order
of their places; `UnfetchedSeq` (what is left in `read`, then in `data`) is the
refinement mapping to `MsgQueue!queue`, so that `ImplementsMsgQueue` says that
messages come out exactly once and in order.

### Promise

Everything runs in one thread; the difficulty is reentrance. `promise` and `future` are
the objects with their links, `sched` the scheduler of an Eo object (entries queued,
listening or not), `pending` is `_pending_futures`, `ctx` one all or race context over
two futures. `stack` is the C call stack: a frame names the function, the future,
promise, value and list it works on, and only the frame on top takes a step. A user
callback is a frame (`"user"`) in which the program may make any call before it returns
a plain value, an error, a promise, a continue promise or a future as a value. `called`
and `before` of a future, and `ended` of a promise, are history. Memory is never reused,
so that a freed number stands for a dangling pointer.

### CorePipe and PipeSpec

`pipe` holds the units in the kernel: the length of a message, then its data. The writer
adds one unit at a time; `WriteLen` and `WriteData` block without room. `p` is the
`Core_Pipe`, `stack` the frames of `_core_pipe_read`, of the handler and of
`core_pipe_wait` in each other. `got`, `taken` and `eof` are history. The refinement
mapping takes the messages written and not yet handed out for `PipeSpec!queue`; a message
put together wrongly is `Torn`, which `PipeSpec` never delivers.

### Timer

`tm` are the timers with their legacy part, `pd` the lists and `timer_current` in
`Efl_Loop_Data`, `now` the clock. `stack` holds iterations of the main loop, walks of
`_efl_loop_timer_expired_call` and callbacks in each other; a walk inside a callback
goes on from the same `timer_current`. User code may run in a callback, among the
idle enterers (`"idle"`), and outside an iteration. `freezes` is the freeze count of Eo,
which is not the timer's own `frozen` flag.

## 3. Runs

| run | result | shows |
|---|---|---|
| `CoreThread` | passes | callbacks, releases, notifications, waiter and shutdown without creation failures |
| `CoreThreadFail` | passes | a pool of one thread with up to two failing creations and killable functions: callbacks, releases and counters; jobs some thread has or will look for get their callback (`ServedIfSeen`) |
| `CoreThreadTakenBack` | violated | a pool of two and two failing creations: a job gets both `func_end` and `func_cancel` (`NoDoubleCallback`) |
| `CoreThreadStranded` | violated | a queued job may wait for ever (`QueuedJobServed`) |
| `CoreThreadKilled` | violated | a stale cancellation request kills another job, whose `func_end` is called |
| `SafeCall` | passes | exclusion, identity, nesting, execution, order life, wakeups; every call returns |
| `ThreadQueue` | passes | FIFO refinement, block life, counters, every message fetched |
| `ThreadQueueReaders` | violated | two readers: a block is freed under a reader |
| `Promise` | passes | callbacks once and in order, no dangling pointer, scheduler and `_pending_futures` agree, deliveries happen |
| `PromiseDiscard` | violated | cancelling the future of a race or all settles its promise once more, and releases it twice |
| `CorePipe` | passes | refinement of `PipeSpec`, release of the memory, every message delivered |
| `Timer` | passes | lists, walks, callbacks after deletion, expiry |

The violated runs are disagreements between the code and a comment, a header or a
test; `PROJECT.json` quotes both sides under "findings".

Other uses after which the code goes wrong are behind a constant that the passing runs
leave off, because they would hide everything that comes after them. Turned on, TLC
finds:

| constant | what TLC finds violated |
|---|---|
| `Spurious = TRUE` in `SafeCall` | `SyncExecuted`: `core_main_loop_thread_safe_call_sync` does not repeat its condition wait, so a spurious wakeup ends the call before its callback |
| `ReschedKinds` with feedback jobs in `CoreThread` | `NotifiedBeforeRelease`: shutdown frees a rescheduled feedback job before its notifications |
| `MaxOpen = 2` in `ThreadQueue` | deadlock of a polling reader with a writer that has two messages open |
| `"batched"` in `Uses` of `Promise` | `NoDangling`, `PendingExact`: a future whose entry is in the batch being dispatched is cancelled; recall does not find the entry |
| `"successor"` in `Uses` of `Promise` | `NoDangling`: a callback cancels the future behind its own, which `_eina_future_cb_dispatch` still has in `next` |
| `DelInWait = TRUE` in `CorePipe` | `FreedUnused`: the handler deletes the pipe while `core_pipe_wait` still waits for messages, and the wait reads `p->pollfd` afterwards |
| `"deleted"` in `Uses` of `Timer` | `TickLive`: a callback deletes its own timer and iterates the loop, whose walk calls the function again |
| `"refreeze"` in `Uses` of `Timer` | `Expires`: a timer frozen twice and thawed once is in the list, and Eo still holds its event back |

### Bounds

* Two jobs and two threads: enough for a job to be taken while another is queued,
  run or reported, and for a thread to run one job after another. One
  notification and one reschedule per job give the orders of end, notification and
  rescheduling. The limit starts at 1 and is raised to 2, so that both a
  full pool and a growing one occur. `CoreThreadFail` keeps it at 1: with two pool
  threads and two failures a job may be taken back too late, which `CoreThreadTakenBack`
  shows (limit 2); `TakenBackInTime` (section 4) proves that it takes both. It has no
  reschedules, to leave room for the liveness check. Two
  failures are needed to give a job up. Symmetry is over jobs only: a new thread is always
  the same one of those that do not exist (`NewThread`). In the passing runs only short jobs
  reschedule (see the table above). No run lowers the limit (then the pool exceeds
  it, as the code tests for equality).
* Two threads, three orders, two nested flushes: one thread can suspend the
  loop while the other waits to, and a synchronous call can be behind either.
* Two writers and one reader, three messages of sizes 1, 2 and 4 with blocks of at
  least 3 and a pool of one spare block: messages share a block, fill it exactly, do
  not fit into what is left, and are larger than a block; a block is reused from the
  pool, and one is really freed. A writer has one open message (`MaxOpen`): with two
  open messages and a polling reader TLC finds a deadlock, listed as a hazard. One
  reader, because two break `FreedUnused`.
* Four promises, nine futures, six calls: one call makes a promise with two futures, so
  that two chains can be gathered into an all or a race (which takes four more futures
  and a promise), and a callback of one can still resolve, chain or cancel another.
* Four messages of 3, 0, 1 and 2 units over a pipe of 2 units, two turns of the read loop
  per wakeup (16 in the code), five calls and nine frames: a message is larger than the
  pipe, so it stays half read across wakeups and nested reads; an empty one ends the
  read early; a handler waits inside a handler inside a wait.
* Two timers, intervals 0 and 1, clock up to 4, four calls, two nested iterations,
  `Precision` 2 and `Hang` 1: a timer recurs in its own callback, two timers are waited
  for together, and a timer is late by more than `Hang`. With three timers the
  invariants hold too (2 to 4 million states); the run keeps two for `Expires`, which says
  that a timer whose time is within the clock's range is called once the program has made
  its last call (before that the program may move it again and again).

### Fairness

* `CoreThread`: the main loop runs and gets control back (weak fairness of its steps,
  strong fairness of its own flush, which a program that calls `core_thread_wait`
  over and over interrupts); the operating system schedules every thread; user
  functions return, though perhaps not before shutdown gives up (then `ServedIfSeen`
  promises nothing). Nothing obliges the program to make another call.
* `SafeCall`: the main loop runs, threads are scheduled, and a thread that
  suspended the loop reaches its outermost end (strong fairness of the end at nesting
  1, as a thread may nest again and again).
* `ThreadQueue`: threads are scheduled, writers finish messages they began, and a
  reader goes on waiting for messages. Polling is not fair: it is the reader's choice.
* `Promise`: the main loop runs, library functions end and callbacks return (weak
  fairness of their steps together); no call of the user is obliged to happen.
* `CorePipe`: the main loop reads, waits time out and handlers return (weak fairness of
  the reader), and a write that has begun goes on when there is room. `Drained` assumes
  that the pipe is not left frozen for ever.
* `Timer`: the loop goes on (weak fairness of its steps); it does not for ever wake up
  before its timeout (strong fairness of `Sleep`, as other wakeups are allowed in
  between), and a function returns although the program makes calls and iterates
  the loop in it (strong fairness of `TickReturn`).

## 4. Proofs

The theorems hold for every value of the constants: any jobs, threads, orders and
messages, and all bounds. No fairness is used. Each has the same form: an inductive
invariant, one lemma per action (or per group of actions with the same effect), and
the theorem read off the invariant.

The hypotheses in front of a theorem are the constants of section 3 that stand for uses
after which the code goes wrong; TLC finds the theorem's property violated without the
hypothesis (two exceptions are named for the queue). The passing runs have the same values.

### Safe calls: `SafeCallProofs`

* `TypeCorrect`: `TypeOK`;
* `LoopExclusive`: `Exclusive`, mutual exclusion in the main loop;
* `LoopIdentified`: `LoopIdentity`;
* `NestingCorrect`: `NestingCounted`;
* `NoLostWakeup`: `WakeupPending`.

Assumptions: `Main` is no element of `Threads`, and the bounds are natural numbers
(`MainAssumption`, `BoundAssumption`).

`Exclusive` is not inductive: that a thread's wait ends only when the main thread is
parked for *it* depends on ids. The inductive invariant `SafeInv` says that requests
which are open have different ids, all different from the last id given back
(`Requests`); that `_thread_id` is -1 unless a suspension is handled and equals
`_thread_id_update` once it is over (`Ids`); that the thread with the loop is the one
`_thread_id` names (`Granted`); and who is "main" (`Owner`). With it, the main thread
leaves its wait (`_thread_id_update = _thread_id`) only when no thread has the
loop. `TypeInv` adds that the main thread has an order in hand while it works on one
(`Busy`) and a thread in a call has its own (`Mine`). `WakeupPending` needs `TypeInv`
only.

### Orders of safe calls: `SafeCallOrderProofs`

* `SyncCallExecuted`: `~Spurious => (Spec => []SyncExecuted)`;
* `OrdersFreedOnce`: `~Spurious => (Spec => []OrdersLive)`.

A flush moves the list to a batch of its own and may be interrupted by a flush inside a
callback, so the question is whether two flushes can meet the same order. `OrderInv` says
that they cannot: an order is on the list or in one place of one batch (`OnePlace`). From
it follows what each order has been through (`OrderStates`: an asynchronous one ran when it
is freed; a synchronous one that was woken ran once and is nowhere), which order belongs
to which caller (`Callers`), and what the main thread has in hand (`AtWork`). The hypothesis
is needed: `core_main_loop_thread_safe_call_sync` waits without a loop.

### Pipe: `CorePipeProofs`

* `TypeCorrect`: `TypeOK`;
* `FreedIsUnused`: `~DelInWait => (Spec => []FreedUnused)`;
* `Implements`: `Spec => ImplementsPipe`, the refinement of `PipeSpec`, whose fairness-free
  specification is the conclusion; `Drained` stays with TLC;
* `PipeInvariant`: the inductive invariant behind them.

`PipeInv` has two halves. The frames on the stack are nested as the code calls them (a
handler by a read, a read by the main loop or a wait, a wait by the main loop or a
handler), and `handling` is the number of those that use the pipe (`StackInv`): so
`_core_pipe_del` frees the memory only under frames that do not come back to it. The units
in the kernel pipe are those from the one the reader expects next to the one the writer
writes next, each following the one before (`Stream`), and what is half read is a prefix
of its message (`Partial`): so a message put together across wakeups and nested reads is
whole. The step lemmas of the refinement go over the actions: each hands out the head of
`PipeSpec!queue`, appends to it, deletes, or stutters.

### Pool: `CoreThreadProofs`

* `PoolInvariant`: the inductive invariant `PoolInv`;
* `TypeCorrect`: `TypeOK`; `CountsAreExact`: `CountExact`; `WaiterIsOnStack`:
  `WaiterOnStack`; all without hypotheses, so with failing creations, rescheduled
  feedback jobs and killed functions;
* `CalledBackOnce`: `CallbackOnce` as long as no job was taken back too late
  (`NoLateTakeBack => CallbackOnce` always holds);
* `TakenBackInTime`: `NoLateTakeBack` always holds if the pool is limited to one thread
  (`PoolOfOne`) or at most one creation fails (`OneFailure`). Neither can be dropped:
  `CoreThreadTakenBack` has two threads and two failures;
* `ReleasedIsUnused`: `NoUseAfterRelease`, and `NotifiedThenReleased`:
  `NotifiedBeforeRelease`, again as long as no job was taken back too late, and if
  feedback jobs are not rescheduled (`NoFbResched`);
* `EndAfterCompletion`: `EndMeansCompleted`, and `ShutdownOutcomes`: `ShutdownOutcome`, both
  exits of shutdown, if no function makes itself cancellable (`NoKill`): a killed thread
  leaves without looking at the pending lists once more, and a stale cancellation request
  ends another job (run `CoreThreadKilled`).

Assumptions: those of `CoreThread`, of which `FiniteAssumption` (finitely many threads) was
added for the counters.

None of these is inductive. `PoolInv` counts the places of a job: on `pending` or
`pendingFb`, kept by `core_thread_feedback_run` for a thread of its own, with a thread, in
a posted end. The sum is 1 for a job that is not released, except for one whose kill flag
waits for its notifications; these are exactly as many posted calls as `send` exceeds
`received` (`JobInv`). A step is then a sum: it moves a job from one place to another, or
takes it from its last one and calls it back. `ThreadInv`, `RunningInv` and `MainInv` say
which places a thread and the main thread can have; `ShutInv` says what is left while
the pool shuts down: a job on a list has a thread that will still look there. `PoolInv` was
checked with TLC (up to 9 million states) before it was proved.

`TakenBackInTime` has two small invariants on top of it. With a limit of one (`OneInv`),
while `core_thread_run` is on its way to a creation no pool thread exists that could take
the job, and no other caller makes one, so after two failures it is still in its list. With
one failure to spare (`FewInv`) the second attempt succeeds, and nothing is taken back.

### Timers: `TimerProofs`

* `TimerInvariant`: the inductive invariant `TimerInv`;
* `TypeCorrect`: `TypeOK`; `ListsStayExact`: `ListsExact`; `CalledOncePerWalk`:
  `OncePerWalk`, without hypotheses, so also with timers deleted anywhere and frozen twice;
* `TickedAlive`: `TickLive`, if a timer inside a call is deleted by its own callback only,
  and no iteration is made while one waits to be deleted (`"deleted"` not in `Uses`).

Assumptions: those of `Timer` (bounds, and intervals that are natural numbers).

`ListsExact` needs that a timer which is not frozen has a positive expiry, for
`_efl_loop_timer_util_instanciate` puts one without into `suspended`; that the expiry stays
positive when a timer is thawed needs the clock and `loop_time` (`Times`). `OncePerWalk` and
`TickLive` ask who stands where in a list that callbacks rearrange. An operation on the
lists moves one timer and leaves the order of the others (`Placing`, proved for each of
`eina_inlist_remove`, the insertion, `_efl_loop_timer_util_loop_clear` and
`_efl_loop_timer_util_instanciate`). A walk has called a timer only if it will not meet it
again (`Behind`): the timer is just added, in no list, before `timer_current`, or
`timer_current` is NULL. `Walks` says this of the innermost walk. The walks around it need
nothing: an inner walk leaves `timer_current` NULL and sets the timers it called anew, so
that the outer one ends when its callback returns. `Deleted` says the same of a timer that
is to be deleted. `Nested` and `Ticks` describe the call stack: which frame is on which, and
that all callbacks of a timer but the outermost know that they are nested, so that only the
last to return frees the timer. `TimerInv` was checked with TLC (up to 5 million states)
before it was proved.

### Queue: `ThreadQueueProofs`

For any number of writers, messages, sizes and open messages, and at most one reader
(`OneReader`):

* `QueueInvariant`: the inductive invariant `QueueInv`;
* `TypeCorrect`: `TypeOK`; `FreedBlocksUnused`: `FreedUnused`;
  `FetchedMessagesComplete`: `FetchedComplete`; `PendingCountExact`: `PendingExact`;
* `QueueRefinement`: `OneReader => (Spec => ImplementsMsgQueue)`.

Assumptions: those of `ThreadQueue` (finitely many threads, readers that are no writers,
sizes that are not 0).

With two readers TLC refutes `FreedUnused` (run `ThreadQueueReaders`): the count of a block
goes up after the message was taken from it, so another reader can free the block in
between. `FetchedComplete` and `PendingExact` fail then too. `TypeOK` and the refinement hold
with two readers on the small instances tried; their proof uses the same invariant, so it is for
one reader.

None of the properties is inductive. `QueueInv` says that the messages waiting are the last
ones that got a place (`Tiles`), that those in a block follow each other from `first` to
`last` without a gap (`Tiles`), and that a later message is behind an earlier one (`Order`): so
the message at `first` of `thq->read` is the oldest. An open message is in a block of
`thq->data`, never in one the reader has got (`Opens`); the block's count is the number of its
open messages (`Refs`); and `lock_non_0_ref` is held while there are any, but between the count
and the lock of the first writer, which keeps lock_write meanwhile (`Locks`, `WriterOK`). So a
block whose lock the reader can take is complete. Two subtle cases are in `Locks`: the
last writer of a block may still have to release the lock while the next one waits to
take it, or while the block is on its way through the reader to the pool and out again.
`ReaderOK` says that the reader holds one block besides `thq->read` at most, and an exhausted one;
`Frees` that a freed block is out of all use; `Counts` relates the semaphore and `pending` to the
messages waiting and to the threads between two steps. The refinement then has two step lemmas,
`MsgAlloc` is `Send` and `TakeMessage` is `Fetch`; every other action leaves `UnfetchedSeq` as
it is. `QueueInv` was checked with TLC (1.6 million states) before it was proved.

### Promises: `PromiseProofs`

* `BaseInvariant`: the inductive invariant `BaseInv`;
* `Typed`: `TypeOK`; `CalledOnce`: `CallbackOnce`; `CalledInOrder`: `ChainOrder`.

Assumptions: those of `Promise`. There is no hypothesis on `Uses`: the three hold even after
the uses that make the code follow pointers to freed memory, because a freed future keeps its
history and is never called again.

That a callback is called once is local: `_eina_future_cb_dispatch` marks the future, and both
loops stop at the mark (`LifeOK`). The order is not. A loop may be interrupted by callbacks that
cancel, extend or gather the chain it works on, and several loops may hold pointers into one
chain. `BaseInv` says of every pointer to a future that somebody will still follow (the frames
of the stack, the entries of the scheduler and of the batch, the link of a promise) that the
future was made and is `Ready`: the one it was chained to was called or has no callback. For
this the links agree with the order in which the chain was built (`LinksOK`): a future without
`prev` is `Ready`, and `next` leads to a future chained to this one. `_eina_future_cancel` enters a
chain in the middle and walks back to its first future; that the walk ends and ends there
(`FirstFacts`) is proved by taking the least future at which the recursion would fail. A frame
of a callback has the loop that called it right below (`CallOK`), so that the value goes back to
a future that was called. `Grows` is what all steps have in common: a future is never unmade,
its kind and its predecessor stay, and calls are not taken back; whatever is `Ready` stays so.
`BaseInv` was checked with TLC (all `Uses`, 142 thousand states) before it was proved.

### Promises: `PromiseOwnerProofs`

* `OwnInvariant`: the inductive invariant `OwnInv`;
* `NothingDangles`: `NoDangling`; `ReleasedOnce`: `PromiseOnce`; `PendingAgrees`: `PendingExact`.

All four have the hypothesis `Calm`: `Uses` is empty and `"race"` is not in `Contexts`. The first
part is needed, for with one of the `Uses` TLC refutes the properties; it excludes calls by
what they would cancel, not states. The second is a limit of the proof: races are only
model-checked. Everything else may happen, to any depth: callbacks that chain, resolve,
gather and cancel while the chain they belong to is half dispatched, promises and futures as
values, the shutdown.

The argument is ownership. The first future of a chain waits for exactly one of these: a
promise, an entry of the scheduler or of the batch, the callback of the future before it, or
the frame on top of the stack, which may go on with it. The parts of `OwnInv`:

* `Linked`: `next` and `prev` are inverse to each other and lead to live futures, except that a
  future in whose callback the library is keeps its `next`, which then has no `prev`, promise,
  entry or frame (`Idle`): that is the pointer `_eina_future_dispatch` goes on with;
* `Promised`: promises and futures point to each other, and `ended` is 1 exactly for those freed;
* `Stacked`: every frame but the one on top waits (`Below`): a loop for a future whose callback
  was called, each its own (`Apart`), the release of a promise for one that is still there and
  has no future, that of the context for one without futures. `TopAt` says what the frame on
  top has for itself: a loop its future, a returned promise nobody else (`Handed`),
  `_eina_future_cancel` a chain without a batched entry and without a promise of the library
  (`Entered`, from `CancelAllowed`);
* `Proxied` and `Gathered`: the promise that a callback of `eina_future_as_value` or of
  `eina_promise_all` will settle is live and no frame is about to release it, and the futures
  of the context are those whose callback was not called;
* `Booked`: the lists of the scheduler, of the batch and of the pending futures have no
  duplicates and agree with `scheduled_entry`.

There is one lemma per action (`...Own`). What they share is `OwnStep`: a step that leaves the
tasks of the library (`SameTasks`), its promises (`SamePromises`) and the entries as they are
only has to show `Linked`, `Promised` and `Stacked`. `OwnInv` was checked with TLC (312 thousand
states, seven calls) before it was proved.

### Only model-checked

* Liveness (`CallsReturn`, `ServedIfSeen`, `AllFetched`, `Served`, `Drained`, `Expires`):
  out of reach of the prover.
* `ThreadQueue` with several readers.
* `NoDangling`, `PromiseOnce` and `PendingExact` of `Promise` with races: the first future of a
  race cancels the others from inside a callback, so several chains have the same owner.

## 5. What is not modelled

* Pool: data hashes, recycling of job structures, code under `#if 0`, API calls made
  from callbacks of nested flushes, what destroyed locks do to the threads left by a
  shutdown that gave up and a `core_init` after it, lowering the limit
  (`core_thread_max_reset` included).
* Safe calls: `core_fork_reset`, wrap-around of ids after 2^31 suspensions, failing
  `malloc`.
* Queue: parent queues, the fd, failing allocations, `eina_thread_queue_free`, relaxed
  memory order.
* Promises: the wrappers (easy, convert, log, ignore_error, `chain_array`), which add
  futures of the modelled kind; `__eina_promise_cancel_data`, `eina_promise_all_iterator`
  (calls `eina_promise_all_array`), deletion of the scheduler's object, code in a
  promise's own cancel callback, failing allocations, iterations of the main loop made
  inside a future's callback.
* Pipe: several threads writing at once (their lengths and data may mix), writes cut
  short, a stream that ends inside a message, iterations of the main loop made inside a
  handler (other than `core_pipe_wait`), the `select` variant of the wait and
  the Windows branches.
* Timers: Eo timers without a legacy callback, change of parent, setting the loop's
  time, negative delays, changing the precision while timers run. Of the
  main loop: descriptors, signals, idlers, jobs, animators, pollers.
* The other components of the inventory; `PROJECT.json` gives the reason for each.

Seen while modelling and not stated as a property: a callback that iterates the loop
has its timer set anew twice, by the inner walk and when it returns, so that one tick
is lost; `core_timer_loop_add` resets a timer that has no loop yet, which does
nothing, so it behaves like `core_timer_add`; `_future_proxy` does not settle its promise
on an error, so the chain behind `eina_future_as_value` of a rejected future waits
for ever.

Most of the repository's lines are outside these models: generated headers, tables,
containers and value types, bindings and the Eolian compiler are sequential code over
large data, where a model would repeat the code; they are better served by its tests.

## 6. Plan

Done: pool, safe calls, queue, pipe, timers and promises with proofs.

1. Proofs: `OwnInv` with races; an invariant for `ThreadQueue` that carries the
   refinement to several readers.
2. `core_fork_reset` in `SafeCall`; a property for the main thread's own count of
   begins, which a suspending thread overwrites.
3. The queue of core events with filters, and callback frames of Eo.
