----------------------------- MODULE CoreThread -----------------------------
(***************************************************************************)
(* The worker-thread pool of src/src/lib/core/core_thread.c.               *)
(*                                                                         *)
(* The main-loop thread queues jobs (core_thread_run and                   *)
(* core_thread_feedback_run), cancels them and waits for them.  Pool       *)
(* threads take jobs from two pending lists, run the user's function and   *)
(* post the outcome back to the main loop with                             *)
(* core_main_loop_thread_safe_call_async; the main loop handles what was   *)
(* posted in batches (_core_main_call_flush in core.c) and calls func_end  *)
(* or func_cancel.  A "direct" feedback job owns a thread outside the pool.*)
(*                                                                         *)
(* Every critical section of the pending-list spinlock is one step.  The   *)
(* one place where the main thread keeps that lock over several steps is   *)
(* a thread creation that failed once: it then flushes with the lock held. *)
(* Reading a job's cancel flag and storing the thread that runs it are one *)
(* step.                                                                   *)
(*                                                                         *)
(* Not in the model: the recycling of job structures through an            *)
(* Eina_Trash (a job here is never reused), the per-job and global data    *)
(* hashes, the code under "#if 0" (message_run), and API calls made from   *)
(* callbacks of a nested flush.  Outside a nested flush a callback's API   *)
(* calls are the main thread's next steps; core_thread_cancel may also be  *)
(* called while func_notify is on the stack.                               *)
(***************************************************************************)
EXTENDS Integers, Sequences, FiniteSets

CONSTANTS
    Jobs,         \* job structures (Core_Pthread_Worker) a program may create
    Threads,      \* operating-system threads available to the pool
    NoJob, NoThread,
    InitMax,      \* _core_thread_count_max after _core_thread_init
    MaxValues,    \* what the program passes to core_thread_max_set
    MaxNotify,    \* bound: core_thread_feedback calls per job
    MaxResched,   \* bound: core_thread_reschedule calls per job
    MaxFail,      \* bound: failures of eina_thread_create
    ReschedKinds, \* kinds of jobs whose function calls core_thread_reschedule
    Cancellable   \* jobs whose function calls eina_thread_cancellable_set(TRUE)

ASSUME NoneAssumption == NoJob \notin Jobs /\ NoThread \notin Threads
ASSUME FiniteAssumption == IsFiniteSet(Threads)
ASSUME BoundAssumption ==
    /\ InitMax \in Nat \ {0}
    /\ MaxValues \subseteq Nat \ {0}
    /\ MaxNotify \in Nat /\ MaxResched \in Nat /\ MaxFail \in Nat
ASSUME BehaviourAssumption ==
    /\ Cancellable \subseteq Jobs
    /\ ReschedKinds \subseteq {"short", "feedback", "direct"}

VARIABLES
    job,       \* the fields of each Core_Pthread_Worker
    hist,      \* what the user observed of each job (history)
    pending,   \* _Core_pending_job_threads
    pendingFb, \* _Core_pending_job_threads_feedback
    running,   \* _Core_running_job
    count,     \* _core_thread_count
    countNQ,   \* _core_thread_count_no_queue
    max,       \* _core_thread_count_max
    thr,       \* control point and current job of every thread
    orders,    \* _thread_cb: calls posted to the main loop
    outer,     \* the batch the main loop's own flush is working on
    inner,     \* the batch of a flush nested in an API call
    main,      \* where the main-loop thread is
    fails      \* thread creations that failed so far (bound)

vars == <<job, hist, pending, pendingFb, running, count, countNQ, max, thr,
          orders, outer, inner, main, fails>>

Kinds == {"none", "short", "feedback", "direct"}

PoolPC == {"popShort", "popFb", "add", "read", "run", "clean", "post",
           "check1", "check2", "exit"}

PC == PoolPC \cup {"none", "dstart", "drun", "dclean", "gone"}

Ops == {"idle", "create", "flush", "retry", "giveup", "direct", "dflush",
        "dretry", "dcount", "wait", "sdcancel", "drain", "final", "down",
        "gaveup", "left"}

Job == [kind: Kinds, live: BOOLEAN, cancel: BOOLEAN, kill: BOOLEAN,
        resched: BOOLEAN, waiter: BOOLEAN, self: Threads \cup {NoThread},
        send: Nat, received: Nat]

\* Calls of func_end and func_cancel; whether the last run of the function
\* returned; calls of core_thread_reschedule; whether a failed creation took the
\* job back after a pool thread had already taken it off its list.
Hist == [ends: Nat, cancels: Nat, completed: BOOLEAN, resched: Nat,
         stale: BOOLEAN]

Thread == [pc: PC, work: Jobs \cup {NoJob}, req: BOOLEAN, dying: BOOLEAN]

Order == ({"handler", "notify"} \X Jobs) \cup ({"join"} \X Threads)

TypeOK ==
    /\ job \in [Jobs -> Job]
    /\ hist \in [Jobs -> Hist]
    /\ pending \in Seq(Jobs) /\ pendingFb \in Seq(Jobs)
    /\ running \subseteq Jobs
    /\ count \in Nat /\ countNQ \in Int /\ max \in Nat /\ fails \in Nat
    /\ thr \in [Threads -> Thread]
    /\ orders \in Seq(Order) /\ outer \in Seq(Order) /\ inner \in Seq(Order)
    /\ main \in [op: Ops, job: Jobs \cup {NoJob}, cbk: Jobs \cup {NoJob},
                 tried: BOOLEAN]

NewJob == [kind |-> "none", live |-> FALSE, cancel |-> FALSE, kill |-> FALSE,
           resched |-> FALSE, waiter |-> FALSE, self |-> NoThread,
           send |-> 0, received |-> 0]

NoThreadState == [pc |-> "none", work |-> NoJob, req |-> FALSE, dying |-> FALSE]

Idle == [op |-> "idle", job |-> NoJob, cbk |-> NoJob, tried |-> FALSE]

Init ==
    /\ job = [j \in Jobs |-> NewJob]
    /\ hist = [j \in Jobs |-> [ends |-> 0, cancels |-> 0, completed |-> FALSE,
                               resched |-> 0, stale |-> FALSE]]
    /\ pending = <<>> /\ pendingFb = <<>> /\ running = {}
    /\ count = 0 /\ countNQ = 0 /\ max = InitMax /\ fails = 0
    /\ thr = [w \in Threads |-> NoThreadState]
    /\ orders = <<>> /\ outer = <<>> /\ inner = <<>>
    /\ main = Idle

-----------------------------------------------------------------------------
(* Helpers *)

Elements(s) == {s[i] : i \in DOMAIN s}

\* The main thread holds _Core_pending_job_threads_mutex over several steps
\* only while it flushes and retries after a failed creation.
PendingLockFree == main.op \notin {"flush", "retry"}

\* The main thread may make any API call.
ApiReady == main.op = "idle" /\ main.cbk = NoJob

\* core_main_loop_thread_safe_call_async from a thread that is not the main one.
Post(o) == orders' = Append(orders, o)

\* eina_thread_create starts a thread that does not exist.  Threads that do not
\* exist are all alike, so it is always the same one of them.
NewThread(w) ==
    thr[w].pc = "none" /\ w = CHOOSE v \in Threads : thr[v].pc = "none"

\* A plausible bug in the definition that follows: func_end in any case.
KillAlwaysEnds(j) ==
    /\ hist' = [hist EXCEPT ![j].ends = @ + 1]
    /\ job' = [job EXCEPT ![j].live = FALSE, ![j].waiter = FALSE]

\* func_cancel if the job was cancelled, else func_end (_core_thread_kill);
\* a waiter installed by core_thread_wait is reset by the wrapper callback.
Kill(j) ==
    /\ hist' = IF job[j].cancel
                 THEN [hist EXCEPT ![j].cancels = @ + 1]
                 ELSE [hist EXCEPT ![j].ends = @ + 1]
    /\ job' = [job EXCEPT ![j].live = FALSE, ![j].waiter = FALSE]

\* The cancellation flag of the jobs in S is set and their threads get a
\* pthread_cancel, which is remembered (and recorded here if some function is
\* cancellable at all, as nothing else ever looks at it).
MarkCancelled(S) ==
    /\ job' = [j \in Jobs |-> IF j \in S THEN [job[j] EXCEPT !.cancel = TRUE]
                              ELSE job[j]]
    /\ thr' = [w \in Threads |->
                 IF \E j \in S : job[j].self = w
                   THEN [thr[w] EXCEPT !.req = @ \/ (thr[w].pc # "none"
                                                      /\ Cancellable # {})]
                   ELSE thr[w]]

\* core_thread_cancel gets past its early returns.  The branch that takes a
\* pending job off its list is dead code: have_main_loop_thread is only ever
\* set inside get_main_loop_thread, which is only called once it is set.
MayMark(j) ==
    /\ job[j].live
    /\ ~job[j].cancel
    /\ job[j].kind # "short" => ~job[j].kill

-----------------------------------------------------------------------------
(* The main-loop thread: starting jobs *)

\* The job is appended to its pending list; if the pool is below its maximum
\* the lock is dropped (eina_threads_init) before a thread is created.
Enqueue(j, k, tried) ==
    /\ IF k = "short"
         THEN pending' = Append(pending, j) /\ UNCHANGED pendingFb
         ELSE pendingFb' = Append(pendingFb, j) /\ UNCHANGED pending
    /\ main' = IF count = max THEN Idle
               ELSE [Idle EXCEPT !.op = "create", !.job = j, !.tried = tried]

\* core_thread_run, up to the first release of the pending lock.
core_thread_run(j) ==
    /\ ApiReady /\ job[j].kind = "none"
    /\ job' = [job EXCEPT ![j] = [NewJob EXCEPT !.kind = "short", !.live = TRUE]]
    /\ Enqueue(j, "short", FALSE)
    /\ UNCHANGED <<hist, running, count, countNQ, max, thr, orders, outer,
                   inner, fails>>

\* core_thread_feedback_run; with try_no_queue a thread of its own is tried.
core_thread_feedback_run(j, tryNoQueue) ==
    /\ ApiReady /\ job[j].kind = "none"
    /\ job' = [job EXCEPT ![j] = [NewJob EXCEPT !.live = TRUE,
                            !.kind = IF tryNoQueue THEN "direct" ELSE "feedback"]]
    /\ IF tryNoQueue
         THEN /\ main' = [Idle EXCEPT !.op = "direct", !.job = j]
              /\ UNCHANGED <<pending, pendingFb>>
         ELSE Enqueue(j, "feedback", FALSE)
    /\ UNCHANGED <<hist, running, count, countNQ, max, thr, orders, outer,
                   inner, fails>>

\* A plausible bug in the definition that follows: the thread is not counted.
CreateUncounted(w) ==
    /\ main.op \in {"create", "retry"}
    /\ NewThread(w)
    /\ thr' = [thr EXCEPT ![w] = [NoThreadState EXCEPT !.pc = "popShort"]]
    /\ main' = Idle
    /\ UNCHANGED <<job, hist, pending, pendingFb, running, count, countNQ, max,
                   orders, outer, inner, fails>>

\* PHC succeeds: the new thread starts in _core_thread_worker.
CreateOk(w) ==
    /\ main.op \in {"create", "retry"}
    /\ NewThread(w)
    /\ thr' = [thr EXCEPT ![w] = [NoThreadState EXCEPT !.pc = "popShort"]]
    /\ count' = count + 1
    /\ main' = Idle
    /\ UNCHANGED <<job, hist, pending, pendingFb, running, countNQ, max,
                   orders, outer, inner, fails>>

\* PHC2 succeeds: the job's own thread; no_queue is counted afterwards.
DirectOk(w) ==
    /\ main.op \in {"direct", "dretry"}
    /\ NewThread(w)
    /\ thr' = [thr EXCEPT ![w] = [NoThreadState EXCEPT !.pc = "dstart",
                                                       !.work = main.job]]
    /\ main' = [Idle EXCEPT !.op = "dcount", !.job = main.job]
    /\ UNCHANGED <<job, hist, pending, pendingFb, running, count, countNQ, max,
                   orders, outer, inner, fails>>

DirectCount ==
    /\ main.op = "dcount"
    /\ countNQ' = countNQ + 1
    /\ main' = Idle
    /\ UNCHANGED <<job, hist, pending, pendingFb, running, count, max, thr,
                   orders, outer, inner, fails>>

\* A plausible bug in the definition that follows: counted although not created.
FirstFailCounted ==
    /\ main.op \in {"create", "direct"} /\ ~main.tried
    /\ fails < MaxFail /\ fails' = fails + 1
    /\ count' = count + 1
    /\ main' = [main EXCEPT !.tried = TRUE,
                            !.op = IF @ = "create" THEN "flush" ELSE "dflush"]
    /\ inner' = orders /\ orders' = <<>>
    /\ UNCHANGED <<job, hist, pending, pendingFb, running, countNQ, max, thr,
                   outer>>

\* The first failure: flush what threads posted (joins may free threads).
FirstFail ==
    /\ main.op \in {"create", "direct"} /\ ~main.tried
    /\ fails < MaxFail /\ fails' = fails + 1
    /\ main' = [main EXCEPT !.tried = TRUE,
                            !.op = IF @ = "create" THEN "flush" ELSE "dflush"]
    /\ inner' = orders /\ orders' = <<>>
    /\ UNCHANGED <<job, hist, pending, pendingFb, running, count, countNQ, max,
                   thr, outer>>

FlushDone ==
    /\ main.op \in {"flush", "dflush"} /\ main.cbk = NoJob /\ inner = <<>>
    /\ main' = [main EXCEPT !.op = IF @ = "flush" THEN "retry" ELSE "dretry"]
    /\ UNCHANGED <<job, hist, pending, pendingFb, running, count, countNQ, max,
                   thr, orders, outer, inner, fails>>

\* A direct thread cannot be had: fall back to the pool, already "tried".
DirectFail ==
    /\ main.op = "dretry"
    /\ fails < MaxFail /\ fails' = fails + 1
    /\ job' = [job EXCEPT ![main.job].kind = "feedback"]
    /\ Enqueue(main.job, "feedback", TRUE)
    /\ UNCHANGED <<hist, running, count, countNQ, max, thr, orders, outer, inner>>

\* eina_list_remove: the first occurrence of x leaves the list.
Without(s, x) ==
    IF x \in Elements(s)
      THEN LET i == CHOOSE k \in DOMAIN s : s[k] = x /\ \A n \in 1..(k - 1) : s[n] # x
           IN  [k \in 1..(Len(s) - 1) |-> IF k < i THEN s[k] ELSE s[k + 1]]
      ELSE s

\* A plausible bug in the definition that follows: the job stays in its list.
TakeBackListed(j) ==
    /\ UNCHANGED <<pending, pendingFb>>
    /\ hist' = [hist EXCEPT ![j].cancels = @ + 1,
                            ![j].stale = j \notin Elements(pending \o pendingFb)]
    /\ job' = [job EXCEPT ![j].live = FALSE]

\* No thread and none in the pool: the job is taken back and func_cancel called.
TakeBack(j) ==
    /\ pending' = Without(pending, j) /\ pendingFb' = Without(pendingFb, j)
    /\ hist' = [hist EXCEPT ![j].cancels = @ + 1,
                            ![j].stale = j \notin Elements(pending \o pendingFb)]
    /\ job' = [job EXCEPT ![j].live = FALSE]

\* The last failure of core_thread_run, still under the pending lock; of
\* core_thread_feedback_run, which releases the lock and takes it again.
LastFail ==
    LET j == main.job IN
    /\ main.op = "retry" \/ (main.op = "create" /\ main.tried)
    /\ fails < MaxFail /\ fails' = fails + 1
    /\ IF job[j].kind # "short"
         THEN /\ main' = [main EXCEPT !.op = "giveup"]
              /\ UNCHANGED <<job, hist, pending, pendingFb>>
         ELSE /\ main' = Idle
              /\ IF count = 0 THEN TakeBack(j)
                 ELSE UNCHANGED <<job, hist, pending, pendingFb>>
    /\ UNCHANGED <<running, count, countNQ, max, thr, orders, outer, inner>>

FeedbackGiveUp ==
    LET j == main.job IN
    /\ main.op = "giveup"
    /\ main' = Idle
    /\ IF count = 0 THEN TakeBack(j)
       ELSE UNCHANGED <<job, hist, pending, pendingFb>>
    /\ UNCHANGED <<running, count, countNQ, max, thr, orders, outer, inner, fails>>

\* core_thread_max_set (its clamp to 32 per CPU is part of MaxValues).
core_thread_max_set(n) ==
    /\ ApiReady
    /\ max' = n
    /\ UNCHANGED <<job, hist, pending, pendingFb, running, count, countNQ, thr,
                   orders, outer, inner, main, fails>>

-----------------------------------------------------------------------------
(* The main-loop thread: cancelling and waiting *)

core_thread_cancel(j) ==
    /\ main.op = "idle"
    /\ MayMark(j)
    /\ MarkCancelled({j})
    /\ UNCHANGED <<hist, pending, pendingFb, running, count, countNQ, max,
                   orders, outer, inner, main, fails>>

\* core_thread_wait replaces the job's callbacks by wrappers that point to a
\* waiter on its own stack, then flushes (at least once, whatever the time
\* given) until the wrapper has been called...
core_thread_wait(j) ==
    /\ ApiReady /\ job[j].live
    /\ job' = [job EXCEPT ![j].waiter = TRUE]
    /\ main' = [main EXCEPT !.op = "wait", !.job = j]
    /\ inner' = orders /\ orders' = <<>>
    /\ UNCHANGED <<hist, pending, pendingFb, running, count, countNQ, max, thr,
                   outer, fails>>

\* A plausible bug in the definition that follows: the callbacks are not put back.
WaitReturnHooked ==
    /\ main.op = "wait" /\ main.cbk = NoJob /\ inner = <<>>
    /\ main' = Idle
    /\ UNCHANGED <<job, hist, pending, pendingFb, running, count, countNQ, max,
                   thr, orders, outer, inner, fails>>

\* ...or the time is over, when it puts the callbacks back.
WaitReturn ==
    /\ main.op = "wait" /\ main.cbk = NoJob /\ inner = <<>>
    /\ job' = [job EXCEPT ![main.job].waiter = FALSE]
    /\ main' = Idle
    /\ UNCHANGED <<hist, pending, pendingFb, running, count, countNQ, max, thr,
                   orders, outer, inner, fails>>

-----------------------------------------------------------------------------
(* The main-loop thread: handling what threads posted *)

\* _core_main_call_flush takes the whole list and then works through it.
FlushTake ==
    /\ main.cbk = NoJob /\ orders # <<>> /\ orders' = <<>>
    /\ \/ main.op = "idle" /\ outer = <<>> /\ outer' = orders /\ UNCHANGED inner
       \/ main.op \in {"wait", "drain"} /\ inner = <<>> /\ inner' = orders
          /\ UNCHANGED outer
    /\ UNCHANGED <<job, hist, pending, pendingFb, running, count, countNQ, max,
                   thr, main, fails>>

\* The order at the head of the batch being worked on is removed from it.
NextOrder(o) ==
    /\ main.cbk = NoJob
    /\ \/ /\ main.op = "idle" /\ outer # <<>> /\ o = Head(outer)
          /\ outer' = Tail(outer) /\ UNCHANGED inner
       \/ /\ main.op \in {"flush", "dflush", "wait", "drain", "final", "gaveup"}
          /\ inner # <<>> /\ o = Head(inner)
          /\ inner' = Tail(inner) /\ UNCHANGED outer

\* A plausible bug in the definition that follows: outstanding notifications are ignored.
HandlerImpatient(j) ==
    /\ NextOrder(<<"handler", j>>)
    /\ Kill(j)
    /\ UNCHANGED <<pending, pendingFb, running, count, countNQ, max, thr,
                   orders, main, fails>>

\* _core_thread_handler: the job is over unless notifications are outstanding.
_core_thread_handler(j) ==
    /\ NextOrder(<<"handler", j>>)
    /\ IF job[j].kind # "short" /\ job[j].send # job[j].received
         THEN job' = [job EXCEPT ![j].kill = TRUE] /\ UNCHANGED hist
         ELSE Kill(j)
    /\ UNCHANGED <<pending, pendingFb, running, count, countNQ, max, thr,
                   orders, main, fails>>

\* _Core_notify_handler up to and including the call of func_notify...
_Core_notify_handler(j) ==
    /\ NextOrder(<<"notify", j>>)
    /\ job' = [job EXCEPT ![j].received = @ + 1]
    /\ main' = [main EXCEPT !.cbk = j]
    /\ UNCHANGED <<hist, pending, pendingFb, running, count, countNQ, max, thr,
                   orders, fails>>

\* A plausible bug in the definition that follows: the kill flag is not looked at.
NotifyReturnKills ==
    LET j == main.cbk IN
    /\ j # NoJob
    /\ main' = [main EXCEPT !.cbk = NoJob]
    /\ IF job[j].send = job[j].received THEN Kill(j)
       ELSE UNCHANGED <<job, hist>>
    /\ UNCHANGED <<pending, pendingFb, running, count, countNQ, max, thr,
                   orders, outer, inner, fails>>

\* ...and what follows its return.
NotifyReturn ==
    LET j == main.cbk IN
    /\ j # NoJob
    /\ main' = [main EXCEPT !.cbk = NoJob]
    /\ IF job[j].kill /\ job[j].send = job[j].received THEN Kill(j)
       ELSE UNCHANGED <<job, hist>>
    /\ UNCHANGED <<pending, pendingFb, running, count, countNQ, max, thr,
                   orders, outer, inner, fails>>

_core_thread_join(w) ==
    /\ NextOrder(<<"join", w>>)
    /\ thr' = [thr EXCEPT ![w] = NoThreadState]
    /\ UNCHANGED <<job, hist, pending, pendingFb, running, count, countNQ, max,
                   orders, main, fails>>

-----------------------------------------------------------------------------
(* The main-loop thread: _core_thread_shutdown *)

\* Every pending job gets its func_cancel and is freed.
ShutdownPending ==
    LET S == Elements(pending \o pendingFb) IN
    /\ ApiReady /\ outer = <<>>
    /\ hist' = [j \in Jobs |-> IF j \in S THEN [hist[j] EXCEPT !.cancels = @ + 1]
                               ELSE hist[j]]
    /\ job' = [j \in Jobs |-> IF j \in S THEN [job[j] EXCEPT !.live = FALSE]
                              ELSE job[j]]
    /\ pending' = <<>> /\ pendingFb' = <<>>
    /\ main' = [Idle EXCEPT !.op = "sdcancel"]
    /\ UNCHANGED <<running, count, countNQ, max, thr, orders, outer, inner, fails>>

\* Every running job is cancelled, under the running lock.
ShutdownCancel ==
    /\ main.op = "sdcancel"
    /\ MarkCancelled({j \in running : MayMark(j)})
    /\ main' = [main EXCEPT !.op = "drain"]
    /\ UNCHANGED <<hist, pending, pendingFb, running, count, countNQ, max,
                   orders, outer, inner, fails>>

\* A plausible bug in the definition that follows: threads outside the pool are forgotten.
ShutdownDrainedPool ==
    /\ main.op = "drain" /\ main.cbk = NoJob /\ inner = <<>>
    /\ count = 0
    /\ main' = [main EXCEPT !.op = "final"]
    /\ inner' = orders /\ orders' = <<>>
    /\ UNCHANGED <<job, hist, pending, pendingFb, running, count, countNQ, max,
                   thr, outer, fails>>

\* The loop that flushes (FlushTake) finds no thread counted; core_shutdown then
\* makes a last flush through the pipe.
ShutdownDrained ==
    /\ main.op = "drain" /\ main.cbk = NoJob /\ inner = <<>>
    /\ count + countNQ = 0
    /\ main' = [main EXCEPT !.op = "final"]
    /\ inner' = orders /\ orders' = <<>>
    /\ UNCHANGED <<job, hist, pending, pendingFb, running, count, countNQ, max,
                   thr, outer, fails>>

\* Or the loop has made its fifty rounds and threads are still counted.  Rounds
\* are not counted here: one in which nothing was posted changes nothing, so the
\* fiftieth may end in any state of the loop.  Shutdown goes on as if all were
\* well; the warning after the loop asks for a twentieth round and never comes.
ShutdownGiveUp ==
    /\ main.op = "drain" /\ main.cbk = NoJob /\ inner = <<>>
    /\ count + countNQ > 0
    /\ main' = [main EXCEPT !.op = "gaveup"]
    /\ inner' = orders /\ orders' = <<>>
    /\ UNCHANGED <<job, hist, pending, pendingFb, running, count, countNQ, max,
                   thr, outer, fails>>

\* The last flush is over: the pipe and the locks are gone.
ShutdownDone ==
    /\ main.op \in {"final", "gaveup"} /\ main.cbk = NoJob /\ inner = <<>>
    /\ main' = [main EXCEPT !.op = IF @ = "final" THEN "down" ELSE "left"]
    /\ UNCHANGED <<job, hist, pending, pendingFb, running, count, countNQ, max,
                   thr, orders, outer, inner, fails>>

\* A program whose shutdown gave up ends.  Its threads go on until then with
\* destroyed locks, which is undefined; as modelled the locks still work, as
\* glibc's spin locks do.
Ended == main.op = "left" /\ UNCHANGED vars

\* core_init again: _core_thread_init sets the maximum and nothing else.
_core_thread_init ==
    /\ main.op = "down"
    /\ max' = InitMax
    /\ main' = Idle
    /\ UNCHANGED <<job, hist, pending, pendingFb, running, count, countNQ, thr,
                   orders, outer, inner, fails>>

-----------------------------------------------------------------------------
(* Pool threads *)

Goto(w, p) == thr' = [thr EXCEPT ![w].pc = p]

\* _Core_short_job: take the head of the short list, if there is one.
PopShort(w) ==
    /\ thr[w].pc = "popShort" /\ PendingLockFree
    /\ IF pending = <<>>
         THEN Goto(w, "popFb") /\ UNCHANGED pending
         ELSE /\ thr' = [thr EXCEPT ![w].pc = "add", ![w].work = Head(pending)]
              /\ pending' = Tail(pending)
    /\ UNCHANGED <<job, hist, pendingFb, running, count, countNQ, max, orders,
                   outer, inner, main, fails>>

\* _Core_feedback_job: the same for the feedback list.
PopFeedback(w) ==
    /\ thr[w].pc = "popFb" /\ PendingLockFree
    /\ IF pendingFb = <<>>
         THEN Goto(w, "check1") /\ UNCHANGED pendingFb
         ELSE /\ thr' = [thr EXCEPT ![w].pc = "add", ![w].work = Head(pendingFb)]
              /\ pendingFb' = Tail(pendingFb)
    /\ UNCHANGED <<job, hist, pending, running, count, countNQ, max, orders,
                   outer, inner, main, fails>>

\* The job is in no list between the two locks.
AddRunning(w) ==
    /\ thr[w].pc = "add"
    /\ running' = running \cup {thr[w].work}
    /\ Goto(w, "read")
    /\ UNCHANGED <<job, hist, pending, pendingFb, count, countNQ, max, orders,
                   outer, inner, main, fails>>

\* The flag is read once, before the function is called (or not).
ReadCancel(w) ==
    LET j == thr[w].work IN
    /\ thr[w].pc = "read"
    /\ job' = [job EXCEPT ![j].self = w]
    /\ hist' = [hist EXCEPT ![j].completed = FALSE]
    /\ Goto(w, IF job[j].cancel THEN "clean" ELSE "run")
    /\ UNCHANGED <<pending, pendingFb, running, count, countNQ, max, orders,
                   outer, inner, main, fails>>

\* _Core_short_job_cleanup and _Core_feedback_job_cleanup.
LeaveRunning(w) ==
    /\ thr[w].pc = "clean"
    /\ running' = running \ {thr[w].work}
    /\ Goto(w, "post")
    /\ UNCHANGED <<job, hist, pending, pendingFb, count, countNQ, max, orders,
                   outer, inner, main, fails>>

\* A thread killed by pthread_cancel goes on with the worker's own cleanup.
AfterJob(w) == IF thr[w].dying THEN "exit"
               ELSE IF job[thr[w].work].kind = "short" THEN "popFb" ELSE "check1"

\* A plausible bug in the definition that follows: the main loop is told in any case.
PostOutcomeTwice(w) ==
    LET j == thr[w].work IN
    /\ thr[w].pc = "post" /\ PendingLockFree
    /\ job' = [job EXCEPT ![j].resched = FALSE]
    /\ IF job[j].resched /\ job[j].kind = "short"
         THEN pending' = Append(pending, j) /\ UNCHANGED pendingFb
         ELSE UNCHANGED <<pending, pendingFb>>
    /\ Post(<<"handler", j>>)
    /\ thr' = [thr EXCEPT ![w].pc = AfterJob(w), ![w].work = NoJob]
    /\ UNCHANGED <<hist, running, count, countNQ, max, outer, inner, main, fails>>

\* A rescheduled job goes to the end of its list, else the main loop is told.
PostOutcome(w) ==
    LET j == thr[w].work IN
    /\ thr[w].pc = "post"
    /\ IF job[j].resched
         THEN /\ PendingLockFree
              /\ job' = [job EXCEPT ![j].resched = FALSE]
              /\ IF job[j].kind = "short"
                   THEN pending' = Append(pending, j) /\ UNCHANGED pendingFb
                   ELSE pendingFb' = Append(pendingFb, j) /\ UNCHANGED pending
              /\ UNCHANGED orders
         ELSE /\ Post(<<"handler", j>>)
              /\ UNCHANGED <<job, pending, pendingFb>>
    /\ thr' = [thr EXCEPT ![w].pc = AfterJob(w), ![w].work = NoJob]
    /\ UNCHANGED <<hist, running, count, countNQ, max, outer, inner, main, fails>>

\* A plausible bug in the definition that follows: only the short list is looked at.
CheckShortOnly(w) ==
    /\ thr[w].pc \in {"check1", "check2"} /\ PendingLockFree
    /\ Goto(w, IF pending # <<>> THEN "popShort"
               ELSE IF thr[w].pc = "check1" THEN "check2" ELSE "exit")
    /\ UNCHANGED <<job, hist, pending, pendingFb, running, count, countNQ, max,
                   orders, outer, inner, main, fails>>

\* _core_thread_worker looks at both lists, sleeps, and looks once more.
CheckPending(w) ==
    /\ thr[w].pc \in {"check1", "check2"} /\ PendingLockFree
    /\ Goto(w, IF pending # <<>> \/ pendingFb # <<>> THEN "popShort"
               ELSE IF thr[w].pc = "check1" THEN "check2" ELSE "exit")
    /\ UNCHANGED <<job, hist, pending, pendingFb, running, count, countNQ, max,
                   orders, outer, inner, main, fails>>

\* _core_thread_worker_cleanup.
ThreadExit(w) ==
    /\ thr[w].pc = "exit" /\ PendingLockFree
    /\ count' = count - 1
    /\ Post(<<"join", w>>)
    /\ Goto(w, "gone")
    /\ UNCHANGED <<job, hist, pending, pendingFb, running, countNQ, max, outer,
                   inner, main, fails>>

-----------------------------------------------------------------------------
(* Threads outside the pool *)

\* _Core_direct_worker calls the function without looking at the flag.
DirectStart(w) ==
    /\ thr[w].pc = "dstart"
    /\ job' = [job EXCEPT ![thr[w].work].self = w]
    /\ Goto(w, "drun")
    /\ UNCHANGED <<hist, pending, pendingFb, running, count, countNQ, max,
                   orders, outer, inner, main, fails>>

\* _Core_direct_worker_cleanup, all of it under the pending lock.
DirectCleanup(w) ==
    /\ thr[w].pc = "dclean" /\ PendingLockFree
    /\ countNQ' = countNQ - 1
    /\ orders' = orders \o << <<"handler", thr[w].work>>, <<"join", w>> >>
    /\ thr' = [thr EXCEPT ![w].pc = "gone", ![w].work = NoJob]
    /\ UNCHANGED <<job, hist, pending, pendingFb, running, count, max, outer,
                   inner, main, fails>>

-----------------------------------------------------------------------------
(* What the user's function does while it runs *)

InFunction(w) == thr[w].pc \in {"run", "drun"}

\* Where the cleanup handler of the function's caller starts.
CleanupPC(w) == IF thr[w].pc = "run" THEN "clean" ELSE "dclean"

core_thread_feedback(w) ==
    LET j == thr[w].work IN
    /\ InFunction(w) /\ job[j].kind # "short" /\ job[j].send < MaxNotify
    /\ job' = [job EXCEPT ![j].send = @ + 1]
    /\ Post(<<"notify", j>>)
    /\ UNCHANGED <<hist, pending, pendingFb, running, count, countNQ, max, thr,
                   outer, inner, main, fails>>

core_thread_reschedule(w) ==
    LET j == thr[w].work IN
    /\ InFunction(w) /\ job[j].kind \in ReschedKinds
    /\ hist[j].resched < MaxResched
    /\ job' = [job EXCEPT ![j].resched = TRUE]
    /\ hist' = [hist EXCEPT ![j].resched = @ + 1]
    /\ UNCHANGED <<pending, pendingFb, running, count, countNQ, max, thr,
                   orders, outer, inner, main, fails>>

SelfCancel(w) ==
    LET j == thr[w].work IN
    /\ InFunction(w)
    /\ MayMark(j)
    /\ PendingLockFree \/ job[j].send # job[j].received
    /\ MarkCancelled({j})
    /\ UNCHANGED <<hist, pending, pendingFb, running, count, countNQ, max,
                   orders, outer, inner, main, fails>>

FunctionReturn(w) ==
    /\ InFunction(w)
    /\ hist' = [hist EXCEPT ![thr[w].work].completed = TRUE]
    /\ Goto(w, CleanupPC(w))
    /\ UNCHANGED <<job, pending, pendingFb, running, count, countNQ, max,
                   orders, outer, inner, main, fails>>

\* A pthread_cancel request is kept until the thread is cancellable at a
\* cancellation point: a function that makes itself cancellable then dies.
FunctionKilled(w) ==
    /\ InFunction(w) /\ thr[w].work \in Cancellable /\ thr[w].req
    /\ thr' = [thr EXCEPT ![w].pc = CleanupPC(w), ![w].dying = TRUE]
    /\ UNCHANGED <<job, hist, pending, pendingFb, running, count, countNQ, max,
                   orders, outer, inner, main, fails>>

-----------------------------------------------------------------------------
\* What the program decides to call.
Api ==
    \/ \E j \in Jobs :
         \/ core_thread_run(j)
         \/ \E t \in BOOLEAN : core_thread_feedback_run(j, t)
         \/ core_thread_cancel(j)
         \/ core_thread_wait(j)
    \/ \E n \in MaxValues : core_thread_max_set(n)
    \/ ShutdownPending
    \/ _core_thread_init

\* What the main thread does once a call is made or something was posted.
MainStep ==
    \/ \E w \in Threads : CreateOk(w) \/ DirectOk(w) \/ _core_thread_join(w)
    \/ DirectCount \/ FirstFail \/ FlushDone \/ DirectFail \/ LastFail
    \/ FeedbackGiveUp \/ WaitReturn \/ FlushTake \/ NotifyReturn
    \/ \E j \in Jobs : _core_thread_handler(j) \/ _Core_notify_handler(j)
    \/ ShutdownCancel \/ ShutdownDrained \/ ShutdownGiveUp \/ ShutdownDone

\* What a thread does by itself; the user's function returns.
ThreadStep(w) ==
    \/ PopShort(w) \/ PopFeedback(w) \/ AddRunning(w) \/ ReadCancel(w)
    \/ LeaveRunning(w) \/ PostOutcome(w) \/ CheckPending(w) \/ ThreadExit(w)
    \/ DirectStart(w) \/ DirectCleanup(w) \/ FunctionReturn(w)
    \/ FunctionKilled(w)

\* What the user's function may call.
UserStep(w) ==
    core_thread_feedback(w) \/ core_thread_reschedule(w) \/ SelfCancel(w)

Next ==
    \/ Api \/ MainStep \/ Ended
    \/ \E w \in Threads : ThreadStep(w) \/ UserStep(w)

\* The main loop's own flush makes a step.
LoopStep == main.op = "idle" /\ MainStep

\* The main loop runs and gets control back from callbacks (it does not stay
\* in core_thread_wait for ever), the operating system schedules every thread,
\* and the user's functions return.
Fairness ==
    /\ WF_vars(MainStep) /\ SF_vars(LoopStep)
    /\ \A w \in Threads : WF_vars(ThreadStep(w))

Spec == Init /\ [][Next]_vars

FairSpec == Spec /\ Fairness

-----------------------------------------------------------------------------
(* Properties *)

\* Jobs referred to by a pending list, a thread, an order or the main thread.
OrderJobs(s) == {o[2] : o \in {x \in Elements(s) : x[1] # "join"}}

InUse ==
    Elements(pending) \cup Elements(pendingFb) \cup running
      \cup {thr[w].work : w \in Threads} \cup OrderJobs(orders)
      \cup OrderJobs(outer) \cup OrderJobs(inner) \cup {main.cbk}

\* A job structure is released (_core_thread_kill, a failed creation, shutdown)
\* only when no list, no thread and no call posted to the main loop points to
\* it: nothing that is still to run touches a job after its callback.
NoUseAfterRelease ==
    \A j \in Jobs : j \in InUse => job[j].live

\* Exactly one of func_end and func_cancel is called for a job, exactly when
\* the job is released, whatever races with cancellation, rescheduling,
\* core_thread_wait and shutdown.  Two failed creations break it: see
\* NoDoubleCallback.
CallbackOnce ==
    \A j \in Jobs :
      hist[j].ends + hist[j].cancels
        = IF job[j].kind # "none" /\ ~job[j].live THEN 1 ELSE 0

\* core_thread_run's documentation calls func_end when the function completed and
\* func_cancel when the job was cancelled or failed to start: never both, and
\* neither of them twice, failed creations (TakeBack) included.
NoDoubleCallback == \A j \in Jobs : hist[j].ends + hist[j].cancels <= 1

\* "Force reading all notify event before killing the thread": when a job is
\* released every core_thread_feedback has reached func_notify.
NotifiedBeforeRelease ==
    \A j \in Jobs : job[j].kind # "none" /\ ~job[j].live
                     => job[j].received = job[j].send

\* func_end means that the function returned from its last run and that the
\* job had not been cancelled.
EndMeansCompleted ==
    \A j \in Jobs : hist[j].ends > 0 => hist[j].completed /\ ~job[j].cancel

\* _core_thread_count is the number of pool threads that have not run
\* _core_thread_worker_cleanup; _core_thread_count_no_queue is late by the one
\* direct thread the main thread has just created.
CountExact ==
    /\ count = Cardinality({w \in Threads : thr[w].pc \in PoolPC})
    /\ countNQ = Cardinality({w \in Threads : thr[w].pc \in {"dstart", "drun", "dclean"}})
                  - (IF main.op = "dcount" THEN 1 ELSE 0)

\* A job points to a waiter only while core_thread_wait is on the stack for it.
WaiterOnStack ==
    \A j \in Jobs : job[j].waiter => main.op = "wait" /\ main.job = j

\* A pool thread that will look at the pending lists again.
WillLook(w) == thr[w].pc \in PoolPC \ {"exit"}

\* The two ways _core_thread_shutdown ends.  If its loop found both counters 0, the
\* last flush leaves no thread, no posted call and no job.  If it gave up, what is
\* left belongs to the threads still there: a job not released is with one of
\* them, or on a list one will look at, or in a call posted after the last flush.
ShutdownOutcome ==
    /\ main.op = "down" =>
         /\ \A w \in Threads : thr[w].pc = "none"
         /\ orders = <<>> /\ outer = <<>> /\ inner = <<>>
         /\ \A j \in Jobs : ~job[j].live
    /\ main.op = "left" =>
         /\ outer = <<>> /\ inner = <<>>
         /\ \A j \in Jobs : job[j].live =>
              \/ \E w \in Threads : thr[w].work = j
              \/ /\ j \in Elements(pending) \cup Elements(pendingFb)
                 /\ \E w \in Threads : WillLook(w)
              \/ j \in OrderJobs(orders)

Queued(j) == j \in Elements(pending) \cup Elements(pendingFb)

CalledBack(j) == hist[j].ends + hist[j].cancels > 0

\* Shutdown did not wait for the threads.
GaveUp == main.op \in {"gaveup", "left"}

\* A job that a thread has taken, or that is queued while a pool thread will still
\* look at the lists, gets its callback, creations that fail included, unless
\* pthread_cancel kills a thread or shutdown gives up.
ServedIfSeen ==
    \A j \in Jobs :
      (\E w \in Threads : thr[w].work = j \/ (Queued(j) /\ WillLook(w)))
         ~> (CalledBack(j) \/ GaveUp \/ \E w \in Threads : thr[w].dying)

\* core_thread_run's documentation: a job "will wait until a thread becomes
\* available", so every queued job gets its callback unless shutdown gives up.
QueuedJobServed == \A j \in Jobs : Queued(j) ~> (CalledBack(j) \/ GaveUp)

=============================================================================
