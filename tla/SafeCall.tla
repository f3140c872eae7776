------------------------------ MODULE SafeCall ------------------------------
(***************************************************************************)
(* Calls from other threads into the main loop (src/src/lib/core/core.c):  *)
(* core_main_loop_thread_safe_call_async and _sync, and                    *)
(* core_thread_main_loop_begin/_end, with which a thread suspends the main *)
(* loop and becomes "the main loop" itself for a while.                    *)
(*                                                                         *)
(* A request is an order object on the list _thread_cb; a byte in a pipe   *)
(* wakes the main loop, which takes the whole list and works through it    *)
(* (_core_main_call_flush).  A callback may flush again while the batch it *)
(* belongs to is unfinished (core_thread_wait does), so batches are a      *)
(* stack.                                                                  *)
(*                                                                         *)
(* Orders are never reused in the model, ids do not wrap (the code wraps   *)
(* after 2^31 suspensions), malloc does not fail, core_fork_reset is left  *)
(* out and MaxNest bounds the depth of nested begins and flushes.          *)
(***************************************************************************)
EXTENDS Integers, Sequences, FiniteSets

CONSTANTS
    Threads,   \* threads other than the main-loop thread
    Main,      \* the main-loop thread
    MaxOrders, \* bound: orders allocated in a behaviour
    MaxNest,   \* bound: depth of nested flushes and of nested begins
    Spurious   \* may a condition wait return without a broadcast

ASSUME MainAssumption == Main \notin Threads
ASSUME BoundAssumption == MaxOrders \in Nat /\ MaxNest \in Nat \ {0}
ASSUME SpuriousAssumption == Spurious \in BOOLEAN

VARIABLES
    obj,       \* the order objects (core_Safe_Call)
    used,      \* how many of them have been allocated (history)
    cb,        \* _thread_cb
    pipe,      \* bytes in the _thread_call pipe
    stack,     \* batches taken by flushes in progress, innermost first
    mpc,       \* control point of the main-loop thread
    owner,     \* the thread for which eina_main_loop_is holds
    id,        \* _thread_id
    idMax,     \* _thread_id_max
    idUpdate,  \* _thread_id_update
    loop,      \* _thread_loop
    tpc,       \* control point of every other thread
    mine,      \* the order a thread has just allocated or waits for
    cur,       \* current_id in core_thread_main_loop_end
    depth      \* begins minus ends of the thread that has the loop (history)

vars == <<obj, used, cb, pipe, stack, mpc, owner, id, idMax, idUpdate, loop,
          tpc, mine, cur, depth>>

Orders == 1..MaxOrders
NoOrder == 0
Actors == Threads \cup {Main}

\* runs counts the executions of the user's callback, back says the thread
\* that asked got its answer.
Object == [live: BOOLEAN, kind: {"async", "sync", "suspend", "cleanup"},
           by: Actors, id: Nat, woken: BOOLEAN, runs: Nat, back: BOOLEAN]

NoObject == [live |-> FALSE, kind |-> "async", by |-> Main, id |-> 0,
             woken |-> FALSE, runs |-> 0, back |-> FALSE]

MainPC == {"loop", "woken", "synced", "suspended", "suspWait", "resume", "feedback"}
ThreadPC == {"idle", "syncLocked", "syncWait", "beginPost", "beginWait",
             "define", "inside", "update", "endWait"}

TypeOK ==
    /\ obj \in [Orders -> Object]
    /\ used \in 0..MaxOrders
    /\ cb \in Seq(Orders)
    /\ pipe \in Nat
    /\ stack \in Seq(Seq(Orders))
    /\ mpc \in MainPC
    /\ owner \in Actors
    /\ id \in Int /\ idMax \in Nat /\ idUpdate \in Int
    /\ loop \in Nat /\ depth \in Int
    /\ tpc \in [Threads -> ThreadPC]
    /\ mine \in [Threads -> Orders \cup {NoOrder}]
    /\ cur \in [Threads -> Int]

Init ==
    /\ obj = [o \in Orders |-> NoObject]
    /\ used = 0
    /\ cb = <<>> /\ pipe = 0 /\ stack = <<>> /\ mpc = "loop"
    /\ owner = Main
    /\ id = -1 /\ idMax = 0 /\ idUpdate = 0
    /\ loop = 0 /\ depth = 0
    /\ tpc = [t \in Threads |-> "idle"]
    /\ mine = [t \in Threads |-> NoOrder]
    /\ cur = [t \in Threads |-> -1]

-----------------------------------------------------------------------------
(* Posting *)

\* A plausible bug in the definition that follows: the test for an empty list is inverted.
PostOrderInverted(o) ==
    /\ cb' = Append(cb, o)
    /\ pipe' = IF cb # <<>> THEN pipe + 1 ELSE pipe

\* _core_main_loop_thread_safe_call: the pipe is written only when the list
\* was empty, under _thread_safety.
PostOrder(o) ==
    /\ cb' = Append(cb, o)
    /\ pipe' = IF cb = <<>> THEN pipe + 1 ELSE pipe

\* A new order object, and its allocation by t.
NewOrder(t, k, i) == [live |-> TRUE, kind |-> k, by |-> t, id |-> i,
                      woken |-> FALSE, runs |-> 0, back |-> FALSE]
Fresh == used + 1
Alloc(t, k, i) ==
    /\ used < MaxOrders
    /\ used' = Fresh
    /\ obj' = [obj EXCEPT ![Fresh] = NewOrder(t, k, i)]

\* core_main_loop_thread_safe_call_async from a thread that is not "main".
CallAsync(t) ==
    /\ tpc[t] = "idle" /\ owner # t
    /\ Alloc(t, "async", 0)
    /\ PostOrder(Fresh)
    /\ UNCHANGED <<stack, mpc, owner, id, idMax, idUpdate, loop, tpc, mine, cur, depth>>

\* core_main_loop_thread_safe_call_async or _sync from the thread that has the
\* main loop: the callback is called on the spot.
CallDirect(t) ==
    /\ tpc[t] \in {"idle", "inside"} /\ owner = t
    /\ used < MaxOrders /\ used' = Fresh
    /\ obj' = [obj EXCEPT ![Fresh] = [live |-> FALSE, kind |-> "async", by |-> t,
                                       id |-> 0, woken |-> FALSE, runs |-> 1,
                                       back |-> TRUE]]
    /\ UNCHANGED <<cb, pipe, stack, mpc, owner, id, idMax, idUpdate, loop, tpc,
                   mine, cur, depth>>

\* core_main_loop_thread_safe_call_sync: post with order->m held...
CallSync(t) ==
    /\ tpc[t] = "idle" /\ owner # t
    /\ Alloc(t, "sync", 0)
    /\ PostOrder(Fresh)
    /\ tpc' = [tpc EXCEPT ![t] = "syncLocked"]
    /\ mine' = [mine EXCEPT ![t] = Fresh]
    /\ UNCHANGED <<stack, mpc, owner, id, idMax, idUpdate, loop, cur, depth>>

\* ...eina_condition_wait releases it...
SyncWait(t) ==
    /\ tpc[t] = "syncLocked"
    /\ tpc' = [tpc EXCEPT ![t] = "syncWait"]
    /\ UNCHANGED <<obj, used, cb, pipe, stack, mpc, owner, id, idMax, idUpdate,
                   loop, mine, cur, depth>>

\* A plausible bug in the definition that follows: the thread does not wait.
SyncReturnAtOnce(t) ==
    LET o == mine[t] IN
    /\ tpc[t] = "syncWait"
    /\ obj' = [obj EXCEPT ![o].kind = "cleanup", ![o].back = TRUE]
    /\ PostOrder(o)
    /\ tpc' = [tpc EXCEPT ![t] = "idle"]
    /\ mine' = [mine EXCEPT ![t] = NoOrder]
    /\ UNCHANGED <<used, stack, mpc, owner, id, idMax, idUpdate, loop, cur, depth>>

\* ...and once it returns, for whatever reason, the answer is read and the same
\* object is posted again to be cleaned up by the main loop.
SyncReturn(t) ==
    LET o == mine[t] IN
    /\ tpc[t] = "syncWait"
    /\ obj[o].woken \/ Spurious
    /\ obj' = [obj EXCEPT ![o].kind = "cleanup", ![o].back = TRUE]
    /\ PostOrder(o)
    /\ tpc' = [tpc EXCEPT ![t] = "idle"]
    /\ mine' = [mine EXCEPT ![t] = NoOrder]
    /\ UNCHANGED <<used, stack, mpc, owner, id, idMax, idUpdate, loop, cur, depth>>

-----------------------------------------------------------------------------
(* core_thread_main_loop_begin and core_thread_main_loop_end *)

\* A thread that already has the main loop only counts.
BeginNested(t) ==
    /\ tpc[t] = "inside" /\ owner = t /\ loop < MaxNest
    /\ loop' = loop + 1 /\ depth' = depth + 1
    /\ UNCHANGED <<obj, used, cb, pipe, stack, mpc, owner, id, idMax, idUpdate,
                   tpc, mine, cur>>

\* The main-loop thread may call begin and end too.
BeginMain ==
    /\ mpc = "loop" /\ owner = Main /\ loop < MaxNest - 1
    /\ loop' = loop + 1
    /\ UNCHANGED <<obj, used, cb, pipe, stack, mpc, owner, id, idMax, idUpdate,
                   tpc, mine, cur, depth>>

\* A plausible bug in the definition that follows: an end without a begin is not refused.
EndMainUnchecked ==
    /\ mpc = "loop" /\ owner = Main
    /\ loop' = loop - 1
    /\ idUpdate' = IF loop = 1 THEN id ELSE idUpdate
    /\ UNCHANGED <<obj, used, cb, pipe, stack, mpc, owner, id, idMax, tpc, mine, cur,
                   depth>>

EndMain ==
    /\ mpc = "loop" /\ owner = Main /\ loop > 0
    /\ loop' = loop - 1
    /\ idUpdate' = IF loop = 1 THEN id ELSE idUpdate
    /\ UNCHANGED <<obj, used, cb, pipe, stack, mpc, owner, id, idMax, tpc, mine, cur,
                   depth>>

\* The order gets an id (under _thread_id_lock)...
Begin(t) ==
    /\ tpc[t] = "idle" /\ owner # t
    /\ Alloc(t, "suspend", idMax + 1)
    /\ idMax' = idMax + 1
    /\ tpc' = [tpc EXCEPT ![t] = "beginPost"]
    /\ mine' = [mine EXCEPT ![t] = Fresh]
    /\ UNCHANGED <<cb, pipe, stack, mpc, owner, id, idUpdate, loop, cur, depth>>

\* ...is posted...
BeginPost(t) ==
    /\ tpc[t] = "beginPost"
    /\ PostOrder(mine[t])
    /\ tpc' = [tpc EXCEPT ![t] = "beginWait"]
    /\ UNCHANGED <<obj, used, stack, mpc, owner, id, idMax, idUpdate, loop,
                   mine, cur, depth>>

\* ...and waited for: the wait loop re-checks _thread_id under order->m.
BeginGranted(t) ==
    /\ tpc[t] = "beginWait"
    /\ obj[mine[t]].id = id
    /\ tpc' = [tpc EXCEPT ![t] = "define"]
    /\ UNCHANGED <<obj, used, cb, pipe, stack, mpc, owner, id, idMax, idUpdate,
                   loop, mine, cur, depth>>

\* A plausible bug in the definition that follows: _thread_loop counts on.
BeginDefineCounting(t) ==
    /\ tpc[t] = "define"
    /\ owner' = t
    /\ loop' = loop + 1 /\ depth' = 1
    /\ tpc' = [tpc EXCEPT ![t] = "inside"]
    /\ UNCHANGED <<obj, used, cb, pipe, stack, mpc, id, idMax, idUpdate, mine,
                   cur>>

\* eina_main_loop_define, then _thread_loop = 1.
BeginDefine(t) ==
    /\ tpc[t] = "define"
    /\ owner' = t
    /\ loop' = 1 /\ depth' = 1
    /\ tpc' = [tpc EXCEPT ![t] = "inside"]
    /\ UNCHANGED <<obj, used, cb, pipe, stack, mpc, id, idMax, idUpdate, mine,
                   cur>>

\* core_thread_main_loop_end: the outermost end gives the loop back...
End(t) ==
    /\ tpc[t] = "inside" /\ owner = t /\ loop > 0
    /\ loop' = loop - 1 /\ depth' = depth - 1
    /\ IF loop = 1
         THEN tpc' = [tpc EXCEPT ![t] = "update"] /\ cur' = [cur EXCEPT ![t] = id]
         ELSE UNCHANGED <<tpc, cur>>
    /\ UNCHANGED <<obj, used, cb, pipe, stack, mpc, owner, id, idMax, idUpdate,
                   mine>>

\* ...with _thread_id_update, under _thread_mutex...
EndUpdate(t) ==
    /\ tpc[t] = "update" /\ mpc # "suspended"
    /\ idUpdate' = id
    /\ tpc' = [tpc EXCEPT ![t] = "endWait"]
    /\ UNCHANGED <<obj, used, cb, pipe, stack, mpc, owner, id, idMax, loop,
                   mine, cur, depth>>

\* ...and stays until the main thread has changed _thread_id.
EndReturn(t) ==
    /\ tpc[t] = "endWait"
    /\ cur[t] # id \/ id = -1
    /\ tpc' = [tpc EXCEPT ![t] = "idle"]
    /\ mine' = [mine EXCEPT ![t] = NoOrder]
    /\ UNCHANGED <<obj, used, cb, pipe, stack, mpc, owner, id, idMax, idUpdate,
                   loop, cur, depth>>

-----------------------------------------------------------------------------
(* The main-loop thread *)

\* The fd handler of the pipe, or core_main_loop_thread_safe_call_wait in a
\* callback, reads a byte and calls _thread_callback.
PipeRead ==
    /\ mpc = "loop" /\ Len(stack) < MaxNest /\ pipe > 0
    /\ pipe' = pipe - 1
    /\ mpc' = "woken"
    /\ UNCHANGED <<obj, used, cb, stack, owner, id, idMax, idUpdate, loop, tpc,
                   mine, cur, depth>>

\* _core_main_call_flush takes the list, whether it was called by
\* _thread_callback or by a callback (or an API call) that flushes itself.
FlushTake ==
    /\ mpc = "woken" \/ (mpc = "loop" /\ Len(stack) < MaxNest /\ cb # <<>>)
    /\ stack' = <<cb>> \o stack
    /\ cb' = <<>>
    /\ mpc' = "loop"
    /\ UNCHANGED <<obj, used, pipe, owner, id, idMax, idUpdate, loop, tpc, mine, cur,
                   depth>>

Working == mpc = "loop" /\ stack # <<>>

\* The batch is finished: the flush returns.
FlushEnd ==
    /\ Working /\ Head(stack) = <<>>
    /\ stack' = Tail(stack)
    /\ UNCHANGED <<obj, used, cb, pipe, mpc, owner, id, idMax, idUpdate, loop,
                   tpc, mine, cur, depth>>

\* The order the innermost flush deals with next.
Current == Head(Head(stack))
HasOrder(kinds) ==
    Working /\ Head(stack) # <<>> /\ obj[Current].kind \in kinds
DropOrder == stack' = <<Tail(Head(stack))>> \o Tail(stack)

\* An asynchronous call is made and its order freed; a "cleanup" order (a sync
\* call that was answered) frees itself.
HandleAsync ==
    /\ HasOrder({"async", "cleanup"})
    /\ LET called == IF obj[Current].kind = "async"
                       THEN [obj EXCEPT ![Current].runs = @ + 1] ELSE obj
       IN  obj' = [called EXCEPT ![Current].live = FALSE]
    /\ DropOrder
    /\ UNCHANGED <<used, cb, pipe, mpc, owner, id, idMax, idUpdate, loop, tpc,
                   mine, cur, depth>>

\* A synchronous call: the callback is called...
HandleSync ==
    /\ HasOrder({"sync"})
    /\ obj' = [obj EXCEPT ![Current].runs = @ + 1]
    /\ mpc' = "synced"
    /\ UNCHANGED <<used, cb, pipe, stack, owner, id, idMax, idUpdate, loop, tpc,
                   mine, cur, depth>>

\* A plausible bug in the definition that follows: the order is freed too.
HandleSyncedFreeing ==
    /\ mpc = "synced"
    /\ \A t \in Threads : mine[t] = Current => tpc[t] # "syncLocked"
    /\ obj' = [obj EXCEPT ![Current].woken = TRUE, ![Current].live = FALSE]
    /\ DropOrder
    /\ mpc' = "loop"
    /\ UNCHANGED <<used, cb, pipe, owner, id, idMax, idUpdate, loop, tpc, mine, cur,
                   depth>>

\* ...and the waiting thread is woken, under order->m.
HandleSynced ==
    /\ mpc = "synced"
    /\ \A t \in Threads : mine[t] = Current => tpc[t] # "syncLocked"
    /\ obj' = [obj EXCEPT ![Current].woken = TRUE]
    /\ DropOrder
    /\ mpc' = "loop"
    /\ UNCHANGED <<used, cb, pipe, owner, id, idMax, idUpdate, loop, tpc, mine, cur,
                   depth>>

\* A thread asks for the main loop: _thread_id names it (under _thread_mutex)...
HandleSuspend ==
    /\ HasOrder({"suspend"})
    /\ id' = obj[Current].id
    /\ mpc' = "suspended"
    /\ UNCHANGED <<obj, used, cb, pipe, stack, owner, idMax, idUpdate, loop,
                   tpc, mine, cur, depth>>

\* A plausible bug in the definition that follows: any wakeup ends the wait.
SuspendNoRecheck ==
    /\ \/ mpc = "suspended" /\ idUpdate # id /\ mpc' = "suspWait"
       \/ mpc \in {"suspended", "suspWait"} /\ mpc' = "resume"
    /\ UNCHANGED <<obj, used, cb, pipe, stack, owner, id, idMax, idUpdate, loop,
                   tpc, mine, cur, depth>>

\* ...and the main thread waits until the thread has come back.
SuspendWait ==
    /\ \/ mpc = "suspended" /\ idUpdate # id /\ mpc' = "suspWait"
       \/ mpc \in {"suspended", "suspWait"} /\ idUpdate = id /\ mpc' = "resume"
    /\ UNCHANGED <<obj, used, cb, pipe, stack, owner, id, idMax, idUpdate, loop,
                   tpc, mine, cur, depth>>

\* A plausible bug in the definition that follows: the loop is not taken back.
ResumeUndefined ==
    /\ mpc = "resume"
    /\ mpc' = "feedback"
    /\ UNCHANGED <<obj, used, cb, pipe, stack, owner, id, idMax, idUpdate, loop,
                   tpc, mine, cur, depth>>

\* eina_main_loop_define: the main thread is "main" again...
Resume ==
    /\ mpc = "resume"
    /\ owner' = Main
    /\ mpc' = "feedback"
    /\ UNCHANGED <<obj, used, cb, pipe, stack, id, idMax, idUpdate, loop, tpc,
                   mine, cur, depth>>

\* A plausible bug in the definition that follows: _thread_id stays.
FeedbackSilent ==
    /\ mpc = "feedback"
    /\ obj' = [obj EXCEPT ![Current].live = FALSE]
    /\ DropOrder
    /\ mpc' = "loop"
    /\ UNCHANGED <<used, cb, pipe, owner, id, idMax, idUpdate, loop, tpc, mine, cur,
                   depth>>

\* ...and only then lets the thread go; the order is freed.
Feedback ==
    /\ mpc = "feedback"
    /\ id' = -1
    /\ obj' = [obj EXCEPT ![Current].live = FALSE]
    /\ DropOrder
    /\ mpc' = "loop"
    /\ UNCHANGED <<used, cb, pipe, owner, idMax, idUpdate, loop, tpc, mine, cur, depth>>

-----------------------------------------------------------------------------
MainStep ==
    \/ PipeRead \/ FlushTake \/ FlushEnd \/ HandleAsync \/ HandleSync
    \/ HandleSynced \/ HandleSuspend \/ SuspendWait \/ Resume \/ Feedback

\* Steps a thread takes once it has made a call; it always ends what it began.
ThreadStep(t) ==
    \/ SyncWait(t) \/ SyncReturn(t) \/ BeginPost(t) \/ BeginGranted(t)
    \/ BeginDefine(t) \/ End(t) \/ EndUpdate(t) \/ EndReturn(t)

ThreadCall(t) ==
    CallAsync(t) \/ CallDirect(t) \/ CallSync(t) \/ Begin(t) \/ BeginNested(t)

Next ==
    \/ MainStep \/ BeginMain \/ EndMain
    \/ \E t \in Threads : ThreadStep(t) \/ ThreadCall(t)

\* The main loop runs, every thread is scheduled, and a thread that suspended
\* the main loop comes to its outermost core_thread_main_loop_end.
Fairness ==
    /\ WF_vars(MainStep)
    /\ \A t \in Threads : WF_vars(ThreadStep(t)) /\ SF_vars(loop = 1 /\ End(t))

Spec == Init /\ [][Next]_vars
FairSpec == Spec /\ Fairness

-----------------------------------------------------------------------------
(* Properties *)

\* The thread is between the grant of the main loop and giving it back.
HasLoop(t) == tpc[t] \in {"define", "inside", "update"}

\* While a thread has the main loop, the main thread sits in the wait of
\* _core_main_call_flush and no other thread has it too: code that belongs to
\* the main loop is never run by two threads at the same time.
Exclusive ==
    \A t \in Threads : HasLoop(t) =>
      /\ mpc \in {"suspended", "suspWait"}
      /\ \A u \in Threads \ {t} : ~HasLoop(u)

\* eina_main_loop_is never holds for a thread that has left
\* core_thread_main_loop_end, nor for two threads at a time: an asynchronous
\* call made later is not mistaken for one made by the main loop.
LoopIdentity ==
    /\ \A t \in Threads : owner = t => tpc[t] \in {"inside", "update", "endWait"}
    /\ \A t \in Threads : tpc[t] \in {"inside", "update"} => owner = t
    /\ mpc \in {"loop", "woken", "synced"} => owner = Main

\* _thread_loop counts the begins of the thread that has the loop.
NestingCounted == \A t \in Threads : tpc[t] = "inside" => loop = depth

\* "This function will block until the callback is executed in the main
\* loop": core_main_loop_thread_safe_call_sync returns after its callback.
SyncExecuted == \A o \in Orders : obj[o].back => obj[o].runs = 1

Elements(s) == {s[i] : i \in DOMAIN s}

\* Every order on the list or in a batch is allocated, and an order is freed
\* only after its callback has been called once.
OrdersLive ==
    /\ \A o \in Elements(cb) : obj[o].live
    /\ \A b \in Elements(stack) : \A o \in Elements(b) : obj[o].live
    /\ \A o \in 1..used : ~obj[o].live /\ obj[o].kind # "suspend"
                             => obj[o].runs = 1

\* A non-empty list always has a byte in the pipe (or the flush on its way), so
\* that writing only on the transition from empty never loses a wakeup, even
\* though flushes from callbacks empty the list without reading the pipe.
WakeupPending == cb # <<>> => pipe > 0 \/ mpc = "woken"

\* Every call into the main loop returns to its thread and every order is dealt
\* with and freed: as a behaviour has finitely many calls, again and again all
\* threads are back and no order is left.
CallsReturn ==
    []<>(/\ \A t \in Threads : tpc[t] = "idle"
         /\ \A o \in Orders : ~obj[o].live)

=============================================================================
