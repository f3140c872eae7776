------------------------------ MODULE Promise -------------------------------
(***************************************************************************)
(* Promises and futures (src/src/lib/shared/data/eina_promise.c) with the  *)
(* scheduler the main loop gives them (src/src/lib/eo/eo_base_class.c).    *)
(*                                                                         *)
(* Everything happens in the main-loop thread, and everything is           *)
(* reentrant: a callback of a future may create, resolve, chain and cancel *)
(* other promises and futures while the chain it belongs to is half        *)
(* dispatched.  The C call stack is therefore part of the state: `stack'   *)
(* holds the frames still to be executed, innermost first, and the frame   *)
(* on top takes one step.  A frame is [k, f, p, v, l]: what it does, the   *)
(* future, the promise, the value and the list it works on.                *)
(*                                                                         *)
(* A value is Plain, Error, or the number of a promise (a value of type    *)
(* EINA_VALUE_TYPE_PROMISE).  A promise's own cancel callback is a leaf;   *)
(* allocation does not fail, memory is not reused, and there is one        *)
(* all/race context, over two futures.  `Uses' switches on the uses of the *)
(* library after which the code works on freed memory (see CancelAllowed). *)
(***************************************************************************)
EXTENDS Integers, Sequences, FiniteSets

CONSTANTS
    MaxPromise,  \* bound: promises created in a behaviour
    MaxFuture,   \* bound: futures created in a behaviour
    MaxCalls,    \* bound: calls the user makes
    Contexts,    \* what may be built over two futures: subset of {"all", "race"}
    Values,      \* what a callback may return besides a plain value
    Uses         \* subset of {"batched", "successor", "discard"}

ASSUME BoundAssumption ==
    MaxPromise \in Nat /\ MaxFuture \in Nat /\ MaxCalls \in Nat
ASSUME ContextAssumption == Contexts \subseteq {"all", "race"}
ASSUME ValuesAssumption ==
    Values \subseteq {"error", "promise", "continue", "future"}
ASSUME UsesAssumption == Uses \subseteq {"batched", "successor", "discard"}

VARIABLES
    promise,   \* the Eina_Promise objects
    future,    \* the Eina_Future objects
    sched,     \* Efl_Future_Scheduler: entries queued, and whether it listens
    pending,   \* _pending_futures
    ctx,       \* the All_Promise_Ctx or Race_Promise_Ctx
    stack,     \* the C call stack
    calls      \* user calls left

vars == <<promise, future, sched, pending, ctx, stack, calls>>

None == 0
Plain == 0
Error == -1
Promises == 1..MaxPromise
Futures == 1..MaxFuture
IsPromise(v) == v > 0

\* cancel names the cancel callback; ended counts the releases of the memory.
PromiseType == [st: {"none", "live", "freed"}, future: Futures \cup {None},
                scheduler: BOOLEAN, cancel: {"user", "all", "race", "dummy"},
                ended: 0..2]

NoPromise == [st |-> "none", future |-> None, scheduler |-> FALSE,
              cancel |-> "user", ended |-> 0]

\* kind names the callback the future was created with and stays when cb
\* becomes EINA_FUTURE_DISPATCHED; called and before are history: how often
\* the callback was called, and the future it was chained to.
FutureType == [st: {"none", "live", "freed"}, promise: Promises \cup {None},
               next: Futures \cup {None}, prev: Futures \cup {None},
               cb: {"null", "set", "dispatched"},
               kind: {"null", "user", "all", "race", "proxy"},
               data: Promises \cup {None}, scheduled_entry: BOOLEAN,
               called: 0..2, before: Futures \cup {None}]

NoFuture == [st |-> "none", promise |-> None, next |-> None, prev |-> None,
             cb |-> "null", kind |-> "null", data |-> None,
             scheduled_entry |-> FALSE, called |-> 0, before |-> None]

NoCtx == [st |-> "none", kind |-> "all", promise |-> None,
          futures |-> {}, cancelled |-> FALSE, dispatching |-> FALSE]

Fr(k, f, p, v, l) == [k |-> k, f |-> f, p |-> p, v |-> v, l |-> l]
Frame(k, f, v) == Fr(k, f, None, v, <<>>)
FrameP(k, p, v) == Fr(k, None, p, v, <<>>)

Top == Head(stack)
At(k) == stack # <<>> /\ Top.k = k
Instead(frames) == stack' = frames \o Tail(stack)

\* eina_list_remove, eina_list_remove_list: the first of the elements at the
\* positions `at' leaves the list.
RemoveAt(s, at) ==
    IF at = {} THEN s
    ELSE LET i == CHOOSE j \in at : \A k \in at : j <= k
         IN  [j \in 1..Len(s) - 1 |-> IF j < i THEN s[j] ELSE s[j + 1]]
Without(s, x) == RemoveAt(s, {i \in DOMAIN s : s[i] = x})

Init ==
    /\ promise = [p \in Promises |-> NoPromise]
    /\ future = [f \in Futures |-> NoFuture]
    /\ sched = [futures |-> <<>>, listener |-> FALSE]
    /\ pending = <<>>
    /\ ctx = NoCtx
    /\ stack = <<>>
    /\ calls = MaxCalls

-----------------------------------------------------------------------------
(* Objects and links.                                                      *)

\* Memory is never reused: the lowest number not yet taken.
FreshPromise == Cardinality({p \in Promises : promise[p].st # "none"}) + 1
FreshFuture == Cardinality({f \in Futures : future[f].st # "none"}) + 1
RoomP == FreshPromise \in Promises
RoomF(n) == FreshFuture + n - 1 \in Futures

NewPromise(ps, p, cancel, scheduler) ==
    [ps EXCEPT ![p] = [NoPromise EXCEPT !.st = "live", !.cancel = cancel,
                                        !.scheduler = scheduler]]

\* _eina_future_new(NULL, desc)
NewFuture(fs, f, kind, data) ==
    [fs EXCEPT ![f] = [NoFuture EXCEPT
        !.st = "live", !.kind = kind, !.data = data,
        !.cb = IF kind = "null" THEN "null" ELSE "set"]]

\* _eina_future_then: f is chained behind prev.
ThenNew(fs, prev, f, kind, data) ==
    [NewFuture(fs, f, kind, data) EXCEPT
        ![f].prev = prev, ![f].before = prev, ![prev].next = f]

\* _eina_promise_link
LinkP(ps, p, f) == [ps EXCEPT ![p].future = f]
LinkF(fs, p, f) == [fs EXCEPT ![f].promise = p]

\* _eina_promise_unlink
UnlinkP(ps, p) == [ps EXCEPT ![p].future = None]
UnlinkF(fs, f) == [g \in Futures |->
                     IF g = f THEN [fs[g] EXCEPT !.promise = None] ELSE fs[g]]

FreeP(ps, p) == [ps EXCEPT ![p] = [NoPromise EXCEPT
                    !.st = "freed", !.cancel = ps[p].cancel,
                    !.ended = IF ps[p].ended < 2 THEN ps[p].ended + 1 ELSE 2]]

\* A plausible bug in the definition that follows:
\* next->prev is left as it was.
FreeFKeepsPrev(fs, f) ==
    [g \in Futures |->
        CASE g = f -> [NoFuture EXCEPT !.st = "freed", !.kind = fs[f].kind,
                          !.called = fs[f].called, !.before = fs[f].before]
          [] g # f /\ g = fs[f].prev -> [fs[g] EXCEPT !.next = None]
          [] OTHER -> fs[g]]

\* _eina_future_free; the next future is fs[f].next
FreeF(fs, f) ==
    [g \in Futures |->
        CASE g = f -> [NoFuture EXCEPT !.st = "freed", !.kind = fs[f].kind,
                          !.called = fs[f].called, !.before = fs[f].before]
          [] g # f /\ g = fs[f].next -> [fs[g] EXCEPT !.prev = None]
          [] g # f /\ g = fs[f].prev -> [fs[g] EXCEPT !.next = None]
          [] OTHER -> fs[g]]

\* A plausible bug in the definition that follows:
\* the future is not marked EINA_FUTURE_DISPATCHED.
CbDispatchUnmarked(fs, f) ==
    [g \in Futures |->
        CASE g = f -> [fs[f] EXCEPT !.called = IF @ < 2 THEN @ + 1 ELSE 2]
          [] g # f /\ g = fs[f].next -> [fs[g] EXCEPT !.prev = None]
          [] OTHER -> fs[g]]

\* _eina_future_cb_dispatch up to the call of the callback
CbDispatch(fs, f) ==
    [g \in Futures |->
        CASE g = f -> [fs[f] EXCEPT !.cb = "dispatched",
                          !.called = IF @ < 2 THEN @ + 1 ELSE 2]
          [] g # f /\ g = fs[f].next -> [fs[g] EXCEPT !.prev = None]
          [] g # f /\ g = fs[f].prev -> [fs[g] EXCEPT !.next = None]
          [] OTHER -> fs[g]]

\* The future at the end of the links back from f, and all those of its chain.
First(f) ==
    LET up[g \in Futures] ==
            IF future[g].prev = None THEN g ELSE up[future[g].prev]
    IN  up[f]

Chain(f) == {g \in Futures : First(g) = First(f)}

-----------------------------------------------------------------------------
(* What the user may do, at top level or inside one of its callbacks.      *)

CanCall == calls > 0 /\ (stack # <<>> => Top.k = "user")
Called == calls' = calls - 1

\* A handle is good until the callback of its future has been called.
Held(f) == future[f].st = "live" /\ future[f].kind = "user" /\ future[f].cb = "set"

\* A promise the user has made and that was neither settled nor cancelled;
\* a continue promise has no scheduler before it is returned.
Owned(p) == /\ promise[p].st = "live"
            /\ promise[p].cancel = "user"
            /\ promise[p].scheduler

\* _scheduler_get finds a scheduler.
HasScheduler(f) ==
    future[First(f)].promise # None \/ future[First(f)].scheduled_entry

\* The entry of f is in a list _futures_dispatch_cb has taken already.
Batched(f) == /\ future[f].scheduled_entry
              /\ \A i \in DOMAIN sched.futures : sched.futures[i].f # f

\* The promise f waits for is settled by all, race or _future_proxy.
WaitsForLibrary(f) ==
    future[f].promise # None /\ promise[future[f].promise].cancel # "user"

\* The futures of a race still waiting: when one is completed or cancelled,
\* the others are cancelled.
Rivals == IF ctx.st = "live" /\ ctx.kind = "race" THEN ctx.futures ELSE {}

Doomed(f) ==
    IF Chain(f) \cap Rivals = {} THEN Chain(f)
    ELSE Chain(f) \cup UNION {Chain(t) : t \in Rivals}

\* Cancelling f, and what is cancelled with it, works on freed memory if
\*  - batched: an entry of a list being dispatched is not found by recall;
\*  - successor: the predecessor is in its callback and keeps the pointer;
\*  - discard: the promise belongs to all, race or eina_future_as_value,
\*    which settle it once more after it was cancelled.
CancelAllowed(f) ==
    \A g \in {h \in Doomed(f) : future[h].prev = None} :
        /\ "batched" \notin Uses => ~Batched(g)
        /\ "successor" \notin Uses =>
              \A d \in Futures : ~(future[d].cb = "dispatched" /\ future[d].next = g)
        /\ "discard" \notin Uses => ~WaitsForLibrary(g)

\* Completing one future of a race while another one has its entry in the
\* same queue makes the race cancel a batched future.
ScheduleAllowed(f) ==
    "batched" \notin Uses /\ Chain(f) \cap Rivals # {} =>
        \A t \in Rivals : ~future[First(t)].scheduled_entry

\* eina_future_then(eina_future_new(p), cb) on a new promise, or on one of
\* the user's that has no future.
FutureNew(p) ==
    /\ CanCall /\ RoomF(2) /\ Called
    /\ \/ p = FreshPromise /\ RoomP
       \/ Owned(p) /\ promise[p].future = None
    /\ LET f  == FreshFuture
           ps == IF p = FreshPromise THEN NewPromise(promise, p, "user", TRUE)
                 ELSE promise
       IN /\ promise' = LinkP(ps, p, f)
          /\ future' = ThenNew(LinkF(NewFuture(future, f, "null", None), p, f),
                               f, f + 1, "user", None)
    /\ UNCHANGED <<sched, pending, ctx, stack>>

\* eina_future_new on a promise that has a future already: the chain is
\* cancelled.
FutureNewTwice(p) ==
    /\ CanCall /\ Called
    /\ Owned(p) /\ promise[p].future # None
    /\ CancelAllowed(promise[p].future)
    /\ stack' = <<Frame("first", promise[p].future, Error)>> \o stack
    /\ UNCHANGED <<promise, future, sched, pending, ctx>>

\* eina_future_then_from_desc; a future that has a next one already is
\* cancelled with its chain.
Then(f) ==
    /\ CanCall /\ Called /\ Held(f)
    /\ IF future[f].next # None
       THEN /\ CancelAllowed(f)
            /\ stack' = <<Frame("first", future[f].next, Error)>> \o stack
            /\ UNCHANGED future
       ELSE /\ RoomF(1)
            /\ future' = ThenNew(future, f, FreshFuture, "user", None)
            /\ UNCHANGED stack
    /\ UNCHANGED <<promise, sched, pending, ctx>>

\* _efl_event_future_scheduler and _efl_event_future_recall
Schedule(f, v) ==
    sched' = [futures |-> Append(sched.futures, [f |-> f, v |-> v]), listener |-> TRUE]

Recall(f) ==
    sched' = [sched EXCEPT !.futures = RemoveAt(@, {i \in DOMAIN @ : @[i].f = f})]

\* _eina_promise_deliver and _eina_future_schedule
Deliver(p, v) ==
    LET f == promise[p].future IN
    IF f = None
    THEN /\ promise' = FreeP(promise, p)
         /\ UNCHANGED <<future, sched, pending>>
    ELSE /\ promise' = FreeP(UnlinkP(promise, p), p)
         /\ future' = [UnlinkF(future, f) EXCEPT ![f].scheduled_entry = TRUE]
         /\ Schedule(f, v)
         /\ pending' = Append(pending, f)

\* eina_promise_resolve or eina_promise_reject
Resolve(p, v) ==
    /\ CanCall /\ Called /\ Owned(p)
    /\ promise[p].future # None => ScheduleAllowed(promise[p].future)
    /\ Deliver(p, v)
    /\ UNCHANGED <<ctx, stack>>

\* eina_promise_resolve(p, eina_promise_as_value(eina_promise_new()))
ResolveWithPromise(p) ==
    /\ CanCall /\ Called /\ Owned(p) /\ RoomP
    /\ LET f  == promise[p].future
           q  == FreshPromise
           ps == NewPromise(promise, q, "user", TRUE)
       IN IF f = None
          THEN promise' = FreeP(FreeP(ps, q), p) /\ UNCHANGED future
          ELSE /\ promise' = FreeP(LinkP(UnlinkP(ps, p), q, f), p)
               /\ future' = LinkF(UnlinkF(future, f), q, f)
    /\ UNCHANGED <<sched, pending, ctx, stack>>

\* eina_future_cancel
Cancel(f) ==
    /\ CanCall /\ Called /\ Held(f) /\ CancelAllowed(f)
    /\ stack' = <<Frame("first", f, Error)>> \o stack
    /\ UNCHANGED <<promise, future, sched, pending, ctx>>

\* promise_proxy_of_future_array_create over f and g, and a callback on the
\* result.
Gather(kind, f, g) ==
    /\ CanCall /\ Called /\ RoomP /\ RoomF(4)
    /\ ctx.st = "none"
    /\ f # g /\ Held(f) /\ Held(g)
    /\ future[f].next = None /\ future[g].next = None
    /\ HasScheduler(f)
    /\ kind = "race" /\ "batched" \notin Uses =>
          /\ ~Batched(First(f)) /\ ~Batched(First(g))
          /\ ~(future[First(f)].scheduled_entry /\ future[First(g)].scheduled_entry)
    /\ kind = "race" /\ "discard" \notin Uses =>
          ~WaitsForLibrary(First(f)) /\ ~WaitsForLibrary(First(g))
    /\ LET q  == FreshPromise
           t  == FreshFuture
           fs == ThenNew(ThenNew(future, f, t, kind, None), g, t + 1, kind, None)
       IN /\ promise' = LinkP(NewPromise(promise, q, kind, TRUE), q, t + 2)
          /\ future' = ThenNew(LinkF(NewFuture(fs, t + 2, "null", None), q, t + 2),
                               t + 2, t + 3, "user", None)
          /\ ctx' = [NoCtx EXCEPT !.st = "live", !.kind = kind, !.promise = q,
                                  !.futures = {t, t + 1}]
    /\ UNCHANGED <<sched, pending, stack>>

\* eina_promise_all_array and eina_promise_race_array
AllArray(f, g) == "all" \in Contexts /\ Gather("all", f, g)
RaceArray(f, g) == "race" \in Contexts /\ Gather("race", f, g)

-----------------------------------------------------------------------------
(* A callback returns the value r to _eina_future_dispatch or to           *)
(* _eina_future_cancel, whose frame is below it.                           *)

ReturnTo(frame, r) ==
    [frame EXCEPT !.k = IF @ = "dispatch" THEN "dispatched" ELSE "cancelled",
                  !.v = r]

Returned(r) == stack' = <<ReturnTo(stack[2], r)>> \o SubSeq(stack, 3, Len(stack))

ReturnValue(r) ==
    /\ At("user")
    /\ r = Plain \/ r = Top.v \/ (r = Error /\ "error" \in Values)
    /\ Returned(r)
    /\ UNCHANGED <<promise, future, sched, pending, ctx, calls>>

\* The value of a promise made by eina_promise_new or
\* eina_promise_continue_new, which leaves the scheduler to the caller.
ReturnPromise(scheduler) ==
    /\ At("user") /\ calls > 0 /\ Called /\ RoomP
    /\ (IF scheduler THEN "promise" ELSE "continue") \in Values
    /\ promise' = NewPromise(promise, FreshPromise, "user", scheduler)
    /\ Returned(FreshPromise)
    /\ UNCHANGED <<future, sched, pending, ctx>>

\* The value of eina_future_as_value(f): a promise that _future_proxy, chained
\* behind f, will settle.
ReturnFuture(f) ==
    /\ At("user") /\ calls > 0 /\ Called /\ RoomP /\ RoomF(1)
    /\ "future" \in Values
    /\ Held(f) /\ future[f].next = None /\ HasScheduler(f)
    /\ "discard" \notin Uses => stack[2].k = "dispatch" /\ Rivals = {}
    /\ promise' = NewPromise(promise, FreshPromise, "dummy", TRUE)
    /\ future' = ThenNew(future, f, FreshFuture, "proxy", FreshPromise)
    /\ Returned(FreshPromise)
    /\ UNCHANGED <<sched, pending, ctx>>


-----------------------------------------------------------------------------
(* The steps of the library: the frame on top decides.                     *)

\* _futures_dispatch_cb: the main loop takes the queued entries.
FuturesDispatch ==
    /\ stack = <<>> /\ sched.listener
    /\ stack' = <<Fr("batch", None, None, Plain, sched.futures)>>
    /\ sched' = [futures |-> <<>>, listener |-> FALSE]
    /\ UNCHANGED <<promise, future, pending, ctx, calls>>

\* A plausible bug in the definition that follows:
\* the future stays in _pending_futures.
ScheduledEntryCbKeeps ==
    /\ At("batch")
    /\ IF Top.l = <<>>
       THEN Instead(<<>>) /\ UNCHANGED future
       ELSE LET e == Head(Top.l) IN
            /\ future' = [future EXCEPT ![e.f].scheduled_entry = FALSE]
            /\ Instead(<<Frame("dispatch", e.f, e.v), [Top EXCEPT !.l = Tail(@)]>>)
    /\ UNCHANGED <<promise, sched, pending, ctx, calls>>

\* A plausible bug in the definition that follows:
\* the scheduler stops listening after the callbacks of the batch,
\* not before them.
ScheduledEntryCbUnlisten ==
    /\ At("batch")
    /\ IF Top.l = <<>>
       THEN /\ Instead(<<>>) /\ UNCHANGED <<future, pending>>
            /\ sched' = [sched EXCEPT !.listener = FALSE]
       ELSE LET e == Head(Top.l) IN
            /\ pending' = Without(pending, e.f)
            /\ future' = [future EXCEPT ![e.f].scheduled_entry = FALSE]
            /\ Instead(<<Frame("dispatch", e.f, e.v), [Top EXCEPT !.l = Tail(@)]>>)
            /\ UNCHANGED sched
    /\ UNCHANGED <<promise, ctx, calls>>

\* One entry of the batch: _scheduled_entry_cb.
ScheduledEntryCb ==
    /\ At("batch")
    /\ IF Top.l = <<>>
       THEN Instead(<<>>) /\ UNCHANGED <<future, pending>>
       ELSE LET e    == Head(Top.l)
                rest == [Top EXCEPT !.l = Tail(@)]
            IN IF ~future[e.f].scheduled_entry
               THEN Instead(<<rest>>) /\ UNCHANGED <<future, pending>>
               ELSE /\ pending' = Without(pending, e.f)
                    /\ future' = [future EXCEPT ![e.f].scheduled_entry = FALSE]
                    /\ Instead(<<Frame("dispatch", e.f, e.v), rest>>)
    /\ UNCHANGED <<promise, sched, ctx, calls>>

\* _eina_future_dispatch up to the call of a callback.
Dispatch ==
    /\ At("dispatch")
    /\ LET f == Top.f IN
       IF f = None \/ future[f].cb = "dispatched"
       THEN Instead(<<>>) /\ UNCHANGED future
       ELSE IF future[f].cb = "null"
       THEN /\ future' = FreeF(future, f)
            /\ Instead(<<[Top EXCEPT !.f = future[f].next]>>)
       ELSE /\ future' = CbDispatch(future, f)
            /\ Instead(<<Frame(future[f].kind, f, Top.v), Top>>)
    /\ UNCHANGED <<promise, sched, pending, ctx, calls>>

\* eina_value_flush of r: a promise in it is cancelled (_promise_flush).
Flush(r) == IF IsPromise(r) THEN <<FrameP("pcancel", r, Plain)>> ELSE <<>>

\* _eina_future_dispatch after the callback returned Top.v.
Dispatched ==
    /\ At("dispatched")
    /\ LET f == Top.f
           n == future[f].next
           r == Top.v
           stolen == [promise EXCEPT ![r].scheduler = TRUE]
       IN IF n # None /\ future[n].cb = "dispatched"
          THEN /\ Instead(Flush(r))
               /\ future' = FreeF(future, f)
               /\ UNCHANGED promise
          ELSE IF IsPromise(r)
          THEN /\ promise' = IF n = None THEN UnlinkP(stolen, r) ELSE LinkP(stolen, r, n)
               /\ future' = IF n = None THEN FreeF(future, f)
                            ELSE LinkF(FreeF(future, f), r, n)
               /\ Instead(<<>>)
          ELSE /\ future' = FreeF(future, f)
               /\ Instead(<<Frame("dispatch", n, r)>>)
               /\ UNCHANGED promise
    /\ UNCHANGED <<sched, pending, ctx, calls>>

\* A plausible bug in the definition that follows:
\* the chain is cancelled from the future given, not from the first.
CancelFirstHere ==
    /\ At("first")
    /\ LET f == First(Top.f)
           p == future[f].promise
       IN /\ IF future[f].scheduled_entry
             THEN /\ Recall(f)
                  /\ pending' = Without(pending, f)
                  /\ future' = [future EXCEPT ![f].scheduled_entry = FALSE]
             ELSE UNCHANGED <<sched, pending, future>>
          /\ Instead((IF p = None THEN <<>> ELSE <<FrameP("pcancel", p, Plain)>>)
                     \o <<Frame("cancel", Top.f, Error)>>)
    /\ UNCHANGED <<promise, ctx, calls>>

\* _eina_future_cancel up to its loop: the first future of the chain loses
\* its entry (_efl_event_future_recall) and its promise.
CancelFirst ==
    /\ At("first")
    /\ LET f == First(Top.f)
           p == future[f].promise
       IN /\ IF future[f].scheduled_entry
             THEN /\ Recall(f)
                  /\ pending' = Without(pending, f)
                  /\ future' = [future EXCEPT ![f].scheduled_entry = FALSE]
             ELSE UNCHANGED <<sched, pending, future>>
          /\ Instead((IF p = None THEN <<>> ELSE <<FrameP("pcancel", p, Plain)>>)
                     \o <<Frame("cancel", f, Error)>>)
    /\ UNCHANGED <<promise, ctx, calls>>

\* The loop of _eina_future_cancel up to the call of a callback.
CancelLoop ==
    /\ At("cancel")
    /\ LET f == Top.f IN
       IF f = None \/ future[f].cb = "dispatched"
       THEN Instead(<<>>) /\ UNCHANGED future
       ELSE IF future[f].cb = "null"
       THEN /\ future' = FreeF(future, f)
            /\ Instead(<<[Top EXCEPT !.f = future[f].next]>>)
       ELSE /\ future' = CbDispatch(future, f)
            /\ Instead(<<Frame(future[f].kind, f, Error), Top>>)
    /\ UNCHANGED <<promise, sched, pending, ctx, calls>>

\* The loop after the callback returned: a returned promise is cancelled with
\* the value that holds it.
Cancelled ==
    /\ At("cancelled")
    /\ future' = FreeF(future, Top.f)
    /\ Instead(Flush(Top.v) \o <<Frame("cancel", future[Top.f].next, Error)>>)
    /\ UNCHANGED <<promise, sched, pending, ctx, calls>>

\* _eina_promise_cancel; _all_promise_cancel and _race_promise_cancel clean
\* the context up before the memory is released.
PromiseCancel ==
    /\ At("pcancel")
    /\ LET p == Top.p IN
       /\ future' = UnlinkF(future, promise[p].future)
       /\ IF promise[p].cancel \in {"all", "race"}
          THEN /\ promise' = UnlinkP(promise, p)
               /\ ctx' = [ctx EXCEPT !.cancelled = TRUE]
               /\ Instead(<<FrameP("clean", None, Plain), FrameP("free", p, Plain)>>)
          ELSE /\ promise' = FreeP(promise, p)
               /\ Instead(<<>>)
               /\ UNCHANGED ctx
    /\ UNCHANGED <<sched, pending, calls>>

\* eina_mempool_free(_promise_mp, p), last thing of _eina_promise_cancel and
\* of _eina_promise_clean_dispatch.
PromiseFree ==
    /\ At("free")
    /\ promise' = FreeP(promise, Top.p)
    /\ Instead(<<>>)
    /\ UNCHANGED <<future, sched, pending, ctx, calls>>

\* A plausible bug in the definition that follows:
\* the slots of futures already completed are cancelled too.
CtxCleanUnchecked ==
    /\ At("clean")
    /\ Instead(<<Frame("first", None, Error), Top>>)
    /\ UNCHANGED <<promise, future, sched, pending, ctx, calls>>

\* _base_ctx_clean and the free of the context: the futures still waiting are
\* cancelled in the order of the array.
CtxClean ==
    /\ At("clean")
    /\ IF ctx.futures = {}
       THEN /\ ctx' = [ctx EXCEPT !.st = "freed"]
            /\ Instead(<<>>)
       ELSE /\ Instead(<<Frame("first", CHOOSE t \in ctx.futures :
                                  \A u \in ctx.futures : t <= u, Error), Top>>)
            /\ UNCHANGED ctx
    /\ UNCHANGED <<promise, future, sched, pending, calls>>

\* _all_then_cb: the last one settles the promise of the context.
AllThenCb ==
    /\ At("all")
    /\ ctx' = [ctx EXCEPT !.futures = @ \ {Top.f}]
    /\ Instead((IF ctx.futures = {Top.f}
                THEN <<FrameP("settle", ctx.promise, Plain), FrameP("allfree", None, Plain)>>
                ELSE <<>>) \o <<FrameP("return", None, Top.v)>>)
    /\ UNCHANGED <<promise, future, sched, pending, calls>>

\* The end of _all_then_cb: the context goes, unless its cancellation is
\* under way.
AllFree ==
    /\ At("allfree")
    /\ Instead(IF ctx.cancelled THEN <<>> ELSE <<FrameP("clean", None, Plain)>>)
    /\ UNCHANGED <<promise, future, sched, pending, ctx, calls>>

\* A plausible bug in the definition that follows:
\* the futures cancelled by the first one settle the promise too.
RaceThenCbAgain ==
    /\ At("race")
    /\ ctx' = [ctx EXCEPT !.futures = @ \ {Top.f}, !.dispatching = TRUE]
    /\ Instead((IF ctx.dispatching THEN <<>> ELSE <<FrameP("clean", None, Plain)>>)
               \o <<FrameP("settle", ctx.promise, Plain),
                    FrameP("return", None, Top.v)>>)
    /\ UNCHANGED <<promise, future, sched, pending, calls>>

\* _race_then_cb: the first one cancels the others and settles the promise.
RaceThenCb ==
    /\ At("race")
    /\ ctx' = [ctx EXCEPT !.futures = @ \ {Top.f}, !.dispatching = TRUE]
    /\ Instead(IF ctx.dispatching THEN <<FrameP("return", None, Plain)>>
               ELSE (IF ctx.cancelled THEN <<>> ELSE <<FrameP("clean", None, Plain)>>)
                    \o <<FrameP("settle", ctx.promise, Plain),
                         FrameP("return", None, Top.v)>>)
    /\ UNCHANGED <<promise, future, sched, pending, calls>>

\* _future_proxy: an error is not handed on.
FutureProxy ==
    /\ At("proxy")
    /\ Instead((IF Top.v = Error THEN <<>>
                ELSE <<FrameP("settle", future[Top.f].data, Top.v)>>)
               \o <<FrameP("return", None, Top.v)>>)
    /\ UNCHANGED <<promise, future, sched, pending, ctx, calls>>

\* _eina_promise_clean_dispatch: the chain runs at once, then the promise goes.
CleanDispatch ==
    /\ At("settle")
    /\ LET p == Top.p
           f == promise[p].future
       IN /\ promise' = UnlinkP(promise, p)
          /\ future' = UnlinkF(future, f)
          /\ Instead((IF f = None THEN <<>> ELSE <<Frame("dispatch", f, Top.v)>>)
                     \o <<FrameP("free", p, Plain)>>)
    /\ UNCHANGED <<sched, pending, ctx, calls>>

LibraryReturn ==
    /\ At("return")
    /\ Returned(Top.v)
    /\ UNCHANGED <<promise, future, sched, pending, ctx, calls>>

\* __eina_promise_cancel_all, at shutdown.
CancelAll ==
    /\ stack = <<>> /\ calls > 0
    /\ stack' = <<FrameP("cancelall", None, Plain)>>
    /\ UNCHANGED <<promise, future, sched, pending, ctx, calls>>

CancelAllLoop ==
    /\ At("cancelall")
    /\ IF pending = <<>>
       THEN Instead(<<>>) /\ calls' = 0
       ELSE Instead(<<Frame("first", Head(pending), Error), Top>>) /\ UNCHANGED calls
    /\ UNCHANGED <<promise, future, sched, pending, ctx>>

-----------------------------------------------------------------------------

UserCall ==
    \/ \E p \in Promises :
        \/ FutureNew(p)
        \/ FutureNewTwice(p)
        \/ \E v \in {Plain, Error} : Resolve(p, v)
        \/ ResolveWithPromise(p)
    \/ \E f \in Futures :
        \/ Then(f)
        \/ Cancel(f)
        \/ \E g \in Futures : AllArray(f, g) \/ RaceArray(f, g)
    \/ CancelAll

UserReturn ==
    \/ \E r \in {Plain, Error} : ReturnValue(r)
    \/ \E scheduler \in BOOLEAN : ReturnPromise(scheduler)
    \/ \E f \in Futures : ReturnFuture(f)

Library ==
    \/ FuturesDispatch \/ ScheduledEntryCb
    \/ Dispatch \/ Dispatched
    \/ CancelFirst \/ CancelLoop \/ Cancelled
    \/ PromiseCancel \/ PromiseFree
    \/ CtxClean \/ AllThenCb \/ AllFree \/ RaceThenCb
    \/ FutureProxy \/ CleanDispatch \/ LibraryReturn
    \/ CancelAllLoop

Next == UserCall \/ UserReturn \/ Library

Spec == Init /\ [][Next]_vars

\* The main loop runs, the library's functions end and callbacks return.
FairSpec == Spec /\ WF_vars(Library \/ UserReturn)

-----------------------------------------------------------------------------
(* Properties.                                                             *)

Live(f) == future[f].st = "live"
Entries(l) == {l[i].f : i \in DOMAIN l}
Scheduled == Entries(sched.futures) \cup UNION {Entries(stack[i].l) : i \in DOMAIN stack}

\* Every object is of its type, and so are the frames: what dereferences a
\* future or a promise has one.
TypeOK ==
    /\ promise \in [Promises -> PromiseType]
    /\ future \in [Futures -> FutureType]
    /\ sched.listener \in BOOLEAN
    /\ Entries(sched.futures) \subseteq Futures
    /\ {pending[i] : i \in DOMAIN pending} \subseteq Futures
    /\ ctx.promise \in Promises \cup {None} /\ ctx.futures \subseteq Futures
    /\ calls \in 0..MaxCalls
    /\ \A i \in DOMAIN stack :
        /\ stack[i].f \in Futures \cup {None} /\ stack[i].p \in Promises \cup {None}
        /\ stack[i].k \in {"first", "user", "all", "race", "proxy", "dispatched", "cancelled"} =>
              stack[i].f # None
        /\ stack[i].k \in {"pcancel", "free", "settle"} => stack[i].p # None

\* No pointer that the code will still follow leads to a future, promise or
\* context that was freed: links of live objects, list entries, the frames of
\* the functions being executed and the data of callbacks still to be called.
NoDangling ==
    /\ \A f \in Futures : Live(f) =>
        /\ future[f].next # None => Live(future[f].next)
        /\ future[f].prev # None => Live(future[f].prev) /\ future[future[f].prev].next = f
        /\ future[f].promise # None =>
              LET p == promise[future[f].promise] IN p.st = "live" /\ p.future = f
        /\ future[f].cb = "set" =>
              /\ future[f].kind \in {"all", "race"} => ctx.st = "live" /\ f \in ctx.futures
              /\ future[f].kind = "proxy" => promise[future[f].data].st = "live"
    /\ \A p \in Promises : promise[p].future # None =>
        Live(promise[p].future) /\ future[promise[p].future].promise = p
    /\ Scheduled \subseteq {f \in Futures : Live(f)}
    /\ \A i \in DOMAIN stack :
        /\ stack[i].f # None => Live(stack[i].f)
        /\ stack[i].p # None => promise[stack[i].p].st = "live"
        /\ stack[i].k \in {"clean", "all", "race"} => ctx.st = "live"

\* A callback is called once: not twice, and never not at all before its
\* future is freed.
CallbackOnce ==
    \A f \in Futures :
        /\ future[f].called <= 1
        /\ future[f].st = "freed" /\ future[f].kind # "null" => future[f].called = 1

\* The memory of a promise is released once: a promise that was cancelled is
\* not settled afterwards.
PromiseOnce == \A p \in Promises : promise[p].ended <= 1

\* _pending_futures, the scheduler's lists and the scheduled_entry fields
\* agree; only the first future of a chain waits for a promise or for its
\* entry, and never for both (the asserts of _eina_future_cancel).
PendingExact ==
    /\ {pending[i] : i \in DOMAIN pending} = {f \in Futures : future[f].scheduled_entry}
    /\ {f \in Futures : future[f].scheduled_entry} = Scheduled
    /\ Len(pending) = Cardinality(Scheduled)
    /\ \A f \in Futures : Live(f) =>
        /\ ~(future[f].promise # None /\ future[f].scheduled_entry)
        /\ future[f].promise # None \/ future[f].scheduled_entry =>
              future[f].prev = None /\ future[f].cb # "dispatched"

\* The callbacks of a chain are called in the order of the chain.
ChainOrder ==
    \A f \in Futures :
        LET b == future[f].before IN
        future[f].called > 0 /\ b # None => future[b].called > 0 \/ future[b].kind = "null"

\* What was scheduled by eina_promise_resolve or eina_promise_reject is
\* delivered.
Served == \A f \in Futures : future[f].scheduled_entry ~> future[f].st = "freed"

=============================================================================
