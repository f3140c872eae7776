------------------------------- MODULE Timer --------------------------------
(***************************************************************************)
(* The timers of a main loop (src/src/lib/core/core_timer.c), as the loop  *)
(* drives them (core_main.c): a list sorted by expiry is walked while the  *)
(* callbacks add, delete, freeze, thaw, delay and reset timers, the one    *)
(* being called included, and iterate the main loop again, which walks the *)
(* same list from where the outer walk stands (timer_current).             *)
(*                                                                         *)
(* `stack' is the C call stack, innermost frame first: an iteration of the *)
(* loop, a walk (_efl_loop_timer_expired_call), a callback being called    *)
(* (_core_timer_legacy_tick).  Time is counted in units.  Timers are those *)
(* of core_timer_add; they keep the main loop as parent, nobody sets the   *)
(* loop's time, and delays are not negative.                               *)
(***************************************************************************)
EXTENDS Integers, Sequences, FiniteSets

CONSTANTS
    MaxTimer,   \* bound: timers created in a behaviour
    Intervals,  \* the intervals and delays the user asks for
    MaxTime,    \* bound: the clock
    MaxCalls,   \* bound: calls the user makes
    MaxDepth,   \* bound: iterations of the main loop within each other
    Precision,  \* timers that close are waited for together
    Hang,       \* a timer later than this starts anew (15 s)
    Uses        \* subset of {"deleted", "refreeze"}

ASSUME BoundAssumption ==
    /\ MaxTimer \in Nat /\ MaxTime \in Nat \ {0}
    /\ MaxCalls \in Nat /\ MaxDepth \in Nat
ASSUME TimeAssumption ==
    Intervals \subseteq Nat /\ Precision \in Nat \ {0} /\ Hang \in Nat
ASSUME UsesAssumption == Uses \subseteq {"deleted", "refreeze"}

VARIABLES
    tm,     \* the timers: Efl_Loop_Timer_Data with its Core_Timer_Legacy
    pd,     \* the part of Efl_Loop_Data that is about timers
    now,    \* core_time_get
    stack,  \* the call stack
    calls   \* user calls left

vars == <<tm, pd, now, stack, calls>>

None == 0
Timers == 1..MaxTimer

\* freezes is the freeze count Eo keeps for the object; a timer is gone once
\* efl_del was called on it.
TimerType == [st: {"none", "live", "gone"}, in: Nat, at: Int, pending: Int,
              just_added: BOOLEAN, frozen: BOOLEAN, freezes: Nat,
              inside_call: BOOLEAN, delete_me: BOOLEAN]

NoTimer == [st |-> "none", in |-> 0, at |-> 0, pending |-> 0,
            just_added |-> FALSE, frozen |-> FALSE, freezes |-> 0,
            inside_call |-> FALSE, delete_me |-> FALSE]

LoopType == [timers: Seq(Timers), suspended: Seq(Timers),
             timer_current: Timers \cup {None}, timers_added: BOOLEAN,
             loop_time: Nat]

\* A frame: what it is, where it stands, the timer it deals with, the time of
\* the walk, the timers the walk has called (history), and whether the timer
\* was already inside a call.
FrameType == [k: {"iterate", "walk", "tick"},
              pc: {"walk", "idle", "select", "start", "loop", "called", "run", "stale"},
              t: Timers \cup {None}, when: Nat, done: SUBSET Timers,
              inside_call: BOOLEAN]

Frame(k, pc) == [k |-> k, pc |-> pc, t |-> None, when |-> 0, done |-> {},
                 inside_call |-> FALSE]
Top == Head(stack)
At(k, pc) == stack # <<>> /\ Top.k = k /\ Top.pc = pc
Instead(frames) == stack' = frames \o Tail(stack)
Members(s) == {s[i] : i \in DOMAIN s}
Later(a, b) == IF a > b THEN a ELSE b

Init ==
    /\ tm = [t \in Timers |-> NoTimer]
    /\ pd = [timers |-> <<>>, suspended |-> <<>>, timer_current |-> None,
             timers_added |-> FALSE, loop_time |-> 1]
    /\ now = 1
    /\ stack = <<>>
    /\ calls = MaxCalls

-----------------------------------------------------------------------------
(* The lists.                                                              *)

\* eina_inlist_remove, if t is in the list
Without(s, t) ==
    IF t \in Members(s)
    THEN LET i == CHOOSE j \in DOMAIN s : s[j] = t
         IN  [j \in 1..Len(s) - 1 |-> IF j < i THEN s[j] ELSE s[j + 1]]
    ELSE s

\* EINA_INLIST_GET(t)->next
NextIn(d, t) ==
    LET after(s) == {s[i + 1] : i \in {j \in 1..Len(s) - 1 : s[j] = t}}
        n == after(d.timers) \cup after(d.suspended)
    IN  IF n = {} THEN None ELSE CHOOSE u \in n : TRUE

\* A plausible bug in the definition that follows:
\* timer_current stays at a timer that leaves the list.
LoopClearKeepsCurrent(d, t) ==
    [d EXCEPT !.timers = Without(@, t), !.suspended = Without(@, t)]

\* _efl_loop_timer_util_loop_clear, and the same in parent_set
LoopClear(d, t) ==
    [d EXCEPT !.timers = Without(@, t), !.suspended = Without(@, t),
              !.timer_current = IF @ = t THEN NextIn(d, t) ELSE @]

\* The timer goes behind the last one that expires earlier.
Insert(ts, s, t) ==
    LET k == CHOOSE i \in 0..Len(s) :
                /\ i > 0 => ts[t].at > ts[s[i]].at
                /\ \A j \in i + 1..Len(s) : ts[t].at <= ts[s[j]].at
    IN  SubSeq(s, 1, k) \o <<t>> \o SubSeq(s, k + 1, Len(s))

\* _efl_loop_timer_util_instanciate
Instanciate(ts, d, t) ==
    LET c == LoopClear(d, t) IN
    IF ts[t].frozen \/ ts[t].at <= 0
    THEN [c EXCEPT !.suspended = <<t>> \o @]
    ELSE [c EXCEPT !.timers = Insert(ts, @, t)]

\* A plausible bug in the definition that follows:
\* a timer set anew may be called in the walk under way.
SetDataOld(ts, t, at) ==
    [ts EXCEPT ![t].at = IF ts[t].frozen THEN @ ELSE at,
               ![t].pending = IF ts[t].frozen THEN @ ELSE 0]

\* _efl_loop_timer_set: the timer, and its place in the lists
SetData(ts, t, at) ==
    [ts EXCEPT ![t].just_added = TRUE,
               ![t].at = IF ts[t].frozen THEN @ ELSE at,
               ![t].pending = IF ts[t].frozen THEN @ ELSE 0]

SetPlace(ts, d, t) == Instanciate(ts, [d EXCEPT !.timers_added = TRUE], t)

Set(ts, d, t, at) ==
    /\ tm' = SetData(ts, t, at)
    /\ pd' = SetPlace(tm', d, t)

\* _efl_loop_timer_reschedule; a timer alone in its list is not taken out first
Rests(t) == tm[t].frozen \/ tm[t].st = "gone" \/ tm[t].delete_me

Reschedule(d, t, when) ==
    IF Rests(t) THEN UNCHANGED tm /\ pd' = d
    ELSE LET next == tm[t].at + tm[t].in IN
         Set(tm, IF Len(d.timers) > 1 THEN [d EXCEPT !.timers = Without(@, t)] ELSE d,
             t, IF next < when - Hang THEN when + tm[t].in ELSE next)

-----------------------------------------------------------------------------
(* What the user's code calls: in a callback of a timer, in an idle        *)
(* enterer, or outside of an iteration (descriptors and events are handled *)
(* there too).                                                             *)

InUserCode == stack # <<>> => Top.k = "tick" \/ Top.pc = "idle"
CanCall == calls > 0 /\ InUserCode
Called == calls' = calls - 1 /\ UNCHANGED <<now, stack>>

\* A handle is good until the timer is deleted or its callback returned 0.
Handle(t) == tm[t].st = "live" /\ ~tm[t].delete_me

Fresh == Cardinality({t \in Timers : tm[t].st # "none"}) + 1

\* core_timer_add, and core_timer_loop_add: the loop_reset it makes finds no
\* loop_data before the object is finalized and does nothing.
Add(in) ==
    /\ CanCall /\ Called /\ Fresh \in Timers
    /\ Set([tm EXCEPT ![Fresh] = [NoTimer EXCEPT !.st = "live", !.in = in]],
           pd, Fresh, now + in)

\* A timer deleted while its callback runs stays in the list until the
\* outermost of its callbacks returns, and a walk that reaches it before calls
\* it again: an iteration made after the deletion, or the walk of an iteration
\* in which another timer deletes it.
DelAllowed(t) ==
    "deleted" \notin Uses /\ tm[t].inside_call => Top.k = "tick" /\ Top.t = t

IterateAllowed == "deleted" \notin Uses => \A t \in Timers : ~tm[t].delete_me

\* efl_del: the object is invalidated and taken from the lists.
EflDel(ts, t) == [ts EXCEPT ![t].st = "gone", ![t].just_added = FALSE]

\* core_timer_del
Del(t) ==
    /\ CanCall /\ Called /\ Handle(t) /\ DelAllowed(t)
    /\ IF tm[t].inside_call
       THEN tm' = [tm EXCEPT ![t].delete_me = TRUE] /\ UNCHANGED pd
       ELSE tm' = EflDel(tm, t) /\ pd' = LoopClear(pd, t)

\* core_timer_interval_set
IntervalSet(t, in) ==
    /\ CanCall /\ Called /\ Handle(t) /\ in # tm[t].in
    /\ tm' = [tm EXCEPT ![t].in = in]
    /\ UNCHANGED pd

\* core_timer_delay: _efl_loop_timer_util_delay
Delay(t, add) ==
    /\ CanCall /\ Called /\ Handle(t) /\ add > 0
    /\ IF tm[t].frozen
       THEN tm' = [tm EXCEPT ![t].pending = @ + add] /\ UNCHANGED pd
       ELSE Set(tm, pd, t, tm[t].at + add)

\* core_timer_reset with the clock, core_timer_loop_reset with the loop's
\* time; the timer whose callback runs is left alone.
Reset(t, time) ==
    /\ CanCall /\ Called /\ Handle(t)
    /\ pd.timer_current # t
    /\ IF tm[t].frozen
       THEN tm' = [tm EXCEPT ![t].pending = tm[t].in] /\ UNCHANGED pd
       ELSE Set(tm, pd, t, time + tm[t].in)

\* core_timer_freeze; Eo counts every call, the timer only the first.
Freeze(t) ==
    /\ CanCall /\ Called /\ Handle(t)
    /\ "refreeze" \notin Uses => ~tm[t].frozen
    /\ IF tm[t].frozen
       THEN tm' = [tm EXCEPT ![t].freezes = @ + 1] /\ UNCHANGED pd
       ELSE /\ tm' = [tm EXCEPT ![t].freezes = @ + 1, ![t].frozen = TRUE, ![t].at = 0,
                                ![t].pending = tm[t].at - pd.loop_time]
            /\ pd' = Instanciate(tm', pd, t)

\* core_timer_thaw
Thaw(t) ==
    /\ CanCall /\ Called /\ Handle(t) /\ tm[t].freezes > 0
    /\ LET ts == [tm EXCEPT ![t].freezes = @ - 1, ![t].frozen = FALSE] IN
       IF ~tm[t].frozen THEN tm' = ts /\ UNCHANGED pd
       ELSE Set(ts, [pd EXCEPT !.suspended = Without(@, t)], t, tm[t].pending + now)

\* The user's code takes time.
Pass ==
    /\ InUserCode /\ now < MaxTime
    /\ now' = now + 1
    /\ UNCHANGED <<tm, pd, stack, calls>>

-----------------------------------------------------------------------------
(* An iteration of the main loop.                                          *)

\* _update_loop_time
UpdateLoopTime(time) == [pd EXCEPT !.loop_time = Later(@, time)]

Depth == Cardinality({i \in DOMAIN stack : stack[i].k = "iterate"})

\* _core_main_loop_iterate_internal begins; core_main_loop_iterate reads the
\* clock first, the loop of core_main_loop_begin does not.
Iterate(time) ==
    /\ InUserCode /\ Depth < MaxDepth /\ IterateAllowed
    /\ stack # <<>> => calls > 0
    /\ calls' = IF stack = <<>> THEN calls ELSE calls - 1
    /\ pd' = UpdateLoopTime(time)
    /\ stack' = <<[Frame("walk", "start") EXCEPT !.when = pd'.loop_time],
                  Frame("iterate", "idle")>> \o stack
    /\ UNCHANGED <<tm, now>>

\* _efl_loop_timer_expired_call up to its loop: a walk within a callback goes
\* on behind the timer being called and sets that one anew.
WalkStart ==
    /\ At("walk", "start")
    /\ LET t == pd.timer_current IN
       IF pd.timers = <<>> THEN Instead(<<>>) /\ UNCHANGED <<tm, pd>>
       ELSE /\ Instead(<<[Top EXCEPT !.pc = "loop"]>>)
            /\ IF t = None
               THEN pd' = [pd EXCEPT !.timer_current = Head(pd.timers)] /\ UNCHANGED tm
               ELSE Reschedule([pd EXCEPT !.timer_current = NextIn(pd, t)], t, Top.when)
    /\ UNCHANGED <<now, calls>>

Expired(t) == t # None /\ tm[t].at <= Top.when

\* The end of the walk: timers that expire later, or no more timers.
WalkEnd ==
    /\ At("walk", "loop") /\ ~Expired(pd.timer_current)
    /\ pd' = [pd EXCEPT !.timer_current = None]
    /\ Instead(<<>>)
    /\ UNCHANGED <<tm, now, calls>>

WalkSkip ==
    /\ At("walk", "loop") /\ Expired(pd.timer_current) /\ tm[pd.timer_current].just_added
    /\ pd' = [pd EXCEPT !.timer_current = NextIn(pd, @)]
    /\ UNCHANGED <<tm, now, stack, calls>>

\* A plausible bug in the definition that follows:
\* the callback of a recursing timer forgets that it is recursing.
TickFrameFlat(t) ==
    [Frame("tick", IF tm[t].delete_me THEN "stale" ELSE "run") EXCEPT !.t = t]

TickFrame(t) ==
    [Frame("tick", IF tm[t].delete_me THEN "stale" ELSE "run") EXCEPT
        !.t = t, !.inside_call = tm[t].inside_call]

\* The event is emitted, and unless Eo holds it back _core_timer_legacy_tick
\* calls the user's function.
WalkCall ==
    /\ At("walk", "loop") /\ Expired(pd.timer_current) /\ ~tm[pd.timer_current].just_added
    /\ LET t == pd.timer_current
           f == [Top EXCEPT !.pc = "called", !.t = t]
       IN IF tm[t].freezes > 0 THEN Instead(<<f>>) /\ UNCHANGED tm
          ELSE /\ Instead(<<TickFrame(t), f>>)
               /\ tm' = [tm EXCEPT ![t].inside_call = TRUE]
    /\ UNCHANGED <<pd, now, calls>>

\* The function returns 1 (renew) or 0 to _core_timer_legacy_tick.
TickReturn(renew) ==
    /\ stack # <<>> /\ Top.k = "tick"
    /\ LET t == Top.t
           nested == Top.inside_call
       IN IF ~renew \/ tm[t].delete_me
          THEN IF nested
               THEN tm' = [tm EXCEPT ![t].delete_me = TRUE] /\ UNCHANGED pd
               ELSE /\ tm' = [EflDel(tm, t) EXCEPT ![t].delete_me = FALSE,
                                                   ![t].inside_call = FALSE]
                    /\ pd' = LoopClear(pd, t)
          ELSE /\ tm' = [tm EXCEPT ![t].inside_call = nested]
               /\ UNCHANGED pd
    /\ Instead(<<>>)
    /\ UNCHANGED <<now, calls>>

\* The rest of the loop's body: on to the next timer, unless the callback
\* moved timer_current, and the timer called is set anew.
WalkCalled ==
    /\ At("walk", "called")
    /\ LET t == Top.t
           d == [pd EXCEPT !.timer_current = IF @ = t THEN NextIn(pd, t) ELSE @]
       IN /\ Reschedule(d, t, Top.when)
          /\ Instead(<<[Top EXCEPT !.pc = "loop", !.t = None, !.done = @ \cup {t}]>>)
    /\ UNCHANGED <<now, calls>>

\* A loop that has messages queued, or that makes one iteration only, polls
\* its descriptors before it enables the new timers, and does not wait (Done).
PollFirst ==
    /\ At("iterate", "idle") /\ pd.loop_time < now
    /\ pd' = UpdateLoopTime(now)
    /\ UNCHANGED <<tm, now, stack, calls>>

\* A plausible bug in the definition that follows:
\* new timers are not enabled.
EnableNewNever ==
    /\ At("iterate", "idle")
    /\ Instead(<<[Top EXCEPT !.pc = "select"]>>)
    /\ UNCHANGED <<tm, pd, now, calls>>

\* _efl_loop_timer_enable_new, after the idle enterers
EnableNew ==
    /\ At("iterate", "idle")
    /\ IF pd.timers_added
       THEN /\ tm' = [t \in Timers |-> IF t \in Members(pd.timers)
                                       THEN [tm[t] EXCEPT !.just_added = FALSE] ELSE tm[t]]
            /\ pd' = [pd EXCEPT !.timers_added = FALSE]
       ELSE UNCHANGED <<tm, pd>>
    /\ Instead(<<[Top EXCEPT !.pc = "select"]>>)
    /\ UNCHANGED <<now, calls>>

\* _efl_loop_timer_next_get: the last of the timers within Precision of the
\* first (-1 stands for no timer).
NextGet ==
    LET ready == {i \in DOMAIN pd.timers : ~tm[pd.timers[i]].just_added}
        first == CHOOSE i \in ready : \A j \in ready : i <= j
        near  == {i \in ready : tm[pd.timers[i]].at < tm[pd.timers[first]].at + Precision}
        last  == CHOOSE i \in near : \A j \in near : j <= i
    IN  IF ready = {} THEN -1 ELSE Later(0, tm[pd.timers[last]].at - pd.loop_time)

\* An iteration that does not wait ends.
Done ==
    /\ At("iterate", "select")
    /\ Instead(<<>>)
    /\ UNCHANGED <<tm, pd, now, calls>>

\* _core_main_select: the loop sleeps until the time of the next timer...
Sleep ==
    /\ At("iterate", "select") /\ NextGet >= 0
    /\ now' = Later(now, pd.loop_time + NextGet)
    /\ now' <= MaxTime
    /\ pd' = UpdateLoopTime(now')
    /\ Instead(<<>>)
    /\ UNCHANGED <<tm, calls>>

\* ...or, having idlers, spins, or is woken by a descriptor.
Poll ==
    /\ At("iterate", "select") /\ pd.loop_time < now
    /\ pd' = UpdateLoopTime(now)
    /\ Instead(<<>>)
    /\ UNCHANGED <<tm, now, calls>>

-----------------------------------------------------------------------------

UserCall ==
    \/ \E in \in Intervals : Add(in)
    \/ \E t \in Timers :
        \/ Del(t) \/ Freeze(t) \/ Thaw(t)
        \/ \E in \in Intervals : IntervalSet(t, in) \/ Delay(t, in)
        \/ \E time \in {now, pd.loop_time} : Reset(t, time)
    \/ Pass

Library ==
    \/ \E time \in {now, pd.loop_time} : Iterate(time)
    \/ WalkStart \/ WalkEnd \/ WalkSkip \/ WalkCall \/ WalkCalled
    \/ \E renew \in BOOLEAN : TickReturn(renew)
    \/ PollFirst \/ EnableNew \/ Done \/ Sleep \/ Poll

Next == UserCall \/ Library

Spec == Init /\ [][Next]_vars

\* The main loop goes on, functions return, and time passes: the loop does not
\* for ever wake up before its timeout.
FairSpec == Spec /\ WF_vars(Library) /\ SF_vars(Sleep)
                 /\ SF_vars(\E renew \in BOOLEAN : TickReturn(renew))

-----------------------------------------------------------------------------
(* Properties.                                                             *)

\* The state is of its type.
TypeOK ==
    /\ tm \in [Timers -> TimerType]
    /\ pd \in LoopType
    /\ now \in 1..MaxTime
    /\ stack \in Seq(FrameType)
    /\ calls \in 0..MaxCalls

\* The two lists hold every live timer once, the frozen ones in suspended and
\* the others, sorted by expiry, in timers; no deleted timer is in a list or is
\* timer_current, which is the head of what a walk still has to visit.
ListsExact ==
    LET all == pd.timers \o pd.suspended IN
    /\ Len(all) = Cardinality({t \in Timers : tm[t].st = "live"})
    /\ Members(pd.timers) = {t \in Timers : tm[t].st = "live" /\ ~tm[t].frozen}
    /\ Members(pd.suspended) = {t \in Timers : tm[t].st = "live" /\ tm[t].frozen}
    /\ \A i \in 1..Len(pd.timers) - 1 : tm[pd.timers[i]].at <= tm[pd.timers[i + 1]].at
    /\ pd.timer_current # None => pd.timer_current \in Members(pd.timers)

\* One walk calls a timer at most once, however short its interval, whatever
\* the callbacks do: a walk ends.
OncePerWalk ==
    \A i \in DOMAIN stack : stack[i].k = "tick" => stack[i].t \notin stack[i + 1].done

\* A function is not called any more after its timer was deleted or after it
\* returned 0, and what the function's caller (_core_timer_legacy_tick) still
\* uses when it returns is not freed under it, however deep the timer is called
\* within its own callback.
TickLive ==
    \A i \in DOMAIN stack : stack[i].k = "tick" =>
        stack[i].pc # "stale" /\ tm[stack[i].t].st = "live"

\* The function of a timer runs.
Calling(t) == \E i \in DOMAIN stack : stack[i].k = "tick" /\ stack[i].t = t

\* A timer in the list that no walk has just called and is to set anew.
Waiting(t) ==
    /\ t \in Members(pd.timers) /\ ~tm[t].inside_call
    /\ \A i \in DOMAIN stack : stack[i].k = "walk" => stack[i].t # t
    /\ tm[t].at + Precision <= MaxTime

\* Once the program makes no more calls, the function of every timer whose time the
\* loop can reach is called: just_added, the timeout and the walks hold it up no
\* longer than that, and to be set anew without a call is not enough.
Expires == \A t \in Timers : calls = 0 /\ Waiting(t) ~> Calling(t)

=============================================================================
