------------------------- MODULE PromiseOwnerProofs -------------------------
(***************************************************************************)
(* Proofs about Promise where nothing is used that makes the code work on  *)
(* freed memory (Uses is empty) and futures are gathered by                *)
(* eina_promise_all only: no pointer dangles, a promise is released once,  *)
(* and the scheduler, _pending_futures and the futures agree.              *)
(*                                                                         *)
(* The inductive invariant OwnInv says who owns a chain: its first future  *)
(* waits for a promise, for an entry of the scheduler, for the callback    *)
(* of the future before it, or is worked on by the frame on top.           *)
(***************************************************************************)
EXTENDS PromiseProofs

\* What the theorems of this module assume of the constants: every use that
\* CancelAllowed, ScheduleAllowed and Gather exclude is excluded, and no race
\* is built.
Calm == Uses = {} /\ "race" \notin Contexts

\* A future in whose callback the library is keeps its next one, which
\* nothing else touches: no promise, no entry, no frame.
Resting(x) == x.prev = None /\ x.promise = None /\ x.scheduled_entry = FALSE
Idle(x) == Resting(x) /\ x.cb # "dispatched" /\ x.st = "live"
Awaited(fs, f) == \E d \in Futures : fs[d].cb = "dispatched" /\ fs[d].next = f

LinkedAt(fs, f) ==
    /\ fs[f].prev # None =>
         /\ fs[f].st = "live" /\ fs[fs[f].prev].st = "live"
         /\ fs[fs[f].prev].next = f /\ fs[fs[f].prev].cb # "dispatched"
    /\ fs[f].next # None => fs[f].st = "live" /\ fs[fs[f].next].st = "live"
    /\ fs[f].next # None /\ fs[f].cb # "dispatched" => fs[fs[f].next].prev = f
    /\ fs[f].next # None /\ fs[f].cb = "dispatched" => Idle(fs[fs[f].next])
    /\ fs[f].cb = "dispatched" => Resting(fs[f]) /\ fs[f].st = "live"
    /\ fs[f].promise # None =>
         fs[f].st = "live" /\ fs[f].prev = None /\ fs[f].scheduled_entry = FALSE
    /\ fs[f].scheduled_entry = TRUE => fs[f].st = "live" /\ fs[f].prev = None
    /\ fs[f].kind # "race"
Linked(fs) == \A f \in Futures : LinkedAt(fs, f)

\* Promises and futures point to each other, and a promise is released once.
PromiseAt(ps, fs, p) ==
    /\ ps[p].future # None => ps[p].st = "live" /\ fs[ps[p].future].promise = p
    /\ ps[p].st = "freed" => ps[p].ended = 1
    /\ ps[p].st # "freed" => ps[p].ended = 0
Counted(ps) == \E n \in 0..MaxPromise : \A p \in Promises : ps[p].st # "none" <=> p <= n
Promised(ps, fs) ==
    /\ \A p \in Promises : PromiseAt(ps, fs, p)
    /\ \A f \in Futures : fs[f].promise # None => ps[fs[f].promise].future = f
    /\ Counted(ps)

\* The frames that wait for those above them: each loop for the callback of
\* its future.
Deep == {"batch", "cancelall", "dispatch", "cancel", "user", "return", "allfree", "free"}

PlainAt(x) ==
    /\ x.p # None <=> x.k \in OnPromise
    /\ x.f # None => x.k \in Loops \cup OnFuture
    /\ x.l # <<>> => x.k = "batch"
    /\ x.k \notin Ends => x.v \in Settled
    /\ x.k # "race"

Releasing(ps, p) == ps[p].st = "live" /\ ps[p].cancel # "user"
Released(cx) == cx.st = "live" /\ cx.futures = {}

DeepAt(fs, ps, cx, x) ==
    /\ x.k \in Deep /\ PlainAt(x)
    /\ x.k \in Loops => x.f # None /\ fs[x.f].cb = "dispatched"
    /\ x.k = "free" => Releasing(ps, x.p) /\ ps[x.p].future = None
    /\ x.k = "allfree" => Released(cx)

Clear(t) == t # <<>> => t[1].k \notin Loops

Apart(t) ==
    /\ \A i, j \in DOMAIN t : t[i].k \in Loops /\ t[j].k \in Loops /\ t[i].f = t[j].f => i = j
    /\ \A i, j \in DOMAIN t : t[i].k = "free" /\ t[j].k = "free" /\ t[i].p = t[j].p => i = j
    /\ \A i, j \in DOMAIN t : t[i].k = "allfree" /\ t[j].k = "allfree" => i = j
    /\ \A i \in DOMAIN t : t[i].k \in {"batch", "cancelall"} => i = Len(t)
    /\ \A i, j \in DOMAIN t : j = i + 1 /\ t[j].k \in Loops => t[i].k \in Callbacks

Below(fs, ps, cx, t) == Apart(t) /\ \A i \in DOMAIN t : DeepAt(fs, ps, cx, t[i])

\* The frames of t that run the loop of f, release p, or release the context.
Runs(t, f) == \E i \in DOMAIN t : t[i].k \in Loops \cup Ends /\ t[i].f = f
Frees(t, p) == \E i \in DOMAIN t : t[i].k \in {"free", "settle"} /\ t[i].p = p
Cleans(t) == \E i \in DOMAIN t : t[i].k \in {"allfree", "clean"}

\* x may wait on top of t.
Fits(fs, ps, cx, x, t) ==
    /\ DeepAt(fs, ps, cx, x)
    /\ x.k \in Loops => ~Runs(t, x.f)
    /\ x.k = "free" => ~Frees(t, x.p)
    /\ x.k = "allfree" => ~Cleans(t)
    /\ x.k \in {"batch", "cancelall"} => t = <<>>
    /\ x.k \notin Callbacks => Clear(t)

\* What a loop may go on with.
Own(fs, f) == Idle(fs[f]) /\ ~Awaited(fs, f)
OwnBut(fs, p, f) ==
    /\ fs[f].st = "live" /\ fs[f].prev = None /\ fs[f].scheduled_entry = FALSE
    /\ fs[f].cb # "dispatched" /\ fs[f].promise \in {None, p} /\ ~Awaited(fs, f)

\* A returned promise belongs to nobody yet.
Handed(ps, t, k, v) ==
    /\ v \in Promises => /\ ps[v].st = "live" /\ ps[v].future = None /\ ~Frees(t, v)
                         /\ ps[v].cancel \in {"user", "dummy"}
                         /\ ps[v].cancel = "dummy" => k = "dispatched"

\* What _eina_future_cancel begins with.
Entered(fs, ps, sc, h) ==
    /\ fs[h].st = "live" /\ fs[h].prev = None /\ fs[h].cb # "dispatched" /\ ~Awaited(fs, h)
    /\ fs[h].promise # None => ps[fs[h].promise].cancel = "user"
    /\ fs[h].scheduled_entry = TRUE => h \in Entries(sc.futures)

\* x is on top of the stack, above t.
TopAt(fs, ps, cx, sc, x, t) ==
    /\ PlainAt(x)
    /\ x.k # "pcancel" => Below(fs, ps, cx, t)
    /\ x.k \notin Callbacks \cup {"pcancel"} => Clear(t)
    /\ x.k \in Deep \ Loops => Fits(fs, ps, cx, x, t)
    /\ x.k \in Loops /\ x.f # None => Own(fs, x.f)
    /\ x.k \in Leaves => fs[x.f].kind = x.k
    /\ x.k \in Ends => /\ fs[x.f].cb = "dispatched" /\ ~Runs(t, x.f)
                       /\ Handed(ps, t, x.k, x.v)
    /\ x.k = "first" => fs[x.f].st = "live" /\ Entered(fs, ps, sc, FirstIn(fs, x.f))
    /\ x.k = "settle" => Releasing(ps, x.p) /\ ~Frees(t, x.p)
    /\ x.k = "clean" => Released(cx) /\ ~Cleans(t)
    /\ x.k = "pcancel" =>
         /\ ps[x.p].st = "live" /\ ps[x.p].cancel = "user"
         /\ t # <<>> /\ t[1].k = "cancel" /\ PlainAt(t[1])
         /\ Below(fs, ps, cx, Tail(t)) /\ Clear(Tail(t))
         /\ t[1].f # None => OwnBut(fs, x.p, t[1].f)

Stacked(fs, ps, cx, sc, s) == s # <<>> => TopAt(fs, ps, cx, sc, s[1], Tail(s))

\* The callback of f has not been called, or is about to begin.
Uncalled(fs, s, f) ==
    fs[f].cb = "set" \/ (s # <<>> /\ s[1].k \in Leaves /\ s[1].f = f)

Proxied(ps, fs, s) ==
    /\ \A f \in Futures : fs[f].st = "live" /\ fs[f].kind = "proxy" /\ Uncalled(fs, s, f) =>
         LET p == fs[f].data
         IN  ps[p].st = "live" /\ ps[p].cancel = "dummy" /\ ~Frees(s, p)
    /\ \A f \in Futures : fs[f].data # None => ps[fs[f].data].st # "none"
    /\ \A f, g \in Futures : fs[f].data # None /\ fs[f].data = fs[g].data => f = g

Gathered(cx, ps, fs, s) ==
    /\ cx.kind = "all" /\ cx.cancelled = FALSE
    /\ \A f \in Futures : f \in cx.futures <=>
         fs[f].st = "live" /\ fs[f].kind = "all" /\ Uncalled(fs, s, f)
    /\ cx.futures # {} =>
         /\ cx.st = "live" /\ cx.promise # None
         /\ ps[cx.promise].st = "live" /\ ps[cx.promise].cancel = "all" /\ ~Frees(s, cx.promise)

\* The lists of the scheduler, of the batch and of the pending futures.
Distinct(l) == \A i, j \in DOMAIN l : l[i].f = l[j].f => i = j
NoTwins(s) == \A i \in DOMAIN s : Distinct(s[i].l)
InBatch(s, f) == \E i \in DOMAIN s : f \in Entries(s[i].l)
Lone(pe) == \A i, j \in DOMAIN pe : pe[i] = pe[j] => i = j
Among(pe, f) == \E i \in DOMAIN pe : pe[i] = f
Booked(sc, pe, fs, s) ==
    /\ Distinct(sc.futures) /\ NoTwins(s)
    /\ \A f \in Futures : ~(f \in Entries(sc.futures) /\ InBatch(s, f))
    /\ Lone(pe)
    /\ \A f \in Futures :
         /\ fs[f].scheduled_entry = TRUE <=> f \in Entries(sc.futures) \/ InBatch(s, f)
         /\ fs[f].scheduled_entry = TRUE <=> Among(pe, f)

Rest(sc, pe, cx, ps, fs, s) == Proxied(ps, fs, s) /\ Gathered(cx, ps, fs, s) /\ Booked(sc, pe, fs, s)

OwnInv ==
    /\ Linked(future) /\ Promised(promise, future)
    /\ Stacked(future, promise, ctx, sched, stack)
    /\ Rest(sched, pending, ctx, promise, future, stack)
-----------------------------------------------------------------------------
(* The stack, frame by frame.                                              *)

USE BoundAssumption

\* A frame on a stack: where everything is.
LEMMA ConsFacts ==
    ASSUME NEW t \in Seq(FrameType), NEW x \in FrameType
    PROVE  /\ <<x>> \o t \in Seq(FrameType) /\ <<x>> \o t # <<>>
           /\ (<<x>> \o t)[1] = x /\ Tail(<<x>> \o t) = t
           /\ Len(<<x>> \o t) = Len(t) + 1
           /\ 1 \in DOMAIN (<<x>> \o t)
           /\ \A i \in DOMAIN t : i + 1 \in DOMAIN (<<x>> \o t) /\ (<<x>> \o t)[i + 1] = t[i]
           /\ \A i \in DOMAIN (<<x>> \o t) :
                (i = 1 /\ (<<x>> \o t)[i] = x)
                \/ (i # 1 /\ i - 1 \in DOMAIN t /\ (<<x>> \o t)[i] = t[i - 1])
<1> DEFINE s == <<x>> \o t
<1>1. /\ Len(t) \in Nat /\ DOMAIN t = 1..Len(t) /\ Len(s) = Len(t) + 1 /\ DOMAIN s = 1..Len(t) + 1
      /\ s \in Seq(FrameType) /\ s # <<>> /\ s[1] = x
  OBVIOUS
<1>2. \A i \in 1..Len(t) : s[i + 1] = t[i]
  OBVIOUS
<1>3. ASSUME NEW i \in DOMAIN s
      PROVE  (i = 1 /\ s[i] = x) \/ (i # 1 /\ i - 1 \in DOMAIN t /\ s[i] = t[i - 1])
  <2> HIDE DEF s
  <2>1. i # 1 => i - 1 \in 1..Len(t) /\ (i - 1) + 1 = i
    BY <1>1
  <2>2. i # 1 => s[(i - 1) + 1] = t[i - 1]
    BY <1>2, <2>1
  <2> QED
    BY <1>1, <2>1, <2>2
<1>4. Tail(s) = t
  <2> DEFINE u == Tail(s)
  <2>1. u \in Seq(FrameType) /\ Len(u) = Len(t) /\ \A i \in 1..Len(t) : u[i] = s[i + 1]
    <3> HIDE DEF s
    <3> QED
      BY <1>1
  <2> HIDE DEF u, s
  <2>2. \A i \in 1..Len(u) : u[i] = t[i]
    BY <1>2, <2>1
  <2>3. u = t
    BY <2>1, <2>2, SeqEqual
  <2> QED
    BY <2>3 DEF u
<1>5. \A i \in DOMAIN t : i + 1 \in DOMAIN s /\ s[i + 1] = t[i]
  BY <1>1, <1>2
<1> HIDE DEF s
<1>6. 1 \in DOMAIN s
  BY <1>1
<1> QED
  BY <1>1, <1>3, <1>4, <1>5, <1>6 DEF s

\* Every stack that is not empty is one.
LEMMA StackIsCons ==
    ASSUME NEW s \in Seq(FrameType), s # <<>>
    PROVE  /\ s = <<s[1]>> \o Tail(s) /\ s[1] \in FrameType /\ Tail(s) \in Seq(FrameType)
           /\ Head(s) = s[1]
<1>1. /\ Len(s) \in Nat /\ Len(s) > 0 /\ s[1] \in FrameType /\ Tail(s) \in Seq(FrameType)
      /\ Len(Tail(s)) = Len(s) - 1 /\ Head(s) = s[1]
  OBVIOUS
<1>2. \A i \in 1..Len(Tail(s)) : Tail(s)[i] = s[i + 1]
  BY <1>1
<1> DEFINE t == Tail(s)
           x == s[1]
           u == <<x>> \o t
<1> HIDE DEF t, x
<1>3. /\ t \in Seq(FrameType) /\ x \in FrameType /\ Len(t) = Len(s) - 1 /\ x = s[1]
      /\ \A i \in 1..Len(t) : t[i] = s[i + 1]
  BY <1>1, <1>2 DEF t, x
<1>4. /\ u \in Seq(FrameType) /\ Len(u) = Len(s)
      /\ \A i \in DOMAIN u : (i = 1 /\ u[i] = x) \/ (i # 1 /\ i - 1 \in DOMAIN t /\ u[i] = t[i - 1])
  <2>1. /\ u \in Seq(FrameType) /\ Len(u) = Len(t) + 1
        /\ \A i \in DOMAIN u : (i = 1 /\ u[i] = x) \/ (i # 1 /\ i - 1 \in DOMAIN t /\ u[i] = t[i - 1])
    BY <1>3, ConsFacts
  <2> HIDE DEF u
  <2> QED
    BY <1>1, <1>3, <2>1
<1> HIDE DEF u
<1>5. \A i \in 1..Len(u) : u[i] = s[i]
  <2> SUFFICES ASSUME NEW i \in 1..Len(u) PROVE u[i] = s[i]
    OBVIOUS
  <2>1. i \in DOMAIN u /\ i \in Nat
    BY <1>1, <1>4
  <2>2. CASE i = 1
    BY <1>3, <1>4, <2>1, <2>2
  <2>3. CASE i # 1
    <3>1. i - 1 \in DOMAIN t /\ u[i] = t[i - 1]
      BY <1>4, <2>1, <2>3
    <3>2. i - 1 \in 1..Len(t) /\ (i - 1) + 1 = i
      BY <1>3, <2>1, <3>1
    <3> QED
      BY <1>3, <3>1, <3>2
  <2> QED
    BY <2>2, <2>3
<1>6. u = s
  BY <1>4, <1>5, SeqEqual
<1> QED
  BY <1>1, <1>6 DEF u, t, x

\* Two frames at a time.
LEMMA PairCons ==
    ASSUME NEW t \in Seq(FrameType), NEW x \in FrameType, NEW y \in FrameType
    PROVE  <<x, y>> \o t = <<x>> \o (<<y>> \o t)
<1> DEFINE d == <<x, y>> \o t
           s == <<y>> \o t
           e == <<x>> \o s
<1>1. /\ d \in Seq(FrameType) /\ Len(t) \in Nat /\ Len(d) = Len(t) + 2 /\ d[1] = x /\ d[2] = y
      /\ \A i \in 3..Len(t) + 2 : d[i] = t[i - 2]
  OBVIOUS
<1>2. /\ s \in Seq(FrameType) /\ Len(s) = Len(t) + 1 /\ s[1] = y
      /\ \A i \in 2..Len(t) + 1 : s[i] = t[i - 1]
  OBVIOUS
<1>3. /\ e \in Seq(FrameType) /\ Len(e) = Len(s) + 1 /\ e[1] = x
      /\ \A i \in 2..Len(s) + 1 : e[i] = s[i - 1]
  <2> HIDE DEF s
  <2> QED
    BY <1>2
<1> HIDE DEF d, s, e
<1>4. ASSUME NEW i \in 1..Len(d) PROVE d[i] = e[i]
  <2>1. CASE i = 1
    BY <1>1, <1>3, <2>1
  <2>2. CASE i = 2
    BY <1>1, <1>2, <1>3, <2>2
  <2>3. CASE i # 1 /\ i # 2
    <3>1. i \in 3..Len(t) + 2 /\ i \in 2..Len(s) + 1 /\ i - 1 \in 2..Len(t) + 1 /\ (i - 1) - 1 = i - 2
      BY <1>1, <1>2, <2>3
    <3> QED
      BY <1>1, <1>2, <1>3, <3>1
  <2> QED
    BY <2>1, <2>2, <2>3
<1>5. Len(d) = Len(e)
  BY <1>1, <1>2, <1>3
<1>6. d = e
  BY <1>1, <1>3, <1>4, <1>5, SeqEqual
<1> QED
  BY <1>6 DEF d, s, e

\* Three frames at a time, and none.
LEMMA ConsCons ==
    ASSUME NEW t \in Seq(FrameType), NEW x \in FrameType, NEW y \in FrameType, NEW z \in FrameType
    PROVE  /\ <<x, y>> \o t = <<x>> \o (<<y>> \o t)
           /\ <<x, y, z>> \o t = <<x>> \o (<<y>> \o (<<z>> \o t))
           /\ <<>> \o t = t
           /\ <<x>> \o <<>> = <<x>>
<1>0. <<y>> \o t \in Seq(FrameType) /\ <<z>> \o t \in Seq(FrameType)
  BY ConsFacts
<1>1. <<x, y>> \o t = <<x>> \o (<<y>> \o t)
  BY PairCons
<1>3. <<x, y>> \o (<<z>> \o t) = <<x>> \o (<<y>> \o (<<z>> \o t))
  <2>1. ASSUME NEW u \in Seq(FrameType) PROVE <<x, y>> \o u = <<x>> \o (<<y>> \o u)
    BY PairCons
  <2> QED
    BY <1>0, <2>1
<1>2. <<x, y, z>> \o t = <<x, y>> \o (<<z>> \o t)
  OBVIOUS
<1>4. <<>> \o t = t
  OBVIOUS
<1>5. <<x>> \o <<>> = <<x>>
  OBVIOUS
<1> QED
  BY <1>1, <1>2, <1>3, <1>4, <1>5

\* What a frame adds to a stack.
LEMMA RunsCons ==
    ASSUME NEW t \in Seq(FrameType), NEW x \in FrameType
    PROVE  /\ \A f : Runs(<<x>> \o t, f) <=> (x.k \in Loops \cup Ends /\ x.f = f) \/ Runs(t, f)
           /\ \A p : Frees(<<x>> \o t, p) <=> (x.k \in {"free", "settle"} /\ x.p = p) \/ Frees(t, p)
           /\ Cleans(<<x>> \o t) <=> x.k \in {"allfree", "clean"} \/ Cleans(t)
           /\ \A f : InBatch(<<x>> \o t, f) <=> f \in Entries(x.l) \/ InBatch(t, f)
           /\ NoTwins(<<x>> \o t) <=> Distinct(x.l) /\ NoTwins(t)
<1> DEFINE s == <<x>> \o t
<1>1. /\ s[1] = x /\ 1 \in DOMAIN s
      /\ \A i \in DOMAIN t : i + 1 \in DOMAIN s /\ s[i + 1] = t[i]
      /\ \A i \in DOMAIN s : (i = 1 /\ s[i] = x) \/ (i # 1 /\ i - 1 \in DOMAIN t /\ s[i] = t[i - 1])
  BY ConsFacts
<1> HIDE DEF s
<1>2. \A y : (\E i \in DOMAIN s : s[i] = y) <=> y = x \/ \E i \in DOMAIN t : t[i] = y
  BY <1>1
<1>3. \A f : Runs(s, f) <=> (x.k \in Loops \cup Ends /\ x.f = f) \/ Runs(t, f)
  BY <1>2 DEF Runs
<1>4. \A p : Frees(s, p) <=> (x.k \in {"free", "settle"} /\ x.p = p) \/ Frees(t, p)
  BY <1>2 DEF Frees
<1>5. Cleans(s) <=> x.k \in {"allfree", "clean"} \/ Cleans(t)
  BY <1>2 DEF Cleans
<1>6. \A f : InBatch(s, f) <=> f \in Entries(x.l) \/ InBatch(t, f)
  BY <1>2 DEF InBatch
<1>7. NoTwins(s) <=> Distinct(x.l) /\ NoTwins(t)
  BY <1>2 DEF NoTwins
<1> QED
  BY <1>3, <1>4, <1>5, <1>6, <1>7 DEF s

\* What waits on a stack waits on its tail, and on nothing else.
LEMMA BelowCons ==
    ASSUME NEW t \in Seq(FrameType), NEW x \in FrameType, NEW fs, NEW ps, NEW cx
    PROVE  Below(fs, ps, cx, <<x>> \o t) <=> Below(fs, ps, cx, t) /\ Fits(fs, ps, cx, x, t)
<1> DEFINE s == <<x>> \o t
<1>1. /\ s[1] = x /\ 1 \in DOMAIN s /\ DOMAIN s = 1..Len(s) /\ Len(s) = Len(t) + 1
      /\ Len(t) \in Nat /\ DOMAIN t = 1..Len(t) /\ (t = <<>> <=> Len(t) = 0)
      /\ \A i \in DOMAIN t : i + 1 \in DOMAIN s /\ s[i + 1] = t[i]
      /\ \A i \in DOMAIN s : (i = 1 /\ s[i] = x) \/ (i # 1 /\ i - 1 \in DOMAIN t /\ s[i] = t[i - 1])
  <2>1. Len(t) \in Nat /\ DOMAIN t = 1..Len(t) /\ (t = <<>> <=> Len(t) = 0)
    OBVIOUS
  <2>2. s \in Seq(FrameType)
    BY ConsFacts
  <2>3. DOMAIN s = 1..Len(s)
    <3> HIDE DEF s
    <3> QED
      BY <2>2
  <2> QED
    BY <2>1, <2>3, ConsFacts
<1> HIDE DEF s
<1>2. Deep \cap {"settle", "clean", "dispatched", "cancelled"} = {} /\ Loops \cap {"free", "allfree", "batch", "cancelall"} = {}
  BY DEF Deep, Loops
<1>3. (\A i \in DOMAIN s : DeepAt(fs, ps, cx, s[i])) <=>
         DeepAt(fs, ps, cx, x) /\ \A i \in DOMAIN t : DeepAt(fs, ps, cx, t[i])
  BY <1>1
<1>4. ASSUME \A i \in DOMAIN t : DeepAt(fs, ps, cx, t[i])
      PROVE  /\ \A f : Runs(t, f) <=> \E i \in DOMAIN t : t[i].k \in Loops /\ t[i].f = f
             /\ \A p : Frees(t, p) <=> \E i \in DOMAIN t : t[i].k = "free" /\ t[i].p = p
             /\ Cleans(t) <=> \E i \in DOMAIN t : t[i].k = "allfree"
  BY <1>2, <1>4 DEF Runs, Frees, Cleans, DeepAt, Ends
<1>5. ASSUME Below(fs, ps, cx, s)
      PROVE  Below(fs, ps, cx, t) /\ Fits(fs, ps, cx, x, t)
  <2>1. DeepAt(fs, ps, cx, x) /\ \A i \in DOMAIN t : DeepAt(fs, ps, cx, t[i])
    BY <1>3, <1>5 DEF Below
  <2>2. /\ \A i, j \in DOMAIN s : s[i].k \in Loops /\ s[j].k \in Loops /\ s[i].f = s[j].f => i = j
        /\ \A i, j \in DOMAIN s : s[i].k = "free" /\ s[j].k = "free" /\ s[i].p = s[j].p => i = j
        /\ \A i, j \in DOMAIN s : s[i].k = "allfree" /\ s[j].k = "allfree" => i = j
        /\ \A i \in DOMAIN s : s[i].k \in {"batch", "cancelall"} => i = Len(s)
        /\ \A i, j \in DOMAIN s : j = i + 1 /\ s[j].k \in Loops => s[i].k \in Callbacks
    BY <1>5 DEF Below, Apart
  <2>3. \A i, j \in DOMAIN t : /\ i + 1 \in DOMAIN s /\ j + 1 \in DOMAIN s /\ s[i + 1] = t[i] /\ s[j + 1] = t[j]
                               /\ i + 1 = j + 1 => i = j
                               /\ j = i + 1 => j + 1 = (i + 1) + 1
                               /\ i + 1 # 1
    BY <1>1
  <2>4. Apart(t)
    <3>1. \A i, j \in DOMAIN t : t[i].k \in Loops /\ t[j].k \in Loops /\ t[i].f = t[j].f => i = j
      BY <2>2, <2>3
    <3>2. \A i, j \in DOMAIN t : t[i].k = "free" /\ t[j].k = "free" /\ t[i].p = t[j].p => i = j
      BY <2>2, <2>3
    <3>3. \A i, j \in DOMAIN t : t[i].k = "allfree" /\ t[j].k = "allfree" => i = j
      BY <2>2, <2>3
    <3>4. \A i \in DOMAIN t : t[i].k \in {"batch", "cancelall"} => i = Len(t)
      <4> SUFFICES ASSUME NEW i \in DOMAIN t, t[i].k \in {"batch", "cancelall"} PROVE i = Len(t)
        OBVIOUS
      <4>1. i + 1 = Len(s)
        BY <2>2, <2>3
      <4> QED
        BY <1>1, <4>1
    <3>5. \A i, j \in DOMAIN t : j = i + 1 /\ t[j].k \in Loops => t[i].k \in Callbacks
      BY <2>2, <2>3
    <3> QED
      BY <3>1, <3>2, <3>3, <3>4, <3>5 DEF Apart
  <2>10. \A i \in DOMAIN t : i + 1 \in DOMAIN s /\ s[i + 1] = t[i] /\ 1 # i + 1 /\ 1 \in DOMAIN s /\ s[1] = x
    BY <1>1
  <2>11. \A i \in DOMAIN t : /\ ~(x.k \in Loops /\ t[i].k \in Loops /\ x.f = t[i].f)
                             /\ ~(x.k = "free" /\ t[i].k = "free" /\ x.p = t[i].p)
                             /\ ~(x.k = "allfree" /\ t[i].k = "allfree")
    BY <2>2, <2>10
  <2>12. /\ \A f : Runs(t, f) <=> \E i \in DOMAIN t : t[i].k \in Loops /\ t[i].f = f
         /\ \A p : Frees(t, p) <=> \E i \in DOMAIN t : t[i].k = "free" /\ t[i].p = p
         /\ Cleans(t) <=> \E i \in DOMAIN t : t[i].k = "allfree"
    BY <1>4, <2>1
  <2>5. x.k \in Loops => ~Runs(t, x.f)
    BY <2>11, <2>12
  <2>6. x.k = "free" => ~Frees(t, x.p)
    BY <2>11, <2>12
  <2>7. x.k = "allfree" => ~Cleans(t)
    BY <2>11, <2>12
  <2>8. x.k \in {"batch", "cancelall"} => t = <<>>
    BY <1>1, <2>2
  <2>9. x.k \notin Callbacks => Clear(t)
    <3>1. t # <<>> => 1 \in DOMAIN t /\ 2 \in DOMAIN s /\ s[2] = t[1] /\ 2 = 1 + 1
      BY <1>1
    <3> QED
      BY <1>1, <2>2, <3>1 DEF Clear
  <2> QED
    BY <2>1, <2>4, <2>5, <2>6, <2>7, <2>8, <2>9 DEF Below, Fits
<1>6. ASSUME Below(fs, ps, cx, t), Fits(fs, ps, cx, x, t)
      PROVE  Below(fs, ps, cx, s)
  <2>1. DeepAt(fs, ps, cx, x) /\ \A i \in DOMAIN t : DeepAt(fs, ps, cx, t[i])
    BY <1>6 DEF Below, Fits
  <2>2. /\ \A i, j \in DOMAIN t : t[i].k \in Loops /\ t[j].k \in Loops /\ t[i].f = t[j].f => i = j
        /\ \A i, j \in DOMAIN t : t[i].k = "free" /\ t[j].k = "free" /\ t[i].p = t[j].p => i = j
        /\ \A i, j \in DOMAIN t : t[i].k = "allfree" /\ t[j].k = "allfree" => i = j
        /\ \A i \in DOMAIN t : t[i].k \in {"batch", "cancelall"} => i = Len(t)
        /\ \A i, j \in DOMAIN t : j = i + 1 /\ t[j].k \in Loops => t[i].k \in Callbacks
    BY <1>6 DEF Below, Apart
  <2>3. /\ x.k \in Loops => ~\E i \in DOMAIN t : t[i].k \in Loops /\ t[i].f = x.f
        /\ x.k = "free" => ~\E i \in DOMAIN t : t[i].k = "free" /\ t[i].p = x.p
        /\ x.k = "allfree" => ~\E i \in DOMAIN t : t[i].k = "allfree"
        /\ x.k \in {"batch", "cancelall"} => t = <<>>
        /\ x.k \notin Callbacks => Clear(t)
    BY <1>4, <1>6, <2>1 DEF Fits
  <2>4. \A i, j \in DOMAIN s : i - 1 = j - 1 => i = j
    BY <1>1
  <2>5. \A i, j \in DOMAIN s : s[i].k \in Loops /\ s[j].k \in Loops /\ s[i].f = s[j].f => i = j
    BY <1>1, <2>2, <2>3, <2>4
  <2>6. \A i, j \in DOMAIN s : s[i].k = "free" /\ s[j].k = "free" /\ s[i].p = s[j].p => i = j
    BY <1>1, <2>2, <2>3, <2>4
  <2>7. \A i, j \in DOMAIN s : s[i].k = "allfree" /\ s[j].k = "allfree" => i = j
    BY <1>1, <2>2, <2>3, <2>4
  <2>8. \A i \in DOMAIN s : s[i].k \in {"batch", "cancelall"} => i = Len(s)
    <3> SUFFICES ASSUME NEW i \in DOMAIN s, s[i].k \in {"batch", "cancelall"} PROVE i = Len(s)
      OBVIOUS
    <3>1. CASE i = 1
      BY <1>1, <2>3, <3>1
    <3>2. CASE i # 1
      <4>1. i - 1 \in DOMAIN t /\ s[i] = t[i - 1]
        BY <1>1, <3>2
      <4>2. i - 1 = Len(t)
        BY <2>2, <4>1
      <4> QED
        BY <1>1, <4>2
    <3> QED
      BY <3>1, <3>2
  <2>9. \A i, j \in DOMAIN s : j = i + 1 /\ s[j].k \in Loops => s[i].k \in Callbacks
    <3> SUFFICES ASSUME NEW i \in DOMAIN s, NEW j \in DOMAIN s, j = i + 1, s[j].k \in Loops
                 PROVE  s[i].k \in Callbacks
      OBVIOUS
    <3>1. j - 1 = i /\ j # 1 /\ i \in DOMAIN t /\ s[j] = t[i]
      BY <1>1
    <3>2. CASE i = 1
      <4>1. t # <<>> /\ t[1].k \in Loops
        BY <1>1, <3>1, <3>2
      <4> QED
        BY <1>1, <2>3, <3>2, <4>1 DEF Clear
    <3>3. CASE i # 1
      <4>1. i - 1 \in DOMAIN t /\ s[i] = t[i - 1] /\ i = (i - 1) + 1
        BY <1>1, <3>3
      <4> QED
        BY <2>2, <3>1, <4>1
    <3> QED
      BY <3>2, <3>3
  <2> QED
    BY <1>3, <2>1, <2>5, <2>6, <2>7, <2>8, <2>9 DEF Below, Apart
<1> QED
  BY <1>5, <1>6 DEF s

\* Nothing waits on an empty stack.
LEMMA EmptyStack ==
    /\ \A fs, ps, cx : Below(fs, ps, cx, <<>>)
    /\ \A f : ~Runs(<<>>, f) /\ ~InBatch(<<>>, f)
    /\ \A p : ~Frees(<<>>, p)
    /\ ~Cleans(<<>>) /\ NoTwins(<<>>) /\ Clear(<<>>) /\ Steady(<<>>)
<1>1. DOMAIN <<>> = {}
  OBVIOUS
<1>2. \A fs, ps, cx : Below(fs, ps, cx, <<>>)
  BY <1>1 DEF Below, Apart
<1>3. \A f : ~Runs(<<>>, f) /\ ~InBatch(<<>>, f)
  BY <1>1 DEF Runs, InBatch
<1>4. \A p : ~Frees(<<>>, p)
  BY <1>1 DEF Frees
<1>5. ~Cleans(<<>>) /\ NoTwins(<<>>)
  BY <1>1 DEF Cleans, NoTwins
<1>6. Clear(<<>>) /\ Steady(<<>>)
  BY DEF Clear, Steady
<1> QED
  BY <1>2, <1>3, <1>4, <1>5, <1>6

\* What the waiting frames say of the objects.
LEMMA BelowFacts ==
    ASSUME NEW t \in Seq(FrameType), NEW fs, NEW ps, NEW cx, Below(fs, ps, cx, t)
    PROVE  /\ \A f : Runs(t, f) => f \in Futures /\ fs[f].cb = "dispatched"
           /\ \A p : Frees(t, p) => p \in Promises /\ Releasing(ps, p) /\ ps[p].future = None
           /\ Cleans(t) => Released(cx)
           /\ Steady(t)
<1>1. \A i \in DOMAIN t : DeepAt(fs, ps, cx, t[i]) /\ t[i] \in FrameType
  BY DEF Below
<1>2. Deep \cap {"settle", "clean", "dispatched", "cancelled", "all", "race", "proxy"} = {}
  BY DEF Deep
<1>3. \A f : Runs(t, f) => f \in Futures /\ fs[f].cb = "dispatched"
  BY <1>1, <1>2, FrameFields DEF Runs, DeepAt, Ends
<1>4. \A p : Frees(t, p) => p \in Promises /\ Releasing(ps, p) /\ ps[p].future = None
  BY <1>1, <1>2, FrameFields DEF Frees, DeepAt, PlainAt, OnPromise
<1>5. Cleans(t) => Released(cx)
  BY <1>1, <1>2 DEF Cleans, DeepAt
<1>6. t # <<>> => 1 \in DOMAIN t
  OBVIOUS
<1>7. Steady(t)
  BY <1>1, <1>2, <1>6 DEF Steady, DeepAt, Leaves
<1> QED
  BY <1>3, <1>4, <1>5, <1>7

\* Frames go on waiting while the objects they wait for stay as they are.
LEMMA BelowKept ==
    ASSUME NEW t \in Seq(FrameType), NEW fs, NEW ps, NEW cx, NEW gs, NEW qs, NEW dx,
           Below(fs, ps, cx, t),
           \A f \in Futures : Runs(t, f) => gs[f].cb = "dispatched",
           \A p \in Promises : Frees(t, p) => Releasing(qs, p) /\ qs[p].future = None,
           Cleans(t) => Released(dx)
    PROVE  Below(gs, qs, dx, t)
<1>1. ASSUME NEW i \in DOMAIN t PROVE DeepAt(gs, qs, dx, t[i])
  <2>1. DeepAt(fs, ps, cx, t[i]) /\ t[i] \in FrameType
    BY DEF Below
  <2>2. t[i].k \in Loops => t[i].f \in Futures /\ Runs(t, t[i].f)
    BY <2>1, FrameFields DEF DeepAt, Runs
  <2>3. t[i].k = "free" => t[i].p \in Promises /\ Frees(t, t[i].p)
    BY <2>1, FrameFields DEF Frees, DeepAt, PlainAt, OnPromise
  <2>4. t[i].k = "allfree" => Cleans(t)
    BY DEF Cleans
  <2> QED
    BY <2>1, <2>2, <2>3, <2>4 DEF DeepAt
<1> QED
  BY <1>1 DEF Below

\* The callbacks that are not over, with a frame on a stack.
LEMMA UncalledCons ==
    ASSUME NEW t \in Seq(FrameType), NEW x \in FrameType, NEW fs
    PROVE  \A f : Uncalled(fs, <<x>> \o t, f) <=> fs[f].cb = "set" \/ (x.k \in Leaves /\ x.f = f)
<1> DEFINE s == <<x>> \o t
<1>1. s[1] = x /\ s # <<>>
  BY ConsFacts
<1> HIDE DEF s
<1> QED
  BY <1>1 DEF Uncalled, s

\* The stack after a frame was put on it, and after one was taken off.
LEMMA StackedCons ==
    ASSUME NEW t \in Seq(FrameType), NEW x \in FrameType, NEW fs, NEW ps, NEW cx, NEW sc
    PROVE  /\ Stacked(fs, ps, cx, sc, <<x>> \o t) <=> TopAt(fs, ps, cx, sc, x, t)
           /\ \A f : Uncalled(fs, <<x>> \o t, f) <=> fs[f].cb = "set" \/ (x.k \in Leaves /\ x.f = f)
<1> DEFINE s == <<x>> \o t
<1>1. s[1] = x /\ Tail(s) = t /\ s # <<>>
  BY ConsFacts
<1> HIDE DEF s
<1>2. Stacked(fs, ps, cx, sc, s) <=> TopAt(fs, ps, cx, sc, x, t)
  BY <1>1 DEF Stacked
<1>3. \A f : Uncalled(fs, s, f) <=> fs[f].cb = "set" \/ (x.k \in Leaves /\ x.f = f)
  BY <1>1 DEF Uncalled
<1> QED
  BY <1>2, <1>3 DEF s

\* What waited is on top.
LEMMA StackedPop ==
    ASSUME NEW t \in Seq(FrameType), NEW fs, NEW ps, NEW cx, NEW sc,
           Below(fs, ps, cx, t), Clear(t)
    PROVE  Stacked(fs, ps, cx, sc, t)
<1>1. CASE t = <<>>
  BY <1>1 DEF Stacked
<1>2. CASE t # <<>>
  <2>1. PICK y \in FrameType, u \in Seq(FrameType) : t = <<y>> \o u /\ y = t[1] /\ u = Tail(t)
    BY <1>2, StackIsCons
  <2>2. Below(fs, ps, cx, u) /\ Fits(fs, ps, cx, y, u) /\ y.k \notin Loops
    BY <1>2, <2>1, BelowCons DEF Clear
  <2>3. y.k \in Deep /\ PlainAt(y)
    BY <2>2 DEF Fits, DeepAt
  <2>4. y.k \notin Callbacks => Clear(u)
    BY <2>2 DEF Fits
  <2>5. TopAt(fs, ps, cx, sc, y, u)
    BY <2>2, <2>3, <2>4 DEF TopAt, Deep, Leaves, Ends
  <2> QED
    BY <2>1, <2>5, StackedCons
<1> QED
  BY <1>1, <1>2

-----------------------------------------------------------------------------
(* Links between futures.                                                  *)

\* What most of the invariant reads of a future.
Tied(x, y) ==
    /\ x.st = y.st /\ x.cb = y.cb /\ x.kind = y.kind /\ x.data = y.data
    /\ x.promise = y.promise /\ x.scheduled_entry = y.scheduled_entry

\* f is cut off from the future after it.
Cut(fs, gs, f) ==
    \A g \in Futures : g # f =>
        /\ Tied(gs[g], fs[g]) /\ gs[g].next = fs[g].next
        /\ g = fs[f].next => gs[g].prev = None
        /\ g # fs[f].next => gs[g].prev = fs[g].prev

\* _eina_future_free of the first future of a chain.
LEMMA FreeFCut ==
    ASSUME NEW fs, Good(fs), NEW f \in Futures, fs[f].prev = None
    PROVE  LET gs == FreeF(fs, f)
           IN  /\ Cut(fs, gs, f)
               /\ gs[f].st = "freed" /\ gs[f].cb = "null" /\ gs[f].kind = fs[f].kind
               /\ gs[f].data = None /\ gs[f].promise = None /\ gs[f].scheduled_entry = FALSE
               /\ gs[f].next = None /\ gs[f].prev = None
<1> DEFINE gs == FreeF(fs, f)
           freed == [NoFuture EXCEPT !.st = "freed", !.kind = fs[f].kind,
                        !.called = fs[f].called, !.before = fs[f].before]
<1>1. gs[f] = freed
  BY DEF FreeF
<1>2. \A g \in Futures : g # f /\ g = fs[f].next => gs[g] = [fs[g] EXCEPT !.prev = None]
  BY NextNotPrev DEF FreeF
<1>3. \A g \in Futures : g # f /\ g # fs[f].next => gs[g] = fs[g]
  BY NumberFacts DEF FreeF
<1>4. /\ freed.st = "freed" /\ freed.cb = "null" /\ freed.kind = fs[f].kind
      /\ freed.data = None /\ freed.promise = None /\ freed.scheduled_entry = FALSE
      /\ freed.next = None /\ freed.prev = None
  BY DEF NoFuture
<1>5. \A x \in FutureType : LET y == [x EXCEPT !.prev = None]
                            IN  Tied(y, x) /\ y.next = x.next /\ y.prev = None
  BY DEF FutureType, Tied
<1>6. \A g \in Futures : fs[g] \in FutureType
  BY FutureFields
<1> HIDE DEF gs, freed
<1>7. Cut(fs, gs, f)
  <2>1. \A x : Tied(x, x)
    BY DEF Tied
  <2>2. \A g \in Futures : g # f /\ g = fs[f].next =>
          Tied(gs[g], fs[g]) /\ gs[g].next = fs[g].next /\ gs[g].prev = None
    BY <1>2, <1>5, <1>6, ZenonT(40)
  <2> QED
    BY <1>3, <2>1, <2>2 DEF Cut
<1> QED
  BY <1>1, <1>4, <1>7 DEF gs

\* _eina_future_cb_dispatch of the first future of a chain.
LEMMA CbDispatchCut ==
    ASSUME NEW fs, Good(fs), NEW f \in Futures, fs[f].prev = None
    PROVE  LET gs == CbDispatch(fs, f)
           IN  /\ Cut(fs, gs, f)
               /\ gs[f].st = fs[f].st /\ gs[f].cb = "dispatched" /\ gs[f].kind = fs[f].kind
               /\ gs[f].data = fs[f].data /\ gs[f].promise = fs[f].promise
               /\ gs[f].scheduled_entry = fs[f].scheduled_entry
               /\ gs[f].next = fs[f].next /\ gs[f].prev = None
<1> DEFINE gs == CbDispatch(fs, f)
<1>1. PICK c : gs[f] = [fs[f] EXCEPT !.cb = "dispatched", !.called = c]
  BY DEF CbDispatch
<1>2. \A g \in Futures : g # f /\ g = fs[f].next => gs[g] = [fs[g] EXCEPT !.prev = None]
  BY NextNotPrev DEF CbDispatch
<1>3. \A g \in Futures : g # f /\ g # fs[f].next => gs[g] = fs[g]
  BY NumberFacts DEF CbDispatch
<1>4. \A x \in FutureType : LET y == [x EXCEPT !.cb = "dispatched", !.called = c]
        IN  /\ y.st = x.st /\ y.cb = "dispatched" /\ y.kind = x.kind /\ y.data = x.data
            /\ y.promise = x.promise /\ y.scheduled_entry = x.scheduled_entry
            /\ y.next = x.next /\ y.prev = x.prev
  BY DEF FutureType
<1>5. \A x \in FutureType : LET y == [x EXCEPT !.prev = None]
                            IN  Tied(y, x) /\ y.next = x.next /\ y.prev = None
  BY DEF FutureType, Tied
<1>6. \A g \in Futures : fs[g] \in FutureType
  BY FutureFields
<1> HIDE DEF gs
<1>7. Cut(fs, gs, f)
  <2>1. \A x : Tied(x, x)
    BY DEF Tied
  <2>2. \A g \in Futures : g # f /\ g = fs[f].next =>
          Tied(gs[g], fs[g]) /\ gs[g].next = fs[g].next /\ gs[g].prev = None
    BY <1>2, <1>5, <1>6, ZenonT(40)
  <2> QED
    BY <1>3, <2>1, <2>2 DEF Cut
<1>8. /\ gs[f].st = fs[f].st /\ gs[f].cb = "dispatched" /\ gs[f].kind = fs[f].kind
      /\ gs[f].data = fs[f].data /\ gs[f].promise = fs[f].promise
      /\ gs[f].scheduled_entry = fs[f].scheduled_entry
      /\ gs[f].next = fs[f].next /\ gs[f].prev = None
  BY <1>1, <1>4, <1>6
<1> QED
  BY <1>7, <1>8 DEF gs

\* Nothing leads to the first future of a chain that no callback waits for.
LEMMA SoleHead ==
    ASSUME NEW fs, Good(fs), Linked(fs), NEW f \in Futures, fs[f].prev = None, ~Awaited(fs, f)
    PROVE  \A d \in Futures : fs[d].next # f /\ (fs[d].prev # f \/ d = fs[f].next)
<1> SUFFICES ASSUME NEW d \in Futures PROVE fs[d].next # f /\ (fs[d].prev # f \/ d = fs[f].next)
  OBVIOUS
<1>1. f # None /\ d # None
  BY NumberFacts
<1>2. LinkedAt(fs, d)
  BY DEF Linked
<1>3. fs[d].next # f
  BY <1>1, <1>2 DEF LinkedAt, Awaited
<1>4. fs[d].prev = f => fs[f].next = d
  BY <1>1, <1>2 DEF LinkedAt
<1> QED
  BY <1>3, <1>4

\* A future that is first and not in its callback may be cut off, and one
\* whose callback has returned.
LEMMA CutLinked ==
    ASSUME NEW fs, NEW gs, Good(fs), Linked(fs), NEW f \in Futures, Cut(fs, gs, f),
           fs[f].prev = None, ~Awaited(fs, f),
           fs[f].promise = None, fs[f].scheduled_entry = FALSE,
           gs[f].prev = None, gs[f].promise = None, gs[f].scheduled_entry = FALSE,
           gs[f].kind = fs[f].kind,
           \/ gs[f].next = None /\ gs[f].cb # "dispatched"
           \/ gs[f].next = fs[f].next /\ gs[f].cb = "dispatched" /\ gs[f].st = "live"
    PROVE  Linked(gs) /\ (fs[f].next # None => Idle(gs[fs[f].next]))
<1>1. \A d \in Futures : fs[d].next # f /\ (fs[d].prev # f \/ d = fs[f].next)
  BY SoleHead
<1>2. \A d \in Futures : LinkedAt(fs, d)
  BY DEF Linked
<1>3. \A d \in Futures : fs[d].next \in Futures \cup {None} /\ fs[d].prev \in Futures \cup {None}
  BY FutureFields
<1>4. None \notin Futures
  BY NumberFacts
<1>5. ASSUME fs[f].next # None
      PROVE  fs[f].next \in Futures /\ fs[f].next # f /\ Idle(gs[fs[f].next])
  <2> DEFINE n == fs[f].next
  <2>1. n \in Futures /\ n # f
    BY <1>1, <1>3, <1>5
  <2> HIDE DEF n
  <2>2. n = fs[f].next
    BY DEF n
  <2>3. LinkedAt(fs, f) /\ LinkedAt(fs, n)
    BY <1>2, <2>1
  <2>4. /\ fs[n].st = "live" /\ fs[n].promise = None /\ fs[n].scheduled_entry = FALSE
        /\ fs[n].cb # "dispatched"
    <3>1. CASE fs[f].cb = "dispatched"
      BY <1>5, <2>2, <2>3, <3>1 DEF LinkedAt, Idle, Resting
    <3>2. CASE fs[f].cb # "dispatched"
      <4>1. fs[n].prev = f /\ f # None /\ fs[n].st = "live"
        BY <1>4, <1>5, <2>2, <2>3, <3>2 DEF LinkedAt
      <4>2. fs[n].scheduled_entry \in BOOLEAN
        BY <2>1, FutureFields DEF FutureType
      <4> QED
        BY <2>3, <4>1, <4>2 DEF LinkedAt, Resting
    <3> QED
      BY <3>1, <3>2
  <2>5. Tied(gs[n], fs[n]) /\ gs[n].prev = None
    BY <2>1, <2>2 DEF Cut
  <2> QED
    BY <2>1, <2>2, <2>4, <2>5 DEF Tied, Idle, Resting
<1>6. ASSUME NEW g \in Futures PROVE LinkedAt(gs, g)
  <2>1. CASE g = f
    <3>1. gs[f].next # None => gs[f].next = fs[f].next /\ gs[f].cb = "dispatched" /\ gs[f].st = "live"
      OBVIOUS
    <3>2. gs[f].kind # "race"
      BY <1>2 DEF LinkedAt
    <3> QED
      BY <1>5, <2>1, <3>1, <3>2 DEF LinkedAt, Idle, Resting
  <2>2. CASE g # f
    <3>1. /\ gs[g].st = fs[g].st /\ gs[g].cb = fs[g].cb /\ gs[g].kind = fs[g].kind
          /\ gs[g].promise = fs[g].promise /\ gs[g].scheduled_entry = fs[g].scheduled_entry
          /\ gs[g].next = fs[g].next
          /\ gs[g].prev # None => gs[g].prev = fs[g].prev /\ g # fs[f].next
          /\ fs[g].prev = None => gs[g].prev = None
      BY <2>2 DEF Cut, Tied
    <3>2. LinkedAt(fs, g)
      BY <1>2
    <3>3. gs[g].prev # None =>
             /\ gs[g].st = "live" /\ gs[gs[g].prev].st = "live"
             /\ gs[gs[g].prev].next = g /\ gs[gs[g].prev].cb # "dispatched"
      <4>1. gs[g].prev # None => gs[g].prev = fs[g].prev /\ fs[g].prev # f /\ fs[g].prev \in Futures
        BY <1>1, <1>3, <3>1
      <4>2. gs[g].prev # None => Tied(gs[fs[g].prev], fs[fs[g].prev]) /\ gs[fs[g].prev].next = fs[fs[g].prev].next
        BY <4>1 DEF Cut
      <4> QED
        BY <3>1, <3>2, <4>1, <4>2 DEF LinkedAt, Tied
    <3>4. fs[g].next # None => /\ fs[g].next # f /\ fs[g].next \in Futures
                               /\ Tied(gs[fs[g].next], fs[fs[g].next])
                               /\ fs[g].next = fs[f].next => gs[fs[g].next].prev = None
                               /\ fs[g].next # fs[f].next => gs[fs[g].next].prev = fs[fs[g].next].prev
      BY <1>1, <1>3 DEF Cut
    <3>5. fs[g].next # None => fs[g].next # fs[f].next
      <4>1. fs[g].next # None => fs[fs[g].next].before = g
        BY FutureFields DEF LinksOK
      <4>2. fs[f].next # None => fs[fs[f].next].before = f
        BY FutureFields DEF LinksOK
      <4> QED
        BY <2>2, <4>1, <4>2
    <3> QED
      BY <3>1, <3>2, <3>3, <3>4, <3>5 DEF LinkedAt, Tied, Idle, Resting
  <2> QED
    BY <2>1, <2>2
<1> QED
  BY <1>5, <1>6 DEF Linked

\* f gets or loses a promise or an entry.
Retied(fs, gs, f) ==
    /\ \A g \in Futures : g # f => gs[g] = fs[g]
    /\ gs[f].st = fs[f].st /\ gs[f].cb = fs[f].cb /\ gs[f].kind = fs[f].kind
    /\ gs[f].data = fs[f].data /\ gs[f].next = fs[f].next /\ gs[f].prev = fs[f].prev

\* Only a future nothing else waits with gets one, and never both.
LEMMA RetiedLinked ==
    ASSUME NEW fs, NEW gs, Good(fs), Linked(fs), NEW f \in Futures, Retied(fs, gs, f),
           gs[f].promise = None \/ gs[f].scheduled_entry = FALSE,
           \/ gs[f].promise = None /\ gs[f].scheduled_entry = FALSE
           \/ gs[f].promise = None /\ gs[f].scheduled_entry = fs[f].scheduled_entry
           \/ /\ fs[f].st = "live" /\ fs[f].prev = None /\ fs[f].cb # "dispatched"
              /\ ~Awaited(fs, f)
    PROVE  Linked(gs)
<1>1. \A d \in Futures : LinkedAt(fs, d)
  BY DEF Linked
<1>2. \A d \in Futures : fs[d].next \in Futures \cup {None} /\ fs[d].prev \in Futures \cup {None}
  BY FutureFields
<1>3. \A d \in Futures :
        /\ gs[d].st = fs[d].st /\ gs[d].cb = fs[d].cb /\ gs[d].kind = fs[d].kind
        /\ gs[d].next = fs[d].next /\ gs[d].prev = fs[d].prev
        /\ d # f => gs[d].promise = fs[d].promise /\ gs[d].scheduled_entry = fs[d].scheduled_entry
  BY DEF Retied
<1>4. \A d \in Futures : fs[d].next = f /\ fs[d].cb = "dispatched" =>
        gs[f].promise = None /\ gs[f].scheduled_entry = FALSE
  BY <1>1, NumberFacts DEF LinkedAt, Awaited, Idle, Resting
<1>5. fs[f].cb = "dispatched" => gs[f].promise = None /\ gs[f].scheduled_entry = FALSE
  BY <1>1 DEF LinkedAt, Resting
<1>6. ASSUME NEW g \in Futures PROVE LinkedAt(gs, g)
  <2>1. /\ gs[g].prev # None =>
             /\ gs[g].st = "live" /\ gs[gs[g].prev].st = "live"
             /\ gs[gs[g].prev].next = g /\ gs[gs[g].prev].cb # "dispatched"
        /\ gs[g].next # None => gs[g].st = "live" /\ gs[gs[g].next].st = "live"
        /\ gs[g].next # None /\ gs[g].cb # "dispatched" => gs[gs[g].next].prev = g
        /\ gs[g].kind # "race"
    BY <1>1, <1>2, <1>3 DEF LinkedAt
  <2>2. gs[g].next # None /\ gs[g].cb = "dispatched" => Idle(gs[gs[g].next])
    BY <1>1, <1>2, <1>3, <1>4 DEF LinkedAt, Idle, Resting
  <2>3. gs[g].cb = "dispatched" => Resting(gs[g]) /\ gs[g].st = "live"
    BY <1>1, <1>3, <1>5 DEF LinkedAt, Resting
  <2>4. /\ gs[g].promise # None =>
             gs[g].st = "live" /\ gs[g].prev = None /\ gs[g].scheduled_entry = FALSE
        /\ gs[g].scheduled_entry = TRUE => gs[g].st = "live" /\ gs[g].prev = None
    <3>1. CASE g = f
      BY <1>1, <1>3, <3>1 DEF LinkedAt
    <3>2. CASE g # f
      BY <1>1, <1>3, <3>2 DEF LinkedAt
    <3> QED
      BY <3>1, <3>2
  <2> QED
    BY <2>1, <2>2, <2>3, <2>4 DEF LinkedAt
<1> QED
  BY <1>6 DEF Linked

\* _eina_promise_link
LEMMA LinkFAt ==
    ASSUME NEW fs, Good(fs), NEW f \in Futures, NEW p, NEW gs, gs = LinkF(fs, p, f)
    PROVE  /\ Retied(fs, gs, f) /\ gs[f].promise = p
           /\ gs[f].scheduled_entry = fs[f].scheduled_entry
<1>1. fs[f] \in FutureType /\ fs \in [Futures -> FutureType]
  BY FutureFields DEF Good
<1>2. gs[f] = [fs[f] EXCEPT !.promise = p] /\ \A g \in Futures : g # f => gs[g] = fs[g]
  BY <1>1 DEF LinkF
<1>3. \A x \in FutureType : LET y == [x EXCEPT !.promise = p]
        IN  /\ y.st = x.st /\ y.cb = x.cb /\ y.kind = x.kind /\ y.data = x.data
            /\ y.next = x.next /\ y.prev = x.prev /\ y.promise = p
            /\ y.scheduled_entry = x.scheduled_entry
  BY DEF FutureType
<1> QED
  BY <1>1, <1>2, <1>3 DEF Retied

\* _eina_promise_unlink
LEMMA UnlinkFAt ==
    ASSUME NEW fs, Good(fs), NEW f \in Futures, NEW gs, gs = UnlinkF(fs, f)
    PROVE  /\ Retied(fs, gs, f) /\ gs[f].promise = None
           /\ gs[f].scheduled_entry = fs[f].scheduled_entry
<1>1. fs[f] \in FutureType /\ fs \in [Futures -> FutureType]
  BY FutureFields DEF Good
<1>2. gs[f] = [fs[f] EXCEPT !.promise = None] /\ \A g \in Futures : g # f => gs[g] = fs[g]
  BY <1>1 DEF UnlinkF
<1>3. \A x \in FutureType : LET y == [x EXCEPT !.promise = None]
        IN  /\ y.st = x.st /\ y.cb = x.cb /\ y.kind = x.kind /\ y.data = x.data
            /\ y.next = x.next /\ y.prev = x.prev /\ y.promise = None
            /\ y.scheduled_entry = x.scheduled_entry
  BY DEF FutureType
<1> QED
  BY <1>1, <1>2, <1>3 DEF Retied

\* The entry of the scheduler.
WithEntry(fs, f, b) == [fs EXCEPT ![f].scheduled_entry = b]
\* Only the entry of the future changes.
LEMMA EntryAt ==
    ASSUME NEW fs, Good(fs), NEW f \in Futures, NEW b, NEW gs,
           gs = WithEntry(fs, f, b)
    PROVE  /\ Retied(fs, gs, f) /\ gs[f].promise = fs[f].promise /\ gs[f].scheduled_entry = b
<1>1. fs[f] \in FutureType /\ fs \in [Futures -> FutureType]
  BY FutureFields DEF Good
<1>2. gs[f] = [fs[f] EXCEPT !.scheduled_entry = b] /\ \A g \in Futures : g # f => gs[g] = fs[g]
  BY <1>1 DEF WithEntry
<1>3. \A x \in FutureType : LET y == [x EXCEPT !.scheduled_entry = b]
        IN  /\ y.st = x.st /\ y.cb = x.cb /\ y.kind = x.kind /\ y.data = x.data
            /\ y.next = x.next /\ y.prev = x.prev /\ y.promise = x.promise
            /\ y.scheduled_entry = b
  BY DEF FutureType
<1>4. PICK z : z = [fs[f] EXCEPT !.scheduled_entry = b]
  OBVIOUS
<1>5. /\ z.st = fs[f].st /\ z.cb = fs[f].cb /\ z.kind = fs[f].kind /\ z.data = fs[f].data
      /\ z.next = fs[f].next /\ z.prev = fs[f].prev /\ z.promise = fs[f].promise
      /\ z.scheduled_entry = b
  BY <1>1, <1>3, <1>4
<1> QED
  BY <1>2, <1>4, <1>5 DEF Retied

\* Unlinking no future.
LEMMA UnlinkNone ==
    ASSUME NEW fs, Good(fs)
    PROVE  UnlinkF(fs, None) = fs
<1>1. fs \in [Futures -> FutureType]
  BY DEF Good
<1>2. \A g \in Futures : g # None
  BY NumberFacts
<1> QED
  BY <1>1, <1>2 DEF UnlinkF

\* m is a new future: what the others were, and what it is.
Added(fs, gs, m, kind, data) ==
    /\ \A g \in Futures : g # m => Tied(gs[g], fs[g]) /\ gs[g].prev = fs[g].prev
    /\ gs[m].st = "live" /\ gs[m].kind = kind /\ gs[m].data = data
    /\ gs[m].promise = None /\ gs[m].scheduled_entry = FALSE /\ gs[m].next = None
    /\ gs[m].cb = IF kind = "null" THEN "null" ELSE "set"

\* _eina_future_new
LEMMA NewFutureLinked ==
    ASSUME NEW fs, Good(fs), Linked(fs), NEW m \in Futures, ~Made(fs, m),
           NEW kind \in FutureKinds, kind # "race", NEW data \in Promises \cup {None}
    PROVE  LET gs == NewFuture(fs, m, kind, data)
           IN  /\ Linked(gs) /\ Added(fs, gs, m, kind, data) /\ gs[m].prev = None
               /\ \A g \in Futures : g # m => gs[g] = fs[g]
<1> DEFINE gs == NewFuture(fs, m, kind, data)
<1>1. gs[m] = Fresh(kind, data) /\ \A g \in Futures : g # m => gs[g] = fs[g]
  <2>1. fs \in [Futures -> FutureType]
    BY DEF Good
  <2> QED
    BY <2>1, Zenon DEF NewFuture, Fresh
<1> HIDE DEF gs
<1>2. /\ gs[m].st = "live" /\ gs[m].kind = kind /\ gs[m].data = data
      /\ gs[m].prev = None /\ gs[m].next = None
      /\ gs[m].promise = None /\ gs[m].scheduled_entry = FALSE
      /\ kind = "null" => gs[m].cb = "null"
      /\ kind # "null" => gs[m].cb = "set"
  BY <1>1, FreshFields
<1>3. \A d \in Futures : LinkedAt(fs, d)
  BY DEF Linked
<1>4. \A d \in Futures : /\ fs[d].next \in Futures \cup {None} /\ fs[d].prev \in Futures \cup {None}
                         /\ fs[d].next # m /\ fs[d].prev # m
  BY <1>3, FutureFields, NumberFacts DEF LinkedAt, Made
<1>5. ASSUME NEW g \in Futures PROVE LinkedAt(gs, g)
  <2>1. CASE g = m
    BY <1>2, <2>1 DEF LinkedAt
  <2>2. CASE g # m
    <3>1. gs[g] = fs[g] /\ LinkedAt(fs, g)
      BY <1>1, <1>3, <2>2
    <3>2. /\ fs[g].next # None => gs[fs[g].next] = fs[fs[g].next]
          /\ fs[g].prev # None => gs[fs[g].prev] = fs[fs[g].prev]
      BY <1>1, <1>4
    <3> QED
      BY <3>1, <3>2 DEF LinkedAt
  <2> QED
    BY <2>1, <2>2
<1>6. Added(fs, gs, m, kind, data)
  <2>1. \A x : Tied(x, x)
    BY DEF Tied
  <2>2. \A g \in Futures : g # m => Tied(gs[g], fs[g]) /\ gs[g].prev = fs[g].prev
    BY <1>1, <2>1
  <2> QED
    BY <1>2, <2>2 DEF Added
<1> QED
  BY <1>1, <1>2, <1>5, <1>6 DEF Linked, gs

\* _eina_future_then, behind the last future of a chain.
LEMMA ThenNewLinked ==
    ASSUME NEW fs, Good(fs), Linked(fs), NEW m \in Futures, ~Made(fs, m),
           NEW kind \in FutureKinds, kind # "race", NEW data \in Promises \cup {None},
           NEW prev \in Futures, fs[prev].st = "live", fs[prev].next = None,
           fs[prev].cb # "dispatched"
    PROVE  LET gs == ThenNew(fs, prev, m, kind, data)
           IN  /\ Linked(gs) /\ Added(fs, gs, m, kind, data) /\ gs[m].prev = prev
               /\ \A g \in Futures : g # m /\ g # prev => gs[g] = fs[g]
<1> DEFINE new == Fresh(kind, data)
           hs == NewFuture(fs, m, kind, data)
           gs == ThenNew(fs, prev, m, kind, data)
<1>1. hs \in [Futures -> FutureType] /\ hs[m] = new /\ \A g \in Futures : g # m => hs[g] = fs[g]
  <2>1. fs \in [Futures -> FutureType] /\ new \in FutureType
    BY FreshFields DEF Good
  <2> HIDE DEF new
  <2>2. hs = [fs EXCEPT ![m] = new]
    BY Zenon DEF NewFuture, Fresh, new
  <2> HIDE DEF hs
  <2> QED
    BY <2>1, <2>2
<1>2. /\ new.st = "live" /\ new.kind = kind /\ new.data = data /\ new.next = None
      /\ new.promise = None /\ new.scheduled_entry = FALSE
      /\ kind = "null" => new.cb = "null"
      /\ kind # "null" => new.cb = "set"
      /\ new \in FutureType
  BY FreshFields
<1>3. prev # m
  BY DEF Made
<1>4. PICK y : /\ gs[m] = y /\ y.st = new.st /\ y.kind = new.kind /\ y.data = new.data
               /\ y.next = new.next /\ y.promise = new.promise /\ y.cb = new.cb
               /\ y.scheduled_entry = new.scheduled_entry /\ y.prev = prev
               /\ gs[prev] = [fs[prev] EXCEPT !.next = m]
               /\ \A g \in Futures : g # m /\ g # prev => gs[g] = fs[g]
  <2> HIDE DEF hs, new
  <2> DEFINE h1 == [hs EXCEPT ![m].prev = prev]
             h2 == [h1 EXCEPT ![m].before = prev]
             h3 == [h2 EXCEPT ![prev].next = m]
             y == [new EXCEPT !.prev = prev, !.before = prev]
  <2>1. gs = h3
    BY Zenon DEF ThenNew, hs
  <2>2. \A x \in FutureType :
          /\ [x EXCEPT !.prev = prev] \in FutureType /\ [x EXCEPT !.before = prev] \in FutureType
          /\ [x EXCEPT !.next = m] \in FutureType
    BY DEF FutureType
  <2>3. h1 \in [Futures -> FutureType] /\ h1[m] = [new EXCEPT !.prev = prev]
        /\ \A g \in Futures : g # m => h1[g] = fs[g]
    BY <1>1, <2>2
  <2> HIDE DEF h1
  <2>4. h2 \in [Futures -> FutureType] /\ h2[m] = [h1[m] EXCEPT !.before = prev]
        /\ \A g \in Futures : g # m => h2[g] = fs[g]
    BY <2>2, <2>3
  <2> HIDE DEF h2
  <2>5. h3[m] = h2[m] /\ h3[prev] = [fs[prev] EXCEPT !.next = m]
        /\ \A g \in Futures : g # m /\ g # prev => h3[g] = fs[g]
    BY <1>3, <2>2, <2>4
  <2>6. h2[m] = y
    BY <2>3, <2>4
  <2>7. \A x \in FutureType : LET z == [x EXCEPT !.prev = prev, !.before = prev] IN
          /\ z.st = x.st /\ z.kind = x.kind /\ z.data = x.data /\ z.prev = prev
          /\ z.next = x.next /\ z.promise = x.promise /\ z.cb = x.cb
          /\ z.scheduled_entry = x.scheduled_entry
    BY DEF FutureType
  <2>8. /\ y.st = new.st /\ y.kind = new.kind /\ y.data = new.data /\ y.prev = prev
        /\ y.next = new.next /\ y.promise = new.promise /\ y.cb = new.cb
        /\ y.scheduled_entry = new.scheduled_entry
    BY <1>2, <2>7
  <2> HIDE DEF y, h3
  <2> QED
    BY <2>1, <2>5, <2>6, <2>8
<1> HIDE DEF gs, new, hs
<1>5. /\ gs[m].st = "live" /\ gs[m].kind = kind /\ gs[m].data = data /\ gs[m].next = None
      /\ gs[m].promise = None /\ gs[m].scheduled_entry = FALSE /\ gs[m].prev = prev
      /\ gs[m].cb = IF kind = "null" THEN "null" ELSE "set"
  BY <1>2, <1>4
<1>6. Tied(gs[prev], fs[prev]) /\ gs[prev].prev = fs[prev].prev /\ gs[prev].next = m
  <2>1. \A x \in FutureType : LET y1 == [x EXCEPT !.next = m]
                              IN  Tied(y1, x) /\ y1.prev = x.prev /\ y1.next = m
    BY DEF FutureType, Tied
  <2>2. fs[prev] \in FutureType
    BY FutureFields
  <2> QED
    BY <1>4, <2>1, <2>2
<1>7. \A g \in Futures : g # m => Tied(gs[g], fs[g]) /\ gs[g].prev = fs[g].prev
  <2>1. \A x : Tied(x, x)
    BY DEF Tied
  <2> QED
    BY <1>4, <1>6, <2>1
<1>8. \A d \in Futures : LinkedAt(fs, d)
  BY DEF Linked
<1>9. \A d \in Futures : /\ fs[d].next \in Futures \cup {None} /\ fs[d].prev \in Futures \cup {None}
                         /\ fs[d].next # m /\ fs[d].prev # m /\ d # None
                         /\ fs[d].prev # prev
  BY <1>8, FutureFields, NumberFacts DEF LinkedAt, Made
<1>10. ASSUME NEW g \in Futures PROVE LinkedAt(gs, g)
  <2>1. CASE g = m
    <3>1. gs[prev].st = "live" /\ gs[prev].cb # "dispatched"
      BY <1>6 DEF Tied
    <3> QED
      BY <1>5, <1>6, <2>1, <3>1 DEF LinkedAt
  <2>2. CASE g = prev
    <3>1. LinkedAt(fs, prev)
      BY <1>8
    <3>2. fs[prev].prev # None => gs[fs[prev].prev] = fs[fs[prev].prev]
      BY <1>4, <1>9
    <3>3. gs[prev].cb # "dispatched" /\ gs[prev].st = "live"
      BY <1>6 DEF Tied
    <3> QED
      BY <1>5, <1>6, <2>2, <3>1, <3>2, <3>3 DEF LinkedAt, Tied
  <2>3. CASE g # m /\ g # prev
    <3>1. gs[g] = fs[g] /\ LinkedAt(fs, g)
      BY <1>4, <1>8, <2>3
    <3>2. /\ fs[g].next # None => /\ Tied(gs[fs[g].next], fs[fs[g].next])
                                  /\ gs[fs[g].next].prev = fs[fs[g].next].prev
          /\ fs[g].prev # None => gs[fs[g].prev] = fs[fs[g].prev]
      BY <1>4, <1>7, <1>9
    <3> QED
      BY <3>1, <3>2 DEF LinkedAt, Tied, Idle, Resting
  <2> QED
    BY <2>1, <2>2, <2>3
<1>11. Added(fs, gs, m, kind, data)
  BY <1>5, <1>7 DEF Added
<1> QED
  BY <1>4, <1>5, <1>10, <1>11 DEF Linked, gs

\* A set of futures closed under the links back has the first of each.
LEMMA FirstClosed ==
    ASSUME NEW fs, Good(fs), NEW S \in SUBSET Futures,
           \A g \in S : fs[g].prev # None => fs[g].prev \in S
    PROVE  \A f \in S : FirstIn(fs, f) \in S
<1> DEFINE T == {f \in S : FirstIn(fs, f) \notin S}
<1>1. SUFFICES ASSUME T # {} PROVE FALSE
  OBVIOUS
<1>2. T \in SUBSET Nat
  BY NumberFacts
<1>3. PICK f \in T : \A g \in T : f <= g
  BY <1>1, <1>2, Least
<1>4. f \in S /\ f \in Futures /\ FirstIn(fs, f) \notin S /\ f \in Nat
  BY <1>3, NumberFacts
<1>5. FirstIn(fs, f) = IF fs[f].prev = None THEN f ELSE FirstIn(fs, fs[f].prev)
  BY <1>4, FirstFacts
<1>6. fs[f].prev # None
  BY <1>4, <1>5
<1>7. PICK g \in Futures : g = fs[f].prev
  BY <1>4, <1>6, FutureFields
<1>8. g < f /\ g \in Nat /\ g \in S
  BY <1>4, <1>6, <1>7, NextNotPrev, NumberFacts
<1>9. g \notin T
  BY <1>3, <1>4, <1>8
<1> QED
  BY <1>4, <1>5, <1>6, <1>7, <1>8, <1>9

\* The first future of a chain is alive and not in its callback if one behind
\* it is.
LEMMA FirstLinked ==
    ASSUME NEW fs, Good(fs), Linked(fs), NEW f \in Futures,
           fs[f].st = "live", fs[f].cb # "dispatched"
    PROVE  LET h == FirstIn(fs, f)
           IN  /\ h \in Futures /\ fs[h].st = "live" /\ fs[h].cb # "dispatched"
               /\ fs[h].prev = None
<1> DEFINE S == {g \in Futures : fs[g].st = "live" /\ fs[g].cb # "dispatched"}
<1>1. \A g \in S : fs[g].prev # None => fs[g].prev \in S
  <2> SUFFICES ASSUME NEW g \in S, fs[g].prev # None PROVE fs[g].prev \in S
    OBVIOUS
  <2>1. LinkedAt(fs, g) /\ fs[g].prev \in Futures
    BY FutureFields DEF Linked
  <2> QED
    BY <2>1 DEF LinkedAt
<1>2. f \in S /\ S \in SUBSET Futures
  OBVIOUS
<1> HIDE DEF S
<1>3. FirstIn(fs, f) \in S
  BY <1>1, <1>2, FirstClosed
<1>4. fs[FirstIn(fs, f)].prev = None
  BY FirstFacts
<1> QED
  BY <1>3, <1>4 DEF S

-----------------------------------------------------------------------------
(* Promises.                                                               *)

\* Only p changes.
Apartly(ps, qs, p) ==
    /\ qs \in [Promises -> PromiseType] /\ \A q \in Promises : q # p => qs[q] = ps[q]

\* _eina_promise_link
LEMMA LinkPAt ==
    ASSUME NEW ps \in [Promises -> PromiseType], NEW p \in Promises, NEW f \in Futures \cup {None},
           NEW qs, qs = LinkP(ps, p, f)
    PROVE  /\ Apartly(ps, qs, p) /\ qs[p].st = ps[p].st /\ qs[p].cancel = ps[p].cancel
           /\ qs[p].ended = ps[p].ended /\ qs[p].future = f
<1>1. \A x \in PromiseType : LET y == [x EXCEPT !.future = f]
        IN  /\ y \in PromiseType /\ y.st = x.st /\ y.cancel = x.cancel
            /\ y.ended = x.ended /\ y.future = f
  BY DEF PromiseType
<1>2. ps[p] \in PromiseType
  OBVIOUS
<1> QED
  BY <1>1, <1>2 DEF LinkP, Apartly

\* _eina_promise_unlink
LEMMA UnlinkPAt ==
    ASSUME NEW ps \in [Promises -> PromiseType], NEW p \in Promises,
           NEW qs, qs = UnlinkP(ps, p)
    PROVE  /\ Apartly(ps, qs, p) /\ qs[p].st = ps[p].st /\ qs[p].cancel = ps[p].cancel
           /\ qs[p].ended = ps[p].ended /\ qs[p].future = None
<1>1. qs = LinkP(ps, p, None)
  BY DEF UnlinkP, LinkP
<1> QED
  BY <1>1, LinkPAt

\* The scheduler of a continue promise is set.
LEMMA StolenAt ==
    ASSUME NEW ps \in [Promises -> PromiseType], NEW p \in Promises,
           NEW qs, qs = [ps EXCEPT ![p].scheduler = TRUE]
    PROVE  /\ Apartly(ps, qs, p) /\ qs[p].st = ps[p].st /\ qs[p].cancel = ps[p].cancel
           /\ qs[p].ended = ps[p].ended /\ qs[p].future = ps[p].future
<1>1. \A x \in PromiseType : LET y == [x EXCEPT !.scheduler = TRUE]
        IN  /\ y \in PromiseType /\ y.st = x.st /\ y.cancel = x.cancel
            /\ y.ended = x.ended /\ y.future = x.future
  BY DEF PromiseType
<1>2. ps[p] \in PromiseType
  OBVIOUS
<1> QED
  BY <1>1, <1>2 DEF Apartly

\* The memory of a promise is released.
LEMMA FreePAt ==
    ASSUME NEW ps \in [Promises -> PromiseType], NEW p \in Promises,
           NEW qs, qs = FreeP(ps, p)
    PROVE  /\ Apartly(ps, qs, p) /\ qs[p].st = "freed" /\ qs[p].cancel = ps[p].cancel
           /\ qs[p].future = None
           /\ ps[p].ended = 0 => qs[p].ended = 1
<1>1. PICK e : e = IF ps[p].ended < 2 THEN ps[p].ended + 1 ELSE 2
  OBVIOUS
<1>2. ps[p].ended \in 0..2 /\ ps[p].cancel \in {"user", "all", "race", "dummy"}
  BY DEF PromiseType
<1>3. e \in 0..2 /\ (ps[p].ended = 0 => e = 1)
  BY <1>1, <1>2
<1> DEFINE y == [NoPromise EXCEPT !.st = "freed", !.cancel = ps[p].cancel, !.ended = e]
<1>4. qs = [ps EXCEPT ![p] = y]
  BY <1>1, Zenon DEF FreeP
<1>5. /\ y \in PromiseType /\ y.st = "freed" /\ y.cancel = ps[p].cancel /\ y.future = None
      /\ y.ended = e
  BY <1>2, <1>3 DEF NoPromise, PromiseType, None
<1> HIDE DEF y
<1>6. Apartly(ps, qs, p) /\ qs[p] = y
  BY <1>4, <1>5 DEF Apartly
<1> QED
  BY <1>3, <1>5, <1>6

\* eina_promise_new
LEMMA NewPromiseAt ==
    ASSUME NEW ps \in [Promises -> PromiseType], NEW p \in Promises,
           NEW c \in {"user", "all", "race", "dummy"}, NEW b \in BOOLEAN,
           NEW qs, qs = NewPromise(ps, p, c, b)
    PROVE  /\ Apartly(ps, qs, p) /\ qs[p].st = "live" /\ qs[p].cancel = c
           /\ qs[p].future = None /\ qs[p].ended = 0
<1> DEFINE y == [NoPromise EXCEPT !.st = "live", !.cancel = c, !.scheduler = b]
<1>1. qs = [ps EXCEPT ![p] = y]
  BY Zenon DEF NewPromise
<1>2. y \in PromiseType /\ y.st = "live" /\ y.cancel = c /\ y.future = None /\ y.ended = 0
  <2>1. NoPromise \in PromiseType /\ NoPromise.future = None /\ NoPromise.ended = 0
    BY DEF PromiseType, NoPromise, None
  <2>2. \A x \in PromiseType :
          LET z == [x EXCEPT !.st = "live", !.cancel = c, !.scheduler = b]
          IN  /\ z \in PromiseType /\ z.st = "live" /\ z.cancel = c
              /\ z.future = x.future /\ z.ended = x.ended
    BY DEF PromiseType
  <2> QED
    BY <2>1, <2>2
<1> HIDE DEF y
<1>3. Apartly(ps, qs, p) /\ qs[p] = y
  BY <1>1, <1>2 DEF Apartly
<1> QED
  BY <1>2, <1>3

\* The number of the next promise.
LEMMA FreshPromiseFacts ==
    ASSUME Counted(promise), RoomP
    PROVE  /\ FreshPromise \in Promises /\ promise[FreshPromise].st = "none"
           /\ \A ps : (\A p \in Promises : ps[p].st # "none" <=> promise[p].st # "none" \/ p = FreshPromise)
                        => Counted(ps)
<1>1. PICK n \in 0..MaxPromise : \A p \in Promises : promise[p].st # "none" <=> p <= n
  BY DEF Counted
<1>2. {p \in Promises : promise[p].st # "none"} = 1..n
  <2>1. \A p : p \in 1..n <=> p \in Promises /\ p <= n
    BY DEF Promises
  <2> QED
    BY <1>1, <2>1
<1>3. Cardinality(1..n) = n
  <2>1. Cardinality(1..n) = IF 1 > n THEN 0 ELSE n - 1 + 1
    BY FS_Interval
  <2> QED
    BY <2>1
<1>4. Cardinality({p \in Promises : promise[p].st # "none"}) = n
  BY <1>2, <1>3, Zenon
<1>5. FreshPromise = n + 1
  BY <1>4 DEF FreshPromise
<1>6. n + 1 \in Promises /\ n + 1 \in 0..MaxPromise
  BY <1>5 DEF RoomP, Promises
<1>7. promise[n + 1].st = "none"
  BY <1>1, <1>6
<1>8. \A p \in Promises : p <= n \/ p = n + 1 <=> p <= n + 1
  BY DEF Promises
<1>9. ASSUME NEW ps, \A p \in Promises : ps[p].st # "none" <=> promise[p].st # "none" \/ p = n + 1
      PROVE  Counted(ps)
  BY <1>1, <1>6, <1>8, <1>9 DEF Counted
<1> QED
  BY <1>5, <1>6, <1>7, <1>9

-----------------------------------------------------------------------------
(* Lists.                                                                  *)

\* u is s without its element at i.
Removed(s, i, u) ==
    /\ \A j \in DOMAIN u : \E k \in DOMAIN s : k # i /\ u[j] = s[k]
    /\ \A k \in DOMAIN s : k # i => \E j \in DOMAIN u : u[j] = s[k]
    /\ \A j, h \in DOMAIN u : j # h =>
         \E k, m \in DOMAIN s : k # m /\ u[j] = s[k] /\ u[h] = s[m]

\* eina_list_remove_list of the element at i.
LEMMA RemoveOnce ==
    ASSUME NEW T, NEW s \in Seq(T), NEW i \in DOMAIN s, NEW u, u = RemoveAt(s, {i})
    PROVE  u \in Seq(T) /\ Removed(s, i, u)
<1> DEFINE r == [j \in 1..Len(s) - 1 |-> IF j < i THEN s[j] ELSE s[j + 1]]
           to == [j \in 1..Len(s) - 1 |-> IF j < i THEN j ELSE j + 1]
<1>1. Len(s) \in Nat /\ DOMAIN s = 1..Len(s) /\ i \in 1..Len(s) /\ \A k \in 1..Len(s) : s[k] \in T
  OBVIOUS
<1>2. u = r
  <2>1. (CHOOSE j \in {i} : \A k \in {i} : j <= k) = i
    BY <1>1
  <2> QED
    BY <2>1 DEF RemoveAt
<1>3. \A j \in 1..Len(s) - 1 : /\ to[j] \in 1..Len(s) /\ to[j] # i /\ r[j] = s[to[j]]
                               /\ to[j] = j \/ to[j] = j + 1
                               /\ j < i => to[j] = j
                               /\ ~(j < i) => to[j] = j + 1
  BY <1>1
<1>4. \A j, h \in 1..Len(s) - 1 : j # h => to[j] # to[h]
  <2> HIDE DEF to, r
  <2> QED
    BY <1>1, <1>3
<1>5. \A k \in 1..Len(s) : k # i => \E j \in 1..Len(s) - 1 : to[j] = k
  <2> SUFFICES ASSUME NEW k \in 1..Len(s), k # i PROVE \E j \in 1..Len(s) - 1 : to[j] = k
    OBVIOUS
  <2>1. CASE k < i
    <3>1. k \in 1..Len(s) - 1
      BY <1>1, <2>1
    <3> QED
      BY <1>3, <2>1, <3>1
  <2>2. CASE ~(k < i)
    <3>1. k - 1 \in 1..Len(s) - 1 /\ ~(k - 1 < i) /\ (k - 1) + 1 = k
      BY <1>1, <2>2
    <3> QED
      BY <1>3, <3>1
  <2> QED
    BY <2>1, <2>2
<1>6. DOMAIN r = 1..Len(s) - 1 /\ r \in Seq(T)
  <2>1. r \in [1..Len(s) - 1 -> T] /\ Len(s) - 1 \in Nat
    BY <1>1, <1>3
  <2> HIDE DEF r
  <2> QED
    BY <2>1
<1> HIDE DEF r, to
<1>7. u \in Seq(T) /\ DOMAIN u = 1..Len(s) - 1 /\ \A j \in DOMAIN u : u[j] = s[to[j]]
  BY <1>2, <1>3, <1>6
<1>8. \A j \in DOMAIN u : to[j] \in DOMAIN s /\ to[j] # i
  BY <1>1, <1>3, <1>7
<1>9. \A k \in DOMAIN s : k # i => \E j \in DOMAIN u : to[j] = k
  BY <1>1, <1>5, <1>7
<1>10. \A j, h \in DOMAIN u : j # h => to[j] # to[h]
  BY <1>4, <1>7
<1>11. \A k \in DOMAIN s : k # i => \E j \in DOMAIN u : u[j] = s[k]
  <2> SUFFICES ASSUME NEW k \in DOMAIN s, k # i PROVE \E j \in DOMAIN u : u[j] = s[k]
    OBVIOUS
  <2>1. PICK j \in DOMAIN u : to[j] = k
    BY <1>9
  <2>2. u[j] = s[to[j]]
    BY <1>7
  <2> QED
    BY <2>1, <2>2
<1>12. \A j \in DOMAIN u : \E k \in DOMAIN s : k # i /\ u[j] = s[k]
  BY <1>7, <1>8
<1>13. ASSUME NEW j \in DOMAIN u, NEW h \in DOMAIN u, j # h
       PROVE  \E k, m \in DOMAIN s : k # m /\ u[j] = s[k] /\ u[h] = s[m]
  <2>1. to[j] \in DOMAIN s /\ to[h] \in DOMAIN s /\ to[j] # to[h] /\ u[j] = s[to[j]] /\ u[h] = s[to[h]]
    BY <1>7, <1>8, <1>10, <1>13
  <2> QED
    BY <2>1
<1> QED
  BY <1>7, <1>11, <1>12, <1>13 DEF Removed

\* eina_list_remove of x from _pending_futures.
LEMMA WithoutExact ==
    ASSUME NEW pe \in Seq(Futures), Lone(pe), NEW x
    PROVE  LET u == Without(pe, x)
           IN  u \in Seq(Futures) /\ Lone(u) /\ \A f : Among(u, f) <=> Among(pe, f) /\ f # x
<1> DEFINE at == {i \in DOMAIN pe : pe[i] = x}
           u == Without(pe, x)
<1>1. CASE at = {}
  <2>1. u = pe
    BY <1>1 DEF Without, RemoveAt
  <2>2. ~Among(pe, x)
    BY <1>1 DEF Among
  <2> QED
    BY <2>1, <2>2
<1>2. CASE at # {}
  <2>1. PICK i \in DOMAIN pe : pe[i] = x
    BY <1>2
  <2>2. at = {i}
    BY <2>1 DEF Lone
  <2>3. u = RemoveAt(pe, {i})
    BY <2>2, Zenon DEF Without
  <2> HIDE DEF u, at
  <2>a. u \in Seq(Futures) /\ Removed(pe, i, u)
    BY <2>3, RemoveOnce
  <2>4. /\ u \in Seq(Futures)
        /\ \A j \in DOMAIN u : \E k \in DOMAIN pe : k # i /\ u[j] = pe[k]
        /\ \A k \in DOMAIN pe : k # i => \E j \in DOMAIN u : u[j] = pe[k]
        /\ \A j, h \in DOMAIN u : j # h =>
             \E k, m \in DOMAIN pe : k # m /\ u[j] = pe[k] /\ u[h] = pe[m]
    BY <2>a DEF Removed
  <2>5. Lone(u)
    <3> SUFFICES ASSUME NEW j \in DOMAIN u, NEW h \in DOMAIN u, u[j] = u[h], j # h PROVE FALSE
      BY DEF Lone
    <3>1. PICK k, m \in DOMAIN pe : k # m /\ u[j] = pe[k] /\ u[h] = pe[m]
      BY <2>4
    <3> QED
      BY <3>1 DEF Lone
  <2>6. \A f : Among(u, f) <=> Among(pe, f) /\ f # x
    BY <2>1, <2>4 DEF Among, Lone
  <2> QED
    BY <2>4, <2>5, <2>6 DEF u
<1> QED
  BY <1>1, <1>2

\* A future is put at the end of _pending_futures.
LEMMA AppendLone ==
    ASSUME NEW pe \in Seq(Futures), Lone(pe), NEW x \in Futures, ~Among(pe, x)
    PROVE  LET u == Append(pe, x)
           IN  Lone(u) /\ \A f : Among(u, f) <=> Among(pe, f) \/ f = x
<1> DEFINE u == Append(pe, x)
<1>1. Len(pe) \in Nat /\ DOMAIN pe = 1..Len(pe) /\ DOMAIN u = 1..Len(pe) + 1
  OBVIOUS
<1>2. (\A i \in 1..Len(pe) : u[i] = pe[i]) /\ u[Len(pe) + 1] = x
  OBVIOUS
<1> HIDE DEF u
<1>3. \A i \in DOMAIN u : (i \in DOMAIN pe /\ u[i] = pe[i]) \/ (i = Len(pe) + 1 /\ u[i] = x)
  BY <1>1, <1>2
<1>4. Len(pe) + 1 \in DOMAIN u /\ \A i \in DOMAIN pe : i \in DOMAIN u
  BY <1>1
<1>5. Lone(u)
  BY <1>3 DEF Lone, Among
<1>6. \A f : Among(u, f) <=> Among(pe, f) \/ f = x
  BY <1>1, <1>2, <1>3, <1>4 DEF Among
<1> QED
  BY <1>5, <1>6 DEF u

\* _efl_event_future_recall of x.
Recalled(l, x) == RemoveAt(l, {i \in DOMAIN l : l[i].f = x})
\* The entry of x leaves the list, and only it.
LEMMA RecallExact ==
    ASSUME NEW l \in Seq(Entry), Distinct(l), NEW x, NEW v, v = Recalled(l, x)
    PROVE  /\ v \in Seq(Entry) /\ Distinct(v)
           /\ \A f : f \in Entries(v) <=> f \in Entries(l) /\ f # x
<1> DEFINE at == {i \in DOMAIN l : l[i].f = x}
           u == RemoveAt(l, at)
<1>0. v = u
  BY DEF Recalled
<1>1. CASE at = {}
  <2>1. u = l
    BY <1>1 DEF RemoveAt
  <2>2. x \notin Entries(l)
    BY <1>1 DEF Entries
  <2> QED
    BY <1>0, <2>1, <2>2
<1>2. CASE at # {}
  <2>1. PICK i \in DOMAIN l : l[i].f = x
    BY <1>2
  <2>2. at = {i}
    BY <2>1 DEF Distinct
  <2>3. u = RemoveAt(l, {i})
    BY <2>2, Zenon
  <2> HIDE DEF u
  <2>a. u \in Seq(Entry) /\ Removed(l, i, u)
    BY <2>3, RemoveOnce
  <2>4. /\ u \in Seq(Entry)
        /\ \A j \in DOMAIN u : \E k \in DOMAIN l : k # i /\ u[j] = l[k]
        /\ \A k \in DOMAIN l : k # i => \E j \in DOMAIN u : u[j] = l[k]
        /\ \A j, h \in DOMAIN u : j # h =>
             \E k, m \in DOMAIN l : k # m /\ u[j] = l[k] /\ u[h] = l[m]
    BY <2>a DEF Removed
  <2>5. Distinct(u)
    <3> SUFFICES ASSUME NEW j \in DOMAIN u, NEW h \in DOMAIN u, u[j].f = u[h].f, j # h PROVE FALSE
      BY DEF Distinct
    <3>1. PICK k, m \in DOMAIN l : k # m /\ u[j] = l[k] /\ u[h] = l[m]
      BY <2>4
    <3> QED
      BY <3>1 DEF Distinct
  <2>6. \A f : f \in Entries(u) <=> f \in Entries(l) /\ f # x
    <3>1. ASSUME NEW f, f \in Entries(u) PROVE f \in Entries(l) /\ f # x
      <4>1. PICK j \in DOMAIN u : u[j].f = f
        BY <3>1 DEF Entries
      <4>2. PICK k \in DOMAIN l : k # i /\ u[j] = l[k]
        BY <2>4
      <4> QED
        BY <2>1, <4>1, <4>2 DEF Entries, Distinct
    <3>2. ASSUME NEW f, f \in Entries(l), f # x PROVE f \in Entries(u)
      <4>1. PICK k \in DOMAIN l : l[k].f = f
        BY <3>2 DEF Entries
      <4>2. PICK j \in DOMAIN u : u[j] = l[k]
        BY <2>1, <2>4, <3>2, <4>1
      <4> QED
        BY <4>1, <4>2 DEF Entries
    <3> QED
      BY <3>1, <3>2
  <2> QED
    BY <1>0, <2>4, <2>5, <2>6 DEF u
<1> QED
  BY <1>1, <1>2

\* An entry is put at the end of a list.
LEMMA AppendEntries ==
    ASSUME NEW l \in Seq(Entry), Distinct(l), NEW e \in Entry, e.f \notin Entries(l)
    PROVE  LET u == Append(l, e)
           IN  Distinct(u) /\ \A f : f \in Entries(u) <=> f \in Entries(l) \/ f = e.f
<1> DEFINE u == Append(l, e)
<1>1. Len(l) \in Nat /\ DOMAIN l = 1..Len(l) /\ DOMAIN u = 1..Len(l) + 1
  OBVIOUS
<1>2. (\A i \in 1..Len(l) : u[i] = l[i]) /\ u[Len(l) + 1] = e
  OBVIOUS
<1> HIDE DEF u
<1>3. \A i \in DOMAIN u : (i \in DOMAIN l /\ u[i] = l[i]) \/ (i = Len(l) + 1 /\ u[i] = e)
  BY <1>1, <1>2
<1>4. Len(l) + 1 \in DOMAIN u /\ \A i \in DOMAIN l : i \in DOMAIN u
  BY <1>1
<1>5. Distinct(u)
  BY <1>3 DEF Distinct, Entries
<1>6. \A f : f \in Entries(u) <=> f \in Entries(l) \/ f = e.f
  BY <1>1, <1>2, <1>3, <1>4 DEF Entries
<1> QED
  BY <1>5, <1>6 DEF u

\* The first entry of a list is taken.
LEMMA TailEntries ==
    ASSUME NEW l \in Seq(Entry), Distinct(l), l # <<>>
    PROVE  /\ Head(l) \in Entry /\ Tail(l) \in Seq(Entry) /\ Distinct(Tail(l))
           /\ \A f : f \in Entries(Tail(l)) <=> f \in Entries(l) /\ f # Head(l).f
           /\ Head(l).f \in Entries(l)
<1> DEFINE u == Tail(l)
<1>1. /\ Len(l) \in Nat /\ DOMAIN l = 1..Len(l) /\ Len(l) >= 1 /\ Head(l) = l[1] /\ l[1] \in Entry
      /\ u \in Seq(Entry) /\ DOMAIN u = 1..Len(l) - 1
  OBVIOUS
<1>2. \A i \in 1..Len(l) - 1 : u[i] = l[i + 1]
  BY <1>1
<1> HIDE DEF u
<1>3. \A i \in DOMAIN u : i + 1 \in DOMAIN l /\ u[i] = l[i + 1] /\ i + 1 # 1
  BY <1>1, <1>2
<1>4. \A i, j \in DOMAIN u : i + 1 = j + 1 => i = j
  BY <1>1
<1>5. \A k \in DOMAIN l : k # 1 => k - 1 \in DOMAIN u /\ (k - 1) + 1 = k
  BY <1>1
<1>6. Distinct(u)
  BY <1>3, <1>4 DEF Distinct
<1>7. \A k \in DOMAIN l : k # 1 => \E j \in DOMAIN u : u[j] = l[k]
  BY <1>3, <1>5
<1>8. 1 \in DOMAIN l
  BY <1>1
<1>9. \A f : f \in Entries(u) <=> f \in Entries(l) /\ f # l[1].f
  <2>1. ASSUME NEW f, f \in Entries(u) PROVE f \in Entries(l) /\ f # l[1].f
    BY <1>3, <1>8, <2>1 DEF Entries, Distinct
  <2>2. ASSUME NEW f, f \in Entries(l), f # l[1].f PROVE f \in Entries(u)
    BY <1>7, <2>2 DEF Entries
  <2> QED
    BY <2>1, <2>2
<1>10. l[1].f \in Entries(l)
  BY <1>8 DEF Entries
<1> QED
  BY <1>1, <1>6, <1>9, <1>10 DEF u

-----------------------------------------------------------------------------
(* What a step leaves alone.                                               *)

\* The entries on the two stacks are the same.
SameBatch(s, u) ==
    /\ NoTwins(s) => NoTwins(u)
    /\ \A f \in Futures : InBatch(u, f) <=> InBatch(s, f)

\* The same callbacks of the library are still to be called.
Due(fs, s, f) == fs[f].st = "live" /\ fs[f].kind # "user" /\ Uncalled(fs, s, f)
SameTasks(fs, s, gs, u) ==
    \A f \in Futures :
        /\ Due(gs, u, f) <=> Due(fs, s, f)
        /\ Due(gs, u, f) => gs[f].kind = fs[f].kind
        /\ gs[f].data = fs[f].data \/ (gs[f].data = None /\ ~Due(fs, s, f))
SameEntries(fs, gs) == \A f \in Futures : gs[f].scheduled_entry = fs[f].scheduled_entry

\* The promises of the library stay, as far as they are not being released.
SamePromises(ps, s, qs, u) ==
    \A p \in Promises :
        /\ ps[p].st = "live" /\ ps[p].cancel # "user" /\ ~Frees(s, p) =>
             qs[p].st = "live" /\ qs[p].cancel = ps[p].cancel /\ ~Frees(u, p)
        /\ ps[p].st # "none" => qs[p].st # "none"

\* A promise of the library stays as it is.
Stays(ps, s, qs, u, p) ==
    ps[p].st = "live" /\ ps[p].cancel # "user" /\ ~Frees(s, p) =>
        qs[p].st = "live" /\ qs[p].cancel = ps[p].cancel /\ ~Frees(u, p)

\* No more callbacks of the library are to be called than before.
Fewer(fs, s, gs, u) ==
    \A f \in Futures :
        /\ Due(gs, u, f) => Due(fs, s, f) /\ gs[f].kind = fs[f].kind
        /\ gs[f].data = fs[f].data \/ (gs[f].data = None /\ ~Due(gs, u, f))

\* The promises that _future_proxy will settle are there while they and the
\* callbacks stay.
LEMMA ProxiedLess ==
    ASSUME NEW ps, NEW fs, NEW s, NEW qs, NEW gs, NEW u, Good(fs), Proxied(ps, fs, s),
           Fewer(fs, s, gs, u),
           \A f \in Futures : Due(gs, u, f) /\ fs[f].kind = "proxy" => Stays(ps, s, qs, u, fs[f].data),
           \A p \in Promises : ps[p].st # "none" => qs[p].st # "none"
    PROVE  Proxied(qs, gs, u)
<1>1. \A f \in Futures : fs[f].data \in Promises \cup {None}
  BY FutureFields DEF FutureType
<1>2. ASSUME NEW f \in Futures, gs[f].st = "live", gs[f].kind = "proxy", Uncalled(gs, u, f)
      PROVE  LET p == gs[f].data
             IN  qs[p].st = "live" /\ qs[p].cancel = "dummy" /\ ~Frees(u, p)
  <2>0. Due(gs, u, f)
    BY <1>2 DEF Due
  <2>1. fs[f].st = "live" /\ Uncalled(fs, s, f) /\ fs[f].kind = "proxy" /\ gs[f].data = fs[f].data
    BY <1>2, <2>0 DEF Fewer, Due
  <2>3. PICK p : p = fs[f].data
    OBVIOUS
  <2>4. ps[p].st = "live" /\ ps[p].cancel = "dummy" /\ ~Frees(s, p)
    BY <2>1, <2>3 DEF Proxied
  <2>5. qs[p].st = "live" /\ qs[p].cancel = ps[p].cancel /\ ~Frees(u, p)
    BY <2>0, <2>1, <2>3, <2>4 DEF Stays
  <2> QED
    BY <2>1, <2>3, <2>4, <2>5
<1>3. ASSUME NEW f \in Futures, gs[f].data # None PROVE qs[gs[f].data].st # "none"
  <2>1. gs[f].data = fs[f].data
    BY <1>3 DEF Fewer
  <2> QED
    BY <1>1, <1>3, <2>1 DEF Proxied
<1>4. ASSUME NEW f \in Futures, NEW g \in Futures, gs[f].data # None, gs[f].data = gs[g].data
      PROVE  f = g
  <2>1. gs[f].data = fs[f].data /\ gs[g].data = fs[g].data
    BY <1>4 DEF Fewer
  <2> QED
    BY <1>4, <2>1 DEF Proxied
<1> QED
  BY <1>2, <1>3, <1>4 DEF Proxied

\* So they are where all of them stay.
LEMMA ProxiedKept ==
    ASSUME NEW ps, NEW fs, NEW s, NEW qs, NEW gs, NEW u, Good(fs), Proxied(ps, fs, s),
           Fewer(fs, s, gs, u), SamePromises(ps, s, qs, u)
    PROVE  Proxied(qs, gs, u)
<1>1. ASSUME NEW f \in Futures, Due(gs, u, f), fs[f].kind = "proxy"
      PROVE  Stays(ps, s, qs, u, fs[f].data)
  <2>1. fs[f].st = "live"
    BY <1>1 DEF Fewer, Due
  <2>2. fs[f].data \in Promises
    BY <1>1, <2>1, FutureFields DEF FutureType, LifeOK
  <2> QED
    BY <2>2 DEF Stays, SamePromises
<1> QED
  BY <1>1, ProxiedLess DEF SamePromises

\* The context has its futures and its promise while they stay.
LEMMA GatheredLess ==
    ASSUME NEW cx, NEW ps, NEW fs, NEW s, NEW qs, NEW gs, NEW u,
           Gathered(cx, ps, fs, s), SameTasks(fs, s, gs, u), Stays(ps, s, qs, u, cx.promise)
    PROVE  Gathered(cx, qs, gs, u)
<1>1. \A f \in Futures : f \in cx.futures <=>
         gs[f].st = "live" /\ gs[f].kind = "all" /\ Uncalled(gs, u, f)
  BY DEF Gathered, SameTasks, Due
<1>3. ASSUME cx.futures # {}
      PROVE  /\ cx.st = "live" /\ cx.promise # None
             /\ qs[cx.promise].st = "live" /\ qs[cx.promise].cancel = "all"
             /\ ~Frees(u, cx.promise)
  BY <1>3 DEF Gathered, Stays
<1> QED
  BY <1>1, <1>3 DEF Gathered

\* So it has where all of them stay.
LEMMA GatheredKept ==
    ASSUME NEW cx \in CtxType, NEW ps, NEW fs, NEW s, NEW qs, NEW gs, NEW u,
           Gathered(cx, ps, fs, s), SameTasks(fs, s, gs, u), SamePromises(ps, s, qs, u)
    PROVE  Gathered(cx, qs, gs, u)
<1>1. CASE cx.promise \in Promises
  <2>1. Stays(ps, s, qs, u, cx.promise)
    BY <1>1 DEF Stays, SamePromises
  <2> QED
    BY <2>1, GatheredLess
<1>2. CASE cx.promise = None
  <2>1. cx.futures = {}
    BY <1>2 DEF Gathered
  <2> QED
    BY <2>1 DEF Gathered, SameTasks, Due
<1> QED
  BY <1>1, <1>2 DEF CtxType

\* The lists agree with the futures while both stay.
LEMMA BookedKept ==
    ASSUME NEW sc, NEW pe, NEW fs, NEW gs, NEW s, NEW u,
           Booked(sc, pe, fs, s), SameEntries(fs, gs), SameBatch(s, u)
    PROVE  Booked(sc, pe, gs, u)
  BY DEF Booked, SameEntries, SameBatch

\* A frame that has no entries.
LEMMA LightCons ==
    ASSUME NEW t \in Seq(FrameType), NEW x \in FrameType, PlainAt(x), x.k # "batch"
    PROVE  SameBatch(t, <<x>> \o t) /\ SameBatch(<<x>> \o t, t)
<1>1. x.l = <<>>
  BY DEF PlainAt
<1>2. Distinct(x.l) /\ Entries(x.l) = {}
  BY <1>1 DEF Distinct, Entries
<1> QED
  BY <1>2, RunsCons DEF SameBatch

\* The batch stays the same, and so on.
LEMMA SameBatchTrans ==
    ASSUME NEW s, NEW t, NEW u, SameBatch(s, t), SameBatch(t, u)
    PROVE  SameBatch(s, u)
  BY DEF SameBatch

\* The parts of the state, and of the invariant.
LEMMA OwnFacts ==
    ASSUME BaseInv, OwnInv
    PROVE  /\ Good(future) /\ Linked(future) /\ Promised(promise, future)
           /\ promise \in [Promises -> PromiseType] /\ ctx \in CtxType
           /\ sched \in [futures: Seq(Entry), listener: BOOLEAN] /\ pending \in Seq(Futures)
           /\ stack \in Seq(FrameType) /\ StackOK(future, ctx.promise, stack)
           /\ Stacked(future, promise, ctx, sched, stack)
           /\ Rest(sched, pending, ctx, promise, future, stack)
  BY DEF BaseInv, OwnInv, Holds, Lists, CtxOK

\* The frame on top.
LEMMA OwnTop ==
    ASSUME BaseInv, OwnInv, NEW k, At(k)
    PROVE  /\ Top \in FrameType /\ Tail(stack) \in Seq(FrameType) /\ Top.k = k
           /\ stack = <<Top>> \o Tail(stack)
           /\ TopAt(future, promise, ctx, sched, Top, Tail(stack))
           /\ PlainAt(Top)
<1>1. stack \in Seq(FrameType) /\ stack # <<>> /\ Stacked(future, promise, ctx, sched, stack)
  BY OwnFacts DEF At
<1>2. /\ stack = <<stack[1]>> \o Tail(stack) /\ stack[1] \in FrameType
      /\ Tail(stack) \in Seq(FrameType) /\ Head(stack) = stack[1]
  BY <1>1, StackIsCons
<1>3. TopAt(future, promise, ctx, sched, stack[1], Tail(stack))
  BY <1>1 DEF Stacked
<1>4. Top = stack[1] /\ Top.k = k
  BY <1>2 DEF Top, At
<1> QED
  BY <1>2, <1>3, <1>4 DEF TopAt

\* The same callbacks are no more callbacks.
LEMMA SameFewer ==
    ASSUME NEW fs, NEW s, NEW gs, NEW u, SameTasks(fs, s, gs, u)
    PROVE  Fewer(fs, s, gs, u)
  BY DEF SameTasks, Fewer

\* A step that leaves the context and the tasks as they are.
LEMMA OwnListStep ==
    ASSUME BaseInv, OwnInv, ctx' = ctx,
           Linked(future'), Promised(promise', future'),
           Stacked(future', promise', ctx, sched', stack'),
           SameTasks(future, stack, future', stack'),
           SamePromises(promise, stack, promise', stack'),
           Booked(sched', pending', future', stack')
    PROVE  OwnInv'
<1>1. /\ Good(future) /\ ctx \in CtxType /\ Proxied(promise, future, stack)
      /\ Gathered(ctx, promise, future, stack)
  BY OwnFacts DEF Rest
<1>2. Proxied(promise', future', stack')
  BY <1>1, SameFewer, ProxiedKept
<1>3. Gathered(ctx, promise', future', stack')
  BY <1>1, GatheredKept
<1> QED
  BY <1>2, <1>3 DEF OwnInv, Rest

\* A step that leaves the lists as they are too.
LEMMA OwnStep ==
    ASSUME BaseInv, OwnInv, sched' = sched, pending' = pending, ctx' = ctx,
           Linked(future'), Promised(promise', future'),
           Stacked(future', promise', ctx, sched, stack'),
           SameTasks(future, stack, future', stack'), SameEntries(future, future'),
           SamePromises(promise, stack, promise', stack'), SameBatch(stack, stack')
    PROVE  OwnInv'
<1>1. Booked(sched, pending, future, stack)
  BY OwnFacts DEF Rest
<1>2. Booked(sched, pending, future', stack')
  BY <1>1, BookedKept
<1> QED
  BY <1>2, OwnListStep

\* A stack whose top is no callback of the library: what is to be called is
\* what was not called.
LEMMA SteadyCons ==
    ASSUME NEW t \in Seq(FrameType), NEW x \in FrameType
    PROVE  Steady(<<x>> \o t) <=> x.k \notin Leaves
  BY ConsFacts DEF Steady

DueAt(x) == x.st = "live" /\ x.kind # "user" /\ x.cb = "set"
TaskAt(y, x) ==
    /\ DueAt(y) <=> DueAt(x)
    /\ DueAt(y) => y.kind = x.kind
    /\ y.data = x.data \/ (y.data = None /\ ~DueAt(x))

\* Future by future: no task changes.
LEMMA SteadyTasks ==
    ASSUME NEW fs, NEW gs, NEW s, NEW u, Steady(s), Steady(u),
           \A f \in Futures : TaskAt(gs[f], fs[f])
    PROVE  SameTasks(fs, s, gs, u)
<1>1. \A f : /\ Uncalled(fs, s, f) <=> fs[f].cb = "set"
             /\ Uncalled(gs, u, f) <=> gs[f].cb = "set"
  BY DEF Uncalled, Steady
<1> QED
  BY <1>1 DEF SameTasks, TaskAt, Due, DueAt

\* New links change no task.
LEMMA TiedTask == \A x, y : Tied(y, x) => TaskAt(y, x)
  BY DEF Tied, TaskAt, DueAt

\* Futures, promises and links that stay as they are.
LEMMA SameObjects ==
    ASSUME NEW fs, NEW s, NEW u, Steady(s), Steady(u)
    PROVE  SameTasks(fs, s, fs, u) /\ SameEntries(fs, fs)
<1>1. \A f \in Futures : TaskAt(fs[f], fs[f])
  BY DEF TaskAt, DueAt
<1> QED
  BY <1>1, SteadyTasks DEF SameEntries

\* The promises of the futures are the same.
LEMMA PromisedSame ==
    ASSUME NEW ps, NEW fs, NEW gs, Good(fs), ps \in [Promises -> PromiseType], Promised(ps, fs),
           \A f \in Futures : gs[f].promise = fs[f].promise
    PROVE  Promised(ps, gs)
<1>1. \A p \in Promises : ps[p].future \in Futures \cup {None}
  BY DEF PromiseType
<1>2. \A p \in Promises : PromiseAt(ps, gs, p)
  BY <1>1 DEF Promised, PromiseAt
<1> QED
  BY <1>2 DEF Promised

\* p loses its future, or goes.
LEMMA PromisedDetached ==
    ASSUME NEW ps \in [Promises -> PromiseType], NEW fs, Good(fs), NEW qs, NEW gs, Promised(ps, fs),
           NEW p \in Promises, ps[p].st = "live", Apartly(ps, qs, p), qs[p].future = None,
           (qs[p].st = "live" /\ qs[p].ended = 0) \/ (qs[p].st = "freed" /\ qs[p].ended = 1),
           \A f \in Futures : /\ fs[f].promise # p => gs[f].promise = fs[f].promise
                              /\ fs[f].promise = p => gs[f].promise = None
    PROVE  Promised(qs, gs)
<1>1. \A q \in Promises : ps[q].future \in Futures \cup {None} /\ (q # p => qs[q] = ps[q])
  BY DEF PromiseType, Apartly
<1>2. \A f \in Futures : fs[f].promise \in Promises \cup {None}
  BY FutureFields DEF FutureType
<1>3. \A q \in Promises : PromiseAt(qs, gs, q)
  BY <1>1 DEF Promised, PromiseAt
<1>4. \A f \in Futures : gs[f].promise # None => qs[gs[f].promise].future = f
  BY <1>1, <1>2 DEF Promised
<1>5. Counted(qs)
  <2>1. \A q \in Promises : qs[q].st # "none" <=> ps[q].st # "none"
    BY <1>1
  <2> QED
    BY <2>1 DEF Promised, Counted
<1> QED
  BY <1>3, <1>4, <1>5 DEF Promised

\* p and f are linked.
LEMMA PromisedLinked ==
    ASSUME NEW ps \in [Promises -> PromiseType], NEW fs, Good(fs), NEW qs, NEW gs, Promised(ps, fs),
           NEW p \in Promises, ps[p].st = "live", ps[p].future = None, Apartly(ps, qs, p),
           NEW f \in Futures, fs[f].promise = None,
           qs[p].future = f, qs[p].st = "live", qs[p].ended = ps[p].ended,
           \A g \in Futures : g # f => gs[g].promise = fs[g].promise,
           gs[f].promise = p
    PROVE  Promised(qs, gs)
<1>1. \A q \in Promises : ps[q].future \in Futures \cup {None} /\ (q # p => qs[q] = ps[q])
  BY DEF PromiseType, Apartly
<1>2. \A g \in Futures : fs[g].promise \in Promises \cup {None} /\ g # None
  BY FutureFields, NumberFacts DEF FutureType
<1>3. \A q \in Promises : q # None
  BY NumberFacts
<1>4. \A q \in Promises : PromiseAt(qs, gs, q)
  BY <1>1, <1>3 DEF Promised, PromiseAt
<1>5. \A g \in Futures : gs[g].promise # None => qs[gs[g].promise].future = g
  BY <1>1, <1>2 DEF Promised
<1>6. Counted(qs)
  <2>1. \A q \in Promises : qs[q].st # "none" <=> ps[q].st # "none"
    BY <1>1
  <2> QED
    BY <2>1 DEF Promised, Counted
<1> QED
  BY <1>4, <1>5, <1>6 DEF Promised

\* A new promise.
LEMMA PromisedNew ==
    ASSUME NEW fs, Good(fs), NEW qs, promise \in [Promises -> PromiseType], Promised(promise, fs),
           RoomP, Apartly(promise, qs, FreshPromise), qs[FreshPromise].st # "none",
           qs[FreshPromise].future = None,
           qs[FreshPromise].st = "freed" => qs[FreshPromise].ended = 1,
           qs[FreshPromise].st # "freed" => qs[FreshPromise].ended = 0
    PROVE  Promised(qs, fs)
<1>1. Counted(promise)
  BY DEF Promised
<1>2. /\ FreshPromise \in Promises /\ promise[FreshPromise].st = "none"
      /\ \A ps : (\A p \in Promises : ps[p].st # "none" <=> promise[p].st # "none" \/ p = FreshPromise)
                        => Counted(ps)
  BY <1>1, FreshPromiseFacts
<1>3. \A q \in Promises : promise[q].future \in Futures \cup {None}
                          /\ (q # FreshPromise => qs[q] = promise[q])
  BY DEF PromiseType, Apartly
<1>4. \A g \in Futures : fs[g].promise \in Promises \cup {None}
  BY FutureFields DEF FutureType
<1>5. \A g \in Futures : fs[g].promise # FreshPromise
  BY <1>2, NumberFacts DEF Promised, PromiseAt
<1>6. Counted(qs)
  BY <1>2, <1>3
<1>7. \A q \in Promises : PromiseAt(qs, fs, q)
  BY <1>3 DEF Promised, PromiseAt
<1>8. \A g \in Futures : fs[g].promise # None => qs[fs[g].promise].future = g
  BY <1>3, <1>4, <1>5 DEF Promised
<1> QED
  BY <1>6, <1>7, <1>8 DEF Promised

-----------------------------------------------------------------------------
(* Frames.                                                                 *)

\* The frame of a function on a future.
LEMMA FrameShape ==
    ASSUME NEW k \in Kinds, NEW f \in Futures \cup {None}, NEW v \in Settled \cup Promises,
           NEW x, x = Frame(k, f, v)
    PROVE  /\ x \in FrameType /\ x.k = k /\ x.f = f /\ x.p = None /\ x.v = v /\ x.l = <<>>
           /\ k \in (Loops \cup OnFuture) \ {"race"} /\ (k \in Ends \/ v \in Settled) => PlainAt(x)
<1>1. x \in FrameType /\ x.k = k /\ x.f = f /\ x.p = None /\ x.v = v /\ x.l = <<>>
  <2>1. x = Fr(k, f, None, v, <<>>)
    BY DEF Frame
  <2>2. None \in Promises \cup {None}
    OBVIOUS
  <2> QED
    BY <2>1, <2>2, FrameNew
<1>2. (Loops \cup OnFuture) \cap OnPromise = {}
  BY DEF Loops, OnFuture, OnPromise, Ends, Leaves
<1> QED
  BY <1>1, <1>2 DEF PlainAt

\* The frame of a loop.
LEMMA LoopShape ==
    ASSUME NEW k \in Loops, NEW f \in Futures \cup {None}, NEW v \in Settled, NEW x, x = Frame(k, f, v)
    PROVE  x \in FrameType /\ x.k = k /\ x.f = f /\ x.p = None /\ x.v = v /\ x.l = <<>> /\ PlainAt(x)
<1>1. k \in Kinds /\ k \in (Loops \cup OnFuture) \ {"race"} /\ v \in Settled \cup Promises
  BY DEF Kinds, Loops
<1> QED
  BY <1>1, FrameShape

\* The frame of a function on a promise.
LEMMA FramePShape ==
    ASSUME NEW k \in Kinds \ {"race"}, NEW p \in Promises \cup {None}, NEW v \in Settled,
           p # None <=> k \in OnPromise,
           NEW x, x = FrameP(k, p, v)
    PROVE  x \in FrameType /\ x.k = k /\ x.f = None /\ x.p = p /\ x.v = v /\ x.l = <<>> /\ PlainAt(x)
<1>1. x \in FrameType /\ x.k = k /\ x.f = None /\ x.p = p /\ x.v = v /\ x.l = <<>>
  <2>1. x = Fr(k, None, p, v, <<>>)
    BY DEF FrameP
  <2>2. None \in Futures \cup {None} /\ v \in Settled \cup Promises /\ k \in Kinds
    OBVIOUS
  <2> QED
    BY <2>1, <2>2 DEF Fr, FrameType
<1> QED
  BY <1>1 DEF PlainAt

\* A loop on top of the frames that wait.
LEMMA LoopTop ==
    ASSUME NEW t \in Seq(FrameType), NEW fs, NEW ps, NEW cx, NEW sc, NEW x \in FrameType,
           PlainAt(x), x.k \in Loops, x.f # None => Own(fs, x.f),
           Below(fs, ps, cx, t), Clear(t)
    PROVE  TopAt(fs, ps, cx, sc, x, t)
<1>1. /\ x.k # "pcancel" /\ x.k \notin Callbacks /\ x.k \notin Deep \ Loops /\ x.k \notin Leaves
      /\ x.k \notin Ends /\ x.k \notin {"first", "settle", "clean"}
  BY DEF Loops, Callbacks, Leaves, Ends
<1> QED
  BY <1>1 DEF TopAt

-----------------------------------------------------------------------------
(* The steps of the library.                                               *)

\* eina_mempool_free of a promise.
LEMMA PromiseFreeOwn ==
    ASSUME BaseInv, OwnInv, PromiseFree
    PROVE  OwnInv'
<1> DEFINE t == Tail(stack)
           p == Top.p
<1>1. At("free") /\ promise' = FreeP(promise, p) /\ stack' = <<>> \o t
      /\ UNCHANGED <<future, sched, pending, ctx, calls>>
  BY DEF PromiseFree, Instead
<1>2. /\ Top \in FrameType /\ t \in Seq(FrameType) /\ Top.k = "free" /\ stack = <<Top>> \o t
      /\ TopAt(future, promise, ctx, sched, Top, t) /\ PlainAt(Top)
  BY <1>1, OwnTop
<1>3. /\ Good(future) /\ Linked(future) /\ Promised(promise, future)
      /\ promise \in [Promises -> PromiseType]
  BY OwnFacts
<1>4. Below(future, promise, ctx, t) /\ Fits(future, promise, ctx, Top, t)
  BY <1>2 DEF TopAt, Deep, Loops
<1>5. /\ p \in Promises /\ Releasing(promise, p) /\ promise[p].future = None
      /\ ~Frees(t, p) /\ Clear(t)
  BY <1>2, <1>4, FrameFields DEF Fits, DeepAt, PlainAt, OnPromise, Callbacks, Leaves
<1> HIDE DEF t, p
<1>6. stack' = t
  BY <1>1, <1>2, NoStack
<1>7. /\ \A q \in Promises : q # p => promise'[q] = promise[q]
      /\ promise'[p].st = "freed" /\ promise'[p].future = None
      /\ promise[p].ended = 0 => promise'[p].ended = 1
  BY <1>1, <1>3, <1>5, FreePAt DEF Apartly
<1>8. Promised(promise', future')
  <2>1. \A f \in Futures : future[f].promise # p
    BY <1>3, <1>5, NumberFacts DEF Promised
  <2>2. \A f \in Futures : future[f].promise \in Promises \cup {None}
    BY <1>3, FutureFields DEF FutureType
  <2>3. Counted(promise')
    BY <1>3, <1>5, <1>7 DEF Promised, Counted, Releasing
  <2>4. \A q \in Promises : PromiseAt(promise', future, q)
    BY <1>3, <1>5, <1>7 DEF Promised, PromiseAt, Releasing
  <2>5. \A f \in Futures : future[f].promise # None => promise'[future[f].promise].future = f
    BY <1>3, <1>7, <2>1, <2>2 DEF Promised
  <2> QED
    BY <1>1, <2>3, <2>4, <2>5 DEF Promised
<1>9. Stacked(future', promise', ctx, sched, stack')
  <2>1. Below(future, promise', ctx, t)
    BY <1>2, <1>4, <1>5, <1>7, BelowFacts, BelowKept DEF Releasing
  <2> QED
    BY <1>1, <1>2, <1>5, <1>6, <2>1, StackedPop
<1>10. SamePromises(promise, stack, promise', stack')
  <2>1. \A q : Frees(stack, q) <=> q = p \/ Frees(t, q)
    BY <1>2, RunsCons DEF p
  <2> QED
    BY <1>6, <1>7, <2>1 DEF SamePromises
<1>11. SameBatch(stack, stack')
  BY <1>2, <1>6, LightCons
<1>12. SameTasks(future, stack, future', stack') /\ SameEntries(future, future')
  <2>1. Steady(stack) /\ Steady(t)
    BY <1>2, <1>4, SteadyCons, BelowFacts DEF Leaves
  <2> QED
    BY <1>1, <1>6, <2>1, SameObjects
<1> QED
  BY <1>1, <1>3, <1>8, <1>9, <1>10, <1>11, <1>12, OwnStep

\* What is worked on, after the future before it was cut off.
LEMMA NextOwned ==
    ASSUME NEW fs, NEW gs, Good(fs), Linked(fs), NEW f \in Futures, Cut(fs, gs, f),
           fs[f].next # None, Idle(gs[fs[f].next]), gs[f].cb # "dispatched" \/ gs[f].next = None
    PROVE  Own(gs, fs[f].next)
<1>1. fs[fs[f].next].before = f
  BY FutureFields DEF LinksOK
<1>2. \A d \in Futures : d # f => fs[d].next # fs[f].next
  <2> SUFFICES ASSUME NEW d \in Futures, d # f, fs[d].next = fs[f].next PROVE FALSE
    OBVIOUS
  <2>1. fs[fs[d].next].before = d
    BY FutureFields DEF LinksOK
  <2> QED
    BY <1>1, <2>1
<1>3. \A d \in Futures : d # f => gs[d].next = fs[d].next
  BY DEF Cut
<1> QED
  BY <1>2, <1>3 DEF Own, Awaited

\* One round of the loop of _eina_future_dispatch or _eina_future_cancel.
LEMMA LoopOwn ==
    ASSUME BaseInv, OwnInv, NEW k \in Loops, At(k), NEW v \in Settled,
           IF Top.f = None \/ future[Top.f].cb = "dispatched"
           THEN stack' = <<>> \o Tail(stack) /\ UNCHANGED future
           ELSE IF future[Top.f].cb = "null"
           THEN /\ future' = FreeF(future, Top.f)
                /\ stack' = <<[Top EXCEPT !.f = future[Top.f].next]>> \o Tail(stack)
           ELSE /\ future' = CbDispatch(future, Top.f)
                /\ stack' = <<Frame(future[Top.f].kind, Top.f, v), Top>> \o Tail(stack),
           UNCHANGED <<promise, sched, pending, ctx, calls>>
    PROVE  OwnInv'
<1> DEFINE t == Tail(stack)
           x == Top
<1>1. /\ x \in FrameType /\ t \in Seq(FrameType) /\ x.k = k /\ stack = <<x>> \o t
      /\ TopAt(future, promise, ctx, sched, x, t) /\ PlainAt(x)
  BY OwnTop
<1>2. /\ Good(future) /\ Linked(future) /\ Promised(promise, future)
      /\ promise \in [Promises -> PromiseType]
  BY OwnFacts
<1>3. /\ x.k # "pcancel" /\ x.k \notin Callbacks /\ x.k \notin Leaves /\ x.k # "batch"
      /\ x.k \notin {"free", "settle"}
  BY <1>1 DEF Loops, Callbacks, Leaves
<1>4. Below(future, promise, ctx, t) /\ Clear(t) /\ (x.f # None => Own(future, x.f))
  BY <1>1, <1>3 DEF TopAt
<1>5. Steady(stack) /\ Steady(t) /\ SameBatch(stack, t) /\ \A p : Frees(stack, p) <=> Frees(t, p)
  <2> HIDE DEF t, x
  <2>1. Steady(stack)
    BY <1>1, <1>3, SteadyCons
  <2>2. Steady(t)
    BY <1>1, <1>4, BelowFacts
  <2>3. SameBatch(stack, t)
    BY <1>1, <1>3, LightCons
  <2>4. \A p : Frees(stack, p) <=> Frees(t, p)
    BY <1>1, <1>3, RunsCons
  <2> QED
    BY <2>1, <2>2, <2>3, <2>4
<1>6. CASE x.f = None
  <2>1. stack' = t /\ future' = future
    BY <1>1, <1>6, NoStack
  <2> HIDE DEF t, x
  <2>2. Stacked(future', promise', ctx, sched, stack')
    BY <1>1, <1>4, <2>1, StackedPop
  <2>3. SamePromises(promise, stack, promise', stack')
    BY <1>5, <2>1 DEF SamePromises
  <2>4. SameTasks(future, stack, future', stack') /\ SameEntries(future, future')
    BY <1>5, <2>1, SameObjects
  <2> QED
    BY <1>2, <1>5, <2>1, <2>2, <2>3, <2>4, OwnStep
<1>7. CASE x.f # None
  <2>1. PICK f \in Futures : f = x.f
    BY <1>1, <1>7, FrameFields
  <2>2. /\ future[f].prev = None /\ future[f].promise = None /\ future[f].scheduled_entry = FALSE
        /\ future[f].cb # "dispatched" /\ future[f].st = "live" /\ ~Awaited(future, f)
    BY <1>4, <1>7, <2>1 DEF Own, Idle, Resting
  <2>3. /\ ~Runs(t, f) /\ Steady(t)
        /\ \A g \in Futures : Runs(t, g) => future[g].cb = "dispatched"
        /\ \A p \in Promises : Frees(t, p) => Releasing(promise, p) /\ promise[p].future = None
        /\ Cleans(t) => Released(ctx)
    BY <1>1, <1>4, <2>2, BelowFacts, ZenonT(40)
  <2>4. CASE future[f].cb = "null"
    <3> DEFINE n == future[f].next
               y == [x EXCEPT !.f = n]
    <3>1. future' = FreeF(future, f) /\ stack' = <<y>> \o t
      BY <1>7, <2>1, <2>2, <2>4
    <3>2. n \in Futures \cup {None}
      BY <1>2, FutureFields
    <3>3. y \in FrameType /\ y.k = k /\ y.f = n /\ y.p = x.p /\ y.v = x.v /\ y.l = x.l
      BY <1>1, <3>2 DEF FrameType
    <3> HIDE DEF t, x, y, n
    <3>4. PlainAt(y)
      BY <1>1, <3>3 DEF PlainAt
    <3>5. /\ Cut(future, future', f) /\ future'[f].st = "freed" /\ future'[f].cb = "null"
          /\ future'[f].kind = future[f].kind /\ future'[f].data = None
          /\ future'[f].promise = None /\ future'[f].scheduled_entry = FALSE
          /\ future'[f].next = None /\ future'[f].prev = None
      BY <1>2, <2>2, <3>1, FreeFCut
    <3>6. Linked(future') /\ (n # None => Idle(future'[n]))
      BY <1>2, <2>2, <3>5, CutLinked DEF n
    <3>7. n # None => Own(future', n)
      BY <1>2, <3>5, <3>6, NextOwned DEF n
    <3>8. Promised(promise', future')
      <4>1. \A g \in Futures : future'[g].promise = future[g].promise
        BY <2>2, <3>5 DEF Cut, Tied
      <4> QED
        BY <1>2, <4>1, PromisedSame
    <3>9. Below(future', promise, ctx, t)
      <4>1. \A g \in Futures : Runs(t, g) => future'[g].cb = "dispatched"
        BY <2>3, <3>5 DEF Cut, Tied
      <4> QED
        BY <1>1, <1>4, <2>3, <4>1, BelowKept
    <3>10. Stacked(future', promise', ctx, sched, stack')
      <4>1. TopAt(future', promise, ctx, sched, y, t)
        BY <1>1, <1>4, <3>3, <3>4, <3>7, <3>9, LoopTop
      <4> QED
        BY <1>1, <3>1, <3>3, <4>1, StackedCons
    <3>11. SameBatch(stack, stack') /\ Steady(stack') /\ \A p : Frees(stack', p) <=> Frees(t, p)
      <4>1. SameBatch(t, stack') /\ Steady(stack') /\ \A p : Frees(stack', p) <=> Frees(t, p)
        BY <1>1, <1>3, <3>1, <3>3, <3>4, LightCons, SteadyCons, RunsCons
      <4> QED
        BY <1>5, <4>1, SameBatchTrans
    <3>12. SamePromises(promise, stack, promise', stack')
      BY <1>5, <3>11 DEF SamePromises
    <3>13. SameTasks(future, stack, future', stack') /\ SameEntries(future, future')
      <4>1. \A g \in Futures : g # f => Tied(future'[g], future[g])
        BY <3>5 DEF Cut
      <4>2. TaskAt(future'[f], future[f])
        BY <2>4, <3>5 DEF TaskAt, DueAt
      <4>3. \A g \in Futures : TaskAt(future'[g], future[g])
        BY <4>1, <4>2, TiedTask
      <4>4. SameEntries(future, future')
        BY <2>2, <3>5, <4>1 DEF SameEntries, Tied
      <4> QED
        BY <1>5, <3>11, <4>3, <4>4, SteadyTasks
    <3> QED
      BY <3>6, <3>8, <3>10, <3>11, <3>12, <3>13, OwnStep
  <2>5. CASE future[f].cb # "null"
    <3> DEFINE y == Frame(future[f].kind, f, v)
               w == <<x>> \o t
    <3>1. future' = CbDispatch(future, f) /\ stack' = <<y, x>> \o t
      BY <1>7, <2>1, <2>2, <2>5
    <3>2. future[f].cb = "set" /\ future[f].kind \in {"user", "all", "proxy"}
      <4>1. future[f].cb = "set"
        BY <1>2, <2>2, <2>5, FutureFields DEF FutureType
      <4>2. future[f].kind # "race"
        BY <1>2 DEF Linked, LinkedAt
      <4> QED
        BY <1>2, <4>1, <4>2, FutureFields DEF LifeOK, FutureType
    <3>3. /\ y \in FrameType /\ y.k = future[f].kind /\ y.f = f /\ y.p = None /\ y.v = v
          /\ y.l = <<>> /\ PlainAt(y)
      <4>1. future[f].kind \in Kinds /\ future[f].kind \in (Loops \cup OnFuture) \ {"race"}
        BY <3>2 DEF Kinds, OnFuture, Leaves
      <4> HIDE DEF y
      <4>2. y = Frame(future[f].kind, f, v) /\ v \in Settled \cup Promises /\ f \in Futures \cup {None}
        BY DEF y
      <4> QED
        BY <4>1, <4>2, FrameShape
    <3> HIDE DEF t, x, y
    <3>4. w \in Seq(FrameType) /\ stack' = <<y>> \o w
      <4>1. w \in Seq(FrameType)
        BY <1>1, ConsFacts
      <4>2. <<y, x>> \o t = <<y>> \o w
        BY <1>1, <3>3, PairCons
      <4> QED
        BY <3>1, <4>1, <4>2
    <3>5. /\ Cut(future, future', f) /\ future'[f].st = "live" /\ future'[f].cb = "dispatched"
          /\ future'[f].kind = future[f].kind /\ future'[f].data = future[f].data
          /\ future'[f].promise = None /\ future'[f].scheduled_entry = FALSE
          /\ future'[f].next = future[f].next /\ future'[f].prev = None
      BY <1>2, <2>2, <3>1, CbDispatchCut
    <3>6. Linked(future')
      BY <1>2, <2>2, <3>5, CutLinked
    <3>7. Promised(promise', future')
      <4>1. \A g \in Futures : future'[g].promise = future[g].promise
        BY <2>2, <3>5 DEF Cut, Tied
      <4> QED
        BY <1>2, <4>1, PromisedSame
    <3>8. Below(future', promise, ctx, w)
      <4>1. \A g \in Futures : Runs(t, g) => future'[g].cb = "dispatched"
        BY <2>3, <3>5 DEF Cut, Tied
      <4>2. Below(future', promise, ctx, t)
        BY <1>1, <1>4, <2>3, <4>1, BelowKept
      <4>3. DeepAt(future', promise, ctx, x)
        BY <1>1, <1>7, <2>1, <3>5 DEF DeepAt, Deep, Loops
      <4>4. Fits(future', promise, ctx, x, t)
        BY <1>1, <1>3, <1>4, <2>1, <2>3, <4>3 DEF Fits, Loops
      <4> QED
        BY <1>1, <4>2, <4>4, BelowCons
    <3> HIDE DEF w
    <3>9. Stacked(future', promise', ctx, sched, stack')
      <4>1. y.k = "user" => Fits(future', promise, ctx, y, w)
        BY <3>3 DEF Fits, DeepAt, Deep, Loops, Callbacks
      <4>2. TopAt(future', promise, ctx, sched, y, w)
        BY <3>2, <3>3, <3>5, <3>8, <4>1 DEF TopAt, Callbacks, Leaves, Deep, Ends, Loops
      <4> QED
        BY <3>3, <3>4, <4>2, StackedCons
    <3>10. SameBatch(stack, stack') /\ \A p : Frees(stack', p) <=> Frees(stack, p)
      <4>1. SameBatch(w, stack') /\ \A p : Frees(stack', p) <=> Frees(w, p)
        BY <3>2, <3>3, <3>4, LightCons, RunsCons
      <4> QED
        BY <1>1, <4>1 DEF w
    <3>11. SamePromises(promise, stack, promise', stack')
      BY <3>10 DEF SamePromises
    <3>12. SameTasks(future, stack, future', stack') /\ SameEntries(future, future')
      <4>1. \A g : Uncalled(future, stack, g) <=> future[g].cb = "set"
        BY <1>5 DEF Uncalled, Steady
      <4>2. \A g : Uncalled(future', stack', g) <=>
                     future'[g].cb = "set" \/ (y.k \in Leaves /\ y.f = g)
        BY <3>3, <3>4, UncalledCons
      <4>3. \A g \in Futures : g # f => Tied(future'[g], future[g])
        BY <3>5 DEF Cut
      <4>4. \A g \in Futures : Due(future', stack', g) <=> Due(future, stack, g)
        <5>1. ASSUME NEW g \in Futures, g # f PROVE Due(future', stack', g) <=> Due(future, stack, g)
          BY <3>3, <4>1, <4>2, <4>3, <5>1 DEF Due, Tied
        <5>2. Due(future', stack', f) <=> Due(future, stack, f)
          BY <2>2, <3>2, <3>3, <3>5, <4>1, <4>2 DEF Due, Leaves
        <5> QED
          BY <5>1, <5>2
      <4>5. \A g \in Futures : future'[g].kind = future[g].kind /\ future'[g].data = future[g].data
                               /\ future'[g].scheduled_entry = future[g].scheduled_entry
        BY <2>2, <3>5, <4>3 DEF Tied
      <4> QED
        BY <4>4, <4>5 DEF SameTasks, SameEntries
    <3> QED
      BY <3>6, <3>7, <3>9, <3>10, <3>11, <3>12, OwnStep
  <2> QED
    BY <2>4, <2>5
<1> QED
  BY <1>6, <1>7


\* _eina_future_dispatch up to the call of a callback.
LEMMA DispatchOwn ==
    ASSUME BaseInv, OwnInv, Dispatch
    PROVE  OwnInv'
<1>1. At("dispatch") /\ Top \in FrameType /\ PlainAt(Top) /\ Top.k = "dispatch"
  BY OwnTop DEF Dispatch
<1>2. Top.v \in Settled /\ "dispatch" \in Loops
  BY <1>1 DEF PlainAt, Ends, Loops
<1> QED
  BY <1>1, <1>2, LoopOwn DEF Dispatch, Instead

\* The loop of _eina_future_cancel up to the call of a callback.
LEMMA CancelLoopOwn ==
    ASSUME BaseInv, OwnInv, CancelLoop
    PROVE  OwnInv'
<1>1. At("cancel") /\ Error \in Settled /\ "cancel" \in Loops
  BY DEF CancelLoop, Settled, Loops
<1> QED
  BY <1>1, LoopOwn DEF CancelLoop, Instead


\* The stack without its top, which has no entries.
LEMMA TopOff ==
    ASSUME BaseInv, OwnInv, NEW k, At(k), k # "batch",
           NEW t, t = Tail(stack), NEW x, x = Top
    PROVE  /\ x \in FrameType /\ t \in Seq(FrameType) /\ x.k = k /\ stack = <<x>> \o t
           /\ TopAt(future, promise, ctx, sched, x, t) /\ PlainAt(x)
           /\ SameBatch(stack, t) /\ (k \notin Leaves => Steady(stack))
           /\ \A p : Frees(stack, p) <=> (k \in {"free", "settle"} /\ x.p = p) \/ Frees(t, p)
<1>1. /\ x \in FrameType /\ t \in Seq(FrameType) /\ x.k = k /\ stack = <<x>> \o t
      /\ TopAt(future, promise, ctx, sched, x, t) /\ PlainAt(x)
  BY OwnTop
<1>2. SameBatch(stack, t)
  BY <1>1, LightCons
<1>3. k \notin Leaves => Steady(stack)
  BY <1>1, SteadyCons
<1>4. \A p : Frees(stack, p) <=> (k \in {"free", "settle"} /\ x.p = p) \/ Frees(t, p)
  <2>1. \A p : Frees(<<x>> \o t, p) <=> (x.k \in {"free", "settle"} /\ x.p = p) \/ Frees(t, p)
    BY <1>1, RunsCons
  <2> QED
    BY <1>1, <2>1
<1> QED
  BY <1>1, <1>2, <1>3, <1>4

\* A frame without entries is put on a stack.
LEMMA OneOn ==
    ASSUME NEW t \in Seq(FrameType), NEW x \in FrameType, PlainAt(x), x.k # "batch",
           NEW u, u = <<x>> \o t
    PROVE  /\ u \in Seq(FrameType) /\ SameBatch(t, u) /\ (x.k \notin Leaves => Steady(u))
           /\ \A p : Frees(u, p) <=> (x.k \in {"free", "settle"} /\ x.p = p) \/ Frees(t, p)
<1>1. u \in Seq(FrameType)
  BY ConsFacts
<1>2. SameBatch(t, u)
  BY LightCons
<1>3. x.k \notin Leaves => Steady(u)
  BY SteadyCons
<1>4. \A p : Frees(u, p) <=> (x.k \in {"free", "settle"} /\ x.p = p) \/ Frees(t, p)
  BY RunsCons
<1> QED
  BY <1>1, <1>2, <1>3, <1>4

\* The callback of f has returned, and f is freed.
Over(fs, gs, f) ==
    /\ \A g \in Futures : TaskAt(gs[g], fs[g]) /\ gs[g].promise = fs[g].promise
    /\ \A g \in Futures : g # f => gs[g].cb = fs[g].cb
    /\ SameEntries(fs, gs)

\* What follows it is worked on next.
LEMMA Finished ==
    ASSUME NEW fs, Good(fs), Linked(fs), NEW f \in Futures, fs[f].cb = "dispatched",
           NEW gs, gs = FreeF(fs, f), NEW n, n = fs[f].next
    PROVE  /\ Good(gs) /\ Linked(gs) /\ Over(fs, gs, f) /\ n \in Futures \cup {None}
           /\ n # None => Own(gs, n) /\ fs[n].cb # "dispatched"
<1>1. /\ Resting(fs[f]) /\ fs[f].st = "live"
      /\ n # None => Idle(fs[n])
  BY DEF Linked, LinkedAt
<1>2. n \in Futures \cup {None}
  BY FutureFields
<1>3. fs[f].prev = None /\ fs[f].promise = None /\ fs[f].scheduled_entry = FALSE
  BY <1>1 DEF Resting
<1>4. ~Awaited(fs, f)
  <2> SUFFICES ASSUME NEW d \in Futures, fs[d].cb = "dispatched", fs[d].next = f PROVE FALSE
    BY DEF Awaited
  <2>1. Idle(fs[f])
    BY NumberFacts DEF Linked, LinkedAt
  <2> QED
    BY <2>1 DEF Idle
<1>5. /\ Cut(fs, gs, f) /\ gs[f].st = "freed" /\ gs[f].cb = "null"
      /\ gs[f].kind = fs[f].kind /\ gs[f].data = None
      /\ gs[f].promise = None /\ gs[f].scheduled_entry = FALSE
      /\ gs[f].next = None /\ gs[f].prev = None
  BY <1>3, FreeFCut
<1>6. Linked(gs) /\ (fs[f].next # None => Idle(gs[fs[f].next]))
  BY <1>3, <1>4, <1>5, CutLinked
<1>7. n # None => Own(gs, n)
  BY <1>5, <1>6, NextOwned
<1>8. \A g \in Futures : g # f => Tied(gs[g], fs[g])
  BY <1>5 DEF Cut
<1>9. Over(fs, gs, f)
  <2>1. TaskAt(gs[f], fs[f])
    BY <1>5 DEF TaskAt, DueAt
  <2>2. \A g \in Futures : TaskAt(gs[g], fs[g])
    BY <1>8, <2>1, TiedTask
  <2> QED
    BY <1>3, <1>5, <1>8, <2>2 DEF Over, SameEntries, Tied
<1>10. Good(gs)
  <2>1. fs[f].called = 1 /\ fs[f].st # "none" /\ Ready(fs, f)
    BY <1>1, FutureFields DEF LifeOK, LinksOK
  <2> QED
    BY <2>1, FreeFGood DEF Reached, Made
<1> QED
  BY <1>1, <1>2, <1>6, <1>7, <1>9, <1>10 DEF Idle

\* The frames that wait go on waiting.
LEMMA BelowOver ==
    ASSUME NEW t \in Seq(FrameType), NEW fs, NEW ps, NEW cx, NEW gs, NEW f,
           Below(fs, ps, cx, t), Over(fs, gs, f), ~Runs(t, f)
    PROVE  Below(gs, ps, cx, t)
<1>1. /\ \A g : Runs(t, g) => g \in Futures /\ fs[g].cb = "dispatched"
      /\ \A p : Frees(t, p) => p \in Promises /\ Releasing(ps, p) /\ ps[p].future = None
      /\ Cleans(t) => Released(cx)
  BY BelowFacts
<1>2. \A g \in Futures : Runs(t, g) => gs[g].cb = "dispatched"
  BY <1>1 DEF Over
<1> QED
  BY <1>1, <1>2, BelowKept

\* The end of a loop's callback: what is known of its frame and its future.
LEMMA EndTop ==
    ASSUME BaseInv, OwnInv, NEW k \in Ends, At(k), NEW t, t = Tail(stack), NEW x, x = Top
    PROVE  /\ x \in FrameType /\ t \in Seq(FrameType) /\ x.k = k
           /\ x.f \in Futures /\ future[x.f].cb = "dispatched"
           /\ Below(future, promise, ctx, t) /\ Clear(t) /\ ~Runs(t, x.f)
           /\ Handed(promise, t, k, x.v) /\ x.v \in Settled \cup Promises
           /\ SameBatch(stack, t) /\ Steady(stack) /\ Steady(t)
           /\ \A p : Frees(stack, p) <=> Frees(t, p)
<1>1. k # "batch" /\ k \notin Leaves /\ k \notin Callbacks \cup {"pcancel"} /\ k \notin {"free", "settle"}
  BY DEF Ends, Leaves, Callbacks
<1>2. /\ x \in FrameType /\ t \in Seq(FrameType) /\ x.k = k /\ stack = <<x>> \o t
      /\ TopAt(future, promise, ctx, sched, x, t) /\ PlainAt(x)
      /\ SameBatch(stack, t) /\ (k \notin Leaves => Steady(stack))
      /\ \A p : Frees(stack, p) <=> (k \in {"free", "settle"} /\ x.p = p) \/ Frees(t, p)
  BY <1>1, TopOff
<1>3. /\ Below(future, promise, ctx, t) /\ Clear(t) /\ ~Runs(t, x.f)
      /\ Handed(promise, t, k, x.v) /\ future[x.f].cb = "dispatched"
  BY <1>1, <1>2 DEF TopAt
<1>4. x.f \in Futures
  <2>1. StackOK(future, ctx.promise, stack) /\ stack[1] = x /\ 1 \in DOMAIN stack
    BY <1>2, OwnFacts, ConsFacts
  <2>2. FrameOK(future, x)
    BY <2>1 DEF StackOK
  <2> QED
    BY <1>2, <2>2, FrameFields DEF FrameOK, OnFuture
<1>5. Steady(t)
  BY <1>2, <1>3, BelowFacts
<1> QED
  BY <1>1, <1>2, <1>3, <1>4, <1>5, FrameFields


\* _eina_future_dispatch after the callback returned.
LEMMA DispatchedOwn ==
    ASSUME BaseInv, OwnInv, Dispatched
    PROVE  OwnInv'
<1> DEFINE t == Tail(stack)
           x == Top
           f == x.f
           n == future[f].next
           r == x.v
           gs == FreeF(future, f)
           stolen == [promise EXCEPT ![r].scheduler = TRUE]
<1>1. At("dispatched") /\ "dispatched" \in Ends /\ UNCHANGED <<sched, pending, ctx, calls>>
  BY DEF Dispatched, Ends
<1>2. /\ x \in FrameType /\ t \in Seq(FrameType) /\ x.k = "dispatched"
      /\ f \in Futures /\ future[f].cb = "dispatched"
      /\ Below(future, promise, ctx, t) /\ Clear(t) /\ ~Runs(t, f)
      /\ Handed(promise, t, "dispatched", r) /\ r \in Settled \cup Promises
      /\ SameBatch(stack, t) /\ Steady(stack) /\ Steady(t)
      /\ \A p : Frees(stack, p) <=> Frees(t, p)
  BY <1>1, EndTop
<1>3. /\ Good(future) /\ Linked(future) /\ Promised(promise, future)
      /\ promise \in [Promises -> PromiseType]
  BY OwnFacts
<1>4. /\ Good(gs) /\ Linked(gs) /\ Over(future, gs, f) /\ n \in Futures \cup {None}
      /\ n # None => Own(gs, n) /\ future[n].cb # "dispatched"
  BY <1>2, <1>3, Finished
<1>5. /\ IsPromise(r) =>
           /\ promise' = IF n = None THEN UnlinkP(stolen, r) ELSE LinkP(stolen, r, n)
           /\ future' = IF n = None THEN gs ELSE LinkF(gs, r, n)
           /\ stack' = <<>> \o t
      /\ ~IsPromise(r) =>
           /\ future' = gs
           /\ stack' = <<Frame("dispatch", n, r)>> \o t
           /\ promise' = promise
  BY <1>4, Zenon DEF Dispatched, Instead
<1> HIDE DEF t, x, n, gs, stolen
<1>6. Below(gs, promise, ctx, t) /\ Promised(promise, gs)
  BY <1>2, <1>3, <1>4, BelowOver, PromisedSame DEF Over
<1>7. CASE ~IsPromise(r)
  <2> DEFINE y == Frame("dispatch", n, r)
  <2>1. future' = gs /\ stack' = <<y>> \o t /\ promise' = promise
    BY <1>5, <1>7
  <2>2. r \in Settled
    BY <1>2, <1>7 DEF IsPromise, Promises
  <2>3. /\ y \in FrameType /\ y.k = "dispatch" /\ y.f = n /\ y.p = None /\ y.v = r /\ y.l = <<>>
        /\ PlainAt(y)
    <3>1. "dispatch" \in Loops
      BY DEF Loops
    <3> HIDE DEF r
    <3>3. PICK z : z = y
      OBVIOUS
    <3>4. /\ z \in FrameType /\ z.k = "dispatch" /\ z.f = n /\ z.p = None /\ z.v = r /\ z.l = <<>>
          /\ PlainAt(z)
      BY <1>4, <2>2, <3>1, <3>3, LoopShape
    <3> QED
      BY <3>3, <3>4
  <2> HIDE DEF y, r
  <2>4. y.k # "batch" /\ y.k \notin Leaves /\ y.k \notin {"free", "settle"} /\ y.k \in Loops
    BY <2>3 DEF Leaves, Loops
  <2>5. /\ SameBatch(t, stack') /\ Steady(stack') /\ \A p : Frees(stack', p) <=> Frees(t, p)
    BY <1>2, <2>1, <2>3, <2>4, OneOn
  <2>6. TopAt(gs, promise, ctx, sched, y, t)
    BY <1>2, <1>4, <1>6, <2>3, <2>4, LoopTop
  <2>7. Stacked(gs, promise, ctx, sched, stack')
    BY <1>2, <2>1, <2>3, <2>6, StackedCons
  <2>8. SamePromises(promise, stack, promise', stack')
    BY <1>2, <2>1, <2>5 DEF SamePromises
  <2>9. SameBatch(stack, stack')
    BY <1>2, <2>5, SameBatchTrans
  <2>10. SameTasks(future, stack, gs, stack') /\ SameEntries(future, gs)
    BY <1>2, <1>4, <2>5, SteadyTasks DEF Over
  <2> QED
    BY <1>1, <1>4, <1>6, <2>1, <2>7, <2>8, <2>9, <2>10, OwnStep
<1>8. CASE IsPromise(r)
  <2>0. stack' = t
    BY <1>2, <1>5, <1>8, NoStack
  <2>1. r \in Promises /\ r # None
    BY <1>2, <1>8, NumberFacts DEF IsPromise, Settled, Plain, Error
  <2>2. /\ promise[r].st = "live" /\ promise[r].future = None /\ ~Frees(t, r)
    BY <1>2, <2>1 DEF Handed
  <2> HIDE DEF r
  <2>3. /\ Apartly(promise, stolen, r) /\ stolen[r].st = "live" /\ stolen[r].cancel = promise[r].cancel
        /\ stolen[r].ended = promise[r].ended /\ stolen[r].future = None
    BY <1>3, <2>1, <2>2, StolenAt, ZenonT(40) DEF stolen
  <2>4. promise[r].ended = 0
    BY <1>3, <2>1, <2>2 DEF Promised, PromiseAt
  <2>5. /\ \A g \in Futures : gs[g].promise # r
    BY <1>6, <2>1, <2>2, NumberFacts DEF Promised
  <2>6. /\ Promised(promise', future') /\ Linked(future') /\ Apartly(promise, promise', r)
        /\ promise'[r].st = "live" /\ promise'[r].cancel = promise[r].cancel
        /\ \A g \in Futures : TaskAt(future'[g], gs[g]) /\ future'[g].cb = gs[g].cb
        /\ SameEntries(gs, future')
    <3>1. CASE n = None
      <4>1. promise' = UnlinkP(stolen, r) /\ future' = gs
        BY <1>5, <1>8, <3>1
      <4>2. /\ Apartly(stolen, promise', r) /\ promise'[r].st = "live"
            /\ promise'[r].cancel = promise[r].cancel
            /\ promise'[r].ended = 0 /\ promise'[r].future = None
        BY <2>1, <2>3, <2>4, <4>1, UnlinkPAt DEF Apartly
      <4>3. Apartly(promise, promise', r)
        BY <2>3, <4>2 DEF Apartly
      <4>5. Promised(promise', gs)
        BY <1>3, <1>4, <1>6, <2>1, <2>2, <2>5, <4>2, <4>3, PromisedDetached
      <4>6. (\A g \in Futures : TaskAt(gs[g], gs[g])) /\ SameEntries(gs, gs)
        BY DEF TaskAt, DueAt, SameEntries
      <4> QED
        BY <1>4, <4>1, <4>2, <4>3, <4>5, <4>6
    <3>2. CASE n # None
      <4>0. n \in Futures /\ Own(gs, n) /\ Good(gs)
        BY <1>4, <3>2
      <4>1. promise' = LinkP(stolen, r, n) /\ future' = LinkF(gs, r, n)
        BY <1>5, <1>8, <3>2
      <4>2. /\ Apartly(stolen, promise', r) /\ promise'[r].st = "live"
            /\ promise'[r].cancel = promise[r].cancel
            /\ promise'[r].ended = promise[r].ended /\ promise'[r].future = n
        <5>1. stolen \in [Promises -> PromiseType] /\ n \in Futures \cup {None}
          BY <2>3, <4>0 DEF Apartly
        <5> QED
          BY <2>1, <2>3, <4>1, <5>1, LinkPAt
      <4>3. Apartly(promise, promise', r)
        BY <2>3, <4>2 DEF Apartly
      <4>4. /\ Retied(gs, future', n) /\ future'[n].promise = r
            /\ future'[n].scheduled_entry = gs[n].scheduled_entry
        BY <4>0, <4>1, LinkFAt
      <4>5. /\ gs[n].st = "live" /\ gs[n].prev = None /\ gs[n].cb # "dispatched" /\ ~Awaited(gs, n)
            /\ gs[n].scheduled_entry = FALSE /\ gs[n].promise = None
        BY <4>0 DEF Own, Idle, Resting
      <4>6. Linked(future')
        BY <1>4, <4>0, <4>4, <4>5, RetiedLinked
      <4>7. \A g \in Futures : g # n => future'[g] = gs[g]
        BY <4>4 DEF Retied
      <4>8. Promised(promise', future')
        BY <1>3, <1>6, <2>1, <2>2, <4>0, <4>2, <4>3, <4>4, <4>5, <4>7, PromisedLinked
      <4>9. \A g \in Futures : TaskAt(future'[g], gs[g]) /\ future'[g].cb = gs[g].cb
        BY <4>4, <4>7 DEF TaskAt, DueAt, Retied
      <4>10. SameEntries(gs, future')
        BY <4>4, <4>7 DEF SameEntries
      <4> QED
        BY <4>2, <4>3, <4>6, <4>8, <4>9, <4>10
    <3> QED
      BY <3>1, <3>2
  <2>7. Below(future', promise', ctx, t)
    <3>1. /\ \A g : Runs(t, g) => g \in Futures /\ gs[g].cb = "dispatched"
          /\ \A p : Frees(t, p) => p \in Promises /\ Releasing(promise, p) /\ promise[p].future = None
          /\ Cleans(t) => Released(ctx)
      BY <1>2, <1>6, BelowFacts
    <3>2. \A g \in Futures : Runs(t, g) => future'[g].cb = "dispatched"
      BY <2>6, <3>1
    <3>3. \A p \in Promises : Frees(t, p) => Releasing(promise', p) /\ promise'[p].future = None
      BY <2>2, <2>6, <3>1 DEF Apartly, Releasing
    <3> QED
      BY <1>2, <1>6, <3>1, <3>2, <3>3, BelowKept
  <2>8. Stacked(future', promise', ctx, sched, stack')
    BY <1>2, <2>0, <2>7, StackedPop
  <2>9. SamePromises(promise, stack, promise', stack')
    BY <1>2, <2>0, <2>2, <2>6 DEF SamePromises, Apartly
  <2>10. SameTasks(future, stack, future', stack') /\ SameEntries(future, future')
    <3>1. \A g \in Futures : TaskAt(future'[g], future[g])
      BY <1>4, <2>6 DEF Over, TaskAt
    <3>2. SameEntries(future, future')
      BY <1>4, <2>6 DEF Over, SameEntries
    <3> QED
      BY <1>2, <2>0, <3>1, <3>2, SteadyTasks
  <2> QED
    BY <1>1, <1>2, <2>0, <2>6, <2>8, <2>9, <2>10, OwnStep
<1> QED
  BY <1>7, <1>8


\* Frames that release nothing and are no callbacks of the library were put
\* on t.
Pushed(t, u) ==
    /\ u \in Seq(FrameType) /\ SameBatch(t, u) /\ Steady(u)
    /\ \A p : Frees(u, p) <=> Frees(t, p)

\* Its frame.
LEMMA CancelShape ==
    ASSUME NEW h \in Futures \cup {None}, NEW z, z = Frame("cancel", h, Error)
    PROVE  /\ z \in FrameType /\ z.k = "cancel" /\ z.f = h /\ z.p = None /\ z.v = Error /\ z.l = <<>>
           /\ PlainAt(z)
<1>1. PICK k \in Loops : k = "cancel"
  BY DEF Loops
<1>2. PICK v \in Settled : v = Error
  BY DEF Settled
<1> QED
  BY <1>1, <1>2, LoopShape

\* The loop of _eina_future_cancel on h, once the promise p is cancelled.
LEMMA CancelStack ==
    ASSUME NEW t \in Seq(FrameType), NEW fs, NEW ps, NEW cx, NEW sc,
           Below(fs, ps, cx, t), Clear(t),
           NEW h \in Futures \cup {None}, NEW p \in Promises \cup {None},
           p = None /\ h # None => Own(fs, h),
           p # None => /\ ps[p].st = "live" /\ ps[p].cancel = "user"
                       /\ h # None => OwnBut(fs, p, h),
           NEW u,
           u = ((IF p = None THEN <<>> ELSE <<FrameP("pcancel", p, Plain)>>)
                \o <<Frame("cancel", h, Error)>>) \o t
    PROVE  Stacked(fs, ps, cx, sc, u) /\ Pushed(t, u)
<1> DEFINE x == FrameP("pcancel", p, Plain)
           y == Frame("cancel", h, Error)
           w == <<y>> \o t
<1>1. /\ y \in FrameType /\ y.k = "cancel" /\ y.f = h /\ y.p = None /\ y.v = Error /\ y.l = <<>>
      /\ PlainAt(y)
  <2>1. "cancel" \in Loops /\ Error \in Settled
    BY DEF Settled, Loops
  <2>3. PICK z : z = Frame("cancel", h, Error) /\ z = y
    OBVIOUS
  <2> HIDE DEF x, y, w
  <2>4. /\ z \in FrameType /\ z.k = "cancel" /\ z.f = h /\ z.p = None /\ z.v = Error /\ z.l = <<>>
        /\ PlainAt(z)
    BY <2>1, <2>3, CancelShape
  <2> QED
    BY <2>3, <2>4
<1>2. p # None => x \in FrameType /\ x.k = "pcancel" /\ x.f = None /\ x.p = p /\ PlainAt(x)
  <2> SUFFICES ASSUME p # None
               PROVE  x \in FrameType /\ x.k = "pcancel" /\ x.f = None /\ x.p = p /\ PlainAt(x)
    OBVIOUS
  <2>1. "pcancel" \in Kinds \ {"race"} /\ "pcancel" \in OnPromise /\ Plain \in Settled
    BY DEF Kinds, OnPromise, Settled
  <2>2. PICK z : z = x
    OBVIOUS
  <2>3. z \in FrameType /\ z.k = "pcancel" /\ z.f = None /\ z.p = p /\ PlainAt(z)
    BY <2>1, <2>2, FramePShape
  <2> QED
    BY <2>2, <2>3
<1>3. /\ p = None => u = w
      /\ p # None => u = <<x>> \o w
  <2>1. CASE p = None
    <3>1. <<>> \o <<y>> = <<y>>
      BY <1>1, Pairs
    <3> QED
      BY <2>1, <3>1
  <2>2. CASE p # None
    <3>1. <<x>> \o <<y>> = <<x, y>>
      BY <1>1, <1>2, <2>2, Pairs
    <3>2. <<x, y>> \o t = <<x>> \o w
      BY <1>1, <1>2, <2>2, PairCons
    <3>3. u = (<<x>> \o <<y>>) \o t
      BY <2>2
    <3> HIDE DEF x, y, w
    <3> QED
      BY <2>2, <3>1, <3>2, <3>3
  <2> QED
    BY <2>1, <2>2
<1> HIDE DEF x, y
<1>4. y.k # "batch" /\ y.k \notin Leaves /\ y.k \notin {"free", "settle"} /\ y.k \in Loops
  BY <1>1 DEF Leaves, Loops
<1>5. Pushed(t, w)
  BY <1>1, <1>4, OneOn DEF Pushed
<1>6. CASE p = None
  <2>1. TopAt(fs, ps, cx, sc, y, t)
    BY <1>1, <1>4, <1>6, LoopTop
  <2>2. Stacked(fs, ps, cx, sc, w)
    BY <1>1, <2>1, StackedCons
  <2> QED
    BY <1>3, <1>5, <1>6, <2>2
<1>7. CASE p # None
  <2>1. w \in Seq(FrameType) /\ w # <<>> /\ w[1] = y /\ Tail(w) = t
    BY <1>1, ConsFacts
  <2> HIDE DEF w
  <2>2. /\ x.k = "pcancel" /\ x.k # "batch" /\ x.k \notin Leaves /\ x.k \notin {"free", "settle"}
        /\ x.k \notin Deep /\ x.k \notin Loops \cup Ends
    BY <1>2, <1>7 DEF Leaves, Deep, Loops, Ends
  <2>3. TopAt(fs, ps, cx, sc, x, w)
    BY <1>1, <1>2, <1>7, <2>1, <2>2 DEF TopAt
  <2>4. Stacked(fs, ps, cx, sc, u)
    BY <1>2, <1>3, <1>7, <2>1, <2>3, StackedCons
  <2>5. u \in Seq(FrameType) /\ SameBatch(w, u) /\ Steady(u) /\ \A q : Frees(u, q) <=> Frees(w, q)
    BY <1>2, <1>3, <1>7, <2>1, <2>2, OneOn
  <2>6. SameBatch(t, u)
    BY <1>5, <2>5, SameBatchTrans DEF Pushed
  <2> QED
    BY <1>5, <2>4, <2>5, <2>6 DEF Pushed
<1> QED
  BY <1>6, <1>7

\* The loop of _eina_future_cancel after the callback returned.
LEMMA CancelledOwn ==
    ASSUME BaseInv, OwnInv, Cancelled
    PROVE  OwnInv'
<1> DEFINE t == Tail(stack)
           x == Top
           f == x.f
           n == future[f].next
           r == x.v
           p == IF IsPromise(r) THEN r ELSE None
           gs == FreeF(future, f)
<1>1. /\ At("cancelled") /\ "cancelled" \in Ends /\ UNCHANGED <<promise, sched, pending, ctx, calls>>
      /\ future' = gs
      /\ stack' = (Flush(r) \o <<Frame("cancel", n, Error)>>) \o t
  BY DEF Cancelled, Ends, Instead
<1>2. /\ x \in FrameType /\ t \in Seq(FrameType) /\ x.k = "cancelled"
      /\ f \in Futures /\ future[f].cb = "dispatched"
      /\ Below(future, promise, ctx, t) /\ Clear(t) /\ ~Runs(t, f)
      /\ Handed(promise, t, "cancelled", r) /\ r \in Settled \cup Promises
      /\ SameBatch(stack, t) /\ Steady(stack) /\ Steady(t)
      /\ \A q : Frees(stack, q) <=> Frees(t, q)
  BY <1>1, EndTop
<1>3. /\ Good(future) /\ Linked(future) /\ Promised(promise, future)
      /\ promise \in [Promises -> PromiseType]
  BY OwnFacts
<1>4. /\ Good(gs) /\ Linked(gs) /\ Over(future, gs, f) /\ n \in Futures \cup {None}
      /\ n # None => Own(gs, n) /\ future[n].cb # "dispatched"
  BY <1>2, <1>3, Finished
<1> HIDE DEF t, x, n, gs
<1>6. Below(gs, promise, ctx, t) /\ Promised(promise, gs)
  BY <1>2, <1>3, <1>4, BelowOver, PromisedSame DEF Over
<1>7. IsPromise(r) <=> r \in Promises
  BY <1>2, NumberFacts DEF IsPromise, Settled, Plain, Error, Promises
<1>8. /\ p \in Promises \cup {None} /\ (p # None => p = r /\ r \in Promises)
      /\ Flush(r) = IF p = None THEN <<>> ELSE <<FrameP("pcancel", p, Plain)>>
  <2>1. CASE r \in Promises
    BY <1>7, <2>1, NumberFacts DEF Flush
  <2>2. CASE r \notin Promises
    BY <1>7, <2>2 DEF Flush
  <2> QED
    BY <2>1, <2>2
<1>9. p # None => promise[p].st = "live" /\ promise[p].cancel = "user"
  BY <1>2, <1>8 DEF Handed
<1> HIDE DEF p, r
<1>10. n # None => OwnBut(gs, p, n)
  BY <1>4 DEF Own, OwnBut, Idle, Resting
<1>11. stack' = ((IF p = None THEN <<>> ELSE <<FrameP("pcancel", p, Plain)>>)
                 \o <<Frame("cancel", n, Error)>>) \o t
  BY <1>1, <1>8
<1>12. Stacked(gs, promise, ctx, sched, stack') /\ Pushed(t, stack')
  BY <1>2, <1>4, <1>6, <1>8, <1>9, <1>10, <1>11, CancelStack
<1>13. SamePromises(promise, stack, promise', stack')
  BY <1>1, <1>2, <1>12 DEF SamePromises, Pushed
<1>14. SameTasks(future, stack, gs, stack') /\ SameEntries(future, gs)
  BY <1>2, <1>4, <1>12, SteadyTasks DEF Over, Pushed
<1>15. SameBatch(stack, stack')
  BY <1>2, <1>12, SameBatchTrans DEF Pushed
<1> QED
  BY <1>1, <1>4, <1>6, <1>12, <1>13, <1>14, <1>15, OwnStep


\* A promise and its future are unlinked: the links of the others stay.
LEMMA UnlinkBoth ==
    ASSUME NEW ps \in [Promises -> PromiseType], NEW fs, Good(fs), Linked(fs), Promised(ps, fs),
           NEW p \in Promises, ps[p].st = "live", NEW gs, gs = UnlinkF(fs, ps[p].future),
           NEW qs, Apartly(ps, qs, p), qs[p].future = None,
           (qs[p].st = "live" /\ qs[p].ended = 0) \/ (qs[p].st = "freed" /\ qs[p].ended = 1)
    PROVE  /\ Linked(gs) /\ Promised(qs, gs) /\ SameEntries(fs, gs)
           /\ \A g \in Futures :
                /\ TaskAt(gs[g], fs[g]) /\ gs[g].st = fs[g].st /\ gs[g].cb = fs[g].cb
                /\ gs[g].next = fs[g].next /\ gs[g].prev = fs[g].prev
                /\ gs[g].scheduled_entry = fs[g].scheduled_entry
                /\ fs[g].promise = p => gs[g].promise = None
                /\ fs[g].promise # p => gs[g].promise = fs[g].promise
<1>1. ps[p].future \in Futures \cup {None} /\ \A g \in Futures : g # None
  BY NumberFacts DEF PromiseType
<1>2. \A g \in Futures : fs[g].promise = p => ps[p].future = g
  BY NumberFacts DEF Promised
<1>3. CASE ps[p].future = None
  <2>1. gs = fs
    BY <1>3, UnlinkNone
  <2>2. \A g \in Futures : fs[g].promise # p
    BY <1>1, <1>2, <1>3
  <2>3. (\A g \in Futures : TaskAt(fs[g], fs[g])) /\ SameEntries(fs, fs)
    BY DEF TaskAt, DueAt, SameEntries
  <2>4. Promised(qs, gs)
    BY <2>1, <2>2, PromisedDetached
  <2> QED
    BY <2>1, <2>2, <2>3, <2>4
<1>4. CASE ps[p].future # None
  <2>1. PICK f \in Futures : f = ps[p].future
    BY <1>1, <1>4
  <2>2. /\ Retied(fs, gs, f) /\ gs[f].promise = None
        /\ gs[f].scheduled_entry = fs[f].scheduled_entry
    BY <2>1, UnlinkFAt
  <2>3. fs[f].promise = p /\ p # None
    BY <1>4, <2>1, NumberFacts DEF Promised, PromiseAt
  <2>4. Linked(gs)
    BY <2>2, RetiedLinked
  <2>5. \A g \in Futures : g # f => gs[g] = fs[g] /\ fs[g].promise # p
    BY <1>2, <2>1, <2>2 DEF Retied
  <2>6. Promised(qs, gs)
    BY <2>2, <2>3, <2>5, PromisedDetached
  <2>7. \A g \in Futures :
                /\ TaskAt(gs[g], fs[g]) /\ gs[g].st = fs[g].st /\ gs[g].cb = fs[g].cb
                /\ gs[g].next = fs[g].next /\ gs[g].prev = fs[g].prev
                /\ gs[g].scheduled_entry = fs[g].scheduled_entry
    BY <2>2, <2>5 DEF Retied, TaskAt, DueAt
  <2>8. SameEntries(fs, gs)
    BY <2>7 DEF SameEntries
  <2> QED
    BY <2>2, <2>3, <2>4, <2>5, <2>6, <2>7, <2>8
<1> QED
  BY <1>3, <1>4

\* _eina_promise_cancel: only a promise of the user's is cancelled.
LEMMA PromiseCancelOwn ==
    ASSUME BaseInv, OwnInv, PromiseCancel
    PROVE  OwnInv'
<1> DEFINE t == Tail(stack)
           x == Top
           p == x.p
           y == t[1]
           w == Tail(t)
<1>1. At("pcancel") /\ future' = UnlinkF(future, promise[p].future) /\ UNCHANGED <<sched, pending, calls>>
  BY DEF PromiseCancel
<1>2. /\ x \in FrameType /\ t \in Seq(FrameType) /\ x.k = "pcancel" /\ stack = <<x>> \o t
      /\ TopAt(future, promise, ctx, sched, x, t) /\ PlainAt(x)
      /\ SameBatch(stack, t) /\ ("pcancel" \notin Leaves => Steady(stack))
      /\ \A q : Frees(stack, q) <=> ("pcancel" \in {"free", "settle"} /\ x.p = q) \/ Frees(t, q)
  BY <1>1, TopOff
<1>3. /\ Good(future) /\ Linked(future) /\ Promised(promise, future)
      /\ promise \in [Promises -> PromiseType]
  BY OwnFacts
<1>4. /\ p \in Promises /\ promise[p].st = "live" /\ promise[p].cancel = "user"
      /\ t # <<>> /\ y.k = "cancel" /\ PlainAt(y)
      /\ Below(future, promise, ctx, w) /\ Clear(w)
      /\ y.f # None => OwnBut(future, p, y.f)
  <2>1. p # None
    BY <1>2 DEF PlainAt, OnPromise
  <2> QED
    BY <1>2, <2>1, FrameFields DEF TopAt
<1>5. promise' = FreeP(promise, p) /\ stack' = <<>> \o t /\ ctx' = ctx
  BY <1>4 DEF PromiseCancel, Instead
<1> HIDE DEF x, p
<1>6. t = <<y>> \o w /\ y \in FrameType /\ w \in Seq(FrameType) /\ stack' = t
  BY <1>2, <1>4, <1>5, StackIsCons, NoStack
<1> HIDE DEF t, y, w
<1>7. /\ Apartly(promise, promise', p) /\ promise'[p].st = "freed" /\ promise'[p].future = None
      /\ promise'[p].ended = 1
  <2>1. promise[p].ended = 0
    BY <1>3, <1>4 DEF Promised, PromiseAt
  <2> QED
    BY <1>3, <1>4, <1>5, <2>1, FreePAt
<1>8. /\ Linked(future') /\ Promised(promise', future') /\ SameEntries(future, future')
      /\ \A g \in Futures :
           /\ TaskAt(future'[g], future[g]) /\ future'[g].st = future[g].st
           /\ future'[g].cb = future[g].cb
           /\ future'[g].next = future[g].next /\ future'[g].prev = future[g].prev
           /\ future'[g].scheduled_entry = future[g].scheduled_entry
           /\ future[g].promise = p => future'[g].promise = None
           /\ future[g].promise # p => future'[g].promise = future[g].promise
  BY <1>1, <1>3, <1>4, <1>7, UnlinkBoth
<1>9. Below(future', promise', ctx, w)
  <2>1. /\ \A g : Runs(w, g) => g \in Futures /\ future[g].cb = "dispatched"
        /\ \A q : Frees(w, q) => q \in Promises /\ Releasing(promise, q) /\ promise[q].future = None
        /\ Cleans(w) => Released(ctx)
    BY <1>4, <1>6, BelowFacts
  <2>2. \A g \in Futures : Runs(w, g) => future'[g].cb = "dispatched"
    BY <1>8, <2>1
  <2>3. \A q \in Promises : Frees(w, q) => Releasing(promise', q) /\ promise'[q].future = None
    BY <1>4, <1>7, <2>1 DEF Apartly, Releasing
  <2> QED
    BY <1>4, <1>6, <2>1, <2>2, <2>3, BelowKept
<1>10. y.f # None => Own(future', y.f)
  <2> SUFFICES ASSUME y.f # None PROVE Own(future', y.f)
    OBVIOUS
  <2>1. PICK h \in Futures : h = y.f
    BY <1>6, FrameFields
  <2>2. OwnBut(future, p, h)
    BY <1>4, <2>1
  <2>3. Idle(future'[h])
    BY <1>8, <2>2 DEF OwnBut, Idle, Resting
  <2>4. ~Awaited(future', h)
    BY <1>8, <2>2 DEF OwnBut, Awaited
  <2> QED
    BY <2>1, <2>3, <2>4 DEF Own
<1>11. Stacked(future', promise', ctx, sched, stack')
  <2>1. y.k \in Loops
    BY <1>4 DEF Loops
  <2>2. TopAt(future', promise', ctx, sched, y, w)
    BY <1>4, <1>6, <1>9, <1>10, <2>1, LoopTop
  <2> QED
    BY <1>6, <2>2, StackedCons
<1>12. Steady(stack) /\ Steady(stack') /\ SameBatch(stack, stack')
  BY <1>2, <1>4, <1>6, SteadyCons DEF Leaves
<1>13. SamePromises(promise, stack, promise', stack')
  BY <1>2, <1>4, <1>6, <1>7 DEF SamePromises, Apartly
<1>14. SameTasks(future, stack, future', stack')
  BY <1>8, <1>12, SteadyTasks
<1> QED
  BY <1>1, <1>5, <1>8, <1>11, <1>12, <1>13, <1>14, OwnStep

\* _eina_future_cancel up to its loop.
LEMMA CancelFirstOwn ==
    ASSUME BaseInv, OwnInv, CancelFirst
    PROVE  OwnInv'
<1> DEFINE t == Tail(stack)
           x == Top
           h == FirstIn(future, x.f)
           p == future[h].promise
<1>1. At("first")
  BY DEF CancelFirst
<1>2. /\ x \in FrameType /\ t \in Seq(FrameType) /\ x.k = "first" /\ stack = <<x>> \o t
      /\ TopAt(future, promise, ctx, sched, x, t) /\ PlainAt(x)
      /\ SameBatch(stack, t) /\ ("first" \notin Leaves => Steady(stack))
      /\ \A q : Frees(stack, q) <=> ("first" \in {"free", "settle"} /\ x.p = q) \/ Frees(t, q)
  BY <1>1, TopOff
<1>3. /\ Good(future) /\ Linked(future) /\ Promised(promise, future)
      /\ promise \in [Promises -> PromiseType] /\ pending \in Seq(Futures)
      /\ sched \in [futures: Seq(Entry), listener: BOOLEAN]
      /\ Booked(sched, pending, future, stack)
  BY OwnFacts DEF Rest
<1>4. /\ Below(future, promise, ctx, t) /\ Clear(t) /\ Entered(future, promise, sched, h)
      /\ Steady(stack) /\ x.f # None
  <2>1. FrameOK(future, x)
    <3>1. StackOK(future, ctx.promise, stack) /\ stack[1] = x /\ 1 \in DOMAIN stack
      BY <1>2, OwnFacts, ConsFacts
    <3> QED
      BY <3>1 DEF StackOK
  <2> QED
    BY <1>2, <2>1 DEF TopAt, Callbacks, Leaves, FrameOK, OnFuture
<1>5. h \in Futures /\ First(x.f) = h
  BY <1>2, <1>3, <1>4, FrameFields, FirstFacts, FirstInFuture
<1>6. /\ future[h].scheduled_entry = TRUE =>
           /\ sched' = [sched EXCEPT !.futures = RemoveAt(@, {i \in DOMAIN @ : @[i].f = h})]
           /\ pending' = Without(pending, h)
           /\ future' = [future EXCEPT ![h].scheduled_entry = FALSE]
      /\ future[h].scheduled_entry = FALSE => UNCHANGED <<sched, pending, future>>
      /\ stack' = ((IF p = None THEN <<>> ELSE <<FrameP("pcancel", p, Plain)>>)
                   \o <<Frame("cancel", h, Error)>>) \o t
      /\ UNCHANGED <<promise, ctx, calls>>
  BY <1>5 DEF CancelFirst, Recall, Instead
<1>7. /\ future[h].st = "live" /\ future[h].prev = None /\ future[h].cb # "dispatched"
      /\ ~Awaited(future, h)
      /\ p # None => promise[p].cancel = "user"
      /\ future[h].scheduled_entry = TRUE => h \in Entries(sched.futures)
  BY <1>4 DEF Entered
<1>8. p \in Promises \cup {None} /\ future[h].scheduled_entry \in BOOLEAN
  BY <1>3, <1>5, FutureFields DEF FutureType
<1> HIDE DEF t, x, h
<1>9. /\ p # None => promise[p].st = "live" /\ future[h].scheduled_entry = FALSE
      /\ future[h].scheduled_entry = TRUE => p = None
  <2>1. p # None => promise[p].future = h
    BY <1>3, <1>5 DEF Promised
  <2>2. p # None => promise[p].st = "live"
    BY <1>3, <1>5, <1>8, <2>1, NumberFacts DEF Promised, PromiseAt
  <2>3. p # None => future[h].scheduled_entry = FALSE
    BY <1>3, <1>5 DEF Linked, LinkedAt
  <2> QED
    BY <2>2, <2>3
<1> HIDE DEF p
<1>10. CASE future[h].scheduled_entry = FALSE
  <2>1. UNCHANGED <<promise, ctx, calls, sched, pending, future>>
    BY <1>6, <1>10
  <2>2. /\ p = None => Own(future, h)
        /\ OwnBut(future, p, h)
    BY <1>7, <1>10 DEF Own, OwnBut, Idle, Resting, p
  <2>3. Stacked(future, promise, ctx, sched, stack') /\ Pushed(t, stack')
    BY <1>2, <1>4, <1>5, <1>6, <1>7, <1>8, <1>9, <2>2, CancelStack
  <2>4. SamePromises(promise, stack, promise', stack')
    BY <1>2, <2>1, <2>3 DEF SamePromises, Pushed
  <2>5. SameTasks(future, stack, future', stack') /\ SameEntries(future, future')
    BY <1>4, <2>1, <2>3, SameObjects DEF Pushed
  <2>6. SameBatch(stack, stack')
    BY <1>2, <2>3, SameBatchTrans DEF Pushed
  <2> QED
    BY <1>3, <2>1, <2>3, <2>4, <2>5, <2>6, OwnStep
<1>11. CASE future[h].scheduled_entry = TRUE
  <2> DEFINE l == sched.futures
             u == RemoveAt(l, {i \in DOMAIN l : l[i].f = h})
  <2>0. p = None /\ h \in Entries(l)
    BY <1>7, <1>9, <1>11
  <2>1. /\ sched' = [sched EXCEPT !.futures = u] /\ pending' = Without(pending, h)
        /\ future' = [future EXCEPT ![h].scheduled_entry = FALSE]
    BY <1>6, <1>11
  <2>2. /\ Retied(future, future', h) /\ future'[h].promise = None
        /\ future'[h].scheduled_entry = FALSE
    <3>1. /\ Retied(future, future', h) /\ future'[h].promise = future[h].promise
          /\ future'[h].scheduled_entry = FALSE
      <4>0. PICK b : b = FALSE
        OBVIOUS
      <4>1. future' = WithEntry(future, h, b)
        BY <2>1, <4>0 DEF WithEntry
      <4>2. /\ Retied(future, future', h) /\ future'[h].promise = future[h].promise
            /\ future'[h].scheduled_entry = b
        BY <1>3, <1>5, <4>1, EntryAt
      <4> QED
        BY <4>0, <4>2
    <3> QED
      BY <2>0, <3>1 DEF p
  <2>3. Linked(future')
    BY <1>3, <1>5, <2>2, RetiedLinked
  <2>4. \A g \in Futures : g # h => future'[g] = future[g]
    BY <2>2 DEF Retied
  <2>5. \A g \in Futures :
          /\ TaskAt(future'[g], future[g]) /\ future'[g].promise = future[g].promise
          /\ future'[g].cb = future[g].cb /\ future'[g].next = future[g].next
    BY <2>0, <2>2, <2>4 DEF Retied, TaskAt, DueAt, p
  <2>6. Own(future', h)
    <3>1. Idle(future'[h])
      BY <1>7, <2>2 DEF Retied, Idle, Resting
    <3>2. ~Awaited(future', h)
      BY <1>7, <2>5 DEF Awaited
    <3> QED
      BY <3>1, <3>2 DEF Own
  <2>7. Promised(promise, future')
    BY <1>3, <2>5, PromisedSame
  <2>8. Below(future', promise, ctx, t)
    <3>1. /\ \A g : Runs(t, g) => g \in Futures /\ future[g].cb = "dispatched"
          /\ \A q : Frees(t, q) => q \in Promises /\ Releasing(promise, q) /\ promise[q].future = None
          /\ Cleans(t) => Released(ctx)
      BY <1>2, <1>4, BelowFacts
    <3>2. \A g \in Futures : Runs(t, g) => future'[g].cb = "dispatched"
      BY <2>5, <3>1
    <3> QED
      BY <1>2, <1>4, <3>1, <3>2, BelowKept
  <2>9. Stacked(future', promise, ctx, sched', stack') /\ Pushed(t, stack')
    <3>1. h \in Futures \cup {None}
      BY <1>5
    <3> QED
      BY <1>2, <1>4, <1>6, <1>8, <2>0, <2>6, <2>8, <3>1, CancelStack
  <2>10. SamePromises(promise, stack, promise', stack')
    BY <1>2, <1>6, <2>9 DEF SamePromises, Pushed
  <2>11. SameTasks(future, stack, future', stack')
    BY <1>4, <2>5, <2>9, SteadyTasks DEF Pushed
  <2>12. SameBatch(stack, stack')
    BY <1>2, <2>9, SameBatchTrans DEF Pushed
  <2>13. Booked(sched', pending', future', stack')
    <3>1. /\ l \in Seq(Entry) /\ Distinct(l) /\ NoTwins(stack) /\ Lone(pending)
          /\ \A f \in Futures : ~(f \in Entries(l) /\ InBatch(stack, f))
          /\ \A f \in Futures :
               /\ future[f].scheduled_entry = TRUE <=> f \in Entries(l) \/ InBatch(stack, f)
               /\ future[f].scheduled_entry = TRUE <=> Among(pending, f)
      BY <1>3 DEF Booked
    <3>2. u \in Seq(Entry) /\ Distinct(u) /\ \A f : f \in Entries(u) <=> f \in Entries(l) /\ f # h
      <4>1. PICK v : v = u
        OBVIOUS
      <4>2. v \in Seq(Entry) /\ Distinct(v) /\ \A f : f \in Entries(v) <=> f \in Entries(l) /\ f # h
        <5>1. v = Recalled(l, h)
          BY <4>1 DEF Recalled
        <5> QED
          BY <3>1, <5>1, RecallExact
      <4> QED
        BY <4>1, <4>2
    <3>3. Lone(pending') /\ \A f : Among(pending', f) <=> Among(pending, f) /\ f # h
      BY <1>3, <2>1, <3>1, WithoutExact
    <3> HIDE DEF u
    <3>4. sched'.futures = u
      BY <1>3, <2>1
    <3>5. \A f \in Futures : InBatch(stack', f) <=> InBatch(stack, f)
      BY <2>12 DEF SameBatch
    <3>6. NoTwins(stack')
      BY <2>12, <3>1 DEF SameBatch
    <3>7. ~InBatch(stack, h)
      BY <1>5, <2>0, <3>1
    <3>8. \A f \in Futures :
               /\ future'[f].scheduled_entry = TRUE <=> f \in Entries(u) \/ InBatch(stack', f)
               /\ future'[f].scheduled_entry = TRUE <=> Among(pending', f)
      BY <2>2, <2>4, <3>1, <3>2, <3>3, <3>5, <3>7
    <3> QED
      BY <3>1, <3>2, <3>3, <3>4, <3>5, <3>6, <3>8 DEF Booked
  <2> QED
    BY <1>6, <2>3, <2>7, <2>9, <2>10, <2>11, <2>13, OwnListStep
<1> QED
  BY <1>8, <1>10, <1>11


\* A callback on top of the stack is called by the loop below it.
LEMMA CallTop ==
    ASSUME BaseInv, OwnInv, NEW k \in Callbacks, At(k), NEW t, t = Tail(stack), NEW x, x = Top
    PROVE  /\ x \in FrameType /\ t \in Seq(FrameType) /\ x.k = k /\ stack = <<x>> \o t
           /\ PlainAt(x) /\ Below(future, promise, ctx, t)
           /\ t # <<>> /\ t[1].k \in Loops /\ t[1].f \in Futures
           /\ future[t[1].f].cb = "dispatched" /\ future[t[1].f].st = "live"
           /\ k # "return" => x.f = t[1].f
           /\ SameBatch(stack, t) /\ (k \notin Leaves => Steady(stack)) /\ Steady(t)
           /\ \A p : Frees(stack, p) <=> Frees(t, p)
<1>1. k # "batch" /\ k # "pcancel" /\ k \notin {"free", "settle"}
  BY DEF Callbacks, Leaves
<1>2. /\ x \in FrameType /\ t \in Seq(FrameType) /\ x.k = k /\ stack = <<x>> \o t
      /\ TopAt(future, promise, ctx, sched, x, t) /\ PlainAt(x)
      /\ SameBatch(stack, t) /\ (k \notin Leaves => Steady(stack))
      /\ \A p : Frees(stack, p) <=> (k \in {"free", "settle"} /\ x.p = p) \/ Frees(t, p)
  BY <1>1, TopOff
<1>3. Below(future, promise, ctx, t)
  BY <1>1, <1>2 DEF TopAt
<1>4. StackOK(future, ctx.promise, stack) /\ Linked(future)
  BY OwnFacts
<1>5. 1 + 1 \in DOMAIN stack /\ CallOK(future, x, stack[1 + 1])
  <2>1. 1 \in DOMAIN stack /\ stack[1] = x
    BY <1>2, ConsFacts
  <2> QED
    BY <1>2, <1>4, <2>1 DEF StackOK
<1>6. t # <<>> /\ stack[1 + 1] = t[1] /\ 1 \in DOMAIN t
  <2>1. /\ \A i \in DOMAIN t : i + 1 \in DOMAIN stack /\ stack[i + 1] = t[i]
        /\ \A i \in DOMAIN stack : i = 1 \/ i - 1 \in DOMAIN t
    BY <1>2, ConsFacts
  <2>2. (1 + 1) - 1 = 1 /\ 1 + 1 # 1
    OBVIOUS
  <2>3. 1 \in DOMAIN t
    BY <1>5, <2>1, <2>2
  <2>4. t # <<>>
    BY <2>3
  <2>5. stack[1 + 1] = t[1]
    BY <2>1, <2>3
  <2> QED
    BY <2>3, <2>4, <2>5
<1>7. t[1].k \in Loops /\ t[1].f # None /\ (k # "return" => x.f = t[1].f)
  BY <1>2, <1>5, <1>6 DEF CallOK
<1>8. t[1].f \in Futures
  BY <1>2, <1>6, <1>7, FrameFields
<1>9. future[t[1].f].cb = "dispatched"
  BY <1>3, <1>6, <1>7 DEF Below, DeepAt
<1>10. future[t[1].f].st = "live"
  BY <1>4, <1>8, <1>9 DEF Linked, LinkedAt
<1>11. Steady(t)
  BY <1>2, <1>3, BelowFacts
<1> QED
  BY <1>1, <1>2, <1>3, <1>6, <1>7, <1>8, <1>9, <1>10, <1>11

\* A frame without a promise or a future.
LEMMA BareShape ==
    ASSUME NEW k \in {"return", "allfree", "clean", "cancelall"}, NEW v \in Settled, NEW x, x = FrameP(k, None, v)
    PROVE  /\ x \in FrameType /\ x.k = k /\ x.f = None /\ x.p = None /\ x.v = v /\ x.l = <<>>
           /\ PlainAt(x)
<1>1. k \in Kinds \ {"race"} /\ k \notin OnPromise /\ None \in Promises \cup {None}
  BY DEF Kinds, OnPromise
<1>2. None # None <=> k \in OnPromise
  BY <1>1
<1> QED
  BY <1>1, <1>2, FramePShape

\* A frame on a promise.
LEMMA OnShape ==
    ASSUME NEW k \in {"free", "settle"}, NEW p \in Promises, NEW v \in Settled, NEW x, x = FrameP(k, p, v)
    PROVE  /\ x \in FrameType /\ x.k = k /\ x.f = None /\ x.p = p /\ x.v = v /\ x.l = <<>>
           /\ PlainAt(x)
<1>1. k \in Kinds \ {"race"} /\ k \in OnPromise /\ p \in Promises \cup {None}
  BY DEF Kinds, OnPromise
<1>2. p # None <=> k \in OnPromise
  BY <1>1, NumberFacts
<1> QED
  BY <1>1, <1>2, FramePShape

\* The rest of a callback of the library may wait on the loop that called it.
LEMMA ReturnFits ==
    ASSUME NEW t \in Seq(FrameType), NEW fs, NEW ps, NEW cx, Below(fs, ps, cx, t),
           NEW x \in FrameType, x.k \in {"return", "user"}, PlainAt(x), NEW u, u = <<x>> \o t
    PROVE  /\ Below(fs, ps, cx, u) /\ Clear(u) /\ Steady(u) /\ u \in Seq(FrameType)
           /\ \A p : Frees(u, p) <=> Frees(t, p)
           /\ Cleans(u) <=> Cleans(t)
           /\ SameBatch(t, u)
<1>1. /\ x.k \in Deep /\ x.k \notin Loops /\ x.k \in Callbacks
      /\ x.k \notin {"free", "allfree", "batch", "cancelall"} /\ x.k \notin Leaves
      /\ x.k \notin {"free", "settle"} /\ x.k \notin {"allfree", "clean"} /\ x.k # "batch"
  BY DEF Deep, Loops, Callbacks, Leaves
<1>2. Fits(fs, ps, cx, x, t)
  BY <1>1 DEF Fits, DeepAt
<1>3. Below(fs, ps, cx, u)
  BY <1>2, BelowCons
<1>4. u # <<>> /\ u[1] = x
  BY ConsFacts
<1>5. Clear(u)
  BY <1>1, <1>4 DEF Clear
<1>6. /\ u \in Seq(FrameType) /\ SameBatch(t, u) /\ Steady(u)
      /\ \A p : Frees(u, p) <=> Frees(t, p)
  BY <1>1, OneOn
<1>7. Cleans(u) <=> Cleans(t)
  BY <1>1, RunsCons
<1> QED
  BY <1>3, <1>5, <1>6, <1>7

\* _base_ctx_clean: every future of the context has been called.
LEMMA CtxCleanOwn ==
    ASSUME BaseInv, OwnInv, CtxClean
    PROVE  OwnInv'
<1> DEFINE t == Tail(stack)
           x == Top
<1>1. At("clean") /\ UNCHANGED <<promise, future, sched, pending, calls>>
  BY DEF CtxClean
<1>2. /\ x \in FrameType /\ t \in Seq(FrameType) /\ x.k = "clean" /\ stack = <<x>> \o t
      /\ TopAt(future, promise, ctx, sched, x, t) /\ PlainAt(x)
      /\ SameBatch(stack, t) /\ ("clean" \notin Leaves => Steady(stack))
      /\ \A q : Frees(stack, q) <=> ("clean" \in {"free", "settle"} /\ x.p = q) \/ Frees(t, q)
  BY <1>1, TopOff
<1>3. /\ Good(future) /\ Linked(future) /\ Promised(promise, future) /\ ctx \in CtxType
      /\ Proxied(promise, future, stack) /\ Gathered(ctx, promise, future, stack)
      /\ Booked(sched, pending, future, stack)
  BY OwnFacts DEF Rest
<1>4. /\ Below(future, promise, ctx, t) /\ Clear(t) /\ ctx.futures = {} /\ ~Cleans(t)
      /\ Steady(stack)
  BY <1>2 DEF TopAt, Callbacks, Leaves, Released
<1>5. ctx' = [ctx EXCEPT !.st = "freed"] /\ stack' = <<>> \o t
  BY <1>4 DEF CtxClean, Instead
<1>6. /\ ctx'.futures = {} /\ ctx'.kind = ctx.kind /\ ctx'.cancelled = ctx.cancelled
      /\ ctx'.promise = ctx.promise
  BY <1>3, <1>4, <1>5 DEF CtxType
<1> HIDE DEF t, x
<1>7. stack' = t /\ Steady(t)
  BY <1>2, <1>4, <1>5, NoStack, BelowFacts
<1>8. Stacked(future', promise', ctx', sched', stack')
  <2>1. /\ \A g : Runs(t, g) => g \in Futures /\ future[g].cb = "dispatched"
        /\ \A q : Frees(t, q) => q \in Promises /\ Releasing(promise, q) /\ promise[q].future = None
    BY <1>2, <1>4, BelowFacts
  <2>2. Below(future, promise, ctx', t)
    BY <1>2, <1>4, <2>1, BelowKept
  <2> QED
    BY <1>1, <1>2, <1>4, <1>7, <2>2, StackedPop
<1>9. SameTasks(future, stack, future', stack') /\ SameEntries(future, future')
  BY <1>1, <1>4, <1>7, SameObjects
<1>10. SamePromises(promise, stack, promise', stack')
  BY <1>1, <1>2, <1>7 DEF SamePromises
<1>11. Proxied(promise', future', stack')
  BY <1>3, <1>9, <1>10, SameFewer, ProxiedKept
<1>12. Gathered(ctx', promise', future', stack')
  <2>1. \A f \in Futures : ~(future[f].st = "live" /\ future[f].kind = "all" /\ Uncalled(future, stack, f))
    BY <1>3, <1>4 DEF Gathered
  <2>2. \A f \in Futures : Uncalled(future', stack', f) <=> Uncalled(future, stack, f)
    BY <1>1, <1>4, <1>7 DEF Uncalled, Steady
  <2> QED
    BY <1>1, <1>3, <1>6, <2>1, <2>2 DEF Gathered
<1>13. Booked(sched', pending', future', stack')
  BY <1>1, <1>2, <1>3, <1>7, <1>9, BookedKept
<1> QED
  BY <1>1, <1>3, <1>8, <1>11, <1>12, <1>13 DEF OwnInv, Rest

\* The end of _all_then_cb.
LEMMA AllFreeOwn ==
    ASSUME BaseInv, OwnInv, AllFree
    PROVE  OwnInv'
<1> DEFINE t == Tail(stack)
           x == Top
           y == FrameP("clean", None, Plain)
<1>1. At("allfree") /\ UNCHANGED <<promise, future, sched, pending, ctx, calls>>
  BY DEF AllFree
<1>2. /\ x \in FrameType /\ t \in Seq(FrameType) /\ x.k = "allfree" /\ stack = <<x>> \o t
      /\ TopAt(future, promise, ctx, sched, x, t) /\ PlainAt(x)
      /\ SameBatch(stack, t) /\ ("allfree" \notin Leaves => Steady(stack))
      /\ \A q : Frees(stack, q) <=> ("allfree" \in {"free", "settle"} /\ x.p = q) \/ Frees(t, q)
  BY <1>1, TopOff
<1>3. /\ Linked(future) /\ Promised(promise, future)
      /\ Gathered(ctx, promise, future, stack)
  BY OwnFacts DEF Rest
<1>4. /\ Below(future, promise, ctx, t) /\ Clear(t) /\ Released(ctx) /\ ~Cleans(t)
      /\ Steady(stack)
  BY <1>2 DEF TopAt, Callbacks, Leaves, Deep, Loops, Fits, DeepAt
<1>5. stack' = <<y>> \o t
  BY <1>3, Zenon DEF AllFree, Instead, Gathered
<1>6. /\ y \in FrameType /\ y.k = "clean" /\ y.f = None /\ y.p = None /\ PlainAt(y)
  <2>1. PICK k \in {"return", "allfree", "clean", "cancelall"} : k = "clean"
    OBVIOUS
  <2>2. Plain \in Settled
    BY DEF Settled
  <2>3. PICK z : z = y /\ z = FrameP(k, None, Plain)
    BY <2>1
  <2> HIDE DEF y
  <2> QED
    BY <2>1, <2>2, <2>3, BareShape
<1> HIDE DEF t, x, y
<1>7. /\ y.k # "batch" /\ y.k \notin Leaves /\ y.k \notin {"free", "settle"}
      /\ y.k \notin Callbacks \cup {"pcancel"} /\ y.k \notin Deep \cup Loops \cup Ends \cup {"first"}
  BY <1>6 DEF Callbacks, Leaves, Deep, Loops, Ends
<1>8. SameBatch(t, stack') /\ Steady(stack') /\ \A p : Frees(stack', p) <=> Frees(t, p)
  BY <1>2, <1>5, <1>6, <1>7, OneOn
<1>9. TopAt(future, promise, ctx, sched, y, t)
  BY <1>4, <1>6, <1>7 DEF TopAt
<1>10. Stacked(future, promise, ctx, sched, stack')
  BY <1>2, <1>5, <1>6, <1>9, StackedCons
<1>11. SameTasks(future, stack, future', stack') /\ SameEntries(future, future')
  BY <1>1, <1>4, <1>8, SameObjects
<1>12. SamePromises(promise, stack, promise', stack')
  BY <1>1, <1>2, <1>8 DEF SamePromises
<1>13. SameBatch(stack, stack')
  BY <1>2, <1>8, SameBatchTrans
<1> QED
  BY <1>1, <1>3, <1>10, <1>11, <1>12, <1>13, OwnStep


\* The promise p is settled, then what waits on t goes on.
LEMMA SettleTop ==
    ASSUME NEW t \in Seq(FrameType), NEW fs, NEW ps, NEW cx, NEW sc,
           Below(fs, ps, cx, t), Clear(t),
           NEW x \in FrameType, x.k = "settle", PlainAt(x),
           Releasing(ps, x.p), ~Frees(t, x.p), NEW u, u = <<x>> \o t
    PROVE  /\ Stacked(fs, ps, cx, sc, u) /\ SameBatch(t, u) /\ Steady(u)
           /\ \A p : Frees(u, p) <=> p = x.p \/ Frees(t, p)
<1>1. /\ x.k # "batch" /\ x.k \notin Leaves /\ x.k \in {"free", "settle"}
      /\ x.k \notin Callbacks \cup {"pcancel"} /\ x.k \notin Deep \cup Loops \cup Ends \cup {"first", "clean"}
  BY DEF Callbacks, Leaves, Deep, Loops, Ends
<1>2. TopAt(fs, ps, cx, sc, x, t)
  BY <1>1 DEF TopAt
<1>3. Stacked(fs, ps, cx, sc, u)
  BY <1>2, StackedCons
<1>4. /\ SameBatch(t, u) /\ Steady(u)
      /\ \A p : Frees(u, p) <=> (x.k \in {"free", "settle"} /\ x.p = p) \/ Frees(t, p)
  BY <1>1, OneOn
<1> QED
  BY <1>1, <1>3, <1>4

\* What is left of the tasks when the callback of f, on top, has begun.
LEMMA Begun ==
    ASSUME NEW fs, NEW s, NEW u, NEW f \in Futures, NEW k \in Leaves, s # <<>>, s[1].k = k, s[1].f = f,
           fs[f].cb = "dispatched", Steady(u)
    PROVE  /\ \A g \in Futures : Uncalled(fs, s, g) <=> fs[g].cb = "set" \/ g = f
           /\ \A g \in Futures : Uncalled(fs, u, g) <=> fs[g].cb = "set"
           /\ Fewer(fs, s, fs, u)
<1>1. \A g \in Futures : Uncalled(fs, s, g) <=> fs[g].cb = "set" \/ g = f
  BY DEF Uncalled
<1>2. \A g \in Futures : Uncalled(fs, u, g) <=> fs[g].cb = "set"
  BY DEF Uncalled, Steady
<1> QED
  BY <1>1, <1>2 DEF Fewer, Due

\* _all_then_cb
LEMMA AllThenCbOwn ==
    ASSUME BaseInv, OwnInv, AllThenCb
    PROVE  OwnInv'
<1> DEFINE t == Tail(stack)
           x == Top
           f == x.f
           y == FrameP("return", None, x.v)
           a == FrameP("allfree", None, Plain)
           z == FrameP("settle", ctx.promise, Plain)
           w == <<y>> \o t
<1>1. /\ At("all") /\ UNCHANGED <<promise, future, sched, pending, calls>>
      /\ ctx' = [ctx EXCEPT !.futures = @ \ {f}]
      /\ stack' = ((IF ctx.futures = {f} THEN <<z, a>> ELSE <<>>) \o <<y>>) \o t
  BY DEF AllThenCb, Instead
<1>2. /\ x \in FrameType /\ t \in Seq(FrameType) /\ x.k = "all" /\ stack = <<x>> \o t
      /\ PlainAt(x) /\ Below(future, promise, ctx, t)
      /\ t # <<>> /\ t[1].k \in Loops /\ t[1].f \in Futures
      /\ future[t[1].f].cb = "dispatched" /\ future[t[1].f].st = "live"
      /\ x.f = t[1].f
      /\ SameBatch(stack, t) /\ Steady(t)
      /\ \A p : Frees(stack, p) <=> Frees(t, p)
  <2>1. PICK k \in Callbacks : k = "all"
    BY DEF Callbacks, Leaves
  <2>2. k # "return" /\ At(k)
    BY <1>1, <2>1
  <2> QED
    BY <2>1, <2>2, CallTop, ZenonT(40)
<1>3. /\ Good(future) /\ Linked(future) /\ Promised(promise, future) /\ ctx \in CtxType
      /\ Proxied(promise, future, stack) /\ Gathered(ctx, promise, future, stack)
      /\ Booked(sched, pending, future, stack) /\ Stacked(future, promise, ctx, sched, stack)
  BY OwnFacts DEF Rest
<1>4. stack[1] = x /\ stack # <<>> /\ x.k \in Leaves /\ future[f].kind = "all"
  <2>1. TopAt(future, promise, ctx, sched, x, t)
    BY <1>2, <1>3, StackedCons
  <2>2. x.k \in Leaves
    BY <1>2 DEF Leaves
  <2> QED
    BY <1>2, <2>1, <2>2, ConsFacts DEF TopAt
<1>5. f \in ctx.futures
  <2>1. Uncalled(future, stack, f)
    BY <1>4 DEF Uncalled
  <2> QED
    BY <1>2, <1>3, <1>4, <2>1 DEF Gathered
<1>6. /\ ctx.st = "live" /\ ctx.promise \in Promises
      /\ promise[ctx.promise].st = "live" /\ promise[ctx.promise].cancel = "all"
      /\ ~Frees(t, ctx.promise)
  BY <1>2, <1>3, <1>5 DEF Gathered, CtxType
<1>7. ~Cleans(t)
  BY <1>2, <1>5, BelowFacts DEF Released
<1>8. /\ ctx'.futures = ctx.futures \ {f} /\ ctx'.kind = ctx.kind /\ ctx'.cancelled = ctx.cancelled
      /\ ctx'.promise = ctx.promise /\ ctx'.st = ctx.st
  BY <1>1, <1>3 DEF CtxType
<1>9. y \in FrameType /\ y.k = "return" /\ y.f = None /\ y.p = None /\ PlainAt(y)
  <2>1. PICK k \in {"return", "allfree", "clean", "cancelall"} : k = "return"
    OBVIOUS
  <2>2. x.v \in Settled
    BY <1>2 DEF PlainAt, Ends
  <2>3. PICK b : b = y /\ b = FrameP(k, None, x.v)
    BY <2>1
  <2> HIDE DEF y
  <2> QED
    BY <2>1, <2>2, <2>3, BareShape
<1>10. a \in FrameType /\ a.k = "allfree" /\ a.f = None /\ a.p = None /\ PlainAt(a)
  <2>1. PICK k \in {"return", "allfree", "clean", "cancelall"} : k = "allfree"
    OBVIOUS
  <2>2. Plain \in Settled
    BY DEF Settled
  <2>3. PICK b : b = a /\ b = FrameP(k, None, Plain)
    BY <2>1
  <2> HIDE DEF a
  <2> QED
    BY <2>1, <2>2, <2>3, BareShape
<1>11. z \in FrameType /\ z.k = "settle" /\ z.f = None /\ z.p = ctx.promise /\ PlainAt(z)
  <2>1. PICK k \in {"free", "settle"} : k = "settle"
    OBVIOUS
  <2>2. Plain \in Settled
    BY DEF Settled
  <2>3. PICK b : b = z /\ b = FrameP(k, ctx.promise, Plain)
    BY <2>1
  <2> HIDE DEF z
  <2> QED
    BY <1>6, <2>1, <2>2, <2>3, OnShape
<1> HIDE DEF y, a, z
<1>12. /\ ctx.futures # {f} => stack' = w
       /\ ctx.futures = {f} => stack' = <<z>> \o (<<a>> \o w)
  <2>1. <<>> \o <<y>> = <<y>> /\ <<z, a>> \o <<y>> = <<z, a, y>>
    BY <1>9, <1>10, <1>11, Pairs, Triples
  <2>2. <<z, a, y>> \o t = <<z>> \o (<<a>> \o w)
    BY <1>2, <1>9, <1>10, <1>11, ConsCons, ZenonT(40)
  <2> QED
    BY <1>1, <2>1, <2>2
<1> HIDE DEF t, x
<1>13. Below(future, promise, ctx', t)
  <2>1. /\ \A g : Runs(t, g) => g \in Futures /\ future[g].cb = "dispatched"
        /\ \A q : Frees(t, q) => q \in Promises /\ Releasing(promise, q) /\ promise[q].future = None
    BY <1>2, BelowFacts
  <2> QED
    BY <1>2, <1>7, <2>1, BelowKept
<1>14. /\ Below(future, promise, ctx', w) /\ Clear(w) /\ Steady(w) /\ w \in Seq(FrameType)
       /\ \A p : Frees(w, p) <=> Frees(t, p)
       /\ ~Cleans(w)
       /\ SameBatch(t, w)
  BY <1>2, <1>7, <1>9, <1>13, ReturnFits
<1> HIDE DEF w
<1>15. /\ Stacked(future, promise, ctx', sched, stack') /\ SameBatch(w, stack') /\ Steady(stack')
       /\ \A p : Frees(stack', p) <=> Frees(t, p) \/ (ctx.futures = {f} /\ p = ctx.promise)
  <2>1. CASE ctx.futures # {f}
    <3>1. Stacked(future, promise, ctx', sched, w)
      BY <1>14, StackedPop
    <3>2. SameBatch(w, w)
      BY DEF SameBatch
    <3> QED
      BY <1>12, <1>14, <2>1, <3>1, <3>2
  <2>2. CASE ctx.futures = {f}
    <3> DEFINE v == <<a>> \o w
    <3>1. Fits(future, promise, ctx', a, w)
      <4>1. Released(ctx')
        BY <1>6, <1>8, <2>2 DEF Released
      <4> QED
        BY <1>10, <1>14, <4>1 DEF Fits, DeepAt, Deep, Loops, Callbacks, Leaves
    <3>2. Below(future, promise, ctx', v)
      BY <1>10, <1>14, <3>1, BelowCons
    <3>3. /\ v \in Seq(FrameType) /\ SameBatch(w, v) /\ \A p : Frees(v, p) <=> Frees(w, p)
      <4>1. a.k # "batch" /\ a.k \notin {"free", "settle"}
        BY <1>10
      <4>2. PICK q : q = v
        OBVIOUS
      <4> HIDE DEF v
      <4>3. /\ q \in Seq(FrameType) /\ SameBatch(w, q) /\ \A p : Frees(q, p) <=> Frees(w, p)
        BY <1>10, <1>14, <4>1, <4>2, OneOn DEF v
      <4> QED
        BY <4>2, <4>3
    <3>4. Clear(v)
      <4>1. v # <<>> /\ v[1] = a
        BY <1>10, <1>14, ConsFacts
      <4> QED
        BY <1>10, <4>1 DEF Clear, Loops
    <3>5. stack' = <<z>> \o v
      BY <1>12, <2>2
    <3> HIDE DEF v
    <3>6. Releasing(promise, z.p) /\ ~Frees(v, z.p)
      BY <1>6, <1>11, <1>14, <3>3 DEF Releasing
    <3>7. /\ Stacked(future, promise, ctx', sched, stack') /\ SameBatch(v, stack') /\ Steady(stack')
          /\ \A p : Frees(stack', p) <=> p = z.p \/ Frees(v, p)
      BY <1>11, <3>2, <3>3, <3>4, <3>5, <3>6, SettleTop
    <3>8. SameBatch(w, stack')
      BY <3>3, <3>7, SameBatchTrans
    <3> QED
      BY <1>11, <1>14, <2>2, <3>3, <3>7, <3>8
  <2> QED
    BY <2>1, <2>2
<1>16. /\ \A g \in Futures : Uncalled(future, stack, g) <=> future[g].cb = "set" \/ g = f
       /\ \A g \in Futures : Uncalled(future, stack', g) <=> future[g].cb = "set"
       /\ Fewer(future, stack, future, stack')
  <2>1. f \in Futures /\ future[f].cb = "dispatched"
    BY <1>2
  <2> QED
    BY <1>4, <1>15, <2>1, Begun
<1>17. Proxied(promise, future, stack')
  <2>1. ASSUME NEW g \in Futures, Due(future, stack', g), future[g].kind = "proxy"
        PROVE  Stays(promise, stack, promise, stack', future[g].data)
    <3>1. promise[future[g].data].cancel = "dummy"
      BY <1>3, <1>16, <2>1 DEF Proxied, Due
    <3> QED
      BY <1>2, <1>6, <1>15, <3>1 DEF Stays
  <2> QED
    BY <1>3, <1>16, <2>1, ProxiedLess
<1>18. Gathered(ctx', promise, future, stack')
  <2>1. future[f].cb # "set"
    BY <1>2
  <2>2. \A g \in Futures : g \in ctx'.futures <=>
          future[g].st = "live" /\ future[g].kind = "all" /\ Uncalled(future, stack', g)
    BY <1>3, <1>8, <1>16, <2>1 DEF Gathered
  <2>3. ctx'.futures # {} => ctx.futures # {f}
    BY <1>8
  <2> QED
    BY <1>3, <1>6, <1>8, <1>15, <2>2, <2>3, NumberFacts DEF Gathered
<1>19. Booked(sched, pending, future, stack')
  <2>1. SameBatch(stack, stack')
    BY <1>2, <1>14, <1>15, SameBatchTrans
  <2>2. SameEntries(future, future)
    BY DEF SameEntries
  <2> QED
    BY <1>3, <2>1, <2>2, BookedKept
<1> QED
  BY <1>1, <1>3, <1>15, <1>17, <1>18, <1>19 DEF OwnInv, Rest

\* _race_then_cb is not called.
LEMMA RaceThenCbOwn ==
    ASSUME BaseInv, OwnInv, RaceThenCb
    PROVE  OwnInv'
<1>1. At("race")
  BY DEF RaceThenCb
<1>2. PlainAt(Top) /\ Top.k = "race"
  BY <1>1, OwnTop
<1> QED
  BY <1>2 DEF PlainAt

\* _future_proxy
LEMMA FutureProxyOwn ==
    ASSUME BaseInv, OwnInv, FutureProxy
    PROVE  OwnInv'
<1> DEFINE t == Tail(stack)
           x == Top
           f == x.f
           p == future[f].data
           y == FrameP("return", None, x.v)
           z == FrameP("settle", p, x.v)
           w == <<y>> \o t
<1>1. /\ At("proxy") /\ UNCHANGED <<promise, future, sched, pending, ctx, calls>>
      /\ stack' = ((IF x.v = Error THEN <<>> ELSE <<z>>) \o <<y>>) \o t
  BY DEF FutureProxy, Instead
<1>2. /\ x \in FrameType /\ t \in Seq(FrameType) /\ x.k = "proxy" /\ stack = <<x>> \o t
      /\ PlainAt(x) /\ Below(future, promise, ctx, t)
      /\ t # <<>> /\ t[1].k \in Loops /\ t[1].f \in Futures
      /\ future[t[1].f].cb = "dispatched" /\ future[t[1].f].st = "live"
      /\ x.f = t[1].f
      /\ SameBatch(stack, t) /\ Steady(t)
      /\ \A q : Frees(stack, q) <=> Frees(t, q)
  <2>1. PICK k \in Callbacks : k = "proxy"
    BY DEF Callbacks, Leaves
  <2>2. k # "return" /\ At(k)
    BY <1>1, <2>1
  <2> QED
    BY <2>1, <2>2, CallTop, ZenonT(40)
<1>3. /\ Good(future) /\ Linked(future) /\ Promised(promise, future) /\ ctx \in CtxType
      /\ Proxied(promise, future, stack) /\ Gathered(ctx, promise, future, stack)
      /\ Booked(sched, pending, future, stack) /\ Stacked(future, promise, ctx, sched, stack)
  BY OwnFacts DEF Rest
<1>4. stack[1] = x /\ stack # <<>> /\ x.k \in Leaves /\ future[f].kind = "proxy"
  <2>1. TopAt(future, promise, ctx, sched, x, t)
    BY <1>2, <1>3, StackedCons
  <2>2. x.k \in Leaves
    BY <1>2 DEF Leaves
  <2> QED
    BY <1>2, <2>1, <2>2, ConsFacts DEF TopAt
<1>5. /\ p \in Promises /\ promise[p].st = "live" /\ promise[p].cancel = "dummy" /\ ~Frees(t, p)
  <2>1. Uncalled(future, stack, f)
    BY <1>4 DEF Uncalled
  <2>2. p \in Promises
    BY <1>2, <1>3, <1>4, FutureFields DEF LifeOK, FutureType
  <2> QED
    BY <1>2, <1>3, <1>4, <2>1, <2>2 DEF Proxied
<1>9. y \in FrameType /\ y.k = "return" /\ y.f = None /\ y.p = None /\ PlainAt(y)
  <2>1. PICK k \in {"return", "allfree", "clean", "cancelall"} : k = "return"
    OBVIOUS
  <2>2. x.v \in Settled
    BY <1>2 DEF PlainAt, Ends
  <2>3. PICK b : b = y /\ b = FrameP(k, None, x.v)
    BY <2>1
  <2> HIDE DEF y
  <2> QED
    BY <2>1, <2>2, <2>3, BareShape
<1>11. z \in FrameType /\ z.k = "settle" /\ z.f = None /\ z.p = p /\ PlainAt(z)
  <2>1. PICK k \in {"free", "settle"} : k = "settle"
    OBVIOUS
  <2>2. x.v \in Settled
    BY <1>2 DEF PlainAt, Ends
  <2>3. PICK b : b = z /\ b = FrameP(k, p, x.v)
    BY <2>1
  <2> HIDE DEF z
  <2> QED
    BY <1>5, <2>1, <2>2, <2>3, OnShape
<1> HIDE DEF y, z
<1>12. stack' = w \/ stack' = <<z>> \o w
  <2>1. <<>> \o <<y>> = <<y>> /\ <<z>> \o <<y>> = <<z, y>>
    BY <1>9, <1>11, Pairs
  <2>2. <<z, y>> \o t = <<z>> \o w
    BY <1>2, <1>9, <1>11, ConsCons
  <2> QED
    BY <1>1, <2>1, <2>2
<1> HIDE DEF t, x, p
<1>14. /\ Below(future, promise, ctx, w) /\ Clear(w) /\ Steady(w) /\ w \in Seq(FrameType)
       /\ \A q : Frees(w, q) <=> Frees(t, q)
       /\ SameBatch(t, w)
  BY <1>2, <1>9, ReturnFits
<1> HIDE DEF w
<1>15. /\ Stacked(future, promise, ctx, sched, stack') /\ SameBatch(w, stack') /\ Steady(stack')
       /\ \A q : Frees(stack', q) => Frees(t, q) \/ q = p
  <2>1. CASE stack' = w
    <3>1. Stacked(future, promise, ctx, sched, w)
      BY <1>14, StackedPop
    <3>2. SameBatch(w, w)
      BY DEF SameBatch
    <3> QED
      BY <1>14, <2>1, <3>1, <3>2
  <2>2. CASE stack' = <<z>> \o w
    <3>1. Releasing(promise, z.p) /\ ~Frees(w, z.p)
      BY <1>5, <1>11, <1>14 DEF Releasing
    <3>2. /\ Stacked(future, promise, ctx, sched, stack') /\ SameBatch(w, stack') /\ Steady(stack')
          /\ \A q : Frees(stack', q) <=> q = z.p \/ Frees(w, q)
      BY <1>11, <1>14, <2>2, <3>1, SettleTop
    <3> QED
      BY <1>11, <1>14, <3>2
  <2> QED
    BY <1>12, <2>1, <2>2
<1>16. /\ \A g \in Futures : Uncalled(future, stack, g) <=> future[g].cb = "set" \/ g = f
       /\ \A g \in Futures : Uncalled(future, stack', g) <=> future[g].cb = "set"
       /\ Fewer(future, stack, future, stack')
  <2>1. f \in Futures /\ future[f].cb = "dispatched"
    BY <1>2
  <2> QED
    BY <1>4, <1>15, <2>1, Begun
<1>17. Proxied(promise, future, stack')
  <2>1. ASSUME NEW g \in Futures, Due(future, stack', g), future[g].kind = "proxy"
        PROVE  Stays(promise, stack, promise, stack', future[g].data)
    <3>1. g # f
      BY <1>2, <1>16, <2>1 DEF Due
    <3>2. future[g].data # p
      <4>1. p # None /\ f \in Futures
        BY <1>2, <1>5, NumberFacts
      <4> QED
        BY <1>3, <3>1, <4>1 DEF Proxied, p
    <3> QED
      BY <1>2, <1>15, <3>2 DEF Stays
  <2> QED
    BY <1>3, <1>16, <2>1, ProxiedLess
<1>18. Gathered(ctx, promise, future, stack')
  <2>2. \A g \in Futures : g \in ctx.futures <=>
          future[g].st = "live" /\ future[g].kind = "all" /\ Uncalled(future, stack', g)
    BY <1>3, <1>4, <1>16 DEF Gathered
  <2>3. ctx.futures # {} => ctx.promise # p
    BY <1>3, <1>5 DEF Gathered
  <2> QED
    BY <1>2, <1>3, <1>15, <2>2, <2>3 DEF Gathered
<1>19. Booked(sched, pending, future, stack')
  <2>1. SameBatch(stack, stack')
    BY <1>2, <1>14, <1>15, SameBatchTrans
  <2>2. SameEntries(future, future)
    BY DEF SameEntries
  <2> QED
    BY <1>3, <2>1, <2>2, BookedKept
<1> QED
  BY <1>1, <1>3, <1>15, <1>17, <1>18, <1>19 DEF OwnInv, Rest

\* _eina_promise_clean_dispatch
LEMMA CleanDispatchOwn ==
    ASSUME BaseInv, OwnInv, CleanDispatch
    PROVE  OwnInv'
<1> DEFINE t == Tail(stack)
           x == Top
           p == x.p
           h == promise[p].future
           y == FrameP("free", p, Plain)
           z == Frame("dispatch", h, x.v)
           w == <<y>> \o t
<1>1. /\ At("settle") /\ UNCHANGED <<sched, pending, ctx, calls>>
      /\ promise' = UnlinkP(promise, p) /\ future' = UnlinkF(future, h)
      /\ stack' = ((IF h = None THEN <<>> ELSE <<z>>) \o <<y>>) \o t
  BY DEF CleanDispatch, Instead
<1>2. /\ x \in FrameType /\ t \in Seq(FrameType) /\ x.k = "settle" /\ stack = <<x>> \o t
      /\ TopAt(future, promise, ctx, sched, x, t) /\ PlainAt(x)
      /\ SameBatch(stack, t) /\ ("settle" \notin Leaves => Steady(stack))
      /\ \A q : Frees(stack, q) <=> ("settle" \in {"free", "settle"} /\ x.p = q) \/ Frees(t, q)
  BY <1>1, TopOff
<1>3. /\ Good(future) /\ Linked(future) /\ Promised(promise, future)
      /\ promise \in [Promises -> PromiseType]
  BY OwnFacts
<1>4. /\ Below(future, promise, ctx, t) /\ Clear(t) /\ Releasing(promise, p) /\ ~Frees(t, p)
      /\ Steady(stack) /\ p \in Promises /\ x.v \in Settled
  <2>1. x.p # None /\ x.v \in Settled
    BY <1>2 DEF PlainAt, OnPromise, Ends
  <2>2. x.p \in Promises
    BY <1>2, <2>1, FrameFields
  <2> QED
    BY <1>2, <2>1, <2>2 DEF TopAt, Callbacks, Leaves
<1>5. y \in FrameType /\ y.k = "free" /\ y.f = None /\ y.p = p /\ PlainAt(y)
  <2>1. PICK k \in {"free", "settle"} : k = "free"
    OBVIOUS
  <2>2. Plain \in Settled
    BY DEF Settled
  <2>3. PICK b : b = y /\ b = FrameP(k, p, Plain)
    BY <2>1
  <2> HIDE DEF y
  <2> QED
    BY <1>4, <2>1, <2>2, <2>3, OnShape
<1>6. h \in Futures \cup {None}
  BY <1>3, <1>4 DEF PromiseType
<1>7. /\ z \in FrameType /\ z.k = "dispatch" /\ z.f = h /\ PlainAt(z)
  <2>1. PICK k \in Loops : k = "dispatch"
    BY DEF Loops
  <2>2. PICK b : b = z /\ b = Frame(k, h, x.v)
    BY <2>1
  <2> HIDE DEF z, h
  <2> QED
    BY <1>4, <1>6, <2>1, <2>2, LoopShape
<1> HIDE DEF y, z
<1>8. /\ h = None => stack' = w
      /\ h # None => stack' = <<z>> \o w
  <2>1. <<>> \o <<y>> = <<y>> /\ <<z>> \o <<y>> = <<z, y>>
    BY <1>5, <1>7, Pairs
  <2>2. <<z, y>> \o t = <<z>> \o w
    BY <1>2, <1>5, <1>7, ConsCons
  <2> QED
    BY <1>1, <2>1, <2>2
<1>9. /\ Apartly(promise, promise', p) /\ promise'[p].st = promise[p].st
      /\ promise'[p].cancel = promise[p].cancel
      /\ promise'[p].ended = promise[p].ended /\ promise'[p].future = None
  BY <1>1, <1>3, <1>4, UnlinkPAt
<1>10. promise[p].st = "live" /\ promise[p].cancel # "user" /\ promise[p].ended = 0
  BY <1>3, <1>4 DEF Releasing, Promised, PromiseAt
<1>11. /\ Linked(future') /\ Promised(promise', future') /\ SameEntries(future, future')
       /\ \A g \in Futures :
            /\ TaskAt(future'[g], future[g]) /\ future'[g].st = future[g].st
            /\ future'[g].cb = future[g].cb
            /\ future'[g].next = future[g].next /\ future'[g].prev = future[g].prev
            /\ future'[g].scheduled_entry = future[g].scheduled_entry
            /\ future[g].promise = p => future'[g].promise = None
            /\ future[g].promise # p => future'[g].promise = future[g].promise
  BY <1>1, <1>3, <1>4, <1>9, <1>10, UnlinkBoth, SMTT(20)
<1>12. h # None => Own(future', h)
  <2> SUFFICES ASSUME h # None PROVE Own(future', h)
    OBVIOUS
  <2>1. h \in Futures /\ future[h].promise = p /\ p # None
    BY <1>3, <1>4, <1>6, NumberFacts DEF Promised, PromiseAt
  <2>2. /\ future[h].st = "live" /\ future[h].prev = None /\ future[h].scheduled_entry = FALSE
        /\ future[h].cb # "dispatched"
    BY <1>3, <2>1 DEF Linked, LinkedAt, Resting
  <2>3. ~Awaited(future, h)
    BY <1>3, <2>1 DEF Linked, LinkedAt, Resting, Idle, Awaited
  <2> HIDE DEF h
  <2>4. Idle(future'[h])
    BY <1>11, <2>1, <2>2 DEF Idle, Resting
  <2>5. ~Awaited(future', h)
    BY <1>11, <2>3 DEF Awaited
  <2> QED
    BY <2>4, <2>5 DEF Own
<1> HIDE DEF t, x, p, h
<1>13. Below(future', promise', ctx, t) /\ Steady(t)
  <2>1. /\ \A g : Runs(t, g) => g \in Futures /\ future[g].cb = "dispatched"
        /\ \A q : Frees(t, q) => q \in Promises /\ Releasing(promise, q) /\ promise[q].future = None
        /\ Cleans(t) => Released(ctx)
        /\ Steady(t)
    BY <1>2, <1>4, BelowFacts
  <2>2. \A q \in Promises : Frees(t, q) => Releasing(promise', q) /\ promise'[q].future = None
    BY <1>4, <1>9, <2>1 DEF Apartly, Releasing
  <2>3. \A g \in Futures : Runs(t, g) => future'[g].cb = "dispatched"
    BY <1>11, <2>1
  <2> QED
    BY <1>2, <1>4, <2>1, <2>2, <2>3, BelowKept
<1>14. Below(future', promise', ctx, w) /\ Clear(w) /\ w \in Seq(FrameType)
  <2>1. Releasing(promise', p)
    BY <1>9, <1>10 DEF Releasing
  <2>2. Fits(future', promise', ctx, y, t)
    BY <1>4, <1>5, <1>9, <2>1 DEF Fits, DeepAt, Deep, Loops
  <2>3. w \in Seq(FrameType) /\ w # <<>> /\ w[1] = y
    BY <1>2, <1>5, ConsFacts
  <2>4. Clear(w)
    BY <1>5, <2>3 DEF Clear, Loops
  <2> QED
    BY <1>2, <1>5, <1>13, <2>2, <2>3, <2>4, BelowCons
<1>15. /\ SameBatch(t, w) /\ Steady(w) /\ \A q : Frees(w, q) <=> p = q \/ Frees(t, q)
  <2>1. y.k # "batch" /\ y.k \notin Leaves /\ y.k \in {"free", "settle"}
    BY <1>5 DEF Leaves
  <2>2. PICK u : u = w
    OBVIOUS
  <2>3. /\ SameBatch(t, u) /\ Steady(u)
        /\ \A q : Frees(u, q) <=> (y.k \in {"free", "settle"} /\ y.p = q) \/ Frees(t, q)
    BY <1>2, <1>5, <2>1, <2>2, OneOn
  <2> QED
    BY <1>5, <2>1, <2>2, <2>3
<1> HIDE DEF w
<1>16. /\ Stacked(future', promise', ctx, sched, stack') /\ SameBatch(w, stack') /\ Steady(stack')
       /\ \A q : Frees(stack', q) <=> Frees(w, q)
  <2>1. CASE h = None
    <3>1. Stacked(future', promise', ctx, sched, w)
      BY <1>14, StackedPop
    <3>2. SameBatch(w, w)
      BY DEF SameBatch
    <3> QED
      BY <1>8, <1>15, <2>1, <3>1, <3>2
  <2>2. CASE h # None
    <3>1. z.k \in Loops /\ z.k # "batch" /\ z.k \notin Leaves /\ z.k \notin {"free", "settle"}
      BY <1>7 DEF Loops, Leaves
    <3>2. TopAt(future', promise', ctx, sched, z, w)
      BY <1>7, <1>12, <1>14, <3>1, LoopTop
    <3>3. stack' = <<z>> \o w
      BY <1>8, <2>2
    <3>4. Stacked(future', promise', ctx, sched, stack')
      BY <1>7, <1>14, <3>2, <3>3, StackedCons
    <3>5. /\ SameBatch(w, stack') /\ Steady(stack')
          /\ \A q : Frees(stack', q) <=> (z.k \in {"free", "settle"} /\ z.p = q) \/ Frees(w, q)
      BY <1>7, <1>14, <3>1, <3>3, OneOn
    <3> QED
      BY <3>1, <3>4, <3>5
  <2> QED
    BY <2>1, <2>2
<1>17. SameTasks(future, stack, future', stack')
  BY <1>4, <1>11, <1>16, SteadyTasks
<1>18. SamePromises(promise, stack, promise', stack')
  <2>1. \A q : Frees(stack', q) <=> Frees(stack, q)
    BY <1>2, <1>15, <1>16 DEF p
  <2>2. \A q \in Promises : promise'[q].st = promise[q].st /\ promise'[q].cancel = promise[q].cancel
    BY <1>9 DEF Apartly
  <2> QED
    BY <2>1, <2>2 DEF SamePromises
<1>19. SameBatch(stack, stack')
  BY <1>2, <1>15, <1>16, SameBatchTrans
<1> QED
  BY <1>1, <1>11, <1>16, <1>17, <1>18, <1>19, OwnStep

-----------------------------------------------------------------------------
(* Callbacks return.                                                       *)

\* The frame of the loop y when the callback has returned r.
LEMMA ReturnShape ==
    ASSUME NEW y \in FrameType, y.k \in Loops, PlainAt(y), y.f # None, NEW r \in Settled \cup Promises,
           NEW z, z = ReturnTo(y, r)
    PROVE  /\ z \in FrameType /\ z.k \in Ends /\ z.f = y.f /\ z.v = r /\ PlainAt(z)
           /\ z.k = "dispatched" <=> y.k = "dispatch"
<1>1. PICK k \in Ends : k = IF y.k = "dispatch" THEN "dispatched" ELSE "cancelled"
  BY DEF Ends
<1>2. z = [y EXCEPT !.k = k, !.v = r]
  BY <1>1, Zenon DEF ReturnTo
<1>3. \A a \in FrameType : \A b \in Ends :
        LET c == [a EXCEPT !.k = b, !.v = r]
        IN  c \in FrameType /\ c.k = b /\ c.f = a.f /\ c.l = a.l /\ c.p = a.p /\ c.v = r
  BY DEF FrameType, Ends, Kinds
<1>4. z \in FrameType /\ z.k = k /\ z.f = y.f /\ z.l = y.l /\ z.p = y.p /\ z.v = r
  <2>1. LET c == [y EXCEPT !.k = k, !.v = r]
        IN  c \in FrameType /\ c.k = k /\ c.f = y.f /\ c.l = y.l /\ c.p = y.p /\ c.v = r
    BY <1>1, <1>3, Zenon
  <2> QED
    BY <1>2, <2>1, Zenon
<1>5. PlainAt(z)
  <2>1. y.p = None /\ y.l = <<>>
    BY DEF PlainAt, Loops, OnPromise
  <2> QED
    BY <1>1, <1>4, <2>1 DEF PlainAt, Ends, OnPromise, OnFuture
<1> QED
  BY <1>1, <1>4, <1>5

\* The loop goes on with the value r; a promise in it is new.
LEMMA ReturnedStacked ==
    ASSUME BaseInv, OwnInv, NEW k \in {"user", "return"}, At(k),
           NEW r \in Settled \cup Promises, Returned(r), NEW fs, NEW ps,
           \A f \in Futures : future[f].cb = "dispatched" => fs[f].cb = "dispatched",
           \A p \in Promises : promise[p].st # "none" => ps[p] = promise[p],
           r \in Promises => /\ promise[r].st = "none"
                             /\ ps[r].st = "live" /\ ps[r].future = None
                             /\ ps[r].cancel \in {"user", "dummy"}
                             /\ ps[r].cancel = "dummy" => stack[2].k = "dispatch"
    PROVE  /\ Stacked(fs, ps, ctx, sched, stack') /\ SameBatch(stack, stack')
           /\ Steady(stack) /\ Steady(stack')
           /\ \A p : Frees(stack', p) <=> Frees(stack, p)
           /\ r \in Promises => ~Frees(stack, r)
<1> DEFINE t == Tail(stack)
           x == Top
           y == t[1]
           s == Tail(t)
           z == ReturnTo(y, r)
<1>1. /\ x \in FrameType /\ t \in Seq(FrameType) /\ x.k = k /\ stack = <<x>> \o t
      /\ PlainAt(x) /\ Below(future, promise, ctx, t)
      /\ t # <<>> /\ y.k \in Loops /\ y.f \in Futures
      /\ future[y.f].cb = "dispatched"
      /\ SameBatch(stack, t) /\ Steady(stack) /\ Steady(t)
      /\ \A p : Frees(stack, p) <=> Frees(t, p)
  <2>1. k \in Callbacks /\ k \notin Leaves
    BY DEF Callbacks, Leaves
  <2> QED
    BY <2>1, CallTop, ZenonT(40)
<1>2. stack # <<>> /\ stack \in Seq(FrameType)
  BY <1>1, ConsFacts
<1>3. stack' = <<z>> \o s /\ stack[2] = y
  BY <1>1, <1>2, ThirdOn DEF Returned
<1>4. t = <<y>> \o s /\ y \in FrameType /\ s \in Seq(FrameType)
  BY <1>1, StackIsCons
<1> HIDE DEF t, x, y, s
<1>5. Below(future, promise, ctx, s) /\ Fits(future, promise, ctx, y, s)
  BY <1>1, <1>4, BelowCons
<1>6. PlainAt(y) /\ ~Runs(s, y.f) /\ Clear(s) /\ y.k # "batch" /\ y.k \notin {"free", "settle"}
  <2>1. y.k \notin Callbacks /\ y.k # "batch" /\ y.k \notin {"free", "settle"}
    BY <1>1 DEF Loops, Callbacks, Leaves
  <2> QED
    BY <1>1, <1>5, <2>1 DEF Fits, DeepAt
<1>7. y.f # None
  BY <1>1, NumberFacts
<1>8. /\ z \in FrameType /\ z.k \in Ends /\ z.f = y.f /\ z.v = r /\ PlainAt(z)
      /\ z.k = "dispatched" <=> y.k = "dispatch"
  BY <1>1, <1>4, <1>6, <1>7, ReturnShape
<1> HIDE DEF z
<1>9. /\ \A g : Runs(s, g) => g \in Futures /\ future[g].cb = "dispatched"
      /\ \A p : Frees(s, p) => p \in Promises /\ Releasing(promise, p) /\ promise[p].future = None
      /\ Cleans(s) => Released(ctx)
  BY <1>4, <1>5, BelowFacts
<1>10. Below(fs, ps, ctx, s)
  <2>1. \A p \in Promises : Frees(s, p) => Releasing(ps, p) /\ ps[p].future = None
    BY <1>9 DEF Releasing
  <2> QED
    BY <1>4, <1>5, <1>9, <2>1, BelowKept
<1>11. SameBatch(t, s) /\ \A p : Frees(t, p) <=> Frees(s, p)
  <2>1. SameBatch(t, s)
    BY <1>4, <1>6, LightCons
  <2> QED
    BY <1>4, <1>6, <2>1, RunsCons
<1>12. r \in Promises => ~Frees(s, r)
  BY <1>9 DEF Releasing
<1>13. Handed(ps, s, z.k, r)
  BY <1>3, <1>8, <1>12 DEF Handed
<1>14. /\ z.k # "batch" /\ z.k \notin Leaves /\ z.k \notin {"free", "settle"}
       /\ z.k \notin Callbacks \cup {"pcancel"} /\ z.k \notin Deep \cup Loops \cup {"first", "settle", "clean"}
  BY <1>8 DEF Callbacks, Leaves, Deep, Loops, Ends
<1>15. TopAt(fs, ps, ctx, sched, z, s)
  BY <1>1, <1>6, <1>8, <1>10, <1>13, <1>14 DEF TopAt
<1>16. Stacked(fs, ps, ctx, sched, stack')
  BY <1>3, <1>4, <1>8, <1>15, StackedCons
<1>17. /\ SameBatch(s, stack') /\ Steady(stack')
       /\ \A p : Frees(stack', p) <=> (z.k \in {"free", "settle"} /\ z.p = p) \/ Frees(s, p)
  BY <1>3, <1>4, <1>8, <1>14, OneOn
<1>18. SameBatch(stack, stack')
  BY <1>1, <1>11, <1>17, SameBatchTrans
<1> QED
  BY <1>1, <1>11, <1>12, <1>14, <1>16, <1>17, <1>18

\* What is no promise.
LEMMA SettledPlain == \A v \in Settled : v \notin Promises
  BY DEF Settled, Plain, Error, Promises

\* A value that holds no promise is returned.
LEMMA PlainReturn ==
    ASSUME BaseInv, OwnInv, NEW k \in {"user", "return"}, At(k),
           NEW r \in Settled, Returned(r), UNCHANGED <<promise, future, sched, pending, ctx, calls>>
    PROVE  OwnInv'
<1>1. /\ Stacked(future, promise, ctx, sched, stack') /\ SameBatch(stack, stack')
      /\ Steady(stack) /\ Steady(stack')
      /\ \A p : Frees(stack', p) <=> Frees(stack, p)
  BY SettledPlain, ReturnedStacked
<1>2. SameTasks(future, stack, future', stack') /\ SameEntries(future, future')
  BY <1>1, SameObjects
<1>3. SamePromises(promise, stack, promise', stack')
  BY <1>1 DEF SamePromises
<1>4. Linked(future') /\ Promised(promise', future')
  BY OwnFacts
<1> QED
  BY <1>1, <1>2, <1>3, <1>4, OwnStep

\* A callback of the library returns.
LEMMA LibraryReturnOwn ==
    ASSUME BaseInv, OwnInv, LibraryReturn
    PROVE  OwnInv'
<1>1. At("return") /\ Returned(Top.v) /\ UNCHANGED <<promise, future, sched, pending, ctx, calls>>
  BY DEF LibraryReturn
<1>2. PlainAt(Top) /\ Top.k = "return"
  BY <1>1, OwnTop
<1>3. Top.v \in Settled
  BY <1>2 DEF PlainAt, Ends
<1>4. PICK k \in {"user", "return"} : k = "return"
  OBVIOUS
<1> QED
  BY <1>1, <1>3, <1>4, PlainReturn

\* A callback of the user returns a value.
LEMMA ReturnValueOwn ==
    ASSUME BaseInv, OwnInv, NEW r \in Settled, ReturnValue(r)
    PROVE  OwnInv'
<1>1. At("user") /\ Returned(r) /\ UNCHANGED <<promise, future, sched, pending, ctx, calls>>
  BY DEF ReturnValue
<1>2. PICK k \in {"user", "return"} : k = "user"
  OBVIOUS
<1> QED
  BY <1>1, <1>2, PlainReturn

\* A callback of the user returns a new promise.
LEMMA ReturnPromiseOwn ==
    ASSUME BaseInv, OwnInv, NEW scheduler \in BOOLEAN, ReturnPromise(scheduler)
    PROVE  OwnInv'
<1> DEFINE q == FreshPromise
<1>1. /\ At("user") /\ RoomP /\ Returned(q) /\ UNCHANGED <<future, sched, pending, ctx>>
      /\ promise' = NewPromise(promise, q, "user", scheduler)
  BY DEF ReturnPromise
<1>2. /\ Good(future) /\ Linked(future) /\ Promised(promise, future)
      /\ promise \in [Promises -> PromiseType]
  BY OwnFacts
<1>3. q \in Promises /\ promise[q].st = "none"
  BY <1>1, <1>2, FreshPromiseFacts DEF Promised
<1>4. /\ Apartly(promise, promise', q) /\ promise'[q].st = "live" /\ promise'[q].cancel = "user"
      /\ promise'[q].future = None /\ promise'[q].ended = 0
  <2>1. PICK c \in {"user", "all", "race", "dummy"} : c = "user"
    OBVIOUS
  <2>2. promise' = NewPromise(promise, q, c, scheduler)
    BY <1>1, <2>1
  <2> HIDE DEF q
  <2> QED
    BY <1>2, <1>3, <2>1, <2>2, NewPromiseAt
<1>5. Promised(promise', future)
  BY <1>1, <1>2, <1>4, PromisedNew
<1> HIDE DEF q
<1>6. /\ Stacked(future, promise', ctx, sched, stack') /\ SameBatch(stack, stack')
      /\ Steady(stack) /\ Steady(stack')
      /\ \A p : Frees(stack', p) <=> Frees(stack, p)
  <2>1. \A p \in Promises : promise[p].st # "none" => promise'[p] = promise[p]
    BY <1>3, <1>4 DEF Apartly
  <2>2. PICK k \in {"user", "return"} : k = "user"
    OBVIOUS
  <2>3. At(k) /\ q \in Settled \cup Promises /\ promise'[q].cancel \in {"user", "dummy"}
        /\ promise'[q].cancel # "dummy"
    BY <1>1, <1>3, <1>4, <2>2
  <2>4. PICK ps : ps = promise'
    OBVIOUS
  <2>5. /\ Stacked(future, ps, ctx, sched, stack') /\ SameBatch(stack, stack')
        /\ Steady(stack) /\ Steady(stack')
        /\ \A p : Frees(stack', p) <=> Frees(stack, p)
    BY <1>1, <1>3, <1>4, <2>1, <2>3, <2>4, ReturnedStacked
  <2> QED
    BY <2>4, <2>5
<1>7. SameTasks(future, stack, future', stack') /\ SameEntries(future, future')
  BY <1>1, <1>6, SameObjects
<1>8. SamePromises(promise, stack, promise', stack')
  BY <1>3, <1>4, <1>6 DEF SamePromises, Apartly
<1> QED
  BY <1>1, <1>2, <1>5, <1>6, <1>7, <1>8, OwnStep

\* The number of a new future is not taken.
LEMMA NewRoom ==
    ASSUME BaseInv, RoomF(1)
    PROVE  FreshFuture \in Futures /\ ~Made(future, FreshFuture)
<1>1. PICK n \in 0..MaxFuture : Numbered(future, n) /\ FreshFuture = n + 1
  BY RoomFacts
<1>2. n + 1 + 1 - 1 \in Futures
  BY <1>1 DEF RoomF
<1>3. n + 1 \in Futures /\ ~(n + 1 <= n)
  BY <1>2 DEF Futures
<1> QED
  BY <1>1, <1>3 DEF Numbered

\* A new future stands beside those that were there.
LEMMA AddedFacts ==
    ASSUME NEW fs, Good(fs), NEW gs, NEW m \in Futures, ~Made(fs, m), NEW kind, NEW data,
           Added(fs, gs, m, kind, data)
    PROVE  /\ fs[m].st = "none" /\ fs[m].data = None /\ fs[m].cb = "null" /\ fs[m].kind = "null"
           /\ SameEntries(fs, gs)
           /\ \A g \in Futures : gs[g].promise = fs[g].promise
           /\ \A g \in Futures : fs[g].cb = "dispatched" => gs[g].cb = "dispatched"
<1>1. fs[m] = NoFuture
  BY FutureFields DEF LifeOK, Made
<1>2. /\ fs[m].st = "none" /\ fs[m].data = None /\ fs[m].cb = "null" /\ fs[m].kind = "null"
      /\ fs[m].promise = None /\ fs[m].scheduled_entry = FALSE
  BY <1>1 DEF NoFuture
<1>3. SameEntries(fs, gs)
  BY <1>2 DEF SameEntries, Added, Tied
<1>4. \A g \in Futures : gs[g].promise = fs[g].promise
  BY <1>2 DEF Added, Tied
<1>5. \A g \in Futures : fs[g].cb = "dispatched" => gs[g].cb = "dispatched"
  BY <1>2 DEF Added, Tied
<1> QED
  BY <1>2, <1>3, <1>4, <1>5

\* The futures of fs are those of gs but for the links of the chains, and
\* those that are new call no callback of the library.
Beside(fs, gs) ==
    /\ SameEntries(fs, gs)
    /\ \A g \in Futures :
         /\ gs[g].promise = fs[g].promise /\ TaskAt(gs[g], fs[g])
         /\ fs[g].cb = "dispatched" => gs[g].cb = "dispatched"

\* So it is with a callback of the user, and with none.
LEMMA AddedBeside ==
    ASSUME NEW fs, Good(fs), NEW gs, NEW m \in Futures, ~Made(fs, m),
           Added(fs, gs, m, "user", None) \/ Added(fs, gs, m, "null", None)
    PROVE  Beside(fs, gs)
<1>1. PICK kind, data : Added(fs, gs, m, kind, data) /\ kind \in {"user", "null"} /\ data = None
  OBVIOUS
<1>2. /\ fs[m].st = "none" /\ fs[m].data = None /\ fs[m].cb = "null" /\ fs[m].kind = "null"
      /\ SameEntries(fs, gs)
      /\ \A g \in Futures : gs[g].promise = fs[g].promise
      /\ \A g \in Futures : fs[g].cb = "dispatched" => gs[g].cb = "dispatched"
  BY <1>1, AddedFacts
<1>3. ASSUME NEW g \in Futures
      PROVE  TaskAt(gs[g], fs[g])
  <2>1. CASE g = m
    <3>1. ~DueAt(fs[m]) /\ ~DueAt(gs[m])
      BY <1>1, <1>2 DEF DueAt, Added
    <3> QED
      BY <1>1, <1>2, <2>1, <3>1 DEF TaskAt, Added
  <2>2. CASE g # m
    BY <1>1, <2>2, TiedTask DEF Added
  <2> QED
    BY <2>1, <2>2
<1> QED
  BY <1>2, <1>3 DEF Beside

\* A callback of the user returns eina_future_as_value(f).
LEMMA ReturnFutureOwn ==
    ASSUME Calm, BaseInv, OwnInv, NEW f \in Futures, ReturnFuture(f)
    PROVE  OwnInv'
<1> DEFINE q == FreshPromise
           m == FreshFuture
<1>1. /\ At("user") /\ RoomP /\ RoomF(1) /\ Returned(q) /\ UNCHANGED <<sched, pending, ctx>>
      /\ promise' = NewPromise(promise, q, "dummy", TRUE)
      /\ future' = ThenNew(future, f, m, "proxy", q)
      /\ future[f].st = "live" /\ future[f].cb = "set" /\ future[f].next = None
      /\ stack[2].k = "dispatch"
  BY DEF ReturnFuture, Held, Calm
<1>2. /\ Good(future) /\ Linked(future) /\ Promised(promise, future) /\ ctx \in CtxType
      /\ promise \in [Promises -> PromiseType]
      /\ Proxied(promise, future, stack) /\ Gathered(ctx, promise, future, stack)
      /\ Booked(sched, pending, future, stack)
  BY OwnFacts DEF Rest
<1>3. q \in Promises /\ promise[q].st = "none"
  BY <1>1, <1>2, FreshPromiseFacts DEF Promised
<1>4. /\ Apartly(promise, promise', q) /\ promise'[q].st = "live" /\ promise'[q].cancel = "dummy"
      /\ promise'[q].future = None /\ promise'[q].ended = 0
  <2>1. PICK c \in {"user", "all", "race", "dummy"} : c = "dummy"
    OBVIOUS
  <2>2. PICK b \in BOOLEAN : b = TRUE
    OBVIOUS
  <2>3. promise' = NewPromise(promise, q, c, b)
    BY <1>1, <2>1, <2>2
  <2> HIDE DEF q
  <2> QED
    BY <1>2, <1>3, <2>1, <2>3, NewPromiseAt
<1>5. Promised(promise', future)
  BY <1>1, <1>2, <1>4, PromisedNew
<1>6. m \in Futures /\ ~Made(future, m)
  BY <1>1, NewRoom
<1> HIDE DEF q, m
<1>7. /\ Linked(future') /\ Added(future, future', m, "proxy", q)
  <2>1. PICK kind \in FutureKinds : kind = "proxy"
    BY DEF FutureKinds
  <2>2. /\ Linked(ThenNew(future, f, m, kind, q)) /\ Added(future, ThenNew(future, f, m, kind, q), m, kind, q)
    BY <1>1, <1>2, <1>3, <1>6, <2>1, ThenNewLinked
  <2> QED
    BY <1>1, <2>1, <2>2
<1>8. /\ future[m].st = "none" /\ future[m].data = None /\ future[m].cb = "null"
      /\ SameEntries(future, future')
      /\ \A g \in Futures : future'[g].promise = future[g].promise
      /\ \A g \in Futures : future[g].cb = "dispatched" => future'[g].cb = "dispatched"
  BY <1>2, <1>6, <1>7, AddedFacts
<1>9. Promised(promise', future')
  <2>1. promise' \in [Promises -> PromiseType]
    BY <1>4 DEF Apartly
  <2> QED
    BY <1>2, <1>5, <1>8, <2>1, PromisedSame
<1>10. /\ Stacked(future', promise', ctx, sched, stack') /\ SameBatch(stack, stack')
       /\ Steady(stack) /\ Steady(stack')
       /\ \A p : Frees(stack', p) <=> Frees(stack, p)
       /\ ~Frees(stack, q)
  <2>1. \A p \in Promises : promise[p].st # "none" => promise'[p] = promise[p]
    BY <1>3, <1>4 DEF Apartly
  <2>2. PICK k \in {"user", "return"} : k = "user"
    OBVIOUS
  <2>3. At(k) /\ q \in Settled \cup Promises /\ promise'[q].cancel \in {"user", "dummy"}
    BY <1>1, <1>3, <1>4, <2>2
  <2>4. PICK ps, gs : ps = promise' /\ gs = future'
    OBVIOUS
  <2>6. /\ \A g \in Futures : future[g].cb = "dispatched" => gs[g].cb = "dispatched"
        /\ \A p \in Promises : promise[p].st # "none" => ps[p] = promise[p]
        /\ promise[q].st = "none" /\ ps[q].st = "live" /\ ps[q].future = None
        /\ ps[q].cancel \in {"user", "dummy"}
    BY <1>3, <1>4, <1>8, <2>1, <2>3, <2>4
  <2>5. /\ Stacked(gs, ps, ctx, sched, stack') /\ SameBatch(stack, stack')
        /\ Steady(stack) /\ Steady(stack')
        /\ \A p : Frees(stack', p) <=> Frees(stack, p)
        /\ ~Frees(stack, q)
    BY <1>1, <1>3, <2>2, <2>3, <2>6, ReturnedStacked
  <2> QED
    BY <2>4, <2>5
<1>11. /\ \A g : Uncalled(future, stack, g) <=> future[g].cb = "set"
       /\ \A g : Uncalled(future', stack', g) <=> future'[g].cb = "set"
  BY <1>10 DEF Uncalled, Steady
<1>12. /\ \A g \in Futures : g # m => /\ future'[g].st = future[g].st /\ future'[g].cb = future[g].cb
                                      /\ future'[g].kind = future[g].kind
                                      /\ future'[g].data = future[g].data
       /\ future'[m].kind = "proxy" /\ future'[m].data = q
  BY <1>7 DEF Added, Tied
<1>13. /\ \A p \in Promises : p # q => promise'[p] = promise[p]
       /\ \A g \in Futures : future[g].data \in Promises \cup {None} /\ future[g].data # q
  <2>1. \A g \in Futures : future[g].data \in Promises \cup {None}
    BY <1>2, FutureFields DEF FutureType
  <2>2. \A g \in Futures : future[g].data # q
    BY <1>2, <1>3, NumberFacts DEF Proxied
  <2> QED
    BY <1>4, <2>1, <2>2 DEF Apartly
<1>14. Proxied(promise', future', stack')
  <2>1. ASSUME NEW g \in Futures, future'[g].st = "live", future'[g].kind = "proxy",
               Uncalled(future', stack', g)
        PROVE  LET p == future'[g].data
               IN  promise'[p].st = "live" /\ promise'[p].cancel = "dummy" /\ ~Frees(stack', p)
    <3>1. CASE g = m
      BY <1>4, <1>10, <1>12, <3>1
    <3>2. CASE g # m
      <4>1. /\ future[g].st = "live" /\ future[g].kind = "proxy" /\ Uncalled(future, stack, g)
            /\ future'[g].data = future[g].data
        BY <1>11, <1>12, <2>1, <3>2
      <4>2. future[g].data \in Promises
        BY <1>2, <1>13, <4>1, FutureFields DEF LifeOK
      <4> QED
        BY <1>2, <1>10, <1>13, <4>1, <4>2 DEF Proxied
    <3> QED
      BY <3>1, <3>2
  <2>2. \A g \in Futures : future'[g].data # None => promise'[future'[g].data].st # "none"
    <3> SUFFICES ASSUME NEW g \in Futures, future'[g].data # None
                 PROVE  promise'[future'[g].data].st # "none"
      OBVIOUS
    <3>1. CASE g = m
      BY <1>4, <1>12, <3>1
    <3>2. CASE g # m
      BY <1>2, <1>12, <1>13, <3>2 DEF Proxied
    <3> QED
      BY <3>1, <3>2
  <2>3. \A g, h \in Futures : future'[g].data # None /\ future'[g].data = future'[h].data => g = h
    BY <1>2, <1>12, <1>13 DEF Proxied
  <2> QED
    BY <2>1, <2>2, <2>3 DEF Proxied
<1>15. Gathered(ctx, promise', future', stack')
  <2>1. \A g \in Futures : g \in ctx.futures <=>
          future'[g].st = "live" /\ future'[g].kind = "all" /\ Uncalled(future', stack', g)
    BY <1>2, <1>8, <1>11, <1>12 DEF Gathered
  <2>2. ctx.futures # {} => ctx.promise \in Promises /\ ctx.promise # q
    BY <1>2, <1>3 DEF Gathered, CtxType
  <2> QED
    BY <1>2, <1>10, <1>13, <2>1, <2>2 DEF Gathered
<1>16. Booked(sched, pending, future', stack')
  BY <1>2, <1>8, <1>10, BookedKept
<1> QED
  BY <1>1, <1>7, <1>9, <1>10, <1>14, <1>15, <1>16 DEF OwnInv, Rest

-----------------------------------------------------------------------------
(* The scheduler and the shutdown.                                         *)

\* _eina_future_cancel is called.
LEMMA FirstTop ==
    ASSUME NEW t \in Seq(FrameType), NEW fs, NEW ps, NEW cx, NEW sc,
           Below(fs, ps, cx, t), Clear(t), NEW f \in Futures, fs[f].st = "live",
           Entered(fs, ps, sc, FirstIn(fs, f)),
           NEW z, z = Frame("first", f, Error), NEW u, u = <<z>> \o t
    PROVE  Stacked(fs, ps, cx, sc, u) /\ Pushed(t, u)
<1>1. /\ z \in FrameType /\ z.k = "first" /\ z.f = f /\ PlainAt(z)
  <2>1. PICK k \in Kinds : k = "first"
    BY DEF Kinds
  <2>2. /\ k \in (Loops \cup OnFuture) \ {"race"} /\ Error \in Settled /\ Error \in Settled \cup Promises
        /\ f \in Futures \cup {None} /\ z = Frame(k, f, Error)
    BY <2>1 DEF OnFuture, Settled
  <2> QED
    BY <2>1, <2>2, FrameShape
<1>2. /\ z.k # "batch" /\ z.k \notin Leaves /\ z.k \notin {"free", "settle"}
      /\ z.k \notin Callbacks \cup {"pcancel"} /\ z.k \notin Deep \cup Loops \cup Ends \cup {"clean"}
  BY <1>1 DEF Callbacks, Leaves, Deep, Loops, Ends
<1>3. TopAt(fs, ps, cx, sc, z, t)
  BY <1>1, <1>2 DEF TopAt
<1>4. Stacked(fs, ps, cx, sc, u)
  BY <1>1, <1>3, StackedCons
<1>5. /\ u \in Seq(FrameType) /\ SameBatch(t, u) /\ Steady(u)
      /\ \A p : Frees(u, p) <=> (z.k \in {"free", "settle"} /\ z.p = p) \/ Frees(t, p)
  BY <1>1, <1>2, OneOn, ZenonT(40)
<1> QED
  BY <1>2, <1>4, <1>5 DEF Pushed

\* _eina_future_cancel is called.
LEMMA FirstPushed ==
    ASSUME BaseInv, OwnInv, Below(future, promise, ctx, stack), Clear(stack), Steady(stack),
           NEW f \in Futures, future[f].st = "live",
           Entered(future, promise, sched, FirstIn(future, f)),
           stack' = <<Frame("first", f, Error)>> \o stack,
           UNCHANGED <<promise, future, sched, pending, ctx>>
    PROVE  OwnInv'
<1>1. Linked(future) /\ Promised(promise, future) /\ stack \in Seq(FrameType)
  BY OwnFacts
<1>2. PICK z : z = Frame("first", f, Error)
  OBVIOUS
<1>3. stack' = <<z>> \o stack
  BY <1>2
<1>4. Stacked(future, promise, ctx, sched, stack') /\ Pushed(stack, stack')
  BY <1>1, <1>2, <1>3, FirstTop
<1>5. SameTasks(future, stack, future', stack') /\ SameEntries(future, future')
  BY <1>4, SameObjects DEF Pushed
<1>6. SamePromises(promise, stack, promise', stack')
  BY <1>4 DEF SamePromises, Pushed
<1> QED
  BY <1>1, <1>4, <1>5, <1>6, OwnStep DEF Pushed

\* A future with an entry waits for it alone.
LEMMA EntryFree ==
    ASSUME NEW fs, Good(fs), Linked(fs), NEW h \in Futures, fs[h].scheduled_entry = TRUE
    PROVE  /\ fs[h].st = "live" /\ fs[h].prev = None /\ fs[h].promise = None
           /\ fs[h].cb # "dispatched" /\ ~Awaited(fs, h)
<1>1. fs[h].st = "live" /\ fs[h].prev = None /\ fs[h].promise = None
  BY DEF Linked, LinkedAt
<1>2. fs[h].cb # "dispatched"
  BY DEF Linked, LinkedAt, Resting
<1>3. ~Awaited(fs, h)
  <2> SUFFICES ASSUME NEW d \in Futures, fs[d].cb = "dispatched", fs[d].next = h PROVE FALSE
    BY DEF Awaited
  <2>1. h # None
    BY NumberFacts
  <2>2. Idle(fs[h])
    BY <2>1 DEF Linked, LinkedAt
  <2> QED
    BY <2>2 DEF Idle, Resting
<1> QED
  BY <1>1, <1>2, <1>3

\* __eina_promise_cancel_all takes the next pending future.
LEMMA CancelAllLoopOwn ==
    ASSUME BaseInv, OwnInv, CancelAllLoop
    PROVE  OwnInv'
<1> DEFINE t == Tail(stack)
           x == Top
           z == Frame("first", Head(pending), Error)
<1>1. /\ At("cancelall") /\ UNCHANGED <<promise, future, sched, pending, ctx>>
      /\ pending = <<>> => stack' = <<>> \o t
      /\ pending # <<>> => stack' = <<z, x>> \o t
  BY DEF CancelAllLoop, Instead
<1>2. /\ x \in FrameType /\ t \in Seq(FrameType) /\ x.k = "cancelall" /\ stack = <<x>> \o t
      /\ TopAt(future, promise, ctx, sched, x, t) /\ PlainAt(x)
      /\ SameBatch(stack, t) /\ ("cancelall" \notin Leaves => Steady(stack))
      /\ \A q : Frees(stack, q) <=> ("cancelall" \in {"free", "settle"} /\ x.p = q) \/ Frees(t, q)
  BY <1>1, TopOff
<1>3. /\ Good(future) /\ Linked(future) /\ Promised(promise, future) /\ pending \in Seq(Futures)
      /\ Booked(sched, pending, future, stack)
  BY OwnFacts DEF Rest
<1>4. /\ Below(future, promise, ctx, t) /\ Clear(t) /\ Fits(future, promise, ctx, x, t)
      /\ Steady(stack) /\ t = <<>> /\ x.k \notin Loops
  BY <1>2 DEF TopAt, Callbacks, Leaves, Deep, Loops, Fits
<1> HIDE DEF t, x
<1>5. CASE pending = <<>>
  <2>1. stack' = t
    BY <1>1, <1>2, <1>5, NoStack
  <2>2. Stacked(future, promise, ctx, sched, stack') /\ Steady(stack')
    BY <1>2, <1>4, <2>1, StackedPop, BelowFacts
  <2>3. SameTasks(future, stack, future', stack') /\ SameEntries(future, future')
    BY <1>1, <1>4, <2>2, SameObjects
  <2>4. SamePromises(promise, stack, promise', stack')
    BY <1>1, <1>2, <2>1 DEF SamePromises
  <2> QED
    BY <1>1, <1>2, <1>3, <2>1, <2>2, <2>3, <2>4, OwnStep
<1>6. CASE pending # <<>>
  <2>1. PICK h \in Futures : h = Head(pending) /\ Among(pending, h)
    <3>1. Head(pending) = pending[1] /\ 1 \in DOMAIN pending /\ Head(pending) \in Futures
      BY <1>3, <1>6
    <3> QED
      BY <3>1 DEF Among
  <2>2. future[h].scheduled_entry = TRUE
    BY <1>3, <2>1 DEF Booked
  <2>3. h \in Entries(sched.futures)
    <3>1. ~InBatch(stack, h)
      BY <1>2, <1>4, EmptyStack DEF SameBatch
    <3> QED
      BY <1>3, <2>1, <2>2, <3>1 DEF Booked
  <2>4. /\ future[h].st = "live" /\ future[h].prev = None /\ future[h].promise = None
        /\ future[h].cb # "dispatched" /\ ~Awaited(future, h)
    BY <1>3, <2>2, EntryFree
  <2>5. FirstIn(future, h) = h
    BY <1>3, <2>4, FirstFacts
  <2>6. Entered(future, promise, sched, FirstIn(future, h))
    BY <2>3, <2>4, <2>5 DEF Entered
  <2>7. z \in FrameType
    <3>1. PICK k \in Kinds : k = "first"
      BY DEF Kinds
    <3>2. Error \in Settled \cup Promises /\ h \in Futures \cup {None} /\ z = Frame(k, h, Error)
      BY <2>1, <3>1 DEF Settled
    <3> QED
      BY <3>1, <3>2, FrameShape
  <2>8. stack' = <<z>> \o stack
    <3> HIDE DEF z
    <3>1. <<z, x>> \o t = <<z>> \o (<<x>> \o t)
      BY <1>2, <2>7, PairCons
    <3> QED
      BY <1>1, <1>2, <1>6, <3>1
  <2>9. Below(future, promise, ctx, stack)
    BY <1>2, <1>4, BelowCons
  <2>10. Clear(stack)
    BY <1>2, <1>4, ConsFacts DEF Clear
  <2> QED
    BY <1>1, <1>4, <2>1, <2>4, <2>6, <2>8, <2>9, <2>10, FirstPushed
<1> QED
  BY <1>5, <1>6

\* The list _futures_dispatch_cb works on, as a frame.
LEMMA BatchShape ==
    ASSUME NEW l \in Seq(Entry), NEW x, x = Fr("batch", None, None, Plain, l)
    PROVE  /\ x \in FrameType /\ x.k = "batch" /\ x.f = None /\ x.p = None /\ x.v = Plain /\ x.l = l
           /\ PlainAt(x)
<1>1. x \in FrameType /\ x.k = "batch" /\ x.f = None /\ x.p = None /\ x.v = Plain /\ x.l = l
  BY DEF Fr, FrameType, Kinds, Settled
<1> QED
  BY <1>1 DEF PlainAt, OnPromise, Ends, Settled

\* It is the only frame, or has those above it that it has called.
LEMMA BatchAlone ==
    ASSUME NEW fs, NEW ps, NEW cx, NEW sc, NEW x \in FrameType, x.k = "batch", PlainAt(x),
           NEW t \in Seq(FrameType), t = <<>>, NEW u, u = <<x>> \o t
    PROVE  /\ u \in Seq(FrameType) /\ Below(fs, ps, cx, u) /\ Clear(u) /\ Steady(u)
           /\ Stacked(fs, ps, cx, sc, u)
           /\ \A p : ~Frees(u, p)
           /\ \A f : InBatch(u, f) <=> f \in Entries(x.l)
           /\ NoTwins(u) <=> Distinct(x.l)
<1>4. /\ Below(fs, ps, cx, t) /\ \A f : ~InBatch(t, f)
      /\ \A p : ~Frees(t, p)
      /\ NoTwins(t)
  BY EmptyStack
<1>5. Fits(fs, ps, cx, x, t)
  BY DEF Fits, DeepAt, Deep, Loops, Clear
<1>6. Below(fs, ps, cx, u)
  BY <1>4, <1>5, BelowCons
<1>7. u \in Seq(FrameType) /\ u # <<>> /\ u[1] = x
  BY ConsFacts
<1>8. Clear(u) /\ Steady(u)
  BY <1>7 DEF Clear, Steady, Loops, Leaves
<1>9. /\ \A p : Frees(u, p) <=> (x.k \in {"free", "settle"} /\ x.p = p) \/ Frees(t, p)
      /\ \A f : InBatch(u, f) <=> f \in Entries(x.l) \/ InBatch(t, f)
      /\ NoTwins(u) <=> Distinct(x.l) /\ NoTwins(t)
  BY RunsCons
<1>10. Stacked(fs, ps, cx, sc, u)
  BY <1>6, <1>7, <1>8, StackedPop
<1> QED
  BY <1>4, <1>6, <1>7, <1>8, <1>9, <1>10

\* _futures_dispatch_cb takes the list.
LEMMA FuturesDispatchOwn ==
    ASSUME BaseInv, OwnInv, FuturesDispatch
    PROVE  OwnInv'
<1> DEFINE l == sched.futures
           x == Fr("batch", None, None, Plain, l)
<1>1. /\ stack = <<>> /\ stack' = <<x>> /\ sched' = [futures |-> <<>>, listener |-> FALSE]
      /\ UNCHANGED <<promise, future, pending, ctx, calls>>
  BY DEF FuturesDispatch
<1>2. /\ Linked(future) /\ Promised(promise, future) /\ l \in Seq(Entry)
      /\ Booked(sched, pending, future, stack)
  BY OwnFacts DEF Rest
<1>3. /\ x \in FrameType /\ x.k = "batch" /\ x.l = l /\ PlainAt(x)
  BY <1>2, BatchShape
<1>4. Distinct(l) /\ sched'.futures = <<>>
  BY <1>1, <1>2 DEF Booked
<1> HIDE DEF x, l
<1>5. PICK t \in Seq(FrameType) : t = <<>> /\ stack' = <<x>> \o t
  <2>1. <<>> \in Seq(FrameType)
    OBVIOUS
  <2> QED
    BY <1>1, <1>3, <2>1, ConsCons
<1>6. /\ Steady(stack') /\ \A p : ~Frees(stack', p)
      /\ \A f : InBatch(stack', f) <=> f \in Entries(l)
      /\ NoTwins(stack')
  BY <1>3, <1>4, <1>5, BatchAlone
<1>7. Stacked(future, promise, ctx, sched', stack')
  <2>1. PICK sc : sc = sched'
    OBVIOUS
  <2>2. Stacked(future, promise, ctx, sc, stack')
    BY <1>3, <1>5, BatchAlone
  <2> QED
    BY <2>1, <2>2
<1>8. Steady(stack)
  BY <1>1 DEF Steady
<1>9. SameTasks(future, stack, future', stack')
  BY <1>1, <1>6, <1>8, SameObjects
<1>10. SamePromises(promise, stack, promise', stack')
  BY <1>1, <1>6 DEF SamePromises
<1>11. Booked(sched', pending', future', stack')
  <2>1. Distinct(sched'.futures) /\ \A f : f \notin Entries(sched'.futures)
    BY <1>4 DEF Distinct, Entries
  <2>2. \A f : ~InBatch(stack, f)
    BY <1>1, EmptyStack
  <2>3. /\ Lone(pending)
        /\ \A f \in Futures :
             /\ future[f].scheduled_entry = TRUE <=> f \in Entries(l) \/ InBatch(stack, f)
             /\ future[f].scheduled_entry = TRUE <=> Among(pending, f)
    BY <1>2 DEF Booked, l
  <2> QED
    BY <1>1, <1>6, <2>1, <2>2, <2>3 DEF Booked
<1> QED
  BY <1>1, <1>2, <1>7, <1>9, <1>10, <1>11, OwnListStep

Lost(fs, gs, h) ==
    \A f \in Futures : gs[f].scheduled_entry = TRUE <=> fs[f].scheduled_entry = TRUE /\ f # h
Taken(fs, h) == [fs EXCEPT ![h].scheduled_entry = FALSE]

\* The entry of h is taken out of the batch and h is dispatched.
LEMMA EntryTaken ==
    ASSUME NEW fs, Good(fs), Linked(fs), NEW ps \in [Promises -> PromiseType], Promised(ps, fs),
           NEW h \in Futures, fs[h].scheduled_entry = TRUE,
           NEW gs, gs = Taken(fs, h)
    PROVE  /\ Linked(gs) /\ Promised(ps, gs) /\ Own(gs, h)
           /\ \A f \in Futures : TaskAt(gs[f], fs[f])
           /\ Lost(fs, gs, h)
<1>3. Retied(fs, gs, h) /\ gs[h].promise = fs[h].promise /\ gs[h].scheduled_entry = FALSE
  <2>1. PICK b : b = FALSE
    OBVIOUS
  <2>2. gs = WithEntry(fs, h, b)
    BY <2>1 DEF WithEntry, Taken
  <2>3. Retied(fs, gs, h) /\ gs[h].promise = fs[h].promise /\ gs[h].scheduled_entry = b
    BY <2>2, EntryAt
  <2> QED
    BY <2>1, <2>3
<1>4. /\ fs[h].st = "live" /\ fs[h].prev = None /\ fs[h].promise = None
      /\ fs[h].cb # "dispatched" /\ ~Awaited(fs, h)
  BY EntryFree
<1>5. Linked(gs)
  BY <1>3, <1>4, RetiedLinked
<1>6. \A f \in Futures : gs[f].promise = fs[f].promise
  BY <1>3 DEF Retied
<1>7. Promised(ps, gs)
  BY <1>6, PromisedSame
<1>8. Own(gs, h)
  <2>1. Idle(gs[h])
    BY <1>3, <1>4 DEF Idle, Resting, Retied
  <2>2. ~Awaited(gs, h)
    BY <1>3, <1>4 DEF Awaited, Retied
  <2> QED
    BY <2>1, <2>2 DEF Own
<1>9. \A f \in Futures : TaskAt(gs[f], fs[f])
  BY <1>3 DEF Retied, TaskAt, DueAt
<1> QED
  BY <1>3, <1>5, <1>7, <1>8, <1>9 DEF Retied, Lost

\* _scheduled_entry_cb
LEMMA ScheduledEntryCbOwn ==
    ASSUME BaseInv, OwnInv, ScheduledEntryCb
    PROVE  OwnInv'
<1> DEFINE t == Tail(stack)
           x == Top
           l == x.l
           e == Head(l)
           r == [x EXCEPT !.l = Tail(@)]
           z == Frame("dispatch", e.f, e.v)
<1>1. /\ At("batch") /\ UNCHANGED <<promise, sched, ctx, calls>>
      /\ IF l = <<>>
         THEN stack' = <<>> \o t /\ UNCHANGED <<future, pending>>
         ELSE IF ~future[e.f].scheduled_entry
         THEN stack' = <<r>> \o t /\ UNCHANGED <<future, pending>>
         ELSE /\ pending' = Without(pending, e.f)
              /\ future' = [future EXCEPT ![e.f].scheduled_entry = FALSE]
              /\ stack' = <<z, r>> \o t
  BY DEF ScheduledEntryCb, Instead
<1>2. /\ x \in FrameType /\ t \in Seq(FrameType) /\ x.k = "batch" /\ stack = <<x>> \o t
      /\ TopAt(future, promise, ctx, sched, x, t) /\ PlainAt(x)
  BY <1>1, OwnTop
<1>3. /\ Good(future) /\ Linked(future) /\ Promised(promise, future)
      /\ promise \in [Promises -> PromiseType]
      /\ pending \in Seq(Futures) /\ Booked(sched, pending, future, stack)
  BY OwnFacts DEF Rest
<1>4. t = <<>>
  BY <1>2 DEF TopAt, Deep, Loops, Fits
<1>5. /\ Steady(stack) /\ \A p : ~Frees(stack, p)
      /\ \A f : InBatch(stack, f) <=> f \in Entries(l)
      /\ NoTwins(stack) <=> Distinct(l)
  BY <1>2, <1>4, BatchAlone
<1>6. Distinct(l) /\ l \in Seq(Entry)
  BY <1>2, <1>3, <1>5, FrameFields DEF Booked
<1>7. CASE l = <<>>
  <2>1. stack' = <<>> /\ UNCHANGED <<future, pending>>
    BY <1>1, <1>2, <1>4, <1>7, NoStack
  <2>2. Stacked(future, promise, ctx, sched, stack') /\ Steady(stack')
    BY <2>1 DEF Stacked, Steady
  <2>3. SameTasks(future, stack, future', stack') /\ SameEntries(future, future')
    BY <1>5, <2>1, <2>2, SameObjects
  <2>4. SamePromises(promise, stack, promise', stack')
    BY <1>1, <2>1, EmptyStack DEF SamePromises
  <2>5. SameBatch(stack, stack')
    <3>1. \A f : f \notin Entries(l)
      BY <1>7 DEF Entries
    <3> QED
      BY <1>5, <2>1, <3>1, EmptyStack DEF SameBatch
  <2> QED
    BY <1>1, <1>3, <2>1, <2>2, <2>3, <2>4, <2>5, OwnStep
<1>8. CASE l # <<>>
  <2>1. /\ e \in Entry /\ Tail(l) \in Seq(Entry) /\ Distinct(Tail(l))
        /\ \A f : f \in Entries(Tail(l)) <=> f \in Entries(l) /\ f # e.f
        /\ e.f \in Entries(l)
    BY <1>6, <1>8, TailEntries
  <2>2. PICK h \in Futures : h = e.f
    BY <2>1 DEF Entry
  <2>3. e.v \in Settled
    BY <2>1 DEF Entry
  <2>4. future[h].scheduled_entry = TRUE /\ h \notin Entries(sched.futures)
    BY <1>3, <1>5, <2>1, <2>2 DEF Booked
  <2>5. /\ pending' = Without(pending, h)
        /\ future' = [future EXCEPT ![h].scheduled_entry = FALSE]
        /\ stack' = <<z, r>> \o t
    BY <1>1, <1>8, <2>2, <2>4
  <2>6. /\ Linked(future') /\ Promised(promise, future') /\ Own(future', h)
        /\ \A f \in Futures : TaskAt(future'[f], future[f])
        /\ Lost(future, future', h)
    <3>3. PICK gs : gs = future'
      OBVIOUS
    <3>4. gs = Taken(future, h)
      BY <2>5, <3>3 DEF Taken
    <3>5. /\ Linked(gs) /\ Promised(promise, gs) /\ Own(gs, h)
          /\ \A f \in Futures : TaskAt(gs[f], future[f])
          /\ Lost(future, gs, h)
      BY <1>3, <2>4, <3>4, EntryTaken
    <3> QED
      BY <3>3, <3>5
  <2>7. /\ r \in FrameType /\ r.k = "batch" /\ r.l = Tail(l) /\ PlainAt(r)
    <3>1. \A y \in FrameType : \A m \in Seq(Entry) :
            LET w == [y EXCEPT !.l = m]
            IN  w \in FrameType /\ w.k = y.k /\ w.l = m /\ w.f = y.f /\ w.p = y.p /\ w.v = y.v
      BY DEF FrameType
    <3>2. PICK m \in Seq(Entry) : m = Tail(l)
      BY <2>1
    <3>3. r = [x EXCEPT !.l = m]
      BY <3>2, Zenon
    <3> HIDE DEF x, l, r
    <3>4. r \in FrameType /\ r.k = x.k /\ r.l = m /\ r.f = x.f /\ r.p = x.p /\ r.v = x.v
      BY <1>2, <3>1, <3>3
    <3> QED
      BY <1>2, <3>2, <3>4 DEF PlainAt
  <2>8. /\ z \in FrameType /\ z.k = "dispatch" /\ z.f = h /\ z.l = <<>> /\ PlainAt(z)
    <3>1. PICK k \in Loops : k = "dispatch"
      BY DEF Loops
    <3>2. PICK b : b = z /\ b = Frame(k, h, e.v)
      BY <2>2, <3>1
    <3>3. h \in Futures \cup {None}
      OBVIOUS
    <3> HIDE DEF z, e
    <3> QED
      BY <2>3, <3>1, <3>2, <3>3, LoopShape
  <2> HIDE DEF z, r, e
  <2> DEFINE w == <<r>> \o t
  <2>9. /\ w \in Seq(FrameType) /\ Below(future', promise, ctx, w) /\ Clear(w)
        /\ \A p : ~Frees(w, p)
        /\ \A f : InBatch(w, f) <=> f \in Entries(Tail(l))
        /\ NoTwins(w)
    <3>1. PICK gs : gs = future'
      OBVIOUS
    <3>2. PICK u : u = w
      OBVIOUS
    <3>3. /\ u \in Seq(FrameType) /\ Below(gs, promise, ctx, u) /\ Clear(u)
          /\ \A p : ~Frees(u, p)
          /\ \A f : InBatch(u, f) <=> f \in Entries(Tail(l))
          /\ NoTwins(u)
      BY <1>2, <1>4, <2>1, <2>7, <3>2, BatchAlone
    <3> QED
      BY <3>1, <3>2, <3>3
  <2>10. stack' = <<z>> \o w
    BY <1>2, <1>4, <2>5, <2>7, <2>8, PairCons
  <2> HIDE DEF w
  <2>11. /\ z.k \in Loops /\ z.k # "batch" /\ z.k \notin Leaves /\ z.k \notin {"free", "settle"}
    BY <2>8 DEF Loops, Leaves
  <2>12. TopAt(future', promise, ctx, sched, z, w)
    BY <2>6, <2>8, <2>9, <2>11, LoopTop
  <2>13. Stacked(future', promise, ctx, sched, stack')
    BY <2>8, <2>9, <2>10, <2>12, StackedCons
  <2>14. /\ SameBatch(w, stack') /\ Steady(stack')
         /\ \A p : Frees(stack', p) <=> (z.k \in {"free", "settle"} /\ z.p = p) \/ Frees(w, p)
    BY <2>8, <2>9, <2>10, <2>11, OneOn
  <2>15. SameTasks(future, stack, future', stack')
    BY <1>5, <2>6, <2>14, SteadyTasks
  <2>16. SamePromises(promise, stack, promise', stack')
    BY <1>1, <2>9, <2>11, <2>14 DEF SamePromises
  <2>17. Booked(sched', pending', future', stack')
    <3>1. /\ Lone(pending') /\ \A f : Among(pending', f) <=> Among(pending, f) /\ f # h
      BY <1>3, <2>5, WithoutExact DEF Booked
    <3>2. /\ NoTwins(stack')
          /\ \A f \in Futures : InBatch(stack', f) <=> f \in Entries(l) /\ f # h
      BY <2>1, <2>2, <2>9, <2>14 DEF SameBatch
    <3>3. \A f \in Futures : future'[f].scheduled_entry = TRUE <=> future[f].scheduled_entry = TRUE /\ f # h
      BY <2>6 DEF Lost
    <3>4. /\ Distinct(sched.futures)
          /\ \A f \in Futures : ~(f \in Entries(sched.futures) /\ f \in Entries(l))
          /\ \A f \in Futures :
               /\ future[f].scheduled_entry = TRUE <=> f \in Entries(sched.futures) \/ f \in Entries(l)
               /\ future[f].scheduled_entry = TRUE <=> Among(pending, f)
      BY <1>3, <1>5 DEF Booked
    <3> QED
      BY <1>1, <2>4, <3>1, <3>2, <3>3, <3>4 DEF Booked
  <2> QED
    BY <1>1, <2>6, <2>13, <2>15, <2>16, <2>17, OwnListStep
<1> QED
  BY <1>7, <1>8

-----------------------------------------------------------------------------
(* The calls of the user.                                                  *)

\* The user runs at top level or in a callback: every frame waits.
LEMMA CallerFacts ==
    ASSUME BaseInv, OwnInv, CanCall
    PROVE  /\ Below(future, promise, ctx, stack) /\ Clear(stack) /\ Steady(stack)
           /\ \A p : Frees(stack, p) =>
                p \in Promises /\ Releasing(promise, p) /\ promise[p].future = None
           /\ Cleans(stack) => Released(ctx)
           /\ \A f : Runs(stack, f) => f \in Futures /\ future[f].cb = "dispatched"
<1>1. stack \in Seq(FrameType)
  BY OwnFacts
<1>2. Below(future, promise, ctx, stack) /\ Clear(stack) /\ Steady(stack)
  <2>1. CASE stack = <<>>
    BY <2>1, EmptyStack
  <2>2. CASE stack # <<>>
    <3>1. PICK k \in Callbacks : k = "user"
      BY DEF Callbacks
    <3>2. At(k)
      BY <2>2, <3>1 DEF CanCall, At
    <3>3. PICK t, x : t = Tail(stack) /\ x = Top
      OBVIOUS
    <3>4. /\ x \in FrameType /\ t \in Seq(FrameType) /\ x.k = k /\ stack = <<x>> \o t
          /\ PlainAt(x) /\ Below(future, promise, ctx, t)
      BY <3>2, <3>3, CallTop
    <3>5. x.k \in {"return", "user"}
      BY <3>1, <3>4
    <3> QED
      BY <3>4, <3>5, ReturnFits
  <2> QED
    BY <2>1, <2>2
<1>3. /\ \A f : Runs(stack, f) => f \in Futures /\ future[f].cb = "dispatched"
      /\ \A p : Frees(stack, p) => p \in Promises /\ Releasing(promise, p) /\ promise[p].future = None
      /\ Cleans(stack) => Released(ctx)
  BY <1>1, <1>2, BelowFacts
<1> QED
  BY <1>2, <1>3

\* A call of the user leaves the promises of the library alone.
Spared(ps, qs) ==
    \A p \in Promises :
        /\ ps[p].st = "live" /\ ps[p].cancel # "user" =>
             /\ qs[p].st = "live" /\ qs[p].cancel = ps[p].cancel
             /\ ps[p].future = None => qs[p].future = None
        /\ ps[p].st # "none" => qs[p].st # "none"

\* The frames below it still fit.
LEMMA StackStays ==
    ASSUME BaseInv, OwnInv, CanCall, NEW gs, NEW qs, NEW dx, NEW sc,
           \A f \in Futures : future[f].cb = "dispatched" => gs[f].cb = "dispatched",
           Spared(promise, qs), Released(ctx) => Released(dx)
    PROVE  Stacked(gs, qs, dx, sc, stack) /\ SamePromises(promise, stack, qs, stack)
<1>1. /\ Below(future, promise, ctx, stack) /\ Clear(stack)
      /\ \A p : Frees(stack, p) =>
           p \in Promises /\ Releasing(promise, p) /\ promise[p].future = None
      /\ Cleans(stack) => Released(ctx)
      /\ \A f : Runs(stack, f) => f \in Futures /\ future[f].cb = "dispatched"
  BY CallerFacts
<1>2. stack \in Seq(FrameType)
  BY OwnFacts
<1>3. \A p \in Promises : Frees(stack, p) => Releasing(qs, p) /\ qs[p].future = None
  BY <1>1 DEF Releasing, Spared
<1>4. Below(gs, qs, dx, stack)
  BY <1>1, <1>2, <1>3, BelowKept
<1>5. Stacked(gs, qs, dx, sc, stack)
  BY <1>1, <1>2, <1>4, StackedPop
<1>6. SamePromises(promise, stack, qs, stack)
  BY DEF SamePromises, Spared
<1> QED
  BY <1>5, <1>6

\* A chain that may be cancelled is there to the first future.
LEMMA CancelEntered ==
    ASSUME Calm, BaseInv, OwnInv, NEW f \in Futures, CancelAllowed(f),
           future[f].st = "live", future[f].cb # "dispatched"
    PROVE  Entered(future, promise, sched, FirstIn(future, f))
<1> DEFINE h == FirstIn(future, f)
<1>1. Good(future) /\ Linked(future)
  BY OwnFacts
<1>2. h \in Futures /\ future[h].st = "live" /\ future[h].cb # "dispatched" /\ future[h].prev = None
  BY <1>1, FirstLinked
<1>3. First(h) = First(f)
  <2>1. First(f) = h
    BY FirstInFuture
  <2> HIDE DEF h
  <2>2. FirstIn(future, h) = h
    BY <1>1, <1>2, FirstFacts
  <2> QED
    BY <1>2, <2>1, <2>2, FirstInFuture
<1> HIDE DEF h
<1>4. h \in Doomed(f)
  BY <1>2, <1>3 DEF Doomed, Chain
<1>5. /\ ~Batched(h) /\ ~WaitsForLibrary(h)
      /\ \A d \in Futures : ~(future[d].cb = "dispatched" /\ future[d].next = h)
  BY <1>2, <1>4 DEF CancelAllowed, Calm
<1>6. future[h].promise # None => promise[future[h].promise].cancel = "user"
  BY <1>5 DEF WaitsForLibrary
<1>7. future[h].scheduled_entry = TRUE => h \in Entries(sched.futures)
  BY <1>5 DEF Batched, Entries
<1> QED
  BY <1>2, <1>5, <1>6, <1>7 DEF Entered, Awaited, h

\* eina_future_new on a promise that has a future.
LEMMA FutureNewTwiceOwn ==
    ASSUME Calm, BaseInv, OwnInv, NEW p \in Promises, FutureNewTwice(p)
    PROVE  OwnInv'
<1> DEFINE f == promise[p].future
<1>1. /\ CanCall /\ f # None /\ CancelAllowed(f)
      /\ stack' = <<Frame("first", f, Error)>> \o stack
      /\ UNCHANGED <<promise, future, sched, pending, ctx>>
  BY DEF FutureNewTwice
<1>2. Linked(future) /\ Promised(promise, future) /\ promise \in [Promises -> PromiseType]
  BY OwnFacts
<1>3. f \in Futures
  BY <1>1, <1>2 DEF PromiseType
<1>4. future[f].promise = p
  BY <1>1, <1>2 DEF Promised, PromiseAt
<1> HIDE DEF f
<1>5. future[f].st = "live" /\ future[f].cb # "dispatched"
  BY <1>2, <1>3, <1>4, NumberFacts DEF Linked, LinkedAt, Resting
<1>6. Entered(future, promise, sched, FirstIn(future, f))
  BY <1>1, <1>3, <1>5, CancelEntered
<1>7. Below(future, promise, ctx, stack) /\ Clear(stack) /\ Steady(stack)
  BY <1>1, CallerFacts
<1> QED
  BY <1>1, <1>3, <1>5, <1>6, <1>7, FirstPushed

\* eina_future_cancel
LEMMA CancelOwn ==
    ASSUME Calm, BaseInv, OwnInv, NEW f \in Futures, Cancel(f)
    PROVE  OwnInv'
<1>1. /\ CanCall /\ CancelAllowed(f) /\ future[f].st = "live" /\ future[f].cb # "dispatched"
      /\ stack' = <<Frame("first", f, Error)>> \o stack
      /\ UNCHANGED <<promise, future, sched, pending, ctx>>
  BY DEF Cancel, Held
<1>2. Entered(future, promise, sched, FirstIn(future, f))
  BY <1>1, CancelEntered
<1>3. Below(future, promise, ctx, stack) /\ Clear(stack) /\ Steady(stack)
  BY <1>1, CallerFacts
<1> QED
  BY <1>1, <1>2, <1>3, FirstPushed

\* What is behind f is cancelled with f.
LEMMA NextEntered ==
    ASSUME Calm, BaseInv, OwnInv, NEW f \in Futures, CancelAllowed(f),
           future[f].st = "live", future[f].cb # "dispatched", NEW n, n = future[f].next, n # None
    PROVE  /\ n \in Futures /\ future[n].st = "live"
           /\ Entered(future, promise, sched, FirstIn(future, n))
<1>1. Good(future) /\ Linked(future)
  BY OwnFacts
<1>2. n \in Futures
  BY <1>1, FutureFields
<1>3. future[n].st = "live" /\ future[n].prev = f
  BY <1>1, <1>2 DEF Linked, LinkedAt
<1>4. FirstIn(future, n) = FirstIn(future, f)
  BY <1>1, <1>2, <1>3, NumberFacts, FirstFacts
<1>5. Entered(future, promise, sched, FirstIn(future, f))
  BY CancelEntered
<1> QED
  BY <1>2, <1>3, <1>4, <1>5

\* eina_future_then_from_desc
LEMMA ThenOwn ==
    ASSUME Calm, BaseInv, OwnInv, NEW f \in Futures, Then(f)
    PROVE  OwnInv'
<1> DEFINE n == future[f].next
           m == FreshFuture
<1>1. /\ CanCall /\ future[f].st = "live" /\ future[f].cb # "dispatched"
      /\ UNCHANGED <<promise, sched, pending, ctx>>
      /\ IF n # None
         THEN /\ CancelAllowed(f)
              /\ stack' = <<Frame("first", n, Error)>> \o stack
              /\ UNCHANGED future
         ELSE /\ RoomF(1)
              /\ future' = ThenNew(future, f, m, "user", None)
              /\ UNCHANGED stack
  BY DEF Then, Held
<1>2. Below(future, promise, ctx, stack) /\ Clear(stack) /\ Steady(stack)
  BY <1>1, CallerFacts
<1>3. CASE n # None
  <2>1. /\ n \in Futures /\ future[n].st = "live"
        /\ Entered(future, promise, sched, FirstIn(future, n))
    BY <1>1, <1>3, NextEntered
  <2> QED
    BY <1>1, <1>2, <1>3, <2>1, FirstPushed
<1>4. CASE n = None
  <2>1. /\ RoomF(1) /\ future' = ThenNew(future, f, m, "user", None) /\ UNCHANGED stack
    BY <1>1, <1>4
  <2>2. /\ Good(future) /\ Linked(future) /\ Promised(promise, future)
        /\ promise \in [Promises -> PromiseType]
    BY OwnFacts
  <2>3. m \in Futures /\ ~Made(future, m)
    BY <2>1, NewRoom
  <2> HIDE DEF m
  <2>4. /\ Linked(future') /\ Added(future, future', m, "user", None)
    <3>1. PICK kind \in FutureKinds : kind = "user"
      BY DEF FutureKinds
    <3>2. PICK data \in Promises \cup {None} : data = None
      OBVIOUS
    <3>3. /\ Linked(ThenNew(future, f, m, kind, data))
          /\ Added(future, ThenNew(future, f, m, kind, data), m, kind, data)
      BY <1>1, <1>4, <2>2, <2>3, <3>1, ThenNewLinked
    <3> QED
      BY <2>1, <3>1, <3>2, <3>3
  <2>5. PICK gs : gs = future'
    OBVIOUS
  <2>6. Added(future, gs, m, "user", None)
    BY <2>4, <2>5
  <2>7. /\ SameEntries(future, gs)
        /\ \A g \in Futures : gs[g].promise = future[g].promise
        /\ \A g \in Futures : future[g].cb = "dispatched" => gs[g].cb = "dispatched"
        /\ \A g \in Futures : TaskAt(gs[g], future[g])
    BY <2>2, <2>3, <2>6, AddedBeside DEF Beside
  <2>8. Promised(promise, gs)
    BY <2>2, <2>7, PromisedSame
  <2>9. Spared(promise, promise)
    BY DEF Spared
  <2>10. Stacked(gs, promise, ctx, sched, stack) /\ SamePromises(promise, stack, promise, stack)
    BY <1>1, <2>7, <2>9, StackStays
  <2>11. SameTasks(future, stack, gs, stack)
    BY <1>2, <2>7, SteadyTasks
  <2>12. SameBatch(stack, stack)
    BY DEF SameBatch
  <2> QED
    BY <1>1, <2>1, <2>4, <2>5, <2>7, <2>8, <2>10, <2>11, <2>12, OwnStep
<1> QED
  BY <1>3, <1>4

\* __eina_promise_cancel_all begins.
LEMMA CancelAllOwn ==
    ASSUME BaseInv, OwnInv, CancelAll
    PROVE  OwnInv'
<1> DEFINE y == FrameP("cancelall", None, Plain)
<1>1. /\ stack = <<>> /\ stack' = <<y>> /\ UNCHANGED <<promise, future, sched, pending, ctx, calls>>
  BY DEF CancelAll
<1>2. Linked(future) /\ Promised(promise, future) /\ stack \in Seq(FrameType)
  BY OwnFacts
<1>3. y \in FrameType /\ y.k = "cancelall" /\ y.f = None /\ y.p = None /\ PlainAt(y)
  <2>1. PICK k \in {"return", "allfree", "clean", "cancelall"} : k = "cancelall"
    OBVIOUS
  <2>2. Plain \in Settled
    BY DEF Settled
  <2>3. PICK b : b = y /\ b = FrameP(k, None, Plain)
    BY <2>1
  <2> HIDE DEF y
  <2> QED
    BY <2>1, <2>2, <2>3, BareShape
<1> HIDE DEF y
<1>4. PICK t \in Seq(FrameType) : t = stack /\ t = <<>> /\ stack' = <<y>> \o t
  BY <1>1, <1>2, <1>3, ConsCons
<1>5. /\ Below(future, promise, ctx, t) /\ Clear(t) /\ Steady(t)
  BY <1>4, EmptyStack
<1>6. Fits(future, promise, ctx, y, t)
  BY <1>3, <1>4, <1>5 DEF Fits, DeepAt, Deep, Loops
<1>7. Below(future, promise, ctx, stack')
  BY <1>3, <1>4, <1>5, <1>6, BelowCons
<1>8. stack' \in Seq(FrameType) /\ stack' # <<>> /\ stack'[1] = y
  BY <1>3, <1>4, ConsFacts
<1>9. Clear(stack')
  BY <1>3, <1>8 DEF Clear, Loops
<1>10. Stacked(future, promise, ctx, sched, stack')
  BY <1>7, <1>8, <1>9, StackedPop
<1>11. y.k # "batch" /\ y.k \notin Leaves /\ y.k \notin {"free", "settle"}
  BY <1>3 DEF Leaves
<1>12. /\ SameBatch(t, stack') /\ Steady(stack')
       /\ \A p : Frees(stack', p) <=> (y.k \in {"free", "settle"} /\ y.p = p) \/ Frees(t, p)
  BY <1>3, <1>4, <1>11, OneOn
<1>13. SameTasks(future, stack, future', stack') /\ SameEntries(future, future')
  BY <1>1, <1>4, <1>5, <1>12, SameObjects
<1>14. SamePromises(promise, stack, promise', stack')
  BY <1>1, <1>4, <1>11, <1>12 DEF SamePromises
<1> QED
  BY <1>1, <1>2, <1>4, <1>10, <1>12, <1>13, <1>14, OwnStep

\* A step that only ties a future changes no task, and so on.
LEMMA TaskTrans ==
    ASSUME NEW x, NEW y, NEW z, TaskAt(y, x), TaskAt(z, y)
    PROVE  TaskAt(z, x)
  BY DEF TaskAt

\* A new promise or entry changes no task.
LEMMA RetiedTask ==
    ASSUME NEW fs, NEW gs, NEW f, Retied(fs, gs, f)
    PROVE  \A g \in Futures : TaskAt(gs[g], fs[g]) /\ gs[g].cb = fs[g].cb
  BY DEF Retied, TaskAt, DueAt

\* Nothing points to a future that was not made.
LEMMA NewAlone ==
    ASSUME NEW fs, Good(fs), NEW m \in Futures, ~Made(fs, m), NEW gs,
           \A g \in Futures : g # m => gs[g] = fs[g], gs[m].next = None
    PROVE  ~Awaited(gs, m)
<1> SUFFICES ASSUME NEW d \in Futures, gs[d].cb = "dispatched", gs[d].next = m PROVE FALSE
  BY DEF Awaited
<1>1. m # None
  BY NumberFacts
<1>2. d # m /\ fs[d].next = m
  BY <1>1
<1>3. Made(fs, m)
  BY <1>1, <1>2, FutureFields DEF LinksOK
<1> QED
  BY <1>3

\* eina_future_new(p) alone.
LEMMA OneNew ==
    ASSUME NEW fs, Good(fs), Linked(fs), NEW n \in 0..MaxFuture, Numbered(fs, n),
           NEW m \in Futures, m = n + 1,
           NEW ps \in [Promises -> PromiseType], Promised(ps, fs), NEW p \in Promises,
           ps[p].st = "live", ps[p].future = None, NEW qs, qs = LinkP(ps, p, m),
           NEW as, as = NewFuture(fs, m, "null", None), NEW gs, gs = LinkF(as, p, m)
    PROVE  /\ Good(gs) /\ Linked(gs) /\ Promised(qs, gs) /\ Numbered(gs, m)
           /\ gs[m].st = "live" /\ gs[m].next = None /\ gs[m].cb # "dispatched"
           /\ SameEntries(fs, gs)
           /\ \A g \in Futures : TaskAt(gs[g], fs[g])
           /\ \A g \in Futures : fs[g].cb = "dispatched" => gs[g].cb = "dispatched"
<1>1. PICK kind \in FutureKinds : kind = "null"
  BY DEF FutureKinds
<1>2. PICK data \in Promises \cup {None} : data = None
  OBVIOUS
<1>3. ~Made(fs, m)
  BY DEF Numbered
<1>4. /\ Linked(as) /\ Added(fs, as, m, "null", None) /\ as[m].prev = None
      /\ \A g \in Futures : g # m => as[g] = fs[g]
  <2>1. LET hs == NewFuture(fs, m, kind, data)
        IN  /\ Linked(hs) /\ Added(fs, hs, m, kind, data) /\ hs[m].prev = None
            /\ \A g \in Futures : g # m => hs[g] = fs[g]
    BY <1>1, <1>3, NewFutureLinked
  <2> QED
    BY <1>1, <1>2, <2>1
<1>5. /\ Good(as) /\ Numbered(as, m)
  <2>1. n + 1 \in Futures /\ (kind = "proxy" => data # None)
    BY <1>1
  <2>2. LET hs == NewFuture(fs, n + 1, kind, data) IN Good(hs) /\ Numbered(hs, n + 1)
    BY <2>1, NewFutureGood
  <2> QED
    BY <1>1, <1>2, <2>2
<1>7. /\ as[m].st = "live" /\ as[m].cb = "null" /\ as[m].promise = None
      /\ as[m].scheduled_entry = FALSE /\ as[m].next = None
  BY <1>4 DEF Added
<1>8. ~Awaited(as, m)
  BY <1>3, <1>4, <1>7, NewAlone
<1>9. /\ SameEntries(fs, as)
      /\ \A g \in Futures : as[g].promise = fs[g].promise
      /\ \A g \in Futures : fs[g].cb = "dispatched" => as[g].cb = "dispatched"
      /\ \A g \in Futures : TaskAt(as[g], fs[g])
  <2>1. Beside(fs, as)
    BY <1>3, <1>4, AddedBeside
  <2> QED
    BY <2>1 DEF Beside
<1>10. /\ Retied(as, gs, m) /\ gs[m].promise = p
       /\ gs[m].scheduled_entry = as[m].scheduled_entry
  BY <1>5, LinkFAt
<1>11. Linked(gs)
  BY <1>4, <1>5, <1>7, <1>8, <1>10, RetiedLinked
<1>12. Good(gs) /\ Keeps(as, gs)
  <2>1. Made(as, m)
    BY <1>7 DEF Made
  <2> QED
    BY <1>5, <2>1, LinkFGood
<1>13. Numbered(gs, m)
  BY <1>5, <1>12, KeepsNumbered
<1>14. Promised(ps, as)
  BY <1>9, PromisedSame
<1>15. /\ Apartly(ps, qs, p) /\ qs[p].st = ps[p].st
       /\ qs[p].ended = ps[p].ended /\ qs[p].future = m
  BY LinkPAt
<1>16. \A g \in Futures : g # m => gs[g].promise = as[g].promise
  BY <1>10 DEF Retied
<1>17. Promised(qs, gs)
  BY <1>5, <1>7, <1>10, <1>14, <1>15, <1>16, PromisedLinked
<1>18. SameEntries(fs, gs)
  BY <1>9, <1>10 DEF SameEntries, Retied
<1>19. \A g \in Futures : TaskAt(gs[g], as[g]) /\ gs[g].cb = as[g].cb
  BY <1>10, RetiedTask
<1>20. \A g \in Futures : TaskAt(gs[g], fs[g])
  BY <1>9, <1>19, TaskTrans
<1>21. gs[m].st = "live" /\ gs[m].next = None /\ gs[m].cb # "dispatched"
  BY <1>7, <1>10 DEF Retied
<1> QED
  BY <1>9, <1>11, <1>12, <1>13, <1>17, <1>18, <1>19, <1>20, <1>21

\* eina_future_then(eina_future_new(p), cb)
LEMMA ChainNew ==
    ASSUME NEW fs, Good(fs), Linked(fs), NEW n \in 0..MaxFuture, Numbered(fs, n),
           NEW m \in Futures, m = n + 1, NEW j \in Futures, j = m + 1,
           NEW ps \in [Promises -> PromiseType], Promised(ps, fs), NEW p \in Promises,
           ps[p].st = "live", ps[p].future = None, NEW qs, qs = LinkP(ps, p, m),
           NEW gs, gs = ThenNew(LinkF(NewFuture(fs, m, "null", None), p, m), m, j, "user", None)
    PROVE  /\ Linked(gs) /\ Promised(qs, gs) /\ SameEntries(fs, gs)
           /\ \A g \in Futures : TaskAt(gs[g], fs[g])
           /\ \A g \in Futures : fs[g].cb = "dispatched" => gs[g].cb = "dispatched"
<1>1. PICK hs, as : as = NewFuture(fs, m, "null", None) /\ hs = LinkF(as, p, m)
  OBVIOUS
<1>2. /\ Good(hs) /\ Linked(hs) /\ Promised(qs, hs) /\ Numbered(hs, m)
      /\ hs[m].st = "live" /\ hs[m].next = None /\ hs[m].cb # "dispatched"
      /\ SameEntries(fs, hs)
      /\ \A g \in Futures : TaskAt(hs[g], fs[g])
      /\ \A g \in Futures : fs[g].cb = "dispatched" => hs[g].cb = "dispatched"
  BY <1>1, OneNew
<1>3. PICK kind \in FutureKinds : kind = "user"
  BY DEF FutureKinds
<1>4. PICK data \in Promises \cup {None} : data = None
  OBVIOUS
<1>5. gs = ThenNew(hs, m, j, kind, data)
  BY <1>1, <1>3, <1>4
<1>6. ~Made(hs, j)
  BY <1>2 DEF Numbered, Futures
<1>7. Linked(gs) /\ Added(hs, gs, j, "user", None)
  <2>1. LET ks == ThenNew(hs, m, j, kind, data) IN Linked(ks) /\ Added(hs, ks, j, kind, data)
    BY <1>2, <1>3, <1>6, ThenNewLinked
  <2> QED
    BY <1>3, <1>4, <1>5, <2>1
<1>8. /\ SameEntries(hs, gs)
      /\ \A g \in Futures : gs[g].promise = hs[g].promise
      /\ \A g \in Futures : hs[g].cb = "dispatched" => gs[g].cb = "dispatched"
      /\ \A g \in Futures : TaskAt(gs[g], hs[g])
  <2>1. Beside(hs, gs)
    BY <1>2, <1>6, <1>7, AddedBeside
  <2> QED
    BY <2>1 DEF Beside
<1>9. Promised(qs, gs)
  <2>1. qs \in [Promises -> PromiseType]
    <3>1. m \in Futures \cup {None}
      OBVIOUS
    <3> QED
      BY <3>1, LinkPAt DEF Apartly
  <2> QED
    BY <1>2, <1>8, <2>1, PromisedSame
<1>10. SameEntries(fs, gs)
  BY <1>2, <1>8 DEF SameEntries
<1>11. \A g \in Futures : TaskAt(gs[g], fs[g])
  BY <1>2, <1>8, TaskTrans
<1> QED
  BY <1>2, <1>7, <1>8, <1>9, <1>10, <1>11

\* eina_future_new and eina_future_then.
LEMMA FutureNewOwn ==
    ASSUME BaseInv, OwnInv, NEW p \in Promises, FutureNew(p)
    PROVE  OwnInv'
<1> DEFINE m == FreshFuture
           ps == IF p = FreshPromise THEN NewPromise(promise, p, "user", TRUE) ELSE promise
<1>1. /\ CanCall /\ RoomF(2) /\ UNCHANGED <<sched, pending, ctx, stack>>
      /\ (p = FreshPromise /\ RoomP) \/ (Owned(p) /\ promise[p].future = None)
      /\ promise' = LinkP(ps, p, m)
      /\ future' = ThenNew(LinkF(NewFuture(future, m, "null", None), p, m), m, m + 1, "user", None)
  BY DEF FutureNew
<1>2. /\ Good(future) /\ Linked(future) /\ Promised(promise, future)
      /\ promise \in [Promises -> PromiseType]
  BY OwnFacts
<1>3. PICK n \in 0..MaxFuture : Numbered(future, n) /\ m = n + 1
  BY RoomFacts
<1>4. m \in Futures /\ m + 1 \in Futures
  BY <1>1, <1>3 DEF RoomF, Futures
<1>5. /\ ps \in [Promises -> PromiseType] /\ Promised(ps, future)
      /\ ps[p].st = "live" /\ ps[p].future = None
      /\ Apartly(promise, ps, p)
      /\ promise[p].st = "none" \/ promise[p].cancel = "user"
  <2>1. CASE p = FreshPromise /\ RoomP
    <3>1. promise[p].st = "none"
      BY <1>2, <2>1, FreshPromiseFacts DEF Promised
    <3>2. PICK c \in {"user", "all", "race", "dummy"} : c = "user"
      OBVIOUS
    <3>3. PICK b \in BOOLEAN : b = TRUE
      OBVIOUS
    <3>4. PICK qs : qs = ps /\ qs = NewPromise(promise, p, c, b)
      BY <2>1, <3>2, <3>3
    <3> HIDE DEF ps
    <3>5. /\ Apartly(promise, qs, p) /\ qs[p].st = "live" /\ qs[p].cancel = c
          /\ qs[p].future = None /\ qs[p].ended = 0
      BY <1>2, <3>4, NewPromiseAt
    <3>6. Promised(qs, future)
      BY <1>2, <2>1, <3>5, PromisedNew
    <3> QED
      BY <3>1, <3>4, <3>5, <3>6 DEF Apartly
  <2>2. CASE ~(p = FreshPromise /\ RoomP)
    <3>1. Owned(p) /\ promise[p].future = None
      BY <1>1, <2>2
    <3>2. promise[p].st = "live" /\ promise[p].cancel = "user"
      BY <3>1 DEF Owned
    <3>3. p # FreshPromise
      BY <2>2 DEF RoomP
    <3> QED
      BY <1>2, <3>1, <3>2, <3>3 DEF Apartly
  <2> QED
    BY <2>1, <2>2
<1> HIDE DEF ps, m
<1>6. /\ Linked(future') /\ Promised(promise', future') /\ SameEntries(future, future')
      /\ \A g \in Futures : TaskAt(future'[g], future[g])
      /\ \A g \in Futures : future[g].cb = "dispatched" => future'[g].cb = "dispatched"
  <2>1. PICK j \in Futures : j = m + 1
    BY <1>4
  <2>2. PICK qs, gs : qs = promise' /\ gs = future'
    OBVIOUS
  <2>3. /\ qs = LinkP(ps, p, m)
        /\ gs = ThenNew(LinkF(NewFuture(future, m, "null", None), p, m), m, j, "user", None)
    BY <1>1, <2>1, <2>2
  <2>4. /\ Linked(gs) /\ Promised(qs, gs) /\ SameEntries(future, gs)
        /\ \A g \in Futures : TaskAt(gs[g], future[g])
        /\ \A g \in Futures : future[g].cb = "dispatched" => gs[g].cb = "dispatched"
    BY <1>2, <1>3, <1>4, <1>5, <2>1, <2>3, ChainNew
  <2> QED
    BY <2>2, <2>4
<1>7. Spared(promise, promise')
  <2>1. m \in Futures \cup {None}
    BY <1>4
  <2>2. /\ Apartly(ps, promise', p) /\ promise'[p].st = ps[p].st
    BY <1>1, <1>5, <2>1, LinkPAt
  <2> QED
    BY <1>5, <2>2 DEF Spared, Apartly
<1>8. Steady(stack)
  BY <1>1, CallerFacts
<1>9. Stacked(future', promise', ctx, sched, stack) /\ SamePromises(promise, stack, promise', stack)
  BY <1>1, <1>6, <1>7, StackStays
<1>10. SameTasks(future, stack, future', stack)
  BY <1>6, <1>8, SteadyTasks
<1>11. SameBatch(stack, stack)
  BY DEF SameBatch
<1> QED
  BY <1>1, <1>6, <1>9, <1>10, <1>11, OwnStep

\* What the user owns.
OwnedWith(ps, fs, p, f) ==
    /\ ps[p].st = "live" /\ ps[p].cancel = "user" /\ ps[p].ended = 0
    /\ f \in Futures \cup {None}
    /\ \A g \in Futures : fs[g].promise = p <=> f = g
    /\ f # None => /\ fs[f].st = "live" /\ fs[f].prev = None
                   /\ fs[f].scheduled_entry = FALSE
                   /\ fs[f].cb # "dispatched" /\ ~Awaited(fs, f)

\* A promise of the user and the future that waits for it.
LEMMA OwnedFacts ==
    ASSUME BaseInv, OwnInv, NEW p \in Promises, Owned(p)
    PROVE  OwnedWith(promise, future, p, promise[p].future)
<1> DEFINE f == promise[p].future
<1>1. Good(future) /\ Linked(future) /\ Promised(promise, future) /\ promise \in [Promises -> PromiseType]
  BY OwnFacts
<1>2. promise[p].st = "live" /\ promise[p].cancel = "user"
  BY DEF Owned
<1>3. promise[p].ended = 0
  BY <1>1, <1>2 DEF Promised, PromiseAt
<1>4. f \in Futures \cup {None}
  BY <1>1 DEF PromiseType
<1>5. \A g \in Futures : future[g].promise = p <=> f = g
  BY <1>1, NumberFacts DEF Promised, PromiseAt
<1>6. ASSUME f # None
      PROVE  /\ future[f].st = "live" /\ future[f].prev = None
             /\ future[f].scheduled_entry = FALSE
             /\ future[f].cb # "dispatched" /\ ~Awaited(future, f)
  <2>1. f \in Futures /\ future[f].promise = p /\ p # None
    BY <1>4, <1>5, <1>6, NumberFacts
  <2>2. /\ future[f].st = "live" /\ future[f].prev = None /\ future[f].scheduled_entry = FALSE
        /\ future[f].cb # "dispatched"
    BY <1>1, <2>1 DEF Linked, LinkedAt, Resting
  <2>3. ~Awaited(future, f)
    BY <1>1, <1>6, <2>1 DEF Linked, LinkedAt, Resting, Idle, Awaited
  <2> QED
    BY <2>2, <2>3
<1> QED
  BY <1>2, <1>3, <1>4, <1>5, <1>6 DEF OwnedWith

\* A promise of the user goes: those of the library stay.
LEMMA UserSpared ==
    ASSUME NEW ps, NEW p \in Promises, ps[p].cancel = "user", NEW qs,
           Apartly(ps, qs, p), qs[p].st # "none"
    PROVE  Spared(ps, qs)
  BY DEF Spared, Apartly

\* _eina_promise_deliver on a promise without a future.
LEMMA ResolveLoneOwn ==
    ASSUME BaseInv, OwnInv, NEW p \in Promises, CanCall, Owned(p), promise[p].future = None,
           promise' = FreeP(promise, p), UNCHANGED <<future, sched, pending, ctx, stack>>
    PROVE  OwnInv'
<1>1. Good(future) /\ Linked(future) /\ Promised(promise, future) /\ promise \in [Promises -> PromiseType]
  BY OwnFacts
<1>2. /\ promise[p].st = "live" /\ promise[p].cancel = "user" /\ promise[p].ended = 0
      /\ \A g \in Futures : future[g].promise # p
  <2>1. OwnedWith(promise, future, p, promise[p].future)
    BY OwnedFacts
  <2> QED
    BY <2>1, NumberFacts DEF OwnedWith
<1>3. /\ Apartly(promise, promise', p) /\ promise'[p].st = "freed"
      /\ promise'[p].future = None /\ promise'[p].ended = 1
  BY <1>1, <1>2, FreePAt
<1>4. Promised(promise', future)
  BY <1>1, <1>2, <1>3, PromisedDetached
<1>5. Spared(promise, promise')
  BY <1>2, <1>3, UserSpared
<1>6. Stacked(future, promise', ctx, sched, stack) /\ SamePromises(promise, stack, promise', stack)
  BY <1>5, StackStays
<1>7. Steady(stack)
  BY CallerFacts
<1>8. SameTasks(future, stack, future, stack) /\ SameEntries(future, future)
  BY <1>7, SameObjects
<1>9. SameBatch(stack, stack)
  BY DEF SameBatch
<1> QED
  BY <1>1, <1>4, <1>6, <1>8, <1>9, OwnStep

\* The list of the scheduler grows at its end.
LEMMA BookedAppend ==
    ASSUME NEW sc \in [futures: Seq(Entry), listener: BOOLEAN], NEW pe \in Seq(Futures),
           NEW fs, NEW s, Booked(sc, pe, fs, s), NEW f \in Futures, fs[f].scheduled_entry = FALSE,
           NEW v \in Settled, NEW dc, dc.futures = Append(sc.futures, [f |-> f, v |-> v]),
           NEW gs, gs[f].scheduled_entry = TRUE,
           \A g \in Futures : g # f => gs[g].scheduled_entry = fs[g].scheduled_entry
    PROVE  Booked(dc, Append(pe, f), gs, s)
<1>1. PICK e \in Entry : e = [f |-> f, v |-> v] /\ e.f = f
  BY DEF Entry
<1>2. f \notin Entries(sc.futures) /\ ~Among(pe, f) /\ ~InBatch(s, f)
  BY DEF Booked
<1>3. Lone(Append(pe, f)) /\ \A g : Among(Append(pe, f), g) <=> Among(pe, g) \/ g = f
  BY <1>2, AppendLone DEF Booked
<1>4. sc.futures \in Seq(Entry) /\ Distinct(sc.futures)
  BY DEF Booked
<1>5. /\ Distinct(dc.futures)
      /\ \A g : g \in Entries(dc.futures) <=> g \in Entries(sc.futures) \/ g = f
  <2>1. e.f \notin Entries(sc.futures) /\ dc.futures = Append(sc.futures, e)
    BY <1>1, <1>2
  <2>2. LET u == Append(sc.futures, e)
        IN  Distinct(u) /\ \A g : g \in Entries(u) <=> g \in Entries(sc.futures) \/ g = e.f
    BY <1>4, <2>1, AppendEntries
  <2> QED
    BY <1>1, <2>1, <2>2
<1>6. \A g \in Futures :
        /\ gs[g].scheduled_entry = TRUE <=> fs[g].scheduled_entry = TRUE \/ g = f
  OBVIOUS
<1>7. /\ NoTwins(s)
      /\ \A g \in Futures : ~(g \in Entries(sc.futures) /\ InBatch(s, g))
      /\ \A g \in Futures :
           /\ fs[g].scheduled_entry = TRUE <=> g \in Entries(sc.futures) \/ InBatch(s, g)
           /\ fs[g].scheduled_entry = TRUE <=> Among(pe, g)
  BY DEF Booked
<1> QED
  BY <1>2, <1>3, <1>5, <1>6, <1>7 DEF Booked

\* _eina_future_schedule: the entry takes the place of the promise.
Given(fs, gs, f, b) ==
    /\ gs[f].scheduled_entry = b
    /\ \A g \in Futures : TaskAt(gs[g], fs[g]) /\ gs[g].cb = fs[g].cb
    /\ \A g \in Futures : g # f => gs[g].scheduled_entry = fs[g].scheduled_entry

\* So _eina_future_schedule leaves the futures.
LEMMA EntryGiven ==
    ASSUME NEW ps \in [Promises -> PromiseType], NEW fs, Good(fs), Linked(fs), Promised(ps, fs),
           NEW p \in Promises, ps[p].st = "live", ps[p].ended = 0,
           NEW f \in Futures, f = ps[p].future, fs[f].st = "live", fs[f].prev = None,
           fs[f].cb # "dispatched", ~Awaited(fs, f), fs[f].promise = p,
           NEW qs, Apartly(ps, qs, p), qs[p].future = None, qs[p].st = "freed", qs[p].ended = 1,
           NEW hs, hs = UnlinkF(fs, f), Good(hs), NEW b, NEW gs, gs = WithEntry(hs, f, b)
    PROVE  Linked(gs) /\ Promised(qs, gs) /\ Given(fs, gs, f, b)
<1>1. /\ Linked(hs) /\ Promised(qs, hs) /\ SameEntries(fs, hs)
      /\ \A g \in Futures :
           /\ TaskAt(hs[g], fs[g]) /\ hs[g].st = fs[g].st /\ hs[g].cb = fs[g].cb
           /\ hs[g].next = fs[g].next /\ hs[g].prev = fs[g].prev
           /\ fs[g].promise = p => hs[g].promise = None
  BY UnlinkBoth
<1>2. Retied(hs, gs, f) /\ gs[f].promise = hs[f].promise /\ gs[f].scheduled_entry = b
  BY EntryAt
<1>3. /\ hs[f].promise = None /\ hs[f].st = "live" /\ hs[f].prev = None /\ hs[f].cb # "dispatched"
      /\ ~Awaited(hs, f)
  BY <1>1 DEF Awaited
<1>4. Linked(gs)
  BY <1>1, <1>2, <1>3, RetiedLinked
<1>5. Promised(qs, gs)
  <2>1. \A g \in Futures : gs[g].promise = hs[g].promise
    BY <1>2 DEF Retied
  <2>2. qs \in [Promises -> PromiseType]
    BY DEF Apartly
  <2> QED
    BY <1>1, <2>1, <2>2, PromisedSame
<1>6. \A g \in Futures : TaskAt(gs[g], hs[g]) /\ gs[g].cb = hs[g].cb
  BY <1>2, RetiedTask
<1>7. \A g \in Futures : TaskAt(gs[g], fs[g]) /\ gs[g].cb = fs[g].cb
  BY <1>1, <1>6, TaskTrans
<1>8. \A g \in Futures : g # f => gs[g].scheduled_entry = fs[g].scheduled_entry
  BY <1>1, <1>2 DEF Retied, SameEntries
<1> QED
  BY <1>2, <1>4, <1>5, <1>7, <1>8 DEF Given

\* eina_promise_resolve and eina_promise_reject
LEMMA ResolveOwn ==
    ASSUME BaseInv, OwnInv, NEW p \in Promises, NEW v \in Settled, Resolve(p, v)
    PROVE  OwnInv'
<1> DEFINE f == promise[p].future
           hs == UnlinkF(future, f)
<1>1. CanCall /\ Owned(p) /\ Deliver(p, v) /\ UNCHANGED <<ctx, stack>>
  BY DEF Resolve
<1>2. CASE f = None
  <2>1. promise' = FreeP(promise, p) /\ UNCHANGED <<future, sched, pending>>
    BY <1>1, <1>2 DEF Deliver
  <2> QED
    BY <1>1, <1>2, <2>1, ResolveLoneOwn
<1>3. CASE f # None
  <2>1. /\ promise' = FreeP(UnlinkP(promise, p), p)
        /\ future' = [hs EXCEPT ![f].scheduled_entry = TRUE]
        /\ sched'.futures = Append(sched.futures, [f |-> f, v |-> v])
        /\ pending' = Append(pending, f)
    BY <1>1, <1>3 DEF Deliver, Schedule
  <2>2. /\ Good(future) /\ Linked(future) /\ Promised(promise, future)
        /\ promise \in [Promises -> PromiseType]
        /\ sched \in [futures: Seq(Entry), listener: BOOLEAN] /\ pending \in Seq(Futures)
        /\ Booked(sched, pending, future, stack)
    BY OwnFacts DEF Rest
  <2>3. /\ promise[p].st = "live" /\ promise[p].cancel = "user" /\ promise[p].ended = 0
        /\ f \in Futures /\ future[f].promise = p
        /\ future[f].st = "live" /\ future[f].prev = None
        /\ future[f].scheduled_entry = FALSE
        /\ future[f].cb # "dispatched" /\ ~Awaited(future, f)
    <3>1. OwnedWith(promise, future, p, f)
      BY <1>1, OwnedFacts
    <3> HIDE DEF f
    <3> QED
      BY <1>3, <3>1 DEF OwnedWith
  <2>4. PICK qs : qs = UnlinkP(promise, p)
    OBVIOUS
  <2>5. /\ Apartly(promise, qs, p) /\ qs[p].ended = promise[p].ended
    BY <2>2, <2>4, UnlinkPAt
  <2>6. qs \in [Promises -> PromiseType]
    BY <2>5 DEF Apartly
  <2>7. /\ Apartly(qs, promise', p) /\ promise'[p].st = "freed"
        /\ promise'[p].future = None /\ promise'[p].ended = 1
    BY <2>1, <2>3, <2>4, <2>5, <2>6, FreePAt
  <2>8. Apartly(promise, promise', p)
    BY <2>5, <2>7 DEF Apartly
  <2>9. Good(hs)
    <3>1. Made(future, f)
      BY <2>3 DEF Made
    <3> QED
      BY <2>2, <2>3, <3>1, UnlinkFGood
  <2> HIDE DEF hs
  <2>10. PICK b : b = TRUE
    OBVIOUS
  <2>11. PICK gs : gs = future' /\ gs = WithEntry(hs, f, b)
    BY <2>1, <2>10 DEF WithEntry
  <2>12. hs = UnlinkF(future, f)
    BY DEF hs
  <2>13. PICK h \in Futures : h = f
    BY <2>3
  <2>14. PICK ps : ps = promise'
    OBVIOUS
  <2> HIDE DEF f
  <2>15. h = promise[p].future
    BY <2>13 DEF f
  <2>16. /\ Linked(gs) /\ Promised(ps, gs) /\ gs[h].scheduled_entry = b
         /\ \A g \in Futures : TaskAt(gs[g], future[g]) /\ gs[g].cb = future[g].cb
         /\ \A g \in Futures : g # h => gs[g].scheduled_entry = future[g].scheduled_entry
    <3>1. /\ future[h].st = "live" /\ future[h].prev = None /\ future[h].promise = p
          /\ future[h].cb # "dispatched" /\ ~Awaited(future, h)
          /\ hs = UnlinkF(future, h) /\ gs = WithEntry(hs, h, b)
          /\ Apartly(promise, ps, p) /\ ps[p].future = None
          /\ ps[p].st = "freed" /\ ps[p].ended = 1
      BY <2>3, <2>7, <2>8, <2>11, <2>12, <2>13, <2>14
    <3>2. Linked(gs) /\ Promised(ps, gs) /\ Given(future, gs, h, b)
      BY <2>2, <2>3, <2>9, <2>15, <3>1, EntryGiven
    <3> QED
      BY <3>2 DEF Given
  <2>17. Spared(promise, ps)
    BY <2>3, <2>7, <2>8, <2>14, UserSpared
  <2>18. PICK sc : sc = sched'
    OBVIOUS
  <2>19. Stacked(gs, ps, ctx, sc, stack) /\ SamePromises(promise, stack, ps, stack)
    BY <1>1, <2>16, <2>17, StackStays
  <2>20. Steady(stack)
    BY <1>1, CallerFacts
  <2>21. SameTasks(future, stack, gs, stack)
    BY <2>16, <2>20, SteadyTasks
  <2>22. Booked(sc, Append(pending, h), gs, stack)
    BY <2>1, <2>2, <2>3, <2>10, <2>13, <2>16, <2>18, BookedAppend, ZenonT(40)
  <2> QED
    BY <1>1, <2>1, <2>11, <2>13, <2>14, <2>16, <2>18, <2>19, <2>21, <2>22, OwnListStep
<1> QED
  BY <1>2, <1>3

\* eina_promise_new.
FreshIn(ps, qs, q, c) ==
    /\ q \in Promises /\ ps[q].st = "none" /\ Apartly(ps, qs, q)
    /\ qs[q].st = "live" /\ qs[q].cancel = c /\ qs[q].future = None /\ qs[q].ended = 0

\* So eina_promise_new leaves the promises.
LEMMA FreshMade ==
    ASSUME BaseInv, OwnInv, RoomP, NEW q, q = FreshPromise,
           NEW c \in {"user", "all", "race", "dummy"}, NEW b \in BOOLEAN,
           NEW ps, ps = NewPromise(promise, q, c, b)
    PROVE  FreshIn(promise, ps, q, c) /\ Promised(ps, future)
<1>1. Good(future) /\ Promised(promise, future) /\ promise \in [Promises -> PromiseType]
  BY OwnFacts
<1>2. q \in Promises /\ promise[q].st = "none"
  BY <1>1, FreshPromiseFacts DEF Promised
<1>3. /\ Apartly(promise, ps, q) /\ ps[q].st = "live" /\ ps[q].cancel = c
      /\ ps[q].future = None /\ ps[q].ended = 0
  BY <1>1, <1>2, NewPromiseAt
<1>4. Promised(ps, future)
  BY <1>1, <1>3, PromisedNew
<1> QED
  BY <1>2, <1>3, <1>4 DEF FreshIn

\* A promise that is in nobody's way is made and another one of the user goes.
LEMMA FreshSpared ==
    ASSUME NEW ps, NEW p \in Promises, ps[p].cancel = "user", NEW q \in Promises, ps[q].st = "none",
           NEW rs, Apartly(ps, rs, q), NEW qs, Apartly(rs, qs, p), qs[p].st # "none"
    PROVE  Spared(ps, qs)
  BY DEF Spared, Apartly

\* The new promise is freed with the value, for nobody waits.
LEMMA FreedTwo ==
    ASSUME BaseInv, OwnInv, NEW p \in Promises, promise[p].st = "live", promise[p].ended = 0,
           promise[p].cancel = "user", \A g \in Futures : future[g].promise # p,
           RoomP, NEW q, q = FreshPromise, NEW ps, FreshIn(promise, ps, q, "user"),
           NEW rs, rs = FreeP(ps, q), NEW qs, qs = FreeP(rs, p)
    PROVE  Promised(qs, future) /\ Spared(promise, qs)
<1>1. Good(future) /\ Promised(promise, future) /\ promise \in [Promises -> PromiseType]
  BY OwnFacts
<1>2. /\ q \in Promises /\ promise[q].st = "none" /\ Apartly(promise, ps, q)
      /\ ps[q].st = "live" /\ ps[q].ended = 0 /\ ps \in [Promises -> PromiseType]
  BY DEF FreshIn, Apartly
<1>3. /\ Apartly(ps, rs, q) /\ rs[q].st = "freed" /\ rs[q].future = None /\ rs[q].ended = 1
  BY <1>2, FreePAt
<1>4. Apartly(promise, rs, q) /\ rs \in [Promises -> PromiseType] /\ p # q /\ rs[p] = promise[p]
  BY <1>2, <1>3 DEF Apartly
<1>5. Promised(rs, future)
  <2>1. rs[q].st # "none"
    BY <1>3
  <2> QED
    BY <1>1, <1>3, <1>4, <2>1, PromisedNew
<1>6. /\ Apartly(rs, qs, p) /\ qs[p].st = "freed" /\ qs[p].future = None /\ qs[p].ended = 1
  BY <1>4, FreePAt
<1>7. Promised(qs, future)
  <2>1. rs[p].st = "live"
    BY <1>4
  <2> QED
    BY <1>1, <1>4, <1>5, <1>6, <2>1, PromisedDetached
<1>8. Spared(promise, qs)
  <2>1. qs[p].st # "none"
    BY <1>6
  <2> QED
    BY <1>2, <1>4, <1>6, <2>1, FreshSpared
<1> QED
  BY <1>7, <1>8

\* A future goes from one promise to another one, and the first is freed.
LEMMA PassedOn ==
    ASSUME NEW rs \in [Promises -> PromiseType], NEW hs, Good(hs), Promised(rs, hs),
           NEW p \in Promises, NEW q \in Promises, p # q,
           rs[p].st = "live", rs[p].ended = 0, rs[p].future = None,
           rs[q].st = "live", rs[q].future = None, NEW f \in Futures, hs[f].promise = None,
           NEW ts, Apartly(rs, ts, q), ts[q].st = "live", ts[q].ended = rs[q].ended, ts[q].future = f,
           NEW qs, Apartly(ts, qs, p), qs[p].st = "freed", qs[p].future = None, qs[p].ended = 1,
           NEW gs, Good(gs), Retied(hs, gs, f), gs[f].promise = q
    PROVE  Promised(qs, gs)
<1>1. \A g \in Futures : g # f => gs[g].promise = hs[g].promise
  BY DEF Retied
<1>2. Promised(ts, gs)
  BY <1>1, PromisedLinked
<1>3. ts \in [Promises -> PromiseType] /\ ts[p] = rs[p]
  BY DEF Apartly
<1>4. \A g \in Futures : gs[g].promise # p
  BY <1>2, <1>3, NumberFacts DEF Promised
<1> QED
  BY <1>2, <1>3, <1>4, PromisedDetached

\* A future that is tied anew keeps its entry.
LEMMA RetiedEntries ==
    ASSUME NEW fs, NEW hs, NEW gs, NEW f, SameEntries(fs, hs), Retied(hs, gs, f),
           gs[f].scheduled_entry = hs[f].scheduled_entry
    PROVE  SameEntries(fs, gs)
  BY DEF SameEntries, Retied

\* The new promise takes the place of the old one.
OnlyTied(fs, gs) ==
    /\ SameEntries(fs, gs)
    /\ \A g \in Futures : TaskAt(gs[g], fs[g]) /\ gs[g].cb = fs[g].cb

\* So eina_promise_resolve leaves the two promises and the future.
LEMMA Replaced ==
    ASSUME BaseInv, OwnInv, NEW p \in Promises, NEW f \in Futures, f = promise[p].future,
           OwnedWith(promise, future, p, f),
           NEW q, NEW ps, FreshIn(promise, ps, q, "user"), Promised(ps, future),
           NEW rs, rs = UnlinkP(ps, p), NEW ts, ts = LinkP(rs, q, f), NEW qs, qs = FreeP(ts, p),
           NEW hs, hs = UnlinkF(future, f), Good(hs), NEW gs, gs = LinkF(hs, q, f)
    PROVE  Linked(gs) /\ Promised(qs, gs) /\ Spared(promise, qs) /\ OnlyTied(future, gs)
<1>1. Good(future) /\ Linked(future) /\ Promised(promise, future) /\ promise \in [Promises -> PromiseType]
  BY OwnFacts
<1>2. /\ promise[p].st = "live" /\ promise[p].cancel = "user" /\ promise[p].ended = 0
      /\ future[f].promise = p
      /\ future[f].st = "live" /\ future[f].prev = None /\ future[f].scheduled_entry = FALSE
      /\ future[f].cb # "dispatched" /\ ~Awaited(future, f)
  BY NumberFacts DEF OwnedWith
<1>3. /\ q \in Promises /\ promise[q].st = "none" /\ Apartly(promise, ps, q)
      /\ ps[q].st = "live" /\ ps[q].future = None /\ ps[q].ended = 0
      /\ ps \in [Promises -> PromiseType]
  BY DEF FreshIn, Apartly
<1>4. p # q /\ ps[p] = promise[p]
  BY <1>2, <1>3 DEF Apartly
<1>5. /\ Apartly(ps, rs, p) /\ rs[p].st = "live" /\ rs[p].ended = 0 /\ rs[p].future = None
      /\ rs \in [Promises -> PromiseType] /\ rs[q] = ps[q]
  <2>1. /\ Apartly(ps, rs, p) /\ rs[p].st = ps[p].st /\ rs[p].cancel = ps[p].cancel
        /\ rs[p].ended = ps[p].ended /\ rs[p].future = None
    BY <1>3, UnlinkPAt
  <2> QED
    BY <1>2, <1>3, <1>4, <2>1 DEF Apartly
<1>6. /\ Linked(hs) /\ Promised(rs, hs) /\ SameEntries(future, hs)
      /\ \A g \in Futures :
           /\ TaskAt(hs[g], future[g]) /\ hs[g].st = future[g].st /\ hs[g].cb = future[g].cb
           /\ hs[g].next = future[g].next /\ hs[g].prev = future[g].prev
           /\ future[g].promise = p => hs[g].promise = None
  <2>1. hs = UnlinkF(future, ps[p].future) /\ ps[p].st = "live"
    BY <1>2, <1>4
  <2> QED
    BY <1>1, <1>3, <1>5, <2>1, UnlinkBoth
<1>7. /\ hs[f].promise = None /\ hs[f].st = "live" /\ hs[f].prev = None
      /\ hs[f].cb # "dispatched" /\ hs[f].scheduled_entry = FALSE /\ ~Awaited(hs, f)
  BY <1>2, <1>6 DEF Awaited, SameEntries
<1>8. /\ Apartly(rs, ts, q) /\ ts[q].st = "live" /\ ts[q].ended = rs[q].ended /\ ts[q].future = f
      /\ ts \in [Promises -> PromiseType] /\ ts[p] = rs[p]
  <2>1. f \in Futures \cup {None}
    OBVIOUS
  <2>2. /\ Apartly(rs, ts, q) /\ ts[q].st = rs[q].st /\ ts[q].cancel = rs[q].cancel
        /\ ts[q].ended = rs[q].ended /\ ts[q].future = f
    BY <1>3, <1>5, <2>1, LinkPAt
  <2> QED
    BY <1>3, <1>4, <1>5, <2>2 DEF Apartly
<1>9. /\ Retied(hs, gs, f) /\ gs[f].promise = q /\ gs[f].scheduled_entry = hs[f].scheduled_entry
  BY LinkFAt
<1>10. Linked(gs)
  BY <1>6, <1>7, <1>9, RetiedLinked
<1>11. Good(gs)
  <2>1. Made(hs, f)
    BY <1>7 DEF Made
  <2> QED
    BY <1>3, <2>1, LinkFGood
<1>12. /\ Apartly(ts, qs, p) /\ qs[p].st = "freed" /\ qs[p].future = None /\ qs[p].ended = 1
  <2>1. ts[p].ended = 0
    BY <1>5, <1>8
  <2> QED
    BY <1>8, <2>1, FreePAt
<1>14. Promised(qs, gs)
  <2>1. rs[q].st = "live" /\ rs[q].future = None
    BY <1>3, <1>5
  <2> QED
    BY <1>3, <1>4, <1>5, <1>6, <1>7, <1>8, <1>9, <1>11, <1>12, <2>1, PassedOn
<1>15. Spared(promise, qs)
  BY <1>2, <1>3, <1>5, <1>8, <1>12 DEF Spared, Apartly
<1>16. SameEntries(future, gs)
  BY <1>6, <1>9, RetiedEntries
<1>17. \A g \in Futures : TaskAt(gs[g], hs[g]) /\ gs[g].cb = hs[g].cb
  BY <1>9, RetiedTask
<1>18. \A g \in Futures : TaskAt(gs[g], future[g]) /\ gs[g].cb = future[g].cb
  BY <1>6, <1>17, TaskTrans
<1> QED
  BY <1>10, <1>14, <1>15, <1>16, <1>18 DEF OnlyTied

\* eina_promise_resolve with the value of a promise.
LEMMA ResolveWithPromiseOwn ==
    ASSUME BaseInv, OwnInv, NEW p \in Promises, ResolveWithPromise(p)
    PROVE  OwnInv'
<1> DEFINE f == promise[p].future
           q == FreshPromise
           ps == NewPromise(promise, q, "user", TRUE)
<1>1. /\ CanCall /\ Owned(p) /\ RoomP /\ UNCHANGED <<sched, pending, ctx, stack>>
      /\ f = None => promise' = FreeP(FreeP(ps, q), p) /\ UNCHANGED future
      /\ f # None => /\ promise' = FreeP(LinkP(UnlinkP(ps, p), q, f), p)
                     /\ future' = LinkF(UnlinkF(future, f), q, f)
  BY DEF ResolveWithPromise
<1>2. Good(future) /\ Linked(future)
  BY OwnFacts
<1>3. OwnedWith(promise, future, p, f)
  BY <1>1, OwnedFacts
<1>4. FreshIn(promise, ps, q, "user") /\ Promised(ps, future)
  <2>1. PICK c \in {"user", "all", "race", "dummy"} : c = "user"
    OBVIOUS
  <2>2. PICK b \in BOOLEAN : b = TRUE
    OBVIOUS
  <2>3. PICK as, h : h = q /\ as = NewPromise(promise, h, c, b) /\ as = ps
    BY <2>1, <2>2
  <2> HIDE DEF ps
  <2>4. h = FreshPromise
    BY <2>3
  <2>5. FreshIn(promise, as, h, c) /\ Promised(as, future)
    BY <1>1, <2>3, <2>4, FreshMade
  <2> QED
    BY <2>1, <2>3, <2>5
<1>5. q = FreshPromise
  OBVIOUS
<1> HIDE DEF ps, q
<1>6. /\ Linked(future') /\ Promised(promise', future') /\ Spared(promise, promise')
      /\ SameEntries(future, future')
      /\ \A g \in Futures : TaskAt(future'[g], future[g]) /\ future'[g].cb = future[g].cb
  <2>1. CASE f = None
    <3>1. PICK rs, qs : rs = FreeP(ps, q) /\ qs = FreeP(rs, p) /\ qs = promise' /\ future' = future
      BY <1>1, <2>1
    <3>2. /\ promise[p].st = "live" /\ promise[p].cancel = "user" /\ promise[p].ended = 0
          /\ \A g \in Futures : future[g].promise # p
      <4> HIDE DEF f
      <4> QED
        BY <1>3, <2>1, NumberFacts DEF OwnedWith
    <3>3. Promised(qs, future) /\ Spared(promise, qs)
      BY <1>1, <1>4, <1>5, <3>1, <3>2, FreedTwo
    <3>4. \A g \in Futures : TaskAt(future[g], future[g])
      BY DEF TaskAt
    <3> QED
      BY <1>2, <3>1, <3>3, <3>4 DEF SameEntries
  <2>2. CASE f # None
    <3>1. PICK h : h = f /\ h = promise[p].future
      OBVIOUS
    <3>2. PICK rs, ts, qs, hs, gs :
            /\ rs = UnlinkP(ps, p) /\ ts = LinkP(rs, q, h) /\ qs = FreeP(ts, p) /\ qs = promise'
            /\ hs = UnlinkF(future, h) /\ gs = LinkF(hs, q, h) /\ gs = future'
      BY <1>1, <2>2, <3>1
    <3> HIDE DEF f
    <3>3. OwnedWith(promise, future, p, h) /\ h \in Futures
      BY <1>3, <2>2, <3>1 DEF OwnedWith
    <3>4. Good(hs)
      <4>1. Made(future, h)
        BY <3>3, NumberFacts DEF Made, OwnedWith
      <4> QED
        BY <1>2, <3>2, <3>3, <4>1, UnlinkFGood
    <3>5. Linked(gs) /\ Promised(qs, gs) /\ Spared(promise, qs) /\ OnlyTied(future, gs)
      BY <1>4, <3>1, <3>2, <3>3, <3>4, Replaced
    <3> QED
      BY <3>2, <3>5 DEF OnlyTied
  <2> QED
    BY <2>1, <2>2
<1>7. Stacked(future', promise', ctx, sched, stack) /\ SamePromises(promise, stack, promise', stack)
  BY <1>1, <1>6, StackStays
<1>8. Steady(stack)
  BY <1>1, CallerFacts
<1>9. SameTasks(future, stack, future', stack)
  BY <1>6, <1>8, SteadyTasks
<1>10. SameBatch(stack, stack)
  BY DEF SameBatch
<1> QED
  BY <1>1, <1>6, <1>7, <1>9, <1>10, OwnStep

\* From fs to gs the futures of S got callbacks of eina_promise_all.
Gained(fs, gs, S) ==
    /\ \A h \in Futures : h \notin S => TaskAt(gs[h], fs[h])
    /\ \A h \in S : DueAt(gs[h]) /\ gs[h].kind = "all" /\ gs[h].data = None

\* They are as they were besides.
Unbound(fs, gs) ==
    /\ SameEntries(fs, gs)
    /\ \A h \in Futures : fs[h].cb = "dispatched" => gs[h].cb = "dispatched"

\* One callback of eina_promise_all is chained behind f.
LEMMA OneBehind ==
    ASSUME NEW fs, Good(fs), Linked(fs), NEW n \in 0..MaxFuture, Numbered(fs, n),
           NEW m \in Futures, m = n + 1, NEW f \in Futures, fs[f].st = "live", fs[f].next = None,
           fs[f].cb # "dispatched",
           NEW ps \in [Promises -> PromiseType], Promised(ps, fs),
           NEW gs, gs = ThenNew(fs, f, m, "all", None)
    PROVE  /\ Good(gs) /\ Linked(gs) /\ Numbered(gs, m) /\ Promised(ps, gs)
           /\ Gained(fs, gs, {m}) /\ Unbound(fs, gs)
           /\ \A h \in Futures : h # m /\ h # f => gs[h] = fs[h]
<1>1. PICK kind \in FutureKinds : kind = "all"
  BY DEF FutureKinds
<1>2. PICK data \in Promises \cup {None} : data = None
  OBVIOUS
<1>3. gs = ThenNew(fs, f, m, kind, data)
  BY <1>1, <1>2
<1>4. ~Made(fs, m)
  BY DEF Numbered
<1>5. /\ Linked(gs) /\ Added(fs, gs, m, kind, data)
      /\ \A h \in Futures : h # m /\ h # f => gs[h] = fs[h]
  <2>1. LET ks == ThenNew(fs, f, m, kind, data)
        IN  /\ Linked(ks) /\ Added(fs, ks, m, kind, data)
            /\ \A h \in Futures : h # m /\ h # f => ks[h] = fs[h]
    BY <1>1, <1>4, ThenNewLinked
  <2> QED
    BY <1>3, <2>1
<1>6. Good(gs) /\ Numbered(gs, m)
  <2>1. kind = "proxy" => data # None
    BY <1>1
  <2>2. LET ks == ThenNew(fs, f, m, kind, data) IN Good(ks) /\ Numbered(ks, m)
    BY <2>1, ThenNewAt
  <2> QED
    BY <1>3, <2>2
<1>7. /\ SameEntries(fs, gs)
      /\ \A h \in Futures : gs[h].promise = fs[h].promise
      /\ \A h \in Futures : fs[h].cb = "dispatched" => gs[h].cb = "dispatched"
  BY <1>4, <1>5, AddedFacts
<1>8. Promised(ps, gs)
  BY <1>7, PromisedSame
<1>9. DueAt(gs[m]) /\ gs[m].kind = "all" /\ gs[m].data = None
  BY <1>1, <1>2, <1>5 DEF DueAt, Added
<1>10. \A h \in Futures : h # m => TaskAt(gs[h], fs[h])
  BY <1>5, TiedTask DEF Added
<1>11. Gained(fs, gs, {m})
  BY <1>9, <1>10 DEF Gained
<1> QED
  BY <1>5, <1>6, <1>7, <1>8, <1>11 DEF Unbound

\* One after the other.
LEMMA GainedTrans ==
    ASSUME NEW fs, NEW gs, NEW hs, NEW S, NEW T, S \subseteq Futures, T \subseteq Futures,
           Gained(fs, gs, S), Gained(gs, hs, T)
    PROVE  Gained(fs, hs, S \cup T)
<1>1. ASSUME NEW h \in Futures, h \notin S \cup T PROVE TaskAt(hs[h], fs[h])
  <2>1. TaskAt(gs[h], fs[h]) /\ TaskAt(hs[h], gs[h])
    BY <1>1 DEF Gained
  <2> QED
    BY <2>1, TaskTrans
<1>2. ASSUME NEW h \in S \cup T PROVE DueAt(hs[h]) /\ hs[h].kind = "all" /\ hs[h].data = None
  <2>1. CASE h \in T
    BY <2>1 DEF Gained
  <2>2. CASE h \notin T
    <3>1. h \in S /\ h \in Futures
      BY <1>2, <2>2
    <3>2. TaskAt(hs[h], gs[h]) /\ DueAt(gs[h]) /\ gs[h].kind = "all" /\ gs[h].data = None
      BY <2>2, <3>1 DEF Gained
    <3> QED
      BY <3>2 DEF TaskAt
  <2> QED
    BY <2>1, <2>2
<1> QED
  BY <1>1, <1>2 DEF Gained

\* And they stay so.
LEMMA UnboundTrans ==
    ASSUME NEW fs, NEW gs, NEW hs, Unbound(fs, gs), Unbound(gs, hs)
    PROVE  Unbound(fs, hs)
  BY DEF Unbound, SameEntries

\* Two callbacks, one behind f and one behind g.
LEMMA TwoBehind ==
    ASSUME NEW fs, Good(fs), Linked(fs), NEW n \in 0..MaxFuture, Numbered(fs, n),
           NEW t \in Futures, t = n + 1, NEW u \in Futures, u = t + 1,
           NEW f \in Futures, fs[f].st = "live", fs[f].next = None, fs[f].cb # "dispatched",
           NEW g \in Futures, fs[g].st = "live", fs[g].next = None, fs[g].cb # "dispatched",
           f # g, NEW ps \in [Promises -> PromiseType], Promised(ps, fs),
           NEW as, as = ThenNew(fs, f, t, "all", None),
           NEW bs, bs = ThenNew(as, g, u, "all", None)
    PROVE  /\ Good(bs) /\ Linked(bs) /\ Numbered(bs, u) /\ Promised(ps, bs)
           /\ Gained(fs, bs, {t, u}) /\ Unbound(fs, bs)
<1>1. /\ Good(as) /\ Linked(as) /\ Numbered(as, t) /\ Promised(ps, as)
      /\ Gained(fs, as, {t}) /\ Unbound(fs, as)
      /\ \A h \in Futures : h # t /\ h # f => as[h] = fs[h]
  BY OneBehind
<1>2. g # t /\ t \in 0..MaxFuture
  <2>1. Made(fs, g)
    BY DEF Made
  <2>2. g <= n
    BY <2>1 DEF Numbered
  <2> QED
    BY <2>2 DEF Futures
<1>3. as[g].st = "live" /\ as[g].next = None /\ as[g].cb # "dispatched"
  BY <1>1, <1>2
<1>4. /\ Good(bs) /\ Linked(bs) /\ Numbered(bs, u) /\ Promised(ps, bs)
      /\ Gained(as, bs, {u}) /\ Unbound(as, bs)
  BY <1>1, <1>2, <1>3, OneBehind
<1>5. Gained(fs, bs, {t} \cup {u})
  <2>1. {t} \subseteq Futures /\ {u} \subseteq Futures
    OBVIOUS
  <2> QED
    BY <1>1, <1>4, <2>1, GainedTrans
<1>6. {t} \cup {u} = {t, u}
  OBVIOUS
<1> QED
  BY <1>1, <1>4, <1>5, <1>6, UnboundTrans

\* Then a promise and a callback on it.
LEMMA GainedChain ==
    ASSUME NEW fs, NEW bs, NEW gs, NEW S, S \subseteq Futures, Gained(fs, bs, S), Unbound(fs, bs),
           SameEntries(bs, gs), \A h \in Futures : TaskAt(gs[h], bs[h]),
           \A h \in Futures : bs[h].cb = "dispatched" => gs[h].cb = "dispatched"
    PROVE  Gained(fs, gs, S) /\ Unbound(fs, gs)
<1>1. Gained(bs, gs, {}) /\ Unbound(bs, gs)
  BY DEF Gained, Unbound
<1>2. {} \subseteq Futures /\ S \cup {} = S
  OBVIOUS
<1>3. Gained(fs, gs, S \cup {})
  BY <1>1, <1>2, GainedTrans
<1> QED
  BY <1>1, <1>2, <1>3, UnboundTrans

\* What the callbacks of eina_future_as_value will settle is still there.
LEMMA ProxiedGained ==
    ASSUME NEW ps \in [Promises -> PromiseType], NEW qs, NEW fs, Good(fs), NEW gs, NEW s,
           Steady(s), NEW S, Gained(fs, gs, S), Proxied(ps, fs, s), SamePromises(ps, s, qs, s)
    PROVE  Proxied(qs, gs, s)
<1>1. \A h : /\ Uncalled(fs, s, h) <=> fs[h].cb = "set"
             /\ Uncalled(gs, s, h) <=> gs[h].cb = "set"
  BY DEF Uncalled, Steady
<1>2. ASSUME NEW h \in Futures, gs[h].data # None
      PROVE  gs[h].data = fs[h].data /\ h \notin S
  BY <1>2 DEF Gained, TaskAt
<1>3. \A h \in Futures : fs[h].data \in Promises \cup {None}
  BY FutureFields DEF FutureType
<1>4. ASSUME NEW h \in Futures, gs[h].st = "live", gs[h].kind = "proxy", gs[h].cb = "set"
      PROVE  LET p == gs[h].data IN qs[p].st = "live" /\ qs[p].cancel = "dummy" /\ ~Frees(s, p)
  <2>1. DueAt(gs[h])
    BY <1>4 DEF DueAt
  <2>2. h \notin S
    BY <1>4 DEF Gained
  <2>3. TaskAt(gs[h], fs[h])
    BY <2>2 DEF Gained
  <2>4. DueAt(fs[h]) /\ fs[h].kind = "proxy" /\ gs[h].data = fs[h].data
    BY <1>4, <2>1, <2>3 DEF TaskAt
  <2>5. fs[h].st = "live" /\ Uncalled(fs, s, h)
    BY <1>1, <2>4 DEF DueAt
  <2>6. PICK p : p = fs[h].data
    OBVIOUS
  <2>7. ps[p].st = "live" /\ ps[p].cancel = "dummy" /\ ~Frees(s, p)
    BY <2>4, <2>5, <2>6 DEF Proxied
  <2>8. p \in Promises
    BY <2>4, <2>5, <2>6, FutureFields DEF FutureType, LifeOK
  <2>9. qs[p].st = "live" /\ qs[p].cancel = "dummy"
    BY <2>7, <2>8 DEF SamePromises
  <2> QED
    BY <2>4, <2>6, <2>7, <2>9
<1>5. ASSUME NEW h \in Futures, gs[h].data # None PROVE qs[gs[h].data].st # "none"
  <2>1. gs[h].data = fs[h].data /\ fs[h].data \in Promises
    BY <1>2, <1>3, <1>5
  <2>2. ps[fs[h].data].st # "none"
    BY <1>5, <2>1 DEF Proxied
  <2> QED
    BY <2>1, <2>2 DEF SamePromises
<1>6. ASSUME NEW h \in Futures, NEW k \in Futures, gs[h].data # None, gs[h].data = gs[k].data
      PROVE  h = k
  <2>1. gs[h].data = fs[h].data /\ gs[k].data = fs[k].data
    BY <1>2, <1>6
  <2> QED
    BY <1>6, <2>1 DEF Proxied
<1> QED
  BY <1>1, <1>4, <1>5, <1>6 DEF Proxied

\* The new context has the two futures, and there was none before.
LEMMA GatheredGained ==
    ASSUME NEW ps, NEW qs, NEW fs, NEW gs, NEW s, NEW cx \in CtxType, cx.st = "none",
           Steady(s), NEW S \in SUBSET Futures, Gained(fs, gs, S), Gathered(cx, ps, fs, s),
           NEW q \in Promises, qs[q].st = "live", qs[q].cancel = "all", ~Frees(s, q),
           NEW dx, dx.st = "live", dx.kind = "all", dx.cancelled = FALSE, dx.promise = q,
           dx.futures = S
    PROVE  Gathered(dx, qs, gs, s)
<1>1. \A h : /\ Uncalled(fs, s, h) <=> fs[h].cb = "set"
             /\ Uncalled(gs, s, h) <=> gs[h].cb = "set"
  BY DEF Uncalled, Steady
<1>2. \A h \in Futures : ~(DueAt(fs[h]) /\ fs[h].kind = "all")
  <2>1. cx.futures = {}
    BY DEF Gathered
  <2> QED
    BY <1>1, <2>1 DEF Gathered, DueAt
<1>3. ASSUME NEW h \in Futures
      PROVE  h \in S <=> gs[h].st = "live" /\ gs[h].kind = "all" /\ gs[h].cb = "set"
  <2>1. CASE h \in S
    BY <2>1 DEF Gained, DueAt
  <2>2. CASE h \notin S
    <3>1. TaskAt(gs[h], fs[h])
      BY <2>2 DEF Gained
    <3> QED
      BY <1>2, <2>2, <3>1 DEF TaskAt, DueAt
  <2> QED
    BY <2>1, <2>2
<1>4. q # None
  BY NumberFacts
<1> QED
  BY <1>1, <1>3, <1>4 DEF Gathered

\* eina_promise_all_array
LEMMA AllArrayOwn ==
    ASSUME BaseInv, OwnInv, NEW f \in Futures, NEW g \in Futures, AllArray(f, g)
    PROVE  OwnInv'
<1>1. /\ CanCall /\ RoomP /\ RoomF(4) /\ ctx.st = "none" /\ f # g
      /\ Held(f) /\ Held(g) /\ future[f].next = None /\ future[g].next = None
      /\ UNCHANGED <<sched, pending, stack>>
  BY DEF AllArray, Gather
<1>2. /\ Good(future) /\ Linked(future) /\ promise \in [Promises -> PromiseType]
      /\ ctx \in CtxType /\ Proxied(promise, future, stack) /\ Gathered(ctx, promise, future, stack)
      /\ Booked(sched, pending, future, stack)
  BY OwnFacts DEF Rest
<1>3. PICK n \in 0..MaxFuture : Numbered(future, n) /\ FreshFuture = n + 1
  BY RoomFacts
<1>4. PICK q : q = FreshPromise
  OBVIOUS
<1>5. PICK t \in Futures, u \in Futures, m \in Futures, j \in Futures :
        /\ t = n + 1 /\ u = t + 1 /\ m = u + 1 /\ j = m + 1
        /\ FreshFuture = t /\ FreshFuture + 1 = u /\ FreshFuture + 2 = m /\ FreshFuture + 3 = j
  <2>1. FreshFuture + 4 - 1 \in Futures
    BY <1>1 DEF RoomF
  <2>2. n + 1 \in Futures /\ (n + 1) + 1 \in Futures /\ ((n + 1) + 1) + 1 \in Futures
        /\ (((n + 1) + 1) + 1) + 1 \in Futures
    BY <1>3, <2>1 DEF Futures
  <2>3. /\ FreshFuture + 1 = (n + 1) + 1 /\ FreshFuture + 2 = ((n + 1) + 1) + 1
        /\ FreshFuture + 3 = (((n + 1) + 1) + 1) + 1
    BY <1>3
  <2> QED
    BY <1>3, <2>2, <2>3
<1>6. PICK ps, as, bs :
        /\ ps = NewPromise(promise, q, "all", TRUE)
        /\ as = ThenNew(future, f, t, "all", None) /\ bs = ThenNew(as, g, u, "all", None)
  OBVIOUS
<1>7. PICK qs, gs, dx :
        /\ qs = promise' /\ gs = future' /\ dx = ctx'
        /\ qs = LinkP(ps, q, m) /\ dx = NewCtx("all", q, {t, u})
        /\ gs = ThenNew(LinkF(NewFuture(bs, m, "null", None), q, m), m, j, "user", None)
  <2>1. /\ promise' = LinkP(ps, q, m) /\ ctx' = NewCtx("all", q, {t, u})
        /\ future' = ThenNew(LinkF(NewFuture(bs, m, "null", None), q, m), m, j, "user", None)
    BY <1>4, <1>5, <1>6 DEF AllArray, Gather, NewCtx
  <2> QED
    BY <2>1
<1>8. FreshIn(promise, ps, q, "all") /\ Promised(ps, future)
  <2>1. PICK c \in {"user", "all", "race", "dummy"} : c = "all"
    OBVIOUS
  <2>2. PICK b \in BOOLEAN : b = TRUE
    OBVIOUS
  <2>3. ps = NewPromise(promise, q, c, b)
    BY <1>6, <2>1, <2>2
  <2>4. FreshIn(promise, ps, q, c) /\ Promised(ps, future)
    BY <1>1, <1>4, <2>3, FreshMade
  <2> QED
    BY <2>1, <2>4
<1>9. /\ q \in Promises /\ promise[q].st = "none" /\ Apartly(promise, ps, q)
      /\ ps[q].st = "live" /\ ps[q].cancel = "all" /\ ps[q].future = None
      /\ ps \in [Promises -> PromiseType]
  BY <1>8 DEF FreshIn, Apartly
<1>10. /\ future[f].st = "live" /\ future[f].cb # "dispatched"
       /\ future[g].st = "live" /\ future[g].cb # "dispatched"
  BY <1>1 DEF Held
<1>11. /\ Linked(gs) /\ Promised(qs, gs) /\ Gained(future, gs, {t, u}) /\ Unbound(future, gs)
  <2>1. /\ Good(bs) /\ Linked(bs) /\ Numbered(bs, u) /\ Promised(ps, bs)
        /\ Gained(future, bs, {t, u}) /\ Unbound(future, bs)
    <3>1. /\ Good(future) /\ Linked(future) /\ Numbered(future, n) /\ t = n + 1 /\ u = t + 1
          /\ future[f].st = "live" /\ future[f].next = None /\ future[f].cb # "dispatched"
          /\ future[g].st = "live" /\ future[g].next = None /\ future[g].cb # "dispatched"
          /\ f # g /\ ps \in [Promises -> PromiseType] /\ Promised(ps, future)
          /\ as = ThenNew(future, f, t, "all", None) /\ bs = ThenNew(as, g, u, "all", None)
      BY <1>1, <1>2, <1>3, <1>5, <1>6, <1>8, <1>9, <1>10
    <3> QED
      BY <3>1, TwoBehind
  <2>2. u \in 0..MaxFuture
    BY DEF Futures
  <2>3. /\ Linked(gs) /\ Promised(qs, gs) /\ SameEntries(bs, gs)
        /\ \A h \in Futures : TaskAt(gs[h], bs[h])
        /\ \A h \in Futures : bs[h].cb = "dispatched" => gs[h].cb = "dispatched"
    BY <1>5, <1>7, <1>9, <2>1, <2>2, ChainNew
  <2>4. {t, u} \subseteq Futures
    OBVIOUS
  <2> QED
    BY <2>1, <2>3, <2>4, GainedChain
<1>12. /\ Apartly(ps, qs, q) /\ qs[q].st = "live" /\ qs[q].cancel = "all"
  <2>1. m \in Futures \cup {None}
    OBVIOUS
  <2>2. /\ Apartly(ps, qs, q) /\ qs[q].st = ps[q].st /\ qs[q].cancel = ps[q].cancel
    BY <1>7, <1>9, <2>1, LinkPAt
  <2> QED
    BY <1>9, <2>2
<1>13. Spared(promise, qs)
  BY <1>9, <1>12 DEF Spared, Apartly
<1>14. Stacked(gs, qs, dx, sched, stack) /\ SamePromises(promise, stack, qs, stack)
  <2>1. Released(ctx) => Released(dx)
    BY <1>1 DEF Released
  <2>2. \A h \in Futures : future[h].cb = "dispatched" => gs[h].cb = "dispatched"
    BY <1>11 DEF Unbound
  <2> QED
    BY <1>1, <1>13, <2>1, <2>2, StackStays
<1>15. Steady(stack) /\ ~Frees(stack, q)
  <2>1. Steady(stack) /\ \A p : Frees(stack, p) => p \in Promises /\ Releasing(promise, p)
    BY <1>1, CallerFacts
  <2> QED
    BY <1>9, <2>1 DEF Releasing
<1>16. Proxied(qs, gs, stack)
  BY <1>2, <1>11, <1>14, <1>15, ProxiedGained
<1>17. /\ dx.st = "live" /\ dx.kind = "all" /\ dx.cancelled = FALSE /\ dx.promise = q
       /\ dx.futures = {t, u}
  BY <1>7 DEF NewCtx, NoCtx
<1>18. Gathered(dx, qs, gs, stack)
  <2>1. {t, u} \in SUBSET Futures
    OBVIOUS
  <2> QED
    BY <1>1, <1>2, <1>9, <1>11, <1>12, <1>15, <1>17, <2>1, GatheredGained
<1>19. Booked(sched, pending, gs, stack)
  <2>1. SameEntries(future, gs) /\ SameBatch(stack, stack)
    BY <1>11 DEF Unbound, SameBatch
  <2> QED
    BY <1>2, <2>1, BookedKept
<1> QED
  BY <1>1, <1>7, <1>11, <1>14, <1>16, <1>18, <1>19 DEF OwnInv, Rest

-----------------------------------------------------------------------------
(* The invariant, and what it says.                                        *)

\* Nothing is there at first.
LEMMA InitOwn ==
    ASSUME Init
    PROVE  OwnInv
<1>1. /\ \A f \in Futures : future[f] = NoFuture
      /\ \A p \in Promises : promise[p] = NoPromise
      /\ sched.futures = <<>> /\ pending = <<>> /\ stack = <<>> /\ ctx = NoCtx
  BY DEF Init
<1>2. Linked(future)
  BY <1>1 DEF Linked, LinkedAt, NoFuture, Resting, Idle
<1>3. Promised(promise, future)
  <2>1. Counted(promise)
    <3>1. 0 \in 0..MaxPromise /\ \A p \in Promises : ~(p <= 0)
      BY DEF Promises
    <3>2. \A p \in Promises : promise[p].st = "none"
      BY <1>1 DEF NoPromise
    <3> QED
      BY <3>1, <3>2 DEF Counted
  <2>2. \A p \in Promises : PromiseAt(promise, future, p)
    BY <1>1 DEF PromiseAt, NoPromise
  <2>3. \A f \in Futures : future[f].promise = None
    BY <1>1 DEF NoFuture
  <2> QED
    BY <2>1, <2>2, <2>3 DEF Promised
<1>4. Stacked(future, promise, ctx, sched, stack)
  BY <1>1 DEF Stacked
<1>5. /\ \A f \in Futures : future[f].st = "none" /\ future[f].data = None
      /\ \A f \in Futures : future[f].scheduled_entry = FALSE
      /\ ctx.kind = "all" /\ ctx.cancelled = FALSE /\ ctx.futures = {}
  BY <1>1 DEF NoFuture, NoCtx
<1>6. Proxied(promise, future, stack) /\ Gathered(ctx, promise, future, stack)
  BY <1>5 DEF Proxied, Gathered
<1>7. Booked(sched, pending, future, stack)
  <2>1. PICK l, pe, s : l = sched.futures /\ pe = pending /\ s = stack
                        /\ l = <<>> /\ pe = <<>> /\ s = <<>>
    BY <1>1
  <2>2. DOMAIN l = {} /\ DOMAIN pe = {} /\ DOMAIN s = {}
    BY <2>1
  <2>3. /\ Distinct(l) /\ NoTwins(s) /\ Lone(pe)
        /\ \A f : f \notin Entries(l) /\ ~InBatch(s, f) /\ ~Among(pe, f)
    BY <2>2 DEF Distinct, NoTwins, Lone, Entries, InBatch, Among
  <2> QED
    BY <1>5, <2>1, <2>3 DEF Booked
<1> QED
  BY <1>2, <1>3, <1>4, <1>6, <1>7 DEF OwnInv, Rest

\* Every step keeps it.
LEMMA NextOwn ==
    ASSUME Calm, BaseInv, OwnInv, [Next]_vars
    PROVE  OwnInv'
<1>1. CASE UNCHANGED vars
  BY <1>1 DEF vars, OwnInv
<1>2. CASE UserCall
  <2>1. ASSUME NEW p \in Promises, FutureNew(p) PROVE OwnInv'
    BY <2>1, FutureNewOwn
  <2>2. ASSUME NEW p \in Promises, FutureNewTwice(p) PROVE OwnInv'
    BY <2>2, FutureNewTwiceOwn
  <2>3. ASSUME NEW p \in Promises, NEW v \in {Plain, Error}, Resolve(p, v) PROVE OwnInv'
    BY <2>3, ResolveOwn DEF Settled
  <2>4. ASSUME NEW p \in Promises, ResolveWithPromise(p) PROVE OwnInv'
    BY <2>4, ResolveWithPromiseOwn
  <2>5. ASSUME NEW f \in Futures, Then(f) PROVE OwnInv'
    BY <2>5, ThenOwn
  <2>6. ASSUME NEW f \in Futures, Cancel(f) PROVE OwnInv'
    BY <2>6, CancelOwn
  <2>7. ASSUME NEW f \in Futures, NEW g \in Futures, AllArray(f, g) PROVE OwnInv'
    BY <2>7, AllArrayOwn
  <2>8. ASSUME NEW f \in Futures, NEW g \in Futures, RaceArray(f, g) PROVE OwnInv'
    BY <2>8 DEF RaceArray, Calm
  <2>9. ASSUME CancelAll PROVE OwnInv'
    BY <2>9, CancelAllOwn
  <2> QED
    BY <1>2, <2>1, <2>2, <2>3, <2>4, <2>5, <2>6, <2>7, <2>8, <2>9 DEF UserCall
<1>3. CASE UserReturn
  <2>1. ASSUME NEW r \in {Plain, Error}, ReturnValue(r) PROVE OwnInv'
    BY <2>1, ReturnValueOwn DEF Settled
  <2>2. ASSUME NEW scheduler \in BOOLEAN, ReturnPromise(scheduler) PROVE OwnInv'
    BY <2>2, ReturnPromiseOwn
  <2>3. ASSUME NEW f \in Futures, ReturnFuture(f) PROVE OwnInv'
    BY <2>3, ReturnFutureOwn
  <2> QED
    BY <1>3, <2>1, <2>2, <2>3 DEF UserReturn
<1>4. CASE Library
  <2>1. CASE FuturesDispatch
    BY <2>1, FuturesDispatchOwn
  <2>2. CASE ScheduledEntryCb
    BY <2>2, ScheduledEntryCbOwn
  <2>3. CASE Dispatch
    BY <2>3, DispatchOwn
  <2>4. CASE Dispatched
    BY <2>4, DispatchedOwn
  <2>5. CASE CancelFirst
    BY <2>5, CancelFirstOwn
  <2>6. CASE CancelLoop
    BY <2>6, CancelLoopOwn
  <2>7. CASE Cancelled
    BY <2>7, CancelledOwn
  <2>8. CASE PromiseCancel
    BY <2>8, PromiseCancelOwn
  <2>9. CASE PromiseFree
    BY <2>9, PromiseFreeOwn
  <2>10. CASE CtxClean
    BY <2>10, CtxCleanOwn
  <2>11. CASE AllThenCb
    BY <2>11, AllThenCbOwn
  <2>12. CASE AllFree
    BY <2>12, AllFreeOwn
  <2>13. CASE RaceThenCb
    BY <2>13, RaceThenCbOwn
  <2>14. CASE FutureProxy
    BY <2>14, FutureProxyOwn
  <2>15. CASE CleanDispatch
    BY <2>15, CleanDispatchOwn
  <2>16. CASE LibraryReturn
    BY <2>16, LibraryReturnOwn
  <2>17. CASE CancelAllLoop
    BY <2>17, CancelAllLoopOwn
  <2> QED
    BY <1>4, <2>1, <2>2, <2>3, <2>4, <2>5, <2>6, <2>7, <2>8, <2>9, <2>10, <2>11, <2>12, <2>13,
       <2>14, <2>15, <2>16, <2>17 DEF Library
<1> QED
  BY <1>1, <1>2, <1>3, <1>4 DEF Next

\* Without the uses that make the code work on freed memory, and without
\* eina_promise_race, every chain has one owner.
THEOREM OwnInvariant == Calm => (Spec => []OwnInv)
<1> SUFFICES ASSUME Calm PROVE Spec => []OwnInv
  OBVIOUS
<1>1. Init => OwnInv
  BY InitOwn
<1>2. BaseInv /\ OwnInv /\ [Next]_vars => OwnInv'
  BY NextOwn
<1> QED
  BY <1>1, <1>2, BaseInvariant, PTL DEF Spec

\* What a frame points to is there.
FrameLive(fs, ps, cx, x) ==
    /\ x.f # None => fs[x.f].st = "live"
    /\ x.p # None => ps[x.p].st = "live"
    /\ x.k \in {"clean", "all", "race"} => cx.st = "live"

\* What the frames that wait point to is there.
LEMMA DeepLive ==
    ASSUME NEW fs, Linked(fs), NEW ps, NEW cx, NEW x \in FrameType, DeepAt(fs, ps, cx, x),
           x.k = "user" => x.f \in Futures /\ fs[x.f].cb = "dispatched"
    PROVE  FrameLive(fs, ps, cx, x)
<1>1. x.k \in Deep /\ PlainAt(x)
  BY DEF DeepAt
<1>2. x.k \notin {"clean", "all", "race"}
  BY <1>1 DEF Deep
<1>3. ASSUME x.f # None PROVE fs[x.f].st = "live"
  <2>1. x.f \in Futures
    BY <1>3, FrameFields
  <2>2. x.k \in Loops \cup {"user"}
    BY <1>1, <1>3 DEF PlainAt, Deep, OnFuture, Leaves, Ends, Loops
  <2>3. fs[x.f].cb = "dispatched"
    BY <2>2 DEF DeepAt
  <2> QED
    BY <2>1, <2>3 DEF Linked, LinkedAt
<1>4. ASSUME x.p # None PROVE ps[x.p].st = "live"
  <2>1. x.k = "free"
    BY <1>1, <1>4 DEF PlainAt, Deep, OnPromise
  <2> QED
    BY <2>1 DEF DeepAt, Releasing
<1> QED
  BY <1>2, <1>3, <1>4 DEF FrameLive

\* All but the frame on top, and the loop that _eina_promise_cancel returns
\* to, wait.
LEMMA DeepFrom ==
    ASSUME BaseInv, OwnInv, NEW i \in DOMAIN stack, i # 1, stack[1].k = "pcancel" => i # 2
    PROVE  DeepAt(future, promise, ctx, stack[i])
<1>1. stack \in Seq(FrameType) /\ Stacked(future, promise, ctx, sched, stack)
  BY OwnFacts
<1>2. /\ stack # <<>> /\ i \in Nat
  BY <1>1
<1>3. PICK x \in FrameType, t \in Seq(FrameType) :
        x = stack[1] /\ t = Tail(stack) /\ stack = <<x>> \o t
  BY <1>1, <1>2, StackIsCons
<1>4. TopAt(future, promise, ctx, sched, x, t)
  BY <1>1, <1>2, <1>3 DEF Stacked
<1>5. i - 1 \in DOMAIN t /\ stack[i] = t[i - 1]
  <2>1. i \in DOMAIN (<<x>> \o t) /\ i # 1
    BY <1>3
  <2>2. i - 1 \in DOMAIN t /\ (<<x>> \o t)[i] = t[i - 1]
    BY <2>1, ConsFacts
  <2> QED
    BY <1>3, <2>2
<1>6. CASE x.k # "pcancel"
  <2>1. Below(future, promise, ctx, t)
    BY <1>4, <1>6 DEF TopAt
  <2> QED
    BY <1>5, <2>1 DEF Below
<1>7. CASE x.k = "pcancel"
  <2>1. Below(future, promise, ctx, Tail(t)) /\ t # <<>>
    BY <1>4, <1>7 DEF TopAt
  <2>2. PICK y \in FrameType, u \in Seq(FrameType) : u = Tail(t) /\ t = <<y>> \o u
    BY <2>1, StackIsCons
  <2>3. i - 1 # 1
    BY <1>2, <1>3, <1>7
  <2>4. (i - 1) - 1 \in DOMAIN u /\ t[i - 1] = u[(i - 1) - 1]
    <3>1. PICK j : j = i - 1
      OBVIOUS
    <3>2. j \in DOMAIN (<<y>> \o u) /\ j # 1
      BY <1>5, <2>2, <2>3, <3>1
    <3>3. j - 1 \in DOMAIN u /\ (<<y>> \o u)[j] = u[j - 1]
      BY <3>2, ConsFacts
    <3> QED
      BY <2>2, <3>1, <3>3
  <2> QED
    BY <1>5, <2>1, <2>2, <2>4 DEF Below
<1> QED
  BY <1>6, <1>7

\* The future of a callback is that of the loop below it.
LEMMA CallbackLive ==
    ASSUME BaseInv, OwnInv, NEW i \in DOMAIN stack, stack[i].k \in Callbacks,
           stack[i].k # "return"
    PROVE  stack[i].f \in Futures /\ future[stack[i].f].cb = "dispatched"
<1>1. stack \in Seq(FrameType) /\ StackOK(future, ctx.promise, stack)
  BY OwnFacts
<1>2. i + 1 \in DOMAIN stack /\ CallOK(future, stack[i], stack[i + 1])
  BY <1>1 DEF StackOK
<1>3. i \in Nat /\ i # 0
  BY <1>1
<1>4. stack[1].k = "pcancel" => i # 1
  BY DEF Callbacks, Leaves
<1>5. PICK j : j = i + 1
  OBVIOUS
<1>6. j \in DOMAIN stack /\ j # 1 /\ (stack[1].k = "pcancel" => j # 2)
  BY <1>2, <1>3, <1>4, <1>5
<1>7. DeepAt(future, promise, ctx, stack[j])
  BY <1>6, DeepFrom
<1>8. stack[j] \in FrameType
  BY <1>1, <1>6
<1>9. stack[j].k \in Loops /\ stack[j].f # None /\ stack[i].f = stack[j].f
  BY <1>2, <1>5 DEF CallOK
<1>10. future[stack[j].f].cb = "dispatched"
  BY <1>7, <1>9 DEF DeepAt
<1>11. stack[j].f \in Futures
  BY <1>8, <1>9, FrameFields
<1> QED
  BY <1>9, <1>10, <1>11

\* What the frame on top points to is there.
LEMMA TopLive ==
    ASSUME BaseInv, OwnInv, stack # <<>>
    PROVE  FrameLive(future, promise, ctx, stack[1])
<1>1. /\ stack \in Seq(FrameType) /\ Stacked(future, promise, ctx, sched, stack)
      /\ Linked(future) /\ Gathered(ctx, promise, future, stack)
  BY OwnFacts DEF Rest
<1>2. PICK x \in FrameType, t \in Seq(FrameType) :
        x = stack[1] /\ t = Tail(stack) /\ 1 \in DOMAIN stack
  <2>1. 1 \in DOMAIN stack
    BY <1>1
  <2> QED
    BY <1>1, <2>1, StackIsCons
<1>3. TopAt(future, promise, ctx, sched, x, t) /\ PlainAt(x)
  BY <1>1, <1>2 DEF Stacked, TopAt
<1>4. x.k \in Callbacks /\ x.k # "return" => x.f \in Futures /\ future[x.f].cb = "dispatched"
  BY <1>2, CallbackLive
<1>5. ASSUME x.f # None PROVE future[x.f].st = "live"
  <2>1. x.f \in Futures
    BY <1>5, FrameFields
  <2>2. x.k \in Loops \/ x.k \in Ends \/ x.k = "first" \/ (x.k \in Callbacks /\ x.k # "return")
    BY <1>3, <1>5 DEF PlainAt, OnFuture, Callbacks, Leaves
  <2>3. CASE x.k \in Loops
    BY <1>3, <1>5, <2>3 DEF TopAt, Own, Idle
  <2>4. CASE x.k \in Ends
    <3>1. future[x.f].cb = "dispatched"
      BY <1>3, <2>4 DEF TopAt
    <3> QED
      BY <1>1, <2>1, <3>1 DEF Linked, LinkedAt
  <2>5. CASE x.k = "first"
    BY <1>3, <2>5 DEF TopAt
  <2>6. CASE x.k \in Callbacks /\ x.k # "return"
    BY <1>1, <1>4, <2>1, <2>6 DEF Linked, LinkedAt
  <2> QED
    BY <2>2, <2>3, <2>4, <2>5, <2>6
<1>6. ASSUME x.p # None PROVE promise[x.p].st = "live"
  <2>1. x.k \in {"pcancel", "free", "settle"}
    BY <1>3, <1>6 DEF PlainAt, OnPromise
  <2>2. CASE x.k = "pcancel"
    BY <1>3, <2>2 DEF TopAt
  <2>3. CASE x.k = "free"
    <3>1. x.k \in Deep \ Loops
      BY <2>3 DEF Deep, Loops
    <3>2. DeepAt(future, promise, ctx, x)
      BY <1>3, <3>1 DEF TopAt, Fits
    <3> QED
      BY <2>3, <3>2 DEF DeepAt, Releasing
  <2>4. CASE x.k = "settle"
    BY <1>3, <2>4 DEF TopAt, Releasing
  <2> QED
    BY <2>1, <2>2, <2>3, <2>4
<1>7. ASSUME x.k \in {"clean", "all", "race"} PROVE ctx.st = "live"
  <2>1. x.k # "race"
    BY <1>3 DEF PlainAt
  <2>2. CASE x.k = "clean"
    BY <1>3, <2>2 DEF TopAt, Released
  <2>3. CASE x.k = "all"
    <3>1. x.k \in Leaves /\ x.k \in Callbacks /\ x.k # "return"
      BY <2>3 DEF Leaves, Callbacks
    <3>2. x.f \in Futures /\ future[x.f].kind = "all"
      BY <1>3, <1>4, <2>3, <3>1 DEF TopAt
    <3>3. future[x.f].st = "live"
      BY <1>5, <3>2, NumberFacts
    <3>4. Uncalled(future, stack, x.f)
      BY <1>2, <3>1 DEF Uncalled
    <3>5. x.f \in ctx.futures
      BY <1>1, <3>2, <3>3, <3>4 DEF Gathered
    <3> QED
      BY <1>1, <3>5 DEF Gathered
  <2> QED
    BY <1>7, <2>1, <2>2, <2>3
<1> QED
  BY <1>2, <1>5, <1>6, <1>7 DEF FrameLive

\* And so it is with every frame.
LEMMA FramesLive ==
    ASSUME BaseInv, OwnInv, NEW i \in DOMAIN stack
    PROVE  FrameLive(future, promise, ctx, stack[i])
<1>1. stack \in Seq(FrameType) /\ Linked(future) /\ Stacked(future, promise, ctx, sched, stack)
  BY OwnFacts
<1>2. stack # <<>> /\ stack[i] \in FrameType
  BY <1>1
<1>3. CASE i = 1
  BY <1>2, <1>3, TopLive
<1>4. CASE i # 1 /\ (stack[1].k = "pcancel" => i # 2)
  <2>1. DeepAt(future, promise, ctx, stack[i])
    BY <1>4, DeepFrom
  <2>2. stack[i].k = "user" => stack[i].f \in Futures /\ future[stack[i].f].cb = "dispatched"
    BY CallbackLive DEF Callbacks
  <2> QED
    BY <1>1, <1>2, <2>1, <2>2, DeepLive
<1>5. CASE stack[1].k = "pcancel" /\ i = 2
  <2>1. PICK x \in FrameType, t \in Seq(FrameType) :
          x = stack[1] /\ t = Tail(stack) /\ stack = <<x>> \o t
    BY <1>1, <1>2, StackIsCons
  <2>2. /\ t[1].k = "cancel" /\ PlainAt(t[1]) /\ (t[1].f # None => OwnBut(future, x.p, t[1].f))
    BY <1>1, <1>2, <1>5, <2>1 DEF Stacked, TopAt
  <2>3. stack[i] = t[1]
    <3>1. stack[i] = t[i - 1] /\ i - 1 = 1
      BY <1>5, <2>1, ConsFacts
    <3> QED
      BY <3>1
  <2>4. t[1].p = None
    BY <2>2 DEF PlainAt, OnPromise
  <2> QED
    BY <2>2, <2>3, <2>4 DEF FrameLive, OwnBut
<1> QED
  BY <1>3, <1>4, <1>5

\* What is scheduled are futures.
LEMMA ScheduledFutures ==
    ASSUME BaseInv, OwnInv
    PROVE  Scheduled \subseteq Futures
<1>1. sched \in [futures: Seq(Entry), listener: BOOLEAN] /\ stack \in Seq(FrameType)
  BY OwnFacts
<1>2. \A l \in Seq(Entry) : Entries(l) \subseteq Futures
  <2> SUFFICES ASSUME NEW l \in Seq(Entry), NEW i \in DOMAIN l PROVE l[i].f \in Futures
    BY DEF Entries
  <2>1. l[i] \in Entry
    OBVIOUS
  <2> QED
    BY <2>1 DEF Entry
<1>3. sched.futures \in Seq(Entry)
  BY <1>1
<1>4. \A i \in DOMAIN stack : stack[i].l \in Seq(Entry)
  <2> SUFFICES ASSUME NEW i \in DOMAIN stack PROVE stack[i].l \in Seq(Entry)
    OBVIOUS
  <2>1. stack[i] \in FrameType
    BY <1>1
  <2> QED
    BY <2>1, FrameFields
<1> QED
  BY <1>2, <1>3, <1>4 DEF Scheduled

\* Nothing that the code will still follow leads to freed memory.
LEMMA OwnDangling ==
    ASSUME BaseInv, OwnInv
    PROVE  NoDangling
<1>1. /\ Good(future) /\ Linked(future) /\ Promised(promise, future)
      /\ promise \in [Promises -> PromiseType]
      /\ sched \in [futures: Seq(Entry), listener: BOOLEAN] /\ stack \in Seq(FrameType)
      /\ Proxied(promise, future, stack) /\ Gathered(ctx, promise, future, stack)
      /\ Booked(sched, pending, future, stack)
  BY OwnFacts DEF Rest
<1>2. ASSUME NEW f \in Futures, future[f].st = "live"
      PROVE  /\ future[f].next # None => Live(future[f].next)
             /\ future[f].prev # None => Live(future[f].prev) /\ future[future[f].prev].next = f
             /\ future[f].promise # None =>
                  LET p == promise[future[f].promise] IN p.st = "live" /\ p.future = f
             /\ future[f].cb = "set" =>
                  /\ future[f].kind \in {"all", "race"} => ctx.st = "live" /\ f \in ctx.futures
                  /\ future[f].kind = "proxy" => promise[future[f].data].st = "live"
  <2>1. /\ future[f].next # None => Live(future[f].next)
        /\ future[f].prev # None => Live(future[f].prev) /\ future[future[f].prev].next = f
    BY <1>1 DEF Linked, LinkedAt, Live
  <2>2. ASSUME NEW p, p = future[f].promise, p # None
        PROVE  promise[p].st = "live" /\ promise[p].future = f
    <3>1. p \in Promises /\ f # None
      BY <1>1, <2>2, FutureFields, NumberFacts DEF FutureType
    <3> QED
      BY <1>1, <2>2, <3>1 DEF Promised, PromiseAt
  <2>3. ASSUME future[f].cb = "set", future[f].kind \in {"all", "race"}
        PROVE  ctx.st = "live" /\ f \in ctx.futures
    <3>1. future[f].kind = "all"
      BY <1>1, <2>3 DEF Linked, LinkedAt
    <3>2. f \in ctx.futures
      BY <1>1, <1>2, <2>3, <3>1 DEF Gathered, Uncalled
    <3> QED
      BY <1>1, <3>2 DEF Gathered
  <2>4. ASSUME future[f].cb = "set", future[f].kind = "proxy"
        PROVE  promise[future[f].data].st = "live"
    BY <1>1, <1>2, <2>4 DEF Proxied, Uncalled
  <2> QED
    BY <2>1, <2>2, <2>3, <2>4
<1>3. ASSUME NEW p \in Promises, promise[p].future # None
      PROVE  Live(promise[p].future) /\ future[promise[p].future].promise = p
  <2>1. PICK f \in Futures : f = promise[p].future
    BY <1>1, <1>3 DEF PromiseType
  <2>2. future[f].promise = p /\ p # None
    BY <1>1, <1>3, <2>1, NumberFacts DEF Promised, PromiseAt
  <2>3. future[f].st = "live"
    BY <1>1, <2>2 DEF Linked, LinkedAt
  <2> QED
    BY <2>1, <2>2, <2>3 DEF Live
<1>4. \A f : f \in Scheduled <=> f \in Entries(sched.futures) \/ InBatch(stack, f)
  BY DEF Scheduled, InBatch
<1>5. ASSUME NEW f \in Scheduled PROVE f \in Futures /\ Live(f)
  <2>1. f \in Futures
    BY ScheduledFutures
  <2>2. future[f].scheduled_entry = TRUE
    BY <1>1, <1>4, <1>5, <2>1 DEF Booked
  <2> QED
    BY <1>1, <2>1, <2>2 DEF Linked, LinkedAt, Live
<1>6. \A i \in DOMAIN stack :
        /\ stack[i].f # None => Live(stack[i].f)
        /\ stack[i].p # None => promise[stack[i].p].st = "live"
        /\ stack[i].k \in {"clean", "all", "race"} => ctx.st = "live"
  BY FramesLive DEF FrameLive, Live
<1> QED
  BY <1>2, <1>3, <1>5, <1>6 DEF NoDangling, Live

\* No pointer that the code will still follow leads to a future, a promise or
\* a context that was freed.
THEOREM NothingDangles == Calm => (Spec => []NoDangling)
<1> SUFFICES ASSUME Calm PROVE Spec => []NoDangling
  OBVIOUS
<1>1. BaseInv /\ OwnInv => NoDangling
  BY OwnDangling
<1> QED
  BY <1>1, BaseInvariant, OwnInvariant, PTL

\* A promise that was settled, cancelled or freed with the value that held it
\* is not released once more (eina_mempool_free(_promise_mp, p)).
THEOREM ReleasedOnce == Calm => (Spec => []PromiseOnce)
<1> SUFFICES ASSUME Calm PROVE Spec => []PromiseOnce
  OBVIOUS
<1>1. OwnInv => PromiseOnce
  <2> SUFFICES ASSUME OwnInv, NEW p \in Promises PROVE promise[p].ended <= 1
    BY DEF PromiseOnce
  <2>1. promise[p].ended = 0 \/ promise[p].ended = 1
    BY DEF OwnInv, Promised, PromiseAt
  <2> QED
    BY <2>1
<1> QED
  BY <1>1, OwnInvariant, PTL

\* As many as the numbers up to n.
LEMMA UpTo ==
    ASSUME NEW n \in Nat
    PROVE  IsFiniteSet(1..n) /\ Cardinality(1..n) = n
<1>1. /\ IsFiniteSet(1..n)
      /\ Cardinality(1..n) = IF 1 > n THEN 0 ELSE n - 1 + 1
  BY FS_Interval
<1>2. (IF 1 > n THEN 0 ELSE n - 1 + 1) = n
  OBVIOUS
<1> QED
  BY <1>1, <1>2

\* A list in which nothing is twice is as long as the set of what is in it.
LEMMA LoneLength ==
    ASSUME NEW pe \in Seq(Futures), Lone(pe), NEW S, S = {pe[i] : i \in DOMAIN pe}
    PROVE  Len(pe) = Cardinality(S)
<1>1. PICK n \in Nat : n = Len(pe) /\ DOMAIN pe = 1..n
  OBVIOUS
<1>2. IsFiniteSet(1..n) /\ Cardinality(1..n) = n
  BY UpTo
<1>3. pe \in [1..n -> S]
  BY <1>1
<1>4. pe \in Injection(1..n, S)
  <2>1. \A i, j \in 1..n : pe[i] = pe[j] => i = j
    BY <1>1 DEF Lone
  <2>2. DOMAIN pe = 1..n
    BY <1>1
  <2>3. IsInjective(pe)
    BY <2>1, <2>2 DEF IsInjective
  <2> QED
    BY <1>3, <2>3 DEF Injection
<1>5. pe \in Surjection(1..n, S)
  <2>1. \A x \in S : \E i \in 1..n : pe[i] = x
    BY <1>1
  <2> QED
    BY <1>3, <2>1 DEF Surjection
<1>6. ExistsBijection(1..n, S)
  BY <1>4, <1>5 DEF ExistsBijection, Bijection
<1>7. Cardinality(S) = Cardinality(1..n)
  BY <1>2, <1>6, FS_Bijection
<1> QED
  BY <1>1, <1>2, <1>7

\* _pending_futures, the lists of the scheduler and the fields of the futures
\* agree.
THEOREM PendingAgrees == Calm => (Spec => []PendingExact)
<1> SUFFICES ASSUME Calm PROVE Spec => []PendingExact
  OBVIOUS
<1>1. ASSUME BaseInv, OwnInv PROVE PendingExact
  <2>1. /\ Linked(future) /\ future \in [Futures -> FutureType] /\ pending \in Seq(Futures)
        /\ Booked(sched, pending, future, stack)
    BY <1>1, OwnFacts DEF Rest, Good
  <2>2. {pending[i] : i \in DOMAIN pending} = {f \in Futures : future[f].scheduled_entry}
    <3>1. \A f \in Futures : future[f].scheduled_entry = TRUE <=> Among(pending, f)
      BY <2>1 DEF Booked
    <3>2. \A f \in Futures : future[f].scheduled_entry \in BOOLEAN
      BY <2>1 DEF FutureType
    <3>3. \A i \in DOMAIN pending : pending[i] \in Futures
      BY <2>1
    <3> QED
      BY <3>1, <3>2, <3>3 DEF Among
  <2>3. {f \in Futures : future[f].scheduled_entry} = Scheduled
    <3>1. \A f : f \in Scheduled <=> f \in Entries(sched.futures) \/ InBatch(stack, f)
      BY DEF Scheduled, InBatch
    <3>2. \A f \in Futures : future[f].scheduled_entry = TRUE <=> f \in Scheduled
      BY <2>1, <3>1 DEF Booked
    <3>3. \A f \in Futures : future[f].scheduled_entry \in BOOLEAN
      BY <2>1 DEF FutureType
    <3>4. Scheduled \subseteq Futures
      BY <1>1, ScheduledFutures
    <3> QED
      BY <3>2, <3>3, <3>4
  <2>4. Len(pending) = Cardinality(Scheduled)
    <3>1. Scheduled = {pending[i] : i \in DOMAIN pending} /\ Lone(pending)
      BY <2>1, <2>2, <2>3 DEF Booked
    <3> QED
      BY <2>1, <3>1, LoneLength
  <2>5. ASSUME NEW f \in Futures
        PROVE  /\ ~(future[f].promise # None /\ future[f].scheduled_entry = TRUE)
               /\ future[f].promise # None \/ future[f].scheduled_entry = TRUE =>
                    future[f].prev = None /\ future[f].cb # "dispatched"
    BY <2>1 DEF Linked, LinkedAt, Resting
  <2>6. \A f \in Futures : future[f].scheduled_entry \in BOOLEAN
    BY <2>1 DEF FutureType
  <2> QED
    BY <2>2, <2>3, <2>4, <2>5, <2>6 DEF PendingExact
<1> QED
  BY <1>1, BaseInvariant, OwnInvariant, PTL
============================================================================
