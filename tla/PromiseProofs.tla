--------------------------- MODULE PromiseProofs ---------------------------
(***************************************************************************)
(* Proofs about Promise for every bound, every set of contexts and values, *)
(* and every use of the library, the ones after which the code works on    *)
(* freed memory included: objects and frames are of their types, a         *)
(* callback is called once, and the callbacks of a chain in its order.     *)
(*                                                                         *)
(* The inductive invariant BaseInv says of every pointer the code will     *)
(* still follow to a future (a frame, an entry of a list, the link of a    *)
(* promise) that the future has been made and is Ready: the future it was  *)
(* chained to was called, or has no callback.                              *)
(***************************************************************************)
EXTENDS Promise, FiniteSetTheorems, SequenceTheorems, WellFoundedInduction, TLAPS

Kinds == {"batch", "cancelall", "first", "cancel", "cancelled", "dispatch", "dispatched",
          "pcancel", "free", "clean", "settle", "allfree", "user", "all", "race", "proxy",
          "return"}
Leaves == {"all", "race", "proxy"}
Callbacks == Leaves \cup {"user", "return"}
Loops == {"dispatch", "cancel"}
Ends == {"dispatched", "cancelled"}
OnFuture == Leaves \cup Ends \cup {"first", "user"}
OnPromise == {"pcancel", "free", "settle"}

Settled == {Plain, Error}
Entry == [f: Futures, v: Settled]
FrameType == [k: Kinds, f: Futures \cup {None}, p: Promises \cup {None},
              v: Settled \cup Promises, l: Seq(Entry)]
CtxType == [st: {"none", "live", "freed"}, kind: {"all", "race"},
            promise: Promises \cup {None}, futures: SUBSET Futures,
            cancelled: BOOLEAN, dispatching: BOOLEAN]

\* The futures of fs that were made, and the ones whose turn has come: the
\* future they were chained to was called, or has no callback.
Made(fs, f) == fs[f].st # "none"
Ready(fs, f) ==
    LET b == fs[f].before
    IN  b = None \/ fs[b].called > 0 \/ fs[b].kind = "null"

\* The life of a future: what st, cb, kind and called say of each other.
LifeOK(x) ==
    /\ x.st = "none" => x = NoFuture
    /\ x.st = "freed" => x.prev = None /\ x.next = None /\ x.cb = "null"
    /\ x.st = "freed" => (x.kind # "null" => x.called = 1)
    /\ x.cb = "set" => x.called = 0 /\ x.kind # "null"
    /\ x.cb = "dispatched" => x.called = 1 /\ x.kind # "null"
    /\ x.st = "live" /\ x.cb = "null" => x.kind = "null"
    /\ x.st = "live" /\ x.kind = "proxy" => x.data # None
    /\ x.called <= 1

\* The links of a future agree with the order the chain was built in.
LinksOK(fs, f) ==
    /\ fs[f].next # None => Made(fs, fs[f].next) /\ fs[fs[f].next].before = f
    /\ fs[f].prev # None => fs[f].prev = fs[f].before
    /\ fs[f].before # None => fs[f].before < f /\ Made(fs, fs[f].before)
    /\ fs[f].prev = None => Ready(fs, f)
    /\ fs[f].called > 0 => Ready(fs, f)

Good(fs) ==
    /\ fs \in [Futures -> FutureType]
    /\ \A f \in Futures : LifeOK(fs[f]) /\ LinksOK(fs, f)

\* The futures made so far are numbered without a gap.
Numbered(fs, n) == \A f \in Futures : Made(fs, f) <=> f <= n

\* A future of a context exists only after the context was made.
Ctxed(fs, cp) == \A f \in Futures : fs[f].kind \in {"all", "race"} => cp # None

\* What never changes of a future once it is made, and that gs has no more.
Grows(fs, gs) ==
    \A f \in Futures : Made(fs, f) =>
        /\ Made(gs, f) /\ gs[f].kind = fs[f].kind /\ gs[f].before = fs[f].before
        /\ fs[f].called <= gs[f].called
Keeps(fs, gs) == Grows(fs, gs) /\ \A f \in Futures : Made(gs, f) => Made(fs, f)

Reached(fs, f) == Made(fs, f) /\ Ready(fs, f)
Pointed(ps, fs) ==
    \A p \in Promises : ps[p].future # None => Reached(fs, ps[p].future)
Queued(fs, l) == \A i \in DOMAIN l : Reached(fs, l[i].f)

FrameOK(fs, x) ==
    /\ x.f # None => Made(fs, x.f)
    /\ x.k \in OnFuture => x.f # None
    /\ x.k \in OnPromise => x.p # None
    /\ x.k \in Loops /\ x.f # None => Ready(fs, x.f)
    /\ x.k \in Ends => fs[x.f].called = 1
    /\ Queued(fs, x.l)

\* x is a callback, or the rest of one, right above the loop y that calls it.
CallOK(fs, x, y) ==
    /\ y.k \in Loops /\ y.f # None /\ fs[y.f].called = 1
    /\ x.k # "return" => x.f = y.f

\* A callback of the library starts on top of the stack.
LeafOK(fs, cp, x) ==
    /\ x.k = "proxy" => fs[x.f].data # None
    /\ x.k \in {"all", "race"} => cp # None

StackOK(fs, cp, s) ==
    /\ \A i \in DOMAIN s : FrameOK(fs, s[i])
    /\ \A i \in DOMAIN s : s[i].k \in Callbacks =>
         i + 1 \in DOMAIN s /\ CallOK(fs, s[i], s[i + 1])
    /\ \A i \in DOMAIN s : s[i].k \in Leaves => i = 1 /\ LeafOK(fs, cp, s[i])

Holds(ps, fs) == ps \in [Promises -> PromiseType] /\ Pointed(ps, fs)
Lists(sc, pe, fs) ==
    /\ sc \in [futures: Seq(Entry), listener: BOOLEAN] /\ Queued(fs, sc.futures)
    /\ pe \in Seq(Futures) /\ \A i \in DOMAIN pe : Made(fs, pe[i])
CtxOK(cx, fs) ==
    /\ cx \in CtxType /\ Ctxed(fs, cx.promise)
    /\ \A f \in cx.futures : Made(fs, f)

BaseInv ==
    /\ Good(future) /\ \E n \in 0..MaxFuture : Numbered(future, n)
    /\ Holds(promise, future)
    /\ Lists(sched, pending, future)
    /\ CtxOK(ctx, future)
    /\ stack \in Seq(FrameType) /\ StackOK(future, ctx.promise, stack)
    /\ calls \in 0..MaxCalls
-----------------------------------------------------------------------------
(* Futures.                                                                *)

USE BoundAssumption

\* None is not the number of a future or of a promise.
LEMMA NumberFacts ==
    /\ None \notin Futures /\ None \notin Promises /\ None = 0
    /\ \A f \in Futures : f \in Nat /\ f # None
    /\ \A p \in Promises : p \in Nat /\ p # None
  BY DEF None, Futures, Promises

\* What grows is transitive, and keeps a future ready.
LEMMA GrowsFacts ==
    ASSUME NEW fs, NEW gs, Good(fs), Good(gs), Grows(fs, gs)
    PROVE  /\ \A f \in Futures : Reached(fs, f) => Reached(gs, f)
           /\ \A f \in Futures : Made(fs, f) => Made(gs, f)
           /\ \A f \in Futures : Made(fs, f) /\ fs[f].called = 1 => gs[f].called = 1
<1>1. ASSUME NEW f \in Futures, Made(fs, f)
      PROVE  /\ Made(gs, f) /\ gs[f].before = fs[f].before /\ gs[f].kind = fs[f].kind
             /\ fs[f].called <= gs[f].called /\ fs[f].called \in 0..2 /\ gs[f].called \in 0..2
             /\ gs[f].called <= 1 /\ fs[f].before \in Futures \cup {None}
             /\ fs[f].before # None => Made(fs, fs[f].before)
  <2>1. fs[f] \in FutureType /\ gs[f] \in FutureType
    BY DEF Good
  <2>2. LifeOK(gs[f]) /\ LinksOK(fs, f)
    BY DEF Good
  <2> QED
    BY <1>1, <2>1, <2>2 DEF Grows, FutureType, LifeOK, LinksOK
<1>2. ASSUME NEW f \in Futures, Reached(fs, f) PROVE Reached(gs, f)
  <2>1. Made(fs, f) /\ Ready(fs, f)
    BY <1>2 DEF Reached
  <2>2. CASE fs[f].before = None
    BY <2>1, <2>2, <1>1 DEF Reached, Ready
  <2>3. CASE fs[f].before # None
    <3>1. PICK b \in Futures : b = fs[f].before
      BY <1>1, <2>1, <2>3
    <3>2. Made(fs, b) /\ (fs[b].called > 0 \/ fs[b].kind = "null")
      BY <1>1, <2>1, <2>3, <3>1 DEF Ready
    <3>3. gs[b].called > 0 \/ gs[b].kind = "null"
      BY <1>1, <3>1, <3>2
    <3> QED
      BY <1>1, <2>1, <3>1, <3>3 DEF Reached, Ready
  <2> QED
    BY <2>2, <2>3
<1>3. ASSUME NEW f \in Futures, Made(fs, f), fs[f].called = 1 PROVE gs[f].called = 1
  BY <1>1, <1>3
<1> QED
  BY <1>1, <1>2, <1>3

\* Growth is transitive.
LEMMA GrowsTrans ==
    ASSUME NEW fs, NEW gs, NEW hs, Good(fs), Good(gs), Good(hs), Grows(fs, gs), Grows(gs, hs)
    PROVE  Grows(fs, hs)
<1>1. \A f \in Futures : fs[f].called \in 0..2 /\ gs[f].called \in 0..2 /\ hs[f].called \in 0..2
  BY DEF Good, FutureType
<1> QED
  BY <1>1 DEF Grows

\* Where no future is new, the numbering stays.
LEMMA KeepsNumbered ==
    ASSUME NEW fs, NEW gs, NEW n, Numbered(fs, n), Keeps(fs, gs)
    PROVE  Numbered(gs, n)
  BY DEF Numbered, Keeps, Grows

\* Where no future is new, no kind is.
LEMMA KeepsCtxed ==
    ASSUME NEW fs, NEW gs, NEW cp, Good(fs), Good(gs), Ctxed(fs, cp), Keeps(fs, gs)
    PROVE  Ctxed(gs, cp)
<1>1. ASSUME NEW f \in Futures, gs[f].kind \in {"all", "race"} PROVE cp # None
  <2>1. Made(gs, f)
    BY <1>1 DEF Good, LifeOK, Made, NoFuture
  <2>2. gs[f].kind = fs[f].kind
    BY <2>1 DEF Keeps, Grows
  <2> QED
    BY <1>1, <2>2 DEF Ctxed
<1> QED
  BY <1>1 DEF Ctxed

\* A step that leaves the futures alone keeps them.
LEMMA KeepsSame ==
    ASSUME NEW fs, Good(fs)
    PROVE  Keeps(fs, fs)
<1>1. \A f \in Futures : fs[f].called \in 0..2
  BY DEF Good, FutureType
<1> QED
  BY <1>1 DEF Keeps, Grows

\* The links to promises and to the scheduler do not matter.
Alike(x, y) ==
    /\ x.st = y.st /\ x.next = y.next /\ x.prev = y.prev /\ x.cb = y.cb /\ x.kind = y.kind
    /\ x.data = y.data /\ x.called = y.called /\ x.before = y.before

\* Futures that differ in such links only are as good.
LEMMA AlikeGood ==
    ASSUME NEW fs, NEW gs, Good(fs), gs \in [Futures -> FutureType],
           \A f \in Futures : Alike(gs[f], fs[f]),
           \A f \in Futures : ~Made(fs, f) => gs[f] = fs[f]
    PROVE  Good(gs) /\ Keeps(fs, gs)
<1>1. ASSUME NEW f \in Futures PROVE LifeOK(gs[f])
  BY DEF Good, LifeOK, Alike, Made
<1>2. \A f \in Futures : /\ fs[f].next \in Futures \cup {None}
                         /\ fs[f].before \in Futures \cup {None}
                         /\ fs[f].called \in 0..2
  BY DEF Good, FutureType
<1>3. \A f \in Futures : Ready(fs, f) <=> Ready(gs, f)
  BY <1>2 DEF Ready, Alike
<1>4. \A f \in Futures : Made(fs, f) <=> Made(gs, f)
  BY DEF Made, Alike
<1>5. ASSUME NEW f \in Futures PROVE LinksOK(gs, f)
  BY <1>2, <1>3, <1>4 DEF Good, LinksOK, Alike
<1>6. Keeps(fs, gs)
  BY <1>2, <1>4 DEF Keeps, Grows, Alike
<1> QED
  BY <1>1, <1>5, <1>6 DEF Good

\* _eina_promise_link and _eina_promise_unlink
LEMMA LinkFGood ==
    ASSUME NEW fs, Good(fs), NEW f \in Futures, NEW p \in Promises \cup {None}, Made(fs, f)
    PROVE  Good(LinkF(fs, p, f)) /\ Keeps(fs, LinkF(fs, p, f))
<1> DEFINE gs == LinkF(fs, p, f)
<1>1. fs \in [Futures -> FutureType]
  BY DEF Good
<1>2. \A x \in FutureType : [x EXCEPT !.promise = p] \in FutureType /\ Alike([x EXCEPT !.promise = p], x)
  BY DEF FutureType, Alike
<1>3. gs \in [Futures -> FutureType]
  BY <1>1, <1>2 DEF LinkF
<1>4. \A g \in Futures : gs[g] = IF g = f THEN [fs[g] EXCEPT !.promise = p] ELSE fs[g]
  BY <1>1 DEF LinkF
<1>5. \A g \in Futures : Alike(gs[g], fs[g])
  <2> HIDE DEF gs
  <2>1. \A x : Alike(x, x)
    BY DEF Alike
  <2>2. \A g \in Futures : fs[g] \in FutureType
    BY <1>1
  <2> QED
    BY <1>2, <1>4, <2>1, <2>2
<1>6. \A g \in Futures : ~Made(fs, g) => gs[g] = fs[g]
  BY <1>4
<1> HIDE DEF gs
<1>7. Good(gs) /\ Keeps(fs, gs)
  BY <1>3, <1>5, <1>6, AlikeGood
<1> QED
  BY <1>7 DEF gs

\* _eina_promise_unlink; a promise may have no future to unlink.
LEMMA UnlinkFGood ==
    ASSUME NEW fs, Good(fs), NEW f \in Futures \cup {None}, f # None => Made(fs, f)
    PROVE  Good(UnlinkF(fs, f)) /\ Keeps(fs, UnlinkF(fs, f))
<1> DEFINE gs == UnlinkF(fs, f)
<1>1. fs \in [Futures -> FutureType]
  BY DEF Good
<1>2. \A x \in FutureType : /\ [x EXCEPT !.promise = None] \in FutureType
                            /\ Alike([x EXCEPT !.promise = None], x)
  BY DEF FutureType, Alike
<1>3. gs \in [Futures -> FutureType]
  BY <1>1, <1>2 DEF UnlinkF
<1>4. \A g \in Futures : gs[g] = IF g = f THEN [fs[g] EXCEPT !.promise = None] ELSE fs[g]
  BY <1>1 DEF UnlinkF
<1>5. \A g \in Futures : Alike(gs[g], fs[g])
  <2> HIDE DEF gs
  <2>1. \A x : Alike(x, x)
    BY DEF Alike
  <2>2. \A g \in Futures : fs[g] \in FutureType
    BY <1>1
  <2> QED
    BY <1>2, <1>4, <2>1, <2>2
<1>6. \A g \in Futures : ~Made(fs, g) => gs[g] = fs[g]
  BY <1>4, NumberFacts
<1> HIDE DEF gs
<1>7. Good(gs) /\ Keeps(fs, gs)
  BY <1>3, <1>5, <1>6, AlikeGood
<1> QED
  BY <1>7 DEF gs

\* A future gets or loses its entry in the scheduler's lists.
LEMMA EntryGood ==
    ASSUME NEW fs, Good(fs), NEW f \in Futures, NEW b \in BOOLEAN, Made(fs, f)
    PROVE  LET gs == [fs EXCEPT ![f].scheduled_entry = b] IN Good(gs) /\ Keeps(fs, gs)
<1> DEFINE gs == [fs EXCEPT ![f].scheduled_entry = b]
<1>1. fs \in [Futures -> FutureType]
  BY DEF Good
<1>2. \A x \in FutureType : /\ [x EXCEPT !.scheduled_entry = b] \in FutureType
                            /\ Alike([x EXCEPT !.scheduled_entry = b], x)
  BY DEF FutureType, Alike
<1>3. gs \in [Futures -> FutureType]
  BY <1>1, <1>2
<1>4. \A g \in Futures : gs[g] = IF g = f THEN [fs[g] EXCEPT !.scheduled_entry = b] ELSE fs[g]
  BY <1>1
<1>5. \A g \in Futures : Alike(gs[g], fs[g])
  <2> HIDE DEF gs
  <2>1. \A x : Alike(x, x)
    BY DEF Alike
  <2>2. \A g \in Futures : fs[g] \in FutureType
    BY <1>1
  <2> QED
    BY <1>2, <1>4, <2>1, <2>2
<1>6. \A g \in Futures : ~Made(fs, g) => gs[g] = fs[g]
  BY <1>4
<1> HIDE DEF gs
<1>7. Good(gs) /\ Keeps(fs, gs)
  BY <1>3, <1>5, <1>6, AlikeGood
<1> QED
  BY <1>7 DEF gs

\* What is known of one future.
LEMMA FutureFields ==
    ASSUME NEW fs, Good(fs), NEW f \in Futures
    PROVE  /\ fs[f] \in FutureType /\ LifeOK(fs[f]) /\ LinksOK(fs, f)
           /\ fs[f].next \in Futures \cup {None} /\ fs[f].prev \in Futures \cup {None}
           /\ fs[f].before \in Futures \cup {None} /\ fs[f].called \in 0..2
  BY DEF Good, FutureType

\* The next future is not the previous one: the chain was built in order.
LEMMA NextNotPrev ==
    ASSUME NEW fs, Good(fs), NEW f \in Futures
    PROVE  /\ \A g \in Futures : g = fs[f].next => g # fs[f].prev /\ f < g
           /\ \A g \in Futures : g = fs[f].prev => g < f
<1>1. \A g \in Futures : g = fs[f].next => f < g
  BY FutureFields, NumberFacts DEF LinksOK
<1>2. \A g \in Futures : g = fs[f].prev => g < f
  BY FutureFields, NumberFacts DEF LinksOK
<1> QED
  BY <1>1, <1>2, NumberFacts

\* _eina_future_free: what is freed has been called, and its turn had come.
LEMMA FreeFGood ==
    ASSUME NEW fs, Good(fs), NEW f \in Futures, Reached(fs, f),
           fs[f].kind # "null" => fs[f].called = 1
    PROVE  Good(FreeF(fs, f)) /\ Keeps(fs, FreeF(fs, f))
<1> DEFINE gs == FreeF(fs, f)
           freed == [NoFuture EXCEPT !.st = "freed", !.kind = fs[f].kind,
                        !.called = fs[f].called, !.before = fs[f].before]
<1>1. /\ gs[f] = freed
      /\ \A g \in Futures : g # f /\ g = fs[f].next => gs[g] = [fs[g] EXCEPT !.prev = None]
      /\ \A g \in Futures : g # f /\ g # fs[f].next /\ g = fs[f].prev =>
           gs[g] = [fs[g] EXCEPT !.next = None]
      /\ \A g \in Futures : g # f /\ g # fs[f].next /\ g # fs[f].prev => gs[g] = fs[g]
      /\ gs = [g \in Futures |-> gs[g]]
  <2>1. gs[f] = freed
    BY DEF FreeF
  <2>2. \A g \in Futures : g # f /\ g = fs[f].next => gs[g] = [fs[g] EXCEPT !.prev = None]
    BY NextNotPrev DEF FreeF
  <2>3. \A g \in Futures : g # f /\ g # fs[f].next /\ g = fs[f].prev =>
           gs[g] = [fs[g] EXCEPT !.next = None]
    BY DEF FreeF
  <2>4. \A g \in Futures : g # f /\ g # fs[f].next /\ g # fs[f].prev => gs[g] = fs[g]
    BY DEF FreeF
  <2>5. gs = [g \in Futures |-> gs[g]]
    BY DEF FreeF
  <2> QED
    BY <2>1, <2>2, <2>3, <2>4, <2>5
<1> HIDE DEF gs
<1>2. /\ freed.st = "freed" /\ freed.kind = fs[f].kind /\ freed.called = fs[f].called
      /\ freed.before = fs[f].before /\ freed.prev = None /\ freed.next = None
      /\ freed.cb = "null" /\ freed.data = None
  BY DEF NoFuture
<1>3. freed \in FutureType
  BY FutureFields DEF FutureType, NoFuture, None
<1>4. \A x \in FutureType :
        /\ [x EXCEPT !.prev = None] \in FutureType /\ [x EXCEPT !.next = None] \in FutureType
  BY DEF FutureType
<1> HIDE DEF freed
<1>5. gs \in [Futures -> FutureType]
  <2>1. ASSUME NEW g \in Futures PROVE gs[g] \in FutureType
    <3>1. fs[g] \in FutureType
      BY FutureFields
    <3>2. gs[g] \in {gs[f], [fs[g] EXCEPT !.prev = None], [fs[g] EXCEPT !.next = None], fs[g]}
      BY <1>1
    <3> QED
      BY <1>1, <1>3, <1>4, <3>1, <3>2
  <2> QED
    BY <1>1, <2>1
<1>6. \A g \in Futures : /\ gs[g].kind = fs[g].kind /\ gs[g].called = fs[g].called
                         /\ gs[g].before = fs[g].before
                         /\ g # f => gs[g].st = fs[g].st /\ gs[g].cb = fs[g].cb
                         /\ g # f => gs[g].data = fs[g].data
                         /\ gs[g].next = None \/ gs[g].next = fs[g].next
                         /\ gs[g].prev = None \/ gs[g].prev = fs[g].prev
                         /\ gs[g].prev # fs[g].prev => g = f \/ g = fs[f].next
  BY <1>1, <1>2, <1>4, FutureFields DEF FutureType
<1>7. Made(gs, f) /\ Made(fs, f) /\ \A g \in Futures : Made(gs, g) <=> Made(fs, g)
  BY <1>1, <1>2, <1>6 DEF Made, Reached
<1>8. \A g \in Futures : Ready(gs, g) <=> Ready(fs, g)
  BY <1>6, FutureFields DEF Ready
<1>9. ASSUME NEW g \in Futures PROVE LifeOK(gs[g])
  <2>1. CASE g = f
    <3>1. gs[f].called <= 1
      BY <1>6, FutureFields DEF LifeOK
    <3> QED
      BY <1>1, <1>2, <2>1, <3>1 DEF LifeOK
  <2>2. CASE g # f /\ Made(fs, g)
    <3>1. LifeOK(fs[g])
      BY FutureFields
    <3> QED
      BY <1>6, <2>2, <3>1 DEF LifeOK, Made
  <2>3. CASE g # f /\ ~Made(fs, g)
    <3>1. g # fs[f].next /\ g # fs[f].prev
      BY <2>3, NumberFacts, FutureFields DEF LinksOK
    <3> QED
      BY <1>1, <2>3, <3>1, FutureFields
  <2> QED
    BY <2>1, <2>2, <2>3
<1>10. ASSUME NEW g \in Futures PROVE LinksOK(gs, g)
  <2>1. gs[g].next # None => Made(gs, gs[g].next) /\ gs[gs[g].next].before = g
    BY <1>6, <1>7, FutureFields DEF LinksOK
  <2>2. gs[g].prev # None => gs[g].prev = gs[g].before
    BY <1>6, FutureFields DEF LinksOK
  <2>3. gs[g].before # None => gs[g].before < g /\ Made(gs, gs[g].before)
    BY <1>6, <1>7, FutureFields DEF LinksOK
  <2>4. gs[g].called > 0 => Ready(gs, g)
    BY <1>6, <1>8, FutureFields DEF LinksOK
  <2>5. ASSUME gs[g].prev = None PROVE Ready(gs, g)
    <3>1. CASE fs[g].prev = None
      BY <3>1, <1>8, FutureFields DEF LinksOK
    <3>2. CASE g = f
      BY <3>2, <1>8 DEF Reached
    <3>3. CASE g = fs[f].next
      <4>1. fs[g].before = f /\ (fs[f].called > 0 \/ fs[f].kind = "null")
        BY <3>3, NumberFacts, FutureFields DEF LinksOK
      <4> QED
        BY <4>1, <1>8 DEF Ready
    <3> QED
      BY <1>6, <2>5, <3>1, <3>2, <3>3
  <2> QED
    BY <2>1, <2>2, <2>3, <2>4, <2>5 DEF LinksOK
<1>11. Good(gs)
  BY <1>5, <1>9, <1>10 DEF Good
<1>12. Keeps(fs, gs)
  BY <1>6, <1>7, FutureFields DEF Keeps, Grows
<1> QED
  BY <1>11, <1>12 DEF gs

\* _eina_future_cb_dispatch: a callback is called when its turn has come, and
\* the next one's has then.
LEMMA CbDispatchGood ==
    ASSUME NEW fs, Good(fs), NEW f \in Futures, Reached(fs, f), fs[f].cb = "set"
    PROVE  /\ Good(CbDispatch(fs, f)) /\ Keeps(fs, CbDispatch(fs, f))
           /\ CbDispatch(fs, f)[f].called = 1 /\ CbDispatch(fs, f)[f].data = fs[f].data
<1> DEFINE gs == CbDispatch(fs, f)
           called == [fs[f] EXCEPT !.cb = "dispatched", !.called = IF @ < 2 THEN @ + 1 ELSE 2]
<1>1. /\ gs[f] = called
      /\ \A g \in Futures : g # f /\ g = fs[f].next => gs[g] = [fs[g] EXCEPT !.prev = None]
      /\ \A g \in Futures : g # f /\ g # fs[f].next /\ g = fs[f].prev =>
           gs[g] = [fs[g] EXCEPT !.next = None]
      /\ \A g \in Futures : g # f /\ g # fs[f].next /\ g # fs[f].prev => gs[g] = fs[g]
      /\ gs = [g \in Futures |-> gs[g]]
  <2>1. gs[f] = called
    BY DEF CbDispatch
  <2>2. \A g \in Futures : g # f /\ g = fs[f].next => gs[g] = [fs[g] EXCEPT !.prev = None]
    BY NextNotPrev DEF CbDispatch
  <2>3. \A g \in Futures : g # f /\ g # fs[f].next /\ g = fs[f].prev =>
           gs[g] = [fs[g] EXCEPT !.next = None]
    BY DEF CbDispatch
  <2>4. \A g \in Futures : g # f /\ g # fs[f].next /\ g # fs[f].prev => gs[g] = fs[g]
    BY DEF CbDispatch
  <2>5. gs = [g \in Futures |-> gs[g]]
    BY DEF CbDispatch
  <2> QED
    BY <2>1, <2>2, <2>3, <2>4, <2>5
<1> HIDE DEF gs
<1>0. fs[f].called = 0 /\ fs[f].kind # "null" /\ Made(fs, f) /\ Ready(fs, f)
  BY FutureFields DEF LifeOK, Reached
<1>2. /\ called.st = fs[f].st /\ called.kind = fs[f].kind /\ called.called = 1
      /\ called.before = fs[f].before /\ called.prev = fs[f].prev /\ called.next = fs[f].next
      /\ called.cb = "dispatched" /\ called.data = fs[f].data
  BY <1>0, FutureFields DEF FutureType
<1>3. called \in FutureType
  <2>1. \A x \in FutureType : \A c \in 0..2 :
          [x EXCEPT !.cb = "dispatched", !.called = c] \in FutureType
    BY DEF FutureType
  <2>2. PICK c \in 0..2 : c = IF fs[f].called < 2 THEN fs[f].called + 1 ELSE 2
    BY <1>0
  <2>3. called = [fs[f] EXCEPT !.cb = "dispatched", !.called = c]
    BY <2>2, Zenon
  <2> QED
    BY <2>1, <2>3, FutureFields
<1>4. \A x \in FutureType :
        /\ [x EXCEPT !.prev = None] \in FutureType /\ [x EXCEPT !.next = None] \in FutureType
  BY DEF FutureType
<1> HIDE DEF called
<1>5. gs \in [Futures -> FutureType]
  <2>1. ASSUME NEW g \in Futures PROVE gs[g] \in FutureType
    <3>1. fs[g] \in FutureType
      BY FutureFields
    <3>2. gs[g] \in {gs[f], [fs[g] EXCEPT !.prev = None], [fs[g] EXCEPT !.next = None], fs[g]}
      BY <1>1
    <3> QED
      BY <1>1, <1>3, <1>4, <3>1, <3>2
  <2> QED
    BY <1>1, <2>1
<1>6. \A g \in Futures : /\ gs[g].kind = fs[g].kind
                         /\ gs[g].before = fs[g].before /\ gs[g].st = fs[g].st
                         /\ g # f => gs[g].called = fs[g].called /\ gs[g].cb = fs[g].cb
                         /\ gs[g].data = fs[g].data
                         /\ gs[g].next = None \/ gs[g].next = fs[g].next
                         /\ gs[g].prev = None \/ gs[g].prev = fs[g].prev
                         /\ gs[g].prev # fs[g].prev => g = fs[f].next
  BY <1>1, <1>2, <1>4, FutureFields DEF FutureType
<1>7. \A g \in Futures : Made(gs, g) <=> Made(fs, g)
  BY <1>6 DEF Made
<1>c. \A g \in Futures : fs[g].called > 0 => gs[g].called > 0
  BY <1>0, <1>6, FutureFields
<1>8. \A g \in Futures : Ready(fs, g) => Ready(gs, g)
  BY <1>c, <1>6, FutureFields DEF Ready
<1>9. ASSUME NEW g \in Futures PROVE LifeOK(gs[g])
  <2>1. CASE g = f
    <3>1. LifeOK(fs[f]) /\ fs[f].st # "freed"
      BY <1>0, FutureFields DEF LifeOK
    <3> QED
      BY <1>0, <1>1, <1>2, <2>1, <3>1 DEF LifeOK, Made
  <2>2. CASE g # f /\ Made(fs, g)
    <3>1. LifeOK(fs[g])
      BY FutureFields
    <3> QED
      BY <1>6, <2>2, <3>1 DEF LifeOK, Made
  <2>3. CASE g # f /\ ~Made(fs, g)
    <3>1. g # fs[f].next /\ g # fs[f].prev
      BY <2>3, NumberFacts, FutureFields DEF LinksOK
    <3> QED
      BY <1>1, <2>3, <3>1, FutureFields
  <2> QED
    BY <2>1, <2>2, <2>3
<1>10. ASSUME NEW g \in Futures PROVE LinksOK(gs, g)
  <2>1. gs[g].next # None => Made(gs, gs[g].next) /\ gs[gs[g].next].before = g
    BY <1>6, <1>7, FutureFields DEF LinksOK
  <2>2. gs[g].prev # None => gs[g].prev = gs[g].before
    BY <1>6, FutureFields DEF LinksOK
  <2>3. gs[g].before # None => gs[g].before < g /\ Made(gs, gs[g].before)
    BY <1>6, <1>7, FutureFields DEF LinksOK
  <2>4. gs[g].called > 0 => Ready(gs, g)
    BY <1>0, <1>6, <1>8, FutureFields DEF LinksOK
  <2>5. ASSUME gs[g].prev = None PROVE Ready(gs, g)
    <3>1. CASE fs[g].prev = None
      BY <3>1, <1>8, FutureFields DEF LinksOK
    <3>3. CASE g = fs[f].next
      <4>1. fs[g].before = f
        BY <3>3, NumberFacts, FutureFields DEF LinksOK
      <4>2. gs[g].before = f /\ gs[f].called > 0
        BY <4>1, <1>1, <1>2, <1>6
      <4> QED
        BY <4>2 DEF Ready
    <3> QED
      BY <1>6, <2>5, <3>1, <3>3
  <2> QED
    BY <2>1, <2>2, <2>3, <2>4, <2>5 DEF LinksOK
<1>11. Good(gs)
  BY <1>5, <1>9, <1>10 DEF Good
<1>12. Keeps(fs, gs)
  <2>1. \A g \in Futures : fs[g].called <= gs[g].called
    BY <1>0, <1>1, <1>2, <1>6, FutureFields
  <2> QED
    BY <2>1, <1>6, <1>7 DEF Keeps, Grows
<1> QED
  BY <1>1, <1>2, <1>11, <1>12 DEF gs

FutureKinds == {"null", "user", "all", "race", "proxy"}

\* The fields of a new future.
Fresh(kind, data) ==
    [NoFuture EXCEPT !.st = "live", !.kind = kind, !.data = data,
                     !.cb = IF kind = "null" THEN "null" ELSE "set"]

\* They are the fields of _eina_future_new.
LEMMA FreshFields ==
    \A kind \in FutureKinds, data \in Promises \cup {None} :
      LET x == Fresh(kind, data)
      IN  /\ x \in FutureType /\ x.st = "live" /\ x.kind = kind /\ x.data = data
          /\ x.prev = None /\ x.next = None /\ x.called = 0 /\ x.before = None
          /\ x.promise = None /\ x.scheduled_entry = FALSE
          /\ kind = "null" => x.cb = "null"
          /\ kind # "null" => x.cb = "set"
<1> TAKE kind \in FutureKinds, data \in Promises \cup {None}
<1>1. PICK c \in {"null", "set"} : c = IF kind = "null" THEN "null" ELSE "set"
  OBVIOUS
<1> DEFINE new == [NoFuture EXCEPT !.st = "live", !.kind = kind, !.data = data, !.cb = c]
<1>2. Fresh(kind, data) = new
  BY <1>1, Zenon DEF Fresh
<1>3. new \in FutureType
  <2>1. NoFuture \in FutureType
    BY DEF FutureType, None, NoFuture
  <2>2. \A x \in FutureType :
          /\ [x EXCEPT !.st = "live"] \in FutureType /\ [x EXCEPT !.kind = kind] \in FutureType
          /\ [x EXCEPT !.data = data] \in FutureType /\ [x EXCEPT !.cb = c] \in FutureType
    BY DEF FutureType, FutureKinds
  <2>3. [[[[NoFuture EXCEPT !.st = "live"] EXCEPT !.kind = kind] EXCEPT !.data = data]
           EXCEPT !.cb = c] \in FutureType
    BY <2>1, <2>2
  <2> QED
    BY <2>3
<1>4. /\ new.st = "live" /\ new.kind = kind /\ new.data = data /\ new.prev = None
      /\ new.next = None /\ new.called = 0 /\ new.before = None /\ new.cb = c
      /\ new.promise = None /\ new.scheduled_entry = FALSE
  BY DEF NoFuture
<1> HIDE DEF new
<1> QED
  BY <1>1, <1>2, <1>3, <1>4

\* _eina_future_new: the new future is the first of a chain.
LEMMA NewFutureGood ==
    ASSUME NEW fs, Good(fs), NEW n \in 0..MaxFuture, Numbered(fs, n), n + 1 \in Futures,
           NEW kind \in FutureKinds, NEW data \in Promises \cup {None},
           kind = "proxy" => data # None
    PROVE  LET gs == NewFuture(fs, n + 1, kind, data)
           IN  /\ Good(gs) /\ Grows(fs, gs) /\ Numbered(gs, n + 1)
               /\ \A g \in Futures : g # n + 1 => gs[g] = fs[g]
               /\ gs[n + 1] = Fresh(kind, data)
<1> DEFINE f == n + 1
           new == Fresh(kind, data)
           gs == NewFuture(fs, f, kind, data)
<1>0. fs \in [Futures -> FutureType] /\ f \in Futures
  BY DEF Good
<1>1. gs[f] = new /\ (\A g \in Futures : g # f => gs[g] = fs[g])
  BY <1>0 DEF NewFuture, Fresh
<1>2. new \in FutureType
  BY FreshFields
<1>3. gs \in [Futures -> FutureType]
  BY <1>0, <1>2 DEF NewFuture, Fresh
<1>4. /\ new.st = "live" /\ new.kind = kind /\ new.data = data /\ new.prev = None
      /\ new.next = None /\ new.called = 0 /\ new.before = None
      /\ kind = "null" => new.cb = "null"
      /\ kind # "null" => new.cb = "set"
  BY FreshFields
<1>5. ~Made(fs, f) /\ Made(gs, f) /\ \A g \in Futures : g # f => (Made(gs, g) <=> Made(fs, g))
  <2>1. ~Made(fs, f)
    BY <1>0 DEF Numbered
  <2> QED
    BY <1>1, <1>4, <2>1 DEF Made
<1> HIDE DEF gs, new
<1>6. \A g \in Futures : g # f => LifeOK(gs[g]) /\ (Made(fs, g) => g # f)
  BY <1>1, FutureFields
<1>7. LifeOK(gs[f])
  BY <1>1, <1>4 DEF LifeOK, FutureKinds
<1>8. ASSUME NEW g \in Futures, g # f PROVE LinksOK(gs, g)
  <2>1. /\ gs[g] = fs[g] /\ LinksOK(fs, g) /\ fs[g].next \in Futures \cup {None}
        /\ fs[g].before \in Futures \cup {None} /\ fs[g].called \in 0..2
    BY <1>1, <1>8, FutureFields
  <2>2. fs[g].next # None => fs[g].next # f
    BY <2>1, <1>5 DEF LinksOK
  <2>3. fs[g].before # None => fs[g].before # f
    BY <2>1, <1>5 DEF LinksOK
  <2>4. Ready(fs, g) => Ready(gs, g)
    BY <2>1, <2>3, <1>1 DEF Ready
  <2> QED
    BY <2>1, <2>2, <2>3, <2>4, <1>1, <1>5 DEF LinksOK
<1>9. LinksOK(gs, f)
  BY <1>1, <1>4 DEF LinksOK, Ready
<1>10. Good(gs)
  BY <1>3, <1>6, <1>7, <1>8, <1>9 DEF Good
<1>11. Grows(fs, gs)
  BY <1>1, <1>5, FutureFields DEF Grows
<1>12. Numbered(gs, f)
  <2>1. ASSUME NEW g \in Futures PROVE Made(gs, g) <=> g <= f
    <3>1. g \in Nat /\ (g <= f <=> (g = f \/ g <= n))
      BY NumberFacts
    <3>2. Made(fs, g) <=> g <= n
      BY DEF Numbered
    <3> QED
      BY <3>1, <3>2, <1>5
  <2> QED
    BY <2>1 DEF Numbered
<1> QED
  BY <1>1, <1>10, <1>11, <1>12 DEF gs, new

\* _eina_future_then: the new future is behind prev.
LEMMA ThenNewGood ==
    ASSUME NEW fs, Good(fs), NEW n \in 0..MaxFuture, Numbered(fs, n), n + 1 \in Futures,
           NEW kind \in FutureKinds, NEW data \in Promises \cup {None},
           kind = "proxy" => data # None,
           NEW prev \in Futures, fs[prev].st = "live"
    PROVE  LET gs == ThenNew(fs, prev, n + 1, kind, data)
           IN  /\ Good(gs) /\ Grows(fs, gs) /\ Numbered(gs, n + 1)
               /\ \A g \in Futures : g # n + 1 => /\ gs[g].st = fs[g].st
                                                 /\ gs[g].kind = fs[g].kind
               /\ gs[n + 1].kind = kind
<1> DEFINE f == n + 1
           new == Fresh(kind, data)
           hs == NewFuture(fs, f, kind, data)
           gs == ThenNew(fs, prev, f, kind, data)
<1>0. /\ fs \in [Futures -> FutureType] /\ f \in Futures
      /\ Good(hs) /\ Grows(fs, hs) /\ Numbered(hs, f) /\ hs[f] = new
      /\ \A g \in Futures : g # f => hs[g] = fs[g]
  <2>1. fs \in [Futures -> FutureType] /\ f \in Futures
    BY DEF Good
  <2>2. /\ Good(hs) /\ Grows(fs, hs) /\ Numbered(hs, f) /\ hs[f] = new
        /\ \A g \in Futures : g # f => hs[g] = fs[g]
    BY NewFutureGood
  <2> QED
    BY <2>1, <2>2
<1>a. /\ new.st = "live" /\ new.kind = kind /\ new.data = data /\ new.prev = None
      /\ new.next = None /\ new.called = 0 /\ new.before = None
      /\ kind = "null" => new.cb = "null"
      /\ kind # "null" => new.cb = "set"
      /\ new \in FutureType
  BY FreshFields
<1>1. ~Made(fs, f) /\ Made(fs, prev) /\ prev < f /\ prev # f
  <2>1. ~Made(fs, f)
    BY <1>0 DEF Numbered
  <2>2. Made(fs, prev)
    BY DEF Made
  <2>3. prev <= n /\ prev \in Nat
    BY <2>2, NumberFacts DEF Numbered
  <2> QED
    BY <2>1, <2>2, <2>3
<1>2. hs \in [Futures -> FutureType]
  BY <1>0 DEF Good
<1>b. \A x \in FutureType : [x EXCEPT !.next = f] \in FutureType
  BY <1>0 DEF FutureType
<1>3. /\ gs \in [Futures -> FutureType]
      /\ gs[f] = [new EXCEPT !.prev = prev, !.before = prev]
      /\ gs[prev] = [fs[prev] EXCEPT !.next = f]
      /\ \A g \in Futures : g # f /\ g # prev => gs[g] = fs[g]
  <2> HIDE DEF hs, new
  <2> DEFINE h1 == [hs EXCEPT ![f].prev = prev]
             h2 == [h1 EXCEPT ![f].before = prev]
             h3 == [h2 EXCEPT ![prev].next = f]
  <2>1. gs = h3
    BY Zenon DEF ThenNew, hs
  <2>2. \A x \in FutureType : /\ [x EXCEPT !.prev = prev] \in FutureType
                              /\ [x EXCEPT !.before = prev] \in FutureType
    BY DEF FutureType
  <2>3. h1 \in [Futures -> FutureType] /\ h1[f] = [new EXCEPT !.prev = prev]
        /\ \A g \in Futures : g # f => h1[g] = fs[g]
    BY <1>0, <1>2, <2>2
  <2> HIDE DEF h1
  <2>4. h2 \in [Futures -> FutureType] /\ h2[f] = [h1[f] EXCEPT !.before = prev]
        /\ \A g \in Futures : g # f => h2[g] = fs[g]
    BY <1>0, <2>2, <2>3
  <2> HIDE DEF h2
  <2>5. h3 \in [Futures -> FutureType] /\ h3[f] = h2[f] /\ h3[prev] = [fs[prev] EXCEPT !.next = f]
        /\ \A g \in Futures : g # f /\ g # prev => h3[g] = fs[g]
    BY <1>1, <1>b, <2>4
  <2>6. h2[f] = [new EXCEPT !.prev = prev, !.before = prev]
    BY <2>3, <2>4
  <2> QED
    BY <2>1, <2>5, <2>6
<1>4. /\ gs[f].st = "live" /\ gs[f].kind = kind /\ gs[f].data = data /\ gs[f].prev = prev
      /\ gs[f].next = None /\ gs[f].called = 0 /\ gs[f].before = prev
      /\ kind = "null" => gs[f].cb = "null"
      /\ kind # "null" => gs[f].cb = "set"
  <2> HIDE DEF new
  <2>1. \A x \in FutureType : LET y == [x EXCEPT !.prev = prev, !.before = prev] IN
          /\ y.st = x.st /\ y.kind = x.kind /\ y.data = x.data /\ y.prev = prev
          /\ y.next = x.next /\ y.called = x.called /\ y.before = prev /\ y.cb = x.cb
    BY DEF FutureType
  <2> DEFINE y == [new EXCEPT !.prev = prev, !.before = prev]
  <2>2. /\ y.st = new.st /\ y.kind = new.kind /\ y.data = new.data /\ y.prev = prev
        /\ y.next = new.next /\ y.called = new.called /\ y.before = prev /\ y.cb = new.cb
    BY <1>a, <2>1
  <2>3. gs[f] = y
    BY <1>3
  <2> HIDE DEF y, gs
  <2> QED
    BY <1>a, <2>2, <2>3
<1>5. gs[f] = [Fresh(kind, data) EXCEPT !.prev = prev, !.before = prev]
  BY <1>3
<1> HIDE DEF gs, hs, new
<1>6. \A g \in Futures : g # f =>
        /\ gs[g].st = fs[g].st /\ gs[g].kind = fs[g].kind /\ gs[g].cb = fs[g].cb
        /\ gs[g].called = fs[g].called /\ gs[g].before = fs[g].before /\ gs[g].prev = fs[g].prev
        /\ gs[g].data = fs[g].data
        /\ g # prev => gs[g].next = fs[g].next
  BY <1>3, FutureFields DEF FutureType
<1>7. \A g \in Futures : g # f => (Made(gs, g) <=> Made(fs, g))
  BY <1>6 DEF Made
<1>8. Made(gs, f)
  BY <1>4 DEF Made
<1>9. ASSUME NEW g \in Futures, g # f PROVE LifeOK(gs[g])
  <2>1. CASE g = prev
    <3>1. LifeOK(fs[prev]) /\ fs[prev].st = "live"
      BY FutureFields
    <3> QED
      BY <3>1, <2>1, <1>1, <1>6 DEF LifeOK
  <2> QED
    BY <2>1, <1>3, <1>9, FutureFields
<1>10. LifeOK(gs[f])
  BY <1>4 DEF LifeOK, FutureKinds
<1>11. ASSUME NEW g \in Futures, g # f PROVE LinksOK(gs, g)
  <2>1. /\ LinksOK(fs, g) /\ fs[g].next \in Futures \cup {None}
        /\ fs[g].before \in Futures \cup {None} /\ fs[g].called \in 0..2
    BY FutureFields
  <2>3. fs[g].before # None => fs[g].before # f
    BY <2>1, <1>1 DEF LinksOK
  <2>4. Ready(fs, g) => Ready(gs, g)
    BY <2>1, <2>3, <1>6, <1>11 DEF Ready
  <2>5. gs[g].next # None => Made(gs, gs[g].next) /\ gs[gs[g].next].before = g
    <3>1. CASE g = prev
      BY <3>1, <1>3, <1>4, <1>8, FutureFields DEF FutureType
    <3>2. CASE g # prev
      <4>1. fs[g].next # None => fs[g].next # f
        BY <2>1, <1>1 DEF LinksOK
      <4> QED
        BY <4>1, <3>2, <2>1, <1>6, <1>7, <1>11 DEF LinksOK
    <3> QED
      BY <3>1, <3>2
  <2> QED
    BY <2>1, <2>3, <2>4, <2>5, <1>6, <1>7, <1>11 DEF LinksOK
<1>12. LinksOK(gs, f)
  BY <1>0, <1>1, <1>4, <1>7, NumberFacts DEF LinksOK
<1>13. Good(gs)
  BY <1>3, <1>9, <1>10, <1>11, <1>12 DEF Good
<1>14. Grows(fs, gs)
  BY <1>1, <1>6, <1>7, FutureFields DEF Grows
<1>15. Numbered(gs, f)
  <2>1. ASSUME NEW g \in Futures PROVE Made(gs, g) <=> g <= f
    <3>1. g \in Nat /\ (g <= f <=> (g = f \/ g <= n))
      BY NumberFacts
    <3>2. Made(fs, g) <=> g <= n
      BY DEF Numbered
    <3> QED
      BY <3>1, <3>2, <1>7, <1>8
  <2> QED
    BY <2>1 DEF Numbered
<1> QED
  BY <1>1, <1>3, <1>4, <1>5, <1>6, <1>13, <1>14, <1>15 DEF gs

\* The same, with names for the numbers.
LEMMA ThenNewAt ==
    ASSUME NEW fs, Good(fs), NEW n \in 0..MaxFuture, Numbered(fs, n), NEW m \in Futures, m = n + 1,
           NEW kind \in FutureKinds, NEW data \in Promises \cup {None},
           kind = "proxy" => data # None,
           NEW prev \in Futures, fs[prev].st = "live"
    PROVE  LET gs == ThenNew(fs, prev, m, kind, data)
           IN  /\ Good(gs) /\ Grows(fs, gs) /\ Numbered(gs, m)
               /\ \A g \in Futures : g # m => gs[g].st = fs[g].st /\ gs[g].kind = fs[g].kind
               /\ gs[m].kind = kind
<1>1. n + 1 \in Futures
  OBVIOUS
<1>2. LET gs == ThenNew(fs, prev, n + 1, kind, data)
      IN  /\ Good(gs) /\ Grows(fs, gs) /\ Numbered(gs, n + 1)
          /\ \A g \in Futures : g # n + 1 => gs[g].st = fs[g].st /\ gs[g].kind = fs[g].kind
          /\ gs[n + 1].kind = kind
  BY <1>1, ThenNewGood
<1> QED
  BY <1>2, Zenon

-----------------------------------------------------------------------------
(* The first future of a chain.                                            *)

\* A set of natural numbers that is not empty has a least element.
LEMMA Least ==
    ASSUME NEW T \in SUBSET Nat, T # {}
    PROVE  \E x \in T : \A y \in T : x <= y
<1> DEFINE R == {ss \in Nat \X Nat : ss[1] < ss[2]}
<1>1. IsWellFoundedOn(R, Nat)
  BY NatLessThanWellFounded DEF OpToRel
<1>2. \A x \in Nat : \A y \in Nat : y < x => <<y, x>> \in R
  OBVIOUS
<1> HIDE DEF R
<1>3. PICK x \in T : \A y \in T : ~(<<y, x>> \in R)
  BY <1>1, WFMin
<1>4. \A y \in T : ~(y < x) /\ x \in Nat /\ y \in Nat
  BY <1>2, <1>3
<1>5. \A y \in T : x <= y
  BY <1>4
<1> QED
  BY <1>5

\* First, over any futures.
FirstIn(fs, f) ==
    LET up[g \in Futures] == IF fs[g].prev = None THEN g ELSE up[fs[g].prev]
    IN  up[f]

\* First is FirstIn over the futures of the state.
LEMMA FirstInFuture == \A f \in Futures : First(f) = FirstIn(future, f)
  BY DEF First, FirstIn

\* The links back end: a function that follows them exists, by the least
\* number of futures for which it would not.
LEMMA FirstExists ==
    ASSUME NEW fs, Good(fs)
    PROVE  \E u \in [Futures -> Futures] : \A g \in Futures :
              u[g] = IF fs[g].prev = None THEN g ELSE u[fs[g].prev]
<1> DEFINE Up(n, u) == \A g \in 1..n : u[g] = IF fs[g].prev = None THEN g ELSE u[fs[g].prev]
           T == {n \in 0..MaxFuture : ~\E u \in [1..n -> Futures] : Up(n, u)}
<1>1. \A g \in Futures : fs[g].prev # None => fs[g].prev \in Futures /\ fs[g].prev < g
  BY FutureFields, NextNotPrev
<1>2. CASE T = {}
  <2>1. \E u \in [1..MaxFuture -> Futures] : Up(MaxFuture, u)
    BY <1>2
  <2> QED
    BY <2>1 DEF Futures
<1>3. CASE T # {}
  <2>1. T \in SUBSET Nat
    OBVIOUS
  <2>2. PICK n \in T : \A m \in T : n <= m
    BY <1>3, <2>1, Least
  <2>3. n \in 0..MaxFuture /\ ~\E u \in [1..n -> Futures] : Up(n, u)
    BY <2>2
  <2>4. n # 0
    <3>1. ASSUME n = 0 PROVE FALSE
      <4>1. [g \in 1..n |-> g] \in [1..n -> Futures] /\ Up(n, [g \in 1..n |-> g])
        BY <3>1
      <4> QED
        BY <4>1, <2>3
    <3> QED
      BY <3>1
  <2>5. n - 1 \in 0..MaxFuture /\ n - 1 \notin T
    <3>1. n - 1 \in 0..MaxFuture /\ ~(n <= n - 1)
      BY <2>3, <2>4
    <3> QED
      BY <2>2, <3>1
  <2>6. PICK u \in [1..(n - 1) -> Futures] : Up(n - 1, u)
    BY <2>5
  <2>7. n \in Futures /\ 1..n \subseteq Futures /\ (\A g \in 1..n : g # n => g \in 1..(n - 1))
        /\ 1..(n - 1) \subseteq 1..n
    BY <2>3, <2>4 DEF Futures
  <2> DEFINE v == [g \in 1..n |-> IF g # n THEN u[g]
                                  ELSE IF fs[n].prev = None THEN n ELSE u[fs[n].prev]]
  <2>8. \A g \in 1..n : fs[g].prev # None => fs[g].prev \in 1..(n - 1) /\ fs[g].prev # n
    BY <1>1, <2>3, <2>7 DEF Futures
  <2>9. v \in [1..n -> Futures]
    BY <2>6, <2>7, <2>8
  <2>10. ASSUME NEW g \in 1..n PROVE v[g] = IF fs[g].prev = None THEN g ELSE v[fs[g].prev]
    <3>1. fs[g].prev # None => v[fs[g].prev] = u[fs[g].prev]
      BY <2>7, <2>8
    <3>2. CASE g = n
      BY <3>1, <3>2
    <3>3. CASE g # n
      BY <2>6, <2>7, <3>1, <3>3
    <3> QED
      BY <3>2, <3>3
  <2> QED
    BY <2>3, <2>9, <2>10
<1> QED
  BY <1>2, <1>3

\* The first future of a chain.
LEMMA FirstFacts ==
    ASSUME NEW fs, Good(fs)
    PROVE  /\ \A f \in Futures : FirstIn(fs, f) =
                IF fs[f].prev = None THEN f ELSE FirstIn(fs, fs[f].prev)
           /\ \A f \in Futures :
                /\ FirstIn(fs, f) \in Futures /\ FirstIn(fs, f) <= f
                /\ fs[FirstIn(fs, f)].prev = None
                /\ Made(fs, f) => Made(fs, FirstIn(fs, f))
<1> DEFINE Body(up) == [g \in Futures |-> IF fs[g].prev = None THEN g ELSE up[fs[g].prev]]
           up == CHOOSE up : up = Body(up)
<1>1. \A f \in Futures : FirstIn(fs, f) = up[f]
  BY DEF FirstIn
<1>2. \E u : u = Body(u)
  <2>1. PICK u \in [Futures -> Futures] : \A g \in Futures :
              u[g] = IF fs[g].prev = None THEN g ELSE u[fs[g].prev]
    BY FirstExists
  <2>2. u = Body(u)
    BY <2>1
  <2> QED
    BY <2>2
<1>3. up = Body(up)
  BY <1>2
<1> HIDE DEF up
<1>4. \A f \in Futures : up[f] = IF fs[f].prev = None THEN f ELSE up[fs[f].prev]
  BY <1>3
<1> HIDE DEF Body
<1>5. \A f \in Futures : FirstIn(fs, f) =
                IF fs[f].prev = None THEN f ELSE FirstIn(fs, fs[f].prev)
  BY <1>1, <1>4, FutureFields
<1> DEFINE P(f) == /\ FirstIn(fs, f) \in Futures /\ FirstIn(fs, f) <= f
                   /\ fs[FirstIn(fs, f)].prev = None
                   /\ Made(fs, f) => Made(fs, FirstIn(fs, f))
           T == {f \in Futures : ~P(f)}
<1>6. T = {}
  <2>1. SUFFICES ASSUME T # {} PROVE FALSE
    OBVIOUS
  <2>2. T \in SUBSET Nat
    BY NumberFacts
  <2>3. PICK f \in T : \A g \in T : f <= g
    BY <2>1, <2>2, Least
  <2>4. f \in Futures /\ ~P(f) /\ f \in Nat
    BY <2>3, NumberFacts
  <2>5. fs[f].prev # None
    BY <2>4, <1>5
  <2>6. PICK g \in Futures : g = fs[f].prev
    BY <2>4, <2>5, FutureFields
  <2>7. g < f /\ g \in Nat
    BY <2>4, <2>6, NextNotPrev, NumberFacts
  <2>8. g \notin T
    BY <2>3, <2>4, <2>7
  <2>9. P(g)
    BY <2>8
  <2>10. Made(fs, f) => Made(fs, g)
    BY <2>4, <2>5, <2>6, FutureFields DEF LinksOK
  <2>11. FirstIn(fs, f) = FirstIn(fs, g)
    BY <2>4, <2>5, <2>6, <1>5
  <2>12. FirstIn(fs, g) <= f
    <3>1. PICK x \in Futures : x = FirstIn(fs, g)
      BY <2>9
    <3>2. x \in Nat /\ x <= g
      BY <2>9, <3>1, NumberFacts
    <3>3. x <= f
      BY <2>4, <2>7, <3>2
    <3> QED
      BY <3>1, <3>3
  <2> QED
    BY <2>4, <2>9, <2>10, <2>11, <2>12
<1>7. \A f \in Futures : P(f)
  BY <1>6
<1> QED
  BY <1>5, <1>7

\* The first future of a chain can be reached.
LEMMA FirstReached ==
    ASSUME Good(future), NEW f \in Futures, Made(future, f)
    PROVE  First(f) \in Futures /\ Reached(future, First(f))
<1>1. First(f) = FirstIn(future, f)
  BY FirstInFuture
<1>2. /\ FirstIn(future, f) \in Futures /\ future[FirstIn(future, f)].prev = None
      /\ Made(future, FirstIn(future, f))
  BY FirstFacts
<1> QED
  BY <1>1, <1>2, FutureFields DEF LinksOK, Reached

\* The number of the next future.
LEMMA FreshNumber ==
    ASSUME NEW n \in 0..MaxFuture, Numbered(future, n)
    PROVE  FreshFuture = n + 1
<1>1. {f \in Futures : future[f].st # "none"} = 1..n
  <2>1. \A f \in Futures : future[f].st # "none" <=> f <= n
    BY DEF Numbered, Made
  <2>2. \A f : f \in 1..n <=> f \in Futures /\ f <= n
    BY DEF Futures
  <2> QED
    BY <2>1, <2>2
<1>2. Cardinality(1..n) = n
  <2>1. Cardinality(1..n) = IF 1 > n THEN 0 ELSE n - 1 + 1
    BY FS_Interval
  <2> QED
    BY <2>1
<1>3. Cardinality({f \in Futures : future[f].st # "none"}) = n
  BY <1>1, <1>2, Zenon
<1> QED
  BY <1>3 DEF FreshFuture

-----------------------------------------------------------------------------
(* Promises, lists and frames.                                             *)

\* The links of promises stay good while the futures grow.
LEMMA HoldsGrows ==
    ASSUME NEW ps, NEW fs, NEW gs, Good(fs), Good(gs), Grows(fs, gs), Holds(ps, fs)
    PROVE  Holds(ps, gs)
<1>1. \A p \in Promises : ps[p].future \in Futures \cup {None}
  BY DEF Holds, PromiseType
<1> QED
  BY <1>1, GrowsFacts DEF Holds, Pointed

\* The memory of a promise is released.
LEMMA FreePHolds ==
    ASSUME NEW ps, NEW fs, Holds(ps, fs), NEW p \in Promises
    PROVE  Holds(FreeP(ps, p), fs)
<1> DEFINE gone == [NoPromise EXCEPT !.st = "freed", !.cancel = ps[p].cancel,
                    !.ended = IF ps[p].ended < 2 THEN ps[p].ended + 1 ELSE 2]
<1>1. ps \in [Promises -> PromiseType] /\ ps[p] \in PromiseType
  BY DEF Holds
<1>2. PICK e \in 0..2 : e = IF ps[p].ended < 2 THEN ps[p].ended + 1 ELSE 2
  BY <1>1 DEF PromiseType
<1>3. gone = [NoPromise EXCEPT !.st = "freed", !.cancel = ps[p].cancel, !.ended = e]
  BY <1>2, Zenon
<1>4. gone \in PromiseType /\ gone.future = None
  <2>1. [NoPromise EXCEPT !.st = "freed", !.cancel = ps[p].cancel, !.ended = e] \in PromiseType
    BY <1>1, <1>2 DEF PromiseType, NoPromise, None
  <2>2. [NoPromise EXCEPT !.st = "freed", !.cancel = ps[p].cancel, !.ended = e].future = None
    BY DEF NoPromise
  <2> HIDE DEF gone
  <2> QED
    BY <1>3, <2>1, <2>2
<1>5. FreeP(ps, p) = [ps EXCEPT ![p] = gone]
  BY Zenon DEF FreeP
<1> HIDE DEF gone
<1>6. FreeP(ps, p) \in [Promises -> PromiseType]
  BY <1>1, <1>4, <1>5
<1>7. \A q \in Promises : FreeP(ps, p)[q] = IF q = p THEN gone ELSE ps[q]
  BY <1>1, <1>5
<1> QED
  BY <1>4, <1>6, <1>7 DEF Holds, Pointed

\* _eina_promise_link: the future can be reached.
LEMMA LinkPHolds ==
    ASSUME NEW ps, NEW fs, Holds(ps, fs), NEW p \in Promises, NEW f \in Futures, Reached(fs, f)
    PROVE  Holds(LinkP(ps, p, f), fs)
<1>1. ps \in [Promises -> PromiseType]
  BY DEF Holds
<1>2. \A x \in PromiseType : [x EXCEPT !.future = f] \in PromiseType
                             /\ [x EXCEPT !.future = f].future = f
  BY DEF PromiseType
<1>3. LinkP(ps, p, f) \in [Promises -> PromiseType]
  BY <1>1, <1>2 DEF LinkP
<1>4. \A q \in Promises : LinkP(ps, p, f)[q] = IF q = p THEN [ps[q] EXCEPT !.future = f] ELSE ps[q]
  BY <1>1 DEF LinkP
<1>5. \A q \in Promises : LinkP(ps, p, f)[q].future = IF q = p THEN f ELSE ps[q].future
  BY <1>1, <1>2, <1>4
<1> QED
  BY <1>3, <1>5 DEF Holds, Pointed

\* _eina_promise_unlink
LEMMA UnlinkPHolds ==
    ASSUME NEW ps, NEW fs, Holds(ps, fs), NEW p \in Promises
    PROVE  Holds(UnlinkP(ps, p), fs)
<1>1. ps \in [Promises -> PromiseType]
  BY DEF Holds
<1>2. \A x \in PromiseType : [x EXCEPT !.future = None] \in PromiseType
                             /\ [x EXCEPT !.future = None].future = None
  BY DEF PromiseType
<1>3. UnlinkP(ps, p) \in [Promises -> PromiseType]
  BY <1>1, <1>2 DEF UnlinkP
<1>4. \A q \in Promises : UnlinkP(ps, p)[q] = IF q = p THEN [ps[q] EXCEPT !.future = None] ELSE ps[q]
  BY <1>1 DEF UnlinkP
<1>5. \A q \in Promises : UnlinkP(ps, p)[q].future = IF q = p THEN None ELSE ps[q].future
  BY <1>1, <1>2, <1>4
<1> QED
  BY <1>3, <1>5 DEF Holds, Pointed

\* A promise gets the scheduler of the future it is returned to.
LEMMA StolenHolds ==
    ASSUME NEW ps, NEW fs, Holds(ps, fs), NEW p \in Promises
    PROVE  Holds([ps EXCEPT ![p].scheduler = TRUE], fs)
<1> DEFINE qs == [ps EXCEPT ![p].scheduler = TRUE]
<1>1. ps \in [Promises -> PromiseType]
  BY DEF Holds
<1>2. \A x \in PromiseType : [x EXCEPT !.scheduler = TRUE] \in PromiseType
                             /\ [x EXCEPT !.scheduler = TRUE].future = x.future
  BY DEF PromiseType
<1>3. qs \in [Promises -> PromiseType]
  BY <1>1, <1>2
<1>4. \A q \in Promises : qs[q].future = ps[q].future
  BY <1>1, <1>2
<1> HIDE DEF qs
<1>5. Holds(qs, fs)
  BY <1>1, <1>3, <1>4 DEF Holds, Pointed
<1> QED
  BY <1>5 DEF qs

\* eina_promise_new
LEMMA NewPromiseHolds ==
    ASSUME NEW ps, NEW fs, Holds(ps, fs), NEW p \in Promises,
           NEW cancel \in {"user", "all", "race", "dummy"}, NEW scheduler \in BOOLEAN
    PROVE  Holds(NewPromise(ps, p, cancel, scheduler), fs)
<1> DEFINE new == [NoPromise EXCEPT !.st = "live", !.cancel = cancel, !.scheduler = scheduler]
           qs == NewPromise(ps, p, cancel, scheduler)
<1>1. ps \in [Promises -> PromiseType]
  BY DEF Holds
<1>2. new \in PromiseType /\ new.future = None
  <2>1. NoPromise \in PromiseType /\ NoPromise.future = None
    BY DEF PromiseType, NoPromise, None
  <2>2. \A x \in PromiseType :
          LET y == [x EXCEPT !.st = "live", !.cancel = cancel, !.scheduler = scheduler]
          IN  y \in PromiseType /\ y.future = x.future
    BY DEF PromiseType
  <2> QED
    BY <2>1, <2>2
<1>3. qs = [ps EXCEPT ![p] = new]
  BY DEF NewPromise
<1> HIDE DEF new, qs
<1>4. qs \in [Promises -> PromiseType] /\ \A q \in Promises : qs[q] = IF q = p THEN new ELSE ps[q]
  BY <1>1, <1>2, <1>3
<1>5. Holds(qs, fs)
  BY <1>1, <1>2, <1>4 DEF Holds, Pointed
<1> QED
  BY <1>5 DEF qs

\* A list without one of its elements.
LEMMA RemoveAtFacts ==
    ASSUME NEW T, NEW s \in Seq(T), NEW at \in SUBSET DOMAIN s
    PROVE  /\ RemoveAt(s, at) \in Seq(T)
           /\ \A i \in DOMAIN RemoveAt(s, at) : \E j \in DOMAIN s : RemoveAt(s, at)[i] = s[j]
<1>1. Len(s) \in Nat /\ DOMAIN s = 1..Len(s) /\ \A i \in 1..Len(s) : s[i] \in T
  OBVIOUS
<1>2. CASE at = {}
  BY <1>2 DEF RemoveAt
<1>3. CASE at # {}
  <2> DEFINE m == CHOOSE j \in at : \A k \in at : j <= k
             r == [j \in 1..Len(s) - 1 |-> IF j < m THEN s[j] ELSE s[j + 1]]
  <2>1. RemoveAt(s, at) = r
    BY <1>3 DEF RemoveAt
  <2>2. \E j \in at : \A k \in at : j <= k
    <3>1. at \in SUBSET Nat
      BY <1>1
    <3> QED
      BY <1>3, <3>1, Least
  <2>3. m \in 1..Len(s)
    BY <1>1, <2>2
  <2> HIDE DEF m
  <2>4. \A j \in 1..Len(s) - 1 : j \in DOMAIN s /\ j + 1 \in DOMAIN s /\ r[j] \in {s[j], s[j + 1]}
    BY <1>1, <2>3
  <2>5. r \in [1..Len(s) - 1 -> T] /\ Len(s) - 1 \in Nat /\ DOMAIN r = 1..Len(s) - 1
    BY <1>1, <2>3, <2>4
  <2> HIDE DEF r
  <2>6. r \in Seq(T)
    BY <2>5
  <2> QED
    BY <2>1, <2>4, <2>5, <2>6
<1> QED
  BY <1>2, <1>3

\* _pending_futures after a removal.
LEMMA WithoutFacts ==
    ASSUME NEW fs, NEW s \in Seq(Futures), NEW x, \A i \in DOMAIN s : Made(fs, s[i])
    PROVE  Without(s, x) \in Seq(Futures) /\ \A i \in DOMAIN Without(s, x) : Made(fs, Without(s, x)[i])
<1>1. {i \in DOMAIN s : s[i] = x} \in SUBSET DOMAIN s
  OBVIOUS
<1> QED
  BY <1>1, RemoveAtFacts DEF Without

\* The scheduler's list after _efl_event_future_recall.
LEMMA RecallFacts ==
    ASSUME NEW fs, NEW s \in Seq(Entry), NEW at \in SUBSET DOMAIN s, Queued(fs, s)
    PROVE  RemoveAt(s, at) \in Seq(Entry) /\ Queued(fs, RemoveAt(s, at))
  BY RemoveAtFacts DEF Queued

\* The entries of a list stay good while the futures grow.
LEMMA QueuedGrows ==
    ASSUME NEW l \in Seq(Entry), NEW fs, NEW gs, Good(fs), Good(gs), Grows(fs, gs), Queued(fs, l)
    PROVE  Queued(gs, l)
<1>1. \A i \in DOMAIN l : l[i].f \in Futures
  <2>1. \A i \in DOMAIN l : l[i] \in Entry
    OBVIOUS
  <2> QED
    BY <2>1 DEF Entry
<1> QED
  BY <1>1, GrowsFacts DEF Queued

\* The fields of a frame.
LEMMA FrameFields ==
    ASSUME NEW x \in FrameType
    PROVE  /\ x.k \in Kinds /\ x.f \in Futures \cup {None} /\ x.p \in Promises \cup {None}
           /\ x.v \in Settled \cup Promises /\ x.l \in Seq(Entry)
  BY DEF FrameType

\* A frame stays good while the futures grow.
LEMMA FrameGrows ==
    ASSUME NEW x \in FrameType, NEW fs, NEW gs, Good(fs), Good(gs), Grows(fs, gs), FrameOK(fs, x)
    PROVE  FrameOK(gs, x)
<1>0. x.f \in Futures \cup {None} /\ x.l \in Seq(Entry)
  BY FrameFields
<1>1. x.f # None => Made(gs, x.f)
  BY <1>0, GrowsFacts DEF FrameOK
<1>2. x.k \in Loops /\ x.f # None => Ready(gs, x.f)
  BY <1>0, GrowsFacts DEF FrameOK, Reached
<1>3. x.k \in Ends => gs[x.f].called = 1
  <2>1. x.k \in Ends => x.f \in Futures /\ Made(fs, x.f) /\ fs[x.f].called = 1
    BY <1>0 DEF FrameOK, OnFuture
  <2> QED
    BY <2>1, GrowsFacts
<1>4. Queued(gs, x.l)
  BY <1>0, QueuedGrows DEF FrameOK
<1> QED
  BY <1>1, <1>2, <1>3, <1>4 DEF FrameOK

\* A callback stays above the loop that called it.
LEMMA CallGrows ==
    ASSUME NEW x, NEW y \in FrameType, NEW fs, NEW gs, Good(fs), Good(gs), Grows(fs, gs),
           FrameOK(fs, y), CallOK(fs, x, y)
    PROVE  CallOK(gs, x, y)
<1>1. y.f \in Futures /\ Made(fs, y.f) /\ fs[y.f].called = 1
  BY FrameFields DEF FrameOK, CallOK
<1>2. gs[y.f].called = 1
  BY <1>1, GrowsFacts
<1> QED
  BY <1>2 DEF CallOK

\* The top of a stack is none of the library's callbacks.
Steady(s) == s # <<>> => s[1].k \notin Leaves

\* The frames of a stack stay good while the futures grow.
LEMMA StackGrows ==
    ASSUME NEW s \in Seq(FrameType), NEW fs, NEW gs, NEW cp, NEW cq,
           Good(fs), Good(gs), Grows(fs, gs), Steady(s), StackOK(fs, cp, s)
    PROVE  StackOK(gs, cq, s)
<1>1. \A i \in DOMAIN s : s[i] \in FrameType /\ (i = 1 => s # <<>>)
  OBVIOUS
<1>2. \A i \in DOMAIN s : FrameOK(gs, s[i])
  BY <1>1, FrameGrows DEF StackOK
<1>3. \A i \in DOMAIN s : s[i].k \in Callbacks =>
         i + 1 \in DOMAIN s /\ CallOK(gs, s[i], s[i + 1])
  BY <1>1, CallGrows DEF StackOK
<1>4. \A i \in DOMAIN s : s[i].k \notin Leaves
  BY <1>1 DEF StackOK, Steady
<1> QED
  BY <1>2, <1>3, <1>4 DEF StackOK

\* What is below the top of a stack is good.
LEMMA StackTail ==
    ASSUME NEW s \in Seq(FrameType), s # <<>>, NEW fs, NEW cp, NEW cq, StackOK(fs, cp, s)
    PROVE  /\ Tail(s) \in Seq(FrameType) /\ Steady(Tail(s)) /\ StackOK(fs, cq, Tail(s))
           /\ \A i \in DOMAIN Tail(s) : i \in 1..Len(s) - 1 /\ Tail(s)[i] = s[i + 1]
           /\ s[1] \in FrameType /\ FrameOK(fs, s[1])
           /\ s[1].k \in Callbacks =>
                Tail(s) # <<>> /\ CallOK(fs, s[1], Tail(s)[1]) /\ Tail(s)[1] = s[2] /\ Len(s) >= 2
<1> DEFINE t == Tail(s)
<1>1. /\ t \in Seq(FrameType) /\ Len(t) = Len(s) - 1 /\ Len(s) \in Nat /\ Len(s) > 0
      /\ DOMAIN t = 1..Len(s) - 1 /\ DOMAIN s = 1..Len(s)
      /\ \A i \in 1..Len(s) - 1 : t[i] = s[i + 1] /\ i + 1 \in 1..Len(s) /\ i + 1 # 1
  OBVIOUS
<1> HIDE DEF t
<1>2. \A i \in DOMAIN t : FrameOK(fs, t[i]) /\ t[i].k \notin Leaves
  BY <1>1 DEF StackOK
<1>3. ASSUME NEW i \in DOMAIN t, t[i].k \in Callbacks
      PROVE  i + 1 \in DOMAIN t /\ CallOK(fs, t[i], t[i + 1])
  <2>1. i + 1 \in DOMAIN s /\ s[i + 1].k \in Callbacks
    BY <1>1, <1>3
  <2>2. (i + 1) + 1 \in DOMAIN s /\ CallOK(fs, s[i + 1], s[(i + 1) + 1])
    BY <2>1 DEF StackOK
  <2>3. i + 1 \in DOMAIN t
    BY <1>1, <2>2
  <2> QED
    BY <1>1, <2>2, <2>3
<1>4. StackOK(fs, cq, t)
  BY <1>2, <1>3 DEF StackOK
<1>5. Steady(t)
  <2>1. t # <<>> => 1 \in DOMAIN t
    BY <1>1
  <2> QED
    BY <1>2, <2>1 DEF Steady
<1>6. s[1] \in FrameType /\ FrameOK(fs, s[1]) /\ 1 \in DOMAIN s
  BY <1>1 DEF StackOK
<1>7. ASSUME s[1].k \in Callbacks
      PROVE  t # <<>> /\ CallOK(fs, s[1], t[1]) /\ t[1] = s[2] /\ Len(s) >= 2
  <2>1. 1 + 1 \in DOMAIN s /\ CallOK(fs, s[1], s[1 + 1])
    BY <1>6, <1>7 DEF StackOK
  <2>2. Len(s) >= 2 /\ 1 \in 1..Len(s) - 1 /\ 1 + 1 = 2
    BY <1>1, <2>1
  <2>3. t # <<>>
    BY <1>1, <2>2
  <2> QED
    BY <1>1, <2>1, <2>2, <2>3
<1> QED
  BY <1>1, <1>4, <1>5, <1>6, <1>7 DEF t

\* A frame is put on a stack.
LEMMA StackCons ==
    ASSUME NEW s \in Seq(FrameType), NEW fs, NEW cp, NEW cq, StackOK(fs, cp, s), Steady(s),
           NEW x \in FrameType, FrameOK(fs, x),
           x.k \in Callbacks => s # <<>> /\ CallOK(fs, x, s[1]),
           x.k \in Leaves => LeafOK(fs, cq, x)
    PROVE  /\ <<x>> \o s \in Seq(FrameType) /\ StackOK(fs, cq, <<x>> \o s)
           /\ <<x>> \o s # <<>> /\ (<<x>> \o s)[1] = x
           /\ x.k \notin Leaves => Steady(<<x>> \o s)
<1> DEFINE t == <<x>> \o s
<1>1. /\ t \in Seq(FrameType) /\ Len(t) = Len(s) + 1 /\ DOMAIN t = 1..Len(s) + 1
      /\ DOMAIN s = 1..Len(s) /\ Len(s) \in Nat /\ t # <<>>
      /\ t[1] = x /\ \A i \in 1..Len(s) : t[i + 1] = s[i]
  OBVIOUS
<1> HIDE DEF t
<1>2. ASSUME NEW i \in DOMAIN t
      PROVE  (i = 1 /\ t[i] = x) \/ (i # 1 /\ i - 1 \in DOMAIN s /\ t[i] = s[i - 1])
  <2>1. i # 1 => i - 1 \in 1..Len(s) /\ (i - 1) + 1 = i
    BY <1>1
  <2>2. i # 1 => t[(i - 1) + 1] = s[i - 1]
    BY <1>1, <2>1
  <2> QED
    BY <1>1, <2>1, <2>2
<1>3. \A i \in DOMAIN s : s[i].k \notin Leaves
  <2>1. 1 \in DOMAIN s => s # <<>>
    BY <1>1
  <2> QED
    BY <2>1 DEF StackOK, Steady
<1>4. \A i \in DOMAIN t : FrameOK(fs, t[i])
  BY <1>2 DEF StackOK
<1>5. ASSUME NEW i \in DOMAIN t, t[i].k \in Callbacks
      PROVE  i + 1 \in DOMAIN t /\ CallOK(fs, t[i], t[i + 1])
  <2>1. CASE i = 1
    <3>1. s # <<>> /\ CallOK(fs, x, s[1])
      BY <1>1, <1>5, <2>1
    <3>2. 1 \in 1..Len(s)
      BY <3>1, <1>1
    <3>3. t[i + 1] = s[1] /\ i + 1 \in DOMAIN t
      BY <1>1, <2>1, <3>2
    <3> QED
      BY <1>1, <2>1, <3>1, <3>3
  <2>2. CASE i # 1
    <3>1. i - 1 \in DOMAIN s /\ t[i] = s[i - 1]
      BY <1>2, <2>2
    <3>2. (i - 1) + 1 \in DOMAIN s /\ CallOK(fs, s[i - 1], s[(i - 1) + 1]) /\ (i - 1) + 1 = i
      BY <1>1, <1>5, <3>1 DEF StackOK
    <3>3. i \in 1..Len(s)
      BY <1>1, <3>2
    <3>4. t[i + 1] = s[i] /\ i + 1 \in DOMAIN t
      BY <1>1, <3>3
    <3> QED
      BY <3>1, <3>2, <3>4
  <2> QED
    BY <2>1, <2>2
<1>6. \A i \in DOMAIN t : t[i].k \in Leaves => i = 1 /\ LeafOK(fs, cq, t[i])
  BY <1>1, <1>2, <1>3
<1>7. StackOK(fs, cq, t)
  BY <1>4, <1>5, <1>6 DEF StackOK
<1>8. x.k \notin Leaves => Steady(t)
  BY <1>1 DEF Steady
<1> QED
  BY <1>1, <1>7, <1>8 DEF t

\* The frames of functions on a future, and of functions on a promise.
LEMMA FrameNew ==
    \A k \in Kinds, f \in Futures \cup {None}, p \in Promises \cup {None},
       v \in Settled \cup Promises :
      LET x == Fr(k, f, p, v, <<>>)
      IN  x \in FrameType /\ x.k = k /\ x.f = f /\ x.p = p /\ x.v = v /\ x.l = <<>>
  BY DEF Fr, FrameType

\* A new frame that works on a future.
LEMMA FutureFrame ==
    ASSUME NEW fs, NEW k \in Kinds \ (OnPromise \cup Ends), NEW f \in Futures \cup {None},
           NEW v \in Settled \cup Promises,
           f # None => Made(fs, f), k \in OnFuture => f # None,
           k \in Loops /\ f # None => Ready(fs, f)
    PROVE  /\ Frame(k, f, v) \in FrameType /\ FrameOK(fs, Frame(k, f, v))
           /\ Frame(k, f, v).k = k /\ Frame(k, f, v).f = f
<1> DEFINE x == Frame(k, f, v)
<1>1. x \in FrameType /\ x.k = k /\ x.f = f /\ x.l = <<>>
  BY FrameNew DEF Frame, None
<1>2. FrameOK(fs, x)
  <2> HIDE DEF x
  <2>1. Queued(fs, x.l)
    BY <1>1 DEF Queued
  <2> QED
    BY <1>1, <2>1 DEF FrameOK
<1> QED
  BY <1>1, <1>2

\* A new frame that works on a promise.
LEMMA PromiseFrame ==
    ASSUME NEW fs, NEW k \in Kinds \ OnFuture, NEW p \in Promises \cup {None},
           NEW v \in Settled \cup Promises, k \in OnPromise => p # None
    PROVE  /\ FrameP(k, p, v) \in FrameType /\ FrameOK(fs, FrameP(k, p, v))
           /\ FrameP(k, p, v).k = k /\ FrameP(k, p, v).f = None
<1> DEFINE x == FrameP(k, p, v)
<1>1. x \in FrameType /\ x.k = k /\ x.f = None /\ x.p = p /\ x.l = <<>>
  BY FrameNew DEF FrameP, None
<1>2. FrameOK(fs, x)
  <2> HIDE DEF x
  <2>1. Queued(fs, x.l)
    BY <1>1 DEF Queued
  <2> QED
    BY <1>1, <2>1 DEF FrameOK, OnFuture
<1> QED
  BY <1>1, <1>2

-----------------------------------------------------------------------------
(* What every step needs: the top of the stack, what is below it, and what *)
(* the growth of the futures leaves good.                                  *)

\* The frame on top is good.
LEMMA TopFacts ==
    ASSUME BaseInv, stack # <<>>
    PROVE  /\ Top = stack[1] /\ Top \in FrameType /\ FrameOK(future, Top)
           /\ Top.k \in Leaves => LeafOK(future, ctx.promise, Top)
<1>1. stack \in Seq(FrameType) /\ StackOK(future, ctx.promise, stack)
  BY DEF BaseInv
<1>2. Top = stack[1] /\ 1 \in DOMAIN stack /\ stack[1] \in FrameType
  BY <1>1 DEF Top
<1> QED
  BY <1>1, <1>2 DEF StackOK

\* So is what is below it, while the futures grow.
LEMMA TailFacts ==
    ASSUME BaseInv, stack # <<>>, NEW gs, NEW cq, Good(gs), Grows(future, gs)
    PROVE  /\ Tail(stack) \in Seq(FrameType) /\ Steady(Tail(stack)) /\ StackOK(gs, cq, Tail(stack))
           /\ Top.k \in Callbacks => Tail(stack) # <<>> /\ CallOK(gs, Top, Tail(stack)[1])
<1>1. stack \in Seq(FrameType) /\ StackOK(future, ctx.promise, stack) /\ Good(future)
  BY DEF BaseInv
<1>2. /\ Tail(stack) \in Seq(FrameType) /\ Steady(Tail(stack)) /\ StackOK(future, cq, Tail(stack))
      /\ stack[1].k \in Callbacks => Tail(stack) # <<>> /\ CallOK(future, stack[1], Tail(stack)[1])
  BY <1>1, StackTail
<1>3. StackOK(gs, cq, Tail(stack))
  BY <1>1, <1>2, StackGrows
<1>4. ASSUME Top.k \in Callbacks PROVE Tail(stack) # <<>> /\ CallOK(gs, Top, Tail(stack)[1])
  <2>1. Top = stack[1]
    BY TopFacts
  <2>2. Tail(stack) # <<>> /\ CallOK(future, Top, Tail(stack)[1])
    BY <1>2, <1>4, <2>1
  <2>3. 1 \in DOMAIN Tail(stack) /\ Tail(stack)[1] \in FrameType
    BY <1>2, <2>2
  <2>4. FrameOK(future, Tail(stack)[1])
    BY <1>2, <2>3 DEF StackOK
  <2> QED
    BY <1>1, <2>2, <2>3, <2>4, CallGrows
<1> QED
  BY <1>2, <1>3, <1>4

\* The frames a step puts in the place of the top.
LEMMA NoStack ==
    ASSUME NEW t \in Seq(FrameType)
    PROVE  <<>> \o t = t
  OBVIOUS

\* Frames put together: two of them.
LEMMA Pairs ==
    ASSUME NEW x \in FrameType, NEW y \in FrameType
    PROVE  <<x>> \o <<y>> = <<x, y>> /\ <<>> \o <<y>> = <<y>>
<1> DEFINE d == <<x>> \o <<y>>
           e == <<x, y>>
<1>1. d \in Seq(FrameType) /\ Len(d) = 2 /\ d[1] = x /\ d[2] = y
  OBVIOUS
<1>2. e \in Seq(FrameType) /\ Len(e) = 2 /\ e[1] = x /\ e[2] = y
  OBVIOUS
<1>3. <<>> \o <<y>> = <<y>>
  OBVIOUS
<1> HIDE DEF d, e
<1>4. Len(d) = Len(e) /\ \A i \in 1..Len(d) : d[i] = e[i]
  BY <1>1, <1>2
<1>5. d = e
  BY <1>1, <1>2, <1>4, SeqEqual
<1> QED
  BY <1>3, <1>5 DEF d, e

\* Three of them.
LEMMA Triples ==
    ASSUME NEW x \in FrameType, NEW y \in FrameType, NEW z \in FrameType
    PROVE  /\ <<x>> \o <<y, z>> = <<x, y, z>> /\ <<x, y>> \o <<z>> = <<x, y, z>>
           /\ <<>> \o <<y, z>> = <<y, z>>
<1> DEFINE d == <<x>> \o <<y, z>>
           c == <<x, y>> \o <<z>>
           e == <<x, y, z>>
<1>1. d \in Seq(FrameType) /\ Len(d) = 3 /\ d[1] = x /\ d[2] = y /\ d[3] = z
  OBVIOUS
<1>2. c \in Seq(FrameType) /\ Len(c) = 3 /\ c[1] = x /\ c[2] = y /\ c[3] = z
  OBVIOUS
<1>3. e \in Seq(FrameType) /\ Len(e) = 3 /\ e[1] = x /\ e[2] = y /\ e[3] = z
  OBVIOUS
<1>4. <<>> \o <<y, z>> = <<y, z>>
  <2>1. <<y, z>> \in Seq(FrameType)
    OBVIOUS
  <2> QED
    BY <2>1, NoStack
<1> HIDE DEF d, c, e
<1>5. Len(d) = Len(e) /\ Len(c) = Len(e) /\ \A i \in 1..3 : d[i] = e[i] /\ c[i] = e[i]
  BY <1>1, <1>2, <1>3
<1>6. d = e /\ c = e
  BY <1>1, <1>2, <1>3, <1>5, SeqEqual
<1> QED
  BY <1>4, <1>6 DEF d, c, e

\* Two frames on a good stack.
LEMMA TwoStack ==
    ASSUME NEW t \in Seq(FrameType), NEW fs, NEW cq, StackOK(fs, cq, t), Steady(t),
           NEW x \in FrameType, FrameOK(fs, x), NEW y \in FrameType, FrameOK(fs, y),
           y.k \in Callbacks => t # <<>> /\ CallOK(fs, y, t[1]),
           y.k \notin Leaves,
           x.k \in Callbacks => CallOK(fs, x, y),
           x.k \in Leaves => LeafOK(fs, cq, x)
    PROVE  <<x, y>> \o t \in Seq(FrameType) /\ StackOK(fs, cq, <<x, y>> \o t)
           /\ (x.k \notin Leaves => Steady(<<x, y>> \o t))
<1> DEFINE s == <<y>> \o t
<1>1. /\ s \in Seq(FrameType) /\ StackOK(fs, cq, s) /\ s # <<>> /\ s[1] = y
      /\ y.k \notin Leaves => Steady(s)
  BY StackCons
<1>2. <<x, y>> \o t = <<x>> \o s
  OBVIOUS
<1> HIDE DEF s
<1>3. /\ <<x>> \o s \in Seq(FrameType) /\ StackOK(fs, cq, <<x>> \o s)
      /\ x.k \notin Leaves => Steady(<<x>> \o s)
  BY <1>1, StackCons
<1> QED
  BY <1>2, <1>3

\* Three frames on a good stack.
LEMMA ThreeStack ==
    ASSUME NEW t \in Seq(FrameType), NEW fs, NEW cq, StackOK(fs, cq, t), Steady(t),
           NEW x \in FrameType, FrameOK(fs, x), NEW y \in FrameType, FrameOK(fs, y),
           NEW z \in FrameType, FrameOK(fs, z),
           z.k \in Callbacks => t # <<>> /\ CallOK(fs, z, t[1]),
           z.k \notin Leaves, y.k \notin Callbacks, y.k \notin Leaves,
           x.k \notin Callbacks, x.k \notin Leaves
    PROVE  <<x, y, z>> \o t \in Seq(FrameType) /\ StackOK(fs, cq, <<x, y, z>> \o t)
<1> DEFINE s == <<y, z>> \o t
<1>1. s \in Seq(FrameType) /\ StackOK(fs, cq, s) /\ Steady(s)
  BY TwoStack
<1>2. <<x, y, z>> \o t = <<x>> \o s
  OBVIOUS
<1> HIDE DEF s
<1>3. <<x>> \o s \in Seq(FrameType) /\ StackOK(fs, cq, <<x>> \o s)
  BY <1>1, StackCons
<1> QED
  BY <1>2, <1>3

\* What the other objects point to stays good while the futures grow.
LEMMA BodyGrows ==
    ASSUME BaseInv, NEW gs, Good(gs), Grows(future, gs)
    PROVE  /\ Holds(promise, gs) /\ Lists(sched, pending, gs)
           /\ \A f \in ctx.futures : Made(gs, f)
<1>1. /\ Good(future) /\ Holds(promise, future) /\ Lists(sched, pending, future)
      /\ CtxOK(ctx, future)
  BY DEF BaseInv
<1>2. Holds(promise, gs)
  BY <1>1, HoldsGrows
<1>3. sched.futures \in Seq(Entry) /\ Queued(future, sched.futures) /\ pending \in Seq(Futures)
      /\ ctx.futures \subseteq Futures
  BY <1>1 DEF Lists, CtxOK, CtxType
<1>4. Queued(gs, sched.futures)
  BY <1>1, <1>3, QueuedGrows
<1>5. \A i \in DOMAIN pending : pending[i] \in Futures
  BY <1>3
<1>6. \A i \in DOMAIN pending : Made(gs, pending[i])
  BY <1>1, <1>5, GrowsFacts DEF Lists
<1>7. \A f \in ctx.futures : Made(gs, f)
  BY <1>1, <1>3, GrowsFacts DEF CtxOK
<1> QED
  BY <1>1, <1>2, <1>4, <1>6, <1>7 DEF Lists

\* And the context with them where no future is new.
LEMMA BodyKeeps ==
    ASSUME BaseInv, NEW gs, Good(gs), Keeps(future, gs)
    PROVE  /\ Holds(promise, gs) /\ Lists(sched, pending, gs) /\ CtxOK(ctx, gs)
           /\ \E n \in 0..MaxFuture : Numbered(gs, n)
           /\ Grows(future, gs)
<1>1. Grows(future, gs)
  BY DEF Keeps
<1>2. Good(future) /\ CtxOK(ctx, future)
  BY DEF BaseInv
<1>3. Ctxed(gs, ctx.promise)
  BY <1>2, KeepsCtxed DEF CtxOK
<1>4. \E n \in 0..MaxFuture : Numbered(gs, n)
  BY KeepsNumbered DEF BaseInv
<1> QED
  BY <1>1, <1>2, <1>3, <1>4, BodyGrows DEF CtxOK

\* A step that changes futures without making one, and the stack.
LEMMA FutureStep ==
    ASSUME BaseInv, Good(future'), Keeps(future, future'),
           UNCHANGED <<promise, sched, pending, ctx>>, calls' \in 0..MaxCalls,
           stack' \in Seq(FrameType), StackOK(future', ctx.promise, stack')
    PROVE  BaseInv'
<1>1. /\ Holds(promise, future') /\ Lists(sched, pending, future') /\ CtxOK(ctx, future')
      /\ \E n \in 0..MaxFuture : Numbered(future', n)
  BY BodyKeeps
<1> QED
  BY <1>1 DEF BaseInv

\* A step of the stack alone.
LEMMA StackStep ==
    ASSUME BaseInv, UNCHANGED <<promise, future, sched, pending, ctx>>, calls' \in 0..MaxCalls,
           stack' \in Seq(FrameType), StackOK(future, ctx.promise, stack')
    PROVE  BaseInv'
  BY DEF BaseInv

\* What is below the top when the futures stay as they are.
LEMMA TailKept ==
    ASSUME BaseInv, stack # <<>>, NEW cq
    PROVE  /\ Tail(stack) \in Seq(FrameType) /\ Steady(Tail(stack)) /\ StackOK(future, cq, Tail(stack))
           /\ Top.k \in Callbacks => Tail(stack) # <<>> /\ CallOK(future, Top, Tail(stack)[1])
<1>1. Good(future) /\ Grows(future, future)
  BY KeepsSame DEF BaseInv, Keeps
<1> QED
  BY <1>1, TailFacts

\* A step that ends the function on top, or replaces it by one frame.
LEMMA PopStep ==
    ASSUME BaseInv, stack # <<>>, stack' = <<>> \o Tail(stack),
           NEW gs, NEW cq, Good(gs), Grows(future, gs)
    PROVE  stack' \in Seq(FrameType) /\ StackOK(gs, cq, stack')
<1>1. Tail(stack) \in Seq(FrameType) /\ StackOK(gs, cq, Tail(stack))
  BY TailFacts
<1>2. stack' = Tail(stack)
  BY <1>1, NoStack
<1> QED
  BY <1>1, <1>2

\* A step that replaces the frame on top by one.
LEMMA OneStep ==
    ASSUME BaseInv, stack # <<>>, NEW x \in FrameType, stack' = <<x>> \o Tail(stack),
           NEW gs, NEW cq, Good(gs), Grows(future, gs), FrameOK(gs, x), x.k \notin Callbacks
    PROVE  stack' \in Seq(FrameType) /\ StackOK(gs, cq, stack')
<1>1. Tail(stack) \in Seq(FrameType) /\ StackOK(gs, cq, Tail(stack)) /\ Steady(Tail(stack))
  BY TailFacts
<1>2. x.k \notin Leaves
  BY DEF Callbacks
<1> QED
  BY <1>1, <1>2, StackCons

\* A step that replaces the frame on top by two.
LEMMA TwoStep ==
    ASSUME BaseInv, stack # <<>>, NEW x \in FrameType, NEW y \in FrameType,
           stack' = <<x, y>> \o Tail(stack),
           NEW gs, NEW cq, Good(gs), Grows(future, gs), FrameOK(gs, x), FrameOK(gs, y),
           y.k \notin Callbacks, x.k \in Callbacks => CallOK(gs, x, y),
           x.k \in Leaves => LeafOK(gs, cq, x)
    PROVE  stack' \in Seq(FrameType) /\ StackOK(gs, cq, stack')
<1>1. Tail(stack) \in Seq(FrameType) /\ StackOK(gs, cq, Tail(stack)) /\ Steady(Tail(stack))
  BY TailFacts
<1>2. y.k \notin Leaves
  BY DEF Callbacks
<1> QED
  BY <1>1, <1>2, TwoStack

-----------------------------------------------------------------------------
(* The steps of the library.                                               *)

\* _futures_dispatch_cb hands the entries over to the batch.
LEMMA FuturesDispatchStep ==
    ASSUME BaseInv, FuturesDispatch
    PROVE  BaseInv'
<1> DEFINE x == Fr("batch", None, None, Plain, sched.futures)
<1>1. /\ stack' = <<x>> /\ sched' = [futures |-> <<>>, listener |-> FALSE]
      /\ UNCHANGED <<promise, future, pending, ctx, calls>>
  BY DEF FuturesDispatch
<1>2. Lists(sched, pending, future) /\ sched.futures \in Seq(Entry) /\ Queued(future, sched.futures)
  BY DEF BaseInv, Lists
<1>3. x \in FrameType /\ x.k = "batch" /\ x.f = None /\ x.l = sched.futures
  BY <1>2 DEF Fr, FrameType, Kinds, Settled
<1> HIDE DEF x
<1>4. FrameOK(future, x) /\ x.k \notin Callbacks /\ x.k \notin Leaves
  BY <1>2, <1>3 DEF FrameOK, OnFuture, OnPromise, Loops, Ends, Callbacks, Leaves
<1>5. << >> \in Seq(FrameType) /\ StackOK(future, ctx.promise, << >>) /\ Steady(<< >>)
  BY DEF StackOK, Steady
<1>6. <<x>> \o << >> \in Seq(FrameType) /\ StackOK(future, ctx.promise, <<x>> \o << >>)
  BY <1>3, <1>4, <1>5, StackCons
<1>7. stack' = <<x>> \o << >>
  BY <1>1, <1>3
<1>8. Lists(sched', pending', future')
  BY <1>1, <1>2 DEF Lists, Queued
<1> QED
  BY <1>1, <1>6, <1>7, <1>8 DEF BaseInv

\* _scheduled_entry_cb starts the dispatch of a future whose turn has come.
LEMMA ScheduledEntryCbStep ==
    ASSUME BaseInv, ScheduledEntryCb
    PROVE  BaseInv'
<1>1. /\ stack # <<>> /\ Top.k = "batch" /\ UNCHANGED <<promise, sched, ctx, calls>>
      /\ IF Top.l = <<>>
         THEN stack' = <<>> \o Tail(stack) /\ UNCHANGED <<future, pending>>
         ELSE IF ~future[Head(Top.l).f].scheduled_entry
         THEN stack' = <<[Top EXCEPT !.l = Tail(@)]>> \o Tail(stack) /\ UNCHANGED <<future, pending>>
         ELSE /\ pending' = Without(pending, Head(Top.l).f)
              /\ future' = [future EXCEPT ![Head(Top.l).f].scheduled_entry = FALSE]
              /\ stack' = <<Frame("dispatch", Head(Top.l).f, Head(Top.l).v),
                            [Top EXCEPT !.l = Tail(@)]>> \o Tail(stack)
  BY DEF ScheduledEntryCb, At, Instead
<1>2. /\ Top \in FrameType /\ FrameOK(future, Top) /\ Top.l \in Seq(Entry) /\ Queued(future, Top.l)
      /\ Good(future) /\ Grows(future, future) /\ calls \in 0..MaxCalls
      /\ Lists(sched, pending, future)
  BY <1>1, TopFacts, FrameFields, KeepsSame DEF BaseInv, FrameOK, Keeps
<1>3. CASE Top.l = <<>>
  <2>1. stack' \in Seq(FrameType) /\ StackOK(future, ctx.promise, stack')
    BY <1>1, <1>2, <1>3, PopStep
  <2> QED
    BY <1>1, <1>2, <1>3, <2>1, StackStep
<1>4. CASE Top.l # <<>>
  <2> DEFINE rest == [Top EXCEPT !.l = Tail(@)]
             e == Head(Top.l)
  <2>1. /\ e \in Entry /\ Reached(future, e.f) /\ Tail(Top.l) \in Seq(Entry)
        /\ Queued(future, Tail(Top.l))
    <3>1. /\ e = Top.l[1] /\ 1 \in DOMAIN Top.l /\ Top.l[1] \in Entry
          /\ \A i \in DOMAIN Tail(Top.l) : i + 1 \in DOMAIN Top.l /\ Tail(Top.l)[i] = Top.l[i + 1]
      BY <1>2, <1>4
    <3> QED
      BY <1>2, <1>4, <3>1 DEF Queued
  <2>2. e.f \in Futures /\ e.v \in Settled
    BY <2>1 DEF Entry
  <2>3. rest \in FrameType /\ rest.k = "batch" /\ rest.f = Top.f /\ rest.p = Top.p
        /\ rest.l = Tail(Top.l)
    BY <1>1, <1>2, <2>1 DEF FrameType
  <2> HIDE DEF rest, e
  <2>4. FrameOK(future, rest) /\ rest.k \notin Callbacks
    BY <1>1, <1>2, <2>1, <2>3
    DEF FrameOK, OnFuture, OnPromise, Loops, Ends, Callbacks, Leaves
  <2>5. CASE ~future[e.f].scheduled_entry
    <3>1. stack' = <<rest>> \o Tail(stack) /\ UNCHANGED <<future, pending>>
      BY <1>1, <1>4, <2>5 DEF rest, e
    <3>2. stack' \in Seq(FrameType) /\ StackOK(future, ctx.promise, stack')
      BY <1>1, <1>2, <2>3, <2>4, <3>1, OneStep
    <3> QED
      BY <1>1, <1>2, <3>1, <3>2, StackStep
  <2>6. CASE future[e.f].scheduled_entry
    <3> DEFINE x == Frame("dispatch", e.f, e.v)
    <3>1. /\ pending' = Without(pending, e.f)
          /\ future' = [future EXCEPT ![e.f].scheduled_entry = FALSE]
          /\ stack' = <<x, rest>> \o Tail(stack)
      BY <1>1, <1>4, <2>6 DEF rest, e
    <3>2. Made(future, e.f)
      BY <2>1 DEF Reached
    <3>3. Good(future') /\ Keeps(future, future')
      <4>1. LET hs == [future EXCEPT ![e.f].scheduled_entry = FALSE]
            IN  Good(hs) /\ Keeps(future, hs)
        BY <1>2, <2>2, <3>2, EntryGood
      <4> QED
        BY <4>1, <3>1
    <3>4. /\ Holds(promise, future') /\ Lists(sched, pending, future') /\ CtxOK(ctx, future')
          /\ \E n \in 0..MaxFuture : Numbered(future', n)
          /\ Grows(future, future')
      BY <3>3, BodyKeeps
    <3>5. Reached(future', e.f)
      BY <1>2, <2>1, <2>2, <3>3, <3>4, GrowsFacts
    <3>6. x \in FrameType /\ FrameOK(future', x) /\ x.k = "dispatch"
      <4>1. /\ "dispatch" \in Kinds \ (OnPromise \cup Ends) /\ "dispatch" \notin OnFuture
            /\ e.v \in Settled \cup Promises /\ e.f \in Futures \cup {None}
        BY <2>2 DEF Kinds, OnPromise, Ends, OnFuture, Leaves
      <4>2. Made(future', e.f) /\ Ready(future', e.f)
        BY <3>5 DEF Reached
      <4> QED
        BY <4>1, <4>2, FutureFrame
    <3>7. FrameOK(future', rest)
      BY <1>2, <2>3, <2>4, <3>3, <3>4, FrameGrows
    <3> HIDE DEF x
    <3>8. x.k \notin Callbacks /\ x.k \notin Leaves
      BY <3>6 DEF Callbacks, Leaves
    <3>9. stack' \in Seq(FrameType) /\ StackOK(future', ctx.promise, stack')
      BY <1>1, <2>3, <2>4, <3>1, <3>3, <3>4, <3>6, <3>7, <3>8, TwoStep
    <3>10. Lists(sched, pending', future')
      <4>1. pending \in Seq(Futures) /\ \A i \in DOMAIN pending : Made(future', pending[i])
        BY <3>4 DEF Lists
      <4>2. pending' \in Seq(Futures) /\ \A i \in DOMAIN pending' : Made(future', pending'[i])
        BY <3>1, <4>1, WithoutFacts
      <4> QED
        BY <3>4, <4>2 DEF Lists
    <3> QED
      BY <1>1, <1>2, <3>3, <3>4, <3>9, <3>10 DEF BaseInv
  <2> QED
    BY <2>5, <2>6
<1> QED
  BY <1>3, <1>4

\* One round of the loop of _eina_future_dispatch or _eina_future_cancel: a
\* future without callback is freed, a callback is called with v.
LEMMA LoopStep ==
    ASSUME BaseInv, stack # <<>>, Top.k \in Loops, NEW v \in Settled \cup Promises,
           IF Top.f = None \/ future[Top.f].cb = "dispatched"
           THEN stack' = <<>> \o Tail(stack) /\ UNCHANGED future
           ELSE IF future[Top.f].cb = "null"
           THEN /\ future' = FreeF(future, Top.f)
                /\ stack' = <<[Top EXCEPT !.f = future[Top.f].next]>> \o Tail(stack)
           ELSE /\ future' = CbDispatch(future, Top.f)
                /\ stack' = <<Frame(future[Top.f].kind, Top.f, v), Top>> \o Tail(stack),
           UNCHANGED <<promise, sched, pending, ctx, calls>>
    PROVE  BaseInv'
<1>1. /\ Top \in FrameType /\ FrameOK(future, Top) /\ Top.f \in Futures \cup {None}
      /\ Good(future) /\ Grows(future, future) /\ calls \in 0..MaxCalls
      /\ CtxOK(ctx, future)
  BY TopFacts, FrameFields, KeepsSame DEF BaseInv, Keeps
<1>2. Top.k \notin Callbacks /\ Top.k \notin OnFuture /\ Top.k \notin OnPromise /\ Top.k \notin Ends
  BY DEF Loops, Callbacks, OnFuture, OnPromise, Ends, Leaves
<1>3. CASE Top.f = None \/ future[Top.f].cb = "dispatched"
  <2>1. stack' \in Seq(FrameType) /\ StackOK(future, ctx.promise, stack')
    BY <1>1, <1>3, PopStep
  <2> QED
    BY <1>1, <1>3, <2>1, StackStep
<1>4. CASE Top.f # None /\ future[Top.f].cb # "dispatched"
  <2>1. PICK f \in Futures : f = Top.f
    BY <1>1, <1>4
  <2>2. Reached(future, f) /\ f # None
    BY <1>1, <1>4, <2>1 DEF FrameOK, Reached
  <2>3. CASE future[f].cb = "null"
    <3> DEFINE x == [Top EXCEPT !.f = future[f].next]
    <3>1. future' = FreeF(future, f) /\ stack' = <<x>> \o Tail(stack)
      BY <1>4, <2>1, <2>3
    <3>2. future[f].kind # "null" => future[f].called = 1
      BY <1>1, <2>2, <2>3, FutureFields DEF LifeOK, Reached, Made, FutureType
    <3>3. Good(future') /\ Keeps(future, future') /\ Grows(future, future')
      BY <1>1, <2>2, <3>1, <3>2, FreeFGood DEF Keeps
    <3>4. x \in FrameType /\ x.k = Top.k /\ x.f = future[f].next /\ x.l = Top.l
      BY <1>1, FutureFields DEF FrameType
    <3>5. future[f].next # None => future[f].next \in Futures /\ Reached(future, future[f].next)
      <4>1. future[f].next # None =>
              /\ future[f].next \in Futures /\ Made(future, future[f].next)
              /\ future[future[f].next].before = f
        BY <1>1, FutureFields DEF LinksOK
      <4>2. future[f].called > 0 \/ future[f].kind = "null"
        BY <3>2
      <4> QED
        BY <4>1, <4>2 DEF Reached, Ready
    <3> HIDE DEF x
    <3>6. FrameOK(future, x)
      BY <1>1, <1>2, <3>4, <3>5 DEF FrameOK, Reached
    <3>7. FrameOK(future', x)
      BY <1>1, <3>3, <3>4, <3>6, FrameGrows
    <3>8. stack' \in Seq(FrameType) /\ StackOK(future', ctx.promise, stack')
      BY <1>2, <3>1, <3>3, <3>4, <3>7, OneStep
    <3> QED
      BY <1>1, <3>3, <3>8, FutureStep
  <2>4. CASE future[f].cb # "null"
    <3> DEFINE x == Frame(future[f].kind, f, v)
    <3>1. future' = CbDispatch(future, f) /\ stack' = <<x, Top>> \o Tail(stack)
      BY <1>4, <2>1, <2>4
    <3>2. future[f].cb = "set" /\ future[f].kind \in Leaves \cup {"user"} /\ Made(future, f)
          /\ future[f].st = "live"
      <4>1. future[f].cb = "set"
        BY <1>1, <1>4, <2>1, <2>4, FutureFields DEF FutureType
      <4> QED
        BY <1>1, <2>2, <4>1, FutureFields DEF LifeOK, FutureType, Leaves, Reached, Made
    <3>3. /\ Good(future') /\ Keeps(future, future') /\ Grows(future, future')
          /\ future'[f].called = 1 /\ future'[f].data = future[f].data
      BY <1>1, <2>2, <3>1, <3>2, CbDispatchGood DEF Keeps
    <3>4. x \in FrameType /\ FrameOK(future', x) /\ x.k = future[f].kind /\ x.f = f
      <4>1. /\ future[f].kind \in Kinds \ (OnPromise \cup Ends)
            /\ future[f].kind \notin Loops
        BY <3>2 DEF Kinds, OnPromise, Ends, OnFuture, Leaves, Loops
      <4>2. Made(future', f)
        BY <1>1, <2>2, <3>3, GrowsFacts DEF Reached
      <4> QED
        BY <2>2, <4>1, <4>2, FutureFrame
    <3> HIDE DEF x
    <3>5. FrameOK(future', Top)
      BY <1>1, <3>3, FrameGrows
    <3>6. CallOK(future', x, Top)
      BY <2>1, <2>2, <3>3, <3>4 DEF CallOK
    <3>7. x.k \in Leaves => LeafOK(future', ctx.promise, x)
      <4>1. future[f].kind = "proxy" => future[f].data # None
        BY <1>1, <3>2, FutureFields DEF LifeOK
      <4>2. future[f].kind \in {"all", "race"} => ctx.promise # None
        BY <1>1 DEF CtxOK, Ctxed
      <4> QED
        BY <3>3, <3>4, <4>1, <4>2 DEF LeafOK
    <3>8. stack' \in Seq(FrameType) /\ StackOK(future', ctx.promise, stack')
      BY <1>1, <1>2, <3>1, <3>3, <3>4, <3>5, <3>6, <3>7, TwoStep
    <3> QED
      BY <1>1, <3>3, <3>8, FutureStep
  <2> QED
    BY <2>3, <2>4
<1> QED
  BY <1>3, <1>4

\* _eina_future_dispatch.
LEMMA DispatchStep ==
    ASSUME BaseInv, Dispatch
    PROVE  BaseInv'
<1>1. /\ stack # <<>> /\ Top.k \in Loops /\ UNCHANGED <<promise, sched, pending, ctx, calls>>
      /\ IF Top.f = None \/ future[Top.f].cb = "dispatched"
         THEN stack' = <<>> \o Tail(stack) /\ UNCHANGED future
         ELSE IF future[Top.f].cb = "null"
         THEN /\ future' = FreeF(future, Top.f)
              /\ stack' = <<[Top EXCEPT !.f = future[Top.f].next]>> \o Tail(stack)
         ELSE /\ future' = CbDispatch(future, Top.f)
              /\ stack' = <<Frame(future[Top.f].kind, Top.f, Top.v), Top>> \o Tail(stack)
  BY DEF Dispatch, At, Instead, Loops
<1>2. Top.v \in Settled \cup Promises
  BY <1>1, TopFacts, FrameFields
<1> QED
  BY <1>1, <1>2, LoopStep

\* The loop of _eina_future_cancel.
LEMMA CancelLoopStep ==
    ASSUME BaseInv, CancelLoop
    PROVE  BaseInv'
<1>1. /\ stack # <<>> /\ Top.k \in Loops /\ UNCHANGED <<promise, sched, pending, ctx, calls>>
      /\ IF Top.f = None \/ future[Top.f].cb = "dispatched"
         THEN stack' = <<>> \o Tail(stack) /\ UNCHANGED future
         ELSE IF future[Top.f].cb = "null"
         THEN /\ future' = FreeF(future, Top.f)
              /\ stack' = <<[Top EXCEPT !.f = future[Top.f].next]>> \o Tail(stack)
         ELSE /\ future' = CbDispatch(future, Top.f)
              /\ stack' = <<Frame(future[Top.f].kind, Top.f, Error), Top>> \o Tail(stack)
  BY DEF CancelLoop, At, Instead, Loops
<1>2. Error \in Settled \cup Promises
  BY DEF Settled
<1> QED
  BY <1>1, <1>2, LoopStep

\* A function that flushes a value cancels the promise in it.
LEMMA FlushFrame ==
    ASSUME NEW fs, NEW r \in Settled \cup Promises, IsPromise(r)
    PROVE  /\ Flush(r) = <<FrameP("pcancel", r, Plain)>> /\ r \in Promises
           /\ FrameP("pcancel", r, Plain) \in FrameType
           /\ FrameOK(fs, FrameP("pcancel", r, Plain))
           /\ FrameP("pcancel", r, Plain).k = "pcancel"
<1>1. r \in Promises /\ r # None
  BY DEF IsPromise, Settled, Plain, Error, Promises, None
<1>2. "pcancel" \in Kinds \ OnFuture /\ Plain \in Settled \cup Promises
  BY DEF Kinds, OnFuture, Leaves, Ends, Settled
<1>3. /\ FrameP("pcancel", r, Plain) \in FrameType
      /\ FrameOK(fs, FrameP("pcancel", r, Plain))
      /\ FrameP("pcancel", r, Plain).k = "pcancel"
  BY <1>1, <1>2, PromiseFrame
<1> QED
  BY <1>1, <1>3 DEF Flush

\* The future whose callback has returned is freed, and the next one can be
\* reached.
LEMMA EndFacts ==
    ASSUME BaseInv, stack # <<>>, Top.k \in Ends, NEW f, f = Top.f, NEW gs, gs = FreeF(future, f)
    PROVE  /\ f \in Futures /\ Top.v \in Settled \cup Promises
           /\ Good(gs) /\ Keeps(future, gs) /\ Grows(future, gs)
           /\ future[f].next \in Futures \cup {None}
           /\ future[f].next # None => Reached(gs, future[f].next)
<1>1. /\ Top \in FrameType /\ FrameOK(future, Top) /\ Good(future)
  BY TopFacts DEF BaseInv
<1>2. f \in Futures /\ Made(future, f) /\ future[f].called = 1 /\ Top.v \in Settled \cup Promises
  BY <1>1, FrameFields DEF FrameOK, OnFuture
<1>3. Reached(future, f)
  BY <1>1, <1>2, FutureFields DEF LinksOK, Reached
<1>4. Good(gs) /\ Keeps(future, gs) /\ Grows(future, gs)
  BY <1>1, <1>2, <1>3, FreeFGood DEF Keeps
<1>5. future[f].next \in Futures \cup {None}
  BY <1>1, <1>2, FutureFields
<1>6. ASSUME future[f].next # None PROVE Reached(gs, future[f].next)
  <2>1. PICK n \in Futures : n = future[f].next
    BY <1>5, <1>6
  <2>2. Made(future, n) /\ future[n].before = f
    BY <1>1, <1>2, <1>6, <2>1, FutureFields DEF LinksOK
  <2>3. Reached(future, n)
    BY <1>2, <2>2 DEF Reached, Ready
  <2> QED
    BY <1>1, <1>4, <2>1, <2>3, GrowsFacts
<1> QED
  BY <1>2, <1>4, <1>5, <1>6

\* A frame of a loop over what can be reached.
LEMMA LoopFrame ==
    ASSUME NEW fs, NEW k \in Loops, NEW f \in Futures \cup {None}, NEW v \in Settled \cup Promises,
           f # None => Reached(fs, f)
    PROVE  /\ Frame(k, f, v) \in FrameType /\ FrameOK(fs, Frame(k, f, v))
           /\ Frame(k, f, v).k = k /\ Frame(k, f, v).k \notin Callbacks
<1>1. k \in Kinds \ (OnPromise \cup Ends) /\ k \notin OnFuture /\ k \notin Callbacks
  BY DEF Loops, Kinds, OnPromise, Ends, OnFuture, Leaves, Callbacks
<1>2. f # None => Made(fs, f) /\ Ready(fs, f)
  BY DEF Reached
<1> QED
  BY <1>1, <1>2, FutureFrame

\* _eina_future_dispatch after a callback: the next future's turn has come.
LEMMA DispatchedStep ==
    ASSUME BaseInv, Dispatched
    PROVE  BaseInv'
<1> DEFINE f == Top.f
           n == future[f].next
           r == Top.v
           stolen == [promise EXCEPT ![r].scheduler = TRUE]
           gs == FreeF(future, f)
<1>1. /\ stack # <<>> /\ Top.k \in Ends /\ UNCHANGED <<sched, pending, ctx, calls>>
      /\ IF n # None /\ future[n].cb = "dispatched"
          THEN /\ stack' = Flush(r) \o Tail(stack)
               /\ future' = gs
               /\ UNCHANGED promise
          ELSE IF IsPromise(r)
          THEN /\ promise' = IF n = None THEN UnlinkP(stolen, r) ELSE LinkP(stolen, r, n)
               /\ future' = IF n = None THEN gs ELSE LinkF(gs, r, n)
               /\ stack' = <<>> \o Tail(stack)
          ELSE /\ future' = gs
               /\ stack' = <<Frame("dispatch", n, r)>> \o Tail(stack)
               /\ UNCHANGED promise
  BY DEF Dispatched, At, Instead, Ends
<1>2. /\ f \in Futures /\ r \in Settled \cup Promises
      /\ Good(gs) /\ Keeps(future, gs) /\ Grows(future, gs)
      /\ n \in Futures \cup {None}
      /\ n # None => Reached(gs, n)
  BY <1>1, EndFacts
<1>3. calls \in 0..MaxCalls /\ Holds(promise, future)
  BY DEF BaseInv
<1>4. CASE future' = gs /\ UNCHANGED promise /\ stack' = Flush(r) \o Tail(stack)
  <2>1. stack' \in Seq(FrameType) /\ StackOK(gs, ctx.promise, stack')
    <3>1. CASE IsPromise(r)
      <4> DEFINE x == FrameP("pcancel", r, Plain)
      <4>1. Flush(r) = <<x>> /\ x \in FrameType /\ FrameOK(gs, x) /\ x.k = "pcancel"
        BY <1>2, <3>1, FlushFrame
      <4> HIDE DEF x, f, n, r, gs
      <4>2. x.k \notin Callbacks /\ stack' = <<x>> \o Tail(stack)
        BY <1>4, <4>1 DEF Callbacks, Leaves
      <4> QED
        BY <1>1, <1>2, <4>1, <4>2, OneStep
    <3>2. CASE ~IsPromise(r)
      <4>1. stack' = <<>> \o Tail(stack)
        BY <1>4, <3>2 DEF Flush
      <4> HIDE DEF f, n, r, gs
      <4> QED
        BY <1>1, <1>2, <4>1, PopStep
    <3> QED
      BY <3>1, <3>2
  <2> HIDE DEF f, n, r, gs
  <2>2. Good(future') /\ Keeps(future, future') /\ StackOK(future', ctx.promise, stack')
    BY <1>2, <1>4, <2>1
  <2> QED
    BY <1>1, <1>3, <1>4, <2>1, <2>2, FutureStep
<1>5. CASE future' = gs /\ UNCHANGED promise /\ stack' = <<Frame("dispatch", n, r)>> \o Tail(stack)
  <2> DEFINE x == Frame("dispatch", n, r)
  <2>1. x \in FrameType /\ FrameOK(gs, x) /\ x.k \notin Callbacks
    <3>1. "dispatch" \in Loops
      BY DEF Loops
    <3> HIDE DEF f, n, r, gs
    <3> QED
      BY <1>2, <3>1, LoopFrame
  <2>2. stack' = <<x>> \o Tail(stack)
    BY <1>5
  <2> HIDE DEF f, n, r, gs, x
  <2>3. stack' \in Seq(FrameType) /\ StackOK(gs, ctx.promise, stack')
    BY <1>1, <1>2, <2>1, <2>2, OneStep
  <2>4. Good(future') /\ Keeps(future, future') /\ StackOK(future', ctx.promise, stack')
    BY <1>2, <1>5, <2>3
  <2> QED
    BY <1>1, <1>3, <1>5, <2>3, <2>4, FutureStep
<1>6. CASE /\ IsPromise(r) /\ stack' = <<>> \o Tail(stack)
           /\ promise' = IF n = None THEN UnlinkP(stolen, r) ELSE LinkP(stolen, r, n)
           /\ future' = IF n = None THEN gs ELSE LinkF(gs, r, n)
  <2>1. r \in Promises
    BY <1>2, <1>6 DEF IsPromise, Settled, Plain, Error, Promises
  <2>2. Holds(stolen, future)
    BY <1>3, <2>1, StolenHolds
  <2> HIDE DEF f, n, r, gs, stolen
  <2>3. Good(future') /\ Keeps(gs, future') /\ Keeps(future, future')
    <3>1. n # None => Good(LinkF(gs, r, n)) /\ Keeps(gs, LinkF(gs, r, n))
      BY <1>2, <2>1, LinkFGood DEF Reached
    <3>2. Good(future') /\ Keeps(gs, future')
      BY <1>2, <1>6, <3>1, KeepsSame
    <3>3. Good(future)
      BY DEF BaseInv
    <3>4. Grows(future, future')
      BY <1>2, <3>2, <3>3, GrowsTrans DEF Keeps
    <3> QED
      BY <1>2, <3>2, <3>4 DEF Keeps
  <2>4. /\ Lists(sched, pending, future') /\ CtxOK(ctx, future')
        /\ \E m \in 0..MaxFuture : Numbered(future', m)
        /\ Grows(future, future')
    BY <2>3, BodyKeeps
  <2>5. Holds(stolen, future')
    BY <2>2, <2>3, <2>4, HoldsGrows DEF BaseInv
  <2>6. Holds(promise', future')
    <3>1. CASE n = None
      BY <1>6, <2>1, <2>5, <3>1, UnlinkPHolds
    <3>2. CASE n # None
      <4>1. Reached(future', n)
        BY <1>2, <2>3, <3>2, GrowsFacts DEF Keeps
      <4> QED
        BY <1>2, <1>6, <2>1, <2>5, <3>2, <4>1, LinkPHolds
    <3> QED
      BY <3>1, <3>2
  <2>7. stack' \in Seq(FrameType) /\ StackOK(future', ctx.promise, stack')
    BY <1>1, <1>6, <2>3, <2>4, PopStep
  <2> QED
    BY <1>1, <1>3, <2>3, <2>4, <2>6, <2>7 DEF BaseInv
<1> HIDE DEF f, n, r, gs, stolen
<1> QED
  BY <1>1, <1>4, <1>5, <1>6

\* A step that makes no future.
LEMMA PromiseStep ==
    ASSUME BaseInv, Good(future'), Keeps(future, future'), Holds(promise', future'),
           UNCHANGED <<sched, pending>>, ctx' \in CtxType, ctx'.promise = ctx.promise,
           ctx'.futures \subseteq ctx.futures, calls' \in 0..MaxCalls,
           stack' \in Seq(FrameType), StackOK(future', ctx.promise, stack')
    PROVE  BaseInv'
<1>1. /\ Lists(sched, pending, future') /\ CtxOK(ctx, future')
      /\ \E n \in 0..MaxFuture : Numbered(future', n)
  BY BodyKeeps
<1>2. CtxOK(ctx', future')
  BY <1>1 DEF CtxOK
<1> QED
  BY <1>1, <1>2 DEF BaseInv

\* A frame of a function on a promise, or on none.
LEMMA PlainFrame ==
    ASSUME NEW fs, NEW k \in {"pcancel", "free", "settle", "clean", "allfree", "return"},
           NEW p \in Promises \cup {None}, NEW v \in Settled \cup Promises,
           k \in {"pcancel", "free", "settle"} => p # None
    PROVE  /\ FrameP(k, p, v) \in FrameType /\ FrameOK(fs, FrameP(k, p, v))
           /\ FrameP(k, p, v).k = k /\ FrameP(k, p, v).k \notin Leaves
           /\ k # "return" => FrameP(k, p, v).k \notin Callbacks
<1>1. k \in Kinds \ OnFuture /\ (k \in OnPromise => p # None) /\ k \notin Leaves
      /\ (k # "return" => k \notin Callbacks)
  BY DEF Kinds, OnFuture, OnPromise, Leaves, Ends, Callbacks
<1> QED
  BY <1>1, PromiseFrame

\* The values the library itself passes.
LEMMA Constants ==
    /\ Plain \in Settled /\ Error \in Settled
    /\ Plain \in Settled \cup Promises /\ Error \in Settled \cup Promises
    /\ None \in Promises \cup {None} /\ None \in Futures \cup {None}
  BY DEF Settled

\* Library steps leave the user's calls.
LEMMA CallsKept == BaseInv => calls \in 0..MaxCalls
  BY DEF BaseInv

\* The frame of _eina_future_cancel.
LEMMA FirstFrame ==
    ASSUME NEW fs, NEW f \in Futures, Made(fs, f)
    PROVE  /\ Frame("first", f, Error) \in FrameType /\ FrameOK(fs, Frame("first", f, Error))
           /\ Frame("first", f, Error).k = "first" /\ "first" \notin Callbacks
<1>1. /\ "first" \in Kinds \ (OnPromise \cup Ends) /\ "first" \notin Callbacks
      /\ "first" \notin Loops /\ f # None /\ Error \in Settled \cup Promises
  BY NumberFacts DEF Kinds, OnPromise, Ends, Callbacks, Leaves, Loops, Settled
<1> QED
  BY <1>1, FutureFrame

\* _eina_future_cancel begins at the first future of the chain.
LEMMA CancelFirstStep ==
    ASSUME BaseInv, CancelFirst
    PROVE  BaseInv'
<1> DEFINE f == First(Top.f)
           p == future[f].promise
           x == FrameP("pcancel", p, Plain)
           y == Frame("cancel", f, Error)
<1>1. /\ stack # <<>> /\ Top.k = "first" /\ UNCHANGED <<promise, ctx, calls>>
      /\ IF future[f].scheduled_entry
         THEN /\ sched' = [sched EXCEPT !.futures = RemoveAt(@, {i \in DOMAIN @ : @[i].f = f})]
              /\ pending' = Without(pending, f)
              /\ future' = [future EXCEPT ![f].scheduled_entry = FALSE]
         ELSE UNCHANGED <<sched, pending, future>>
      /\ stack' = ((IF p = None THEN <<>> ELSE <<x>>) \o <<y>>) \o Tail(stack)
  BY DEF CancelFirst, At, Instead, Recall
<1>2. /\ Good(future) /\ Top \in FrameType /\ Top.f \in Futures /\ Made(future, Top.f)
      /\ Lists(sched, pending, future) /\ calls \in 0..MaxCalls
  BY <1>1, TopFacts, FrameFields DEF BaseInv, FrameOK, OnFuture
<1>3. f \in Futures /\ Reached(future, f) /\ Made(future, f)
  BY <1>2, FirstReached DEF Reached
<1>4. p \in Promises \cup {None}
  BY <1>3, FutureFields, <1>2 DEF FutureType
<1> HIDE DEF f, p
<1>5. Good(future') /\ Keeps(future, future')
  <2>1. LET gs == [future EXCEPT ![f].scheduled_entry = FALSE]
        IN  Good(gs) /\ Keeps(future, gs)
    BY <1>2, <1>3, EntryGood
  <2> QED
    BY <1>1, <1>2, <2>1, KeepsSame
<1>6. /\ Holds(promise, future') /\ Lists(sched, pending, future') /\ CtxOK(ctx, future')
      /\ \E n \in 0..MaxFuture : Numbered(future', n)
      /\ Grows(future, future')
  BY <1>5, BodyKeeps
<1>7. Lists(sched', pending', future')
  <2>1. CASE UNCHANGED <<sched, pending>>
    BY <1>6, <2>1
  <2>2. CASE /\ sched' = [sched EXCEPT !.futures = RemoveAt(@, {i \in DOMAIN @ : @[i].f = f})]
             /\ pending' = Without(pending, f)
    <3> DEFINE l == sched.futures
               m == RemoveAt(l, {i \in DOMAIN l : l[i].f = f})
    <3>1. /\ sched \in [futures: Seq(Entry), listener: BOOLEAN] /\ l \in Seq(Entry)
          /\ Queued(future', l) /\ pending \in Seq(Futures)
          /\ \A i \in DOMAIN pending : Made(future', pending[i])
      BY <1>6 DEF Lists
    <3>2. m \in Seq(Entry) /\ Queued(future', m)
      BY <3>1, RecallFacts
    <3>3. pending' \in Seq(Futures) /\ \A i \in DOMAIN pending' : Made(future', pending'[i])
      BY <2>2, <3>1, WithoutFacts
    <3>4. sched' = [sched EXCEPT !.futures = m]
      BY <2>2
    <3> HIDE DEF m
    <3>5. sched' \in [futures: Seq(Entry), listener: BOOLEAN] /\ sched'.futures = m
      BY <3>1, <3>2, <3>4
    <3> QED
      BY <3>2, <3>3, <3>5 DEF Lists
  <2> QED
    BY <1>1, <2>1, <2>2
<1>8. y \in FrameType /\ FrameOK(future', y) /\ y.k \notin Callbacks
  <2>1. Reached(future', f)
    BY <1>2, <1>3, <1>5, <1>6, GrowsFacts
  <2>2. "cancel" \in Loops
    BY DEF Loops
  <2> QED
    BY <1>3, <2>1, <2>2, Constants, LoopFrame
<1>9. stack' \in Seq(FrameType) /\ StackOK(future', ctx.promise, stack')
  <2>1. CASE p = None
    <3> HIDE DEF y
    <3>1. stack' = <<y>> \o Tail(stack)
      BY <1>1, <1>8, <2>1
    <3> QED
      BY <1>1, <1>5, <1>6, <1>8, <3>1, OneStep
  <2>2. CASE p # None
    <3>1. x \in FrameType /\ FrameOK(future', x) /\ x.k \notin Callbacks /\ x.k \notin Leaves
      BY <1>4, <2>2, Constants, PlainFrame
    <3> HIDE DEF x, y
    <3>2. stack' = <<x, y>> \o Tail(stack)
      BY <1>1, <1>8, <2>2, <3>1, Pairs
    <3> QED
      BY <1>1, <1>5, <1>6, <1>8, <3>1, <3>2, TwoStep
  <2> QED
    BY <2>1, <2>2
<1> QED
  BY <1>1, <1>2, <1>5, <1>6, <1>7, <1>9 DEF BaseInv

\* The loop of _eina_future_cancel after a callback.
LEMMA CancelledStep ==
    ASSUME BaseInv, Cancelled
    PROVE  BaseInv'
<1> DEFINE f == Top.f
           r == Top.v
           n == future[f].next
           gs == FreeF(future, f)
           x == FrameP("pcancel", r, Plain)
           y == Frame("cancel", n, Error)
<1>1. /\ stack # <<>> /\ Top.k \in Ends /\ UNCHANGED <<promise, sched, pending, ctx, calls>>
      /\ future' = gs /\ stack' = (Flush(r) \o <<y>>) \o Tail(stack)
  BY DEF Cancelled, At, Instead, Ends
<1>2. /\ f \in Futures /\ r \in Settled \cup Promises
      /\ Good(gs) /\ Keeps(future, gs) /\ Grows(future, gs)
      /\ n \in Futures \cup {None}
      /\ n # None => Reached(gs, n)
  BY <1>1, EndFacts
<1>3. calls \in 0..MaxCalls
  BY CallsKept
<1> HIDE DEF f, r, n, gs
<1>4. y \in FrameType /\ FrameOK(gs, y) /\ y.k \notin Callbacks
  <2>1. "cancel" \in Loops
    BY DEF Loops
  <2> QED
    BY <1>2, <2>1, Constants, LoopFrame
<1>5. stack' \in Seq(FrameType) /\ StackOK(gs, ctx.promise, stack')
  <2>1. CASE IsPromise(r)
    <3>1. Flush(r) = <<x>> /\ x \in FrameType /\ FrameOK(gs, x) /\ x.k = "pcancel"
      BY <1>2, <2>1, FlushFrame
    <3> HIDE DEF x, y
    <3>2. x.k \notin Callbacks /\ x.k \notin Leaves
      BY <3>1 DEF Callbacks, Leaves
    <3>3. stack' = <<x, y>> \o Tail(stack)
      BY <1>1, <1>4, <3>1, Pairs
    <3> QED
      BY <1>1, <1>2, <1>4, <3>1, <3>2, <3>3, TwoStep
  <2>2. CASE ~IsPromise(r)
    <3>1. Flush(r) = <<>>
      BY <2>2 DEF Flush
    <3> HIDE DEF y
    <3>2. stack' = <<y>> \o Tail(stack)
      BY <1>1, <1>4, <3>1
    <3> QED
      BY <1>1, <1>2, <1>4, <3>2, OneStep
  <2> QED
    BY <2>1, <2>2
<1>6. Good(future') /\ Keeps(future, future') /\ StackOK(future', ctx.promise, stack')
  BY <1>1, <1>2, <1>5
<1> QED
  BY <1>1, <1>3, <1>5, <1>6, FutureStep

\* The future of a promise.
LEMMA PromiseFuture ==
    ASSUME BaseInv, NEW p \in Promises
    PROVE  /\ promise[p] \in PromiseType /\ promise[p].future \in Futures \cup {None}
           /\ promise[p].future # None =>
                Reached(future, promise[p].future) /\ Made(future, promise[p].future)
           /\ Good(UnlinkF(future, promise[p].future))
           /\ Keeps(future, UnlinkF(future, promise[p].future))
<1>1. promise[p] \in PromiseType /\ promise[p].future \in Futures \cup {None}
  BY DEF BaseInv, Holds, PromiseType
<1>2. promise[p].future # None =>
        Reached(future, promise[p].future) /\ Made(future, promise[p].future)
  BY DEF BaseInv, Holds, Pointed, Reached
<1>3. Good(future)
  BY DEF BaseInv
<1> QED
  BY <1>1, <1>2, <1>3, UnlinkFGood

\* _eina_promise_cancel.
LEMMA PromiseCancelStep ==
    ASSUME BaseInv, PromiseCancel
    PROVE  BaseInv'
<1> DEFINE p == Top.p
           x == FrameP("clean", None, Plain)
           y == FrameP("free", p, Plain)
<1>1. /\ stack # <<>> /\ Top.k = "pcancel" /\ UNCHANGED <<sched, pending, calls>>
      /\ future' = UnlinkF(future, promise[p].future)
      /\ IF promise[p].cancel \in {"all", "race"}
         THEN /\ promise' = UnlinkP(promise, p)
              /\ ctx' = [ctx EXCEPT !.cancelled = TRUE]
              /\ stack' = <<x, y>> \o Tail(stack)
         ELSE /\ promise' = FreeP(promise, p)
              /\ stack' = <<>> \o Tail(stack)
              /\ UNCHANGED ctx
  BY DEF PromiseCancel, At, Instead
<1>2. p \in Promises /\ p # None /\ ctx \in CtxType /\ calls \in 0..MaxCalls /\ Good(future)
  BY <1>1, TopFacts, FrameFields DEF FrameOK, OnPromise, BaseInv, CtxOK
<1>3. Good(future') /\ Keeps(future, future')
  BY <1>1, <1>2, PromiseFuture
<1>4. Grows(future, future') /\ Holds(promise, future')
  BY <1>3, BodyKeeps
<1> HIDE DEF p
<1>5. CASE promise[p].cancel \in {"all", "race"}
  <2>1. Holds(promise', future')
    BY <1>1, <1>2, <1>4, <1>5, UnlinkPHolds
  <2>2. /\ x \in FrameType /\ FrameOK(future', x) /\ x.k \notin Callbacks /\ x.k \notin Leaves
        /\ y \in FrameType /\ FrameOK(future', y) /\ y.k \notin Callbacks
    BY <1>2, Constants, PlainFrame
  <2> HIDE DEF x, y
  <2>3. stack' \in Seq(FrameType) /\ StackOK(future', ctx.promise, stack')
    BY <1>1, <1>3, <1>4, <1>5, <2>2, TwoStep
  <2>4. ctx' \in CtxType /\ ctx'.promise = ctx.promise /\ ctx'.futures = ctx.futures
    BY <1>1, <1>2, <1>5 DEF CtxType
  <2> QED
    BY <1>1, <1>2, <1>3, <2>1, <2>3, <2>4, PromiseStep
<1>6. CASE promise[p].cancel \notin {"all", "race"}
  <2>1. Holds(promise', future')
    BY <1>1, <1>2, <1>4, <1>6, FreePHolds
  <2>3. stack' \in Seq(FrameType) /\ StackOK(future', ctx.promise, stack')
    BY <1>1, <1>3, <1>4, <1>6, PopStep
  <2> QED
    BY <1>1, <1>2, <1>3, <1>6, <2>1, <2>3, PromiseStep
<1> QED
  BY <1>5, <1>6

\* A promise is released.
LEMMA PromiseFreeStep ==
    ASSUME BaseInv, PromiseFree
    PROVE  BaseInv'
<1>1. /\ stack # <<>> /\ Top.k = "free" /\ UNCHANGED <<future, sched, pending, ctx, calls>>
      /\ promise' = FreeP(promise, Top.p) /\ stack' = <<>> \o Tail(stack)
  BY DEF PromiseFree, At, Instead
<1>2. Top.p \in Promises /\ ctx \in CtxType /\ calls \in 0..MaxCalls /\ Good(future)
      /\ Holds(promise, future) /\ Keeps(future, future) /\ Grows(future, future)
  BY <1>1, TopFacts, FrameFields, KeepsSame DEF FrameOK, OnPromise, BaseInv, CtxOK, Keeps
<1>3. Holds(promise', future)
  BY <1>1, <1>2, FreePHolds
<1>4. stack' \in Seq(FrameType) /\ StackOK(future, ctx.promise, stack')
  BY <1>1, <1>2, PopStep
<1> QED
  BY <1>1, <1>2, <1>3, <1>4, PromiseStep

\* _base_ctx_clean cancels a future of the context.
LEMMA CtxCleanStep ==
    ASSUME BaseInv, CtxClean
    PROVE  BaseInv'
<1> DEFINE t == CHOOSE t \in ctx.futures : \A u \in ctx.futures : t <= u
           x == Frame("first", t, Error)
<1>1. /\ stack # <<>> /\ Top.k = "clean" /\ UNCHANGED <<promise, future, sched, pending, calls>>
      /\ IF ctx.futures = {}
         THEN ctx' = [ctx EXCEPT !.st = "freed"] /\ stack' = <<>> \o Tail(stack)
         ELSE stack' = <<x, Top>> \o Tail(stack) /\ UNCHANGED ctx
  BY DEF CtxClean, At, Instead
<1>2. /\ ctx \in CtxType /\ calls \in 0..MaxCalls /\ Good(future) /\ CtxOK(ctx, future)
      /\ Holds(promise, future) /\ Keeps(future, future) /\ Grows(future, future)
      /\ Top \in FrameType /\ FrameOK(future, Top)
  BY <1>1, TopFacts, KeepsSame DEF BaseInv, CtxOK, Keeps
<1>3. CASE ctx.futures = {}
  <2>1. stack' \in Seq(FrameType) /\ StackOK(future, ctx.promise, stack')
    BY <1>1, <1>2, <1>3, PopStep
  <2>2. ctx' \in CtxType /\ ctx'.promise = ctx.promise /\ ctx'.futures = ctx.futures
    BY <1>1, <1>2, <1>3 DEF CtxType
  <2> QED
    BY <1>1, <1>2, <2>1, <2>2, PromiseStep
<1>4. CASE ctx.futures # {}
  <2>1. t \in ctx.futures
    <3>1. ctx.futures \in SUBSET Nat
      BY <1>2, NumberFacts DEF CtxType
    <3>2. \E u \in ctx.futures : \A v \in ctx.futures : u <= v
      BY <1>4, <3>1, Least
    <3> QED
      BY <3>2
  <2> HIDE DEF t
  <2>2. t \in Futures /\ Made(future, t)
    BY <1>2, <2>1 DEF CtxType, CtxOK
  <2>3. x \in FrameType /\ FrameOK(future, x) /\ x.k \notin Callbacks /\ x.k \notin Leaves
    BY <2>2, FirstFrame DEF Callbacks
  <2>4. Top.k \notin Callbacks
    BY <1>1 DEF Callbacks, Leaves
  <2> HIDE DEF x
  <2>5. stack' \in Seq(FrameType) /\ StackOK(future, ctx.promise, stack')
    BY <1>1, <1>2, <1>4, <2>3, <2>4, TwoStep
  <2> QED
    BY <1>1, <1>2, <1>4, <2>5, StackStep
<1> QED
  BY <1>3, <1>4

\* What is below a callback, with the rest of the callback in its place.
LEMMA ReturnFrame ==
    ASSUME BaseInv, stack # <<>>, Top.k \in Callbacks, NEW v \in Settled \cup Promises
    PROVE  LET z == FrameP("return", None, v)
           IN  /\ z \in FrameType /\ FrameOK(future, z) /\ z.k \notin Leaves
               /\ z.k \in Callbacks => Tail(stack) # <<>> /\ CallOK(future, z, Tail(stack)[1])
               /\ Tail(stack) \in Seq(FrameType) /\ Steady(Tail(stack))
               /\ StackOK(future, ctx.promise, Tail(stack))
<1> DEFINE z == FrameP("return", None, v)
<1>1. z \in FrameType /\ FrameOK(future, z) /\ z.k = "return" /\ z.k \notin Leaves
  <2>1. /\ "return" \in {"pcancel", "free", "settle", "clean", "allfree", "return"}
        /\ "return" \in {"pcancel", "free", "settle"} => None # None
        /\ None \in Promises \cup {None}
    OBVIOUS
  <2> QED
    BY <2>1, PlainFrame
<1>2. /\ Tail(stack) \in Seq(FrameType) /\ Steady(Tail(stack))
      /\ StackOK(future, ctx.promise, Tail(stack))
      /\ Tail(stack) # <<>> /\ CallOK(future, Top, Tail(stack)[1])
  BY TailKept
<1> HIDE DEF z
<1>3. CallOK(future, z, Tail(stack)[1])
  BY <1>1, <1>2 DEF CallOK
<1> QED
  BY <1>1, <1>2, <1>3 DEF z

\* A step of a callback of a context: the futures of the context shrink.
LEMMA CtxStep ==
    ASSUME BaseInv, UNCHANGED <<promise, future, sched, pending, calls>>,
           ctx' \in CtxType, ctx'.promise = ctx.promise, ctx'.futures \subseteq ctx.futures,
           stack' \in Seq(FrameType), StackOK(future, ctx.promise, stack')
    PROVE  BaseInv'
<1>1. Good(future) /\ Keeps(future, future) /\ Holds(promise, future) /\ calls \in 0..MaxCalls
  BY KeepsSame DEF BaseInv
<1> QED
  BY <1>1, PromiseStep

\* _all_then_cb.
LEMMA AllThenCbStep ==
    ASSUME BaseInv, AllThenCb
    PROVE  BaseInv'
<1> DEFINE x == FrameP("settle", ctx.promise, Plain)
           y == FrameP("allfree", None, Plain)
           z == FrameP("return", None, Top.v)
<1>1. /\ stack # <<>> /\ Top.k = "all" /\ UNCHANGED <<promise, future, sched, pending, calls>>
      /\ ctx' = [ctx EXCEPT !.futures = @ \ {Top.f}]
      /\ stack' = ((IF ctx.futures = {Top.f} THEN <<x, y>> ELSE <<>>) \o <<z>>) \o Tail(stack)
  BY DEF AllThenCb, At, Instead
<1>2. /\ ctx \in CtxType /\ Top.v \in Settled \cup Promises /\ ctx.promise \in Promises \cup {None}
      /\ ctx.promise # None /\ Top.k \in Callbacks
  BY <1>1, TopFacts, FrameFields DEF BaseInv, CtxOK, CtxType, Leaves, LeafOK, Callbacks
<1>3. /\ z \in FrameType /\ FrameOK(future, z) /\ z.k \notin Leaves
      /\ z.k \in Callbacks => Tail(stack) # <<>> /\ CallOK(future, z, Tail(stack)[1])
      /\ Tail(stack) \in Seq(FrameType) /\ Steady(Tail(stack))
      /\ StackOK(future, ctx.promise, Tail(stack))
  BY <1>1, <1>2, ReturnFrame
<1>4. /\ x \in FrameType /\ FrameOK(future, x) /\ x.k \notin Callbacks /\ x.k \notin Leaves
      /\ y \in FrameType /\ FrameOK(future, y) /\ y.k \notin Callbacks /\ y.k \notin Leaves
  BY <1>2, Constants, PlainFrame
<1> HIDE DEF x, y, z
<1>5. stack' \in Seq(FrameType) /\ StackOK(future, ctx.promise, stack')
  <2>1. CASE ctx.futures = {Top.f}
    <3>1. stack' = <<x, y, z>> \o Tail(stack)
      BY <1>1, <1>3, <1>4, <2>1, Triples
    <3> QED
      BY <1>3, <1>4, <3>1, ThreeStack
  <2>2. CASE ctx.futures # {Top.f}
    <3>1. stack' = <<z>> \o Tail(stack)
      BY <1>1, <1>3, <2>2, Pairs
    <3> QED
      BY <1>3, <3>1, StackCons
  <2> QED
    BY <2>1, <2>2
<1>6. ctx' \in CtxType /\ ctx'.promise = ctx.promise /\ ctx'.futures \subseteq ctx.futures
  BY <1>1, <1>2 DEF CtxType
<1> QED
  BY <1>1, <1>5, <1>6, CtxStep

\* _race_then_cb.
LEMMA RaceThenCbStep ==
    ASSUME BaseInv, RaceThenCb
    PROVE  BaseInv'
<1> DEFINE w == FrameP("return", None, Plain)
           x == FrameP("clean", None, Plain)
           y == FrameP("settle", ctx.promise, Plain)
           z == FrameP("return", None, Top.v)
<1>1. /\ stack # <<>> /\ Top.k = "race" /\ UNCHANGED <<promise, future, sched, pending, calls>>
      /\ ctx' = [ctx EXCEPT !.futures = @ \ {Top.f}, !.dispatching = TRUE]
      /\ stack' = (IF ctx.dispatching THEN <<w>>
                   ELSE (IF ctx.cancelled THEN <<>> ELSE <<x>>) \o <<y, z>>) \o Tail(stack)
  BY DEF RaceThenCb, At, Instead
<1>2. /\ ctx \in CtxType /\ Top.v \in Settled \cup Promises /\ ctx.promise \in Promises \cup {None}
      /\ ctx.promise # None /\ Top.k \in Callbacks
  BY <1>1, TopFacts, FrameFields DEF BaseInv, CtxOK, CtxType, Leaves, LeafOK, Callbacks
<1>3. /\ z \in FrameType /\ FrameOK(future, z) /\ z.k \notin Leaves
      /\ z.k \in Callbacks => Tail(stack) # <<>> /\ CallOK(future, z, Tail(stack)[1])
      /\ Tail(stack) \in Seq(FrameType) /\ Steady(Tail(stack))
      /\ StackOK(future, ctx.promise, Tail(stack))
  BY <1>1, <1>2, ReturnFrame
<1>3w. /\ w \in FrameType /\ FrameOK(future, w) /\ w.k \notin Leaves
       /\ w.k \in Callbacks => Tail(stack) # <<>> /\ CallOK(future, w, Tail(stack)[1])
  BY <1>1, <1>2, Constants, ReturnFrame
<1>4. /\ x \in FrameType /\ FrameOK(future, x) /\ x.k \notin Callbacks /\ x.k \notin Leaves
      /\ y \in FrameType /\ FrameOK(future, y) /\ y.k \notin Callbacks /\ y.k \notin Leaves
  BY <1>2, Constants, PlainFrame
<1> HIDE DEF w, x, y, z
<1>5. stack' \in Seq(FrameType) /\ StackOK(future, ctx.promise, stack')
  <2>1. CASE ctx.dispatching
    <3>1. stack' = <<w>> \o Tail(stack)
      BY <1>1, <2>1
    <3> QED
      BY <1>3, <1>3w, <3>1, StackCons
  <2>2. CASE ~ctx.dispatching /\ ctx.cancelled
    <3>1. stack' = <<y, z>> \o Tail(stack)
      BY <1>1, <1>3, <1>4, <2>2, Triples
    <3> QED
      BY <1>3, <1>4, <3>1, TwoStack
  <2>3. CASE ~ctx.dispatching /\ ~ctx.cancelled
    <3>1. stack' = <<x, y, z>> \o Tail(stack)
      BY <1>1, <1>3, <1>4, <2>3, Triples
    <3> QED
      BY <1>3, <1>4, <3>1, ThreeStack
  <2> QED
    BY <2>1, <2>2, <2>3
<1>6. ctx' \in CtxType /\ ctx'.promise = ctx.promise /\ ctx'.futures \subseteq ctx.futures
  <2>1. \A c \in CtxType : \A S \in SUBSET Futures :
          LET d == [c EXCEPT !.futures = S, !.dispatching = TRUE]
          IN  d \in CtxType /\ d.promise = c.promise /\ d.futures = S
    BY DEF CtxType
  <2>2. PICK S \in SUBSET Futures : S = ctx.futures \ {Top.f} /\ S \subseteq ctx.futures
    BY <1>2 DEF CtxType
  <2>3. ctx' = [ctx EXCEPT !.futures = S, !.dispatching = TRUE]
    BY <1>1, <2>2, Zenon
  <2> QED
    BY <1>2, <2>1, <2>2, <2>3
<1> QED
  BY <1>1, <1>5, <1>6, CtxStep

\* The end of _all_then_cb.
LEMMA AllFreeStep ==
    ASSUME BaseInv, AllFree
    PROVE  BaseInv'
<1> DEFINE x == FrameP("clean", None, Plain)
<1>1. /\ stack # <<>> /\ UNCHANGED <<promise, future, sched, pending, ctx, calls>>
      /\ stack' = (IF ctx.cancelled THEN <<>> ELSE <<x>>) \o Tail(stack)
  BY DEF AllFree, At, Instead
<1>2. x \in FrameType /\ FrameOK(future, x) /\ x.k \notin Callbacks /\ x.k \notin Leaves
  BY Constants, PlainFrame
<1>3. Good(future) /\ Grows(future, future) /\ calls \in 0..MaxCalls
  BY KeepsSame DEF BaseInv, Keeps
<1> HIDE DEF x
<1>4. stack' \in Seq(FrameType) /\ StackOK(future, ctx.promise, stack')
  BY <1>1, <1>2, <1>3, PopStep, OneStep
<1> QED
  BY <1>1, <1>3, <1>4, StackStep

\* _future_proxy.
LEMMA FutureProxyStep ==
    ASSUME BaseInv, FutureProxy
    PROVE  BaseInv'
<1> DEFINE y == FrameP("settle", future[Top.f].data, Top.v)
           z == FrameP("return", None, Top.v)
<1>1. /\ stack # <<>> /\ Top.k = "proxy" /\ UNCHANGED <<promise, future, sched, pending, ctx, calls>>
      /\ stack' = ((IF Top.v = Error THEN <<>> ELSE <<y>>) \o <<z>>) \o Tail(stack)
  BY DEF FutureProxy, At, Instead
<1>2. /\ Top.v \in Settled \cup Promises /\ Top.f \in Futures /\ Top.k \in Callbacks
      /\ future[Top.f].data # None /\ calls \in 0..MaxCalls /\ Good(future)
  BY <1>1, TopFacts, FrameFields DEF BaseInv, Leaves, LeafOK, Callbacks, FrameOK, OnFuture
<1>a. future[Top.f].data \in Promises \cup {None}
  BY <1>2, FutureFields DEF FutureType
<1>3. /\ z \in FrameType /\ FrameOK(future, z) /\ z.k \notin Leaves
      /\ z.k \in Callbacks => Tail(stack) # <<>> /\ CallOK(future, z, Tail(stack)[1])
      /\ Tail(stack) \in Seq(FrameType) /\ Steady(Tail(stack))
      /\ StackOK(future, ctx.promise, Tail(stack))
  BY <1>1, <1>2, ReturnFrame
<1>4. y \in FrameType /\ FrameOK(future, y) /\ y.k \notin Callbacks /\ y.k \notin Leaves
  BY <1>2, <1>a, PlainFrame
<1> HIDE DEF y, z
<1>5. stack' \in Seq(FrameType) /\ StackOK(future, ctx.promise, stack')
  <2>1. CASE Top.v # Error
    <3>1. stack' = <<y, z>> \o Tail(stack)
      BY <1>1, <1>3, <1>4, <2>1, Pairs
    <3> QED
      BY <1>3, <1>4, <3>1, TwoStack
  <2>2. CASE Top.v = Error
    <3>1. stack' = <<z>> \o Tail(stack)
      BY <1>1, <1>3, <2>2, Pairs
    <3> QED
      BY <1>3, <3>1, StackCons
  <2> QED
    BY <2>1, <2>2
<1> QED
  BY <1>1, <1>2, <1>5, StackStep

\* _eina_promise_clean_dispatch.
LEMMA CleanDispatchStep ==
    ASSUME BaseInv, CleanDispatch
    PROVE  BaseInv'
<1> DEFINE p == Top.p
           f == promise[p].future
           x == Frame("dispatch", f, Top.v)
           y == FrameP("free", p, Plain)
<1>1. /\ stack # <<>> /\ Top.k = "settle" /\ UNCHANGED <<sched, pending, ctx, calls>>
      /\ promise' = UnlinkP(promise, p) /\ future' = UnlinkF(future, f)
      /\ stack' = ((IF f = None THEN <<>> ELSE <<x>>) \o <<y>>) \o Tail(stack)
  BY DEF CleanDispatch, At, Instead
<1>2. /\ p \in Promises /\ p # None /\ Top.v \in Settled \cup Promises
      /\ ctx \in CtxType /\ calls \in 0..MaxCalls /\ Good(future)
  BY <1>1, TopFacts, FrameFields DEF FrameOK, OnPromise, BaseInv, CtxOK
<1>3. /\ Good(future') /\ Keeps(future, future') /\ f \in Futures \cup {None}
      /\ f # None => Reached(future, f)
  BY <1>1, <1>2, PromiseFuture
<1> HIDE DEF p, f
<1>4. Grows(future, future') /\ Holds(promise, future')
  BY <1>3, BodyKeeps
<1>5. Holds(promise', future')
  BY <1>1, <1>2, <1>4, UnlinkPHolds
<1>6. y \in FrameType /\ FrameOK(future', y) /\ y.k \notin Callbacks /\ y.k \notin Leaves
  BY <1>2, Constants, PlainFrame
<1>7. x \in FrameType /\ FrameOK(future', x) /\ x.k \notin Callbacks
  <2>1. f # None => Reached(future', f)
    BY <1>2, <1>3, <1>4, GrowsFacts
  <2>2. "dispatch" \in Loops
    BY DEF Loops
  <2> QED
    BY <1>2, <1>3, <2>1, <2>2, LoopFrame
<1>8. x.k \notin Leaves
  BY <1>7 DEF Callbacks
<1> HIDE DEF x, y
<1>9. stack' \in Seq(FrameType) /\ StackOK(future', ctx.promise, stack')
  <2>1. CASE f = None
    <3>1. stack' = <<y>> \o Tail(stack)
      BY <1>1, <1>6, <2>1, Pairs
    <3> QED
      BY <1>1, <1>3, <1>4, <1>6, <3>1, OneStep
  <2>2. CASE f # None
    <3>1. stack' = <<x, y>> \o Tail(stack)
      BY <1>1, <1>6, <1>7, <2>2, Pairs
    <3> QED
      BY <1>1, <1>3, <1>4, <1>6, <1>7, <1>8, <3>1, TwoStep
  <2> QED
    BY <2>1, <2>2
<1> QED
  BY <1>1, <1>2, <1>3, <1>5, <1>9, PromiseStep

\* What is left of a stack below its second frame.
LEMMA ThirdOn ==
    ASSUME NEW s \in Seq(FrameType), s # <<>>, Tail(s) # <<>>
    PROVE  s[2] = Tail(s)[1] /\ SubSeq(s, 3, Len(s)) = Tail(Tail(s))
<1> DEFINE r == Tail(s)
           t == Tail(r)
           u == SubSeq(s, 3, Len(s))
<1>1. r \in Seq(FrameType) /\ Len(r) = Len(s) - 1 /\ Len(s) \in Nat /\ Len(r) > 0
  OBVIOUS
<1>2. \A i \in 1..Len(r) : r[i] = s[i + 1]
  BY <1>1
<1>3. s[2] = r[1]
  BY <1>1, <1>2
<1>4. Len(t) = Len(r) - 1 /\ t \in Seq(FrameType) /\ \A i \in 1..Len(t) : t[i] = r[i + 1]
  BY <1>1
<1>5. \A i \in 3..Len(s) : s[i] \in FrameType
  BY <1>1
<1>6. /\ u \in Seq(FrameType)
      /\ Len(u) = (IF 3 <= Len(s) THEN Len(s) - 3 + 1 ELSE 0)
      /\ \A i \in 1..Len(s) - 3 + 1 : u[i] = s[3 + i - 1]
  BY <1>1, <1>5, SubSeqProperties
<1>7. Len(t) = Len(s) - 2 /\ Len(u) = Len(t)
  BY <1>1, <1>4, <1>6
<1> HIDE DEF r, t, u
<1>8. \A i \in 1..Len(u) : u[i] = t[i]
  <2> SUFFICES ASSUME NEW i \in 1..Len(u) PROVE u[i] = t[i]
    OBVIOUS
  <2>1. i \in 1..Len(s) - 3 + 1 /\ i \in 1..Len(t) /\ i + 1 \in 1..Len(r)
    BY <1>1, <1>6, <1>7
  <2>2. u[i] = s[3 + i - 1] /\ t[i] = r[i + 1] /\ r[i + 1] = s[(i + 1) + 1]
    BY <1>2, <1>4, <1>6, <2>1
  <2>3. 3 + i - 1 = (i + 1) + 1
    BY <2>1
  <2> QED
    BY <2>2, <2>3
<1>9. u = t
  BY <1>4, <1>6, <1>7, <1>8, SeqEqual
<1> QED
  BY <1>3, <1>9 DEF r, t, u

\* A callback returns r to the loop that called it.
LEMMA ReturnedStack ==
    ASSUME BaseInv, stack # <<>>, Top.k \in Callbacks, Top.k \notin Leaves,
           NEW r \in Settled \cup Promises, Returned(r),
           NEW gs, NEW cq, Good(gs), Grows(future, gs)
    PROVE  stack' \in Seq(FrameType) /\ StackOK(gs, cq, stack')
<1> DEFINE s == Tail(stack)
           y == s[1]
           x == ReturnTo(y, r)
           t == Tail(s)
<1>1. /\ s \in Seq(FrameType) /\ Steady(s) /\ StackOK(gs, cq, s)
      /\ s # <<>> /\ CallOK(gs, Top, y)
  BY TailFacts
<1>2. stack \in Seq(FrameType)
  BY DEF BaseInv
<1>3. stack[2] = y /\ SubSeq(stack, 3, Len(stack)) = t
  BY <1>1, <1>2, ThirdOn
<1>4. stack' = <<x>> \o t
  BY <1>3 DEF Returned
<1>5. t \in Seq(FrameType) /\ Steady(t) /\ StackOK(gs, cq, t) /\ y \in FrameType /\ FrameOK(gs, y)
  BY <1>1, StackTail
<1>6. y.k \in Loops /\ y.f # None /\ gs[y.f].called = 1
  BY <1>1 DEF CallOK
<1> HIDE DEF s, t, y
<1>7. x \in FrameType /\ x.k \in Ends /\ x.f = y.f /\ x.l = y.l
  <2>1. PICK k \in Ends : k = IF y.k = "dispatch" THEN "dispatched" ELSE "cancelled"
    BY DEF Ends
  <2>2. x = [y EXCEPT !.k = k, !.v = r]
    BY <2>1, Zenon DEF ReturnTo
  <2>3. \A a \in FrameType : \A b \in Ends :
          LET c == [a EXCEPT !.k = b, !.v = r]
          IN  c \in FrameType /\ c.k = b /\ c.f = a.f /\ c.l = a.l
    BY DEF FrameType, Ends, Kinds
  <2> HIDE DEF x
  <2>4. y \in FrameType /\ k \in Ends
    BY <1>5, <2>1
  <2> QED
    BY <2>2, <2>3, <2>4
<1> HIDE DEF x
<1>8. FrameOK(gs, x) /\ x.k \notin Callbacks /\ x.k \notin Leaves
  <2>1. /\ x.k \notin OnPromise /\ x.k \notin Loops /\ x.k \notin Callbacks /\ x.k \notin Leaves
        /\ y.f # None => Made(gs, y.f)
        /\ Queued(gs, y.l)
    BY <1>5, <1>7 DEF FrameOK, Ends, Callbacks, Leaves, OnPromise, Loops
  <2> QED
    BY <1>6, <1>7, <2>1 DEF FrameOK
<1> QED
  BY <1>4, <1>5, <1>7, <1>8, StackCons

\* A callback of the library returns.
LEMMA LibraryReturnStep ==
    ASSUME BaseInv, LibraryReturn
    PROVE  BaseInv'
<1>1. /\ stack # <<>> /\ Top.k = "return" /\ Returned(Top.v)
      /\ UNCHANGED <<promise, future, sched, pending, ctx, calls>>
  BY DEF LibraryReturn, At
<1>2. /\ Top.k \in Callbacks /\ Top.k \notin Leaves /\ Top.v \in Settled \cup Promises
      /\ Good(future) /\ Grows(future, future) /\ calls \in 0..MaxCalls
  BY <1>1, TopFacts, FrameFields, KeepsSame DEF Callbacks, Leaves, BaseInv, Keeps
<1>3. stack' \in Seq(FrameType) /\ StackOK(future, ctx.promise, stack')
  BY <1>1, <1>2, ReturnedStack
<1> QED
  BY <1>1, <1>2, <1>3, StackStep

\* __eina_promise_cancel_all takes the next pending future.
LEMMA CancelAllLoopStep ==
    ASSUME BaseInv, CancelAllLoop
    PROVE  BaseInv'
<1> DEFINE x == Frame("first", Head(pending), Error)
<1>1. /\ stack # <<>> /\ Top.k = "cancelall" /\ UNCHANGED <<promise, future, sched, pending, ctx>>
      /\ IF pending = <<>>
         THEN stack' = <<>> \o Tail(stack) /\ calls' = 0
         ELSE stack' = <<x, Top>> \o Tail(stack) /\ UNCHANGED calls
  BY DEF CancelAllLoop, At, Instead
<1>2. /\ Good(future) /\ Grows(future, future) /\ calls \in 0..MaxCalls
      /\ Top \in FrameType /\ FrameOK(future, Top) /\ pending \in Seq(Futures)
      /\ \A i \in DOMAIN pending : Made(future, pending[i])
  BY <1>1, TopFacts, KeepsSame DEF BaseInv, Keeps, Lists
<1>3. CASE pending = <<>>
  <2>1. stack' \in Seq(FrameType) /\ StackOK(future, ctx.promise, stack')
    BY <1>1, <1>2, <1>3, PopStep
  <2>2. calls' \in 0..MaxCalls
    BY <1>1, <1>3
  <2> QED
    BY <1>1, <2>1, <2>2, StackStep
<1>4. CASE pending # <<>>
  <2>1. Head(pending) \in Futures /\ Made(future, Head(pending))
    <3>1. Head(pending) = pending[1] /\ 1 \in DOMAIN pending
      BY <1>2, <1>4
    <3> QED
      BY <1>2, <3>1
  <2>2. x \in FrameType /\ FrameOK(future, x) /\ x.k \notin Callbacks /\ x.k \notin Leaves
    BY <2>1, FirstFrame DEF Callbacks
  <2>3. Top.k \notin Callbacks
    BY <1>1 DEF Callbacks, Leaves
  <2> HIDE DEF x
  <2>4. stack' \in Seq(FrameType) /\ StackOK(future, ctx.promise, stack')
    BY <1>1, <1>2, <1>4, <2>2, <2>3, TwoStep
  <2> QED
    BY <1>1, <1>2, <1>4, <2>4, StackStep
<1> QED
  BY <1>3, <1>4

-----------------------------------------------------------------------------
(* The calls of the user.                                                  *)

\* The user runs at top level or in a callback of its own.
LEMMA CallFacts ==
    ASSUME BaseInv, CanCall, Called
    PROVE  Steady(stack) /\ calls' \in 0..MaxCalls
<1>1. calls' \in 0..MaxCalls
  BY DEF BaseInv, CanCall, Called
<1>2. ASSUME stack # <<>> PROVE stack[1].k \notin Leaves
  BY <1>2, TopFacts DEF CanCall, Leaves
<1> QED
  BY <1>1, <1>2 DEF Steady

\* eina_future_cancel is called on a future that was made.
LEMMA PushFirst ==
    ASSUME BaseInv, Steady(stack), NEW f \in Futures, Made(future, f),
           stack' = <<Frame("first", f, Error)>> \o stack, calls' \in 0..MaxCalls,
           UNCHANGED <<promise, future, sched, pending, ctx>>
    PROVE  BaseInv'
<1> DEFINE x == Frame("first", f, Error)
<1>1. /\ x \in FrameType /\ FrameOK(future, x) /\ x.k \notin Callbacks
  BY FirstFrame
<1>2. x.k \notin Leaves
  BY <1>1 DEF Callbacks
<1> HIDE DEF x
<1>3. stack' = <<x>> \o stack
  BY DEF x
<1>4. stack \in Seq(FrameType) /\ StackOK(future, ctx.promise, stack)
  BY DEF BaseInv
<1>5. stack' \in Seq(FrameType) /\ StackOK(future, ctx.promise, stack')
  BY <1>1, <1>2, <1>3, <1>4, StackCons
<1> QED
  BY <1>5, StackStep

\* A call that runs no callback: what is new has to fit.
LEMMA CallStep ==
    ASSUME BaseInv, Steady(stack), UNCHANGED stack, calls' \in 0..MaxCalls,
           Good(future'), Grows(future, future'), NEW n \in 0..MaxFuture, Numbered(future', n),
           Holds(promise', future'), Lists(sched', pending', future'), CtxOK(ctx', future')
    PROVE  BaseInv'
<1>1. stack \in Seq(FrameType) /\ StackOK(future, ctx.promise, stack) /\ Good(future)
  BY DEF BaseInv
<1>2. StackOK(future', ctx'.promise, stack)
  BY <1>1, StackGrows
<1> QED
  BY <1>1, <1>2 DEF BaseInv

\* How many futures there are.
LEMMA RoomFacts ==
    ASSUME BaseInv
    PROVE  /\ \E n \in 0..MaxFuture : Numbered(future, n) /\ FreshFuture = n + 1
           /\ Good(future) /\ Holds(promise, future)
           /\ Lists(sched, pending, future) /\ CtxOK(ctx, future)
  BY FreshNumber DEF BaseInv

\* A new future without a callback on the promise p, and a callback of the
\* user chained behind it.
LEMMA ChainGood ==
    ASSUME NEW fs, Good(fs), NEW n \in 0..MaxFuture, Numbered(fs, n), (n + 1) + 1 \in Futures,
           NEW p \in Promises
    PROVE  LET gs == ThenNew(LinkF(NewFuture(fs, n + 1, "null", None), p, n + 1),
                             n + 1, (n + 1) + 1, "user", None)
           IN  /\ Good(gs) /\ Grows(fs, gs) /\ Numbered(gs, (n + 1) + 1) /\ Reached(gs, n + 1)
               /\ (n + 1) + 1 \in 0..MaxFuture /\ n + 1 \in Futures
               /\ \A cp : Ctxed(fs, cp) => Ctxed(gs, cp)
<1> DEFINE f == n + 1
<1>1. /\ f \in Futures /\ f \in 0..MaxFuture /\ f + 1 \in 0..MaxFuture /\ f + 1 \in Futures
      /\ "null" \in FutureKinds /\ "user" \in FutureKinds /\ None \in Promises \cup {None}
      /\ "null" # "proxy" /\ "user" # "proxy"
  BY DEF Futures, FutureKinds
<1> DEFINE as == NewFuture(fs, f, "null", None)
           bs == LinkF(as, p, f)
           gs == ThenNew(bs, f, f + 1, "user", None)
<1>2. /\ Good(as) /\ Grows(fs, as) /\ Numbered(as, f)
      /\ \A g \in Futures : g # f => as[g] = fs[g]
      /\ as[f] = Fresh("null", None)
  BY <1>1, NewFutureGood
<1>3. as[f].st = "live" /\ as[f].before = None /\ as[f].kind = "null" /\ Made(as, f)
  BY <1>1, <1>2, FreshFields DEF Made
<1> HIDE DEF as
<1>4. Good(bs) /\ Keeps(as, bs) /\ Grows(as, bs)
  BY <1>1, <1>2, <1>3, LinkFGood DEF Keeps
<1>5. \A g \in Futures : bs[g].st = as[g].st /\ bs[g].kind = as[g].kind /\ bs[g].before = as[g].before
  <2>1. as \in [Futures -> FutureType]
    BY <1>2 DEF Good
  <2>2. \A g \in Futures : bs[g] = IF g = f THEN [as[g] EXCEPT !.promise = p] ELSE as[g]
    BY <1>1, <2>1 DEF LinkF
  <2>3. \A x \in FutureType : LET y == [x EXCEPT !.promise = p]
                              IN  y.st = x.st /\ y.kind = x.kind /\ y.before = x.before
    BY DEF FutureType
  <2> QED
    BY <2>1, <2>2, <2>3
<1>6. Numbered(bs, f)
  BY <1>2, <1>4, KeepsNumbered
<1>7. Reached(bs, f) /\ bs[f].st = "live"
  BY <1>1, <1>3, <1>5 DEF Reached, Ready, Made
<1> HIDE DEF bs, f
<1>8. /\ Good(gs) /\ Grows(bs, gs) /\ Numbered(gs, f + 1)
      /\ \A g \in Futures : g # f + 1 => gs[g].kind = bs[g].kind
      /\ gs[f + 1].kind = "user"
  <2>1. PICK m \in Futures : m = f + 1
    BY <1>1
  <2>2. /\ Good(bs) /\ Numbered(bs, f) /\ bs[f].st = "live"
        /\ "user" = "proxy" => None # None
    BY <1>4, <1>6, <1>7
  <2>3. LET hs == ThenNew(bs, f, m, "user", None)
        IN  /\ Good(hs) /\ Grows(bs, hs) /\ Numbered(hs, m)
            /\ \A g \in Futures : g # m => hs[g].st = bs[g].st /\ hs[g].kind = bs[g].kind
            /\ hs[m].kind = "user"
    BY <1>1, <2>1, <2>2, ThenNewAt
  <2> QED
    BY <2>1, <2>3
<1> HIDE DEF gs
<1>9. Grows(fs, gs)
  BY <1>2, <1>4, <1>8, GrowsTrans
<1>10. Reached(gs, f)
  BY <1>1, <1>4, <1>7, <1>8, GrowsFacts
<1>11. \A cp : Ctxed(fs, cp) => Ctxed(gs, cp)
  <2> SUFFICES ASSUME NEW cp, Ctxed(fs, cp), NEW g \in Futures, gs[g].kind \in {"all", "race"}
               PROVE  cp # None
    BY DEF Ctxed
  <2>1. g # f + 1
    BY <1>8
  <2>2. gs[g].kind = as[g].kind
    BY <1>5, <1>8, <2>1
  <2>3. g # f
    BY <1>3, <2>2
  <2> QED
    BY <1>2, <2>2, <2>3 DEF Ctxed
<1> QED
  BY <1>1, <1>8, <1>9, <1>10, <1>11 DEF gs, bs, as, f

\* eina_future_new and a callback on the result.
LEMMA FutureNewStep ==
    ASSUME BaseInv, NEW p \in Promises, FutureNew(p)
    PROVE  BaseInv'
<1>1. Steady(stack) /\ calls' \in 0..MaxCalls
  BY CallFacts DEF FutureNew
<1>2. PICK n \in 0..MaxFuture : Numbered(future, n) /\ FreshFuture = n + 1
  BY RoomFacts
<1>3. Good(future) /\ Holds(promise, future) /\ Lists(sched, pending, future) /\ CtxOK(ctx, future)
  BY RoomFacts
<1>4. (n + 1) + 1 \in Futures
  BY <1>2 DEF FutureNew, RoomF, Futures
<1> DEFINE gs == ThenNew(LinkF(NewFuture(future, n + 1, "null", None), p, n + 1),
                         n + 1, (n + 1) + 1, "user", None)
<1>5. PICK ps : /\ ps = IF p = FreshPromise THEN NewPromise(promise, p, "user", TRUE) ELSE promise
                /\ promise' = LinkP(ps, p, n + 1)
  BY <1>2 DEF FutureNew
<1>6. future' = gs /\ UNCHANGED <<sched, pending, ctx, stack>>
  BY <1>2 DEF FutureNew
<1>7. /\ Good(gs) /\ Grows(future, gs) /\ Numbered(gs, (n + 1) + 1) /\ Reached(gs, n + 1)
      /\ (n + 1) + 1 \in 0..MaxFuture /\ n + 1 \in Futures
      /\ \A cp : Ctxed(future, cp) => Ctxed(gs, cp)
  BY <1>2, <1>3, <1>4, ChainGood
<1> HIDE DEF gs
<1>8. Holds(promise', gs)
  <2>1. Holds(promise, gs)
    BY <1>3, <1>7, HoldsGrows
  <2>2. Holds(ps, gs)
    BY <1>5, <2>1, NewPromiseHolds
  <2> QED
    BY <1>5, <1>7, <2>2, LinkPHolds
<1>9. Lists(sched, pending, gs) /\ CtxOK(ctx, gs)
  BY <1>3, <1>7, BodyGrows DEF CtxOK
<1> QED
  BY <1>1, <1>6, <1>7, <1>8, <1>9, CallStep

\* eina_future_new on a promise that has a future.
LEMMA FutureNewTwiceStep ==
    ASSUME BaseInv, NEW p \in Promises, FutureNewTwice(p)
    PROVE  BaseInv'
<1>1. Steady(stack) /\ calls' \in 0..MaxCalls
  BY CallFacts DEF FutureNewTwice
<1>2. PICK f \in Futures : f = promise[p].future /\ Made(future, f)
  BY PromiseFuture DEF FutureNewTwice
<1>3. /\ stack' = <<Frame("first", f, Error)>> \o stack
      /\ UNCHANGED <<promise, future, sched, pending, ctx>>
  BY <1>2 DEF FutureNewTwice
<1> QED
  BY <1>1, <1>2, <1>3, PushFirst

\* eina_future_cancel.
LEMMA CancelStep ==
    ASSUME BaseInv, NEW f \in Futures, Cancel(f)
    PROVE  BaseInv'
<1>1. Steady(stack) /\ calls' \in 0..MaxCalls
  BY CallFacts DEF Cancel
<1>2. /\ Made(future, f) /\ stack' = <<Frame("first", f, Error)>> \o stack
      /\ UNCHANGED <<promise, future, sched, pending, ctx>>
  BY DEF Cancel, Held, Made
<1> QED
  BY <1>1, <1>2, PushFirst

\* eina_future_then_from_desc.
LEMMA ThenStep ==
    ASSUME BaseInv, NEW f \in Futures, Then(f)
    PROVE  BaseInv'
<1>1. Steady(stack) /\ calls' \in 0..MaxCalls
  BY CallFacts DEF Then
<1>2. PICK n \in 0..MaxFuture : Numbered(future, n) /\ FreshFuture = n + 1
  BY RoomFacts
<1>3. Good(future) /\ Holds(promise, future) /\ Lists(sched, pending, future) /\ CtxOK(ctx, future)
  BY RoomFacts
<1>4. CASE future[f].next # None
  <2>1. PICK g \in Futures : g = future[f].next /\ Made(future, g)
    BY <1>3, <1>4, FutureFields DEF LinksOK
  <2>2. /\ stack' = <<Frame("first", g, Error)>> \o stack
        /\ UNCHANGED <<promise, future, sched, pending, ctx>>
    BY <1>4, <2>1 DEF Then
  <2> QED
    BY <1>1, <2>1, <2>2, PushFirst
<1>5. CASE future[f].next = None
  <2>1. /\ future' = ThenNew(future, f, n + 1, "user", None) /\ n + 1 \in Futures
        /\ UNCHANGED <<promise, sched, pending, ctx, stack>> /\ future[f].st = "live"
    BY <1>2, <1>5 DEF Then, RoomF, Held, Futures
  <2>2. "user" \in FutureKinds /\ None \in Promises \cup {None} /\ "user" # "proxy"
    BY DEF FutureKinds
  <2>3. /\ Good(future') /\ Grows(future, future') /\ Numbered(future', n + 1)
        /\ \A g \in Futures : g # n + 1 => future'[g].kind = future[g].kind
        /\ future'[n + 1].kind = "user"
    BY <1>2, <1>3, <2>1, <2>2, ThenNewGood
  <2>4. n + 1 \in 0..MaxFuture
    BY <2>1 DEF Futures
  <2>5. Ctxed(future', ctx.promise)
    <3> SUFFICES ASSUME NEW g \in Futures, future'[g].kind \in {"all", "race"}
                 PROVE  ctx.promise # None
      BY DEF Ctxed
    <3>1. g # n + 1
      BY <2>3
    <3>2. future'[g].kind = future[g].kind
      BY <2>3, <3>1
    <3> QED
      BY <1>3, <3>2 DEF Ctxed, CtxOK
  <2>6. Holds(promise, future') /\ Lists(sched, pending, future') /\ CtxOK(ctx, future')
    BY <1>3, <2>3, <2>5, BodyGrows DEF CtxOK
  <2> QED
    BY <1>1, <2>1, <2>3, <2>4, <2>6, CallStep
<1> QED
  BY <1>4, <1>5

\* What an append leaves in a list.
LEMMA AppendFacts ==
    ASSUME NEW T, NEW s \in Seq(T), NEW e \in T
    PROVE  /\ Append(s, e) \in Seq(T)
           /\ \A i \in DOMAIN Append(s, e) :
                Append(s, e)[i] = e \/ (i \in DOMAIN s /\ Append(s, e)[i] = s[i])
<1>1. Append(s, e) \in Seq(T) /\ Len(s) \in Nat /\ DOMAIN s = 1..Len(s)
  OBVIOUS
<1>2. DOMAIN Append(s, e) = 1..Len(s) + 1
  OBVIOUS
<1>3. \A i \in 1..Len(s) : Append(s, e)[i] = s[i]
  OBVIOUS
<1>4. Append(s, e)[Len(s) + 1] = e
  OBVIOUS
<1> QED
  BY <1>1, <1>2, <1>3, <1>4

\* Keeping the futures is transitive.
LEMMA KeepsTrans ==
    ASSUME NEW fs, NEW gs, NEW hs, Good(fs), Good(gs), Good(hs), Keeps(fs, gs), Keeps(gs, hs)
    PROVE  Keeps(fs, hs)
  BY GrowsTrans DEF Keeps

\* eina_promise_resolve and eina_promise_reject.
LEMMA ResolveStep ==
    ASSUME BaseInv, NEW p \in Promises, NEW v \in Settled, Resolve(p, v)
    PROVE  BaseInv'
<1>1. Steady(stack) /\ calls' \in 0..MaxCalls
  BY CallFacts DEF Resolve
<1>2. Good(future) /\ Holds(promise, future) /\ Lists(sched, pending, future) /\ CtxOK(ctx, future)
  BY RoomFacts
<1>3. UNCHANGED <<ctx, stack>>
  BY DEF Resolve
<1>4. /\ promise[p].future \in Futures \cup {None}
      /\ promise[p].future # None => Reached(future, promise[p].future)
      /\ Good(UnlinkF(future, promise[p].future))
      /\ Keeps(future, UnlinkF(future, promise[p].future))
  BY PromiseFuture
<1>5. CASE promise[p].future = None
  <2>1. promise' = FreeP(promise, p) /\ UNCHANGED <<future, sched, pending>>
    BY <1>5 DEF Resolve, Deliver
  <2>2. Holds(promise', future)
    BY <1>2, <2>1, FreePHolds
  <2>3. PICK n \in 0..MaxFuture : Numbered(future, n)
    BY RoomFacts
  <2>4. Grows(future, future)
    BY <1>2, KeepsSame DEF Keeps
  <2> QED
    BY <1>1, <1>2, <1>3, <2>1, <2>2, <2>3, <2>4, CallStep
<1>6. CASE promise[p].future # None
  <2>1. PICK f \in Futures : f = promise[p].future
    BY <1>4, <1>6
  <2> DEFINE e == [f |-> f, v |-> v]
             as == UnlinkF(future, f)
             gs == [as EXCEPT ![f].scheduled_entry = TRUE]
  <2>2. /\ promise' = FreeP(UnlinkP(promise, p), p) /\ future' = gs
        /\ sched' = [futures |-> Append(sched.futures, e), listener |-> TRUE]
        /\ pending' = Append(pending, f)
    BY <1>6, <2>1 DEF Resolve, Deliver, Schedule
  <2>3. Good(as) /\ Keeps(future, as) /\ Reached(future, f) /\ Made(future, f)
    BY <1>4, <1>6, <2>1 DEF Reached
  <2>4. Made(as, f)
    BY <2>3 DEF Keeps, Grows
  <2> HIDE DEF as
  <2>5. Good(gs) /\ Keeps(as, gs)
    BY <2>3, <2>4, EntryGood
  <2> HIDE DEF gs
  <2>6. Keeps(future, gs) /\ Grows(future, gs)
    BY <1>2, <2>3, <2>5, KeepsTrans DEF Keeps
  <2>7. /\ Holds(promise, gs) /\ Lists(sched, pending, gs) /\ CtxOK(ctx, gs)
        /\ \E n \in 0..MaxFuture : Numbered(gs, n)
    BY <2>5, <2>6, BodyKeeps
  <2>8. PICK n \in 0..MaxFuture : Numbered(gs, n)
    BY <2>7
  <2>9. Holds(promise', gs)
    BY <2>2, <2>7, UnlinkPHolds, FreePHolds
  <2>10. Reached(gs, f) /\ Made(gs, f)
    BY <1>2, <2>3, <2>5, <2>6, GrowsFacts
  <2>11. Lists(sched', pending', gs)
    <3>1. /\ sched.futures \in Seq(Entry) /\ Queued(gs, sched.futures) /\ pending \in Seq(Futures)
          /\ \A i \in DOMAIN pending : Made(gs, pending[i])
      BY <2>7 DEF Lists
    <3>2. e \in Entry /\ e.f = f
      BY DEF Entry
    <3> HIDE DEF e
    <3> DEFINE m == Append(sched.futures, e)
               q == Append(pending, f)
    <3>3. /\ m \in Seq(Entry)
          /\ \A i \in DOMAIN m : m[i] = e \/ (i \in DOMAIN sched.futures /\ m[i] = sched.futures[i])
      BY <3>1, <3>2, AppendFacts
    <3>4. /\ q \in Seq(Futures)
          /\ \A i \in DOMAIN q : q[i] = f \/ (i \in DOMAIN pending /\ q[i] = pending[i])
      BY <3>1, AppendFacts
    <3>5. sched' = [futures |-> m, listener |-> TRUE] /\ pending' = q
      BY <2>2
    <3> HIDE DEF m, q
    <3>6. Queued(gs, m)
      BY <2>10, <3>1, <3>2, <3>3 DEF Queued
    <3>7. \A i \in DOMAIN q : Made(gs, q[i])
      BY <2>10, <3>1, <3>4
    <3>8. sched' \in [futures: Seq(Entry), listener: BOOLEAN] /\ sched'.futures = m
      BY <3>3, <3>5
    <3> QED
      BY <3>4, <3>5, <3>6, <3>7, <3>8 DEF Lists
  <2> QED
    BY <1>1, <1>3, <2>2, <2>5, <2>6, <2>7, <2>8, <2>9, <2>11, CallStep
<1> QED
  BY <1>5, <1>6

\* eina_promise_resolve with the value of a promise.
LEMMA ResolveWithPromiseStep ==
    ASSUME BaseInv, NEW p \in Promises, ResolveWithPromise(p)
    PROVE  BaseInv'
<1>1. Steady(stack) /\ calls' \in 0..MaxCalls
  BY CallFacts DEF ResolveWithPromise
<1>2. Good(future) /\ Holds(promise, future) /\ Lists(sched, pending, future) /\ CtxOK(ctx, future)
  BY RoomFacts
<1>3. PICK q \in Promises : q = FreshPromise
  BY DEF ResolveWithPromise, RoomP
<1> DEFINE ps == NewPromise(promise, q, "user", TRUE)
<1>4. UNCHANGED <<sched, pending, ctx, stack>>
  BY DEF ResolveWithPromise
<1>5. Holds(ps, future)
  BY <1>2, NewPromiseHolds
<1>6. CASE promise[p].future = None
  <2>1. promise' = FreeP(FreeP(ps, q), p) /\ UNCHANGED future
    BY <1>3, <1>6 DEF ResolveWithPromise
  <2> HIDE DEF ps
  <2>2. Holds(promise', future)
    BY <1>5, <2>1, FreePHolds
  <2>3. PICK n \in 0..MaxFuture : Numbered(future, n)
    BY RoomFacts
  <2>4. Grows(future, future)
    BY <1>2, KeepsSame DEF Keeps
  <2> QED
    BY <1>1, <1>2, <1>4, <2>1, <2>2, <2>3, <2>4, CallStep
<1>7. CASE promise[p].future # None
  <2>1. PICK f \in Futures : f = promise[p].future
    BY <1>7, PromiseFuture
  <2> DEFINE as == UnlinkF(future, f)
             gs == LinkF(as, q, f)
  <2>2. promise' = FreeP(LinkP(UnlinkP(ps, p), q, f), p) /\ future' = gs
    BY <1>3, <1>7, <2>1 DEF ResolveWithPromise
  <2> HIDE DEF ps
  <2>3. Good(as) /\ Keeps(future, as) /\ Reached(future, f) /\ Made(future, f)
    BY <1>7, <2>1, PromiseFuture
  <2>4. Made(as, f)
    BY <2>3 DEF Keeps, Grows
  <2> HIDE DEF as
  <2>5. Good(gs) /\ Keeps(as, gs)
    BY <2>3, <2>4, LinkFGood
  <2> HIDE DEF gs
  <2>6. Keeps(future, gs) /\ Grows(future, gs)
    BY <1>2, <2>3, <2>5, KeepsTrans DEF Keeps
  <2>7. /\ Holds(promise, gs) /\ Lists(sched, pending, gs) /\ CtxOK(ctx, gs)
        /\ \E n \in 0..MaxFuture : Numbered(gs, n)
    BY <2>5, <2>6, BodyKeeps
  <2>8. PICK n \in 0..MaxFuture : Numbered(gs, n)
    BY <2>7
  <2>9. Reached(gs, f)
    BY <1>2, <2>3, <2>5, <2>6, GrowsFacts
  <2>10. Holds(promise', gs)
    <3>1. Holds(ps, gs)
      BY <1>2, <1>5, <2>5, <2>6, HoldsGrows
    <3>2. Holds(UnlinkP(ps, p), gs)
      BY <3>1, UnlinkPHolds
    <3>3. Holds(LinkP(UnlinkP(ps, p), q, f), gs)
      BY <2>9, <3>2, LinkPHolds
    <3> QED
      BY <2>2, <3>3, FreePHolds
  <2> QED
    BY <1>1, <1>4, <2>2, <2>5, <2>6, <2>7, <2>8, <2>10, CallStep
<1> QED
  BY <1>6, <1>7

\* The context of a new all or race.
NewCtx(kind, q, S) ==
    [NoCtx EXCEPT !.st = "live", !.kind = kind, !.promise = q, !.futures = S]

\* It is a context.
LEMMA ContextNew ==
    \A kind \in {"all", "race"}, q \in Promises, S \in SUBSET Futures :
      LET c == NewCtx(kind, q, S)
      IN  c \in CtxType /\ c.promise = q /\ c.futures = S
  BY DEF NewCtx, NoCtx, CtxType

\* eina_promise_all_array and eina_promise_race_array.
LEMMA GatherStep ==
    ASSUME BaseInv, NEW kind \in {"all", "race"}, NEW f \in Futures, NEW g \in Futures,
           Gather(kind, f, g)
    PROVE  BaseInv'
<1>1. Steady(stack) /\ calls' \in 0..MaxCalls
  BY CallFacts DEF Gather
<1>2. PICK n \in 0..MaxFuture : Numbered(future, n) /\ FreshFuture = n + 1
  BY RoomFacts
<1>3. Good(future) /\ Holds(promise, future) /\ Lists(sched, pending, future) /\ CtxOK(ctx, future)
  BY RoomFacts
<1>4. PICK q \in Promises : q = FreshPromise /\ q # None
  BY NumberFacts DEF Gather, RoomP
<1>5. PICK t : t = n + 1
  OBVIOUS
<1>6. PICK u : u = t + 1
  OBVIOUS
<1>7. /\ t \in Futures /\ u \in Futures /\ (u + 1) + 1 \in Futures /\ t \in 0..MaxFuture
      /\ u \in 0..MaxFuture /\ FreshFuture = t /\ FreshFuture + 1 = u /\ FreshFuture + 2 = u + 1
      /\ FreshFuture + 3 = (u + 1) + 1 /\ t <= (u + 1) + 1 /\ u <= (u + 1) + 1
  <2>1. FreshFuture + 4 - 1 \in Futures
    BY DEF Gather, RoomF
  <2> QED
    BY <1>2, <1>5, <1>6, <2>1 DEF Futures
<1> DEFINE as == ThenNew(future, f, t, kind, None)
           bs == ThenNew(as, g, u, kind, None)
           gs == ThenNew(LinkF(NewFuture(bs, u + 1, "null", None), q, u + 1),
                         u + 1, (u + 1) + 1, "user", None)
           c == NewCtx(kind, q, {t, u})
<1>8. /\ promise' = LinkP(NewPromise(promise, q, kind, TRUE), q, u + 1)
      /\ future' = gs /\ ctx' = c /\ UNCHANGED <<sched, pending, stack>>
  BY <1>4, <1>7 DEF Gather, NewCtx
<1>9. future[f].st = "live" /\ future[g].st = "live"
  BY DEF Gather, Held
<1>10. kind \in FutureKinds /\ None \in Promises \cup {None} /\ kind # "proxy"
  BY DEF FutureKinds
<1>11. /\ Good(as) /\ Grows(future, as) /\ Numbered(as, t)
       /\ \A h \in Futures : h # t => as[h].st = future[h].st /\ as[h].kind = future[h].kind
  <2>1. /\ Good(future) /\ Numbered(future, n) /\ t = n + 1 /\ t \in Futures
        /\ kind = "proxy" => None # None
        /\ future[f].st = "live"
    BY <1>2, <1>3, <1>5, <1>7, <1>9, <1>10
  <2> QED
    BY <1>10, <2>1, ThenNewAt
<1> HIDE DEF as
<1>12. as[g].st = "live"
  <2>1. Made(future, g)
    BY <1>9 DEF Made
  <2>2. g <= n /\ g \in Nat
    BY <1>2, <2>1, NumberFacts DEF Numbered
  <2>3. g # t
    BY <1>5, <2>2
  <2> QED
    BY <1>9, <1>11, <2>3
<1>13. Good(bs) /\ Grows(as, bs) /\ Numbered(bs, u)
  BY <1>6, <1>7, <1>10, <1>11, <1>12, ThenNewAt
<1> HIDE DEF bs
<1>14. /\ Good(gs) /\ Grows(bs, gs) /\ Numbered(gs, (u + 1) + 1) /\ Reached(gs, u + 1)
       /\ (u + 1) + 1 \in 0..MaxFuture /\ u + 1 \in Futures
  BY <1>7, <1>13, ChainGood
<1> HIDE DEF gs
<1>15. Grows(future, gs)
  BY <1>3, <1>11, <1>13, <1>14, GrowsTrans
<1>16. Holds(promise, gs) /\ Lists(sched, pending, gs)
  BY <1>14, <1>15, BodyGrows
<1>17. Holds(promise', gs)
  <2>1. kind \in {"user", "all", "race", "dummy"}
    OBVIOUS
  <2>2. Holds(NewPromise(promise, q, kind, TRUE), gs)
    BY <1>16, <2>1, NewPromiseHolds
  <2> QED
    BY <1>8, <1>14, <2>2, LinkPHolds
<1>18. CtxOK(c, gs)
  <2>1. {t, u} \in SUBSET Futures
    BY <1>7
  <2>2. c \in CtxType /\ c.promise = q /\ c.futures = {t, u}
    BY <2>1, ContextNew
  <2> HIDE DEF c
  <2>3. Made(gs, t) /\ Made(gs, u)
    BY <1>7, <1>14 DEF Numbered
  <2> QED
    BY <1>4, <2>2, <2>3 DEF CtxOK, Ctxed
<1> HIDE DEF c
<1> QED
  BY <1>1, <1>8, <1>14, <1>15, <1>16, <1>17, <1>18, CallStep

\* __eina_promise_cancel_all.
LEMMA CancelAllStep ==
    ASSUME BaseInv, CancelAll
    PROVE  BaseInv'
<1> DEFINE x == FrameP("cancelall", None, Plain)
<1>1. stack' = <<x>> /\ UNCHANGED <<promise, future, sched, pending, ctx, calls>>
  BY DEF CancelAll
<1>2. "cancelall" \in Kinds \ OnFuture /\ "cancelall" \notin OnPromise
  BY DEF Kinds, OnFuture, OnPromise, Leaves, Ends
<1>3. x \in FrameType /\ FrameOK(future, x) /\ x.k = "cancelall"
  BY <1>2, Constants, PromiseFrame
<1> HIDE DEF x
<1>4. x.k \notin Callbacks /\ x.k \notin Leaves
  BY <1>3 DEF Callbacks, Leaves
<1>5. << >> \in Seq(FrameType) /\ StackOK(future, ctx.promise, << >>) /\ Steady(<< >>)
  BY DEF StackOK, Steady
<1>6. <<x>> \o << >> \in Seq(FrameType) /\ StackOK(future, ctx.promise, <<x>> \o << >>)
  BY <1>3, <1>4, <1>5, StackCons
<1>7. stack' = <<x>> \o << >>
  BY <1>1, <1>3
<1> QED
  BY <1>1, <1>6, <1>7, CallsKept, StackStep

\* The value a callback of the user returns.
LEMMA UserReturns ==
    ASSUME BaseInv, At("user")
    PROVE  stack # <<>> /\ Top.k \in Callbacks /\ Top.k \notin Leaves /\ Top.v \in Settled \cup Promises
  BY TopFacts, FrameFields DEF At, Callbacks, Leaves

\* A callback of the user returns a plain value or an error.
LEMMA ReturnValueStep ==
    ASSUME BaseInv, NEW r \in Settled, ReturnValue(r)
    PROVE  BaseInv'
<1>1. At("user") /\ Returned(r) /\ UNCHANGED <<promise, future, sched, pending, ctx, calls>>
  BY DEF ReturnValue
<1>2. stack # <<>> /\ Top.k \in Callbacks /\ Top.k \notin Leaves
  BY <1>1, UserReturns
<1>3. Good(future) /\ Grows(future, future) /\ r \in Settled \cup Promises
  BY KeepsSame DEF BaseInv, Keeps
<1>4. stack' \in Seq(FrameType) /\ StackOK(future, ctx.promise, stack')
  BY <1>1, <1>2, <1>3, ReturnedStack
<1> QED
  BY <1>1, <1>4, CallsKept, StackStep

\* A callback of the user returns a promise.
LEMMA ReturnPromiseStep ==
    ASSUME BaseInv, NEW scheduler \in BOOLEAN, ReturnPromise(scheduler)
    PROVE  BaseInv'
<1>1. PICK q \in Promises : q = FreshPromise
  BY DEF ReturnPromise, RoomP
<1>2. /\ At("user") /\ Returned(q) /\ UNCHANGED <<future, sched, pending, ctx>>
      /\ promise' = NewPromise(promise, q, "user", scheduler)
  BY <1>1 DEF ReturnPromise
<1>3. calls' \in 0..MaxCalls
  BY CallsKept DEF ReturnPromise, Called
<1>4. stack # <<>> /\ Top.k \in Callbacks /\ Top.k \notin Leaves
  BY <1>2, UserReturns
<1>5. /\ Good(future) /\ Keeps(future, future) /\ Grows(future, future) /\ q \in Settled \cup Promises
      /\ Holds(promise, future) /\ ctx \in CtxType
  BY KeepsSame DEF BaseInv, Keeps, CtxOK
<1>6. stack' \in Seq(FrameType) /\ StackOK(future, ctx.promise, stack')
  BY <1>2, <1>4, <1>5, ReturnedStack
<1>7. Holds(promise', future)
  BY <1>2, <1>5, NewPromiseHolds
<1> QED
  BY <1>2, <1>3, <1>5, <1>6, <1>7, PromiseStep

\* A callback of the user returns eina_future_as_value.
LEMMA ReturnFutureStep ==
    ASSUME BaseInv, NEW f \in Futures, ReturnFuture(f)
    PROVE  BaseInv'
<1>1. PICK q \in Promises : q = FreshPromise
  BY DEF ReturnFuture, RoomP
<1>2. PICK n \in 0..MaxFuture : Numbered(future, n) /\ FreshFuture = n + 1
  BY RoomFacts
<1>3. Good(future) /\ Holds(promise, future) /\ Lists(sched, pending, future) /\ CtxOK(ctx, future)
  BY RoomFacts
<1>4. PICK t \in Futures : t = n + 1 /\ t \in 0..MaxFuture
  BY <1>2 DEF ReturnFuture, RoomF, Futures
<1>5. /\ At("user") /\ Returned(q) /\ UNCHANGED <<sched, pending, ctx>> /\ future[f].st = "live"
      /\ promise' = NewPromise(promise, q, "dummy", TRUE)
      /\ future' = ThenNew(future, f, t, "proxy", q)
  BY <1>1, <1>2, <1>4 DEF ReturnFuture, Held
<1>6. calls' \in 0..MaxCalls
  BY CallsKept DEF ReturnFuture, Called
<1>7. "proxy" \in FutureKinds /\ q \in Promises \cup {None} /\ q # None
  BY NumberFacts DEF FutureKinds
<1>8. /\ Good(future') /\ Grows(future, future') /\ Numbered(future', t)
      /\ \A g \in Futures : g # t => future'[g].st = future[g].st /\ future'[g].kind = future[g].kind
      /\ future'[t].kind = "proxy"
  BY <1>2, <1>3, <1>4, <1>5, <1>7, ThenNewAt
<1>9. Ctxed(future', ctx.promise)
  <2> SUFFICES ASSUME NEW g \in Futures, future'[g].kind \in {"all", "race"}
               PROVE  ctx.promise # None
    BY DEF Ctxed
  <2>1. g # t
    BY <1>8
  <2>2. future'[g].kind = future[g].kind
    BY <1>8, <2>1
  <2> QED
    BY <1>3, <2>2 DEF Ctxed, CtxOK
<1>10. Holds(promise, future') /\ Lists(sched, pending, future') /\ CtxOK(ctx, future')
  BY <1>3, <1>8, <1>9, BodyGrows DEF CtxOK
<1>11. Holds(promise', future')
  BY <1>5, <1>10, NewPromiseHolds
<1>12. stack # <<>> /\ Top.k \in Callbacks /\ Top.k \notin Leaves /\ q \in Settled \cup Promises
  BY <1>5, UserReturns
<1>13. stack' \in Seq(FrameType) /\ StackOK(future', ctx.promise, stack')
  BY <1>5, <1>8, <1>12, ReturnedStack
<1> QED
  BY <1>4, <1>5, <1>6, <1>8, <1>10, <1>11, <1>13 DEF BaseInv

-----------------------------------------------------------------------------
(* The theorems.                                                           *)

\* Nothing has been made yet.
LEMMA InitBase == Init => BaseInv
<1> SUFFICES ASSUME Init PROVE BaseInv
  OBVIOUS
<1>1. /\ future = [f \in Futures |-> NoFuture] /\ promise = [p \in Promises |-> NoPromise]
      /\ sched = [futures |-> <<>>, listener |-> FALSE] /\ pending = <<>> /\ ctx = NoCtx
      /\ stack = <<>> /\ calls = MaxCalls
  BY DEF Init
<1>2. NoFuture \in FutureType /\ NoPromise \in PromiseType /\ NoCtx \in CtxType
  BY DEF NoFuture, FutureType, NoPromise, PromiseType, NoCtx, CtxType
<1>3. future \in [Futures -> FutureType] /\ \A f \in Futures : future[f] = NoFuture
  BY <1>1, <1>2
<1>4. \A f \in Futures : ~Made(future, f) /\ LifeOK(future[f]) /\ LinksOK(future, f)
  BY <1>3 DEF Made, LifeOK, LinksOK, Ready, NoFuture, None
<1>5. Good(future)
  BY <1>3, <1>4 DEF Good
<1>6. 0 \in 0..MaxFuture /\ Numbered(future, 0)
  BY <1>4 DEF Numbered, Futures
<1>7. Holds(promise, future)
  BY <1>1, <1>2 DEF Holds, Pointed, NoPromise
<1>8. Lists(sched, pending, future)
  BY <1>1 DEF Lists, Queued
<1>9. CtxOK(ctx, future)
  <2>1. Ctxed(future, ctx.promise)
    BY <1>3 DEF Ctxed, NoFuture
  <2>2. ctx.futures = {}
    BY <1>1 DEF NoCtx
  <2> QED
    BY <1>1, <1>2, <2>1, <2>2 DEF CtxOK
<1>10. stack \in Seq(FrameType) /\ StackOK(future, ctx.promise, stack)
  BY <1>1 DEF StackOK
<1>11. calls \in 0..MaxCalls
  BY <1>1
<1> QED
  BY <1>5, <1>6, <1>7, <1>8, <1>9, <1>10, <1>11 DEF BaseInv

\* Every step keeps the invariant.
LEMMA NextBase == BaseInv /\ [Next]_vars => BaseInv'
<1> SUFFICES ASSUME BaseInv, [Next]_vars PROVE BaseInv'
  OBVIOUS
<1>1. CASE UNCHANGED vars
  BY <1>1 DEF vars, BaseInv
<1>2. CASE UserCall
  <2>1. ASSUME NEW p \in Promises, FutureNew(p) PROVE BaseInv'
    BY <2>1, FutureNewStep
  <2>2. ASSUME NEW p \in Promises, FutureNewTwice(p) PROVE BaseInv'
    BY <2>2, FutureNewTwiceStep
  <2>3. ASSUME NEW p \in Promises, NEW v \in {Plain, Error}, Resolve(p, v) PROVE BaseInv'
    BY <2>3, ResolveStep DEF Settled
  <2>4. ASSUME NEW p \in Promises, ResolveWithPromise(p) PROVE BaseInv'
    BY <2>4, ResolveWithPromiseStep
  <2>5. ASSUME NEW f \in Futures, Then(f) PROVE BaseInv'
    BY <2>5, ThenStep
  <2>6. ASSUME NEW f \in Futures, Cancel(f) PROVE BaseInv'
    BY <2>6, CancelStep
  <2>7. ASSUME NEW f \in Futures, NEW g \in Futures, AllArray(f, g) PROVE BaseInv'
    <3>1. Gather("all", f, g) /\ "all" \in {"all", "race"}
      BY <2>7 DEF AllArray
    <3> QED
      BY <3>1, GatherStep
  <2>8. ASSUME NEW f \in Futures, NEW g \in Futures, RaceArray(f, g) PROVE BaseInv'
    <3>1. Gather("race", f, g) /\ "race" \in {"all", "race"}
      BY <2>8 DEF RaceArray
    <3> QED
      BY <3>1, GatherStep
  <2>9. CASE CancelAll
    BY <2>9, CancelAllStep
  <2> QED
    BY <1>2, <2>1, <2>2, <2>3, <2>4, <2>5, <2>6, <2>7, <2>8, <2>9 DEF UserCall
<1>3. CASE UserReturn
  <2>1. ASSUME NEW r \in {Plain, Error}, ReturnValue(r) PROVE BaseInv'
    BY <2>1, ReturnValueStep DEF Settled
  <2>2. ASSUME NEW scheduler \in BOOLEAN, ReturnPromise(scheduler) PROVE BaseInv'
    BY <2>2, ReturnPromiseStep
  <2>3. ASSUME NEW f \in Futures, ReturnFuture(f) PROVE BaseInv'
    BY <2>3, ReturnFutureStep
  <2> QED
    BY <1>3, <2>1, <2>2, <2>3 DEF UserReturn
<1>4. CASE Library
  BY <1>4, FuturesDispatchStep, ScheduledEntryCbStep, DispatchStep, DispatchedStep,
     CancelFirstStep, CancelLoopStep, CancelledStep, PromiseCancelStep, PromiseFreeStep,
     CtxCleanStep, AllThenCbStep, AllFreeStep, RaceThenCbStep, FutureProxyStep,
     CleanDispatchStep, LibraryReturnStep, CancelAllLoopStep DEF Library
<1> QED
  BY <1>1, <1>2, <1>3, <1>4 DEF Next

\* The inductive invariant: what the library will still follow leads to
\* futures that were made and whose turn has come.
THEOREM BaseInvariant == Spec => []BaseInv
  BY InitBase, NextBase, PTL DEF Spec

\* Every future, promise, context, list and frame is of its type, and what
\* dereferences a future or a promise (_eina_future_cancel, a callback,
\* _eina_promise_cancel) has one.
THEOREM Typed == Spec => []TypeOK
<1>1. BaseInv => TypeOK
  <2> SUFFICES ASSUME BaseInv PROVE TypeOK
    OBVIOUS
  <2>1. promise \in [Promises -> PromiseType] /\ future \in [Futures -> FutureType]
    BY DEF BaseInv, Holds, Good
  <2>2. sched.listener \in BOOLEAN /\ Entries(sched.futures) \subseteq Futures
    <3>1. sched \in [futures: Seq(Entry), listener: BOOLEAN]
      BY DEF BaseInv, Lists
    <3>2. \A i \in DOMAIN sched.futures : sched.futures[i] \in Entry
      BY <3>1
    <3>3. \A e \in Entry : e.f \in Futures
      BY DEF Entry
    <3> QED
      BY <3>1, <3>2, <3>3 DEF Entries
  <2>3. {pending[i] : i \in DOMAIN pending} \subseteq Futures
    BY DEF BaseInv, Lists
  <2>4. ctx.promise \in Promises \cup {None} /\ ctx.futures \subseteq Futures
    BY DEF BaseInv, CtxOK, CtxType
  <2>5. ASSUME NEW i \in DOMAIN stack
        PROVE  /\ stack[i].f \in Futures \cup {None} /\ stack[i].p \in Promises \cup {None}
               /\ stack[i].k \in {"first", "user", "all", "race", "proxy", "dispatched",
                                  "cancelled"} => stack[i].f # None
               /\ stack[i].k \in {"pcancel", "free", "settle"} => stack[i].p # None
    <3>1. stack[i] \in FrameType /\ FrameOK(future, stack[i])
      BY DEF BaseInv, StackOK
    <3> QED
      BY <3>1, FrameFields DEF FrameOK, OnFuture, OnPromise, Leaves, Ends
  <2> QED
    BY <2>1, <2>2, <2>3, <2>4, <2>5, CallsKept DEF TypeOK
<1> QED
  BY <1>1, BaseInvariant, PTL

\* The callback of a future is called at most once, whichever of
\* eina_promise_resolve, eina_future_cancel, the scheduler and the shutdown
\* reaches it, and it was called by the time the future is freed.
THEOREM CalledOnce == Spec => []CallbackOnce
<1>1. BaseInv => CallbackOnce
  BY DEF BaseInv, Good, LifeOK, CallbackOnce
<1> QED
  BY <1>1, BaseInvariant, PTL

\* _eina_future_dispatch and _eina_future_cancel call no callback before the
\* one of the future it was chained to.
THEOREM CalledInOrder == Spec => []ChainOrder
<1>1. BaseInv => ChainOrder
  BY DEF BaseInv, Good, LinksOK, Ready, ChainOrder
<1> QED
  BY <1>1, BaseInvariant, PTL
============================================================================
