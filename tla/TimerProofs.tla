---------------------------- MODULE TimerProofs ----------------------------
(***************************************************************************)
(* Proofs about Timer for any number of timers, intervals, calls and       *)
(* iterations of the main loop within each other.                          *)
(*                                                                         *)
(* The argument: what a callback does to the lists moves one timer and     *)
(* leaves the others in their order.  A walk has called only timers that   *)
(* it will not meet again: they were set anew (just_added), left the list, *)
(* or stand before timer_current.  An iteration within a callback takes    *)
(* timer_current away from the walk around it, which then ends.            *)
(***************************************************************************)
EXTENDS Timer, FiniteSetTheorems, SequenceTheorems, WellFoundedInduction, TLAPS

\* Each timer is in s at most once; t stands before u in s.
Once(s) == \A i, j \in DOMAIN s : s[i] = s[j] => i = j
Before(s, t, u) == \E i, j \in DOMAIN s : i < j /\ s[i] = t /\ s[j] = u
Sorted(ts, s) == \A t, u \in Timers : Before(s, t, u) => ts[t].at <= ts[u].at

\* The lists and timer_current fit each other.
Fitting(d) ==
    /\ d \in LoopType
    /\ Once(d.timers) /\ Once(d.suspended)
    /\ Members(d.timers) \cap Members(d.suspended) = {}
    /\ d.timer_current # None => d.timer_current \in Members(d.timers)

Lists ==
    /\ Fitting(pd) /\ Sorted(tm, pd.timers)
    /\ \A t \in Timers :
        /\ t \in Members(pd.timers) <=> tm[t].st = "live" /\ ~tm[t].frozen
        /\ t \in Members(pd.suspended) <=> tm[t].st = "live" /\ tm[t].frozen

\* A timer that is not frozen has a time to expire at, also when it is thawed;
\* timers are created one after the other.
Times ==
    /\ pd.loop_time > 0 /\ pd.loop_time <= now
    /\ \A t \in Timers :
        /\ tm[t].st = "live" /\ ~tm[t].frozen => tm[t].at > 0
        /\ tm[t].st = "live" /\ tm[t].frozen => tm[t].pending + now > 0
        /\ tm[t].st # "none" <=> t < Fresh

\* Which frame may be on which: a callback on the walk that calls it, a walk on
\* its iteration, an iteration on a callback or on idle enterers.
Follows(f, g) ==
    \/ f.k = "tick" /\ g.k = "walk" /\ g.pc = "called" /\ g.t = f.t /\ f.t \notin g.done
    \/ f.k = "walk" /\ g.k = "iterate" /\ g.pc = "idle"
    \/ f.k = "iterate" /\ (g.k = "tick" \/ (g.k = "iterate" /\ g.pc = "idle"))

FrameOK(f) ==
    /\ f.k = "tick" => /\ f.t # None /\ f.pc \in {"run", "stale"}
                       /\ "deleted" \notin Uses => f.pc = "run"
    /\ f.k = "walk" => /\ f.pc \in {"start", "loop", "called"}
                       /\ f.pc = "called" => f.t # None
                       /\ f.pc = "start" => f.done = {}
    /\ f.k = "iterate" => f.pc \in {"idle", "select"}

Nested(s) ==
    /\ s \in Seq(FrameType)
    /\ \A i \in DOMAIN s : FrameOK(s[i])
    /\ \A i \in DOMAIN s : i < Len(s) => Follows(s[i], s[i + 1])
    /\ s # <<>> => s[Len(s)].k = "iterate"

\* A timer's callbacks on the stack; all but the outermost know that they are nested.
TickOf(s, i, t) == i \in DOMAIN s /\ s[i].k = "tick" /\ s[i].t = t

OnStack(s, t) == \E i \in DOMAIN s : TickOf(s, i, t)
Knowing(s, t) ==
    \A i \in DOMAIN s : TickOf(s, i, t) =>
      (s[i].inside_call <=> \E j \in DOMAIN s : j > i /\ TickOf(s, j, t))

TicksOf(ts, s, t) ==
    /\ ts[t].inside_call <=> OnStack(s, t)
    /\ ts[t].inside_call => ts[t].st = "live"
    /\ ts[t].delete_me => ts[t].inside_call
    /\ Knowing(s, t)

Ticks == \A t \in Timers : TicksOf(tm, stack, t)

\* The timers that the frames deal with have been created.
Created(ts, s) == \A i \in DOMAIN s : s[i].t # None => ts[s[i].t].st # "none"

\* A walk that goes on from timer_current does not meet t.
Past(d, t) ==
    \/ d.timer_current = None
    \/ t \notin Members(d.timers)
    \/ Before(d.timers, t, d.timer_current)

Behind(ts, d, t) == ts[t].just_added \/ Past(d, t)

\* The walk that goes on from timer_current: the one on top, or the one whose
\* callback is on top.
Starting(s) == s # <<>> /\ s[1].k = "walk" /\ s[1].pc = "start"
Walking(s) == s # <<>> /\ (s[1].k = "tick" \/ (s[1].k = "walk" /\ s[1].pc # "start"))
Walk(s) == IF s[1].k = "tick" THEN s[2] ELSE s[1]

Walks(ts, d, s) ==
    /\ Walking(s) \/ Starting(s) \/ d.timer_current = None
    /\ Walking(s) => \A t \in Walk(s).done : Behind(ts, d, t)
    /\ Walking(s) /\ Walk(s).pc = "called" =>
         Walk(s).t = d.timer_current \/ Behind(ts, d, Walk(s).t)

\* A timer deleted within its callback is not met either.
Deleted(ts, d, s, t) ==
    "deleted" \notin Uses /\ ts[t].delete_me =>
      /\ ~Starting(s)
      /\ Behind(ts, d, t) \/ (Walking(s) /\ Walk(s).pc = "called" /\ Walk(s).t = t)

TimerInv ==
    /\ TypeOK /\ Lists /\ Times /\ Nested(stack) /\ Ticks /\ Created(tm, stack)
    /\ Walks(tm, pd, stack) /\ \A t \in Timers : Deleted(tm, pd, stack, t)

-----------------------------------------------------------------------------
(* Lists *)

\* The elements of a list and their order.
LEMMA SeqFacts ==
    ASSUME NEW T, NEW s \in Seq(T)
    PROVE  /\ Len(s) \in Nat /\ DOMAIN s = 1..Len(s)
           /\ \A i \in 1..Len(s) : s[i] \in T
           /\ Members(s) \subseteq T
           /\ \A a, b : Before(s, a, b) => a \in Members(s) /\ b \in Members(s)
           /\ Once(s) => \A a : ~Before(s, a, a)
           /\ Once(s) => \A a, b, c : Before(s, a, b) /\ Before(s, b, c) => Before(s, a, c)
<1>1. Len(s) \in Nat /\ DOMAIN s = 1..Len(s) /\ \A i \in 1..Len(s) : s[i] \in T
  OBVIOUS
<1>2. Members(s) \subseteq T /\ \A a, b : Before(s, a, b) => a \in Members(s) /\ b \in Members(s)
  BY <1>1 DEF Members, Before
<1>3. ASSUME Once(s), NEW a, Before(s, a, a) PROVE FALSE
  BY <1>1, <1>3 DEF Once, Before
<1>4. ASSUME Once(s), NEW a, NEW b, NEW c, Before(s, a, b), Before(s, b, c) PROVE Before(s, a, c)
  <2>1. PICK i \in DOMAIN s, j \in DOMAIN s : i < j /\ s[i] = a /\ s[j] = b
    BY <1>4 DEF Before
  <2>2. PICK k \in DOMAIN s, l \in DOMAIN s : k < l /\ s[k] = b /\ s[l] = c
    BY <1>4 DEF Before
  <2>3. j = k
    BY <1>4, <2>1, <2>2 DEF Once
  <2>4. i < l
    BY <1>1, <2>1, <2>2, <2>3
  <2> QED
    BY <2>1, <2>2, <2>4 DEF Before
<1> QED
  BY <1>1, <1>2, <1>3, <1>4

\* eina_inlist_remove leaves the others in their order.
LEMMA WithoutList ==
    ASSUME NEW T, NEW s \in Seq(T), Once(s), NEW t
    PROVE  /\ Without(s, t) \in Seq(T) /\ Once(Without(s, t))
           /\ Members(Without(s, t)) = Members(s) \ {t}
           /\ \A a, b : Before(Without(s, t), a, b) <=> Before(s, a, b) /\ a # t /\ b # t
<1>1. Len(s) \in Nat /\ DOMAIN s = 1..Len(s) /\ \A i \in 1..Len(s) : s[i] \in T
  BY SeqFacts
<1>2. CASE t \in Members(s)
  <2> DEFINE m == CHOOSE j \in DOMAIN s : s[j] = t
             r == [j \in 1..Len(s) - 1 |-> IF j < m THEN s[j] ELSE s[j + 1]]
             up(j) == IF j < m THEN j ELSE j + 1
  <2>1. m \in 1..Len(s) /\ s[m] = t
    BY <1>1, <1>2 DEF Members
  <2>2. Without(s, t) = r
    BY <1>2 DEF Without
  <2> HIDE DEF m
  <2>3. \A j \in 1..Len(s) - 1 : /\ r[j] = s[up(j)] /\ up(j) \in 1..Len(s) /\ up(j) # m
                                 /\ r[j] \in T
    BY <1>1, <2>1
  <2>4. r \in Seq(T) /\ DOMAIN r = 1..Len(s) - 1
    <3>1. r \in [1..Len(s) - 1 -> T] /\ Len(s) - 1 \in Nat
      BY <1>1, <2>1, <2>3
    <3> QED
      BY <3>1
  <2>5. \A i, j \in 1..Len(s) - 1 : (up(i) = up(j) <=> i = j) /\ (up(i) < up(j) <=> i < j)
    BY <1>1, <2>1
  <2>6. \A i \in 1..Len(s) : i # m => \E j \in 1..Len(s) - 1 : up(j) = i
    <3> SUFFICES ASSUME NEW i \in 1..Len(s), i # m PROVE \E j \in 1..Len(s) - 1 : up(j) = i
      OBVIOUS
    <3>1. CASE i < m
      <4>1. i \in 1..Len(s) - 1 /\ up(i) = i
        BY <1>1, <2>1, <3>1
      <4> QED
        BY <4>1
    <3>2. CASE i > m
      <4>1. i - 1 \in 1..Len(s) - 1 /\ up(i - 1) = i
        BY <1>1, <2>1, <3>2
      <4> QED
        BY <4>1
    <3> QED
      BY <1>1, <2>1, <3>1, <3>2
  <2> HIDE DEF r, up
  <2>7. \A i \in 1..Len(s) : s[i] = t <=> i = m
    BY <1>1, <2>1 DEF Once
  <2>8. Once(r)
    BY <1>1, <2>3, <2>4, <2>5 DEF Once
  <2>9. Members(r) = Members(s) \ {t}
    <3>1. \A x \in Members(r) : x \in Members(s) \ {t}
      BY <1>1, <2>3, <2>4, <2>7 DEF Members
    <3>2. ASSUME NEW x \in Members(s) \ {t} PROVE x \in Members(r)
      <4>1. PICK i \in 1..Len(s) : s[i] = x
        BY <1>1 DEF Members
      <4>2. PICK j \in 1..Len(s) - 1 : up(j) = i
        BY <2>1, <2>6, <4>1
      <4>3. j \in DOMAIN r /\ r[j] = x
        BY <2>3, <2>4, <4>1, <4>2
      <4> QED
        BY <4>3 DEF Members
    <3> QED
      BY <3>1, <3>2
  <2>10. ASSUME NEW a, NEW b, Before(r, a, b) PROVE Before(s, a, b) /\ a # t /\ b # t
    <3>1. PICK i \in DOMAIN r, j \in DOMAIN r : i < j /\ r[i] = a /\ r[j] = b
      BY <2>10 DEF Before
    <3>2. up(i) \in DOMAIN s /\ up(j) \in DOMAIN s /\ up(i) < up(j) /\ s[up(i)] = a /\ s[up(j)] = b
      BY <1>1, <2>3, <2>4, <2>5, <3>1
    <3>3. a # t /\ b # t
      BY <2>3, <2>4, <2>7, <3>1
    <3> QED
      BY <3>2, <3>3 DEF Before
  <2>11. ASSUME NEW a, NEW b, Before(s, a, b), a # t, b # t PROVE Before(r, a, b)
    <3>1. PICK i \in DOMAIN s, j \in DOMAIN s : i < j /\ s[i] = a /\ s[j] = b
      BY <2>11 DEF Before
    <3>2. i # m /\ j # m
      BY <2>1, <2>11, <3>1
    <3>3. PICK k \in 1..Len(s) - 1, l \in 1..Len(s) - 1 : up(k) = i /\ up(l) = j
      BY <1>1, <2>6, <3>2
    <3>4. k < l /\ r[k] = a /\ r[l] = b
      BY <2>3, <2>5, <3>1, <3>3
    <3> QED
      BY <2>4, <3>3, <3>4 DEF Before
  <2> QED
    BY <2>2, <2>4, <2>8, <2>9, <2>10, <2>11
<1>3. CASE t \notin Members(s)
  <2>1. Without(s, t) = s /\ Members(s) \ {t} = Members(s)
    BY <1>3 DEF Without
  <2>2. \A a, b : Before(s, a, b) => a # t /\ b # t
    BY <1>3, SeqFacts
  <2> QED
    BY <2>1, <2>2
<1> QED
  BY <1>2, <1>3

\* A set of numbers up to n has a greatest element and a least one.
LEMMA Extremes ==
    ASSUME NEW n \in Nat, NEW K \in SUBSET (0..n), K # {}
    PROVE  /\ \E i \in K : \A j \in K : i <= j
           /\ \E i \in K : \A j \in K : j <= i
<1> DEFINE R == OpToRel(<, Nat)
<1>1. IsWellFoundedOn(R, Nat)
  BY NatLessThanWellFounded
<1>2. \A a, b \in Nat : a < b => <<a, b>> \in R
  BY DEF OpToRel
<1> HIDE DEF R
<1>3. PICK i \in K : \A j \in K : ~(<<j, i>> \in R)
  <2>1. K \subseteq Nat
    OBVIOUS
  <2> QED
    BY <1>1, <2>1, WFMin
<1>4. \A j \in K : i <= j
  <2>1. \A j \in K : j \in Nat
    OBVIOUS
  <2>2. \A j \in K : ~(j < i)
    BY <1>2, <1>3, <2>1
  <2> QED
    BY <2>1, <2>2
<1> DEFINE M == {n - j : j \in K}
<1>5. M \subseteq Nat /\ M # {}
  OBVIOUS
<1>6. \A j \in K : n - j \in M /\ n - j \in Nat
  OBVIOUS
<1>7. \A x \in M : \E j \in K : x = n - j
  OBVIOUS
<1> HIDE DEF M
<1>8. PICK x \in M : \A y \in M : ~(<<y, x>> \in R)
  BY <1>1, <1>5, WFMin
<1>9. PICK k \in K : x = n - k
  BY <1>7
<1>10. \A j \in K : ~(n - j < n - k)
  BY <1>2, <1>6, <1>8, <1>9
<1>11. \A j \in K : j <= k
  BY <1>10
<1> QED
  BY <1>4, <1>11


\* A timer goes to its place in a sorted list, which stays sorted.
LEMMA InsertList ==
    ASSUME NEW ts \in [Timers -> TimerType], NEW s \in Seq(Timers), Once(s), Sorted(ts, s),
           NEW t \in Timers, t \notin Members(s)
    PROVE  /\ Insert(ts, s, t) \in Seq(Timers) /\ Once(Insert(ts, s, t))
           /\ Members(Insert(ts, s, t)) = Members(s) \cup {t}
           /\ \A a, b : a # t /\ b # t => (Before(Insert(ts, s, t), a, b) <=> Before(s, a, b))
           /\ Sorted(ts, Insert(ts, s, t))
<1>1. Len(s) \in Nat /\ DOMAIN s = 1..Len(s) /\ \A i \in 1..Len(s) : s[i] \in Timers
  BY SeqFacts
<1>2. \A u \in Timers : ts[u].at \in Int
  BY DEF TimerType
<1> DEFINE P(i) == /\ i > 0 => ts[t].at > ts[s[i]].at
                   /\ \A j \in i + 1..Len(s) : ts[t].at <= ts[s[j]].at
           k == CHOOSE i \in 0..Len(s) : P(i)
<1>3. \E i \in 0..Len(s) : P(i)
  <2> DEFINE K == {i \in 0..Len(s) : i > 0 => ts[t].at > ts[s[i]].at}
  <2>1. K \in SUBSET (0..Len(s)) /\ 0 \in K
    BY <1>1
  <2>2. PICK i \in K : \A j \in K : j <= i
    BY <1>1, <2>1, Extremes
  <2>3. ASSUME NEW j \in i + 1..Len(s) PROVE ts[t].at <= ts[s[j]].at
    <3>1. j \in 1..Len(s) /\ ~(j <= i)
      BY <1>1, <2>2
    <3>2. j \notin K
      BY <2>2, <3>1
    <3>3. ~(ts[t].at > ts[s[j]].at)
      BY <3>1, <3>2
    <3> QED
      BY <1>1, <1>2, <3>1, <3>3
  <2> QED
    BY <2>2, <2>3
<1>4. k \in 0..Len(s) /\ P(k)
  BY <1>3
<1> HIDE DEF k
<1> DEFINE r == SubSeq(s, 1, k) \o <<t>> \o SubSeq(s, k + 1, Len(s))
<1>5. Insert(ts, s, t) = r
  BY DEF Insert, k
<1>6. /\ r \in Seq(Timers) /\ Len(r) = Len(s) + 1
      /\ \A i \in 1..Len(s) + 1 :
           r[i] = IF i <= k THEN s[i] ELSE IF i = k + 1 THEN t ELSE s[i - 1]
  <2> DEFINE x == SubSeq(s, 1, k)
             y == SubSeq(s, k + 1, Len(s))
  <2>1. x \in Seq(Timers) /\ Len(x) = k /\ \A i \in 1..k : x[i] = s[i]
    BY <1>1, <1>4
  <2>2. /\ y \in Seq(Timers) /\ Len(y) = Len(s) - k
        /\ \A i \in 1..Len(s) - k : y[i] = s[k + i]
    <3>1. \A i \in k + 1..Len(s) : s[i] \in Timers
      BY <1>1, <1>4
    <3>2. k + 1 \in Int /\ Len(s) \in Int
      BY <1>1, <1>4
    <3>3. /\ y \in Seq(Timers)
          /\ Len(y) = IF k + 1 <= Len(s) THEN Len(s) - (k + 1) + 1 ELSE 0
          /\ \A i \in 1..Len(s) - (k + 1) + 1 : y[i] = s[(k + 1) + i - 1]
      BY <3>1, <3>2, SubSeqProperties
    <3> HIDE DEF y
    <3>4. Len(s) - (k + 1) + 1 = Len(s) - k /\ \A i \in 1..Len(s) - k : (k + 1) + i - 1 = k + i
      BY <1>1, <1>4
    <3>5. Len(y) = Len(s) - k
      <4>1. Len(y) = IF k + 1 <= Len(s) THEN Len(s) - (k + 1) + 1 ELSE 0
        BY <3>3
      <4>2. Len(s) \in Nat /\ k \in 0..Len(s)
        BY <1>1, <1>4
      <4> QED
        BY <4>1, <4>2
    <3> QED
      BY <3>3, <3>4, <3>5
  <2> HIDE DEF x, y
  <2> DEFINE z == x \o <<t>>
  <2>3. /\ z \in Seq(Timers) /\ Len(z) = k + 1
        /\ \A i \in 1..k + 1 : z[i] = IF i <= k THEN s[i] ELSE t
    BY <1>4, <2>1
  <2> HIDE DEF z
  <2>4. /\ z \o y \in Seq(Timers) /\ Len(z \o y) = Len(s) + 1
        /\ \A i \in 1..Len(s) + 1 : (z \o y)[i] = IF i <= k + 1 THEN z[i] ELSE y[i - (k + 1)]
    <3>1. /\ z \o y \in Seq(Timers) /\ Len(z \o y) = Len(z) + Len(y)
          /\ \A i \in 1..Len(z) + Len(y) :
               (z \o y)[i] = IF i <= Len(z) THEN z[i] ELSE y[i - Len(z)]
      BY <2>2, <2>3, ConcatProperties
    <3>2. Len(z) + Len(y) = Len(s) + 1
      BY <1>1, <1>4, <2>2, <2>3
    <3> QED
      BY <2>3, <3>1, <3>2
  <2>5. \A i \in 1..Len(s) + 1 : i > k + 1 => /\ i - (k + 1) \in 1..Len(s) - k
                                              /\ y[i - (k + 1)] = s[i - 1]
    <3> TAKE i \in 1..Len(s) + 1
    <3> HAVE i > k + 1
    <3>1. i - (k + 1) \in 1..Len(s) - k /\ k + (i - (k + 1)) = i - 1
      BY <1>1, <1>4
    <3> QED
      BY <2>2, <3>1
  <2>6. r = z \o y
    BY DEF x, y, z
  <2>7. \A i \in 1..Len(s) + 1 : i <= k + 1 => i \in 1..k + 1
    BY <1>1, <1>4
  <2> HIDE DEF r
  <2> QED
    BY <1>1, <1>4, <2>3, <2>4, <2>5, <2>6, <2>7
<1> HIDE DEF r
<1>7. DOMAIN r = 1..Len(s) + 1 /\ k + 1 \in 1..Len(s) + 1 /\ r[k + 1] = t
  BY <1>1, <1>4, <1>6
<1> DEFINE down(i) == IF i <= k THEN i ELSE i - 1
<1>8. \A i \in 1..Len(s) + 1 : i # k + 1 => down(i) \in 1..Len(s) /\ r[i] = s[down(i)]
  BY <1>1, <1>4, <1>6
<1>9. \A i \in 1..Len(s) : \E j \in 1..Len(s) + 1 : j # k + 1 /\ down(j) = i
  <2> SUFFICES ASSUME NEW i \in 1..Len(s) PROVE \E j \in 1..Len(s) + 1 : j # k + 1 /\ down(j) = i
    OBVIOUS
  <2>1. CASE i <= k
    <3>1. i \in 1..Len(s) + 1 /\ i # k + 1 /\ down(i) = i
      BY <1>1, <1>4, <2>1
    <3> QED
      BY <3>1
  <2>2. CASE i > k
    <3>1. i + 1 \in 1..Len(s) + 1 /\ i + 1 # k + 1 /\ down(i + 1) = i
      BY <1>1, <1>4, <2>2
    <3> QED
      BY <3>1
  <2> QED
    BY <1>1, <1>4, <2>1, <2>2
<1>10. \A i, j \in 1..Len(s) + 1 : i # k + 1 /\ j # k + 1 =>
          (down(i) = down(j) <=> i = j) /\ (down(i) < down(j) <=> i < j)
  BY <1>1, <1>4
<1>11. \A i \in 1..Len(s) + 1 : r[i] = t <=> i = k + 1
  BY <1>1, <1>7, <1>8 DEF Members
<1> HIDE DEF down
<1>12. Once(r)
  <2> SUFFICES ASSUME NEW i \in 1..Len(s) + 1, NEW j \in 1..Len(s) + 1, r[i] = r[j] PROVE i = j
    BY <1>7 DEF Once
  <2>1. CASE i = k + 1 \/ j = k + 1
    BY <1>11, <2>1
  <2>2. CASE i # k + 1 /\ j # k + 1
    <3>1. down(i) = down(j)
      BY <1>1, <1>8, <2>2 DEF Once
    <3> QED
      BY <1>10, <2>2, <3>1
  <2> QED
    BY <2>1, <2>2
<1>13. Members(r) = Members(s) \cup {t}
  <2>1. ASSUME NEW x \in Members(r) PROVE x \in Members(s) \cup {t}
    BY <1>1, <1>7, <1>8 DEF Members
  <2>2. t \in Members(r)
    BY <1>7 DEF Members
  <2>3. ASSUME NEW x \in Members(s) PROVE x \in Members(r)
    <3>1. PICK i \in 1..Len(s) : s[i] = x
      BY <1>1 DEF Members
    <3>2. PICK j \in 1..Len(s) + 1 : j # k + 1 /\ down(j) = i
      BY <1>9
    <3>3. j \in DOMAIN r /\ r[j] = x
      BY <1>7, <1>8, <3>1, <3>2
    <3> QED
      BY <3>3 DEF Members
  <2> QED
    BY <2>1, <2>2, <2>3
<1>14. ASSUME NEW a, NEW b, a # t, b # t PROVE Before(r, a, b) <=> Before(s, a, b)
  <2>1. ASSUME Before(r, a, b) PROVE Before(s, a, b)
    <3>1. PICK i \in DOMAIN r, j \in DOMAIN r : i < j /\ r[i] = a /\ r[j] = b
      BY <2>1 DEF Before
    <3>2. i \in 1..Len(s) + 1 /\ j \in 1..Len(s) + 1 /\ i # k + 1 /\ j # k + 1
      BY <1>7, <1>14, <3>1
    <3>3. /\ down(i) \in DOMAIN s /\ down(j) \in DOMAIN s /\ down(i) < down(j)
          /\ s[down(i)] = a /\ s[down(j)] = b
      BY <1>1, <1>8, <1>10, <3>1, <3>2
    <3> QED
      BY <3>3 DEF Before
  <2>2. ASSUME Before(s, a, b) PROVE Before(r, a, b)
    <3>1. PICK i \in DOMAIN s, j \in DOMAIN s : i < j /\ s[i] = a /\ s[j] = b
      BY <2>2 DEF Before
    <3>2. PICK m \in 1..Len(s) + 1, n \in 1..Len(s) + 1 :
            m # k + 1 /\ n # k + 1 /\ down(m) = i /\ down(n) = j
      BY <1>1, <1>9
    <3>3. m < n /\ r[m] = a /\ r[n] = b
      BY <1>8, <1>10, <3>1, <3>2
    <3> QED
      BY <1>7, <3>2, <3>3 DEF Before
  <2> QED
    BY <2>1, <2>2
<1>15. Sorted(ts, r)
  <2> SUFFICES ASSUME NEW a \in Timers, NEW b \in Timers, Before(r, a, b)
               PROVE  ts[a].at <= ts[b].at
    BY DEF Sorted
  <2>1. PICK i \in DOMAIN r, j \in DOMAIN r : i < j /\ r[i] = a /\ r[j] = b
    BY DEF Before
  <2>2. i \in 1..Len(s) + 1 /\ j \in 1..Len(s) + 1
    BY <1>7, <2>1
  <2>3. CASE i # k + 1 /\ j # k + 1
    <3>1. a # t /\ b # t
      BY <1>11, <2>1, <2>2, <2>3
    <3> QED
      BY <1>14, <3>1 DEF Sorted
  <2>4. CASE i = k + 1
    <3>1. j > k + 1 /\ j - 1 \in k + 1..Len(s) /\ r[j] = s[j - 1] /\ a = t
      BY <1>1, <1>4, <1>6, <1>7, <2>1, <2>2, <2>4
    <3> QED
      BY <1>4, <2>1, <3>1
  <2>5. CASE j = k + 1
    <3>1. b = t /\ i <= k /\ k \in 1..Len(s) /\ i \in 1..Len(s) /\ a = s[i]
      BY <1>1, <1>4, <1>6, <1>7, <2>1, <2>2, <2>5
    <3>2. ts[t].at > ts[s[k]].at /\ s[k] \in Timers
      BY <1>1, <1>4, <3>1
    <3>3. i = k \/ Before(s, a, s[k])
      BY <1>1, <3>1 DEF Before
    <3>4. ts[a].at <= ts[s[k]].at
      BY <1>2, <3>1, <3>2, <3>3 DEF Sorted
    <3> QED
      BY <1>2, <3>1, <3>2, <3>4
  <2> QED
    BY <2>3, <2>4, <2>5
<1> QED
  BY <1>5, <1>6, <1>12, <1>13, <1>14, <1>15

\* The timer behind t in its list.
LEMMA NextInList ==
    ASSUME NEW d, Fitting(d), NEW t \in Members(d.timers)
    PROVE  /\ NextIn(d, t) \in Timers \cup {None}
           /\ NextIn(d, t) # None =>
                NextIn(d, t) \in Members(d.timers) /\ Before(d.timers, t, NextIn(d, t))
<1> DEFINE s == d.timers
           u == d.suspended
           after(l) == {l[i + 1] : i \in {j \in 1..Len(l) - 1 : l[j] = t}}
           n == after(s) \cup after(u)
<1>1. s \in Seq(Timers) /\ u \in Seq(Timers) /\ t \notin Members(u)
  BY DEF Fitting, LoopType
<1>2. /\ Len(s) \in Nat /\ DOMAIN s = 1..Len(s) /\ \A i \in 1..Len(s) : s[i] \in Timers
      /\ Len(u) \in Nat /\ DOMAIN u = 1..Len(u)
  BY <1>1, SeqFacts
<1> HIDE DEF s, u
<1>3. after(u) = {}
  BY <1>1, <1>2 DEF Members
<1>4. ASSUME NEW x \in after(s) PROVE x \in Timers /\ x \in Members(s) /\ Before(s, t, x)
  <2>1. PICK i \in 1..Len(s) - 1 : s[i] = t /\ x = s[i + 1]
    BY <1>4
  <2>2. i \in DOMAIN s /\ i + 1 \in DOMAIN s /\ i < i + 1
    BY <1>2, <2>1
  <2> QED
    BY <1>2, <2>1, <2>2 DEF Members, Before
<1>5. NextIn(d, t) = IF n = {} THEN None ELSE CHOOSE x \in n : TRUE
  BY DEF NextIn, s, u
<1> HIDE DEF n
<1>6. CASE n = {}
  BY <1>5, <1>6
<1>7. CASE n # {}
  <2>1. NextIn(d, t) \in n
    BY <1>5, <1>7
  <2>2. NextIn(d, t) \in after(s)
    BY <1>3, <2>1 DEF n
  <2> QED
    BY <1>4, <2>2 DEF s
<1> QED
  BY <1>6, <1>7

-----------------------------------------------------------------------------
(* Moving a timer *)

\* From d to e only t has moved.
Placing(d, e, t) ==
    /\ Fitting(e) /\ e.loop_time = d.loop_time /\ e.timer_current # t
    /\ \A u \in Timers \ {t} :
        /\ u \in Members(e.timers) <=> u \in Members(d.timers)
        /\ u \in Members(e.suspended) <=> u \in Members(d.suspended)
        /\ Past(d, u) => Past(e, u)
    /\ \A a, b \in Timers \ {t} : Before(e.timers, a, b) <=> Before(d.timers, a, b)
    /\ d.timer_current # t => e.timer_current = d.timer_current

\* The others are sorted.
SortedBut(ts, s, t) == \A a, b \in Timers \ {t} : Before(s, a, b) => ts[a].at <= ts[b].at

\* The parts of Efl_Loop_Data.
LEMMA FittingParts ==
    ASSUME NEW d, Fitting(d)
    PROVE  /\ d.timers \in Seq(Timers) /\ d.suspended \in Seq(Timers)
           /\ d.timer_current \in Timers \cup {None} /\ d.timers_added \in BOOLEAN
           /\ d.loop_time \in Nat
           /\ Once(d.timers) /\ Once(d.suspended)
           /\ Members(d.timers) \subseteq Timers /\ Members(d.suspended) \subseteq Timers
           /\ Members(d.timers) \cap Members(d.suspended) = {}
           /\ d.timer_current # None => d.timer_current \in Members(d.timers)
           /\ None \notin Timers
<1>1. d.timers \in Seq(Timers) /\ d.suspended \in Seq(Timers)
      /\ d.timer_current \in Timers \cup {None} /\ d.timers_added \in BOOLEAN
      /\ d.loop_time \in Nat
  BY DEF Fitting, LoopType
<1>2. Members(d.timers) \subseteq Timers /\ Members(d.suspended) \subseteq Timers
  BY <1>1, SeqFacts
<1>3. None \notin Timers
  BY DEF None, Timers
<1> QED
  BY <1>1, <1>2, <1>3 DEF Fitting

\* One move of t after another.
LEMMA PlacingTwice ==
    ASSUME NEW d, NEW e, NEW f, NEW t, Placing(d, e, t), Placing(e, f, t)
    PROVE  Placing(d, f, t)
BY DEF Placing

\* Everything that Placing speaks of depends on these four fields.
LEMMA PlacingFrom ==
    ASSUME NEW d, NEW c, NEW e, NEW t, Placing(c, e, t),
           c.timers = d.timers, c.suspended = d.suspended,
           c.timer_current = d.timer_current, c.loop_time = d.loop_time
    PROVE  Placing(d, e, t)
BY DEF Placing, Past

\* timer_current goes on from t.
LEMMA MoveOn ==
    ASSUME NEW d, Fitting(d), NEW t \in Timers, d.timer_current = t
    PROVE  LET e == [d EXCEPT !.timer_current = NextIn(d, t)]
           IN  Placing(d, e, t) /\ Past(e, t) /\ e.timers = d.timers /\ e.suspended = d.suspended
<1> DEFINE e == [d EXCEPT !.timer_current = NextIn(d, t)]
           n == NextIn(d, t)
<1>1. t \in Members(d.timers) /\ t # None /\ d.timers \in Seq(Timers) /\ Once(d.timers)
  BY FittingParts
<1>2. n \in Timers \cup {None} /\ (n # None => n \in Members(d.timers) /\ Before(d.timers, t, n))
  BY <1>1, NextInList
<1>3. /\ e \in LoopType /\ e.timer_current = n /\ e.timers = d.timers
      /\ e.suspended = d.suspended /\ e.loop_time = d.loop_time
  BY <1>2 DEF Fitting, LoopType
<1> HIDE DEF e, n
<1>4. Fitting(e)
  BY <1>2, <1>3 DEF Fitting
<1>5. n # t
  BY <1>1, <1>2, SeqFacts
<1>6. ASSUME NEW u, Past(d, u) PROVE Past(e, u)
  <2>1. n = None \/ u \notin Members(d.timers) \/ Before(d.timers, u, t)
    BY <1>1, <1>6 DEF Past
  <2>2. Before(d.timers, u, t) /\ n # None => Before(d.timers, u, n)
    BY <1>1, <1>2, SeqFacts
  <2> QED
    BY <1>3, <2>1, <2>2 DEF Past
<1>7. Past(e, t)
  BY <1>2, <1>3 DEF Past
<1>8. Placing(d, e, t)
  BY <1>1, <1>3, <1>4, <1>5, <1>6 DEF Placing
<1> QED
  BY <1>3, <1>7, <1>8 DEF e

\* t is taken out of one list, or out of both.
LEMMA CutPlaces ==
    ASSUME NEW d, Fitting(d), NEW t \in Timers, d.timer_current # t, NEW e, e \in LoopType,
           e.timer_current = d.timer_current, e.loop_time = d.loop_time,
           e.timers = d.timers \/ e.timers = Without(d.timers, t),
           e.suspended = d.suspended \/ e.suspended = Without(d.suspended, t)
    PROVE  /\ Placing(d, e, t)
           /\ e.timers = Without(d.timers, t) => t \notin Members(e.timers)
           /\ e.suspended = Without(d.suspended, t) => t \notin Members(e.suspended)
<1>1. /\ d.timers \in Seq(Timers) /\ d.suspended \in Seq(Timers)
      /\ Once(d.timers) /\ Once(d.suspended)
      /\ Members(d.timers) \cap Members(d.suspended) = {}
      /\ d.timer_current # None => d.timer_current \in Members(d.timers)
  BY FittingParts
<1> DEFINE s == Without(d.timers, t)
           u == Without(d.suspended, t)
<1>2. /\ Once(s) /\ Members(s) = Members(d.timers) \ {t}
      /\ \A a, b : Before(s, a, b) <=> Before(d.timers, a, b) /\ a # t /\ b # t
  BY <1>1, WithoutList
<1>3. Once(u) /\ Members(u) = Members(d.suspended) \ {t}
  BY <1>1, WithoutList
<1> HIDE DEF s, u
<1>4. /\ Once(e.timers) /\ Members(e.timers) \subseteq Members(d.timers)
      /\ \A x : x # t => (x \in Members(e.timers) <=> x \in Members(d.timers))
      /\ \A a, b : a # t /\ b # t => (Before(e.timers, a, b) <=> Before(d.timers, a, b))
  BY <1>1, <1>2 DEF s
<1>5. /\ Once(e.suspended) /\ Members(e.suspended) \subseteq Members(d.suspended)
      /\ \A x : x # t => (x \in Members(e.suspended) <=> x \in Members(d.suspended))
  BY <1>1, <1>3 DEF u
<1>6. Fitting(e)
  BY <1>1, <1>4, <1>5 DEF Fitting
<1>7. \A x \in Timers \ {t} : Past(d, x) => Past(e, x)
  BY <1>4 DEF Past
<1>8. Placing(d, e, t)
  BY <1>4, <1>5, <1>6, <1>7 DEF Placing
<1> QED
  BY <1>2, <1>3, <1>8 DEF s, u

\* _efl_loop_timer_util_loop_clear takes t out of the lists.
LEMMA LoopClearPlaces ==
    ASSUME NEW d, Fitting(d), NEW t \in Timers
    PROVE  LET e == LoopClear(d, t)
           IN  Placing(d, e, t) /\ t \notin Members(e.timers) /\ t \notin Members(e.suspended)
<1> DEFINE n == IF d.timer_current = t THEN NextIn(d, t) ELSE d.timer_current
           c == [d EXCEPT !.timer_current = n]
           e == LoopClear(d, t)
<1>1. /\ Fitting(c) /\ c.timer_current # t /\ c.timers = d.timers /\ c.suspended = d.suspended
      /\ c.timer_current = n /\ c.loop_time = d.loop_time /\ c \in LoopType
      /\ (d.timer_current = t /\ Placing(d, c, t)) \/ (d.timer_current # t /\ c = d)
  <2>1. CASE d.timer_current = t
    <3>1. Placing(d, c, t) /\ c.timers = d.timers /\ c.suspended = d.suspended
      BY <2>1, MoveOn
    <3>2. c.timer_current = n /\ c.loop_time = d.loop_time
      BY DEF Fitting, LoopType
    <3> QED
      BY <2>1, <3>1, <3>2 DEF Placing, Fitting
  <2>2. CASE d.timer_current # t
    <3>1. c = d
      BY <2>2 DEF Fitting, LoopType
    <3> QED
      BY <2>2, <3>1 DEF Fitting
  <2> QED
    BY <2>1, <2>2
<1>2. Without(d.timers, t) \in Seq(Timers) /\ Without(d.suspended, t) \in Seq(Timers)
  BY FittingParts, WithoutList
<1>3. /\ e \in LoopType /\ e.timers = Without(d.timers, t) /\ e.suspended = Without(d.suspended, t)
      /\ e.timer_current = n /\ e.loop_time = d.loop_time
  <2>1. n \in Timers \cup {None}
    BY <1>1, FittingParts
  <2> HIDE DEF n
  <2>2. e = [d EXCEPT !.timers = Without(d.timers, t), !.suspended = Without(d.suspended, t),
                      !.timer_current = n]
    BY DEF LoopClear, n
  <2> HIDE DEF e
  <2> QED
    BY <1>2, <2>1, <2>2 DEF Fitting, LoopType
<1> HIDE DEF e, c, n
<1>4. Placing(c, e, t) /\ t \notin Members(e.timers) /\ t \notin Members(e.suspended)
  BY <1>1, <1>3, CutPlaces
<1>5. Placing(d, e, t)
  BY <1>1, <1>4, PlacingTwice
<1> QED
  BY <1>4, <1>5 DEF e

\* _efl_loop_timer_util_instanciate puts t into the list it belongs to.
LEMMA InstanciatePlaces ==
    ASSUME NEW ts \in [Timers -> TimerType], NEW d, Fitting(d), NEW t \in Timers,
           SortedBut(ts, d.timers, t)
    PROVE  LET e == Instanciate(ts, d, t)
           IN  /\ Placing(d, e, t) /\ Sorted(ts, e.timers)
               /\ IF ts[t].frozen \/ ts[t].at <= 0
                  THEN t \notin Members(e.timers) /\ t \in Members(e.suspended)
                  ELSE t \in Members(e.timers) /\ t \notin Members(e.suspended)
<1> DEFINE c == LoopClear(d, t)
           e == Instanciate(ts, d, t)
<1>1. Placing(d, c, t) /\ t \notin Members(c.timers) /\ t \notin Members(c.suspended)
  BY LoopClearPlaces
<1>2. Fitting(c) /\ c.timer_current # t
  BY <1>1 DEF Placing
<1>3. /\ c.timers \in Seq(Timers) /\ c.suspended \in Seq(Timers) /\ c \in LoopType
      /\ Once(c.timers) /\ Once(c.suspended)
      /\ Members(c.timers) \cap Members(c.suspended) = {}
      /\ c.timer_current # None => c.timer_current \in Members(c.timers)
  BY <1>2, FittingParts DEF Fitting
<1>4. Sorted(ts, c.timers)
  <2> SUFFICES ASSUME NEW a \in Timers, NEW b \in Timers, Before(c.timers, a, b)
               PROVE  ts[a].at <= ts[b].at
    BY DEF Sorted
  <2>1. a # t /\ b # t
    BY <1>1, <1>3, SeqFacts
  <2> QED
    BY <1>1, <2>1 DEF Placing, SortedBut
<1>5. CASE ts[t].frozen \/ ts[t].at <= 0
  <2> DEFINE s == <<t>> \o c.suspended
  <2>1. e = [c EXCEPT !.suspended = s]
    BY <1>5 DEF Instanciate
  <2>2. /\ s \in Seq(Timers) /\ Len(s) = Len(c.suspended) + 1 /\ s[1] = t
        /\ \A i \in 2..Len(s) : s[i] = c.suspended[i - 1]
    BY <1>3
  <2>3. Len(c.suspended) \in Nat /\ DOMAIN c.suspended = 1..Len(c.suspended)
        /\ DOMAIN s = 1..Len(s)
    BY <1>3, <2>2
  <2> HIDE DEF s
  <2>4. /\ e \in LoopType /\ e.timers = c.timers /\ e.suspended = s
        /\ e.timer_current = c.timer_current /\ e.loop_time = c.loop_time
    BY <1>3, <2>1, <2>2 DEF LoopType
  <2>5. Members(s) = Members(c.suspended) \cup {t}
    <3>1. \A i \in 1..Len(c.suspended) : i + 1 \in 2..Len(s) /\ i + 1 \in DOMAIN s /\ s[i + 1] = c.suspended[i]
      BY <2>2, <2>3
    <3>2. \A i \in DOMAIN s : i = 1 \/ (i \in 2..Len(s) /\ i - 1 \in DOMAIN c.suspended)
      BY <2>2, <2>3
    <3>3. 1 \in DOMAIN s
      BY <2>2, <2>3
    <3>4. ASSUME NEW i \in DOMAIN s PROVE s[i] \in Members(c.suspended) \cup {t}
      <4>1. s[i] = t \/ (i - 1 \in DOMAIN c.suspended /\ s[i] = c.suspended[i - 1])
        BY <2>2, <3>2
      <4> QED
        BY <4>1 DEF Members
    <3>5. ASSUME NEW i \in DOMAIN c.suspended PROVE c.suspended[i] \in Members(s)
      <4>1. i + 1 \in DOMAIN s /\ s[i + 1] = c.suspended[i]
        BY <2>3, <3>1
      <4> QED
        BY <4>1 DEF Members
    <3>6. t \in Members(s)
      BY <2>2, <3>3 DEF Members
    <3> QED
      BY <3>4, <3>5, <3>6 DEF Members
  <2>6. Once(s)
    <3> SUFFICES ASSUME NEW i \in DOMAIN s, NEW j \in DOMAIN s, s[i] = s[j] PROVE i = j
      BY DEF Once
    <3>1. \A k \in DOMAIN s : k # 1 => k - 1 \in DOMAIN c.suspended /\ s[k] = c.suspended[k - 1]
      BY <2>2, <2>3
    <3>2. \A k \in DOMAIN s : k # 1 => s[k] # t
      BY <1>1, <3>1 DEF Members
    <3>3. CASE i = 1 \/ j = 1
      BY <2>2, <3>2, <3>3
    <3>4. CASE i # 1 /\ j # 1
      <4>1. i - 1 = j - 1
        BY <1>3, <3>1, <3>4 DEF Once
      <4> QED
        BY <2>3, <4>1
    <3> QED
      BY <3>3, <3>4
  <2> HIDE DEF e, c
  <2>7. Fitting(e)
    BY <1>1, <1>3, <2>4, <2>5, <2>6 DEF Fitting
  <2>8. Placing(c, e, t)
    BY <1>2, <2>4, <2>5, <2>7 DEF Placing, Past
  <2> QED
    BY <1>1, <1>4, <1>5, <2>4, <2>5, <2>8, PlacingTwice DEF e
<1>6. CASE ~(ts[t].frozen \/ ts[t].at <= 0)
  <2> DEFINE s == Insert(ts, c.timers, t)
  <2>1. e = [c EXCEPT !.timers = s]
    BY <1>6 DEF Instanciate
  <2>2. /\ s \in Seq(Timers) /\ Once(s) /\ Members(s) = Members(c.timers) \cup {t}
        /\ \A a, b : a # t /\ b # t => (Before(s, a, b) <=> Before(c.timers, a, b))
        /\ Sorted(ts, s)
    BY <1>1, <1>3, <1>4, InsertList
  <2> HIDE DEF s
  <2>4. /\ e \in LoopType /\ e.timers = s /\ e.suspended = c.suspended
        /\ e.timer_current = c.timer_current /\ e.loop_time = c.loop_time
    BY <1>3, <2>1, <2>2 DEF LoopType
  <2> HIDE DEF e, c
  <2>7. Fitting(e)
    BY <1>1, <1>3, <2>2, <2>4 DEF Fitting
  <2>8. Placing(c, e, t)
    BY <1>2, <2>2, <2>4, <2>7 DEF Placing, Past
  <2> QED
    BY <1>1, <1>6, <2>2, <2>4, <2>8, PlacingTwice DEF e
<1> QED
  BY <1>5, <1>6

-----------------------------------------------------------------------------
(* The parts of the invariant *)

\* The invariant, taken apart.
LEMMA Parts ==
    ASSUME TimerInv
    PROVE  /\ tm \in [Timers -> TimerType] /\ pd \in LoopType /\ now \in 1..MaxTime
           /\ stack \in Seq(FrameType) /\ calls \in 0..MaxCalls
           /\ Fitting(pd) /\ Sorted(tm, pd.timers) /\ Nested(stack)
           /\ \A t \in Timers : TicksOf(tm, stack, t)
           /\ \A t \in Timers : Deleted(tm, pd, stack, t)
           /\ Walks(tm, pd, stack) /\ Lists /\ Times /\ Created(tm, stack)
           /\ None \notin Timers
BY DEF TimerInv, TypeOK, Lists, Ticks, None, Timers

\* The stack: its top, and the walk that goes on.
LEMMA StackFacts ==
    ASSUME NEW s, Nested(s)
    PROVE  /\ Len(s) \in Nat /\ DOMAIN s = 1..Len(s) /\ \A i \in 1..Len(s) : s[i] \in FrameType
           /\ s # <<>> => Head(s) = s[1] /\ s[1] \in FrameType /\ Len(s) > 0
           /\ s # <<>> /\ s[1].k \in {"tick", "walk"} =>
                Len(s) > 1 /\ s[2] \in FrameType /\ Follows(s[1], s[2])
           /\ Walking(s) => /\ Walk(s) \in FrameType /\ Walk(s).k = "walk"
                            /\ Walk(s).done \subseteq Timers /\ Walk(s).pc \in {"loop", "called"}
                            /\ Walk(s).pc = "called" => Walk(s).t \in Timers
           /\ s # <<>> /\ s[1].k = "tick" =>
                /\ Walking(s) /\ Walk(s) = s[2] /\ s[2].pc = "called" /\ s[2].t = s[1].t
                /\ s[1].t \in Timers
<1>1. Len(s) \in Nat /\ DOMAIN s = 1..Len(s) /\ \A i \in 1..Len(s) : s[i] \in FrameType
  BY DEF Nested
<1>2. s # <<>> => Head(s) = s[1] /\ s[1] \in FrameType /\ Len(s) > 0
  BY <1>1 DEF Nested
<1>3. ASSUME s # <<>>, s[1].k \in {"tick", "walk"}
      PROVE  Len(s) > 1 /\ s[2] \in FrameType /\ Follows(s[1], s[2])
  <2>1. Len(s) # 1
    BY <1>3 DEF Nested
  <2>2. Len(s) > 1 /\ 1 \in DOMAIN s /\ 2 \in 1..Len(s)
    BY <1>1, <1>2, <1>3, <2>1
  <2> QED
    BY <1>1, <2>2 DEF Nested
<1>4. ASSUME s # <<>>, s[1].k = "tick"
      PROVE  /\ Walking(s) /\ Walk(s) = s[2] /\ s[2].pc = "called" /\ s[2].t = s[1].t
             /\ s[1].t \in Timers /\ s[2].k = "walk"
  <2>1. Follows(s[1], s[2]) /\ s[1] \in FrameType /\ 1 \in DOMAIN s
    BY <1>1, <1>2, <1>3, <1>4
  <2>2. s[1].t # None
    BY <1>4, <2>1 DEF Nested, FrameOK
  <2>3. s[1].t \in Timers
    BY <2>1, <2>2 DEF FrameType
  <2> QED
    BY <1>4, <2>1, <2>3 DEF Follows, Walking, Walk
<1>5. ASSUME Walking(s)
      PROVE  /\ Walk(s) \in FrameType /\ Walk(s).k = "walk"
             /\ Walk(s).done \subseteq Timers /\ Walk(s).pc \in {"loop", "called"}
             /\ Walk(s).pc = "called" => Walk(s).t \in Timers
  <2>1. s # <<>>
    BY <1>5 DEF Walking
  <2>2. Walk(s) \in FrameType /\ Walk(s).k = "walk" /\ Walk(s).pc # "start" /\ FrameOK(Walk(s))
    <3>1. CASE s[1].k = "tick"
      <4>1. 2 \in DOMAIN s
        BY <1>1, <1>3, <2>1, <3>1
      <4> QED
        BY <1>3, <1>4, <2>1, <3>1, <4>1 DEF Nested
    <3>2. CASE s[1].k # "tick"
      <4>1. Walk(s) = s[1] /\ s[1].k = "walk" /\ s[1].pc # "start" /\ 1 \in DOMAIN s
        BY <1>1, <1>2, <1>5, <2>1, <3>2 DEF Walking, Walk
      <4> QED
        BY <1>2, <2>1, <4>1 DEF Nested
    <3> QED
      BY <3>1, <3>2
  <2>3. Walk(s).done \subseteq Timers /\ Walk(s).t \in Timers \cup {None}
    BY <2>2 DEF FrameType
  <2> QED
    BY <2>2, <2>3 DEF FrameOK
<1> QED
  BY <1>1, <1>2, <1>3, <1>4, <1>5

\* A timer that was created stays created.
LEMMA CreatedKept ==
    ASSUME NEW s \in Seq(FrameType), Created(tm, s),
           \A u \in Timers : tm[u].st # "none" => tm'[u].st # "none"
    PROVE  Created(tm', s)
<1> SUFFICES ASSUME NEW i \in DOMAIN s, s[i].t # None PROVE tm'[s[i].t].st # "none"
  BY DEF Created
<1>1. s[i] \in FrameType
  OBVIOUS
<1>2. s[i].t \in Timers
  BY <1>1 DEF FrameType
<1> QED
  BY <1>2 DEF Created

\* Timers are created one after the other.
LEMMA FreshFacts ==
    ASSUME TypeOK
    PROVE  Fresh \in Nat /\ Fresh > 0 /\ IsFiniteSet({t \in Timers : tm[t].st # "none"})
<1> DEFINE S == {t \in Timers : tm[t].st # "none"}
<1>1. IsFiniteSet(Timers) /\ S \in SUBSET Timers
  BY FS_Interval, BoundAssumption DEF Timers
<1>2. IsFiniteSet(S)
  BY <1>1, FS_Subset
<1> HIDE DEF S
<1>3. Cardinality(S) \in Nat
  BY <1>2, FS_CardinalityType
<1>4. Fresh = Cardinality(S) + 1
  BY DEF Fresh, S
<1> QED
  BY <1>2, <1>3, <1>4 DEF S

\* A timer t changes, and the lists with it; the stack stays.
LEMMA MoveStep ==
    ASSUME TimerInv, NEW t \in Timers, NEW r \in TimerType, tm' = [tm EXCEPT ![t] = r],
           Placing(pd, pd', t), Sorted(tm', pd'.timers),
           t \in Members(pd'.timers) <=> r.st = "live" /\ ~r.frozen,
           t \in Members(pd'.suspended) <=> r.st = "live" /\ r.frozen,
           r.just_added \/ t \notin Members(pd'.timers),
           r.inside_call <=> tm[t].inside_call, ~r.delete_me, r.inside_call => r.st = "live",
           r.st # "none", r.st = "live" /\ ~r.frozen => r.at > 0,
           r.st = "live" /\ r.frozen => r.pending + now > 0,
           \A u \in Timers : tm'[u].st # "none" <=> u < Fresh',
           stack' = stack, now' = now, calls' \in 0..MaxCalls
    PROVE  TimerInv'
<1>1. tm' \in [Timers -> TimerType] /\ tm'[t] = r /\ \A u \in Timers \ {t} : tm'[u] = tm[u]
  BY Parts
<1>2. Fitting(pd') /\ pd' \in LoopType /\ pd'.loop_time = pd.loop_time
  BY DEF Placing, Fitting
<1>3. TypeOK'
  BY <1>1, <1>2, Parts DEF TypeOK
<1>4. Lists'
  <2> SUFFICES ASSUME NEW u \in Timers
               PROVE  /\ u \in Members(pd'.timers) <=> tm'[u].st = "live" /\ ~tm'[u].frozen
                      /\ u \in Members(pd'.suspended) <=> tm'[u].st = "live" /\ tm'[u].frozen
    BY <1>2 DEF Lists
  <2>1. CASE u = t
    BY <1>1, <2>1
  <2>2. CASE u # t
    BY <1>1, <2>2, Parts DEF Placing, Lists
  <2> QED
    BY <2>1, <2>2
<1>5. Times'
  <2>1. \A u \in Timers : /\ tm'[u].st = "live" /\ ~tm'[u].frozen => tm'[u].at > 0
                          /\ tm'[u].st = "live" /\ tm'[u].frozen => tm'[u].pending + now > 0
    BY <1>1, Parts DEF Times
  <2> QED
    BY <1>2, <2>1, Parts DEF Times
<1>6. Ticks'
  <2> SUFFICES ASSUME NEW u \in Timers PROVE TicksOf(tm', stack, u)
    BY DEF Ticks
  <2>1. TicksOf(tm, stack, u)
    BY Parts
  <2>2. CASE u = t
    BY <1>1, <2>1, <2>2 DEF TicksOf
  <2>3. CASE u # t
    BY <1>1, <2>1, <2>3 DEF TicksOf
  <2> QED
    BY <2>2, <2>3
<1>7. Behind(tm', pd', t) /\ \A u \in Timers : Behind(tm, pd, u) => Behind(tm', pd', u)
  BY <1>1 DEF Behind, Past, Placing
<1>8. pd.timer_current # t => pd'.timer_current = pd.timer_current
  BY DEF Placing
<1>9. Walks(tm', pd', stack)
  <2>1. Walks(tm, pd, stack) /\ t # None
    BY Parts
  <2>2. Walking(stack) \/ Starting(stack) \/ pd'.timer_current = None
    BY <1>8, <2>1 DEF Walks
  <2>3. Walking(stack) => /\ Walk(stack).done \subseteq Timers
                          /\ Walk(stack).pc = "called" => Walk(stack).t \in Timers
    BY Parts, StackFacts
  <2>4. Walking(stack) => \A u \in Walk(stack).done : Behind(tm', pd', u)
    BY <1>7, <2>1, <2>3 DEF Walks
  <2>5. Walking(stack) /\ Walk(stack).pc = "called" =>
          Walk(stack).t = pd'.timer_current \/ Behind(tm', pd', Walk(stack).t)
    BY <1>7, <1>8, <2>1, <2>3 DEF Walks
  <2> QED
    BY <2>2, <2>4, <2>5 DEF Walks
<1>10. ASSUME NEW u \in Timers PROVE Deleted(tm', pd', stack, u)
  <2>1. Deleted(tm, pd, stack, u)
    BY Parts
  <2>2. CASE u = t
    BY <1>1, <2>2 DEF Deleted
  <2>3. CASE u # t
    BY <1>1, <1>7, <2>1, <2>3 DEF Deleted
  <2> QED
    BY <2>2, <2>3
<1>11. Nested(stack)'
  BY Parts
<1>12. Created(tm', stack)
  <2>1. \A u \in Timers : tm[u].st # "none" => tm'[u].st # "none"
    BY <1>1
  <2>2. stack \in Seq(FrameType) /\ Created(tm, stack)
    BY Parts
  <2> QED
    BY <2>1, <2>2, CreatedKept
<1> QED
  BY <1>3, <1>4, <1>5, <1>6, <1>9, <1>10, <1>11, <1>12 DEF TimerInv


\* No timer is created.
LEMMA FreshKept ==
    ASSUME TimerInv, \A u \in Timers : tm'[u].st # "none" <=> tm[u].st # "none"
    PROVE  \A u \in Timers : tm'[u].st # "none" <=> u < Fresh'
<1>1. {t \in Timers : tm'[t].st # "none"} = {t \in Timers : tm[t].st # "none"}
  OBVIOUS
<1>2. Fresh' = Fresh
  BY <1>1 DEF Fresh
<1> QED
  BY <1>2, Parts DEF Times

\* _efl_loop_timer_set: the timer expires at the time given, and is new.
LEMMA SetPlaced ==
    ASSUME tm \in [Timers -> TimerType], NEW t \in Timers, NEW q \in TimerType, ~q.frozen,
           NEW ts, ts = [tm EXCEPT ![t] = q], NEW at \in Int, at > 0,
           NEW d, Fitting(d), SortedBut(tm, d.timers, t), Set(ts, d, t, at)
    PROVE  LET r == [q EXCEPT !.just_added = TRUE, !.at = at, !.pending = 0]
           IN  /\ r \in TimerType /\ tm' = [tm EXCEPT ![t] = r]
               /\ Placing(d, pd', t) /\ Sorted(tm', pd'.timers)
               /\ t \in Members(pd'.timers) /\ t \notin Members(pd'.suspended)
<1> DEFINE r == [q EXCEPT !.just_added = TRUE, !.at = at, !.pending = 0]
           c == [d EXCEPT !.timers_added = TRUE]
<1>1. r \in TimerType /\ r.at = at /\ r.frozen = q.frozen
  <2>1. 0 \in Int /\ TRUE \in BOOLEAN
    OBVIOUS
  <2>2. r \in TimerType
    BY <2>1 DEF TimerType
  <2> QED
    BY <2>2 DEF TimerType
<1>2. tm' = [tm EXCEPT ![t] = r]
  <2>1. ts \in [Timers -> TimerType] /\ ts[t] = q
    OBVIOUS
  <2>2. tm' = [ts EXCEPT ![t] = [@ EXCEPT !.just_added = TRUE, !.at = at, !.pending = 0]]
    BY <2>1 DEF Set, SetData, TimerType
  <2> QED
    BY <2>1, <2>2
<1>3. tm' \in [Timers -> TimerType] /\ tm'[t] = r /\ \A u \in Timers \ {t} : tm'[u] = tm[u]
  BY <1>1, <1>2
<1> HIDE DEF r
<1>4. pd' = Instanciate(tm', c, t)
  BY DEF Set, SetPlace
<1>5. /\ c.timers = d.timers /\ c.suspended = d.suspended /\ c.timer_current = d.timer_current
      /\ c.loop_time = d.loop_time /\ c \in LoopType
  BY DEF Fitting, LoopType
<1> HIDE DEF c
<1>6. Fitting(c) /\ SortedBut(tm', c.timers, t)
  BY <1>3, <1>5 DEF Fitting, SortedBut
<1>7. /\ Placing(c, pd', t) /\ Sorted(tm', pd'.timers)
      /\ t \in Members(pd'.timers) /\ t \notin Members(pd'.suspended)
  <2>1. ~(tm'[t].frozen \/ tm'[t].at <= 0)
    BY <1>1, <1>3
  <2> QED
    BY <1>3, <1>4, <1>6, <2>1, InstanciatePlaces
<1>8. Placing(d, pd', t)
  BY <1>5, <1>7, PlacingFrom
<1> QED
  BY <1>1, <1>2, <1>7, <1>8 DEF r

\* The user's code sets a timer anew.
LEMMA SetStep ==
    ASSUME TimerInv, NEW t \in Timers, Handle(t), NEW q \in TimerType, ~q.frozen,
           q.st = "live", q.inside_call = tm[t].inside_call, q.delete_me = tm[t].delete_me,
           NEW at \in Int, at > 0, NEW d,
           d = pd \/ (tm[t].frozen /\ d = [pd EXCEPT !.suspended = Without(@, t)]),
           Set([tm EXCEPT ![t] = q], d, t, at),
           stack' = stack, now' = now, calls' \in 0..MaxCalls
    PROVE  TimerInv'
<1>1. /\ Fitting(d) /\ d.timers = pd.timers
      /\ Placing(d, pd', t) => Placing(pd, pd', t)
  <2>1. CASE d = pd
    BY <2>1, Parts
  <2>2. CASE tm[t].frozen /\ d = [pd EXCEPT !.suspended = Without(@, t)]
    <3>1. pd.timer_current # t
      BY <2>2, Parts DEF Lists, Fitting
    <3>2. Without(pd.suspended, t) \in Seq(Timers)
      BY Parts, FittingParts, WithoutList
    <3>3. /\ d \in LoopType /\ d.timers = pd.timers /\ d.suspended = Without(pd.suspended, t)
          /\ d.timer_current = pd.timer_current /\ d.loop_time = pd.loop_time
      BY <2>2, <3>2, Parts DEF LoopType
    <3>4. Placing(pd, d, t)
      BY <3>1, <3>3, Parts, CutPlaces
    <3> QED
      BY <3>3, <3>4, PlacingTwice DEF Placing
  <2> QED
    BY <2>1, <2>2
<1>2. SortedBut(tm, d.timers, t) /\ tm \in [Timers -> TimerType]
  BY <1>1, Parts DEF Sorted, SortedBut
<1> DEFINE r == [q EXCEPT !.just_added = TRUE, !.at = at, !.pending = 0]
<1>3. /\ r \in TimerType /\ tm' = [tm EXCEPT ![t] = r]
      /\ Placing(d, pd', t) /\ Sorted(tm', pd'.timers)
      /\ t \in Members(pd'.timers) /\ t \notin Members(pd'.suspended)
  BY <1>1, <1>2, SetPlaced
<1>4. /\ r.st = "live" /\ ~r.frozen /\ r.just_added /\ r.inside_call = tm[t].inside_call
      /\ r.delete_me = tm[t].delete_me /\ r.at = at
  BY DEF TimerType
<1> HIDE DEF r
<1>5. \A u \in Timers : tm'[u].st # "none" <=> u < Fresh'
  <2>1. \A u \in Timers : tm'[u].st # "none" <=> tm[u].st # "none"
    BY <1>2, <1>3, <1>4 DEF Handle
  <2> QED
    BY <2>1, FreshKept
<1>6. Placing(pd, pd', t)
  BY <1>1, <1>3
<1> QED
  BY <1>3, <1>4, <1>5, <1>6, MoveStep DEF Handle

\* Of a timer only its interval, what is pending or Eo's freeze count change.
LEMMA StayStep ==
    ASSUME TimerInv, NEW t \in Timers, NEW r \in TimerType, tm' = [tm EXCEPT ![t] = r],
           r.st = tm[t].st, r.at = tm[t].at, r.frozen = tm[t].frozen,
           r.just_added = tm[t].just_added, r.inside_call = tm[t].inside_call,
           r.delete_me = tm[t].delete_me,
           r.st = "live" /\ r.frozen => r.pending + now > 0,
           pd' = pd, stack' = stack, now' = now, calls' \in 0..MaxCalls
    PROVE  TimerInv'
<1>1. tm' \in [Timers -> TimerType] /\ tm'[t] = r /\ \A u \in Timers \ {t} : tm'[u] = tm[u]
  BY Parts
<1>2. \A u \in Timers : /\ tm'[u].st = tm[u].st /\ tm'[u].at = tm[u].at
                        /\ tm'[u].frozen = tm[u].frozen /\ tm'[u].just_added = tm[u].just_added
                        /\ tm'[u].inside_call = tm[u].inside_call
                        /\ tm'[u].delete_me = tm[u].delete_me
  BY <1>1
<1>3. TypeOK'
  BY <1>1, Parts DEF TypeOK
<1>4. Lists'
  BY <1>2, Parts DEF Lists, Sorted
<1>5. Times'
  <2>1. \A u \in Timers : tm'[u].st # "none" <=> u < Fresh'
    BY <1>2, FreshKept
  <2>2. \A u \in Timers : /\ tm'[u].st = "live" /\ ~tm'[u].frozen => tm'[u].at > 0
                          /\ tm'[u].st = "live" /\ tm'[u].frozen => tm'[u].pending + now > 0
    BY <1>1, <1>2, Parts DEF Times
  <2> QED
    BY <2>1, <2>2, Parts DEF Times
<1>6. Ticks'
  BY <1>2, Parts DEF Ticks, TicksOf
<1>7. \A u \in Timers : Behind(tm, pd, u) => Behind(tm', pd', u)
  BY <1>2 DEF Behind
<1>8. Walks(tm', pd', stack)
  <2>1. Walking(stack) => /\ Walk(stack).done \subseteq Timers
                          /\ Walk(stack).pc = "called" => Walk(stack).t \in Timers
    BY Parts, StackFacts
  <2> QED
    BY <1>7, <2>1, Parts DEF Walks
<1>9. \A u \in Timers : Deleted(tm', pd', stack, u)
  BY <1>2, <1>7, Parts DEF Deleted
<1>10. Created(tm', stack)
  <2>1. \A u \in Timers : tm[u].st # "none" => tm'[u].st # "none"
    BY <1>2
  <2>2. stack \in Seq(FrameType) /\ Created(tm, stack)
    BY Parts
  <2> QED
    BY <2>1, <2>2, CreatedKept
<1> QED
  BY <1>3, <1>4, <1>5, <1>6, <1>8, <1>9, <1>10, Parts DEF TimerInv

\* A user call counts down the calls that are left.
LEMMA CallCounted ==
    ASSUME TimerInv, CanCall, Called
    PROVE  calls' \in 0..MaxCalls /\ stack' = stack /\ now' = now
BY Parts, BoundAssumption DEF CanCall, Called

\* core_timer_interval_set.
LEMMA IntervalStep ==
    ASSUME TimerInv, NEW t \in Timers, NEW in \in Intervals, IntervalSet(t, in)
    PROVE  TimerInv'
<1> DEFINE r == [tm[t] EXCEPT !.in = in]
<1>1. calls' \in 0..MaxCalls /\ stack' = stack /\ now' = now /\ pd' = pd
  BY CallCounted DEF IntervalSet
<1>2. tm[t] \in TimerType /\ in \in Nat
  BY Parts, TimeAssumption
<1>3. /\ r \in TimerType /\ r.st = tm[t].st /\ r.at = tm[t].at /\ r.frozen = tm[t].frozen
      /\ r.just_added = tm[t].just_added /\ r.inside_call = tm[t].inside_call
      /\ r.delete_me = tm[t].delete_me /\ r.pending = tm[t].pending
  BY <1>2 DEF TimerType
<1>4. tm' = [tm EXCEPT ![t] = r]
  BY DEF IntervalSet
<1> HIDE DEF r
<1>5. r.st = "live" /\ r.frozen => r.pending + now > 0
  BY <1>3, Parts DEF Times
<1> QED
  BY <1>1, <1>3, <1>4, <1>5, StayStep

\* core_timer_delay.
LEMMA DelayStep ==
    ASSUME TimerInv, NEW t \in Timers, NEW add \in Intervals, Delay(t, add)
    PROVE  TimerInv'
<1>1. calls' \in 0..MaxCalls /\ stack' = stack /\ now' = now /\ Handle(t) /\ add > 0
  BY CallCounted DEF Delay
<1>2. tm[t] \in TimerType /\ add \in Nat /\ tm[t].at \in Int /\ tm[t].pending \in Int /\ now \in Int
  BY Parts, TimeAssumption DEF TimerType
<1>3. CASE tm[t].frozen
  <2> DEFINE r == [tm[t] EXCEPT !.pending = tm[t].pending + add]
  <2>1. /\ r \in TimerType /\ r.st = tm[t].st /\ r.at = tm[t].at /\ r.frozen = tm[t].frozen
        /\ r.just_added = tm[t].just_added /\ r.inside_call = tm[t].inside_call
        /\ r.delete_me = tm[t].delete_me /\ r.pending = tm[t].pending + add
    BY <1>2 DEF TimerType
  <2>2. tm' = [tm EXCEPT ![t] = r] /\ pd' = pd
    BY <1>3 DEF Delay
  <2> HIDE DEF r
  <2>3. r.st = "live" /\ r.frozen => r.pending + now > 0
    <3>1. tm[t].st = "live" /\ tm[t].frozen => tm[t].pending + now > 0
      BY Parts DEF Times
    <3> QED
      BY <1>1, <1>2, <2>1, <3>1
  <2> QED
    BY <1>1, <2>1, <2>2, <2>3, StayStep
<1>4. CASE ~tm[t].frozen
  <2>1. tm[t].at > 0
    BY <1>1, <1>4, Parts DEF Times, Handle
  <2>2. tm[t].at + add \in Int /\ tm[t].at + add > 0
    BY <1>1, <1>2, <2>1
  <2>3. Set([tm EXCEPT ![t] = tm[t]], pd, t, tm[t].at + add)
    <3>1. [tm EXCEPT ![t] = tm[t]] = tm
      BY Parts
    <3> QED
      BY <1>4, <3>1 DEF Delay
  <2> QED
    BY <1>1, <1>2, <1>4, <2>2, <2>3, SetStep DEF Handle
<1> QED
  BY <1>3, <1>4

\* core_timer_reset and core_timer_loop_reset.
LEMMA ResetStep ==
    ASSUME TimerInv, NEW t \in Timers, NEW time \in {now, pd.loop_time}, Reset(t, time)
    PROVE  TimerInv'
<1>1. calls' \in 0..MaxCalls /\ stack' = stack /\ now' = now /\ Handle(t)
  BY CallCounted DEF Reset
<1>2. /\ tm[t] \in TimerType /\ tm[t].in \in Nat /\ now \in Nat /\ now > 0
      /\ time \in Nat /\ time > 0
  BY Parts, BoundAssumption DEF TimerType, LoopType, Times
<1>3. CASE tm[t].frozen
  <2> DEFINE r == [tm[t] EXCEPT !.pending = tm[t].in]
  <2>1. /\ r \in TimerType /\ r.st = tm[t].st /\ r.at = tm[t].at /\ r.frozen = tm[t].frozen
        /\ r.just_added = tm[t].just_added /\ r.inside_call = tm[t].inside_call
        /\ r.delete_me = tm[t].delete_me /\ r.pending = tm[t].in
    BY <1>2 DEF TimerType
  <2>2. tm' = [tm EXCEPT ![t] = r] /\ pd' = pd
    BY <1>3 DEF Reset
  <2> HIDE DEF r
  <2>3. r.pending + now > 0
    BY <1>2, <2>1
  <2> QED
    BY <1>1, <2>1, <2>2, <2>3, StayStep
<1>4. CASE ~tm[t].frozen
  <2>1. time + tm[t].in \in Int /\ time + tm[t].in > 0
    BY <1>2
  <2>2. Set([tm EXCEPT ![t] = tm[t]], pd, t, time + tm[t].in)
    <3>1. [tm EXCEPT ![t] = tm[t]] = tm
      BY Parts
    <3> QED
      BY <1>4, <3>1 DEF Reset
  <2> QED
    BY <1>1, <1>2, <1>4, <2>1, <2>2, SetStep DEF Handle
<1> QED
  BY <1>3, <1>4


\* core_timer_add.
LEMMA AddStep ==
    ASSUME TimerInv, NEW in \in Intervals, Add(in)
    PROVE  TimerInv'
<1> DEFINE t == Fresh
           q == [NoTimer EXCEPT !.st = "live", !.in = in]
           r == [q EXCEPT !.just_added = TRUE, !.at = now + in, !.pending = 0]
<1>1. calls' \in 0..MaxCalls /\ stack' = stack /\ now' = now /\ t \in Timers
  BY CallCounted DEF Add
<1>2. in \in Nat /\ now \in Nat /\ now > 0 /\ now + in \in Int /\ now + in > 0
  BY Parts, TimeAssumption, BoundAssumption
<1>3. q \in TimerType /\ q.frozen = FALSE
  <2>1. NoTimer \in TimerType /\ NoTimer.frozen = FALSE
    <3>1. 0 \in Nat /\ 0 \in Int /\ FALSE \in BOOLEAN
      OBVIOUS
    <3> QED
      BY <3>1 DEF TimerType, NoTimer
  <2> QED
    BY <1>2, <2>1 DEF TimerType
<1>4. /\ r.st = "live" /\ r.frozen = FALSE /\ r.just_added = TRUE /\ r.inside_call = FALSE
      /\ r.delete_me = FALSE /\ r.at = now + in
  BY DEF NoTimer
<1>5. SortedBut(tm, pd.timers, t) /\ tm \in [Timers -> TimerType] /\ Fitting(pd)
  BY Parts DEF Sorted, SortedBut
<1>6. Set([tm EXCEPT ![t] = q], pd, t, now + in)
  BY DEF Add
<1>7. Fresh \in Nat /\ IsFiniteSet({u \in Timers : tm[u].st # "none"}) /\ t \notin {u \in Timers : tm[u].st # "none"}
  <2>1. Fresh \in Nat /\ IsFiniteSet({u \in Timers : tm[u].st # "none"})
    BY FreshFacts DEF TimerInv
  <2>2. tm[t].st # "none" <=> t < Fresh
    BY <1>1, Parts DEF Times
  <2> QED
    BY <2>1, <2>2
<1> HIDE DEF q
<1>8. /\ r \in TimerType /\ tm' = [tm EXCEPT ![t] = r]
      /\ Placing(pd, pd', t) /\ Sorted(tm', pd'.timers)
      /\ t \in Members(pd'.timers) /\ t \notin Members(pd'.suspended)
  BY <1>1, <1>2, <1>3, <1>5, <1>6, SetPlaced
<1>9. \A u \in Timers : tm'[u].st # "none" <=> u < Fresh'
  <2> DEFINE S == {u \in Timers : tm[u].st # "none"}
             U == {u \in Timers : tm'[u].st # "none"}
  <2>1. U = S \cup {t}
    <3> HIDE DEF r, t
    <3> QED
      BY <1>1, <1>4, <1>5, <1>8
  <2>2. Cardinality(U) = Cardinality(S) + 1
    BY <1>7, <2>1, FS_AddElement
  <2>3. Fresh = Cardinality(S) + 1 /\ Fresh' = Cardinality(U) + 1
    BY DEF Fresh
  <2> HIDE DEF S, U, t
  <2>4. Fresh' = Fresh + 1
    BY <2>2, <2>3
  <2>5. ASSUME NEW u \in Timers PROVE tm'[u].st # "none" <=> u < Fresh'
    <3>1. tm[u].st # "none" <=> u < Fresh
      BY Parts DEF Times
    <3>2. tm'[u].st # "none" <=> tm[u].st # "none" \/ u = Fresh
      BY <2>1 DEF S, U, t
    <3>3. u \in Nat
      BY DEF Timers
    <3> QED
      BY <1>7, <2>4, <3>1, <3>2, <3>3
  <2> QED
    BY <2>5
<1>10. tm[t].inside_call = FALSE
  <2>1. tm[t].st = "none" /\ tm[t].inside_call \in BOOLEAN
    BY <1>1, <1>5, <1>7 DEF TimerType
  <2>2. TicksOf(tm, stack, t)
    BY <1>1, Parts
  <2> QED
    BY <2>1, <2>2 DEF TicksOf
<1> HIDE DEF r, t
<1> QED
  BY <1>1, <1>2, <1>4, <1>8, <1>9, <1>10, MoveStep

\* core_timer_del.
LEMMA DelStep ==
    ASSUME TimerInv, NEW t \in Timers, Del(t)
    PROVE  TimerInv'
<1>1. calls' \in 0..MaxCalls /\ stack' = stack /\ now' = now /\ Handle(t) /\ DelAllowed(t)
  BY CallCounted DEF Del
<1>2. tm[t] \in TimerType /\ tm \in [Timers -> TimerType] /\ TicksOf(tm, stack, t)
  BY Parts
<1>3. CASE tm[t].inside_call
  <2> DEFINE r == [tm[t] EXCEPT !.delete_me = TRUE]
  <2>1. /\ r \in TimerType /\ r.st = tm[t].st /\ r.at = tm[t].at /\ r.frozen = tm[t].frozen
        /\ r.just_added = tm[t].just_added /\ r.inside_call = tm[t].inside_call
        /\ r.pending = tm[t].pending
    BY <1>2 DEF TimerType
  <2>2. tm' = [tm EXCEPT ![t] = r] /\ pd' = pd
    BY <1>3 DEF Del
  <2> HIDE DEF r
  <2>3. tm' \in [Timers -> TimerType] /\ tm'[t] = r /\ \A u \in Timers \ {t} : tm'[u] = tm[u]
    BY <1>2, <2>1, <2>2
  <2>4. \A u \in Timers : /\ tm'[u].st = tm[u].st /\ tm'[u].at = tm[u].at
                          /\ tm'[u].frozen = tm[u].frozen /\ tm'[u].just_added = tm[u].just_added
                          /\ tm'[u].inside_call = tm[u].inside_call
                          /\ tm'[u].pending = tm[u].pending
    BY <2>1, <2>3
  <2>5. TypeOK'
    BY <1>1, <2>2, <2>3, Parts DEF TypeOK
  <2>6. Lists'
    BY <2>2, <2>4, Parts DEF Lists, Sorted
  <2>7. Times'
    <3>1. \A u \in Timers : tm'[u].st # "none" <=> u < Fresh'
      BY <2>4, FreshKept
    <3> QED
      BY <1>1, <2>2, <2>4, <3>1, Parts DEF Times
  <2>8. Ticks'
    <3> SUFFICES ASSUME NEW u \in Timers PROVE TicksOf(tm', stack, u)
      BY <1>1 DEF Ticks
    <3>1. TicksOf(tm, stack, u)
      BY Parts
    <3>2. CASE u = t
      BY <1>3, <2>4, <3>1, <3>2 DEF TicksOf
    <3>3. CASE u # t
      BY <2>3, <3>1, <3>3 DEF TicksOf
    <3> QED
      BY <3>2, <3>3
  <2>9. \A u \in Timers : Behind(tm, pd, u) => Behind(tm', pd', u)
    BY <2>2, <2>4 DEF Behind
  <2>10. Walks(tm', pd', stack)
    <3>1. Walking(stack) => /\ Walk(stack).done \subseteq Timers
                            /\ Walk(stack).pc = "called" => Walk(stack).t \in Timers
      BY Parts, StackFacts
    <3> QED
      BY <2>2, <2>9, <3>1, Parts DEF Walks
  <2>11. ASSUME NEW u \in Timers PROVE Deleted(tm', pd', stack, u)
    <3>1. CASE u # t
      BY <2>3, <2>9, <3>1, Parts DEF Deleted
    <3>2. CASE u = t
      <4> SUFFICES ASSUME "deleted" \notin Uses
                   PROVE  ~Starting(stack) /\ Walking(stack) /\ Walk(stack).pc = "called" /\ Walk(stack).t = t
        BY <3>2 DEF Deleted
      <4>1. Top.k = "tick" /\ Top.t = t
        BY <1>1, <1>3 DEF DelAllowed
      <4>2. stack # <<>>
        <5>1. PICK i \in DOMAIN stack : TRUE
          BY <1>2, <1>3 DEF TicksOf, OnStack
        <5> QED
          BY <5>1
      <4>3. stack[1].k = "tick" /\ stack[1].t = t
        BY <4>1, <4>2, Parts, StackFacts DEF Top
      <4> QED
        BY <4>2, <4>3, Parts, StackFacts DEF Starting
    <3> QED
      BY <3>1, <3>2
  <2>12. Created(tm', stack)
    <3>1. \A u \in Timers : tm[u].st # "none" => tm'[u].st # "none"
      BY <2>4
    <3>2. stack \in Seq(FrameType) /\ Created(tm, stack)
      BY Parts
    <3> QED
      BY <3>1, <3>2, CreatedKept
  <2> QED
    BY <1>1, <2>5, <2>6, <2>7, <2>8, <2>10, <2>11, <2>12, Parts DEF TimerInv
<1>4. CASE ~tm[t].inside_call
  <2> DEFINE r == [tm[t] EXCEPT !.st = "gone", !.just_added = FALSE]
  <2>1. /\ r \in TimerType /\ r.st = "gone" /\ r.inside_call = tm[t].inside_call
        /\ r.delete_me = tm[t].delete_me
    BY <1>2 DEF TimerType
  <2>2. tm' = [tm EXCEPT ![t] = r] /\ pd' = LoopClear(pd, t)
    BY <1>2, <1>4 DEF Del, EflDel
  <2> HIDE DEF r
  <2>3. Placing(pd, pd', t) /\ t \notin Members(pd'.timers) /\ t \notin Members(pd'.suspended)
    BY <2>2, Parts, LoopClearPlaces
  <2>4. \A u \in Timers : tm'[u].st # "none" <=> u < Fresh'
    <3>1. \A u \in Timers : tm'[u].st # "none" <=> tm[u].st # "none"
      BY <1>1, <1>2, <2>1, <2>2 DEF Handle
    <3> QED
      BY <3>1, FreshKept
  <2>5. Sorted(tm', pd'.timers)
    <3> SUFFICES ASSUME NEW a \in Timers, NEW b \in Timers, Before(pd'.timers, a, b)
                 PROVE  tm'[a].at <= tm'[b].at
      BY DEF Sorted
    <3>1. pd'.timers \in Seq(Timers)
      BY <2>3, FittingParts DEF Placing
    <3>2. a # t /\ b # t
      BY <2>3, <3>1, SeqFacts
    <3>3. Before(pd.timers, a, b)
      BY <2>3, <3>2 DEF Placing
    <3>4. tm'[a] = tm[a] /\ tm'[b] = tm[b]
      BY <1>2, <2>2, <3>2
    <3> QED
      BY <3>3, <3>4, Parts DEF Sorted
  <2>6. ~r.delete_me /\ ~r.inside_call
    BY <1>1, <1>4, <2>1 DEF Handle
  <2> QED
    BY <1>1, <1>4, <2>1, <2>2, <2>3, <2>4, <2>5, <2>6, MoveStep
<1> QED
  BY <1>3, <1>4

\* core_timer_freeze.
LEMMA FreezeStep ==
    ASSUME TimerInv, NEW t \in Timers, Freeze(t)
    PROVE  TimerInv'
<1>1. calls' \in 0..MaxCalls /\ stack' = stack /\ now' = now /\ Handle(t)
  BY CallCounted DEF Freeze
<1>2. /\ tm[t] \in TimerType /\ tm[t].at \in Int /\ tm[t].freezes \in Nat /\ tm[t].freezes + 1 \in Nat
      /\ tm \in [Timers -> TimerType] /\ pd.loop_time \in Nat /\ now \in Nat /\ pd.loop_time <= now
  <2>1. tm[t] \in TimerType /\ tm \in [Timers -> TimerType]
    BY Parts
  <2>2. tm[t].at \in Int /\ tm[t].freezes \in Nat
    BY <2>1 DEF TimerType
  <2>3. pd.loop_time \in Nat /\ now \in Nat /\ pd.loop_time <= now
    BY Parts DEF LoopType, Times
  <2> QED
    BY <2>1, <2>2, <2>3
<1>3. CASE tm[t].frozen
  <2> DEFINE r == [tm[t] EXCEPT !.freezes = tm[t].freezes + 1]
  <2>1. /\ r \in TimerType /\ r.st = tm[t].st /\ r.at = tm[t].at /\ r.frozen = tm[t].frozen
        /\ r.just_added = tm[t].just_added /\ r.inside_call = tm[t].inside_call
        /\ r.delete_me = tm[t].delete_me /\ r.pending = tm[t].pending
    BY <1>2 DEF TimerType
  <2>2. tm' = [tm EXCEPT ![t] = r] /\ pd' = pd
    BY <1>3 DEF Freeze
  <2> HIDE DEF r
  <2>3. r.st = "live" /\ r.frozen => r.pending + now > 0
    BY <2>1, Parts DEF Times
  <2> QED
    BY <1>1, <2>1, <2>2, <2>3, StayStep
<1>4. CASE ~tm[t].frozen
  <2> DEFINE p == tm[t].at - pd.loop_time
             r == [tm[t] EXCEPT !.freezes = tm[t].freezes + 1, !.frozen = TRUE, !.at = 0,
                                !.pending = p]
  <2>0. p \in Int /\ 0 \in Int /\ TRUE \in BOOLEAN
    BY <1>2
  <2>1. /\ r \in TimerType /\ r.st = tm[t].st /\ r.frozen = TRUE
        /\ r.inside_call = tm[t].inside_call /\ r.delete_me = tm[t].delete_me /\ r.pending = p
    <3> HIDE DEF p
    <3>1. r \in TimerType
      BY <1>2, <2>0 DEF TimerType
    <3> QED
      BY <1>2, <3>1 DEF TimerType
  <2>2. tm' = [tm EXCEPT ![t] = r] /\ pd' = Instanciate(tm', pd, t)
    BY <1>2, <1>4 DEF Freeze
  <2>3. r.pending + now > 0
    <3>1. tm[t].at > 0
      BY <1>1, <1>4, Parts DEF Times, Handle
    <3>2. p + now > 0
      BY <1>2, <3>1
    <3> HIDE DEF r, p
    <3> QED
      BY <2>1, <3>2
  <2> HIDE DEF r
  <2>4. tm' \in [Timers -> TimerType] /\ tm'[t] = r /\ \A u \in Timers \ {t} : tm'[u] = tm[u]
    BY <1>2, <2>1, <2>2
  <2>5. SortedBut(tm', pd.timers, t)
    BY <2>4, Parts DEF Sorted, SortedBut
  <2>6. /\ Placing(pd, pd', t) /\ Sorted(tm', pd'.timers)
        /\ t \notin Members(pd'.timers) /\ t \in Members(pd'.suspended)
    <3>1. tm'[t].frozen
      BY <2>1, <2>4
    <3> QED
      BY <2>2, <2>4, <2>5, <3>1, Parts, InstanciatePlaces
  <2>7. \A u \in Timers : tm'[u].st # "none" <=> u < Fresh'
    <3>1. \A u \in Timers : tm'[u].st # "none" <=> tm[u].st # "none"
      BY <2>1, <2>4
    <3> QED
      BY <3>1, FreshKept
  <2> QED
    BY <1>1, <2>1, <2>2, <2>3, <2>6, <2>7, MoveStep DEF Handle
<1> QED
  BY <1>3, <1>4

\* core_timer_thaw.
LEMMA ThawStep ==
    ASSUME TimerInv, NEW t \in Timers, Thaw(t)
    PROVE  TimerInv'
<1>1. calls' \in 0..MaxCalls /\ stack' = stack /\ now' = now /\ Handle(t) /\ tm[t].freezes > 0
  BY CallCounted DEF Thaw
<1>2. /\ tm[t] \in TimerType /\ tm[t].pending \in Int /\ tm[t].freezes \in Nat
      /\ tm \in [Timers -> TimerType] /\ now \in Nat
  BY Parts DEF TimerType
<1>3. tm[t].freezes - 1 \in Nat
  BY <1>1, <1>2
<1> DEFINE q == [tm[t] EXCEPT !.freezes = tm[t].freezes - 1, !.frozen = FALSE]
<1>4. /\ q \in TimerType /\ q.st = tm[t].st /\ q.at = tm[t].at /\ q.frozen = FALSE
      /\ q.just_added = tm[t].just_added /\ q.inside_call = tm[t].inside_call
      /\ q.delete_me = tm[t].delete_me /\ q.pending = tm[t].pending
  BY <1>2, <1>3 DEF TimerType
<1>5. [tm EXCEPT ![t].freezes = @ - 1, ![t].frozen = FALSE] = [tm EXCEPT ![t] = q]
  BY <1>2
<1>6. CASE ~tm[t].frozen
  <2>1. tm' = [tm EXCEPT ![t] = q] /\ pd' = pd
    BY <1>5, <1>6 DEF Thaw
  <2>2. q.frozen = tm[t].frozen
    BY <1>2, <1>4, <1>6 DEF TimerType
  <2> HIDE DEF q
  <2> QED
    BY <1>1, <1>4, <2>1, <2>2, StayStep
<1>7. CASE tm[t].frozen
  <2> DEFINE d == [pd EXCEPT !.suspended = Without(@, t)]
  <2>1. Set([tm EXCEPT ![t] = q], d, t, tm[t].pending + now)
    BY <1>5, <1>7 DEF Thaw
  <2>2. tm[t].pending + now \in Int /\ tm[t].pending + now > 0
    BY <1>1, <1>2, <1>7, Parts DEF Times, Handle
  <2> HIDE DEF q
  <2>3. q.st = "live" /\ ~q.frozen
    BY <1>1, <1>4 DEF Handle
  <2> QED
    BY <1>1, <1>4, <1>7, <2>1, <2>2, <2>3, SetStep
<1> QED
  BY <1>6, <1>7

\* Time passes.
LEMMA PassStep == ASSUME TimerInv, Pass PROVE TimerInv'
<1>1. now' = now + 1 /\ now < MaxTime /\ UNCHANGED <<tm, pd, stack, calls>>
  BY DEF Pass
<1>2. TypeOK'
  BY <1>1, Parts, BoundAssumption DEF TypeOK
<1>3. Times'
  <2>1. now \in Nat /\ now' \in Nat /\ now' > now /\ pd.loop_time \in Nat
    BY <1>1, Parts DEF LoopType
  <2>2. \A t \in Timers : tm[t].pending \in Int
    BY Parts DEF TimerType
  <2>3. \A t \in Timers : tm[t].pending + now > 0 => tm[t].pending + now' > 0
    BY <2>1, <2>2
  <2>4. pd.loop_time > 0 /\ pd.loop_time <= now'
    BY <2>1, Parts DEF Times
  <2>5. \A t \in Timers : tm'[t].st # "none" <=> t < Fresh'
    BY <1>1, FreshKept
  <2> QED
    BY <1>1, <2>3, <2>4, <2>5, Parts DEF Times
<1> QED
  BY <1>1, <1>2, <1>3 DEF TimerInv, Lists, Ticks

-----------------------------------------------------------------------------
(* The stack *)

\* Frames that are no callbacks of t come or go on top of s.
LEMMA ShiftTicks ==
    ASSUME NEW s \in Seq(FrameType), NEW n \in Seq(FrameType), NEW k \in Nat, NEW t,
           Len(n) = Len(s) + k, \A i \in 1..Len(s) : n[i + k] = s[i],
           \A i \in 1..k : n[i].k # "tick" \/ n[i].t # t
    PROVE  (OnStack(n, t) <=> OnStack(s, t)) /\ (Knowing(n, t) <=> Knowing(s, t))
<1>1. Len(s) \in Nat /\ DOMAIN s = 1..Len(s) /\ Len(n) \in Nat /\ DOMAIN n = 1..Len(n)
  OBVIOUS
<1>2. \A i \in 1..Len(s) : i + k \in 1..Len(n)
  BY <1>1
<1>3. \A i \in 1..Len(n) : i > k => i - k \in 1..Len(s) /\ (i - k) + k = i
  BY <1>1
<1>4. \A i \in 1..Len(n) : i <= k => i \in 1..k
  BY <1>1
<1>5. \A i \in 1..Len(s) : TickOf(n, i + k, t) <=> TickOf(s, i, t)
  BY <1>1, <1>2 DEF TickOf
<1>6. \A i \in 1..Len(n) : TickOf(n, i, t) => i > k /\ TickOf(s, i - k, t)
  <2> SUFFICES ASSUME NEW i \in 1..Len(n), TickOf(n, i, t) PROVE i > k /\ TickOf(s, i - k, t)
    OBVIOUS
  <2>1. ~(i <= k)
    BY <1>4 DEF TickOf
  <2>2. i > k
    BY <1>1, <2>1
  <2>3. i - k \in 1..Len(s) /\ (i - k) + k = i
    BY <1>3, <2>2
  <2> QED
    BY <1>5, <2>2, <2>3
<1>7. OnStack(n, t) <=> OnStack(s, t)
  <2>1. ASSUME OnStack(n, t) PROVE OnStack(s, t)
    <3>1. PICK i \in 1..Len(n) : TickOf(n, i, t)
      BY <1>1, <2>1 DEF OnStack
    <3>2. TickOf(s, i - k, t) /\ i - k \in DOMAIN s
      BY <1>1, <1>3, <1>6, <3>1
    <3> QED
      BY <3>2 DEF OnStack
  <2>2. ASSUME OnStack(s, t) PROVE OnStack(n, t)
    BY <1>1, <1>2, <1>5, <2>2 DEF OnStack
  <2> QED
    BY <2>1, <2>2
<1>8. ASSUME NEW i \in 1..Len(s), NEW m \in Nat, m = i + k
      PROVE  (\E j \in DOMAIN n : j > m /\ TickOf(n, j, t))
               <=> (\E j \in DOMAIN s : j > i /\ TickOf(s, j, t))
  <2>1. ASSUME NEW j \in DOMAIN n, j > m, TickOf(n, j, t)
        PROVE  \E l \in DOMAIN s : l > i /\ TickOf(s, l, t)
    <3>1. j > k /\ TickOf(s, j - k, t) /\ j - k \in DOMAIN s
      BY <1>1, <1>3, <1>6, <2>1
    <3>2. j - k > i
      BY <1>1, <1>8, <2>1
    <3> QED
      BY <3>1, <3>2
  <2>2. ASSUME NEW j \in DOMAIN s, j > i, TickOf(s, j, t)
        PROVE  \E l \in DOMAIN n : l > m /\ TickOf(n, l, t)
    <3>1. j + k \in DOMAIN n /\ TickOf(n, j + k, t)
      BY <1>1, <1>2, <1>5, <2>2
    <3>2. j + k > m
      BY <1>1, <1>8, <2>2
    <3> QED
      BY <3>1, <3>2
  <2> QED
    BY <2>1, <2>2
<1>9. ASSUME Knowing(s, t) PROVE Knowing(n, t)
  <2> SUFFICES ASSUME NEW m \in DOMAIN n, TickOf(n, m, t)
               PROVE  n[m].inside_call <=> \E j \in DOMAIN n : j > m /\ TickOf(n, j, t)
    BY DEF Knowing
  <2>1. m - k \in 1..Len(s) /\ (m - k) + k = m /\ TickOf(s, m - k, t) /\ m \in Nat
    BY <1>1, <1>3, <1>6
  <2>2. n[m] = s[m - k]
    BY <2>1
  <2>3. s[m - k].inside_call <=> \E j \in DOMAIN s : j > m - k /\ TickOf(s, j, t)
    BY <1>1, <1>9, <2>1 DEF Knowing
  <2> QED
    BY <1>8, <2>1, <2>2, <2>3
<1>10. ASSUME Knowing(n, t) PROVE Knowing(s, t)
  <2> SUFFICES ASSUME NEW i \in DOMAIN s, TickOf(s, i, t)
               PROVE  s[i].inside_call <=> \E j \in DOMAIN s : j > i /\ TickOf(s, j, t)
    BY DEF Knowing
  <2>1. i \in 1..Len(s) /\ i + k \in DOMAIN n /\ i + k \in Nat /\ TickOf(n, i + k, t) /\ n[i + k] = s[i]
    BY <1>1, <1>2, <1>5
  <2>2. n[i + k].inside_call <=> \E j \in DOMAIN n : j > i + k /\ TickOf(n, j, t)
    BY <1>10, <2>1 DEF Knowing
  <2> QED
    BY <1>8, <2>1, <2>2
<1> QED
  BY <1>7, <1>9, <1>10

\* A callback of t is on top of s.
LEMMA ConsTicks ==
    ASSUME NEW s \in Seq(FrameType), NEW n \in Seq(FrameType), NEW t,
           Len(n) = Len(s) + 1, \A i \in 1..Len(s) : n[i + 1] = s[i],
           n[1].k = "tick", n[1].t = t
    PROVE  /\ OnStack(n, t)
           /\ Knowing(n, t) <=> Knowing(s, t) /\ (n[1].inside_call <=> OnStack(s, t))
<1>1. Len(s) \in Nat /\ DOMAIN s = 1..Len(s) /\ Len(n) \in Nat /\ DOMAIN n = 1..Len(n) /\ 1 \in DOMAIN n
  OBVIOUS
<1>2. \A i \in 1..Len(s) : i + 1 \in 1..Len(n)
  BY <1>1
<1>3. \A i \in 1..Len(n) : i > 1 => i - 1 \in 1..Len(s) /\ (i - 1) + 1 = i
  BY <1>1
<1>5. \A i \in 1..Len(s) : TickOf(n, i + 1, t) <=> TickOf(s, i, t)
  BY <1>1, <1>2 DEF TickOf
<1>6. \A i \in 1..Len(n) : i > 1 /\ TickOf(n, i, t) => TickOf(s, i - 1, t)
  BY <1>3, <1>5
<1>7. TickOf(n, 1, t)
  BY <1>1 DEF TickOf
<1>8. ASSUME NEW i \in 0..Len(s), NEW m \in Nat, m = i + 1
      PROVE  (\E j \in DOMAIN n : j > m /\ TickOf(n, j, t))
               <=> (\E j \in DOMAIN s : j > i /\ TickOf(s, j, t))
  <2>1. ASSUME NEW j \in DOMAIN n, j > m, TickOf(n, j, t)
        PROVE  \E l \in DOMAIN s : l > i /\ TickOf(s, l, t)
    <3>1. j > 1
      BY <1>1, <1>8, <2>1
    <3>2. TickOf(s, j - 1, t) /\ j - 1 \in DOMAIN s
      BY <1>1, <1>3, <1>6, <2>1, <3>1
    <3>3. j - 1 > i
      BY <1>1, <1>8, <2>1
    <3> QED
      BY <3>2, <3>3
  <2>2. ASSUME NEW j \in DOMAIN s, j > i, TickOf(s, j, t)
        PROVE  \E l \in DOMAIN n : l > m /\ TickOf(n, l, t)
    <3>1. j + 1 \in DOMAIN n /\ TickOf(n, j + 1, t)
      BY <1>1, <1>2, <1>5, <2>2
    <3>2. j + 1 > m
      BY <1>1, <1>8, <2>2
    <3> QED
      BY <3>1, <3>2
  <2> QED
    BY <2>1, <2>2
<1>9. (\E j \in DOMAIN n : j > 1 /\ TickOf(n, j, t)) <=> OnStack(s, t)
  <2>1. (\E j \in DOMAIN n : j > 1 /\ TickOf(n, j, t))
          <=> (\E j \in DOMAIN s : j > 0 /\ TickOf(s, j, t))
    BY <1>1, <1>8
  <2>2. (\E j \in DOMAIN s : j > 0 /\ TickOf(s, j, t)) <=> OnStack(s, t)
    BY <1>1 DEF OnStack
  <2> QED
    BY <2>1, <2>2
<1>10. ASSUME Knowing(s, t), n[1].inside_call <=> OnStack(s, t) PROVE Knowing(n, t)
  <2> SUFFICES ASSUME NEW m \in DOMAIN n, TickOf(n, m, t)
               PROVE  n[m].inside_call <=> \E j \in DOMAIN n : j > m /\ TickOf(n, j, t)
    BY DEF Knowing
  <2>1. CASE m = 1
    BY <1>9, <1>10, <2>1
  <2>2. CASE m > 1
    <3>1. m - 1 \in 1..Len(s) /\ m - 1 \in 0..Len(s) /\ (m - 1) + 1 = m /\ TickOf(s, m - 1, t) /\ m \in Nat
      BY <1>1, <1>3, <1>6, <2>2
    <3>2. n[m] = s[m - 1]
      BY <3>1
    <3>3. s[m - 1].inside_call <=> \E j \in DOMAIN s : j > m - 1 /\ TickOf(s, j, t)
      BY <1>1, <1>10, <3>1 DEF Knowing
    <3> QED
      BY <1>8, <3>1, <3>2, <3>3
  <2> QED
    BY <1>1, <2>1, <2>2
<1>11. ASSUME Knowing(n, t) PROVE Knowing(s, t) /\ (n[1].inside_call <=> OnStack(s, t))
  <2>1. n[1].inside_call <=> OnStack(s, t)
    BY <1>1, <1>7, <1>9, <1>11 DEF Knowing
  <2>2. ASSUME NEW i \in DOMAIN s, TickOf(s, i, t)
        PROVE  s[i].inside_call <=> \E j \in DOMAIN s : j > i /\ TickOf(s, j, t)
    <3>1. /\ i \in 0..Len(s) /\ i + 1 \in DOMAIN n /\ i + 1 \in Nat /\ TickOf(n, i + 1, t)
          /\ n[i + 1] = s[i]
      BY <1>1, <1>2, <1>5, <2>2
    <3>2. n[i + 1].inside_call <=> \E j \in DOMAIN n : j > i + 1 /\ TickOf(n, j, t)
      BY <1>11, <3>1 DEF Knowing
    <3> QED
      BY <1>8, <3>1, <3>2
  <2> QED
    BY <2>1, <2>2 DEF Knowing
<1> QED
  BY <1>1, <1>7, <1>10, <1>11 DEF OnStack

\* The frame on top leaves.
LEMMA PopStack ==
    ASSUME NEW s, Nested(s), s # <<>>
    PROVE  /\ <<>> \o Tail(s) = Tail(s) /\ Nested(Tail(s)) /\ Len(s) = Len(Tail(s)) + 1
           /\ \A i \in 1..Len(Tail(s)) : s[i + 1] = Tail(s)[i]
           /\ Tail(s) # <<>> => Tail(s)[1] = s[2] /\ Follows(s[1], s[2])
<1> DEFINE n == Tail(s)
<1>1. s \in Seq(FrameType) /\ Len(s) \in Nat /\ Len(s) > 0 /\ DOMAIN s = 1..Len(s)
  BY StackFacts DEF Nested
<1>2. /\ n \in Seq(FrameType) /\ Len(n) = Len(s) - 1 /\ \A i \in 1..Len(n) : n[i] = s[i + 1]
      /\ <<>> \o n = n
  BY <1>1
<1> HIDE DEF n
<1>3. DOMAIN n = 1..Len(n) /\ Len(n) \in Nat
  BY <1>2
<1>4. \A i \in DOMAIN n : FrameOK(n[i])
  BY <1>1, <1>2, <1>3 DEF Nested
<1>5. ASSUME NEW i \in DOMAIN n, i < Len(n) PROVE Follows(n[i], n[i + 1])
  <2>1. i + 1 \in DOMAIN s /\ i + 1 < Len(s) /\ n[i] = s[i + 1] /\ n[i + 1] = s[(i + 1) + 1]
    BY <1>1, <1>2, <1>3, <1>5
  <2> QED
    BY <2>1 DEF Nested
<1>6. n # <<>> => n[Len(n)].k = "iterate" /\ n[1] = s[2] /\ Follows(s[1], s[2])
  <2> SUFFICES ASSUME n # <<>> PROVE n[Len(n)].k = "iterate" /\ n[1] = s[2] /\ Follows(s[1], s[2])
    OBVIOUS
  <2>1. Len(n) > 0
    BY <1>2
  <2>2. n[Len(n)] = s[Len(s)] /\ n[1] = s[2] /\ 1 \in DOMAIN s /\ 1 < Len(s)
    BY <1>1, <1>2, <2>1
  <2> QED
    BY <2>2 DEF Nested
<1>7. Len(s) = Len(n) + 1
  BY <1>1, <1>2
<1> QED
  BY <1>2, <1>4, <1>5, <1>6, <1>7 DEF Nested, n

\* A frame comes on top.
LEMMA PushStack ==
    ASSUME NEW s, Nested(s), NEW f \in FrameType, FrameOK(f),
           IF s = <<>> THEN f.k = "iterate" ELSE Follows(f, s[1])
    PROVE  /\ Nested(<<f>> \o s) /\ Len(<<f>> \o s) = Len(s) + 1 /\ (<<f>> \o s)[1] = f
           /\ \A i \in 1..Len(s) : (<<f>> \o s)[i + 1] = s[i]
           /\ <<f>> \o s # <<>>
<1> DEFINE n == <<f>> \o s
<1>1. s \in Seq(FrameType) /\ Len(s) \in Nat /\ DOMAIN s = 1..Len(s)
  BY DEF Nested
<1>2. n \in Seq(FrameType) /\ Len(n) = Len(s) + 1 /\ n[1] = f /\ \A i \in 1..Len(s) : n[i + 1] = s[i]
  BY <1>1
<1> HIDE DEF n
<1>3. DOMAIN n = 1..Len(n) /\ Len(n) \in Nat /\ n # <<>>
  BY <1>1, <1>2
<1>4. \A i \in DOMAIN n : i = 1 \/ (i > 1 /\ i - 1 \in DOMAIN s /\ n[i] = s[i - 1])
  <2> SUFFICES ASSUME NEW i \in DOMAIN n, i # 1 PROVE i > 1 /\ i - 1 \in DOMAIN s /\ n[i] = s[i - 1]
    OBVIOUS
  <2>1. i > 1 /\ i - 1 \in 1..Len(s) /\ (i - 1) + 1 = i
    BY <1>1, <1>2, <1>3
  <2> QED
    BY <1>1, <1>2, <2>1
<1>5. \A i \in DOMAIN n : FrameOK(n[i])
  BY <1>2, <1>4 DEF Nested
<1>6. ASSUME NEW i \in DOMAIN n, i < Len(n) PROVE Follows(n[i], n[i + 1])
  <2>1. CASE i = 1
    <3>1. s # <<>> /\ 1 \in 1..Len(s)
      BY <1>1, <1>2, <1>6, <2>1
    <3>2. n[1 + 1] = s[1]
      BY <1>2, <3>1
    <3> QED
      BY <1>2, <2>1, <3>1, <3>2
  <2>2. CASE i > 1
    <3>1. i - 1 \in DOMAIN s /\ i - 1 < Len(s) /\ (i - 1) + 1 = i /\ i \in 1..Len(s)
      BY <1>1, <1>2, <1>3, <1>6, <2>2
    <3>2. n[i] = s[i - 1] /\ n[i + 1] = s[i]
      BY <1>2, <1>4, <2>2, <3>1
    <3> QED
      BY <3>1, <3>2 DEF Nested
  <2> QED
    BY <1>3, <2>1, <2>2
<1>7. n[Len(n)].k = "iterate"
  <2>1. CASE s = <<>>
    BY <1>1, <1>2, <2>1
  <2>2. CASE s # <<>>
    <3>1. Len(s) \in 1..Len(s)
      BY <1>1, <2>2
    <3> QED
      BY <1>2, <2>2, <3>1 DEF Nested
  <2> QED
    BY <2>1, <2>2
<1> QED
  BY <1>2, <1>3, <1>5, <1>6, <1>7 DEF Nested, n


\* Two frames come on top, one after the other.
LEMMA TwoOnTop ==
    ASSUME NEW s \in Seq(FrameType), NEW f \in FrameType, NEW g \in FrameType
    PROVE  <<g, f>> \o s = <<g>> \o (<<f>> \o s)
<1> DEFINE p == <<g, f>> \o s
           m == <<f>> \o s
           q == <<g>> \o m
<1>1. Len(s) \in Nat
  OBVIOUS
<1>2. /\ m \in Seq(FrameType) /\ Len(m) = Len(s) + 1
      /\ \A i \in 1..Len(s) + 1 : m[i] = IF i = 1 THEN f ELSE s[i - 1]
  BY <1>1
<1>3. /\ p \in Seq(FrameType) /\ Len(p) = Len(s) + 2
      /\ \A i \in 1..Len(s) + 2 : p[i] = IF i = 1 THEN g ELSE IF i = 2 THEN f ELSE s[i - 2]
  BY <1>1
<1> HIDE DEF m, p
<1>4. /\ q \in Seq(FrameType) /\ Len(q) = Len(m) + 1
      /\ \A i \in 1..Len(m) + 1 : q[i] = IF i = 1 THEN g ELSE m[i - 1]
  BY <1>2
<1> HIDE DEF q
<1>5. ASSUME NEW i \in 1..Len(s) + 2 PROVE p[i] = q[i]
  <2>1. CASE i = 1
    BY <1>1, <1>2, <1>3, <1>4, <2>1
  <2>2. CASE i = 2
    BY <1>1, <1>2, <1>3, <1>4, <2>2
  <2>3. CASE i > 2
    <3>1. i - 1 \in 1..Len(s) + 1 /\ i - 1 # 1 /\ (i - 1) - 1 = i - 2 /\ i \in 1..Len(m) + 1
      BY <1>1, <1>2, <2>3
    <3>2. q[i] = m[i - 1] /\ p[i] = s[i - 2]
      BY <1>3, <1>4, <2>3, <3>1
    <3> QED
      BY <1>2, <3>1, <3>2
  <2> QED
    BY <1>1, <2>1, <2>2, <2>3
<1>6. Len(p) = Len(q) /\ \A i \in 1..Len(p) : p[i] = q[i]
  BY <1>1, <1>2, <1>3, <1>4, <1>5
<1>7. p = q
  BY <1>3, <1>4, <1>6, SeqEqual
<1> QED
  BY <1>7 DEF p, q, m

\* The frame on top is replaced by one of its kind that is no callback.
LEMMA ReplaceTop ==
    ASSUME NEW s, Nested(s), s # <<>>, NEW f \in FrameType, FrameOK(f),
           f.k = s[1].k, f.k \in {"walk", "iterate"}
    PROVE  /\ Nested(<<f>> \o Tail(s)) /\ <<f>> \o Tail(s) # <<>> /\ (<<f>> \o Tail(s))[1] = f
           /\ \A t : OnStack(<<f>> \o Tail(s), t) <=> OnStack(s, t)
           /\ \A t : Knowing(<<f>> \o Tail(s), t) <=> Knowing(s, t)
           /\ \A ts : Created(ts, s) /\ (f.t # None => ts[f.t].st # "none")
                        => Created(ts, <<f>> \o Tail(s))
<1> DEFINE m == Tail(s)
           n == <<f>> \o m
<1>1. /\ Nested(m) /\ Len(s) = Len(m) + 1 /\ \A i \in 1..Len(m) : s[i + 1] = m[i]
      /\ m # <<>> => m[1] = s[2] /\ Follows(s[1], s[2])
  BY PopStack
<1>2. s \in Seq(FrameType) /\ m \in Seq(FrameType) /\ Len(m) \in Nat
  BY <1>1 DEF Nested
<1> HIDE DEF m
<1>3. IF m = <<>> THEN f.k = "iterate" ELSE Follows(f, m[1])
  <2>1. CASE m = <<>>
    <3>1. Len(s) = 1
      BY <1>1, <2>1
    <3> QED
      BY <2>1, <3>1 DEF Nested
  <2>2. CASE m # <<>>
    BY <1>1, <2>2 DEF Follows
  <2> QED
    BY <2>1, <2>2
<1>4. /\ Nested(n) /\ Len(n) = Len(m) + 1 /\ n[1] = f /\ \A i \in 1..Len(m) : n[i + 1] = m[i]
      /\ n # <<>>
  BY <1>1, <1>3, PushStack
<1> HIDE DEF n
<1>5. n \in Seq(FrameType)
  BY <1>4 DEF Nested
<1>6. ASSUME NEW t PROVE (OnStack(n, t) <=> OnStack(s, t)) /\ (Knowing(n, t) <=> Knowing(s, t))
  <2>1. (\A i \in 1..1 : s[i].k # "tick" \/ s[i].t # t) /\ (\A i \in 1..1 : n[i].k # "tick" \/ n[i].t # t)
    BY <1>4
  <2>2. (OnStack(n, t) <=> OnStack(m, t)) /\ (Knowing(n, t) <=> Knowing(m, t))
    BY <1>2, <1>4, <1>5, <2>1, ShiftTicks
  <2>3. (OnStack(s, t) <=> OnStack(m, t)) /\ (Knowing(s, t) <=> Knowing(m, t))
    BY <1>1, <1>2, <2>1, ShiftTicks
  <2> QED
    BY <2>2, <2>3
<1>7. ASSUME NEW ts, Created(ts, s), f.t # None => ts[f.t].st # "none" PROVE Created(ts, n)
  <2> SUFFICES ASSUME NEW i \in DOMAIN n, n[i].t # None PROVE ts[n[i].t].st # "none"
    BY DEF Created
  <2>1. CASE i = 1
    BY <1>4, <1>7, <2>1
  <2>2. CASE i # 1
    <3>1. i - 1 \in 1..Len(m) /\ (i - 1) + 1 = i /\ i \in DOMAIN s
      BY <1>1, <1>2, <1>4, <1>5, <2>2
    <3>2. n[i] = s[i]
      BY <1>1, <1>4, <3>1
    <3> QED
      BY <1>7, <3>1, <3>2 DEF Created
  <2> QED
    BY <2>1, <2>2
<1> QED
  BY <1>4, <1>6, <1>7 DEF m, n

\* The frames below the one on top.
LEMMA PopFacts ==
    ASSUME NEW s, Nested(s), s # <<>>
    PROVE  /\ \A t : s[1].k # "tick" \/ s[1].t # t =>
                (OnStack(Tail(s), t) <=> OnStack(s, t)) /\ (Knowing(Tail(s), t) <=> Knowing(s, t))
           /\ \A ts : Created(ts, s) => Created(ts, Tail(s))
<1> DEFINE m == Tail(s)
<1>1. Nested(m) /\ Len(s) = Len(m) + 1 /\ \A i \in 1..Len(m) : s[i + 1] = m[i]
  BY PopStack
<1>2. s \in Seq(FrameType) /\ m \in Seq(FrameType) /\ Len(m) \in Nat
  BY <1>1 DEF Nested
<1> HIDE DEF m
<1>3. ASSUME NEW t, s[1].k # "tick" \/ s[1].t # t
      PROVE  (OnStack(m, t) <=> OnStack(s, t)) /\ (Knowing(m, t) <=> Knowing(s, t))
  <2>1. \A i \in 1..1 : s[i].k # "tick" \/ s[i].t # t
    BY <1>3
  <2> QED
    BY <1>1, <1>2, <2>1, ShiftTicks
<1>4. ASSUME NEW ts, Created(ts, s) PROVE Created(ts, m)
  <2> SUFFICES ASSUME NEW i \in DOMAIN m, m[i].t # None PROVE ts[m[i].t].st # "none"
    BY DEF Created
  <2>1. i \in 1..Len(m) /\ i + 1 \in DOMAIN s /\ s[i + 1] = m[i]
    BY <1>1, <1>2
  <2> QED
    BY <1>4, <2>1 DEF Created
<1> QED
  BY <1>3, <1>4 DEF m

-----------------------------------------------------------------------------
(* The steps of the main loop *)

\* Nothing is met any more when timer_current is NULL.
LEMMA AtRest ==
    ASSUME NEW ts, NEW d, NEW s, d.timer_current = None, ~Starting(s)
    PROVE  Walks(ts, d, s) /\ \A t \in Timers : Deleted(ts, d, s, t)
BY DEF Walks, Deleted, Behind, Past

\* The flags of the timers and their places stay.
LEMMA SameLists ==
    ASSUME TimerInv, tm' \in [Timers -> TimerType],
           \A u \in Timers : /\ tm'[u].st = tm[u].st /\ tm'[u].at = tm[u].at
                             /\ tm'[u].frozen = tm[u].frozen /\ tm'[u].pending = tm[u].pending,
           Fitting(pd'), pd'.timers = pd.timers, pd'.suspended = pd.suspended,
           now' \in 1..MaxTime, now <= now', pd'.loop_time > 0, pd'.loop_time <= now',
           Nested(stack'), calls' \in 0..MaxCalls
    PROVE  TypeOK' /\ Lists' /\ Times'
<1>1. TypeOK'
  BY DEF TypeOK, Fitting, Nested
<1>2. Lists'
  BY Parts DEF Lists, Sorted
<1>3. Times'
  <2>1. \A u \in Timers : tm'[u].st # "none" <=> u < Fresh'
    BY FreshKept
  <2>2. ASSUME NEW u \in Timers, tm[u].pending + now > 0 PROVE tm'[u].pending + now' > 0
    <3>1. tm[u].pending \in Int /\ now \in Int /\ now' \in Int /\ tm'[u].pending = tm[u].pending
      BY Parts DEF TimerType
    <3> QED
      BY <2>2, <3>1
  <2> QED
    BY <2>1, <2>2, Parts DEF Times
<1> QED
  BY <1>1, <1>2, <1>3

\* _update_loop_time.
LEMMA LoopTime ==
    ASSUME TimerInv, NEW time \in Nat, NEW d, d = UpdateLoopTime(time)
    PROVE  /\ Fitting(d) /\ d.timers = pd.timers /\ d.suspended = pd.suspended
           /\ d.timer_current = pd.timer_current /\ d.loop_time \in Nat /\ d.loop_time > 0
           /\ \A m \in Nat : now <= m /\ time <= m => d.loop_time <= m
<1>1. pd.loop_time \in Nat /\ pd.loop_time > 0 /\ pd.loop_time <= now /\ now \in Nat /\ Fitting(pd)
  BY Parts DEF LoopType, Times
<1>2. Later(pd.loop_time, time) \in Nat /\ Later(pd.loop_time, time) >= pd.loop_time
      /\ Later(pd.loop_time, time) \in {pd.loop_time, time}
  BY <1>1 DEF Later
<1>3. d = [pd EXCEPT !.loop_time = Later(pd.loop_time, time)]
  BY DEF UpdateLoopTime
<1>4. /\ d \in LoopType /\ d.timers = pd.timers /\ d.suspended = pd.suspended
      /\ d.timer_current = pd.timer_current /\ d.loop_time = Later(pd.loop_time, time)
  BY <1>2, <1>3, Parts DEF LoopType
<1>5. Fitting(d)
  BY <1>1, <1>4 DEF Fitting
<1>6. \A m \in Nat : now <= m /\ time <= m => d.loop_time <= m
  BY <1>1, <1>2, <1>4
<1> QED
  BY <1>1, <1>2, <1>4, <1>5, <1>6

\* The flags of callbacks stay, and so do the callbacks.
LEMMA SameTicks ==
    ASSUME TimerInv,
           \A u \in Timers : /\ tm'[u].st = tm[u].st /\ tm'[u].inside_call = tm[u].inside_call
                             /\ tm'[u].delete_me = tm[u].delete_me,
           \A u \in Timers : OnStack(stack', u) <=> OnStack(stack, u),
           \A u \in Timers : Knowing(stack', u) <=> Knowing(stack, u)
    PROVE  Ticks'
BY Parts DEF Ticks, TicksOf

\* _core_main_loop_iterate_internal begins.
LEMMA IterateStep ==
    ASSUME TimerInv, NEW time \in {now, pd.loop_time}, Iterate(time)
    PROVE  TimerInv'
<1> DEFINE w == [Frame("walk", "start") EXCEPT !.when = pd'.loop_time]
           f == Frame("iterate", "idle")
           m == <<f>> \o stack
           n == <<w>> \o m
<1>1. /\ pd' = UpdateLoopTime(time) /\ stack' = <<w, f>> \o stack /\ UNCHANGED <<tm, now>>
      /\ InUserCode /\ IterateAllowed /\ calls' = IF stack = <<>> THEN calls ELSE calls - 1
      /\ stack # <<>> => calls > 0
  BY DEF Iterate
<1>2. time \in Nat /\ now \in Nat /\ time <= now
  BY Parts DEF LoopType, Times
<1>3. /\ Fitting(pd') /\ pd'.timers = pd.timers /\ pd'.suspended = pd.suspended
      /\ pd'.timer_current = pd.timer_current /\ pd'.loop_time \in Nat /\ pd'.loop_time > 0
      /\ pd'.loop_time <= now'
  BY <1>1, <1>2, LoopTime
<1>4. /\ w \in FrameType /\ FrameOK(w) /\ w.k = "walk" /\ w.pc = "start" /\ w.t = None
      /\ f \in FrameType /\ FrameOK(f) /\ f.k = "iterate" /\ f.pc = "idle" /\ f.t = None
  BY <1>3 DEF Frame, FrameType, FrameOK, None
<1> HIDE DEF w, f
<1>5. IF stack = <<>> THEN f.k = "iterate" ELSE Follows(f, stack[1])
  <2> SUFFICES ASSUME stack # <<>> PROVE Follows(f, stack[1])
    BY <1>4
  <2>1. Top = stack[1] /\ 1 \in DOMAIN stack /\ stack[1] \in FrameType
    BY Parts, StackFacts DEF Top
  <2>2. FrameOK(stack[1])
    BY <2>1, Parts DEF Nested
  <2>3. stack[1].k = "tick" \/ stack[1].pc = "idle"
    BY <1>1, <2>1 DEF InUserCode
  <2> QED
    BY <1>4, <2>1, <2>2, <2>3 DEF Follows, FrameOK, FrameType
<1>6. /\ Nested(m) /\ Len(m) = Len(stack) + 1 /\ m[1] = f /\ m # <<>>
      /\ \A i \in 1..Len(stack) : m[i + 1] = stack[i]
  BY <1>4, <1>5, Parts, PushStack
<1>7. stack \in Seq(FrameType) /\ m \in Seq(FrameType)
  BY <1>6, Parts DEF Nested
<1>8. stack' = n
  BY <1>1, <1>4, <1>7, TwoOnTop
<1> HIDE DEF m
<1>9. Follows(w, m[1])
  BY <1>4, <1>6 DEF Follows
<1>10. /\ Nested(n) /\ Len(n) = Len(m) + 1 /\ n[1] = w /\ n # <<>>
       /\ \A i \in 1..Len(m) : n[i + 1] = m[i]
  BY <1>4, <1>6, <1>9, PushStack
<1>11. n \in Seq(FrameType)
  BY <1>10 DEF Nested
<1> HIDE DEF n
<1>12. \A t : /\ OnStack(n, t) <=> OnStack(stack, t)
              /\ Knowing(n, t) <=> Knowing(stack, t)
  <2> TAKE t
  <2>1. (\A i \in 1..1 : m[i].k # "tick" \/ m[i].t # t) /\ (\A i \in 1..1 : n[i].k # "tick" \/ n[i].t # t)
    BY <1>4, <1>6, <1>10
  <2>2. (OnStack(m, t) <=> OnStack(stack, t)) /\ (Knowing(m, t) <=> Knowing(stack, t))
    BY <1>6, <1>7, <2>1, ShiftTicks
  <2>3. (OnStack(n, t) <=> OnStack(m, t)) /\ (Knowing(n, t) <=> Knowing(m, t))
    BY <1>7, <1>10, <1>11, <2>1, ShiftTicks
  <2> QED
    BY <2>2, <2>3
<1>13. Created(tm', n)
  <2> SUFFICES ASSUME NEW i \in DOMAIN n, n[i].t # None PROVE tm[n[i].t].st # "none"
    BY <1>1 DEF Created
  <2>1. i # 1 /\ i # 2
    <3>1. Len(stack) \in Nat /\ 1 \in 1..Len(m)
      BY <1>6, <1>7
    <3>2. n[1 + 1] = m[1]
      BY <1>10, <3>1
    <3> QED
      BY <1>4, <1>6, <1>10, <3>2
  <2>2. i - 1 \in 1..Len(m) /\ (i - 1) + 1 = i /\ i - 2 \in 1..Len(stack) /\ (i - 2) + 1 = i - 1
    BY <1>6, <1>7, <1>10, <1>11, <2>1
  <2>3. n[i] = stack[i - 2] /\ i - 2 \in DOMAIN stack
    BY <1>6, <1>7, <1>10, <2>2
  <2> QED
    BY <2>3, Parts DEF Created
<1>14. calls' \in 0..MaxCalls
  <2>1. calls \in 0..MaxCalls /\ (stack = <<>> \/ calls > 0)
    BY <1>1, Parts
  <2> QED
    BY <1>1, <2>1, BoundAssumption
<1>15. TypeOK' /\ Lists' /\ Times'
  <2>1. /\ tm' \in [Timers -> TimerType] /\ now' \in 1..MaxTime /\ now <= now' /\ tm' = tm
    BY <1>1, <1>2, Parts
  <2>2. \A u \in Timers : /\ tm'[u].st = tm[u].st /\ tm'[u].at = tm[u].at
                          /\ tm'[u].frozen = tm[u].frozen /\ tm'[u].pending = tm[u].pending
    BY <2>1
  <2>3. Nested(stack')
    BY <1>8, <1>10
  <2> QED
    BY <1>3, <1>14, <2>1, <2>2, <2>3, SameLists
<1>16. Ticks'
  BY <1>1, <1>8, <1>12, SameTicks
<1>17. Starting(n) /\ ~Walking(n)
  BY <1>4, <1>10 DEF Starting, Walking
<1>18. Walks(tm', pd', n)
  BY <1>17 DEF Walks
<1>19. \A t \in Timers : Deleted(tm', pd', n, t)
  BY <1>1 DEF Deleted, IterateAllowed
<1> QED
  BY <1>8, <1>10, <1>13, <1>15, <1>16, <1>18, <1>19 DEF TimerInv

\* _efl_loop_timer_reschedule: t is set anew, or stays as it is when it rests.
LEMMA RescheduleStep ==
    ASSUME TimerInv, NEW t \in Timers, tm[t].st # "none", NEW when \in Nat,
           NEW d, Fitting(d), d.timers = pd.timers, d.suspended = pd.suspended,
           d.loop_time = pd.loop_time, d.timer_current # t, Reschedule(d, t, when),
           now' = now, calls' = calls, Nested(stack')
    PROVE  /\ TypeOK' /\ Lists' /\ Times' /\ pd'.timer_current = d.timer_current
           /\ \A u \in Timers : /\ tm'[u].st = tm[u].st /\ tm'[u].inside_call = tm[u].inside_call
                                /\ tm'[u].delete_me = tm[u].delete_me
           /\ \A u \in Timers : Behind(tm, d, u) => Behind(tm', pd', u)
<1>1. CASE Rests(t)
  <2>1. tm' = tm /\ pd' = d
    BY <1>1 DEF Reschedule
  <2>2. /\ tm' \in [Timers -> TimerType] /\ now' \in 1..MaxTime /\ now <= now'
        /\ pd'.loop_time > 0 /\ pd'.loop_time <= now' /\ calls' \in 0..MaxCalls
    BY <2>1, Parts DEF Times
  <2>3. TypeOK' /\ Lists' /\ Times'
    BY <2>1, <2>2, SameLists
  <2> QED
    BY <2>1, <2>3
<1>2. CASE ~Rests(t)
  <2> DEFINE next == tm[t].at + tm[t].in
             at == IF next < when - Hang THEN when + tm[t].in ELSE next
             c == IF Len(d.timers) > 1 THEN [d EXCEPT !.timers = Without(@, t)] ELSE d
  <2>1. Set(tm, c, t, at)
    BY <1>2 DEF Reschedule
  <2>2. tm[t] \in TimerType /\ tm[t].st = "live" /\ ~tm[t].frozen /\ ~tm[t].delete_me
    BY <1>2, Parts DEF Rests, TimerType
  <2>3. at \in Int /\ at > 0
    <3>1. tm[t].at \in Int /\ tm[t].in \in Nat /\ tm[t].at > 0
      BY <2>2, Parts DEF Times, TimerType
    <3> QED
      BY <3>1, TimeAssumption
  <2> HIDE DEF at, next
  <2>4. Without(d.timers, t) \in Seq(Timers)
    BY FittingParts, WithoutList
  <2>5. /\ c \in LoopType
        /\ c.timers = d.timers \/ c.timers = Without(d.timers, t)
        /\ c.suspended = d.suspended /\ c.timer_current = d.timer_current /\ c.loop_time = d.loop_time
    BY <2>4 DEF Fitting, LoopType
  <2> HIDE DEF c
  <2>6. Placing(d, c, t)
    BY <2>5, CutPlaces
  <2>7. SortedBut(tm, c.timers, t)
    <3>1. \A a, b \in Timers \ {t} : Before(c.timers, a, b) => Before(pd.timers, a, b)
      BY <2>6 DEF Placing
    <3> QED
      BY <3>1, Parts DEF Sorted, SortedBut
  <2> DEFINE r == [tm[t] EXCEPT !.just_added = TRUE, !.at = at, !.pending = 0]
  <2>8. /\ r \in TimerType /\ tm' = [tm EXCEPT ![t] = r]
        /\ Placing(c, pd', t) /\ Sorted(tm', pd'.timers)
        /\ t \in Members(pd'.timers) /\ t \notin Members(pd'.suspended)
    <3>1. tm \in [Timers -> TimerType] /\ tm = [tm EXCEPT ![t] = tm[t]] /\ Fitting(c)
      BY <2>6, Parts DEF Placing
    <3> QED
      BY <2>1, <2>2, <2>3, <2>7, <3>1, SetPlaced
  <2>9. /\ r.st = "live" /\ ~r.frozen /\ r.just_added /\ r.inside_call = tm[t].inside_call
        /\ ~r.delete_me /\ r.at = at
    BY <2>2 DEF TimerType
  <2> HIDE DEF r
  <2>10. /\ tm' \in [Timers -> TimerType] /\ tm'[t] = r
         /\ \A u \in Timers : u # t => tm'[u] = tm[u]
    BY <2>8, Parts
  <2>11. Placing(d, pd', t)
    BY <2>6, <2>8, PlacingTwice
  <2>12. pd'.timer_current = d.timer_current /\ pd'.loop_time = pd.loop_time /\ Fitting(pd')
    BY <2>11 DEF Placing
  <2>13. \A u \in Timers : Behind(tm, d, u) => Behind(tm', pd', u)
    <3> SUFFICES ASSUME NEW u \in Timers, Behind(tm, d, u) PROVE Behind(tm', pd', u)
      OBVIOUS
    <3>1. CASE u = t
      BY <2>9, <2>10, <3>1 DEF Behind
    <3>2. CASE u # t
      BY <2>10, <2>11, <3>2 DEF Behind, Placing
    <3> QED
      BY <3>1, <3>2
  <2>14. \A u \in Timers : /\ tm'[u].st = tm[u].st /\ tm'[u].inside_call = tm[u].inside_call
                           /\ tm'[u].delete_me = tm[u].delete_me /\ tm'[u].frozen = tm[u].frozen
    <3> SUFFICES ASSUME NEW u \in Timers
                 PROVE  /\ tm'[u].st = tm[u].st /\ tm'[u].inside_call = tm[u].inside_call
                        /\ tm'[u].delete_me = tm[u].delete_me /\ tm'[u].frozen = tm[u].frozen
      OBVIOUS
    <3>1. CASE u = t
      <4>1. tm[t] \in TimerType /\ r \in TimerType
        BY <2>2, <2>8
      <4> QED
        BY <2>2, <2>9, <2>10, <3>1, <4>1 DEF TimerType
    <3>2. CASE u # t
      BY <2>10, <3>2
    <3> QED
      BY <3>1, <3>2
  <2>15. TypeOK'
    BY <2>10, <2>12, Parts DEF TypeOK, Fitting, Nested
  <2>16. Lists'
    <3> SUFFICES ASSUME NEW u \in Timers
                 PROVE  /\ u \in Members(pd'.timers) <=> tm'[u].st = "live" /\ ~tm'[u].frozen
                        /\ u \in Members(pd'.suspended) <=> tm'[u].st = "live" /\ tm'[u].frozen
      BY <2>8, <2>12 DEF Lists
    <3>1. CASE u = t
      BY <2>8, <2>9, <2>10, <3>1
    <3>2. CASE u # t
      BY <2>10, <2>11, <3>2, Parts DEF Lists, Placing
    <3> QED
      BY <3>1, <3>2
  <2>17. Times'
    <3>1. \A u \in Timers : tm'[u].st # "none" <=> u < Fresh'
      BY <2>14, FreshKept
    <3>2. ASSUME NEW u \in Timers
          PROVE  /\ tm'[u].st = "live" /\ ~tm'[u].frozen => tm'[u].at > 0
                 /\ tm'[u].st = "live" /\ tm'[u].frozen => tm'[u].pending + now' > 0
      <4>1. CASE u = t
        BY <2>3, <2>9, <2>10, <4>1
      <4>2. CASE u # t
        BY <2>10, <4>2, Parts DEF Times
      <4> QED
        BY <4>1, <4>2
    <3>3. pd'.loop_time > 0 /\ pd'.loop_time <= now'
      BY <2>12, Parts DEF Times
    <3> QED
      BY <3>1, <3>2, <3>3 DEF Times
  <2> QED
    BY <2>12, <2>13, <2>14, <2>15, <2>16, <2>17
<1> QED
  BY <1>1, <1>2


\* An iteration or a walk ends with no timer to go on from.
LEMMA FrameLeaves ==
    ASSUME TimerInv, stack # <<>>, Top.k # "tick", Instead(<<>>), tm' = tm,
           Fitting(pd'), pd'.timers = pd.timers, pd'.suspended = pd.suspended,
           pd'.timer_current = None, now' \in 1..MaxTime, now <= now',
           pd'.loop_time > 0, pd'.loop_time <= now', calls' = calls
    PROVE  TimerInv'
<1> DEFINE n == Tail(stack)
<1>1. Nested(stack) /\ Head(stack) = stack[1] /\ stack[1].k # "tick" /\ stack[1] \in FrameType
  BY Parts, StackFacts DEF Top
<1>2. /\ stack' = n /\ Nested(n)
      /\ n # <<>> => n[1] = stack[2] /\ Follows(stack[1], stack[2])
  BY <1>1, PopStack DEF Instead
<1>3. /\ \A t : (OnStack(n, t) <=> OnStack(stack, t)) /\ (Knowing(n, t) <=> Knowing(stack, t))
      /\ \A ts : Created(ts, stack) => Created(ts, n)
  BY <1>1, PopFacts
<1> HIDE DEF n
<1>4. ~Starting(n)
  BY <1>1, <1>2 DEF Starting, Follows
<1>5. Walks(tm', pd', stack') /\ \A t \in Timers : Deleted(tm', pd', stack', t)
  BY <1>2, <1>4, AtRest
<1>6. /\ tm' \in [Timers -> TimerType] /\ Nested(stack') /\ calls' \in 0..MaxCalls
      /\ \A u \in Timers : /\ tm'[u].st = tm[u].st /\ tm'[u].at = tm[u].at
                           /\ tm'[u].frozen = tm[u].frozen /\ tm'[u].pending = tm[u].pending
  BY <1>2, Parts
<1>7. TypeOK' /\ Lists' /\ Times'
  BY <1>6, SameLists
<1>8. Ticks'
  BY <1>2, <1>3, SameTicks
<1>9. Created(tm', stack')
  BY <1>2, <1>3, Parts
<1> QED
  BY <1>5, <1>6, <1>7, <1>8, <1>9 DEF TimerInv

\* The end of a walk.
LEMMA WalkEndStep == ASSUME TimerInv, WalkEnd PROVE TimerInv'
<1>1. /\ stack # <<>> /\ Top.k # "tick" /\ Instead(<<>>) /\ tm' = tm /\ now' = now /\ calls' = calls
      /\ pd' = [pd EXCEPT !.timer_current = None]
  BY DEF WalkEnd, At
<1>2. /\ pd' \in LoopType /\ pd'.timers = pd.timers /\ pd'.suspended = pd.suspended
      /\ pd'.timer_current = None /\ pd'.loop_time = pd.loop_time
  BY <1>1, Parts DEF LoopType
<1>3. Fitting(pd')
  BY <1>2, Parts DEF Fitting
<1>4. now' \in 1..MaxTime /\ now <= now' /\ pd'.loop_time > 0 /\ pd'.loop_time <= now'
  BY <1>1, <1>2, Parts DEF Times
<1> QED
  BY <1>1, <1>2, <1>3, <1>4, FrameLeaves

\* No timer is walked to while an iteration is on top.
LEMMA NoWalk ==
    ASSUME TimerInv, stack # <<>>, Top.k = "iterate"
    PROVE  pd.timer_current = None /\ ~Walking(stack) /\ ~Starting(stack)
<1>1. Top = stack[1]
  BY Parts, StackFacts DEF Top
<1>2. ~Walking(stack) /\ ~Starting(stack)
  BY <1>1 DEF Walking, Starting
<1> QED
  BY <1>2, Parts DEF Walks

\* An iteration that does not wait ends.
LEMMA DoneStep == ASSUME TimerInv, Done PROVE TimerInv'
<1>1. /\ stack # <<>> /\ Top.k = "iterate" /\ Instead(<<>>)
      /\ tm' = tm /\ pd' = pd /\ now' = now /\ calls' = calls
  BY DEF Done, At
<1>2. pd.timer_current = None
  BY <1>1, NoWalk
<1>3. /\ Fitting(pd') /\ now' \in 1..MaxTime /\ now <= now'
      /\ pd'.loop_time > 0 /\ pd'.loop_time <= now'
  BY <1>1, Parts DEF Times
<1> QED
  BY <1>1, <1>2, <1>3, FrameLeaves

\* The loop is woken by a descriptor, or spins.
LEMMA PollStep == ASSUME TimerInv, Poll PROVE TimerInv'
<1>1. /\ stack # <<>> /\ Top.k = "iterate" /\ Instead(<<>>) /\ pd' = UpdateLoopTime(now)
      /\ tm' = tm /\ now' = now /\ calls' = calls
  BY DEF Poll, At
<1>2. now \in Nat /\ now' \in 1..MaxTime /\ now <= now'
  BY <1>1, Parts
<1>3. /\ Fitting(pd') /\ pd'.timers = pd.timers /\ pd'.suspended = pd.suspended
      /\ pd'.timer_current = pd.timer_current /\ pd'.loop_time > 0 /\ pd'.loop_time <= now'
  BY <1>1, <1>2, LoopTime
<1>4. pd.timer_current = None
  BY <1>1, NoWalk
<1> QED
  BY <1>1, <1>2, <1>3, <1>4, FrameLeaves

\* The descriptors are polled before the new timers are enabled.
LEMMA PollFirstStep == ASSUME TimerInv, PollFirst PROVE TimerInv'
<1>1. /\ stack # <<>> /\ Top.k = "iterate" /\ pd' = UpdateLoopTime(now)
      /\ tm' = tm /\ now' = now /\ calls' = calls /\ stack' = stack
  BY DEF PollFirst, At
<1>2. now \in Nat /\ now' \in 1..MaxTime /\ now <= now'
  BY <1>1, Parts
<1>3. /\ Fitting(pd') /\ pd'.timers = pd.timers /\ pd'.suspended = pd.suspended
      /\ pd'.timer_current = pd.timer_current /\ pd'.loop_time > 0 /\ pd'.loop_time <= now'
  BY <1>1, <1>2, LoopTime
<1>4. pd.timer_current = None /\ ~Starting(stack)
  BY <1>1, NoWalk
<1>5. Walks(tm', pd', stack') /\ \A t \in Timers : Deleted(tm', pd', stack', t)
  BY <1>1, <1>3, <1>4, AtRest
<1>6. /\ tm' \in [Timers -> TimerType] /\ Nested(stack') /\ calls' \in 0..MaxCalls
      /\ \A u \in Timers : /\ tm'[u].st = tm[u].st /\ tm'[u].at = tm[u].at
                           /\ tm'[u].frozen = tm[u].frozen /\ tm'[u].pending = tm[u].pending
  BY <1>1, Parts
<1>7. TypeOK' /\ Lists' /\ Times'
  BY <1>2, <1>3, <1>6, SameLists
<1>8. Ticks' /\ Created(tm', stack')
  BY <1>1, Parts, SameTicks
<1> QED
  BY <1>5, <1>6, <1>7, <1>8 DEF TimerInv


\* _efl_loop_timer_next_get returns a number.
LEMMA NextGetInt == ASSUME TimerInv PROVE NextGet \in Int
<1> DEFINE ready == {i \in DOMAIN pd.timers : ~tm[pd.timers[i]].just_added}
           first == CHOOSE i \in ready : \A j \in ready : i <= j
           near  == {i \in ready : tm[pd.timers[i]].at < tm[pd.timers[first]].at + Precision}
           last  == CHOOSE i \in near : \A j \in near : j <= i
<1>1. /\ pd.timers \in Seq(Timers) /\ Len(pd.timers) \in Nat /\ DOMAIN pd.timers = 1..Len(pd.timers)
      /\ \A i \in DOMAIN pd.timers : pd.timers[i] \in Timers /\ tm[pd.timers[i]].at \in Int
      /\ pd.loop_time \in Nat
  BY Parts, FittingParts DEF TimerType
<1>2. NextGet = IF ready = {} THEN -1 ELSE Later(0, tm[pd.timers[last]].at - pd.loop_time)
  BY DEF NextGet
<1>3. ready \in SUBSET (0..Len(pd.timers)) /\ ready \subseteq DOMAIN pd.timers
  BY <1>1
<1>4. CASE ready = {}
  <2> HIDE DEF ready, last
  <2>1. NextGet = -1
    BY <1>2, <1>4
  <2> QED
    BY <2>1
<1>5. CASE ready # {}
  <2> HIDE DEF ready
  <2>1. first \in ready
    <3>1. \E i \in ready : \A j \in ready : i <= j
      BY <1>1, <1>3, <1>5, Extremes
    <3> QED
      BY <3>1
  <2> HIDE DEF first
  <2>2. first \in near
    <3>1. tm[pd.timers[first]].at \in Int
      BY <1>1, <1>3, <2>1
    <3>2. tm[pd.timers[first]].at < tm[pd.timers[first]].at + Precision
      BY <3>1, TimeAssumption
    <3> QED
      BY <2>1, <3>2
  <2>3. near \in SUBSET (0..Len(pd.timers)) /\ near \subseteq DOMAIN pd.timers
    BY <1>3
  <2> HIDE DEF near
  <2>4. last \in near
    <3>1. \E i \in near : \A j \in near : j <= i
      BY <1>1, <2>2, <2>3, Extremes
    <3> QED
      BY <3>1
  <2> HIDE DEF last
  <2>5. tm[pd.timers[last]].at \in Int
    BY <1>1, <2>3, <2>4
  <2>6. Later(0, tm[pd.timers[last]].at - pd.loop_time) \in Int
    BY <1>1, <2>5 DEF Later
  <2> QED
    BY <1>2, <1>5, <2>6
<1> QED
  BY <1>4, <1>5

\* The loop sleeps until the time of the next timer.
LEMMA SleepStep == ASSUME TimerInv, Sleep PROVE TimerInv'
<1>1. /\ stack # <<>> /\ Top.k = "iterate" /\ Instead(<<>>) /\ pd' = UpdateLoopTime(now')
      /\ tm' = tm /\ calls' = calls
      /\ now' = Later(now, pd.loop_time + NextGet) /\ now' <= MaxTime
  BY DEF Sleep, At
<1>2. now \in 1..MaxTime /\ pd.loop_time \in Nat /\ NextGet \in Int
  BY Parts, NextGetInt DEF LoopType
<1>3. now' \in 1..MaxTime /\ now <= now' /\ now' \in Nat
  BY <1>1, <1>2, BoundAssumption DEF Later
<1>4. /\ Fitting(pd') /\ pd'.timers = pd.timers /\ pd'.suspended = pd.suspended
      /\ pd'.timer_current = pd.timer_current /\ pd'.loop_time > 0 /\ pd'.loop_time <= now'
  BY <1>1, <1>3, LoopTime
<1>5. pd.timer_current = None
  BY <1>1, NoWalk
<1> QED
  BY <1>1, <1>3, <1>4, <1>5, FrameLeaves

\* The new timers are enabled.
LEMMA EnableNewStep == ASSUME TimerInv, EnableNew PROVE TimerInv'
<1> DEFINE f == [Top EXCEPT !.pc = "select"]
           n == <<f>> \o Tail(stack)
<1>1. stack # <<>> /\ Top.k = "iterate" /\ stack' = n /\ now' = now /\ calls' = calls
  BY DEF EnableNew, At, Instead
<1>2. Top = stack[1] /\ stack[1] \in FrameType /\ FrameOK(stack[1]) /\ Nested(stack)
  BY <1>1, Parts, StackFacts DEF Top, Nested
<1>3. f \in FrameType /\ FrameOK(f) /\ f.k = "iterate" /\ f.pc = "select" /\ f.t = stack[1].t
  BY <1>1, <1>2 DEF FrameType, FrameOK
<1> HIDE DEF f
<1>4. f.t # None => tm[f.t].st # "none"
  <2>1. 1 \in DOMAIN stack
    BY <1>1, <1>2, StackFacts
  <2> QED
    BY <1>3, <2>1, Parts DEF Created
<1>5. /\ Nested(n) /\ n # <<>> /\ n[1] = f
      /\ \A t : OnStack(n, t) <=> OnStack(stack, t)
      /\ \A t : Knowing(n, t) <=> Knowing(stack, t)
      /\ Created(tm, n)
  BY <1>1, <1>2, <1>3, <1>4, Parts, ReplaceTop
<1> HIDE DEF n
<1>6. /\ pd' \in LoopType /\ pd'.timers = pd.timers /\ pd'.suspended = pd.suspended
      /\ pd'.timer_current = pd.timer_current /\ pd'.loop_time = pd.loop_time
  <2>1. FALSE \in BOOLEAN
    OBVIOUS
  <2> QED
    BY <2>1, Parts DEF EnableNew, LoopType
<1>7. Fitting(pd')
  BY <1>6, Parts DEF Fitting
<1>8. /\ tm' \in [Timers -> TimerType]
      /\ \A u \in Timers : /\ tm'[u].st = tm[u].st /\ tm'[u].at = tm[u].at
                           /\ tm'[u].frozen = tm[u].frozen /\ tm'[u].pending = tm[u].pending
                           /\ tm'[u].inside_call = tm[u].inside_call
                           /\ tm'[u].delete_me = tm[u].delete_me
  <2>1. CASE tm' = tm
    BY <2>1, Parts
  <2>2. CASE tm' = [t \in Timers |-> IF t \in Members(pd.timers)
                                     THEN [tm[t] EXCEPT !.just_added = FALSE] ELSE tm[t]]
    <3>1. ASSUME NEW r \in TimerType
          PROVE  LET q == [r EXCEPT !.just_added = FALSE]
                 IN  /\ q \in TimerType /\ q.st = r.st /\ q.at = r.at /\ q.frozen = r.frozen
                     /\ q.pending = r.pending /\ q.inside_call = r.inside_call
                     /\ q.delete_me = r.delete_me
      <4>1. FALSE \in BOOLEAN
        OBVIOUS
      <4> QED
        BY <4>1 DEF TimerType
    <3>2. \A t \in Timers : tm[t] \in TimerType
      BY Parts
    <3> QED
      BY <2>2, <3>1, <3>2
  <2> QED
    BY <2>1, <2>2 DEF EnableNew
<1>9. Created(tm', n)
  <2>1. \A u \in Timers : tm[u].st # "none" => tm'[u].st # "none"
    BY <1>8
  <2>2. n \in Seq(FrameType)
    BY <1>5 DEF Nested
  <2> QED
    BY <1>5, <2>1, <2>2, CreatedKept
<1>10. pd.timer_current = None /\ ~Starting(n)
  BY <1>1, <1>3, <1>5, NoWalk DEF Starting
<1>11. Walks(tm', pd', stack') /\ \A t \in Timers : Deleted(tm', pd', stack', t)
  BY <1>1, <1>6, <1>10, AtRest
<1>12. /\ now' \in 1..MaxTime /\ now <= now' /\ pd'.loop_time > 0 /\ pd'.loop_time <= now'
       /\ calls' \in 0..MaxCalls /\ Nested(stack')
  BY <1>1, <1>5, <1>6, Parts DEF Times
<1>13. TypeOK' /\ Lists' /\ Times'
  BY <1>6, <1>7, <1>8, <1>12, SameLists
<1>14. Ticks'
  BY <1>1, <1>5, <1>8, SameTicks
<1> QED
  BY <1>1, <1>9, <1>11, <1>12, <1>13, <1>14 DEF TimerInv


\* The top of the stack is a walk.
LEMMA WalkOnTop ==
    ASSUME TimerInv, stack # <<>>, Top.k = "walk"
    PROVE  /\ Top = stack[1] /\ stack[1] \in FrameType /\ FrameOK(stack[1]) /\ Nested(stack)
           /\ Len(stack) > 1 /\ 1 \in DOMAIN stack
           /\ Top.pc # "start" => Walking(stack) /\ Walk(stack) = Top /\ ~Starting(stack)
           /\ Top.pc = "start" => Starting(stack)
           /\ Top.when \in Nat /\ Top.done \subseteq Timers
           /\ Top.t # None => Top.t \in Timers /\ tm[Top.t].st # "none"
<1>1. Top = stack[1] /\ stack[1] \in FrameType /\ Nested(stack) /\ Len(stack) > 1 /\ Len(stack) \in Nat
  BY Parts, StackFacts DEF Top
<1>2. 1 \in DOMAIN stack
  BY <1>1, Parts, StackFacts
<1>3. FrameOK(stack[1])
  BY <1>1, <1>2 DEF Nested
<1>4. Top.pc # "start" => Walking(stack) /\ Walk(stack) = Top /\ ~Starting(stack)
  BY <1>1 DEF Walking, Walk, Starting
<1>5. Top.pc = "start" => Starting(stack)
  BY <1>1 DEF Starting
<1>6. Top.when \in Nat /\ Top.done \subseteq Timers /\ Top.t \in Timers \cup {None}
  BY <1>1 DEF FrameType
<1>7. Top.t # None => tm[Top.t].st # "none"
  BY <1>1, <1>2, Parts DEF Created
<1> QED
  BY <1>1, <1>2, <1>3, <1>4, <1>5, <1>6, <1>7

\* A timer that has just been added is passed over.
LEMMA WalkSkipStep == ASSUME TimerInv, WalkSkip PROVE TimerInv'
<1> DEFINE t == pd.timer_current
<1>1. /\ stack # <<>> /\ Top.k = "walk" /\ Top.pc = "loop" /\ t # None
      /\ pd' = [pd EXCEPT !.timer_current = NextIn(pd, t)]
      /\ tm' = tm /\ now' = now /\ stack' = stack /\ calls' = calls
  BY DEF WalkSkip, At, Expired
<1>2. t \in Timers
  BY <1>1, Parts, FittingParts
<1>3. Placing(pd, pd', t) /\ Past(pd', t) /\ pd'.timers = pd.timers /\ pd'.suspended = pd.suspended
  BY <1>1, <1>2, Parts, MoveOn
<1>4. /\ tm' \in [Timers -> TimerType] /\ Nested(stack') /\ calls' \in 0..MaxCalls
      /\ \A u \in Timers : /\ tm'[u].st = tm[u].st /\ tm'[u].at = tm[u].at
                           /\ tm'[u].frozen = tm[u].frozen /\ tm'[u].pending = tm[u].pending
  BY <1>1, Parts
<1>5. /\ Fitting(pd') /\ now' \in 1..MaxTime /\ now <= now'
      /\ pd'.loop_time > 0 /\ pd'.loop_time <= now'
  BY <1>1, <1>3, Parts DEF Placing, Times
<1>6. TypeOK' /\ Lists' /\ Times'
  BY <1>3, <1>4, <1>5, SameLists
<1>7. Ticks' /\ Created(tm', stack')
  BY <1>1, Parts, SameTicks
<1>8. \A u \in Timers : Behind(tm, pd, u) => Behind(tm', pd', u)
  BY <1>1, <1>3 DEF Behind, Placing
<1>9. Walking(stack) /\ Walk(stack) = Top /\ ~Starting(stack) /\ Top.done \subseteq Timers
  BY <1>1, WalkOnTop
<1>10. Walks(tm', pd', stack')
  BY <1>1, <1>8, <1>9, Parts DEF Walks
<1>11. \A u \in Timers : Deleted(tm', pd', stack', u)
  BY <1>1, <1>8, <1>9, Parts DEF Deleted
<1> QED
  BY <1>4, <1>6, <1>7, <1>10, <1>11 DEF TimerInv

\* The walk on top goes on as f, from where pd' has timer_current.
LEMMA WalkGoesOn ==
    ASSUME TimerInv, stack # <<>>, Top.k = "walk", NEW f \in FrameType, f.k = "walk", FrameOK(f),
           f.pc = "loop", f.t # None => tm[f.t].st # "none", Instead(<<f>>),
           TypeOK', Lists', Times',
           \A u \in Timers : /\ tm'[u].st = tm[u].st /\ tm'[u].inside_call = tm[u].inside_call
                             /\ tm'[u].delete_me = tm[u].delete_me,
           \A u \in f.done : Behind(tm', pd', u),
           \A u \in Timers : "deleted" \notin Uses /\ tm[u].delete_me => Behind(tm', pd', u)
    PROVE  TimerInv'
<1> DEFINE n == <<f>> \o Tail(stack)
<1>1. Top = stack[1] /\ Nested(stack)
  BY WalkOnTop
<1>2. /\ Nested(n) /\ n # <<>> /\ n[1] = f
      /\ \A t : OnStack(n, t) <=> OnStack(stack, t)
      /\ \A t : Knowing(n, t) <=> Knowing(stack, t)
      /\ Created(tm, n)
  BY <1>1, Parts, ReplaceTop
<1>3. stack' = n
  BY DEF Instead
<1> HIDE DEF n
<1>4. Created(tm', n)
  <2>1. \A u \in Timers : tm[u].st # "none" => tm'[u].st # "none"
    OBVIOUS
  <2>2. n \in Seq(FrameType)
    BY <1>2 DEF Nested
  <2> QED
    BY <1>2, <2>1, <2>2, CreatedKept
<1>5. Ticks'
  BY <1>2, <1>3, SameTicks
<1>6. Walking(n) /\ Walk(n) = f /\ ~Starting(n)
  BY <1>2 DEF Walking, Walk, Starting
<1>7. Walks(tm', pd', n)
  BY <1>6 DEF Walks
<1>8. \A u \in Timers : Deleted(tm', pd', n, u)
  BY <1>6 DEF Deleted
<1> QED
  BY <1>2, <1>3, <1>4, <1>5, <1>7, <1>8 DEF TimerInv


\* _efl_loop_timer_expired_call up to its loop.
LEMMA WalkStartStep == ASSUME TimerInv, WalkStart PROVE TimerInv'
<1> DEFINE t == pd.timer_current
           f == [Top EXCEPT !.pc = "loop"]
<1>1. stack # <<>> /\ Top.k = "walk" /\ Top.pc = "start" /\ now' = now /\ calls' = calls
  BY DEF WalkStart, At
<1>2. /\ Top = stack[1] /\ stack[1] \in FrameType /\ FrameOK(stack[1]) /\ Nested(stack)
      /\ Starting(stack) /\ Top.when \in Nat
      /\ Top.t # None => Top.t \in Timers /\ tm[Top.t].st # "none"
  BY <1>1, WalkOnTop
<1>3. /\ now' \in 1..MaxTime /\ now <= now' /\ pd.loop_time > 0 /\ pd.loop_time <= now'
      /\ calls' \in 0..MaxCalls
  BY <1>1, Parts DEF Times
<1>4. CASE pd.timers = <<>>
  <2>1. Instead(<<>>) /\ tm' = tm /\ pd' = pd
    BY <1>4 DEF WalkStart
  <2>2. pd.timer_current = None
    <3>1. Members(pd.timers) = {}
      BY <1>4 DEF Members
    <3> QED
      BY <3>1, Parts, FittingParts
  <2>3. Fitting(pd') /\ Top.k # "tick"
    BY <1>1, <2>1, Parts
  <2> QED
    BY <1>1, <1>3, <2>1, <2>2, <2>3, FrameLeaves
<1>5. CASE pd.timers # <<>>
  <2>1. /\ Instead(<<f>>)
        /\ IF t = None
           THEN pd' = [pd EXCEPT !.timer_current = Head(pd.timers)] /\ UNCHANGED tm
           ELSE Reschedule([pd EXCEPT !.timer_current = NextIn(pd, t)], t, Top.when)
    BY <1>5 DEF WalkStart
  <2>2. f \in FrameType /\ f.k = "walk" /\ FrameOK(f) /\ f.pc = "loop" /\ f.t = Top.t /\ f.done = {}
    BY <1>1, <1>2 DEF FrameType, FrameOK
  <2> HIDE DEF f
  <2>3. Nested(stack')
    <3>1. Nested(<<f>> \o Tail(stack))
      BY <1>1, <1>2, <2>2, ReplaceTop
    <3> QED
      BY <2>1, <3>1 DEF Instead
  <2>4. /\ TypeOK' /\ Lists' /\ Times'
        /\ \A u \in Timers : /\ tm'[u].st = tm[u].st /\ tm'[u].inside_call = tm[u].inside_call
                             /\ tm'[u].delete_me = tm[u].delete_me
    <3>1. CASE t = None
      <4>1. pd' = [pd EXCEPT !.timer_current = Head(pd.timers)] /\ tm' = tm
        BY <2>1, <3>1
      <4>2. Head(pd.timers) \in Members(pd.timers) /\ Members(pd.timers) \subseteq Timers
        <5>1. pd.timers \in Seq(Timers) /\ Members(pd.timers) \subseteq Timers
          BY Parts, FittingParts
        <5>2. 1 \in DOMAIN pd.timers /\ Head(pd.timers) = pd.timers[1]
          BY <1>5, <5>1
        <5> QED
          BY <5>1, <5>2 DEF Members
      <4>3. /\ pd' \in LoopType /\ pd'.timers = pd.timers /\ pd'.suspended = pd.suspended
            /\ pd'.timer_current \in Members(pd.timers) /\ pd'.loop_time = pd.loop_time
        BY <4>1, <4>2, Parts DEF LoopType
      <4>4. Fitting(pd')
        BY <4>3, Parts DEF Fitting
      <4>5. tm' \in [Timers -> TimerType]
        BY <4>1, Parts
      <4>6. \A u \in Timers : /\ tm'[u].st = tm[u].st /\ tm'[u].at = tm[u].at
                              /\ tm'[u].frozen = tm[u].frozen /\ tm'[u].pending = tm[u].pending
        BY <4>1
      <4>7. TypeOK' /\ Lists' /\ Times'
        BY <1>3, <2>3, <4>3, <4>4, <4>5, <4>6, SameLists
      <4> QED
        BY <4>1, <4>7
    <3>2. CASE t # None
      <4> DEFINE d == [pd EXCEPT !.timer_current = NextIn(pd, t)]
      <4>1. t \in Timers /\ tm[t].st # "none"
        BY <3>2, Parts, FittingParts DEF Lists
      <4>2. Placing(pd, d, t) /\ d.timers = pd.timers /\ d.suspended = pd.suspended
        BY <4>1, Parts, MoveOn
      <4>3. Reschedule(d, t, Top.when)
        BY <2>1, <3>2
      <4> HIDE DEF d
      <4>4. Fitting(d) /\ d.loop_time = pd.loop_time /\ d.timer_current # t
        BY <4>2 DEF Placing
      <4> QED
        BY <1>1, <1>2, <2>3, <4>1, <4>2, <4>3, <4>4, RescheduleStep
    <3> QED
      BY <3>1, <3>2
  <2>5. \A u \in Timers : ~("deleted" \notin Uses /\ tm[u].delete_me)
    BY <1>2, Parts DEF Deleted
  <2> QED
    BY <1>1, <1>2, <2>1, <2>2, <2>4, <2>5, WalkGoesOn
<1> QED
  BY <1>4, <1>5

\* The rest of the loop's body.
LEMMA WalkCalledStep == ASSUME TimerInv, WalkCalled PROVE TimerInv'
<1> DEFINE t == Top.t
           d == [pd EXCEPT !.timer_current = IF @ = t THEN NextIn(pd, t) ELSE @]
           f == [Top EXCEPT !.pc = "loop", !.t = None, !.done = @ \cup {t}]
<1>1. /\ stack # <<>> /\ Top.k = "walk" /\ Top.pc = "called" /\ now' = now /\ calls' = calls
      /\ Reschedule(d, t, Top.when) /\ Instead(<<f>>)
  BY DEF WalkCalled, At
<1>2. /\ Top = stack[1] /\ stack[1] \in FrameType /\ FrameOK(stack[1]) /\ Nested(stack)
      /\ Walking(stack) /\ Walk(stack) = Top /\ Top.when \in Nat /\ Top.done \subseteq Timers
      /\ t # None => t \in Timers /\ tm[t].st # "none"
  BY <1>1, WalkOnTop
<1>3. t \in Timers /\ tm[t].st # "none"
  BY <1>1, <1>2 DEF FrameOK
<1>4. /\ f \in FrameType /\ f.k = "walk" /\ FrameOK(f) /\ f.pc = "loop" /\ f.t = None
      /\ f.done = Top.done \cup {t}
  <2>1. None \in Timers \cup {None} /\ Top.done \cup {t} \in SUBSET Timers
    BY <1>2, <1>3
  <2>2. f \in FrameType
    BY <1>2, <2>1 DEF FrameType
  <2> QED
    BY <1>1, <1>2, <2>2 DEF FrameType, FrameOK
<1> HIDE DEF f
<1>5. Nested(stack')
  <2>1. Nested(<<f>> \o Tail(stack))
    BY <1>1, <1>2, <1>4, ReplaceTop
  <2> QED
    BY <1>1, <2>1 DEF Instead
<1>6. /\ Fitting(d) /\ d.timers = pd.timers /\ d.suspended = pd.suspended
      /\ d.loop_time = pd.loop_time /\ d.timer_current # t
      /\ \A u \in Timers : Behind(tm, pd, u) => Behind(tm, d, u)
      /\ Behind(tm, d, t)
  <2>1. CASE pd.timer_current = t
    <3> DEFINE e == [pd EXCEPT !.timer_current = NextIn(pd, t)]
    <3>1. Placing(pd, e, t) /\ Past(e, t) /\ e.timers = pd.timers /\ e.suspended = pd.suspended
      BY <1>3, <2>1, Parts, MoveOn
    <3>2. d = e
      BY <2>1
    <3> HIDE DEF d, e
    <3>3. /\ Fitting(e) /\ e.loop_time = pd.loop_time /\ e.timer_current # t
          /\ \A u \in Timers : u # t => (Past(pd, u) => Past(e, u))
      BY <3>1 DEF Placing
    <3> QED
      BY <3>1, <3>2, <3>3 DEF Behind
  <2>2. CASE pd.timer_current # t
    <3>1. d = pd
      BY <2>2, Parts DEF LoopType
    <3>2. Behind(tm, pd, t)
      BY <1>1, <1>2, <2>2, Parts DEF Walks
    <3> QED
      BY <2>2, <3>1, <3>2, Parts
  <2> QED
    BY <2>1, <2>2
<1> HIDE DEF d
<1>7. /\ TypeOK' /\ Lists' /\ Times'
      /\ \A u \in Timers : /\ tm'[u].st = tm[u].st /\ tm'[u].inside_call = tm[u].inside_call
                           /\ tm'[u].delete_me = tm[u].delete_me
      /\ \A u \in Timers : Behind(tm, d, u) => Behind(tm', pd', u)
  BY <1>1, <1>2, <1>3, <1>5, <1>6, RescheduleStep
<1>8. \A u \in f.done : Behind(tm', pd', u)
  <2>1. \A u \in Top.done : Behind(tm, pd, u) /\ u \in Timers
    BY <1>2, Parts DEF Walks
  <2> QED
    BY <1>3, <1>4, <1>6, <1>7, <2>1
<1>9. \A u \in Timers : "deleted" \notin Uses /\ tm[u].delete_me => Behind(tm', pd', u)
  <2> SUFFICES ASSUME NEW u \in Timers, "deleted" \notin Uses, tm[u].delete_me PROVE Behind(tm', pd', u)
    OBVIOUS
  <2>1. Behind(tm, pd, u) \/ u = t
    BY <1>2, Parts DEF Deleted
  <2> QED
    BY <1>3, <1>6, <1>7, <2>1
<1> QED
  BY <1>1, <1>2, <1>4, <1>7, <1>8, <1>9, WalkGoesOn


\* The event of an expired timer is emitted, and its function called.
LEMMA WalkCallStep == ASSUME TimerInv, WalkCall PROVE TimerInv'
<1> DEFINE t == pd.timer_current
           f == [Top EXCEPT !.pc = "called", !.t = t]
           g == TickFrame(t)
           m == <<f>> \o Tail(stack)
<1>1. /\ stack # <<>> /\ Top.k = "walk" /\ Top.pc = "loop" /\ t # None /\ ~tm[t].just_added
      /\ pd' = pd /\ now' = now /\ calls' = calls
      /\ IF tm[t].freezes > 0 THEN Instead(<<f>>) /\ UNCHANGED tm
         ELSE Instead(<<g, f>>) /\ tm' = [tm EXCEPT ![t].inside_call = TRUE]
  BY DEF WalkCall, At, Expired
<1>2. /\ Top = stack[1] /\ stack[1] \in FrameType /\ FrameOK(stack[1]) /\ Nested(stack)
      /\ Walking(stack) /\ Walk(stack) = Top /\ ~Starting(stack) /\ Top.done \subseteq Timers
  BY <1>1, WalkOnTop
<1>3. /\ t \in Timers /\ t \in Members(pd.timers) /\ tm[t].st = "live"
      /\ pd.timers \in Seq(Timers) /\ Once(pd.timers)
  BY <1>1, Parts, FittingParts DEF Lists
<1>4. ~Behind(tm, pd, t)
  <2>1. ~Before(pd.timers, t, t)
    BY <1>3, SeqFacts
  <2> QED
    BY <1>1, <1>3, <2>1 DEF Behind, Past
<1>5. t \notin Top.done
  BY <1>1, <1>2, <1>4, Parts DEF Walks
<1>6. "deleted" \notin Uses => ~tm[t].delete_me
  BY <1>1, <1>2, <1>3, <1>4, Parts DEF Deleted
<1>7. /\ f \in FrameType /\ f.k = "walk" /\ FrameOK(f) /\ f.pc = "called" /\ f.t = t
      /\ f.done = Top.done
  BY <1>1, <1>2, <1>3 DEF FrameType, FrameOK
<1> HIDE DEF f
<1>8. /\ Nested(m) /\ m # <<>> /\ m[1] = f
      /\ \A u : OnStack(m, u) <=> OnStack(stack, u)
      /\ \A u : Knowing(m, u) <=> Knowing(stack, u)
      /\ Created(tm, m)
  BY <1>1, <1>2, <1>3, <1>7, Parts, ReplaceTop
<1>9. m \in Seq(FrameType) /\ Tail(stack) \in Seq(FrameType)
  BY <1>1, <1>8, Parts DEF Nested
<1>10. /\ now' \in 1..MaxTime /\ now <= now' /\ pd'.loop_time > 0 /\ pd'.loop_time <= now'
       /\ calls' \in 0..MaxCalls /\ Fitting(pd')
  BY <1>1, Parts DEF Times
<1>11. CASE tm[t].freezes > 0
  <2>1. stack' = m /\ tm' = tm
    BY <1>1, <1>11 DEF Instead
  <2> HIDE DEF m
  <2>2. /\ tm' \in [Timers -> TimerType] /\ Nested(stack')
        /\ \A u \in Timers : /\ tm'[u].st = tm[u].st /\ tm'[u].at = tm[u].at
                             /\ tm'[u].frozen = tm[u].frozen /\ tm'[u].pending = tm[u].pending
    BY <1>8, <2>1, Parts
  <2>3. TypeOK' /\ Lists' /\ Times'
    BY <1>1, <1>10, <2>2, SameLists
  <2>4. Ticks'
    BY <1>8, <2>1, SameTicks
  <2>5. Walking(m) /\ Walk(m) = f /\ ~Starting(m)
    BY <1>7, <1>8 DEF Walking, Walk, Starting
  <2>6. Walks(tm', pd', m)
    BY <1>1, <1>2, <1>7, <2>1, <2>5, Parts DEF Walks
  <2>7. \A u \in Timers : Deleted(tm', pd', m, u)
    BY <1>1, <1>2, <2>1, <2>5, Parts DEF Deleted
  <2> QED
    BY <1>8, <2>1, <2>2, <2>3, <2>4, <2>6, <2>7 DEF TimerInv
<1>12. CASE ~(tm[t].freezes > 0)
  <2> DEFINE n == <<g>> \o m
             r == [tm[t] EXCEPT !.inside_call = TRUE]
  <2>1. Instead(<<g, f>>) /\ tm' = [tm EXCEPT ![t] = r]
    BY <1>1, <1>12
  <2>2. tm[t] \in TimerType
    BY <1>3, Parts
  <2>3. /\ g \in FrameType /\ g.k = "tick" /\ g.t = t /\ FrameOK(g)
        /\ g.inside_call = tm[t].inside_call
    <3>1. tm[t].inside_call \in BOOLEAN
      BY <2>2 DEF TimerType
    <3> QED
      BY <1>1, <1>3, <1>6, <3>1 DEF TickFrame, Frame, FrameType, FrameOK
  <2> HIDE DEF g
  <2>4. stack' = n
    BY <1>7, <1>9, <2>1, <2>3, TwoOnTop DEF Instead
  <2> HIDE DEF m
  <2>5. Follows(g, m[1])
    BY <1>5, <1>7, <1>8, <2>3 DEF Follows
  <2>6. /\ Nested(n) /\ Len(n) = Len(m) + 1 /\ n[1] = g /\ n # <<>>
        /\ \A i \in 1..Len(m) : n[i + 1] = m[i]
    BY <1>8, <2>3, <2>5, PushStack
  <2>7. n \in Seq(FrameType)
    BY <2>6 DEF Nested
  <2> HIDE DEF n
  <2>8. /\ r \in TimerType /\ r.st = tm[t].st /\ r.at = tm[t].at /\ r.frozen = tm[t].frozen
        /\ r.pending = tm[t].pending /\ r.delete_me = tm[t].delete_me
        /\ r.just_added = tm[t].just_added /\ r.inside_call
    <3>1. TRUE \in BOOLEAN
      OBVIOUS
    <3> QED
      BY <2>2, <3>1 DEF TimerType
  <2> HIDE DEF r
  <2>9. /\ tm' \in [Timers -> TimerType] /\ tm'[t] = r
        /\ \A u \in Timers : u # t => tm'[u] = tm[u]
    BY <1>3, <2>1, <2>8, Parts
  <2>10. \A u \in Timers : /\ tm'[u].st = tm[u].st /\ tm'[u].at = tm[u].at
                           /\ tm'[u].frozen = tm[u].frozen /\ tm'[u].pending = tm[u].pending
    BY <2>8, <2>9
  <2>11. TypeOK' /\ Lists' /\ Times'
    BY <1>1, <1>10, <2>4, <2>6, <2>9, <2>10, SameLists
  <2>12. \A u \in Timers : Behind(tm, pd, u) => Behind(tm', pd', u)
    BY <1>1, <2>8, <2>9 DEF Behind
  <2>13. Ticks'
    <3> SUFFICES ASSUME NEW u \in Timers PROVE TicksOf(tm', n, u)
      BY <2>4 DEF Ticks
    <3>1. TicksOf(tm, stack, u)
      BY Parts
    <3>2. CASE u = t
      <4>1. OnStack(n, t)
        BY <1>9, <2>3, <2>6, <2>7, ConsTicks
      <4>2. Knowing(n, t) <=> Knowing(m, t) /\ (n[1].inside_call <=> OnStack(m, t))
        BY <1>9, <2>3, <2>6, <2>7, ConsTicks
      <4>3. Knowing(stack, t) /\ (tm[t].inside_call <=> OnStack(stack, t))
        BY <3>1, <3>2 DEF TicksOf
      <4>4. Knowing(n, t)
        BY <1>8, <2>3, <2>6, <4>2, <4>3
      <4> QED
        BY <1>3, <2>8, <2>9, <3>2, <4>1, <4>4 DEF TicksOf
    <3>3. CASE u # t
      <4>1. \A i \in 1..1 : n[i].k # "tick" \/ n[i].t # u
        BY <2>3, <2>6, <3>3
      <4>2. (OnStack(n, u) <=> OnStack(m, u)) /\ (Knowing(n, u) <=> Knowing(m, u))
        BY <1>9, <2>6, <2>7, <4>1, ShiftTicks
      <4> QED
        BY <1>8, <2>9, <3>1, <3>3, <4>2 DEF TicksOf
    <3> QED
      BY <3>2, <3>3
  <2>14. n[2] = f
    <3>1. 1 \in 1..Len(m)
      BY <1>8, <1>9
    <3>2. n[1 + 1] = m[1]
      BY <2>6, <3>1
    <3> QED
      BY <1>8, <3>2
  <2>15. Walking(n) /\ Walk(n) = f /\ ~Starting(n)
    BY <2>3, <2>6, <2>14 DEF Walking, Walk, Starting
  <2>16. Walks(tm', pd', n)
    <3>1. \A u \in Top.done : u \in Timers /\ Behind(tm, pd, u)
      BY <1>2, Parts DEF Walks
    <3> QED
      BY <1>1, <1>7, <2>12, <2>15, <3>1 DEF Walks
  <2>17. ASSUME NEW u \in Timers PROVE Deleted(tm', pd', n, u)
    <3>1. Deleted(tm, pd, stack, u) /\ tm'[u].delete_me = tm[u].delete_me
      BY <2>8, <2>9, Parts
    <3>2. Walk(stack).pc # "called"
      BY <1>1, <1>2
    <3> QED
      BY <2>12, <2>15, <3>1, <3>2 DEF Deleted
  <2>18. Created(tm', n)
    <3> SUFFICES ASSUME NEW i \in DOMAIN n, n[i].t # None PROVE tm'[n[i].t].st # "none"
      BY DEF Created
    <3>1. CASE i = 1
      BY <1>3, <2>3, <2>6, <2>10, <3>1
    <3>2. CASE i # 1
      <4>1. i - 1 \in 1..Len(m) /\ (i - 1) + 1 = i /\ i - 1 \in DOMAIN m
        BY <1>9, <2>6, <2>7, <3>2
      <4>2. n[i] = m[i - 1] /\ m[i - 1] \in FrameType
        BY <1>9, <2>6, <4>1
      <4>3. n[i].t \in Timers /\ tm[n[i].t].st # "none"
        BY <1>8, <4>1, <4>2 DEF Created, FrameType
      <4> QED
        BY <2>10, <4>3
    <3> QED
      BY <3>1, <3>2
  <2> QED
    BY <2>4, <2>6, <2>11, <2>13, <2>16, <2>17, <2>18 DEF TimerInv
<1> QED
  BY <1>11, <1>12


\* A callback of t leaves the stack: what _core_timer_legacy_tick does then.
LEMMA TickLeaves ==
    ASSUME TimerInv, stack # <<>>, Top.k = "tick", NEW t, t = Top.t, Instead(<<>>),
           NEW r \in TimerType, tm' = [tm EXCEPT ![t] = r],
           TypeOK', Lists', Times', r.st # "none",
           r.inside_call <=> Top.inside_call, r.inside_call => r.st = "live",
           r.delete_me => r.inside_call,
           \A u \in Timers : u # t /\ Behind(tm, pd, u) => Behind(tm', pd', u),
           Behind(tm, pd, t) => Behind(tm', pd', t),
           pd'.timer_current = pd.timer_current \/ Behind(tm', pd', t)
    PROVE  TimerInv'
<1> DEFINE n == Tail(stack)
<1>1. /\ Nested(stack) /\ Top = stack[1] /\ Walking(stack) /\ Walk(stack) = stack[2]
      /\ stack[2].pc = "called" /\ stack[2].t = t /\ t \in Timers /\ Len(stack) > 1
      /\ Follows(stack[1], stack[2]) /\ stack[2].done \subseteq Timers
  BY Parts, StackFacts DEF Top
<1>2. /\ stack' = n /\ Nested(n) /\ Len(stack) = Len(n) + 1
      /\ \A i \in 1..Len(n) : stack[i + 1] = n[i]
  BY <1>1, PopStack DEF Instead
<1>3. n # <<>>
  <2> HIDE DEF n
  <2>1. Len(n) \in Nat
    BY <1>2 DEF Nested
  <2> QED
    BY <1>1, <1>2, <2>1
<1>4. n[1] = stack[2]
  BY <1>1, <1>3, PopStack
<1>5. /\ \A u : u # t => /\ OnStack(n, u) <=> OnStack(stack, u)
                         /\ Knowing(n, u) <=> Knowing(stack, u)
      /\ Created(tm, n)
  <2>1. stack[1].t = t
    BY <1>1
  <2> QED
    BY <1>1, <2>1, Parts, PopFacts
<1> HIDE DEF n
<1>6. n \in Seq(FrameType) /\ stack \in Seq(FrameType)
  BY <1>1, <1>2 DEF Nested
<1>7. Knowing(stack, t) <=> Knowing(n, t) /\ (stack[1].inside_call <=> OnStack(n, t))
  BY <1>1, <1>2, <1>6, ConsTicks
<1>8. Knowing(n, t) /\ (Top.inside_call <=> OnStack(n, t))
  BY <1>1, <1>7, Parts DEF TicksOf
<1>9. tm'[t] = r /\ \A u \in Timers : u # t => tm'[u] = tm[u]
  BY <1>1, Parts
<1>10. Ticks'
  <2> SUFFICES ASSUME NEW u \in Timers PROVE TicksOf(tm', n, u)
    BY <1>2 DEF Ticks
  <2>1. CASE u = t
    BY <1>8, <1>9, <2>1 DEF TicksOf
  <2>2. CASE u # t
    BY <1>5, <1>9, <2>2, Parts DEF TicksOf
  <2> QED
    BY <2>1, <2>2
<1>11. Walking(n) /\ Walk(n) = stack[2] /\ ~Starting(n)
  BY <1>1, <1>3, <1>4 DEF Walking, Walk, Starting, Follows
<1>12. Walks(tm', pd', n)
  <2>1. \A u \in stack[2].done : u \in Timers /\ Behind(tm, pd, u)
    BY <1>1, Parts DEF Walks
  <2>2. t = pd.timer_current \/ Behind(tm, pd, t)
    BY <1>1, Parts DEF Walks
  <2>3. \A u \in stack[2].done : Behind(tm', pd', u)
    BY <2>1
  <2>4. t = pd'.timer_current \/ Behind(tm', pd', t)
    BY <2>2
  <2> QED
    BY <1>1, <1>11, <2>3, <2>4 DEF Walks
<1>13. ASSUME NEW u \in Timers PROVE Deleted(tm', pd', n, u)
  <2>1. CASE u = t
    BY <1>1, <1>11, <2>1 DEF Deleted
  <2>2. CASE u # t
    BY <1>1, <1>9, <1>11, <2>2, Parts DEF Deleted
  <2> QED
    BY <2>1, <2>2
<1>14. Created(tm', n)
  <2>1. \A u \in Timers : tm[u].st # "none" => tm'[u].st # "none"
    BY <1>9
  <2> QED
    BY <1>5, <1>6, <2>1, CreatedKept
<1> QED
  BY <1>2, <1>10, <1>12, <1>13, <1>14 DEF TimerInv

\* The function returns to _core_timer_legacy_tick.
LEMMA TickReturnStep == ASSUME TimerInv, NEW renew \in BOOLEAN, TickReturn(renew) PROVE TimerInv'
<1> DEFINE t == Top.t
           nested == Top.inside_call
<1>1. stack # <<>> /\ Top.k = "tick" /\ Instead(<<>>) /\ now' = now /\ calls' = calls
  BY DEF TickReturn
<1>2. /\ IF ~renew \/ tm[t].delete_me
         THEN IF nested
              THEN tm' = [tm EXCEPT ![t].delete_me = TRUE] /\ UNCHANGED pd
              ELSE /\ tm' = [EflDel(tm, t) EXCEPT ![t].delete_me = FALSE,
                                                  ![t].inside_call = FALSE]
                   /\ pd' = LoopClear(pd, t)
         ELSE tm' = [tm EXCEPT ![t].inside_call = nested] /\ UNCHANGED pd
  BY DEF TickReturn
<1>3. Nested(stack) /\ Top = stack[1] /\ t \in Timers /\ stack[1] \in FrameType /\ 1 \in DOMAIN stack
  BY <1>1, Parts, StackFacts DEF Top
<1>4. nested \in BOOLEAN
  BY <1>3 DEF FrameType
<1>5. tm[t] \in TimerType /\ tm[t].inside_call /\ tm[t].st = "live"
  <2>1. OnStack(stack, t)
    BY <1>1, <1>3 DEF OnStack, TickOf
  <2> QED
    BY <1>3, <2>1, Parts DEF TicksOf
<1>6. Nested(stack')
  BY <1>1, <1>3, PopStack DEF Instead
<1> HIDE DEF t, nested
<1>7. ASSUME NEW r \in TimerType, tm' = [tm EXCEPT ![t] = r], pd' = pd,
             r.st = tm[t].st, r.at = tm[t].at, r.frozen = tm[t].frozen, r.pending = tm[t].pending,
             r.just_added = tm[t].just_added, r.inside_call <=> nested, r.delete_me => r.inside_call
      PROVE  TimerInv'
  <2>1. tm' \in [Timers -> TimerType] /\ tm'[t] = r /\ \A u \in Timers : u # t => tm'[u] = tm[u]
    BY <1>3, <1>7, Parts
  <2>2. \A u \in Timers : /\ tm'[u].st = tm[u].st /\ tm'[u].at = tm[u].at
                          /\ tm'[u].frozen = tm[u].frozen /\ tm'[u].pending = tm[u].pending
                          /\ tm'[u].just_added = tm[u].just_added
    BY <1>7, <2>1
  <2>3. /\ now' \in 1..MaxTime /\ now <= now' /\ pd'.loop_time > 0 /\ pd'.loop_time <= now'
        /\ calls' \in 0..MaxCalls /\ Fitting(pd') /\ pd'.timers = pd.timers
        /\ pd'.suspended = pd.suspended
    BY <1>1, <1>7, Parts DEF Times
  <2>4. TypeOK' /\ Lists' /\ Times'
    BY <1>6, <2>1, <2>2, <2>3, SameLists
  <2>5. \A u \in Timers : Behind(tm, pd, u) => Behind(tm', pd', u)
    BY <1>7, <2>2 DEF Behind
  <2>6. t = Top.t /\ (r.inside_call <=> Top.inside_call) /\ r.st = "live"
    BY <1>5, <1>7 DEF t, nested
  <2> QED
    BY <1>1, <1>3, <1>7, <2>4, <2>5, <2>6, TickLeaves
<1>8. CASE ~(~renew \/ tm[t].delete_me)
  <2> DEFINE r == [tm[t] EXCEPT !.inside_call = nested]
  <2>1. tm' = [tm EXCEPT ![t] = r] /\ pd' = pd
    BY <1>2, <1>8
  <2>2. /\ r \in TimerType /\ r.st = tm[t].st /\ r.at = tm[t].at /\ r.frozen = tm[t].frozen
        /\ r.pending = tm[t].pending /\ r.just_added = tm[t].just_added
        /\ r.inside_call = nested /\ r.delete_me = tm[t].delete_me
    BY <1>4, <1>5 DEF TimerType
  <2> HIDE DEF r
  <2> QED
    BY <1>7, <1>8, <2>1, <2>2
<1>9. CASE (~renew \/ tm[t].delete_me) /\ nested
  <2> DEFINE r == [tm[t] EXCEPT !.delete_me = TRUE]
  <2>1. tm' = [tm EXCEPT ![t] = r] /\ pd' = pd
    BY <1>2, <1>9
  <2>2. /\ r \in TimerType /\ r.st = tm[t].st /\ r.at = tm[t].at /\ r.frozen = tm[t].frozen
        /\ r.pending = tm[t].pending /\ r.just_added = tm[t].just_added
        /\ r.inside_call = tm[t].inside_call
    <3>1. TRUE \in BOOLEAN
      OBVIOUS
    <3> QED
      BY <1>5, <3>1 DEF TimerType
  <2> HIDE DEF r
  <2> QED
    BY <1>5, <1>7, <1>9, <2>1, <2>2
<1>10. CASE (~renew \/ tm[t].delete_me) /\ ~nested
  <2> DEFINE r == [tm[t] EXCEPT !.st = "gone", !.just_added = FALSE, !.delete_me = FALSE,
                                !.inside_call = FALSE]
  <2>1. tm' = [EflDel(tm, t) EXCEPT ![t].delete_me = FALSE, ![t].inside_call = FALSE]
        /\ pd' = LoopClear(pd, t)
    BY <1>2, <1>10
  <2>2. tm' = [tm EXCEPT ![t] = r]
    BY <1>3, <1>5, <2>1, Parts DEF EflDel
  <2>3. /\ r \in TimerType /\ r.st = "gone" /\ r.frozen = tm[t].frozen
        /\ r.inside_call = FALSE /\ r.delete_me = FALSE
    <3>1. FALSE \in BOOLEAN
      OBVIOUS
    <3> QED
      BY <1>5, <3>1 DEF TimerType
  <2> HIDE DEF r
  <2>4. tm' \in [Timers -> TimerType] /\ tm'[t] = r /\ \A u \in Timers : u # t => tm'[u] = tm[u]
    BY <1>3, <2>2, <2>3, Parts
  <2>5. Placing(pd, pd', t) /\ t \notin Members(pd'.timers) /\ t \notin Members(pd'.suspended)
    BY <1>3, <2>1, Parts, LoopClearPlaces
  <2>6. /\ Fitting(pd') /\ pd'.loop_time = pd.loop_time
        /\ \A u \in Timers : u # t => /\ u \in Members(pd'.timers) <=> u \in Members(pd.timers)
                                      /\ u \in Members(pd'.suspended) <=> u \in Members(pd.suspended)
                                      /\ Past(pd, u) => Past(pd', u)
        /\ \A a, b \in Timers \ {t} : Before(pd'.timers, a, b) => Before(pd.timers, a, b)
    BY <2>5 DEF Placing
  <2>7. TypeOK'
    BY <1>1, <1>6, <2>4, <2>6, Parts DEF TypeOK, Fitting, Nested
  <2>8. Sorted(tm', pd'.timers)
    <3> SUFFICES ASSUME NEW a \in Timers, NEW b \in Timers, Before(pd'.timers, a, b)
                 PROVE  tm'[a].at <= tm'[b].at
      BY DEF Sorted
    <3>1. a \in Members(pd'.timers) /\ b \in Members(pd'.timers)
      BY <2>6, FittingParts, SeqFacts
    <3>2. a # t /\ b # t
      BY <2>5, <3>1
    <3> QED
      BY <2>4, <2>6, <3>2, Parts DEF Sorted
  <2>9. Lists'
    <3> SUFFICES ASSUME NEW u \in Timers
                 PROVE  /\ u \in Members(pd'.timers) <=> tm'[u].st = "live" /\ ~tm'[u].frozen
                        /\ u \in Members(pd'.suspended) <=> tm'[u].st = "live" /\ tm'[u].frozen
      BY <2>6, <2>8 DEF Lists
    <3>1. CASE u = t
      BY <2>3, <2>4, <2>5, <3>1
    <3>2. CASE u # t
      BY <2>4, <2>6, <3>2, Parts DEF Lists
    <3> QED
      BY <3>1, <3>2
  <2>10. Times'
    <3>1. \A u \in Timers : tm'[u].st # "none" <=> tm[u].st # "none"
      BY <1>5, <2>3, <2>4
    <3>2. \A u \in Timers : tm'[u].st # "none" <=> u < Fresh'
      BY <3>1, FreshKept
    <3>3. ASSUME NEW u \in Timers
          PROVE  /\ tm'[u].st = "live" /\ ~tm'[u].frozen => tm'[u].at > 0
                 /\ tm'[u].st = "live" /\ tm'[u].frozen => tm'[u].pending + now > 0
      <4>1. CASE u = t
        BY <2>3, <2>4, <4>1
      <4>2. CASE u # t
        BY <2>4, <4>2, Parts DEF Times
      <4> QED
        BY <4>1, <4>2
    <3> QED
      BY <1>1, <2>6, <3>2, <3>3, Parts DEF Times
  <2>11. Behind(tm', pd', t)
    BY <2>5 DEF Behind, Past
  <2>12. \A u \in Timers : u # t /\ Behind(tm, pd, u) => Behind(tm', pd', u)
    BY <2>4, <2>6 DEF Behind
  <2>13. t = Top.t /\ (r.inside_call <=> Top.inside_call) /\ (r.inside_call => r.st = "live")
         /\ r.st # "none" /\ (r.delete_me => r.inside_call)
    BY <1>10, <2>3 DEF t, nested
  <2> QED
    BY <1>1, <2>2, <2>3, <2>7, <2>9, <2>10, <2>11, <2>12, <2>13, TickLeaves
<1> QED
  BY <1>8, <1>9, <1>10


-----------------------------------------------------------------------------
(* The invariant *)

\* No timer is created and nothing is on the stack at first.
LEMMA InitTimer == ASSUME Init PROVE TimerInv
<1>1. /\ tm = [t \in Timers |-> NoTimer] /\ now = 1 /\ stack = <<>> /\ calls = MaxCalls
      /\ pd = [timers |-> <<>>, suspended |-> <<>>, timer_current |-> None,
               timers_added |-> FALSE, loop_time |-> 1]
  BY DEF Init
<1>2. NoTimer \in TimerType
  BY DEF NoTimer, TimerType
<1>3. \A t \in Timers : /\ tm[t].st = "none" /\ tm[t].delete_me = FALSE /\ tm[t].inside_call = FALSE
  BY <1>1 DEF NoTimer
<1>4. /\ pd \in LoopType /\ pd.timers = <<>> /\ pd.suspended = <<>> /\ pd.timer_current = None
      /\ pd.loop_time = 1
  BY <1>1 DEF LoopType
<1>5. Members(<<>>) = {} /\ Once(<<>>) /\ \A a, b : ~Before(<<>>, a, b)
  BY DEF Members, Once, Before
<1>6. TypeOK
  BY <1>1, <1>2, <1>4, BoundAssumption DEF TypeOK
<1>7. Lists
  BY <1>3, <1>4, <1>5 DEF Lists, Fitting, Sorted
<1>8. Times
  <2>1. {t \in Timers : tm[t].st # "none"} = {}
    BY <1>3
  <2>2. Fresh = 1
    BY <2>1, FS_EmptySet DEF Fresh
  <2>3. \A t \in Timers : ~(t < Fresh)
    BY <2>2 DEF Timers
  <2> QED
    BY <1>1, <1>3, <1>4, <2>3 DEF Times
<1>9. Nested(stack) /\ Created(tm, stack)
  BY <1>1 DEF Nested, Created
<1>10. Ticks
  BY <1>1, <1>3 DEF Ticks, TicksOf, OnStack, Knowing
<1>11. Walks(tm, pd, stack)
  BY <1>1, <1>4 DEF Walks, Walking
<1>12. \A t \in Timers : Deleted(tm, pd, stack, t)
  BY <1>3 DEF Deleted
<1> QED
  BY <1>6, <1>7, <1>8, <1>9, <1>10, <1>11, <1>12 DEF TimerInv

\* Every step keeps the invariant.
LEMMA TimerStep == ASSUME TimerInv, [Next]_vars PROVE TimerInv'
<1>1. CASE UserCall
  <2>1. ASSUME NEW t \in Timers, \E in \in Intervals : IntervalSet(t, in) \/ Delay(t, in)
        PROVE  TimerInv'
    BY <2>1, IntervalStep, DelayStep
  <2>2. ASSUME NEW t \in Timers, \E time \in {now, pd.loop_time} : Reset(t, time)
        PROVE  TimerInv'
    BY <2>2, ResetStep
  <2> QED
    BY <1>1, <2>1, <2>2, AddStep, DelStep, FreezeStep, ThawStep, PassStep DEF UserCall
<1>2. CASE Library
  <2>1. ASSUME \E time \in {now, pd.loop_time} : Iterate(time) PROVE TimerInv'
    BY <2>1, IterateStep
  <2> QED
    BY <1>2, <2>1, WalkStartStep, WalkEndStep, WalkSkipStep, WalkCallStep, WalkCalledStep,
       TickReturnStep, PollFirstStep, EnableNewStep, DoneStep, SleepStep, PollStep DEF Library
<1>3. CASE UNCHANGED vars
  <2>1. tm' = tm /\ pd' = pd /\ now' = now /\ stack' = stack /\ calls' = calls
    BY <1>3 DEF vars
  <2> QED
    BY <2>1 DEF TimerInv, TypeOK, Lists, Times, Ticks, Fresh
<1> QED
  BY <1>1, <1>2, <1>3 DEF Next

\* TimerInv is an invariant of the main loop and its timers.
THEOREM TimerInvariant == Spec => []TimerInv
<1>1. Init => TimerInv
  BY InitTimer
<1>2. TimerInv /\ [Next]_vars => TimerInv'
  BY TimerStep
<1> QED
  BY <1>1, <1>2, PTL DEF Spec

\* The state is of its type.
THEOREM TypeCorrect == Spec => []TypeOK
<1>1. TimerInv => TypeOK
  BY DEF TimerInv
<1> QED
  BY <1>1, TimerInvariant, PTL

\* The elements of two lists that have none in common, counted.
LEMMA CountLists ==
    ASSUME NEW r \in Seq(Timers), NEW s \in Seq(Timers), Once(r), Once(s),
           Members(r) \cap Members(s) = {}
    PROVE  Len(r \o s) = Cardinality(Members(r) \cup Members(s))
<1> DEFINE q == r \o s
           S == Members(r) \cup Members(s)
<1>1. /\ Len(r) \in Nat /\ DOMAIN r = 1..Len(r) /\ Len(s) \in Nat /\ DOMAIN s = 1..Len(s)
      /\ q \in Seq(Timers) /\ Len(q) = Len(r) + Len(s) /\ Len(q) \in Nat /\ DOMAIN q = 1..Len(q)
  OBVIOUS
<1>2. \A i \in 1..Len(q) : q[i] = IF i <= Len(r) THEN r[i] ELSE s[i - Len(r)]
  BY <1>1
<1> HIDE DEF q
<1>3. \A i \in 1..Len(q) : i > Len(r) => i - Len(r) \in 1..Len(s)
  BY <1>1
<1>4. \A i \in 1..Len(q) : /\ i <= Len(r) => q[i] \in Members(r)
                           /\ ~(i <= Len(r)) => q[i] \in Members(s)
  <2> SUFFICES ASSUME NEW i \in 1..Len(q)
               PROVE  /\ i <= Len(r) => q[i] \in Members(r)
                      /\ ~(i <= Len(r)) => q[i] \in Members(s)
    OBVIOUS
  <2>1. CASE i <= Len(r)
    <3>1. i \in DOMAIN r /\ q[i] = r[i]
      BY <1>1, <1>2, <2>1
    <3> QED
      BY <2>1, <3>1 DEF Members
  <2>2. CASE ~(i <= Len(r))
    <3>1. i - Len(r) \in DOMAIN s /\ q[i] = s[i - Len(r)]
      BY <1>1, <1>2, <1>3, <2>2
    <3> QED
      BY <2>2, <3>1 DEF Members
  <2> QED
    BY <2>1, <2>2
<1>5. \A i \in 1..Len(q) : q[i] \in S
  BY <1>4
<1>6. ASSUME NEW i \in 1..Len(q), NEW j \in 1..Len(q), q[i] = q[j] PROVE i = j
  <2>1. CASE i <= Len(r) /\ j <= Len(r)
    BY <1>1, <1>2, <1>6, <2>1 DEF Once
  <2>2. CASE i > Len(r) /\ j > Len(r)
    <3>1. i - Len(r) \in DOMAIN s /\ j - Len(r) \in DOMAIN s /\ s[i - Len(r)] = s[j - Len(r)]
      BY <1>1, <1>2, <1>3, <1>6, <2>2
    <3>2. i - Len(r) = j - Len(r)
      BY <3>1 DEF Once
    <3> QED
      BY <1>1, <3>2
  <2>3. CASE i <= Len(r) /\ ~(j <= Len(r))
    BY <1>4, <1>6, <2>3
  <2>4. CASE ~(i <= Len(r)) /\ j <= Len(r)
    BY <1>4, <1>6, <2>4
  <2> QED
    BY <1>1, <2>1, <2>2, <2>3, <2>4
<1>7. ASSUME NEW x \in S PROVE \E i \in 1..Len(q) : q[i] = x
  <2>1. CASE x \in Members(r)
    <3>1. PICK i \in 1..Len(r) : r[i] = x
      BY <1>1, <2>1 DEF Members
    <3>2. i \in 1..Len(q) /\ q[i] = x
      BY <1>1, <1>2, <3>1
    <3> QED
      BY <3>2
  <2>2. CASE x \in Members(s)
    <3>1. PICK i \in 1..Len(s) : s[i] = x
      BY <1>1, <2>2 DEF Members
    <3>2. i + Len(r) \in 1..Len(q) /\ ~(i + Len(r) <= Len(r)) /\ (i + Len(r)) - Len(r) = i
      BY <1>1, <3>1
    <3>3. q[i + Len(r)] = x
      BY <1>2, <3>1, <3>2
    <3> QED
      BY <3>2, <3>3
  <2> QED
    BY <2>1, <2>2
<1> HIDE DEF S
<1>8. q \in [1..Len(q) -> S]
  BY <1>1, <1>5
<1>9. ExistsBijection(1..Len(q), S)
  <2>1. q \in Bijection(1..Len(q), S)
    <3>1. q \in Injection(1..Len(q), S)
      <4>1. \A i, j \in 1..Len(q) : q[i] = q[j] => i = j
        BY <1>6
      <4> QED
        BY <1>8, <4>1 DEF Injection, IsInjective
    <3>2. q \in Surjection(1..Len(q), S)
      BY <1>7, <1>8 DEF Surjection
    <3> QED
      BY <3>1, <3>2 DEF Bijection
  <2> QED
    BY <2>1 DEF ExistsBijection
<1>10. Cardinality(S) = Len(q)
  BY <1>1, <1>9, FS_CountingElements
<1> QED
  BY <1>10 DEF S, q

\* The two lists hold every live timer once, the frozen ones apart and the
\* others sorted by expiry, whatever callbacks and iterations within callbacks
\* do; timer_current is never a timer that left the list.
THEOREM ListsStayExact == Spec => []ListsExact
<1>1. TimerInv => ListsExact
  <2> SUFFICES ASSUME TimerInv PROVE ListsExact
    OBVIOUS
  <2>1. /\ pd.timers \in Seq(Timers) /\ pd.suspended \in Seq(Timers)
        /\ Once(pd.timers) /\ Once(pd.suspended)
        /\ Members(pd.timers) \subseteq Timers /\ Members(pd.suspended) \subseteq Timers
        /\ Members(pd.timers) \cap Members(pd.suspended) = {}
        /\ pd.timer_current # None => pd.timer_current \in Members(pd.timers)
    BY Parts, FittingParts
  <2>2. \A t \in Timers : /\ t \in Members(pd.timers) <=> tm[t].st = "live" /\ ~tm[t].frozen
                          /\ t \in Members(pd.suspended) <=> tm[t].st = "live" /\ tm[t].frozen
    BY Parts DEF Lists
  <2>3. /\ Members(pd.timers) = {t \in Timers : tm[t].st = "live" /\ ~tm[t].frozen}
        /\ Members(pd.suspended) = {t \in Timers : tm[t].st = "live" /\ tm[t].frozen}
    BY <2>1, <2>2
  <2>4. Members(pd.timers) \cup Members(pd.suspended) = {t \in Timers : tm[t].st = "live"}
    BY <2>1, <2>2
  <2>5. Len(pd.timers \o pd.suspended) = Cardinality({t \in Timers : tm[t].st = "live"})
    BY <2>1, <2>4, CountLists
  <2>6. ASSUME NEW i \in 1..Len(pd.timers) - 1
        PROVE  tm[pd.timers[i]].at <= tm[pd.timers[i + 1]].at
    <3>1. /\ i \in DOMAIN pd.timers /\ i + 1 \in DOMAIN pd.timers /\ i < i + 1
          /\ pd.timers[i] \in Timers /\ pd.timers[i + 1] \in Timers
      BY <2>1
    <3>2. Before(pd.timers, pd.timers[i], pd.timers[i + 1])
      BY <3>1 DEF Before
    <3> QED
      BY <3>1, <3>2, Parts DEF Sorted
  <2> QED
    BY <2>1, <2>3, <2>5, <2>6 DEF ListsExact
<1> QED
  BY <1>1, TimerInvariant, PTL

\* One walk calls a timer at most once, however deep the walks are within each
\* other.
THEOREM CalledOncePerWalk == Spec => []OncePerWalk
<1>1. TimerInv => OncePerWalk
  <2> SUFFICES ASSUME TimerInv, NEW i \in DOMAIN stack, stack[i].k = "tick"
               PROVE  stack[i].t \notin stack[i + 1].done
    BY DEF OncePerWalk
  <2>1. Nested(stack) /\ Len(stack) \in Nat /\ DOMAIN stack = 1..Len(stack)
    BY Parts, StackFacts
  <2>2. i # Len(stack)
    BY <2>1 DEF Nested
  <2>3. i < Len(stack)
    BY <2>1, <2>2
  <2>4. Follows(stack[i], stack[i + 1])
    BY <2>1, <2>3 DEF Nested
  <2> QED
    BY <2>4 DEF Follows
<1> QED
  BY <1>1, TimerInvariant, PTL

\* When a timer is deleted only by its own callback while that runs, and no
\* iteration is made after that within the callback, no function is called
\* after its timer was deleted, and nothing its caller uses is freed.
THEOREM TickedAlive == "deleted" \notin Uses => (Spec => []TickLive)
<1> SUFFICES ASSUME "deleted" \notin Uses PROVE Spec => []TickLive
  OBVIOUS
<1>1. TimerInv => TickLive
  <2> SUFFICES ASSUME TimerInv, NEW i \in DOMAIN stack, stack[i].k = "tick"
               PROVE  stack[i].pc # "stale" /\ tm[stack[i].t].st = "live"
    BY DEF TickLive
  <2>1. FrameOK(stack[i]) /\ stack[i] \in FrameType
    BY Parts, StackFacts DEF Nested
  <2>2. stack[i].pc = "run" /\ stack[i].t \in Timers
    BY <2>1 DEF FrameOK, FrameType
  <2>3. OnStack(stack, stack[i].t)
    BY DEF OnStack, TickOf
  <2> QED
    BY <2>2, <2>3, Parts DEF TicksOf
<1> QED
  BY <1>1, TimerInvariant, PTL


=============================================================================
