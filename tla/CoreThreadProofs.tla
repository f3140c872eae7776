-------------------------- MODULE CoreThreadProofs --------------------------
(***************************************************************************)
(* Proofs about CoreThread for any jobs and threads, any number of failed  *)
(* creations, notifications and reschedules.                               *)
(*                                                                         *)
(* The argument: a job that has not been released is in exactly one place  *)
(* (on a pending list, kept for a thread of its own, in the hands of one   *)
(* thread, or in one call posted to the main loop), or it waits with its   *)
(* kill flag set for the notifications still posted, of which there are as *)
(* many as send exceeds received.  A release takes the job out of its last *)
(* place.  Places are counted, so that each step is a sum.                 *)
(***************************************************************************)
EXTENDS CoreThread, FiniteSetTheorems, WellFoundedInduction, TLAPS

\* How often x is in s.
Occ(s, x) == Cardinality({i \in DOMAIN s : s[i] = x})

\* How often x is in what was posted to the main loop.
Posted(x) == Occ(orders, x) + Occ(outer, x) + Occ(inner, x)

\* Where a job may be: on a list, kept by core_thread_feedback_run for a thread of
\* its own, in the hands of threads, on its way back to the main loop.
Listed(j) == Occ(pending, j)
ListedFb(j) == Occ(pendingFb, j)
Kept(j) == IF main.op \in {"direct", "dflush", "dretry"} /\ main.job = j THEN 1 ELSE 0
Held(j) == Cardinality({w \in Threads : thr[w].work = j})
Told(j) == Posted(<<"handler", j>>)

\* Its notifications that are not delivered.
Noted(j) == Posted(<<"notify", j>>)

\* No function makes its thread cancellable; no feedback job is rescheduled.
NoKill == Cancellable = {}
NoFbResched == "feedback" \notin ReschedKinds

\* No failed creation has taken back a job that a pool thread had taken already.
NoLateTakeBack == \A j \in Jobs : ~hist[j].stale

\* What is known of a job: r and h are its records in job and hist, l, f, k, t, o
\* and n the counts of its places and notifications, c says that its func_notify
\* is on the stack.
JobOK(r, h, l, f, k, t, o, n, c) ==
    /\ l + f + k + t + o <= 1
    /\ n = r.send - r.received
    /\ r.kind = "none" =>
         ~r.live /\ ~r.kill /\ l + f + k + t + o = 0 /\ h.ends + h.cancels = 0
         /\ ~h.stale /\ n = 0 /\ ~c
    /\ r.kind = "short" => r.send = 0 /\ r.received = 0
    /\ r.kill => l + f + k + t + o = 0 /\ r.kind # "short"
    /\ r.live => /\ h.ends + h.cancels = 0 /\ ~h.stale
                 /\ l + f + k + t + o = 1 \/ (r.kill /\ (n > 0 \/ c))
    /\ r.kind # "none" /\ ~r.live /\ ~h.stale =>
         /\ l + f + k + t + o = 0 /\ h.ends + h.cancels = 1
         /\ r.kill \/ NoFbResched => n = 0 /\ ~c
    /\ l > 0 => r.kind = "short"
    /\ f > 0 => r.kind = "feedback" /\ (NoFbResched => r.send = 0)
    /\ k > 0 => r.kind = "direct" /\ r.send = 0 /\ ~r.resched
    /\ r.resched => r.kind \in ReschedKinds
    /\ c => r.kind # "short"
    /\ h.ends > 0 => l + f + k + t + o = 0 /\ ~r.live /\ ~r.cancel
    /\ NoKill /\ h.ends > 0 => h.completed
    /\ NoKill /\ (o > 0 \/ r.kill) => h.completed \/ r.cancel

JobState(j) == JobOK(job[j], hist[j], Listed(j), ListedFb(j), Kept(j), Held(j), Told(j),
                     Noted(j), main.cbk = j)

JobInv == \A j \in Jobs : JobState(j)

PoolWork == {"add", "read", "run", "clean", "post"}
DirectWork == {"dstart", "drun", "dclean"}

\* A thread that has ended is joined once; a thread has a job where it needs one.
ThreadOK(w) ==
    /\ thr[w].work # NoJob <=> thr[w].pc \in PoolWork \cup DirectWork
    /\ thr[w].pc \in PoolWork => job[thr[w].work].kind \in {"short", "feedback"}
    /\ thr[w].pc \in DirectWork => job[thr[w].work].kind = "direct"
    /\ NoKill /\ thr[w].pc \in {"clean", "post", "dclean"} =>
         hist[thr[w].work].completed \/ job[thr[w].work].cancel
    /\ NoKill => ~thr[w].dying
    /\ Posted(<<"join", w>>) = IF thr[w].pc = "gone" THEN 1 ELSE 0

ThreadInv == \A w \in Threads : ThreadOK(w)

\* A job on the running list is with the thread that put it there.
RunningInv ==
    \A j \in running : \E w \in Threads :
      thr[w].work = j /\ thr[w].pc \in {"read", "run", "clean"}

Flushing == {"flush", "dflush", "wait", "drain", "final", "gaveup"}
Starting == {"create", "flush", "retry", "giveup", "direct", "dflush", "dretry"}

\* What the main thread is about.
MainInv ==
    /\ main.cbk # NoJob => main.op \in Flushing \cup {"idle"}
    /\ main.op \in Starting \cup {"wait"} => main.job \in Jobs
    /\ main.op \in Starting => ~hist[main.job].stale /\ job[main.job].kind # "none"
    /\ inner # <<>> => main.op \in Flushing

Ending == {"sdcancel", "drain", "final", "down", "gaveup", "left"}

\* What is left while the pool is shut down.
ShutInv ==
    /\ main.op \in Ending => outer = <<>>
    /\ NoKill /\ main.op \in Ending /\ (pending # <<>> \/ pendingFb # <<>>) =>
         \E w \in Threads : WillLook(w)
    /\ main.op \in {"final", "down"} =>
         /\ orders = <<>> /\ \A w \in Threads : thr[w].pc \in {"none", "gone"}

PoolInv ==
    /\ TypeOK /\ JobInv /\ ThreadInv /\ RunningInv /\ MainInv /\ ShutInv
    /\ WaiterOnStack /\ CountExact

-----------------------------------------------------------------------------
(* Counting in sequences *)

\* An element is in a sequence when it is there at least once.
LEMMA OccType ==
    ASSUME NEW T, NEW s \in Seq(T), NEW x
    PROVE  /\ IsFiniteSet({i \in DOMAIN s : s[i] = x}) /\ Occ(s, x) \in Nat
           /\ Occ(s, x) = 0 <=> x \notin Elements(s)
<1> DEFINE I == {i \in DOMAIN s : s[i] = x}
<1>1. Len(s) \in Nat /\ DOMAIN s = 1..Len(s)
  OBVIOUS
<1>2. IsFiniteSet(1..Len(s)) /\ I \in SUBSET (1..Len(s))
  BY <1>1, FS_Interval
<1>3. I = {} <=> x \notin Elements(s)
  BY DEF Elements
<1> HIDE DEF I
<1>4. IsFiniteSet(I)
  BY <1>2, FS_Subset
<1>5. Cardinality(I) \in Nat
  BY <1>4, FS_CardinalityType
<1>6. Cardinality(I) = 0 <=> I = {}
  BY <1>4, FS_EmptySet
<1> QED
  BY <1>3, <1>4, <1>5, <1>6 DEF I, Occ

\* Nothing is in the empty sequence.
LEMMA OccEmpty == ASSUME NEW x PROVE Occ(<<>>, x) = 0
<1>1. {i \in DOMAIN <<>> : <<>>[i] = x} = {}
  OBVIOUS
<1> QED
  BY <1>1, FS_EmptySet DEF Occ

\* A list or the posted calls grow by one.
LEMMA OccAppend ==
    ASSUME NEW T, NEW s \in Seq(T), NEW y \in T, NEW x
    PROVE  Occ(Append(s, y), x) = Occ(s, x) + (IF y = x THEN 1 ELSE 0)
<1> DEFINE I == {i \in DOMAIN s : s[i] = x}
           t == Append(s, y)
           J == {i \in DOMAIN t : t[i] = x}
<1>1. /\ Len(s) \in Nat /\ DOMAIN s = 1..Len(s) /\ DOMAIN t = 1..Len(s) + 1
      /\ t[Len(s) + 1] = y /\ \A i \in 1..Len(s) : t[i] = s[i]
  OBVIOUS
<1>2. IsFiniteSet(I) /\ Len(s) + 1 \notin I
  <2>1. IsFiniteSet(I)
    BY OccType
  <2>2. Len(s) + 1 \notin 1..Len(s)
    BY <1>1
  <2> QED
    BY <1>1, <2>1, <2>2
<1> HIDE DEF t
<1>3. J = IF y = x THEN I \cup {Len(s) + 1} ELSE I
  BY <1>1
<1> HIDE DEF I, J
<1>4. Cardinality(I) \in Nat /\ Cardinality(I \cup {Len(s) + 1}) = Cardinality(I) + 1
  BY <1>2, FS_AddElement, FS_CardinalityType
<1>5. Cardinality(J) = Cardinality(I) + (IF y = x THEN 1 ELSE 0)
  BY <1>3, <1>4
<1> QED
  BY <1>5 DEF I, J, t, Occ

\* What is left of s without its i-th element.
Cut(s, i) == [k \in 1..(Len(s) - 1) |-> IF k < i THEN s[k] ELSE s[k + 1]]

\* An element leaves a sequence.
LEMMA OccCut ==
    ASSUME NEW T, NEW s \in Seq(T), NEW m \in DOMAIN s, NEW x
    PROVE  /\ Cut(s, m) \in Seq(T)
           /\ Occ(s, x) = Occ(Cut(s, m), x) + (IF s[m] = x THEN 1 ELSE 0)
<1> DEFINE t == Cut(s, m)
           I == {i \in DOMAIN s : s[i] = x}
           J == {i \in DOMAIN t : t[i] = x}
           up == [k \in J |-> IF k < m THEN k ELSE k + 1]
<1>1. Len(s) \in Nat /\ DOMAIN s = 1..Len(s) /\ m \in 1..Len(s) /\ \A i \in 1..Len(s) : s[i] \in T
  OBVIOUS
<1>2. /\ DOMAIN t = 1..(Len(s) - 1) /\ Len(s) - 1 \in Nat
      /\ \A k \in 1..(Len(s) - 1) : t[k] = IF k < m THEN s[k] ELSE s[k + 1]
  BY <1>1 DEF Cut
<1>3. t \in Seq(T)
  BY <1>1, <1>2 DEF Cut
<1> HIDE DEF t
<1>4. up \in Bijection(J, I \ {m})
  <2>1. \A k \in J : /\ k \in 1..(Len(s) - 1) /\ t[k] = x
                     /\ up[k] = IF k < m THEN k ELSE k + 1
    BY <1>2
  <2>2. \A k \in J : up[k] \in I \ {m}
    BY <1>1, <1>2, <2>1
  <2>3. up \in [J -> I \ {m}]
    BY <2>2
  <2>4. \A a, b \in J : up[a] = up[b] => a = b
    BY <1>1, <2>1
  <2>5. ASSUME NEW i \in I \ {m} PROVE \E k \in J : up[k] = i
    <3>1. i \in 1..Len(s) /\ s[i] = x /\ i # m
      BY <1>1
    <3>2. CASE i < m
      <4>1. i \in J
        BY <1>1, <1>2, <3>1, <3>2
      <4> QED
        BY <2>1, <3>2, <4>1
    <3>3. CASE i > m
      <4>1. i - 1 \in J /\ ~(i - 1 < m) /\ (i - 1) + 1 = i
        BY <1>1, <1>2, <3>1, <3>3
      <4> QED
        BY <2>1, <4>1
    <3> QED
      BY <1>1, <3>1, <3>2, <3>3
  <2> HIDE DEF up, J, I
  <2>6. up \in Injection(J, I \ {m})
    BY <2>3, <2>4 DEF Injection, IsInjective
  <2>7. up \in Surjection(J, I \ {m})
    BY <2>3, <2>5 DEF Surjection
  <2> QED
    BY <2>6, <2>7 DEF Bijection
<1>5. IsFiniteSet(I) /\ IsFiniteSet(J)
  BY <1>3, OccType
<1>6. m \in I <=> s[m] = x
  OBVIOUS
<1> HIDE DEF up, I, J
<1>7. Cardinality(I \ {m}) = Cardinality(J)
  <2>1. ExistsBijection(J, I \ {m})
    BY <1>4 DEF ExistsBijection
  <2> QED
    BY <1>5, <2>1, FS_Bijection
<1>8. Cardinality(I) \in Nat /\ Cardinality(I) = Cardinality(I \ {m}) + (IF s[m] = x THEN 1 ELSE 0)
  <2>1. Cardinality(I) \in Nat
    BY <1>5, FS_CardinalityType
  <2>2. Cardinality(I \ {m}) = IF m \in I THEN Cardinality(I) - 1 ELSE Cardinality(I)
    BY <1>5, FS_RemoveElement
  <2> QED
    BY <1>6, <2>1, <2>2
<1> QED
  BY <1>3, <1>7, <1>8 DEF I, J, t, Occ

\* A list or a batch loses its head.
LEMMA OccTail ==
    ASSUME NEW T, NEW s \in Seq(T), s # <<>>, NEW x
    PROVE  /\ Tail(s) \in Seq(T) /\ Head(s) \in T
           /\ Occ(s, x) = Occ(Tail(s), x) + (IF Head(s) = x THEN 1 ELSE 0)
<1>1. Len(s) \in Nat /\ Len(s) > 0 /\ DOMAIN s = 1..Len(s) /\ 1 \in DOMAIN s
  OBVIOUS
<1>2. Tail(s) \in Seq(T) /\ Head(s) \in T /\ Head(s) = s[1] /\ Len(Tail(s)) = Len(s) - 1
      /\ \A k \in 1..(Len(s) - 1) : Tail(s)[k] = s[k + 1]
  OBVIOUS
<1>3. Cut(s, 1) \in Seq(T) /\ Occ(s, x) = Occ(Cut(s, 1), x) + (IF s[1] = x THEN 1 ELSE 0)
  BY <1>1, OccCut
<1>4. Len(Cut(s, 1)) = Len(s) - 1 /\ \A k \in 1..(Len(s) - 1) : Cut(s, 1)[k] = s[k + 1]
  BY <1>1 DEF Cut
<1> DEFINE t == Tail(s)
           u == Cut(s, 1)
<1> HIDE DEF t, u
<1>5. t = u
  <2>1. t \in Seq(T) /\ u \in Seq(T) /\ Len(t) = Len(u) /\ \A k \in 1..Len(t) : t[k] = u[k]
    BY <1>2, <1>3, <1>4 DEF t, u
  <2> QED
    BY <2>1
<1> QED
  BY <1>2, <1>3, <1>5 DEF t, u

\* eina_list_remove.
LEMMA OccWithout ==
    ASSUME NEW T, NEW s \in Seq(T), NEW y, NEW x
    PROVE  /\ Without(s, y) \in Seq(T)
           /\ Occ(s, x) = Occ(Without(s, y), x) + (IF x = y /\ y \in Elements(s) THEN 1 ELSE 0)
<1>1. CASE y \in Elements(s)
  <2> DEFINE P(k) == s[k] = y /\ \A n \in 1..(k - 1) : s[n] # y
             m == CHOOSE k \in DOMAIN s : P(k)
  <2>1. \E k \in DOMAIN s : P(k)
    <3>1. PICK k \in DOMAIN s : s[k] = y
      BY <1>1 DEF Elements
    <3> DEFINE K == {i \in DOMAIN s : s[i] = y}
    <3>2. K \subseteq Nat /\ k \in K
      BY <3>1
    <3> HIDE DEF K
    <3>3. PICK i \in K : \A n \in K : ~(n < i)
      <4> DEFINE R == OpToRel(<, Nat)
      <4>1. IsWellFoundedOn(R, Nat)
        BY NatLessThanWellFounded
      <4>2. \A a, b \in Nat : a < b => <<a, b>> \in R
        BY DEF OpToRel
      <4> HIDE DEF R
      <4>3. \E i \in K : \A n \in K : ~(<<n, i>> \in R)
        BY <3>2, <4>1, WFMin
      <4> QED
        BY <3>2, <4>2, <4>3
    <3> USE DEF K
    <3> QED
      BY <3>3
  <2>2. m \in DOMAIN s /\ s[m] = y
    BY <2>1
  <2>3. Without(s, y) = Cut(s, m)
    BY <1>1 DEF Without, Cut
  <2> HIDE DEF m
  <2>4. /\ Cut(s, m) \in Seq(T)
        /\ Occ(s, x) = Occ(Cut(s, m), x) + (IF s[m] = x THEN 1 ELSE 0)
    BY <2>2, OccCut
  <2> QED
    BY <1>1, <2>2, <2>3, <2>4
<1>2. CASE y \notin Elements(s)
  <2>1. Without(s, y) = s /\ Occ(s, x) \in Nat
    BY <1>2, OccType DEF Without
  <2> QED
    BY <1>2, <2>1
<1> QED
  BY <1>1, <1>2

-----------------------------------------------------------------------------
(* Counting threads *)

\* Sets of threads are finite.
LEMMA ThreadSets ==
    ASSUME NEW S \in SUBSET Threads, NEW w \in Threads
    PROVE  /\ Cardinality(S) \in Nat
           /\ Cardinality(S) = 0 <=> S = {}
           /\ Cardinality(S \cup {w}) = Cardinality(S) + (IF w \in S THEN 0 ELSE 1)
           /\ Cardinality(S \ {w}) = Cardinality(S) - (IF w \in S THEN 1 ELSE 0)
           /\ Cardinality(S) <= 1 => \A a, b \in S : a = b
<1>1. IsFiniteSet(S)
  BY FiniteAssumption, FS_Subset
<1>2. Cardinality(S) \in Nat /\ (Cardinality(S) = 0 <=> S = {})
  BY <1>1, FS_CardinalityType, FS_EmptySet
<1>3. Cardinality(S \cup {w}) = Cardinality(S) + (IF w \in S THEN 0 ELSE 1)
  <2>1. Cardinality(S \cup {w}) = IF w \in S THEN Cardinality(S) ELSE Cardinality(S) + 1
    BY <1>1, FS_AddElement
  <2> QED
    BY <1>2, <2>1
<1>4. Cardinality(S \ {w}) = Cardinality(S) - (IF w \in S THEN 1 ELSE 0)
  <2>1. Cardinality(S \ {w}) = IF w \in S THEN Cardinality(S) - 1 ELSE Cardinality(S)
    BY <1>1, FS_RemoveElement
  <2> QED
    BY <1>2, <2>1
<1>5. ASSUME Cardinality(S) <= 1, NEW a \in S, NEW b \in S PROVE a = b
  <2>1. Cardinality(S) = 1
    BY <1>2, <1>5
  <2>2. \E x : S = {x}
    BY <1>1, <2>1, FS_Singleton
  <2> QED
    BY <2>2
<1> QED
  BY <1>2, <1>3, <1>4, <1>5

\* How many threads are at a control point of P.
At(P) == Cardinality({w \in Threads : thr[w].pc \in P})

\* One thread makes a step: what it holds and where it is change the counts.
LEMMA OneThread ==
    ASSUME NEW w \in Threads, \A v \in Threads : v # w => thr'[v] = thr[v]
    PROVE  /\ \A j \in Jobs : /\ Held(j) \in Nat /\ Held(j)' \in Nat
                              /\ Held(j)' = Held(j) - (IF thr[w].work = j THEN 1 ELSE 0)
                                              + (IF thr'[w].work = j THEN 1 ELSE 0)
           /\ \A P : /\ At(P) \in Nat /\ At(P)' \in Nat
                     /\ At(P)' = At(P) - (IF thr[w].pc \in P THEN 1 ELSE 0)
                                   + (IF thr'[w].pc \in P THEN 1 ELSE 0)
<1>1. ASSUME NEW S \in SUBSET Threads, NEW R \in SUBSET Threads, S \ {w} = R \ {w}
      PROVE  /\ Cardinality(S) \in Nat /\ Cardinality(R) \in Nat
             /\ Cardinality(R) = Cardinality(S) - (IF w \in S THEN 1 ELSE 0)
                                                + (IF w \in R THEN 1 ELSE 0)
  <2>1. /\ Cardinality(S) \in Nat
        /\ Cardinality(S \ {w}) = Cardinality(S) - (IF w \in S THEN 1 ELSE 0)
    BY ThreadSets
  <2>2. /\ Cardinality(R) \in Nat
        /\ Cardinality(R \ {w}) = Cardinality(R) - (IF w \in R THEN 1 ELSE 0)
    BY ThreadSets
  <2>3. Cardinality(S \ {w}) = Cardinality(R \ {w})
    BY <1>1
  <2> QED
    BY <2>1, <2>2, <2>3
<1>2. ASSUME NEW j \in Jobs
      PROVE  /\ Held(j) \in Nat /\ Held(j)' \in Nat
             /\ Held(j)' = Held(j) - (IF thr[w].work = j THEN 1 ELSE 0)
                             + (IF thr'[w].work = j THEN 1 ELSE 0)
  <2> DEFINE S == {v \in Threads : thr[v].work = j}
             R == {v \in Threads : thr'[v].work = j}
  <2>1. /\ S \in SUBSET Threads /\ R \in SUBSET Threads /\ S \ {w} = R \ {w}
        /\ w \in S <=> thr[w].work = j
        /\ w \in R <=> thr'[w].work = j
    OBVIOUS
  <2>2. Held(j) = Cardinality(S) /\ Held(j)' = Cardinality(R)
    BY DEF Held
  <2> HIDE DEF S, R
  <2> QED
    BY <1>1, <2>1, <2>2
<1>3. ASSUME NEW P
      PROVE  /\ At(P) \in Nat /\ At(P)' \in Nat
             /\ At(P)' = At(P) - (IF thr[w].pc \in P THEN 1 ELSE 0)
                           + (IF thr'[w].pc \in P THEN 1 ELSE 0)
  <2> DEFINE S == {v \in Threads : thr[v].pc \in P}
             R == {v \in Threads : thr'[v].pc \in P}
  <2>1. /\ S \in SUBSET Threads /\ R \in SUBSET Threads /\ S \ {w} = R \ {w}
        /\ w \in S <=> thr[w].pc \in P
        /\ w \in R <=> thr'[w].pc \in P
    OBVIOUS
  <2>2. At(P) = Cardinality(S) /\ At(P)' = Cardinality(R)
    BY DEF At
  <2> HIDE DEF S, R
  <2> QED
    BY <1>1, <2>1, <2>2
<1> QED
  BY <1>2, <1>3

\* No thread moves: pthread_cancel requests at most.
LEMMA NoThreadMoves ==
    ASSUME \A v \in Threads : thr'[v].work = thr[v].work /\ thr'[v].pc = thr[v].pc
    PROVE  /\ \A j \in Jobs : Held(j) \in Nat /\ Held(j)' = Held(j)
           /\ \A P : At(P)' = At(P)
<1>1. ASSUME NEW j \in Jobs PROVE Held(j) \in Nat /\ Held(j)' = Held(j)
  <2>1. {v \in Threads : thr[v].work = j} = {v \in Threads : thr'[v].work = j}
    OBVIOUS
  <2>2. IsFiniteSet({v \in Threads : thr[v].work = j})
    BY FiniteAssumption, FS_Subset
  <2> QED
    BY <2>1, <2>2, FS_CardinalityType DEF Held
<1>2. ASSUME NEW P PROVE At(P)' = At(P)
  <2>1. {v \in Threads : thr[v].pc \in P} = {v \in Threads : thr'[v].pc \in P}
    OBVIOUS
  <2> QED
    BY <2>1 DEF At
<1> QED
  BY <1>1, <1>2

\* What a count of zero or one says of the threads.
LEMMA HeldBy ==
    ASSUME NEW j \in Jobs
    PROVE  /\ Held(j) \in Nat
           /\ Held(j) = 0 <=> \A w \in Threads : thr[w].work # j
           /\ Held(j) <= 1 => \A v, w \in Threads : thr[v].work = j /\ thr[w].work = j => v = w
<1> DEFINE S == {v \in Threads : thr[v].work = j}
<1>1. S \in SUBSET Threads /\ IsFiniteSet(S)
  BY FiniteAssumption, FS_Subset
<1> HIDE DEF S
<1>2. Cardinality(S) \in Nat /\ (Cardinality(S) = 0 <=> S = {})
  BY <1>1, FS_CardinalityType, FS_EmptySet
<1>3. ASSUME Cardinality(S) <= 1, NEW a \in S, NEW b \in S PROVE a = b
  BY <1>1, <1>3, ThreadSets
<1> QED
  BY <1>2, <1>3 DEF S, Held

-----------------------------------------------------------------------------
(* Counting what was posted *)

\* The counts of a call in the three lists.
LEMMA PostedType ==
    ASSUME TypeOK, NEW x
    PROVE  /\ Occ(orders, x) \in Nat /\ Occ(outer, x) \in Nat /\ Occ(inner, x) \in Nat
           /\ Posted(x) \in Nat
           /\ Posted(x) = 0 <=> x \notin Elements(orders) \cup Elements(outer) \cup Elements(inner)
<1>1. orders \in Seq(Order) /\ outer \in Seq(Order) /\ inner \in Seq(Order)
  BY DEF TypeOK
<1>2. Occ(orders, x) \in Nat /\ (Occ(orders, x) = 0 <=> x \notin Elements(orders))
  BY <1>1, OccType
<1>3. Occ(outer, x) \in Nat /\ (Occ(outer, x) = 0 <=> x \notin Elements(outer))
  BY <1>1, OccType
<1>4. Occ(inner, x) \in Nat /\ (Occ(inner, x) = 0 <=> x \notin Elements(inner))
  BY <1>1, OccType
<1> QED
  BY <1>2, <1>3, <1>4 DEF Posted

\* A thread posts a call.
LEMMA PostCounts ==
    ASSUME TypeOK, NEW o \in Order, Post(o), UNCHANGED <<outer, inner>>, NEW x
    PROVE  Posted(x)' = Posted(x) + (IF o = x THEN 1 ELSE 0)
<1>1. orders \in Seq(Order) /\ orders' = Append(orders, o)
  BY DEF TypeOK, Post
<1>2. Occ(orders', x) = Occ(orders, x) + (IF o = x THEN 1 ELSE 0)
  BY <1>1, OccAppend
<1>3. Occ(orders, x) \in Nat /\ Occ(outer, x) \in Nat /\ Occ(inner, x) \in Nat
  BY PostedType
<1> QED
  BY <1>2, <1>3 DEF Posted

\* The main loop takes a call.
LEMMA NextCounts ==
    ASSUME TypeOK, NEW o, NextOrder(o), orders' = orders
    PROVE  /\ \A x : Posted(x)' \in Nat /\ Posted(x) = Posted(x)' + (IF o = x THEN 1 ELSE 0)
           /\ o \in Order /\ outer' \in Seq(Order) /\ inner' \in Seq(Order)
           /\ main.op \in Flushing \cup {"idle"} /\ main.cbk = NoJob
           /\ main.op # "idle" => inner # <<>>
           /\ main.op = "idle" => outer # <<>>
           /\ inner = <<>> => inner' = <<>>
           /\ outer = <<>> => outer' = <<>>
<1>1. outer \in Seq(Order) /\ inner \in Seq(Order)
  BY DEF TypeOK
<1>2. ASSUME NEW x PROVE Occ(orders, x) \in Nat /\ Occ(outer, x) \in Nat /\ Occ(inner, x) \in Nat
  BY PostedType
<1>3. CASE main.op = "idle" /\ outer # <<>> /\ o = Head(outer) /\ outer' = Tail(outer) /\ inner' = inner
  <2>1. ASSUME NEW x
        PROVE  Posted(x)' \in Nat /\ Posted(x) = Posted(x)' + (IF o = x THEN 1 ELSE 0)
    <3>1. outer' \in Seq(Order) /\ Occ(outer, x) = Occ(outer', x) + (IF o = x THEN 1 ELSE 0)
      BY <1>1, <1>3, OccTail
    <3>2. Occ(outer', x) \in Nat
      BY <3>1, OccType
    <3> QED
      BY <1>2, <1>3, <3>1, <3>2, SMTT(30) DEF Posted
  <2>2. o \in Order /\ outer' \in Seq(Order)
    BY <1>1, <1>3
  <2> QED
    BY <1>1, <1>3, <2>1, <2>2 DEF NextOrder, Flushing
<1>4. CASE /\ main.op \in Flushing /\ inner # <<>> /\ o = Head(inner)
           /\ inner' = Tail(inner) /\ outer' = outer
  <2>1. ASSUME NEW x
        PROVE  Posted(x)' \in Nat /\ Posted(x) = Posted(x)' + (IF o = x THEN 1 ELSE 0)
    <3>1. inner' \in Seq(Order) /\ Occ(inner, x) = Occ(inner', x) + (IF o = x THEN 1 ELSE 0)
      BY <1>1, <1>4, OccTail
    <3>2. Occ(inner', x) \in Nat
      BY <3>1, OccType
    <3> QED
      BY <1>2, <1>4, <3>1, <3>2 DEF Posted
  <2>2. o \in Order /\ inner' \in Seq(Order)
    BY <1>1, <1>4
  <2> QED
    BY <1>1, <1>4, <2>1, <2>2 DEF NextOrder, Flushing
<1> QED
  BY <1>3, <1>4 DEF NextOrder, Flushing

\* A flush takes the whole list.
LEMMA FlushCounts ==
    ASSUME TypeOK, orders' = <<>>, NEW x,
           \/ inner = <<>> /\ inner' = orders /\ outer' = outer
           \/ outer = <<>> /\ outer' = orders /\ inner' = inner
    PROVE  Posted(x)' = Posted(x)
<1>1. Occ(orders, x) \in Nat /\ Occ(outer, x) \in Nat /\ Occ(inner, x) \in Nat
  BY PostedType
<1>2. Occ(orders', x) = 0 /\ (inner = <<>> => Occ(inner, x) = 0) /\ (outer = <<>> => Occ(outer, x) = 0)
  BY OccEmpty
<1> QED
  BY <1>1, <1>2 DEF Posted

\* The counts of the places of a job.
LEMMA PlaceTypes ==
    ASSUME TypeOK, NEW j \in Jobs
    PROVE  /\ Listed(j) \in Nat /\ ListedFb(j) \in Nat /\ Kept(j) \in 0..1 /\ Held(j) \in Nat
           /\ Told(j) \in Nat /\ Noted(j) \in Nat
           /\ Listed(j) = 0 <=> j \notin Elements(pending)
           /\ ListedFb(j) = 0 <=> j \notin Elements(pendingFb)
<1>1. pending \in Seq(Jobs) /\ pendingFb \in Seq(Jobs)
  BY DEF TypeOK
<1>2. Listed(j) \in Nat /\ (Listed(j) = 0 <=> j \notin Elements(pending))
  BY <1>1, OccType DEF Listed
<1>3. ListedFb(j) \in Nat /\ (ListedFb(j) = 0 <=> j \notin Elements(pendingFb))
  BY <1>1, OccType DEF ListedFb
<1>4. Told(j) \in Nat /\ Noted(j) \in Nat
  BY PostedType DEF Told, Noted
<1>5. Held(j) \in Nat /\ Kept(j) \in 0..1
  BY HeldBy DEF Kept
<1> QED
  BY <1>2, <1>3, <1>4, <1>5

-----------------------------------------------------------------------------
(* Types *)

\* The types that updates of the variables need.
MainType == [op: Ops, job: Jobs \cup {NoJob}, cbk: Jobs \cup {NoJob}, tried: BOOLEAN]

\* A release keeps the types.
LEMMA KillTyped ==
    ASSUME TypeOK, NEW j \in Jobs, Kill(j)
    PROVE  job' \in [Jobs -> Job] /\ hist' \in [Jobs -> Hist]
<1>1. job \in [Jobs -> Job] /\ hist \in [Jobs -> Hist]
  BY DEF TypeOK
<1>2. [job EXCEPT ![j].live = FALSE, ![j].waiter = FALSE] \in [Jobs -> Job]
  <2> DEFINE r == [job[j] EXCEPT !.live = FALSE, !.waiter = FALSE]
  <2>1. r \in Job
    BY <1>1 DEF Job
  <2>2. [job EXCEPT ![j].live = FALSE, ![j].waiter = FALSE] = [job EXCEPT ![j] = r]
    OBVIOUS
  <2> HIDE DEF r
  <2> QED
    BY <1>1, <2>1, <2>2
<1>3. /\ [hist EXCEPT ![j].ends = @ + 1] \in [Jobs -> Hist]
      /\ [hist EXCEPT ![j].cancels = @ + 1] \in [Jobs -> Hist]
  BY <1>1 DEF Hist
<1> QED
  BY <1>2, <1>3 DEF Kill

\* So does a cancellation.
LEMMA MarkTyped ==
    ASSUME TypeOK, NEW S \in SUBSET Jobs, MarkCancelled(S)
    PROVE  /\ job' \in [Jobs -> Job] /\ thr' \in [Threads -> Thread]
           /\ \A v \in Threads : /\ thr'[v].work = thr[v].work /\ thr'[v].pc = thr[v].pc
                                 /\ thr'[v].dying = thr[v].dying
           /\ \A j \in Jobs \ S : job'[j] = job[j]
           /\ \A j \in S : job'[j] = [job[j] EXCEPT !.cancel = TRUE]
<1>1. job \in [Jobs -> Job] /\ thr \in [Threads -> Thread]
  BY DEF TypeOK
<1>2. \A j \in Jobs : [job[j] EXCEPT !.cancel = TRUE] \in Job
  BY <1>1 DEF Job
<1>3. \A v \in Threads : \A b \in BOOLEAN :
        LET r == [thr[v] EXCEPT !.req = b]
        IN  r \in Thread /\ r.work = thr[v].work /\ r.pc = thr[v].pc /\ r.dying = thr[v].dying
  BY <1>1 DEF Thread
<1>4. \A v \in Threads : thr[v].req \in BOOLEAN
  BY <1>1 DEF Thread
<1>5. \A v \in Threads : (thr[v].req \/ (thr[v].pc # "none" /\ Cancellable # {})) \in BOOLEAN
  OBVIOUS
<1>6. \A v \in Threads :
        /\ thr'[v] \in Thread /\ thr'[v].work = thr[v].work /\ thr'[v].pc = thr[v].pc
        /\ thr'[v].dying = thr[v].dying
  <2> SUFFICES ASSUME NEW v \in Threads
               PROVE  /\ thr'[v] \in Thread /\ thr'[v].work = thr[v].work
                      /\ thr'[v].pc = thr[v].pc /\ thr'[v].dying = thr[v].dying
    OBVIOUS
  <2>1. PICK b \in BOOLEAN : b = (thr[v].req \/ (thr[v].pc # "none" /\ Cancellable # {}))
    BY <1>5
  <2>2. thr'[v] = [thr[v] EXCEPT !.req = b] \/ thr'[v] = thr[v]
    BY <2>1 DEF MarkCancelled
  <2> QED
    BY <1>1, <1>3, <2>2
<1>7. job' \in [Jobs -> Job]
  BY <1>1, <1>2 DEF MarkCancelled
<1>8. thr' \in [Threads -> Thread]
  <2>1. thr' = [v \in Threads |-> thr'[v]]
    BY DEF MarkCancelled
  <2> QED
    BY <1>6, <2>1
<1> QED
  BY <1>6, <1>7, <1>8 DEF MarkCancelled

\* Taking a job back keeps the types.
LEMMA TakeBackTyped ==
    ASSUME TypeOK, NEW j \in Jobs, TakeBack(j)
    PROVE  /\ job' \in [Jobs -> Job] /\ hist' \in [Jobs -> Hist]
           /\ pending' \in Seq(Jobs) /\ pendingFb' \in Seq(Jobs)
<1>1. /\ job \in [Jobs -> Job] /\ hist \in [Jobs -> Hist]
      /\ pending \in Seq(Jobs) /\ pendingFb \in Seq(Jobs)
  BY DEF TypeOK
<1>2. PICK b \in BOOLEAN : b = (j \notin Elements(pending \o pendingFb))
  OBVIOUS
<1>3. hist' = [hist EXCEPT ![j].cancels = @ + 1, ![j].stale = b]
  BY <1>2 DEF TakeBack
<1>4. job' \in [Jobs -> Job]
  BY <1>1 DEF TakeBack, Job
<1>5. hist' \in [Jobs -> Hist]
  <2>1. PICK n \in Nat : n = hist[j].cancels + 1
    BY <1>1 DEF Hist
  <2> DEFINE r == [hist[j] EXCEPT !.cancels = n, !.stale = b]
  <2>2. r \in Hist
    BY <1>1 DEF Hist
  <2>3. hist' = [hist EXCEPT ![j] = r]
    BY <1>3, <2>1
  <2> HIDE DEF r
  <2> QED
    BY <1>1, <2>2, <2>3
<1>6. pending' \in Seq(Jobs) /\ pendingFb' \in Seq(Jobs)
  BY <1>1, OccWithout DEF TakeBack
<1> QED
  BY <1>4, <1>5, <1>6

\* A job is queued.
LEMMA EnqueueTyped ==
    ASSUME TypeOK, NEW j \in Jobs, NEW k \in {"short", "feedback"}, NEW b \in BOOLEAN,
           Enqueue(j, k, b)
    PROVE  pending' \in Seq(Jobs) /\ pendingFb' \in Seq(Jobs) /\ main' \in MainType
<1>0. pending \in Seq(Jobs) /\ pendingFb \in Seq(Jobs)
  BY DEF TypeOK
<1>1. pending' \in Seq(Jobs) /\ pendingFb' \in Seq(Jobs)
  <2>1. CASE k = "short"
    BY <1>0, <2>1 DEF Enqueue
  <2>2. CASE k = "feedback"
    BY <1>0, <2>2 DEF Enqueue
  <2> QED
    BY <2>1, <2>2
<1>2. Idle \in MainType /\ [Idle EXCEPT !.op = "create", !.job = j, !.tried = b] \in MainType
  <2>1. CASE b = TRUE
    BY <2>1 DEF Idle, MainType, Ops
  <2>2. CASE b = FALSE
    BY <2>2 DEF Idle, MainType, Ops
  <2> QED
    BY <2>1, <2>2
<1> QED
  BY <1>1, <1>2 DEF Enqueue

-----------------------------------------------------------------------------
(* What a step leaves alone *)

\* The parts of the invariant a job, a thread and the counts make.
LEMMA Parts ==
    ASSUME PoolInv
    PROVE  /\ TypeOK /\ JobInv /\ ThreadInv /\ RunningInv /\ MainInv /\ ShutInv
           /\ WaiterOnStack /\ CountExact
           /\ job \in [Jobs -> Job] /\ hist \in [Jobs -> Hist] /\ thr \in [Threads -> Thread]
           /\ pending \in Seq(Jobs) /\ pendingFb \in Seq(Jobs) /\ running \subseteq Jobs
           /\ orders \in Seq(Order) /\ outer \in Seq(Order) /\ inner \in Seq(Order)
           /\ main \in MainType /\ count \in Nat /\ countNQ \in Int /\ max \in Nat /\ fails \in Nat
BY DEF PoolInv, TypeOK, MainType

\* The counters in terms of At, before and after a step.
LEMMA CountAt ==
    /\ CountExact <=> /\ count = At(PoolPC)
                      /\ countNQ = At(DirectWork) - (IF main.op = "dcount" THEN 1 ELSE 0)
    /\ CountExact' <=> /\ count' = At(PoolPC)'
                       /\ countNQ' = At(DirectWork)' - (IF main'.op = "dcount" THEN 1 ELSE 0)
<1>1. CountExact <=> /\ count = At(PoolPC)
                     /\ countNQ = At(DirectWork) - (IF main.op = "dcount" THEN 1 ELSE 0)
  BY DEF CountExact, At, DirectWork
<1>2. CountExact' <=> /\ count' = At(PoolPC)'
                      /\ countNQ' = At(DirectWork)' - (IF main'.op = "dcount" THEN 1 ELSE 0)
  BY DEF CountExact, At, DirectWork
<1> QED
  BY <1>1, <1>2

\* A number of threads.
LEMMA AtType ==
    ASSUME NEW P
    PROVE  At(P) \in Nat /\ (At(P) = 0 => \A w \in Threads : thr[w].pc \notin P)
<1> DEFINE S == {v \in Threads : thr[v].pc \in P}
<1>1. S \in SUBSET Threads /\ At(P) = Cardinality(S)
  BY DEF At
<1>2. IsFiniteSet(S)
  BY FiniteAssumption, FS_Subset
<1>3. Cardinality(S) \in Nat /\ (Cardinality(S) = 0 => S = {})
  BY <1>2, FS_CardinalityType, FS_EmptySet
<1> QED
  BY <1>1, <1>3

\* The threads do not move.
LEMMA CountKept ==
    ASSUME CountExact, \A P : At(P)' = At(P), count' = count,
           countNQ' = countNQ + (IF main.op = "dcount" THEN 1 ELSE 0)
                              - (IF main'.op = "dcount" THEN 1 ELSE 0)
    PROVE  CountExact'
<1>1. At(PoolPC) \in Nat /\ At(DirectWork) \in Nat
  BY AtType
<1>2. At(PoolPC)' = At(PoolPC) /\ At(DirectWork)' = At(DirectWork)
  OBVIOUS
<1> QED
  BY <1>1, <1>2, CountAt

\* What is known of one job.
LEMMA JobFacts ==
    ASSUME PoolInv, NEW j \in Jobs
    PROVE  /\ JobState(j) /\ job[j] \in Job /\ hist[j] \in Hist
           /\ Listed(j) \in Nat /\ ListedFb(j) \in Nat /\ Kept(j) \in 0..1 /\ Held(j) \in Nat
           /\ Told(j) \in Nat /\ Noted(j) \in Nat
           /\ Listed(j) = 0 <=> j \notin Elements(pending)
           /\ ListedFb(j) = 0 <=> j \notin Elements(pendingFb)
           /\ hist[j].ends \in Nat /\ hist[j].cancels \in Nat
           /\ job[j].send \in Nat /\ job[j].received \in Nat
           /\ job[j].kind \in Kinds
<1>1. JobState(j) /\ job[j] \in Job /\ hist[j] \in Hist
  BY Parts DEF JobInv
<1>2. /\ hist[j].ends \in Nat /\ hist[j].cancels \in Nat
      /\ job[j].send \in Nat /\ job[j].received \in Nat
      /\ job[j].kind \in Kinds
  BY <1>1 DEF Job, Hist
<1>3. /\ Listed(j) \in Nat /\ ListedFb(j) \in Nat /\ Kept(j) \in 0..1 /\ Held(j) \in Nat
      /\ Told(j) \in Nat /\ Noted(j) \in Nat
      /\ Listed(j) = 0 <=> j \notin Elements(pending)
      /\ ListedFb(j) = 0 <=> j \notin Elements(pendingFb)
  BY Parts, PlaceTypes
<1> QED
  BY <1>1, <1>2, <1>3

\* Nothing about the job changes.
Same(j) ==
    /\ job'[j] = job[j] /\ hist'[j] = hist[j]
    /\ Listed(j)' = Listed(j) /\ ListedFb(j)' = ListedFb(j) /\ Kept(j)' = Kept(j)
    /\ Held(j)' = Held(j) /\ Told(j)' = Told(j) /\ Noted(j)' = Noted(j)
    /\ main'.cbk = j <=> main.cbk = j

\* Then its state is as good as before.
LEMMA SameKeeps ==
    ASSUME NEW j \in Jobs, JobState(j), Same(j)
    PROVE  JobState(j)'
<1>1. (main.cbk = j)' <=> main.cbk = j
  BY DEF Same
<1>2. CASE main.cbk = j
  BY <1>1, <1>2 DEF Same, JobState, JobOK
<1>3. CASE main.cbk # j
  BY <1>1, <1>3 DEF Same, JobState, JobOK
<1> QED
  BY <1>2, <1>3

\* No thread moves, no thread ends or is joined, and jobs keep what threads rely on.
LEMMA StillThreads ==
    ASSUME ThreadInv, RunningInv, running' = running,
           \A v \in Threads : /\ thr'[v].work = thr[v].work /\ thr'[v].pc = thr[v].pc
                              /\ thr'[v].dying = thr[v].dying
                              /\ Posted(<<"join", v>>)' = Posted(<<"join", v>>),
           \A v \in Threads : thr[v].work # NoJob =>
             /\ job'[thr[v].work].kind = job[thr[v].work].kind
             /\ hist'[thr[v].work].completed = hist[thr[v].work].completed
             /\ job[thr[v].work].cancel => job'[thr[v].work].cancel
    PROVE  /\ ThreadInv' /\ RunningInv'
           /\ \A j \in Jobs : Held(j) \in Nat /\ Held(j)' = Held(j)
           /\ \A P : At(P)' = At(P)
<1>1. ASSUME NEW v \in Threads PROVE ThreadOK(v)'
  <2>1. ThreadOK(v)
    BY DEF ThreadInv
  <2>2. thr[v].pc \in PoolWork \cup DirectWork => thr[v].work # NoJob
    BY <2>1 DEF ThreadOK
  <2> QED
    BY <2>1, <2>2 DEF ThreadOK, PoolWork, DirectWork
<1>2. ASSUME NEW j \in running
      PROVE  \E v \in Threads : thr'[v].work = j /\ thr'[v].pc \in {"read", "run", "clean"}
  <2>1. PICK v \in Threads : thr[v].work = j /\ thr[v].pc \in {"read", "run", "clean"}
    BY DEF RunningInv
  <2>2. thr'[v].work = thr[v].work /\ thr'[v].pc = thr[v].pc
    OBVIOUS
  <2> QED
    BY <2>1, <2>2
<1>3. /\ \A j \in Jobs : Held(j) \in Nat /\ Held(j)' = Held(j)
      /\ \A P : At(P)' = At(P)
  BY NoThreadMoves
<1> QED
  BY <1>1, <1>2, <1>3 DEF ThreadInv, RunningInv

\* A step of the main thread between its calls: jobs and threads stay.
LEMMA BetweenCalls ==
    ASSUME PoolInv, UNCHANGED <<job, hist, pending, pendingFb, running, thr>>,
           \A x : Posted(x)' = Posted(x), main'.cbk = main.cbk,
           \A j \in Jobs : Kept(j)' = Kept(j)
    PROVE  JobInv' /\ ThreadInv' /\ RunningInv' /\ \A P : At(P)' = At(P)
<1>1. JobInv /\ ThreadInv /\ RunningInv
  BY Parts
<1>2. /\ ThreadInv' /\ RunningInv'
      /\ \A j \in Jobs : Held(j) \in Nat /\ Held(j)' = Held(j)
      /\ \A P : At(P)' = At(P)
  BY <1>1, StillThreads
<1>3. ASSUME NEW j \in Jobs PROVE JobState(j)'
  <2>1. Same(j)
    BY <1>2 DEF Same, Listed, ListedFb, Told, Noted
  <2> QED
    BY <1>1, <2>1, SameKeeps DEF JobInv
<1> QED
  BY <1>2, <1>3 DEF JobInv

-----------------------------------------------------------------------------
(* The main thread between two calls *)

\* The thread of its own is counted.
LEMMA DirectCountStep == ASSUME PoolInv, DirectCount PROVE PoolInv'
<1>1. /\ main.op = "dcount" /\ main' = Idle /\ countNQ' = countNQ + 1
      /\ UNCHANGED <<job, hist, pending, pendingFb, running, count, max, thr, orders, outer, inner, fails>>
  BY DEF DirectCount
<1>2. main.cbk = NoJob /\ inner = <<>>
  BY <1>1, Parts DEF MainInv, Flushing
<1>3. JobInv' /\ ThreadInv' /\ RunningInv' /\ \A P : At(P)' = At(P)
  BY <1>1, <1>2, BetweenCalls DEF Idle, Kept, Posted
<1>4. TypeOK'
  BY <1>1, Parts DEF TypeOK, Idle, Ops
<1>5. CountExact'
  BY <1>1, <1>3, Parts, CountKept DEF Idle
<1>6. MainInv' /\ ShutInv' /\ WaiterOnStack'
  BY <1>1, <1>2, Parts DEF MainInv, ShutInv, WaiterOnStack, Idle, Starting, Ending, Flushing
<1> QED
  BY <1>3, <1>4, <1>5, <1>6 DEF PoolInv

\* A creation fails once: the main thread takes what was posted.
LEMMA FirstFailStep == ASSUME PoolInv, FirstFail PROVE PoolInv'
<1>1. /\ main.op \in {"create", "direct"} /\ fails' = fails + 1
      /\ main' = [main EXCEPT !.tried = TRUE, !.op = IF @ = "create" THEN "flush" ELSE "dflush"]
      /\ inner' = orders /\ orders' = <<>>
      /\ UNCHANGED <<job, hist, pending, pendingFb, running, count, countNQ, max, thr, outer>>
  BY DEF FirstFail
<1>2. main.cbk = NoJob /\ inner = <<>>
  BY <1>1, Parts DEF MainInv, Flushing
<1>3. /\ main' \in MainType /\ main'.cbk = main.cbk /\ main'.job = main.job
      /\ main'.op = IF main.op = "create" THEN "flush" ELSE "dflush"
  BY <1>1, Parts DEF MainType, Ops
<1>4. \A x : Posted(x)' = Posted(x)
  BY <1>1, <1>2, Parts, FlushCounts
<1>5. \A j \in Jobs : Kept(j)' = Kept(j)
  BY <1>1, <1>3 DEF Kept
<1>6. JobInv' /\ ThreadInv' /\ RunningInv' /\ \A P : At(P)' = At(P)
  BY <1>1, <1>3, <1>4, <1>5, BetweenCalls
<1>7. TypeOK'
  BY <1>1, <1>3, Parts DEF TypeOK, MainType
<1>8. CountExact'
  BY <1>1, <1>3, <1>6, Parts, CountKept
<1>9. MainInv' /\ ShutInv' /\ WaiterOnStack'
  BY <1>1, <1>2, <1>3, Parts DEF MainInv, ShutInv, WaiterOnStack, Starting, Ending, Flushing
<1> QED
  BY <1>6, <1>7, <1>8, <1>9 DEF PoolInv

\* The flush after a failure is over.
LEMMA FlushDoneStep == ASSUME PoolInv, FlushDone PROVE PoolInv'
<1>1. /\ main.op \in {"flush", "dflush"} /\ main.cbk = NoJob /\ inner = <<>>
      /\ main' = [main EXCEPT !.op = IF @ = "flush" THEN "retry" ELSE "dretry"]
      /\ UNCHANGED <<job, hist, pending, pendingFb, running, count, countNQ, max, thr, orders, outer, inner, fails>>
  BY DEF FlushDone
<1>2. /\ main' \in MainType /\ main'.cbk = main.cbk /\ main'.job = main.job
      /\ main'.op = IF main.op = "flush" THEN "retry" ELSE "dretry"
  BY <1>1, Parts DEF MainType, Ops
<1>3. \A j \in Jobs : Kept(j)' = Kept(j)
  BY <1>1, <1>2 DEF Kept
<1>4. JobInv' /\ ThreadInv' /\ RunningInv' /\ \A P : At(P)' = At(P)
  BY <1>1, <1>2, <1>3, BetweenCalls DEF Posted
<1>5. TypeOK'
  BY <1>1, <1>2, Parts DEF TypeOK, MainType
<1>6. CountExact'
  BY <1>1, <1>2, <1>4, Parts, CountKept
<1>7. MainInv' /\ ShutInv' /\ WaiterOnStack'
  BY <1>1, <1>2, Parts DEF MainInv, ShutInv, WaiterOnStack, Starting, Ending, Flushing
<1> QED
  BY <1>4, <1>5, <1>6, <1>7 DEF PoolInv

\* The maximum is set, the pool initialised again, or nothing happens.
LEMMA SettingSteps ==
    ASSUME PoolInv,
           (\E n \in MaxValues : core_thread_max_set(n)) \/ _core_thread_init \/ UNCHANGED vars
    PROVE  PoolInv'
<1>1. /\ main' = main \/ (main.op = "down" /\ main' = Idle)
      /\ max' \in Nat
      /\ UNCHANGED <<job, hist, pending, pendingFb, running, count, countNQ, thr, orders, outer, inner, fails>>
  BY Parts, BoundAssumption DEF core_thread_max_set, _core_thread_init, vars
<1>2. main'.cbk = main.cbk /\ \A j \in Jobs : Kept(j)' = Kept(j)
  BY <1>1, Parts DEF MainInv, Idle, Kept, Flushing
<1>3. JobInv' /\ ThreadInv' /\ RunningInv' /\ \A P : At(P)' = At(P)
  BY <1>1, <1>2, BetweenCalls DEF Posted
<1>4. TypeOK'
  <2>1. main' \in MainType
    <3>1. Idle \in MainType
      BY DEF Idle, MainType, Ops
    <3> QED
      BY <1>1, <3>1, Parts
  <2> QED
    BY <1>1, <2>1, Parts DEF TypeOK, MainType
<1>5. CountExact'
  BY <1>1, <1>3, Parts, CountKept DEF Idle
<1>6. MainInv' /\ ShutInv' /\ WaiterOnStack'
  BY <1>1, <1>2, Parts DEF MainInv, ShutInv, WaiterOnStack, Starting, Ending, Flushing, Idle, WillLook
<1> QED
  BY <1>3, <1>4, <1>5, <1>6 DEF PoolInv

\* A flush takes what was posted.
LEMMA FlushTakeStep == ASSUME PoolInv, FlushTake PROVE PoolInv'
<1>1. /\ orders' = <<>>
      /\ \/ main.op = "idle" /\ outer = <<>> /\ outer' = orders /\ inner' = inner
         \/ main.op \in {"wait", "drain"} /\ inner = <<>> /\ inner' = orders /\ outer' = outer
      /\ UNCHANGED <<job, hist, pending, pendingFb, running, count, countNQ, max, thr, main, fails>>
  BY DEF FlushTake
<1>2. \A x : Posted(x)' = Posted(x)
  BY <1>1, Parts, FlushCounts
<1>3. JobInv' /\ ThreadInv' /\ RunningInv' /\ \A P : At(P)' = At(P)
  BY <1>1, <1>2, BetweenCalls DEF Kept
<1>4. TypeOK'
  BY <1>1, Parts DEF TypeOK
<1>5. CountExact'
  BY <1>1, <1>3, Parts, CountKept
<1>6. MainInv' /\ ShutInv' /\ WaiterOnStack'
  BY <1>1, Parts DEF MainInv, ShutInv, WaiterOnStack, Starting, Ending, Flushing, WillLook
<1> QED
  BY <1>3, <1>4, <1>5, <1>6 DEF PoolInv

\* The last flush begins, with no thread counted or given up; and it is over.
LEMMA ShutdownSteps ==
    ASSUME PoolInv, ShutdownDrained \/ ShutdownGiveUp \/ ShutdownDone
    PROVE  PoolInv'
<1>1. /\ main.cbk = NoJob /\ inner = <<>>
      /\ UNCHANGED <<job, hist, pending, pendingFb, running, count, countNQ, max, thr, outer, fails>>
      /\ \/ /\ main.op = "drain" /\ main' = [main EXCEPT !.op = "final"]
            /\ count + countNQ = 0 /\ inner' = orders /\ orders' = <<>>
         \/ /\ main.op = "drain" /\ main' = [main EXCEPT !.op = "gaveup"]
            /\ inner' = orders /\ orders' = <<>>
         \/ /\ main.op = "final" /\ main' = [main EXCEPT !.op = "down"]
            /\ inner' = inner /\ orders' = orders
         \/ /\ main.op = "gaveup" /\ main' = [main EXCEPT !.op = "left"]
            /\ inner' = inner /\ orders' = orders
  BY DEF ShutdownDrained, ShutdownGiveUp, ShutdownDone
<1>2. /\ main' \in MainType /\ main'.cbk = main.cbk /\ main'.job = main.job
      /\ \/ main.op = "drain" /\ main'.op = "final" /\ count + countNQ = 0 /\ orders' = <<>>
         \/ main.op = "drain" /\ main'.op = "gaveup"
         \/ main.op = "final" /\ main'.op = "down" /\ inner' = inner /\ orders' = orders
         \/ main.op = "gaveup" /\ main'.op = "left" /\ inner' = inner
  BY <1>1, Parts DEF MainType, Ops
<1>3. \A x : Posted(x)' = Posted(x)
  BY <1>1, Parts, FlushCounts DEF Posted
<1>4. \A j \in Jobs : Kept(j)' = Kept(j)
  BY <1>1, <1>2 DEF Kept
<1>5. JobInv' /\ ThreadInv' /\ RunningInv' /\ \A P : At(P)' = At(P)
  BY <1>1, <1>2, <1>3, <1>4, BetweenCalls
<1>6. TypeOK'
  BY <1>1, <1>2, Parts DEF TypeOK, MainType
<1>7. CountExact'
  BY <1>1, <1>2, <1>5, Parts, CountKept
<1>8. main'.op \in {"final", "down"} => \A w \in Threads : thr[w].pc \in {"none", "gone"}
  <2>1. CASE main.op = "final"
    BY <2>1, Parts DEF ShutInv
  <2>2. CASE main'.op = "final"
    <3>1. main.op = "drain" /\ count + countNQ = 0
      BY <1>2, <2>2
    <3>2. count = At(PoolPC) /\ countNQ = At(DirectWork)
      BY <3>1, Parts, CountAt, AtType
    <3>3. At(PoolPC) \in Nat /\ At(DirectWork) \in Nat
      BY AtType
    <3>4. At(PoolPC) = 0 /\ At(DirectWork) = 0
      BY <3>1, <3>2, <3>3
    <3>5. ASSUME NEW w \in Threads PROVE thr[w].pc \in {"none", "gone"}
      <4>1. thr[w].pc \notin PoolPC /\ thr[w].pc \notin DirectWork
        BY <3>4, AtType
      <4>2. thr[w].pc \in PC
        BY Parts DEF Thread
      <4> QED
        BY <4>1, <4>2 DEF PC, DirectWork
    <3> QED
      BY <3>5
  <2> QED
    BY <1>2, <2>1, <2>2
<1>9. MainInv' /\ WaiterOnStack'
  BY <1>1, <1>2, Parts DEF MainInv, WaiterOnStack, Starting, Flushing
<1>10. ShutInv'
  BY <1>1, <1>2, <1>8, Parts DEF ShutInv, Ending, WillLook
<1> QED
  BY <1>5, <1>6, <1>7, <1>9, <1>10 DEF PoolInv

-----------------------------------------------------------------------------
(* Starting jobs *)

\* A job goes to the end of the list of its kind.
LEMMA EnqueueCounts ==
    ASSUME PoolInv, NEW i \in Jobs, NEW k \in {"short", "feedback"}, NEW b \in BOOLEAN,
           Enqueue(i, k, b)
    PROVE  /\ \A j \in Jobs :
                /\ Listed(j)' = Listed(j) + (IF k = "short" /\ i = j THEN 1 ELSE 0)
                /\ ListedFb(j)' = ListedFb(j) + (IF k = "feedback" /\ i = j THEN 1 ELSE 0)
           /\ main'.cbk = NoJob /\ main'.op \in {"idle", "create"}
           /\ main'.op = "create" => main'.job = i
<1>1. /\ pending \in Seq(Jobs) /\ pendingFb \in Seq(Jobs) /\ TypeOK
  BY Parts
<1>2. ASSUME NEW j \in Jobs
      PROVE  /\ Listed(j)' = Listed(j) + (IF k = "short" /\ i = j THEN 1 ELSE 0)
             /\ ListedFb(j)' = ListedFb(j) + (IF k = "feedback" /\ i = j THEN 1 ELSE 0)
  <2>1. Listed(j) \in Nat /\ ListedFb(j) \in Nat
    BY <1>1, PlaceTypes
  <2>2. CASE k = "short"
    <3>1. pending' = Append(pending, i) /\ pendingFb' = pendingFb
      BY <2>2 DEF Enqueue
    <3>2. Occ(pending', j) = Occ(pending, j) + (IF i = j THEN 1 ELSE 0)
      BY <1>1, <3>1, OccAppend
    <3> QED
      BY <2>1, <2>2, <3>1, <3>2 DEF Listed, ListedFb
  <2>3. CASE k = "feedback"
    <3>1. pendingFb' = Append(pendingFb, i) /\ pending' = pending
      BY <2>3 DEF Enqueue
    <3>2. Occ(pendingFb', j) = Occ(pendingFb, j) + (IF i = j THEN 1 ELSE 0)
      BY <1>1, <3>1, OccAppend
    <3> QED
      BY <2>1, <2>3, <3>1, <3>2 DEF Listed, ListedFb
  <2> QED
    BY <2>2, <2>3
<1>3. /\ main'.cbk = NoJob /\ main'.op \in {"idle", "create"}
      /\ main'.op = "create" => main'.job = i
  BY DEF Enqueue, Idle
<1> QED
  BY <1>2, <1>3

\* core_thread_run and core_thread_feedback_run.
LEMMA RunStep ==
    ASSUME PoolInv, NEW i \in Jobs,
           core_thread_run(i) \/ \E t \in BOOLEAN : core_thread_feedback_run(i, t)
    PROVE  PoolInv'
<1>1. PICK K \in {"short", "feedback", "direct"} :
        /\ job' = [job EXCEPT ![i] = [NewJob EXCEPT !.kind = K, !.live = TRUE]]
        /\ IF K = "direct"
             THEN /\ main' = [Idle EXCEPT !.op = "direct", !.job = i]
                  /\ UNCHANGED <<pending, pendingFb>>
             ELSE Enqueue(i, K, FALSE)
  <2>1. CASE core_thread_run(i)
    BY <2>1 DEF core_thread_run
  <2>2. ASSUME NEW t \in BOOLEAN, core_thread_feedback_run(i, t)
        PROVE  \E K \in {"short", "feedback", "direct"} :
                 /\ job' = [job EXCEPT ![i] = [NewJob EXCEPT !.kind = K, !.live = TRUE]]
                 /\ IF K = "direct"
                      THEN /\ main' = [Idle EXCEPT !.op = "direct", !.job = i]
                           /\ UNCHANGED <<pending, pendingFb>>
                      ELSE Enqueue(i, K, FALSE)
    <3>0. /\ [NewJob EXCEPT !.live = TRUE, !.kind = "direct"] = [NewJob EXCEPT !.kind = "direct", !.live = TRUE]
          /\ [NewJob EXCEPT !.live = TRUE, !.kind = "feedback"] = [NewJob EXCEPT !.kind = "feedback", !.live = TRUE]
      BY DEF NewJob
    <3>1. CASE t = TRUE
      BY <2>2, <3>0, <3>1 DEF core_thread_feedback_run
    <3>2. CASE t = FALSE
      BY <2>2, <3>0, <3>2 DEF core_thread_feedback_run
    <3> QED
      BY <3>1, <3>2
  <2> QED
    BY <2>1, <2>2
<1>2. /\ ApiReady /\ job[i].kind = "none"
      /\ UNCHANGED <<hist, running, count, countNQ, max, thr, orders, outer, inner, fails>>
  BY DEF core_thread_run, core_thread_feedback_run
<1>3. main.op = "idle" /\ main.cbk = NoJob /\ inner = <<>>
  BY <1>2, Parts DEF ApiReady, MainInv, Flushing
<1>4. /\ job' \in [Jobs -> Job] /\ \A j \in Jobs : j # i => job'[j] = job[j]
      /\ job'[i].kind = K /\ job'[i].live /\ ~job'[i].kill /\ ~job'[i].resched /\ ~job'[i].waiter
      /\ job'[i].send = 0 /\ job'[i].received = 0
  <2> DEFINE r == [NewJob EXCEPT !.kind = K, !.live = TRUE]
  <2>1. /\ r \in Job /\ r.kind = K /\ r.live /\ ~r.kill /\ ~r.resched /\ ~r.waiter
        /\ r.send = 0 /\ r.received = 0
    BY DEF NewJob, Job, Kinds
  <2> HIDE DEF r
  <2>2. job' = [job EXCEPT ![i] = r]
    BY <1>1 DEF r
  <2> QED
    BY <2>1, <2>2, Parts
<1>5. /\ pending' \in Seq(Jobs) /\ pendingFb' \in Seq(Jobs) /\ main' \in MainType
      /\ main'.cbk = NoJob /\ main'.op \in {"idle", "create", "direct"}
      /\ main'.op # "idle" => main'.job = i
      /\ main'.op = "direct" <=> K = "direct"
      /\ \A j \in Jobs :
            /\ Listed(j)' = Listed(j) + (IF K = "short" /\ i = j THEN 1 ELSE 0)
            /\ ListedFb(j)' = ListedFb(j) + (IF K = "feedback" /\ i = j THEN 1 ELSE 0)
  <2>1. CASE K = "direct"
    <3>1. main' = [Idle EXCEPT !.op = "direct", !.job = i] /\ UNCHANGED <<pending, pendingFb>>
      BY <1>1, <2>1
    <3>2. \A j \in Jobs : Listed(j) \in Nat /\ ListedFb(j) \in Nat
      BY Parts, PlaceTypes
    <3>3. \A j \in Jobs : Listed(j)' = Listed(j) /\ ListedFb(j)' = ListedFb(j)
      BY <3>1 DEF Listed, ListedFb
    <3>4. main' \in MainType /\ main'.cbk = NoJob /\ main'.op = "direct" /\ main'.job = i
      BY <3>1 DEF Idle, MainType, Ops
    <3> QED
      BY <2>1, <3>1, <3>2, <3>3, <3>4, Parts
  <2>2. CASE K # "direct"
    <3>1. Enqueue(i, K, FALSE) /\ K \in {"short", "feedback"}
      BY <1>1, <2>2
    <3>2. pending' \in Seq(Jobs) /\ pendingFb' \in Seq(Jobs) /\ main' \in MainType
      BY <3>1, Parts, EnqueueTyped
    <3> QED
      BY <2>2, <3>1, <3>2, EnqueueCounts
  <2> QED
    BY <2>1, <2>2
<1>6. JobState(i) /\ \A v \in Threads : thr[v].work # i
  <2>1. /\ JobState(i) /\ Listed(i) \in Nat /\ ListedFb(i) \in Nat /\ Kept(i) \in 0..1
        /\ Held(i) \in Nat /\ Told(i) \in Nat
    BY JobFacts
  <2>2. Held(i) = 0
    BY <1>2, <2>1 DEF JobState, JobOK
  <2> QED
    BY <2>1, <2>2, HeldBy
<1>7. /\ ThreadInv' /\ RunningInv'
      /\ \A j \in Jobs : Held(j) \in Nat /\ Held(j)' = Held(j)
      /\ \A P : At(P)' = At(P)
  <2>1. \A v \in Threads : thr[v].work # NoJob => job'[thr[v].work] = job[thr[v].work]
    BY <1>4, <1>6, Parts DEF Thread
  <2> QED
    BY <1>2, <2>1, Parts, StillThreads DEF Posted
<1>8. /\ \A j \in Jobs : Told(j)' = Told(j) /\ Noted(j)' = Noted(j)
      /\ \A j \in Jobs : Kept(j)' = IF K = "direct" /\ j = i THEN 1 ELSE 0
      /\ \A j \in Jobs : Kept(j) = 0
  BY <1>2, <1>3, <1>5 DEF Told, Noted, Posted, Kept
<1>9. JobInv'
  <2>1. ASSUME NEW j \in Jobs, j # i PROVE JobState(j)'
    <3>1. Listed(j) \in Nat /\ ListedFb(j) \in Nat
      BY JobFacts
    <3>2. Listed(j)' = Listed(j) /\ ListedFb(j)' = ListedFb(j) /\ Kept(j)' = Kept(j)
      BY <1>5, <1>8, <2>1, <3>1
    <3>3. Same(j)
      BY <1>2, <1>3, <1>4, <1>5, <1>7, <1>8, <2>1, <3>2, NoneAssumption DEF Same
    <3> QED
      BY <3>3, JobFacts, SameKeeps
  <2>2. JobState(i)'
    <3>0. /\ JobState(i) /\ Listed(i) \in Nat /\ ListedFb(i) \in Nat /\ Kept(i) \in 0..1
          /\ Held(i) \in Nat /\ Told(i) \in Nat
      BY JobFacts
    <3>1. /\ Listed(i) = 0 /\ ListedFb(i) = 0 /\ Held(i) = 0 /\ Told(i) = 0 /\ Noted(i) = 0
          /\ hist[i].ends + hist[i].cancels = 0 /\ ~hist[i].stale
      BY <1>2, <3>0 DEF JobState, JobOK
    <3>2. hist[i].ends \in Nat /\ hist[i].cancels \in Nat
      BY JobFacts
    <3>3. ~(main.cbk = i)' /\ hist'[i] = hist[i]
      BY <1>2, <1>5, NoneAssumption
    <3>4. /\ Listed(i)' + ListedFb(i)' + Kept(i)' + Held(i)' + Told(i)' = 1
          /\ Noted(i)' = 0 /\ Told(i)' = 0
          /\ Listed(i)' > 0 => K = "short"
          /\ ListedFb(i)' > 0 => K = "feedback"
          /\ Kept(i)' > 0 => K = "direct"
      BY <1>5, <1>7, <1>8, <3>1
    <3> QED
      BY <1>4, <3>1, <3>2, <3>3, <3>4 DEF JobState, JobOK
  <2> QED
    BY <2>1, <2>2 DEF JobInv
<1>10. TypeOK'
  BY <1>2, <1>4, <1>5, Parts DEF TypeOK, MainType
<1>11. CountExact'
  BY <1>2, <1>3, <1>5, <1>7, Parts, CountKept
<1>12. WaiterOnStack'
  BY <1>3, <1>4, Parts DEF WaiterOnStack
<1>13. MainInv' /\ ShutInv'
  <2>1. ~hist[i].stale
    BY <1>2, <1>6 DEF JobState, JobOK
  <2> QED
    BY <1>2, <1>3, <1>4, <1>5, <2>1, Parts DEF MainInv, ShutInv, Starting, Ending, Flushing
<1> QED
  BY <1>7, <1>9, <1>10, <1>11, <1>12, <1>13 DEF PoolInv

-----------------------------------------------------------------------------
(* One thread moves *)

\* The other threads are as they were.
LEMMA OtherThreads ==
    ASSUME ThreadInv, NEW w \in Threads,
           \A v \in Threads : v # w => thr'[v] = thr[v],
           \A v \in Threads : v # w => Posted(<<"join", v>>)' = Posted(<<"join", v>>),
           \A v \in Threads : v # w /\ thr[v].work # NoJob =>
             /\ job'[thr[v].work].kind = job[thr[v].work].kind
             /\ hist'[thr[v].work].completed = hist[thr[v].work].completed
             /\ job[thr[v].work].cancel => job'[thr[v].work].cancel,
           ThreadOK(w)'
    PROVE  ThreadInv'
<1>1. ASSUME NEW v \in Threads, v # w PROVE ThreadOK(v)'
  <2>1. ThreadOK(v)
    BY DEF ThreadInv
  <2>2. thr[v].pc \in PoolWork \cup DirectWork => thr[v].work # NoJob
    BY <2>1 DEF ThreadOK
  <2>3. thr'[v] = thr[v] /\ Posted(<<"join", v>>)' = Posted(<<"join", v>>)
    BY <1>1
  <2>4. thr[v].work # NoJob =>
             /\ job'[thr[v].work].kind = job[thr[v].work].kind
             /\ hist'[thr[v].work].completed = hist[thr[v].work].completed
             /\ job[thr[v].work].cancel => job'[thr[v].work].cancel
    BY <1>1
  <2> QED
    BY <2>1, <2>2, <2>3, <2>4 DEF ThreadOK, PoolWork, DirectWork
<1> QED
  BY <1>1 DEF ThreadInv

\* The running list and the thread agree as before.
LEMMA RunningKept ==
    ASSUME RunningInv, NEW w \in Threads, running' = running,
           \A v \in Threads : v # w => thr'[v] = thr[v],
           thr[w].pc \in {"read", "run", "clean"} =>
             thr'[w].work = thr[w].work /\ thr'[w].pc \in {"read", "run", "clean"}
    PROVE  RunningInv'
<1>1. ASSUME NEW j \in running
      PROVE  \E v \in Threads : thr'[v].work = j /\ thr'[v].pc \in {"read", "run", "clean"}
  <2>1. PICK v \in Threads : thr[v].work = j /\ thr[v].pc \in {"read", "run", "clean"}
    BY DEF RunningInv
  <2>2. CASE v = w
    BY <2>1, <2>2
  <2>3. CASE v # w
    BY <2>1, <2>3
  <2> QED
    BY <2>2, <2>3
<1> QED
  BY <1>1 DEF RunningInv

\* The counters follow the thread.
LEMMA CountMoves ==
    ASSUME CountExact, NEW w \in Threads, count \in Nat, countNQ \in Int,
           \A v \in Threads : v # w => thr'[v] = thr[v],
           count' = count - (IF thr[w].pc \in PoolPC THEN 1 ELSE 0)
                          + (IF thr'[w].pc \in PoolPC THEN 1 ELSE 0),
           countNQ' = countNQ - (IF thr[w].pc \in DirectWork THEN 1 ELSE 0)
                              + (IF thr'[w].pc \in DirectWork THEN 1 ELSE 0)
                              + (IF main.op = "dcount" THEN 1 ELSE 0)
                              - (IF main'.op = "dcount" THEN 1 ELSE 0)
    PROVE  CountExact' /\ count' \in Nat /\ countNQ' \in Int
<1>1. \A P : /\ At(P) \in Nat /\ At(P)' \in Nat
             /\ At(P)' = At(P) - (IF thr[w].pc \in P THEN 1 ELSE 0)
                           + (IF thr'[w].pc \in P THEN 1 ELSE 0)
  BY OneThread
<1>2. /\ At(PoolPC) \in Nat /\ At(PoolPC)' \in Nat
      /\ At(PoolPC)' = At(PoolPC) - (IF thr[w].pc \in PoolPC THEN 1 ELSE 0)
                           + (IF thr'[w].pc \in PoolPC THEN 1 ELSE 0)
  BY <1>1
<1>3. /\ At(DirectWork) \in Nat /\ At(DirectWork)' \in Nat
      /\ At(DirectWork)' = At(DirectWork) - (IF thr[w].pc \in DirectWork THEN 1 ELSE 0)
                           + (IF thr'[w].pc \in DirectWork THEN 1 ELSE 0)
  BY <1>1
<1>4. CountExact'
  BY <1>2, <1>3, CountAt
<1>5. count' = At(PoolPC)'
  BY <1>4, CountAt
<1> QED
  BY <1>2, <1>4, <1>5

\* A thread of the pool is created.
LEMMA CreateStep == ASSUME PoolInv, NEW w \in Threads, CreateOk(w) PROVE PoolInv'
<1>1. /\ main.op \in {"create", "retry"} /\ thr[w].pc = "none"
      /\ thr' = [thr EXCEPT ![w] = [NoThreadState EXCEPT !.pc = "popShort"]]
      /\ count' = count + 1 /\ main' = Idle
      /\ UNCHANGED <<job, hist, pending, pendingFb, running, countNQ, max, orders, outer, inner, fails>>
  BY DEF CreateOk, NewThread
<1>2. /\ main.cbk = NoJob /\ inner = <<>> /\ main' \in MainType /\ main'.op = "idle" /\ main'.cbk = NoJob
  BY <1>1, Parts DEF MainInv, Flushing, Idle, MainType, Ops
<1>3. /\ thr' \in [Threads -> Thread] /\ \A v \in Threads : v # w => thr'[v] = thr[v]
      /\ thr'[w].pc = "popShort" /\ thr'[w].work = NoJob /\ ~thr'[w].dying
  <2> DEFINE r == [NoThreadState EXCEPT !.pc = "popShort"]
  <2>1. r \in Thread /\ r.pc = "popShort" /\ r.work = NoJob /\ ~r.dying
    BY DEF NoThreadState, Thread, PC, PoolPC
  <2> HIDE DEF r
  <2>2. thr' = [thr EXCEPT ![w] = r]
    BY <1>1 DEF r
  <2> QED
    BY <2>1, <2>2, Parts
<1>4. thr[w].work = NoJob /\ Posted(<<"join", w>>) = 0
  BY <1>1, Parts DEF ThreadInv, ThreadOK, PoolWork, DirectWork
<1>5. /\ \A j \in Jobs : Held(j)' = Held(j)
      /\ CountExact' /\ count' \in Nat /\ countNQ' \in Int
  <2>1. \A j \in Jobs : Held(j)' = Held(j)
    BY <1>3, <1>4, OneThread, NoneAssumption
  <2>2. /\ thr[w].pc \notin PoolPC /\ thr'[w].pc \in PoolPC /\ thr[w].pc \notin DirectWork
        /\ thr'[w].pc \notin DirectWork /\ main.op # "dcount" /\ main'.op # "dcount"
    BY <1>1, <1>2, <1>3 DEF PoolPC, DirectWork
  <2>3. /\ count' = count - (IF thr[w].pc \in PoolPC THEN 1 ELSE 0)
                         + (IF thr'[w].pc \in PoolPC THEN 1 ELSE 0)
        /\ countNQ' = countNQ - (IF thr[w].pc \in DirectWork THEN 1 ELSE 0)
                             + (IF thr'[w].pc \in DirectWork THEN 1 ELSE 0)
                             + (IF main.op = "dcount" THEN 1 ELSE 0)
                             - (IF main'.op = "dcount" THEN 1 ELSE 0)
    BY <1>1, <2>2, Parts
  <2>4. CountExact' /\ count' \in Nat /\ countNQ' \in Int
    BY <1>3, <2>3, Parts, CountMoves
  <2> QED
    BY <2>1, <2>4
<1>6. ThreadInv'
  <2>1. ThreadOK(w)'
    BY <1>1, <1>3, <1>4 DEF ThreadOK, PoolWork, DirectWork, Posted
  <2> QED
    BY <1>1, <1>3, <2>1, Parts, OtherThreads DEF Posted
<1>7. RunningInv'
  BY <1>1, <1>3, Parts, RunningKept
<1>8. JobInv'
  <2>1. ASSUME NEW j \in Jobs PROVE JobState(j)'
    <3>1. Same(j)
      BY <1>1, <1>2, <1>5 DEF Same, Listed, ListedFb, Told, Noted, Posted, Kept
    <3> QED
      BY <3>1, JobFacts, SameKeeps
  <2> QED
    BY <2>1 DEF JobInv
<1>9. TypeOK'
  BY <1>1, <1>2, <1>3, <1>5, Parts DEF TypeOK, MainType
<1>10. MainInv' /\ ShutInv' /\ WaiterOnStack'
  BY <1>1, <1>2, Parts DEF MainInv, ShutInv, WaiterOnStack, Starting, Ending, Flushing
<1> QED
  BY <1>5, <1>6, <1>7, <1>8, <1>9, <1>10 DEF PoolInv

\* A thread for one job is created.
LEMMA DirectStep == ASSUME PoolInv, NEW w \in Threads, DirectOk(w) PROVE PoolInv'
<1>0. main.op \in {"direct", "dretry"} /\ thr[w].pc = "none"
  BY DEF DirectOk, NewThread
<1>1. PICK i \in Jobs : i = main.job
  BY <1>0, Parts DEF MainInv, Starting
<1>2. /\ thr' = [thr EXCEPT ![w] = [NoThreadState EXCEPT !.pc = "dstart", !.work = i]]
      /\ main' = [Idle EXCEPT !.op = "dcount", !.job = i]
      /\ UNCHANGED <<job, hist, pending, pendingFb, running, count, countNQ, max, orders, outer, inner, fails>>
  BY <1>1 DEF DirectOk
<1>3. /\ main.cbk = NoJob /\ inner = <<>> /\ main' \in MainType /\ main'.op = "dcount" /\ main'.cbk = NoJob
  BY <1>0, <1>2, Parts DEF MainInv, Flushing, Idle, MainType, Ops
<1>4. /\ thr' \in [Threads -> Thread] /\ \A v \in Threads : v # w => thr'[v] = thr[v]
      /\ thr'[w].pc = "dstart" /\ thr'[w].work = i /\ ~thr'[w].dying
  <2> DEFINE r == [NoThreadState EXCEPT !.pc = "dstart", !.work = i]
  <2>1. r \in Thread /\ r.pc = "dstart" /\ r.work = i /\ ~r.dying
    BY DEF NoThreadState, Thread, PC, PoolPC
  <2> HIDE DEF r
  <2>2. thr' = [thr EXCEPT ![w] = r]
    BY <1>2 DEF r
  <2> QED
    BY <2>1, <2>2, Parts
<1>5. thr[w].work = NoJob /\ Posted(<<"join", w>>) = 0
  BY <1>0, Parts DEF ThreadInv, ThreadOK, PoolWork, DirectWork
<1>6. \A j \in Jobs : /\ Held(j) \in Nat /\ Held(j)' = Held(j) + (IF j = i THEN 1 ELSE 0)
                      /\ Kept(j) = (IF j = i THEN 1 ELSE 0) /\ Kept(j)' = 0
  <2>1. \A j \in Jobs : Held(j) \in Nat /\ Held(j)' = Held(j) + (IF j = i THEN 1 ELSE 0)
    BY <1>4, <1>5, OneThread, NoneAssumption
  <2>2. \A j \in Jobs : Kept(j) = (IF j = i THEN 1 ELSE 0) /\ Kept(j)' = 0
    BY <1>0, <1>1, <1>3 DEF Kept
  <2> QED
    BY <2>1, <2>2
<1>7. CountExact' /\ count' \in Nat /\ countNQ' \in Int
  <2>2. /\ thr[w].pc \notin PoolPC /\ thr'[w].pc \notin PoolPC /\ thr[w].pc \notin DirectWork
        /\ thr'[w].pc \in DirectWork /\ main.op # "dcount" /\ main'.op = "dcount"
    BY <1>0, <1>3, <1>4 DEF PoolPC, DirectWork
  <2> QED
    BY <1>2, <1>4, <2>2, Parts, CountMoves, SMTT(30)
<1>8. job[i].kind = "direct"
  BY <1>6, JobFacts DEF JobState, JobOK
<1>9. ThreadInv'
  <2>1. ThreadOK(w)'
    BY <1>2, <1>4, <1>5, <1>8, NoneAssumption DEF ThreadOK, PoolWork, DirectWork, Posted
  <2> QED
    BY <1>2, <1>4, <2>1, Parts, OtherThreads DEF Posted
<1>10. RunningInv'
  BY <1>0, <1>2, <1>4, Parts, RunningKept
<1>11. JobInv'
  <2>1. ASSUME NEW j \in Jobs PROVE JobState(j)'
    <3>1. CASE j # i
      <4>1. Same(j)
        BY <1>2, <1>3, <1>6, <3>1 DEF Same, Listed, ListedFb, Told, Noted, Posted
      <4> QED
        BY <4>1, JobFacts, SameKeeps
    <3>2. CASE j = i
      <4>1. /\ job'[i] = job[i] /\ hist'[i] = hist[i] /\ Listed(i)' = Listed(i)
            /\ ListedFb(i)' = ListedFb(i) /\ Told(i)' = Told(i) /\ Noted(i)' = Noted(i)
            /\ Kept(i) = 1 /\ Kept(i)' = 0 /\ Held(i)' = Held(i) + 1
            /\ ~(main.cbk = i) /\ ~(main.cbk = i)'
        BY <1>2, <1>3, <1>6, NoneAssumption DEF Listed, ListedFb, Told, Noted, Posted
      <4>2. /\ JobState(i) /\ Listed(i) \in Nat /\ ListedFb(i) \in Nat
            /\ Held(i) \in Nat /\ Told(i) \in Nat
        BY JobFacts
      <4> QED
        BY <3>2, <4>1, <4>2 DEF JobState, JobOK
    <3> QED
      BY <3>1, <3>2
  <2> QED
    BY <2>1 DEF JobInv
<1>12. TypeOK'
  BY <1>2, <1>3, <1>4, <1>7, Parts DEF TypeOK, MainType
<1>13. MainInv' /\ ShutInv' /\ WaiterOnStack'
  BY <1>0, <1>2, <1>3, Parts DEF MainInv, ShutInv, WaiterOnStack, Starting, Ending, Flushing
<1> QED
  BY <1>7, <1>9, <1>10, <1>11, <1>12, <1>13 DEF PoolInv

\* No thread of its own for the job: it is queued for the pool.
LEMMA DirectFailStep == ASSUME PoolInv, DirectFail PROVE PoolInv'
<1>0. main.op = "dretry"
  BY DEF DirectFail
<1>1. PICK i \in Jobs : i = main.job
  BY <1>0, Parts DEF MainInv, Starting
<1>2. /\ job' = [job EXCEPT ![i].kind = "feedback"] /\ Enqueue(i, "feedback", TRUE) /\ fails' = fails + 1
      /\ UNCHANGED <<hist, running, count, countNQ, max, thr, orders, outer, inner>>
  BY <1>1 DEF DirectFail
<1>3. main.cbk = NoJob /\ inner = <<>> /\ ~hist[i].stale /\ Kept(i) = 1
  BY <1>0, <1>1, Parts DEF MainInv, Flushing, Starting, Kept
<1>4. /\ job' \in [Jobs -> Job] /\ \A j \in Jobs : j # i => job'[j] = job[j]
      /\ job'[i] = [job[i] EXCEPT !.kind = "feedback"] /\ job'[i].waiter = job[i].waiter
  <2> DEFINE r == [job[i] EXCEPT !.kind = "feedback"]
  <2>1. r \in Job /\ r.waiter = job[i].waiter
    BY Parts DEF Job, Kinds
  <2>2. job' = [job EXCEPT ![i] = r]
    BY <1>2
  <2> HIDE DEF r
  <2>3. job' \in [Jobs -> Job] /\ job'[i] = r /\ \A j \in Jobs : j # i => job'[j] = job[j]
    BY <2>1, <2>2, Parts
  <2> QED
    BY <2>1, <2>3 DEF r
<1>5. /\ pending' \in Seq(Jobs) /\ pendingFb' \in Seq(Jobs) /\ main' \in MainType
      /\ main'.cbk = NoJob /\ main'.op \in {"idle", "create"}
      /\ main'.op = "create" => main'.job = i
      /\ \A j \in Jobs : /\ Listed(j)' = Listed(j) + (IF "feedback" = "short" /\ i = j THEN 1 ELSE 0)
                         /\ ListedFb(j)' = ListedFb(j) + (IF "feedback" = "feedback" /\ i = j THEN 1 ELSE 0)
  BY <1>2, Parts, EnqueueTyped, EnqueueCounts
<1>6. /\ JobState(i) /\ Listed(i) \in Nat /\ ListedFb(i) \in Nat /\ Kept(i) \in 0..1
      /\ Held(i) \in Nat /\ Told(i) \in Nat /\ Noted(i) \in Nat
  BY JobFacts
<1>7. /\ Listed(i) = 0 /\ ListedFb(i) = 0 /\ Held(i) = 0 /\ Told(i) = 0
      /\ job[i].kind = "direct" /\ job[i].send = 0 /\ ~job[i].resched
  BY <1>3, <1>6 DEF JobState, JobOK
<1>8. /\ ThreadInv' /\ RunningInv'
      /\ \A j \in Jobs : Held(j) \in Nat /\ Held(j)' = Held(j)
      /\ \A P : At(P)' = At(P)
  <2>1. \A v \in Threads : thr[v].work # i
    BY <1>7, HeldBy
  <2>2. \A v \in Threads : thr[v].work # NoJob => job'[thr[v].work] = job[thr[v].work]
    BY <1>4, <2>1, Parts DEF Thread
  <2> QED
    BY <1>2, <2>2, Parts, StillThreads DEF Posted
<1>9. /\ \A j \in Jobs : Told(j)' = Told(j) /\ Noted(j)' = Noted(j) /\ Kept(j)' = 0
      /\ \A j \in Jobs : j # i => Kept(j) = 0
  BY <1>1, <1>2, <1>5 DEF Told, Noted, Posted, Kept
<1>10. JobInv'
  <2>1. ASSUME NEW j \in Jobs, j # i PROVE JobState(j)'
    <3>1. Listed(j) \in Nat /\ ListedFb(j) \in Nat
      BY JobFacts
    <3>2. Listed(j)' = Listed(j) /\ ListedFb(j)' = ListedFb(j) /\ Kept(j)' = Kept(j)
      BY <1>5, <1>9, <2>1, <3>1
    <3>3. Same(j)
      BY <1>2, <1>3, <1>4, <1>5, <1>8, <1>9, <2>1, <3>2, NoneAssumption DEF Same
    <3> QED
      BY <3>3, JobFacts, SameKeeps
  <2>2. JobState(i)'
    <3>1. ~(main.cbk = i)' /\ ~(main.cbk = i) /\ hist'[i] = hist[i]
      BY <1>2, <1>3, <1>5, NoneAssumption
    <3>2. /\ Listed(i)' = 0 /\ ListedFb(i)' = 1 /\ Kept(i)' = 0 /\ Held(i)' = 0 /\ Told(i)' = 0
          /\ Noted(i)' = Noted(i)
      BY <1>5, <1>7, <1>8, <1>9
    <3>3. /\ job'[i].kind = "feedback" /\ job'[i].live = job[i].live /\ job'[i].cancel = job[i].cancel
          /\ job'[i].kill = job[i].kill /\ job'[i].resched = job[i].resched
          /\ job'[i].send = job[i].send /\ job'[i].received = job[i].received
      BY <1>4, Parts DEF Job
    <3> QED
      BY <1>3, <1>6, <1>7, <3>1, <3>2, <3>3 DEF JobState, JobOK
  <2> QED
    BY <2>1, <2>2 DEF JobInv
<1>11. TypeOK'
  BY <1>2, <1>4, <1>5, Parts DEF TypeOK, MainType
<1>12. CountExact'
  BY <1>0, <1>2, <1>5, <1>8, Parts, CountKept
<1>13. WaiterOnStack'
  BY <1>0, <1>4, Parts DEF WaiterOnStack
<1>14. MainInv' /\ ShutInv'
  <2>1. job'[i].kind = "feedback"
    BY <1>4, Parts DEF Job
  <2> QED
    BY <1>2, <1>3, <1>5, <2>1, Parts DEF MainInv, ShutInv, Starting, Ending, Flushing
<1> QED
  BY <1>8, <1>10, <1>11, <1>12, <1>13, <1>14 DEF PoolInv

\* What is on one of two lists.
LEMMA ElementsCat ==
    ASSUME NEW T, NEW s \in Seq(T), NEW t \in Seq(T)
    PROVE  Elements(s \o t) = Elements(s) \cup Elements(t)
<1> DEFINE u == s \o t
<1>1. /\ Len(s) \in Nat /\ Len(t) \in Nat /\ DOMAIN u = 1..(Len(s) + Len(t))
      /\ DOMAIN s = 1..Len(s) /\ DOMAIN t = 1..Len(t)
      /\ \A k \in 1..Len(s) : u[k] = s[k]
      /\ \A k \in 1..Len(t) : u[Len(s) + k] = t[k]
  OBVIOUS
<1> HIDE DEF u
<1>2. \A k \in 1..(Len(s) + Len(t)) : k \in 1..Len(s) \/ (k - Len(s) \in 1..Len(t) /\ Len(s) + (k - Len(s)) = k)
  BY <1>1
<1>3. Elements(u) \subseteq Elements(s) \cup Elements(t)
  <2>1. ASSUME NEW k \in DOMAIN u PROVE u[k] \in Elements(s) \cup Elements(t)
    <3>1. CASE k \in 1..Len(s)
      BY <1>1, <3>1 DEF Elements
    <3>2. CASE k - Len(s) \in 1..Len(t) /\ Len(s) + (k - Len(s)) = k
      <4>1. u[k] = t[k - Len(s)]
        BY <1>1, <3>2
      <4> QED
        BY <1>1, <3>2, <4>1 DEF Elements
    <3> QED
      BY <1>1, <1>2, <3>1, <3>2
  <2> QED
    BY <2>1 DEF Elements
<1>4. Elements(s) \subseteq Elements(u)
  BY <1>1 DEF Elements
<1>5. Elements(t) \subseteq Elements(u)
  <2>1. ASSUME NEW k \in 1..Len(t) PROVE t[k] \in Elements(u)
    <3>1. Len(s) + k \in DOMAIN u /\ u[Len(s) + k] = t[k]
      BY <1>1
    <3> QED
      BY <3>1 DEF Elements
  <2> QED
    BY <1>1, <2>1 DEF Elements
<1> QED
  BY <1>3, <1>4, <1>5 DEF u

\* Both creations failed: the job is taken back, or left to the pool.
LEMMA GiveUpStep == ASSUME PoolInv, LastFail \/ FeedbackGiveUp PROVE PoolInv'
<1>0. main.op \in {"retry", "create", "giveup"}
  BY DEF LastFail, FeedbackGiveUp
<1>1. PICK i \in Jobs : i = main.job
  BY <1>0, Parts DEF MainInv, Starting
<1>2. /\ \/ main' = [main EXCEPT !.op = "giveup"] /\ UNCHANGED <<job, hist, pending, pendingFb>>
         \/ main' = Idle /\ UNCHANGED <<job, hist, pending, pendingFb>>
         \/ main' = Idle /\ TakeBack(i)
      /\ fails' \in Nat
      /\ UNCHANGED <<running, count, countNQ, max, thr, orders, outer, inner>>
  BY <1>1, Parts DEF LastFail, FeedbackGiveUp
<1>3. main.cbk = NoJob /\ inner = <<>> /\ ~hist[i].stale /\ job[i].kind # "none" /\ \A j \in Jobs : ~job[j].waiter
  BY <1>0, <1>1, Parts DEF MainInv, Flushing, Starting, WaiterOnStack
<1>4. /\ main' \in MainType /\ main'.cbk = NoJob /\ main'.op \in {"idle", "giveup"}
      /\ main'.op = "giveup" => main'.job = i /\ UNCHANGED <<job, hist, pending, pendingFb>>
  <2>1. /\ Idle \in MainType /\ Idle.cbk = NoJob /\ Idle.op = "idle"
        /\ [main EXCEPT !.op = "giveup"] \in MainType /\ [main EXCEPT !.op = "giveup"].cbk = NoJob
        /\ [main EXCEPT !.op = "giveup"].job = i /\ [main EXCEPT !.op = "giveup"].op = "giveup"
    BY <1>1, <1>3, Parts DEF Idle, MainType, Ops
  <2> QED
    BY <1>2, <2>1
<1>5. \A j \in Jobs : Kept(j) = 0 /\ Kept(j)' = 0 /\ Told(j)' = Told(j) /\ Noted(j)' = Noted(j)
  BY <1>0, <1>2, <1>4 DEF Kept, Told, Noted, Posted
<1>6. CASE UNCHANGED <<job, hist, pending, pendingFb>>
  <2>1. JobInv' /\ ThreadInv' /\ RunningInv' /\ \A P : At(P)' = At(P)
    BY <1>2, <1>3, <1>4, <1>5, <1>6, BetweenCalls DEF Posted
  <2>2. TypeOK'
    BY <1>2, <1>4, <1>6, Parts DEF TypeOK, MainType
  <2>3. CountExact'
    BY <1>0, <1>2, <1>4, <2>1, Parts, CountKept
  <2>4. MainInv' /\ ShutInv' /\ WaiterOnStack'
    BY <1>2, <1>3, <1>4, <1>6 DEF MainInv, ShutInv, WaiterOnStack, Starting, Ending, Flushing
  <2> QED
    BY <2>1, <2>2, <2>3, <2>4 DEF PoolInv
<1>7. CASE TakeBack(i) /\ main'.op = "idle"
  <2>1. /\ job' \in [Jobs -> Job] /\ hist' \in [Jobs -> Hist]
        /\ pending' \in Seq(Jobs) /\ pendingFb' \in Seq(Jobs)
    BY <1>7, Parts, TakeBackTyped
  <2>2. PICK b \in BOOLEAN : b = (i \notin Elements(pending \o pendingFb))
    OBVIOUS
  <2>20. Elements(pending \o pendingFb) = Elements(pending) \cup Elements(pendingFb)
    BY Parts, ElementsCat
  <2>21. /\ b = TRUE => i \notin Elements(pending) /\ i \notin Elements(pendingFb)
         /\ b = FALSE => i \in Elements(pending) \/ i \in Elements(pendingFb)
    BY <2>2, <2>20, Zenon
  <2>3. /\ job'[i] = [job[i] EXCEPT !.live = FALSE] /\ \A j \in Jobs : j # i => job'[j] = job[j]
        /\ hist'[i] = [hist[i] EXCEPT !.cancels = @ + 1, !.stale = b]
        /\ \A j \in Jobs : j # i => hist'[j] = hist[j]
    <3>1. hist' = [hist EXCEPT ![i].cancels = @ + 1, ![i].stale = b]
      BY <1>7, <2>2 DEF TakeBack
    <3> QED
      BY <1>7, <3>1, Parts DEF TakeBack
  <2>4. /\ job'[i].kind = job[i].kind /\ ~job'[i].live /\ job'[i].cancel = job[i].cancel
        /\ job'[i].kill = job[i].kill /\ job'[i].resched = job[i].resched
        /\ job'[i].send = job[i].send /\ job'[i].received = job[i].received
        /\ job'[i].waiter = job[i].waiter
    BY <2>3, Parts DEF Job
  <2>5. /\ hist'[i].ends = hist[i].ends /\ hist'[i].cancels = hist[i].cancels + 1
        /\ hist'[i].stale = b /\ hist'[i].completed = hist[i].completed
    BY <2>3, Parts DEF Hist
  <2>6. ASSUME NEW j \in Jobs
        PROVE  /\ Listed(j) = Listed(j)' + (IF j = i /\ i \in Elements(pending) THEN 1 ELSE 0)
               /\ ListedFb(j) = ListedFb(j)' + (IF j = i /\ i \in Elements(pendingFb) THEN 1 ELSE 0)
               /\ Listed(j)' \in Nat /\ ListedFb(j)' \in Nat
    <3>1. /\ Occ(pending, j) = Occ(pending', j) + (IF j = i /\ i \in Elements(pending) THEN 1 ELSE 0)
          /\ Occ(pendingFb, j) = Occ(pendingFb', j) + (IF j = i /\ i \in Elements(pendingFb) THEN 1 ELSE 0)
      BY <1>7, Parts, OccWithout DEF TakeBack
    <3>2. Occ(pending', j) \in Nat /\ Occ(pendingFb', j) \in Nat
      BY <2>1, OccType
    <3> QED
      BY <3>1, <3>2 DEF Listed, ListedFb
  <2>7. /\ ThreadInv' /\ RunningInv'
        /\ \A j \in Jobs : Held(j) \in Nat /\ Held(j)' = Held(j)
        /\ \A P : At(P)' = At(P)
    <3>1. \A v \in Threads : thr[v].work # NoJob => thr[v].work \in Jobs
      BY Parts DEF Thread
    <3>2. \A j \in Jobs : /\ job'[j].kind = job[j].kind /\ hist'[j].completed = hist[j].completed
                          /\ job'[j].cancel = job[j].cancel
      BY <2>3, <2>4, <2>5
    <3> QED
      BY <1>2, <3>1, <3>2, Parts, StillThreads DEF Posted
  <2>8. JobInv'
    <3>1. ASSUME NEW j \in Jobs, j # i PROVE JobState(j)'
      <4>1. Listed(j)' = Listed(j) /\ ListedFb(j)' = ListedFb(j)
        BY <2>6, <3>1
      <4>2. Same(j)
        BY <1>3, <1>4, <1>5, <2>3, <2>7, <3>1, <4>1, NoneAssumption DEF Same
      <4> QED
        BY <4>2, JobFacts, SameKeeps
    <3>2. JobState(i)'
      <4>1. /\ JobState(i) /\ Listed(i) \in Nat /\ ListedFb(i) \in Nat /\ Kept(i) = 0 /\ Held(i) \in Nat
            /\ Told(i) \in Nat /\ Noted(i) \in Nat
            /\ Listed(i) = 0 <=> i \notin Elements(pending)
            /\ ListedFb(i) = 0 <=> i \notin Elements(pendingFb)
            /\ hist[i].ends \in Nat /\ hist[i].cancels \in Nat
            /\ job[i].send \in Nat /\ job[i].received \in Nat
        BY <1>5, JobFacts
      <4>2. ~(main.cbk = i)' /\ ~(main.cbk = i) /\ Kept(i)' = 0 /\ Told(i)' = Told(i) /\ Noted(i)' = Noted(i)
            /\ Held(i)' = Held(i)
        BY <1>3, <1>4, <1>5, <2>7, NoneAssumption
      <4>3. CASE b = TRUE
        <5>1. Listed(i)' = Listed(i) /\ ListedFb(i)' = ListedFb(i)
          BY <2>21, <2>6, <4>1, <4>3
        <5> QED
          BY <1>3, <2>4, <2>5, <4>1, <4>2, <4>3, <5>1 DEF JobState, JobOK
      <4>4. CASE b = FALSE
        <5>1. Listed(i) + ListedFb(i) > 0
          BY <2>21, <4>1, <4>4
        <5>2. /\ Listed(i) + ListedFb(i) = 1 /\ Held(i) = 0 /\ Told(i) = 0 /\ job[i].live /\ ~job[i].kill
              /\ hist[i].ends = 0 /\ hist[i].cancels = 0
              /\ NoFbResched => Noted(i) = 0
          <6>1. Listed(i) + ListedFb(i) = 1 /\ Held(i) = 0 /\ Told(i) = 0
            BY <4>1, <5>1 DEF JobState, JobOK
          <6>2. job[i].live /\ ~job[i].kill
            BY <1>3, <4>1, <6>1, SMTT(30) DEF JobState, JobOK
          <6>3. hist[i].ends = 0 /\ hist[i].cancels = 0
            BY <4>1, <6>2 DEF JobState, JobOK
          <6>4. NoFbResched => job[i].send = 0
            BY <4>1, <6>1 DEF JobState, JobOK
          <6>5. NoFbResched => Noted(i) = 0
            BY <4>1, <6>4 DEF JobState, JobOK
          <6> QED
            BY <6>1, <6>2, <6>3, <6>5
        <5>3. Listed(i)' = 0 /\ ListedFb(i)' = 0
          <6>1. CASE Listed(i) = 1 /\ ListedFb(i) = 0
            BY <2>6, <4>1, <6>1
          <6>2. CASE Listed(i) = 0 /\ ListedFb(i) = 1
            BY <2>6, <4>1, <6>2
          <6> QED
            BY <4>1, <5>2, <6>1, <6>2
        <5> QED
          BY <1>3, <2>4, <2>5, <4>1, <4>2, <4>4, <5>2, <5>3 DEF JobState, JobOK
      <4> QED
        BY <4>3, <4>4
    <3> QED
      BY <3>1, <3>2 DEF JobInv
  <2>9. TypeOK'
    BY <1>2, <1>4, <2>1, Parts DEF TypeOK, MainType
  <2>10. CountExact'
    BY <1>0, <1>2, <1>7, <2>7, Parts, CountKept
  <2>11. \A j \in Jobs : ~job'[j].waiter
    BY <1>3, <2>3, <2>4
  <2>12. MainInv' /\ ShutInv' /\ WaiterOnStack'
    BY <1>2, <1>3, <1>4, <1>7, <2>11 DEF MainInv, ShutInv, WaiterOnStack, Starting, Ending, Flushing
  <2> QED
    BY <2>7, <2>8, <2>9, <2>10, <2>12 DEF PoolInv
<1> QED
  BY <1>2, <1>6, <1>7 DEF Idle

-----------------------------------------------------------------------------
(* Cancelling and waiting *)

\* Only jobs that are live are marked: from outside, by themselves and at shutdown.
LEMMA CancelSteps ==
    ASSUME PoolInv,
           \/ \E j \in Jobs : core_thread_cancel(j)
           \/ \E w \in Threads : SelfCancel(w)
           \/ ShutdownCancel
    PROVE  PoolInv'
<1>1. PICK S \in SUBSET Jobs : MarkCancelled(S) /\ \A j \in S : job[j].live
  <2>1. ASSUME NEW j \in Jobs, core_thread_cancel(j) PROVE MarkCancelled({j}) /\ job[j].live
    BY <2>1 DEF core_thread_cancel, MayMark
  <2>2. ASSUME NEW w \in Threads, SelfCancel(w)
        PROVE  /\ thr[w].work \in Jobs /\ MarkCancelled({thr[w].work})
               /\ job[thr[w].work].live
    <3>1. thr[w].work # NoJob
      BY <2>2, Parts DEF SelfCancel, InFunction, ThreadInv, ThreadOK, PoolWork, DirectWork
    <3>2. thr[w].work \in Jobs
      BY <3>1, Parts DEF Thread
    <3> QED
      BY <2>2, <3>2 DEF SelfCancel, MayMark
  <2>3. CASE ShutdownCancel
    <3> DEFINE R == {j \in running : MayMark(j)}
    <3>1. R \in SUBSET Jobs /\ MarkCancelled(R) /\ \A j \in R : job[j].live
      BY <2>3, Parts DEF ShutdownCancel, MayMark
    <3> QED
      BY <3>1
  <2>4. CASE \E w \in Threads : SelfCancel(w)
    <3>1. PICK w \in Threads : SelfCancel(w)
      BY <2>4
    <3>2. PICK j \in Jobs : j = thr[w].work
      BY <2>2, <3>1
    <3>3. MarkCancelled({j}) /\ job[j].live /\ {j} \in SUBSET Jobs
      BY <2>2, <3>1, <3>2
    <3> QED
      BY <3>3
  <2>5. CASE \E j \in Jobs : core_thread_cancel(j)
    <3>1. PICK j \in Jobs : core_thread_cancel(j)
      BY <2>5
    <3>2. MarkCancelled({j}) /\ job[j].live /\ {j} \in SUBSET Jobs
      BY <2>1, <3>1
    <3> QED
      BY <3>2
  <2> QED
    BY <2>3, <2>4, <2>5
<1>2. /\ \/ main' = main
         \/ main.op = "sdcancel" /\ main' = [main EXCEPT !.op = "drain"]
      /\ UNCHANGED <<hist, pending, pendingFb, running, count, countNQ, max, orders, outer, inner, fails>>
  BY DEF core_thread_cancel, SelfCancel, ShutdownCancel
<1>3. /\ main' \in MainType /\ main'.cbk = main.cbk /\ main'.job = main.job
      /\ main'.op = main.op \/ (main.op = "sdcancel" /\ main'.op = "drain")
  <2>1. LET m == [main EXCEPT !.op = "drain"]
        IN  m \in MainType /\ m.cbk = main.cbk /\ m.job = main.job /\ m.op = "drain"
    BY Parts DEF MainType, Ops
  <2> QED
    BY <1>2, <2>1, Parts
<1>4. /\ job' \in [Jobs -> Job] /\ thr' \in [Threads -> Thread]
      /\ \A v \in Threads : /\ thr'[v].work = thr[v].work /\ thr'[v].pc = thr[v].pc
                            /\ thr'[v].dying = thr[v].dying
      /\ \A j \in Jobs \ S : job'[j] = job[j]
      /\ \A j \in S : job'[j] = [job[j] EXCEPT !.cancel = TRUE]
  BY <1>1, Parts, MarkTyped
<1>5. ASSUME NEW j \in Jobs
      PROVE  /\ job'[j].kind = job[j].kind /\ job'[j].live = job[j].live
             /\ job'[j].cancel = (IF j \in S THEN TRUE ELSE job[j].cancel)
             /\ job'[j].kill = job[j].kill /\ job'[j].resched = job[j].resched
             /\ job'[j].send = job[j].send /\ job'[j].received = job[j].received
             /\ job'[j].waiter = job[j].waiter
  <2>1. CASE j \in S
    <3>1. job'[j] = [job[j] EXCEPT !.cancel = TRUE]
      BY <1>4, <2>1
    <3> QED
      BY <2>1, <3>1, Parts DEF Job
  <2>2. CASE j \notin S
    BY <1>4, <2>2
  <2> QED
    BY <2>1, <2>2
<1>6. /\ ThreadInv' /\ RunningInv'
      /\ \A j \in Jobs : Held(j) \in Nat /\ Held(j)' = Held(j)
      /\ \A P : At(P)' = At(P)
  <2>1. \A v \in Threads : thr[v].work # NoJob => thr[v].work \in Jobs
    BY Parts DEF Thread
  <2>2. \A j \in Jobs : job'[j].kind = job[j].kind /\ hist'[j].completed = hist[j].completed
                        /\ (job[j].cancel => job'[j].cancel)
    BY <1>2, <1>5
  <2> QED
    BY <1>2, <1>4, <2>1, <2>2, Parts, StillThreads DEF Posted
<1>7. JobInv'
  <2>1. ASSUME NEW j \in Jobs PROVE JobState(j)'
    <3>1. /\ Listed(j)' = Listed(j) /\ ListedFb(j)' = ListedFb(j) /\ Kept(j)' = Kept(j)
          /\ Told(j)' = Told(j) /\ Noted(j)' = Noted(j) /\ Held(j)' = Held(j)
          /\ hist'[j] = hist[j]
          /\ (main.cbk = j)' <=> main.cbk = j
      BY <1>2, <1>3, <1>6 DEF Listed, ListedFb, Kept, Told, Noted, Posted
    <3>2. CASE j \in S
      <4>1. job[j].live
        BY <1>1, <3>2
      <4>2. JobState(j) /\ hist[j].ends \in Nat /\ hist[j].cancels \in Nat
        BY JobFacts
      <4>3. hist[j].ends = 0
        BY <4>1, <4>2 DEF JobState, JobOK
      <4>4. CASE main.cbk = j
        BY <1>5, <3>1, <3>2, <4>1, <4>2, <4>3, <4>4 DEF JobState, JobOK
      <4>5. CASE main.cbk # j
        BY <1>5, <3>1, <3>2, <4>1, <4>2, <4>3, <4>5 DEF JobState, JobOK
      <4> QED
        BY <4>4, <4>5
    <3>3. CASE j \notin S
      <4>1. Same(j)
        BY <1>3, <1>4, <3>1, <3>3 DEF Same
      <4> QED
        BY <4>1, JobFacts, SameKeeps
    <3> QED
      BY <3>2, <3>3
  <2> QED
    BY <2>1 DEF JobInv
<1>8. TypeOK'
  BY <1>2, <1>3, <1>4, Parts DEF TypeOK, MainType
<1>9. CountExact'
  BY <1>2, <1>3, <1>6, Parts, CountKept
<1>10. WaiterOnStack'
  BY <1>3, <1>5, Parts DEF WaiterOnStack
<1>11. MainInv'
  BY <1>2, <1>3, <1>5, Parts DEF MainInv, Starting, Flushing
<1>12. ShutInv'
  BY <1>2, <1>3, <1>4, Parts DEF ShutInv, Ending, WillLook
<1> QED
  BY <1>6, <1>7, <1>8, <1>9, <1>10, <1>11, <1>12 DEF PoolInv

\* core_thread_wait begins, and gives up or finds its job over.
LEMMA WaitSteps ==
    ASSUME PoolInv, (\E j \in Jobs : core_thread_wait(j)) \/ WaitReturn
    PROVE  PoolInv'
<1>1. /\ main.cbk = NoJob /\ inner = <<>>
      /\ UNCHANGED <<hist, pending, pendingFb, running, count, countNQ, max, thr, outer, fails>>
      /\ main.op \in {"idle", "wait"}
  BY Parts DEF core_thread_wait, WaitReturn, ApiReady, MainInv, Flushing
<1>2. PICK i \in Jobs, b \in BOOLEAN :
        /\ job' = [job EXCEPT ![i].waiter = b]
        /\ \/ /\ b = TRUE /\ main.op = "idle" /\ main' = [main EXCEPT !.op = "wait", !.job = i]
              /\ inner' = orders /\ orders' = <<>>
           \/ /\ b = FALSE /\ main.op = "wait" /\ main.job = i /\ main' = Idle
              /\ inner' = inner /\ orders' = orders
  <2>1. ASSUME NEW j \in Jobs, core_thread_wait(j)
        PROVE  /\ job' = [job EXCEPT ![j].waiter = TRUE]
               /\ main.op = "idle" /\ main' = [main EXCEPT !.op = "wait", !.job = j]
               /\ inner' = orders /\ orders' = <<>>
    BY <2>1 DEF core_thread_wait, ApiReady
  <2>2. CASE WaitReturn
    <3>1. PICK j \in Jobs : j = main.job
      BY <2>2, Parts DEF WaitReturn, MainInv
    <3>2. /\ job' = [job EXCEPT ![j].waiter = FALSE]
          /\ main.op = "wait" /\ main.job = j /\ main' = Idle /\ inner' = inner /\ orders' = orders
      BY <2>2, <3>1 DEF WaitReturn
    <3> QED
      BY <3>2
  <2> QED
    BY <2>1, <2>2
<1>3. /\ main' \in MainType /\ main'.cbk = NoJob
      /\ b = TRUE => main.op = "idle" /\ main'.op = "wait" /\ main'.job = i
      /\ b = FALSE => main.op = "wait" /\ main.job = i /\ main'.op = "idle" /\ inner' = <<>>
      /\ outer' = outer
  <2>1. LET m == [main EXCEPT !.op = "wait", !.job = i]
        IN  m \in MainType /\ m.cbk = NoJob /\ m.op = "wait" /\ m.job = i
    BY <1>1, Parts DEF MainType, Ops
  <2>2. Idle \in MainType /\ Idle.cbk = NoJob /\ Idle.op = "idle"
    BY DEF Idle, MainType, Ops
  <2> QED
    BY <1>1, <1>2, <2>1, <2>2
<1>4. /\ job' \in [Jobs -> Job] /\ \A j \in Jobs : j # i => job'[j] = job[j]
      /\ job'[i].kind = job[i].kind /\ job'[i].live = job[i].live
      /\ job'[i].cancel = job[i].cancel
      /\ job'[i].kill = job[i].kill /\ job'[i].resched = job[i].resched
      /\ job'[i].send = job[i].send /\ job'[i].received = job[i].received
      /\ job'[i].waiter = b
  <2> DEFINE r == [job[i] EXCEPT !.waiter = b]
  <2>1. /\ r \in Job /\ r.kind = job[i].kind /\ r.live = job[i].live
        /\ r.cancel = job[i].cancel
        /\ r.kill = job[i].kill /\ r.resched = job[i].resched
        /\ r.send = job[i].send /\ r.received = job[i].received
        /\ r.waiter = b
    BY Parts DEF Job
  <2>2. job' = [job EXCEPT ![i] = r]
    BY <1>2
  <2> HIDE DEF r
  <2> QED
    BY <2>1, <2>2, Parts
<1>5. \A x : Posted(x)' = Posted(x)
  BY <1>1, <1>2, Parts, FlushCounts DEF Posted
<1>6. /\ ThreadInv' /\ RunningInv'
      /\ \A j \in Jobs : Held(j) \in Nat /\ Held(j)' = Held(j)
      /\ \A P : At(P)' = At(P)
  <2>1. \A v \in Threads : thr[v].work # NoJob => thr[v].work \in Jobs
    BY Parts DEF Thread
  <2>2. \A j \in Jobs : job'[j].kind = job[j].kind /\ job'[j].cancel = job[j].cancel
    BY <1>4
  <2> QED
    BY <1>1, <1>5, <2>1, <2>2, Parts, StillThreads
<1>7. JobInv'
  <2>1. ASSUME NEW j \in Jobs PROVE JobState(j)'
    <3>1. /\ Listed(j)' = Listed(j) /\ ListedFb(j)' = ListedFb(j) /\ Kept(j)' = 0 /\ Kept(j) = 0
          /\ Told(j)' = Told(j) /\ Noted(j)' = Noted(j) /\ Held(j)' = Held(j)
          /\ hist'[j] = hist[j] /\ ~(main.cbk = j)' /\ ~(main.cbk = j)
      BY <1>1, <1>3, <1>5, <1>6, NoneAssumption DEF Listed, ListedFb, Kept, Told, Noted
    <3>2. CASE j # i
      <4>1. Same(j)
        BY <1>1, <1>3, <1>4, <3>1, <3>2 DEF Same
      <4> QED
        BY <4>1, JobFacts, SameKeeps
    <3>3. CASE j = i
      <4>1. JobState(i)
        BY JobFacts
      <4> QED
        BY <1>4, <3>1, <3>3, <4>1 DEF JobState, JobOK
    <3> QED
      BY <3>2, <3>3
  <2> QED
    BY <2>1 DEF JobInv
<1>8. TypeOK'
  <2>0. orders \in Seq(Order) /\ inner \in Seq(Order) /\ <<>> \in Seq(Order)
    BY Parts
  <2>1. inner' \in Seq(Order) /\ orders' \in Seq(Order)
    BY <1>2, <2>0
  <2> QED
    BY <1>1, <1>3, <1>4, <2>1, Parts DEF TypeOK, MainType
<1>9. CountExact'
  BY <1>1, <1>3, <1>6, Parts, CountKept
<1>10. WaiterOnStack'
  <2>1. \A j \in Jobs : j # i => ~job[j].waiter
    BY <1>3, Parts DEF WaiterOnStack
  <2> QED
    BY <1>3, <1>4, <2>1 DEF WaiterOnStack
<1>11. MainInv' /\ ShutInv'
  BY <1>1, <1>3, Parts DEF MainInv, ShutInv, Starting, Flushing, Ending
<1> QED
  BY <1>6, <1>7, <1>8, <1>9, <1>10, <1>11 DEF PoolInv

-----------------------------------------------------------------------------
(* What was posted is handled *)

\* What a release changes.
LEMMA KillFacts ==
    ASSUME PoolInv, NEW i \in Jobs, Kill(i)
    PROVE  /\ job' \in [Jobs -> Job] /\ hist' \in [Jobs -> Hist]
           /\ \A j \in Jobs : j # i => job'[j] = job[j] /\ hist'[j] = hist[j]
           /\ job'[i].kind = job[i].kind /\ ~job'[i].live /\ job'[i].cancel = job[i].cancel
           /\ job'[i].kill = job[i].kill /\ job'[i].resched = job[i].resched
           /\ job'[i].send = job[i].send /\ job'[i].received = job[i].received
           /\ ~job'[i].waiter
           /\ hist'[i].ends = hist[i].ends + (IF job[i].cancel THEN 0 ELSE 1)
           /\ hist'[i].cancels = hist[i].cancels + (IF job[i].cancel THEN 1 ELSE 0)
           /\ hist'[i].completed = hist[i].completed /\ hist'[i].stale = hist[i].stale
<1>1. job' \in [Jobs -> Job] /\ hist' \in [Jobs -> Hist]
  BY Parts, KillTyped
<1>2. /\ job'[i] = [job[i] EXCEPT !.live = FALSE, !.waiter = FALSE]
      /\ \A j \in Jobs : j # i => job'[j] = job[j] /\ hist'[j] = hist[j]
  BY Parts DEF Kill
<1>3. /\ job'[i].kind = job[i].kind /\ ~job'[i].live /\ job'[i].cancel = job[i].cancel
      /\ job'[i].kill = job[i].kill /\ job'[i].resched = job[i].resched
      /\ job'[i].send = job[i].send /\ job'[i].received = job[i].received
      /\ ~job'[i].waiter
  BY <1>2, Parts DEF Job
<1>4. /\ hist'[i].ends = hist[i].ends + (IF job[i].cancel THEN 0 ELSE 1)
      /\ hist'[i].cancels = hist[i].cancels + (IF job[i].cancel THEN 1 ELSE 0)
      /\ hist'[i].completed = hist[i].completed /\ hist'[i].stale = hist[i].stale
  <2>0. hist[i].ends \in Nat /\ hist[i].cancels \in Nat /\ hist[i] \in Hist
    BY JobFacts
  <2>1. CASE job[i].cancel
    <3>1. hist'[i] = [hist[i] EXCEPT !.cancels = @ + 1]
      BY <2>1, Parts DEF Kill
    <3> QED
      BY <2>0, <2>1, <3>1 DEF Hist
  <2>2. CASE ~job[i].cancel
    <3>1. hist'[i] = [hist[i] EXCEPT !.ends = @ + 1]
      BY <2>2, Parts DEF Kill
    <3> QED
      BY <2>0, <2>2, <3>1 DEF Hist
  <2> QED
    BY <2>1, <2>2
<1> QED
  BY <1>1, <1>2, <1>3, <1>4

\* The main loop works on a call: the rest of the invariant once the jobs are seen to.
LEMMA HandledKeeps ==
    ASSUME PoolInv, job' \in [Jobs -> Job], hist' \in [Jobs -> Hist],
           main' \in MainType, main'.op = main.op, main'.job = main.job,
           main.op \in Flushing \cup {"idle"},
           outer' \in Seq(Order), inner' \in Seq(Order),
           outer = <<>> => outer' = <<>>, inner = <<>> => inner' = <<>>,
           UNCHANGED <<pending, pendingFb, running, count, countNQ, max, thr, orders, fails>>,
           \A w \in Threads : Posted(<<"join", w>>)' = Posted(<<"join", w>>),
           \A j \in Jobs : /\ job'[j].kind = job[j].kind /\ job'[j].cancel = job[j].cancel
                           /\ hist'[j].completed = hist[j].completed /\ hist'[j].stale = hist[j].stale
                           /\ job'[j].waiter => job[j].waiter,
           \A j \in Jobs : Held(j)' = Held(j) => JobState(j)'
    PROVE  PoolInv'
<1>1. /\ ThreadInv' /\ RunningInv'
      /\ \A j \in Jobs : Held(j) \in Nat /\ Held(j)' = Held(j)
      /\ \A P : At(P)' = At(P)
  <2>1. \A v \in Threads : thr[v].work # NoJob => thr[v].work \in Jobs
    BY Parts DEF Thread
  <2> QED
    BY <2>1, Parts, StillThreads
<1>2. JobInv'
  BY <1>1 DEF JobInv
<1>3. TypeOK'
  BY Parts DEF TypeOK, MainType
<1>4. CountExact'
  BY <1>1, Parts, CountKept
<1>5. WaiterOnStack'
  BY Parts DEF WaiterOnStack
<1>6. MainInv'
  BY Parts DEF MainInv, Flushing, Starting
<1>7. ShutInv'
  BY Parts DEF ShutInv, Ending, Flushing, WillLook
<1> QED
  BY <1>1, <1>2, <1>3, <1>4, <1>5, <1>6, <1>7 DEF PoolInv

\* The outcome of a job reaches the main loop.
LEMMA HandlerStep == ASSUME PoolInv, NEW i \in Jobs, _core_thread_handler(i) PROVE PoolInv'
<1>1. /\ NextOrder(<<"handler", i>>)
      /\ UNCHANGED <<pending, pendingFb, running, count, countNQ, max, thr, orders, main, fails>>
  BY DEF _core_thread_handler
<1>2. /\ \A x : Posted(x)' \in Nat /\ Posted(x) = Posted(x)' + (IF <<"handler", i>> = x THEN 1 ELSE 0)
      /\ outer' \in Seq(Order) /\ inner' \in Seq(Order)
      /\ main.op \in Flushing \cup {"idle"} /\ main.cbk = NoJob
      /\ inner = <<>> => inner' = <<>>
      /\ outer = <<>> => outer' = <<>>
  BY <1>1, Parts, NextCounts
<1>3. /\ \A w \in Threads : Posted(<<"join", w>>)' = Posted(<<"join", w>>)
      /\ \A j \in Jobs : Noted(j)' = Noted(j)
      /\ \A j \in Jobs : j # i => Told(j)' = Told(j)
      /\ Told(i) = Told(i)' + 1 /\ Told(i)' \in Nat
  <2>1. ASSUME NEW x, x # <<"handler", i>> PROVE Posted(x)' = Posted(x)
    <3>1. Posted(x)' \in Nat /\ Posted(x) = Posted(x)' + (IF <<"handler", i>> = x THEN 1 ELSE 0)
      BY <1>2
    <3> QED
      BY <2>1, <3>1
  <2>2. Told(i) = Told(i)' + 1 /\ Told(i)' \in Nat
    BY <1>2 DEF Told
  <2>3. /\ \A w \in Threads : <<"join", w>> # <<"handler", i>>
        /\ \A j \in Jobs : <<"notify", j>> # <<"handler", i>>
        /\ \A j \in Jobs : j # i => <<"handler", j>> # <<"handler", i>>
    OBVIOUS
  <2> QED
    BY <2>1, <2>2, <2>3 DEF Told, Noted
<1>4. /\ JobState(i) /\ Listed(i) \in Nat /\ ListedFb(i) \in Nat /\ Kept(i) \in 0..1 /\ Held(i) \in Nat
      /\ Told(i) \in Nat /\ Noted(i) \in Nat
      /\ hist[i].ends \in Nat /\ hist[i].cancels \in Nat
      /\ job[i].send \in Nat /\ job[i].received \in Nat
  BY JobFacts
<1>5. /\ Listed(i) = 0 /\ ListedFb(i) = 0 /\ Kept(i) = 0 /\ Held(i) = 0 /\ Told(i) = 1 /\ Told(i)' = 0
      /\ job[i].kind # "none" /\ ~job[i].kill /\ hist[i].ends = 0
      /\ NoKill => hist[i].completed \/ job[i].cancel
  BY <1>3, <1>4 DEF JobState, JobOK
<1>6. job[i].live \/ hist[i].stale
  BY <1>4, <1>5 DEF JobState, JobOK
<1>7. /\ Listed(i)' = Listed(i) /\ ListedFb(i)' = ListedFb(i) /\ Kept(i)' = Kept(i)
      /\ ~(main.cbk = i) /\ ~(main.cbk = i)'
  BY <1>1, <1>2, NoneAssumption DEF Listed, ListedFb, Kept
<1>8. ASSUME NEW j \in Jobs, j # i, job'[j] = job[j], hist'[j] = hist[j], Held(j)' = Held(j)
      PROVE  JobState(j)'
  <2>1. Same(j)
    BY <1>1, <1>3, <1>8 DEF Same, Listed, ListedFb, Kept
  <2> QED
    BY <2>1, JobFacts, SameKeeps
<1>9. CASE job[i].kind # "short" /\ job[i].send # job[i].received
  <2>1. job' = [job EXCEPT ![i].kill = TRUE] /\ hist' = hist
    BY <1>9 DEF _core_thread_handler
  <2>2. /\ job' \in [Jobs -> Job] /\ \A j \in Jobs : j # i => job'[j] = job[j]
        /\ job'[i].kind = job[i].kind /\ job'[i].live = job[i].live /\ job'[i].cancel = job[i].cancel
        /\ job'[i].kill /\ job'[i].resched = job[i].resched
        /\ job'[i].send = job[i].send /\ job'[i].received = job[i].received
        /\ job'[i].waiter = job[i].waiter
    <3> DEFINE r == [job[i] EXCEPT !.kill = TRUE]
    <3>1. /\ r \in Job /\ r.kind = job[i].kind /\ r.live = job[i].live /\ r.cancel = job[i].cancel
          /\ r.kill /\ r.resched = job[i].resched
          /\ r.send = job[i].send /\ r.received = job[i].received /\ r.waiter = job[i].waiter
      BY Parts DEF Job
    <3>2. job' = [job EXCEPT ![i] = r]
      BY <2>1
    <3> HIDE DEF r
    <3> QED
      BY <3>1, <3>2, Parts
  <2>3. ASSUME Held(i)' = Held(i) PROVE JobState(i)'
    <3>1. /\ Listed(i)' = 0 /\ ListedFb(i)' = 0 /\ Kept(i)' = 0 /\ Held(i)' = 0 /\ Told(i)' = 0
          /\ Noted(i)' = Noted(i) /\ hist'[i] = hist[i]
      BY <1>3, <1>5, <1>7, <2>1, <2>3
    <3>0. Noted(i) = job[i].send - job[i].received
      BY <1>4 DEF JobState, JobOK
    <3>2. Noted(i) > 0 /\ Noted(i) = job[i].send - job[i].received
      BY <1>4, <1>9, <3>0
    <3>3. /\ job[i].live => hist[i].cancels = 0 /\ ~hist[i].stale
          /\ job[i].resched => job[i].kind \in ReschedKinds
      BY <1>4 DEF JobState, JobOK
    <3> QED
      BY <1>4, <1>5, <1>6, <1>7, <1>9, <2>2, <3>1, <3>2, <3>3 DEF JobState, JobOK
  <2>4. hist' \in [Jobs -> Hist] /\ main' \in MainType
    BY <1>1, <2>1, Parts
  <2> QED
    BY <1>1, <1>2, <1>3, <1>8, <2>1, <2>2, <2>3, <2>4, HandledKeeps
<1>10. CASE ~(job[i].kind # "short" /\ job[i].send # job[i].received)
  <2>1. Kill(i)
    BY <1>10 DEF _core_thread_handler
  <2>2. /\ job' \in [Jobs -> Job] /\ hist' \in [Jobs -> Hist]
        /\ \A j \in Jobs : j # i => job'[j] = job[j] /\ hist'[j] = hist[j]
        /\ job'[i].kind = job[i].kind /\ ~job'[i].live /\ job'[i].cancel = job[i].cancel
        /\ job'[i].kill = job[i].kill /\ job'[i].resched = job[i].resched
        /\ job'[i].send = job[i].send /\ job'[i].received = job[i].received
        /\ ~job'[i].waiter
        /\ hist'[i].ends = hist[i].ends + (IF job[i].cancel THEN 0 ELSE 1)
        /\ hist'[i].cancels = hist[i].cancels + (IF job[i].cancel THEN 1 ELSE 0)
        /\ hist'[i].completed = hist[i].completed /\ hist'[i].stale = hist[i].stale
    BY <2>1, KillFacts
  <2>3. Noted(i) = 0
    BY <1>4, <1>10 DEF JobState, JobOK
  <2>4. job[i].live => hist[i].cancels = 0
    BY <1>4 DEF JobState, JobOK
  <2>5. ASSUME Held(i)' = Held(i) PROVE JobState(i)'
    <3>1. CASE job[i].cancel
      BY <1>3, <1>4, <1>5, <1>6, <1>7, <2>2, <2>3, <2>4, <2>5, <3>1 DEF JobState, JobOK
    <3>2. CASE ~job[i].cancel
      BY <1>3, <1>4, <1>5, <1>6, <1>7, <2>2, <2>3, <2>4, <2>5, <3>2 DEF JobState, JobOK
    <3> QED
      BY <3>1, <3>2
  <2>6. main' \in MainType
    BY <1>1, Parts
  <2> QED
    BY <1>1, <1>2, <1>3, <1>8, <2>2, <2>5, <2>6, HandledKeeps
<1> QED
  BY <1>9, <1>10

\* A notification reaches the main loop.
LEMMA NotifyStep == ASSUME PoolInv, NEW i \in Jobs, _Core_notify_handler(i) PROVE PoolInv'
<1>1. /\ NextOrder(<<"notify", i>>)
      /\ job' = [job EXCEPT ![i].received = @ + 1]
      /\ main' = [main EXCEPT !.cbk = i]
      /\ UNCHANGED <<hist, pending, pendingFb, running, count, countNQ, max, thr, orders, fails>>
  BY DEF _Core_notify_handler
<1>2. /\ \A x : Posted(x)' \in Nat /\ Posted(x) = Posted(x)' + (IF <<"notify", i>> = x THEN 1 ELSE 0)
      /\ outer' \in Seq(Order) /\ inner' \in Seq(Order)
      /\ main.op \in Flushing \cup {"idle"} /\ main.cbk = NoJob
      /\ inner = <<>> => inner' = <<>>
      /\ outer = <<>> => outer' = <<>>
  BY <1>1, Parts, NextCounts
<1>3. /\ \A w \in Threads : Posted(<<"join", w>>)' = Posted(<<"join", w>>)
      /\ \A j \in Jobs : Told(j)' = Told(j)
      /\ \A j \in Jobs : j # i => Noted(j)' = Noted(j)
      /\ Noted(i) = Noted(i)' + 1 /\ Noted(i)' \in Nat
  <2>1. ASSUME NEW x, x # <<"notify", i>> PROVE Posted(x)' = Posted(x)
    <3>1. Posted(x)' \in Nat /\ Posted(x) = Posted(x)' + (IF <<"notify", i>> = x THEN 1 ELSE 0)
      BY <1>2
    <3> QED
      BY <2>1, <3>1
  <2>2. Noted(i) = Noted(i)' + 1 /\ Noted(i)' \in Nat
    BY <1>2 DEF Noted
  <2>3. /\ \A w \in Threads : <<"join", w>> # <<"notify", i>>
        /\ \A j \in Jobs : <<"handler", j>> # <<"notify", i>>
        /\ \A j \in Jobs : j # i => <<"notify", j>> # <<"notify", i>>
    OBVIOUS
  <2> QED
    BY <2>1, <2>2, <2>3 DEF Told, Noted
<1>4. /\ main' \in MainType /\ main'.op = main.op /\ main'.job = main.job /\ main'.cbk = i
  BY <1>1, Parts DEF MainType
<1>5. /\ job' \in [Jobs -> Job] /\ \A j \in Jobs : j # i => job'[j] = job[j]
      /\ job'[i].kind = job[i].kind /\ job'[i].live = job[i].live /\ job'[i].cancel = job[i].cancel
      /\ job'[i].kill = job[i].kill /\ job'[i].resched = job[i].resched
      /\ job'[i].send = job[i].send /\ job'[i].received = job[i].received + 1
      /\ job'[i].waiter = job[i].waiter
  <2>1. PICK n \in Nat : n = job[i].received + 1
    BY JobFacts
  <2> DEFINE r == [job[i] EXCEPT !.received = n]
  <2>2. /\ r \in Job /\ r.kind = job[i].kind /\ r.live = job[i].live /\ r.cancel = job[i].cancel
        /\ r.kill = job[i].kill /\ r.resched = job[i].resched
        /\ r.send = job[i].send /\ r.received = n /\ r.waiter = job[i].waiter
    BY Parts DEF Job
  <2>3. job' = [job EXCEPT ![i] = r]
    BY <1>1, <2>1
  <2> HIDE DEF r
  <2> QED
    BY <2>1, <2>2, <2>3, Parts
<1>6. /\ JobState(i) /\ Listed(i) \in Nat /\ ListedFb(i) \in Nat /\ Kept(i) \in 0..1 /\ Held(i) \in Nat
      /\ Told(i) \in Nat /\ Noted(i) \in Nat
      /\ hist[i].ends \in Nat /\ hist[i].cancels \in Nat
      /\ job[i].send \in Nat /\ job[i].received \in Nat
  BY JobFacts
<1>7. Noted(i) > 0 /\ Noted(i) = job[i].send - job[i].received
  <2>1. Noted(i) = job[i].send - job[i].received
    BY <1>6 DEF JobState, JobOK
  <2> QED
    BY <1>3, <1>6, <2>1
<1>8. /\ job[i].kind # "none" /\ job[i].kind # "short" /\ job[i].send > 0
      /\ ~job[i].live /\ ~hist[i].stale => ~job[i].kill /\ ~NoFbResched
  <2>1. job[i].send > 0 /\ Noted(i) # 0
    BY <1>6, <1>7
  <2>2. /\ job[i].kind = "none" => Noted(i) = 0
        /\ job[i].kind = "short" => job[i].send = 0
    BY <1>6 DEF JobState, JobOK
  <2>3. job[i].kind # "none" /\ job[i].kind # "short"
    BY <2>1, <2>2
  <2>4. job[i].kind # "none" /\ ~job[i].live /\ ~hist[i].stale =>
          (job[i].kill \/ NoFbResched => Noted(i) = 0)
    BY <1>6 DEF JobState, JobOK
  <2> QED
    BY <2>1, <2>3, <2>4
<1>9. /\ \A j \in Jobs : Listed(j)' = Listed(j) /\ ListedFb(j)' = ListedFb(j) /\ Kept(j)' = Kept(j)
      /\ (main.cbk = i)' /\ \A j \in Jobs : main.cbk # j
  BY <1>1, <1>2, <1>4, NoneAssumption DEF Listed, ListedFb, Kept
<1>10. ASSUME NEW j \in Jobs, j # i, Held(j)' = Held(j) PROVE JobState(j)'
  <2>1. Same(j)
    BY <1>1, <1>3, <1>4, <1>5, <1>9, <1>10 DEF Same
  <2> QED
    BY <2>1, JobFacts, SameKeeps
<1>11. ASSUME Held(i)' = Held(i) PROVE JobState(i)'
  <2>1. /\ Listed(i)' = Listed(i) /\ ListedFb(i)' = ListedFb(i) /\ Kept(i)' = Kept(i)
        /\ Told(i)' = Told(i) /\ hist'[i] = hist[i]
        /\ Noted(i)' = job'[i].send - job'[i].received /\ (main.cbk = i)'
    BY <1>1, <1>3, <1>5, <1>6, <1>7, <1>9
  <2>2. ListedFb(i) > 0 => ~NoFbResched
    BY <1>6, <1>8 DEF JobState, JobOK
  <2> QED
    BY <1>5, <1>6, <1>8, <1>11, <2>1, <2>2 DEF JobState, JobOK
<1>12. \A j \in Jobs : /\ job'[j].kind = job[j].kind /\ job'[j].cancel = job[j].cancel
                       /\ hist'[j].completed = hist[j].completed /\ hist'[j].stale = hist[j].stale
                       /\ job'[j].waiter => job[j].waiter
  BY <1>1, <1>5
<1>13. hist' \in [Jobs -> Hist]
  BY <1>1, Parts
<1> QED
  BY <1>1, <1>2, <1>3, <1>4, <1>5, <1>10, <1>11, <1>12, <1>13, HandledKeeps

\* func_notify returns: the last one of a job that is over releases it.
LEMMA NotifyReturnStep == ASSUME PoolInv, NotifyReturn PROVE PoolInv'
<1>1. PICK i \in Jobs : i = main.cbk
  BY Parts DEF NotifyReturn, MainType
<1>2. /\ main' = [main EXCEPT !.cbk = NoJob]
      /\ IF job[i].kill /\ job[i].send = job[i].received THEN Kill(i) ELSE UNCHANGED <<job, hist>>
      /\ UNCHANGED <<pending, pendingFb, running, count, countNQ, max, thr, orders, outer, inner, fails>>
  BY <1>1 DEF NotifyReturn
<1>3. main.op \in Flushing \cup {"idle"}
  BY <1>1, Parts, NoneAssumption DEF MainInv
<1>4. /\ main' \in MainType /\ main'.op = main.op /\ main'.job = main.job /\ main'.cbk = NoJob
  BY <1>2, Parts DEF MainType
<1>5. /\ \A x : Posted(x)' = Posted(x)
      /\ \A j \in Jobs : /\ Listed(j)' = Listed(j) /\ ListedFb(j)' = ListedFb(j) /\ Kept(j)' = Kept(j)
                         /\ Told(j)' = Told(j) /\ Noted(j)' = Noted(j)
      /\ \A j \in Jobs : j # i => ~(main.cbk = j)
      /\ \A j \in Jobs : ~(main.cbk = j)'
      /\ outer' \in Seq(Order) /\ inner' \in Seq(Order)
      /\ inner' = inner /\ outer' = outer
  BY <1>1, <1>2, <1>4, Parts, NoneAssumption DEF Listed, ListedFb, Kept, Told, Noted, Posted
<1>6. /\ JobState(i) /\ Listed(i) \in Nat /\ ListedFb(i) \in Nat /\ Kept(i) \in 0..1 /\ Held(i) \in Nat
      /\ Told(i) \in Nat /\ Noted(i) \in Nat
      /\ hist[i].ends \in Nat /\ hist[i].cancels \in Nat
      /\ job[i].send \in Nat /\ job[i].received \in Nat
  BY JobFacts
<1>7. ASSUME NEW j \in Jobs, j # i, job'[j] = job[j], hist'[j] = hist[j], Held(j)' = Held(j)
      PROVE  JobState(j)'
  <2>1. main'.cbk = j <=> main.cbk = j
    BY <1>1, <1>4, <1>7, NoneAssumption
  <2>2. Same(j)
    BY <1>5, <1>7, <2>1 DEF Same
  <2> QED
    BY <2>2, JobFacts, SameKeeps
<1>8. CASE job[i].kill /\ job[i].send = job[i].received
  <2>1. Kill(i)
    BY <1>2, <1>8
  <2>2. /\ job' \in [Jobs -> Job] /\ hist' \in [Jobs -> Hist]
        /\ \A j \in Jobs : j # i => job'[j] = job[j] /\ hist'[j] = hist[j]
        /\ job'[i].kind = job[i].kind /\ ~job'[i].live /\ job'[i].cancel = job[i].cancel
        /\ job'[i].kill = job[i].kill /\ job'[i].resched = job[i].resched
        /\ job'[i].send = job[i].send /\ job'[i].received = job[i].received
        /\ ~job'[i].waiter
        /\ hist'[i].ends = hist[i].ends + (IF job[i].cancel THEN 0 ELSE 1)
        /\ hist'[i].cancels = hist[i].cancels + (IF job[i].cancel THEN 1 ELSE 0)
        /\ hist'[i].completed = hist[i].completed /\ hist'[i].stale = hist[i].stale
    BY <2>1, KillFacts
  <2>3. /\ job[i].kind \notin {"none", "short"}
        /\ job[i].live \/ hist[i].stale
        /\ NoKill => hist[i].completed \/ job[i].cancel
        /\ Listed(i) = 0 /\ ListedFb(i) = 0 /\ Kept(i) = 0 /\ Held(i) = 0 /\ Told(i) = 0
    <3>1. job[i].kind \notin {"none", "short"} /\ (NoKill => hist[i].completed \/ job[i].cancel)
      BY <1>6, <1>8 DEF JobState, JobOK
    <3>2. Listed(i) = 0 /\ ListedFb(i) = 0 /\ Kept(i) = 0 /\ Held(i) = 0 /\ Told(i) = 0
      BY <1>6, <1>8 DEF JobState, JobOK
    <3>3. job[i].live \/ hist[i].stale
      BY <1>1, <1>6, <1>8, <3>1 DEF JobState, JobOK
    <3> QED
      BY <3>1, <3>2, <3>3
  <2>4. Noted(i) = 0
    BY <1>6, <1>8 DEF JobState, JobOK
  <2>5. /\ job[i].live => hist[i].cancels = 0 /\ hist[i].ends = 0
        /\ hist[i].ends > 0 => ~job[i].cancel
        /\ NoKill /\ hist[i].ends > 0 => hist[i].completed
    BY <1>6 DEF JobState, JobOK
  <2>6. ASSUME Held(i)' = Held(i) PROVE JobState(i)'
    <3>1. /\ Listed(i)' = 0 /\ ListedFb(i)' = 0 /\ Kept(i)' = 0 /\ Held(i)' = 0 /\ Told(i)' = 0
          /\ Noted(i)' = 0 /\ ~(main.cbk = i)'
      BY <1>5, <2>3, <2>4, <2>6
    <3>2. job[i].resched => job[i].kind \in ReschedKinds
      BY <1>6 DEF JobState, JobOK
    <3>3. CASE job[i].cancel
      BY <1>6, <1>8, <2>2, <2>3, <2>5, <3>1, <3>2, <3>3 DEF JobState, JobOK
    <3>4. CASE ~job[i].cancel
      BY <1>6, <1>8, <2>2, <2>3, <2>5, <3>1, <3>2, <3>4 DEF JobState, JobOK
    <3> QED
      BY <3>3, <3>4
  <2> QED
    BY <1>2, <1>3, <1>4, <1>5, <1>7, <2>2, <2>6, HandledKeeps
<1>9. CASE ~(job[i].kill /\ job[i].send = job[i].received)
  <2>1. job' = job /\ hist' = hist
    BY <1>2, <1>9
  <2>2. job[i].kill => Noted(i) > 0
    <3>1. Noted(i) = job[i].send - job[i].received
      BY <1>6 DEF JobState, JobOK
    <3> QED
      BY <1>6, <1>9, <3>1
  <2>3. ASSUME Held(i)' = Held(i) PROVE JobState(i)'
    BY <1>1, <1>5, <1>6, <2>1, <2>2, <2>3 DEF JobState, JobOK
  <2>4. job' \in [Jobs -> Job] /\ hist' \in [Jobs -> Hist]
    BY <2>1, Parts
  <2> QED
    BY <1>2, <1>3, <1>4, <1>5, <1>7, <2>1, <2>3, <2>4, HandledKeeps
<1> QED
  BY <1>8, <1>9

\* A thread that has ended is joined.
LEMMA JoinStep == ASSUME PoolInv, NEW w \in Threads, _core_thread_join(w) PROVE PoolInv'
<1>1. /\ NextOrder(<<"join", w>>)
      /\ thr' = [thr EXCEPT ![w] = NoThreadState]
      /\ UNCHANGED <<job, hist, pending, pendingFb, running, count, countNQ, max, orders, main, fails>>
  BY DEF _core_thread_join
<1>2. /\ \A x : Posted(x)' \in Nat /\ Posted(x) = Posted(x)' + (IF <<"join", w>> = x THEN 1 ELSE 0)
      /\ outer' \in Seq(Order) /\ inner' \in Seq(Order)
      /\ main.op \in Flushing \cup {"idle"} /\ main.cbk = NoJob
      /\ inner = <<>> => inner' = <<>>
      /\ outer = <<>> => outer' = <<>>
  BY <1>1, Parts, NextCounts
<1>3. /\ \A v \in Threads : v # w => Posted(<<"join", v>>)' = Posted(<<"join", v>>)
      /\ \A j \in Jobs : Told(j)' = Told(j) /\ Noted(j)' = Noted(j)
      /\ Posted(<<"join", w>>) = Posted(<<"join", w>>)' + 1 /\ Posted(<<"join", w>>)' \in Nat
  <2>1. ASSUME NEW x, x # <<"join", w>> PROVE Posted(x)' = Posted(x)
    <3>1. Posted(x)' \in Nat /\ Posted(x) = Posted(x)' + (IF <<"join", w>> = x THEN 1 ELSE 0)
      BY <1>2
    <3> QED
      BY <2>1, <3>1
  <2>2. Posted(<<"join", w>>) = Posted(<<"join", w>>)' + 1 /\ Posted(<<"join", w>>)' \in Nat
    BY <1>2
  <2>3. /\ \A v \in Threads : v # w => <<"join", v>> # <<"join", w>>
        /\ \A j \in Jobs : <<"handler", j>> # <<"join", w>> /\ <<"notify", j>> # <<"join", w>>
    OBVIOUS
  <2> QED
    BY <2>1, <2>2, <2>3 DEF Told, Noted
<1>4. thr[w].pc = "gone" /\ thr[w].work = NoJob /\ Posted(<<"join", w>>)' = 0
  <2>1. /\ Posted(<<"join", w>>) = IF thr[w].pc = "gone" THEN 1 ELSE 0
        /\ thr[w].work # NoJob <=> thr[w].pc \in PoolWork \cup DirectWork
    BY Parts DEF ThreadInv, ThreadOK
  <2>2. thr[w].pc = "gone"
    BY <1>3, <2>1
  <2> QED
    BY <1>3, <2>1, <2>2 DEF PoolWork, DirectWork
<1>5. /\ thr' \in [Threads -> Thread] /\ \A v \in Threads : v # w => thr'[v] = thr[v]
      /\ thr'[w].pc = "none" /\ thr'[w].work = NoJob /\ ~thr'[w].dying
  <2>1. NoThreadState \in Thread /\ NoThreadState.pc = "none" /\ NoThreadState.work = NoJob /\ ~NoThreadState.dying
    BY DEF NoThreadState, Thread, PC
  <2> QED
    BY <1>1, <2>1, Parts
<1>6. \A j \in Jobs : Held(j)' = Held(j)
  BY <1>4, <1>5, OneThread, NoneAssumption
<1>7. CountExact' /\ count' \in Nat /\ countNQ' \in Int
  <2>1. /\ thr[w].pc \notin PoolPC /\ thr'[w].pc \notin PoolPC /\ thr[w].pc \notin DirectWork
        /\ thr'[w].pc \notin DirectWork /\ main' = main
    BY <1>1, <1>4, <1>5 DEF PoolPC, DirectWork
  <2>2. /\ count' = count - (IF thr[w].pc \in PoolPC THEN 1 ELSE 0)
                         + (IF thr'[w].pc \in PoolPC THEN 1 ELSE 0)
        /\ countNQ' = countNQ - (IF thr[w].pc \in DirectWork THEN 1 ELSE 0)
                             + (IF thr'[w].pc \in DirectWork THEN 1 ELSE 0)
                             + (IF main.op = "dcount" THEN 1 ELSE 0)
                             - (IF main'.op = "dcount" THEN 1 ELSE 0)
    BY <1>1, <2>1, Parts
  <2> QED
    BY <1>5, <2>2, Parts, CountMoves
<1>8. ThreadInv'
  <2>1. ThreadOK(w)'
    BY <1>4, <1>5 DEF ThreadOK, PoolWork, DirectWork
  <2> QED
    BY <1>1, <1>3, <1>5, <2>1, Parts, OtherThreads
<1>9. RunningInv'
  BY <1>1, <1>4, <1>5, Parts, RunningKept
<1>10. JobInv'
  <2>1. ASSUME NEW j \in Jobs PROVE JobState(j)'
    <3>1. Same(j)
      BY <1>1, <1>3, <1>6 DEF Same, Listed, ListedFb, Kept
    <3> QED
      BY <3>1, JobFacts, SameKeeps
  <2> QED
    BY <2>1 DEF JobInv
<1>11. TypeOK'
  BY <1>1, <1>2, <1>5, <1>7, Parts DEF TypeOK, MainType
<1>12. MainInv' /\ WaiterOnStack'
  BY <1>1, <1>2, Parts DEF MainInv, WaiterOnStack, Starting, Flushing
<1>13. ShutInv'
  <2>1. \A v \in Threads : WillLook(v) => v # w
    BY <1>4 DEF WillLook, PoolPC
  <2>2. \A v \in Threads : WillLook(v) => WillLook(v)'
    BY <1>5, <2>1 DEF WillLook
  <2>3. \A v \in Threads : thr[v].pc \in {"none", "gone"} => thr'[v].pc \in {"none", "gone"}
    BY <1>5
  <2> QED
    BY <1>1, <1>2, <2>2, <2>3, Parts DEF ShutInv, Ending, Flushing
<1> QED
  BY <1>7, <1>8, <1>9, <1>10, <1>11, <1>12, <1>13 DEF PoolInv

\* Shutdown begins: what is still on the lists is released.
LEMMA ShutdownPendingStep == ASSUME PoolInv, ShutdownPending PROVE PoolInv'
<1>1. PICK S \in SUBSET Jobs : S = Elements(pending) \cup Elements(pendingFb)
  <2>1. pending \in Seq(Jobs) /\ pendingFb \in Seq(Jobs)
    BY Parts
  <2>2. Elements(pending) \subseteq Jobs /\ Elements(pendingFb) \subseteq Jobs
    BY <2>1 DEF Elements
  <2> QED
    BY <2>2
<1>2. /\ hist' = [j \in Jobs |-> IF j \in S THEN [hist[j] EXCEPT !.cancels = @ + 1] ELSE hist[j]]
      /\ job' = [j \in Jobs |-> IF j \in S THEN [job[j] EXCEPT !.live = FALSE] ELSE job[j]]
      /\ pending' = <<>> /\ pendingFb' = <<>> /\ outer = <<>>
      /\ main' = [Idle EXCEPT !.op = "sdcancel"]
      /\ UNCHANGED <<running, count, countNQ, max, thr, orders, outer, inner, fails>>
  <2>1. S = Elements(pending \o pendingFb)
    BY <1>1, Parts, ElementsCat
  <2> QED
    BY <2>1 DEF ShutdownPending
<1>3. main.op = "idle" /\ main.cbk = NoJob /\ inner = <<>> /\ \A j \in Jobs : ~job[j].waiter
  BY Parts DEF ShutdownPending, ApiReady, MainInv, Flushing, WaiterOnStack
<1>4. main' \in MainType /\ main'.op = "sdcancel" /\ main'.cbk = NoJob
  BY <1>2 DEF Idle, MainType, Ops
<1>5. ASSUME NEW j \in Jobs
      PROVE  /\ job'[j] \in Job /\ hist'[j] \in Hist
             /\ job'[j].kind = job[j].kind /\ job'[j].cancel = job[j].cancel
             /\ job'[j].live = (IF j \in S THEN FALSE ELSE job[j].live)
             /\ job'[j].kill = job[j].kill /\ job'[j].resched = job[j].resched
             /\ job'[j].send = job[j].send /\ job'[j].received = job[j].received
             /\ job'[j].waiter = job[j].waiter
             /\ hist'[j].ends = hist[j].ends /\ hist'[j].stale = hist[j].stale
             /\ hist'[j].cancels = hist[j].cancels + (IF j \in S THEN 1 ELSE 0)
             /\ hist'[j].completed = hist[j].completed
  <2>0. job[j] \in Job /\ hist[j] \in Hist /\ hist[j].cancels \in Nat
    BY JobFacts
  <2>1. CASE j \in S
    <3>1. job'[j] = [job[j] EXCEPT !.live = FALSE] /\ hist'[j] = [hist[j] EXCEPT !.cancels = @ + 1]
      BY <1>2, <2>1
    <3>2. /\ job'[j] \in Job
          /\ job'[j].kind = job[j].kind /\ job'[j].cancel = job[j].cancel /\ job'[j].live = FALSE
          /\ job'[j].kill = job[j].kill /\ job'[j].resched = job[j].resched
          /\ job'[j].send = job[j].send /\ job'[j].received = job[j].received
          /\ job'[j].waiter = job[j].waiter
      BY <2>0, <3>1 DEF Job
    <3>3. /\ hist'[j] \in Hist /\ hist'[j].ends = hist[j].ends /\ hist'[j].stale = hist[j].stale
          /\ hist'[j].cancels = hist[j].cancels + 1 /\ hist'[j].completed = hist[j].completed
      BY <2>0, <3>1 DEF Hist
    <3> QED
      BY <2>1, <3>2, <3>3
  <2>2. CASE j \notin S
    <3>1. job'[j] = job[j] /\ hist'[j] = hist[j]
      BY <1>2, <2>2
    <3> QED
      BY <2>0, <2>2, <3>1
  <2> QED
    BY <2>1, <2>2
<1>6. job' \in [Jobs -> Job] /\ hist' \in [Jobs -> Hist]
  <2>1. job' = [j \in Jobs |-> job'[j]] /\ hist' = [j \in Jobs |-> hist'[j]]
    BY <1>2
  <2> QED
    BY <1>5, <2>1
<1>7. /\ ThreadInv' /\ RunningInv'
      /\ \A j \in Jobs : Held(j) \in Nat /\ Held(j)' = Held(j)
      /\ \A P : At(P)' = At(P)
  <2>1. \A v \in Threads : thr[v].work # NoJob => thr[v].work \in Jobs
    BY Parts DEF Thread
  <2> QED
    BY <1>2, <1>5, <2>1, Parts, StillThreads DEF Posted
<1>8. JobInv'
  <2>1. ASSUME NEW j \in Jobs PROVE JobState(j)'
    <3>1. /\ Listed(j)' = 0 /\ ListedFb(j)' = 0 /\ Kept(j)' = 0 /\ Kept(j) = 0
          /\ Told(j)' = Told(j) /\ Noted(j)' = Noted(j) /\ Held(j)' = Held(j)
          /\ ~(main.cbk = j)' /\ ~(main.cbk = j)
      BY <1>2, <1>3, <1>4, <1>7, OccEmpty, NoneAssumption
      DEF Listed, ListedFb, Kept, Told, Noted, Posted
    <3>2. /\ JobState(j) /\ Listed(j) \in Nat /\ ListedFb(j) \in Nat /\ Held(j) \in Nat
          /\ Told(j) \in Nat /\ Noted(j) \in Nat
          /\ Listed(j) = 0 <=> j \notin Elements(pending)
          /\ ListedFb(j) = 0 <=> j \notin Elements(pendingFb)
          /\ hist[j].ends \in Nat /\ hist[j].cancels \in Nat
          /\ job[j].send \in Nat /\ job[j].received \in Nat
      BY JobFacts
    <3>3. CASE j \in S
      <4>1. Listed(j) + ListedFb(j) > 0
        BY <1>1, <3>2, <3>3
      <4>2. Listed(j) + ListedFb(j) = 1 /\ Held(j) = 0 /\ Told(j) = 0
        BY <3>1, <3>2, <4>1 DEF JobState, JobOK
      <4>3. /\ job[j].live \/ hist[j].stale
            /\ ~job[j].kill /\ job[j].kind \notin {"none"} /\ hist[j].ends = 0
        BY <3>1, <3>2, <4>2 DEF JobState, JobOK
      <4>4. job[j].live => hist[j].cancels = 0 /\ ~hist[j].stale
        BY <3>2 DEF JobState, JobOK
      <4>5. /\ NoFbResched => job[j].send = 0
            /\ Noted(j) = job[j].send - job[j].received
        BY <3>2, <4>2 DEF JobState, JobOK
      <4>6. NoFbResched => Noted(j) = 0
        BY <3>2, <4>5
      <4>7. /\ job'[j].kind = job[j].kind /\ job'[j].cancel = job[j].cancel /\ ~job'[j].live
            /\ job'[j].kill = job[j].kill /\ job'[j].resched = job[j].resched
            /\ job'[j].send = job[j].send /\ job'[j].received = job[j].received
            /\ hist'[j].ends = hist[j].ends /\ hist'[j].stale = hist[j].stale
            /\ hist'[j].cancels = hist[j].cancels + 1 /\ hist'[j].completed = hist[j].completed
        BY <1>5, <3>3
      <4>8. /\ job[j].resched => job[j].kind \in ReschedKinds
            /\ job[j].kind = "short" => job[j].send = 0 /\ job[j].received = 0
        BY <3>2 DEF JobState, JobOK
      <4> QED
        BY <3>1, <4>2, <4>3, <4>4, <4>5, <4>6, <4>7, <4>8 DEF JobState, JobOK
    <3>4. CASE j \notin S
      <4>1. job'[j] = job[j] /\ hist'[j] = hist[j]
        BY <1>2, <3>4
      <4>2. Listed(j) = 0 /\ ListedFb(j) = 0
        BY <1>1, <3>2, <3>4
      <4>3. main'.cbk # j /\ main.cbk # j
        BY <1>3, <1>4, NoneAssumption
      <4>4. Same(j)
        BY <3>1, <4>1, <4>2, <4>3 DEF Same
      <4> QED
        BY <3>2, <4>4, SameKeeps
    <3> QED
      BY <3>3, <3>4
  <2> QED
    BY <2>1 DEF JobInv
<1>9. TypeOK'
  <2>1. pending' \in Seq(Jobs) /\ pendingFb' \in Seq(Jobs)
    BY <1>2
  <2> QED
    BY <1>2, <1>4, <1>6, <2>1, Parts DEF TypeOK, MainType
<1>10. CountExact'
  BY <1>2, <1>3, <1>4, <1>7, Parts, CountKept
<1>11. MainInv' /\ ShutInv' /\ WaiterOnStack'
  BY <1>2, <1>3, <1>4, <1>5 DEF MainInv, ShutInv, WaiterOnStack, Starting, Flushing, Ending
<1> QED
  BY <1>7, <1>8, <1>9, <1>10, <1>11 DEF PoolInv

-----------------------------------------------------------------------------
(* What a thread does *)

\* The rest of the invariant, once the thread itself and the jobs are seen to.
LEMMA ThreadKeeps ==
    ASSUME PoolInv, NEW w \in Threads, thr[w].pc \notin {"none", "gone"},
           UNCHANGED <<max, outer, inner, main, fails>>,
           job' \in [Jobs -> Job], hist' \in [Jobs -> Hist], thr' \in [Threads -> Thread],
           pending' \in Seq(Jobs), pendingFb' \in Seq(Jobs), running' \subseteq Jobs,
           orders' \in Seq(Order),
           \A v \in Threads : v # w => thr'[v] = thr[v],
           \A v \in Threads : v # w => Posted(<<"join", v>>)' = Posted(<<"join", v>>),
           \A j \in Jobs : /\ job'[j].kind = job[j].kind /\ job'[j].cancel = job[j].cancel
                           /\ hist'[j].stale = hist[j].stale /\ job'[j].waiter = job[j].waiter,
           \A j \in Jobs : j # thr[w].work => hist'[j].completed = hist[j].completed,
           ThreadOK(w)', RunningInv',
           count' = count - (IF thr[w].pc \in PoolPC THEN 1 ELSE 0)
                          + (IF thr'[w].pc \in PoolPC THEN 1 ELSE 0),
           countNQ' = countNQ - (IF thr[w].pc \in DirectWork THEN 1 ELSE 0)
                              + (IF thr'[w].pc \in DirectWork THEN 1 ELSE 0),
           \A j \in Jobs : (Held(j)' = Held(j) - (IF thr[w].work = j THEN 1 ELSE 0)
                                         + (IF thr'[w].work = j THEN 1 ELSE 0)) => JobState(j)',
           NoKill /\ (pending' # <<>> \/ pendingFb' # <<>>) =>
             \/ thr'[w].pc \in PoolPC \ {"exit"}
             \/ thr[w].pc \notin PoolPC \ {"exit"} /\ (pending # <<>> \/ pendingFb # <<>>)
    PROVE  PoolInv'
<1>1. JobInv'
  BY OneThread DEF JobInv
<1>2. ThreadInv'
  <2>1. \A v \in Threads : thr[v].work # NoJob => thr[v].work \in Jobs
    BY Parts DEF Thread
  <2>2. ASSUME NEW v \in Threads, v # w, thr[v].work # NoJob PROVE thr[v].work # thr[w].work
    <3>1. PICK j \in Jobs : j = thr[v].work
      BY <2>1, <2>2
    <3>2. /\ JobState(j) /\ Listed(j) \in Nat /\ ListedFb(j) \in Nat /\ Kept(j) \in 0..1
          /\ Held(j) \in Nat /\ Told(j) \in Nat
      BY JobFacts
    <3>3. Held(j) <= 1
      BY <3>2 DEF JobState, JobOK
    <3> QED
      BY <2>2, <3>1, <3>3, HeldBy
  <2>3. ASSUME NEW v \in Threads, v # w, thr[v].work # NoJob
        PROVE  /\ job'[thr[v].work].kind = job[thr[v].work].kind
               /\ hist'[thr[v].work].completed = hist[thr[v].work].completed
               /\ job[thr[v].work].cancel => job'[thr[v].work].cancel
    BY <2>1, <2>2, <2>3
  <2>4. ThreadInv
    BY Parts
  <2> QED
    BY <2>3, <2>4, OtherThreads
<1>3. CountExact' /\ count' \in Nat /\ countNQ' \in Int
  <2>1. /\ CountExact /\ count \in Nat /\ countNQ \in Int
        /\ countNQ' = countNQ - (IF thr[w].pc \in DirectWork THEN 1 ELSE 0)
                              + (IF thr'[w].pc \in DirectWork THEN 1 ELSE 0)
                              + (IF main.op = "dcount" THEN 1 ELSE 0)
                              - (IF main'.op = "dcount" THEN 1 ELSE 0)
    BY Parts
  <2> QED
    BY <2>1, CountMoves
<1>4. TypeOK'
  BY <1>3, Parts DEF TypeOK, MainType
<1>5. MainInv' /\ WaiterOnStack'
  BY Parts DEF MainInv, WaiterOnStack
<1>6. ShutInv'
  <2>1. main.op \notin {"final", "down"} /\ main' = main /\ outer' = outer
    BY Parts DEF ShutInv
  <2>2. ASSUME NoKill, main.op \in Ending, pending' # <<>> \/ pendingFb' # <<>>
        PROVE  \E v \in Threads : WillLook(v)'
    <3>1. CASE thr'[w].pc \in PoolPC \ {"exit"}
      BY <3>1 DEF WillLook
    <3>2. CASE thr[w].pc \notin PoolPC \ {"exit"} /\ (pending # <<>> \/ pendingFb # <<>>)
      <4>1. PICK v \in Threads : WillLook(v)
        BY <2>2, <3>2, Parts DEF ShutInv
      <4>2. v # w
        BY <3>2, <4>1 DEF WillLook
      <4> QED
        BY <4>1, <4>2 DEF WillLook
    <3> QED
      BY <2>2, <3>1, <3>2
  <2> QED
    BY <2>1, <2>2, Parts DEF ShutInv
<1> QED
  BY <1>1, <1>2, <1>3, <1>4, <1>5, <1>6 DEF PoolInv

\* The job a thread has is nowhere else, and is not released (or it is stale).
LEMMA OwnJob ==
    ASSUME PoolInv, NEW w \in Threads, thr[w].pc \in PoolWork \cup DirectWork
    PROVE  \E i \in Jobs :
             /\ i = thr[w].work
             /\ Listed(i) = 0 /\ ListedFb(i) = 0 /\ Kept(i) = 0 /\ Held(i) = 1 /\ Told(i) = 0
             /\ ~job[i].kill /\ hist[i].ends = 0 /\ job[i].kind # "none"
             /\ job[i].live \/ hist[i].stale
             /\ thr[w].pc \in PoolWork => job[i].kind \in {"short", "feedback"}
             /\ thr[w].pc \in DirectWork => job[i].kind = "direct"
             /\ NoKill /\ thr[w].pc \in {"clean", "post", "dclean"} =>
                  hist[i].completed \/ job[i].cancel
<1>0. ThreadOK(w)
  BY Parts DEF ThreadInv
<1>1. thr[w].work # NoJob
  BY <1>0 DEF ThreadOK
<1>2. PICK i \in Jobs : i = thr[w].work
  BY <1>1, Parts DEF Thread
<1>3. /\ JobState(i) /\ Listed(i) \in Nat /\ ListedFb(i) \in Nat /\ Kept(i) \in 0..1
      /\ Held(i) \in Nat /\ Told(i) \in Nat /\ hist[i].ends \in Nat
  BY JobFacts
<1>4. Held(i) # 0
  BY <1>2, HeldBy
<1>5. Listed(i) = 0 /\ ListedFb(i) = 0 /\ Kept(i) = 0 /\ Held(i) = 1 /\ Told(i) = 0
  BY <1>3, <1>4 DEF JobState, JobOK
<1>6. ~job[i].kill /\ hist[i].ends = 0 /\ job[i].kind # "none"
  BY <1>3, <1>5 DEF JobState, JobOK
<1>7. job[i].live \/ hist[i].stale
  BY <1>3, <1>5, <1>6 DEF JobState, JobOK
<1>8. /\ thr[w].pc \in PoolWork => job[i].kind \in {"short", "feedback"}
      /\ thr[w].pc \in DirectWork => job[i].kind = "direct"
      /\ NoKill /\ thr[w].pc \in {"clean", "post", "dclean"} =>
                  hist[i].completed \/ job[i].cancel
  BY <1>0, <1>2 DEF ThreadOK
<1> QED
  BY <1>2, <1>5, <1>6, <1>7, <1>8

\* A thread goes on with the job it has, or with none.
LEMMA GotoFacts ==
    ASSUME PoolInv, NEW w \in Threads, NEW p \in PC, Goto(w, p)
    PROVE  /\ thr' \in [Threads -> Thread] /\ \A v \in Threads : v # w => thr'[v] = thr[v]
           /\ thr'[w].pc = p /\ thr'[w].work = thr[w].work /\ thr'[w].dying = thr[w].dying
<1> DEFINE r == [thr[w] EXCEPT !.pc = p]
<1>1. r \in Thread /\ r.pc = p /\ r.work = thr[w].work /\ r.dying = thr[w].dying
  BY Parts DEF Thread
<1>2. thr' = [thr EXCEPT ![w] = r]
  BY DEF Goto
<1> HIDE DEF r
<1> QED
  BY <1>1, <1>2, Parts

\* It takes a job or gives it away.
LEMMA HandFacts ==
    ASSUME PoolInv, NEW w \in Threads, NEW p \in PC, NEW x \in Jobs \cup {NoJob},
           thr' = [thr EXCEPT ![w].pc = p, ![w].work = x]
    PROVE  /\ thr' \in [Threads -> Thread] /\ \A v \in Threads : v # w => thr'[v] = thr[v]
           /\ thr'[w].pc = p /\ thr'[w].work = x /\ thr'[w].dying = thr[w].dying
<1> DEFINE r == [thr[w] EXCEPT !.pc = p, !.work = x]
<1>1. r \in Thread /\ r.pc = p /\ r.work = x /\ r.dying = thr[w].dying
  BY Parts DEF Thread
<1>2. thr' = [thr EXCEPT ![w] = r]
  OBVIOUS
<1> HIDE DEF r
<1> QED
  BY <1>1, <1>2, Parts

\* A thread only changes its place in the worker's loop.
LEMMA QuietKeeps ==
    ASSUME PoolInv, NEW w \in Threads, NEW p \in PoolPC, Goto(w, p), thr[w].pc \in PoolPC,
           UNCHANGED <<job, hist, pending, pendingFb, count, countNQ, max, orders, outer, inner,
                       main, fails>>,
           running' \subseteq Jobs, RunningInv',
           thr[w].pc \in PoolWork <=> p \in PoolWork,
           p \in {"clean", "post"} => thr[w].pc = "clean",
           p = "exit" => pending = <<>> /\ pendingFb = <<>>
    PROVE  PoolInv'
<1>1. /\ thr' \in [Threads -> Thread] /\ \A v \in Threads : v # w => thr'[v] = thr[v]
      /\ thr'[w].pc = p /\ thr'[w].work = thr[w].work /\ thr'[w].dying = thr[w].dying
  BY GotoFacts DEF PC
<1>2. /\ thr[w].pc \notin DirectWork /\ p \notin DirectWork /\ p # "gone"
      /\ thr[w].pc \notin {"none", "gone"}
  BY DEF PoolPC, DirectWork
<1>3. ThreadOK(w)'
  <2>1. ThreadOK(w)
    BY Parts DEF ThreadInv
  <2> QED
    BY <1>1, <1>2, <2>1 DEF ThreadOK, Posted, DirectWork
<1>4. ASSUME NEW j \in Jobs, Held(j)' = Held(j) - (IF thr[w].work = j THEN 1 ELSE 0)
                                           + (IF thr'[w].work = j THEN 1 ELSE 0)
      PROVE  JobState(j)'
  <2>1. Held(j) \in Nat
    BY HeldBy
  <2>2. Same(j)
    BY <1>1, <1>4, <2>1 DEF Same, Listed, ListedFb, Kept, Told, Noted, Posted
  <2> QED
    BY <2>2, JobFacts, SameKeeps
<1>5. /\ count' = count - (IF thr[w].pc \in PoolPC THEN 1 ELSE 0)
                        + (IF thr'[w].pc \in PoolPC THEN 1 ELSE 0)
      /\ countNQ' = countNQ - (IF thr[w].pc \in DirectWork THEN 1 ELSE 0)
                            + (IF thr'[w].pc \in DirectWork THEN 1 ELSE 0)
  BY <1>1, <1>2, Parts
<1>6. /\ job' \in [Jobs -> Job] /\ hist' \in [Jobs -> Hist]
      /\ pending' \in Seq(Jobs) /\ pendingFb' \in Seq(Jobs) /\ orders' \in Seq(Order)
  BY Parts
<1>7. \A v \in Threads : Posted(<<"join", v>>)' = Posted(<<"join", v>>)
  BY DEF Posted
<1>8. (pending' # <<>> \/ pendingFb' # <<>>) => thr'[w].pc \in PoolPC \ {"exit"}
  BY <1>1
<1> QED
  BY <1>1, <1>2, <1>3, <1>4, <1>5, <1>6, <1>7, <1>8, ThreadKeeps

\* The steps of _core_thread_worker that move no job.
LEMMA QuietSteps ==
    ASSUME PoolInv, NEW w \in Threads,
           \/ PopShort(w) /\ pending = <<>>
           \/ PopFeedback(w) /\ pendingFb = <<>>
           \/ AddRunning(w) \/ LeaveRunning(w) \/ CheckPending(w)
    PROVE  PoolInv'
<1>0. /\ UNCHANGED <<job, hist, pending, pendingFb, count, countNQ, max, orders, outer, inner,
                     main, fails>>
  BY DEF PopShort, PopFeedback, AddRunning, LeaveRunning, CheckPending
<1>1. CASE \/ PopShort(w) /\ pending = <<>>
           \/ PopFeedback(w) /\ pendingFb = <<>>
           \/ CheckPending(w)
  <2>1. PICK p \in {"popFb", "check1", "check2", "popShort", "exit"} :
          /\ Goto(w, p) /\ running' = running /\ thr[w].pc \in {"popShort", "popFb", "check1", "check2"}
          /\ p = "exit" => pending = <<>> /\ pendingFb = <<>>
    <3>1. CASE PopShort(w) /\ pending = <<>>
      BY <3>1 DEF PopShort
    <3>2. CASE PopFeedback(w) /\ pendingFb = <<>>
      BY <3>2 DEF PopFeedback
    <3>3. CASE CheckPending(w)
      <4>1. CASE pending # <<>> \/ pendingFb # <<>>
        BY <3>3, <4>1 DEF CheckPending
      <4>2. CASE ~(pending # <<>> \/ pendingFb # <<>>) /\ thr[w].pc = "check1"
        BY <3>3, <4>2 DEF CheckPending
      <4>3. CASE ~(pending # <<>> \/ pendingFb # <<>>) /\ thr[w].pc # "check1"
        BY <3>3, <4>3 DEF CheckPending
      <4> QED
        BY <4>1, <4>2, <4>3
    <3> QED
      BY <1>1, <3>1, <3>2, <3>3
  <2>2. p \in PoolPC /\ thr[w].pc \in PoolPC /\ thr[w].pc \notin PoolWork /\ p \notin PoolWork
        /\ p \notin {"clean", "post"}
    BY <2>1 DEF PoolPC, PoolWork
  <2>3. \A v \in Threads : v # w => thr'[v] = thr[v]
    BY <2>1, <2>2, GotoFacts DEF PC
  <2>4. RunningInv' /\ running' \subseteq Jobs
    BY <2>1, <2>3, Parts, RunningKept
  <2> QED
    BY <1>0, <2>1, <2>2, <2>4, QuietKeeps
<1>2. CASE AddRunning(w)
  <2>1. thr[w].pc = "add" /\ running' = running \cup {thr[w].work} /\ Goto(w, "read")
    BY <1>2 DEF AddRunning
  <2>2. /\ "read" \in PoolPC /\ thr[w].pc \in PoolPC /\ thr[w].pc \in PoolWork /\ "read" \in PoolWork
        /\ "read" \notin {"clean", "post", "exit"}
    BY <2>1 DEF PoolPC, PoolWork
  <2>3. /\ \A v \in Threads : v # w => thr'[v] = thr[v]
        /\ thr'[w].pc = "read" /\ thr'[w].work = thr[w].work
    BY <2>1, <2>2, GotoFacts DEF PC
  <2>4. running' \subseteq Jobs
    BY <2>1, <2>2, Parts, OwnJob
  <2>5. RunningInv'
    <3>1. ASSUME NEW j \in running'
          PROVE  \E v \in Threads : thr'[v].work = j /\ thr'[v].pc \in {"read", "run", "clean"}
      <4>1. CASE j = thr[w].work
        BY <2>3, <4>1
      <4>2. CASE j # thr[w].work
        <5>1. PICK v \in Threads : thr[v].work = j /\ thr[v].pc \in {"read", "run", "clean"}
          BY <2>1, <4>2, Parts DEF RunningInv
        <5> QED
          BY <2>3, <4>2, <5>1
      <4> QED
        BY <4>1, <4>2
    <3> QED
      BY <3>1 DEF RunningInv
  <2> QED
    BY <1>0, <2>1, <2>2, <2>4, <2>5, QuietKeeps
<1>3. CASE LeaveRunning(w)
  <2>1. thr[w].pc = "clean" /\ running' = running \ {thr[w].work} /\ Goto(w, "post")
    BY <1>3 DEF LeaveRunning
  <2>2. /\ "post" \in PoolPC /\ thr[w].pc \in PoolPC /\ thr[w].pc \in PoolWork /\ "post" \in PoolWork
        /\ "post" # "exit"
    BY <2>1 DEF PoolPC, PoolWork
  <2>3. \A v \in Threads : v # w => thr'[v] = thr[v]
    BY <2>1, <2>2, GotoFacts DEF PC
  <2>4. running' \subseteq Jobs
    BY <2>1, Parts
  <2>5. RunningInv'
    <3>1. ASSUME NEW j \in running'
          PROVE  \E v \in Threads : thr'[v].work = j /\ thr'[v].pc \in {"read", "run", "clean"}
      <4>1. PICK v \in Threads : thr[v].work = j /\ thr[v].pc \in {"read", "run", "clean"}
        BY <2>1, Parts DEF RunningInv
      <4>2. v # w
        BY <2>1, <4>1
      <4> QED
        BY <2>3, <4>1, <4>2
    <3> QED
      BY <3>1 DEF RunningInv
  <2> QED
    BY <1>0, <2>1, <2>2, <2>4, <2>5, QuietKeeps
<1> QED
  BY <1>1, <1>2, <1>3

\* A thread that stays in the pool, or outside, stays counted.
LEMMA StillCounted ==
    ASSUME PoolInv, NEW w \in Threads, count' = count, countNQ' = countNQ,
           thr[w].pc \in PoolPC <=> thr'[w].pc \in PoolPC,
           thr[w].pc \in DirectWork <=> thr'[w].pc \in DirectWork
    PROVE  /\ count' = count - (IF thr[w].pc \in PoolPC THEN 1 ELSE 0)
                            + (IF thr'[w].pc \in PoolPC THEN 1 ELSE 0)
           /\ countNQ' = countNQ - (IF thr[w].pc \in DirectWork THEN 1 ELSE 0)
                                + (IF thr'[w].pc \in DirectWork THEN 1 ELSE 0)
<1>1. count \in Nat /\ countNQ \in Int
  BY Parts
<1> QED
  BY <1>1

\* A thread takes the first job of the short list.
LEMMA PopShortStep == ASSUME PoolInv, NEW w \in Threads, PopShort(w), pending # <<>> PROVE PoolInv'
<1>1. /\ thr[w].pc = "popShort" /\ pending' = Tail(pending)
      /\ UNCHANGED <<job, hist, pendingFb, running, count, countNQ, max, orders, outer, inner, main, fails>>
  BY DEF PopShort
<1>2. PICK i \in Jobs : i = Head(pending)
  BY Parts, OccTail
<1>3. thr' = [thr EXCEPT ![w].pc = "add", ![w].work = i]
  BY <1>2 DEF PopShort
<1>4. /\ thr' \in [Threads -> Thread] /\ \A v \in Threads : v # w => thr'[v] = thr[v]
      /\ thr'[w].pc = "add" /\ thr'[w].work = i /\ thr'[w].dying = thr[w].dying
  <2>1. "add" \in PC
    BY DEF PC, PoolPC
  <2> QED
    BY <1>3, <2>1, HandFacts
<1>5. ThreadOK(w) /\ thr[w].work = NoJob
  BY <1>1, Parts DEF ThreadInv, ThreadOK, PoolWork, DirectWork
<1>6. /\ pending' \in Seq(Jobs)
      /\ \A j \in Jobs : Listed(j)' \in Nat /\ Listed(j) = Listed(j)' + (IF i = j THEN 1 ELSE 0)
  <2>1. pending' \in Seq(Jobs)
    BY <1>1, Parts, OccTail
  <2>2. ASSUME NEW j \in Jobs
        PROVE  Listed(j)' \in Nat /\ Listed(j) = Listed(j)' + (IF i = j THEN 1 ELSE 0)
    <3>1. Occ(pending, j) = Occ(pending', j) + (IF i = j THEN 1 ELSE 0)
      BY <1>1, <1>2, Parts, OccTail
    <3>2. Occ(pending', j) \in Nat
      BY <2>1, OccType
    <3> QED
      BY <3>1, <3>2 DEF Listed
  <2> QED
    BY <2>1, <2>2
<1>7. /\ JobState(i) /\ Listed(i) \in Nat /\ ListedFb(i) \in Nat /\ Kept(i) \in 0..1
      /\ Held(i) \in Nat /\ Told(i) \in Nat /\ Listed(i)' \in Nat /\ Listed(i) = Listed(i)' + 1
  BY <1>6, JobFacts
<1>8. job[i].kind = "short" /\ Listed(i) = 1 /\ Listed(i)' = 0 /\ ListedFb(i) = 0 /\ Kept(i) = 0
      /\ Held(i) = 0 /\ Told(i) = 0
  BY <1>7 DEF JobState, JobOK
<1>9. \A j \in Jobs : /\ ListedFb(j)' = ListedFb(j) /\ Kept(j)' = Kept(j) /\ Told(j)' = Told(j)
                      /\ Noted(j)' = Noted(j) /\ ((main.cbk = j)' <=> main.cbk = j)
                      /\ job'[j] = job[j] /\ hist'[j] = hist[j]
  BY <1>1 DEF ListedFb, Kept, Told, Noted, Posted
<1>10. ASSUME NEW j \in Jobs, Held(j)' = Held(j) - (IF thr[w].work = j THEN 1 ELSE 0)
                                            + (IF thr'[w].work = j THEN 1 ELSE 0)
       PROVE  JobState(j)'
  <2>1. Held(j) \in Nat /\ thr[w].work # j
    BY <1>5, HeldBy, NoneAssumption
  <2>2. Held(j)' = Held(j) + (IF i = j THEN 1 ELSE 0)
    BY <1>4, <1>10, <2>1
  <2>3. CASE j # i
    <3>1. Same(j)
      BY <1>1, <1>6, <1>9, <2>1, <2>2, <2>3 DEF Same
    <3> QED
      BY <3>1, JobFacts, SameKeeps
  <2>4. CASE j = i
    <3>1. Held(i)' = 1 /\ Listed(i)' = 0 /\ ListedFb(i)' = 0 /\ Kept(i)' = 0 /\ Told(i)' = 0
      BY <1>8, <1>9, <2>2, <2>4
    <3> QED
      BY <1>7, <1>8, <1>9, <2>4, <3>1 DEF JobState, JobOK
  <2> QED
    BY <2>3, <2>4
<1>11. ThreadOK(w)'
  BY <1>1, <1>4, <1>5, <1>8, <1>9, NoneAssumption DEF ThreadOK, PoolWork, DirectWork, Posted
<1>12. RunningInv' /\ running' \subseteq Jobs
  BY <1>1, <1>4, Parts, RunningKept
<1>13. /\ thr[w].pc \in PoolPC /\ thr'[w].pc \in PoolPC \ {"exit"} /\ thr[w].pc \notin {"none", "gone"}
       /\ thr[w].pc \notin DirectWork /\ thr'[w].pc \notin DirectWork
  BY <1>1, <1>4 DEF PoolPC, DirectWork
<1>14. /\ count' = count - (IF thr[w].pc \in PoolPC THEN 1 ELSE 0)
                         + (IF thr'[w].pc \in PoolPC THEN 1 ELSE 0)
       /\ countNQ' = countNQ - (IF thr[w].pc \in DirectWork THEN 1 ELSE 0)
                             + (IF thr'[w].pc \in DirectWork THEN 1 ELSE 0)
  BY <1>1, <1>13, StillCounted
<1>15. /\ job' \in [Jobs -> Job] /\ hist' \in [Jobs -> Hist]
       /\ pendingFb' \in Seq(Jobs) /\ orders' \in Seq(Order)
       /\ \A v \in Threads : Posted(<<"join", v>>)' = Posted(<<"join", v>>)
  BY <1>1, Parts DEF Posted
<1> QED
  BY <1>1, <1>4, <1>6, <1>9, <1>10, <1>11, <1>12, <1>13, <1>14, <1>15, ThreadKeeps

\* A thread takes the first job of the feedback list.
LEMMA PopFeedbackStep == ASSUME PoolInv, NEW w \in Threads, PopFeedback(w), pendingFb # <<>> PROVE PoolInv'
<1>1. /\ thr[w].pc = "popFb" /\ pendingFb' = Tail(pendingFb)
      /\ UNCHANGED <<job, hist, pending, running, count, countNQ, max, orders, outer, inner, main, fails>>
  BY DEF PopFeedback
<1>2. PICK i \in Jobs : i = Head(pendingFb)
  BY Parts, OccTail
<1>3. thr' = [thr EXCEPT ![w].pc = "add", ![w].work = i]
  BY <1>2 DEF PopFeedback
<1>4. /\ thr' \in [Threads -> Thread] /\ \A v \in Threads : v # w => thr'[v] = thr[v]
      /\ thr'[w].pc = "add" /\ thr'[w].work = i /\ thr'[w].dying = thr[w].dying
  <2>1. "add" \in PC
    BY DEF PC, PoolPC
  <2> QED
    BY <1>3, <2>1, HandFacts
<1>5. ThreadOK(w) /\ thr[w].work = NoJob
  BY <1>1, Parts DEF ThreadInv, ThreadOK, PoolWork, DirectWork
<1>6. /\ pendingFb' \in Seq(Jobs)
      /\ \A j \in Jobs : ListedFb(j)' \in Nat /\ ListedFb(j) = ListedFb(j)' + (IF i = j THEN 1 ELSE 0)
  <2>1. pendingFb' \in Seq(Jobs)
    BY <1>1, Parts, OccTail
  <2>2. ASSUME NEW j \in Jobs
        PROVE  ListedFb(j)' \in Nat /\ ListedFb(j) = ListedFb(j)' + (IF i = j THEN 1 ELSE 0)
    <3>1. Occ(pendingFb, j) = Occ(pendingFb', j) + (IF i = j THEN 1 ELSE 0)
      BY <1>1, <1>2, Parts, OccTail
    <3>2. Occ(pendingFb', j) \in Nat
      BY <2>1, OccType
    <3> QED
      BY <3>1, <3>2 DEF ListedFb
  <2> QED
    BY <2>1, <2>2
<1>7. /\ JobState(i) /\ Listed(i) \in Nat /\ ListedFb(i) \in Nat /\ Kept(i) \in 0..1
      /\ Held(i) \in Nat /\ Told(i) \in Nat /\ ListedFb(i)' \in Nat /\ ListedFb(i) = ListedFb(i)' + 1
  BY <1>6, JobFacts
<1>8. job[i].kind = "feedback" /\ ListedFb(i) = 1 /\ ListedFb(i)' = 0 /\ Listed(i) = 0 /\ Kept(i) = 0
      /\ Held(i) = 0 /\ Told(i) = 0
  BY <1>7 DEF JobState, JobOK
<1>9. \A j \in Jobs : /\ Listed(j)' = Listed(j) /\ Kept(j)' = Kept(j) /\ Told(j)' = Told(j)
                      /\ Noted(j)' = Noted(j) /\ ((main.cbk = j)' <=> main.cbk = j)
                      /\ job'[j] = job[j] /\ hist'[j] = hist[j]
  BY <1>1 DEF Listed, Kept, Told, Noted, Posted
<1>10. ASSUME NEW j \in Jobs, Held(j)' = Held(j) - (IF thr[w].work = j THEN 1 ELSE 0)
                                            + (IF thr'[w].work = j THEN 1 ELSE 0)
       PROVE  JobState(j)'
  <2>1. Held(j) \in Nat /\ thr[w].work # j
    BY <1>5, HeldBy, NoneAssumption
  <2>2. Held(j)' = Held(j) + (IF i = j THEN 1 ELSE 0)
    BY <1>4, <1>10, <2>1
  <2>3. CASE j # i
    <3>1. Same(j)
      BY <1>1, <1>6, <1>9, <2>1, <2>2, <2>3 DEF Same
    <3> QED
      BY <3>1, JobFacts, SameKeeps
  <2>4. CASE j = i
    <3>1. Held(i)' = 1 /\ ListedFb(i)' = 0 /\ Listed(i)' = 0 /\ Kept(i)' = 0 /\ Told(i)' = 0
      BY <1>8, <1>9, <2>2, <2>4
    <3> QED
      BY <1>7, <1>8, <1>9, <2>4, <3>1 DEF JobState, JobOK
  <2> QED
    BY <2>3, <2>4
<1>11. ThreadOK(w)'
  BY <1>1, <1>4, <1>5, <1>8, <1>9, NoneAssumption DEF ThreadOK, PoolWork, DirectWork, Posted
<1>12. RunningInv' /\ running' \subseteq Jobs
  BY <1>1, <1>4, Parts, RunningKept
<1>13. /\ thr[w].pc \in PoolPC /\ thr'[w].pc \in PoolPC \ {"exit"} /\ thr[w].pc \notin {"none", "gone"}
       /\ thr[w].pc \notin DirectWork /\ thr'[w].pc \notin DirectWork
  BY <1>1, <1>4 DEF PoolPC, DirectWork
<1>14. /\ count' = count - (IF thr[w].pc \in PoolPC THEN 1 ELSE 0)
                         + (IF thr'[w].pc \in PoolPC THEN 1 ELSE 0)
       /\ countNQ' = countNQ - (IF thr[w].pc \in DirectWork THEN 1 ELSE 0)
                             + (IF thr'[w].pc \in DirectWork THEN 1 ELSE 0)
  BY <1>1, <1>13, StillCounted
<1>15. /\ job' \in [Jobs -> Job] /\ hist' \in [Jobs -> Hist]
       /\ pending' \in Seq(Jobs) /\ orders' \in Seq(Order)
       /\ \A v \in Threads : Posted(<<"join", v>>)' = Posted(<<"join", v>>)
  BY <1>1, Parts DEF Posted
<1> QED
  BY <1>1, <1>4, <1>6, <1>9, <1>10, <1>11, <1>12, <1>13, <1>14, <1>15, ThreadKeeps

\* A thread goes on with its job and changes what is known of it.
LEMMA OwnKeeps ==
    ASSUME PoolInv, NEW w \in Threads, NEW i \in Jobs, i = thr[w].work,
           thr[w].pc \in PoolWork \cup DirectWork,
           UNCHANGED <<pending, pendingFb, running, count, countNQ, max, orders, outer, inner,
                       main, fails>>,
           thr' \in [Threads -> Thread], \A v \in Threads : v # w => thr'[v] = thr[v],
           thr'[w].work = i,
           thr[w].pc \in PoolWork => thr'[w].pc \in PoolWork,
           thr[w].pc \in DirectWork => thr'[w].pc \in DirectWork,
           thr[w].pc \in {"read", "run", "clean"} => thr'[w].pc \in {"read", "run", "clean"},
           NoKill => thr'[w].dying = thr[w].dying,
           job' \in [Jobs -> Job], hist' \in [Jobs -> Hist],
           \A j \in Jobs : j # i => job'[j] = job[j] /\ hist'[j] = hist[j],
           job'[i].kind = job[i].kind, job'[i].live = job[i].live, job'[i].cancel = job[i].cancel,
           job'[i].kill = job[i].kill, job'[i].send = job[i].send,
           job'[i].received = job[i].received, job'[i].waiter = job[i].waiter,
           job'[i].resched => job[i].kind \in ReschedKinds,
           hist'[i].ends = hist[i].ends, hist'[i].cancels = hist[i].cancels,
           hist'[i].stale = hist[i].stale,
           NoKill /\ thr'[w].pc \in {"clean", "post", "dclean"} =>
             hist'[i].completed \/ job[i].cancel
    PROVE  PoolInv'
<1>1. \E k \in Jobs :
             /\ k = thr[w].work
             /\ Listed(k) = 0 /\ ListedFb(k) = 0 /\ Kept(k) = 0 /\ Held(k) = 1 /\ Told(k) = 0
             /\ ~job[k].kill /\ hist[k].ends = 0 /\ job[k].kind # "none"
             /\ job[k].live \/ hist[k].stale
             /\ thr[w].pc \in PoolWork => job[k].kind \in {"short", "feedback"}
             /\ thr[w].pc \in DirectWork => job[k].kind = "direct"
  BY OwnJob
<1>2. /\ Listed(i) = 0 /\ ListedFb(i) = 0 /\ Kept(i) = 0 /\ Held(i) = 1 /\ Told(i) = 0
      /\ ~job[i].kill /\ hist[i].ends = 0 /\ job[i].kind # "none"
      /\ job[i].live \/ hist[i].stale
      /\ thr[w].pc \in PoolWork => job[i].kind \in {"short", "feedback"}
      /\ thr[w].pc \in DirectWork => job[i].kind = "direct"
  BY <1>1
<1>3. \A j \in Jobs : /\ Listed(j)' = Listed(j) /\ ListedFb(j)' = ListedFb(j) /\ Kept(j)' = Kept(j)
                      /\ Told(j)' = Told(j) /\ Noted(j)' = Noted(j)
                      /\ ((main.cbk = j)' <=> main.cbk = j)
  BY DEF Listed, ListedFb, Kept, Told, Noted, Posted
<1>4. ASSUME NEW j \in Jobs, Held(j)' = Held(j) - (IF thr[w].work = j THEN 1 ELSE 0)
                                            + (IF thr'[w].work = j THEN 1 ELSE 0)
      PROVE  JobState(j)'
  <2>1. Held(j) \in Nat
    BY HeldBy
  <2>2. Held(j)' = Held(j)
    BY <1>4, <2>1
  <2>3. CASE j # i
    <3>1. Same(j)
      BY <1>3, <2>2, <2>3 DEF Same
    <3> QED
      BY <3>1, JobFacts, SameKeeps
  <2>4. CASE j = i
    <3>1. JobState(i)
      BY JobFacts
    <3>2. CASE main.cbk = i
      <4>1. (main.cbk = i)'
        BY <1>3, <3>2
      <4> QED
        BY <1>2, <1>3, <2>2, <2>4, <3>1, <3>2, <4>1 DEF JobState, JobOK
    <3>3. CASE main.cbk # i
      <4>1. ~(main.cbk = i)'
        BY <1>3, <3>3
      <4> QED
        BY <1>2, <1>3, <2>2, <2>4, <3>1, <3>3, <4>1 DEF JobState, JobOK
    <3> QED
      BY <3>2, <3>3
  <2> QED
    BY <2>3, <2>4
<1>5. ThreadOK(w)'
  <2>1. ThreadOK(w)
    BY Parts DEF ThreadInv
  <2>2. /\ thr'[w].pc \in PoolWork \cup DirectWork /\ i # NoJob
        /\ thr[w].pc # "gone" /\ thr'[w].pc # "gone"
        /\ thr'[w].pc \in PoolWork => job'[i].kind \in {"short", "feedback"}
        /\ thr'[w].pc \in DirectWork => job'[i].kind = "direct"
    BY <1>2, NoneAssumption DEF PoolWork, DirectWork
  <2> QED
    BY <2>1, <2>2 DEF ThreadOK, Posted
<1>6. RunningInv' /\ running' \subseteq Jobs
  BY Parts, RunningKept
<1>7. /\ thr[w].pc \notin {"none", "gone"}
      /\ thr[w].pc \in PoolPC <=> thr'[w].pc \in PoolPC
      /\ thr[w].pc \in DirectWork <=> thr'[w].pc \in DirectWork
      /\ thr[w].pc \notin PoolPC \/ thr'[w].pc \in PoolPC \ {"exit"}
  BY DEF PoolPC, PoolWork, DirectWork
<1>8. /\ count' = count - (IF thr[w].pc \in PoolPC THEN 1 ELSE 0)
                         + (IF thr'[w].pc \in PoolPC THEN 1 ELSE 0)
      /\ countNQ' = countNQ - (IF thr[w].pc \in DirectWork THEN 1 ELSE 0)
                             + (IF thr'[w].pc \in DirectWork THEN 1 ELSE 0)
  BY <1>7, StillCounted
<1>9. /\ pending' \in Seq(Jobs) /\ pendingFb' \in Seq(Jobs) /\ orders' \in Seq(Order)
      /\ \A v \in Threads : Posted(<<"join", v>>)' = Posted(<<"join", v>>)
  BY Parts DEF Posted
<1>10. \A j \in Jobs : /\ job'[j].kind = job[j].kind /\ job'[j].cancel = job[j].cancel
                       /\ hist'[j].stale = hist[j].stale /\ job'[j].waiter = job[j].waiter
  OBVIOUS
<1> QED
  BY <1>4, <1>5, <1>6, <1>7, <1>8, <1>9, <1>10, ThreadKeeps

\* The job starts, is skipped, returns, is killed or asks to be run again.
LEMMA OwnSteps ==
    ASSUME PoolInv, NEW w \in Threads,
           \/ ReadCancel(w) \/ DirectStart(w) \/ FunctionReturn(w) \/ FunctionKilled(w)
           \/ core_thread_reschedule(w)
    PROVE  PoolInv'
<1>0. thr[w].pc \in {"read", "dstart", "run", "drun"}
  BY DEF ReadCancel, DirectStart, FunctionReturn, FunctionKilled, core_thread_reschedule, InFunction
<1>1. PICK i \in Jobs : i = thr[w].work
  <2>1. thr[w].pc \in PoolWork \cup DirectWork
    BY <1>0 DEF PoolWork, DirectWork
  <2> QED
    BY <2>1, OwnJob
<1>2. /\ thr[w].pc \in PoolWork \cup DirectWork
      /\ thr[w].pc \in {"read", "run"} => thr[w].pc \notin DirectWork /\ thr[w].pc \in PoolWork
      /\ thr[w].pc \in {"dstart", "drun"} => thr[w].pc \notin PoolWork /\ thr[w].pc \in DirectWork
      /\ "run" \in PoolWork /\ "clean" \in PoolWork /\ "drun" \in DirectWork /\ "dclean" \in DirectWork
      /\ "run" \in PC /\ "clean" \in PC /\ "drun" \in PC /\ "dclean" \in PC
  BY <1>0 DEF PoolWork, DirectWork, PC, PoolPC
<1>3. UNCHANGED <<pending, pendingFb, running, count, countNQ, max, orders, outer, inner, main, fails>>
  BY DEF ReadCancel, DirectStart, FunctionReturn, FunctionKilled, core_thread_reschedule
<1>4. job[i].resched => job[i].kind \in ReschedKinds
  BY JobFacts DEF JobState, JobOK
<1>5. CASE ReadCancel(w)
  <2>1. PICK p \in {"clean", "run"} : p = (IF job[i].cancel THEN "clean" ELSE "run")
    OBVIOUS
  <2>2. /\ thr[w].pc = "read" /\ job' = [job EXCEPT ![i].self = w]
        /\ hist' = [hist EXCEPT ![i].completed = FALSE] /\ Goto(w, p)
    BY <1>1, <1>5, <2>1 DEF ReadCancel
  <2>3. /\ thr' \in [Threads -> Thread] /\ \A v \in Threads : v # w => thr'[v] = thr[v]
        /\ thr'[w].pc = p /\ thr'[w].work = thr[w].work /\ thr'[w].dying = thr[w].dying
    BY <1>2, <2>2, GotoFacts
  <2>4. /\ job' \in [Jobs -> Job] /\ \A j \in Jobs : j # i => job'[j] = job[j]
        /\ job'[i].kind = job[i].kind /\ job'[i].live = job[i].live /\ job'[i].cancel = job[i].cancel
        /\ job'[i].kill = job[i].kill /\ job'[i].send = job[i].send
        /\ job'[i].received = job[i].received /\ job'[i].waiter = job[i].waiter
        /\ job'[i].resched = job[i].resched
    BY <2>2, Parts DEF Job
  <2>5. /\ hist' \in [Jobs -> Hist] /\ \A j \in Jobs : j # i => hist'[j] = hist[j]
        /\ hist'[i].ends = hist[i].ends /\ hist'[i].cancels = hist[i].cancels
        /\ hist'[i].stale = hist[i].stale
    BY <2>2, Parts DEF Hist
  <2>6. /\ p = "clean" => job[i].cancel
        /\ p \in PoolWork /\ p \in {"read", "run", "clean"} /\ p \notin {"post", "dclean"}
    BY <1>2, <2>1
  <2>7. /\ \A j \in Jobs : j # i => job'[j] = job[j] /\ hist'[j] = hist[j]
        /\ job'[i].resched => job[i].kind \in ReschedKinds
        /\ thr'[w].work = i /\ thr[w].pc \notin DirectWork
        /\ thr'[w].pc \in PoolWork /\ thr'[w].pc \in {"read", "run", "clean"}
        /\ NoKill /\ thr'[w].pc \in {"clean", "post", "dclean"} =>
             hist'[i].completed \/ job[i].cancel
    BY <1>1, <1>2, <1>4, <2>2, <2>3, <2>4, <2>5, <2>6
  <2> QED
    BY <1>1, <1>2, <1>3, <2>3, <2>4, <2>5, <2>7, OwnKeeps
<1>6. CASE DirectStart(w)
  <2>1. thr[w].pc = "dstart" /\ job' = [job EXCEPT ![i].self = w] /\ hist' = hist /\ Goto(w, "drun")
    BY <1>1, <1>6 DEF DirectStart
  <2>2. /\ thr' \in [Threads -> Thread] /\ \A v \in Threads : v # w => thr'[v] = thr[v]
        /\ thr'[w].pc = "drun" /\ thr'[w].work = thr[w].work /\ thr'[w].dying = thr[w].dying
    BY <1>2, <2>1, GotoFacts
  <2>3. /\ job' \in [Jobs -> Job] /\ \A j \in Jobs : j # i => job'[j] = job[j]
        /\ job'[i].kind = job[i].kind /\ job'[i].live = job[i].live /\ job'[i].cancel = job[i].cancel
        /\ job'[i].kill = job[i].kill /\ job'[i].send = job[i].send
        /\ job'[i].received = job[i].received /\ job'[i].waiter = job[i].waiter
        /\ job'[i].resched = job[i].resched
    BY <2>1, Parts DEF Job
  <2>4. hist' \in [Jobs -> Hist]
    BY <2>1, Parts
  <2> QED
    BY <1>1, <1>2, <1>3, <1>4, <2>1, <2>2, <2>3, <2>4, OwnKeeps
<1>7. CASE FunctionReturn(w)
  <2>1. PICK p \in {"clean", "dclean"} : p = CleanupPC(w)
    BY DEF CleanupPC
  <2>2. /\ thr[w].pc \in {"run", "drun"} /\ job' = job
        /\ hist' = [hist EXCEPT ![i].completed = TRUE] /\ Goto(w, p)
    BY <1>1, <1>7, <2>1 DEF FunctionReturn, InFunction
  <2>3. /\ thr' \in [Threads -> Thread] /\ \A v \in Threads : v # w => thr'[v] = thr[v]
        /\ thr'[w].pc = p /\ thr'[w].work = thr[w].work /\ thr'[w].dying = thr[w].dying
    BY <1>2, <2>2, GotoFacts
  <2>4. /\ hist' \in [Jobs -> Hist] /\ \A j \in Jobs : j # i => hist'[j] = hist[j]
        /\ hist'[i].ends = hist[i].ends /\ hist'[i].cancels = hist[i].cancels
        /\ hist'[i].stale = hist[i].stale /\ hist'[i].completed
    BY <2>2, Parts DEF Hist
  <2>5. /\ thr[w].pc = "run" => p = "clean"
        /\ thr[w].pc = "drun" => p = "dclean"
        /\ job' \in [Jobs -> Job]
    BY <2>1, <2>2, Parts DEF CleanupPC
  <2>6. /\ thr[w].pc \in PoolWork => thr'[w].pc \in PoolWork
        /\ thr[w].pc \in DirectWork => thr'[w].pc \in DirectWork
        /\ thr[w].pc \in {"read", "run", "clean"} => thr'[w].pc \in {"read", "run", "clean"}
    BY <1>2, <2>2, <2>3, <2>5
  <2>7. /\ \A j \in Jobs : j # i => job'[j] = job[j] /\ hist'[j] = hist[j]
        /\ job'[i] = job[i] /\ thr'[w].work = i
    BY <1>1, <2>2, <2>3, <2>4
  <2> QED
    BY <1>1, <1>2, <1>3, <1>4, <2>3, <2>4, <2>5, <2>6, <2>7, OwnKeeps
<1>8. CASE FunctionKilled(w)
  <2>1. PICK p \in {"clean", "dclean"} : p = CleanupPC(w)
    BY DEF CleanupPC
  <2>2. /\ thr[w].pc \in {"run", "drun"} /\ job' = job /\ hist' = hist /\ ~NoKill
        /\ thr' = [thr EXCEPT ![w].pc = p, ![w].dying = TRUE]
    BY <1>1, <1>8, <2>1 DEF FunctionKilled, InFunction, NoKill
  <2>3. /\ thr' \in [Threads -> Thread] /\ \A v \in Threads : v # w => thr'[v] = thr[v]
        /\ thr'[w].pc = p /\ thr'[w].work = thr[w].work
    <3> DEFINE r == [thr[w] EXCEPT !.pc = p, !.dying = TRUE]
    <3>1. r \in Thread /\ r.pc = p /\ r.work = thr[w].work
      BY <1>2, Parts DEF Thread
    <3>2. thr' = [thr EXCEPT ![w] = r]
      BY <2>2
    <3> HIDE DEF r
    <3> QED
      BY <3>1, <3>2, Parts
  <2>5. /\ thr[w].pc = "run" => p = "clean"
        /\ thr[w].pc = "drun" => p = "dclean"
        /\ job' \in [Jobs -> Job] /\ hist' \in [Jobs -> Hist]
    BY <2>1, <2>2, Parts DEF CleanupPC
  <2>6. /\ thr[w].pc \in PoolWork => thr'[w].pc \in PoolWork
        /\ thr[w].pc \in DirectWork => thr'[w].pc \in DirectWork
        /\ thr[w].pc \in {"read", "run", "clean"} => thr'[w].pc \in {"read", "run", "clean"}
    BY <1>2, <2>2, <2>3, <2>5
  <2> QED
    BY <1>1, <1>2, <1>3, <1>4, <2>2, <2>3, <2>5, <2>6, OwnKeeps
<1>9. CASE core_thread_reschedule(w)
  <2>1. /\ thr[w].pc \in {"run", "drun"} /\ job[i].kind \in ReschedKinds /\ thr' = thr
        /\ job' = [job EXCEPT ![i].resched = TRUE]
        /\ hist' = [hist EXCEPT ![i].resched = @ + 1]
    BY <1>1, <1>9 DEF core_thread_reschedule, InFunction
  <2>2. /\ job' \in [Jobs -> Job] /\ \A j \in Jobs : j # i => job'[j] = job[j]
        /\ job'[i].kind = job[i].kind /\ job'[i].live = job[i].live /\ job'[i].cancel = job[i].cancel
        /\ job'[i].kill = job[i].kill /\ job'[i].send = job[i].send
        /\ job'[i].received = job[i].received /\ job'[i].waiter = job[i].waiter
    BY <2>1, Parts DEF Job
  <2>3. /\ hist' \in [Jobs -> Hist] /\ \A j \in Jobs : j # i => hist'[j] = hist[j]
        /\ hist'[i].ends = hist[i].ends /\ hist'[i].cancels = hist[i].cancels
        /\ hist'[i].stale = hist[i].stale
    <3>1. PICK n \in Nat : n = hist[i].resched + 1
      BY Parts DEF Hist
    <3> DEFINE r == [hist[i] EXCEPT !.resched = n]
    <3>2. /\ r \in Hist /\ r.ends = hist[i].ends /\ r.cancels = hist[i].cancels
          /\ r.stale = hist[i].stale
      BY Parts DEF Hist
    <3>3. hist' = [hist EXCEPT ![i] = r]
      BY <2>1, <3>1
    <3> HIDE DEF r
    <3> QED
      BY <3>2, <3>3, Parts
  <2>4. thr' \in [Threads -> Thread] /\ \A v \in Threads : thr'[v] = thr[v]
    BY <2>1, Parts
  <2>5. /\ \A j \in Jobs : j # i => job'[j] = job[j] /\ hist'[j] = hist[j]
        /\ thr'[w].work = i /\ thr'[w].pc = thr[w].pc /\ thr'[w].dying = thr[w].dying
        /\ thr'[w].pc \notin {"clean", "post", "dclean"}
    BY <1>1, <2>1, <2>2, <2>3
  <2> QED
    BY <1>1, <1>2, <1>3, <2>1, <2>2, <2>3, <2>4, <2>5, OwnKeeps
<1> QED
  BY <1>5, <1>6, <1>7, <1>8, <1>9

\* What posting one call does to the three kinds of calls.
LEMMA PostOne ==
    ASSUME TypeOK, NEW o \in Order, Post(o), UNCHANGED <<outer, inner>>
    PROVE  /\ orders' \in Seq(Order)
           /\ \A v \in Threads : Posted(<<"join", v>>)'
                                   = Posted(<<"join", v>>) + (IF o = <<"join", v>> THEN 1 ELSE 0)
           /\ \A j \in Jobs :
                /\ Told(j) \in Nat /\ Told(j)' = Told(j) + (IF o = <<"handler", j>> THEN 1 ELSE 0)
                /\ Noted(j) \in Nat /\ Noted(j)' = Noted(j) + (IF o = <<"notify", j>> THEN 1 ELSE 0)
           /\ \A v \in Threads : Posted(<<"join", v>>) \in Nat
<1>1. orders' \in Seq(Order)
  BY DEF TypeOK, Post
<1>2. ASSUME NEW x
      PROVE  Posted(x) \in Nat /\ Posted(x)' = Posted(x) + (IF o = x THEN 1 ELSE 0)
  BY PostedType, PostCounts
<1> QED
  BY <1>1, <1>2 DEF Told, Noted

\* The function tells the main loop something.
LEMMA FeedbackStep == ASSUME PoolInv, NEW w \in Threads, core_thread_feedback(w) PROVE PoolInv'
<1>0. thr[w].pc \in {"run", "drun"}
  BY DEF core_thread_feedback, InFunction
<1>1. PICK i \in Jobs :
             /\ i = thr[w].work
             /\ Listed(i) = 0 /\ ListedFb(i) = 0 /\ Kept(i) = 0 /\ Held(i) = 1 /\ Told(i) = 0
             /\ ~job[i].kill /\ hist[i].ends = 0 /\ job[i].kind # "none"
             /\ job[i].live \/ hist[i].stale
  <2>1. thr[w].pc \in PoolWork \cup DirectWork
    BY <1>0 DEF PoolWork, DirectWork
  <2> QED
    BY <2>1, OwnJob
<1>2. /\ job[i].kind # "short" /\ job' = [job EXCEPT ![i].send = @ + 1] /\ Post(<<"notify", i>>)
      /\ UNCHANGED <<hist, pending, pendingFb, running, count, countNQ, max, thr, outer, inner, main, fails>>
  BY <1>1 DEF core_thread_feedback
<1>3. /\ job' \in [Jobs -> Job] /\ \A j \in Jobs : j # i => job'[j] = job[j]
      /\ job'[i].kind = job[i].kind /\ job'[i].live = job[i].live /\ job'[i].cancel = job[i].cancel
      /\ job'[i].kill = job[i].kill /\ job'[i].resched = job[i].resched
      /\ job'[i].send = job[i].send + 1 /\ job'[i].received = job[i].received
      /\ job'[i].waiter = job[i].waiter
  <2>1. PICK n \in Nat : n = job[i].send + 1
    BY JobFacts
  <2> DEFINE r == [job[i] EXCEPT !.send = n]
  <2>2. /\ r \in Job /\ r.kind = job[i].kind /\ r.live = job[i].live /\ r.cancel = job[i].cancel
        /\ r.kill = job[i].kill /\ r.resched = job[i].resched
        /\ r.send = n /\ r.received = job[i].received /\ r.waiter = job[i].waiter
    BY Parts DEF Job
  <2>3. job' = [job EXCEPT ![i] = r]
    BY <1>2, <2>1
  <2> HIDE DEF r
  <2> QED
    BY <2>1, <2>2, <2>3, Parts
<1>4. /\ orders' \in Seq(Order)
      /\ \A v \in Threads : Posted(<<"join", v>>)' = Posted(<<"join", v>>)
      /\ \A j \in Jobs : Told(j)' = Told(j)
      /\ \A j \in Jobs : j # i => Noted(j)' = Noted(j)
      /\ Noted(i)' = Noted(i) + 1
  <2>1. <<"notify", i>> \in Order
    BY DEF Order
  <2>2. /\ \A v \in Threads : <<"notify", i>> # <<"join", v>>
        /\ \A j \in Jobs : <<"notify", i>> # <<"handler", j>>
        /\ \A j \in Jobs : j # i => <<"notify", i>> # <<"notify", j>>
    OBVIOUS
  <2>3. /\ orders' \in Seq(Order)
        /\ \A v \in Threads : Posted(<<"join", v>>)'
                  = Posted(<<"join", v>>) + (IF <<"notify", i>> = <<"join", v>> THEN 1 ELSE 0)
        /\ \A j \in Jobs :
             /\ Told(j) \in Nat
             /\ Told(j)' = Told(j) + (IF <<"notify", i>> = <<"handler", j>> THEN 1 ELSE 0)
             /\ Noted(j) \in Nat
             /\ Noted(j)' = Noted(j) + (IF <<"notify", i>> = <<"notify", j>> THEN 1 ELSE 0)
        /\ \A v \in Threads : Posted(<<"join", v>>) \in Nat
    BY <1>2, <2>1, Parts, PostOne
  <2> QED
    BY <2>2, <2>3
<1>5. \A j \in Jobs : /\ Listed(j)' = Listed(j) /\ ListedFb(j)' = ListedFb(j) /\ Kept(j)' = Kept(j)
                      /\ ((main.cbk = j)' <=> main.cbk = j) /\ hist'[j] = hist[j]
  BY <1>2 DEF Listed, ListedFb, Kept
<1>6. ASSUME NEW j \in Jobs, Held(j)' = Held(j) - (IF thr[w].work = j THEN 1 ELSE 0)
                                            + (IF thr'[w].work = j THEN 1 ELSE 0)
      PROVE  JobState(j)'
  <2>1. Held(j) \in Nat
    BY HeldBy
  <2>2. Held(j)' = Held(j)
    BY <1>2, <1>6, <2>1
  <2>3. CASE j # i
    <3>1. Same(j)
      BY <1>2, <1>3, <1>4, <1>5, <2>2, <2>3 DEF Same
    <3> QED
      BY <3>1, JobFacts, SameKeeps
  <2>4. CASE j = i
    <3>1. JobState(i) /\ Noted(i) \in Nat /\ job[i].send \in Nat /\ job[i].received \in Nat
      BY JobFacts
    <3>2. Noted(i) = job[i].send - job[i].received
      BY <3>1 DEF JobState, JobOK
    <3>3. Noted(i)' = job'[i].send - job'[i].received
      BY <1>3, <1>4, <3>1, <3>2
    <3>4. Listed(i)' = 0 /\ ListedFb(i)' = 0 /\ Kept(i)' = 0 /\ Held(i)' = 1 /\ Told(i)' = 0
      BY <1>1, <1>4, <1>5, <2>2, <2>4
    <3>5. /\ job[i].live => hist[i].ends + hist[i].cancels = 0 /\ ~hist[i].stale
          /\ job[i].resched => job[i].kind \in ReschedKinds
      BY <3>1 DEF JobState, JobOK
    <3> QED
      BY <1>1, <1>2, <1>3, <1>5, <2>4, <3>3, <3>4, <3>5 DEF JobState, JobOK
  <2> QED
    BY <2>3, <2>4
<1>7. ThreadOK(w)'
  <2>1. ThreadOK(w)
    BY Parts DEF ThreadInv
  <2>2. thr' = thr /\ thr[w].work = i /\ job'[i].kind = job[i].kind /\ job'[i].cancel = job[i].cancel
        /\ hist' = hist /\ Posted(<<"join", w>>)' = Posted(<<"join", w>>)
    BY <1>1, <1>2, <1>3, <1>4
  <2> QED
    BY <2>1, <2>2 DEF ThreadOK
<1>8. RunningInv' /\ running' \subseteq Jobs
  BY <1>2, Parts, RunningKept
<1>9. /\ count' = count - (IF thr[w].pc \in PoolPC THEN 1 ELSE 0)
                         + (IF thr'[w].pc \in PoolPC THEN 1 ELSE 0)
      /\ countNQ' = countNQ - (IF thr[w].pc \in DirectWork THEN 1 ELSE 0)
                             + (IF thr'[w].pc \in DirectWork THEN 1 ELSE 0)
  BY <1>2, StillCounted
<1>10. /\ pending' \in Seq(Jobs) /\ pendingFb' \in Seq(Jobs) /\ hist' \in [Jobs -> Hist]
       /\ thr' \in [Threads -> Thread]
  BY <1>2, Parts
<1>11. \A j \in Jobs : /\ job'[j].kind = job[j].kind /\ job'[j].cancel = job[j].cancel
                       /\ hist'[j].stale = hist[j].stale /\ job'[j].waiter = job[j].waiter
                       /\ hist'[j].completed = hist[j].completed
  BY <1>2, <1>3
<1>12. thr[w].pc \notin {"none", "gone"} /\ thr' = thr /\ pending' = pending /\ pendingFb' = pendingFb
  BY <1>0, <1>2
<1> QED
  BY <1>2, <1>3, <1>4, <1>6, <1>7, <1>8, <1>9, <1>10, <1>11, <1>12, ThreadKeeps

\* A thread of the pool ends.
LEMMA ExitStep == ASSUME PoolInv, NEW w \in Threads, ThreadExit(w) PROVE PoolInv'
<1>1. /\ thr[w].pc = "exit" /\ count' = count - 1 /\ Post(<<"join", w>>) /\ Goto(w, "gone")
      /\ UNCHANGED <<job, hist, pending, pendingFb, running, countNQ, max, outer, inner, main, fails>>
  BY DEF ThreadExit
<1>2. /\ thr' \in [Threads -> Thread] /\ \A v \in Threads : v # w => thr'[v] = thr[v]
      /\ thr'[w].pc = "gone" /\ thr'[w].work = thr[w].work /\ thr'[w].dying = thr[w].dying
  <2>1. "gone" \in PC
    BY DEF PC
  <2> QED
    BY <1>1, <2>1, GotoFacts
<1>3. ThreadOK(w) /\ thr[w].work = NoJob /\ Posted(<<"join", w>>) = 0
  BY <1>1, Parts DEF ThreadInv, ThreadOK, PoolWork, DirectWork
<1>4. /\ orders' \in Seq(Order)
      /\ \A v \in Threads : v # w => Posted(<<"join", v>>)' = Posted(<<"join", v>>)
      /\ Posted(<<"join", w>>)' = 1
      /\ \A j \in Jobs : Told(j)' = Told(j) /\ Noted(j)' = Noted(j)
  <2>1. <<"join", w>> \in Order
    BY DEF Order
  <2>2. /\ \A v \in Threads : v # w => <<"join", w>> # <<"join", v>>
        /\ \A j \in Jobs : <<"join", w>> # <<"handler", j>> /\ <<"join", w>> # <<"notify", j>>
    OBVIOUS
  <2>3. /\ orders' \in Seq(Order)
        /\ \A v \in Threads : Posted(<<"join", v>>)'
                  = Posted(<<"join", v>>) + (IF <<"join", w>> = <<"join", v>> THEN 1 ELSE 0)
        /\ \A j \in Jobs :
             /\ Told(j) \in Nat
             /\ Told(j)' = Told(j) + (IF <<"join", w>> = <<"handler", j>> THEN 1 ELSE 0)
             /\ Noted(j) \in Nat
             /\ Noted(j)' = Noted(j) + (IF <<"join", w>> = <<"notify", j>> THEN 1 ELSE 0)
        /\ \A v \in Threads : Posted(<<"join", v>>) \in Nat
    BY <1>1, <2>1, Parts, PostOne
  <2> QED
    BY <1>3, <2>2, <2>3
<1>5. ASSUME NEW j \in Jobs, Held(j)' = Held(j) - (IF thr[w].work = j THEN 1 ELSE 0)
                                            + (IF thr'[w].work = j THEN 1 ELSE 0)
      PROVE  JobState(j)'
  <2>1. Held(j) \in Nat
    BY HeldBy
  <2>2. Held(j)' = Held(j)
    BY <1>2, <1>5, <2>1
  <2>3. Same(j)
    BY <1>1, <1>4, <2>2 DEF Same, Listed, ListedFb, Kept
  <2> QED
    BY <2>3, JobFacts, SameKeeps
<1>6. ThreadOK(w)'
  BY <1>2, <1>3, <1>4 DEF ThreadOK, PoolWork, DirectWork
<1>7. RunningInv' /\ running' \subseteq Jobs
  BY <1>1, <1>2, Parts, RunningKept
<1>8. /\ thr[w].pc \in PoolPC /\ thr'[w].pc \notin PoolPC /\ thr[w].pc \notin DirectWork
      /\ thr'[w].pc \notin DirectWork /\ thr[w].pc \notin PoolPC \ {"exit"}
  BY <1>1, <1>2 DEF PoolPC, DirectWork
<1>9. /\ count' = count - (IF thr[w].pc \in PoolPC THEN 1 ELSE 0)
                         + (IF thr'[w].pc \in PoolPC THEN 1 ELSE 0)
      /\ countNQ' = countNQ - (IF thr[w].pc \in DirectWork THEN 1 ELSE 0)
                             + (IF thr'[w].pc \in DirectWork THEN 1 ELSE 0)
  <2>1. count \in Nat /\ countNQ \in Int
    BY Parts
  <2> QED
    BY <1>1, <1>8, <2>1
<1>10. /\ pending' \in Seq(Jobs) /\ pendingFb' \in Seq(Jobs) /\ hist' \in [Jobs -> Hist]
       /\ job' \in [Jobs -> Job]
  BY <1>1, Parts
<1> QED
  BY <1>1, <1>2, <1>4, <1>5, <1>6, <1>7, <1>8, <1>9, <1>10, ThreadKeeps

\* A thread of the pool gives its job away: to the end of its list or to the main loop.
LEMMA OutcomeStep == ASSUME PoolInv, NEW w \in Threads, PostOutcome(w) PROVE PoolInv'
<1>0. thr[w].pc = "post"
  BY DEF PostOutcome
<1>1. PICK i \in Jobs :
             /\ i = thr[w].work
             /\ Listed(i) = 0 /\ ListedFb(i) = 0 /\ Kept(i) = 0 /\ Held(i) = 1 /\ Told(i) = 0
             /\ ~job[i].kill /\ hist[i].ends = 0 /\ job[i].kind # "none"
             /\ job[i].live \/ hist[i].stale
             /\ job[i].kind \in {"short", "feedback"}
             /\ NoKill => hist[i].completed \/ job[i].cancel
  <2>1. thr[w].pc \in PoolWork
    BY <1>0 DEF PoolWork
  <2> QED
    BY <1>0, <2>1, OwnJob
<1>2. PICK p \in {"exit", "popFb", "check1"} : p = AfterJob(w)
  BY DEF AfterJob
<1>3. /\ thr' = [thr EXCEPT ![w].pc = p, ![w].work = NoJob]
      /\ UNCHANGED <<hist, running, count, countNQ, max, outer, inner, main, fails>>
  BY <1>2 DEF PostOutcome
<1>4. /\ thr' \in [Threads -> Thread] /\ \A v \in Threads : v # w => thr'[v] = thr[v]
      /\ thr'[w].pc = p /\ thr'[w].work = NoJob /\ thr'[w].dying = thr[w].dying
  <2>1. p \in PC
    BY DEF PC, PoolPC
  <2> QED
    BY <1>3, <2>1, HandFacts
<1>5. ThreadOK(w)
  BY Parts DEF ThreadInv
<1>6. NoKill => p # "exit"
  BY <1>2, <1>5 DEF AfterJob, ThreadOK
<1>7. /\ thr[w].pc \in PoolPC /\ thr'[w].pc \in PoolPC /\ thr[w].pc \notin DirectWork
      /\ thr'[w].pc \notin DirectWork /\ thr[w].pc \notin {"none", "gone"}
      /\ NoKill => thr'[w].pc \in PoolPC \ {"exit"}
  BY <1>0, <1>4, <1>6 DEF PoolPC, DirectWork
<1>8. /\ count' = count - (IF thr[w].pc \in PoolPC THEN 1 ELSE 0)
                         + (IF thr'[w].pc \in PoolPC THEN 1 ELSE 0)
      /\ countNQ' = countNQ - (IF thr[w].pc \in DirectWork THEN 1 ELSE 0)
                             + (IF thr'[w].pc \in DirectWork THEN 1 ELSE 0)
  BY <1>3, <1>7, StillCounted
<1>9. RunningInv' /\ running' \subseteq Jobs /\ hist' \in [Jobs -> Hist]
  BY <1>0, <1>3, <1>4, Parts, RunningKept
<1>10. ASSUME \A v \in Threads : Posted(<<"join", v>>)' = Posted(<<"join", v>>)
       PROVE  ThreadOK(w)'
  <2>1. Posted(<<"join", w>>) = 0
    BY <1>0, <1>5 DEF ThreadOK
  <2> QED
    BY <1>4, <1>5, <1>10, <2>1 DEF ThreadOK, PoolWork, DirectWork
<1>11. ASSUME NEW j \in Jobs, Held(j)' = Held(j) - (IF thr[w].work = j THEN 1 ELSE 0)
                                             + (IF thr'[w].work = j THEN 1 ELSE 0)
       PROVE  Held(j)' = IF j = i THEN 0 ELSE Held(j)
  <2>1. Held(j) \in Nat
    BY HeldBy
  <2> QED
    BY <1>1, <1>4, <1>11, <2>1, NoneAssumption
<1>12. /\ JobState(i) /\ Noted(i) \in Nat /\ job[i].send \in Nat /\ job[i].received \in Nat
  BY JobFacts
<1>13. /\ job[i].live => hist[i].ends + hist[i].cancels = 0 /\ ~hist[i].stale
       /\ job[i].resched => job[i].kind \in ReschedKinds
       /\ Noted(i) = job[i].send - job[i].received
       /\ job[i].kind = "short" => job[i].send = 0 /\ job[i].received = 0
       /\ main.cbk = i => job[i].kind # "short"
  BY <1>12 DEF JobState, JobOK
<1>14. CASE job[i].resched
  <2>1. /\ job' = [job EXCEPT ![i].resched = FALSE] /\ orders' = orders
        /\ IF job[i].kind = "short"
             THEN pending' = Append(pending, i) /\ pendingFb' = pendingFb
             ELSE pendingFb' = Append(pendingFb, i) /\ pending' = pending
    BY <1>1, <1>14 DEF PostOutcome
  <2>2. /\ job' \in [Jobs -> Job] /\ \A j \in Jobs : j # i => job'[j] = job[j]
        /\ job'[i].kind = job[i].kind /\ job'[i].live = job[i].live /\ job'[i].cancel = job[i].cancel
        /\ job'[i].kill = job[i].kill /\ job'[i].send = job[i].send
        /\ job'[i].received = job[i].received /\ job'[i].waiter = job[i].waiter
        /\ ~job'[i].resched
    BY <2>1, Parts DEF Job
  <2>3. /\ pending' \in Seq(Jobs) /\ pendingFb' \in Seq(Jobs)
        /\ \A j \in Jobs :
             /\ Listed(j)' = Listed(j) + (IF job[i].kind = "short" /\ i = j THEN 1 ELSE 0)
             /\ ListedFb(j)' = ListedFb(j) + (IF job[i].kind # "short" /\ i = j THEN 1 ELSE 0)
    <3>0. pending \in Seq(Jobs) /\ pendingFb \in Seq(Jobs) /\ TypeOK
      BY Parts
    <3>1. pending' \in Seq(Jobs) /\ pendingFb' \in Seq(Jobs)
      <4>1. Append(pending, i) \in Seq(Jobs) /\ Append(pendingFb, i) \in Seq(Jobs)
        BY <3>0
      <4> QED
        BY <2>1, <3>0, <4>1
    <3>2. ASSUME NEW j \in Jobs
          PROVE  /\ Listed(j)' = Listed(j) + (IF job[i].kind = "short" /\ i = j THEN 1 ELSE 0)
                 /\ ListedFb(j)' = ListedFb(j) + (IF job[i].kind # "short" /\ i = j THEN 1 ELSE 0)
      <4>1. Listed(j) \in Nat /\ ListedFb(j) \in Nat
        BY <3>0, PlaceTypes
      <4>2. /\ Occ(Append(pending, i), j) = Occ(pending, j) + (IF i = j THEN 1 ELSE 0)
            /\ Occ(Append(pendingFb, i), j) = Occ(pendingFb, j) + (IF i = j THEN 1 ELSE 0)
        BY <3>0, OccAppend
      <4>3. CASE job[i].kind = "short"
        <5>1. pending' = Append(pending, i) /\ pendingFb' = pendingFb
          BY <2>1, <4>3
        <5>2. Occ(pending', j) = Occ(pending, j) + (IF i = j THEN 1 ELSE 0)
          BY <4>2, <5>1
        <5> QED
          BY <4>1, <4>3, <5>1, <5>2 DEF Listed, ListedFb
      <4>4. CASE job[i].kind # "short"
        <5>1. pendingFb' = Append(pendingFb, i) /\ pending' = pending
          BY <2>1, <4>4
        <5>2. Occ(pendingFb', j) = Occ(pendingFb, j) + (IF i = j THEN 1 ELSE 0)
          BY <4>2, <5>1
        <5> QED
          BY <4>1, <4>4, <5>1, <5>2 DEF Listed, ListedFb
      <4> QED
        BY <4>3, <4>4
    <3> QED
      BY <3>1, <3>2
  <2>4. /\ \A j \in Jobs : /\ Kept(j)' = Kept(j) /\ Told(j)' = Told(j) /\ Noted(j)' = Noted(j)
                           /\ ((main.cbk = j)' <=> main.cbk = j) /\ hist'[j] = hist[j]
        /\ \A v \in Threads : Posted(<<"join", v>>)' = Posted(<<"join", v>>)
    BY <1>3, <2>1 DEF Kept, Told, Noted, Posted
  <2>5. ASSUME NEW j \in Jobs, Held(j)' = Held(j) - (IF thr[w].work = j THEN 1 ELSE 0)
                                              + (IF thr'[w].work = j THEN 1 ELSE 0)
        PROVE  JobState(j)'
    <3>1. Held(j)' = IF j = i THEN 0 ELSE Held(j)
      BY <1>11, <2>5
    <3>2. CASE j # i
      <4>1. Listed(j) \in Nat /\ ListedFb(j) \in Nat
        BY JobFacts
      <4>2. Listed(j)' = Listed(j) /\ ListedFb(j)' = ListedFb(j)
        BY <2>3, <3>2, <4>1
      <4>3. Same(j)
        BY <1>3, <2>2, <2>4, <3>1, <3>2, <4>2 DEF Same
      <4> QED
        BY <4>3, JobFacts, SameKeeps
    <3>3. CASE j = i
      <4>1. /\ Held(i)' = 0 /\ Kept(i)' = 0 /\ Told(i)' = 0 /\ Noted(i)' = Noted(i) /\ hist'[i] = hist[i]
            /\ Listed(i)' = IF job[i].kind = "short" THEN 1 ELSE 0
            /\ ListedFb(i)' = IF job[i].kind = "short" THEN 0 ELSE 1
        BY <1>1, <2>3, <2>4, <3>1, <3>3
      <4>2. (main.cbk = i)' <=> main.cbk = i
        BY <2>4
      <4>3. CASE job[i].kind = "short"
        BY <1>1, <1>13, <2>2, <3>3, <4>1, <4>2, <4>3 DEF JobState, JobOK
      <4>4. CASE job[i].kind = "feedback"
        <5>1. ~NoFbResched
          BY <1>13, <1>14, <4>4 DEF NoFbResched
        <5> QED
          BY <1>1, <1>13, <2>2, <3>3, <4>1, <4>2, <4>4, <5>1 DEF JobState, JobOK
      <4> QED
        BY <1>1, <4>3, <4>4
    <3> QED
      BY <3>2, <3>3
  <2>6. orders' \in Seq(Order) /\ ThreadOK(w)'
    BY <1>10, <2>1, <2>4, Parts
  <2>7. \A j \in Jobs : /\ job'[j].kind = job[j].kind /\ job'[j].cancel = job[j].cancel
                        /\ hist'[j].stale = hist[j].stale /\ job'[j].waiter = job[j].waiter
                        /\ hist'[j].completed = hist[j].completed
    BY <1>3, <2>2
  <2> QED
    BY <1>3, <1>4, <1>7, <1>8, <1>9, <2>2, <2>3, <2>4, <2>5, <2>6, <2>7, ThreadKeeps
<1>15. CASE ~job[i].resched
  <2>1. Post(<<"handler", i>>) /\ UNCHANGED <<job, pending, pendingFb>>
    BY <1>1, <1>15 DEF PostOutcome
  <2>2. /\ orders' \in Seq(Order)
        /\ \A v \in Threads : Posted(<<"join", v>>)' = Posted(<<"join", v>>)
        /\ \A j \in Jobs : Noted(j)' = Noted(j)
        /\ \A j \in Jobs : j # i => Told(j)' = Told(j)
        /\ Told(i)' = Told(i) + 1
    <3>1. <<"handler", i>> \in Order
      BY DEF Order
    <3>2. /\ \A v \in Threads : <<"handler", i>> # <<"join", v>>
          /\ \A j \in Jobs : <<"handler", i>> # <<"notify", j>>
          /\ \A j \in Jobs : j # i => <<"handler", i>> # <<"handler", j>>
      OBVIOUS
    <3>3. /\ orders' \in Seq(Order)
          /\ \A v \in Threads : Posted(<<"join", v>>)'
                    = Posted(<<"join", v>>) + (IF <<"handler", i>> = <<"join", v>> THEN 1 ELSE 0)
          /\ \A j \in Jobs :
               /\ Told(j) \in Nat
               /\ Told(j)' = Told(j) + (IF <<"handler", i>> = <<"handler", j>> THEN 1 ELSE 0)
               /\ Noted(j) \in Nat
               /\ Noted(j)' = Noted(j) + (IF <<"handler", i>> = <<"notify", j>> THEN 1 ELSE 0)
          /\ \A v \in Threads : Posted(<<"join", v>>) \in Nat
      BY <1>3, <2>1, <3>1, Parts, PostOne
    <3> QED
      BY <3>2, <3>3
  <2>3. \A j \in Jobs : /\ Listed(j)' = Listed(j) /\ ListedFb(j)' = ListedFb(j) /\ Kept(j)' = Kept(j)
                        /\ ((main.cbk = j)' <=> main.cbk = j) /\ hist'[j] = hist[j] /\ job'[j] = job[j]
    BY <1>3, <2>1 DEF Listed, ListedFb, Kept
  <2>4. ASSUME NEW j \in Jobs, Held(j)' = Held(j) - (IF thr[w].work = j THEN 1 ELSE 0)
                                              + (IF thr'[w].work = j THEN 1 ELSE 0)
        PROVE  JobState(j)'
    <3>1. Held(j)' = IF j = i THEN 0 ELSE Held(j)
      BY <1>11, <2>4
    <3>2. CASE j # i
      <4>1. Same(j)
        BY <1>3, <2>2, <2>3, <3>1, <3>2 DEF Same
      <4> QED
        BY <4>1, JobFacts, SameKeeps
    <3>3. CASE j = i
      <4>1. /\ Held(i)' = 0 /\ Kept(i)' = 0 /\ Told(i)' = 1 /\ Noted(i)' = Noted(i) /\ hist'[i] = hist[i]
            /\ Listed(i)' = 0 /\ ListedFb(i)' = 0 /\ job'[i] = job[i]
        BY <1>1, <2>2, <2>3, <3>1, <3>3
      <4>2. (main.cbk = i)' <=> main.cbk = i
        BY <2>3
      <4> QED
        BY <1>1, <1>13, <1>15, <3>3, <4>1, <4>2 DEF JobState, JobOK
    <3> QED
      BY <3>2, <3>3
  <2>5. ThreadOK(w)'
    BY <1>10, <2>2
  <2>6. /\ job' \in [Jobs -> Job] /\ pending' \in Seq(Jobs) /\ pendingFb' \in Seq(Jobs)
    BY <2>1, Parts
  <2> QED
    BY <1>3, <1>4, <1>7, <1>8, <1>9, <2>1, <2>2, <2>4, <2>5, <2>6, ThreadKeeps
<1> QED
  BY <1>14, <1>15

\* A thread of its own ends: the main loop is told of the job and of the thread.
LEMMA DirectCleanupStep == ASSUME PoolInv, NEW w \in Threads, DirectCleanup(w) PROVE PoolInv'
<1>0. thr[w].pc = "dclean"
  BY DEF DirectCleanup
<1>1. PICK i \in Jobs :
             /\ i = thr[w].work
             /\ Listed(i) = 0 /\ ListedFb(i) = 0 /\ Kept(i) = 0 /\ Held(i) = 1 /\ Told(i) = 0
             /\ ~job[i].kill /\ hist[i].ends = 0 /\ job[i].kind # "none"
             /\ job[i].live \/ hist[i].stale
             /\ job[i].kind = "direct"
             /\ NoKill => hist[i].completed \/ job[i].cancel
  <2>1. thr[w].pc \in DirectWork
    BY <1>0 DEF DirectWork
  <2> QED
    BY <1>0, <2>1, OwnJob
<1>2. /\ thr' = [thr EXCEPT ![w].pc = "gone", ![w].work = NoJob] /\ countNQ' = countNQ - 1
      /\ orders' = orders \o << <<"handler", i>>, <<"join", w>> >>
      /\ UNCHANGED <<job, hist, pending, pendingFb, running, count, max, outer, inner, main, fails>>
  BY <1>1 DEF DirectCleanup
<1>3. /\ thr' \in [Threads -> Thread] /\ \A v \in Threads : v # w => thr'[v] = thr[v]
      /\ thr'[w].pc = "gone" /\ thr'[w].work = NoJob /\ thr'[w].dying = thr[w].dying
  <2>1. "gone" \in PC
    BY DEF PC
  <2> QED
    BY <1>2, <2>1, HandFacts
<1>4. ThreadOK(w) /\ Posted(<<"join", w>>) = 0
  BY <1>0, Parts DEF ThreadInv, ThreadOK
<1>5. /\ orders' \in Seq(Order)
      /\ \A x : Posted(x) \in Nat /\ Posted(x)' = Posted(x) + (IF <<"handler", i>> = x THEN 1 ELSE 0)
                                                       + (IF <<"join", w>> = x THEN 1 ELSE 0)
  <2> DEFINE a == <<"handler", i>>
             b == <<"join", w>>
  <2>1. a \in Order /\ b \in Order
    BY DEF Order
  <2>2. orders \in Seq(Order) /\ outer' = outer /\ inner' = inner /\ orders' = orders \o <<a, b>>
    BY <1>2, Parts
  <2> HIDE DEF a, b
  <2>3. orders' = Append(Append(orders, a), b) /\ Append(orders, a) \in Seq(Order) /\ orders' \in Seq(Order)
    BY <2>1, <2>2
  <2>4. ASSUME NEW x
        PROVE  Posted(x) \in Nat /\ Posted(x)' = Posted(x) + (IF a = x THEN 1 ELSE 0)
                                                     + (IF b = x THEN 1 ELSE 0)
    <3> DEFINE t == Append(orders, a)
    <3>1. t \in Seq(Order) /\ orders' = Append(t, b) /\ Occ(t, x) = Occ(orders, x) + (IF a = x THEN 1 ELSE 0)
      BY <2>1, <2>2, <2>3, OccAppend
    <3> HIDE DEF t
    <3>2. Occ(Append(t, b), x) = Occ(t, x) + (IF b = x THEN 1 ELSE 0)
      BY <2>1, <3>1, OccAppend
    <3>3. Occ(orders, x) \in Nat /\ Occ(outer, x) \in Nat /\ Occ(inner, x) \in Nat
      BY Parts, PostedType
    <3>4. Occ(orders', x) = Occ(orders, x) + (IF a = x THEN 1 ELSE 0) + (IF b = x THEN 1 ELSE 0)
      BY <3>1, <3>2
    <3>5. outer' = outer /\ inner' = inner
      BY <2>2
    <3> QED
      BY <3>3, <3>4, <3>5 DEF Posted
  <2> QED
    BY <2>3, <2>4 DEF a, b
<1>6. /\ \A v \in Threads : v # w => Posted(<<"join", v>>)' = Posted(<<"join", v>>)
      /\ Posted(<<"join", w>>)' = 1
      /\ \A j \in Jobs : Noted(j)' = Noted(j)
      /\ \A j \in Jobs : j # i => Told(j)' = Told(j)
      /\ Told(i)' = 1
  <2>1. ASSUME NEW x, x # <<"handler", i>>, x # <<"join", w>> PROVE Posted(x)' = Posted(x)
    <3>1. Posted(x) \in Nat /\ Posted(x)' = Posted(x) + (IF <<"handler", i>> = x THEN 1 ELSE 0)
                                                       + (IF <<"join", w>> = x THEN 1 ELSE 0)
      BY <1>5
    <3> QED
      BY <2>1, <3>1
  <2>2. /\ \A v \in Threads : v # w => <<"join", v>> # <<"join", w>> /\ <<"join", v>> # <<"handler", i>>
        /\ \A j \in Jobs : <<"notify", j>> # <<"join", w>> /\ <<"notify", j>> # <<"handler", i>>
        /\ \A j \in Jobs : j # i => <<"handler", j>> # <<"join", w>> /\ <<"handler", j>> # <<"handler", i>>
        /\ <<"handler", i>> # <<"join", w>>
    OBVIOUS
  <2>3. Posted(<<"join", w>>)' = 1
    <3>1. Posted(<<"join", w>>)' = Posted(<<"join", w>>)
                + (IF <<"handler", i>> = <<"join", w>> THEN 1 ELSE 0) + (IF <<"join", w>> = <<"join", w>> THEN 1 ELSE 0)
      BY <1>5
    <3> QED
      BY <1>4, <2>2, <3>1
  <2>4. Told(i)' = 1
    <3>1. Posted(<<"handler", i>>)' = Posted(<<"handler", i>>)
                + (IF <<"handler", i>> = <<"handler", i>> THEN 1 ELSE 0) + (IF <<"join", w>> = <<"handler", i>> THEN 1 ELSE 0)
      BY <1>5
    <3>2. Posted(<<"handler", i>>) = 0
      BY <1>1 DEF Told
    <3>3. Posted(<<"handler", i>>)' = 1
      BY <2>2, <3>1, <3>2
    <3> QED
      BY <3>3 DEF Told
  <2> QED
    BY <2>1, <2>2, <2>3, <2>4 DEF Told, Noted
<1>7. \A j \in Jobs : /\ Listed(j)' = Listed(j) /\ ListedFb(j)' = ListedFb(j) /\ Kept(j)' = Kept(j)
                      /\ ((main.cbk = j)' <=> main.cbk = j) /\ hist'[j] = hist[j] /\ job'[j] = job[j]
  BY <1>2 DEF Listed, ListedFb, Kept
<1>8. ASSUME NEW j \in Jobs, Held(j)' = Held(j) - (IF thr[w].work = j THEN 1 ELSE 0)
                                            + (IF thr'[w].work = j THEN 1 ELSE 0)
      PROVE  JobState(j)'
  <2>1. Held(j) \in Nat
    BY HeldBy
  <2>2. Held(j)' = IF j = i THEN 0 ELSE Held(j)
    BY <1>1, <1>3, <1>8, <2>1, NoneAssumption
  <2>3. CASE j # i
    <3>1. Same(j)
      BY <1>2, <1>6, <1>7, <2>2, <2>3 DEF Same
    <3> QED
      BY <3>1, JobFacts, SameKeeps
  <2>4. CASE j = i
    <3>1. /\ Held(i)' = 0 /\ Kept(i)' = 0 /\ Told(i)' = 1 /\ Noted(i)' = Noted(i) /\ hist'[i] = hist[i]
          /\ Listed(i)' = 0 /\ ListedFb(i)' = 0 /\ job'[i] = job[i]
      BY <1>1, <1>6, <1>7, <2>2, <2>4
    <3>2. (main.cbk = i)' <=> main.cbk = i
      BY <1>7
    <3>3. JobState(i)
      BY JobFacts
    <3>4. /\ job[i].live => hist[i].ends + hist[i].cancels = 0 /\ ~hist[i].stale
          /\ job[i].resched => job[i].kind \in ReschedKinds
          /\ Noted(i) = job[i].send - job[i].received
      BY <3>3 DEF JobState, JobOK
    <3> QED
      BY <1>1, <2>4, <3>1, <3>2, <3>4 DEF JobState, JobOK
  <2> QED
    BY <2>3, <2>4
<1>9. ThreadOK(w)'
  BY <1>3, <1>4, <1>6 DEF ThreadOK, PoolWork, DirectWork
<1>10. RunningInv' /\ running' \subseteq Jobs
  BY <1>0, <1>2, <1>3, Parts, RunningKept
<1>11. /\ thr[w].pc \notin PoolPC /\ thr'[w].pc \notin PoolPC /\ thr[w].pc \in DirectWork
       /\ thr'[w].pc \notin DirectWork /\ thr[w].pc \notin {"none", "gone"}
  BY <1>0, <1>3 DEF PoolPC, DirectWork
<1>12. /\ count' = count - (IF thr[w].pc \in PoolPC THEN 1 ELSE 0)
                         + (IF thr'[w].pc \in PoolPC THEN 1 ELSE 0)
       /\ countNQ' = countNQ - (IF thr[w].pc \in DirectWork THEN 1 ELSE 0)
                             + (IF thr'[w].pc \in DirectWork THEN 1 ELSE 0)
  <2>1. count \in Nat /\ countNQ \in Int
    BY Parts
  <2> QED
    BY <1>2, <1>11, <2>1
<1>13. /\ pending' \in Seq(Jobs) /\ pendingFb' \in Seq(Jobs) /\ hist' \in [Jobs -> Hist]
       /\ job' \in [Jobs -> Job]
  BY <1>2, Parts
<1> QED
  BY <1>2, <1>3, <1>5, <1>6, <1>8, <1>9, <1>10, <1>11, <1>12, <1>13, ThreadKeeps

-----------------------------------------------------------------------------
(* The invariant *)

\* The pool starts empty.
LEMMA InitPool == ASSUME Init PROVE PoolInv
<1>1. /\ job = [j \in Jobs |-> NewJob]
      /\ hist = [j \in Jobs |-> [ends |-> 0, cancels |-> 0, completed |-> FALSE, resched |-> 0,
                                 stale |-> FALSE]]
      /\ pending = <<>> /\ pendingFb = <<>> /\ running = {}
      /\ count = 0 /\ countNQ = 0 /\ max = InitMax /\ fails = 0
      /\ thr = [w \in Threads |-> NoThreadState]
      /\ orders = <<>> /\ outer = <<>> /\ inner = <<>> /\ main = Idle
  BY DEF Init
<1>2. TypeOK
  <2>1. job \in [Jobs -> Job]
    BY <1>1 DEF NewJob, Job, Kinds
  <2>2. hist \in [Jobs -> Hist]
    BY <1>1 DEF Hist
  <2>3. thr \in [Threads -> Thread]
    BY <1>1 DEF NoThreadState, Thread, PC
  <2>4. main \in MainType
    BY <1>1 DEF Idle, MainType, Ops
  <2>5. pending \in Seq(Jobs) /\ pendingFb \in Seq(Jobs) /\ orders \in Seq(Order)
        /\ outer \in Seq(Order) /\ inner \in Seq(Order)
    BY <1>1
  <2>6. max \in Nat
    BY <1>1, BoundAssumption
  <2> QED
    BY <1>1, <2>1, <2>2, <2>3, <2>4, <2>5, <2>6 DEF TypeOK, MainType
<1>3. \A w \in Threads : thr[w].pc = "none" /\ thr[w].work = NoJob /\ ~thr[w].dying
  BY <1>1 DEF NoThreadState
<1>4. \A x : Posted(x) = 0
  BY <1>1, OccEmpty DEF Posted
<1>5. main.op = "idle" /\ main.cbk = NoJob
  BY <1>1 DEF Idle
<1>6. JobInv
  <2>1. ASSUME NEW j \in Jobs PROVE JobState(j)
    <3>1. /\ job[j].kind = "none" /\ ~job[j].live /\ ~job[j].kill /\ ~job[j].resched
          /\ job[j].send = 0 /\ job[j].received = 0
      BY <1>1 DEF NewJob
    <3>2. hist[j].ends = 0 /\ hist[j].cancels = 0 /\ ~hist[j].stale
      BY <1>1
    <3>3. Listed(j) = 0 /\ ListedFb(j) = 0 /\ Kept(j) = 0 /\ Told(j) = 0 /\ Noted(j) = 0
      BY <1>1, <1>4, <1>5, OccEmpty DEF Listed, ListedFb, Kept, Told, Noted
    <3>4. Held(j) = 0
      <4>1. \A w \in Threads : thr[w].work # j
        BY <1>3, NoneAssumption
      <4> QED
        BY <4>1, HeldBy
    <3>5. ~(main.cbk = j)
      BY <1>5, NoneAssumption
    <3> QED
      BY <3>1, <3>2, <3>3, <3>4, <3>5 DEF JobState, JobOK
  <2> QED
    BY <2>1 DEF JobInv
<1>7. ThreadInv /\ RunningInv
  BY <1>1, <1>3, <1>4 DEF ThreadInv, ThreadOK, PoolWork, DirectWork, RunningInv
<1>8. MainInv /\ ShutInv /\ WaiterOnStack
  BY <1>1, <1>5 DEF MainInv, ShutInv, WaiterOnStack, Starting, Ending, Flushing, NewJob
<1>9. CountExact
  <2>1. {w \in Threads : thr[w].pc \in PoolPC} = {} /\ {w \in Threads : thr[w].pc \in {"dstart", "drun", "dclean"}} = {}
    BY <1>3 DEF PoolPC
  <2>2. Cardinality({}) = 0
    BY FS_EmptySet
  <2>3. /\ Cardinality({w \in Threads : thr[w].pc \in PoolPC}) = 0
        /\ Cardinality({w \in Threads : thr[w].pc \in {"dstart", "drun", "dclean"}}) = 0
    BY <2>1, <2>2
  <2>4. count = 0 /\ countNQ = 0 /\ main.op # "dcount"
    BY <1>1, <1>5
  <2> QED
    BY <2>3, <2>4 DEF CountExact
<1> QED
  BY <1>2, <1>6, <1>7, <1>8, <1>9 DEF PoolInv

\* Every step keeps the invariant.
LEMMA PoolStep == ASSUME PoolInv, [Next]_vars PROVE PoolInv'
<1>1. CASE UNCHANGED vars
  BY <1>1, SettingSteps
<1>2. CASE Api
  <2>1. CASE \E j \in Jobs : core_thread_run(j) \/ \E t \in BOOLEAN : core_thread_feedback_run(j, t)
    BY <2>1, RunStep
  <2>2. CASE \E j \in Jobs : core_thread_cancel(j)
    BY <2>2, CancelSteps
  <2>3. CASE \E j \in Jobs : core_thread_wait(j)
    BY <2>3, WaitSteps
  <2>4. CASE (\E n \in MaxValues : core_thread_max_set(n)) \/ _core_thread_init
    BY <2>4, SettingSteps
  <2>5. CASE ShutdownPending
    BY <2>5, ShutdownPendingStep
  <2> QED
    BY <1>2, <2>1, <2>2, <2>3, <2>4, <2>5 DEF Api
<1>3. CASE MainStep
  <2>1. ASSUME NEW w \in Threads, CreateOk(w) \/ DirectOk(w) \/ _core_thread_join(w) PROVE PoolInv'
    BY <2>1, CreateStep, DirectStep, JoinStep
  <2>2. CASE DirectCount \/ FirstFail \/ FlushDone \/ DirectFail \/ LastFail \/ FeedbackGiveUp
    BY <2>2, DirectCountStep, FirstFailStep, FlushDoneStep, DirectFailStep, GiveUpStep
  <2>3. CASE WaitReturn \/ FlushTake \/ NotifyReturn
    BY <2>3, WaitSteps, FlushTakeStep, NotifyReturnStep
  <2>4. ASSUME NEW j \in Jobs, _core_thread_handler(j) \/ _Core_notify_handler(j) PROVE PoolInv'
    BY <2>4, HandlerStep, NotifyStep
  <2>5. CASE ShutdownCancel \/ ShutdownDrained \/ ShutdownGiveUp \/ ShutdownDone
    BY <2>5, CancelSteps, ShutdownSteps
  <2> QED
    BY <1>3, <2>1, <2>2, <2>3, <2>4, <2>5 DEF MainStep
<1>4. ASSUME NEW w \in Threads, ThreadStep(w) PROVE PoolInv'
  <2>1. CASE PopShort(w) \/ PopFeedback(w) \/ AddRunning(w) \/ LeaveRunning(w) \/ CheckPending(w)
    BY <2>1, QuietSteps, PopShortStep, PopFeedbackStep
  <2>2. CASE ReadCancel(w) \/ DirectStart(w) \/ FunctionReturn(w) \/ FunctionKilled(w)
    BY <2>2, OwnSteps
  <2>3. CASE PostOutcome(w) \/ ThreadExit(w) \/ DirectCleanup(w)
    BY <2>3, OutcomeStep, ExitStep, DirectCleanupStep
  <2> QED
    BY <1>4, <2>1, <2>2, <2>3 DEF ThreadStep
<1>5. ASSUME NEW w \in Threads, UserStep(w) PROVE PoolInv'
  BY <1>5, FeedbackStep, OwnSteps, CancelSteps DEF UserStep
<1>6. CASE Ended
  BY <1>6, SettingSteps DEF Ended
<1> QED
  BY <1>1, <1>2, <1>3, <1>4, <1>5, <1>6 DEF Next

-----------------------------------------------------------------------------
(* When no job is taken back too late *)

\* The pool has at most one thread; a creation fails at most once.
PoolOfOne == InitMax = 1 /\ MaxValues \subseteq {1}
OneFailure == MaxFail < 2

Making == {"create", "flush", "retry", "giveup"}

\* With one pool thread a creation is only tried while the pool is empty, so that
\* nobody takes the job off its list meanwhile.
OneInv ==
    /\ max = 1 /\ count <= 1
    /\ main.op \in Making => count = 0 /\ Queued(main.job)
    /\ NoLateTakeBack

\* With one failure nothing comes to its second.
FewInv ==
    /\ main.op \in {"flush", "retry", "dflush", "dretry"} => fails >= 1
    /\ main.op # "giveup" /\ (main.op = "create" => ~main.tried)
    /\ NoLateTakeBack

\* What a step other than a failed creation may do to what was observed of a job.
LEMMA StaleKept ==
    ASSUME hist \in [Jobs -> Hist], NEW i \in Jobs,
           \/ hist' = hist
           \/ hist' = [hist EXCEPT ![i].ends = @ + 1]
           \/ hist' = [hist EXCEPT ![i].cancels = @ + 1]
           \/ hist' = [hist EXCEPT ![i].completed = FALSE]
           \/ hist' = [hist EXCEPT ![i].completed = TRUE]
           \/ hist' = [hist EXCEPT ![i].resched = @ + 1]
    PROVE  NoLateTakeBack => NoLateTakeBack'
<1>1. ASSUME NEW j \in Jobs PROVE hist'[j].stale = hist[j].stale
  BY DEF Hist
<1> QED
  BY <1>1 DEF NoLateTakeBack

\* A call of the program is made from the main loop, and only shutdown calls back.
LEMMA ApiCalls ==
    ASSUME Api
    PROVE  main.op \in {"idle", "down"} /\ (~ShutdownPending => hist' = hist)
<1>1. ASSUME NEW j \in Jobs, core_thread_run(j) PROVE main.op = "idle" /\ hist' = hist
  BY <1>1 DEF core_thread_run, ApiReady
<1>2. ASSUME NEW j \in Jobs, NEW t \in BOOLEAN, core_thread_feedback_run(j, t)
      PROVE  main.op = "idle" /\ hist' = hist
  BY <1>2 DEF core_thread_feedback_run, ApiReady
<1>3. ASSUME NEW j \in Jobs, core_thread_cancel(j) \/ core_thread_wait(j)
      PROVE  main.op = "idle" /\ hist' = hist
  BY <1>3 DEF core_thread_cancel, core_thread_wait, ApiReady
<1>4. ASSUME NEW n \in MaxValues, core_thread_max_set(n) PROVE main.op = "idle" /\ hist' = hist
  BY <1>4 DEF core_thread_max_set, ApiReady
<1>5. CASE _core_thread_init
  BY <1>5 DEF _core_thread_init
<1>6. CASE ShutdownPending
  BY <1>6 DEF ShutdownPending, ApiReady
<1> QED
  BY <1>1, <1>2, <1>3, <1>4, <1>5, <1>6 DEF Api

\* Every step of the main thread that takes no job back, and every step of a thread,
\* keeps NoLateTakeBack.
LEMMA LateSteps ==
    ASSUME PoolInv, [Next]_vars, NoLateTakeBack, ~LastFail, ~FeedbackGiveUp
    PROVE  NoLateTakeBack'
<1>0. hist \in [Jobs -> Hist]
  BY Parts
<1>1. CASE hist' = hist
  BY <1>1 DEF NoLateTakeBack
<1>2. ASSUME NEW i \in Jobs, Kill(i) PROVE NoLateTakeBack'
  <2>1. hist' = [hist EXCEPT ![i].ends = @ + 1] \/ hist' = [hist EXCEPT ![i].cancels = @ + 1]
    BY <1>2 DEF Kill
  <2> QED
    BY <1>0, <2>1, StaleKept
<1>3. CASE Api
  <2>1. CASE ShutdownPending
    <3>1. ASSUME NEW j \in Jobs PROVE hist'[j].stale = hist[j].stale
      BY <1>0, <2>1 DEF ShutdownPending, Hist
    <3> QED
      BY <3>1 DEF NoLateTakeBack
  <2>2. CASE ~ShutdownPending
    <3>1. hist' = hist
      BY <1>3, <2>2, ApiCalls
    <3> QED
      BY <1>1, <3>1
  <2> QED
    BY <2>1, <2>2
<1>4. CASE MainStep
  <2>1. ASSUME NEW j \in Jobs, _core_thread_handler(j) PROVE NoLateTakeBack'
    BY <1>1, <1>2, <2>1 DEF _core_thread_handler
  <2>2. CASE NotifyReturn
    <3>1. main.cbk \in Jobs /\ (hist' = hist \/ Kill(main.cbk))
      BY <2>2, Parts DEF NotifyReturn, MainType
    <3> QED
      BY <1>1, <1>2, <3>1
  <2>3. CASE ~NotifyReturn /\ \A j \in Jobs : ~_core_thread_handler(j)
    <3>1. hist' = hist
      BY <1>4, <2>3 DEF MainStep, CreateOk, DirectOk, _core_thread_join, DirectCount, FirstFail, FlushDone,
                        DirectFail, WaitReturn, FlushTake, _Core_notify_handler, ShutdownCancel,
                        ShutdownDrained, ShutdownGiveUp, ShutdownDone
    <3> QED
      BY <1>1, <3>1
  <2> QED
    BY <2>1, <2>2, <2>3
<1>5. ASSUME NEW w \in Threads, ThreadStep(w) \/ UserStep(w) PROVE NoLateTakeBack'
  <2>1. CASE ReadCancel(w) \/ FunctionReturn(w) \/ core_thread_reschedule(w)
    <3>1. thr[w].pc \in PoolWork \cup DirectWork
      BY <2>1 DEF ReadCancel, FunctionReturn, core_thread_reschedule, InFunction, PoolWork, DirectWork
    <3>2. thr[w].work \in Jobs
      BY <3>1, OwnJob
    <3>3. PICK i \in Jobs : i = thr[w].work
      BY <3>2
    <3>4. \/ hist' = [hist EXCEPT ![i].completed = FALSE]
          \/ hist' = [hist EXCEPT ![i].completed = TRUE]
          \/ hist' = [hist EXCEPT ![i].resched = @ + 1]
      BY <2>1, <3>3 DEF ReadCancel, FunctionReturn, core_thread_reschedule
    <3> QED
      BY <1>0, <3>4, StaleKept
  <2>2. CASE ~ReadCancel(w) /\ ~FunctionReturn(w) /\ ~core_thread_reschedule(w)
    <3>1. hist' = hist
      BY <1>5, <2>2 DEF ThreadStep, UserStep, PopShort, PopFeedback, AddRunning, LeaveRunning, PostOutcome,
                        CheckPending, ThreadExit, DirectStart, DirectCleanup, FunctionKilled,
                        core_thread_feedback, SelfCancel
    <3> QED
      BY <1>1, <3>1
  <2> QED
    BY <2>1, <2>2
<1>6. CASE Ended \/ UNCHANGED vars
  BY <1>1, <1>6 DEF Ended, vars
<1> QED
  BY <1>3, <1>4, <1>5, <1>6 DEF Next

\* Appending to a list queues the job.
LEMMA EnqueueQueues ==
    ASSUME pending \in Seq(Jobs), pendingFb \in Seq(Jobs), NEW i \in Jobs, NEW k, NEW t,
           Enqueue(i, k, t)
    PROVE  Queued(i)'
<1>1. ASSUME NEW s \in Seq(Jobs) PROVE i \in Elements(Append(s, i))
  <2>1. Append(s, i)[Len(s) + 1] = i /\ Len(s) + 1 \in DOMAIN Append(s, i)
    OBVIOUS
  <2> QED
    BY <2>1 DEF Elements
<1>2. CASE k = "short"
  <2>1. pending' = Append(pending, i)
    BY <1>2 DEF Enqueue
  <2> QED
    BY <1>1, <2>1 DEF Queued, Elements
<1>3. CASE k # "short"
  <2>1. pendingFb' = Append(pendingFb, i)
    BY <1>3 DEF Enqueue
  <2> QED
    BY <1>1, <2>1 DEF Queued, Elements
<1> QED
  BY <1>2, <1>3

\* A job that is still queued is not taken back too late.
LEMMA TakeBackInTime ==
    ASSUME PoolInv, NoLateTakeBack, NEW i \in Jobs, Queued(i), TakeBack(i)
    PROVE  NoLateTakeBack'
<1>1. i \in Elements(pending \o pendingFb)
  BY Parts, ElementsCat DEF Queued
<1>2. hist \in [Jobs -> Hist] /\ hist' = [hist EXCEPT ![i].cancels = @ + 1, ![i].stale = FALSE]
  BY <1>1, Parts DEF TakeBack
<1>3. ASSUME NEW j \in Jobs PROVE ~hist'[j].stale
  <2>1. CASE j = i
    BY <1>2, <2>1 DEF Hist
  <2>2. CASE j # i
    BY <1>2, <2>2 DEF NoLateTakeBack
  <2> QED
    BY <2>1, <2>2
<1> QED
  BY <1>3 DEF NoLateTakeBack

\* A pool of one thread keeps OneInv.
LEMMA OneStep == ASSUME PoolOfOne, PoolInv, OneInv, [Next]_vars PROVE OneInv'
<1>1. /\ max = 1 /\ count \in Nat /\ count <= 1 /\ NoLateTakeBack
      /\ main \in MainType /\ pending \in Seq(Jobs) /\ pendingFb \in Seq(Jobs)
      /\ main.op \in Making => count = 0 /\ Queued(main.job)
  BY Parts DEF OneInv
<1>2. ASSUME max' = max, count' = count, pending' = pending, pendingFb' = pendingFb, NoLateTakeBack',
             main'.op \in Making => main.op \in Making /\ main'.job = main.job
      PROVE  OneInv'
  BY <1>1, <1>2 DEF OneInv, Queued
<1>3. ASSUME max' = 1, count' = count, NoLateTakeBack', main'.op \notin Making PROVE OneInv'
  BY <1>1, <1>3 DEF OneInv
<1>4. ASSUME NEW i \in Jobs, NEW k, NEW t, Enqueue(i, k, t), max' = max, count' = count, NoLateTakeBack'
      PROVE  OneInv'
  <2>1. Queued(i)'
    BY <1>1, <1>4, EnqueueQueues
  <2>2. main'.op \in Making => main'.job = i /\ count = 0
    BY <1>1, <1>4 DEF Enqueue, Idle, Making
  <2> QED
    BY <1>1, <1>4, <2>1, <2>2 DEF OneInv, Queued
<1>5. CASE Api
  <2>0. NoLateTakeBack'
    <3>1. ~LastFail /\ ~FeedbackGiveUp
      <4>1. main.op \in {"idle", "down"}
        BY <1>5, ApiCalls
      <4> QED
        BY <4>1 DEF LastFail, FeedbackGiveUp
    <3> QED
      BY <1>1, <3>1, LateSteps
  <2>1. ASSUME NEW j \in Jobs, core_thread_run(j) PROVE OneInv'
    <3>1. Enqueue(j, "short", FALSE) /\ max' = max /\ count' = count
      BY <2>1 DEF core_thread_run
    <3> QED
      BY <1>4, <2>0, <3>1
  <2>2. ASSUME NEW j \in Jobs, NEW t \in BOOLEAN, core_thread_feedback_run(j, t) PROVE OneInv'
    <3>1. max' = max /\ count' = count
      BY <2>2 DEF core_thread_feedback_run
    <3>2. CASE t
      <4>1. main' = [Idle EXCEPT !.op = "direct", !.job = j]
        BY <2>2, <3>2 DEF core_thread_feedback_run
      <4>2. main'.op \notin Making
        BY <4>1 DEF Idle, Making
      <4> QED
        BY <1>1, <1>3, <2>0, <3>1, <4>2
    <3>3. CASE ~t
      <4>1. Enqueue(j, "feedback", FALSE)
        BY <2>2, <3>3 DEF core_thread_feedback_run
      <4> QED
        BY <1>4, <2>0, <3>1, <4>1
    <3> QED
      BY <3>2, <3>3
  <2>3. ASSUME NEW j \in Jobs, core_thread_cancel(j) PROVE OneInv'
    BY <1>2, <2>0, <2>3 DEF core_thread_cancel
  <2>4. ASSUME NEW j \in Jobs, core_thread_wait(j) PROVE OneInv'
    <3>1. main'.op \notin Making /\ max' = 1 /\ count' = count
      BY <1>1, <2>4 DEF core_thread_wait, Making, MainType
    <3> QED
      BY <1>3, <2>0, <3>1
  <2>5. ASSUME NEW n \in MaxValues, core_thread_max_set(n) PROVE OneInv'
    <3>1. max' = 1 /\ count' = count /\ main'.op \notin Making
      BY <2>5 DEF core_thread_max_set, PoolOfOne, ApiReady, Making
    <3> QED
      BY <1>3, <2>0, <3>1
  <2>6. CASE ShutdownPending \/ _core_thread_init
    <3>1. max' = 1 /\ count' = count /\ main'.op \notin Making
      BY <1>1, <2>6 DEF ShutdownPending, _core_thread_init, PoolOfOne, Idle, Making
    <3> QED
      BY <1>3, <2>0, <3>1
  <2> QED
    BY <1>5, <2>1, <2>2, <2>3, <2>4, <2>5, <2>6 DEF Api
<1>6. CASE LastFail \/ FeedbackGiveUp
  <2>1. main.op \in Making /\ main.op \in Starting
    BY <1>6 DEF LastFail, FeedbackGiveUp, Making, Starting
  <2>2. main.job \in Jobs
    BY <2>1, Parts DEF MainInv
  <2>3. PICK i \in Jobs : i = main.job
    BY <2>2
  <2>4. /\ max' = max /\ count' = count
        /\ \/ /\ main' = [main EXCEPT !.op = "giveup"] /\ UNCHANGED <<hist, pending, pendingFb>>
           \/ main' = Idle /\ (TakeBack(i) \/ hist' = hist)
    BY <1>6, <2>3 DEF LastFail, FeedbackGiveUp
  <2>5. NoLateTakeBack'
    <3>1. CASE hist' = hist
      BY <1>1, <3>1 DEF NoLateTakeBack
    <3>2. CASE TakeBack(i)
      BY <1>1, <2>1, <2>3, <3>2, TakeBackInTime
    <3> QED
      BY <2>4, <3>1, <3>2
  <2>6. CASE main' = Idle
    BY <1>1, <1>3, <2>4, <2>5, <2>6 DEF Idle, Making
  <2>7. CASE main' = [main EXCEPT !.op = "giveup"] /\ UNCHANGED <<hist, pending, pendingFb>>
    <3>1. main'.job = main.job
      BY <1>1, <2>7 DEF MainType
    <3> QED
      BY <1>2, <2>1, <2>4, <2>5, <2>7, <3>1
  <2> QED
    BY <2>4, <2>6, <2>7
<1>7. CASE MainStep /\ ~LastFail /\ ~FeedbackGiveUp
  <2>0. NoLateTakeBack'
    BY <1>1, <1>7, LateSteps
  <2>1. ASSUME NEW w \in Threads, CreateOk(w) PROVE OneInv'
    <3>1. count' = count + 1 /\ max' = max /\ main' = Idle /\ main.op \in Making
      BY <2>1 DEF CreateOk, Making
    <3> QED
      BY <1>1, <2>0, <3>1 DEF OneInv, Idle, Making
  <2>2. CASE DirectFail
    <3>1. Enqueue(main.job, "feedback", TRUE) /\ max' = max /\ count' = count /\ main.op \in Starting
      BY <2>2 DEF DirectFail, Starting
    <3>2. main.job \in Jobs
      BY <3>1, Parts DEF MainInv
    <3> QED
      BY <1>4, <2>0, <3>1, <3>2
  <2>3. CASE FirstFail \/ FlushDone
    <3>1. max' = max /\ count' = count /\ pending' = pending /\ pendingFb' = pendingFb
      BY <2>3 DEF FirstFail, FlushDone
    <3>2. main'.op \in Making => main.op \in Making /\ main'.job = main.job
      BY <1>1, <2>3 DEF FirstFail, FlushDone, Making, MainType
    <3> QED
      BY <1>2, <2>0, <3>1, <3>2
  <2>4. CASE NotifyReturn \/ FlushTake
    <3>1. max' = max /\ count' = count /\ pending' = pending /\ pendingFb' = pendingFb
      BY <2>4 DEF NotifyReturn, FlushTake
    <3>2. main'.op = main.op /\ main'.job = main.job
      BY <1>1, <2>4 DEF NotifyReturn, FlushTake, MainType
    <3> QED
      BY <1>2, <2>0, <3>1, <3>2
  <2>5. ASSUME NEW j \in Jobs, _core_thread_handler(j) \/ _Core_notify_handler(j) PROVE OneInv'
    <3>1. max' = max /\ count' = count /\ pending' = pending /\ pendingFb' = pendingFb
      BY <2>5 DEF _core_thread_handler, _Core_notify_handler
    <3>2. main'.op = main.op /\ main'.job = main.job
      BY <1>1, <2>5 DEF _core_thread_handler, _Core_notify_handler, MainType
    <3> QED
      BY <1>2, <2>0, <3>1, <3>2
  <2>6. ASSUME NEW w \in Threads, DirectOk(w) \/ _core_thread_join(w) PROVE OneInv'
    <3>1. max' = max /\ count' = count /\ pending' = pending /\ pendingFb' = pendingFb
      BY <2>6 DEF DirectOk, _core_thread_join
    <3>2. main' = main \/ main'.op \notin Making
      BY <1>1, <2>6 DEF DirectOk, _core_thread_join, Idle, Making
    <3> QED
      BY <1>2, <2>0, <3>1, <3>2
  <2>7. CASE DirectCount \/ WaitReturn \/ ShutdownCancel \/ ShutdownDrained \/ ShutdownGiveUp \/ ShutdownDone
    <3>1. max' = max /\ count' = count
      BY <2>7 DEF DirectCount, WaitReturn, ShutdownCancel, ShutdownDrained, ShutdownGiveUp, ShutdownDone
    <3>2. main'.op \notin Making
      <4>1. \/ main' = Idle
            \/ \E p \in {"drain", "final", "gaveup", "down", "left"} : main' = [main EXCEPT !.op = p]
        BY <2>7 DEF DirectCount, WaitReturn, ShutdownCancel, ShutdownDrained, ShutdownGiveUp, ShutdownDone
      <4> QED
        BY <1>1, <4>1 DEF Idle, Making, MainType
    <3> QED
      BY <1>1, <1>3, <2>0, <3>1, <3>2
  <2> QED
    BY <1>7, <2>1, <2>2, <2>3, <2>4, <2>5, <2>6, <2>7 DEF MainStep
<1>8. ASSUME NEW w \in Threads, ThreadStep(w) \/ UserStep(w), ~LastFail, ~FeedbackGiveUp PROVE OneInv'
  <2>0. NoLateTakeBack'
    BY <1>1, <1>8, LateSteps DEF Next
  <2>1. max' = max /\ main' = main
    BY <1>8 DEF ThreadStep, UserStep, PopShort, PopFeedback, AddRunning, ReadCancel, LeaveRunning, PostOutcome,
                CheckPending, ThreadExit, DirectStart, DirectCleanup, FunctionReturn, FunctionKilled,
                core_thread_feedback, core_thread_reschedule, SelfCancel
  <2>2. CASE main.op \in Making
    <3>1. At(PoolPC) = 0
      BY <1>1, <2>2, Parts, CountAt
    <3>2. thr[w].pc \notin PoolPC
      BY <3>1, AtType
    <3>3. count' = count /\ pending' = pending /\ pendingFb' = pendingFb
      BY <1>8, <3>2 DEF ThreadStep, UserStep, PopShort, PopFeedback, AddRunning, ReadCancel, LeaveRunning,
                PostOutcome, CheckPending, ThreadExit, DirectStart, DirectCleanup, FunctionReturn,
                FunctionKilled, core_thread_feedback, core_thread_reschedule, SelfCancel, PoolPC
    <3> QED
      BY <1>2, <2>0, <2>1, <3>3
  <2>3. CASE main.op \notin Making
    <3>1. count' = count \/ count' = count - 1
      BY <1>8 DEF ThreadStep, UserStep, PopShort, PopFeedback, AddRunning, ReadCancel, LeaveRunning,
                PostOutcome, CheckPending, ThreadExit, DirectStart, DirectCleanup, FunctionReturn,
                FunctionKilled, core_thread_feedback, core_thread_reschedule, SelfCancel
    <3> QED
      BY <1>1, <2>0, <2>1, <2>3, <3>1 DEF OneInv
  <2> QED
    BY <2>2, <2>3
<1>9. CASE Ended \/ UNCHANGED vars
  <2>1. UNCHANGED vars
    BY <1>9 DEF Ended
  <2>2. NoLateTakeBack'
    BY <1>1, <2>1 DEF NoLateTakeBack, vars
  <2> QED
    BY <1>2, <2>1, <2>2 DEF vars
<1> QED
  BY <1>5, <1>6, <1>7, <1>8, <1>9 DEF Next

\* At most one failed creation keeps FewInv.
LEMMA FewStep == ASSUME OneFailure, PoolInv, FewInv, [Next]_vars PROVE FewInv'
<1>1. /\ fails \in Nat /\ MaxFail \in Nat /\ MaxFail < 2 /\ NoLateTakeBack /\ main \in MainType
      /\ main.op # "giveup" /\ (main.op = "create" => ~main.tried)
      /\ main.op \in {"flush", "retry", "dflush", "dretry"} => fails >= 1
  BY Parts, BoundAssumption DEF FewInv, OneFailure
<1>2. ~LastFail /\ ~FeedbackGiveUp /\ ~DirectFail
  <2>1. ASSUME LastFail PROVE fails < MaxFail /\ (main.op = "retry" \/ (main.op = "create" /\ main.tried))
    BY <2>1 DEF LastFail
  <2>2. ASSUME FeedbackGiveUp PROVE main.op = "giveup"
    BY <2>2 DEF FeedbackGiveUp
  <2>3. ASSUME DirectFail PROVE fails < MaxFail /\ main.op = "dretry"
    BY <2>3 DEF DirectFail
  <2> QED
    BY <1>1, <2>1, <2>2, <2>3
<1>3. NoLateTakeBack'
  BY <1>1, <1>2, LateSteps
<1>4. ASSUME fails' = fails, main'.op = main.op, main'.tried = main.tried PROVE FewInv'
  BY <1>1, <1>3, <1>4 DEF FewInv
<1>5. ASSUME main'.op \notin {"giveup", "create", "flush", "retry", "dflush", "dretry"} PROVE FewInv'
  BY <1>3, <1>5 DEF FewInv
<1>6. ASSUME NEW i, NEW k, Enqueue(i, k, FALSE) PROVE FewInv'
  <2>1. main'.op \in {"idle", "create"} /\ ~main'.tried
    BY <1>6 DEF Enqueue, Idle
  <2> QED
    BY <1>3, <2>1 DEF FewInv
<1>7. CASE Api
  <2>1. ASSUME NEW j \in Jobs, core_thread_run(j) PROVE FewInv'
    BY <1>6, <2>1 DEF core_thread_run
  <2>2. ASSUME NEW j \in Jobs, NEW t \in BOOLEAN, core_thread_feedback_run(j, t) PROVE FewInv'
    <3>1. CASE t
      <4>1. main' = [Idle EXCEPT !.op = "direct", !.job = j]
        BY <2>2, <3>1 DEF core_thread_feedback_run
      <4>2. main'.op = "direct"
        BY <4>1 DEF Idle
      <4> QED
        BY <1>5, <4>2
    <3>2. CASE ~t
      BY <1>6, <2>2, <3>2 DEF core_thread_feedback_run
    <3> QED
      BY <3>1, <3>2
  <2>3. ASSUME NEW j \in Jobs, core_thread_cancel(j) PROVE FewInv'
    BY <1>4, <2>3 DEF core_thread_cancel
  <2>4. ASSUME NEW j \in Jobs, core_thread_wait(j) PROVE FewInv'
    <3>1. main'.op = "wait"
      BY <1>1, <2>4 DEF core_thread_wait, MainType
    <3> QED
      BY <1>5, <3>1
  <2>5. ASSUME NEW n \in MaxValues, core_thread_max_set(n) PROVE FewInv'
    BY <1>4, <2>5 DEF core_thread_max_set
  <2>6. CASE ShutdownPending \/ _core_thread_init
    <3>1. main'.op \in {"sdcancel", "idle"}
      BY <2>6 DEF ShutdownPending, _core_thread_init, Idle
    <3> QED
      BY <1>5, <3>1
  <2> QED
    BY <1>7, <2>1, <2>2, <2>3, <2>4, <2>5, <2>6 DEF Api
<1>8. CASE MainStep
  <2>1. CASE FirstFail
    <3>1. /\ fails' = fails + 1 /\ main'.op \in {"flush", "dflush"}
      BY <1>1, <2>1 DEF FirstFail, MainType
    <3> QED
      BY <1>1, <1>3, <3>1 DEF FewInv
  <2>2. CASE FlushDone
    <3>1. /\ fails' = fails /\ main'.op \in {"retry", "dretry"} /\ fails >= 1
      BY <1>1, <2>2 DEF FlushDone, MainType
    <3> QED
      BY <1>1, <1>3, <3>1 DEF FewInv
  <2>3. CASE NotifyReturn \/ FlushTake
    <3>1. fails' = fails /\ main'.op = main.op /\ main'.tried = main.tried
      BY <1>1, <2>3 DEF NotifyReturn, FlushTake, MainType
    <3> QED
      BY <1>4, <3>1
  <2>4. ASSUME NEW j \in Jobs, _core_thread_handler(j) \/ _Core_notify_handler(j) PROVE FewInv'
    <3>1. fails' = fails /\ main'.op = main.op /\ main'.tried = main.tried
      BY <1>1, <2>4 DEF _core_thread_handler, _Core_notify_handler, MainType
    <3> QED
      BY <1>4, <3>1
  <2>5. ASSUME NEW w \in Threads, CreateOk(w) \/ DirectOk(w) \/ _core_thread_join(w) PROVE FewInv'
    <3>1. CASE CreateOk(w)
      <4>1. main'.op = "idle"
        BY <3>1 DEF CreateOk, Idle
      <4> QED
        BY <1>5, <4>1
    <3>2. CASE DirectOk(w)
      <4>1. main' = [Idle EXCEPT !.op = "dcount", !.job = main.job]
        BY <3>2 DEF DirectOk
      <4>2. main'.op = "dcount"
        BY <4>1 DEF Idle
      <4> QED
        BY <1>5, <4>2
    <3>3. CASE _core_thread_join(w)
      BY <1>4, <3>3 DEF _core_thread_join
    <3> QED
      BY <2>5, <3>1, <3>2, <3>3
  <2>6. CASE DirectCount \/ WaitReturn \/ ShutdownCancel \/ ShutdownDrained \/ ShutdownGiveUp \/ ShutdownDone
    <3>1. \/ main' = Idle
          \/ \E p \in {"drain", "final", "gaveup", "down", "left"} : main' = [main EXCEPT !.op = p]
      BY <2>6 DEF DirectCount, WaitReturn, ShutdownCancel, ShutdownDrained, ShutdownGiveUp, ShutdownDone
    <3>2. main'.op \in {"idle", "drain", "final", "gaveup", "down", "left"}
      BY <1>1, <3>1 DEF Idle, MainType
    <3> QED
      BY <1>5, <3>2
  <2> QED
    BY <1>2, <1>8, <2>1, <2>2, <2>3, <2>4, <2>5, <2>6 DEF MainStep
<1>9. ASSUME NEW w \in Threads, ThreadStep(w) \/ UserStep(w) PROVE FewInv'
  <2>1. fails' = fails /\ main' = main
    BY <1>9 DEF ThreadStep, UserStep, PopShort, PopFeedback, AddRunning, ReadCancel, LeaveRunning, PostOutcome,
                CheckPending, ThreadExit, DirectStart, DirectCleanup, FunctionReturn, FunctionKilled,
                core_thread_feedback, core_thread_reschedule, SelfCancel
  <2> QED
    BY <1>4, <2>1
<1>10. CASE Ended \/ UNCHANGED vars
  BY <1>4, <1>10 DEF Ended, vars
<1> QED
  BY <1>7, <1>8, <1>9, <1>10 DEF Next

-----------------------------------------------------------------------------
(* Theorems *)

\* The places of every job stay counted as PoolInv says, whatever the threads, the
\* main loop and the program do (core_thread.c as a whole).
THEOREM PoolInvariant == Spec => []PoolInv
<1>1. Init => PoolInv
  BY InitPool
<1>2. PoolInv /\ [Next]_vars => PoolInv'
  BY PoolStep
<1> QED
  BY <1>1, <1>2, PTL DEF Spec

\* Every variable of the pool keeps its type; in particular _core_thread_count never
\* goes below zero, whichever threads end and whichever creations fail.
THEOREM TypeCorrect == Spec => []TypeOK
<1>1. PoolInv => TypeOK
  BY DEF PoolInv
<1> QED
  BY <1>1, PoolInvariant, PTL

\* _core_thread_count and _core_thread_count_no_queue are exact for any number of
\* threads, so the loop of _core_thread_shutdown knows whether a thread is left.
THEOREM CountsAreExact == Spec => []CountExact
<1>1. PoolInv => CountExact
  BY DEF PoolInv
<1> QED
  BY <1>1, PoolInvariant, PTL

\* No job points to a waiter of core_thread_wait that has returned.
THEOREM WaiterIsOnStack == Spec => []WaiterOnStack
<1>1. PoolInv => WaiterOnStack
  BY DEF PoolInv
<1> QED
  BY <1>1, PoolInvariant, PTL

\* Every job gets exactly one of func_end and func_cancel, when it is released,
\* however cancellation, rescheduling, pthread_cancel, failed creations,
\* core_thread_wait and shutdown are interleaved (_core_thread_kill), until a failed
\* creation takes a job back that a pool thread has taken (core_thread_run).
THEOREM CalledBackOnce == Spec => [](NoLateTakeBack => CallbackOnce)
<1>1. ASSUME PoolInv, NoLateTakeBack PROVE CallbackOnce
  <2>1. ASSUME NEW j \in Jobs
        PROVE  hist[j].ends + hist[j].cancels = IF job[j].kind # "none" /\ ~job[j].live THEN 1 ELSE 0
    <3>1. JobState(j) /\ hist[j].ends \in Nat /\ hist[j].cancels \in Nat
      BY <1>1, JobFacts
    <3>2. ~hist[j].stale
      BY <1>1 DEF NoLateTakeBack
    <3> QED
      BY <3>1, <3>2 DEF JobState, JobOK
  <2> QED
    BY <2>1 DEF CallbackOnce
<1> QED
  BY <1>1, PoolInvariant, PTL

\* With a pool of one thread, however many creations fail, or with at most one failed
\* creation and any pool, core_thread_run and core_thread_feedback_run never take back
\* a job that a pool thread has taken: the double callback of CoreThreadTakenBack needs
\* a second pool thread and a second failure.
THEOREM TakenBackInTime == PoolOfOne \/ OneFailure => (Spec => []NoLateTakeBack)
<1>1. Init => NoLateTakeBack
  BY DEF Init, NoLateTakeBack
<1>2. ASSUME PoolOfOne PROVE Spec => []NoLateTakeBack
  <2>1. Init => OneInv
    BY <1>1, <1>2 DEF Init, OneInv, PoolOfOne, Idle, Making
  <2>2. PoolInv /\ OneInv /\ [Next]_vars => OneInv'
    BY <1>2, OneStep
  <2>3. OneInv => NoLateTakeBack
    BY DEF OneInv
  <2> QED
    BY <2>1, <2>2, <2>3, PoolInvariant, PTL DEF Spec
<1>3. ASSUME OneFailure PROVE Spec => []NoLateTakeBack
  <2>1. Init => FewInv
    BY <1>1 DEF Init, FewInv, Idle
  <2>2. PoolInv /\ FewInv /\ [Next]_vars => FewInv'
    BY <1>3, FewStep
  <2>3. FewInv => NoLateTakeBack
    BY DEF FewInv
  <2> QED
    BY <2>1, <2>2, <2>3, PoolInvariant, PTL DEF Spec
<1> QED
  BY <1>2, <1>3

\* As long as no feedback job is rescheduled, a released job is on no list, with no
\* thread, in no posted call and not under its func_notify: nothing that is still to
\* run touches the structure that core_thread.c has freed, until a failed creation
\* takes a job back that a pool thread has taken (core_thread_run).
THEOREM ReleasedIsUnused == NoFbResched => (Spec => [](NoLateTakeBack => NoUseAfterRelease))
<1> SUFFICES ASSUME NoFbResched PROVE Spec => [](NoLateTakeBack => NoUseAfterRelease)
  OBVIOUS
<1>1. ASSUME PoolInv, NoLateTakeBack PROVE NoUseAfterRelease
  <2>1. ASSUME NEW j \in Jobs, j \in InUse PROVE job[j].live
    <3> SUFFICES ASSUME ~job[j].live PROVE FALSE
      OBVIOUS
    <3>0. ~hist[j].stale
      BY <1>1 DEF NoLateTakeBack
    <3>1. /\ JobState(j) /\ Listed(j) \in Nat /\ ListedFb(j) \in Nat /\ Kept(j) \in 0..1
          /\ Held(j) \in Nat /\ Told(j) \in Nat /\ Noted(j) \in Nat
          /\ Listed(j) = 0 <=> j \notin Elements(pending)
          /\ ListedFb(j) = 0 <=> j \notin Elements(pendingFb)
      BY <1>1, JobFacts
    <3>2. Listed(j) + ListedFb(j) + Kept(j) + Held(j) + Told(j) = 0
      BY <3>0, <3>1 DEF JobState, JobOK
    <3>3. Noted(j) = 0 /\ main.cbk # j
      BY <2>1, <3>0, <3>1 DEF JobState, JobOK
    <3>4. Listed(j) = 0 /\ ListedFb(j) = 0 /\ Held(j) = 0 /\ Told(j) = 0
      <4>1. /\ Listed(j) \in Nat /\ ListedFb(j) \in Nat /\ Kept(j) \in Nat
            /\ Held(j) \in Nat /\ Told(j) \in Nat
        BY <3>1
      <4> QED
        BY <3>2, <4>1
    <3>5. j \notin Elements(pending) /\ j \notin Elements(pendingFb)
      BY <3>1, <3>4
    <3>6. \A w \in Threads : thr[w].work # j
      BY <3>4, HeldBy
    <3>7. j \notin running
      BY <1>1, <3>6, Parts DEF RunningInv
    <3>8. /\ <<"handler", j>> \notin Elements(orders) \cup Elements(outer) \cup Elements(inner)
          /\ <<"notify", j>> \notin Elements(orders) \cup Elements(outer) \cup Elements(inner)
      BY <1>1, <3>3, <3>4, Parts, PostedType DEF Told, Noted
    <3>9. ASSUME NEW s \in Seq(Order), j \in OrderJobs(s)
          PROVE  <<"handler", j>> \in Elements(s) \/ <<"notify", j>> \in Elements(s)
      <4>1. PICK o \in Elements(s) : o[1] # "join" /\ o[2] = j
        BY <3>9 DEF OrderJobs
      <4>2. o \in Order
        BY <4>1 DEF Elements
      <4>3. o \in {"handler", "notify"} \X Jobs
        BY <4>1, <4>2 DEF Order
      <4>4. o = <<"handler", j>> \/ o = <<"notify", j>>
        BY <4>1, <4>3
      <4> QED
        BY <4>1, <4>4
    <3>10. orders \in Seq(Order) /\ outer \in Seq(Order) /\ inner \in Seq(Order)
      BY <1>1, Parts
    <3>11. j \notin OrderJobs(orders) /\ j \notin OrderJobs(outer) /\ j \notin OrderJobs(inner)
      BY <3>8, <3>9, <3>10
    <3> QED
      BY <2>1, <3>3, <3>5, <3>6, <3>7, <3>11 DEF InUse
  <2> QED
    BY <2>1 DEF NoUseAfterRelease
<1> QED
  BY <1>1, PoolInvariant, PTL

\* As long as no feedback job is rescheduled, every core_thread_feedback of a job has
\* reached func_notify when the job is released (_core_thread_handler's kill flag),
\* until a failed creation takes a job back that a pool thread has taken.
THEOREM NotifiedThenReleased == NoFbResched => (Spec => [](NoLateTakeBack => NotifiedBeforeRelease))
<1> SUFFICES ASSUME NoFbResched PROVE Spec => [](NoLateTakeBack => NotifiedBeforeRelease)
  OBVIOUS
<1>1. ASSUME PoolInv, NoLateTakeBack PROVE NotifiedBeforeRelease
  <2>1. ASSUME NEW j \in Jobs, job[j].kind # "none", ~job[j].live
        PROVE  job[j].received = job[j].send
    <3>0. ~hist[j].stale
      BY <1>1 DEF NoLateTakeBack
    <3>1. JobState(j) /\ Noted(j) \in Nat /\ job[j].send \in Nat /\ job[j].received \in Nat
      BY <1>1, JobFacts
    <3>2. Noted(j) = 0 /\ Noted(j) = job[j].send - job[j].received
      BY <2>1, <3>0, <3>1 DEF JobState, JobOK
    <3> QED
      BY <3>1, <3>2
  <2> QED
    BY <2>1 DEF NotifiedBeforeRelease
<1> QED
  BY <1>1, PoolInvariant, PTL

\* As long as no function makes its thread cancellable, func_end is only called for a
\* job whose function returned and that nobody had cancelled by then.
THEOREM EndAfterCompletion == NoKill => (Spec => []EndMeansCompleted)
<1> SUFFICES ASSUME NoKill PROVE Spec => []EndMeansCompleted
  OBVIOUS
<1>1. ASSUME PoolInv PROVE EndMeansCompleted
  <2>1. ASSUME NEW j \in Jobs, hist[j].ends > 0 PROVE hist[j].completed /\ ~job[j].cancel
    <3>1. JobState(j)
      BY <1>1, JobFacts
    <3> QED
      BY <2>1, <3>1 DEF JobState, JobOK
  <2> QED
    BY <2>1 DEF EndMeansCompleted
<1> QED
  BY <1>1, PoolInvariant, PTL

\* As long as no function makes its thread cancellable: a _core_thread_shutdown whose
\* loop found the counters 0 leaves no thread, no posted call and no job, and one that
\* gave up after its fifty rounds leaves no job that is not with the threads still there.
THEOREM ShutdownOutcomes == NoKill => (Spec => []ShutdownOutcome)
<1> SUFFICES ASSUME NoKill PROVE Spec => []ShutdownOutcome
  OBVIOUS
<1>1. ASSUME PoolInv, main.op = "down"
      PROVE  /\ \A w \in Threads : thr[w].pc = "none"
             /\ orders = <<>> /\ outer = <<>> /\ inner = <<>>
             /\ \A j \in Jobs : ~job[j].live
  <2>1. orders = <<>> /\ outer = <<>> /\ inner = <<>> /\ \A w \in Threads : thr[w].pc \in {"none", "gone"}
    BY <1>1, Parts DEF ShutInv, MainInv, Ending, Flushing
  <2>2. \A x : Posted(x) = 0
    BY <2>1, OccEmpty DEF Posted
  <2>3. \A w \in Threads : thr[w].pc = "none" /\ thr[w].work = NoJob
    <3>1. ASSUME NEW w \in Threads PROVE thr[w].pc = "none" /\ thr[w].work = NoJob
      <4>1. ThreadOK(w) /\ Posted(<<"join", w>>) = 0
        BY <1>1, <2>2, Parts DEF ThreadInv
      <4>2. thr[w].pc # "gone"
        BY <4>1 DEF ThreadOK
      <4> QED
        BY <2>1, <4>1, <4>2 DEF ThreadOK, PoolWork, DirectWork
    <3> QED
      BY <3>1
  <2>4. pending = <<>> /\ pendingFb = <<>>
    <3>1. \A w \in Threads : ~WillLook(w)
      BY <2>3 DEF WillLook, PoolPC
    <3> QED
      BY <1>1, <3>1, Parts DEF ShutInv, Ending
  <2>5. ASSUME NEW j \in Jobs PROVE ~job[j].live
    <3>1. JobState(j)
      BY <1>1, JobFacts
    <3>2. Listed(j) = 0 /\ ListedFb(j) = 0 /\ Kept(j) = 0 /\ Told(j) = 0 /\ Noted(j) = 0
      BY <1>1, <2>2, <2>4, OccEmpty DEF Listed, ListedFb, Kept, Told, Noted
    <3>3. Held(j) = 0
      <4>1. \A w \in Threads : thr[w].work # j
        BY <2>3, NoneAssumption
      <4> QED
        BY <4>1, HeldBy
    <3>4. main.cbk # j
      BY <1>1, Parts, NoneAssumption DEF MainInv, Flushing
    <3> QED
      BY <3>1, <3>2, <3>3, <3>4 DEF JobState, JobOK
  <2> QED
    BY <2>1, <2>3, <2>5
<1>2. ASSUME PoolInv, main.op = "left"
      PROVE  /\ outer = <<>> /\ inner = <<>>
             /\ \A j \in Jobs : job[j].live =>
                  \/ \E w \in Threads : thr[w].work = j
                  \/ /\ j \in Elements(pending) \cup Elements(pendingFb)
                     /\ \E w \in Threads : WillLook(w)
                  \/ j \in OrderJobs(orders)
  <2>1. outer = <<>> /\ inner = <<>> /\ main.cbk = NoJob
    BY <1>2, Parts DEF ShutInv, MainInv, Ending, Flushing
  <2>2. ASSUME NEW j \in Jobs, job[j].live,
               \A w \in Threads : thr[w].work # j,
               j \notin Elements(pending) \cup Elements(pendingFb)
        PROVE  j \in OrderJobs(orders)
    <3>1. /\ JobState(j) /\ Listed(j) = 0 /\ ListedFb(j) = 0
          /\ Told(j) \in Nat /\ Noted(j) \in Nat
      BY <1>2, <2>2, JobFacts
    <3>2. Held(j) = 0 /\ Kept(j) = 0 /\ main.cbk # j
      BY <1>2, <2>1, <2>2, HeldBy, NoneAssumption DEF Kept
    <3>3. Told(j) # 0 \/ Noted(j) # 0
      BY <2>2, <3>1, <3>2 DEF JobState, JobOK
    <3>4. <<"handler", j>> \in Elements(orders) \/ <<"notify", j>> \in Elements(orders)
      <4>1. Elements(outer) = {} /\ Elements(inner) = {}
        BY <2>1 DEF Elements
      <4> QED
        BY <1>2, <3>3, <4>1, Parts, PostedType DEF Told, Noted
    <3> QED
      BY <3>4 DEF OrderJobs
  <2>3. ASSUME NEW j \in Jobs, j \in Elements(pending) \cup Elements(pendingFb)
        PROVE  \E w \in Threads : WillLook(w)
    <3>1. pending # <<>> \/ pendingFb # <<>>
      BY <2>3 DEF Elements
    <3> QED
      BY <1>2, <3>1, Parts DEF ShutInv, Ending
  <2> QED
    BY <2>1, <2>2, <2>3
<1>3. PoolInv => ShutdownOutcome
  BY <1>1, <1>2 DEF ShutdownOutcome
<1> QED
  BY <1>3, PoolInvariant, PTL

=============================================================================
