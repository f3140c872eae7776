------------------------ MODULE SafeCallOrderProofs ------------------------
(***************************************************************************)
(* Proofs about the orders of SafeCall, for any number of threads, orders  *)
(* and nested flushes: an order is freed once, after its callback ran, and *)
(* a synchronous call returns after its callback ran once.                 *)
(*                                                                         *)
(* The argument: an order is in one place at a time (the list or one place *)
(* in one batch), so the flush that drops it is the last to know it; a     *)
(* synchronous order comes back to the list only when its thread was woken *)
(* by the flush that dropped it.  Spurious wakeups break the second half:  *)
(* the code does not wait in a loop, and the theorems assume there are     *)
(* none.                                                                   *)
(***************************************************************************)
EXTENDS SafeCallProofs

ItemsOnce(s) == \A i, j \in DOMAIN s : s[i] = s[j] => i = j

\* The orders in a stack of batches, and that each is there once.
InBatches(st) == {o \in Orders : \E b \in DOMAIN st : o \in Elements(st[b])}
BatchesOnce(st) ==
    /\ \A b \in DOMAIN st : ItemsOnce(st[b])
    /\ \A b, c \in DOMAIN st : Elements(st[b]) \cap Elements(st[c]) # {} => b = c

\* The orders that a flush will deal with.
Pending == Elements(cb) \cup InBatches(stack)

OnePlace ==
    /\ ItemsOnce(cb) /\ BatchesOnce(stack)
    /\ Elements(cb) \cap InBatches(stack) = {}
    /\ Pending \subseteq 1..used

\* The state of an order; called says that its callback has been called by the
\* flush that has not yet answered.
OrderOK(r, pending, called) ==
    /\ r.kind = "async" => IF r.live THEN r.runs = 0 /\ ~r.back ELSE r.runs = 1
    /\ r.kind = "sync" =>
          /\ r.live /\ ~r.back
          /\ IF r.woken THEN r.runs = 1 /\ ~pending
             ELSE r.runs = IF called THEN 1 ELSE 0
    /\ r.kind = "cleanup" => r.runs = 1
    /\ r.kind = "suspend" => ~r.back
    /\ pending => r.live

Answering(o) == mpc = "synced" /\ o = Current

OrderStates ==
    /\ \A o \in 1..used : OrderOK(obj[o], o \in Pending, Answering(o))
    /\ \A o \in Orders : o > used => ~obj[o].back

\* The threads that have an order of their own.
Calling(t) == tpc[t] \in {"syncLocked", "syncWait", "beginPost"}

Callers ==
    /\ \A t \in Threads : Calling(t) =>
         /\ mine[t] \in 1..used
         /\ tpc[t] # "beginPost" => obj[mine[t]].kind = "sync"
         /\ tpc[t] = "beginPost" =>
              /\ obj[mine[t]].kind = "suspend" /\ obj[mine[t]].live
              /\ mine[t] \notin Pending
    /\ \A t, u \in Threads : Calling(t) /\ Calling(u) /\ mine[t] = mine[u] => t = u

\* What the main thread works on.
AtWork ==
    /\ mpc = "synced" => obj[Current].kind = "sync" /\ ~obj[Current].woken
    /\ mpc \in Susp => obj[Current].kind = "suspend"

OrderInv == TypeInv /\ OnePlace /\ OrderStates /\ Callers /\ AtWork

-----------------------------------------------------------------------------
(* Lists and batches *)

\* A post appends an order that is not on the list.
LEMMA AppendOnce ==
    ASSUME NEW s \in Seq(Orders), ItemsOnce(s), NEW o \in Orders, o \notin Elements(s)
    PROVE  ItemsOnce(Append(s, o)) /\ Elements(Append(s, o)) = Elements(s) \cup {o}
<1> DEFINE t == Append(s, o)
<1>1. /\ Len(t) = Len(s) + 1 /\ DOMAIN t = 1..Len(s) + 1 /\ DOMAIN s = 1..Len(s)
      /\ t[Len(s) + 1] = o /\ \A i \in 1..Len(s) : t[i] = s[i]
      /\ Len(s) \in Nat
  OBVIOUS
<1>2. \A i \in 1..Len(s) : s[i] # o
  BY <1>1 DEF Elements
<1> HIDE DEF t
<1>3. ItemsOnce(t)
  BY <1>1, <1>2 DEF ItemsOnce
<1>4. Elements(t) = Elements(s) \cup {o}
  <2>1. \A x \in Elements(t) : x \in Elements(s) \cup {o}
    BY <1>1 DEF Elements
  <2>2. \A x \in Elements(s) : x \in Elements(t)
    BY <1>1 DEF Elements
  <2>3. o \in Elements(t)
    BY <1>1 DEF Elements
  <2> QED
    BY <2>1, <2>2, <2>3
<1> QED
  BY <1>3, <1>4 DEF t

\* The stack after a batch was put on top.
LEMMA PushedStack ==
    ASSUME NEW s \in Seq(Seq(Orders)), NEW b \in Seq(Orders)
    PROVE  LET t == <<b>> \o s IN
           /\ t \in Seq(Seq(Orders)) /\ Len(t) = Len(s) + 1 /\ t[1] = b
           /\ \A i \in 1..Len(s) : t[i + 1] = s[i]
           /\ \A i \in DOMAIN t : i = 1 \/ (i - 1 \in 1..Len(s) /\ t[i] = s[i - 1])
<1> DEFINE t == <<b>> \o s
<1>1. <<b>> \in Seq(Seq(Orders)) /\ Len(<<b>>) = 1 /\ <<b>>[1] = b
  OBVIOUS
<1>2. /\ t \in Seq(Seq(Orders)) /\ Len(t) = Len(s) + 1 /\ t[1] = b
      /\ \A i \in 2..Len(s) + 1 : t[i] = s[i - 1]
  BY <1>1
<1> HIDE DEF t
<1>3. \A i \in 1..Len(s) : t[i + 1] = s[i]
  BY <1>2
<1>4. \A i \in DOMAIN t : i = 1 \/ (i - 1 \in 1..Len(s) /\ t[i] = s[i - 1])
  BY <1>2
<1> QED
  BY <1>2, <1>3, <1>4 DEF t

\* A flush that takes a list of new orders.
LEMMA PushOnce ==
    ASSUME NEW s \in Seq(Seq(Orders)), BatchesOnce(s), NEW b \in Seq(Orders), ItemsOnce(b),
           Elements(b) \cap InBatches(s) = {}
    PROVE  /\ BatchesOnce(<<b>> \o s)
           /\ InBatches(<<b>> \o s) = Elements(b) \cup InBatches(s)
<1> DEFINE t == <<b>> \o s
<1>1. /\ t \in Seq(Seq(Orders)) /\ Len(t) = Len(s) + 1 /\ t[1] = b
      /\ \A i \in 1..Len(s) : t[i + 1] = s[i]
      /\ \A i \in DOMAIN t : i = 1 \/ (i - 1 \in 1..Len(s) /\ t[i] = s[i - 1])
  BY PushedStack
<1> HIDE DEF t
<1>2. DOMAIN s = 1..Len(s) /\ DOMAIN t = 1..Len(s) + 1 /\ Len(s) \in Nat
  BY <1>1
<1>3. Elements(b) \subseteq Orders /\ \A i \in DOMAIN s : Elements(s[i]) \subseteq Orders
  BY DEF Elements
<1>4. \A i \in DOMAIN s : Elements(s[i]) \subseteq InBatches(s)
  BY <1>3 DEF InBatches
<1>5. \A i \in DOMAIN t : ItemsOnce(t[i])
  BY <1>1, <1>2 DEF BatchesOnce
<1>6. \A i, j \in DOMAIN t : Elements(t[i]) \cap Elements(t[j]) # {} => i = j
  <2> SUFFICES ASSUME NEW i \in DOMAIN t, NEW j \in DOMAIN t,
                      Elements(t[i]) \cap Elements(t[j]) # {}
               PROVE  i = j
    OBVIOUS
  <2>1. CASE i = 1 /\ j = 1
    BY <2>1
  <2>2. CASE i = 1 /\ j # 1
    <3>1. j - 1 \in DOMAIN s /\ t[j] = s[j - 1] /\ t[i] = b
      BY <1>1, <1>2, <2>2
    <3> QED
      BY <1>4, <3>1
  <2>3. CASE i # 1 /\ j = 1
    <3>1. i - 1 \in DOMAIN s /\ t[i] = s[i - 1] /\ t[j] = b
      BY <1>1, <1>2, <2>3
    <3> QED
      BY <1>4, <3>1
  <2>4. CASE i # 1 /\ j # 1
    <3>1. /\ i - 1 \in DOMAIN s /\ t[i] = s[i - 1]
          /\ j - 1 \in DOMAIN s /\ t[j] = s[j - 1]
      BY <1>1, <1>2, <2>4
    <3>2. i - 1 = j - 1
      BY <3>1 DEF BatchesOnce
    <3> QED
      BY <1>2, <3>2
  <2> QED
    BY <2>1, <2>2, <2>3, <2>4
<1>7. InBatches(t) = Elements(b) \cup InBatches(s)
  <2>1. ASSUME NEW o \in InBatches(t)
        PROVE  o \in Elements(b) \cup InBatches(s)
    <3>1. PICK i \in DOMAIN t : o \in Elements(t[i])
      BY DEF InBatches
    <3>2. CASE i = 1
      BY <1>1, <3>1, <3>2
    <3>3. CASE i # 1
      <4>1. i - 1 \in DOMAIN s /\ t[i] = s[i - 1]
        BY <1>1, <1>2, <3>3
      <4> QED
        BY <1>4, <3>1, <4>1
    <3> QED
      BY <3>2, <3>3
  <2>2. \A o \in Elements(b) : o \in InBatches(t)
    <3>1. 1 \in DOMAIN t /\ t[1] = b
      BY <1>1, <1>2
    <3> QED
      BY <1>3, <3>1 DEF InBatches
  <2>3. ASSUME NEW o \in InBatches(s)
        PROVE  o \in InBatches(t)
    <3>1. PICK i \in DOMAIN s : o \in Elements(s[i])
      BY DEF InBatches
    <3>2. i + 1 \in DOMAIN t /\ t[i + 1] = s[i] /\ o \in Orders
      BY <1>1, <1>2 DEF InBatches
    <3> QED
      BY <3>1, <3>2 DEF InBatches
  <2> QED
    BY <2>1, <2>2, <2>3
<1> QED
  BY <1>5, <1>6, <1>7 DEF BatchesOnce, t

\* A batch is removed: what was in the others is left.
LEMMA PopOnce ==
    ASSUME NEW s \in Seq(Seq(Orders)), BatchesOnce(s), s # <<>>
    PROVE  /\ Head(s) \in Seq(Orders) /\ Tail(s) \in Seq(Seq(Orders))
           /\ ItemsOnce(Head(s)) /\ BatchesOnce(Tail(s))
           /\ Elements(Head(s)) \cap InBatches(Tail(s)) = {}
           /\ InBatches(s) = Elements(Head(s)) \cup InBatches(Tail(s))
<1> DEFINE b == Head(s)
           t == Tail(s)
<1>1. /\ b \in Seq(Orders) /\ b = s[1] /\ t \in Seq(Seq(Orders)) /\ Len(t) = Len(s) - 1
      /\ \A i \in 1..Len(s) - 1 : t[i] = s[i + 1]
      /\ Len(s) \in Nat /\ Len(s) > 0
  OBVIOUS
<1> HIDE DEF b, t
<1>2. DOMAIN s = 1..Len(s) /\ DOMAIN t = 1..Len(s) - 1
  BY <1>1
<1>3. \A i \in DOMAIN t : i + 1 \in DOMAIN s /\ t[i] = s[i + 1]
  BY <1>1, <1>2
<1>4. \A i \in DOMAIN s : i = 1 \/ (i - 1 \in DOMAIN t /\ t[i - 1] = s[i])
  BY <1>1, <1>2
<1>5. Elements(b) \subseteq Orders /\ 1 \in DOMAIN s
  BY <1>1, <1>2 DEF Elements
<1>6. ItemsOnce(b) /\ BatchesOnce(t)
  <2>1. ItemsOnce(b)
    BY <1>1, <1>5 DEF BatchesOnce
  <2>2. \A i \in DOMAIN t : ItemsOnce(t[i])
    BY <1>3 DEF BatchesOnce
  <2>3. ASSUME NEW i \in DOMAIN t, NEW j \in DOMAIN t,
               Elements(t[i]) \cap Elements(t[j]) # {}
        PROVE  i = j
    <3>1. i + 1 = j + 1
      BY <1>3, <2>3 DEF BatchesOnce
    <3> QED
      BY <1>2, <3>1
  <2> QED
    BY <2>1, <2>2, <2>3 DEF BatchesOnce
<1>7. Elements(b) \cap InBatches(t) = {}
  <2> SUFFICES ASSUME NEW o \in Elements(b), NEW i \in DOMAIN t, o \in Elements(t[i]) PROVE FALSE
    BY DEF InBatches
  <2>1. i + 1 = 1
    BY <1>1, <1>3, <1>5 DEF BatchesOnce
  <2> QED
    BY <1>1, <1>2, <2>1
<1>8. InBatches(s) = Elements(b) \cup InBatches(t)
  <2>1. \A o \in InBatches(s) : o \in Elements(b) \cup InBatches(t)
    BY <1>1, <1>4 DEF InBatches
  <2>2. \A o \in Elements(b) : o \in InBatches(s)
    BY <1>1, <1>5 DEF InBatches
  <2>3. \A o \in InBatches(t) : o \in InBatches(s)
    BY <1>3 DEF InBatches
  <2> QED
    BY <2>1, <2>2, <2>3
<1> QED
  BY <1>1, <1>6, <1>7, <1>8 DEF b, t

\* The first order of a batch is taken off.
LEMMA TailOnce ==
    ASSUME NEW b \in Seq(Orders), ItemsOnce(b), b # <<>>
    PROVE  /\ Head(b) \in Orders /\ Tail(b) \in Seq(Orders)
           /\ ItemsOnce(Tail(b)) /\ Head(b) \in Elements(b)
           /\ Elements(Tail(b)) = Elements(b) \ {Head(b)}
<1> DEFINE o == Head(b)
           t == Tail(b)
<1>1. /\ o \in Orders /\ o = b[1] /\ t \in Seq(Orders) /\ Len(t) = Len(b) - 1
      /\ \A i \in 1..Len(b) - 1 : t[i] = b[i + 1]
      /\ Len(b) \in Nat /\ Len(b) > 0
  OBVIOUS
<1> HIDE DEF o, t
<1>2. DOMAIN b = 1..Len(b) /\ DOMAIN t = 1..Len(b) - 1 /\ 1 \in DOMAIN b
  BY <1>1
<1>3. \A i \in DOMAIN t : i + 1 \in DOMAIN b /\ t[i] = b[i + 1] /\ i + 1 # 1
  BY <1>1, <1>2
<1>4. \A i \in DOMAIN b : i = 1 \/ (i - 1 \in DOMAIN t /\ t[i - 1] = b[i])
  BY <1>1, <1>2
<1>5. ItemsOnce(t)
  BY <1>2, <1>3 DEF ItemsOnce
<1>6. o \in Elements(b)
  BY <1>1, <1>2 DEF Elements
<1>7. Elements(t) = Elements(b) \ {o}
  <2>1. \A x \in Elements(t) : x \in Elements(b) /\ x # o
    BY <1>1, <1>2, <1>3 DEF Elements, ItemsOnce
  <2>2. \A x \in Elements(b) : x # o => x \in Elements(t)
    BY <1>1, <1>4 DEF Elements
  <2> QED
    BY <2>1, <2>2
<1> QED
  BY <1>1, <1>5, <1>6, <1>7 DEF o, t

\* A flush drops the order it has dealt with.
LEMMA DropOnce ==
    ASSUME NEW s \in Seq(Seq(Orders)), BatchesOnce(s), s # <<>>, Head(s) # <<>>
    PROVE  LET o == Head(Head(s))
               t == <<Tail(Head(s))>> \o Tail(s)
           IN  o \in InBatches(s) /\ BatchesOnce(t) /\ InBatches(t) = InBatches(s) \ {o}
<1> DEFINE b == Head(s)
           r == Tail(s)
           o == Head(b)
           c == Tail(b)
<1>1. /\ b \in Seq(Orders) /\ r \in Seq(Seq(Orders)) /\ ItemsOnce(b) /\ BatchesOnce(r)
      /\ Elements(b) \cap InBatches(r) = {} /\ InBatches(s) = Elements(b) \cup InBatches(r)
  BY PopOnce
<1> HIDE DEF b, r
<1>2. b # <<>>
  BY DEF b
<1>3. /\ o \in Orders /\ c \in Seq(Orders) /\ ItemsOnce(c) /\ o \in Elements(b)
      /\ Elements(c) = Elements(b) \ {o}
  BY <1>1, <1>2, TailOnce
<1> HIDE DEF o, c
<1>4. BatchesOnce(<<c>> \o r) /\ InBatches(<<c>> \o r) = Elements(c) \cup InBatches(r)
  <2>1. Elements(c) \cap InBatches(r) = {}
    BY <1>1, <1>3
  <2> QED
    BY <1>1, <1>3, <2>1, PushOnce
<1>5. Elements(c) \cup InBatches(r) = InBatches(s) \ {o} /\ o \in InBatches(s)
  BY <1>1, <1>3
<1> QED
  BY <1>4, <1>5 DEF o, c, b, r

-----------------------------------------------------------------------------
(* The orders pending *)

\* A post of an order that is not pending.
LEMMA PostPending ==
    ASSUME TypeOK, OnePlace, NEW o \in 1..used', o \notin Pending, o \in Orders, PostOrder(o),
           stack' = stack, used' \in Nat, used <= used'
    PROVE  OnePlace' /\ Pending' = Pending \cup {o}
<1>1. cb' = Append(cb, o) /\ cb \in Seq(Orders) /\ used \in Nat
  BY DEF PostOrder, TypeOK
<1>2. ItemsOnce(cb') /\ Elements(cb') = Elements(cb) \cup {o}
  BY <1>1, AppendOnce DEF OnePlace, Pending
<1>3. Pending' = Pending \cup {o}
  BY <1>2 DEF Pending
<1>4. 1..used \subseteq 1..used'
  BY <1>1
<1>5. Pending' \subseteq 1..used' /\ Elements(cb') \cap InBatches(stack) = {}
  BY <1>2, <1>3, <1>4 DEF OnePlace, Pending
<1> QED
  BY <1>2, <1>3, <1>5 DEF OnePlace

\* The order being dealt with is dropped.
LEMMA DropPending ==
    ASSUME TypeOK, OnePlace, stack # <<>>, Head(stack) # <<>>, DropOrder,
           cb' = cb, used' = used
    PROVE  OnePlace' /\ Pending' = Pending \ {Current}
<1>1. stack \in Seq(Seq(Orders)) /\ BatchesOnce(stack)
  BY DEF TypeOK, OnePlace
<1>2. /\ Current \in InBatches(stack) /\ BatchesOnce(stack')
      /\ InBatches(stack') = InBatches(stack) \ {Current}
  BY <1>1, DropOnce DEF Current, DropOrder
<1>3. Pending' = Pending \ {Current}
  BY <1>2 DEF Pending, OnePlace
<1> QED
  BY <1>2, <1>3 DEF OnePlace

\* It is pending until then.
LEMMA CurrentPending ==
    ASSUME TypeOK, OnePlace, stack # <<>>, Head(stack) # <<>>
    PROVE  Current \in Pending /\ Current \in Orders /\ Current \in 1..used
<1>1. stack \in Seq(Seq(Orders)) /\ BatchesOnce(stack)
  BY DEF TypeOK, OnePlace
<1>2. Current \in InBatches(stack)
  BY <1>1, DropOnce DEF Current
<1> QED
  BY <1>2 DEF Pending, OnePlace, InBatches

\* A flush takes the list, or returns.
LEMMA FlushPending ==
    ASSUME TypeOK, OnePlace, FlushTake \/ FlushEnd
    PROVE  OnePlace' /\ Pending' = Pending
<1>1. /\ stack \in Seq(Seq(Orders)) /\ BatchesOnce(stack) /\ cb \in Seq(Orders)
      /\ ItemsOnce(cb) /\ Elements(cb) \cap InBatches(stack) = {}
      /\ Elements(<<>>) = {} /\ ItemsOnce(<<>>)
  BY DEF TypeOK, OnePlace, Elements, ItemsOnce
<1>2. CASE FlushTake
  <2>1. stack' = <<cb>> \o stack /\ cb' = <<>> /\ used' = used
    BY <1>2 DEF FlushTake
  <2>2. BatchesOnce(stack') /\ InBatches(stack') = Elements(cb) \cup InBatches(stack)
    BY <1>1, <2>1, PushOnce
  <2>3. Elements(cb') = {} /\ ItemsOnce(cb')
    BY <1>1, <2>1
  <2> QED
    BY <2>1, <2>2, <2>3 DEF OnePlace, Pending
<1>3. CASE FlushEnd
  <2>1. stack # <<>> /\ Head(stack) = <<>> /\ stack' = Tail(stack) /\ cb' = cb /\ used' = used
    BY <1>3 DEF FlushEnd, Working
  <2>2. BatchesOnce(stack') /\ InBatches(stack) = Elements(Head(stack)) \cup InBatches(stack')
    BY <1>1, <2>1, PopOnce
  <2>3. InBatches(stack') = InBatches(stack)
    BY <1>1, <2>1, <2>2
  <2> QED
    BY <2>1, <2>2, <2>3 DEF OnePlace, Pending
<1> QED
  BY <1>2, <1>3

\* A new order object.
LEMMA NewOrderFields ==
    ASSUME TypeOK, NEW t \in Threads, NEW k \in {"async", "sync", "suspend"},
           NEW i \in Nat, Alloc(t, k, i)
    PROVE  /\ Fresh \in Orders /\ Fresh = used + 1 /\ used' = used + 1 /\ used \in Nat
           /\ obj'[Fresh].kind = k /\ obj'[Fresh].live /\ ~obj'[Fresh].woken
           /\ obj'[Fresh].runs = 0 /\ ~obj'[Fresh].back
           /\ \A o \in Orders : o # Fresh => obj'[o] = obj[o]
<1>1. Fresh \in Orders /\ Fresh = used + 1 /\ used' = used + 1 /\ used \in Nat
  BY BoundAssumption DEF Alloc, Fresh, Orders, TypeOK
<1>2. obj' = [obj EXCEPT ![Fresh] = NewOrder(t, k, i)] /\ obj \in [Orders -> Object]
  BY DEF Alloc, TypeOK
<1>3. obj'[Fresh] = NewOrder(t, k, i) /\ \A o \in Orders : o # Fresh => obj'[o] = obj[o]
  BY <1>1, <1>2
<1> QED
  BY <1>1, <1>3 DEF NewOrder

\* A step that leaves the orders, and what is pending, as they are.
LEMMA OrdersKept ==
    ASSUME OrderStates, Pending' = Pending, UNCHANGED <<obj, used>>,
           \A o \in 1..used : Answering(o)' <=> Answering(o)
    PROVE  OrderStates'
<1>1. \A o \in 1..used : OrderOK(obj[o], o \in Pending, Answering(o))
  BY DEF OrderStates
<1>2. \A o \in 1..used' : OrderOK(obj[o], o \in Pending, Answering(o))'
  BY <1>1 DEF OrderOK
<1> QED
  BY <1>2 DEF OrderStates

\* The steps that leave orders, list and batches alone.
LEMMA QuietSteps ==
    ASSUME OrderInv,
           \/ PipeRead \/ SuspendWait \/ Resume \/ BeginMain \/ EndMain \/ HandleSuspend
           \/ FlushTake \/ FlushEnd
           \/ \E t \in Threads : \/ SyncWait(t) \/ BeginGranted(t) \/ BeginDefine(t) \/ End(t)
                                 \/ EndUpdate(t) \/ EndReturn(t) \/ BeginNested(t)
           \/ UNCHANGED vars
    PROVE  OnePlace' /\ OrderStates' /\ Callers' /\ AtWork'
<1>1. /\ TypeOK /\ OnePlace /\ OrderStates /\ Callers /\ AtWork /\ Busy
      /\ tpc \in [Threads -> ThreadPC] /\ mine \in [Threads -> Orders \cup {NoOrder}]
  BY DEF OrderInv, TypeInv, TypeOK
<1>2. UNCHANGED <<obj, used>>
  BY DEF PipeRead, SuspendWait, Resume, BeginMain, EndMain, HandleSuspend, FlushTake,
         FlushEnd, SyncWait, BeginGranted, BeginDefine, End, EndUpdate, EndReturn,
         BeginNested, vars
<1>3. OnePlace' /\ Pending' = Pending
  <2>1. CASE FlushTake \/ FlushEnd
    BY <1>1, <2>1, FlushPending
  <2>2. CASE ~(FlushTake \/ FlushEnd)
    <3>1. UNCHANGED <<cb, stack, used>>
      BY <2>2 DEF PipeRead, SuspendWait, Resume, BeginMain, EndMain, HandleSuspend,
         SyncWait, BeginGranted, BeginDefine, End, EndUpdate, EndReturn, BeginNested, vars
    <3> QED
      BY <1>1, <3>1 DEF OnePlace, Pending
  <2> QED
    BY <2>1, <2>2
<1>4. /\ mpc' = "synced" <=> mpc = "synced"
      /\ mpc \in {"synced"} \cup Susp /\ mpc' # mpc => ~(FlushTake \/ FlushEnd)
      /\ mpc = "synced" => stack' = stack
  BY DEF PipeRead, SuspendWait, Resume, BeginMain, EndMain, HandleSuspend, FlushTake,
         FlushEnd, SyncWait, BeginGranted, BeginDefine, End, EndUpdate, EndReturn,
         BeginNested, vars, HasOrder, Working, Susp
<1>5. \A o \in 1..used : Answering(o)' <=> Answering(o)
  BY <1>4 DEF Answering, Current
<1>6. OrderStates'
  BY <1>1, <1>2, <1>3, <1>5, OrdersKept
<1>7. \A t \in Threads : Calling(t)' =>
        /\ Calling(t) /\ mine'[t] = mine[t]
        /\ tpc'[t] = "beginPost" <=> tpc[t] = "beginPost"
  <2>1. CASE UNCHANGED <<tpc, mine>>
    BY <2>1 DEF Calling
  <2>2. ASSUME NEW u \in Threads,
               \/ SyncWait(u) \/ BeginGranted(u) \/ BeginDefine(u) \/ End(u)
               \/ EndUpdate(u) \/ EndReturn(u)
        PROVE  \A t \in Threads : Calling(t)' =>
                 /\ Calling(t) /\ mine'[t] = mine[t]
                 /\ tpc'[t] = "beginPost" <=> tpc[t] = "beginPost"
    BY <1>1, <2>2 DEF SyncWait, BeginGranted, BeginDefine, End, EndUpdate, EndReturn, Calling
  <2> QED
    BY <2>1, <2>2 DEF PipeRead, SuspendWait, Resume, BeginMain, EndMain, HandleSuspend,
       FlushTake, FlushEnd, BeginNested, vars
<1>8. Callers'
  BY <1>1, <1>2, <1>3, <1>7 DEF Callers, Calling
<1>9. AtWork'
  <2>1. CASE HandleSuspend
    BY <1>1, <2>1 DEF HandleSuspend, HasOrder, AtWork, Current, Susp
  <2>2. CASE ~HandleSuspend
    <3>1. mpc' \in {"synced"} \cup Susp => mpc \in {"synced"} \cup Susp /\ stack' = stack
      BY <2>2 DEF PipeRead, SuspendWait, Resume, BeginMain, EndMain, FlushTake,
         FlushEnd, SyncWait, BeginGranted, BeginDefine, End, EndUpdate, EndReturn,
         BeginNested, vars, Working, Susp
    <3>2. mpc' \in Susp => mpc \in Susp
      BY <1>4, <3>1 DEF Susp
    <3> QED
      BY <1>1, <1>2, <1>4, <3>1, <3>2 DEF AtWork, Current
  <2> QED
    BY <2>1, <2>2
<1> QED
  BY <1>3, <1>6, <1>8, <1>9

\* The calls that allocate an order.
LEMMA AllocSteps ==
    ASSUME OrderInv, TypeOK', NEW t \in Threads,
           CallAsync(t) \/ CallSync(t) \/ Begin(t) \/ CallDirect(t)
    PROVE  OnePlace' /\ OrderStates' /\ Callers' /\ AtWork'
<1>1. /\ TypeOK /\ OnePlace /\ OrderStates /\ Callers /\ AtWork /\ Busy
      /\ tpc \in [Threads -> ThreadPC] /\ mine \in [Threads -> Orders \cup {NoOrder}]
      /\ obj \in [Orders -> Object] /\ used \in Nat
  BY DEF OrderInv, TypeInv, TypeOK
<1>2. /\ Fresh \in Orders /\ Fresh = used + 1 /\ used' = used + 1
      /\ \A o \in Orders : o # Fresh => obj'[o] = obj[o]
      /\ obj'[Fresh].kind \in {"async", "sync", "suspend"}
      /\ ~obj'[Fresh].woken
      /\ CallDirect(t) => /\ obj'[Fresh].kind = "async" /\ ~obj'[Fresh].live
                          /\ obj'[Fresh].runs = 1
      /\ ~CallDirect(t) => obj'[Fresh].live /\ obj'[Fresh].runs = 0 /\ ~obj'[Fresh].back
      /\ CallSync(t) => obj'[Fresh].kind = "sync"
      /\ Begin(t) => obj'[Fresh].kind = "suspend"
  <2>1. CASE CallAsync(t)
    <3>1. Alloc(t, "async", 0) /\ ~CallSync(t) /\ ~Begin(t) /\ ~CallDirect(t)
      BY <1>1, <2>1 DEF CallAsync, CallSync, Begin, CallDirect, Alloc, PostOrder
    <3> QED
      BY <1>1, <3>1, NewOrderFields
  <2>2. CASE CallSync(t)
    <3>1. Alloc(t, "sync", 0) /\ ~Begin(t) /\ ~CallDirect(t)
      BY <1>1, <2>2 DEF CallSync, Begin, CallDirect, Alloc
    <3> QED
      BY <1>1, <3>1, NewOrderFields
  <2>3. CASE Begin(t)
    <3>1. Alloc(t, "suspend", idMax + 1) /\ idMax + 1 \in Nat /\ ~CallSync(t) /\ ~CallDirect(t)
      BY <1>1, <2>3 DEF CallSync, Begin, CallDirect, Alloc, TypeOK
    <3> QED
      BY <1>1, <3>1, NewOrderFields
  <2>4. CASE CallDirect(t)
    <3>1. Fresh \in Orders /\ Fresh = used + 1 /\ used' = used + 1
      BY <1>1, <2>4, BoundAssumption DEF CallDirect, Fresh, Orders, TypeOK
    <3>2. ~CallSync(t) /\ ~Begin(t)
      BY <1>1, <2>4 DEF CallSync, Begin, CallDirect
    <3>3. obj'[Fresh] = [live |-> FALSE, kind |-> "async", by |-> t,
                         id |-> 0, woken |-> FALSE, runs |-> 1, back |-> TRUE]
          /\ \A o \in Orders : o # Fresh => obj'[o] = obj[o]
      BY <1>1, <2>4, <3>1 DEF CallDirect
    <3> QED
      BY <2>4, <3>1, <3>2, <3>3
  <2> QED
    BY <2>1, <2>2, <2>3, <2>4
<1>3. UNCHANGED <<stack, mpc>>
  BY DEF CallAsync, CallSync, Begin, CallDirect
<1>4. Fresh \notin 1..used /\ 1..used' = 1..used \cup {Fresh} /\ 1..used \subseteq Orders
  <2>1. used \in 0..MaxOrders /\ MaxOrders \in Nat
    BY <1>1, BoundAssumption DEF TypeOK
  <2>2. 1..used \subseteq Orders
    BY <2>1 DEF Orders
  <2>3. Fresh \notin 1..used /\ 1..used' = 1..used \cup {Fresh}
    BY <1>1, <1>2
  <2> QED
    BY <2>2, <2>3
<1>5. /\ OnePlace'
      /\ Pending' = IF CallAsync(t) \/ CallSync(t) THEN Pending \cup {Fresh} ELSE Pending
  <2>1. CASE CallAsync(t) \/ CallSync(t)
    <3>1. PostOrder(Fresh) /\ Fresh \in 1..used' /\ Fresh \notin Pending /\ used' \in Nat /\ used <= used'
      BY <1>1, <1>2, <1>4, <2>1 DEF CallAsync, CallSync, OnePlace
    <3> QED
      BY <1>1, <1>2, <1>3, <2>1, <3>1, PostPending
  <2>2. CASE ~(CallAsync(t) \/ CallSync(t))
    <3>1. cb' = cb
      BY <2>2 DEF Begin, CallDirect
    <3> QED
      BY <1>1, <1>3, <1>4, <2>2, <3>1 DEF OnePlace, Pending
  <2> QED
    BY <2>1, <2>2
<1>6. Pending \subseteq 1..used
  BY <1>1 DEF OnePlace
<1>7. \A o \in 1..used : (o \in Pending' <=> o \in Pending) /\ obj'[o] = obj[o]
  BY <1>2, <1>4, <1>5
<1>8. Current' = Current /\ (mpc \in {"synced"} \cup Susp => Current \in 1..used)
  <2>1. Current' = Current
    BY <1>3 DEF Current
  <2>2. ASSUME mpc \in {"synced"} \cup Susp PROVE Current \in 1..used
    <3>1. stack # <<>> /\ Head(stack) # <<>>
      BY <1>1, <2>2 DEF Busy
    <3> QED
      BY <1>1, <3>1, CurrentPending
  <2> QED
    BY <2>1, <2>2
<1>9. OrderStates'
  <2>0. PICK f \in Orders : f = Fresh
    BY <1>2
  <2>1. ASSUME NEW o \in 1..used
        PROVE  OrderOK(obj[o], o \in Pending, Answering(o))'
    <3>1. Answering(o)' <=> Answering(o)
      BY <1>3 DEF Answering, Current
    <3>2. OrderOK(obj[o], o \in Pending, Answering(o))
      BY <1>1 DEF OrderStates
    <3> QED
      BY <1>7, <3>1, <3>2 DEF OrderOK
  <2>2. OrderOK(obj[f], f \in Pending, Answering(f))'
    <3>1. ~Answering(f)'
      BY <1>3, <1>4, <1>8, <2>0 DEF Answering
    <3>2. f \in Pending' => ~CallDirect(t)
      BY <1>1, <1>4, <1>5, <1>6, <2>0 DEF CallAsync, CallSync, CallDirect, PostOrder
    <3>3. /\ obj'[f].kind \in {"async", "sync", "suspend"} /\ ~obj'[f].woken
          /\ CallDirect(t) => /\ obj'[f].kind = "async" /\ ~obj'[f].live
                              /\ obj'[f].runs = 1
          /\ ~CallDirect(t) => obj'[f].live /\ obj'[f].runs = 0 /\ ~obj'[f].back
      BY <1>2, <2>0
    <3> QED
      BY <3>1, <3>2, <3>3 DEF OrderOK
  <2>3. \A o \in 1..used' : OrderOK(obj[o], o \in Pending, Answering(o))'
    BY <1>4, <2>0, <2>1, <2>2
  <2>4. \A o \in Orders : o > used' => ~obj'[o].back
    BY <1>1, <1>2 DEF OrderStates, Orders
  <2> QED
    BY <2>3, <2>4 DEF OrderStates
<1>10. Callers'
  <2>1. CASE CallAsync(t) \/ CallDirect(t)
    <3>1. UNCHANGED <<tpc, mine>>
      BY <2>1 DEF CallAsync, CallDirect
    <3> QED
      BY <1>1, <1>4, <1>7, <3>1 DEF Callers, Calling
  <2>2. CASE CallSync(t) \/ Begin(t)
    <3>1. /\ mine' = [mine EXCEPT ![t] = Fresh] /\ ~Calling(t)
          /\ CallSync(t) => tpc' = [tpc EXCEPT ![t] = "syncLocked"]
          /\ Begin(t) => tpc' = [tpc EXCEPT ![t] = "beginPost"]
      BY <2>2 DEF CallSync, Begin, Calling
    <3>2. Begin(t) => Fresh \notin Pending'
      BY <1>1, <1>4, <1>5, <1>6 DEF Begin, CallAsync, CallSync
    <3> QED
      BY <1>1, <1>2, <1>4, <1>7, <2>2, <3>1, <3>2 DEF Callers, Calling
  <2> QED
    BY <2>1, <2>2
<1>11. AtWork'
  BY <1>1, <1>3, <1>7, <1>8 DEF AtWork
<1> QED
  BY <1>5, <1>9, <1>10, <1>11


\* A step that changes one order only.
LEMMA OneOrder ==
    ASSUME OrderStates, used \in Nat, used' = used, NEW c \in 1..used,
           \A o \in Orders : o # c => obj'[o] = obj[o],
           \A o \in 1..used : o # c => /\ o \in Pending' <=> o \in Pending
                                       /\ Answering(o)' <=> Answering(o),
           1..used \subseteq Orders,
           OrderOK(obj[c], c \in Pending, Answering(c))'
    PROVE  OrderStates'
<1>1. ASSUME NEW o \in 1..used, o # c
      PROVE  OrderOK(obj[o], o \in Pending, Answering(o))'
  <2>1. OrderOK(obj[o], o \in Pending, Answering(o))
    BY DEF OrderStates
  <2>2. obj'[o] = obj[o] /\ (o \in Pending' <=> o \in Pending) /\ (Answering(o)' <=> Answering(o))
    BY <1>1
  <2> QED
    BY <2>1, <2>2 DEF OrderOK
<1>2. \A o \in 1..used' : OrderOK(obj[o], o \in Pending, Answering(o))'
  BY <1>1
<1>3. \A o \in Orders : o > used' => ~obj'[o].back
  <2>1. \A o \in Orders : o > used => o # c /\ ~obj[o].back
    BY DEF OrderStates
  <2> QED
    BY <2>1
<1> QED
  BY <1>2, <1>3 DEF OrderStates

\* The thread of a synchronous call is woken: its callback was called, the order
\* is nowhere, and the thread posts it again.
LEMMA ReturnStep ==
    ASSUME OrderInv, NEW t \in Threads, SyncReturn(t), ~Spurious
    PROVE  OnePlace' /\ OrderStates' /\ Callers' /\ AtWork'
<1>1. /\ TypeOK /\ OnePlace /\ OrderStates /\ Callers /\ AtWork /\ Busy
      /\ tpc \in [Threads -> ThreadPC] /\ mine \in [Threads -> Orders \cup {NoOrder}]
      /\ obj \in [Orders -> Object] /\ used \in Nat
  BY DEF OrderInv, TypeInv, TypeOK
<1>2. 1..used \subseteq Orders
  BY <1>1, BoundAssumption DEF TypeOK, Orders
<1>3. PICK c \in Orders : c = mine[t] /\ c \in 1..used
  BY <1>1, <1>2 DEF SyncReturn, Callers, Calling
<1>4. /\ obj[c].woken /\ PostOrder(c)
      /\ obj' = [obj EXCEPT ![c].kind = "cleanup", ![c].back = TRUE]
      /\ tpc' = [tpc EXCEPT ![t] = "idle"] /\ mine' = [mine EXCEPT ![t] = NoOrder]
      /\ UNCHANGED <<used, stack, mpc>>
  BY <1>3 DEF SyncReturn
<1>5. obj[c].kind = "sync" /\ Calling(t)
  BY <1>1, <1>3 DEF SyncReturn, Callers, Calling
<1>6. obj[c].live /\ obj[c].runs = 1 /\ c \notin Pending
  BY <1>1, <1>3, <1>4, <1>5 DEF OrderStates, OrderOK
<1>7. OnePlace' /\ Pending' = Pending \cup {c}
  BY <1>1, <1>3, <1>4, <1>6, PostPending
<1>8. /\ obj'[c].kind = "cleanup" /\ obj'[c].live = obj[c].live /\ obj'[c].runs = obj[c].runs
      /\ \A o \in Orders : o # c => obj'[o] = obj[o]
  BY <1>1, <1>4 DEF Object
<1>9. Current' = Current /\ mpc' = mpc
  BY <1>4 DEF Current
<1>10. OrderStates'
  <2>1. OrderOK(obj[c], c \in Pending, Answering(c))'
    BY <1>6, <1>8 DEF OrderOK
  <2>2. \A o \in 1..used : o # c => /\ o \in Pending' <=> o \in Pending
                                    /\ Answering(o)' <=> Answering(o)
    BY <1>7, <1>9 DEF Answering
  <2> QED
    BY <1>1, <1>2, <1>3, <1>4, <1>8, <2>1, <2>2, OneOrder
<1>11. \A u \in Threads : Calling(u)' => /\ Calling(u) /\ u # t /\ mine'[u] = mine[u]
                                         /\ tpc'[u] = tpc[u] /\ mine[u] # c
  BY <1>1, <1>3, <1>4, <1>5 DEF Calling, Callers
<1>12. Callers'
  BY <1>1, <1>2, <1>4, <1>7, <1>8, <1>11 DEF Callers, Calling
<1>13. mpc \in {"synced"} \cup Susp => Current # c /\ Current \in Orders
  <2> SUFFICES ASSUME mpc \in {"synced"} \cup Susp PROVE Current # c /\ Current \in Orders
    OBVIOUS
  <2>1. stack # <<>> /\ Head(stack) # <<>>
    BY <1>1 DEF Busy
  <2> QED
    BY <1>1, <1>6, <2>1, CurrentPending
<1>14. AtWork'
  BY <1>1, <1>8, <1>9, <1>13 DEF AtWork
<1> QED
  BY <1>7, <1>10, <1>12, <1>14

\* A thread posts the request it has allocated.
LEMMA RequestStep ==
    ASSUME OrderInv, NEW t \in Threads, BeginPost(t)
    PROVE  OnePlace' /\ OrderStates' /\ Callers' /\ AtWork'
<1>1. /\ TypeOK /\ OnePlace /\ OrderStates /\ Callers /\ AtWork
      /\ tpc \in [Threads -> ThreadPC] /\ mine \in [Threads -> Orders \cup {NoOrder}]
      /\ used \in Nat
  BY DEF OrderInv, TypeInv, TypeOK
<1>2. 1..used \subseteq Orders
  BY <1>1, BoundAssumption DEF TypeOK, Orders
<1>3. PICK c \in Orders : c = mine[t] /\ c \in 1..used
  BY <1>1, <1>2 DEF BeginPost, Callers, Calling
<1>4. /\ PostOrder(c) /\ tpc' = [tpc EXCEPT ![t] = "beginWait"]
      /\ UNCHANGED <<obj, used, stack, mpc, mine>>
  BY <1>3 DEF BeginPost
<1>5. obj[c].kind = "suspend" /\ obj[c].live /\ c \notin Pending /\ Calling(t)
  BY <1>1, <1>3 DEF BeginPost, Callers, Calling
<1>6. OnePlace' /\ Pending' = Pending \cup {c}
  BY <1>1, <1>3, <1>4, <1>5, PostPending
<1>7. Current' = Current /\ mpc' = mpc
  BY <1>4 DEF Current
<1>8. OrderStates'
  <2>1. OrderOK(obj[c], c \in Pending, Answering(c))'
    <3>1. ~obj[c].back
      BY <1>1, <1>3, <1>5 DEF OrderStates, OrderOK
    <3> QED
      BY <1>4, <1>5, <3>1 DEF OrderOK
  <2>2. \A o \in 1..used : o # c => /\ o \in Pending' <=> o \in Pending
                                    /\ Answering(o)' <=> Answering(o)
    BY <1>6, <1>7 DEF Answering
  <2>3. \A o \in Orders : o # c => obj'[o] = obj[o]
    BY <1>4
  <2> QED
    BY <1>1, <1>2, <1>3, <1>4, <2>1, <2>2, <2>3, OneOrder
<1>9. \A u \in Threads : Calling(u)' => /\ Calling(u) /\ u # t /\ mine'[u] = mine[u]
                                        /\ tpc'[u] = tpc[u] /\ mine[u] # c
  BY <1>1, <1>3, <1>4, <1>5 DEF Calling, Callers
<1>10. Callers'
  BY <1>1, <1>2, <1>4, <1>6, <1>9 DEF Callers, Calling
<1>11. AtWork'
  BY <1>1, <1>4, <1>7 DEF AtWork
<1> QED
  BY <1>6, <1>8, <1>10, <1>11

\* A flush is done with an order and drops it.
LEMMA DropSteps ==
    ASSUME OrderInv, HandleAsync \/ HandleSynced \/ Feedback
    PROVE  OnePlace' /\ OrderStates' /\ Callers' /\ AtWork'
<1>1. /\ TypeOK /\ OnePlace /\ OrderStates /\ Callers /\ AtWork /\ Busy
      /\ obj \in [Orders -> Object] /\ used \in Nat
  BY DEF OrderInv, TypeInv, TypeOK
<1>2. 1..used \subseteq Orders
  BY <1>1, BoundAssumption DEF TypeOK, Orders
<1>3. stack # <<>> /\ Head(stack) # <<>>
  BY <1>1 DEF HandleAsync, HandleSynced, Feedback, HasOrder, Working, Busy, Susp
<1>4. PICK c \in Orders : c = Current /\ c \in 1..used /\ c \in Pending
  BY <1>1, <1>3, CurrentPending
<1>5. DropOrder /\ UNCHANGED <<cb, used, tpc, mine>> /\ mpc' = "loop"
  BY DEF HandleAsync, HandleSynced, Feedback, HasOrder, Working
<1>6. OnePlace' /\ Pending' = Pending \ {c}
  BY <1>1, <1>3, <1>4, <1>5, DropPending
<1>7. OrderOK(obj[c], TRUE, Answering(c))
  BY <1>1, <1>4 DEF OrderStates, OrderOK
<1>8. /\ \A o \in Orders : o # c => obj'[o] = obj[o]
      /\ obj'[c].kind = obj[c].kind
      /\ OrderOK(obj[c], c \in Pending, Answering(c))'
      /\ \A t \in Threads : tpc[t] = "beginPost" => mine[t] # c
  <2>0. \A t \in Threads : tpc[t] = "beginPost" => mine[t] # c
    BY <1>1, <1>4 DEF Callers, Calling
  <2>1. CASE HandleAsync
    <3>1. CASE obj[c].kind = "async"
      <4>1. obj' = [obj EXCEPT ![c].runs = @ + 1, ![c].live = FALSE]
        BY <1>1, <1>4, <2>1, <3>1 DEF HandleAsync
      <4>2. /\ obj'[c].kind = "async" /\ ~obj'[c].live /\ obj'[c].runs = obj[c].runs + 1
            /\ \A o \in Orders : o # c => obj'[o] = obj[o]
        BY <1>1, <3>1, <4>1 DEF Object
      <4>3. obj[c].runs = 0
        BY <1>7, <3>1 DEF OrderOK
      <4>4. OrderOK(obj[c], c \in Pending, Answering(c))'
        BY <1>6, <4>2, <4>3 DEF OrderOK
      <4> QED
        BY <2>0, <3>1, <4>2, <4>4
    <3>2. CASE obj[c].kind = "cleanup"
      <4>1. obj' = [obj EXCEPT ![c].live = FALSE]
        BY <1>1, <1>4, <2>1, <3>2 DEF HandleAsync
      <4>2. /\ obj'[c].kind = "cleanup" /\ obj'[c].runs = obj[c].runs
            /\ \A o \in Orders : o # c => obj'[o] = obj[o]
        BY <1>1, <3>2, <4>1 DEF Object
      <4>3. obj[c].runs = 1
        BY <1>7, <3>2 DEF OrderOK
      <4>4. OrderOK(obj[c], c \in Pending, Answering(c))'
        BY <1>6, <4>2, <4>3 DEF OrderOK
      <4> QED
        BY <2>0, <3>2, <4>2, <4>4
    <3> QED
      BY <1>4, <2>1, <3>1, <3>2 DEF HandleAsync, HasOrder
  <2>2. CASE HandleSynced
    <3>1. obj' = [obj EXCEPT ![c].woken = TRUE] /\ mpc = "synced"
      BY <1>4, <2>2 DEF HandleSynced
    <3>2. obj[c].kind = "sync" /\ ~obj[c].woken /\ Answering(c)
      BY <1>1, <1>4, <3>1 DEF AtWork, Answering
    <3>3. obj[c].live /\ ~obj[c].back /\ obj[c].runs = 1
      BY <1>7, <3>2 DEF OrderOK
    <3>4. /\ obj'[c].kind = "sync" /\ obj'[c].live = obj[c].live /\ obj'[c].back = obj[c].back
          /\ obj'[c].runs = obj[c].runs /\ obj'[c].woken
          /\ \A o \in Orders : o # c => obj'[o] = obj[o]
      BY <1>1, <3>1, <3>2 DEF Object
    <3>5. OrderOK(obj[c], c \in Pending, Answering(c))'
      BY <1>6, <3>3, <3>4 DEF OrderOK
    <3> QED
      BY <2>0, <3>2, <3>4, <3>5
  <2>3. CASE Feedback
    <3>1. obj' = [obj EXCEPT ![c].live = FALSE] /\ mpc = "feedback"
      BY <1>4, <2>3 DEF Feedback
    <3>2. obj[c].kind = "suspend"
      BY <1>1, <1>4, <3>1 DEF AtWork, Susp
    <3>3. ~obj[c].back
      BY <1>7, <3>2 DEF OrderOK
    <3>4. /\ obj'[c].kind = "suspend" /\ obj'[c].back = obj[c].back
          /\ \A o \in Orders : o # c => obj'[o] = obj[o]
      BY <1>1, <3>1, <3>2 DEF Object
    <3>5. OrderOK(obj[c], c \in Pending, Answering(c))'
      BY <1>6, <3>3, <3>4 DEF OrderOK
    <3> QED
      BY <2>0, <3>2, <3>4, <3>5
  <2> QED
    BY <2>1, <2>2, <2>3
<1>9. OrderStates'
  <2>1. \A o \in 1..used : o # c => /\ o \in Pending' <=> o \in Pending
                                    /\ Answering(o)' <=> Answering(o)
    BY <1>4, <1>5, <1>6 DEF Answering
  <2> QED
    BY <1>1, <1>2, <1>4, <1>5, <1>8, <2>1, OneOrder
<1>10. \A o \in 1..used : obj'[o].kind = obj[o].kind
  BY <1>2, <1>8
<1>11. Callers'
  BY <1>1, <1>2, <1>5, <1>6, <1>8, <1>10 DEF Callers, Calling
<1>12. AtWork'
  BY <1>5 DEF AtWork, Susp
<1> QED
  BY <1>6, <1>9, <1>11, <1>12

\* A flush calls the callback of a synchronous call.
LEMMA SyncStep ==
    ASSUME OrderInv, HandleSync
    PROVE  OnePlace' /\ OrderStates' /\ Callers' /\ AtWork'
<1>1. /\ TypeOK /\ OnePlace /\ OrderStates /\ Callers /\ AtWork /\ Busy
      /\ obj \in [Orders -> Object] /\ used \in Nat
  BY DEF OrderInv, TypeInv, TypeOK
<1>2. 1..used \subseteq Orders
  BY <1>1, BoundAssumption DEF TypeOK, Orders
<1>3. stack # <<>> /\ Head(stack) # <<>> /\ mpc = "loop" /\ mpc' = "synced"
  BY DEF HandleSync, HasOrder, Working
<1>4. PICK c \in Orders : c = Current /\ c \in 1..used /\ c \in Pending
  BY <1>1, <1>3, CurrentPending
<1>5. UNCHANGED <<cb, used, stack, tpc, mine>> /\ obj' = [obj EXCEPT ![c].runs = @ + 1]
  BY <1>4 DEF HandleSync
<1>6. OnePlace' /\ Pending' = Pending /\ Current' = c
  BY <1>1, <1>4, <1>5 DEF OnePlace, Pending, Current
<1>7. obj[c].kind = "sync" /\ ~Answering(c) /\ OrderOK(obj[c], TRUE, FALSE)
  BY <1>1, <1>3, <1>4 DEF HandleSync, HasOrder, OrderStates, OrderOK, Answering
<1>8. obj[c].live /\ ~obj[c].back /\ ~obj[c].woken /\ obj[c].runs = 0
  BY <1>7 DEF OrderOK
<1>9. /\ obj'[c].kind = "sync" /\ obj'[c].live = obj[c].live /\ obj'[c].back = obj[c].back
      /\ obj'[c].woken = obj[c].woken /\ obj'[c].runs = obj[c].runs + 1
      /\ \A o \in Orders : o # c => obj'[o] = obj[o]
  BY <1>1, <1>5, <1>7 DEF Object
<1>10. OrderStates'
  <2>1. Answering(c)' /\ \A o \in 1..used : o # c => ~Answering(o)' /\ ~Answering(o)
    BY <1>3, <1>6 DEF Answering
  <2>2. OrderOK(obj[c], c \in Pending, Answering(c))'
    BY <1>8, <1>9, <2>1 DEF OrderOK
  <2>3. \A o \in 1..used : o # c => /\ o \in Pending' <=> o \in Pending
                                    /\ Answering(o)' <=> Answering(o)
    BY <1>6, <2>1
  <2> QED
    BY <1>1, <1>2, <1>4, <1>5, <1>9, <2>2, <2>3, OneOrder
<1>11. \A o \in 1..used : obj'[o].kind = obj[o].kind /\ obj'[o].live = obj[o].live
  BY <1>2, <1>7, <1>9
<1>12. Callers'
  BY <1>1, <1>2, <1>5, <1>6, <1>11 DEF Callers, Calling
<1>13. AtWork'
  BY <1>3, <1>6, <1>8, <1>9 DEF AtWork, Susp
<1> QED
  BY <1>6, <1>10, <1>12, <1>13

-----------------------------------------------------------------------------
(* The theorems *)

\* Every step keeps every order in one place and in its state.
LEMMA OrderStep == ASSUME ~Spurious PROVE OrderInv /\ [Next]_vars => OrderInv'
<1> SUFFICES ASSUME OrderInv, [Next]_vars PROVE OrderInv'
  OBVIOUS
<1>1. TypeInv' /\ TypeOK'
  BY TypeStep DEF OrderInv, TypeInv
<1>2. OnePlace' /\ OrderStates' /\ Callers' /\ AtWork'
  <2>1. CASE MainStep \/ BeginMain \/ EndMain
    BY <2>1, QuietSteps, DropSteps, SyncStep DEF MainStep
  <2>2. ASSUME NEW t \in Threads, ThreadStep(t) \/ ThreadCall(t)
        PROVE  OnePlace' /\ OrderStates' /\ Callers' /\ AtWork'
    BY <1>1, <2>2, QuietSteps, AllocSteps, ReturnStep, RequestStep DEF ThreadStep, ThreadCall
  <2>3. CASE UNCHANGED vars
    BY <2>3, QuietSteps
  <2> QED
    BY <2>1, <2>2, <2>3 DEF Next
<1> QED
  BY <1>1, <1>2 DEF OrderInv

\* At the start there is no order.
LEMMA InitOrders == Init => OrderInv
<1> SUFFICES ASSUME Init PROVE OrderInv
  OBVIOUS
<1>1. TypeInv
  BY InitType
<1>2. Elements(cb) = {} /\ InBatches(stack) = {} /\ ItemsOnce(cb) /\ BatchesOnce(stack)
  BY DEF Init, Elements, InBatches, ItemsOnce, BatchesOnce
<1>3. OnePlace
  BY <1>2 DEF OnePlace, Pending
<1>4. OrderStates
  BY DEF Init, OrderStates, NoObject
<1>5. Callers /\ AtWork
  BY DEF Init, Callers, Calling, AtWork, Susp
<1> QED
  BY <1>1, <1>3, <1>4, <1>5 DEF OrderInv

\* What the invariant says of the calls and of the orders.
LEMMA OrderImplies == OrderInv => SyncExecuted /\ OrdersLive
<1> SUFFICES ASSUME OrderInv PROVE SyncExecuted /\ OrdersLive
  OBVIOUS
<1>1. /\ TypeOK /\ OnePlace /\ OrderStates /\ obj \in [Orders -> Object]
      /\ used \in Nat /\ Orders \subseteq Nat \ {0}
  BY DEF OrderInv, TypeInv, TypeOK, Orders
<1>2. \A o \in 1..used : OrderOK(obj[o], o \in Pending, Answering(o))
  BY <1>1 DEF OrderStates
<1>3. SyncExecuted
  <2>1. ASSUME NEW o \in Orders, obj[o].back PROVE obj[o].runs = 1
    <3>1. o \in 1..used
      BY <1>1, <2>1 DEF OrderStates
    <3>2. obj[o].kind \in {"async", "sync", "suspend", "cleanup"}
      BY <1>1 DEF Object
    <3> QED
      BY <1>2, <2>1, <3>1, <3>2 DEF OrderOK
  <2> QED
    BY <2>1 DEF SyncExecuted
<1>4. \A o \in Pending : obj[o].live
  BY <1>1, <1>2 DEF OnePlace, OrderOK
<1>5. \A o \in 1..used : ~obj[o].live /\ obj[o].kind # "suspend" => obj[o].runs = 1
  <2>1. ASSUME NEW o \in 1..used, ~obj[o].live, obj[o].kind # "suspend" PROVE obj[o].runs = 1
    <3>1. obj[o].kind \in {"async", "sync", "suspend", "cleanup"}
      BY <1>1, BoundAssumption DEF Object, TypeOK, Orders
    <3> QED
      BY <1>2, <2>1, <3>1 DEF OrderOK
  <2> QED
    BY <2>1
<1>6. ASSUME NEW b \in Elements(stack), NEW o \in Elements(b) PROVE o \in Pending
  <2>1. PICK i \in DOMAIN stack : b = stack[i]
    BY DEF Elements
  <2>2. stack[i] \in Seq(Orders)
    BY <1>1 DEF TypeOK
  <2>3. o \in Orders
    BY <2>1, <2>2 DEF Elements
  <2> QED
    BY <2>1, <2>3 DEF Pending, InBatches
<1>7. \A o \in Elements(cb) : o \in Pending
  BY DEF Pending
<1> QED
  BY <1>3, <1>4, <1>5, <1>6, <1>7 DEF OrdersLive

\* Every order is in one place and in its state in every behaviour, when
\* eina_condition_wait returns only after a broadcast.
LEMMA OrderInvariant == ~Spurious => (Spec => []OrderInv)
<1> SUFFICES ASSUME ~Spurious PROVE Spec => []OrderInv
  OBVIOUS
<1>1. OrderInv /\ [Next]_vars => OrderInv'
  BY OrderStep
<1> QED
  BY <1>1, InitOrders, PTL DEF Spec

\* core_main_loop_thread_safe_call_sync returns after its callback was called
\* once, provided that no condition wait returns by itself: the code waits
\* without a loop around the wait.
THEOREM SyncCallExecuted == ~Spurious => (Spec => []SyncExecuted)
<1>1. OrderInv => SyncExecuted
  BY OrderImplies
<1> QED
  BY <1>1, OrderInvariant, PTL

\* An order on the list or in a batch is allocated and an order is freed only
\* after its callback was called once, under the same assumption.
THEOREM OrdersFreedOnce == ~Spurious => (Spec => []OrdersLive)
<1>1. OrderInv => OrdersLive
  BY OrderImplies
<1> QED
  BY <1>1, OrderInvariant, PTL

=============================================================================
