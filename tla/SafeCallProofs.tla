--------------------------- MODULE SafeCallProofs ---------------------------
(***************************************************************************)
(* Proofs about SafeCall for any number of threads, orders and nestings.   *)
(*                                                                         *)
(* The argument for Exclusive: a request to suspend the main loop has an   *)
(* id of its own; _thread_id names the request being granted and           *)
(* _thread_id_update the last one given back, so a thread that still asks  *)
(* (or still has the loop) is never the one that was given back last, and  *)
(* the main thread, which goes on only when both are equal, goes on only   *)
(* when no thread has the loop.                                            *)
(***************************************************************************)
EXTENDS SafeCall, TLAPS

\* The main thread deals with a suspension.
Susp == {"suspended", "suspWait", "resume", "feedback"}

\* In these states the main thread works on the head of the innermost batch.
Busy == mpc \in {"synced"} \cup Susp => stack # <<>> /\ Head(stack) # <<>>

\* A thread in the middle of a call has an order.
Mine == \A t \in Threads : tpc[t] # "idle" => mine[t] \in Orders

TypeInv == TypeOK /\ Busy /\ Mine

\* The thread has a request and has not given the main loop back.
Asking(t) == tpc[t] \in {"beginPost", "beginWait", "define", "inside", "update"}

\* Requests have different ids, none of which is the last one given back.
Requests ==
    /\ \A t \in Threads : Asking(t) =>
         /\ mine[t] \in 1..used
         /\ obj[mine[t]].id \in 1..idMax
         /\ obj[mine[t]].id # idUpdate
    /\ \A t, u \in Threads : t # u /\ Asking(t) /\ Asking(u)
                               => obj[mine[t]].id # obj[mine[u]].id
    /\ idUpdate <= idMax

\* What the main thread knows of _thread_id and _thread_id_update.
Ids ==
    /\ mpc \notin Susp => id = -1
    /\ mpc \in {"resume", "feedback"} => idUpdate = id

\* Who has the main loop is the one _thread_id names.
Granted ==
    \A t \in Threads : HasLoop(t) =>
      id = obj[mine[t]].id /\ mpc \in {"suspended", "suspWait"}

\* A thread is "main" from its grant until the main thread resumes.
Owner ==
    /\ owner # Main => mpc \in {"suspended", "suspWait", "resume"} /\ id # -1
    /\ \A t \in Threads :
         /\ owner = t => tpc[t] \in {"inside", "update", "endWait"}
         /\ tpc[t] \in {"inside", "update"} => owner = t
         /\ tpc[t] = "update" => cur[t] = id
         /\ owner = t /\ tpc[t] = "endWait" => cur[t] = id

SafeInv == TypeInv /\ Requests /\ Ids /\ Granted /\ Owner

-----------------------------------------------------------------------------
(* Batches *)

\* Taking the first order off the innermost batch leaves a stack of batches.
LEMMA DropTyped ==
    ASSUME NEW s \in Seq(Seq(Orders)), s # <<>>, Head(s) # <<>>
    PROVE  /\ Head(Head(s)) \in Orders
           /\ <<Tail(Head(s))>> \o Tail(s) \in Seq(Seq(Orders))
<1>1. Head(s) \in Seq(Orders) /\ Tail(s) \in Seq(Seq(Orders))
  OBVIOUS
<1>2. Head(Head(s)) \in Orders /\ Tail(Head(s)) \in Seq(Orders)
  BY <1>1
<1>3. <<Tail(Head(s))>> \in Seq(Seq(Orders))
  BY <1>2
<1> QED
  BY <1>1, <1>2, <1>3

\* A flush puts the list it took on top of the stack.
LEMMA PushTyped ==
    ASSUME NEW s \in Seq(Seq(Orders)), NEW b \in Seq(Orders)
    PROVE  <<b>> \o s \in Seq(Seq(Orders))
<1>1. <<b>> \in Seq(Seq(Orders))
  OBVIOUS
<1> QED
  BY <1>1

\* A posted order makes the list and the pipe grow within their types.
LEMMA PostTyped ==
    ASSUME TypeOK, NEW o \in Orders, PostOrder(o)
    PROVE  cb' \in Seq(Orders) /\ pipe' \in Nat
BY DEF TypeOK, PostOrder

\* A new order object has its type.
LEMMA AllocTyped ==
    ASSUME TypeOK, NEW t \in Threads, NEW k \in {"async", "sync", "suspend"},
           NEW i \in Nat, Alloc(t, k, i)
    PROVE  /\ Fresh \in Orders /\ used' \in 0..MaxOrders
           /\ obj' \in [Orders -> Object]
           /\ obj'[Fresh].id = i
           /\ \A o \in Orders : o # Fresh => obj'[o] = obj[o]
<1>1. Fresh \in Orders /\ used' \in 0..MaxOrders
  BY BoundAssumption DEF Alloc, Fresh, Orders, TypeOK
<1>2. NewOrder(t, k, i) \in Object /\ NewOrder(t, k, i).id = i
  BY DEF NewOrder, Object, Actors
<1>3. /\ obj' \in [Orders -> Object]
      /\ \A o \in Orders : o # Fresh => obj'[o] = obj[o]
  BY <1>1, <1>2 DEF Alloc, TypeOK
<1>4. obj'[Fresh].id = i
  BY <1>1, <1>2 DEF Alloc, TypeOK
<1> QED
  BY <1>1, <1>3, <1>4

\* Counting a call of an order's callback and freeing the order keep its type.
LEMMA ObjectUpdates ==
    ASSUME NEW f \in [Orders -> Object], NEW o \in Orders
    PROVE  /\ [f EXCEPT ![o].runs = @ + 1] \in [Orders -> Object]
           /\ [f EXCEPT ![o].live = FALSE] \in [Orders -> Object]
<1>1. [f EXCEPT ![o].runs = @ + 1] \in [Orders -> Object]
  BY DEF Object
<1>2. [f EXCEPT ![o].live = FALSE] \in [Orders -> Object]
  BY DEF Object
<1> QED
  BY <1>1, <1>2

-----------------------------------------------------------------------------
(* Types *)

\* The initial state has its type.
LEMMA InitType == Init => TypeInv
BY BoundAssumption
   DEF Init, TypeInv, TypeOK, Busy, Mine, Susp, NoObject, Object, Actors, MainPC,
       ThreadPC,
       Orders, NoOrder

\* Every step keeps the types.
LEMMA TypeStep == TypeInv /\ [Next]_vars => TypeInv'
<1> SUFFICES ASSUME TypeInv, [Next]_vars PROVE TypeInv'
  OBVIOUS
<1>0. /\ obj \in [Orders -> Object] /\ stack \in Seq(Seq(Orders))
      /\ cb \in Seq(Orders) /\ TypeOK
  BY DEF TypeInv, TypeOK
<1>1. CASE PipeRead
  BY <1>1
  DEF PipeRead, TypeInv, TypeOK, Busy, Mine, Susp, MainPC, ThreadPC
<1>2. CASE FlushTake
  <2>1. stack' \in Seq(Seq(Orders))
    BY <1>2, <1>0, PushTyped DEF FlushTake
  <2> QED
    BY <1>2, <2>1 DEF FlushTake, TypeInv, TypeOK, Busy, Mine, Susp, MainPC, ThreadPC
<1>3. CASE FlushEnd
  BY <1>3
  DEF FlushEnd, Working, TypeInv, TypeOK, Busy, Mine, Susp, MainPC, ThreadPC
<1>4. CASE HandleAsync
  <2>1. stack # <<>> /\ Head(stack) # <<>>
    BY <1>4 DEF HandleAsync, HasOrder, Working, TypeInv, Busy, Susp
  <2>2. Current \in Orders /\ stack' \in Seq(Seq(Orders))
    BY <1>4, <2>1, <1>0, DropTyped DEF HandleAsync, Current, DropOrder
  <2>3. obj' \in [Orders -> Object]
    <3>1. CASE obj[Current].kind = "async"
      BY <1>4, <2>2, <1>0, <3>1, ObjectUpdates DEF HandleAsync
    <3>2. CASE obj[Current].kind # "async"
      BY <1>4, <2>2, <1>0, <3>2, ObjectUpdates DEF HandleAsync
    <3> QED
      BY <3>1, <3>2
  <2> QED
    BY <1>4, <2>1, <2>2, <2>3
    DEF HandleAsync, HasOrder, Working, TypeInv, TypeOK, Busy, Mine, Susp, MainPC,
        ThreadPC
<1>5. CASE HandleSync
  <2>1. stack # <<>> /\ Head(stack) # <<>>
    BY <1>5 DEF HandleSync, HasOrder, Working, TypeInv, Busy, Susp
  <2>2. Current \in Orders /\ stack' \in Seq(Seq(Orders))
    BY <1>5, <2>1, <1>0, DropTyped DEF HandleSync, Current
  <2>3. obj' \in [Orders -> Object]
    BY <1>5, <2>2, <1>0, ObjectUpdates DEF HandleSync
  <2> QED
    BY <1>5, <2>1, <2>2, <2>3
    DEF HandleSync, TypeInv, TypeOK, Busy, Mine, Susp, MainPC, ThreadPC
<1>6. CASE HandleSynced
  <2>1. stack # <<>> /\ Head(stack) # <<>>
    BY <1>6 DEF HandleSynced, TypeInv, Busy, Susp
  <2>2. Current \in Orders /\ stack' \in Seq(Seq(Orders))
    BY <1>6, <2>1, <1>0, DropTyped DEF HandleSynced, Current, DropOrder
  <2>3. obj' \in [Orders -> Object]
    BY <1>6, <2>2, <1>0 DEF HandleSynced, Object
  <2> QED
    BY <1>6, <2>1, <2>2, <2>3
    DEF HandleSynced, TypeInv, TypeOK, Busy, Mine, Susp, MainPC, ThreadPC
<1>7. CASE HandleSuspend
  <2>1. stack # <<>> /\ Head(stack) # <<>>
    BY <1>7 DEF HandleSuspend, HasOrder, Working, TypeInv, Busy, Susp
  <2>2. Current \in Orders /\ stack' \in Seq(Seq(Orders))
    BY <1>7, <2>1, <1>0, DropTyped DEF HandleSuspend, Current
  <2>3. obj' \in [Orders -> Object]
    BY <1>7, <2>2, <1>0 DEF HandleSuspend, Object
  <2>4. id' \in Int
    BY <1>7, <2>2, <1>0 DEF HandleSuspend, Object
  <2> QED
    BY <1>7, <2>1, <2>2, <2>3, <2>4
    DEF HandleSuspend, TypeInv, TypeOK, Busy, Mine, Susp, MainPC, ThreadPC
<1>8. CASE SuspendWait
  BY <1>8
  DEF SuspendWait, TypeInv, TypeOK, Busy, Mine, Susp, MainPC, ThreadPC
<1>9. CASE Resume
  BY <1>9
  DEF Resume, Actors, TypeInv, TypeOK, Busy, Mine, Susp, MainPC, ThreadPC
<1>10. CASE Feedback
  <2>1. stack # <<>> /\ Head(stack) # <<>>
    BY <1>10 DEF Feedback, TypeInv, Busy, Susp
  <2>2. Current \in Orders /\ stack' \in Seq(Seq(Orders))
    BY <1>10, <2>1, <1>0, DropTyped DEF Feedback, Current, DropOrder
  <2>3. obj' \in [Orders -> Object]
    BY <1>10, <2>2, <1>0 DEF Feedback, Object
  <2> QED
    BY <1>10, <2>1, <2>2, <2>3
    DEF Feedback, TypeInv, TypeOK, Busy, Mine, Susp, MainPC, ThreadPC
<1>11. CASE BeginMain
  BY <1>11
  DEF BeginMain, TypeInv, TypeOK, Busy, Mine, Susp, MainPC, ThreadPC
<1>12. CASE EndMain
  BY <1>12
  DEF EndMain, TypeInv, TypeOK, Busy, Mine, Susp, MainPC, ThreadPC
<1>13. ASSUME NEW t \in Threads, SyncWait(t) PROVE TypeInv'
  BY <1>13
  DEF SyncWait, TypeInv, TypeOK, Busy, Mine, Susp, MainPC, ThreadPC
<1>14. ASSUME NEW t \in Threads, SyncReturn(t) PROVE TypeInv'
  <2>1. mine[t] \in Orders
    BY <1>14 DEF SyncReturn, TypeInv, Mine
  <2>2. cb' \in Seq(Orders) /\ pipe' \in Nat
    BY <1>14, <1>0, <2>1, PostTyped DEF SyncReturn
  <2>3. obj' \in [Orders -> Object]
    BY <1>14, <1>0, <2>1 DEF SyncReturn, Object
  <2> QED
    BY <1>14, <2>2, <2>3
    DEF SyncReturn, NoOrder, TypeInv, TypeOK, Busy, Mine, Susp, MainPC, ThreadPC
<1>15. ASSUME NEW t \in Threads, BeginPost(t) PROVE TypeInv'
  <2>1. cb' \in Seq(Orders) /\ pipe' \in Nat
    BY <1>15, <1>0, PostTyped DEF BeginPost, TypeInv, Mine
  <2> QED
    BY <1>15, <2>1 DEF BeginPost, TypeInv, TypeOK, Busy, Mine, Susp, MainPC, ThreadPC
<1>16. ASSUME NEW t \in Threads, BeginGranted(t) PROVE TypeInv'
  BY <1>16
  DEF BeginGranted, TypeInv, TypeOK, Busy, Mine, Susp, MainPC, ThreadPC
<1>17. ASSUME NEW t \in Threads, BeginDefine(t) PROVE TypeInv'
  BY <1>17
  DEF BeginDefine, Actors, TypeInv, TypeOK, Busy, Mine, Susp, MainPC, ThreadPC
<1>18. ASSUME NEW t \in Threads, End(t) PROVE TypeInv'
  <2>1. CASE loop = 1
    <3>1. /\ loop' = 0 /\ depth' \in Int
          /\ tpc' = [tpc EXCEPT ![t] = "update"] /\ cur' = [cur EXCEPT ![t] = id]
      BY <1>18, <2>1, <1>0 DEF End, TypeOK
    <3>2. tpc' \in [Threads -> ThreadPC] /\ cur' \in [Threads -> Int]
      BY <3>1, <1>0 DEF TypeOK, ThreadPC
    <3>3. Mine'
      BY <1>18, <3>1, <1>0 DEF End, TypeInv, Mine, TypeOK
    <3> QED
      BY <1>18, <3>1, <3>2, <3>3 DEF End, TypeInv, TypeOK, Busy, Susp
  <2>2. CASE loop # 1
    BY <1>18, <2>2 DEF End, TypeInv, TypeOK, Busy, Mine, Susp, MainPC, ThreadPC
  <2> QED
    BY <2>1, <2>2
<1>19. ASSUME NEW t \in Threads, EndUpdate(t) PROVE TypeInv'
  BY <1>19
  DEF EndUpdate, TypeInv, TypeOK, Busy, Mine, Susp, MainPC, ThreadPC
<1>20. ASSUME NEW t \in Threads, EndReturn(t) PROVE TypeInv'
  BY <1>20
  DEF EndReturn, NoOrder, TypeInv, TypeOK, Busy, Mine, Susp, MainPC, ThreadPC
<1>21. ASSUME NEW t \in Threads, CallAsync(t) PROVE TypeInv'
  <2>1. /\ Fresh \in Orders /\ used' \in 0..MaxOrders
        /\ obj' \in [Orders -> Object]
    BY <1>21, <1>0, AllocTyped DEF CallAsync
  <2>2. cb' \in Seq(Orders) /\ pipe' \in Nat
    BY <1>21, <1>0, <2>1, PostTyped DEF CallAsync
  <2> QED
    BY <1>21, <2>1, <2>2
    DEF CallAsync, TypeInv, TypeOK, Busy, Mine, Susp, MainPC, ThreadPC
<1>22. ASSUME NEW t \in Threads, CallDirect(t) PROVE TypeInv'
  <2>1. Fresh \in Orders /\ used' \in 0..MaxOrders
    BY <1>22, BoundAssumption DEF CallDirect, Fresh, Orders, TypeInv, TypeOK
  <2>2. obj' \in [Orders -> Object]
    BY <1>22, <1>0, <2>1 DEF CallDirect, Object, Actors
  <2> QED
    BY <1>22, <2>1, <2>2
    DEF CallDirect, TypeInv, TypeOK, Busy, Mine, Susp, MainPC, ThreadPC
<1>23. ASSUME NEW t \in Threads, CallSync(t) PROVE TypeInv'
  <2>1. /\ Fresh \in Orders /\ used' \in 0..MaxOrders
        /\ obj' \in [Orders -> Object]
    BY <1>23, <1>0, AllocTyped DEF CallSync
  <2>2. cb' \in Seq(Orders) /\ pipe' \in Nat
    BY <1>23, <1>0, <2>1, PostTyped DEF CallSync
  <2> QED
    BY <1>23, <2>1, <2>2
    DEF CallSync, TypeInv, TypeOK, Busy, Mine, Susp, MainPC, ThreadPC
<1>24. ASSUME NEW t \in Threads, Begin(t) PROVE TypeInv'
  <2>1. idMax + 1 \in Nat
    BY DEF TypeInv, TypeOK
  <2>2. /\ Fresh \in Orders /\ used' \in 0..MaxOrders
        /\ obj' \in [Orders -> Object]
    BY <1>24, <1>0, <2>1, AllocTyped DEF Begin
  <2> QED
    BY <1>24, <2>1, <2>2
    DEF Begin, TypeInv, TypeOK, Busy, Mine, Susp, MainPC, ThreadPC
<1>25. ASSUME NEW t \in Threads, BeginNested(t) PROVE TypeInv'
  BY <1>25
  DEF BeginNested, TypeInv, TypeOK, Busy, Mine, Susp, MainPC, ThreadPC
<1>26. CASE UNCHANGED vars
  BY <1>26 DEF vars, Current, TypeInv, TypeOK, Busy, Mine, Susp, MainPC, ThreadPC
<1> QED
  BY
     <1>1, <1>2, <1>3, <1>4, <1>5, <1>6, <1>7, <1>8, <1>9, <1>10, <1>11,
     <1>12, <1>13, <1>14, <1>15, <1>16, <1>17, <1>18, <1>19, <1>20, <1>21,
     <1>22, <1>23, <1>24, <1>25, <1>26
  DEF Next, MainStep, ThreadStep, ThreadCall

-----------------------------------------------------------------------------
(* Who has the main loop *)

\* No request changes its id when fields of order objects other than id change.
LEMMA IdsKept ==
    ASSUME NEW f \in [Orders -> Object], NEW o \in Orders
    PROVE  \A p \in Orders :
             /\ [f EXCEPT ![o].runs = @ + 1][p].id = f[p].id
             /\ [f EXCEPT ![o].live = FALSE][p].id = f[p].id
             /\ [f EXCEPT ![o].woken = TRUE][p].id = f[p].id
             /\ [f EXCEPT ![o].kind = "cleanup", ![o].back = TRUE][p].id = f[p].id
BY DEF Object

\* The invariant holds initially.
LEMMA InitSafe == Init => SafeInv
BY InitType, MainAssumption
   DEF Init, SafeInv, Requests, Ids, Granted, Owner, Asking, HasLoop, Susp

\* Every step keeps the invariant.
LEMMA SafeStep == SafeInv /\ [Next]_vars => SafeInv'
<1> SUFFICES ASSUME SafeInv, [Next]_vars PROVE Requests' /\ Ids' /\ Granted' /\ Owner'
  BY TypeStep DEF SafeInv
<1>0. /\ TypeOK /\ Requests /\ Ids /\ Granted /\ Owner
      /\ obj \in [Orders -> Object] /\ used \in Nat /\ 1..used \subseteq Orders
      /\ tpc \in [Threads -> ThreadPC] /\ cur \in [Threads -> Int]
      /\ mine \in [Threads -> Orders \cup {NoOrder}]
      /\ id \in Int /\ idMax \in Nat /\ idUpdate \in Int
  BY BoundAssumption DEF SafeInv, TypeInv, TypeOK, Orders
<1> DEFINE Kept == \A o \in 1..used : obj'[o].id = obj[o].id
<1> HIDE DEF Kept
<1> USE MainAssumption
<1>1. CASE PipeRead
  <2>1. Kept
    BY <1>1 DEF PipeRead, Kept
  <2> QED
    BY <1>1, <1>0, <2>1
    DEF PipeRead, Kept, Requests, Ids, Granted, Owner, Asking, HasLoop, Susp
<1>2. CASE FlushTake
  <2>1. Kept
    BY <1>2 DEF FlushTake, Kept
  <2> QED
    BY <1>2, <1>0, <2>1
    DEF FlushTake, Kept, Requests, Ids, Granted, Owner, Asking, HasLoop, Susp
<1>3. CASE FlushEnd
  <2>1. Kept
    BY <1>3 DEF FlushEnd, Kept
  <2> QED
    BY <1>3, <1>0, <2>1
    DEF FlushEnd, Working, Kept, Requests, Ids, Granted, Owner, Asking, HasLoop,
        Susp
<1>4. CASE HandleAsync
  <2>0. Current \in Orders
    <3>1. stack # <<>> /\ Head(stack) # <<>>
      BY <1>4 DEF HandleAsync, HasOrder, Working, SafeInv, TypeInv, Busy, Susp
    <3> QED
      BY <3>1, DropTyped DEF SafeInv, TypeInv, TypeOK, Current
  <2>1. Kept
    <3>1. CASE obj[Current].kind = "async"
      BY <1>4, <1>0, <2>0, <3>1, IdsKept, ObjectUpdates DEF HandleAsync, Kept
    <3>2. CASE obj[Current].kind # "async"
      BY <1>4, <1>0, <2>0, <3>2, IdsKept DEF HandleAsync, Kept
    <3> QED
      BY <3>1, <3>2
  <2> QED
    BY <1>4, <1>0, <2>1
    DEF HandleAsync, HasOrder, Working, Kept, Requests, Ids, Granted, Owner, Asking,
        HasLoop, Susp
<1>5. CASE HandleSync
  <2>0. Current \in Orders
    <3>1. stack # <<>> /\ Head(stack) # <<>>
      BY <1>5 DEF HandleSync, HasOrder, Working, SafeInv, TypeInv, Busy, Susp
    <3> QED
      BY <3>1, DropTyped DEF SafeInv, TypeInv, TypeOK, Current
  <2>1. Kept
    BY <1>5, <1>0, <2>0, IdsKept DEF HandleSync, Kept
  <2> QED
    BY <1>5, <1>0, <2>1
    DEF HandleSync, HasOrder, Working, Kept, Requests, Ids, Granted, Owner, Asking,
        HasLoop, Susp
<1>6. CASE HandleSynced
  <2>0. Current \in Orders
    <3>1. stack # <<>> /\ Head(stack) # <<>>
      BY <1>6 DEF HandleSynced, SafeInv, TypeInv, Busy, Susp
    <3> QED
      BY <3>1, DropTyped DEF SafeInv, TypeInv, TypeOK, Current
  <2>1. Kept
    BY <1>6, <1>0, <2>0, IdsKept DEF HandleSynced, Kept
  <2> QED
    BY <1>6, <1>0, <2>1
    DEF HandleSynced, Kept, Requests, Ids, Granted, Owner, Asking, HasLoop, Susp
<1>7. CASE HandleSuspend
  <2>0. Current \in Orders
    <3>1. stack # <<>> /\ Head(stack) # <<>>
      BY <1>7 DEF HandleSuspend, HasOrder, Working, SafeInv, TypeInv, Busy, Susp
    <3> QED
      BY <3>1, DropTyped DEF SafeInv, TypeInv, TypeOK, Current
  <2>1. Kept
    BY <1>7 DEF HandleSuspend, Kept
  <2> QED
    BY <1>7, <1>0, <2>1
    DEF HandleSuspend, HasOrder, Working, Kept, Requests, Ids, Granted, Owner,
        Asking, HasLoop, Susp
<1>8. CASE SuspendWait
  <2>1. Kept
    BY <1>8 DEF SuspendWait, Kept
  <2> QED
    BY <1>8, <1>0, <2>1
    DEF SuspendWait, Kept, Requests, Ids, Granted, Owner, Asking, HasLoop, Susp
<1>9. CASE Resume
  <2>1. Kept
    BY <1>9 DEF Resume, Kept
  <2> QED
    BY <1>9, <1>0, <2>1
    DEF Resume, Kept, Requests, Ids, Granted, Owner, Asking, HasLoop, Susp
<1>10. CASE Feedback
  <2>0. Current \in Orders
    <3>1. stack # <<>> /\ Head(stack) # <<>>
      BY <1>10 DEF Feedback, SafeInv, TypeInv, Busy, Susp
    <3> QED
      BY <3>1, DropTyped DEF SafeInv, TypeInv, TypeOK, Current
  <2>1. Kept
    BY <1>10, <1>0, <2>0, IdsKept DEF Feedback, Kept
  <2> QED
    BY <1>10, <1>0, <2>1
    DEF Feedback, Kept, Requests, Ids, Granted, Owner, Asking, HasLoop, Susp
<1>11. CASE BeginMain
  <2>1. Kept
    BY <1>11 DEF BeginMain, Kept
  <2> QED
    BY <1>11, <1>0, <2>1
    DEF BeginMain, Kept, Requests, Ids, Granted, Owner, Asking, HasLoop, Susp
<1>12. CASE EndMain
  <2>1. Kept
    BY <1>12 DEF EndMain, Kept
  <2> QED
    BY <1>12, <1>0, <2>1
    DEF EndMain, Kept, Requests, Ids, Granted, Owner, Asking, HasLoop, Susp
<1>13. ASSUME NEW t \in Threads, SyncWait(t) PROVE Requests' /\ Ids' /\ Granted' /\ Owner'
  <2>1. Kept
    BY <1>13 DEF SyncWait, Kept
  <2> QED
    BY <1>13, <1>0, <2>1
    DEF SyncWait, Kept, Requests, Ids, Granted, Owner, Asking, HasLoop, Susp
<1>14. ASSUME NEW t \in Threads, SyncReturn(t) PROVE Requests' /\ Ids' /\ Granted' /\ Owner'
  <2>0. mine[t] \in Orders
    BY <1>14 DEF SyncReturn, SafeInv, TypeInv, Mine
  <2>1. Kept
    BY <1>14, <1>0, <2>0, IdsKept DEF SyncReturn, Kept
  <2> QED
    BY <1>14, <1>0, <2>1
    DEF SyncReturn, Kept, Requests, Ids, Granted, Owner, Asking, HasLoop, Susp
<1>15. ASSUME NEW t \in Threads, BeginPost(t) PROVE Requests' /\ Ids' /\ Granted' /\ Owner'
  <2>1. Kept
    BY <1>15 DEF BeginPost, Kept
  <2> QED
    BY <1>15, <1>0, <2>1
    DEF BeginPost, Kept, Requests, Ids, Granted, Owner, Asking, HasLoop, Susp
<1>16. ASSUME NEW t \in Threads, BeginGranted(t) PROVE Requests' /\ Ids' /\ Granted' /\ Owner'
  <2>1. Kept
    BY <1>16 DEF BeginGranted, Kept
  <2> QED
    BY <1>16, <1>0, <2>1
    DEF BeginGranted, Kept, Requests, Ids, Granted, Owner, Asking, HasLoop, Susp
<1>17. ASSUME NEW t \in Threads, BeginDefine(t) PROVE Requests' /\ Ids' /\ Granted' /\ Owner'
  <2>1. Kept
    BY <1>17 DEF BeginDefine, Kept
  <2> QED
    BY <1>17, <1>0, <2>1
    DEF BeginDefine, Kept, Requests, Ids, Granted, Owner, Asking, HasLoop, Susp
<1>18. ASSUME NEW t \in Threads, End(t) PROVE Requests' /\ Ids' /\ Granted' /\ Owner'
  <2>1. Kept
    BY <1>18 DEF End, Kept
  <2> QED
    BY <1>18, <1>0, <2>1
    DEF End, Kept, Requests, Ids, Granted, Owner, Asking, HasLoop, Susp
<1>19. ASSUME NEW t \in Threads, EndUpdate(t) PROVE Requests' /\ Ids' /\ Granted' /\ Owner'
  <2>1. Kept
    BY <1>19 DEF EndUpdate, Kept
  <2> QED
    BY <1>19, <1>0, <2>1
    DEF EndUpdate, Kept, Requests, Ids, Granted, Owner, Asking, HasLoop, Susp
<1>20. ASSUME NEW t \in Threads, EndReturn(t) PROVE Requests' /\ Ids' /\ Granted' /\ Owner'
  <2>1. Kept
    BY <1>20 DEF EndReturn, Kept
  <2> QED
    BY <1>20, <1>0, <2>1
    DEF EndReturn, Kept, Requests, Ids, Granted, Owner, Asking, HasLoop, Susp
<1>21. ASSUME NEW t \in Threads, CallAsync(t) PROVE Requests' /\ Ids' /\ Granted' /\ Owner'
  <2>1. /\ Fresh \in Orders
        /\ \A o \in Orders : o # Fresh => obj'[o] = obj[o]
    BY <1>21, <1>0, AllocTyped DEF CallAsync
  <2>2. Kept /\ used' = used + 1
    BY <1>21, <1>0, <2>1 DEF CallAsync, Alloc, Kept, Fresh
  <2> QED
    BY <1>21, <1>0, <2>1, <2>2
    DEF CallAsync, Fresh, Kept, Requests, Ids, Granted, Owner, Asking, HasLoop, Susp
<1>22. ASSUME NEW t \in Threads, CallDirect(t) PROVE Requests' /\ Ids' /\ Granted' /\ Owner'
  <2>1. Kept /\ used' = used + 1
    BY <1>22, <1>0 DEF CallDirect, Kept, Fresh
  <2> QED
    BY <1>22, <1>0, <2>1
    DEF CallDirect, Kept, Requests, Ids, Granted, Owner, Asking, HasLoop, Susp
<1>23. ASSUME NEW t \in Threads, CallSync(t) PROVE Requests' /\ Ids' /\ Granted' /\ Owner'
  <2>1. /\ Fresh \in Orders
        /\ \A o \in Orders : o # Fresh => obj'[o] = obj[o]
    BY <1>23, <1>0, AllocTyped DEF CallSync
  <2>2. Kept /\ used' = used + 1
    BY <1>23, <1>0, <2>1 DEF CallSync, Alloc, Kept, Fresh
  <2> QED
    BY <1>23, <1>0, <2>1, <2>2
    DEF CallSync, Fresh, Kept, Requests, Ids, Granted, Owner, Asking, HasLoop, Susp
<1>24. ASSUME NEW t \in Threads, Begin(t) PROVE Requests' /\ Ids' /\ Granted' /\ Owner'
  <2>0. idMax + 1 \in Nat
    BY <1>0
  <2>1. /\ Fresh \in Orders /\ obj'[Fresh].id = idMax + 1
        /\ \A o \in Orders : o # Fresh => obj'[o] = obj[o]
    BY <1>24, <1>0, <2>0, AllocTyped DEF Begin
  <2>2. Kept /\ used' = used + 1
    BY <1>24, <1>0, <2>1 DEF Begin, Alloc, Kept, Fresh
  <2> QED
    BY <1>24, <1>0, <2>1, <2>2
    DEF Begin, Fresh, Kept, Requests, Ids, Granted, Owner, Asking, HasLoop, Susp
<1>25. ASSUME NEW t \in Threads, BeginNested(t) PROVE Requests' /\ Ids' /\ Granted' /\ Owner'
  <2>1. Kept
    BY <1>25 DEF BeginNested, Kept
  <2> QED
    BY <1>25, <1>0, <2>1
    DEF BeginNested, Kept, Requests, Ids, Granted, Owner, Asking, HasLoop, Susp
<1>26. CASE UNCHANGED vars
  BY <1>26, <1>0 DEF vars, Requests, Ids, Granted, Owner, Asking, HasLoop, Susp
<1> QED
  BY
     <1>1, <1>2, <1>3, <1>4, <1>5, <1>6, <1>7, <1>8, <1>9, <1>10, <1>11,
     <1>12, <1>13, <1>14, <1>15, <1>16, <1>17, <1>18, <1>19, <1>20, <1>21,
     <1>22, <1>23, <1>24, <1>25, <1>26
  DEF Next, MainStep, ThreadStep, ThreadCall

\* Exclusive and LoopIdentity, about core_thread_main_loop_begin and _end, follow
\* from the invariant.
LEMMA SafeImplies == SafeInv => Exclusive /\ LoopIdentity
<1> SUFFICES ASSUME SafeInv PROVE Exclusive /\ LoopIdentity
  OBVIOUS
<1>1. TypeOK /\ Requests /\ Ids /\ Granted /\ Owner
  BY DEF SafeInv, TypeInv
<1>2. Exclusive
  BY <1>1 DEF Exclusive, Granted, Requests, HasLoop, Asking
<1>3. LoopIdentity
  BY <1>1, MainAssumption DEF LoopIdentity, Owner, TypeOK, Actors
<1> QED
  BY <1>2, <1>3

\* Only the thread that has the loop counts its begins and ends; the main thread
\* counts its own only when nobody else has the loop.
LEMMA NestingStep == SafeInv /\ NestingCounted /\ [Next]_vars => NestingCounted'
<1> SUFFICES ASSUME SafeInv, NestingCounted, [Next]_vars PROVE NestingCounted'
  OBVIOUS
<1>0. /\ tpc \in [Threads -> ThreadPC] /\ loop \in Nat /\ depth \in Int
      /\ Exclusive
  BY SafeImplies DEF SafeInv, TypeInv, TypeOK
<1>1. ASSUME NEW t \in Threads, BeginDefine(t) PROVE NestingCounted'
  BY <1>1, <1>0 DEF BeginDefine, NestingCounted
<1>2. ASSUME NEW t \in Threads, End(t) PROVE NestingCounted'
  BY <1>2, <1>0 DEF End, NestingCounted, Exclusive, HasLoop
<1>3. ASSUME NEW t \in Threads, BeginNested(t) PROVE NestingCounted'
  BY <1>3, <1>0 DEF BeginNested, NestingCounted
<1>4. CASE BeginMain \/ EndMain
  BY <1>4, <1>0 DEF BeginMain, EndMain, NestingCounted, Exclusive, HasLoop
<1>5. CASE MainStep \/ UNCHANGED vars
  BY <1>5
  DEF MainStep, PipeRead, FlushTake, FlushEnd, HandleAsync, HandleSync, HandleSynced,
      HandleSuspend, SuspendWait, Resume, Feedback, NestingCounted, vars
<1>6. ASSUME NEW t \in Threads,
             \/ SyncWait(t) \/ SyncReturn(t) \/ BeginPost(t) \/ BeginGranted(t)
             \/ EndUpdate(t) \/ EndReturn(t)
      PROVE  NestingCounted'
  BY <1>6, <1>0
  DEF SyncWait, SyncReturn, BeginPost, BeginGranted, EndUpdate, EndReturn,
      NestingCounted
<1>7. ASSUME NEW t \in Threads,
             CallAsync(t) \/ CallDirect(t) \/ CallSync(t) \/ Begin(t)
      PROVE  NestingCounted'
  BY <1>7, <1>0 DEF CallAsync, CallDirect, CallSync, Begin, NestingCounted
<1> QED
  BY <1>1, <1>2, <1>3, <1>4, <1>5, <1>6, <1>7 DEF Next, ThreadStep, ThreadCall

-----------------------------------------------------------------------------
(* Wakeups *)

\* Posting never leaves a non-empty list without a wakeup on its way.
LEMMA PostWakes ==
    ASSUME TypeOK, WakeupPending, NEW o, PostOrder(o), UNCHANGED mpc
    PROVE  WakeupPending'
BY DEF TypeOK, WakeupPending, PostOrder

\* Reading the pipe is followed by a flush, and a flush empties the list.
LEMMA WakeupStep == TypeInv /\ WakeupPending /\ [Next]_vars => WakeupPending'
<1> SUFFICES ASSUME TypeInv, WakeupPending, [Next]_vars PROVE WakeupPending'
  OBVIOUS
<1>0. TypeOK
  BY DEF TypeInv
<1>1. CASE PipeRead
  BY <1>1 DEF PipeRead, WakeupPending
<1>2. CASE FlushTake
  BY <1>2 DEF FlushTake, WakeupPending
<1>3. CASE FlushEnd \/ HandleAsync \/ HandleSync \/ HandleSynced \/ HandleSuspend
  BY <1>3
  DEF FlushEnd, HandleAsync, HandleSync, HandleSynced, HandleSuspend, HasOrder,
      Working, WakeupPending
<1>4. CASE SuspendWait \/ Resume \/ Feedback \/ BeginMain \/ EndMain \/ UNCHANGED vars
  BY <1>4 DEF SuspendWait, Resume, Feedback, BeginMain, EndMain, WakeupPending, vars
<1>5. ASSUME NEW t \in Threads,
             SyncReturn(t) \/ BeginPost(t) \/ CallAsync(t) \/ CallSync(t)
      PROVE  WakeupPending'
  BY <1>5, <1>0, PostWakes DEF SyncReturn, BeginPost, CallAsync, CallSync
<1>6. ASSUME NEW t \in Threads,
             \/ SyncWait(t) \/ BeginGranted(t) \/ BeginDefine(t) \/ End(t)
             \/ EndUpdate(t) \/ EndReturn(t)
      PROVE  WakeupPending'
  BY <1>6
  DEF SyncWait, BeginGranted, BeginDefine, End, EndUpdate, EndReturn, WakeupPending
<1>7. ASSUME NEW t \in Threads, CallDirect(t) \/ Begin(t) \/ BeginNested(t)
      PROVE  WakeupPending'
  BY <1>7 DEF CallDirect, Begin, BeginNested, WakeupPending
<1> QED
  BY <1>1, <1>2, <1>3, <1>4, <1>5, <1>6, <1>7
  DEF Next, MainStep, ThreadStep, ThreadCall

-----------------------------------------------------------------------------
(* Theorems *)

\* Type correctness of the orders, batches, ids and control points of core.c's
\* safe calls.
THEOREM TypeCorrect == Spec => []TypeOK
<1>1. TypeInv => TypeOK
  BY DEF TypeInv
<1> QED
  BY InitType, TypeStep, <1>1, PTL DEF Spec

\* SafeInv is an invariant of the specification.
LEMMA SafeInvariant == Spec => []SafeInv
BY InitSafe, SafeStep, PTL DEF Spec

\* core_thread_main_loop_begin is mutual exclusion: a thread has the main loop only
\* while the main thread waits in _core_main_call_flush and no other thread has it.
THEOREM LoopExclusive == Spec => []Exclusive
BY SafeInvariant, SafeImplies, PTL

\* eina_main_loop_is holds for exactly the thread that has the loop: from the end
\* of core_thread_main_loop_begin to the return of core_thread_main_loop_end.
THEOREM LoopIdentified == Spec => []LoopIdentity
BY SafeInvariant, SafeImplies, PTL

\* _thread_loop, which core_thread_main_loop_begin and _end share between all
\* threads, is the nesting depth of the thread that has the loop.
THEOREM NestingCorrect == Spec => []NestingCounted
<1>1. Init => NestingCounted
  BY DEF Init, NestingCounted
<1> QED
  BY <1>1, SafeInvariant, NestingStep, PTL DEF Spec

\* Writing the pipe only when _thread_cb was empty loses no wakeup.
THEOREM NoLostWakeup == Spec => []WakeupPending
<1>1. Init => WakeupPending
  BY DEF Init, WakeupPending
<1>2. Spec => []TypeInv
  BY InitType, TypeStep, PTL DEF Spec
<1> QED
  BY <1>1, <1>2, WakeupStep, PTL DEF Spec

=============================================================================
