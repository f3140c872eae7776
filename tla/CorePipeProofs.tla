--------------------------- MODULE CorePipeProofs ---------------------------
(***************************************************************************)
(* Proofs about CorePipe for all message sizes, pipe capacities and depths *)
(* of reentrance.                                                          *)
(*                                                                         *)
(* FreedUnused rests on the shape of the call stack: a handler is called   *)
(* by a read, a read by the main loop or by a wait, a wait by the main     *)
(* loop or by a handler.  So when no frame is counted by p->handling there *)
(* is no frame at all that will touch the pipe again.                      *)
(*                                                                         *)
(* The refinement rests on what the kernel pipe holds: a run of units      *)
(* without a gap from the one the reader expects next to the one the       *)
(* writer writes next.                                                     *)
(***************************************************************************)
EXTENDS CorePipe, FiniteSetTheorems, TLAPS

FrameType == [k: {"read", "handler", "wait"},
              at: {"loop", "next", "leave", "close", "run", "poll", "count"}, n: Nat]

\* Who calls whom: s is a stack of well-nested frames, and only the frame on
\* top is between two calls.
Below(s, i, k, at) == i + 1 \in DOMAIN s /\ s[i + 1].k = k /\ s[i + 1].at \in at
Last(s, i) == i = Len(s)

Nested(s) ==
    /\ s \in Seq(FrameType)
    /\ \A i \in DOMAIN s :
        /\ s[i].k = "handler" =>
              s[i].at = "run" /\ Below(s, i, "read", {"next", "leave", "close"})
        /\ s[i].k = "read" =>
              /\ s[i].at \in {"loop", "next", "leave", "close"}
              /\ Last(s, i) \/ Below(s, i, "wait", {"count"})
        /\ s[i].k = "wait" =>
              /\ s[i].at \in {"poll", "count"}
              /\ Last(s, i) \/ Below(s, i, "handler", {"run"})
        /\ i > 1 => s[i].at \notin {"loop", "poll"}

\* The frames p->handling counts.
Using(f) == f.k = "read" \/ f.at = "count"
Users(s) == {i \in DOMAIN s : Using(s[i])}

\* A pipe q that is deleted while a core_pipe_wait is on the stack has the
\* messages that wait waits for.
LastWait(q, s) ==
    ~DelInWait /\ q.delete_me =>
        \A i \in DOMAIN s : s[i].k = "wait" =>
            /\ s[i].at = "count" /\ s[i].n <= q.message
            /\ \A j \in DOMAIN s : s[j].k = "wait" => j = i

\* A pipe that was released is not used.
Released(q, s) ==
    q.freed => /\ ~DelInWait => s = <<>>
               /\ q.delete_me /\ ~q.fd_handler /\ ~q.fd_read /\ ~q.fd_write

Fitting(q, s) ==
    /\ Nested(s)
    /\ q.handling = Cardinality(Users(s))
    /\ LastWait(q, s)
    /\ Released(q, s)

StackInv == Fitting(p, stack)

-----------------------------------------------------------------------------
\* The unit the reader expects next, the unit the writer writes next, and the
\* unit that follows u.
NextRead == [m |-> taken + 1, i |-> IF p.len = 0 THEN 0 ELSE Len(p.passed_data) + 1]
NextWrite == IF wi > 0 THEN [m |-> wm, i |-> Sizes[wm] - wi + 1]
             ELSE [m |-> wm + 1, i |-> 0]
After(u) == IF u.i < Sizes[u.m] THEN [m |-> u.m, i |-> u.i + 1]
            ELSE [m |-> u.m + 1, i |-> 0]

\* The units in s follow each other, within a message by counting.
Gapless(s) ==
    /\ \A i \in 1..Len(s) - 1 : s[i + 1] = After(s[i])
    /\ \A i, j \in DOMAIN s :
          i <= j /\ s[i].i + (j - i) <= Sizes[s[i].m] =>
              s[j] = [m |-> s[i].m, i |-> s[i].i + (j - i)]

\* The units in s are those from a up to w.
Between(s, a, w) ==
    /\ s = <<>> => a = w
    /\ s # <<>> => s[1] = a /\ After(s[Len(s)]) = w
    /\ Gapless(s)

\* What is in the kernel pipe, as long as somebody may read it.
Stream == p.fd_read => Between(pipe, NextRead, NextWrite)

\* What has been read of the message that is half read.
Partial ==
    /\ p.len = 0 => p.passed_data = <<>>
    /\ p.len > 0 => taken < wm /\ p.len = Sizes[taken + 1] /\ Len(p.passed_data) < p.len
    /\ \A j \in DOMAIN p.passed_data : p.passed_data[j] = [m |-> taken + 1, i |-> j]

\* The messages written, handed out and seen by the handler.
Messages ==
    /\ taken <= wm
    /\ wi > 0 => wm > 0 /\ wi <= Sizes[wm]
    /\ ~p.fd_write => wi = 0 \/ ~p.fd_read
    /\ p.delete_me => wi = 0
    /\ \A i \in DOMAIN pipe : pipe[i].m <= wm /\ pipe[i].i <= Sizes[pipe[i].m]
    /\ got \in Seq(1..MaxMsg) /\ \A i \in DOMAIN got : got[i] <= taken

DataInv == Stream /\ Partial /\ Messages

PipeInv == TypeOK /\ StackInv /\ DataInv

-----------------------------------------------------------------------------
(* Stacks *)

\* What a push does to a sequence.
LEMMA PushSeq ==
    ASSUME NEW T, NEW s \in Seq(T), NEW f \in T
    PROVE  /\ <<f>> \o s \in Seq(T)
           /\ Len(<<f>> \o s) = Len(s) + 1
           /\ (<<f>> \o s)[1] = f
           /\ \A i \in 2..Len(s) + 1 : (<<f>> \o s)[i] = s[i - 1]
           /\ \A i \in 1..Len(s) : (<<f>> \o s)[i + 1] = s[i]
           /\ Head(<<f>> \o s) = f /\ Tail(<<f>> \o s) = s
<1>1. <<f>> \in Seq(T) /\ Len(<<f>>) = 1 /\ <<f>>[1] = f
  OBVIOUS
<1>2. /\ <<f>> \o s \in Seq(T)
      /\ Len(<<f>> \o s) = Len(s) + 1
      /\ (<<f>> \o s)[1] = f
      /\ \A i \in 2..Len(s) + 1 : (<<f>> \o s)[i] = s[i - 1]
  BY <1>1
<1>3. \A i \in 1..Len(s) : (<<f>> \o s)[i + 1] = s[i]
  BY <1>2
<1>4. Head(<<f>> \o s) = f
  BY <1>2
<1>5. Tail(<<f>> \o s) = s
  BY <1>2, <1>3
<1> QED
  BY <1>2, <1>3, <1>4, <1>5

\* A stack is its head on its tail.
LEMMA PopSeq ==
    ASSUME NEW T, NEW s \in Seq(T), s # <<>>
    PROVE  /\ Head(s) \in T /\ Head(s) = s[1]
           /\ Tail(s) \in Seq(T) /\ Len(Tail(s)) = Len(s) - 1 /\ Len(s) > 0
           /\ \A i \in 1..Len(s) - 1 : Tail(s)[i] = s[i + 1]
           /\ s = <<Head(s)>> \o Tail(s)
<1>1. /\ Head(s) \in T /\ Head(s) = s[1]
      /\ Tail(s) \in Seq(T) /\ Len(Tail(s)) = Len(s) - 1 /\ Len(s) > 0
      /\ \A i \in 1..Len(s) - 1 : Tail(s)[i] = s[i + 1]
  OBVIOUS
<1>2. s = <<Head(s)>> \o Tail(s)
  OBVIOUS
<1> QED
  BY <1>1, <1>2

\* Returning from the frame on top leaves a well-nested stack.
LEMMA NestedPop ==
    ASSUME NEW s, Nested(s), s # <<>>
    PROVE  Nested(Tail(s)) /\ \A i \in DOMAIN Tail(s) : Tail(s)[i].at \notin {"loop", "poll"}
<1>1. s \in Seq(FrameType)
  BY DEF Nested
<1>2. /\ Tail(s) \in Seq(FrameType) /\ Len(Tail(s)) = Len(s) - 1
      /\ \A i \in 1..Len(s) - 1 : Tail(s)[i] = s[i + 1]
  BY <1>1, PopSeq
<1> QED
  BY <1>1, <1>2 DEF Nested, Below, Last

\* f may be pushed on s.
Fits(f, s) ==
    /\ f.k = "handler" =>
          f.at = "run" /\ s # <<>> /\ s[1].k = "read" /\ s[1].at \in {"next", "leave", "close"}
    /\ f.k = "read" =>
          /\ f.at \in {"loop", "next", "leave", "close"}
          /\ s = <<>> \/ (s[1].k = "wait" /\ s[1].at = "count")
    /\ f.k = "wait" =>
          /\ f.at \in {"poll", "count"}
          /\ s = <<>> \/ (s[1].k = "handler" /\ s[1].at = "run")

\* A call pushes a frame.
LEMMA NestedPush ==
    ASSUME NEW s, Nested(s), NEW f \in FrameType, Fits(f, s)
    PROVE  Nested(<<f>> \o s)
<1>1. s \in Seq(FrameType)
  BY DEF Nested
<1>2. /\ <<f>> \o s \in Seq(FrameType)
      /\ Len(<<f>> \o s) = Len(s) + 1
      /\ (<<f>> \o s)[1] = f
      /\ \A i \in 2..Len(s) + 1 : (<<f>> \o s)[i] = s[i - 1]
      /\ \A i \in 1..Len(s) : (<<f>> \o s)[i + 1] = s[i]
  BY <1>1, PushSeq
<1>3. s # <<>> => s[1].at \notin {"loop", "poll"}
  BY <1>1, <1>2 DEF Nested, Fits, FrameType
<1> QED
  BY <1>1, <1>2, <1>3 DEF Nested, Below, Last, Fits

\* The frames counted are finitely many.
LEMMA UsersFinite ==
    ASSUME NEW s \in Seq(FrameType)
    PROVE  IsFiniteSet(Users(s)) /\ Cardinality(Users(s)) \in Nat
<1>1. IsFiniteSet(1..Len(s))
  BY FS_Interval
<1>2. Users(s) \subseteq 1..Len(s)
  BY DEF Users
<1> QED
  BY <1>1, <1>2, FS_Subset, FS_CardinalityType

\* A push counts the new frame.
LEMMA UsersPush ==
    ASSUME NEW s \in Seq(FrameType), NEW f \in FrameType
    PROVE  Cardinality(Users(<<f>> \o s))
             = Cardinality(Users(s)) + (IF Using(f) THEN 1 ELSE 0)
<1> DEFINE t == <<f>> \o s
           up == [i \in Users(s) |-> i + 1]
           U == {i + 1 : i \in Users(s)}
<1>1. /\ t \in Seq(FrameType) /\ Len(t) = Len(s) + 1 /\ t[1] = f
      /\ \A i \in 2..Len(s) + 1 : t[i] = s[i - 1]
      /\ \A i \in 1..Len(s) : t[i + 1] = s[i]
  BY PushSeq
<1>2. IsFiniteSet(Users(s)) /\ Users(s) \subseteq 1..Len(s) /\ Len(s) \in Nat
  BY UsersFinite DEF Users
<1>3. up \in Bijection(Users(s), U)
  <2>1. up \in Injection(Users(s), U)
    BY <1>2 DEF Injection, IsInjective
  <2>2. up \in Surjection(Users(s), U)
    BY <1>2 DEF Surjection
  <2> QED
    BY <2>1, <2>2 DEF Bijection
<1>4. IsFiniteSet(U) /\ Cardinality(U) = Cardinality(Users(s))
  <2>1. ExistsBijection(Users(s), U)
    BY <1>3 DEF ExistsBijection
  <2> HIDE DEF U
  <2> QED
    BY <1>2, <2>1, FS_Bijection
<1>5. 1 \notin U
  BY <1>2
<1>6. \A i \in 1..Len(t) : i # 1 => (i \in Users(t) <=> i - 1 \in Users(s))
  BY <1>1, <1>2 DEF Users
<1>7. Users(t) = IF Using(f) THEN U \cup {1} ELSE U
  <2>1. 1 \in Users(t) <=> Using(f)
    BY <1>1, <1>2 DEF Users
  <2>2. \A i : i # 1 => (i \in Users(t) <=> i \in U)
    <3> TAKE i
    <3> HAVE i # 1
    <3>1. i \in Users(t) => i \in U
      <4> HAVE i \in Users(t)
      <4>1. i \in 1..Len(t)
        BY DEF Users
      <4>2. i - 1 \in Users(s) /\ i = (i - 1) + 1
        BY <4>1, <1>6, <1>1, <1>2
      <4> QED
        BY <4>2
    <3>2. i \in U => i \in Users(t)
      <4> HAVE i \in U
      <4>1. PICK j \in Users(s) : i = j + 1
        OBVIOUS
      <4>2. i \in 1..Len(t) /\ i - 1 = j
        BY <4>1, <1>1, <1>2
      <4> QED
        BY <4>1, <4>2, <1>6
    <3> QED
      BY <3>1, <3>2
  <2> QED
    BY <2>1, <2>2, <1>5
<1>8. Cardinality(U \cup {1}) = Cardinality(U) + 1
  BY <1>4, <1>5, FS_AddElement
<1>9. Cardinality(U) \in Nat
  BY <1>4, FS_CardinalityType
<1> QED
  BY <1>4, <1>7, <1>8, <1>9

\* A return uncounts it.
LEMMA UsersPop ==
    ASSUME NEW s \in Seq(FrameType), s # <<>>
    PROVE  Cardinality(Users(s))
             = Cardinality(Users(Tail(s))) + (IF Using(Head(s)) THEN 1 ELSE 0)
BY PopSeq, UsersPush

\* A counted frame makes the count positive.
LEMMA UsersPositive ==
    ASSUME NEW s \in Seq(FrameType), NEW i \in DOMAIN s, Using(s[i])
    PROVE  Cardinality(Users(s)) > 0
<1>1. Users(s) # {} /\ IsFiniteSet(Users(s)) /\ Cardinality(Users(s)) \in Nat
  BY UsersFinite DEF Users
<1>2. Cardinality(Users(s)) # 0
  BY <1>1, FS_EmptySet
<1> QED
  BY <1>1, <1>2

-----------------------------------------------------------------------------
(* Steps of the reader, on any pipe q and stack s *)

\* Below a frame that uses the pipe there is nothing, or another such frame:
\* when nothing is counted any more nothing is left.
LEMMA UnusedEmpty ==
    ASSUME NEW s, Nested(s), s # <<>>, Using(Head(s)), Cardinality(Users(Tail(s))) = 0
    PROVE  Tail(s) = <<>>
<1> SUFFICES ASSUME Tail(s) # <<>> PROVE FALSE
  OBVIOUS
<1>1. s \in Seq(FrameType) /\ Nested(Tail(s))
  BY NestedPop DEF Nested
<1> DEFINE t == Tail(s)
<1>2. /\ Head(s) = s[1] /\ t \in Seq(FrameType) /\ Len(t) = Len(s) - 1 /\ Len(s) > 0
      /\ \A i \in 1..Len(s) - 1 : t[i] = s[i + 1]
  BY <1>1, PopSeq
<1>3. 1 \in DOMAIN s /\ 2 \in DOMAIN s /\ t[1] = s[2] /\ 1 \in DOMAIN t /\ 1 # Len(s) /\ s[1] \in FrameType
  BY <1>1, <1>2
<1>4. Nested(t) /\ Cardinality(Users(t)) = 0 /\ t \in Seq(FrameType)
  BY <1>1, <1>2
<1> HIDE DEF t
<1>5. \/ s[1].k = "read" /\ s[2].k = "wait" /\ s[2].at = "count"
      \/ s[1].k = "wait" /\ s[2].k = "handler"
  <2>1. Using(s[1])
    BY <1>2
  <2>2. s[1].k = "read" => Below(s, 1, "wait", {"count"})
    BY <1>3 DEF Nested, Last
  <2>3. s[1].k = "wait" => Below(s, 1, "handler", {"run"})
    BY <1>3 DEF Nested, Last
  <2>4. s[1].k # "handler"
    BY <1>3, <2>1 DEF Nested, Using
  <2> QED
    BY <1>3, <2>2, <2>3, <2>4 DEF Below, FrameType
<1>6. CASE Using(t[1])
  <2>1. Cardinality(Users(t)) > 0
    BY <1>3, <1>4, <1>6, UsersPositive
  <2> QED
    BY <1>4, <2>1
<1>7. CASE t[1].k = "handler"
  <2>1. Below(t, 1, "read", {"next", "leave", "close"})
    BY <1>3, <1>4, <1>7 DEF Nested
  <2>2. 2 \in DOMAIN t /\ Using(t[2])
    BY <2>1 DEF Below, Using
  <2>3. Cardinality(Users(t)) > 0
    BY <2>2, <1>4, UsersPositive
  <2> QED
    BY <1>4, <2>3
<1> QED
  BY <1>3, <1>5, <1>6, <1>7 DEF Using

\* Fewer frames wait for no more.
LEMMA LastWaitPop ==
    ASSUME NEW q, NEW s \in Seq(FrameType), s # <<>>, LastWait(q, s)
    PROVE  LastWait(q, Tail(s))
<1>1. /\ Tail(s) \in Seq(FrameType) /\ Len(Tail(s)) = Len(s) - 1 /\ Len(s) > 0
      /\ \A i \in 1..Len(s) - 1 : Tail(s)[i] = s[i + 1]
  BY PopSeq
<1> QED
  BY <1>1 DEF LastWait

\* A frame that does not wait is pushed.
LEMMA LastWaitPush ==
    ASSUME NEW q, NEW s \in Seq(FrameType), NEW f \in FrameType,
           f.k # "wait", LastWait(q, s)
    PROVE  LastWait(q, <<f>> \o s)
<1>1. /\ <<f>> \o s \in Seq(FrameType)
      /\ Len(<<f>> \o s) = Len(s) + 1
      /\ (<<f>> \o s)[1] = f
      /\ \A i \in 2..Len(s) + 1 : (<<f>> \o s)[i] = s[i - 1]
  BY PushSeq
<1> QED
  BY <1>1 DEF LastWait

\* The fields of a pipe after _core_pipe_unhandle, and that it is one.
LEMMA UnhandleType ==
    ASSUME NEW q \in PipeType, q.handling > 0
    PROVE  /\ Unhandle(q) \in PipeType
           /\ Unhandle(q).handling = q.handling - 1
           /\ Unhandle(q).delete_me = q.delete_me
           /\ Unhandle(q).message = q.message
           /\ Unhandle(q).len = q.len
           /\ Unhandle(q).passed_data = q.passed_data
           /\ Unhandle(q).freed => q.freed \/ (q.delete_me /\ q.handling = 1)
           /\ q.freed => Unhandle(q).freed
           /\ q.delete_me /\ q.handling = 1 =>
                /\ Unhandle(q).freed /\ ~Unhandle(q).fd_handler
                /\ ~Unhandle(q).fd_read /\ ~Unhandle(q).fd_write
           /\ ~(q.delete_me /\ q.handling = 1) =>
                /\ Unhandle(q).fd_handler = q.fd_handler
                /\ Unhandle(q).fd_read = q.fd_read
                /\ Unhandle(q).fd_write = q.fd_write
<1> DEFINE h == [q EXCEPT !.handling = q.handling - 1]
<1>1. h \in PipeType
  BY DEF PipeType
<1>2. CASE ~q.delete_me
  <2>1. Unhandle(q) = h
    BY <1>2 DEF Unhandle, PipeType
  <2> QED
    BY <2>1, <1>1, <1>2 DEF PipeType
<1>3. CASE q.delete_me /\ q.handling > 1
  <2>1. Unhandle(q) = [h EXCEPT !.pollfd = FALSE, !.delete_me = TRUE]
    BY <1>3 DEF Unhandle, Del, PipeType
  <2>2. q.delete_me = TRUE /\ q.handling # 1
    BY <1>3 DEF PipeType
  <2> HIDE DEF h
  <2>3. Unhandle(q) \in PipeType
    BY <2>1, <1>1 DEF PipeType
  <2>4. /\ h.handling = q.handling - 1 /\ h.message = q.message /\ h.len = q.len
        /\ h.passed_data = q.passed_data /\ h.freed = q.freed
        /\ h.fd_handler = q.fd_handler /\ h.fd_read = q.fd_read /\ h.fd_write = q.fd_write
    BY DEF h, PipeType
  <2> QED
    BY <2>1, <2>2, <2>3, <2>4, <1>1 DEF PipeType
<1>4. CASE q.delete_me /\ q.handling = 1
  <2>1. Unhandle(q) = [h EXCEPT !.pollfd = FALSE, !.delete_me = TRUE, !.fd_handler = FALSE,
                         !.fd_read = FALSE, !.fd_write = FALSE, !.freed = TRUE]
    BY <1>4 DEF Unhandle, Del, PipeType
  <2> QED
    BY <2>1, <1>1, <1>4 DEF PipeType
<1> QED
  BY <1>2, <1>3, <1>4 DEF PipeType

\* _core_pipe_unhandle and the return from the frame s[1].
LEMMA UnhandleFits ==
    ASSUME NEW q \in PipeType, NEW s, Nested(s), s # <<>>, Using(Head(s)),
           q.handling = Cardinality(Users(s)), LastWait(q, Tail(s)), Released(q, s)
    PROVE  q.handling > 0 /\ Fitting(Unhandle(q), Tail(s))
<1>1. s \in Seq(FrameType) /\ Nested(Tail(s)) /\ Tail(s) \in Seq(FrameType)
  BY NestedPop DEF Nested
<1>2. Cardinality(Users(Tail(s))) \in Nat
  BY <1>1, UsersFinite
<1>3. q.handling = Cardinality(Users(Tail(s))) + 1
  BY <1>1, UsersPop
<1>4. q.handling > 0
  BY <1>2, <1>3
<1>5. q.handling = 1 => Tail(s) = <<>>
  BY <1>1, <1>2, <1>3, UnusedEmpty
<1>6. Unhandle(q).handling = Cardinality(Users(Tail(s)))
  BY <1>2, <1>3, <1>4, UnhandleType
<1>7. LastWait(Unhandle(q), Tail(s))
  BY <1>4, UnhandleType DEF LastWait
<1>8. Released(Unhandle(q), Tail(s))
  BY <1>4, <1>5, UnhandleType DEF Released
<1> QED
  BY <1>1, <1>4, <1>6, <1>7, <1>8 DEF Fitting

\* What Fitting says depends on few fields of the pipe.
LEMMA FittingFields ==
    ASSUME NEW q \in PipeType, NEW r \in PipeType, NEW s, Fitting(q, s),
           r.handling = q.handling, r.message >= q.message,
           r.delete_me = q.delete_me, r.freed = q.freed,
           r.fd_handler => q.fd_handler \/ ~q.freed,
           r.fd_read => q.fd_read, r.fd_write => q.fd_write
    PROVE  Fitting(r, s)
<1>1. LastWait(r, s)
  <2> SUFFICES ASSUME ~DelInWait, r.delete_me, NEW i \in DOMAIN s, s[i].k = "wait"
               PROVE  /\ s[i].at = "count" /\ s[i].n <= r.message
                      /\ \A j \in DOMAIN s : s[j].k = "wait" => j = i
    BY DEF LastWait
  <2>1. /\ s[i].at = "count" /\ s[i].n <= q.message
        /\ \A j \in DOMAIN s : s[j].k = "wait" => j = i
    BY DEF Fitting, LastWait
  <2>2. s[i].n \in Nat
    <3>1. s \in Seq(FrameType)
      BY DEF Fitting, Nested
    <3>2. s[i] \in FrameType
      BY <3>1
    <3> QED
      BY <3>2 DEF FrameType
  <2>3. q.message \in Nat /\ r.message \in Nat
    BY DEF PipeType
  <2> QED
    BY <2>1, <2>2, <2>3
<1>2. Released(r, s)
  BY DEF Released, Fitting
<1> QED
  BY <1>1, <1>2 DEF Fitting

\* The read on top goes on to another place.
LEMMA ReadMoves ==
    ASSUME NEW q \in PipeType, NEW s, Fitting(q, s), s # <<>>, Head(s).k = "read",
           NEW g \in FrameType, g.k = "read", g.at \in {"loop", "next", "leave", "close"}
    PROVE  Fitting(q, <<g>> \o Tail(s))
<1>1. s \in Seq(FrameType) /\ Nested(s) /\ Nested(Tail(s)) /\ Tail(s) \in Seq(FrameType)
  BY NestedPop DEF Nested, Fitting
<1>2. /\ Head(s) = s[1] /\ Len(Tail(s)) = Len(s) - 1 /\ Len(s) > 0
      /\ \A i \in 1..Len(s) - 1 : Tail(s)[i] = s[i + 1]
  BY <1>1, PopSeq
<1>3. Fits(g, Tail(s))
  <2>1. 1 \in DOMAIN s /\ s[1].k = "read"
    BY <1>1, <1>2
  <2>2. Last(s, 1) \/ Below(s, 1, "wait", {"count"})
    BY <1>1, <2>1 DEF Nested
  <2>3. CASE Last(s, 1)
    <3>1. Tail(s) = <<>>
      BY <2>3, <1>1, <1>2 DEF Last
    <3> QED
      BY <3>1 DEF Fits
  <2>4. CASE Below(s, 1, "wait", {"count"})
    <3>1. Tail(s)[1].k = "wait" /\ Tail(s)[1].at = "count"
      BY <2>4, <1>1, <1>2 DEF Below
    <3> QED
      BY <3>1 DEF Fits
  <2> QED
    BY <2>2, <2>3, <2>4
<1>4. Nested(<<g>> \o Tail(s))
  BY <1>1, <1>3, NestedPush
<1>5. Cardinality(Users(<<g>> \o Tail(s))) = Cardinality(Users(s))
  BY <1>1, UsersPush, UsersPop DEF Using
<1>6. LastWait(q, <<g>> \o Tail(s))
  BY <1>1, LastWaitPop, LastWaitPush DEF Fitting
<1> QED
  BY <1>4, <1>5, <1>6 DEF Fitting, Released

\* The read on top calls the handler.
LEMMA HandlerCalled ==
    ASSUME NEW q \in PipeType, NEW s, Fitting(q, s), s # <<>>, Head(s).k = "read",
           Head(s).at \in {"next", "leave", "close"}
    PROVE  Fitting(q, <<Frame("handler", "run", 0)>> \o s)
<1> DEFINE f == Frame("handler", "run", 0)
<1>1. s \in Seq(FrameType) /\ Nested(s) /\ f \in FrameType /\ f.k = "handler" /\ ~Using(f)
  BY DEF Nested, Fitting, Frame, FrameType, Using
<1>2. Fits(f, s)
  BY <1>1, PopSeq DEF Fits, Frame
<1> HIDE DEF f
<1>3. Nested(<<f>> \o s)
  BY <1>1, <1>2, NestedPush
<1>4. Cardinality(Users(<<f>> \o s)) = Cardinality(Users(s))
  BY <1>1, UsersPush, UsersFinite
<1>5. LastWait(q, <<f>> \o s)
  BY <1>1, LastWaitPush DEF Fitting
<1> QED
  BY <1>3, <1>4, <1>5 DEF Fitting, Released, f

\* A frame that does not use the pipe returns.
LEMMA UnusedReturns ==
    ASSUME NEW q \in PipeType, NEW s, Fitting(q, s), s # <<>>, ~Using(Head(s))
    PROVE  Fitting(q, Tail(s))
<1>1. s \in Seq(FrameType) /\ Nested(s) /\ Nested(Tail(s)) /\ Tail(s) \in Seq(FrameType)
  BY NestedPop DEF Nested, Fitting
<1>2. Cardinality(Users(Tail(s))) = Cardinality(Users(s))
  <2>1. Cardinality(Users(Tail(s))) \in Nat
    BY <1>1, UsersFinite
  <2> QED
    BY <1>1, <2>1, UsersPop
<1>3. LastWait(q, Tail(s))
  BY <1>1, LastWaitPop DEF Fitting
<1> QED
  BY <1>1, <1>2, <1>3 DEF Fitting, Released

\* How the stack is replaced by Instead.
LEMMA InsteadOf ==
    ASSUME NEW T, NEW s \in Seq(T), NEW f \in T, NEW g \in T
    PROVE  /\ <<>> \o s = s
           /\ <<f, g>> \o s = <<f>> \o (<<g>> \o s)
           /\ <<f>> \o <<g>> = <<f, g>> /\ <<>> \o <<g>> = <<g>>
<1>1. <<f, g>> \in Seq(T) /\ Len(<<f, g>>) = 2 /\ <<f, g>>[1] = f /\ <<f, g>>[2] = g
  OBVIOUS
<1>2. <<>> \o s = s
  OBVIOUS
<1>3. <<f>> \o <<g>> = <<f, g>> /\ <<>> \o <<g>> = <<g>>
  <2>1. <<f>> \in Seq(T) /\ <<g>> \in Seq(T)
    OBVIOUS
  <2>2. <<>> \o <<g>> = <<g>>
    BY <2>1
  <2> DEFINE d == <<f>> \o <<g>>
  <2>3. d \in Seq(T) /\ Len(d) = 2 /\ d[1] = f /\ d[2] = g
    BY <2>1
  <2> HIDE DEF d
  <2>4. d = <<f, g>>
    BY <2>3, <1>1
  <2> QED
    BY <2>2, <2>4 DEF d
<1>4. <<f, g>> \o s = <<f>> \o (<<g>> \o s)
  <2> DEFINE a == <<f, g>> \o s
             b == <<g>> \o s
             c == <<f>> \o b
  <2>1. /\ a \in Seq(T) /\ Len(a) = Len(s) + 2 /\ a[1] = f /\ a[2] = g
        /\ \A i \in 3..Len(s) + 2 : a[i] = s[i - 2]
    BY <1>1
  <2>2. /\ b \in Seq(T) /\ Len(b) = Len(s) + 1 /\ b[1] = g
        /\ \A i \in 2..Len(s) + 1 : b[i] = s[i - 1]
    BY PushSeq
  <2>3. /\ c \in Seq(T) /\ Len(c) = Len(b) + 1 /\ c[1] = f
        /\ \A i \in 2..Len(b) + 1 : c[i] = b[i - 1]
    BY <2>2, PushSeq
  <2> HIDE DEF a, b, c
  <2>4. \A i \in 1..Len(s) + 2 : a[i] = c[i]
    <3> TAKE i \in 1..Len(s) + 2
    <3>1. CASE i = 1
      BY <3>1, <2>1, <2>3
    <3>2. CASE i = 2
      BY <3>2, <2>1, <2>2, <2>3
    <3>3. CASE i > 2
      <4>1. i \in 3..Len(s) + 2 /\ i \in 2..Len(b) + 1 /\ i - 1 \in 2..Len(s) + 1 /\ (i - 1) - 1 = i - 2
        BY <3>3, <2>2
      <4> QED
        BY <4>1, <2>1, <2>2, <2>3
    <3> QED
      BY <3>1, <3>2, <3>3
  <2>5. Len(c) = Len(s) + 2 /\ Len(s) \in Nat
    BY <2>2, <2>3
  <2>6. a = c
    BY <2>1, <2>3, <2>4, <2>5
  <2> QED
    BY <2>6 DEF a, b, c
<1> QED
  BY <1>2, <1>3, <1>4

-----------------------------------------------------------------------------
(* The stack *)

\* The steps of the writer and the calls that leave the stack alone.
LEMMA StackUnchanged ==
    ASSUME TypeOK, StackInv,
           Writer \/ Freeze \/ Thaw \/ ReadClose
    PROVE  p' \in PipeType /\ StackInv'
<1>1. p \in PipeType
  BY DEF TypeOK
<1>2. /\ stack' = stack /\ p' \in PipeType
      /\ p'.handling = p.handling /\ p'.message = p.message
      /\ p'.delete_me = p.delete_me /\ p'.freed = p.freed
      /\ p'.fd_handler => p.fd_handler \/ p.fd_read
      /\ p'.fd_read => p.fd_read
      /\ p'.fd_write => p.fd_write
  <2>1. CASE WriteLen
    BY <1>1, <2>1 DEF WriteLen, PipeType
  <2>2. CASE WriteData
    BY <1>1, <2>2 DEF WriteData, PipeType
  <2>3. CASE WriteClose
    BY <1>1, <2>3 DEF WriteClose, PipeType
  <2>4. CASE Freeze
    BY <1>1, <2>4 DEF Freeze, PipeType
  <2>5. CASE Thaw
    BY <1>1, <2>5 DEF Thaw, PipeType
  <2>6. CASE ReadClose
    BY <1>1, <2>6 DEF ReadClose, PipeType
  <2> QED
    BY <2>1, <2>2, <2>3, <2>4, <2>5, <2>6 DEF Writer
<1>3. p.fd_read => ~p.freed
  BY DEF StackInv, Fitting, Released
<1>4. p'.message >= p.message
  BY <1>1, <1>2 DEF PipeType
<1>5. Fitting(p, stack)
  BY DEF StackInv
<1>6. Fitting(p', stack)
  BY <1>1, <1>2, <1>3, <1>4, <1>5, FittingFields
<1> QED
  BY <1>2, <1>6 DEF StackInv

\* core_pipe_del: a handler is on top of a read, which defers the release.
LEMMA StackDel ==
    ASSUME TypeOK, StackInv, PipeDel
    PROVE  p' \in PipeType /\ StackInv'
<1>1. p \in PipeType /\ p' = Del(p) /\ stack' = stack
  BY DEF TypeOK, PipeDel
<1>2. Nested(stack) /\ stack \in Seq(FrameType) /\ p.handling = Cardinality(Users(stack))
  BY DEF StackInv, Fitting, Nested
<1>3. /\ p' \in PipeType /\ p'.handling = p.handling /\ p'.message = p.message
      /\ p'.delete_me
      /\ p.handling > 0 => p'.freed = p.freed /\ p'.fd_handler = p.fd_handler
                           /\ p'.fd_read = p.fd_read /\ p'.fd_write = p.fd_write
      /\ ~(p.handling > 0) => ~p'.fd_handler /\ ~p'.fd_read /\ ~p'.fd_write
  BY <1>1 DEF Del, PipeType
<1>4. CASE stack = <<>>
  <2>1. \A q : LastWait(q, stack)
    BY <1>4 DEF LastWait
  <2>2. Released(p', stack)
    BY <1>3, <1>4 DEF Released, StackInv, Fitting
  <2> QED
    BY <1>1, <1>2, <1>3, <2>1, <2>2 DEF StackInv, Fitting
<1>5. CASE stack # <<>>
  <2>1. /\ stack[1].k = "handler" /\ 1 \in DOMAIN stack
    BY <1>2, <1>5, PopSeq DEF PipeDel, CanCall, Top
  <2>2. Below(stack, 1, "read", {"next", "leave", "close"})
    BY <1>2, <2>1 DEF Nested
  <2>3. p.handling > 0
    <3>1. 2 \in DOMAIN stack /\ Using(stack[2])
      BY <2>2 DEF Below, Using
    <3> QED
      BY <1>2, <3>1, UsersPositive
  <2>4. Released(p', stack)
    BY <1>3, <2>3 DEF Released, StackInv, Fitting
  <2>5. LastWait(p', stack)
    <3> SUFFICES ASSUME ~DelInWait, NEW i \in DOMAIN stack, stack[i].k = "wait"
                 PROVE  /\ stack[i].at = "count" /\ stack[i].n <= p.message
                        /\ \A j \in DOMAIN stack : stack[j].k = "wait" => j = i
      BY <1>3 DEF LastWait
    <3> DEFINE waits == {j \in DOMAIN stack : stack[j].k = "wait"}
    <3>1. i \in waits /\ waits = {i} /\ stack[i].n <= p.message
      BY DEF PipeDel, DelAllowed
    <3>2. i # 1 /\ i \in 1..Len(stack)
      BY <2>1, <1>2
    <3>3. stack[i].at = "count"
      BY <1>2, <3>2 DEF Nested
    <3> QED
      BY <3>1, <3>3
  <2> QED
    BY <1>1, <1>2, <1>3, <2>4, <2>5 DEF StackInv, Fitting
<1> QED
  BY <1>4, <1>5

\* A read counts itself in.
LEMMA StartReadType ==
    ASSUME NEW q \in PipeType
    PROVE  /\ StartRead(q) \in PipeType
           /\ StartRead(q).handling = q.handling + 1
           /\ StartRead(q).freed = q.freed
           /\ StartRead(q).delete_me = q.delete_me
BY DEF StartRead, PipeType

\* A wait, a wakeup and the reads of a wait push frames.
LEMMA StackPush ==
    ASSUME TypeOK, StackInv, (\E n \in 1..2 : Wait(n)) \/ Wakeup \/ WaitPoll
    PROVE  p' \in PipeType /\ StackInv'
<1>1. p \in PipeType /\ Nested(stack) /\ stack \in Seq(FrameType)
      /\ p.handling = Cardinality(Users(stack)) /\ p.handling \in Nat
  BY DEF TypeOK, PipeType, StackInv, Fitting, Nested
<1> DEFINE r == Frame("read", "loop", 0)
<1>2. r \in FrameType /\ r.k = "read" /\ r.at = "loop" /\ Using(r)
  BY DEF Frame, FrameType, Using
<1>3. ASSUME NEW n \in 1..2, Wait(n)
      PROVE  p' \in PipeType /\ StackInv'
  <2> DEFINE f == Frame("wait", "poll", n)
  <2>1. f \in FrameType /\ f.k = "wait" /\ f.at = "poll" /\ ~Using(f)
    BY DEF Frame, FrameType, Using
  <2>2. Fits(f, stack)
    <3>1. stack = <<>> \/ (stack[1].k = "handler" /\ 1 \in DOMAIN stack)
      BY <1>1, <1>3, PopSeq DEF Wait, CanCall, Top
    <3>2. stack = <<>> \/ (stack[1].k = "handler" /\ stack[1].at = "run")
      BY <1>1, <3>1 DEF Nested
    <3> QED
      BY <2>1, <3>2 DEF Fits
  <2>3. p' = p /\ stack' = <<f>> \o stack /\ ~p.delete_me
    BY <1>3 DEF Wait, CanCall
  <2> HIDE DEF f
  <2>4. Nested(<<f>> \o stack)
    BY <1>1, <2>1, <2>2, NestedPush
  <2>5. Cardinality(Users(<<f>> \o stack)) = Cardinality(Users(stack))
    BY <1>1, <2>1, UsersPush
  <2>6. LastWait(p, <<f>> \o stack) /\ Released(p, <<f>> \o stack)
    BY <2>3 DEF LastWait, Released, StackInv, Fitting
  <2> QED
    BY <1>1, <2>3, <2>4, <2>5, <2>6 DEF StackInv, Fitting
<1>4. ASSUME Wakeup
      PROVE  p' \in PipeType /\ StackInv'
  <2>1. stack = <<>> /\ p' = StartRead(p) /\ stack' = <<r>> /\ ~p.freed
    BY <1>4 DEF Wakeup, ReadFrame, StackInv, Fitting, Released
  <2>2. <<r>> \o stack = <<r>>
    BY <1>2, <2>1
  <2>3. /\ p' \in PipeType /\ p'.handling = p.handling + 1 /\ ~p'.freed
    BY <1>1, <2>1, StartReadType
  <2>4. Fits(r, stack)
    BY <1>2, <2>1 DEF Fits
  <2> HIDE DEF r
  <2>5. Nested(<<r>> \o stack)
    BY <1>1, <1>2, <2>4, NestedPush
  <2>6. Cardinality(Users(<<r>> \o stack)) = Cardinality(Users(stack)) + 1
    BY <1>1, <1>2, UsersPush
  <2>7. LastWait(p', stack)
    BY <2>1 DEF LastWait
  <2>8. LastWait(p', <<r>> \o stack)
    BY <1>1, <1>2, <2>7, LastWaitPush
  <2>9. Released(p', <<r>> \o stack)
    BY <2>3 DEF Released
  <2> QED
    BY <1>1, <2>1, <2>2, <2>3, <2>5, <2>6, <2>8, <2>9 DEF StackInv, Fitting
<1>5. ASSUME WaitPoll
      PROVE  p' \in PipeType /\ StackInv'
  <2> DEFINE c == [Head(stack) EXCEPT !.at = "count"]
             t == Tail(stack)
  <2>1. /\ stack # <<>> /\ Head(stack).k = "wait" /\ Head(stack).at = "poll" /\ p.fd_read
        /\ p' = StartRead(StartRead(p)) /\ stack' = <<r, c>> \o t
    BY <1>5 DEF WaitPoll, Readable, At, Top, Instead, ReadFrame
  <2>2. p' \in PipeType /\ p'.handling = p.handling + 2 /\ p'.freed = p.freed /\ p'.delete_me = p.delete_me
    <3>1. /\ StartRead(p) \in PipeType /\ StartRead(p).handling = p.handling + 1
          /\ StartRead(p).freed = p.freed /\ StartRead(p).delete_me = p.delete_me
      BY <1>1, StartReadType
    <3> DEFINE q == StartRead(p)
    <3> HIDE DEF q
    <3>2. /\ StartRead(q) \in PipeType /\ StartRead(q).handling = q.handling + 1
          /\ StartRead(q).freed = q.freed /\ StartRead(q).delete_me = q.delete_me
      BY <3>1, StartReadType DEF q
    <3>3. q.handling + 1 = p.handling + 2
      BY <1>1, <3>1 DEF q
    <3> QED
      BY <2>1, <3>1, <3>2, <3>3 DEF q
  <2>3. /\ Head(stack) \in FrameType /\ Head(stack) = stack[1] /\ 1 \in DOMAIN stack
        /\ t \in Seq(FrameType) /\ Len(t) = Len(stack) - 1
        /\ \A i \in 1..Len(stack) - 1 : t[i] = stack[i + 1]
    BY <1>1, <2>1, PopSeq
  <2>4. c \in FrameType /\ c.k = "wait" /\ c.at = "count" /\ Using(c)
    BY <2>1, <2>3 DEF FrameType, Using
  <2>5. Nested(t)
    BY <1>1, <2>1, NestedPop
  <2> HIDE DEF c, t, r
  <2>6. stack' = <<r>> \o (<<c>> \o t)
    BY <1>2, <2>1, <2>3, <2>4, InsteadOf
  <2>7. Fits(c, t)
    <3>1. Last(stack, 1) \/ Below(stack, 1, "handler", {"run"})
      BY <1>1, <2>1, <2>3 DEF Nested
    <3>2. Last(stack, 1) => t = <<>>
      BY <1>1, <2>3 DEF Last
    <3>3. Below(stack, 1, "handler", {"run"}) => t[1].k = "handler" /\ t[1].at = "run"
      BY <1>1, <2>3 DEF Below
    <3> QED
      BY <2>4, <3>1, <3>2, <3>3 DEF Fits
  <2>8. Cardinality(Users(t)) = Cardinality(Users(stack))
    <3>1. ~Using(Head(stack))
      BY <2>1 DEF Using
    <3>2. Cardinality(Users(t)) \in Nat
      BY <2>3, UsersFinite
    <3> QED
      BY <1>1, <2>1, <3>1, <3>2, UsersPop DEF t
  <2> DEFINE u == <<c>> \o t
  <2>9. Nested(u) /\ u \in Seq(FrameType) /\ u # <<>> /\ u[1] = c
    <3>1. Nested(u)
      BY <2>4, <2>5, <2>7, NestedPush
    <3> QED
      BY <3>1, <2>3, <2>4, PushSeq
  <2>10. Cardinality(Users(u)) = Cardinality(Users(stack)) + 1
    BY <2>3, <2>4, <2>8, UsersPush
  <2> HIDE DEF u
  <2>11. Fits(r, u)
    BY <1>2, <2>4, <2>9 DEF Fits
  <2>12. Nested(<<r>> \o u)
    BY <1>2, <2>9, <2>11, NestedPush
  <2>13. Cardinality(Users(<<r>> \o u)) = p.handling + 2
    BY <1>1, <1>2, <2>9, <2>10, UsersPush
  <2>14. ~p.freed
    BY <2>1 DEF StackInv, Fitting, Released
  <2>15. DelInWait \/ ~p.delete_me
    <3>1. LastWait(p, stack)
      BY DEF StackInv, Fitting
    <3> QED
      BY <3>1, <2>1, <2>3 DEF LastWait
  <2>16. LastWait(p', <<r>> \o u) /\ Released(p', <<r>> \o u)
    BY <2>2, <2>14, <2>15 DEF LastWait, Released
  <2> QED
    BY <2>2, <2>6, <2>12, <2>13, <2>16 DEF StackInv, Fitting, u
<1> QED
  BY <1>3, <1>4, <1>5

\* Returns from the handler and from a wait that gives up.
LEMMA StackPop ==
    ASSUME TypeOK, StackInv, HandlerReturn \/ WaitTimeout
    PROVE  p' \in PipeType /\ StackInv'
<1>1. p \in PipeType /\ Fitting(p, stack) /\ stack \in Seq(FrameType) /\ Nested(stack)
  BY DEF TypeOK, StackInv, Fitting, Nested
<1>2. /\ stack # <<>> /\ p' = p /\ stack' = <<>> \o Tail(stack)
      /\ \/ Head(stack).k = "handler" /\ Head(stack).at = "run"
         \/ Head(stack).k = "wait" /\ Head(stack).at = "poll"
  BY DEF HandlerReturn, WaitTimeout, At, Top, Instead
<1>3. stack' = Tail(stack)
  BY <1>1, <1>2, PopSeq
<1>4. ~Using(Head(stack))
  BY <1>2 DEF Using
<1>5. Fitting(p, Tail(stack))
  BY <1>1, <1>2, <1>4, UnusedReturns
<1> QED
  BY <1>1, <1>2, <1>3, <1>5 DEF StackInv

\* The fields of a pipe whose message was handed out.
LEMMA HandlerCallType ==
    ASSUME NEW q \in PipeType
    PROVE  /\ HandlerCall(q) \in PipeType
           /\ HandlerCall(q).message = q.message + 1 /\ HandlerCall(q).message >= q.message
           /\ HandlerCall(q).len = 0 /\ HandlerCall(q).passed_data = <<>>
           /\ HandlerCall(q).handling = q.handling
           /\ HandlerCall(q).delete_me = q.delete_me
           /\ HandlerCall(q).freed = q.freed
           /\ HandlerCall(q).fd_handler = q.fd_handler
           /\ HandlerCall(q).fd_read = q.fd_read
           /\ HandlerCall(q).fd_write = q.fd_write
<1>1. q.message \in Nat /\ <<>> \in Seq(Unit)
  BY DEF PipeType
<1>2. HandlerCall(q) \in PipeType
  <2>1. \A e \in Seq(Unit), m \in Nat :
           [q EXCEPT !.passed_data = e, !.len = 0, !.message = m] \in PipeType
    <3> TAKE e \in Seq(Unit), m \in Nat
    <3> QED
      BY DEF PipeType
  <2>2. [q EXCEPT !.passed_data = <<>>, !.len = 0, !.message = q.message + 1] \in PipeType
    <3>1. q.message + 1 \in Nat
      BY <1>1
    <3> QED
      BY <1>1, <2>1, <3>1, Zenon
  <2> QED
    BY <2>2 DEF HandlerCall
<1>3. HandlerCall(q).message = q.message + 1 /\ q.message + 1 >= q.message
  BY <1>1 DEF HandlerCall, PipeType
<1>4. /\ HandlerCall(q).len = 0 /\ HandlerCall(q).passed_data = <<>>
      /\ HandlerCall(q).handling = q.handling
      /\ HandlerCall(q).delete_me = q.delete_me
      /\ HandlerCall(q).freed = q.freed
      /\ HandlerCall(q).fd_handler = q.fd_handler
      /\ HandlerCall(q).fd_read = q.fd_read
      /\ HandlerCall(q).fd_write = q.fd_write
  BY DEF HandlerCall, PipeType
<1> QED
  BY <1>2, <1>3, <1>4

\* A read hands out what it has read: r is the pipe then.
LEMMA StackCall ==
    ASSUME TypeOK, StackInv, At("read", "loop"),
           NEW at \in {"next", "leave", "close"}, NEW r \in PipeType,
           r.handling = p.handling, r.message = p.message,
           r.delete_me = p.delete_me, r.freed = p.freed,
           r.fd_handler = p.fd_handler, r.fd_read = p.fd_read, r.fd_write = p.fd_write,
           p' = HandlerCall(r), Instead(CallFrames(at))
    PROVE  /\ p' \in PipeType /\ StackInv'
           /\ Head(stack').k = IF p.delete_me THEN "read" ELSE "handler"
<1> DEFINE g == [Head(stack) EXCEPT !.at = at]
           h == Frame("handler", "run", 0)
           t == <<g>> \o Tail(stack)
<1>1. p \in PipeType /\ Fitting(p, stack) /\ stack \in Seq(FrameType)
  BY DEF TypeOK, StackInv, Fitting, Nested
<1>2. stack # <<>> /\ Head(stack).k = "read"
  BY DEF At, Top
<1>3. Head(stack) \in FrameType /\ Tail(stack) \in Seq(FrameType)
  BY <1>1, <1>2, PopSeq
<1>4. g \in FrameType /\ g.k = "read" /\ g.at = at /\ h \in FrameType /\ h.k = "handler"
  BY <1>2, <1>3 DEF FrameType, Frame
<1>5. stack' = IF p.delete_me THEN (<<>> \o <<g>>) \o Tail(stack) ELSE (<<h>> \o <<g>>) \o Tail(stack)
  BY DEF Instead, CallFrames, Top
<1> HIDE DEF g, h
<1>6. stack' = IF p.delete_me THEN t ELSE <<h>> \o t
  <2>1. /\ <<>> \o <<g>> = <<g>> /\ <<h>> \o <<g>> = <<h, g>>
        /\ <<h, g>> \o Tail(stack) = <<h>> \o (<<g>> \o Tail(stack))
    BY <1>3, <1>4, InsteadOf
  <2>2. (<<>> \o <<g>>) \o Tail(stack) = t /\ (<<h>> \o <<g>>) \o Tail(stack) = <<h>> \o t
    BY <2>1, Zenon
  <2> QED
    BY <1>5, <2>2, Zenon
<1>7. Fitting(p, t)
  BY <1>1, <1>2, <1>4, ReadMoves
<1>8. t \in Seq(FrameType) /\ t # <<>> /\ Head(t) = g /\ Head(<<h>> \o t) = h
  BY <1>3, <1>4, PushSeq
<1> HIDE DEF t
<1>9. Fitting(p, <<h>> \o t)
  BY <1>1, <1>4, <1>7, <1>8, HandlerCalled DEF h
<1>10. /\ p' \in PipeType /\ p'.message >= p.message /\ p'.handling = p.handling
       /\ p'.delete_me = p.delete_me /\ p'.freed = p.freed
       /\ p'.fd_handler = p.fd_handler /\ p'.fd_read = p.fd_read /\ p'.fd_write = p.fd_write
  BY HandlerCallType
<1>11. Fitting(p', t) /\ Fitting(p', <<h>> \o t)
  BY <1>1, <1>7, <1>9, <1>10, FittingFields
<1> QED
  BY <1>4, <1>6, <1>8, <1>10, <1>11 DEF StackInv

\* A read returns: r is the pipe then.
LEMMA StackReturn ==
    ASSUME TypeOK, StackInv, NEW r \in PipeType, stack # <<>>, Head(stack).k = "read",
           r.handling = p.handling, r.message = p.message,
           r.delete_me = p.delete_me, r.freed = p.freed,
           r.fd_handler => p.fd_handler, r.fd_read => p.fd_read, r.fd_write => p.fd_write,
           p' = Unhandle(r), Instead(<<>>)
    PROVE  p' \in PipeType /\ StackInv' /\ r.handling > 0
<1>1. p \in PipeType /\ Fitting(p, stack) /\ stack \in Seq(FrameType) /\ Nested(stack)
  BY DEF TypeOK, StackInv, Fitting, Nested
<1>2. r.message >= p.message
  BY <1>1 DEF PipeType
<1>3. Fitting(r, stack)
  BY <1>1, <1>2, FittingFields
<1>4. stack' = Tail(stack)
  BY <1>1, PopSeq DEF Instead
<1>5. Using(Head(stack))
  BY DEF Using
<1>6. LastWait(r, Tail(stack))
  BY <1>1, <1>3, LastWaitPop DEF Fitting
<1>7. r.handling > 0 /\ Fitting(Unhandle(r), Tail(stack))
  BY <1>1, <1>3, <1>5, <1>6, UnhandleFits DEF Fitting
<1> QED
  BY <1>4, <1>7, UnhandleType DEF StackInv

\* The fields of a pipe that has read more data.
LEMMA TakeDataType ==
    ASSUME TypeOK, NEW k \in 0..Len(pipe)
    PROVE  LET q == TakeData(p, k) IN
           /\ q \in PipeType
           /\ q.passed_data = p.passed_data \o SubSeq(pipe, 1, k)
           /\ q.len = p.len /\ q.handling = p.handling /\ q.message = p.message
           /\ q.delete_me = p.delete_me /\ q.freed = p.freed
           /\ q.fd_handler = p.fd_handler /\ q.fd_read = p.fd_read /\ q.fd_write = p.fd_write
<1>1. p \in PipeType /\ pipe \in Seq(Unit)
  BY DEF TypeOK
<1> DEFINE d == p.passed_data \o SubSeq(pipe, 1, k)
<1>2. p.passed_data \in Seq(Unit)
  BY <1>1 DEF PipeType
<1>3. SubSeq(pipe, 1, k) \in Seq(Unit)
  BY <1>1
<1>4. d \in Seq(Unit)
  BY <1>2, <1>3
<1>5. TakeData(p, k) = [p EXCEPT !.passed_data = d]
  BY DEF TakeData
<1> HIDE DEF d
<1> QED
  BY <1>1, <1>4, <1>5 DEF PipeType, d

\* The fields of a pipe that has read a length.
LEMMA TakeLenType ==
    ASSUME NEW q \in PipeType, NEW l \in Nat
    PROVE  LET r == [q EXCEPT !.len = l] IN
           /\ r \in PipeType
           /\ r.len = l /\ r.passed_data = q.passed_data
           /\ r.handling = q.handling /\ r.message = q.message
           /\ r.delete_me = q.delete_me /\ r.freed = q.freed
           /\ r.fd_handler = q.fd_handler /\ r.fd_read = q.fd_read /\ r.fd_write = q.fd_write
BY DEF PipeType

\* The units to read.
LEMMA UnitType ==
    ASSUME TypeOK, NEW i \in DOMAIN pipe
    PROVE  /\ pipe[i] \in Unit /\ pipe[i].m \in 1..MaxMsg /\ pipe[i].i \in Nat
           /\ Sizes[pipe[i].m] \in Nat
<1>1. pipe[i] \in Unit
  BY DEF TypeOK
<1> QED
  BY <1>1, SizesAssumption DEF Unit, MaxMsg

\* The steps of _core_pipe_read.
LEMMA StackRead ==
    ASSUME TypeOK, StackInv, ReadLen \/ ReadData \/ ReadNext \/ ReadLeave \/ ReadClosed
    PROVE  p' \in PipeType /\ StackInv'
<1>1. p \in PipeType /\ Fitting(p, stack) /\ stack \in Seq(FrameType)
  BY DEF TypeOK, StackInv, Fitting, Nested
<1>2. ASSUME ReadLen
      PROVE  p' \in PipeType /\ StackInv'
  <2>1. stack # <<>> /\ Head(stack).k = "read" /\ At("read", "loop")
    BY <1>2 DEF ReadLen, At, Top
  <2>2. CASE p' = HandlerCall(p) /\ Instead(CallFrames("leave"))
    BY <1>1, <2>1, <2>2, StackCall
  <2>3. CASE p' = HandlerCall(p) /\ Instead(CallFrames("close"))
    BY <1>1, <2>1, <2>3, StackCall
  <2>4. CASE p' = Unhandle(p) /\ Instead(<<>>)
    BY <1>1, <2>1, <2>4, StackReturn
  <2>5. CASE /\ pipe # <<>> /\ p' = [p EXCEPT !.len = Sizes[pipe[1].m]] /\ stack' = stack
    <3>1. 1 \in DOMAIN pipe
      BY <2>5 DEF TypeOK
    <3>2. /\ p' \in PipeType /\ p'.handling = p.handling /\ p'.message = p.message
          /\ p'.delete_me = p.delete_me /\ p'.freed = p.freed
          /\ p'.fd_handler = p.fd_handler /\ p'.fd_read = p.fd_read /\ p'.fd_write = p.fd_write
      BY <1>1, <2>5, <3>1, UnitType, TakeLenType
    <3>3. p'.message >= p.message
      BY <1>1, <3>2 DEF PipeType
    <3>4. Fitting(p', stack)
      BY <1>1, <3>2, <3>3, FittingFields
    <3> QED
      BY <2>5, <3>2, <3>4 DEF StackInv
  <2> QED
    BY <1>2, <2>2, <2>3, <2>4, <2>5 DEF ReadLen, ReadReturn
<1>3. ASSUME ReadData
      PROVE  p' \in PipeType /\ StackInv'
  <2> DEFINE need == p.len - Len(p.passed_data)
             k == IF ~p.fd_read THEN 0 ELSE IF need < Len(pipe) THEN need ELSE Len(pipe)
             q == TakeData(p, k)
  <2>1. stack # <<>> /\ Head(stack).k = "read" /\ At("read", "loop")
    BY <1>3 DEF ReadData, At, Top
  <2>2. k \in 0..Len(pipe)
    <3>1. Len(pipe) \in Nat /\ p.len \in Nat /\ Len(p.passed_data) \in Nat /\ Len(p.passed_data) < p.len
      BY <1>3 DEF TypeOK, PipeType, ReadData
    <3> QED
      BY <3>1
  <2>3. \/ p' = HandlerCall(q) /\ Instead(CallFrames("next"))
        \/ p' = Unhandle(q) /\ Instead(<<>>)
    BY <1>3 DEF ReadData
  <2> HIDE DEF k, need
  <2>4. /\ q \in PipeType /\ q.handling = p.handling /\ q.message = p.message
        /\ q.delete_me = p.delete_me /\ q.freed = p.freed
        /\ q.fd_handler = p.fd_handler /\ q.fd_read = p.fd_read /\ q.fd_write = p.fd_write
    BY <2>2, TakeDataType
  <2> HIDE DEF q
  <2>5. CASE p' = HandlerCall(q) /\ Instead(CallFrames("next"))
    BY <2>1, <2>4, <2>5, StackCall
  <2>6. CASE p' = Unhandle(q) /\ Instead(<<>>)
    BY <2>1, <2>4, <2>6, StackReturn
  <2> QED
    BY <2>3, <2>5, <2>6
<1>4. ASSUME ReadNext
      PROVE  p' \in PipeType /\ StackInv'
  <2>1. stack # <<>> /\ Head(stack).k = "read"
    BY <1>4 DEF ReadNext, At, Top
  <2>2. CASE p' = Unhandle(p) /\ Instead(<<>>)
    BY <1>1, <2>1, <2>2, StackReturn
  <2>3. CASE p' = p /\ Instead(<<Frame("read", "loop", Top.n + 1)>>)
    <3> DEFINE g == Frame("read", "loop", Head(stack).n + 1)
    <3>1. g \in FrameType /\ g.k = "read" /\ g.at = "loop"
      <4>1. Head(stack) \in FrameType
        BY <1>1, <2>1, PopSeq
      <4> QED
        BY <4>1 DEF Frame, FrameType
    <3>2. stack' = <<g>> \o Tail(stack)
      BY <2>3 DEF Instead, Top
    <3> HIDE DEF g
    <3>3. Fitting(p, <<g>> \o Tail(stack))
      BY <1>1, <2>1, <3>1, ReadMoves
    <3> QED
      BY <1>1, <2>3, <3>2, <3>3 DEF StackInv
  <2> QED
    BY <1>4, <2>2, <2>3 DEF ReadNext, ReadReturn
<1>5. ASSUME ReadLeave
      PROVE  p' \in PipeType /\ StackInv'
  <2>1. /\ stack # <<>> /\ Head(stack).k = "read"
        /\ p' = Unhandle(p) /\ Instead(<<>>)
    BY <1>5 DEF ReadLeave, ReadReturn, At, Top
  <2> QED
    BY <1>1, <2>1, StackReturn
<1>6. ASSUME ReadClosed
      PROVE  p' \in PipeType /\ StackInv'
  <2> DEFINE q == [p EXCEPT !.fd_read = FALSE, !.fd_handler = FALSE]
  <2>1. /\ stack # <<>> /\ Head(stack).k = "read"
        /\ p' = Unhandle(q) /\ Instead(<<>>)
    BY <1>6 DEF ReadClosed, At, Top
  <2>2. /\ q \in PipeType /\ q.handling = p.handling /\ q.message = p.message
        /\ q.delete_me = p.delete_me /\ q.freed = p.freed
        /\ ~q.fd_handler /\ ~q.fd_read /\ q.fd_write = p.fd_write
    BY <1>1 DEF PipeType
  <2> HIDE DEF q
  <2> QED
    BY <2>1, <2>2, StackReturn
<1> QED
  BY <1>2, <1>3, <1>4, <1>5, <1>6

\* The messages of a wait are counted: when the pipe was deleted the wait
\* has them all and returns.
LEMMA StackCount ==
    ASSUME TypeOK, StackInv, WaitCount
    PROVE  p' \in PipeType /\ StackInv'
<1> DEFINE q == [p EXCEPT !.message = 0]
           n == Head(stack).n - p.message
           f == Frame("wait", "poll", n)
           t == Tail(stack)
<1>1. p \in PipeType /\ Fitting(p, stack) /\ stack \in Seq(FrameType) /\ Nested(stack)
  BY DEF TypeOK, StackInv, Fitting, Nested
<1>2. /\ stack # <<>> /\ Head(stack).k = "wait" /\ Head(stack).at = "count"
      /\ p' = Unhandle(q)
      /\ stack' = (IF n <= 0 THEN <<>> ELSE <<f>>) \o t
  BY DEF WaitCount, At, Top, Instead
<1>3. /\ q \in PipeType /\ q.handling = p.handling /\ q.message = 0
      /\ q.delete_me = p.delete_me /\ q.freed = p.freed
      /\ q.fd_handler = p.fd_handler /\ q.fd_read = p.fd_read /\ q.fd_write = p.fd_write
  BY <1>1 DEF PipeType
<1>4. /\ Head(stack) \in FrameType /\ Head(stack) = stack[1] /\ 1 \in DOMAIN stack
      /\ t \in Seq(FrameType) /\ Len(t) = Len(stack) - 1
      /\ \A i \in 1..Len(stack) - 1 : t[i] = stack[i + 1]
  BY <1>1, <1>2, PopSeq
<1>5. n \in Int /\ Head(stack).n \in Nat /\ p.message \in Nat
  BY <1>1, <1>4 DEF FrameType, PipeType
<1>6. Using(Head(stack))
  BY <1>2 DEF Using
<1>7. ~DelInWait /\ p.delete_me => n <= 0 /\ \A i \in DOMAIN t : t[i].k # "wait"
  <2> SUFFICES ASSUME ~DelInWait, p.delete_me
               PROVE  n <= 0 /\ \A i \in DOMAIN t : t[i].k # "wait"
    OBVIOUS
  <2>1. /\ stack[1].n <= p.message
        /\ \A j \in DOMAIN stack : stack[j].k = "wait" => j = 1
    BY <1>1, <1>2, <1>4 DEF Fitting, LastWait
  <2> QED
    BY <1>1, <1>4, <1>5, <2>1
<1> HIDE DEF q, n, t
<1>8. LastWait(q, t)
  BY <1>3, <1>7 DEF LastWait
<1>9. q.handling > 0 /\ Fitting(Unhandle(q), t)
  BY <1>1, <1>2, <1>3, <1>6, <1>8, UnhandleFits DEF Fitting, Released, t
<1>10. Unhandle(q) \in PipeType
  BY <1>3, <1>9, UnhandleType
<1>11. CASE n <= 0
  <2>1. stack' = t
    BY <1>2, <1>4, <1>11
  <2> QED
    BY <1>2, <1>9, <1>10, <2>1 DEF StackInv
<1>12. CASE ~(n <= 0)
  <2>1. f \in FrameType /\ f.k = "wait" /\ f.at = "poll" /\ ~Using(f)
    BY <1>5, <1>12 DEF Frame, FrameType, Using
  <2>2. Fits(f, t)
    <3>1. Last(stack, 1) \/ Below(stack, 1, "handler", {"run"})
      BY <1>1, <1>2, <1>4 DEF Nested
    <3>2. Last(stack, 1) => t = <<>>
      BY <1>1, <1>4 DEF Last
    <3>3. Below(stack, 1, "handler", {"run"}) => t[1].k = "handler" /\ t[1].at = "run"
      BY <1>1, <1>4 DEF Below
    <3> HIDE DEF f
    <3> QED
      BY <2>1, <3>1, <3>2, <3>3 DEF Fits
  <2>3. stack' = <<f>> \o t
    BY <1>2, <1>12
  <2> HIDE DEF f
  <2>4. Nested(<<f>> \o t)
    BY <1>9, <2>1, <2>2, NestedPush DEF Fitting
  <2>5. Cardinality(Users(<<f>> \o t)) = Cardinality(Users(t))
    BY <1>4, <2>1, UsersPush, UsersFinite
  <2>6. ~DelInWait => ~Unhandle(q).delete_me /\ ~Unhandle(q).freed
    <3>1. ~DelInWait => ~q.delete_me /\ ~q.freed
      BY <1>1, <1>2, <1>3, <1>7, <1>12 DEF Fitting, Released
    <3> QED
      BY <1>3, <1>9, <3>1, UnhandleType
  <2>7. LastWait(Unhandle(q), <<f>> \o t) /\ Released(Unhandle(q), <<f>> \o t)
    BY <1>9, <2>6 DEF LastWait, Released, Fitting
  <2> QED
    BY <1>2, <1>9, <1>10, <2>3, <2>4, <2>5, <2>7 DEF StackInv, Fitting
<1> QED
  BY <1>11, <1>12

\* Every step keeps the stack well nested and counted.
LEMMA StackStep ==
    ASSUME TypeOK, StackInv, [Next]_vars
    PROVE  p' \in PipeType /\ StackInv'
<1>1. CASE UNCHANGED vars
  BY <1>1 DEF vars, StackInv, TypeOK
<1> QED
  BY <1>1, StackUnchanged, StackDel, StackPush, StackPop, StackRead, StackCount
     DEF Next, User, Reader, Writer

-----------------------------------------------------------------------------
(* The units *)

\* Writing the unit that follows leaves no gap.
LEMMA GaplessAppend ==
    ASSUME NEW s \in Seq(Unit), Gapless(s), NEW u \in Unit,
           s # <<>> => u = After(s[Len(s)])
    PROVE  Gapless(Append(s, u))
<1> DEFINE t == Append(s, u)
<1>1. /\ t \in Seq(Unit) /\ Len(t) = Len(s) + 1 /\ t[Len(s) + 1] = u
      /\ \A i \in 1..Len(s) : t[i] = s[i]
  OBVIOUS
<1> HIDE DEF t
<1>2. \A i \in 1..Len(t) - 1 : t[i + 1] = After(t[i])
  <2> TAKE i \in 1..Len(t) - 1
  <2>1. CASE i < Len(s)
    <3>1. i \in 1..Len(s) - 1 /\ i + 1 \in 1..Len(s) /\ i \in 1..Len(s)
      BY <1>1, <2>1
    <3> QED
      BY <3>1, <1>1 DEF Gapless
  <2>2. CASE i = Len(s)
    <3>1. i \in 1..Len(s) /\ s # <<>>
      BY <1>1, <2>2
    <3> QED
      BY <3>1, <2>2, <1>1
  <2> QED
    BY <1>1, <2>1, <2>2
<1>3. ASSUME NEW i \in DOMAIN t, NEW j \in DOMAIN t, i <= j,
             t[i].i + (j - i) <= Sizes[t[i].m]
      PROVE  t[j] = [m |-> t[i].m, i |-> t[i].i + (j - i)]
  <2>1. i \in 1..Len(s) + 1 /\ j \in 1..Len(s) + 1 /\ t[i] \in Unit /\ t[j] \in Unit
    BY <1>1
  <2>2. t[i].m \in 1..MaxMsg /\ t[i].i \in Nat /\ Sizes[t[i].m] \in Nat
    BY <2>1, SizesAssumption DEF Unit, MaxMsg
  <2>3. CASE i = j
    <3>1. t[i].i + (j - i) = t[i].i
      BY <2>1, <2>2, <2>3
    <3> QED
      BY <2>1, <2>3, <3>1 DEF Unit
  <2>4. CASE j <= Len(s)
    <3>1. i \in DOMAIN s /\ j \in DOMAIN s /\ t[i] = s[i] /\ t[j] = s[j]
      <4>1. i <= j /\ i \in Nat /\ j \in Nat /\ Len(s) \in Nat
        BY <1>3, <2>1
      <4>2. i \in 1..Len(s) /\ j \in 1..Len(s)
        BY <2>1, <2>4, <4>1
      <4> QED
        BY <1>1, <4>2
    <3> QED
      BY <1>3, <3>1 DEF Gapless
  <2>5. CASE i < j /\ j = Len(s) + 1
    <3> DEFINE l == Len(s)
    <3>1. i \in DOMAIN s /\ l \in DOMAIN s /\ t[i] = s[i] /\ i <= l /\ s # <<>> /\ l \in Nat
      BY <1>1, <2>1, <2>5
    <3>2. s[i].i + (l - i) < Sizes[s[i].m] /\ s[i].i + (l - i) + 1 = t[i].i + (j - i)
      BY <1>3, <2>1, <2>2, <2>5, <3>1
    <3>3. s[l] = [m |-> s[i].m, i |-> s[i].i + (l - i)]
      <4>1. s[i].i + (l - i) <= Sizes[s[i].m]
        <5>1. s[i].i \in Nat /\ Sizes[s[i].m] \in Nat /\ l \in Nat /\ i \in Nat
          BY <2>1, <2>2, <3>1
        <5> HIDE DEF l
        <5> QED
          BY <3>2, <5>1
      <4> QED
        BY <3>1, <4>1 DEF Gapless
    <3>4. s[l].m = s[i].m /\ s[l].i = s[i].i + (l - i)
      BY <3>3
    <3>5. After(s[l]) = [m |-> s[i].m, i |-> s[i].i + (l - i) + 1]
      BY <3>2, <3>4 DEF After
    <3>6. t[j] = After(s[l])
      BY <1>1, <2>5, <3>1
    <3> QED
      BY <3>1, <3>2, <3>5, <3>6
  <2> QED
    BY <1>1, <1>3, <2>1, <2>3, <2>4, <2>5
<1> QED
  BY <1>2, <1>3 DEF Gapless, t

\* Reading the first k units leaves the units that follow them.
LEMMA GaplessSuffix ==
    ASSUME NEW s \in Seq(Unit), NEW b, NEW w, Between(s, b, w), NEW k \in 0..Len(s),
           NEW t \in Seq(Unit), Len(t) = Len(s) - k,
           \A i \in 1..Len(t) : t[i] = s[i + k],
           NEW a, k > 0 => After(s[k]) = a, k = 0 => a = b
    PROVE  Between(t, a, w)
<1> USE DEF Between
<1>1. Len(s) \in Nat /\ Len(t) \in Nat /\ k \in Nat
  OBVIOUS
<1>2. Gapless(t)
  <2>1. \A i \in 1..Len(t) - 1 : t[i + 1] = After(t[i])
    <3> TAKE i \in 1..Len(t) - 1
    <3>1. /\ i \in 1..Len(t) /\ i + 1 \in 1..Len(t) /\ i + k \in 1..Len(s) - 1
          /\ (i + 1) + k = (i + k) + 1
      BY <1>1
    <3>2. s[(i + k) + 1] = After(s[i + k])
      BY <3>1 DEF Gapless
    <3> QED
      BY <3>1, <3>2
  <2>2. ASSUME NEW i \in DOMAIN t, NEW j \in DOMAIN t, i <= j,
               t[i].i + (j - i) <= Sizes[t[i].m]
        PROVE  t[j] = [m |-> t[i].m, i |-> t[i].i + (j - i)]
    <3>1. /\ i \in 1..Len(t) /\ j \in 1..Len(t) /\ i + k \in DOMAIN s /\ j + k \in DOMAIN s
          /\ i + k <= j + k /\ (j + k) - (i + k) = j - i
      <4>1. i \in 1..Len(t) /\ j \in 1..Len(t) /\ i <= j /\ DOMAIN s = 1..Len(s)
        BY <2>2
      <4> QED
        BY <1>1, <4>1
    <3>2. t[i] = s[i + k] /\ t[j] = s[j + k]
      BY <3>1
    <3> QED
      BY <2>2, <3>1, <3>2 DEF Gapless
  <2> QED
    BY <2>1, <2>2 DEF Gapless
<1>3. CASE t = <<>>
  <2>1. k = Len(s)
    BY <1>1, <1>3
  <2> QED
    BY <1>1, <1>2, <1>3, <2>1
<1>4. CASE t # <<>>
  <2>1. 1 \in 1..Len(t) /\ k < Len(s) /\ s # <<>> /\ Len(t) \in 1..Len(t) /\ Len(t) + k = Len(s)
    BY <1>1, <1>4
  <2>2. t[1] = s[1 + k] /\ t[Len(t)] = s[Len(s)]
    BY <2>1
  <2>3. t[1] = a
    <3>1. CASE k = 0
      BY <2>1, <2>2, <3>1
    <3>2. CASE k > 0
      <4>1. k \in 1..Len(s) - 1 /\ 1 + k = k + 1
        BY <1>1, <2>1, <3>2
      <4> QED
        BY <2>2, <3>2, <4>1 DEF Gapless
    <3> QED
      BY <1>1, <3>1, <3>2
  <2> QED
    BY <1>2, <1>4, <2>1, <2>2, <2>3
<1> QED
  BY <1>3, <1>4

\* Types of what the invariants speak of.
LEMMA DataTypes ==
    ASSUME TypeOK
    PROVE  /\ p \in PipeType /\ pipe \in Seq(Unit) /\ Len(pipe) \in Nat
           /\ p.len \in Nat /\ p.passed_data \in Seq(Unit) /\ Len(p.passed_data) \in Nat
           /\ wm \in Nat /\ wi \in Nat /\ taken \in Nat /\ MaxMsg \in Nat
           /\ wm <= MaxMsg /\ taken <= MaxMsg
           /\ \A m \in 1..MaxMsg : Sizes[m] \in Nat
BY SizesAssumption DEF TypeOK, PipeType, MaxMsg

\* A step that neither writes nor reads: descriptors may be closed and the
\* pipe deleted.
Quiet ==
    /\ UNCHANGED <<pipe, wm, wi, taken, got>>
    /\ p'.len = p.len /\ p'.passed_data = p.passed_data
    /\ p'.fd_read => p.fd_read
    /\ p'.fd_write => p.fd_write
    /\ p.delete_me => p'.delete_me
    /\ p'.fd_write \/ wi = 0 \/ ~p'.fd_read \/ ~p.fd_write
    /\ p'.delete_me => p.delete_me \/ wi = 0

\* It leaves the data as they are.
LEMMA DataQuiet ==
    ASSUME DataInv, Quiet
    PROVE  DataInv'
<1>1. Stream'
  BY DEF DataInv, Stream, Between, NextRead, NextWrite, Quiet
<1>2. Partial'
  BY DEF DataInv, Partial, Quiet
<1>3. Messages'
  BY DEF DataInv, Messages, Quiet
<1> QED
  BY <1>1, <1>2, <1>3 DEF DataInv

\* A read that returns is such a step: r is the pipe before.
LEMMA QuietReturn ==
    ASSUME NEW r \in PipeType, r.handling > 0, r.len = p.len, r.passed_data = p.passed_data,
           r.fd_read => p.fd_read, r.fd_write = p.fd_write, r.delete_me = p.delete_me,
           p' = Unhandle(r), UNCHANGED <<pipe, wm, wi, taken, got>>
    PROVE  Quiet
<1>1. CASE r.delete_me /\ r.handling = 1
  BY <1>1, UnhandleType DEF Quiet
<1>2. CASE ~(r.delete_me /\ r.handling = 1)
  BY <1>2, UnhandleType DEF Quiet
<1> QED
  BY <1>1, <1>2

\* The steps that neither write nor read.
Silent ==
    \/ (WriteLen /\ ~p.fd_read) \/ WriteClose
    \/ Freeze \/ Thaw \/ ReadClose \/ PipeDel \/ (\E n \in 1..2 : Wait(n))
    \/ Wakeup \/ (ReadLen /\ (~p.fd_read \/ pipe = <<>>))
    \/ ReadNext \/ ReadLeave \/ ReadClosed
    \/ WaitPoll \/ WaitTimeout \/ WaitCount \/ HandlerReturn

\* Such a step leaves the messages written and handed out as they are.
LEMMA SilentQuiet ==
    ASSUME TypeOK, StackInv, DataInv, Silent
    PROVE  Quiet
<1>1. p \in PipeType /\ Fitting(p, stack) /\ stack \in Seq(FrameType)
  BY DEF TypeOK, StackInv, Fitting, Nested
<1>2. ASSUME stack # <<>>, Head(stack).k = "read" \/ Head(stack).at = "count"
      PROVE  p.handling > 0
  <2>1. 1 \in DOMAIN stack /\ Using(stack[1])
    BY <1>1, <1>2, PopSeq DEF Using
  <2> QED
    BY <1>1, <2>1, UsersPositive DEF Fitting
<1>3. CASE WriteLen /\ ~p.fd_read
  BY <1>1, <1>3 DEF WriteLen, PipeType, Quiet
<1>4. CASE WriteClose
  BY <1>1, <1>4 DEF WriteClose, PipeType, Quiet
<1>5. CASE Freeze
  BY <1>1, <1>5 DEF Freeze, Called, PipeType, Quiet
<1>6. CASE Thaw
  BY <1>1, <1>6 DEF Thaw, Called, PipeType, Quiet
<1>7. CASE ReadClose
  BY <1>1, <1>7 DEF ReadClose, Called, PipeType, Quiet
<1>8. CASE PipeDel
  <2>1. /\ wi = 0 /\ p' = Del(p) /\ UNCHANGED <<pipe, wm, wi, taken, got>> /\ ~p.delete_me
    BY <1>8 DEF PipeDel, Called, CanCall
  <2>2. /\ p'.len = p.len /\ p'.passed_data = p.passed_data
        /\ p'.fd_read => p.fd_read
        /\ p'.fd_write => p.fd_write
    BY <1>1, <2>1 DEF Del, PipeType
  <2> QED
    BY <2>1, <2>2 DEF Quiet
<1>9. CASE \E n \in 1..2 : Wait(n)
  BY <1>9 DEF Wait, Called, Quiet
<1>10. CASE Wakeup
  BY <1>1, <1>10 DEF Wakeup, StartRead, PipeType, Quiet
<1>11. CASE ReadLen /\ (~p.fd_read \/ pipe = <<>>)
  <2>1. UNCHANGED <<pipe, wm, wi, taken, got>> /\ p.len = 0 /\ p.passed_data = <<>>
    BY <1>11 DEF ReadLen, DataInv, Partial
  <2>2. CASE p' = HandlerCall(p)
    BY <1>1, <2>1, <2>2, HandlerCallType DEF Quiet
  <2>3. CASE p' = Unhandle(p)
    <3>1. p.handling > 0
      BY <1>2, <1>11 DEF ReadLen, At, Top
    <3> QED
      BY <1>1, <2>1, <2>3, <3>1, QuietReturn
  <2> QED
    BY <1>11, <2>2, <2>3 DEF ReadLen, ReadReturn
<1>12. CASE ReadNext
  <2>1. p.handling > 0 /\ UNCHANGED <<pipe, wm, wi, taken, got>> /\ (p' = p \/ p' = Unhandle(p))
    BY <1>2, <1>12 DEF ReadNext, ReadReturn, At, Top
  <2>2. CASE p' = p
    BY <2>1, <2>2 DEF Quiet
  <2> QED
    BY <1>1, <2>1, <2>2, QuietReturn
<1>13. CASE ReadLeave
  <2>1. p.handling > 0 /\ UNCHANGED <<pipe, wm, wi, taken, got>> /\ p' = Unhandle(p)
    BY <1>2, <1>13 DEF ReadLeave, ReadReturn, At, Top
  <2> QED
    BY <1>1, <2>1, QuietReturn
<1>14. CASE ReadClosed
  <2> DEFINE r == [p EXCEPT !.fd_read = FALSE, !.fd_handler = FALSE]
  <2>1. p.handling > 0 /\ UNCHANGED <<pipe, wm, wi, taken, got>> /\ p' = Unhandle(r)
    BY <1>2, <1>14 DEF ReadClosed, At, Top
  <2>2. /\ r \in PipeType /\ r.handling = p.handling /\ r.len = p.len
        /\ r.passed_data = p.passed_data /\ ~r.fd_read /\ r.fd_write = p.fd_write
        /\ r.delete_me = p.delete_me
    BY <1>1 DEF PipeType
  <2> HIDE DEF r
  <2> QED
    BY <2>1, <2>2, QuietReturn
<1>15. CASE WaitPoll
  BY <1>1, <1>15 DEF WaitPoll, StartRead, PipeType, Quiet
<1>16. CASE WaitTimeout \/ HandlerReturn
  BY <1>16 DEF WaitTimeout, HandlerReturn, Quiet
<1>17. CASE WaitCount
  <2> DEFINE r == [p EXCEPT !.message = 0]
  <2>1. p.handling > 0 /\ UNCHANGED <<pipe, wm, wi, taken, got>> /\ p' = Unhandle(r)
    BY <1>2, <1>17 DEF WaitCount, At, Top
  <2>2. /\ r \in PipeType /\ r.handling = p.handling /\ r.len = p.len
        /\ r.passed_data = p.passed_data /\ r.fd_read = p.fd_read /\ r.fd_write = p.fd_write
        /\ r.delete_me = p.delete_me
    BY <1>1 DEF PipeType
  <2> HIDE DEF r
  <2> QED
    BY <2>1, <2>2, QuietReturn
<1> QED
  BY <1>3, <1>4, <1>5, <1>6, <1>7, <1>8, <1>9, <1>10, <1>11, <1>12, <1>13, <1>14,
     <1>15, <1>16, <1>17 DEF Silent

\* A length is written.
LEMMA DataWriteLen ==
    ASSUME TypeOK, DataInv, WriteLen, p.fd_read
    PROVE  DataInv' /\ pipe' \in Seq(Unit) /\ Len(pipe') <= Capacity /\ wm' = wm + 1 /\ wm < MaxMsg
           /\ wi' \in Nat
<1> DEFINE u == [m |-> wm + 1, i |-> 0]
<1>1. /\ wi = 0 /\ wm < MaxMsg /\ p' = p /\ Len(pipe) < Capacity
      /\ pipe' = Append(pipe, u) /\ wm' = wm + 1 /\ wi' = Sizes[wm + 1]
      /\ taken' = taken /\ got' = got /\ ~p.delete_me /\ p.fd_write
  BY DEF WriteLen, Room
<1>2. /\ pipe \in Seq(Unit) /\ Len(pipe) \in Nat /\ wm \in Nat /\ taken \in Nat
      /\ Sizes[wm + 1] \in Nat /\ wm + 1 \in 1..MaxMsg
  BY <1>1, DataTypes
<1>3. u \in Unit /\ u.m = wm + 1 /\ u.i = 0 /\ NextWrite = u
  BY <1>1, <1>2 DEF Unit, NextWrite
<1>4. /\ pipe' \in Seq(Unit) /\ Len(pipe') = Len(pipe) + 1 /\ pipe'[Len(pipe) + 1] = u
      /\ \A i \in 1..Len(pipe) : pipe'[i] = pipe[i]
  BY <1>1, <1>2, <1>3
<1> HIDE DEF u
<1>5. Gapless(pipe')
  BY <1>1, <1>2, <1>3, GaplessAppend DEF DataInv, Stream, Between
<1>6. After(u) = NextWrite'
  BY <1>1, <1>2, <1>3 DEF After, NextWrite
<1>7. NextRead' = NextRead
  BY <1>1 DEF NextRead
<1>8. pipe'[1] = NextRead
  <2>1. CASE pipe = <<>>
    BY <1>3, <1>4, <2>1 DEF DataInv, Stream, Between
  <2>2. CASE pipe # <<>>
    BY <1>2, <1>4, <2>2 DEF DataInv, Stream, Between
  <2> QED
    BY <2>1, <2>2
<1>9. Stream'
  BY <1>2, <1>4, <1>5, <1>6, <1>7, <1>8 DEF Stream, Between
<1>10. Partial'
  BY <1>1, <1>2 DEF DataInv, Partial
<1>11. Messages'
  <2>1. /\ taken' <= wm' /\ got' \in Seq(1..MaxMsg)
        /\ \A i \in DOMAIN got' : got'[i] <= taken'
    BY <1>1, <1>2 DEF DataInv, Messages
  <2>2. wi' > 0 => wm' > 0 /\ wi' <= Sizes[wm']
    BY <1>1, <1>2
  <2>3. \A i \in DOMAIN pipe' : pipe'[i].m <= wm' /\ pipe'[i].i <= Sizes[pipe'[i].m]
    <3> TAKE i \in DOMAIN pipe'
    <3>1. CASE i \in 1..Len(pipe)
      <4>1. pipe[i].m <= wm /\ pipe[i].i <= Sizes[pipe[i].m] /\ pipe[i].m \in Nat
        BY <3>1, <1>2, UnitType DEF DataInv, Messages
      <4> QED
        BY <4>1, <3>1, <1>1, <1>2, <1>4
    <3>2. CASE i = Len(pipe) + 1
      BY <3>2, <1>1, <1>2, <1>3, <1>4
    <3> QED
      BY <3>1, <3>2, <1>2, <1>4
  <2> QED
    BY <1>1, <2>1, <2>2, <2>3 DEF Messages
<1> QED
  BY <1>1, <1>2, <1>4, <1>9, <1>10, <1>11, BoundAssumption DEF DataInv

\* A piece of the data is written.
LEMMA DataWriteData ==
    ASSUME TypeOK, DataInv, WriteData, p.fd_read
    PROVE  DataInv' /\ pipe' \in Seq(Unit) /\ Len(pipe') <= Capacity /\ wi' \in Nat
<1> DEFINE u == [m |-> wm, i |-> Sizes[wm] - wi + 1]
<1>1. /\ wi > 0 /\ p' = p /\ Len(pipe) < Capacity
      /\ pipe' = Append(pipe, u) /\ wm' = wm /\ wi' = wi - 1
      /\ taken' = taken /\ got' = got
  BY DEF WriteData, Room
<1>2. /\ pipe \in Seq(Unit) /\ Len(pipe) \in Nat /\ wm \in Nat /\ taken \in Nat /\ wi \in Nat
      /\ wm > 0 /\ wi <= Sizes[wm] /\ Sizes[wm] \in Nat /\ wm \in 1..MaxMsg
  BY <1>1, DataTypes DEF DataInv, Messages
<1>3. u \in Unit /\ u.m = wm /\ u.i = Sizes[wm] - wi + 1 /\ NextWrite = u
  BY <1>1, <1>2 DEF Unit, NextWrite
<1>4. /\ pipe' \in Seq(Unit) /\ Len(pipe') = Len(pipe) + 1 /\ pipe'[Len(pipe) + 1] = u
      /\ \A i \in 1..Len(pipe) : pipe'[i] = pipe[i]
  BY <1>1, <1>2, <1>3
<1> HIDE DEF u
<1>5. Gapless(pipe')
  BY <1>1, <1>2, <1>3, GaplessAppend DEF DataInv, Stream, Between
<1>6. After(u) = NextWrite'
  BY <1>1, <1>2, <1>3 DEF After, NextWrite
<1>7. NextRead' = NextRead
  BY <1>1 DEF NextRead
<1>8. pipe'[1] = NextRead
  <2>1. CASE pipe = <<>>
    BY <1>3, <1>4, <2>1 DEF DataInv, Stream, Between
  <2>2. CASE pipe # <<>>
    BY <1>2, <1>4, <2>2 DEF DataInv, Stream, Between
  <2> QED
    BY <2>1, <2>2
<1>9. Stream'
  BY <1>2, <1>4, <1>5, <1>6, <1>7, <1>8 DEF Stream, Between
<1>10. Partial'
  BY <1>1, <1>2 DEF DataInv, Partial
<1>11. Messages'
  <2>1. /\ taken' <= wm' /\ got' \in Seq(1..MaxMsg)
        /\ \A i \in DOMAIN got' : got'[i] <= taken'
    BY <1>1, <1>2 DEF DataInv, Messages
  <2>2. wi' > 0 => wm' > 0 /\ wi' <= Sizes[wm']
    BY <1>1, <1>2
  <2>3. \A i \in DOMAIN pipe' : pipe'[i].m <= wm' /\ pipe'[i].i <= Sizes[pipe'[i].m]
    <3> TAKE i \in DOMAIN pipe'
    <3>1. CASE i \in 1..Len(pipe)
      <4>1. pipe[i].m <= wm /\ pipe[i].i <= Sizes[pipe[i].m] /\ pipe[i].m \in Nat
        BY <3>1, <1>2, UnitType DEF DataInv, Messages
      <4> QED
        BY <4>1, <3>1, <1>1, <1>2, <1>4
    <3>2. CASE i = Len(pipe) + 1
      BY <3>2, <1>1, <1>2, <1>3, <1>4
    <3> QED
      BY <3>1, <3>2, <1>2, <1>4
  <2>4. /\ ~p'.fd_write => wi' = 0 \/ ~p'.fd_read
        /\ p'.delete_me => wi' = 0
    BY <1>1, <1>2 DEF DataInv, Messages
  <2> QED
    BY <2>1, <2>2, <2>3, <2>4 DEF Messages
<1> QED
  BY <1>1, <1>2, <1>4, <1>9, <1>10, <1>11, BoundAssumption DEF DataInv

\* The first unit in the pipe is the one the reader expects, of a message
\* that was written and not handed out.
LEMMA HeadUnit ==
    ASSUME TypeOK, DataInv, p.fd_read, pipe # <<>>
    PROVE  /\ 1 \in DOMAIN pipe /\ pipe[1] = NextRead /\ pipe[1].m = taken + 1
           /\ taken < wm /\ taken + 1 \in 1..MaxMsg /\ Sizes[taken + 1] \in Nat
<1>1. 1 \in DOMAIN pipe
  BY DataTypes
<1>2. pipe[1] = NextRead /\ pipe[1].m = taken + 1
  BY DEF DataInv, Stream, Between, NextRead
<1>3. pipe[1].m <= wm
  BY <1>1 DEF DataInv, Messages
<1> QED
  BY <1>1, <1>2, <1>3, DataTypes

\* The data in the pipe continue what has been read of the message.
LEMMA ReadUnits ==
    ASSUME TypeOK, DataInv, p.fd_read, p.len > 0,
           NEW k \in 0..Len(pipe), k <= p.len - Len(p.passed_data)
    PROVE  LET d == TakeData(p, k).passed_data IN
           /\ d \in Seq(Unit) /\ Len(d) = Len(p.passed_data) + k
           /\ \A j \in DOMAIN d : d[j] = [m |-> taken + 1, i |-> j]
           /\ k > 0 => pipe[k] = [m |-> taken + 1, i |-> Len(p.passed_data) + k]
<1> DEFINE L == Len(p.passed_data)
           c == SubSeq(pipe, 1, k)
           d == p.passed_data \o c
<1>1. /\ pipe \in Seq(Unit) /\ p.passed_data \in Seq(Unit) /\ L \in Nat /\ k \in Nat
      /\ taken \in Nat /\ p.len \in Nat /\ Len(pipe) \in Nat
  BY DataTypes
<1>2. p.len = Sizes[taken + 1] /\ \A j \in 1..L : p.passed_data[j] = [m |-> taken + 1, i |-> j]
  BY <1>1 DEF DataInv, Partial
<1>3. \A j \in 1..k : pipe[j] = [m |-> taken + 1, i |-> L + j]
  <2> TAKE j \in 1..k
  <2>1. pipe # <<>> /\ 1 \in DOMAIN pipe /\ j \in DOMAIN pipe /\ 1 <= j
    BY <1>1
  <2>2. pipe[1].m = taken + 1 /\ pipe[1].i = L + 1
    BY <1>1, <2>1 DEF DataInv, Stream, Between, NextRead
  <2>3. pipe[1].i + (j - 1) = L + j /\ L + j <= Sizes[pipe[1].m]
    BY <1>1, <1>2, <2>2
  <2> QED
    BY <2>1, <2>2, <2>3 DEF DataInv, Stream, Between, Gapless
<1>4. c \in Seq(Unit) /\ Len(c) = k /\ \A j \in 1..k : c[j] = pipe[j]
  BY <1>1
<1> HIDE DEF c
<1>5. /\ d \in Seq(Unit) /\ Len(d) = L + k
      /\ \A j \in 1..L : d[j] = p.passed_data[j]
      /\ \A j \in (L + 1)..(L + k) : d[j] = c[j - L]
  <2> DEFINE e == p.passed_data
  <2> HIDE DEF e
  <2>1. e \in Seq(Unit) /\ L = Len(e) /\ d = e \o c
    BY <1>1, Zenon DEF e
  <2>2. /\ e \o c \in Seq(Unit) /\ Len(e \o c) = Len(e) + Len(c)
        /\ \A j \in 1..Len(e) : (e \o c)[j] = e[j]
        /\ \A j \in (Len(e) + 1)..(Len(e) + Len(c)) : (e \o c)[j] = c[j - Len(e)]
    BY <1>4, <2>1
  <2> HIDE DEF L, d
  <2> QED
    BY <1>4, <2>1, <2>2 DEF e
<1> HIDE DEF d
<1>6. \A j \in DOMAIN d : d[j] = [m |-> taken + 1, i |-> j]
  <2> TAKE j \in DOMAIN d
  <2>1. j \in 1..(L + k)
    BY <1>5
  <2>2. CASE j \in 1..L
    BY <1>2, <1>5, <2>2
  <2>3. CASE j > L
    <3>1. j \in (L + 1)..(L + k) /\ j - L \in 1..k /\ L + (j - L) = j
      BY <1>1, <2>1, <2>3
    <3> QED
      BY <1>3, <1>4, <1>5, <3>1
  <2> QED
    BY <1>1, <2>1, <2>2, <2>3
<1>7. TakeData(p, k).passed_data = d
  BY TakeDataType DEF d, c
<1>8. k > 0 => k \in 1..k
  BY <1>1
<1> QED
  BY <1>3, <1>5, <1>6, <1>7, <1>8

\* Data of the message's length are the message.
LEMMA WholeMessage ==
    ASSUME TypeOK, NEW d \in Seq(Unit), NEW m \in 1..MaxMsg, Len(d) = Sizes[m], Len(d) > 0,
           \A j \in DOMAIN d : d[j] = [m |-> m, i |-> j]
    PROVE  MsgOf(d) = m
<1>1. 1 \in DOMAIN d /\ d # <<>> /\ DOMAIN d = 1..Sizes[m]
  OBVIOUS
<1>2. d[1] = [m |-> m, i |-> 1]
  BY <1>1
<1>3. d[1].m = m
  BY <1>2
<1>4. d = [i \in 1..Sizes[m] |-> d[i]]
  BY <1>1
<1>5. \A i \in 1..Sizes[m] : d[i] = [m |-> m, i |-> i]
  BY <1>1
<1>6. [i \in 1..Sizes[m] |-> d[i]] = [i \in 1..Sizes[m] |-> [m |-> m, i |-> i]]
  BY <1>5
<1> QED
  BY <1>1, <1>3, <1>4, <1>6 DEF MsgOf

\* How the history of the handler's calls grows.
LEMMA GotGrows ==
    ASSUME TypeOK, DataInv, taken + 1 \in 1..MaxMsg, taken' = taken + 1,
           got' = got \/ got' = Append(got, taken + 1)
    PROVE  got' \in Seq(1..MaxMsg) /\ \A i \in DOMAIN got' : got'[i] <= taken'
<1>1. /\ got \in Seq(1..MaxMsg) /\ taken \in Nat /\ MaxMsg \in Nat
      /\ \A i \in DOMAIN got : got[i] <= taken
  BY DataTypes DEF DataInv, Messages
<1>4. \A i \in 1..Len(got) : got[i] \in Nat /\ got[i] <= taken + 1
  BY <1>1
<1>2. CASE got' = got
  BY <1>1, <1>2, <1>4
<1>3. CASE got' = Append(got, taken + 1)
  <2>1. /\ got' \in Seq(1..MaxMsg) /\ Len(got') = Len(got) + 1 /\ got'[Len(got) + 1] = taken + 1
        /\ \A i \in 1..Len(got) : got'[i] = got[i]
    BY <1>1, <1>3
  <2>2. ASSUME NEW i \in DOMAIN got' PROVE got'[i] <= taken'
    <3>1. i \in 1..Len(got) \/ i = Len(got) + 1
      BY <1>1, <2>1
    <3> QED
      BY <1>1, <1>4, <2>1, <3>1
  <2> QED
    BY <2>1, <2>2
<1> QED
  BY <1>2, <1>3

\* A length is read: of an empty message, or of one whose data follow.
LEMMA DataReadLen ==
    ASSUME TypeOK, StackInv, DataInv, ReadLen, p.fd_read, pipe # <<>>
    PROVE  /\ DataInv' /\ pipe' \in Seq(Unit) /\ Len(pipe') <= Capacity
           /\ p'.len > 0 => Len(p'.passed_data) < p'.len
           /\ taken' \in 0..MaxMsg /\ UNCHANGED <<wm, wi>>
<1>1. /\ 1 \in DOMAIN pipe /\ pipe[1] = NextRead /\ pipe[1].m = taken + 1
      /\ taken < wm /\ taken + 1 \in 1..MaxMsg /\ Sizes[taken + 1] \in Nat
  BY HeadUnit
<1>2. /\ p.len = 0 /\ p.passed_data = <<>> /\ pipe' = Tail(pipe) /\ wm' = wm /\ wi' = wi
      /\ At("read", "loop")
  BY DEF ReadLen, DataInv, Partial
<1>3. pipe[1].i = 0
  BY <1>1, <1>2 DEF NextRead
<1>4. /\ pipe \in Seq(Unit) /\ pipe' \in Seq(Unit) /\ Len(pipe') = Len(pipe) - 1
      /\ Len(pipe) \in Nat /\ Len(pipe) > 0 /\ \A i \in 1..Len(pipe') : pipe'[i] = pipe[i + 1]
      /\ taken \in Nat /\ wm \in Nat
  BY <1>2, DataTypes, PopSeq
<1>5. /\ p'.fd_read = p.fd_read /\ p'.fd_write = p.fd_write /\ p'.delete_me = p.delete_me
      /\ p'.passed_data = <<>>
      /\ IF Sizes[taken + 1] = 0
         THEN /\ p'.len = 0 /\ taken' = taken + 1
              /\ got' = got \/ got' = Append(got, taken + 1)
         ELSE p'.len = Sizes[taken + 1] /\ taken' = taken /\ got' = got
  <2>1. p \in PipeType
    BY DataTypes
  <2>2. CASE Sizes[taken + 1] = 0
    <3>1. p' = HandlerCall(p) /\ Delivered(pipe[1].m)
      BY <1>1, <2>2 DEF ReadLen
    <3> QED
      BY <1>1, <2>1, <2>2, <3>1, HandlerCallType DEF Delivered
  <2>3. CASE Sizes[taken + 1] # 0
    <3>1. p' = [p EXCEPT !.len = Sizes[taken + 1]] /\ taken' = taken /\ got' = got
      BY <1>1, <2>3 DEF ReadLen
    <3> QED
      BY <1>1, <1>2, <2>1, <2>3, <3>1, TakeLenType
  <2> QED
    BY <2>2, <2>3
<1>6. After(pipe[1]) = NextRead'
  BY <1>1, <1>3, <1>4, <1>5 DEF After, NextRead
<1>7. NextWrite' = NextWrite
  BY <1>2 DEF NextWrite
<1>8. Between(pipe', NextRead', NextWrite')
  <2>1. 1 \in 0..Len(pipe) /\ Between(pipe, NextRead, NextWrite)
    BY <1>4 DEF DataInv, Stream
  <2>2. \A i \in 1..Len(pipe') : pipe'[i] = pipe[i + 1]
    BY <1>4
  <2> QED
    BY <1>4, <1>6, <1>7, <2>1, <2>2, GaplessSuffix
<1>9. Stream'
  BY <1>8 DEF Stream
<1>10. Partial'
  BY <1>1, <1>2, <1>4, <1>5 DEF Partial
<1>11. Messages'
  <2>1. taken' <= wm' /\ got' \in Seq(1..MaxMsg) /\ \A i \in DOMAIN got' : got'[i] <= taken'
    <3>1. CASE Sizes[taken + 1] = 0
      BY <1>1, <1>2, <1>4, <1>5, <3>1, GotGrows
    <3>2. CASE Sizes[taken + 1] # 0
      BY <1>1, <1>2, <1>4, <1>5, <3>2 DEF DataInv, Messages
    <3> QED
      BY <3>1, <3>2
  <2>2. \A i \in DOMAIN pipe' : pipe'[i].m <= wm' /\ pipe'[i].i <= Sizes[pipe'[i].m]
    <3> TAKE i \in DOMAIN pipe'
    <3>1. pipe'[i] = pipe[i + 1] /\ i + 1 \in DOMAIN pipe
      BY <1>4
    <3> QED
      BY <1>2, <3>1 DEF DataInv, Messages
  <2> QED
    BY <1>2, <1>5, <2>1, <2>2 DEF DataInv, Messages
<1>12. Len(pipe') <= Capacity
  BY <1>4, BoundAssumption DEF TypeOK
<1>13. taken' \in 0..MaxMsg
  BY <1>1, <1>4, <1>5, DataTypes
<1>14. p'.len > 0 => Len(p'.passed_data) < p'.len
  BY <1>1, <1>5
<1> QED
  BY <1>2, <1>4, <1>9, <1>10, <1>11, <1>12, <1>13, <1>14 DEF DataInv

\* Data are read: the rest of the message, or all there is.
LEMMA DataReadData ==
    ASSUME TypeOK, StackInv, DataInv, ReadData
    PROVE  /\ DataInv' /\ pipe' \in Seq(Unit) /\ Len(pipe') <= Capacity
           /\ p'.len > 0 => Len(p'.passed_data) < p'.len
           /\ taken' \in 0..MaxMsg /\ UNCHANGED <<wm, wi>>
<1> DEFINE L == Len(p.passed_data)
           need == p.len - L
           k == IF ~p.fd_read THEN 0 ELSE IF need < Len(pipe) THEN need ELSE Len(pipe)
           q == TakeData(p, k)
           d == q.passed_data
<1>1. /\ wm' = wm /\ wi' = wi /\ pipe' = SubSeq(pipe, k + 1, Len(pipe))
      /\ IF k = need
         THEN p' = HandlerCall(q) /\ Delivered(MsgOf(d))
         ELSE p' = Unhandle(q) /\ Instead(<<>>) /\ UNCHANGED <<got, taken, eof>>
  BY DEF ReadData
<1>2. /\ pipe \in Seq(Unit) /\ p.passed_data \in Seq(Unit) /\ L \in Nat /\ p.len \in Nat
      /\ taken \in Nat /\ wm \in Nat /\ Len(pipe) \in Nat /\ MaxMsg \in Nat /\ wm <= MaxMsg
  BY DataTypes
<1>3. p.len > 0 /\ taken < wm /\ p.len = Sizes[taken + 1] /\ L < p.len
  BY DEF ReadData, DataInv, Partial
<1>4. need \in Nat /\ need > 0 /\ k \in 0..Len(pipe) /\ k <= need /\ (k = need => p.fd_read)
  BY <1>2, <1>3
<1>5. k # need => ~p.fd_read \/ k = Len(pipe)
  OBVIOUS
<1>6. L + need = p.len /\ ~p.fd_read => k = 0
  BY <1>2
<1> HIDE DEF k
<1>7. /\ q \in PipeType /\ q.len = p.len /\ q.handling = p.handling
      /\ q.message = p.message /\ q.freed = p.freed /\ q.fd_handler = p.fd_handler
      /\ q.delete_me = p.delete_me /\ q.fd_read = p.fd_read /\ q.fd_write = p.fd_write
      /\ d = p.passed_data \o SubSeq(pipe, 1, k)
  BY <1>4, TakeDataType
<1>8. /\ d \in Seq(Unit) /\ Len(d) = L + k
      /\ \A j \in DOMAIN d : d[j] = [m |-> taken + 1, i |-> j]
  <2>1. CASE p.fd_read
    BY <1>3, <1>4, <2>1, ReadUnits
  <2>2. CASE ~p.fd_read
    <3>1. k = 0
      BY <2>2 DEF k
    <3>2. d = p.passed_data
      BY <1>2, <1>7, <3>1
    <3> QED
      BY <1>2, <3>1, <3>2 DEF DataInv, Partial
  <2> QED
    BY <2>1, <2>2
<1>9. p.fd_read /\ k > 0 => pipe[k] = [m |-> taken + 1, i |-> L + k]
  BY <1>3, <1>4, ReadUnits
<1>10. /\ pipe' \in Seq(Unit) /\ Len(pipe') = Len(pipe) - k
       /\ \A i \in 1..Len(pipe') : pipe'[i] = pipe[i + k]
  BY <1>1, <1>2, <1>4
<1>11. taken + 1 \in 1..MaxMsg
  BY <1>2, <1>3
<1> HIDE DEF q, d
<1>12. CASE k = need
  <2>1. MsgOf(d) = taken + 1
    <3>1. Len(d) = Sizes[taken + 1] /\ Len(d) > 0
      BY <1>2, <1>3, <1>4, <1>8, <1>12
    <3> QED
      BY <1>8, <1>11, <3>1, WholeMessage
  <2>2. /\ p'.len = 0 /\ p'.passed_data = <<>> /\ taken' = taken + 1
        /\ p'.fd_read = p.fd_read /\ p'.fd_write = p.fd_write /\ p'.delete_me = p.delete_me
        /\ got' = got \/ got' = Append(got, taken + 1)
    BY <1>1, <1>7, <1>12, <2>1, HandlerCallType DEF Delivered
  <2>3. After(pipe[k]) = NextRead'
    <3>1. pipe[k].m = taken + 1 /\ pipe[k].i = Sizes[taken + 1]
      BY <1>2, <1>3, <1>4, <1>9, <1>12
    <3>2. ~(pipe[k].i < Sizes[pipe[k].m])
      BY <1>2, <1>3, <3>1
    <3> QED
      BY <2>2, <3>1, <3>2 DEF After, NextRead
  <2>4. Stream'
    <3>1. Between(pipe, NextRead, NextWrite) /\ NextWrite' = NextWrite
      BY <1>1, <1>4, <1>12 DEF DataInv, Stream, NextWrite
    <3>2. k > 0 /\ ~(k = 0)
      BY <1>4, <1>12
    <3>3. Between(pipe', NextRead', NextWrite)
      BY <1>2, <1>4, <1>10, <2>3, <3>1, <3>2, GaplessSuffix
    <3> QED
      BY <3>1, <3>3 DEF Stream
  <2>5. Partial'
    BY <2>2 DEF Partial
  <2>6. taken' <= wm' /\ got' \in Seq(1..MaxMsg) /\ \A i \in DOMAIN got' : got'[i] <= taken'
    BY <1>1, <1>2, <1>3, <1>11, <2>2, GotGrows
  <2>7. \A i \in DOMAIN pipe' : pipe'[i].m <= wm' /\ pipe'[i].i <= Sizes[pipe'[i].m]
    <3> TAKE i \in DOMAIN pipe'
    <3>1. pipe'[i] = pipe[i + k] /\ i + k \in DOMAIN pipe
      BY <1>2, <1>4, <1>10
    <3> QED
      BY <1>1, <3>1 DEF DataInv, Messages
  <2>8. Messages'
    BY <1>1, <2>2, <2>6, <2>7 DEF DataInv, Messages
  <2>9. Len(pipe') <= Capacity /\ taken' \in 0..MaxMsg
    BY <1>2, <1>4, <1>10, <1>11, <2>2, BoundAssumption DEF TypeOK
  <2> QED
    BY <1>1, <1>10, <2>2, <2>4, <2>5, <2>8, <2>9 DEF DataInv
<1>13. CASE k # need
  <2>1. q.handling > 0
    <3>1. stack # <<>> /\ Head(stack).k = "read"
      BY DEF ReadData, At, Top
    <3> QED
      BY <1>1, <1>7, <1>13, <3>1, StackReturn
  <2>2. /\ p'.len = p.len /\ p'.passed_data = d /\ taken' = taken /\ got' = got
        /\ p'.delete_me = p.delete_me
        /\ p'.fd_read => p.fd_read
        /\ ~p'.fd_write => ~p.fd_write \/ ~p'.fd_read
    <3>1. CASE q.delete_me /\ q.handling = 1
      BY <1>1, <1>7, <1>13, <2>1, <3>1, UnhandleType DEF d
    <3>2. CASE ~(q.delete_me /\ q.handling = 1)
      BY <1>1, <1>7, <1>13, <2>1, <3>2, UnhandleType DEF d
    <3> QED
      BY <3>1, <3>2
  <2>3. Stream'
    <3> SUFFICES ASSUME p'.fd_read PROVE Between(pipe', NextRead', NextWrite')
      BY DEF Stream
    <3>1. p.fd_read /\ k = Len(pipe)
      BY <1>5, <1>13, <2>2
    <3>2. Between(pipe, NextRead, NextWrite) /\ NextWrite' = NextWrite
      BY <1>1, <3>1 DEF DataInv, Stream, NextWrite
    <3>3. NextRead' = [m |-> taken + 1, i |-> L + k + 1]
      BY <1>3, <1>8, <2>2 DEF NextRead
    <3>4. k = 0 => NextRead' = NextRead
      BY <1>2, <1>3, <3>3 DEF NextRead
    <3>5. k > 0 => After(pipe[k]) = NextRead'
      <4> HAVE k > 0
      <4>1. pipe[k].m = taken + 1 /\ pipe[k].i = L + k
        BY <1>9, <3>1
      <4>2. L + k < Sizes[taken + 1]
        BY <1>2, <1>3, <1>4, <1>13
      <4> QED
        BY <3>3, <4>1, <4>2 DEF After
    <3> QED
      BY <1>2, <1>4, <1>10, <3>2, <3>4, <3>5, GaplessSuffix
  <2>4. Len(d) < p.len
    BY <1>2, <1>4, <1>8, <1>13
  <2>5. Partial'
    <3>1. p.len # 0
      BY <1>2, <1>3
    <3> QED
      BY <1>1, <1>3, <1>8, <2>2, <2>4, <3>1 DEF Partial
  <2>6. \A i \in DOMAIN pipe' : pipe'[i].m <= wm' /\ pipe'[i].i <= Sizes[pipe'[i].m]
    <3> TAKE i \in DOMAIN pipe'
    <3>1. pipe'[i] = pipe[i + k] /\ i + k \in DOMAIN pipe
      BY <1>2, <1>4, <1>10
    <3> QED
      BY <1>1, <3>1 DEF DataInv, Messages
  <2>7. Messages'
    BY <1>1, <2>2, <2>6 DEF DataInv, Messages
  <2>8. Len(pipe') <= Capacity /\ taken' \in 0..MaxMsg
    BY <1>2, <1>4, <1>10, <1>11, <2>2, BoundAssumption DEF TypeOK
  <2> QED
    BY <1>1, <1>3, <1>10, <2>2, <2>3, <2>4, <2>5, <2>7, <2>8 DEF DataInv
<1> QED
  BY <1>12, <1>13

\* A write that meets a closed read end closes the write end.
LEMMA DataWriteBroken ==
    ASSUME TypeOK, DataInv, WriteData, ~p.fd_read
    PROVE  DataInv' /\ UNCHANGED <<pipe, wm, taken, got, eof>> /\ wi' = 0
           /\ p'.len = p.len /\ p'.passed_data = p.passed_data
           /\ p'.delete_me = p.delete_me /\ ~p'.fd_write
<1>1. /\ p' = [p EXCEPT !.fd_write = FALSE] /\ wi' = 0
      /\ UNCHANGED <<pipe, wm, taken, got, eof>> /\ p \in PipeType
  BY DEF WriteData, TypeOK
<1>2. /\ p'.len = p.len /\ p'.passed_data = p.passed_data /\ ~p'.fd_read
      /\ p'.delete_me = p.delete_me /\ ~p'.fd_write
  BY <1>1 DEF PipeType
<1>3. Stream'
  BY <1>2 DEF Stream
<1>4. Partial'
  BY <1>1, <1>2 DEF DataInv, Partial
<1>5. Messages'
  BY <1>1, <1>2 DEF DataInv, Messages
<1> QED
  BY <1>1, <1>2, <1>3, <1>4, <1>5 DEF DataInv

\* The steps of Next.
LEMMA StepKinds ==
    ASSUME Next
    PROVE  \/ Silent \/ (WriteLen /\ p.fd_read) \/ WriteData
           \/ (ReadLen /\ p.fd_read /\ pipe # <<>>) \/ ReadData
BY DEF Next, Writer, User, Reader, Silent

-----------------------------------------------------------------------------
(* The theorems *)

\* The invariant holds when the pipe is made.
LEMMA PipeInvInit == Init => PipeInv
<1> SUFFICES ASSUME Init PROVE PipeInv
  OBVIOUS
<1>1. /\ pipe = <<>> /\ stack = <<>> /\ got = <<>> /\ wm = 0 /\ wi = 0 /\ taken = 0
      /\ eof = FALSE /\ calls = MaxCalls
      /\ p.len = 0 /\ p.passed_data = <<>> /\ p.handling = 0 /\ ~p.delete_me /\ ~p.freed
      /\ p.fd_read /\ p.fd_write /\ p.fd_handler
  BY DEF Init
<1>2. p \in PipeType
  <2>1. \A e \in Seq(Unit) :
          [fd_read |-> TRUE, fd_write |-> TRUE, fd_handler |-> TRUE,
           pollfd |-> TRUE, len |-> 0, passed_data |-> e, handling |-> 0,
           message |-> 0, delete_me |-> FALSE, freed |-> FALSE] \in PipeType
    BY DEF PipeType
  <2>2. <<>> \in Seq(Unit)
    OBVIOUS
  <2> QED
    BY <2>1, <2>2, Zenon DEF Init
<1>3. TypeOK
  <2>1. MaxMsg \in Nat /\ pipe \in Seq(Unit) /\ Len(pipe) = 0
    BY <1>1, SizesAssumption DEF MaxMsg
  <2>2. Len(pipe) <= Capacity /\ calls \in 0..MaxCalls
    BY <1>1, <2>1, BoundAssumption
  <2>3. wm \in 0..MaxMsg /\ taken \in 0..MaxMsg /\ wi \in Nat /\ ~(p.len > 0)
    BY <1>1, <2>1
  <2>4. eof \in BOOLEAN
    BY <1>1, Zenon
  <2> QED
    BY <1>2, <2>1, <2>2, <2>3, <2>4 DEF TypeOK
<1>4. StackInv
  <2>1. Nested(stack) /\ \A i \in DOMAIN stack : FALSE
    BY <1>1 DEF Nested
  <2>2. Users(stack) = {}
    BY <2>1 DEF Users
  <2>3. Cardinality(Users(stack)) = 0
    BY <2>2, FS_EmptySet
  <2> QED
    BY <1>1, <2>1, <2>3 DEF StackInv, Fitting, LastWait, Released
<1>5. DataInv
  <2>1. Stream
    BY <1>1 DEF Stream, Between, Gapless, NextRead, NextWrite
  <2>2. Partial
    BY <1>1 DEF Partial
  <2>3. Messages
    BY <1>1 DEF Messages
  <2> QED
    BY <2>1, <2>2, <2>3 DEF DataInv
<1> QED
  BY <1>3, <1>4, <1>5 DEF PipeInv

\* Every step keeps it.
LEMMA PipeInvStep == PipeInv /\ [Next]_vars => PipeInv'
<1> SUFFICES ASSUME PipeInv, [Next]_vars PROVE PipeInv'
  OBVIOUS
<1>1. TypeOK /\ StackInv /\ DataInv
  BY DEF PipeInv
<1>2. p' \in PipeType /\ StackInv'
  BY <1>1, StackStep
<1>3. CASE UNCHANGED vars
  <2>1. DataInv'
    BY <1>1, <1>3 DEF vars, DataInv, Stream, Between, NextRead, NextWrite, Partial, Messages
  <2>2. TypeOK'
    BY <1>1, <1>3 DEF vars, TypeOK
  <2> QED
    BY <1>2, <2>1, <2>2 DEF PipeInv
<1>4. CASE Next
  <2>1. /\ DataInv' /\ pipe' \in Seq(Unit) /\ Len(pipe') <= Capacity
        /\ p'.len > 0 => Len(p'.passed_data) < p'.len
        /\ wm' \in 0..MaxMsg /\ wi' \in Nat /\ taken' \in 0..MaxMsg
    <3>1. CASE Silent
      <4>1. Quiet
        BY <1>1, <3>1, SilentQuiet
      <4>2. DataInv'
        BY <1>1, <4>1, DataQuiet
      <4> QED
        BY <1>1, <4>1, <4>2 DEF Quiet, TypeOK
    <3>2. CASE WriteLen /\ p.fd_read
      <4>1. DataInv' /\ pipe' \in Seq(Unit) /\ Len(pipe') <= Capacity /\ wm' = wm + 1 /\ wm < MaxMsg /\ wi' \in Nat
        BY <1>1, <3>2, DataWriteLen
      <4>2. p' = p /\ taken' = taken
        BY <3>2 DEF WriteLen
      <4> QED
        BY <1>1, <4>1, <4>2, DataTypes DEF TypeOK
    <3>3. CASE WriteData
      <4>1. CASE p.fd_read
        <5>1. p' = p /\ taken' = taken /\ wm' = wm
          BY <3>3, <4>1 DEF WriteData
        <5> QED
          BY <1>1, <3>3, <4>1, <5>1, DataWriteData DEF TypeOK
      <4>2. CASE ~p.fd_read
        BY <1>1, <3>3, <4>2, DataWriteBroken DEF TypeOK
      <4> QED
        BY <4>1, <4>2
    <3>4. CASE ReadLen /\ p.fd_read /\ pipe # <<>>
      BY <1>1, <3>4, DataReadLen DEF TypeOK
    <3>5. CASE ReadData
      BY <1>1, <3>5, DataReadData DEF TypeOK
    <3> QED
      BY <1>4, <3>1, <3>2, <3>3, <3>4, <3>5, StepKinds
  <2>2. calls' \in 0..MaxCalls
    <3>1. calls \in 0..MaxCalls /\ MaxCalls \in Nat
      BY <1>1, BoundAssumption DEF TypeOK
    <3>2. calls' = calls \/ (calls > 0 /\ calls' = calls - 1)
      BY <1>4 DEF Next, Writer, User, Reader, WriteLen, WriteData, WriteClose, Freeze, Thaw,
         ReadClose, PipeDel, Wait, Called, CanCall, Wakeup, ReadLen, ReadData, ReadNext,
         ReadLeave, ReadClosed, WaitPoll, WaitTimeout, WaitCount, HandlerReturn
    <3> QED
      BY <3>1, <3>2
  <2>3. eof' \in BOOLEAN
    <3>1. eof \in BOOLEAN
      BY <1>1 DEF TypeOK
    <3>2. eof' = eof \/ eof' = (eof \/ Head(stack').k = "handler")
      BY <1>4 DEF Next, Writer, User, Reader, WriteLen, WriteData, WriteClose, Freeze, Thaw,
         ReadClose, PipeDel, Wait, Called, Wakeup, ReadLen, ReadData, ReadNext, Delivered,
         ReadLeave, ReadClosed, WaitPoll, WaitTimeout, WaitCount, HandlerReturn
    <3> QED
      BY <3>1, <3>2
  <2> QED
    BY <1>2, <2>1, <2>2, <2>3 DEF PipeInv, TypeOK
<1> QED
  BY <1>3, <1>4

\* In every behaviour the nested reads and waits fit the handling count of the
\* pipe, and the bytes between core_pipe_write and core_pipe_read are the
\* messages written and not yet handed out, in order.
THEOREM PipeInvariant == Spec => []PipeInv
BY PipeInvInit, PipeInvStep, PTL DEF Spec

\* The variables of core_pipe keep their types, whatever the sizes of the
\* messages and however deep the handler reenters the reader.
THEOREM TypeCorrect == Spec => []TypeOK
<1>1. PipeInv => TypeOK
  BY DEF PipeInv
<1> QED
  BY <1>1, PipeInvariant, PTL

\* p->handling counts the frames that use the pipe and _core_pipe_del releases
\* it only when there are none, provided that the handler deletes a pipe within
\* core_pipe_wait only when that wait has its messages.
THEOREM FreedIsUnused == ~DelInWait => (Spec => []FreedUnused)
<1> SUFFICES ASSUME ~DelInWait PROVE Spec => []FreedUnused
  OBVIOUS
<1>1. PipeInv => FreedUnused
  <2>1. Users(stack) = {i \in DOMAIN stack : stack[i].k = "read" \/ stack[i].at = "count"}
    BY DEF Users, Using
  <2> QED
    BY <2>1 DEF PipeInv, StackInv, Fitting, Released, FreedUnused
<1> QED
  BY <1>1, PipeInvariant, PTL

-----------------------------------------------------------------------------
(* Refinement of PipeSpec *)

\* The messages written and not handed out, as PipeSpec's queue.
Queue(t, w) == [i \in 1..(w - t) |-> t + i]

\* It is a sequence of as many messages as are under way.
LEMMA QueueType ==
    ASSUME NEW t \in Nat, NEW w \in Nat, t <= w
    PROVE  /\ Queue(t, w) \in Seq(Nat) /\ Len(Queue(t, w)) = w - t
           /\ DOMAIN Queue(t, w) = 1..(w - t)
           /\ \A i \in 1..(w - t) : Queue(t, w)[i] = t + i
           /\ t = w => Queue(t, w) = <<>>
           /\ t < w => Queue(t, w) # <<>>
<1>1. w - t \in Nat
  OBVIOUS
<1>2. Queue(t, w) \in Seq(Nat) /\ Len(Queue(t, w)) = w - t
  BY <1>1 DEF Queue
<1> QED
  BY <1>1, <1>2 DEF Queue

\* A message written is appended.
LEMMA QueueAppend ==
    ASSUME NEW t \in Nat, NEW w \in Nat, t <= w
    PROVE  Queue(t, w + 1) = Append(Queue(t, w), w + 1)
<1> DEFINE a == Queue(t, w)
           b == Queue(t, w + 1)
           c == Append(a, w + 1)
<1>1. a \in Seq(Nat) /\ Len(a) = w - t /\ \A i \in 1..(w - t) : a[i] = t + i
  BY QueueType
<1>2. b \in Seq(Nat) /\ Len(b) = w + 1 - t /\ \A i \in 1..(w + 1 - t) : b[i] = t + i
  BY QueueType
<1> HIDE DEF a, b
<1>3. /\ c \in Seq(Nat) /\ Len(c) = Len(a) + 1 /\ c[Len(a) + 1] = w + 1
      /\ \A i \in 1..Len(a) : c[i] = a[i]
  BY <1>1
<1> HIDE DEF c
<1>4. \A i \in 1..(w + 1 - t) : b[i] = c[i]
  <2> TAKE i \in 1..(w + 1 - t)
  <2>1. CASE i \in 1..(w - t)
    BY <1>1, <1>2, <1>3, <2>1
  <2>2. CASE i = w - t + 1
    BY <1>1, <1>2, <1>3, <2>2
  <2> QED
    BY <2>1, <2>2
<1>5. Len(b) = Len(c)
  BY <1>1, <1>2, <1>3
<1>6. b = c
  BY <1>2, <1>3, <1>4, <1>5
<1> QED
  BY <1>6 DEF a, b, c

\* A message handed out is the first.
LEMMA QueueTail ==
    ASSUME NEW t \in Nat, NEW w \in Nat, t < w
    PROVE  Queue(t + 1, w) = Tail(Queue(t, w)) /\ Head(Queue(t, w)) = t + 1
<1> DEFINE a == Queue(t, w)
           b == Queue(t + 1, w)
           c == Tail(a)
<1>1. a \in Seq(Nat) /\ a # <<>> /\ Len(a) = w - t /\ \A i \in 1..(w - t) : a[i] = t + i
  BY QueueType
<1>2. b \in Seq(Nat) /\ Len(b) = w - (t + 1) /\ \A i \in 1..(w - (t + 1)) : b[i] = t + 1 + i
  BY QueueType
<1> HIDE DEF a, b
<1>3. /\ c \in Seq(Nat) /\ Len(c) = Len(a) - 1 /\ \A i \in 1..Len(a) - 1 : c[i] = a[i + 1]
      /\ Head(a) = a[1]
  BY <1>1, PopSeq
<1> HIDE DEF c
<1>4. \A i \in 1..(w - (t + 1)) : b[i] = c[i]
  <2> TAKE i \in 1..(w - (t + 1))
  <2>1. i \in 1..Len(a) - 1 /\ i + 1 \in 1..(w - t) /\ t + (i + 1) = t + 1 + i
    BY <1>1
  <2> QED
    BY <1>1, <1>2, <1>3, <2>1
<1>5. Len(b) = Len(c) /\ Len(b) = w - (t + 1)
  BY <1>1, <1>2, <1>3
<1>6. b = c
  BY <1>2, <1>3, <1>4, <1>5
<1>7. Head(a) = t + 1
  <2>1. 1 \in 1..(w - t)
    OBVIOUS
  <2> QED
    BY <1>1, <1>3, <2>1
<1> QED
  BY <1>6, <1>7 DEF a, b, c

\* A step without messages: descriptors may be closed and the pipe deleted.
LEMMA QuietImplements ==
    ASSUME UNCHANGED <<wm, taken, got, eof>>, p \in PipeType, p' \in PipeType,
           p'.fd_write => p.fd_write, p.delete_me => p'.delete_me
    PROVE  [P!Next]_(P!vars)
<1>1. p.fd_write \in BOOLEAN /\ p'.fd_write \in BOOLEAN /\ p.delete_me \in BOOLEAN /\ p'.delete_me \in BOOLEAN
  BY DEF PipeType
<1>2. CASE p'.delete_me
  <2>1. p'.delete_me = TRUE /\ (~p'.fd_write) \in {~p.fd_write, TRUE}
    BY <1>1, <1>2
  <2>2. P!Delete
    BY <2>1 DEF P!Delete
  <2> QED
    BY <2>2 DEF P!Next
<1>3. CASE ~p'.delete_me /\ p'.fd_write = p.fd_write
  <2>1. p'.delete_me = p.delete_me
    BY <1>1, <1>3
  <2> QED
    BY <1>3, <2>1 DEF P!vars
<1>4. CASE ~p'.delete_me /\ p'.fd_write # p.fd_write
  <2>1. p'.delete_me = p.delete_me /\ (~p'.fd_write) = TRUE
    BY <1>1, <1>4
  <2>2. P!Close
    BY <2>1 DEF P!Close
  <2> QED
    BY <2>2 DEF P!Next
<1> QED
  BY <1>2, <1>3, <1>4

\* A message is handed out: to the handler, unless the pipe was deleted.
LEMMA HandOutImplements ==
    ASSUME wm \in Nat, taken \in Nat, taken < wm, wm' = wm, taken' = taken + 1, eof' = eof,
           p'.fd_write = p.fd_write, p'.delete_me = p.delete_me,
           got' = IF p.delete_me THEN got ELSE Append(got, taken + 1)
    PROVE  P!Next
<1>1. /\ Queue(taken, wm) # <<>> /\ Queue(taken', wm') = Tail(Queue(taken, wm))
      /\ Head(Queue(taken, wm)) = taken + 1
  BY QueueType, QueueTail
<1>2. CASE p.delete_me
  <2>1. P!Lose
    BY <1>1, <1>2 DEF P!Lose, Queue
  <2> QED
    BY <2>1 DEF P!Next
<1>3. CASE ~p.delete_me
  <2>1. P!Deliver
    BY <1>1, <1>3 DEF P!Deliver, Queue
  <2> QED
    BY <2>1 DEF P!Next
<1> QED
  BY <1>2, <1>3

\* Every step of core_pipe is one of PipeSpec or changes nothing there.
LEMMA StepImplements == PipeInv /\ [Next]_vars => [P!Next]_(P!vars)
<1> SUFFICES ASSUME PipeInv, [Next]_vars PROVE [P!Next]_(P!vars)
  OBVIOUS
<1>1. TypeOK /\ StackInv /\ DataInv
  BY DEF PipeInv
<1>2. p \in PipeType /\ p' \in PipeType
  BY <1>1, StackStep DEF TypeOK
<1>3. wm \in Nat /\ taken \in Nat /\ MaxMsg \in Nat /\ taken <= wm /\ wm <= MaxMsg
  BY <1>1, DataTypes DEF DataInv, Messages
<1>4. CASE UNCHANGED vars
  BY <1>4 DEF vars, P!vars
<1>5. CASE Silent
  <2>1. Quiet
    BY <1>1, <1>5, SilentQuiet
  <2>2. CASE eof' = eof
    BY <1>2, <2>1, <2>2, QuietImplements DEF Quiet
  <2>3. CASE eof' # eof
    <3>1. /\ ReadLen /\ p.fd_read /\ ~p.fd_write /\ pipe = <<>>
          /\ p' = HandlerCall(p) /\ Instead(CallFrames("close"))
          /\ eof' = (eof \/ Head(stack').k = "handler")
      BY <1>5, <2>3 DEF Silent, WriteLen, WriteClose, Freeze, Thaw, ReadClose, PipeDel, Wait,
         Called, Wakeup, ReadLen, ReadNext, ReadLeave, ReadClosed, WaitPoll, WaitTimeout,
         WaitCount, HandlerReturn
    <3>2. Head(stack').k = IF p.delete_me THEN "read" ELSE "handler"
      BY <1>1, <1>2, <3>1, StackCall DEF ReadLen
    <3>3. ~p.delete_me /\ eof' = TRUE
      BY <1>1, <2>3, <3>1, <3>2 DEF TypeOK
    <3>4. p'.fd_write = p.fd_write /\ p'.delete_me = p.delete_me
      BY <1>2, <3>1, HandlerCallType
    <3>5. wm = taken
      <4>1. wi = 0 /\ NextRead = NextWrite
        BY <1>1, <3>1 DEF DataInv, Messages, Stream, Between
      <4>2. NextRead.m = taken + 1 /\ NextWrite.m = wm + 1
        BY <4>1 DEF NextRead, NextWrite
      <4> QED
        BY <1>3, <4>1, <4>2
    <3>6. Queue(taken, wm) = <<>>
      BY <1>3, <3>5, QueueType
    <3>7. P!Eof
      BY <2>1, <3>1, <3>3, <3>4, <3>6 DEF P!Eof, Queue, Quiet
    <3> QED
      BY <3>7 DEF P!Next
  <2> QED
    BY <2>2, <2>3
<1>6. CASE WriteLen /\ p.fd_read
  <2>1. /\ wm < MaxMsg /\ ~p.delete_me /\ p.fd_write /\ p' = p /\ wm' = wm + 1
        /\ UNCHANGED <<taken, got, eof>>
    BY <1>6 DEF WriteLen
  <2>2. /\ Queue(taken', wm') = Append(Queue(taken, wm), wm + 1)
        /\ DOMAIN Queue(taken, wm) = 1..(wm - taken)
        /\ \A i \in 1..(wm - taken) : Queue(taken, wm)[i] = taken + i
    BY <1>3, <2>1, QueueAppend, QueueType
  <2>3. \A i \in DOMAIN Queue(taken, wm) : Queue(taken, wm)[i] < wm + 1
    BY <1>3, <2>2
  <2>4. \A i \in DOMAIN got : got[i] < wm + 1
    <3>1. got \in Seq(1..MaxMsg) /\ \A i \in DOMAIN got : got[i] <= taken
      BY <1>1 DEF DataInv, Messages
    <3>2. \A i \in DOMAIN got : got[i] \in Nat
      BY <1>3, <3>1
    <3> QED
      BY <1>3, <3>1, <3>2
  <2>5. PICK m \in 1..MaxMsg : m = wm + 1
    BY <1>3, <2>1
  <2>6. P!Send(m)
    BY <2>1, <2>2, <2>3, <2>4, <2>5 DEF P!Send, Queue
  <2> QED
    BY <2>6 DEF P!Next
<1>7. CASE WriteData
  <2>1. CASE p.fd_read
    <3>1. p' = p /\ UNCHANGED <<wm, taken, got, eof>>
      BY <1>7, <2>1 DEF WriteData
    <3> QED
      BY <1>2, <3>1, QuietImplements
  <2>2. CASE ~p.fd_read
    BY <1>1, <1>2, <1>7, <2>2, DataWriteBroken, QuietImplements
  <2> QED
    BY <2>1, <2>2
<1>8. CASE ReadLen /\ p.fd_read /\ pipe # <<>>
  <2>1. pipe[1].m = taken + 1 /\ taken < wm /\ taken + 1 \in 1..MaxMsg /\ Sizes[taken + 1] \in Nat
    BY <1>1, <1>8, HeadUnit
  <2>2. At("read", "loop") /\ wm' = wm
    BY <1>8 DEF ReadLen
  <2>3. CASE Sizes[taken + 1] = 0
    <3>1. p' = HandlerCall(p) /\ Instead(CallFrames("leave")) /\ Delivered(taken + 1)
      BY <1>8, <2>1, <2>3 DEF ReadLen
    <3>2. Head(stack').k = IF p.delete_me THEN "read" ELSE "handler"
      BY <1>1, <1>2, <2>2, <3>1, StackCall
    <3>3. /\ taken' = taken + 1 /\ eof' = eof
          /\ got' = IF p.delete_me THEN got ELSE Append(got, taken + 1)
      BY <3>1, <3>2 DEF Delivered
    <3>4. p'.fd_write = p.fd_write /\ p'.delete_me = p.delete_me
      BY <1>2, <3>1, HandlerCallType
    <3> QED
      BY <1>3, <2>1, <2>2, <3>3, <3>4, HandOutImplements
  <2>4. CASE Sizes[taken + 1] # 0
    <3>1. p' = [p EXCEPT !.len = Sizes[taken + 1]] /\ UNCHANGED <<got, taken, eof>>
      BY <1>8, <2>1, <2>4 DEF ReadLen
    <3>2. p'.fd_write = p.fd_write /\ p'.delete_me = p.delete_me
      BY <1>2, <2>1, <3>1, TakeLenType
    <3> QED
      BY <1>2, <2>2, <3>1, <3>2, QuietImplements
  <2> QED
    BY <2>3, <2>4
<1>9. CASE ReadData
  <2> DEFINE need == p.len - Len(p.passed_data)
             k == IF ~p.fd_read THEN 0 ELSE IF need < Len(pipe) THEN need ELSE Len(pipe)
             q == TakeData(p, k)
  <2>1. /\ wm' = wm /\ At("read", "loop")
        /\ IF k = need
           THEN p' = HandlerCall(q) /\ Instead(CallFrames("next")) /\ Delivered(MsgOf(q.passed_data))
           ELSE p' = Unhandle(q) /\ Instead(<<>>) /\ UNCHANGED <<got, taken, eof>>
    BY <1>9 DEF ReadData
  <2>2. /\ p.len > 0 /\ taken < wm /\ p.len = Sizes[taken + 1]
        /\ Len(p.passed_data) < p.len /\ p.len \in Nat /\ Len(p.passed_data) \in Nat
        /\ Len(pipe) \in Nat
    BY <1>1, <1>9, DataTypes DEF ReadData, DataInv, Partial
  <2>3. need \in Nat /\ need > 0 /\ k \in 0..Len(pipe) /\ k <= need /\ (k = need => p.fd_read)
    BY <2>2
  <2> HIDE DEF k
  <2>4. /\ q \in PipeType /\ q.handling = p.handling /\ q.message = p.message
        /\ q.delete_me = p.delete_me /\ q.freed = p.freed
        /\ q.fd_handler = p.fd_handler /\ q.fd_read = p.fd_read /\ q.fd_write = p.fd_write
    BY <1>1, <2>3, TakeDataType
  <2>5. CASE k = need
    <3>1. MsgOf(q.passed_data) = taken + 1
      <4>1. /\ q.passed_data \in Seq(Unit) /\ Len(q.passed_data) = Len(p.passed_data) + k
            /\ \A j \in DOMAIN q.passed_data : q.passed_data[j] = [m |-> taken + 1, i |-> j]
        BY <1>1, <2>2, <2>3, <2>5, ReadUnits
      <4>2. /\ Len(q.passed_data) = Sizes[taken + 1] /\ Len(q.passed_data) > 0
            /\ taken + 1 \in 1..MaxMsg
        BY <1>3, <2>2, <2>3, <2>5, <4>1
      <4> HIDE DEF q
      <4> QED
        BY <1>1, <4>1, <4>2, WholeMessage
    <3> HIDE DEF q
    <3>2. Head(stack').k = IF p.delete_me THEN "read" ELSE "handler"
      BY <1>1, <2>1, <2>4, <2>5, StackCall
    <3>3. /\ taken' = taken + 1 /\ eof' = eof
          /\ got' = IF p.delete_me THEN got ELSE Append(got, taken + 1)
      BY <2>1, <2>5, <3>1, <3>2 DEF Delivered
    <3>4. p'.fd_write = p.fd_write /\ p'.delete_me = p.delete_me
      BY <2>1, <2>4, <2>5, HandlerCallType
    <3> QED
      BY <1>3, <2>1, <2>2, <3>3, <3>4, HandOutImplements
  <2>6. CASE k # need
    <3> HIDE DEF q
    <3>1. q.handling > 0
      BY <1>1, <2>1, <2>4, <2>6, StackReturn DEF At, Top
    <3>2. p'.delete_me = p.delete_me /\ (p'.fd_write => p.fd_write)
      <4>1. CASE q.delete_me /\ q.handling = 1
        BY <2>1, <2>4, <2>6, <3>1, <4>1, UnhandleType
      <4>2. CASE ~(q.delete_me /\ q.handling = 1)
        BY <2>1, <2>4, <2>6, <3>1, <4>2, UnhandleType
      <4> QED
        BY <4>1, <4>2
    <3> QED
      BY <1>2, <2>1, <2>6, <3>2, QuietImplements
  <2> QED
    BY <2>5, <2>6
<1> QED
  BY <1>4, <1>5, <1>6, <1>7, <1>8, <1>9, StepKinds

\* core_pipe implements PipeSpec for all sizes of messages, capacities and
\* depths of reentrance: the handler gets every message once, whole and in
\* order, the end of the stream after the last, and nothing after core_pipe_del.
THEOREM Implements == Spec => ImplementsPipe
<1>1. Init => P!Init
  <2> SUFFICES ASSUME Init PROVE P!Init
    OBVIOUS
  <2>1. /\ wm = 0 /\ taken = 0 /\ got = <<>> /\ eof = FALSE /\ p.fd_write = TRUE
        /\ p.delete_me = FALSE
    BY DEF Init
  <2>2. Queue(taken, wm) = <<>>
    BY <2>1, QueueType
  <2> QED
    BY <2>1, <2>2 DEF P!Init, Queue
<1> QED
  BY <1>1, PipeInvariant, StepImplements, PTL DEF Spec, ImplementsPipe, P!Spec

=============================================================================
