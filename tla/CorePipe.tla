------------------------------ MODULE CorePipe ------------------------------
(***************************************************************************)
(* core_pipe (src/src/lib/core/core_pipe.c): a thread writes messages into *)
(* a kernel pipe, each as its length followed by its data, and the main    *)
(* loop reads them back and calls a handler with every whole message.      *)
(*                                                                         *)
(* The reader keeps a half-read message in the Core_Pipe between two       *)
(* wakeups, and it is reentrant: the handler may freeze, thaw, close or    *)
(* delete the pipe, or call core_pipe_wait, which reads further messages   *)
(* while the handler of the first one is still running.  `stack' is the C  *)
(* call stack of the main-loop thread, innermost frame first.  The writer  *)
(* interleaves with it at every system call.                               *)
(*                                                                         *)
(* The kernel pipe holds units: [m, i] is the length of message m if i is  *)
(* 0 and otherwise its i-th piece of data.  One thread writes at a time,   *)
(* it is idle when the pipe is deleted or its write end closed, a length   *)
(* is written and read whole (4 bytes are less than PIPE_BUF), a blocking  *)
(* write is not cut short by a signal, and memory does not run out.        *)
(***************************************************************************)
EXTENDS Integers, Sequences, FiniteSets

CONSTANTS
    Sizes,      \* Sizes[m]: the data units of message m
    Capacity,   \* units the kernel pipe holds
    ReadMax,    \* messages read per wakeup (16 in the code)
    MaxCalls,   \* bound: calls of the main-loop thread's user code
    MaxDepth,   \* bound: depth of the call stack
    DelInWait   \* may the handler delete a pipe that a wait goes on using

ASSUME SizesAssumption == Sizes \in Seq(Nat)
ASSUME BoundAssumption ==
    /\ Capacity \in Nat \ {0} /\ ReadMax \in Nat \ {0}
    /\ MaxCalls \in Nat /\ MaxDepth \in Nat
ASSUME DelAssumption == DelInWait \in BOOLEAN

VARIABLES
    pipe,    \* the units in the kernel pipe
    p,       \* the Core_Pipe
    wm,      \* messages started by the writer
    wi,      \* data units of message wm the writer still has to write
    stack,   \* the main-loop thread's call stack
    calls,   \* user calls left
    got,     \* history: what the handler was called with
    taken,   \* history: messages handed to _core_pipe_handler_call
    eof      \* history: the handler was called for the end of the stream

vars == <<pipe, p, wm, wi, stack, calls, got, taken, eof>>

MaxMsg == Len(Sizes)
Torn == 0  \* stands for data that are no message
Unit == [m: 1..MaxMsg, i: Nat]

\* fd_read, fd_write, fd_handler and pollfd say whether there is one;
\* passed_data holds the already_read units.
PipeType == [fd_read: BOOLEAN, fd_write: BOOLEAN, fd_handler: BOOLEAN,
             pollfd: BOOLEAN, len: Nat, passed_data: Seq(Unit),
             handling: Nat, message: Nat, delete_me: BOOLEAN, freed: BOOLEAN]

\* A frame: which function, where it is, and its counter (the loop of
\* _core_pipe_read, the messages core_pipe_wait still waits for).
Frame(k, at, n) == [k |-> k, at |-> at, n |-> n]
Top == Head(stack)
At(k, at) == stack # <<>> /\ Top.k = k /\ Top.at = at
Instead(frames) == stack' = frames \o Tail(stack)

Init ==
    /\ pipe = <<>>
    /\ p = [fd_read |-> TRUE, fd_write |-> TRUE, fd_handler |-> TRUE,
            pollfd |-> TRUE, len |-> 0, passed_data |-> <<>>, handling |-> 0,
            message |-> 0, delete_me |-> FALSE, freed |-> FALSE]
    /\ wm = 0 /\ wi = 0
    /\ stack = <<>>
    /\ calls = MaxCalls
    /\ got = <<>> /\ taken = 0 /\ eof = FALSE

Room == Len(pipe) < Capacity
Readable == p.fd_read /\ (pipe # <<>> \/ ~p.fd_write)

-----------------------------------------------------------------------------
(* The writer: core_pipe_write.                                            *)

\* The length; without room the call blocks.
WriteLen ==
    /\ wi = 0 /\ wm < MaxMsg
    /\ ~p.freed /\ ~p.delete_me /\ p.fd_write
    /\ IF p.fd_read
       THEN /\ Room
            /\ pipe' = Append(pipe, [m |-> wm + 1, i |-> 0])
            /\ wm' = wm + 1
            /\ wi' = Sizes[wm + 1]
            /\ UNCHANGED p
       ELSE /\ p' = [p EXCEPT !.fd_write = FALSE]
            /\ UNCHANGED <<pipe, wm, wi>>
    /\ UNCHANGED <<stack, calls, got, taken, eof>>

\* A piece of the data, as the pipe has room for it.
WriteData ==
    /\ wi > 0
    /\ IF p.fd_read
       THEN /\ Room
            /\ pipe' = Append(pipe, [m |-> wm, i |-> Sizes[wm] - wi + 1])
            /\ wi' = wi - 1
            /\ UNCHANGED p
       ELSE /\ p' = [p EXCEPT !.fd_write = FALSE]
            /\ wi' = 0
            /\ UNCHANGED pipe
    /\ UNCHANGED <<wm, stack, calls, got, taken, eof>>

\* core_pipe_write_close
WriteClose ==
    /\ wi = 0 /\ ~p.freed /\ p.fd_write
    /\ p' = [p EXCEPT !.fd_write = FALSE]
    /\ UNCHANGED <<pipe, wm, wi, stack, calls, got, taken, eof>>

-----------------------------------------------------------------------------
(* Calls of the user's code, at top level or in the handler.               *)

\* A pipe is not used any more once it was deleted.
CanCall == /\ calls > 0 /\ ~p.delete_me
           /\ stack # <<>> => Top.k = "handler"

Called == calls' = calls - 1 /\ UNCHANGED <<pipe, wm, wi, got, taken, eof>>

\* core_pipe_freeze and core_pipe_thaw
Freeze ==
    /\ CanCall /\ p.fd_handler /\ Called
    /\ p' = [p EXCEPT !.fd_handler = FALSE]
    /\ UNCHANGED stack

Thaw ==
    /\ CanCall /\ ~p.fd_handler /\ p.fd_read /\ Called
    /\ p' = [p EXCEPT !.fd_handler = TRUE]
    /\ UNCHANGED stack

\* core_pipe_read_close
ReadClose ==
    /\ CanCall /\ Called
    /\ p' = [p EXCEPT !.fd_handler = FALSE, !.fd_read = FALSE]
    /\ UNCHANGED stack

\* A plausible bug in the definition that follows:
\* the memory is released although frames use it.
DelNow(q) ==
    [q EXCEPT !.pollfd = FALSE, !.delete_me = TRUE, !.fd_handler = FALSE,
              !.fd_read = FALSE, !.fd_write = FALSE, !.freed = TRUE]

\* _core_pipe_del: deferred while the pipe is being handled.
Del(q) ==
    LET d == [q EXCEPT !.pollfd = FALSE, !.delete_me = TRUE] IN
    IF q.handling > 0 THEN d
    ELSE [d EXCEPT !.fd_handler = FALSE, !.fd_read = FALSE,
                   !.fd_write = FALSE, !.freed = TRUE]

\* _core_pipe_unhandle
Unhandle(q) ==
    LET h == [q EXCEPT !.handling = @ - 1] IN
    IF h.delete_me THEN Del(h) ELSE h

\* core_pipe_wait tests p->pollfd after _core_pipe_unhandle released p,
\* unless it leaves its loop because it has its messages.
DelAllowed ==
    LET waits == {i \in DOMAIN stack : stack[i].k = "wait"} IN
    ~DelInWait /\ waits # {} =>
        \A i \in waits : waits = {i} /\ stack[i].n <= p.message

\* core_pipe_del
PipeDel ==
    /\ CanCall /\ wi = 0 /\ DelAllowed /\ Called
    /\ p' = Del(p)
    /\ UNCHANGED stack

\* core_pipe_wait up to its loop
Wait(n) ==
    /\ CanCall /\ p.fd_read /\ Len(stack) < MaxDepth /\ Called
    /\ stack' = <<Frame("wait", "poll", n)>> \o stack
    /\ UNCHANGED p

\* The handler returns to _core_pipe_read.
HandlerReturn ==
    /\ At("handler", "run")
    /\ Instead(<<>>)
    /\ UNCHANGED <<pipe, p, wm, wi, calls, got, taken, eof>>

-----------------------------------------------------------------------------
(* Reading.                                                                *)

ReadFrame == Frame("read", "loop", 0)
StartRead(q) == [q EXCEPT !.handling = @ + 1]

\* The main loop finds the descriptor readable: _core_pipe_read.
Wakeup ==
    /\ stack = <<>> /\ p.fd_handler /\ Readable
    /\ p' = StartRead(p)
    /\ stack' = <<ReadFrame>>
    /\ UNCHANGED <<pipe, wm, wi, calls, got, taken, eof>>

\* _core_pipe_unhandle and the return of _core_pipe_read
ReadReturn == p' = Unhandle(p) /\ Instead(<<>>)

\* A plausible bug in the definition that follows:
\* the message is cleared after its handler was called, so that a
\* read from within the handler still finds it.
HandlerCallLate(q) == [q EXCEPT !.message = @ + 1]

\* _core_pipe_handler_call: the message is cleared before the handler is
\* called, and the handler is not called any more once the pipe is deleted.
HandlerCall(q) ==
    [q EXCEPT !.passed_data = <<>>, !.len = 0, !.message = @ + 1]

\* A plausible bug in the definition that follows:
\* the handler of a deleted pipe is called all the same.
CallFramesAlways(at) == <<Frame("handler", "run", 0), [Top EXCEPT !.at = at]>>

CallFrames(at) ==
    (IF p.delete_me THEN <<>> ELSE <<Frame("handler", "run", 0)>>)
    \o <<[Top EXCEPT !.at = at]>>

\* The handler gets message m (Torn if what it gets is none).
Delivered(m) ==
    /\ taken' = taken + 1
    /\ got' = IF Head(stack').k = "handler" THEN Append(got, m) ELSE got
    /\ UNCHANGED eof

\* The message that the units are the data of.
MsgOf(units) ==
    IF units # <<>> /\ units = [i \in 1..Sizes[units[1].m] |-> [m |-> units[1].m, i |-> i]]
    THEN units[1].m ELSE Torn

\* The loop of _core_pipe_read while no message is half read: the length.
ReadLen ==
    /\ At("read", "loop") /\ p.len = 0
    /\ UNCHANGED <<wm, wi, calls>>
    /\ IF p.fd_read /\ pipe # <<>>
       THEN /\ pipe' = Tail(pipe)
            /\ IF Sizes[pipe[1].m] = 0
               THEN /\ p' = HandlerCall(p)
                    /\ Instead(CallFrames("leave"))
                    /\ Delivered(pipe[1].m)
               ELSE /\ p' = [p EXCEPT !.len = Sizes[pipe[1].m]]
                    /\ UNCHANGED <<stack, got, taken, eof>>
       ELSE IF p.fd_read /\ ~p.fd_write /\ Top.n = 0
       THEN \* the end of the stream
            /\ p' = HandlerCall(p)
            /\ Instead(CallFrames("close"))
            /\ eof' = (eof \/ Head(stack').k = "handler")
            /\ UNCHANGED <<pipe, got, taken>>
       ELSE \* no data, or the descriptor was closed by the handler
            ReadReturn /\ UNCHANGED <<pipe, got, taken, eof>>

\* A plausible bug in the definition that follows:
\* the piece read now overwrites the pieces read before.
TakeDataOver(q, k) == [q EXCEPT !.passed_data = SubSeq(pipe, 1, k)]

TakeData(q, k) == [q EXCEPT !.passed_data = @ \o SubSeq(pipe, 1, k)]

\* The same with a length: what there is of the data.
ReadData ==
    /\ At("read", "loop") /\ p.len > 0
    /\ UNCHANGED <<wm, wi, calls>>
    /\ LET need == p.len - Len(p.passed_data)
           k == IF ~p.fd_read THEN 0 ELSE IF need < Len(pipe) THEN need ELSE Len(pipe)
           q == TakeData(p, k)
       IN /\ pipe' = SubSeq(pipe, k + 1, Len(pipe))
          /\ IF k = need
             THEN /\ p' = HandlerCall(q)
                  /\ Instead(CallFrames("next"))
                  /\ Delivered(MsgOf(q.passed_data))
             ELSE /\ p' = Unhandle(q)
                  /\ Instead(<<>>)
                  /\ UNCHANGED <<got, taken, eof>>

\* After the handler: the next turn of the loop, the return after an empty
\* message, or the end of the stream.
ReadNext ==
    /\ At("read", "next")
    /\ IF Top.n + 1 < ReadMax
       THEN Instead(<<Frame("read", "loop", Top.n + 1)>>) /\ UNCHANGED p
       ELSE ReadReturn
    /\ UNCHANGED <<pipe, wm, wi, calls, got, taken, eof>>

ReadLeave ==
    /\ At("read", "leave")
    /\ ReadReturn
    /\ UNCHANGED <<pipe, wm, wi, calls, got, taken, eof>>

ReadClosed ==
    /\ At("read", "close")
    /\ p' = Unhandle([p EXCEPT !.fd_read = FALSE, !.fd_handler = FALSE])
    /\ Instead(<<>>)
    /\ UNCHANGED <<pipe, wm, wi, calls, got, taken, eof>>

-----------------------------------------------------------------------------
(* The loop of core_pipe_wait.                                             *)

WaitPoll ==
    /\ At("wait", "poll") /\ p.pollfd /\ Readable
    /\ p' = StartRead(StartRead(p))
    /\ Instead(<<ReadFrame, [Top EXCEPT !.at = "count"]>>)
    /\ UNCHANGED <<pipe, wm, wi, calls, got, taken, eof>>

\* The timer fires, or the pipe was deleted.
WaitTimeout ==
    /\ At("wait", "poll")
    /\ Instead(<<>>)
    /\ UNCHANGED <<pipe, p, wm, wi, calls, got, taken, eof>>

\* The messages read are counted.
WaitCount ==
    /\ At("wait", "count")
    /\ LET n == Top.n - p.message IN
       /\ p' = Unhandle([p EXCEPT !.message = 0])
       /\ Instead(IF n <= 0 THEN <<>> ELSE <<Frame("wait", "poll", n)>>)
    /\ UNCHANGED <<pipe, wm, wi, calls, got, taken, eof>>

-----------------------------------------------------------------------------

Writer == WriteLen \/ WriteData \/ WriteClose

User == Freeze \/ Thaw \/ ReadClose \/ PipeDel \/ \E n \in 1..2 : Wait(n)

Reader ==
    \/ Wakeup \/ ReadLen \/ ReadData \/ ReadNext \/ ReadLeave \/ ReadClosed
    \/ WaitPoll \/ WaitTimeout \/ WaitCount \/ HandlerReturn

Next == Writer \/ User \/ Reader

Spec == Init /\ [][Next]_vars

\* The main loop runs, waits have a timeout, handlers return, and a write that
\* has begun goes on as soon as there is room.
FairSpec == Spec /\ WF_vars(Reader) /\ WF_vars(WriteData)

-----------------------------------------------------------------------------
(* Properties.                                                             *)

\* The state is of its type; no more than the data asked for is read.
TypeOK ==
    /\ pipe \in Seq(Unit) /\ Len(pipe) <= Capacity
    /\ p \in PipeType
    /\ p.len > 0 => Len(p.passed_data) < p.len
    /\ wm \in 0..MaxMsg /\ wi \in Nat /\ calls \in 0..MaxCalls
    /\ taken \in 0..MaxMsg /\ eof \in BOOLEAN

\* core_pipe implements PipeSpec: messages arrive whole, once and in order,
\* the end of the stream after them, and nothing after core_pipe_del.
P == INSTANCE PipeSpec WITH
        queue <- [i \in 1..(wm - taken) |-> taken + i],
        closed <- ~p.fd_write,
        deleted <- p.delete_me

ImplementsPipe == P!Spec

\* handling counts the frames that use the pipe, and the memory is released
\* only when there are none (_core_pipe_del, _core_pipe_unhandle).
FreedUnused ==
    /\ p.handling = Cardinality({i \in DOMAIN stack :
          stack[i].k = "read" \/ stack[i].at = "count"})
    /\ p.freed => stack = <<>>

Gone == p.delete_me \/ ~p.fd_read

\* A pipe that is not left frozen for ever delivers every message written to
\* it, and reports the end of the stream, unless it is closed or deleted.
Drained ==
    []<>(p.fd_handler \/ Gone) =>
        /\ \A m \in 1..MaxMsg : (wm >= m) ~> (taken >= m \/ Gone)
        /\ (~p.fd_write) ~> (eof \/ Gone)

=============================================================================
