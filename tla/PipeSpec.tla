------------------------------ MODULE PipeSpec ------------------------------
(***************************************************************************)
(* What core_pipe promises to its two ends: the handler is called with the *)
(* messages written, each once, whole and in order; the end of the stream  *)
(* is reported after the last message; after core_pipe_del the handler is  *)
(* not called any more, and the messages still in the pipe are lost.       *)
(***************************************************************************)
EXTENDS Naturals, Sequences

CONSTANT MaxMsg  \* bound: messages written

VARIABLES
    queue,    \* messages written and not yet handed out
    got,      \* messages the handler was called with
    closed,   \* the write end is closed
    eof,      \* the handler was told so
    deleted   \* core_pipe_del was called

vars == <<queue, got, closed, eof, deleted>>

Init ==
    /\ queue = <<>> /\ got = <<>>
    /\ closed = FALSE /\ eof = FALSE /\ deleted = FALSE

Send(m) ==
    /\ ~closed /\ ~deleted
    /\ \A i \in DOMAIN queue : queue[i] < m
    /\ \A i \in DOMAIN got : got[i] < m
    /\ queue' = Append(queue, m)
    /\ UNCHANGED <<got, closed, eof, deleted>>

Deliver ==
    /\ queue # <<>> /\ ~deleted
    /\ got' = Append(got, Head(queue))
    /\ queue' = Tail(queue)
    /\ UNCHANGED <<closed, eof, deleted>>

Close == closed' = TRUE /\ UNCHANGED <<queue, got, eof, deleted>>

Eof ==
    /\ queue = <<>> /\ closed /\ ~deleted
    /\ eof' = TRUE
    /\ UNCHANGED <<queue, got, closed, deleted>>

\* Deleting closes the write end too, at once or when the last frame that
\* uses the pipe is left.
Delete ==
    /\ deleted' = TRUE
    /\ closed' \in {closed, TRUE}
    /\ UNCHANGED <<queue, got, eof>>

Lose ==
    /\ deleted /\ queue # <<>>
    /\ queue' = Tail(queue)
    /\ UNCHANGED <<got, closed, eof, deleted>>

Next ==
    \/ \E m \in 1..MaxMsg : Send(m)
    \/ Deliver \/ Close \/ Eof \/ Delete \/ Lose

Spec == Init /\ [][Next]_vars

=============================================================================
