------------------------------ MODULE MsgQueue ------------------------------
(***************************************************************************)
(* What eina_thread_queue.h promises: messages put in at one end come out  *)
(* at the other end, each once and in the order of eina_thread_queue_send. *)
(***************************************************************************)
EXTENDS Naturals, Sequences

CONSTANT Msg     \* messages

VARIABLES
    queue,   \* messages sent and not yet fetched
    sent     \* messages sent so far

vars == <<queue, sent>>

Init == queue = <<>> /\ sent = {}

\* A message gets its place in the queue.
Send(m) ==
    /\ m \in Msg \ sent
    /\ sent' = sent \cup {m}
    /\ queue' = Append(queue, m)

\* The oldest message is handed out.
Fetch ==
    /\ queue # <<>>
    /\ queue' = Tail(queue)
    /\ UNCHANGED sent

Next == Fetch \/ \E m \in Msg : Send(m)

Spec == Init /\ [][Next]_vars

=============================================================================
