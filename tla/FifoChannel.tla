---------------------------- MODULE FifoChannel ----------------------------
(***************************************************************************)
(* What one direction of the worker-chip message queue promises: a bounded *)
(* first-in first-out channel.  Message number k carries the payload its   *)
(* sender gave it, keeps it until the receiver lets go of it, leaves the   *)
(* channel exactly once and in order, and nothing follows a STOP.          *)
(***************************************************************************)
EXTENDS Naturals, Sequences

CONSTANTS
    Capacity,   \* messages between sending and release
    Opcodes,    \* what this direction may carry
    Sizes       \* payload sizes

VARIABLES
    q,          \* messages sent and not yet released
    sent,       \* number of messages ever sent
    stopped     \* a STOP was sent

(* The payload of message k: a STOP has none. *)
Message(k, op, n) == [op |-> op, data |-> [i \in 1 .. n |-> k]]

Init == q = <<>> /\ sent = 0 /\ stopped = FALSE

Send(op, n) ==
    /\ ~stopped /\ Len(q) < Capacity
    /\ op = "STOP" => n = 0
    /\ q' = Append(q, Message(sent + 1, op, n))
    /\ sent' = sent + 1
    /\ stopped' = (op = "STOP")

Release ==
    /\ q # <<>>
    /\ q' = Tail(q)
    /\ UNCHANGED <<sent, stopped>>

Next == Release \/ \E op \in Opcodes, n \in Sizes : Send(op, n)

Spec == Init /\ [][Next]_<<q, sent, stopped>>
=============================================================================
