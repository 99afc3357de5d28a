----------------------------- MODULE BoundedFifo -----------------------------
(***************************************************************************)
(* What an ioqueue promises its users: bytes come out in the order they    *)
(* went in, each one once, and never more than the capacity is stored.     *)
(***************************************************************************)
EXTENDS Naturals, Sequences

CONSTANTS Task, Value, NoValue, Capacity

VARIABLES queue,  \* the stored bytes, oldest first
          got     \* the last byte each task took out

Init ==
    /\ queue = <<>>
    /\ got = [t \in Task |-> NoValue]

Put(v) ==
    /\ Len(queue) < Capacity
    /\ queue' = Append(queue, v)
    /\ UNCHANGED got

Get(t) ==
    /\ queue # <<>>
    /\ got' = [got EXCEPT ![t] = Head(queue)]
    /\ queue' = Tail(queue)

Next == (\E v \in Value : Put(v)) \/ (\E t \in Task : Get(t))

Spec == Init /\ [][Next]_<<queue, got>>
=============================================================================
