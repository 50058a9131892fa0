------------------------------ MODULE ByteQueue -------------------------------
(***************************************************************************)
(* What the buffer between the bulk reader thread and the main thread      *)
(* promises: a bounded first-in first-out queue of bytes.  A byte is named *)
(* by its place in the stream.                                             *)
(***************************************************************************)
EXTENDS Integers, Sequences

CONSTANTS MaxPut, Capacity

VARIABLES
    queue,   \* the bytes put and not yet taken, oldest first
    out      \* how many bytes have been taken or discarded

Init == queue = <<>> /\ out = 0

\* The next n bytes of the stream.
Put(n) ==
    /\ Len(queue) + n <= Capacity
    /\ queue' = queue \o [k \in 1 .. n |-> out + Len(queue) + k - 1]
    /\ out' = out

Take(n) ==
    /\ n <= Len(queue)
    /\ queue' = SubSeq(queue, n + 1, Len(queue))
    /\ out' = out + n

Discard ==
    /\ queue' = <<>>
    /\ out' = out + Len(queue)

Next ==
    \/ \E n \in 0 .. MaxPut : Put(n)
    \/ \E n \in 1 .. Capacity : Take(n)
    \/ Discard

Spec == Init /\ [][Next]_<<queue, out>>
=============================================================================
