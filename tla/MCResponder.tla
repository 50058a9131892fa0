------------------------------ MODULE MCResponder ------------------------------
(* Instances of Responder for TLC: values of Ends.                         *)
EXTENDS Responder

Undisturbed == [op \in Ops |-> {}]

OnlyCancelled == [op \in Ops |-> {"cancel"}]

CancelledOrReset == [op \in Ops |-> {"cancel", "reset"}]

\* What the responder stands: a bus that stops in any operation but a copy, a
\* cancel in any operation without a data phase of the host.
WellHandled == [op \in Ops |-> IF op = "copy" THEN {"cancel"}
                               ELSE IF HasDataPhase(op) THEN {"stop"}
                               ELSE {"cancel", "stop"}]
=============================================================================
