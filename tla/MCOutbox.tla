------------------------------ MODULE MCOutbox ------------------------------
(* Outbox for TLC: any worker may claim any message; one of two workers is *)
(* a dispatcher that recovers claims of its own before it claims.          *)
EXTENDS Outbox

CONSTANTS w1, w2, m1, m2

MCServes == [w \in Worker |-> Message]
MCSelfRecovering == {w1}

=============================================================================
