----------------------------- MODULE MCDelivery -----------------------------
(* Delivery for TLC: one action and two delivery workers, which recover    *)
(* nothing themselves (process_one_message leaves that to the sweep), and  *)
(* a foreign body another client may post under the same key.              *)
EXTENDS Delivery

CONSTANTS own, foreign, m1, w1, w2

MCServes == [w \in Worker |-> Message]
MCPayloadOf == [m \in Message |-> own]

=============================================================================
