--------------------------- MODULE DeliveryPromise ---------------------------
(***************************************************************************)
(* What the outbox and an idempotent destination promise together, with no *)
(* workers, attempts, leases or requests: a submitted intent is closed at  *)
(* most once, its effect is applied at most once, and it is reported       *)
(* delivered only when the effect has been applied.  An intent that is     *)
(* given up may have been applied, before or after: its outcome is unknown.*)
(***************************************************************************)
EXTENDS Naturals

CONSTANT Message

VARIABLES
  phase,  \* what the sender reports of the intent
  effect  \* how often the destination applied it

TypeOK ==
  /\ phase \in [Message -> {"absent", "open", "delivered", "given_up"}]
  /\ effect \in [Message -> 0..1]

Init ==
  /\ phase = [m \in Message |-> "absent"]
  /\ effect = [m \in Message |-> 0]

Submit(m) ==
  /\ phase[m] = "absent"
  /\ phase' = [phase EXCEPT ![m] = "open"]
  /\ UNCHANGED effect

Apply(m) ==
  /\ phase[m] # "absent"
  /\ effect[m] = 0
  /\ effect' = [effect EXCEPT ![m] = 1]
  /\ UNCHANGED phase

Confirm(m) ==
  /\ phase[m] = "open"
  /\ effect[m] = 1
  /\ phase' = [phase EXCEPT ![m] = "delivered"]
  /\ UNCHANGED effect

(* A batch: the sweep may reach the attempt limit of several intents at once. *)
GiveUp(batch) ==
  /\ batch # {}
  /\ \A m \in batch : phase[m] = "open"
  /\ phase' = [m \in Message |-> IF m \in batch THEN "given_up" ELSE phase[m]]
  /\ UNCHANGED effect

Next ==
  \/ \E m \in Message : Submit(m) \/ Apply(m) \/ Confirm(m)
  \/ \E batch \in SUBSET Message : GiveUp(batch)

Spec == Init /\ [][Next]_<<phase, effect>>

=============================================================================
