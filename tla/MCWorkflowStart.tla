-------------------------- MODULE MCWorkflowStart --------------------------
(* WorkflowStart for TLC: one case, two dispatchers of which one recovers   *)
(* expired claims before it claims, the scheduled sweep, as many n8n        *)
(* executions and analysis requests as the message has attempts, and a      *)
(* received input that is or is not within the model's budget.              *)
EXTENDS WorkflowStart

CONSTANTS w1, w2, start, text, long

MCServes == [w \in Worker |-> Message]
MCHandler == 1..MaxAttempts

=============================================================================
