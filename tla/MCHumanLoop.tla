----------------------------- MODULE MCHumanLoop -----------------------------
(* HumanLoop for TLC: one case, a first input, one that more information    *)
(* makes of it and one that is beyond the model's budget.                   *)
EXTENDS HumanLoop

CONSTANTS text, more, long, h1, h2, r1, r2

MCMessage == {"RESUME", "NOTICE"} \X (1..MaxVersion)

=============================================================================
