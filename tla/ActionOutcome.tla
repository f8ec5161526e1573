---------------------------- MODULE ActionOutcome ----------------------------
(***************************************************************************)
(* What a requester may count on, with no messages, workers, permissions   *)
(* or versions: nothing is done for a case before it was granted, it is    *)
(* done at most once, and the case is told its outcome at most once.       *)
(* "completed" is told only of what was done; what is told "failed" may    *)
(* have been done all the same.                                            *)
(***************************************************************************)
EXTENDS Naturals

CONSTANT Case

VARIABLES
  granted, \* the cases whose action was authorized
  effect,  \* how often the action of a case was done
  outcome  \* what the case was told

TypeOK ==
  /\ granted \subseteq Case
  /\ effect \in [Case -> 0..1]
  /\ outcome \in [Case -> {"open", "completed", "failed"}]

Init ==
  /\ granted = {}
  /\ effect = [c \in Case |-> 0]
  /\ outcome = [c \in Case |-> "open"]

Grant(c) ==
  /\ c \notin granted
  /\ granted' = granted \cup {c}
  /\ UNCHANGED <<effect, outcome>>

Act(c) ==
  /\ c \in granted
  /\ effect[c] = 0
  /\ effect' = [effect EXCEPT ![c] = 1]
  /\ UNCHANGED <<granted, outcome>>

Complete(c) ==
  /\ outcome[c] = "open"
  /\ effect[c] = 1
  /\ outcome' = [outcome EXCEPT ![c] = "completed"]
  /\ UNCHANGED <<granted, effect>>

Fail(c) ==
  /\ c \in granted
  /\ outcome[c] = "open"
  /\ outcome' = [outcome EXCEPT ![c] = "failed"]
  /\ UNCHANGED <<granted, effect>>

Next == \E c \in Case : Grant(c) \/ Act(c) \/ Complete(c) \/ Fail(c)

Spec == Init /\ [][Next]_<<granted, effect, outcome>>

=============================================================================
