---------------------------- MODULE MCActionRoute ----------------------------
(* ActionRoute for TLC: two cases; what they ask for is one of a few pairs. *)
EXTENDS ActionRoute

CONSTANTS a, b, w1, w2

Staff == {"REQUESTER", "SYSTEM", "REQUEST", "APPROVER"}

Asks(type, flaws, holds, target) ==
  [type |-> type, flaws |-> flaws, holds |-> holds, target |-> target]

Access == Asks("ACCESS_REQUEST", {}, Staff, NoCase)
Change(holds) == Asks("DATA_CHANGE_REQUEST", {}, holds, NoCase)
Incident(flaws, holds) == Asks("INCIDENT_REPORT", flaws, holds, NoCase)
Policy == Asks("POLICY_QUESTION", {}, {"REQUESTER"}, NoCase)
Status(holds, target) == Asks("STATUS_REQUEST", {}, {"REQUESTER"} \cup holds, target)

Pair(x, y) == [c \in Case |-> IF c = a THEN x ELSE y]

(* Approved actions that compete, a status of the requester's own case or of *)
(* one that is only viewed, safe actions, and requests that miss something   *)
(* when they are validated.                                                  *)
MCRequests ==
  {Pair(Access, Access), Pair(Access, Change(Staff \ {"REQUEST"})),
   Pair(Access, Status({"OWNER"}, a)), Pair(Incident({}, Staff), Status({"VIEW"}, a)),
   Pair(Incident({}, Staff), Policy),
   Pair(Incident({}, {"REQUESTER"}), Incident({"DUPLICATE"}, Staff)),
   Pair(Incident({}, {"SYSTEM"}), Incident({"INCOMPLETE", "ENUM"}, Staff))}

(* A status request beside the case it asks for, with grants that last. *)
MCStatusOnly == {Pair(Incident({}, Staff), Status({"OWNER"}, a))}

=============================================================================
