SPECIFICATION FairSpec
CONSTANTS
  a = a
  b = b
  w1 = w1
  w2 = w2
  Case = {a, b}
  NoCase = NoCase
  Requests <- MCRequests
  Corrected = {"ACCESS_REQUEST", "INCIDENT_REPORT", "STATUS_REQUEST", "POLICY_QUESTION"}
  Volatile = {"APPROVER"}
  Worker = {w1, w2}
  NoTrigger = NoTrigger
INVARIANTS TypeOK CasesTellState EffectIsAuthorized OutcomeIsDelivered ActionStaysPossible
PROPERTIES CasesFollowLifecycle KeepsOutcome ApprovalIsQueued
CHECK_DEADLOCK FALSE
