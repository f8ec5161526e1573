SPECIFICATION OutboxFairSpec
CONSTANTS
  m1 = m1
  m2 = m2
  w1 = w1
  w2 = w2
  Message = {m1, m2}
  Worker = {w1, w2}
  Serves <- MCServes
  SelfRecovering <- MCSelfRecovering
  MaxAttempts = 3
  SweepLimit = 2
  NoClaim = NoClaim
INVARIANTS OutboxTypeOK AttemptLedger TerminalEvidence SingleOwner
PROPERTIES RowHistory RowsMoveInOrder EventuallySettled
CHECK_DEADLOCK FALSE
