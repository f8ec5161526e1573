SPECIFICATION Spec
CONSTANTS
  m1 = m1
  w1 = w1
  w2 = w2
  own = own
  foreign = foreign
  Message = {m1}
  Worker = {w1, w2}
  Serves <- MCServes
  SelfRecovering = {}
  MaxAttempts = 3
  SweepLimit = 1
  NoClaim = NoClaim
  Payload = {own, foreign}
  PayloadOf <- MCPayloadOf
  NoReply = NoReply
INVARIANTS TypeOK SentHasRecord OneRecordPerKey RefusalIsFinal
PROPERTIES KeepsPromise
CHECK_DEADLOCK FALSE
