SPECIFICATION Spec
CONSTANTS
  w1 = w1
  start = start
  text = text
  long = long
  w2 = w2
  Message = {start}
  Start = start
  Worker = {w1}
  Serves <- MCServes
  SelfRecovering = {w1}
  MaxAttempts = 3
  SweepLimit = 1
  NoClaim = NoClaim
  Input = {text, long}
  OversizedInput = {long}
  Handler <- MCHandler
  MaxProviderAttempts = 2
  NoRun = NoRun
  NoTrigger = NoTrigger
  NoInput = NoInput
  NoReply = NoReply
PROPERTY StartReplayAnswered
CHECK_DEADLOCK FALSE
