SPECIFICATION TirelessSpec
CONSTANTS
  a = a
  b = b
  w1 = w1
  w2 = w2
  Case = {a, b}
  NoCase = NoCase
  Requests <- MCStatusOnly
  Corrected = {}
  Volatile = {}
  Worker = {w1}
  NoTrigger = NoTrigger
PROPERTIES DeliveredCompletes
CHECK_DEADLOCK FALSE
