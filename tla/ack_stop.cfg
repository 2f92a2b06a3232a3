SPECIFICATION WorkerFairSpec
CONSTANTS
  a1 = a1
  a2 = a2
  a3 = a3
  Ack = {a1}
  MaxConfigures = 2
PROPERTIES ConfigureReturns
CHECK_DEADLOCK FALSE
