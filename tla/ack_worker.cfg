SPECIFICATION WorkerFairSpec
CONSTANTS
  a1 = a1
  a2 = a2
  a3 = a3
  Ack = {a1, a2, a3}
  MaxConfigures = 3
INVARIANTS InOrderNoneLost
PROPERTIES EveryAckSent
CHECK_DEADLOCK FALSE
