SPECIFICATION Spec
CONSTANTS
  k1 = k1
  w1 = w1
  w2 = w2
  w3 = w3
  none = none
  N = 3
  Node = {0, 1, 2}
  HeadOf <- FirstHead
  Modes = {"CROWN"}
  MaxPasses = 1
  MaxCalls = 2
  MaxMishaps = 1
  Key = {k1}
  Req = {w1}
  KeyOf <- OneKey
  NoReq = none
  Silent = {}
  Workers = 1
INVARIANTS AckedAtTail
