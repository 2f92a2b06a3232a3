SPECIFICATION FairSpec
CONSTANTS
  k1 = k1
  w1 = w1
  w2 = w2
  w3 = w3
  none = none
  N = 2
  Node = {0, 1}
  HeadOf <- LastHead
  Modes = {"CHAIN", "CROWN"}
  MaxPasses = 2
  MaxCalls = 2
  MaxMishaps = 1
  Key = {k1}
  Req = {w1, w2}
  KeyOf <- OneKey
  NoReq = none
  Silent = {w2}
  Workers = 1
INVARIANTS AckedThroughConfigure
PROPERTIES StoresOutliveConfigure CommittedIsStable AcceptedIsAckedThrough
