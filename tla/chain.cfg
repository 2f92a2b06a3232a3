SPECIFICATION FairSpec
CONSTANTS
  k1 = k1
  k2 = k2
  w1 = w1
  w2 = w2
  w3 = w3
  none = none
  N = 3
  Node = {0, 1, 2}
  Key = {k1}
  Req = {w1, w2, w3}
  KeyOf <- OneKey
  NoReq = none
  Silent = {w3}
  Workers = 2
INVARIANTS TypeOK IInv PropagationOrder VersionNamesOneWrite AckedEverywhere QuietConverged
PROPERTIES ReadsSeeAcked Register AcceptedIsAcked
