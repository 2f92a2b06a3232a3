SPECIFICATION FairSpec
CONSTANTS
  k1 = k1
  k2 = k2
  w1 = w1
  w2 = w2
  w3 = w3
  none = none
  N = 3
  Node = {0, 1, 2}
  HeadOf <- Heads
  Misrouted = {}
  Key = {k1, k2}
  Req = {w1, w2, w3}
  KeyOf <- TwoKeys
  NoReq = none
  Silent = {w2}
  Workers = 1
INVARIANTS RingOrder AckedEverywhere QuietConverged
PROPERTIES ReadsSeeAcked Register AcceptedIsAcked
