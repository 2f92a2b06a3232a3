SPECIFICATION Spec
CONSTANTS
  k1 = k1
  k2 = k2
  w1 = w1
  w2 = w2
  w3 = w3
  read1 = read1
  none = none
  Node = {0}
  Key = {k1, k2}
  Req = {w1, w2, w3}
  KeyOf <- TwoKeys
  NoReq = none
  Silent = {w2}
  Workers = 1
  Reader = {read1}
INVARIANTS AnsweredIsCommitted
PROPERTIES Register
