SPECIFICATION FairSpec
CONSTANTS
  k1 = k1
  k2 = k2
  w1 = w1
  w2 = w2
  w3 = w3
  read1 = read1
  read2 = read2
  none = none
  N = 3
  Node = {0, 1, 2}
  Key = {k1}
  Req = {w1, w2}
  KeyOf <- OneKey
  NoReq = none
  Silent = {w2}
  Workers = 2
  Reader = {read1}
INVARIANTS CleanOrder AckedEverywhere CommittedIsReadable ReadsCommitted ReadsFresh ReadsFailForCause QuietClean
PROPERTIES Register AcceptedIsClean
