SPECIFICATION Spec
CONSTANTS
  e1 = e1
  e2 = e2
  e3 = e3
  e4 = e4
  null = null
  Endpoint = {e1, e2, e3}
  Null = null
  MaxNodes = 3
SYMMETRY Endpoints4
INVARIANTS AcceptsExactlyRings ForwardingEnds CommitsWhereRead CommitsAfterWholeRing
