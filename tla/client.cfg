SPECIFICATION FairSpec
CONSTANTS
  Total = 3
  Earlier = {1}
INVARIANTS EndIsCommitted Ledger SamplesAreAcks
PROPERTIES ClientEnds
