SPECIFICATION Spec
CONSTANTS
  Total = 2
  Earlier = {1}
INVARIANTS ConfirmedIsCommitted
