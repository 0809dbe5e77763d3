CONSTANTS
  Inputs = {i1}
  Approvals = 1
  MaxRechecks = 0
SPECIFICATION Spec
INVARIANTS AckedInputsReplayed
CHECK_DEADLOCK TRUE
