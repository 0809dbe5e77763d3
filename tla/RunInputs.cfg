CONSTANTS
  Inputs = {i1, i2}
  Approvals = 2
  MaxRechecks = 1
SPECIFICATION FairSpec
INVARIANTS LedgerConsistent NoDoubleDelivery AnswerCoversInputs VerdictIsCurrent AckedInputsDurable RequestHoldsItsObjective
PROPERTIES MailboxSpec QueuedInputIsDelivered
CHECK_DEADLOCK TRUE
