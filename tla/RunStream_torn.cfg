SPECIFICATION Spec
CONSTANTS
    Messages = {"m"}
    Inputs = {"i"}
    MaxSlots = 2
    MaxWrites = 2
    MaxText = 1
    MaxTurns = 1
INVARIANT RepairedIsCurrent
CHECK_DEADLOCK FALSE
