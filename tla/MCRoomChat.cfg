CONSTANTS
    Musicians = {a, b, c}
    MaxSlots = 2
    MaxPending = 2
    MaxAttempts = 2
    PerPass = 1
    PerWindow = 1
    MaxTexts = 2
    MaxJoins = 3
SPECIFICATION Spec
INVARIANTS ShownOnce DoneIsDelivered
SYMMETRY Symmetry
CHECK_DEADLOCK FALSE
