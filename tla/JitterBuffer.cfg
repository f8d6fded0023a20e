CONSTANTS
    SlotCount = 8
    MinDepth = 1
    MaxDepth = 2
    TrimSlack = 2
    StretchSlack = 1
    Modulus = 64
    FirstNumber = 2
    RestartNumber = 2
    MaxRestarts = 1
    MaxPackets = 4
    Losses = {0, 3}
    Delays = {2}
SPECIFICATION JitterSpec
INVARIANTS PlaysWhatIsDue
PROPERTIES ToldInOrder
CHECK_DEADLOCK FALSE
