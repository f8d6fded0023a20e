CONSTANTS
    Capacity = 4
    MaxBlock = 3
    MaxFrames = 7
    MaxMisses = 1
    MaxClears = 1
    TrackCount = 2
    RingBlocks = 2
    ScratchBlocks = 1
    HeaderLimit = 2
    MaxTicks = 4
    MaxTakes = 2
SPECIFICATION BothSpec
INVARIANTS NoSharedSlot  
PROPERTIES ImplementsFifo StopReturns
CHECK_DEADLOCK FALSE
