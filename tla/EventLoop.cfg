SPECIFICATION LoopSpec
CONSTANTS
    MaxSubs = 2
    ChanCap = 1
    MaxBackoff = 1
    MaxDialFails = 1
    MaxWrites = 1
    MaxNoise = 1
    MaxTriggers = 1
    Intervals = {15, 60}
INVARIANT LoopSound
PROPERTY LoopRecovers
CHECK_DEADLOCK FALSE
