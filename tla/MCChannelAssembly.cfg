SPECIFICATION Spec
CONSTANTS
    Channels <- MCChannels
    Blocks <- MCBlocks
    MaxTime = 9
    NoTime = NoTime
    MaxBlocks = 5
INVARIANTS
    TypeOK
    StorageCovered
    SamplesAreFed
    AnchorIsLast
    RefusedIsWrong
    
CHECK_DEADLOCK FALSE
