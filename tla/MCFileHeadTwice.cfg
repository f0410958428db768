SPECIFICATION FairSpec
CONSTANTS
    Streams <- MCStreams
    FirstReads = {2, 8192}
    MaxHeaderLen = 128
    MaxIndex = 65535
    MaxAlloc = 50
    Bodies <- MCBodies
    Drafts <- MCDrafts
    Tags <- MCTags
    MaxEvents = 2
    MaxStray = 0
INVARIANTS
    LevelIsDeclaredOnce
CHECK_DEADLOCK FALSE
