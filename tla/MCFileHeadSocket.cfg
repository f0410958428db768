SPECIFICATION FairSpec
CONSTANTS
    Streams <- MCStreams
    FirstReads = {1, 8192}
    MaxHeaderLen = 128
    MaxIndex = 65535
    MaxAlloc = 50
    Bodies <- MCBodies
    Drafts <- MCDrafts
    Tags <- MCTags
    MaxEvents = 2
    MaxStray = 0
INVARIANTS
    CompressedIsDetected
CHECK_DEADLOCK FALSE
