SPECIFICATION FairSpec
CONSTANTS
    Streams <- MCStreams
    FirstReads = {2, 8192}
    MaxHeaderLen = 128
    MaxIndex = 65535
    MaxAlloc = 50
    Bodies <- MCBodies
    Drafts <- MCDrafts
    Tags <- MCTags
    MaxEvents = 8
    MaxStray = 1
INVARIANTS
    HeadTypeOK
    HeaderIsHonoured
    Symmetric
    WrittenIsRead
PROPERTIES
    HeadEnds
CHECK_DEADLOCK FALSE
