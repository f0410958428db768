SPECIFICATION FairRoundTrip
CONSTANTS
    ChannelDefs <- MCChannelDefs
    Starts = {3}
    Periods = {0, 2}
    Times = {4}
    Sizes = {1, 33}
    Profiles = {"none", "crc32c", "ed25519"}
    MaxPayload <- MCMaxPayload
    MaxIndex = 9
    MaxCall = 3
    MaxValues = 3
    MaxChannels = 2
    Source <- MCSource
    SourceBlocks <- MCSourceBlocks
    MaxBlocks = 3
    SizeOf <- MCSizeOf
    MaxTime = 12
    NoTime = NoTime
INVARIANTS
    TypeOK
    Framed
    OnlyIoFails
    AddedIsLoaded
    LeftoverLoads
    CopyIsFaithful
    RefusedCopies
    NamesAgree
PROPERTIES
    WriteReturns
CHECK_DEADLOCK FALSE
