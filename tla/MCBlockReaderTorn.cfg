SPECIFICATION Spec
CONSTANTS
    ChannelInfo <- MCChannelInfo
    TrailerIndex = 9
    SignatureIndex = 8
    MagicTrailerLen = 2
    IoErrors = FALSE
    Frames <- MCFrames
    Profiles = {"none"}
    MaxFrames = 2
INVARIANTS
    TruncationIsNoError
CHECK_DEADLOCK FALSE
