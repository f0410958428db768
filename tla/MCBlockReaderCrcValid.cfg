SPECIFICATION Spec
CONSTANTS
    ChannelInfo <- MCChannelInfo
    TrailerIndex = 9
    SignatureIndex = 8
    MagicTrailerLen = 2
    IoErrors = FALSE
    Frames <- MCFrames
    Profiles = {"crc32c"}
    MaxFrames = 2
INVARIANTS
    CrcValidIsVerified
CHECK_DEADLOCK FALSE
