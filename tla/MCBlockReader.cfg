SPECIFICATION FairSpec
CONSTANTS
    ChannelInfo <- MCChannelInfo
    TrailerIndex = 9
    SignatureIndex = 8
    MagicTrailerLen = 2
    IoErrors = TRUE
    Frames <- MCFrames
    Profiles = {"none", "crc32c", "ed25519"}
    MaxFrames = 2
INVARIANTS
    TypeOK
    InStep
    Accounting
    ExactlyUsable
    BestEffort
PROPERTIES
    Finishes
CHECK_DEADLOCK FALSE
