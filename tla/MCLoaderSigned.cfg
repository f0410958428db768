SPECIFICATION Spec
CONSTANTS
    Metablock <- MCMetablock
    TrailerIndex = 9
    SignatureIndex = 8
    MagicTrailerLen = 2
    IoErrors = FALSE
    MaxTime = 99
    NoTime = NoTime
    Contents <- MCContents
    Profiles = {"none", "crc32c", "ed25519"}
    MaxFrames = 2
INVARIANTS
    SignedIsReadable
CHECK_DEADLOCK FALSE
