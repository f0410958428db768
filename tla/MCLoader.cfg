SPECIFICATION FairSpec
CONSTANTS
    Metablock <- MCMetablock
    TrailerIndex = 9
    SignatureIndex = 8
    MagicTrailerLen = 2
    IoErrors = TRUE
    MaxTime = 99
    NoTime = NoTime
    Contents <- MCContents
    Profiles = {"none", "crc32c"}
    MaxFrames = 3
INVARIANTS
    LoadedIsUsable
PROPERTIES
    Returns
CHECK_DEADLOCK FALSE
