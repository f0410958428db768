SPECIFICATION RecordingSpec
CONSTANTS
    Defs <- MCDefs
    Metablock <- MCMetablock
    TrailerIndex = 9
    SignatureIndex = 8
    MaxPayload <- MCMaxPayload
    LengthMax <- MCLengthMax
    Profiles = {"none", "crc32c"}
    Stamps = {3}
    Periods = {2}
    Sizes = {1}
    MaxCall = 3
    MaxValues = 4
    MaxTime = 99
    NoTime = NoTime
    Rot = TRUE
    Headers <- MCHeaders
    MaxMisread = 1
INVARIANTS
    AckedIsLoaded
    LoadedIsTold
    OnlyHiddenIsLost
    OnlyDamageFails
CHECK_DEADLOCK FALSE
