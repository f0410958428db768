SPECIFICATION FairSpec
CONSTANTS
    Defs <- MCDefs
    TrailerIndex = 2
    MaxPayload <- MCMaxPayload
    LengthMax <- MCLengthMax
    Profiles = {"none", "crc32c"}
    Stamps = {0}
    Periods = {0, 1}
    Sizes = {32, 36, 37}
    MaxCall = 4
    MaxValues = 5
INVARIANTS
    TypeOK
    AckedIsDurable
    EverySampleOnce
    Assemblable
    LengthIsHonest
PROPERTIES
    NothingBehindTorn
    CallsReturn
    ImplementsLog
CHECK_DEADLOCK FALSE
