SPECIFICATION FairPublishSpec
CONSTANTS
    Uses = {"copy", "upload", "apk"}
    Chunks = 3
    MaxPublishes = 2
    MaxTrouble = 1
    MaxOthers = 1
INVARIANTS
    SuccessIsWhole
    NoFalseEnd
    ReviewedIsPrechecked
    RetryCompletes
PROPERTY PublishEnds
CHECK_DEADLOCK FALSE
