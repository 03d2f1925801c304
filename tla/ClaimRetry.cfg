CONSTANTS
    b1 = b1
    b2 = b2
    b3 = b3
    Bodies <- OneBody
    Tagged <- OneBody
    None = None
    AllowCached = TRUE
    MaxChanges = 1
SPECIFICATION FairSpec
PROPERTIES
    FailedApplyIsRetried
