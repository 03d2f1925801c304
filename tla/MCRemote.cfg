CONSTANTS
    b1 = b1
    b2 = b2
    b3 = b3
    Bodies <- ThreeBodies
    Tagged <- TwoTagged
    None = None
    AllowCached = TRUE
    MaxChanges = 5
SPECIFICATION FairSpec
INVARIANTS
    TypeOK
    OnlyPinnedRuns
    PinnedBodyIsCached
PROPERTIES
    UntaggedIsApplied
