CONSTANTS
    b1 = b1
    b2 = b2
    b3 = b3
    Bodies <- TwoTagged
    Tagged <- TwoTagged
    None = None
    AllowCached = TRUE
    MaxChanges = 4
SPECIFICATION FairSpec
PROPERTIES
    NotModifiedIsCurrent
