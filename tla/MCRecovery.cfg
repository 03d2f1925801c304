CONSTANTS
    MaxFaults = 2
    MaxAsks = 1
    e1 = e1
    e2 = e2
    f1 = f1
    f2 = f2
    c1 = c1
    c2 = c2
    NoPin = NoPin
    UnknownPin = UnknownPin
    NoEndpoint = NoEndpoint
    NoClient = NoClient
    MalformedKey = MalformedKey
    U32Max = 3
    InitialDelay = 1
    MaxDelay = 1
    JitterPct = 100
    MaxAttempts = 0
    DetectorEnabled = TRUE
    Window = 1
    MaxDisconnects = 1
    ClearAfter = 1
    MaxMisses = 2
    LatencyCeiling = TRUE
    LatencyWindow = 1
    Endpoints <- TwoEndpoints
    Position <- ListOrder
    Priority <- OnePriority
    FailoverMode = "Weighted"
    FailAfter = 1
    CooldownUnit = 1
    Forwards <- TwoForwards
    ForwardIndex <- ForwardOrder
    Required <- FirstRequired
    ResetAfter = 1
    RetryAuthFailures = FALSE
    InstabilityAction = "MarkDegraded"
    ActionMinInterval = 0
    Clients <- OneClient
    Requests <- ValidRequests
    QueueCap = 1
    HandleDropped = FALSE
SPECIFICATION RecoverySpec
PROPERTIES
    Recovers
