CONSTANTS
    e1 = e1
    e2 = e2
    f1 = f1
    f2 = f2
    c1 = c1
    c2 = c2
    NoPin = NoPin
    UnknownPin = UnknownPin
    NoEndpoint = NoEndpoint
    NoClient = NoClient
    MalformedKey = MalformedKey
    U32Max = 2
    InitialDelay = 1
    MaxDelay = 1
    JitterPct = 100
    MaxAttempts = 2
    DetectorEnabled = TRUE
    Window = 1
    MaxDisconnects = 1
    ClearAfter = 2
    MaxMisses = 2
    LatencyCeiling = TRUE
    LatencyWindow = 2
    Endpoints <- OneEndpoint
    Position <- ListOrder
    Priority <- ListOrder
    FailoverMode = "Priority"
    FailAfter = 1
    CooldownUnit = 1
    Forwards <- NoForward
    ForwardIndex <- ForwardOrder
    Required <- NoForward
    ResetAfter = 0
    RetryAuthFailures = FALSE
    InstabilityAction = "Failover"
    ActionMinInterval = 3
    Clients <- OneClient
    Requests <- ValidRequests
    QueueCap = 1
    HandleDropped = FALSE
SPECIFICATION HistorySpec
PROPERTIES
    ClearsOnlyAfterCalm
    RemediesAreSpaced
