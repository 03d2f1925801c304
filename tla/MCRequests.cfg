CONSTANTS
    MaxFaults = 1
    MaxAsks = 3
    e1 = e1
    e2 = e2
    f1 = f1
    f2 = f2
    c1 = c1
    c2 = c2
    NoPin = NoPin
    UnknownPin = UnknownPin
    NoEndpoint = NoEndpoint
    NoClient = NoClient
    MalformedKey = MalformedKey
    U32Max = 2
    InitialDelay = 1
    MaxDelay = 1
    JitterPct = 100
    MaxAttempts = 0
    DetectorEnabled = FALSE
    Window = 0
    MaxDisconnects = 0
    ClearAfter = 0
    MaxMisses = 0
    LatencyCeiling = FALSE
    LatencyWindow = 1
    Endpoints <- OneEndpoint
    Position <- ListOrder
    Priority <- ListOrder
    FailoverMode = "Priority"
    FailAfter = 1
    CooldownUnit = 1
    Forwards <- NoForward
    ForwardIndex <- ForwardOrder
    Required <- NoForward
    ResetAfter = 1
    RetryAuthFailures = FALSE
    InstabilityAction = "MarkDegraded"
    ActionMinInterval = 0
    Clients <- TwoClients
    Requests <- EveryRequest
    QueueCap = 2
    HandleDropped = FALSE
SPECIFICATION RequestSpec
PROPERTIES
    RequestsAreAnswered
    StopReturns
