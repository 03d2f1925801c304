CONSTANTS
    e1 = e1
    e2 = e2
    f1 = f1
    f2 = f2
    c1 = c1
    c2 = c2
    NoPin = NoPin
    UnknownPin = UnknownPin
    NoEndpoint = NoEndpoint
    NoClient = NoClient
    MalformedKey = MalformedKey
    U32Max = 2
    InitialDelay = 1
    MaxDelay = 1
    JitterPct = 100
    MaxAttempts = 0
    DetectorEnabled = TRUE
    Window = 1
    MaxDisconnects = 1
    ClearAfter = 1
    MaxMisses = 2
    LatencyCeiling = TRUE
    LatencyWindow = 1
    Endpoints <- OneEndpoint
    Position <- ListOrder
    Priority <- ListOrder
    FailoverMode = "Priority"
    FailAfter = 1
    CooldownUnit = 1
    Forwards <- TwoForwards
    ForwardIndex <- ForwardOrder
    Required <- FirstRequired
    ResetAfter = 1
    RetryAuthFailures = FALSE
    InstabilityAction = "RestartSession"
    ActionMinInterval = 1
    Clients <- OneClient
    Requests <- EveryRequest
    QueueCap = 1
    HandleDropped = TRUE
SPECIFICATION Spec
INVARIANTS
    WatchTellsTheTruth
    TaskInv
    DegradedIsBeingRepaired
