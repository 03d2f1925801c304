CONSTANTS
    pager = pager
    mail = mail
    nobody = nobody
    Sinks <- TwoSinks
    SinkRefs <- Refs
    Healing <- OneSink
    Hanging <- NoSink
    Keys <- OneKey
    NoKey = NoKey
    Bindings <- TwoBindings
    MaxEvent = 2
    Poison = Poison
    Capacity = 1
    MaxFiles = 2
    MaxFaults = 1
SPECIFICATION FairSpec
CHECK_DEADLOCK FALSE
PROPERTY BacklogIsRedelivered
