CONSTANTS
    r = r
    l = l
    r1 = r1
    r2 = r2
    r3 = r3
    l1 = l1
    NoOne = NoOne
    Remote <- OneRemote
    Local <- NoForward
    Dynamic <- NoForward
    Ephemeral <- NoForward
    Conns <- ThreeRemote
    Of <- Owner
    Talks <- First
    QueueCap = 1
    MaxConnections = 1
    Idle = 1
SPECIFICATION FairSpec
CHECK_DEADLOCK FALSE
PROPERTY ChannelsAreServed
