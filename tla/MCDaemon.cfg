CONSTANTS
    home = home
    lab = lab
    f = f
    g = g
    c1 = c1
    c2 = c2
    Profiles <- Both
    Settings <- AllSettings
    Configs <- Four
    Remote <- OnlySecond
    Rejected <- OnlyBad
    Boot <- First
    Selected <- OneSelected
    NewForward = g
    NewForwardDef = 1
    Tasks <- FourTasks
    BootTask <- ByName
    Clients <- TwoClients
    NoTask = NoTask
    NoActor = NoActor
    MaxAsks = 2
SPECIFICATION FairSpec
INVARIANTS
    TypeOK
    RunsWhatWasApplied
    MapIsExact
    NothingIsResurrected
    OneServesPerProfile
PROPERTIES
    ShutdownCompletes
    Settles
