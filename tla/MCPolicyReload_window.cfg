SPECIFICATION Spec
CONSTANTS
    w1 = w1
    Point = 100
    DefaultGreen = 39
    DefaultYellow = 69
    Missing = missing
    Corrupt = corrupt
    NoEvent = noevent
    Base <- BaseNames
    Workers <- OneWorker
    SecurityEvents <- SomeEvents
    Policy <- RiskPolicy
    Configs <- FewConfigs
    AutoFiles <- FewAutoFiles
    ManualFiles <- FewManualFiles
    MaxEdits = 0
    MaxEvents = 1
INVARIANT ManualOverridesHold
