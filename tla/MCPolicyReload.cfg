SPECIFICATION FairSpec
CONSTANTS
    w1 = w1
    Point = 100
    DefaultGreen = 39
    DefaultYellow = 69
    Missing = missing
    Corrupt = corrupt
    NoEvent = noevent
    Base <- BaseNames
    Workers <- OneWorker
    SecurityEvents <- SomeEvents
    Policy <- RiskPolicy
    Configs <- SomeConfigs
    AutoFiles <- SomeAutoFiles
    ManualFiles <- SomeManualFiles
    MaxEdits = 2
    MaxEvents = 1
INVARIANT TypeOK
INVARIANT DecisionFromOneConfig
INVARIANT ZoneMatchesDecision
INVARIANT ReloadTakesEffect
PROPERTY EditsReachMemory
