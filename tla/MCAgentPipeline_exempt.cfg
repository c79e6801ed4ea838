SPECIFICATION Spec
CONSTANTS
    Workers = {w1, w2}
    Slots = 2
    Launches <- MisspeltLaunches
    NotLoading = notloading
    Events <- MCEvents
    Traffic <- MisspeltTraffic
    Hour = 1
    Levels <- MCLevels
    NoFile = nofile
    NoEvent = noevent
INVARIANT ExemptIsLeftAlone
