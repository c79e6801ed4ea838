SPECIFICATION FairSpec
CONSTANTS
    Workers = {w1, w2}
    Slots = 2
    Launches <- MCLaunches
    NotLoading = notloading
    Events <- MCEvents
    Traffic <- MCTraffic
    Hour = 1
    Levels <- MCLevels
    NoFile = nofile
    NoEvent = noevent
INVARIANT TypeOK
INVARIANT ContainedAfterAlert
INVARIANT WorkUnderLiveContext
INVARIANT NoRedEventForgotten
INVARIANT FinalFilesComplete
INVARIANT WhitelistMeansLearnt
PROPERTY SignalTerminates
PROPERTY AcceptedIsHandled
