SPECIFICATION FairSpec
CONSTANTS
    Workers = {w1, w2}
    Slots = 1
    Sinks = {stdout, webhook}
    Stdout = stdout
    Alerting <- MCAlerting
    Messages <- MCMessages
    NoMessage = nomessage
    NoProcess = noprocess
    NilEvent = nil
    ReconnectInterval = 2
    MaxReconnectBackoff = 5
    DefaultInterval = 1
    DefaultMaxBackoff = 10
    MaxFailures = 3
    MaxMessages = 3
INVARIANT TypeOK
INVARIANT ReceivedOnceInOrder
INVARIANT WaitFollowsFailures
INVARIANT SentOnceToEverySink
PROPERTY AlertsReachSinks
PROPERTY Reconnects
PROPERTY StopsWhenCancelled
