SPECIFICATION FairSpec
CONSTANTS
    Producers = {p1, p2}
    Closers = {c1, c2}
    Workers = {w1, w2}
    Events = {e1, e2}
    NilEvent = nil
    NoOne = noone
    Capacity = 2
    DefaultCapacity = 1
    MaxPushes = 3
INVARIANT TypeOK
INVARIANT NoPanic
INVARIANT AcceptedIsTakenThenQueued
INVARIANT ClosedOnReturn
INVARIANT WorkerLeavesEmptyBuffer
PROPERTY CloseReturns
PROPERTY DrainAfterClose
PROPERTY RefinesQueue
