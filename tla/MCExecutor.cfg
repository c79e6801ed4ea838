SPECIFICATION FairSpec
CONSTANTS
    Workers = {w1, w2}
    Resetters = {r1}
    Pods = {a, b}
    NoPod = nopod
    Steps = 2
    MaxCalls = 3
    MaxChanges = 2
    MaxResets = 1
INVARIANT TypeOK
INVARIANT OneCallPerPod
INVARIANT CachedPodWasPatched
INVARIANT NoSilentFailure
PROPERTY RefinesClaim
