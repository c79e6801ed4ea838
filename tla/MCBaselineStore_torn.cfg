SPECIFICATION Spec
CONSTANTS
    Lineages = {l1}
    Threshold = 2
    MaxSnapshots = 2
    Missing = missing
    Corrupt = corrupt
    MaxNow = 2
    MaxEvents = 2
    MaxCrashes = 0
    MaxStops = 0
    MaxFaults = 0
INVARIANT SnapshotIsOneState
