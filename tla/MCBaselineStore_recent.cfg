SPECIFICATION Spec
CONSTANTS
    Lineages = {l1}
    Threshold = 2
    MaxSnapshots = 2
    Missing = missing
    Corrupt = corrupt
    MaxNow = 2
    MaxEvents = 1
    MaxCrashes = 1
    MaxStops = 0
    MaxFaults = 0
INVARIANT RestoresMostRecent
