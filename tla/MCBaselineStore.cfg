SPECIFICATION Spec
CONSTANTS
    Lineages = {l1}
    Threshold = 2
    MaxSnapshots = 3
    Missing = missing
    Corrupt = corrupt
    MaxNow = 3
    MaxEvents = 1
    MaxCrashes = 1
    MaxStops = 1
    MaxFaults = 2
INVARIANT TypeOK
INVARIANT EachFaultCostsOneSnapshot
INVARIANT NewestSurvivesPruning
PROPERTY StableIsEarned
