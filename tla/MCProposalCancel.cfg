\* A decision that is cancelled while the desktop works for it.
CONSTANTS
    native = native
    other = other
    Proposals = {native, other}
    Action <- NativeAndSimulation
    MaxVersions = 0
    MaxStamp = 0
    MaxRevision = 0
    MaxCancels = 1
    MaxCrashes = 0
    MaxFaults = 0
SPECIFICATION FairSpec
PROPERTIES CancelledDecisionEnds
CHECK_DEADLOCK FALSE
