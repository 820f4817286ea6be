\* A native plan and a local candidate that wait for one lock, one pool and one
\* desktop, and become versions under each other; one request to cancel.
CONSTANTS
    native = native
    other = other
    Proposals = {native, other}
    Action <- NativeAndLocal
    MaxVersions = 1
    MaxStamp = 0
    MaxRevision = 0
    MaxCancels = 1
    MaxCrashes = 1
    MaxFaults = 1
SPECIFICATION FairSpec
INVARIANTS TypeOK EffectIsAnswered ExecutingIsOwned
PROPERTIES DecisionEnds VerdictIsFinal
CHECK_DEADLOCK FALSE
