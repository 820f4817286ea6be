\* One debugging plan, which makes versions itself, approved by the user and by a
\* policy that keeps changing, while what it is bound to changes.
CONSTANTS
    native = native
    other = other
    Proposals = {other}
    Action <- NativeAndDebug
    MaxVersions = 1
    MaxStamp = 1
    MaxRevision = 2
    MaxCancels = 2
    MaxCrashes = 1
    MaxFaults = 1
SPECIFICATION Spec
INVARIANTS ExecutedOnce ConsentStands
PROPERTIES EffectIsBound
CHECK_DEADLOCK FALSE
