\* All kinds of commands, one crash, one action of the user by hand.
SPECIFICATION Spec
CONSTANTS
  None = None
  Ops <- AllKinds
  MaxCommands = 2
  MaxWork = 2
  MaxUser = 1
  MaxCrashes = 1
INVARIANTS
  TypeOK AppliedOnce ActionObserved NoCommandLost DiskHoldsRevision
