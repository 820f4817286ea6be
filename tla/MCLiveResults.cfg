\* Plans of three commands: edits between compiles, queries and saves, one crash.
SPECIFICATION Spec
CONSTANTS
  None = None
  Ops <- NoReopen
  MaxCommands = 3
  MaxWork = 2
  MaxUser = 0
  MaxCrashes = 1
INVARIANTS
  RevisionNamesSource ResultsAreCurrent SavedOnce DeliveryIsSaved
PROPERTY SaveNotLost
