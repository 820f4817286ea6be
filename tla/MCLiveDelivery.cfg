\* Two stage saves and four versions: enough for a save committed twice on
\* sibling versions, and for one left behind by a later one.
CONSTANTS
  MaxSaves = 2
  MaxVersions = 4
  MaxFaults = 1
  MaxCrashes = 2
SPECIFICATION Spec
INVARIANTS TypeOK CommittedOnce SaveNotLost
