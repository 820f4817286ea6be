\* One permission, three requests of which two may be read, deadlines of two and
\* three ticks.  The bounds on time and restarts end every behaviour.
SPECIFICATION Spec
CONSTANTS
  None = None
  Sessions = {s1}
  Requests = {q1, q2, q3}
  PendingTtl = 2
  Ttl = 3
  ReadLimit = 2
  MaxClock = 7
  MaxFaults = 2
  MaxBoots = 2
  MaxVersion = 1
SYMMETRY RequestSymmetry
INVARIANTS
  TypeOK ContactedOnce ContactPermitted ValuesInTime ReadsBounded
PROPERTY RevokedStays
CHECK_DEADLOCK FALSE
