\* A timer driven through a relay the trace does not declare.
SPECIFICATION Spec
CONSTANTS
  Bits = {"X0", "M0", "Y0"}
  Inputs = {"X0"}
  Words = {"D0"}
  Timers = {"T0"}
  Counters = {"C0"}
  Nothing = "-"
  Programs <- HeldTimer
  Unit = 1
  MaxTick = 2
  MaxScans = 4
  MaxWord = 1
INVARIANT UnknownStaysUnknown
CHECK_DEADLOCK FALSE
