\* Eleven programs over three bits, a register, a timer and a counter.
SPECIFICATION Spec
CONSTANTS
  Bits = {"X0", "M0", "Y0"}
  Inputs = {"X0"}
  Words = {"D0"}
  Timers = {"T0"}
  Counters = {"C0"}
  Nothing = "-"
  Programs <- AllPrograms
  Unit = 1
  MaxTick = 2
  MaxScans = 4
  MaxWord = 1
INVARIANTS TypeOK KnownIsActual ExactIsDecided
CHECK_DEADLOCK FALSE
