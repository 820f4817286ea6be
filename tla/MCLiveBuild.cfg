\* Two compiles of one source, one crash: is the reported build the last one?
SPECIFICATION Spec
CONSTANTS
  None = None
  Ops <- CompileOnly
  MaxCommands = 2
  MaxWork = 1
  MaxUser = 0
  MaxCrashes = 1
INVARIANT LastBuildReported
