SPECIFICATION Spec
CONSTANTS
  Workspace = {w1, w2}
  Oversized = {}
  Pid = {p1, p2}
  ExitArg <- ExitArgs
  CrashExitCode <- MinusOne
  NoCode = NoCode
  AsanEnabled = TRUE
  Setting <- OnlyAlone
  MaxEvals = 2
  MaxOutput = 1
  Nobody = Nobody
SYMMETRY Symmetry
INVARIANTS
  CrashExitCodeCounts
