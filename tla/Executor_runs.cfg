\* A machine of one's own, and one shared with another fuzzer and with what a
\* campaign that died left there.
SPECIFICATION FairSpec
CONSTANTS
  Workspace = {w1, huge}
  Oversized = {huge}
  Pid = {p1, p2}
  ExitArg <- ExitArgs
  CrashExitCode = 1
  NoCode = NoCode
  AsanEnabled = TRUE
  Setting <- AloneOrShared
  MaxEvals = 2
  MaxOutput = 2
  Nobody = Nobody
INVARIANTS
  Isolation
  Genuine
  Blameless
  NoLeftovers
PROPERTIES
  EvaluationEnds
