\* A target that prints two payloads, of which the first does not decode.
SPECIFICATION Spec
CONSTANTS
  Workspace = {w1}
  Oversized = {}
  Pid = {p1}
  ExitArg <- ExitArgs
  CrashExitCode = 1
  NoCode = NoCode
  AsanEnabled = TRUE
  Setting <- OnlyAlone
  MaxEvals = 1
  MaxOutput = 2
  Nobody = Nobody
INVARIANTS
  EveryPayloadCaptured
