\* The pid Drop signals after a run that returned.
SPECIFICATION Spec
CONSTANTS
  Pid = {p1, p2}
  NoPid = NoPid
  KillSignal = {"SIGKILL"}
  Persistent = TRUE
  MaxRuns = 2
PROPERTIES DropSignalsOwnProcesses
