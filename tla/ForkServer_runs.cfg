\* A persistent target, three runs, three pids, either kill signal: a target may
\* ignore SIGTERM, and then run_child may wait for ever.
SPECIFICATION FairSpec
CONSTANTS
  Pid = {p1, p2, p3}
  NoPid = NoPid
  KillSignal = {"SIGKILL", "SIGTERM"}
  Persistent = TRUE
  MaxRuns = 3
INVARIANTS Lockstep QuietBetweenRuns ReplyGenuine NoOrphan
PROPERTIES ImplementsService RunReturns
CHECK_DEADLOCK FALSE
