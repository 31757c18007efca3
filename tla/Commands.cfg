\* fuzz: a sanitized target, two report hashes, one seed, two cycles.
\* reproduce_all: two solutions of four messages; each pipe holds one, so that a
\* target stuck on its answers blocks the tool.
SPECIFICATION CommandsSpec
CONSTANTS
  AsanEnabled = TRUE
  Report = {r1, r2}
  NoReport = NoReport
  Payload <- Dictionaries
  Seeds = 1
  Budget = 1
  MaxTime = 2
  MaxCycles = 2
  MaxExecs = 1
  Invalid = 3
  Inputs = 2
  Messages = 4
  Fates <- AllFates
  OutCap = 1
  InCap = 1
INVARIANTS EndsForAReason SolutionsDistinct TokensFramed Blame
PROPERTIES StopHonoured ReplayEnds
