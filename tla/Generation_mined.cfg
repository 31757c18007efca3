\* Two files of up to two bytes each, parsed in either order; one rule in two is recursive.
SPECIFICATION GSpec
CONSTANTS
  Source <- Sources
  FileCount = 2
  Rules <- MCRules
  StartSymbol = "root"
  NodeKinds <- Kinds
  RecursionLimit = 2
  Quarter = 2
  MaxSteered = 3
INVARIANTS MinedFaithfully GeneratedFaithfully NoFavourite
