SPECIFICATION Spec
CONSTANTS
  Documents <- MCDocuments
  Groups <- MCGroups
  HasTokens = TRUE
  Reported <- MCReported
  None = None
  keyword = keyword
  MaxCorpus = 2
INVARIANTS
  TargetsInDocument
  FeedbackReported
  AblationKept
  InfoOfOwnRun
