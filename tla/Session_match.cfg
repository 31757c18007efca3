SPECIFICATION Spec
CONSTANTS
  Doc = main
  Skeleton = {project}
  Outside = library
  None = None
  MaxMessages = 2
  MaxOutput = 3
INVARIANTS OwnAnswer AnswersKept UrisTranslated
PROPERTY SpeaksLsp
