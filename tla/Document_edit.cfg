\* Texts of up to three bytes, one more than the limit; two edits; as many
\* changes of the messages as fill the sequence and replace one.
SPECIFICATION Spec
CONSTANTS
  MaxDocumentSize = 2
  MaxMessages = 2
  MaxSeed = 3
  MaxFragment = 2
  MaxLine = 1
  MaxChar = 1
  MaxEdits = 2
  MaxChanges = 3
INVARIANTS TreeFresh
PROPERTIES SizeBounded OrderKept PositionsFollow
