SPECIFICATION Spec
CONSTANTS
  Spelling <- MCSpelling
  Source <- Grammars
  HiddenNames <- MCHidden
  Alphabet <- MCAlphabet
  NoName = "no name"
  MaxTokens = 3
  MaxText = 4
  EntryOrder <- MCEntries
  Limit = 2
INVARIANTS LanguageKept TokensLexed GeneratedInLanguage
PROPERTIES AliasesKept
CHECK_DEADLOCK FALSE
