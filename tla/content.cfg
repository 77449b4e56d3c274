SPECIFICATION Spec
CONSTANTS
  MaxLength = 20
  Room = 3
  Reserve = 2
  Link <- MCLink
  Notice <- MCNotice
  Languages <- MCLanguages
  Preferences <- MCPreferences
  MaxCaptions = 3
  MaxTitle = 3
  MaxText = 7
INVARIANTS
  BlockInItsPlace
  LanguageOrder
  ExactBeforeVariant
  WithinLength
  CompleteUnlessNoRoom
  LongestStartKept
CHECK_DEADLOCK FALSE
