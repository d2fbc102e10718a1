SPECIFICATION MCSpec
CONSTANTS
  Texts <- MCTexts
  Words <- MCWords
  Numbers = {0}
  FlagSets = {{}}
  Names = {"a", "b"}
  Kept = {"a"}
  Contents <- MCContents
  MaxLen = 1
  MaxText = 8
  MaxPipes = 1
  NoValue = NoValue
  Digits = {"1"}
  Size = 3
  MaxItems = 2
CHECK_DEADLOCK FALSE
PROPERTY RestoreEnds
