SPECIFICATION MCSpec
CONSTANTS
  Texts <- MCTexts
  Words <- MCWords
  Numbers = {0, 1}
  FlagSets = {{}, {"SAVE"}}
  Names = {"a", "b"}
  Kept = {"a", "b"}
  Contents <- MCContents
  MaxLen = 1
  MaxText = 8
  MaxPipes = 1
  NoValue = NoValue
  Digits = {"1", "2"}
  Size = 5
  MaxItems = 3
CHECK_DEADLOCK FALSE
INVARIANTS InputInv ElementAsWritten FlagsFromFile UndefinedOnlyByGap OptionsAsGiven
           CleanInFile WildIffTooLong
PROPERTIES FileIsStore ScanAdvances RestoreEndsWhole TextRoundTrip
