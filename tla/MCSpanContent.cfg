\* Texts of two bytes, headers of seven characters, values of three cells, 4-bit ids.
CONSTANTS
  MaxText = 2
  MaxHeader = 7
  MaxCells = 3
  MaxElements = 2
  MaxString = 4
  MaxArg = 3
  ShortText <- EscapedTexts
  Parent <- SomeParents
  IniValue <- IniNames
  EnvValue <- EnvNames
  Width = 4
  ShiftHi = 1
  ShiftLo = 2
  Multiplier = 13
SPECIFICATION Spec
\* One input is taken in a behaviour.
CHECK_DEADLOCK FALSE
INVARIANTS
  TypeOK
  BackendsShowSpan
  OutcomeIsShown
  HeaderIsParsed
  CutOnce
  RecursionIsBounded
  IdsDiffer
