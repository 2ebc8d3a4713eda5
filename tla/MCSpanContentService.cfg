\* What a backend shows of a service name given twice; the bounds of MCSpanContent.cfg.
CONSTANTS
  MaxText = 2
  MaxHeader = 7
  MaxCells = 3
  MaxElements = 2
  MaxString = 4
  MaxArg = 3
  ShortText <- EscapedTexts
  Parent <- SomeParents
  IniValue <- IniNames
  EnvValue <- EnvNames
  Width = 4
  ShiftHi = 1
  ShiftLo = 2
  Multiplier = 13
SPECIFICATION Spec
\* One input is taken in a behaviour.
CHECK_DEADLOCK FALSE
INVARIANTS
  EnvironmentComesFirst
