SPECIFICATION Spec
CONSTANTS
  Words <- OtherWords
  Numerals <- NumeralSet
  PathNames <- PathNameSet
  Arguments <- ArgumentSet
  Traces <- TraceSet
  Width <- SmallWidth
  LINE_LENGTH = 5
  OS_PATH_SEPARATOR = 47
  OS_MAX_PATH_LENGTH = 6
INVARIANTS
  OnlyExactSpellings
  EverySpelling
  ConversionExact
  PathsAgree
  OptionsRecognised
  TraceFits
