SPECIFICATION Spec
CONSTANTS
  Words <- Near
  Numerals = {}
  PathNames = {}
  Arguments = {}
  Traces = {}
  Width <- SmallWidth
  LINE_LENGTH = 5
  OS_PATH_SEPARATOR = 47
  OS_MAX_PATH_LENGTH = 6
INVARIANT OnlyExactSpellings
