SPECIFICATION ProgramSpec
CONSTANTS
  ArgumentLists <- SmallLists
  TokenStreams <- Streams
  TULA_ARRAY_MIN_THRESHOLD = 2
  TULA_ARRAY_GROW_FACTOR = 2
INVARIANTS
  ProgramTypeOK
  NoBadFree
  ElementsKept
  StatusTellsReason
  ConfigFromArguments
  NothingKept
PROPERTIES
  ImplementsLifecycle
  Ends
CHECK_DEADLOCK FALSE
