SPECIFICATION ScannerSpec
CONSTANTS
  SIZE = 5
  Names <- AllNames
  Normalize <- AllNormalize
  Content <- AllContent
  NoFile = NoFile
  Failing <- FailingNames
  MaxDelivered = 20
  MaxStreams = 1
  TOKEN_MAX_LENGTH = 3
  TOKEN_STRING_MAX_LENGTH = 2
  MaxChars <- SmallMaxChars
  Width <- SmallWidth
INVARIANTS
  ScannerTypeOK
  BuffersHold
  TokensTile
  TokenPositions
  LexemeIsSlice
  TypeFromShape
  MaximalMunch
  LiteralDenotes
  EndTokenAtEnd
PROPERTY ScanEnds
CHECK_DEADLOCK FALSE
