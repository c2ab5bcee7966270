SPECIFICATION ScannerSpec
CONSTANTS
  SIZE = 8
  Names <- AllNames
  Normalize <- AllNormalize
  Content <- AllContent
  NoFile = NoFile
  Failing = {}
  MaxDelivered = 20
  MaxStreams = 1
  TOKEN_MAX_LENGTH = 3
  TOKEN_STRING_MAX_LENGTH = 2
  MaxChars <- SmallMaxChars
  Width <- SmallWidth
INVARIANT NumberIsSlice
CHECK_DEADLOCK FALSE
