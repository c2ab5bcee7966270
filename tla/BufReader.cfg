CONSTANTS
  SIZE = 2
  Names <- TwoNames
  Normalize <- TwoNormalize
  Content <- TwoContent
  NoFile = NoFile
  Failing <- TwoNames
  MaxDelivered = 4
  MaxStreams = 2
SPECIFICATION Spec
INVARIANTS TypeOK Faithful EndIsReal IInv PositionTracked NoStreamLeak
PROPERTIES LookaheadKept EOFIsFinal
