CONSTANTS
  SIZE = 3
  Names <- TwoNames
  Normalize <- TwoNormalize
  Content <- TwoContent
  NoFile = NoFile
  Failing = {}
  MaxDelivered = 6
  MaxStreams = 1
SPECIFICATION Spec
INVARIANTS StreamEndsWithFile
