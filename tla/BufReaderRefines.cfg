CONSTANTS
  SIZE = 3
  Names <- MCNames
  Normalize <- MCNormalize
  Content <- MCContent
  NoFile = NoFile
  Failing = {}
  MaxDelivered = 6
  MaxStreams = 1
SPECIFICATION ReadingSpec
PROPERTIES ImplementsStream DrainEnds
