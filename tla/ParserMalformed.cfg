SPECIFICATION ParserSpec
CONSTANT Sources <- Broken
INVARIANT MalformedReported
CHECK_DEADLOCK FALSE
