SPECIFICATION ParserSpec
CONSTANT Sources <- AllSources
INVARIANTS ParserTypeOK ValidIsParsed ParsedIsValid ErrorsFlagged NodesAlive NothingLeft
CHECK_DEADLOCK FALSE
