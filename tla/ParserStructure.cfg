SPECIFICATION ParserSpec
CONSTANT Sources <- Prefixes
INVARIANT StructureKept
CHECK_DEADLOCK FALSE
