SPECIFICATION WireSpec
CONSTANTS
  Structs <- MCSkipStructs
  Unions <- MCNone
  Enums <- MCNone
  Methods <- MCSkipMethods
  Pairs <- MCPairs
  Extensible = TRUE
  LastVersion = 1
INVARIANT VersionsInterwork
CHECK_DEADLOCK FALSE
