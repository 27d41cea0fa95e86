SPECIFICATION MCSpec
CONSTANTS
  Structs <- MCStructs
  Unions <- MCUnions
  Enums <- MCEnums
  Methods <- MCMethods
  Pairs <- MCPairs
  Extensible = TRUE
  LastVersion = 1
  fe = fe
  fa = fa
  fb = fb
  Files = {fe, fa, fb}
  Missing = Missing
  Worlds <- MCWorlds
  Entry = fe
  PerFileModes = {TRUE, FALSE}
  IdlFiles <- MCIdlFiles
  IdlFeatures = {{}, {"f"}, {"f", "g"}}
  ReservedOrdinal = 4
  Pages <- MCPages
  Document = doc
  DomNodes = {n1, n2, n3}
  Kinds = {"text", "fragment", "IMG", "INPUT", "VIDEO", "P", "DIV"}
  AttrNames = {"id", "class", "value", "checked"}
  Tokens = {"t", "u"}
  EventTypes = {"click"}
  Handlers = {"h", "k"}
  NoNode = NoNode
  Sources <- MCSources
  WordChars <- MCWords
  Numbers = {"1"}
  Strings = {"'s'", "'m'", "'fmt'"}
INVARIANTS GoxxIsFaithful DomIsSound VersionsInterwork  HeaderIsSound
CHECK_DEADLOCK FALSE
