SPECIFICATION MCSpec
CONSTANTS
  Base = 4
  CageSize = 28
  Containers = {v1, v2, v3}
  BufferSizes = {5, 9}
  PageSize = 8
  OsPages = {40, 48}
  Objects = {o1, o2, o3, o4, o5}
  Sizes <- MCSizes
  StrongHandles = {p, q}
  WeakHandles = {w}
  SlabSize = 1
  InitialLimit = 2
  None = None
  Programs <- MCPrograms
  Addresses = {1}
  JsContexts = {1}
  Files <- MCFiles
  Tries <- MCTries
  OctetLimit = 4
  Inputs <- MCInputs
  StringTokens = {"'A'", "'B'"}
  NumberTokens = {"1"}
  Components <- MCComponents
  Camel <- MCCamel
  InitNames = {"init", "initWithItem", "initWithCoder"}
  WKNames = {"WKView", "WKItem", "WKBase", "WKOwner"}
  AppleNames = {"NSColor", "NSView", "NSCoder"}
INVARIANTS PagesAreExact LifetimesAreExact CageIsPartitioned BindingsAreSafe CallsAreFaithful InputsAreFaithful
PROPERTIES CollectsExactlyGarbage
CHECK_DEADLOCK FALSE
