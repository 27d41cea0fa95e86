SPECIFICATION JsSpec
CONSTANTS
  Programs <- MCSharedNamespace
  Addresses = {1}
  JsContexts = {1}
INVARIANT UnwrapIsSubtyping
CHECK_DEADLOCK FALSE
