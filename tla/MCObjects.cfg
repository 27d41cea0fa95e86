SPECIFICATION MCSpec
CONSTANTS
  Unlimited = 1000
  t1 = t1
  t2 = t2
  Threads = {t1, t2}
  Callbacks <- MCCallbacks
  Quota = 1
  MaxMessages = 2
  MaxContexts = 2
  MaxWrites = 1
  p1 = p1
  p2 = p2
  Primitives = {p1, p2}
  Size = 2
  ZeroLength = FALSE
  NullArray = FALSE
  UnwrapTwice = FALSE
  MaxHandles = 3
  MaxBuffers = 2
  MaxMaps = 2
  n1 = n1
  n2 = n2
  Names = {n1, n2}
  Channels = {5}
  InvitationBase = 100
  MaxInvitations = 3
  MaxPipeEnds = 4
  MaxMojoPipes = 2
CONSTRAINT MCBoth
SYMMETRY MCSymmetry
INVARIANTS ContextsAreExact BuffersAreExact InvitationsAreSound
CHECK_DEADLOCK FALSE
