CONSTANTS
  Client = {c1, c2}
  None = None
  BACKLOG = 2
  AnyTime = FALSE
SPECIFICATION FairSpec
INVARIANT TypeOK
INVARIANT ReadableIsFull
INVARIANT OnePlaceEach
PROPERTY ImplementsRpc
PROPERTY Served
