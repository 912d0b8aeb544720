CONSTANTS
  MAX_CONNECTIONS = 1
  Server = {s1}
  Length = 4
  MaxWrite = 2
  Segment = 3
  Payload = 3
  Nul <- SecondByteNul
  BufSize = 3
  Reconnect = FALSE
SPECIFICATION FairSpec
INVARIANT TypeOK
INVARIANT AckedWasSent
INVARIANT AcknowledgedIsKept
PROPERTY ImplementsStream
PROPERTY HandshakeEnds
PROPERTY FinTaken
CHECK_DEADLOCK FALSE
