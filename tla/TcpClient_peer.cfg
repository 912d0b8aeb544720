CONSTANTS
  MAX_CONNECTIONS = 2
  Server = {s1}
  Length = 1
  MaxWrite = 1
  Segment = 1
  Payload = 2
  Nul <- SecondByteNul
  BufSize = 1
  Reconnect = TRUE
SPECIFICATION Spec
INVARIANT EndedByItsServer
CHECK_DEADLOCK FALSE
