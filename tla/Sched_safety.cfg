SPECIFICATION Spec
CONSTANTS
  THREAD_COUNT_MAX = 3
  Quanta = {1}
  SleepMs = {2}
  Services = {"sleep", "exit", "join", "clone", "thread", "fault"}
INVARIANTS
  TypeOK
  RoundReady
  OneRunning
  HaltExplained
  ActsAsOwner
PROPERTIES
  DeadStayDead
  ImplementsTasks
