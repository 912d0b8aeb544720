SPECIFICATION FairSpec
CONSTANTS
  THREAD_COUNT_MAX = 3
  Quanta = {1, 2}
  SleepMs = {1}
  Services = {"clone", "yield", "block", "display"}
PROPERTY ReadyRuns
