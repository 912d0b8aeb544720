SPECIFICATION FairSpec
CONSTANTS
  THREAD_COUNT_MAX = 3
  Quanta = {1}
  SleepMs = {1}
  Services = {"sleep", "exit", "thread", "restart", "clone", "lock"}
PROPERTIES
  SleeperWakes
  ExitServed
