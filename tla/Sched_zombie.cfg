SPECIFICATION Spec
CONSTANTS
  THREAD_COUNT_MAX = 3
  Quanta = {1}
  SleepMs = {1}
  Services = {"sleep", "exit", "clone"}
PROPERTY ZombieNeverSelected
