CONSTANTS
  Thread = {t1, t2}
  InitThread = t1
  Handler = {h1}
  Null = Null
  Points = 2
SPECIFICATION Spec
INVARIANT AcknowledgedWhenResumed
CHECK_DEADLOCK FALSE
