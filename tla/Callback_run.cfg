CONSTANTS
  Thread = {t1, t2}
  InitThread = t1
  Handler = {h1}
  Null = Null
  Points = 2
SPECIFICATION FairSpec
INVARIANT TypeOK
INVARIANT ResumesWhereItWas
INVARIANT NeverSavedInHandler
INVARIANT SilentOnlyAfterFault
PROPERTY AlertServed
CHECK_DEADLOCK FALSE
