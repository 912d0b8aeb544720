CONSTANTS
  Client = {c1, c2}
  None = None
  BACKLOG = 3
  AnyTime = TRUE
SPECIFICATION Spec
INVARIANT AnswersTheAsker
