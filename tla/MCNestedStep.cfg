CONSTANTS
  a = a
  b = b
  Subs <- MCSubs
  IfStep = a
  ElseSteps <- MCElseSteps
  OuterRetry = 1
  SubRetry <- MCSubRetry
  SubCompensatable <- MCSubCompensatable
SPECIFICATION FairSpec
INVARIANTS
  AttemptProduct
  CompletesTogether
  NoOrphans
  UndoneAfterAll
PROPERTIES
  NestedSettles
