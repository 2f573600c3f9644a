CONSTANTS
  NumSteps = 4
  RetryCount <- MCRetryCount
  Compensatable <- MCCompensatable
  ActionOutcomes <- MCOutcomes
  UndoOutcomes <- AnyUndo
  HasOnSuccess = TRUE
  HasOnFailure = TRUE
SPECIFICATION FairSpec
INVARIANTS
  TruthfulOutcome
  FailureUnwindsAll
  UndoneOnce
  UndoneInReverse
  AttemptBudget
  UnwindsCleanly
PROPERTIES
  ImplementsContract
  KeepsToLife
  SagaSettles
