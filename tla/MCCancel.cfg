CONSTANTS
  NumSteps = 4
  RetryCount <- ApprovalRetry
  Compensatable <- ApprovalUndo
  ActionOutcomes <- ApprovalCalls
  UndoOutcomes <- UndoCalls
  HasOnSuccess = FALSE
  HasOnFailure = FALSE
SPECIFICATION Spec
PROPERTIES
  CancelSticks
