CONSTANTS
  NumSteps = 4
  RetryCount <- OnboardingRetry
  Compensatable <- OnboardingUndo
  ActionOutcomes <- OnboardingAsBuilt
  UndoOutcomes <- UndoCalls
  HasOnSuccess = FALSE
  HasOnFailure = FALSE
SPECIFICATION Spec
INVARIANTS
  OnboardingPublishes
