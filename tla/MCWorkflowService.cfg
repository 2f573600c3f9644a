CONSTANTS
  Sagas = {i1, i2}
  PollInterval = 1
  GracePeriod = 5
  MaxSignals = 2
  MayCancelMain = TRUE
SPECIFICATION FairServiceSpec
INVARIANTS
  FoundInOneTable
  TablesMatchTasks
  TelemetryClosedOnce
PROPERTIES
  FiledLabelKept
  SagasGetFiled
  SignalEndsService
