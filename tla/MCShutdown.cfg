CONSTANTS
  Sagas = {i1, i2}
  PollInterval = 1
  GracePeriod = 5
  MaxSignals = 2
  MayCancelMain = FALSE
SPECIFICATION ServiceSpec
INVARIANTS
  ShutdownWaits
