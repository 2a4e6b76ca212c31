\* Fast and slow networks, TCP and UDP, within a second and across its end.
CONSTANTS
  NULL = NULL
  Environments <- AnyEnvironment
  SecTicks = 8
  SecMilis = 2
  Width = 64
  StatInterval = 3
  Period = 2
  Burst = 2
  MaxPackages = 4
  Duration = 6
SPECIFICATION Spec
INVARIANTS
  Accounting
  RttPlausible
  SlowNetworkNeverMeasured
CHECK_DEADLOCK FALSE
