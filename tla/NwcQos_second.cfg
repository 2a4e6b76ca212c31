\* A second ends while the server works.
CONSTANTS
  NULL = NULL
  Environments <- AnyEnvironment
  SecTicks = 8
  SecMilis = 2
  Width = 64
  StatInterval = 3
  Period = 2
  Burst = 2
  MaxPackages = 4
  Duration = 6
SPECIFICATION Spec
INVARIANT RecvDelayIsADelay
CHECK_DEADLOCK FALSE
