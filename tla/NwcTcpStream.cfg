\* Ample and tight socket buffers, both ways.
CONSTANTS
  MaxPackages = 4
  Bandwidth = 4
  PkgLen = 3
  AckLen = 2
  RecvBuff = 4
  KernelCaps <- AnyCap
SPECIFICATION FairSpec
INVARIANTS
  StreamIntact
  TornOnlyByACut
PROPERTIES
  EveryPackageAcked
  BackToTheLoop
CHECK_DEADLOCK FALSE
