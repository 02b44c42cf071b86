CONSTANTS
  Airs <- MCAirs
  Kernels <- MCKernels
  Budget = 500
  MaxRetry = 3
  ScanMaxData = 160
  LengthModulus = 640
  Memory = 2560
  Kilo = 10
  Channels <- MCChannels
SPECIFICATION Spec
INVARIANTS
  ScanTells
PROPERTIES
  ScanEnds
