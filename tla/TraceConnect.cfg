SPECIFICATION Spec
CONSTANT MaxLines = 4
CHECK_DEADLOCK FALSE
INVARIANTS
  TypeOK
  CaptureBeforeScan
  CaptureStopped
  BaselineEvidence
PROPERTIES
  ExperimentEnds
