SPECIFICATION DiagnosticSpec
CONSTANTS
  MaxLines = 2
  Attempts = 4
CHECK_DEADLOCK FALSE
INVARIANTS
  SummaryIsWhole
  OneCapture
