SPECIFICATION Spec
CONSTANTS
  Tools = {"log", "probe", "dump"}
  MaxAttempts = 2
  MaxCalls = 2
  Notifying = {n1, n2}
  Readable = {r1}
  Writes = 3
  Values = {0, 1}
  NoValue = NoValue
INVARIANTS NoScannerLost StopIsPrompt NoLateNotification
PROPERTIES NoChangeMissed ToolEnds
