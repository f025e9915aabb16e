SPECIFICATION DSpec
CONSTANTS
  Channels <- MCChannels
  CommandChannel = 0
  Notifications <- MCNotifications
  MaxNotifications = 3
  Tools = {"handshake", "dashboard"}
  Contents <- MCContents
INVARIANTS
  TypeOK
  StartupAfterHandshake
  SilentWithoutHandshake
  HandshakeNotMissed
  WriterFailureSurfaces
  HealthyStopFlushes
  DisplayIsLatest
  FinalScreen
PROPERTIES
  QuietAfterStop
  ToolEnds
  ImplementsStream
  ScreenCatchesUp
