SPECIFICATION DSpec
CONSTANTS
  Channels <- MCChannels
  CommandChannel = 0
  Notifications <- MCNotifications
  MaxNotifications = 3
  Tools = {"dashboard"}
  Contents <- MCContents
PROPERTIES
  DisconnectSurfaces
