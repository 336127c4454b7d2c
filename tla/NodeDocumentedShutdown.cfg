CONSTANTS
  None = None
  Uuid <- MCUuid
  Text <- MCText
  NoText = ""
  DataItem = {}
  Host <- MCHost
  Port <- MCPort
  App = {}
  AppCommand <- NoCommand
  OwnerStops = FALSE
  ConfIncoming <- DocumentedCommand
  NetIncoming <- NoDatagrams
  UseAck = TRUE
  Writer = "network"
  ListeningPort = 1234
  HasDataFile = TRUE
  Rotated <- MCRotated
  Added <- OneKeeper
  Kept = {"kept"}
  Info = "info"
  FreshUuid = "fresh"
  MaxQueue = 4
SPECIFICATION Spec
CHECK_DEADLOCK FALSE
PROPERTIES DocumentedShutdown
