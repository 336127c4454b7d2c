CONSTANTS
  None = None
  Uuid <- MCUuid
  Text <- MCText
  NoText = ""
  DataItem = {}
  Host <- MCHost
  Port <- MCPort
  App = {}
  AppCommand <- NoCommand
  OwnerStops = FALSE
  ConfIncoming <- NoDatagrams
  NetIncoming <- OneData
  UseAck = TRUE
  Writer = "network"
  ListeningPort = 1234
  HasDataFile = TRUE
  Rotated <- MCRotated
  Added <- OneKeeper
  Kept = {"kept"}
  Info = "info"
  FreshUuid = "fresh"
  MaxQueue = 4
SPECIFICATION FairSpec
CHECK_DEADLOCK FALSE
PROPERTIES ReceivedIsHandled
