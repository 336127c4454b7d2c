CONSTANTS
  None = None
  Uuid <- MCUuid
  Text <- MCText
  NoText = ""
  DataItem = {}
  Host <- MCHost
  Port <- MCPort
  App = {"a1"}
  AppCommand <- OnlyReadFile
  OwnerStops = FALSE
  ConfIncoming <- ShutdownAndRead
  NetIncoming <- NoDatagrams
  UseAck = TRUE
  Writer = "config"
  ListeningPort = 1234
  HasDataFile = TRUE
  Rotated <- MCRotated
  Added <- OneKeeper
  Kept = {"kept"}
  Info = "info"
  FreshUuid = "fresh"
  MaxQueue = 4
SPECIFICATION FairSpec
CHECK_DEADLOCK FALSE
INVARIANTS TypeOK ExecutedWhenIssued
PROPERTIES QuitEndsThreads ImplementsNodeQueue
