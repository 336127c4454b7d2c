CONSTANTS
  None = None
  Uuid <- MCUuid
  Text <- MCText
  NoText = ""
  DataItem = {}
  Host <- MCHost
  Port <- MCPort
  Incoming <- OneDatagram
  UseAck = FALSE
  MaxQueue = 1
  MaxStarts = 2
SPECIFICATION FairSpec
CHECK_DEADLOCK FALSE
INVARIANTS TypeOK FailedStartStops AloneIsSafe RunningIsOpen ReceivesBounded
PROPERTIES ReceivesKept QuitIsAnnounced QuitEndsEveryThread
