CONSTANTS
  None = None
  Uuid <- MCUuid
  Text <- MCText
  NoText = ""
  DataItem = {}
  Host <- MCHost
  Port <- MCPort
  Incoming <- OneDatagram
  UseAck = FALSE
  MaxQueue = 1
  MaxStarts = 2
SPECIFICATION Spec
CHECK_DEADLOCK FALSE
INVARIANTS ReceivesAreServed
