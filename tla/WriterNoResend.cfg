CONSTANTS
  None = None
  c1 = c1
  c2 = c2
  Uuid <- MCUuid
  Text <- MCText
  NoText = ""
  DataItem = {}
  Host <- MCHost
  Port <- MCPort
  Numeric <- MCNumeric
  Caller = {c1}
  Outgoing <- OneData
  NextNode <- Next10
  UseAck = TRUE
  MaxStarts = 1
SPECIFICATION FairSpec
CHECK_DEADLOCK FALSE
PROPERTIES ResentUntilAcknowledged
