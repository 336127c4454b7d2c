CONSTANTS
  None = None
  Uuid <- MCUuid
  Text <- MCText
  NoText = ""
  DataItem = {}
  Host <- MCHost
  Port <- MCPort
  Numeric <- MCHost
  Rotated <- MCRotated
  Kept = {"text", "grkg"}
  Info = "info"
  FreshUuid = "fresh"
  Node <- ThreeNodes
  NextNode <- OneChain
  HostOf <- ThreeHosts
  ListeningPort <- ReadersBehindFirst
  SendPort = 50001
  UseAck <- AllAck
  Added <- ReadersAndKeepers
  FileData <- TwoItems
  Sender = "second"
  MaxQueue = 4
  MaxFaults = 1
SPECIFICATION FairSpec
CHECK_DEADLOCK FALSE
INVARIANTS TypeOK ForgottenOnlyWhenHandled AcksComeHome PlainText
PROPERTIES ArrivesAndSettles WriterKeepsPromises
