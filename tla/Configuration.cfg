CONSTANTS
  Name <- MCName
  Value <- MCValue
  NoValue = ""
  Null = "null"
  PortText <- MCPortText
  HostText <- MCHostText
  File <- MCFile
  None = None
SPECIFICATION Spec
INVARIANTS TypeInv LastAssignmentWins ConfiguredAsWritten SucceedsIfValid
