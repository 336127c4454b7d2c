------------------------------- MODULE Package -------------------------------
(***************************************************************************)
(* The package: the unit of data that ProcessorNodes exchange and that the *)
(* threads of one node hand to each other (Package.h, Package.cpp), with   *)
(* its conversion to and from the JSON text of a datagram.                 *)
(***************************************************************************)

CONSTANTS
  Uuid,          \* the universally unique identifiers
  Text,          \* payload strings
  NoText,        \* the empty payload string
  DataItem,      \* parsed application objects a payload may hold instead
  Host,          \* numeric IP addresses and host names
  Port,          \* port numbers
  None           \* an absent address part, thread or package

ASSUME NoTextAssumption == NoText \in Text

-----------------------------------------------------------------------------
(***************************************************************************)
(* An address string is empty, "port" or "host:port"; the three forms are  *)
(* told apart by which of their two parts is None.                         *)
(***************************************************************************)
Address == [host : Host \cup {None}, port : Port \cup {None}]
NoAddress == [host |-> None, port |-> None]

\* The enumeration Package::Type and the strings that stand for it in JSON.
Type == {"NoType", "Control", "Data", "Configuration", "Acknowledgement"}
TypeAsString ==
  [NoType |-> "", Control |-> "control", Data |-> "data",
   Configuration |-> "configuration", Acknowledgement |-> "acknowledgement"]
TypeFromString(s) ==
  IF \E t \in Type : TypeAsString[t] = s
  THEN CHOOSE t \in Type : TypeAsString[t] = s
  ELSE "NoType"

Packages ==
  [uid : Uuid, type : Type, payload : Text \cup DataItem,
   origin : Address, destination : Address]

IsEmpty(p) == p.type = "NoType"
HasDestination(p) == p.destination # NoAddress

\* Package::operator== compares the identifiers alone.
SamePackage(p, q) == p.uid = q.uid

\* A parsed DataItem has no string: getPayloadString() is then empty.
PayloadString(p) == IF p.payload \in Text THEN p.payload ELSE NoText

-----------------------------------------------------------------------------
(***************************************************************************)
(* What survives the wire: of the two addresses only the sender's          *)
(* listening port, and of the payload only its string.  Other type strings *)
(* may come too, such as the "command" of README.md:44: they are read as   *)
(* NoType.                                                                 *)
(***************************************************************************)
TypeOnWire == {TypeAsString[t] : t \in Type} \cup {"command"}
Json == [package : Uuid, type : TypeOnWire, payload : Text,
         senderListeningPort : Port \cup {None}]

ToJson(p) ==
  [package |-> p.uid, type |-> TypeAsString[p.type],
   payload |-> PayloadString(p), senderListeningPort |-> p.origin.port]

\* Were the type's string taken for the type ...
FromJsonUnread(j) ==
  [uid |-> j.package, type |-> j.type, payload |-> j.payload,
   origin |-> [host |-> None, port |-> j.senderListeningPort],
   destination |-> NoAddress]

FromJson(j) ==
  [uid |-> j.package, type |-> TypeFromString(j.type), payload |-> j.payload,
   origin |-> [host |-> None, port |-> j.senderListeningPort],
   destination |-> NoAddress]
=============================================================================
