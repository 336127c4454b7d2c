------------------------------- MODULE Sending -------------------------------
(***************************************************************************)
(* What NetworkWriter::handlePackage() makes of one package: whether it is *)
(* an acknowledgement that ends here, where it goes otherwise, and what    *)
(* becomes of the list of packages that wait for their acknowledgement.    *)
(***************************************************************************)
EXTENDS Package, Naturals, Sequences, SequencesExt

CONSTANTS
  Numeric          \* the hosts that address::from_string can parse

\* The package's own destination wins over the writer's if it has both parts,
\* host and port.
DestinationOf(next, p) ==
  IF p.destination.host # None /\ p.destination.port # None
  THEN p.destination ELSE next
CanSend(next, p) == DestinationOf(next, p).host \in Numeric

\* Were every acknowledgement taken for one that is meant for this node ...
IsAnyAck(acknowledgePackages, p) ==
  acknowledgePackages /\ p.type = "Acknowledgement"

\* An acknowledgement from outside this node has no destination.
IsLocalAck(acknowledgePackages, p) ==
  acknowledgePackages /\ p.type = "Acknowledgement" /\ ~HasDestination(p)

\* Were the payload of an answer not looked at ...
AnyAnswerErases(sent, p) ==
  LET found == {i \in 1 .. Len(sent) : SamePackage(sent[i], p)}
  IN  IF found # {}
      THEN RemoveAt(sent, CHOOSE i \in found : \A j \in found : i <= j)
      ELSE sent

\* The first sent package equal to an answer, erased if the answer is "ack".
handleAcknowledgementMessages(sent, p) ==
  LET found == {i \in 1 .. Len(sent) : SamePackage(sent[i], p)}
  IN  IF PayloadString(p) = "ack" /\ found # {}
      THEN RemoveAt(sent, CHOOSE i \in found : \A j \in found : i <= j)
      ELSE sent

\* Were every package remembered, acknowledgements too ...
RememberAny(sent, p) == Append(sent, p)

\* push_back of a package that is about to be sent.
Remember(sent, p) == IF p.type = "Data" THEN Append(sent, p) ELSE sent
=============================================================================
