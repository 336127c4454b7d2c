------------------------------ MODULE Receiving ------------------------------
(***************************************************************************)
(* What NetworkReader::handleReceive() makes of one datagram: the package, *)
(* with its origin completed, and the acknowledgement that is queued right *)
(* behind it.                                                              *)
(***************************************************************************)
EXTENDS Package, Sequences

Datagrams == [json : Json, from : [host : Host, port : Port]]

\* Were the port that the sender listens to not looked at ...
SenderOf(d) == d.from

\* The sender's address with the port it listens to, if it named one.
OriginOf(d) ==
  [host |-> d.from.host,
   port |-> IF d.json.senderListeningPort # None
            THEN d.json.senderListeningPort ELSE d.from.port]

Received(d) == [FromJson(d.json) EXCEPT !.origin = OriginOf(d)]

AckFor(p) ==
  [uid |-> p.uid, type |-> "Acknowledgement", payload |-> "ack",
   origin |-> NoAddress, destination |-> p.origin]

\* Were the acknowledgement pushed before the data ...
AckFirst(sendAckMessages, p) ==
  IF sendAckMessages /\ p.type = "Data" THEN <<AckFor(p), p>> ELSE <<p>>

\* What one datagram adds to the queue, under one hold of the mutex.
Arrival(sendAckMessages, p) ==
  IF sendAckMessages /\ p.type = "Data" THEN <<p, AckFor(p)>> ELSE <<p>>
=============================================================================
