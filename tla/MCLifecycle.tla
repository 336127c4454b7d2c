----------------------------- MODULE MCLifecycle -----------------------------
(***************************************************************************)
(* A small instance of Lifecycle for the model checker: a node that is     *)
(* started twice, and gets one and the same datagram again and again.      *)
(***************************************************************************)
EXTENDS Lifecycle

MCUuid == {"u1"}
MCText == {"", "ack", "text"}
MCHost == {"10.0.0.1"}
MCPort == {1234}

Data ==
  [json |-> [package |-> "u1", type |-> "data", payload |-> "text",
             senderListeningPort |-> 1234],
   from |-> [host |-> "10.0.0.1", port |-> 1234]]
OneDatagram == {Data}
=============================================================================
