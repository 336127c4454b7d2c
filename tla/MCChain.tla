------------------------------- MODULE MCChain -------------------------------
(***************************************************************************)
(* A small instance of Chain for the model checker: the first of three     *)
(* nodes, without a reader, reads files and encrypts, the last one         *)
(* decrypts and keeps.                                                     *)
(***************************************************************************)
EXTENDS ChainWriter, TLC

MCUuid == {"u1", "u2", "fresh"}
MCText == {"", "ack", "info", "text", "grkg"}
MCRotated == [t \in MCText |-> CASE t = "text" -> "grkg" [] t = "grkg" -> "text" [] OTHER -> t]
MCHost == {"10.0.0.1", "10.0.0.2", "10.0.0.3"}
MCPort == {1234, 50001}

ThreeNodes == {"first", "second", "third"}
OneChain == "first" :> "second" @@ "second" :> "third" @@ "third" :> None
ThreeHosts == "first" :> "10.0.0.1" @@ "second" :> "10.0.0.2" @@ "third" :> "10.0.0.3"
ReadersBehindFirst == "first" :> None @@ "second" :> 1234 @@ "third" :> 1234
AllAck == [n \in ThreeNodes |-> TRUE]
ReadersAndKeepers ==
  "first" :> <<"file", "encrypt">> @@ "second" :> <<>> @@ "third" :> <<"encrypt", "keeper">>

Item(u) ==
  [uid |-> u, type |-> "Data", payload |-> "text",
   origin |-> NoAddress, destination |-> NoAddress]
TwoItems == {Item("u1"), Item("u2")}

\* What is encrypted in the first node is decrypted in the last one.
ASSUME UndoneHere == EncryptionUndone

\* Every node expects the acknowledgements that come to it.
ASSUME AgreedHere == UseAckAgreed
=============================================================================
