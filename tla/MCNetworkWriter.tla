--------------------------- MODULE MCNetworkWriter ---------------------------
(***************************************************************************)
(* Small instances of NetworkWriter for the model checker.                 *)
(***************************************************************************)
EXTENDS NetworkWriter

CONSTANTS c1, c2   \* callers of write()

MCUuid == {"u1", "u2", "u3"}
MCText == {"", "ack", "nack", "text"}
MCHost == {"10.0.0.1", "10.0.0.2", "localhost"}
MCPort == {1234, 12345}
MCNumeric == {"10.0.0.1", "10.0.0.2"}

\* The next node, the address of a config writer, and one without a port.
Next10 == [host |-> "10.0.0.2", port |-> 1234]
Localhost == [host |-> "localhost", port |-> 12345]

Previous == [host |-> "10.0.0.1", port |-> 1234]
PortOnly == [host |-> None, port |-> 1234]

Pkg(u, t, x, d) ==
  [uid |-> u, type |-> t, payload |-> x, origin |-> PortOnly, destination |-> d]
Data(u) == Pkg(u, "Data", "text", NoAddress)
Answer(u, x) == Pkg(u, "Acknowledgement", x, NoAddress)  \* from the next node
AckTo(u) == Pkg(u, "Acknowledgement", "ack", Previous)   \* for the previous one
Empty(u) == Pkg(u, "NoType", "", NoAddress)

\* Data that came from the previous node and goes on to the next, the next
\* node's answers to it, and this node's own answer to the previous one: they
\* all have the uid of the data.
Answers == {Data("u1"), Answer("u1", "ack"), Answer("u1", "nack"), AckTo("u1")}
\* Two data packages and an answer to one of them.
TwoData == {Data("u1"), Data("u2"), Answer("u1", "ack")}
\* With what an application may write too: a package without a type, and one
\* to a host that is given by name.
Named(u) == Pkg(u, "Data", "text", Localhost)
WithEmpty == {Data("u1"), Named("u2"), Empty("u3")}
OneData == {Data("u1")}
=============================================================================
