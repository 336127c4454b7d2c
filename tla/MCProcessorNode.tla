--------------------------- MODULE MCProcessorNode ---------------------------
(***************************************************************************)
(* Small instances of ProcessorNode for the model checker.                 *)
(***************************************************************************)
EXTENDS ProcessorNode

MCUuid == {"u1", "u2", "u3", "fresh"}
MCText == {"", "ack", "read", "info", "text", "kept"} \cup Command
MCRotated == [t \in MCText |-> t]
OneKeeper == <<"keeper">>
MCHost == {"10.0.0.1", "10.0.0.2"}
MCPort == {1234, 50001}

Previous == [host |-> "10.0.0.1", port |-> 50001]
Json1(u, type, text, port) ==
  [json |-> [package |-> u, type |-> type, payload |-> text, senderListeningPort |-> port],
   from |-> Previous]

DataFrom(u, text) == Json1(u, "data", text, 1234)
ControlFrom(u, text) == Json1(u, "control", text, None)
ReadConfig == Json1("u1", "configuration", "read", None)
CommandPackage(text) == Json1("u2", "command", text, None)

\* At most one application thread a1, and its command.
NoCommand == [a \in {} |-> "ping"]
OnlyReadFile == [a \in {"a1"} |-> "readfile"]

NoDatagrams == {}
OnlyShutdown == {ControlFrom("u3", "shutdown")}
OneData == {DataFrom("u1", "text")}
ShutdownAndRead == {ControlFrom("u3", "shutdown"), ReadConfig}
DocumentedCommand == {CommandPackage("shutdown")}
=============================================================================
