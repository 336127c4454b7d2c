------------------------------- MODULE NodeQueue -------------------------------
(***************************************************************************)
(* What a started ProcessorNode promises, without threads, flags or locks: *)
(* what comes to each of its two readers is handled in the order in which  *)
(* it came, one package at a time, and with a package its writer gets what *)
(* the node makes of it, at once, from when it begins to send until it is  *)
(* stopped.  It gets nothing else but what commands send.  Only an empty   *)
(* package is dropped, unless the node stops.                              *)
(***************************************************************************)
EXTENDS Handlers, Receiving

CONSTANTS
  UseAck, Writer, ListeningPort, HasDataFile, Added,  \* how the node is set up
  ConfIncoming, NetIncoming                           \* what may come

VARIABLES
  running,         \* nobody has stopped the node
  queue,           \* per reader: what has come and is not handled, oldest first
  handled,         \* per reader: what has been handled, oldest first
  writer,          \* "starting", "sending" or "stopped"
  outbox           \* what the writer has accepted, oldest first

Reader == {"conf", "net"}
nodeVars == <<running, queue, handled, writer, outbox>>

\* What a writer accepts of the packages to be sent, one or none; it leaves
\* with the node as its origin.
Accepted(ps) ==
  IF ps # <<>> /\ \/ Writer = "network"
                  \/ Writer = "config" /\ Head(ps).type \in {"Configuration", "Acknowledgement"}
  THEN <<[Head(ps) EXCEPT !.origin = [host |-> None, port |-> ListeningPort]]>>
  ELSE <<>>

\* Acknowledgements and shutdowns go on as they are, the rest as it leaves the
\* handlers.
MadeOf(p) ==
  IF p.type = "Acknowledgement" \/ IsControl(p, "shutdown")
  THEN <<p>> ELSE passToHandlers(WithOwn(Added), p)

\* A command is sent as a control package, or shown to the handlers.
Asking(c) ==
  [uid |-> FreshUuid, type |-> "Control", payload |-> c,
   origin |-> NoAddress, destination |-> NoAddress]
MadeFor(c) ==
  CASE c \in {"ping", "shutdown"} -> <<Asking(c)>>
    [] c = "readfile" /\ HasDataFile -> passToHandlers(WithOwn(Added), Asking(c))
    [] OTHER -> <<>>

-----------------------------------------------------------------------------
NodeInit ==
  /\ running = TRUE /\ writer = "starting" /\ outbox = <<>>
  /\ queue = [r \in Reader |-> <<>>] /\ handled = [r \in Reader |-> <<>>]

\* A datagram adds its package, and the acknowledgement behind it.
Receive(r) ==
  /\ \E d \in IF r = "conf" THEN ConfIncoming ELSE NetIncoming :
       queue' = [queue EXCEPT ![r] = @ \o Arrival(UseAck, Received(d))]
  /\ UNCHANGED <<running, handled, writer, outbox>>

\* What is made of a package or a command is for a writer that sends.
Write(ps) == outbox' = IF writer = "sending" THEN outbox \o Accepted(ps) ELSE outbox

\* The oldest package is handled.
Handle(r) ==
  /\ queue[r] # <<>> /\ ~IsEmpty(Head(queue[r]))
  /\ queue' = [queue EXCEPT ![r] = Tail(@)]
  /\ handled' = [handled EXCEPT ![r] = Append(@, Head(queue[r]))]
  /\ Write(MadeOf(Head(queue[r])))
  /\ UNCHANGED <<running, writer>>

Drop(r) ==
  /\ queue[r] # <<>> /\ (IsEmpty(Head(queue[r])) \/ ~running)
  /\ queue' = [queue EXCEPT ![r] = Tail(@)]
  /\ UNCHANGED <<running, handled, writer, outbox>>

Execute ==
  /\ running
  /\ \E c \in {"ping", "readfile", "shutdown"} : Write(MadeFor(c))
  /\ UNCHANGED <<running, queue, handled, writer>>

Stop ==
  /\ running' = FALSE
  /\ UNCHANGED <<queue, handled, writer, outbox>>

\* The writer begins to send, be the node stopped or not, and is not stopped
\* while the node runs.
BeginSending ==
  /\ writer = "starting" /\ writer' = "sending"
  /\ UNCHANGED <<running, queue, handled, outbox>>
StopSending ==
  /\ ~running
  /\ writer = "sending" /\ writer' = "stopped"
  /\ UNCHANGED <<running, queue, handled, outbox>>

NodeNext ==
  \/ \E r \in Reader : Receive(r) \/ Handle(r) \/ Drop(r)
  \/ Execute \/ Stop \/ BeginSending \/ StopSending
NodeSpec == NodeInit /\ [][NodeNext]_nodeVars
=============================================================================
