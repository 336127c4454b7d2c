-------------------------------- MODULE Chain --------------------------------
(***************************************************************************)
(* Nodes that pass data on to each other: the first one reads packages     *)
(* from a file, each node hands what comes in to its handlers and the rest *)
(* to the next node, and acknowledgements go back one hop.  Composed from  *)
(* what the reader does with a datagram (Receiving), the writer with a     *)
(* package (Sending) and the list of handlers with it (Handlers).  Between *)
(* the nodes is UDP: datagrams are lost, repeated and reordered.  Nodes    *)
(* stop, crash and start again, and threads of a life that was ended by a  *)
(* stop() may go on in the next one.                                       *)
(***************************************************************************)
EXTENDS Handlers, Sending, Receiving

CONSTANTS
  Node,
  NextNode,        \* per node: the node it sends to, or None
  HostOf,          \* per node: its address
  ListeningPort,   \* per node: the port of its reader, or None if it has none
  SendPort,        \* the port that a writer's socket happens to have
  UseAck,          \* per node: use-ack, as start() understands it
  Added,           \* per node: the handlers that its application adds
  FileData,        \* the data packages that are read from files, each one once
  MaxQueue,        \* bound on a reader's queue
  MaxFaults        \* bound on what goes wrong, see faults

\* A node that others send to has a reader; one that only reads files need not.
ASSUME ChainAssumption ==
  /\ None \notin Node
  /\ NextNode \in [Node -> Node \cup {None}]
  /\ HostOf \in [Node -> Host \cap Numeric] /\ \A n, m \in Node : HostOf[n] = HostOf[m] => n = m
  /\ None \notin Host /\ None \notin Port
  /\ ListeningPort \in [Node -> Port \cup {None}] /\ SendPort \in Port
  /\ \A n \in Node : ListeningPort[n] # SendPort
  /\ \A n \in Node : NextNode[n] # None => ListeningPort[NextNode[n]] # None
  /\ UseAck \in [Node -> BOOLEAN]
  /\ Added \in [Node -> Seq(HandlerKind)]
  /\ FileData \subseteq {p \in Packages : p.type = "Data" /\ p.destination = NoAddress}
  /\ "ack" \in Text
  /\ MaxQueue \in Nat /\ MaxFaults \in Nat

\* Several nodes need not agree on use-ack, and nothing sees to it that whoever
\* is acknowledged expects it: one that does not sends the acknowledgement on.
UseAckAgreed == \A n \in Node : NextNode[n] # None /\ UseAck[NextNode[n]] => UseAck[n]

VARIABLES
  up,              \* per node: between start() and stop()
  writing,         \* per node: running of its writer, set by the writer's thread
  inQueue,         \* per node: msgQueue of its data reader
  outQueue,        \* per node: msgQueue of its writer
  sentPackages,    \* per node: sentPackages of its writer
  network,         \* the datagrams under way, [from, to, json]
  faults,          \* how often something was lost, repeated, stopped, crashed,
                   \* not noticed or written too early
  stopped,         \* per node: its process has been through a stop(), so that
                   \* several handler threads may take from inQueue
  held,            \* per node: the packages that threads of a stopped node have
                   \* taken and not handled
  taken,           \* history: the packages that were read from files
  handled,         \* history, per node: identifiers of the data it handled
  withheld,        \* history, per node: identifiers of the data ever in held
  kept,            \* history: what keeping handlers got
  remembered       \* history, per node: identifiers of the data it has handed
                   \* to the socket since it was started
queues == <<inQueue, outQueue, sentPackages>>
threads == <<up, writing, stopped, held>>
history == <<taken, handled, withheld, kept, remembered>>
vars == <<threads, queues, network, faults, history>>

-----------------------------------------------------------------------------
AddressOf(n) == [host |-> HostOf[n], port |-> ListeningPort[n]]

\* Where others take a package of n to come from: without a port that it
\* listens to it is the one that it sends from.
SourceOf(n) ==
  [host |-> HostOf[n],
   port |-> IF ListeningPort[n] # None THEN ListeningPort[n] ELSE SendPort]

\* The config writer of a last node has an address that is never looked at.
OutputOf(n) == IF NextNode[n] # None THEN AddressOf(NextNode[n]) ELSE NoAddress
HandlersOf(n) == WithOwn(Added[n])

Init ==
  /\ up = [n \in Node |-> TRUE] /\ writing = [n \in Node |-> FALSE]
  /\ stopped = [n \in Node |-> FALSE] /\ held = [n \in Node |-> {}]
  /\ inQueue = [n \in Node |-> <<>>] /\ outQueue = [n \in Node |-> <<>>]
  /\ sentPackages = [n \in Node |-> <<>>]
  /\ network = {} /\ faults = 0
  /\ taken = {} /\ kept = {}
  /\ handled = [n \in Node |-> {}] /\ withheld = [n \in Node |-> {}]
  /\ remembered = [n \in Node |-> {}]

Fault == faults < MaxFaults /\ faults' = faults + 1

\* The thread of the writer, once start() has made it, says that it runs.
Begin(n) ==
  /\ up[n] /\ ~writing[n]
  /\ writing' = [writing EXCEPT ![n] = TRUE]
  /\ UNCHANGED <<up, stopped, held, queues, network, faults, history>>

\* sendData(): the node's origin is set, and its writer takes the package, a
\* config writer if it is one that it is for.  Before the writer's thread has
\* begun the package is dropped.  It is called with one package at most: no
\* list of handlers sends more than one.
WithOrigin(n, p) == [p EXCEPT !.origin = [host |-> None, port |-> ListeningPort[n]]]
Accepts(n, p) == NextNode[n] # None \/ p.type \in {"Configuration", "Acknowledgement"}
sendData(n, ps) ==
  LET given == ps # <<>> /\ Accepts(n, Head(ps))
  IN  /\ outQueue' = IF given /\ writing[n]
                     THEN [outQueue EXCEPT ![n] = Append(@, WithOrigin(n, Head(ps)))]
                     ELSE outQueue
      /\ faults' = IF given /\ ~writing[n] THEN faults + 1 ELSE faults
      /\ faults' <= MaxFaults

-----------------------------------------------------------------------------
\* A handler that reads a file passes each package to the handlers behind it.
ReadFile(n) ==
  /\ up[n]
  /\ \E i \in 1 .. Len(HandlersOf(n)) : \E p \in FileData \ taken :
       /\ HandlersOf(n)[i] = "file"
       /\ sendData(n, passToNextHandlers(HandlersOf(n), i, p))
       /\ kept' = kept \cup KeptOf(HandlersOf(n), i + 1, p)
       /\ taken' = taken \cup {p}
  /\ UNCHANGED <<threads, inQueue, sentPackages, network, handled, withheld, remembered>>

\* What a handler thread does with a package in its hands: acknowledgements go
\* to the writer, the rest to the handlers.
HandlePackage(n, p) ==
  /\ IF p.type = "Acknowledgement"
     THEN sendData(n, <<p>>) /\ UNCHANGED <<handled, kept>>
     ELSE /\ sendData(n, passToHandlers(HandlersOf(n), p))
          /\ kept' = kept \cup KeptOf(HandlersOf(n), 1, p)
          /\ handled' = [handled EXCEPT ![n] = IF p.type = "Data" THEN @ \cup {p.uid} ELSE @]
  /\ UNCHANGED <<up, writing, stopped, sentPackages, network, taken, withheld, remembered>>

\* The incoming handler thread takes one package and handles it.  As long as
\* there is no other such thread and no stop() in between, nobody can tell the
\* one from the other.
Handle(n) ==
  /\ up[n] /\ inQueue[n] # <<>>
  /\ HandlePackage(n, Head(inQueue[n]))
  /\ inQueue' = [inQueue EXCEPT ![n] = Tail(@)]
  /\ UNCHANGED held

\* The package that a thread takes from inQueue and does not handle at once.
Withhold(n) ==
  /\ inQueue[n] # <<>>
  /\ LET p == Head(inQueue[n])
     IN  /\ held' = [held EXCEPT ![n] = @ \cup {p}]
         /\ withheld' = [withheld EXCEPT ![n] =
                           IF p.type = "Data" THEN @ \cup {p.uid} ELSE @]
  /\ inQueue' = [inQueue EXCEPT ![n] = Tail(@)]

\* After a stop() and a start() a thread of the earlier life may see the node
\* running again, and take packages between those of the new thread.
Take(n) ==
  /\ up[n] /\ stopped[n]
  /\ Withhold(n)
  /\ UNCHANGED <<up, writing, stopped, outQueue, sentPackages, network, faults,
                 taken, handled, kept, remembered>>
HandleHeld(n) ==
  /\ up[n]
  /\ \E p \in held[n] :
       /\ HandlePackage(n, p)
       /\ held' = [held EXCEPT ![n] = @ \ {p}]
  /\ UNCHANGED inQueue

\* The writer thread takes one package: an acknowledgement for this node ends
\* here, the rest goes to the network.
Settle(n) ==
  /\ up[n] /\ writing[n] /\ outQueue[n] # <<>> /\ IsLocalAck(UseAck[n], Head(outQueue[n]))
  /\ sentPackages' = [sentPackages EXCEPT ![n] =
       handleAcknowledgementMessages(@, Head(outQueue[n]))]
  /\ outQueue' = [outQueue EXCEPT ![n] = Tail(@)]
  /\ UNCHANGED <<threads, inQueue, network, faults, history>>

Datagram(n, p) ==
  [from |-> [host |-> HostOf[n], port |-> SendPort],
   to |-> DestinationOf(OutputOf(n), p), json |-> ToJson(p)]

Send(n) ==
  /\ up[n] /\ writing[n] /\ outQueue[n] # <<>> /\ ~IsLocalAck(UseAck[n], Head(outQueue[n]))
  /\ CanSend(OutputOf(n), Head(outQueue[n]))
  /\ LET p == Head(outQueue[n])
     IN  /\ sentPackages' = [sentPackages EXCEPT ![n] = Remember(@, p)]
         /\ remembered' = [remembered EXCEPT ![n] =
                             IF p.type = "Data" THEN @ \cup {p.uid} ELSE @]
         /\ network' = network \cup {Datagram(n, p)}
  /\ outQueue' = [outQueue EXCEPT ![n] = Tail(@)]
  /\ UNCHANGED <<threads, inQueue, faults, taken, handled, withheld, kept>>

-----------------------------------------------------------------------------
\* The reader of the addressee queues what the datagram makes; the datagram is
\* gone then, or comes once more.
Listens(n, d) == up[n] /\ ListeningPort[n] # None /\ d.to = AddressOf(n)
Arrive(n, d) ==
  /\ Listens(n, d) /\ Len(inQueue[n]) < MaxQueue
  /\ inQueue' = [inQueue EXCEPT ![n] = @ \o Arrival(UseAck[n], Received(d))]
  /\ UNCHANGED <<threads, outQueue, sentPackages, history>>

Deliver(n) ==
  \E d \in network : Arrive(n, d) /\ network' = network \ {d} /\ UNCHANGED faults

\* The handler thread misses the notification: it has looked and not gone to
\* sleep yet, or it is about to reset hasIncoming.  Something else has to wake
\* it up then, such as the next datagram.
DeliverUnnoticed(n) ==
  /\ inQueue[n] = <<>>
  /\ \E d \in network : Arrive(n, d) /\ network' = network \ {d}
  /\ Fault

Repeat(n) == \E d \in network : Arrive(n, d) /\ UNCHANGED network /\ Fault

Lose ==
  /\ \E d \in network : network' = network \ {d}
  /\ Fault
  /\ UNCHANGED <<threads, queues, history>>

\* Nobody has the address, or the node that has it is down.
Vanish ==
  /\ \E d \in network :
       /\ \A n \in Node : ~Listens(n, d)
       /\ network' = network \ {d}
  /\ UNCHANGED <<threads, queues, faults, history>>

-----------------------------------------------------------------------------
\* What stop() leaves of a writer's queue: the package that the writer thread
\* has in its hands, and one that write() puts there after the queue was emptied.
LeftOf(q) ==
  IF Len(q) <= 1 THEN {<<>>, q}
  ELSE {<<>>, <<Head(q)>>, <<Last(q)>>, <<Head(q), Last(q)>>}

\* stop() empties what the writer has, unless the writer's thread has not begun,
\* and leaves the reader's queue alone.  A package that the handler thread has
\* just read is not handled any more: what belongs to it stays in the queue.
Stop(n) ==
  /\ up[n] /\ Fault
  /\ up' = [up EXCEPT ![n] = FALSE] /\ writing' = [writing EXCEPT ![n] = FALSE]
  /\ stopped' = [stopped EXCEPT ![n] = TRUE]
  /\ Withhold(n) \/ UNCHANGED <<inQueue, held, withheld>>
  /\ IF writing[n]
     THEN /\ \E q \in LeftOf(outQueue[n]) : outQueue' = [outQueue EXCEPT ![n] = q]
          /\ sentPackages' = [sentPackages EXCEPT ![n] = <<>>]
     ELSE UNCHANGED <<outQueue, sentPackages>>
  /\ remembered' = [remembered EXCEPT ![n] = {}]
  /\ UNCHANGED <<network, taken, handled, kept>>

\* Nothing is kept over the end of the process.
Crash(n) ==
  /\ up[n] /\ Fault
  /\ up' = [up EXCEPT ![n] = FALSE] /\ writing' = [writing EXCEPT ![n] = FALSE]
  /\ stopped' = [stopped EXCEPT ![n] = FALSE] /\ held' = [held EXCEPT ![n] = {}]
  /\ inQueue' = [inQueue EXCEPT ![n] = <<>>]
  /\ outQueue' = [outQueue EXCEPT ![n] = <<>>]
  /\ sentPackages' = [sentPackages EXCEPT ![n] = <<>>]
  /\ remembered' = [remembered EXCEPT ![n] = {}]
  /\ UNCHANGED <<network, taken, handled, withheld, kept>>

Restart(n) ==
  /\ ~up[n]
  /\ up' = [up EXCEPT ![n] = TRUE]
  /\ UNCHANGED <<writing, stopped, held, queues, network, faults, history>>

-----------------------------------------------------------------------------
NodeStep(n) == Begin(n) \/ Handle(n) \/ Settle(n) \/ Send(n)
Next ==
  \/ \E n \in Node :
       \/ ReadFile(n) \/ NodeStep(n) \/ Take(n) \/ HandleHeld(n)
       \/ Deliver(n) \/ DeliverUnnoticed(n) \/ Repeat(n)
       \/ Stop(n) \/ Crash(n) \/ Restart(n)
  \/ Lose \/ Vanish

Spec == Init /\ [][Next]_vars

\* As long as nothing has gone wrong and a node that is up has work, or there is
\* a datagram for it, somebody goes on.  After a notification that was missed,
\* or anything else in faults, nothing is promised; and nobody has to read a
\* file or to restart a node.
Work == faults = 0 /\ \E n \in Node : NodeStep(n) \/ Deliver(n)
FairSpec == Spec /\ WF_vars(Work)

-----------------------------------------------------------------------------
Sendings == [from : Address, to : Address, json : Json]

\* The types of the variables.
TypeOK ==
  /\ up \in [Node -> BOOLEAN] /\ writing \in [Node -> BOOLEAN]
  /\ stopped \in [Node -> BOOLEAN] /\ held \in [Node -> SUBSET Packages]
  /\ inQueue \in [Node -> Seq(Packages)] /\ outQueue \in [Node -> Seq(Packages)]
  /\ sentPackages \in [Node -> Seq(Packages)]
  /\ network \subseteq Sendings /\ faults \in 0 .. MaxFaults
  /\ taken \subseteq FileData /\ kept \subseteq Packages
  /\ handled \in [Node -> SUBSET Uuid] /\ withheld \in [Node -> SUBSET Uuid]
  /\ remembered \in [Node -> SUBSET Uuid]

Waits(n, u) == \E i \in 1 .. Len(sentPackages[n]) : sentPackages[n][i].uid = u

\* What n has done with data: handled it or, in a process that was stopped,
\* taken it in the hands of a thread, which may never have handled it.
Done == [n \in Node |-> handled[n] \cup withheld[n]]

\* No data is forgotten between two nodes: what a node has sent since it was
\* started waits in sentPackages, or the next node is done with it; and only a
\* stop() of that one can have kept it from handling it.  Datagrams that are lost,
\* repeated or overtaken, and crashes of the other, change nothing about that.
ForgottenOnlyWhenHandled ==
  \A n \in Node : \A u \in remembered[n] :
    Waits(n, u) \/ (NextNode[n] # None /\ u \in Done[NextNode[n]])

\* An acknowledgement on its way goes to where a node that sends to this one is
\* taken to be, and this one is done with what it acknowledges: it has handled
\* it, unless it was stopped with the data in a thread's hands, whose
\* acknowledgement stays in the queue and is sent in the next life.
AcksComeHome ==
  \A d \in network : d.json.type = "acknowledgement" =>
    \E m, n \in Node :
      /\ d.to = SourceOf(n) /\ d.from.host = HostOf[m] /\ NextNode[n] = m
      /\ d.json.package \in Done[m]

\* Whether an odd number of EncryptHandlers stands between two places in a list.
Turned(n, from, i) == Odd({k \in from .. i - 1 : HandlersOf(n)[k] = "encrypt"})

\* A text that comes to the from-th handler of n, scrambled if s says so, is plain
\* at every keeping handler behind it, and comes to the next node as scrambled
\* says of that node.
ComesOut(scrambled, n, from, s) ==
  /\ \A i \in from .. Len(HandlersOf(n)) :
       HandlersOf(n)[i] = "keeper" => s = Turned(n, from, i)
  /\ NextNode[n] # None =>
       scrambled[NextNode[n]] = (s # Turned(n, from, Len(HandlersOf(n)) + 1))

\* Every way from a file to a keeping handler passes an even number of
\* EncryptHandlers: for every node it can be said whether the texts that come to
\* it are scrambled.
UndoneBy(scrambled) ==
  \A n \in Node :
    /\ ComesOut(scrambled, n, 1, scrambled[n])
    /\ \A i \in 1 .. Len(HandlersOf(n)) - 1 :
         HandlersOf(n)[i] = "file" => ComesOut(scrambled, n, i + 1, FALSE)
EncryptionUndone ==
  /\ \A p \in FileData : p.payload \in Text
  /\ \E scrambled \in [Node -> BOOLEAN] : UndoneBy(scrambled)

\* What a keeping handler gets of a package is the text that was read from the
\* file, if EncryptHandlers undo what others did before (EncryptionUndone).
PlainText ==
  \A p \in kept : \E q \in FileData : SamePackage(p, q) /\ p.payload = q.payload

\* Unless something goes wrong (a datagram is lost or repeated, a notification
\* missed, a package written before a writer's thread has begun, a node stopped
\* or crashed), what is read from a file at one end is kept at the other, and no
\* node that acknowledgements can come to goes on waiting for one: its
\* sentPackages do not grow for ever.
AckedNodes ==
  {n \in Node : NextNode[n] # None /\ UseAck[NextNode[n]] /\ ListeningPort[n] # None}
ArrivesAndSettles ==
  \A p \in FileData :
    p \in taken ~> \/ faults > 0
                   \/ /\ \E q \in kept : SamePackage(p, q)
                      /\ \A n \in AckedNodes : ~Waits(n, p.uid)
=============================================================================
