---------------------------- MODULE ProcessorNode ----------------------------
(***************************************************************************)
(* A node that has been started (ProcessorNode.cpp): the io thread that    *)
(* serves its two readers, the incoming handler thread, the command        *)
(* handler thread, the application's threads that issue commands, and the  *)
(* application's owner thread that may stop it.  The two handler threads   *)
(* wait on one condition variable, condition, under one mutex, guard.      *)
(* Nobody who notifies holds that mutex, except the command thread.        *)
(***************************************************************************)
EXTENDS Handlers, Receiving, SequencesExt

CONSTANTS
  App,             \* the application's threads that call handleCommand()
  AppCommand,      \* the command each of them issues, once
  OwnerStops,      \* whether the application calls stop()
  ConfIncoming,    \* datagrams for the configuration reader, each sent once
  NetIncoming,     \* datagrams for the data reader, each sent once
  UseAck,          \* use-ack, as start() understands it
  Writer,          \* "network", "config" or "none": the writer it has
  ListeningPort,   \* the port of its data reader
  HasDataFile,     \* whether dataFileName is set
  Added,           \* the handlers that the application adds
  MaxQueue         \* bound on the readers' queues

Command == {"ping", "readfile", "quit", "shutdown"}

ASSUME NodeAssumption ==
  /\ AppCommand \in [App -> Command]
  /\ OwnerStops \in BOOLEAN /\ HasDataFile \in BOOLEAN /\ UseAck \in BOOLEAN
  /\ Writer \in {"network", "config", "none"}
  /\ ListeningPort \in Port /\ Added \in Seq(HandlerKind)
  /\ Command \cup {"ack", "read"} \subseteq Text
  /\ ConfIncoming \cup NetIncoming \subseteq [json : Json, from : [host : Host, port : Port]]
  /\ MaxQueue \in Nat
  /\ None \notin Packages \cup {"incoming", "command"}

VARIABLES
  running, hasIncoming, command, nodeInitiatedShutdownStarted,
  guard,           \* who owns the mutex: "incoming", "command" or None
  ipc, inHand, reading,    \* incoming handler thread: place, package, reader
  cpc, cmd,                \* command handler thread: place, command taken
  apc,                     \* per application thread: place in handleCommand()
  spc,                     \* per thread that may call stop(): place in it
  confQueue, confRunning, confReceives, confHandler,
  netQueue, netRunning, netReceives, netHandler,
  flagged,                 \* receivedData() has set hasIncoming, not notified
  writer,                  \* the writer's thread: "starting", "sending", "stopped"
  arrived,                 \* history: the datagrams that have come, per reader
  outbox,                  \* history: packages accepted by the writer
  early,                   \* history: packages it dropped, its thread not begun
  handled,                 \* history: packages read, per reader
  late,                    \* history: packages handled after running was reset
  executed                 \* history: commands executed by the command thread

Conf == INSTANCE NetworkReader
          WITH msgQueue <- confQueue, running <- confRunning,
               receives <- confReceives, handler <- confHandler,
               AckMessages <- UseAck, Datagram <- ConfIncoming
Net == INSTANCE NetworkReader
         WITH msgQueue <- netQueue, running <- netRunning,
              receives <- netReceives, handler <- netHandler,
              AckMessages <- UseAck, Datagram <- NetIncoming

confVars == <<confQueue, confRunning, confReceives, confHandler>>
netVars == <<netQueue, netRunning, netReceives, netHandler>>
readers == <<confVars, netVars, flagged, arrived>>
flags == <<running, hasIncoming, command, nodeInitiatedShutdownStarted>>
incoming == <<ipc, inHand, reading, handled, late>>
commanding == <<cpc, cmd, executed>>
output == <<writer, outbox, early>>
vars == <<flags, guard, incoming, commanding, apc, spc, readers, output>>

Stopper == {"owner", "node"}

-----------------------------------------------------------------------------
Init ==
  /\ running = TRUE /\ hasIncoming = FALSE /\ command = ""
  /\ nodeInitiatedShutdownStarted = FALSE /\ guard = None
  /\ ipc = "loop" /\ inHand = None /\ reading = "conf"
  /\ cpc = "loop" /\ cmd = ""
  /\ apc = [a \in App |-> "ready"] /\ spc = [s \in Stopper |-> "ready"]
  /\ confQueue = <<>> /\ confRunning = TRUE /\ confReceives = 1 /\ confHandler = "none"
  /\ netQueue = <<>> /\ netRunning = TRUE /\ netReceives = 1 /\ netHandler = "none"
  /\ flagged = FALSE /\ writer = "starting"
  /\ arrived = [conf |-> {}, net |-> {}] /\ outbox = <<>> /\ early = <<>>
  /\ late = 0 /\ executed = <<>>
  /\ handled = [conf |-> <<>>, net |-> <<>>]

\* condition.notify_all(): whoever is blocked competes for the mutex again.
Woken(pc) == IF pc = "blocked" THEN "locking" ELSE pc
NotifyAll == ipc' = Woken(ipc) /\ cpc' = Woken(cpc)

\* Were the configuration writer given every package ...
AcceptsAll(p) == Writer # "none"

\* The writer's thread begins: it sets running, whenever it gets to run; only
\* then does write() accept packages, and stop() know that it has to stop it.
WriterBegin ==
  /\ writer = "starting" /\ writer' = "sending"
  /\ UNCHANGED <<flags, guard, incoming, commanding, apc, spc, readers, outbox, early>>

\* sendData(): the node's origin is set, and its writer takes the package, if it
\* is one that it is for; before its thread has begun, and once it is stopped,
\* it drops it.  No list of handlers sends more than one.
WithOrigin(p) == [p EXCEPT !.origin = [host |-> None, port |-> ListeningPort]]
Accepts(p) ==
  \/ Writer = "network"
  \/ Writer = "config" /\ p.type \in {"Configuration", "Acknowledgement"}
Given(seq, ps) ==
  IF ps # <<>> /\ Accepts(Head(ps)) THEN Append(seq, WithOrigin(Head(ps))) ELSE seq
sendData(ps) ==
  /\ outbox' = IF writer = "sending" THEN Given(outbox, ps) ELSE outbox
  /\ early' = IF writer = "starting" THEN Given(early, ps) ELSE early

Control(text) ==
  [uid |-> FreshUuid, type |-> "Control", payload |-> text,
   origin |-> NoAddress, destination |-> NoAddress]

handlers == WithOwn(Added)

-----------------------------------------------------------------------------
(***************************************************************************)
(* The io thread: handleReceive() of either reader, and receivedData().    *)
(***************************************************************************)
IoIdle == confHandler = "none" /\ netHandler = "none"
Rest == <<guard, incoming, commanding, apc, spc, output>>

Complete ==
  /\ IoIdle
  /\ \/ Conf!Complete /\ UNCHANGED netVars
     \/ Net!Complete /\ UNCHANGED confVars
  /\ UNCHANGED <<flags, flagged, arrived, Rest>>

Receive ==
  /\ \/ \E d \in ConfIncoming \ arrived.conf :
          /\ Conf!HandlePackage(d) /\ UNCHANGED netVars
          /\ arrived' = [arrived EXCEPT !.conf = @ \cup {d}]
     \/ \E d \in NetIncoming \ arrived.net :
          /\ Net!HandlePackage(d) /\ UNCHANGED confVars
          /\ arrived' = [arrived EXCEPT !.net = @ \cup {d}]
  /\ UNCHANGED <<flags, flagged, Rest>>

ReceiveNothing ==
  /\ \/ (Conf!HandleGarbage \/ Conf!HandleError) /\ UNCHANGED netVars
     \/ (Net!HandleGarbage \/ Net!HandleError) /\ UNCHANGED confVars
  /\ UNCHANGED <<flags, flagged, arrived, Rest>>

receivedDataSet ==
  /\ confHandler = "notifying" \/ netHandler = "notifying"
  /\ ~flagged /\ flagged' = TRUE
  /\ hasIncoming' = TRUE
  /\ UNCHANGED <<running, command, nodeInitiatedShutdownStarted, confVars, netVars,
                 arrived, Rest>>

receivedDataNotify ==
  /\ flagged /\ flagged' = FALSE
  /\ NotifyAll
  /\ \/ Conf!Notified /\ UNCHANGED netVars
     \/ Net!Notified /\ UNCHANGED confVars
  /\ UNCHANGED <<flags, arrived, guard, inHand, reading, handled, late, cmd,
                 executed, apc, spc, output>>

ReadAgain ==
  /\ \/ Conf!ReadSocketAgain /\ UNCHANGED netVars
     \/ Net!ReadSocketAgain /\ UNCHANGED confVars
  /\ UNCHANGED <<flags, flagged, arrived, Rest>>

-----------------------------------------------------------------------------
(***************************************************************************)
(* threadFunc(): the incoming handler thread.                              *)
(***************************************************************************)
Elsewhere == <<apc, spc, confVars, netVars, flagged, arrived>>

IncomingLoop ==
  /\ ipc = "loop"
  /\ ipc' = IF running THEN "locking" ELSE "done"
  /\ UNCHANGED <<flags, guard, inHand, reading, handled, late, commanding,
                 output, Elsewhere>>

IncomingLock ==
  /\ ipc = "locking" /\ guard = None
  /\ guard' = "incoming" /\ ipc' = "testing"
  /\ UNCHANGED <<flags, inHand, reading, handled, late, commanding, output, Elsewhere>>

\* Were the end of the node not part of the predicate ...
IncomingTestData ==
  /\ ipc = "testing"
  /\ IF hasIncoming
     THEN guard' = None /\ ipc' = "checking"
     ELSE guard' = guard /\ ipc' = "blocking"
  /\ UNCHANGED <<flags, inHand, reading, handled, late, commanding, output, Elsewhere>>

\* The predicate of wait(), and what follows it: blocking is a later step.
IncomingTest ==
  /\ ipc = "testing"
  /\ IF hasIncoming \/ ~running
     THEN guard' = None /\ ipc' = "checking"
     ELSE guard' = guard /\ ipc' = "blocking"
  /\ UNCHANGED <<flags, inHand, reading, handled, late, commanding, output, Elsewhere>>

IncomingBlock ==
  /\ ipc = "blocking"
  /\ guard' = None /\ ipc' = "blocked"
  /\ UNCHANGED <<flags, inHand, reading, handled, late, commanding, output, Elsewhere>>

IncomingCheck ==
  /\ ipc = "checking"
  /\ IF running /\ hasIncoming
     THEN ipc' = "reading" /\ reading' = "conf"
     ELSE ipc' = "loop" /\ reading' = reading
  /\ UNCHANGED <<flags, guard, inHand, handled, late, commanding, output, Elsewhere>>

\* handlePackagesFrom(): the reader in turn is read ...
IncomingRead ==
  /\ ipc = "reading"
  /\ \/ /\ reading = "conf"
        /\ Conf!Read /\ inHand' = Conf!ReadResult
        /\ UNCHANGED netVars
     \/ /\ reading = "net"
        /\ Net!Read /\ inHand' = Net!ReadResult
        /\ UNCHANGED confVars
  /\ ipc' = "handling"
  /\ UNCHANGED <<flags, guard, reading, handled, late, commanding, apc, spc,
                 flagged, arrived, output>>

NextReader ==
  /\ inHand' = None
  /\ IF reading = "conf"
     THEN ipc' = "reading" /\ reading' = "net"
     ELSE ipc' = "clearing" /\ reading' = reading

\* Were running tested before the loop only ...
NoMorePackages == inHand # None => IsEmpty(inHand)

NoMore == (inHand # None => IsEmpty(inHand)) \/ ~running

\* ... until it has no more packages, or an empty one, or the node stops,
IncomingLeave ==
  /\ ipc = "handling" /\ NoMore
  /\ NextReader
  /\ UNCHANGED <<flags, guard, handled, late, commanding, output, Elsewhere>>

IsShutdown(p) == IsControl(p, "shutdown")

\* each of them going to the writer or to the handlers,
IncomingTake ==
  /\ ipc = "handling" /\ ~NoMore
  /\ ipc' = IF IsShutdown(inHand) THEN "forwarding" ELSE "passing"
  /\ UNCHANGED <<flags, guard, inHand, reading, handled, late, commanding,
                 output, Elsewhere>>

Handled ==
  /\ handled' = [handled EXCEPT ![reading] = Append(@, inHand)]
  /\ late' = IF running THEN late ELSE late + 1
  /\ UNCHANGED <<flags, guard, reading, commanding, writer, Elsewhere>>

IncomingPass ==
  /\ ipc = "passing"
  /\ sendData(IF inHand.type = "Acknowledgement" THEN <<inHand>> ELSE passToHandlers(handlers, inHand))
  /\ Handled
  /\ ipc' = "reading" /\ inHand' = None

\* Were the shutdown not passed on ...
IncomingShutdownOnly ==
  /\ ipc = "forwarding"
  /\ UNCHANGED <<outbox, early>>
  /\ Handled
  /\ ipc' = "commanding" /\ inHand' = None

\* or, if it is a shutdown, on to the next node; the command handler thread is
\* told to quit, and this reader is left.
IncomingShutdown ==
  /\ ipc = "forwarding"
  /\ sendData(<<inHand>>)
  /\ Handled
  /\ ipc' = "commanding" /\ inHand' = None

IncomingCommand ==
  /\ ipc = "commanding"
  /\ command' = "quit"
  /\ ipc' = "notifying"
  /\ UNCHANGED <<running, hasIncoming, nodeInitiatedShutdownStarted, guard, inHand,
                 reading, handled, late, commanding, output, Elsewhere>>

IncomingNotify ==
  /\ ipc = "notifying"
  /\ NextReader
  /\ cpc' = Woken(cpc)
  /\ UNCHANGED <<flags, guard, handled, late, cmd, executed, output, Elsewhere>>

IncomingClear ==
  /\ ipc = "clearing"
  /\ hasIncoming' = FALSE
  /\ ipc' = "loop"
  /\ UNCHANGED <<running, command, nodeInitiatedShutdownStarted, guard, inHand,
                 reading, handled, late, commanding, output, Elsewhere>>

IncomingStep ==
  \/ IncomingLoop \/ IncomingTest \/ IncomingBlock \/ IncomingCheck \/ IncomingRead
  \/ IncomingLeave \/ IncomingTake \/ IncomingPass \/ IncomingShutdown
  \/ IncomingCommand \/ IncomingNotify \/ IncomingClear

-----------------------------------------------------------------------------
(***************************************************************************)
(* The command handler thread executes commands inside the predicate of    *)
(* its wait(), hence with the mutex held.                                  *)
(***************************************************************************)
CommandLoop ==
  /\ cpc = "loop"
  /\ cpc' = CASE running -> "locking"
             [] ~running /\ nodeInitiatedShutdownStarted -> "stopping"
             [] OTHER -> "done"
  /\ UNCHANGED <<flags, guard, incoming, cmd, executed, output, Elsewhere>>

CommandLock ==
  /\ cpc = "locking" /\ guard = None
  /\ guard' = "command" /\ cpc' = "testing"
  /\ UNCHANGED <<flags, incoming, cmd, executed, output, Elsewhere>>

\* Were the slot not emptied ...
CommandCopy ==
  /\ cpc = "testing"
  /\ cmd' = command
  /\ cpc' = IF command # "" THEN "executing" ELSE "deciding"
  /\ UNCHANGED <<flags, guard, incoming, executed, output, Elsewhere>>

CommandTake ==
  /\ cpc = "testing"
  /\ cmd' = command /\ command' = ""
  /\ cpc' = IF command # "" THEN "executing" ELSE "deciding"
  /\ UNCHANGED <<running, hasIncoming, nodeInitiatedShutdownStarted, guard,
                 incoming, executed, output, Elsewhere>>

Sent(c) ==
  CASE c = "ping" -> <<Control(c)>>
    [] c = "readfile" -> IF HasDataFile THEN passToHandlers(handlers, Control(c)) ELSE <<>>
    [] c = "shutdown" -> <<Control(c)>>
    [] OTHER -> <<>>

CommandExecute ==
  /\ cpc = "executing"
  /\ IF running
     THEN /\ sendData(Sent(cmd))
          /\ executed' = Append(executed, cmd)
          /\ cpc' = IF cmd \in {"quit", "shutdown"} THEN "quitting" ELSE "deciding"
     ELSE UNCHANGED <<outbox, early, executed>> /\ cpc' = "deciding"
  /\ UNCHANGED <<flags, guard, incoming, cmd, writer, Elsewhere>>

CommandQuit ==
  /\ cpc = "quitting"
  /\ running' = FALSE /\ nodeInitiatedShutdownStarted' = TRUE
  /\ cpc' = "announcing"
  /\ UNCHANGED <<hasIncoming, command, guard, incoming, cmd, executed, output, Elsewhere>>

CommandAnnounce ==
  /\ cpc = "announcing"
  /\ ipc' = Woken(ipc)
  /\ cpc' = "deciding"
  /\ UNCHANGED <<flags, guard, inHand, reading, handled, late, cmd, executed,
                 output, Elsewhere>>

CommandDecide ==
  /\ cpc = "deciding"
  /\ IF command # "" \/ ~running
     THEN guard' = None /\ cpc' = "loop"
     ELSE guard' = guard /\ cpc' = "blocking"
  /\ UNCHANGED <<flags, incoming, cmd, executed, output, Elsewhere>>

\* Were the mutex kept while waiting ...
CommandBlockLocked ==
  /\ cpc = "blocking"
  /\ cpc' = "blocked"
  /\ UNCHANGED <<flags, guard, incoming, cmd, executed, output, Elsewhere>>

CommandBlock ==
  /\ cpc = "blocking"
  /\ guard' = None /\ cpc' = "blocked"
  /\ UNCHANGED <<flags, incoming, cmd, executed, output, Elsewhere>>

CommandEnd ==
  /\ cpc = "stopping" /\ spc["node"] = "stopped"
  /\ cpc' = "done"
  /\ UNCHANGED <<flags, guard, incoming, cmd, executed, output, Elsewhere>>

CommandStep ==
  \/ CommandLoop \/ CommandTake \/ CommandExecute \/ CommandQuit \/ CommandAnnounce
  \/ CommandDecide \/ CommandBlock \/ CommandEnd

-----------------------------------------------------------------------------
(***************************************************************************)
(* The application's threads: handleCommand() and stop().  The command     *)
(* handler thread calls stop() too when the node has quit by itself.       *)
(***************************************************************************)
HandleCommand(a) ==
  /\ apc[a] = "ready"
  /\ command' = AppCommand[a]
  /\ apc' = [apc EXCEPT ![a] = "notifying"]
  /\ UNCHANGED <<running, hasIncoming, nodeInitiatedShutdownStarted, guard,
                 incoming, commanding, spc, readers, output>>

NotifyCommand(a) ==
  /\ apc[a] = "notifying"
  /\ NotifyAll
  /\ apc' = [apc EXCEPT ![a] = "done"]
  /\ UNCHANGED <<flags, guard, inHand, reading, handled, late, cmd, executed,
                 spc, readers, output>>

StopFrom(s, from, to) == spc[s] = from /\ spc' = [spc EXCEPT ![s] = to]
BesideStop == <<guard, inHand, reading, handled, late, cmd, executed, apc, arrived,
                flagged, outbox, early>>

StopRunning(s) ==
  /\ IF s = "owner" THEN OwnerStops ELSE cpc = "stopping"
  /\ StopFrom(s, "ready", "notifying")
  /\ running' = FALSE
  /\ UNCHANGED <<hasIncoming, command, nodeInitiatedShutdownStarted, ipc, cpc,
                 confVars, netVars, writer, BesideStop>>

StopNotify(s) ==
  /\ StopFrom(s, "notifying", "reader")
  /\ NotifyAll
  /\ UNCHANGED <<flags, confVars, netVars, writer, BesideStop>>

StopReader(s) ==
  /\ StopFrom(s, "reader", "configReader")
  /\ IF netRunning THEN Net!Stop ELSE UNCHANGED netVars
  /\ UNCHANGED <<flags, ipc, cpc, confVars, writer, BesideStop>>

StopConfigReader(s) ==
  /\ StopFrom(s, "configReader", "writer")
  /\ IF confRunning THEN Conf!Stop ELSE UNCHANGED confVars
  /\ UNCHANGED <<flags, ipc, cpc, netVars, writer, BesideStop>>

\* Only a writer that is running is stopped: one whose thread has not begun is
\* passed over, and begins afterwards.
StopWriter(s) ==
  /\ StopFrom(s, "writer", "stopped")
  /\ writer' = IF writer = "sending" THEN "stopped" ELSE writer
  /\ UNCHANGED <<flags, ipc, cpc, confVars, netVars, BesideStop>>

StopStep(s) == StopNotify(s) \/ StopReader(s) \/ StopConfigReader(s) \/ StopWriter(s)

\* A thread may wake although nobody notified it.
SpuriousWakeup ==
  /\ \/ ipc = "blocked" /\ ipc' = "locking" /\ cpc' = cpc
     \/ cpc = "blocked" /\ cpc' = "locking" /\ ipc' = ipc
  /\ UNCHANGED <<flags, guard, inHand, reading, handled, late, cmd, executed,
                 apc, spc, readers, output>>

-----------------------------------------------------------------------------
IoStep ==
  Receive \/ ReceiveNothing \/ receivedDataSet \/ receivedDataNotify \/ ReadAgain
Next ==
  \/ Complete \/ IoStep
  \/ IncomingStep \/ IncomingLock
  \/ CommandStep \/ CommandLock
  \/ \E a \in App : HandleCommand(a) \/ NotifyCommand(a)
  \/ \E s \in Stopper : StopRunning(s) \/ StopStep(s)
  \/ SpuriousWakeup \/ WriterBegin

Spec == Init /\ [][Next]_vars

\* Every thread that can go on is scheduled, and gets a mutex that is free
\* again and again.  Datagrams need not come, nor commands, nor spurious
\* wakeups, and the owner need not call stop().
FairSpec ==
  /\ Spec
  /\ WF_vars(IoStep)
  /\ WF_vars(IncomingStep) /\ SF_vars(IncomingLock)
  /\ WF_vars(CommandStep) /\ SF_vars(CommandLock)
  /\ \A a \in App : WF_vars(NotifyCommand(a))
  /\ \A s \in Stopper : WF_vars(StopStep(s))
  /\ WF_vars(StopRunning("node"))
  /\ WF_vars(WriterBegin)

-----------------------------------------------------------------------------
\* The types of the variables; the mutex is owned by the thread that is in
\* the predicate of its wait(), and by no other.
TypeOK ==
  /\ running \in BOOLEAN /\ hasIncoming \in BOOLEAN
  /\ nodeInitiatedShutdownStarted \in BOOLEAN /\ command \in Command \cup {""}
  /\ guard \in {"incoming", "command", None}
  /\ guard = "incoming" <=> ipc \in {"testing", "blocking"}
  /\ guard = "command" <=> cpc \in {"testing", "executing", "quitting", "announcing",
                                   "deciding", "blocking"}
  /\ inHand \in Packages \cup {None} /\ reading \in {"conf", "net"}
  /\ Conf!TypeOK /\ Net!TypeOK
  /\ flagged => (confHandler = "notifying" \/ netHandler = "notifying")
  /\ writer \in {"starting", "sending", "stopped"}
  /\ outbox \in Seq(Packages) /\ early \in Seq(Packages) /\ executed \in Seq(Command)

\* The handler thread looks at running before each package, so at most one
\* package is handled after running was reset, whoever resets it and when.
AtMostOneLate == late <= 1

\* How often the members of S stand in the sequence s.
Occurrences(s, S) == Cardinality({i \in 1 .. Len(s) : s[i] \in S})
Shutdowns == {p \in Packages : IsShutdown(p)}
IssuedByApp(c) == Cardinality({a \in App : AppCommand[a] = c /\ apc[a] # "ready"})

\* No command is executed more often than it was issued, by the application
\* or by a shutdown package, although the threads overwrite one slot.
Issued(c) ==
  IssuedByApp(c) + IF c # "quit" THEN 0 ELSE Occurrences(handled.conf, Shutdowns)
                                             + Occurrences(handled.net, Shutdowns)
ExecutedWhenIssued == \A c \in Command : Occurrences(executed, {c}) <= Issued(c)

\* A node does not quit for a shutdown package that its network writer has not
\* accepted for the next node: should the owner stop the writer before the
\* package is passed on, running is FALSE when the command would be executed.
\* The one exception is a package so early that the writer's thread has not
\* begun: it is dropped, and the node quits without the next one.
ShutdownsWritten == Occurrences(outbox, Shutdowns) + Occurrences(early, Shutdowns)
ShutdownPassedOn ==
  Writer = "network" => Occurrences(executed, {"quit"}) <= IssuedByApp("quit") + ShutdownsWritten

\* An acknowledgement goes upstream only once this node's handlers have seen
\* the data that it acknowledges: the sender forgets nothing unhandled.
AcknowledgedAfterHandled ==
  \A i \in 1 .. Len(outbox) :
    outbox[i].type = "Acknowledgement" /\ HasDestination(outbox[i]) =>
      \E r \in {"conf", "net"} : \E p \in Range(handled[r]) :
        p.type = "Data" /\ SamePackage(p, outbox[i])

\* While the node runs, every package that has come, and every acknowledgement
\* that a reader has queued for one, is in one place: in its reader's queue, in
\* the handler thread's hands, or handled; none is lost, handled twice or made
\* up, although three threads touch the queues.  (A stop loses the package that
\* is in hand; an empty one is left on purpose.)
Arrivals(r) == IF r = "conf" THEN ConfIncoming ELSE NetIncoming
Hand(r) == IF reading = r /\ inHand # None THEN <<inHand>> ELSE <<>>
Queue(r) == IF r = "conf" THEN confQueue ELSE netQueue
Held(r) == handled[r] \o Hand(r) \o Queue(r)
Acknowledges(d, p) ==
  UseAck /\ Received(d).type = "Data" /\ AckFor(Received(d)) = p
Came(r, p) ==
  Cardinality({d \in arrived[r] : Received(d) = p})
    + Cardinality({d \in arrived[r] : Acknowledges(d, p)})
NothingLost ==
  running => \A r \in {"conf", "net"} :
    \A p \in Range(Held(r)) \cup UNION {{Received(d), AckFor(Received(d))} : d \in arrived[r]} :
      IsEmpty(p) \/ Occurrences(Held(r), {p}) = Came(r, p)

\* What is in hand and what waits behind it, reader by reader, is the queue of a
\* NodeQueue: whatever the threads, the stops and the commands do, packages are
\* handled one at a time and in order, and a writer whose thread has begun gets
\* what a node that does nothing else would give it, until it is stopped.
Promise == INSTANCE NodeQueue
             WITH queue <- [r \in {"conf", "net"} |-> Hand(r) \o Queue(r)]
ImplementsNodeQueue == Promise!NodeSpec

\* Once a stop() is through, neither reader has a receive on its socket, even
\* if the io thread was inside handleReceive() meanwhile.  (Of the writer this
\* is not true: one whose thread begins late outlives the stop.)
StoppedReceivesNothing ==
  (\E s \in Stopper : spc[s] = "stopped") =>
    ~running /\ confReceives = 0 /\ netReceives = 0

\* A node that quits by itself ends both handler threads: the command thread
\* resets running with the mutex held, so its notification cannot be missed.
QuitEndsThreads == ~running ~> ipc = "done" /\ cpc = "done"

\* ProcessorNode.cpp:788: when data has been received the handler thread is
\* notified, "which executes and handles the incoming data".
ReceivedIsHandled ==
  \A r \in {"conf", "net"} : \A d \in Arrivals(r) :
    d \in arrived[r] ~> ~running \/ \E p \in Range(handled[r]) : p.uid = d.json.package

\* JSONDocs.md:67: a package of type "command" with payload "shutdown" is
\* passed on, "and 2) the Node shuts itself down": once it is in the handler
\* thread's hands in a running node, forwarding it is what comes next.
IsDocumentedShutdown(d) == d.json.type = "command" /\ d.json.payload = "shutdown"
DocumentedShutdown ==
  [][\A d \in ConfIncoming \cup NetIncoming :
       (/\ IsDocumentedShutdown(d)
        /\ running /\ ipc = "handling" /\ ipc' # ipc
        /\ inHand \in Packages /\ SamePackage(inHand, FromJson(d.json)))
       => ipc' = "forwarding"]_vars
=============================================================================
