-------------------------- MODULE ProcessorNodeProofs --------------------------
(***************************************************************************)
(* What holds of a started node in every interleaving of its threads, for  *)
(* any datagrams, commands, handlers and any number of application's       *)
(* threads.                                                                *)
(***************************************************************************)
EXTENDS ProcessorNode, HandlersProofs, PackageProofs, FiniteSetTheorems

(***************************************************************************)
(* The inductive invariant.                                                *)
(***************************************************************************)
FlagTypes ==
  /\ running \in BOOLEAN /\ hasIncoming \in BOOLEAN
  /\ nodeInitiatedShutdownStarted \in BOOLEAN /\ command \in Command \cup {""}

MutexOwned ==
  /\ guard \in {"incoming", "command", None}
  /\ guard = "incoming" <=> ipc \in {"testing", "blocking"}
  /\ guard = "command" <=> cpc \in {"testing", "executing", "quitting", "announcing",
                                   "deciding", "blocking"}

RunningTyped == confRunning \in BOOLEAN /\ netRunning \in BOOLEAN
Handler == {"none", "completed", "notifying", "rereading"}
ReadersTyped ==
  /\ confQueue \in Seq(Packages) /\ netQueue \in Seq(Packages)
  /\ confReceives \in Nat /\ netReceives \in Nat
  /\ confHandler \in Handler /\ netHandler \in Handler
  /\ flagged => (confHandler = "notifying" \/ netHandler = "notifying")

\* A package is in hand while it is handled, and at no other time; a command is
\* taken before it is executed.
Busy == {"handling", "passing", "forwarding"}
HandsTyped ==
  /\ inHand \in Packages \cup {None} /\ reading \in {"conf", "net"}
  /\ ipc \notin Busy => inHand = None
  /\ ipc \in {"passing", "forwarding"} => inHand # None
  /\ cmd \in Command \cup {""} /\ (cpc = "executing" => cmd # "")

HistoryTyped ==
  outbox \in Seq(Packages) /\ early \in Seq(Packages) /\ executed \in Seq(Command)

\* Nothing is late while the node runs, and what is about to be handled was
\* taken while it ran.
LateInv ==
  /\ running => late = 0
  /\ ipc \in {"passing", "forwarding"} => late = 0
  /\ late \in {0, 1}

\* How far a stop() has come is what has been stopped; a reader that is stopped
\* has nothing on its socket.
StopInv ==
  /\ spc \in [Stopper -> {"ready", "notifying", "reader", "configReader", "writer", "stopped"}]
  /\ \A s \in Stopper :
       /\ spc[s] # "ready" => running = FALSE
       /\ spc[s] \in {"configReader", "writer", "stopped"} => netRunning = FALSE
       /\ spc[s] \in {"writer", "stopped"} => confRunning = FALSE
  /\ confRunning = FALSE => confReceives = 0
  /\ netRunning = FALSE => netReceives = 0
  /\ writer \in {"starting", "sending", "stopped"} /\ (writer = "stopped" => running = FALSE)

\* The acknowledgement of data never overtakes it: in a reader's queue it has
\* its data before it, unless the data has got to the handler thread already.
\* A handler thread that was not told to leave has handled the data of the
\* acknowledgement that it has in hand.
DataOf(p, a) == p.type = "Data" /\ SamePackage(p, a)
Acks(p) == p.type = "Acknowledgement" /\ HasDestination(p)
Seen(seq, a) == \E p \in Range(seq) : DataOf(p, a)
InOrder(seen, hand, q) ==
  \A i \in 1 .. Len(q) : Acks(q[i]) =>
    \/ Seen(seen, q[i])
    \/ hand # None /\ DataOf(hand, q[i])
    \/ \E j \in 1 .. i - 1 : DataOf(q[j], q[i])
HandOf(r) == IF reading = r THEN inHand ELSE None
AckInv ==
  /\ handled \in [{"conf", "net"} -> Seq(Packages)]
  /\ AcknowledgedAfterHandled
  /\ inHand # None /\ Acks(inHand) /\ (running \/ ipc # "handling") =>
       Seen(handled[reading], inHand)
  /\ running => \A r \in {"conf", "net"} : InOrder(handled[r], HandOf(r), Queue(r))

-----------------------------------------------------------------------------
\* The parts whose variables a step leaves alone.
LEMMA MutexKept ==
  ASSUME MutexOwned, UNCHANGED <<guard, ipc, cpc>> PROVE MutexOwned'
  BY DEF MutexOwned

\* Neither a wakeup nor a notification moves a thread that has the mutex.
LEMMA MutexWoken ==
  ASSUME MutexOwned, guard' = guard, ipc' \in {ipc, Woken(ipc)}, cpc' \in {cpc, Woken(cpc)}
  PROVE  MutexOwned'
  BY DEF MutexOwned, Woken

LEMMA MutexNext == MutexOwned /\ [Next]_vars => MutexOwned'
<1> SUFFICES ASSUME MutexOwned, [Next]_vars PROVE MutexOwned'
  OBVIOUS
<1> USE DEF flags, incoming, commanding, Elsewhere, Rest, BesideStop
<1>0. "incoming" # "command" /\ None # "incoming" /\ None # "command"
  BY NodeAssumption
<1>1. CASE Complete \/ Receive \/ ReceiveNothing \/ receivedDataSet \/ ReadAgain
  BY <1>1, MutexKept DEF Complete, Receive, ReceiveNothing, receivedDataSet, ReadAgain
<1>2. CASE receivedDataNotify \/ SpuriousWakeup \/ WriterBegin
  BY <1>2, MutexWoken DEF receivedDataNotify, SpuriousWakeup, WriterBegin, NotifyAll, Woken
<1>3. ASSUME NEW a \in App, HandleCommand(a) \/ NotifyCommand(a) PROVE MutexOwned'
  BY <1>3, MutexKept, MutexWoken DEF HandleCommand, NotifyCommand, NotifyAll
<1>4. ASSUME NEW s \in Stopper, StopRunning(s) \/ StopStep(s) PROVE MutexOwned'
  BY <1>4, MutexKept, MutexWoken DEF StopRunning, StopStep, StopNotify, StopReader,
     StopConfigReader, StopWriter, NotifyAll
<1>5. CASE IncomingLoop \/ IncomingLock \/ IncomingTest \/ IncomingBlock \/ IncomingCheck
  BY <1>0, <1>5 DEF MutexOwned, IncomingLoop, IncomingLock, IncomingTest, IncomingBlock,
     IncomingCheck
<1>6. CASE IncomingRead \/ IncomingLeave \/ IncomingTake \/ IncomingPass \/ IncomingShutdown
           \/ IncomingCommand \/ IncomingClear
  BY <1>6 DEF MutexOwned, IncomingRead, IncomingLeave, IncomingTake, IncomingPass,
     IncomingShutdown, IncomingCommand, IncomingClear, NextReader, Handled
<1>7. CASE IncomingNotify
  BY <1>7 DEF MutexOwned, IncomingNotify, NextReader, Woken
<1>8. CASE CommandLoop \/ CommandLock \/ CommandTake \/ CommandExecute \/ CommandQuit
  BY <1>0, <1>8 DEF MutexOwned, CommandLoop, CommandLock, CommandTake, CommandExecute, CommandQuit
<1>9. CASE CommandAnnounce \/ CommandDecide \/ CommandBlock \/ CommandEnd
  BY <1>0, <1>9 DEF MutexOwned, CommandAnnounce, CommandDecide, CommandBlock, CommandEnd, Woken
<1>10. CASE UNCHANGED vars
  BY <1>10, MutexKept DEF vars
<1> QED
  BY <1>1, <1>2, <1>3, <1>4, <1>5, <1>6, <1>7, <1>8, <1>9, <1>10
  DEF Next, IoStep, IncomingStep, CommandStep

LEMMA FlagsNext == FlagTypes /\ [Next]_vars => FlagTypes'
<1> SUFFICES ASSUME FlagTypes, [Next]_vars PROVE FlagTypes'
  OBVIOUS
<1> USE DEF flags, Elsewhere, Rest, BesideStop
<1>1. CASE UNCHANGED flags
  BY <1>1 DEF FlagTypes
<1>2. CASE Complete \/ Receive \/ ReceiveNothing \/ receivedDataNotify \/ ReadAgain \/ SpuriousWakeup \/ WriterBegin
  BY <1>1, <1>2 DEF Complete, Receive, ReceiveNothing, receivedDataNotify, ReadAgain, SpuriousWakeup, WriterBegin
<1>3. CASE receivedDataSet
  BY <1>3 DEF FlagTypes, receivedDataSet
<1>4. ASSUME NEW a \in App, HandleCommand(a) \/ NotifyCommand(a) PROVE FlagTypes'
  <2>1. AppCommand[a] \in Command
    BY NodeAssumption
  <2> QED
    BY <1>4, <2>1 DEF FlagTypes, HandleCommand, NotifyCommand
<1>5. ASSUME NEW s \in Stopper, StopRunning(s) PROVE FlagTypes'
  BY <1>5 DEF FlagTypes, StopRunning
<1>6. ASSUME NEW s \in Stopper, StopStep(s) PROVE FlagTypes'
  BY <1>1, <1>6 DEF StopStep, StopNotify, StopReader, StopConfigReader, StopWriter
<1>7. CASE IncomingLoop \/ IncomingLock \/ IncomingTest \/ IncomingBlock \/ IncomingCheck
           \/ IncomingRead \/ IncomingLeave \/ IncomingTake \/ IncomingPass
           \/ IncomingShutdown \/ IncomingNotify
  BY <1>1, <1>7 DEF IncomingLoop, IncomingLock, IncomingTest, IncomingBlock, IncomingCheck,
     IncomingRead, IncomingLeave, IncomingTake, IncomingPass, IncomingShutdown, IncomingNotify,
     Handled
<1>8. CASE IncomingCommand \/ IncomingClear
  BY <1>8 DEF FlagTypes, IncomingCommand, IncomingClear, Command
<1>9. CASE CommandLoop \/ CommandLock \/ CommandExecute \/ CommandAnnounce
           \/ CommandDecide \/ CommandBlock \/ CommandEnd
  BY <1>1, <1>9 DEF CommandLoop, CommandLock, CommandExecute, CommandAnnounce, CommandDecide,
     CommandBlock, CommandEnd
<1>10. CASE CommandTake \/ CommandQuit
  BY <1>10 DEF FlagTypes, CommandTake, CommandQuit
<1>11. CASE UNCHANGED vars
  BY <1>1, <1>11 DEF vars
<1> QED
  BY <1>2, <1>3, <1>4, <1>5, <1>6, <1>7, <1>8, <1>9, <1>10, <1>11
  DEF Next, IoStep, IncomingStep, CommandStep

-----------------------------------------------------------------------------
(***************************************************************************)
(* The two readers: what a datagram adds to a queue, and what the node     *)
(* does with either of them.                                               *)
(***************************************************************************)
LEMMA SamePackages == Conf!Packages = Packages /\ Net!Packages = Packages
  BY DEF Conf!Packages, Conf!Type, Conf!Address, Net!Packages, Net!Type, Net!Address,
         Packages, Type, Address

LEMMA SameArrival ==
  ASSUME NEW d
  PROVE  /\ Conf!Arrival(UseAck, Conf!Received(d)) = Arrival(UseAck, Received(d))
         /\ Net!Arrival(UseAck, Net!Received(d)) = Arrival(UseAck, Received(d))
<1>1. Conf!Received(d) = Received(d) /\ Net!Received(d) = Received(d)
  BY DEF Conf!Received, Conf!FromJson, Conf!OriginOf, Conf!TypeFromString, Conf!TypeAsString,
         Conf!Type, Conf!NoAddress, Net!Received, Net!FromJson, Net!OriginOf, Net!TypeFromString,
         Net!TypeAsString, Net!Type, Net!NoAddress, Received, FromJson, OriginOf,
         TypeFromString, TypeAsString, Type, NoAddress
<1>2. ASSUME NEW p PROVE Conf!AckFor(p) = AckFor(p) /\ Net!AckFor(p) = AckFor(p)
  BY DEF Conf!AckFor, Net!AckFor, AckFor, Conf!NoAddress, Net!NoAddress, NoAddress
<1> QED
  BY <1>1, <1>2 DEF Conf!Arrival, Net!Arrival, Arrival

LEMMA ArrivalType ==
  ASSUME NEW d \in ConfIncoming \cup NetIncoming
  PROVE  /\ Received(d) \in Packages /\ AckFor(Received(d)) \in Packages
         /\ AckFor(Received(d)).type = "Acknowledgement"
         /\ AckFor(Received(d)).uid = Received(d).uid
         /\ Received(d).destination = NoAddress
         /\ Arrival(UseAck, Received(d)) \in Seq(Packages)
<1> DEFINE p == Received(d)
           a == AckFor(p)
<1>1. d.json \in Json /\ d.from \in Address /\ "ack" \in Text
  BY NodeAssumption DEF Address
<1>2. p \in Packages /\ p.destination = NoAddress
  BY <1>1, ReceivedType
<1>3. a \in Packages /\ a.type = "Acknowledgement" /\ a.uid = p.uid
  BY <1>1, <1>2, AckForType
<1>4. Arrival(UseAck, p) = IF UseAck /\ p.type = "Data" THEN <<p, a>> ELSE <<p>>
  BY DEF Arrival
<1> HIDE DEF p, a
<1>5. Arrival(UseAck, p) \in Seq(Packages)
  BY <1>2, <1>3, <1>4
<1> QED
  BY <1>2, <1>3, <1>5 DEF p, a

ReaderStep ==
  \/ Complete \/ IoStep \/ IncomingRead
  \/ \E s \in Stopper : StopReader(s) \/ StopConfigReader(s)

LEMMA OtherSteps ==
  ASSUME [Next]_vars, ~ReaderStep
  PROVE  UNCHANGED <<confVars, netVars, flagged, arrived>>
<1> USE DEF Elsewhere, readers, BesideStop
<1>1. CASE IncomingStep \/ IncomingLock
  BY <1>1 DEF ReaderStep, IncomingStep, IncomingLock, IncomingLoop, IncomingTest, IncomingBlock,
     IncomingCheck, IncomingLeave, IncomingTake, IncomingPass, IncomingShutdown, IncomingCommand,
     IncomingNotify, IncomingClear, Handled
<1>2. CASE CommandStep \/ CommandLock
  BY <1>2 DEF CommandStep, CommandLock, CommandLoop, CommandTake, CommandExecute, CommandQuit,
     CommandAnnounce, CommandDecide, CommandBlock, CommandEnd
<1>3. ASSUME NEW a \in App, HandleCommand(a) \/ NotifyCommand(a)
      PROVE  UNCHANGED <<confVars, netVars, flagged, arrived>>
  BY <1>3 DEF HandleCommand, NotifyCommand
<1>4. ASSUME NEW s \in Stopper, StopRunning(s) \/ StopStep(s)
      PROVE  UNCHANGED <<confVars, netVars, flagged, arrived>>
  BY <1>4 DEF ReaderStep, StopRunning, StopStep, StopNotify, StopWriter
<1>5. CASE SpuriousWakeup \/ WriterBegin \/ UNCHANGED vars
  BY <1>5 DEF SpuriousWakeup, WriterBegin, vars
<1> QED
  BY <1>1, <1>2, <1>3, <1>4, <1>5 DEF Next, ReaderStep

LEMMA RunningNext == RunningTyped /\ [Next]_vars => RunningTyped'
<1> SUFFICES ASSUME RunningTyped, [Next]_vars PROVE RunningTyped'
  OBVIOUS
<1> USE DEF confVars, netVars, BesideStop
<1>1. CASE UNCHANGED <<confRunning, netRunning>>
  BY <1>1 DEF RunningTyped
<1>2. CASE ~ReaderStep
  BY <1>1, <1>2, OtherSteps
<1>3. CASE Complete \/ IoStep \/ IncomingRead
  BY <1>1, <1>3 DEF Complete, IoStep, Receive, ReceiveNothing, receivedDataSet,
     receivedDataNotify, ReadAgain, IncomingRead,
     Conf!Complete, Conf!HandlePackage, Conf!HandleGarbage, Conf!HandleError, Conf!Notified,
     Conf!ReadSocketAgain, Conf!Read, Net!Complete, Net!HandlePackage, Net!HandleGarbage,
     Net!HandleError, Net!Notified, Net!ReadSocketAgain, Net!Read
<1>4. ASSUME NEW s \in Stopper, StopReader(s) \/ StopConfigReader(s) PROVE RunningTyped'
  <2>1. /\ netRunning' = netRunning \/ netRunning' = FALSE
        /\ confRunning' = confRunning \/ confRunning' = FALSE
    BY <1>4 DEF StopReader, StopConfigReader, Conf!Stop, Net!Stop
  <2> QED
    BY <2>1 DEF RunningTyped
<1> QED
  BY <1>2, <1>3, <1>4 DEF ReaderStep

LEMMA ReadersNext == ReadersTyped /\ [Next]_vars => ReadersTyped'
<1> SUFFICES ASSUME ReadersTyped, [Next]_vars PROVE ReadersTyped'
  OBVIOUS
<1> USE DEF confVars, netVars, ReadersTyped, Handler
<1>1. CASE ~ReaderStep
  BY <1>1, OtherSteps
<1>2. CASE Complete
  BY <1>2 DEF Complete, IoIdle, Conf!Complete, Net!Complete
<1>3. CASE Receive
  <2>1. PICK d \in ConfIncoming \cup NetIncoming :
          \/ Conf!HandlePackage(d) /\ UNCHANGED netVars
          \/ Net!HandlePackage(d) /\ UNCHANGED confVars
    BY <1>3 DEF Receive
  <2> DEFINE t == Arrival(UseAck, Received(d))
  <2>2. t \in Seq(Packages)
    BY ArrivalType
  <2>3. Conf!Arrival(UseAck, Conf!Received(d)) = t /\ Net!Arrival(UseAck, Net!Received(d)) = t
    BY SameArrival
  <2> HIDE DEF t
  <2>4. CASE Conf!HandlePackage(d) /\ UNCHANGED netVars
    BY <1>3, <2>2, <2>3, <2>4 DEF Receive, Conf!HandlePackage
  <2>5. CASE Net!HandlePackage(d) /\ UNCHANGED confVars
    BY <1>3, <2>2, <2>3, <2>5 DEF Receive, Net!HandlePackage
  <2> QED
    BY <2>1, <2>4, <2>5
<1>4. CASE ReceiveNothing
  BY <1>4 DEF ReceiveNothing, Conf!HandleGarbage, Conf!HandleError, Net!HandleGarbage,
     Net!HandleError
<1>5. CASE receivedDataSet
  BY <1>5 DEF receivedDataSet
<1>6. CASE receivedDataNotify
  BY <1>6 DEF receivedDataNotify, Conf!Notified, Net!Notified
<1>7. CASE ReadAgain
  BY <1>7 DEF ReadAgain, Conf!ReadSocketAgain, Net!ReadSocketAgain
<1>8. CASE IncomingRead
  <2>1. UNCHANGED <<confReceives, confHandler, netReceives, netHandler, flagged>>
    BY <1>8 DEF IncomingRead, Conf!Read, Net!Read
  <2>2. /\ confQueue' = confQueue \/ (confQueue # <<>> /\ confQueue' = Tail(confQueue))
        /\ netQueue' = netQueue \/ (netQueue # <<>> /\ netQueue' = Tail(netQueue))
    BY <1>8, Zenon DEF IncomingRead, Conf!Read, Net!Read
  <2>3. \A q \in Seq(Packages) : q # <<>> => Tail(q) \in Seq(Packages)
    OBVIOUS
  <2>4. confQueue' \in Seq(Packages) /\ netQueue' \in Seq(Packages)
    BY <2>2, <2>3
  <2> QED
    BY <2>1, <2>4
<1>9. ASSUME NEW s \in Stopper, StopReader(s) \/ StopConfigReader(s) PROVE ReadersTyped'
  <2>1. /\ UNCHANGED <<confQueue, netQueue, confHandler, netHandler, flagged>>
        /\ netReceives' = netReceives \/ netReceives' = 0
        /\ confReceives' = confReceives \/ confReceives' = 0
    BY <1>9 DEF StopReader, StopConfigReader, Conf!Stop, Net!Stop, BesideStop
  <2> QED
    BY <2>1
<1> QED
  BY <1>1, <1>2, <1>3, <1>4, <1>5, <1>6, <1>7, <1>8, <1>9 DEF ReaderStep, IoStep

-----------------------------------------------------------------------------
(***************************************************************************)
(* What the two handler threads have in hand.                              *)
(***************************************************************************)
LEMMA HandsKept ==
  ASSUME HandsTyped, UNCHANGED <<inHand, reading, cmd>>,
         ipc' \in {ipc, Woken(ipc)}, cpc' \in {cpc, Woken(cpc)}
  PROVE  HandsTyped'
  BY DEF HandsTyped, Woken, Busy

LEMMA HandsNext ==
  ReadersTyped /\ FlagTypes /\ HandsTyped /\ [Next]_vars => HandsTyped'
<1> SUFFICES ASSUME ReadersTyped, FlagTypes, HandsTyped, [Next]_vars PROVE HandsTyped'
  OBVIOUS
<1> USE DEF incoming, commanding, Rest, BesideStop
<1>1. CASE Complete \/ IoStep \/ SpuriousWakeup \/ WriterBegin
  BY <1>1, HandsKept DEF Complete, IoStep, Receive, ReceiveNothing, receivedDataSet,
     receivedDataNotify, ReadAgain, SpuriousWakeup, WriterBegin, NotifyAll, Woken
<1>2. ASSUME NEW a \in App, HandleCommand(a) \/ NotifyCommand(a) PROVE HandsTyped'
  BY <1>2, HandsKept DEF HandleCommand, NotifyCommand, NotifyAll
<1>3. ASSUME NEW s \in Stopper, StopRunning(s) \/ StopStep(s) PROVE HandsTyped'
  BY <1>3, HandsKept DEF StopRunning, StopStep, StopNotify, StopReader, StopConfigReader,
     StopWriter, NotifyAll
<1>4. CASE IncomingLoop \/ IncomingLock \/ IncomingTest \/ IncomingBlock \/ IncomingCheck
           \/ IncomingClear \/ IncomingCommand
  BY <1>4 DEF HandsTyped, Busy, IncomingLoop, IncomingLock, IncomingTest, IncomingBlock,
     IncomingCheck, IncomingClear, IncomingCommand
<1>5. CASE IncomingRead
  <2>1. confQueue \in Seq(Packages) /\ netQueue \in Seq(Packages)
    BY DEF ReadersTyped
  <2>2. Conf!ReadResult \in Packages \cup {None} /\ Net!ReadResult \in Packages \cup {None}
    BY <2>1 DEF Conf!ReadResult, Net!ReadResult
  <2>3. inHand' \in Packages \cup {None} /\ ipc' = "handling" /\ UNCHANGED <<reading, cmd, cpc>>
    BY <1>5, <2>2 DEF IncomingRead
  <2> QED
    BY <2>3 DEF HandsTyped, Busy
<1>6. CASE IncomingLeave \/ IncomingNotify
  BY <1>6 DEF HandsTyped, Busy, IncomingLeave, IncomingNotify, NextReader, Woken
<1>7. CASE IncomingTake
  BY <1>7 DEF HandsTyped, Busy, IncomingTake, NoMore
<1>8. CASE IncomingPass \/ IncomingShutdown
  BY <1>8 DEF HandsTyped, Busy, IncomingPass, IncomingShutdown, Handled
<1>9. CASE CommandTake
  BY <1>9 DEF HandsTyped, FlagTypes, CommandTake
<1>10. CASE CommandLoop \/ CommandLock \/ CommandExecute \/ CommandQuit \/ CommandDecide
            \/ CommandBlock \/ CommandEnd
  BY <1>10 DEF HandsTyped, CommandLoop, CommandLock, CommandExecute, CommandQuit, CommandDecide,
     CommandBlock, CommandEnd
<1>11. CASE CommandAnnounce
  BY <1>11 DEF HandsTyped, Busy, CommandAnnounce, Woken
<1>12. CASE UNCHANGED vars
  BY <1>12, HandsKept DEF vars
<1> QED
  BY <1>1, <1>2, <1>3, <1>4, <1>5, <1>6, <1>7, <1>8, <1>9, <1>10, <1>11, <1>12
  DEF Next, IncomingStep, CommandStep

-----------------------------------------------------------------------------
(***************************************************************************)
(* What is sent and executed.                                              *)
(***************************************************************************)
\* What the writer is given is nothing, or the package with the node's origin.
LEMMA GivenFacts ==
  ASSUME NEW seq \in Seq(Packages), NEW ps \in Seq(Packages)
  PROVE  \/ Given(seq, ps) = seq
         \/ /\ ps # <<>>
            /\ \E q \in Packages :
                 /\ Given(seq, ps) = Append(seq, q) /\ q.uid = Head(ps).uid
                 /\ q.type = Head(ps).type /\ q.destination = Head(ps).destination
<1>1. CASE ~(ps # <<>> /\ Accepts(Head(ps)))
  BY <1>1 DEF Given
<1>2. CASE ps # <<>> /\ Accepts(Head(ps))
  <2> DEFINE p == Head(ps)
             q == WithOrigin(p)
  <2>1. p \in Packages
    BY <1>2
  <2>2. /\ q \in Packages /\ q.uid = p.uid /\ q.type = p.type
        /\ q.destination = p.destination
    <3>1. [host |-> None, port |-> ListeningPort] \in Address
      BY NodeAssumption DEF Address
    <3> QED
      BY <2>1, <3>1 DEF WithOrigin, Packages
  <2>3. Given(seq, ps) = Append(seq, q)
    BY <1>2 DEF Given
  <2> QED
    BY <1>2, <2>2, <2>3
<1> QED
  BY <1>1, <1>2

LEMMA GivenType ==
  ASSUME NEW seq \in Seq(Packages), NEW ps \in Seq(Packages)
  PROVE  Given(seq, ps) \in Seq(Packages)
<1>1. ASSUME NEW q \in Packages PROVE Append(seq, q) \in Seq(Packages)
  OBVIOUS
<1> QED
  BY <1>1, GivenFacts

\* sendData() adds nothing, or the package that it was given.
LEMMA SendDataFacts ==
  ASSUME outbox \in Seq(Packages), NEW ps \in Seq(Packages), sendData(ps)
  PROVE  \/ outbox' = outbox
         \/ /\ ps # <<>>
            /\ \E q \in Packages :
                 /\ outbox' = Append(outbox, q) /\ q.uid = Head(ps).uid
                 /\ q.type = Head(ps).type /\ q.destination = Head(ps).destination
<1>1. outbox' = outbox \/ outbox' = Given(outbox, ps)
  BY DEF sendData
<1> QED
  BY <1>1, GivenFacts

LEMMA HistoryType ==
  ASSUME outbox \in Seq(Packages), early \in Seq(Packages),
         NEW ps \in Seq(Packages), sendData(ps)
  PROVE  outbox' \in Seq(Packages) /\ early' \in Seq(Packages)
<1>1. /\ outbox' = outbox \/ outbox' = Given(outbox, ps)
      /\ early' = early \/ early' = Given(early, ps)
  BY DEF sendData
<1> QED
  BY <1>1, GivenType

\* What a command sends: a control package, or what the handlers make of it.
LEMMA SentFacts ==
  ASSUME NEW c \in Command
  PROVE  /\ Sent(c) \in Seq(Packages)
         /\ Sent(c) # <<>> => Head(Sent(c)).type \in {"Control", "Configuration"}
<1> DEFINE p == Control(c)
           passed == passToHandlers(handlers, p)
<1>1. p \in Packages /\ p.type = "Control"
  <2>1. c \in Text /\ FreshUuid \in Uuid /\ NoAddress \in Address
    BY NodeAssumption, HandlersAssumption DEF NoAddress, Address
  <2> QED
    BY <2>1 DEF Control, Packages, Type
<1>2. /\ passed \in Seq(Packages)
      /\ passed # <<>> => Head(passed).type \in {"Control", "Configuration"}
  BY <1>1, PassedFacts DEF passToHandlers
<1>3. Sent(c) \in {<<p>>, passed, <<>>}
  BY DEF Sent
<1> DEFINE s == Sent(c)
<1> HIDE DEF p, passed, s
<1>4. CASE s = <<p>>
  BY <1>1, <1>4 DEF s
<1>5. CASE s = passed
  BY <1>2, <1>5 DEF s
<1>6. CASE s = <<>>
  BY <1>6 DEF s
<1> QED
  BY <1>3, <1>4, <1>5, <1>6 DEF s

\* What the incoming handler thread sends for a package that is no
\* acknowledgement is none either.
LEMMA PassFacts ==
  ASSUME NEW p \in Packages
  PROVE  LET ps == IF p.type = "Acknowledgement" THEN <<p>> ELSE passToHandlers(handlers, p)
         IN  /\ ps \in Seq(Packages)
             /\ ps # <<>> /\ Head(ps).type = "Acknowledgement" =>
                  p.type = "Acknowledgement" /\ Head(ps) = p
<1>1. CASE p.type = "Acknowledgement"
  BY <1>1
<1>2. CASE p.type # "Acknowledgement"
  <2> DEFINE r == passToHandlers(handlers, p)
  <2>1. /\ r \in Seq(Packages)
        /\ r # <<>> => Head(r).type = p.type \/ Head(r).type = "Configuration"
    BY PassedFacts DEF passToHandlers
  <2> HIDE DEF r
  <2> QED
    BY <1>2, <2>1 DEF r
<1> QED
  BY <1>1, <1>2

SendingStep == IncomingPass \/ IncomingShutdown \/ CommandExecute

LEMMA QuietSteps ==
  ASSUME [Next]_vars, ~SendingStep
  PROVE  UNCHANGED <<outbox, early, executed, handled, late>>
<1> USE DEF incoming, commanding, output, Rest, BesideStop
<1>1. CASE Complete \/ IoStep \/ SpuriousWakeup \/ WriterBegin
  BY <1>1 DEF Complete, IoStep, Receive, ReceiveNothing, receivedDataSet, receivedDataNotify,
     ReadAgain, SpuriousWakeup, WriterBegin
<1>2. ASSUME NEW a \in App, HandleCommand(a) \/ NotifyCommand(a)
      PROVE  UNCHANGED <<outbox, early, executed, handled, late>>
  BY <1>2 DEF HandleCommand, NotifyCommand
<1>3. ASSUME NEW s \in Stopper, StopRunning(s) \/ StopStep(s)
      PROVE  UNCHANGED <<outbox, early, executed, handled, late>>
  BY <1>3 DEF StopRunning, StopStep, StopNotify, StopReader, StopConfigReader, StopWriter
<1>4. CASE IncomingStep \/ IncomingLock
  BY <1>4 DEF SendingStep, IncomingStep, IncomingLock, IncomingLoop, IncomingTest, IncomingBlock,
     IncomingCheck, IncomingRead, IncomingLeave, IncomingTake, IncomingCommand, IncomingNotify,
     IncomingClear
<1>5. CASE CommandStep \/ CommandLock
  BY <1>5 DEF SendingStep, CommandStep, CommandLock, CommandLoop, CommandTake, CommandQuit,
     CommandAnnounce, CommandDecide, CommandBlock, CommandEnd
<1>6. CASE UNCHANGED vars
  BY <1>6 DEF vars
<1> QED
  BY <1>1, <1>2, <1>3, <1>4, <1>5, <1>6 DEF Next

LEMMA HistoryNext ==
  HandsTyped /\ HistoryTyped /\ [Next]_vars => HistoryTyped'
<1> SUFFICES ASSUME HandsTyped, HistoryTyped, [Next]_vars PROVE HistoryTyped'
  OBVIOUS
<1>1. CASE ~SendingStep
  BY <1>1, QuietSteps DEF HistoryTyped
<1>2. CASE IncomingPass
  <2> DEFINE ps == IF inHand.type = "Acknowledgement" THEN <<inHand>>
                   ELSE passToHandlers(handlers, inHand)
  <2>1. inHand \in Packages /\ sendData(ps) /\ executed' = executed
    BY <1>2 DEF HandsTyped, IncomingPass, Handled, commanding
  <2>2. ps \in Seq(Packages)
    BY <2>1, PassFacts
  <2> HIDE DEF ps
  <2> QED
    BY <2>1, <2>2, HistoryType DEF HistoryTyped
<1>3. CASE IncomingShutdown
  <2>1. inHand \in Packages /\ sendData(<<inHand>>) /\ executed' = executed
    BY <1>3 DEF HandsTyped, IncomingShutdown, Handled, commanding
  <2>2. <<inHand>> \in Seq(Packages)
    BY <2>1
  <2> QED
    BY <2>1, <2>2, HistoryType DEF HistoryTyped
<1>4. CASE CommandExecute
  <2>1. cmd \in Command
    BY <1>4 DEF HandsTyped, CommandExecute
  <2>2. executed' \in Seq(Command)
    <3>1. executed' = executed \/ executed' = Append(executed, cmd)
      BY <1>4, Zenon DEF CommandExecute
    <3> QED
      BY <2>1, <3>1 DEF HistoryTyped
  <2>3. UNCHANGED <<outbox, early>> \/ sendData(Sent(cmd))
    BY <1>4 DEF CommandExecute
  <2>4. CASE UNCHANGED <<outbox, early>>
    BY <2>2, <2>4 DEF HistoryTyped
  <2>5. CASE sendData(Sent(cmd))
    BY <2>1, <2>2, <2>5, SentFacts, HistoryType DEF HistoryTyped
  <2> QED
    BY <2>3, <2>4, <2>5
<1> QED
  BY <1>1, <1>2, <1>3, <1>4 DEF SendingStep

-----------------------------------------------------------------------------
(***************************************************************************)
(* Stopping.                                                               *)
(***************************************************************************)
\* Nobody sets running in a node that has been started.
LEMMA RunningOnce ==
  ASSUME [Next]_vars
  PROVE  running' = running \/ running' = FALSE
<1> USE DEF flags, Elsewhere, Rest, BesideStop
<1>1. CASE Complete \/ IoStep \/ SpuriousWakeup \/ WriterBegin
  BY <1>1 DEF Complete, IoStep, Receive, ReceiveNothing, receivedDataSet, receivedDataNotify,
     ReadAgain, SpuriousWakeup, WriterBegin
<1>2. ASSUME NEW a \in App, HandleCommand(a) \/ NotifyCommand(a)
      PROVE  running' = running
  BY <1>2 DEF HandleCommand, NotifyCommand
<1>3. ASSUME NEW s \in Stopper, StopRunning(s) \/ StopStep(s)
      PROVE  running' = running \/ running' = FALSE
  BY <1>3 DEF StopRunning, StopStep, StopNotify, StopReader, StopConfigReader, StopWriter
<1>4. CASE IncomingStep \/ IncomingLock
  BY <1>4 DEF IncomingStep, IncomingLock, IncomingLoop, IncomingTest, IncomingBlock,
     IncomingCheck, IncomingRead, IncomingLeave, IncomingTake, IncomingPass, IncomingShutdown,
     IncomingCommand, IncomingNotify, IncomingClear, Handled
<1>5. CASE CommandStep \/ CommandLock
  BY <1>5 DEF CommandStep, CommandLock, CommandLoop, CommandTake, CommandExecute, CommandQuit,
     CommandAnnounce, CommandDecide, CommandBlock, CommandEnd
<1>6. CASE UNCHANGED vars
  BY <1>6 DEF vars
<1> QED
  BY <1>1, <1>2, <1>3, <1>4, <1>5, <1>6 DEF Next

\* Who may go on to handle a package: only IncomingTake brings the thread there.
LEMMA ToHandling ==
  ASSUME [Next]_vars, ipc' \in {"passing", "forwarding"}
  PROVE  \/ ipc' = ipc
         \/ IncomingTake
<1> USE DEF incoming, Rest, BesideStop, Woken
<1>1. CASE Complete \/ IoStep \/ SpuriousWakeup \/ WriterBegin
  BY <1>1 DEF Complete, IoStep, Receive, ReceiveNothing, receivedDataSet, receivedDataNotify,
     ReadAgain, SpuriousWakeup, WriterBegin, NotifyAll
<1>2. ASSUME NEW a \in App, HandleCommand(a) \/ NotifyCommand(a) PROVE ipc' = ipc
  BY <1>2 DEF HandleCommand, NotifyCommand, NotifyAll
<1>3. ASSUME NEW s \in Stopper, StopRunning(s) \/ StopStep(s) PROVE ipc' = ipc
  BY <1>3 DEF StopRunning, StopStep, StopNotify, StopReader, StopConfigReader, StopWriter,
     NotifyAll
<1>4. CASE (IncomingStep \/ IncomingLock) /\ ~IncomingTake
  BY <1>4 DEF IncomingStep, IncomingLock, IncomingLoop, IncomingTest, IncomingBlock,
     IncomingCheck, IncomingRead, IncomingLeave, IncomingPass, IncomingShutdown,
     IncomingCommand, IncomingNotify, IncomingClear, NextReader
<1>5. CASE CommandStep \/ CommandLock
  BY <1>5 DEF CommandStep, CommandLock, CommandLoop, CommandTake, CommandExecute, CommandQuit,
     CommandAnnounce, CommandDecide, CommandBlock, CommandEnd
<1>6. CASE UNCHANGED vars
  BY <1>6 DEF vars
<1> QED
  BY <1>1, <1>2, <1>3, <1>4, <1>5, <1>6 DEF Next

LEMMA LateNext == LateInv /\ [Next]_vars => LateInv'
<1> SUFFICES ASSUME LateInv, [Next]_vars PROVE LateInv'
  OBVIOUS
<1>1. running' => running
  BY RunningOnce
<1>2. CASE IncomingPass \/ IncomingShutdown
  <2>1. /\ late = 0 /\ late' = IF running THEN late ELSE late + 1
        /\ ipc' \notin {"passing", "forwarding"}
    BY <1>2 DEF LateInv, IncomingPass, IncomingShutdown, Handled
  <2> QED
    BY <1>1, <2>1 DEF LateInv
<1>3. CASE ~(IncomingPass \/ IncomingShutdown)
  <2>1. late' = late
    BY <1>3, QuietSteps DEF SendingStep, CommandExecute, incoming
  <2>2. ipc' \in {"passing", "forwarding"} => ipc' = ipc \/ running
    BY ToHandling DEF IncomingTake, NoMore
  <2> QED
    BY <1>1, <2>1, <2>2 DEF LateInv
<1> QED
  BY <1>2, <1>3

\* Nothing that stop() has reached comes back.
LEMMA StopKept ==
  ASSUME StopInv, running = FALSE => running' = FALSE,
         UNCHANGED <<spc, confRunning, netRunning, writer>>,
         confRunning = FALSE => confReceives' = 0, netRunning = FALSE => netReceives' = 0
  PROVE  StopInv'
  BY DEF StopInv

LEMMA StopFrame ==
  ASSUME [Next]_vars, ~WriterBegin, \A s \in Stopper : ~StopRunning(s) /\ ~StopStep(s)
  PROVE  spc' = spc /\ writer' = writer
<1> USE DEF output, Elsewhere, Rest
<1>1. CASE Complete \/ IoStep \/ SpuriousWakeup
  BY <1>1 DEF Complete, IoStep, Receive, ReceiveNothing, receivedDataSet, receivedDataNotify,
     ReadAgain, SpuriousWakeup
<1>2. ASSUME NEW a \in App, HandleCommand(a) \/ NotifyCommand(a)
      PROVE  spc' = spc /\ writer' = writer
  BY <1>2 DEF HandleCommand, NotifyCommand
<1>3. CASE IncomingStep \/ IncomingLock
  BY <1>3 DEF IncomingStep, IncomingLock, IncomingLoop, IncomingTest, IncomingBlock,
     IncomingCheck, IncomingRead, IncomingLeave, IncomingTake, IncomingPass, IncomingShutdown,
     IncomingCommand, IncomingNotify, IncomingClear, Handled
<1>4. CASE CommandStep \/ CommandLock
  BY <1>4 DEF CommandStep, CommandLock, CommandLoop, CommandTake, CommandExecute, CommandQuit,
     CommandAnnounce, CommandDecide, CommandBlock, CommandEnd
<1>5. CASE UNCHANGED vars
  BY <1>5 DEF vars
<1> QED
  BY <1>1, <1>2, <1>3, <1>4, <1>5 DEF Next

LEMMA StopNext ==
  FlagTypes /\ RunningTyped /\ ReadersTyped /\ StopInv /\ [Next]_vars => StopInv'
<1> SUFFICES ASSUME FlagTypes, RunningTyped, ReadersTyped, StopInv, [Next]_vars PROVE StopInv'
  OBVIOUS
<1>1. running = FALSE => running' = FALSE
  BY RunningOnce, FlagsNext DEF FlagTypes
<1>2. /\ confRunning = FALSE => confReceives = 0
      /\ netRunning = FALSE => netReceives = 0
      /\ confReceives \in Nat /\ netReceives \in Nat
      /\ confRunning \in BOOLEAN /\ netRunning \in BOOLEAN
  BY DEF StopInv, ReadersTyped, RunningTyped
<1>3. CASE /\ \A s \in Stopper : ~StopRunning(s) /\ ~StopStep(s)
           /\ ~ReaderStep /\ ~WriterBegin
  <2>1. UNCHANGED <<spc, writer, confRunning, netRunning, confReceives, netReceives>>
    BY <1>3, StopFrame, OtherSteps DEF confVars, netVars
  <2> QED
    BY <1>1, <1>2, <2>1, StopKept
<1>4. CASE Complete \/ IoStep \/ IncomingRead
  <2>1. UNCHANGED <<confRunning, netRunning>>
    BY <1>4 DEF confVars, netVars, Complete, IoStep, Receive, ReceiveNothing, receivedDataSet,
       receivedDataNotify, ReadAgain, IncomingRead,
       Conf!Complete, Conf!HandlePackage, Conf!HandleGarbage, Conf!HandleError, Conf!Notified,
       Conf!ReadSocketAgain, Conf!Read, Net!Complete, Net!HandlePackage, Net!HandleGarbage,
       Net!HandleError, Net!Notified, Net!ReadSocketAgain, Net!Read
  <2>2. /\ confRunning = FALSE => confReceives' = 0
        /\ netRunning = FALSE => netReceives' = 0
    <3>1. CASE Complete
      BY <1>2, <3>1 DEF confVars, netVars, Complete, Conf!Complete, Net!Complete
    <3>2. CASE ReadAgain
      <4>1. /\ confReceives' = confReceives \/ (confRunning /\ confReceives' = confReceives + 1)
            /\ netReceives' = netReceives \/ (netRunning /\ netReceives' = netReceives + 1)
        BY <3>2 DEF confVars, netVars, ReadAgain, Conf!ReadSocketAgain, Net!ReadSocketAgain
      <4> QED
        BY <1>2, <4>1
    <3>3. CASE Receive \/ ReceiveNothing \/ receivedDataSet \/ receivedDataNotify \/ IncomingRead
      <4>1. UNCHANGED <<confReceives, netReceives>>
        BY <3>3 DEF confVars, netVars, Receive, ReceiveNothing, receivedDataSet,
           receivedDataNotify, IncomingRead, Conf!HandlePackage, Conf!HandleGarbage,
           Conf!HandleError, Conf!Notified, Conf!Read, Net!HandlePackage, Net!HandleGarbage,
           Net!HandleError, Net!Notified, Net!Read
      <4> QED
        BY <1>2, <4>1
    <3> QED
      BY <1>4, <3>1, <3>2, <3>3 DEF IoStep
  <2>3. spc' = spc /\ writer' = writer
    BY <1>4 DEF Complete, IoStep, Receive, ReceiveNothing, receivedDataSet, receivedDataNotify,
       ReadAgain, IncomingRead, Rest, output
  <2> QED
    BY <1>1, <2>1, <2>2, <2>3, StopKept
<1>5. ASSUME NEW s \in Stopper, StopRunning(s) PROVE StopInv'
  <2>1. /\ running' = FALSE /\ spc' = [spc EXCEPT ![s] = "notifying"]
        /\ UNCHANGED <<confRunning, confReceives, netRunning, netReceives, writer>>
    BY <1>5 DEF StopRunning, StopFrom, confVars, netVars
  <2> QED
    BY <2>1 DEF StopInv
<1>6. ASSUME NEW s \in Stopper, StopNotify(s) PROVE StopInv'
  <2>1. /\ running' = running /\ spc[s] = "notifying" /\ spc' = [spc EXCEPT ![s] = "reader"]
        /\ UNCHANGED <<confRunning, confReceives, netRunning, netReceives, writer>>
    BY <1>6 DEF StopNotify, StopFrom, confVars, netVars, flags
  <2> QED
    BY <2>1 DEF StopInv
<1>7. ASSUME NEW s \in Stopper, StopReader(s) PROVE StopInv'
  <2>1. /\ running' = running /\ spc[s] = "reader" /\ spc' = [spc EXCEPT ![s] = "configReader"]
        /\ UNCHANGED <<confRunning, confReceives, writer>>
    BY <1>7 DEF StopReader, StopFrom, confVars, flags
  <2>2. netRunning' = FALSE /\ netReceives' = 0
    <3>1. CASE netRunning = TRUE
      BY <1>7, <3>1 DEF StopReader, Net!Stop
    <3>2. CASE netRunning = FALSE
      BY <1>2, <1>7, <3>2 DEF StopReader, netVars
    <3> QED
      BY <1>2, <3>1, <3>2
  <2> QED
    BY <2>1, <2>2 DEF StopInv
<1>8. ASSUME NEW s \in Stopper, StopConfigReader(s) PROVE StopInv'
  <2>1. /\ running' = running /\ spc[s] = "configReader" /\ spc' = [spc EXCEPT ![s] = "writer"]
        /\ UNCHANGED <<netRunning, netReceives, writer>>
    BY <1>8 DEF StopConfigReader, StopFrom, netVars, flags
  <2>2. confRunning' = FALSE /\ confReceives' = 0
    <3>1. CASE confRunning = TRUE
      BY <1>8, <3>1 DEF StopConfigReader, Conf!Stop
    <3>2. CASE confRunning = FALSE
      BY <1>2, <1>8, <3>2 DEF StopConfigReader, confVars
    <3> QED
      BY <1>2, <3>1, <3>2
  <2> QED
    BY <2>1, <2>2 DEF StopInv
<1>9. ASSUME NEW s \in Stopper, StopWriter(s) PROVE StopInv'
  <2>1. /\ running' = running /\ spc[s] = "writer" /\ spc' = [spc EXCEPT ![s] = "stopped"]
        /\ UNCHANGED <<confRunning, confReceives, netRunning, netReceives>>
        /\ writer' = IF writer = "sending" THEN "stopped" ELSE writer
    BY <1>9 DEF StopWriter, StopFrom, confVars, netVars, flags
  <2> QED
    BY <2>1 DEF StopInv
<1>10. CASE WriterBegin
  <2>1. /\ writer' = "sending"
        /\ UNCHANGED <<running, spc, confRunning, confReceives, netRunning, netReceives>>
    BY <1>10 DEF WriterBegin, flags, readers, confVars, netVars
  <2> QED
    BY <2>1 DEF StopInv
<1> QED
  BY <1>3, <1>4, <1>5, <1>6, <1>7, <1>8, <1>9, <1>10 DEF StopStep, ReaderStep

-----------------------------------------------------------------------------
(***************************************************************************)
(* Acknowledgements.                                                       *)
(***************************************************************************)
LEMMA SeenAppended ==
  ASSUME NEW seen \in Seq(Packages), NEW p \in Packages, NEW a
  PROVE  Seen(Append(seen, p), a) <=> Seen(seen, a) \/ DataOf(p, a)
<1>1. Range(Append(seen, p)) = Range(seen) \cup {p}
  <2>1. /\ Len(Append(seen, p)) = Len(seen) + 1 /\ Append(seen, p)[Len(seen) + 1] = p
        /\ \A i \in 1 .. Len(seen) : Append(seen, p)[i] = seen[i]
        /\ DOMAIN Append(seen, p) = 1 .. Len(seen) + 1 /\ DOMAIN seen = 1 .. Len(seen)
    OBVIOUS
  <2> QED
    BY <2>1 DEF Range
<1> QED
  BY <1>1 DEF Seen

\* The front of the queue goes into the thread's hands, from there to what is
\* handled, or away if it is no data; a datagram goes behind the queue.
LEMMA OrderTaken ==
  ASSUME NEW seen \in Seq(Packages), NEW q \in Seq(Packages), q # <<>>, InOrder(seen, None, q)
  PROVE  /\ InOrder(seen, Head(q), Tail(q))
         /\ Acks(Head(q)) => Seen(seen, Head(q))
<1>1. Head(q) = q[1] /\ Head(q) # None /\ Len(q) >= 1
  BY NodeAssumption
<1>2. Acks(Head(q)) => Seen(seen, Head(q))
  BY <1>1 DEF InOrder
<1>3. Len(Tail(q)) = Len(q) - 1 /\ \A i \in 1 .. Len(Tail(q)) : Tail(q)[i] = q[i + 1]
  OBVIOUS
<1>4. ASSUME NEW i \in 1 .. Len(Tail(q)), Acks(Tail(q)[i]), ~Seen(seen, Tail(q)[i])
      PROVE  \/ DataOf(Head(q), Tail(q)[i])
             \/ \E j \in 1 .. i - 1 : DataOf(Tail(q)[j], Tail(q)[i])
  <2>1. PICK j \in 1 .. i : DataOf(q[j], q[i + 1])
    BY <1>3, <1>4 DEF InOrder
  <2>2. CASE j = 1
    BY <1>1, <1>3, <2>1, <2>2
  <2>3. CASE j # 1
    <3>1. j - 1 \in 1 .. i - 1 /\ Tail(q)[j - 1] = q[j]
      BY <1>3, <2>3
    <3> QED
      BY <1>3, <2>1, <3>1
  <2> QED
    BY <2>2, <2>3
<1> QED
  BY <1>1, <1>2, <1>4 DEF InOrder

LEMMA OrderHandled ==
  ASSUME NEW seen \in Seq(Packages), NEW p \in Packages, NEW q, InOrder(seen, p, q)
  PROVE  InOrder(Append(seen, p), None, q)
<1>1. \A a : Seen(Append(seen, p), a) <=> Seen(seen, a) \/ DataOf(p, a)
  BY SeenAppended
<1> QED
  BY <1>1 DEF InOrder

LEMMA OrderLeft ==
  ASSUME NEW seen, NEW p, NEW q, InOrder(seen, p, q), p # None => p.type # "Data"
  PROVE  InOrder(seen, None, q)
  BY DEF InOrder, DataOf

LEMMA OrderArrived ==
  ASSUME NEW seen, NEW hand, NEW q \in Seq(Packages), InOrder(seen, hand, q),
         NEW d \in ConfIncoming \cup NetIncoming
  PROVE  InOrder(seen, hand, q \o Arrival(UseAck, Received(d)))
<1> DEFINE p == Received(d)
           a == AckFor(p)
<1>1. /\ p \in Packages /\ a \in Packages /\ ~Acks(p) /\ a.uid = p.uid
  BY ArrivalType DEF Acks, HasDestination
<1>2. Arrival(UseAck, p) = IF UseAck /\ p.type = "Data" THEN <<p, a>> ELSE <<p>>
  BY DEF Arrival
<1> HIDE DEF p, a
<1>3. InOrder(seen, hand, q \o <<p>>)
  <2>1. /\ Len(q \o <<p>>) = Len(q) + 1 /\ (q \o <<p>>)[Len(q) + 1] = p
        /\ \A i \in 1 .. Len(q) : (q \o <<p>>)[i] = q[i]
    BY <1>1
  <2> QED
    BY <1>1, <2>1 DEF InOrder
<1>4. ASSUME p.type = "Data" PROVE InOrder(seen, hand, q \o <<p, a>>)
  <2>1. /\ Len(q \o <<p, a>>) = Len(q) + 2
        /\ (q \o <<p, a>>)[Len(q) + 1] = p /\ (q \o <<p, a>>)[Len(q) + 2] = a
        /\ \A i \in 1 .. Len(q) : (q \o <<p, a>>)[i] = q[i]
    BY <1>1
  <2>2. DataOf(p, a)
    BY <1>1, <1>4 DEF DataOf, SamePackage
  <2>3. Len(q) + 1 \in 1 .. (Len(q) + 2) - 1
    OBVIOUS
  <2> QED
    BY <1>1, <2>1, <2>2, <2>3 DEF InOrder
<1> QED
  BY <1>2, <1>3, <1>4 DEF p

\* The steps that have to do with packages.
PackageStep ==
  \/ Receive \/ IncomingCheck \/ IncomingRead \/ IncomingLeave \/ IncomingTake \/ IncomingPass
  \/ IncomingShutdown \/ IncomingNotify \/ CommandExecute

LEMMA PackagesKept ==
  ASSUME [Next]_vars, HandsTyped, ~PackageStep
  PROVE  /\ UNCHANGED <<handled, outbox, inHand, reading, confQueue, netQueue>>
         /\ inHand # None => ipc' = ipc
<1> USE DEF Elsewhere, readers, BesideStop, Rest, incoming, output, confVars, netVars
<1>1. CASE Complete \/ IoStep
  BY <1>1 DEF PackageStep, Complete, IoStep, ReceiveNothing, receivedDataSet,
     receivedDataNotify, ReadAgain, NotifyAll, Woken, HandsTyped, Busy,
     Conf!Complete, Conf!HandleGarbage, Conf!HandleError, Conf!Notified, Conf!ReadSocketAgain,
     Net!Complete, Net!HandleGarbage, Net!HandleError, Net!Notified, Net!ReadSocketAgain
<1>2. CASE SpuriousWakeup \/ WriterBegin
  BY <1>2 DEF SpuriousWakeup, WriterBegin, HandsTyped, Busy
<1>3. CASE (IncomingStep \/ IncomingLock) /\ ~PackageStep
  BY <1>3 DEF PackageStep, IncomingStep, IncomingLock, IncomingLoop, IncomingTest, IncomingBlock,
     IncomingCommand, IncomingClear, HandsTyped, Busy
<1>4. CASE CommandStep \/ CommandLock
  BY <1>4 DEF PackageStep, CommandStep, CommandLock, CommandLoop, CommandTake, CommandQuit,
     CommandAnnounce, CommandDecide, CommandBlock, CommandEnd, Woken, HandsTyped, Busy
<1>5. ASSUME NEW a \in App, HandleCommand(a) \/ NotifyCommand(a)
      PROVE  /\ UNCHANGED <<handled, outbox, inHand, reading, confQueue, netQueue>>
             /\ inHand # None => ipc' = ipc
  BY <1>5 DEF HandleCommand, NotifyCommand, NotifyAll, Woken, HandsTyped, Busy
<1>6. ASSUME NEW s \in Stopper, StopRunning(s) \/ StopStep(s)
      PROVE  /\ UNCHANGED <<handled, outbox, inHand, reading, confQueue, netQueue>>
             /\ inHand # None => ipc' = ipc
  BY <1>6 DEF StopRunning, StopStep, StopNotify, StopReader, StopConfigReader, StopWriter,
     NotifyAll, Woken, HandsTyped, Busy, Conf!Stop, Net!Stop
<1>7. CASE UNCHANGED vars
  BY <1>7 DEF vars
<1> QED
  BY <1>1, <1>2, <1>3, <1>4, <1>5, <1>6, <1>7 DEF Next

LEMMA AckKept ==
  ASSUME AckInv, UNCHANGED <<handled, outbox, inHand, reading, confQueue, netQueue>>,
         running' = running \/ running' = FALSE, inHand # None => ipc' = ipc
  PROVE  AckInv'
<1>1. AcknowledgedAfterHandled'
  BY DEF AckInv, AcknowledgedAfterHandled
<1>2. running' => running
  OBVIOUS
<1>3. running' => \A r \in {"conf", "net"} : InOrder(handled'[r], HandOf(r)', Queue(r)')
  BY <1>2 DEF AckInv, HandOf, Queue
<1>4. inHand' # None /\ Acks(inHand') /\ (running' \/ ipc' # "handling") =>
        Seen(handled'[reading'], inHand')
  BY <1>2 DEF AckInv
<1> QED
  BY <1>1, <1>3, <1>4 DEF AckInv

\* sendData() of something whose data has been handled, if it acknowledges any.
LEMMA AckSent ==
  ASSUME AcknowledgedAfterHandled, outbox \in Seq(Packages),
         NEW ps \in Seq(Packages), sendData(ps),
         \A a : \A r \in {"conf", "net"} : Seen(handled[r], a) => Seen(handled'[r], a),
         ps # <<>> /\ Acks(Head(ps)) => \E r \in {"conf", "net"} : Seen(handled'[r], Head(ps))
  PROVE  AcknowledgedAfterHandled'
<1> USE DEF AcknowledgedAfterHandled, Acks, Seen, DataOf, SamePackage, HasDestination
<1>1. CASE outbox' = outbox
  BY <1>1
<1>2. ASSUME NEW q \in Packages, ps # <<>>, outbox' = Append(outbox, q),
             q.uid = Head(ps).uid, q.type = Head(ps).type, q.destination = Head(ps).destination
      PROVE  AcknowledgedAfterHandled'
  <2>1. /\ Len(outbox') = Len(outbox) + 1 /\ outbox'[Len(outbox) + 1] = q
        /\ \A i \in 1 .. Len(outbox) : outbox'[i] = outbox[i]
    BY <1>2
  <2> QED
    BY <1>2, <2>1
<1> QED
  BY <1>1, <1>2, SendDataFacts

LEMMA AckNext ==
  ReadersTyped /\ HandsTyped /\ HistoryTyped /\ AckInv /\ [Next]_vars => AckInv'
<1> SUFFICES ASSUME ReadersTyped, HandsTyped, HistoryTyped, AckInv, [Next]_vars PROVE AckInv'
  OBVIOUS
<1>1. running' = running \/ running' = FALSE
  BY RunningOnce
<1>2. CASE ~PackageStep
  BY <1>1, <1>2, PackagesKept, AckKept
<1>3. CASE Receive
  <2>1. PICK d \in ConfIncoming \cup NetIncoming :
          \/ Conf!HandlePackage(d) /\ UNCHANGED netVars
          \/ Net!HandlePackage(d) /\ UNCHANGED confVars
    BY <1>3 DEF Receive
  <2> DEFINE t == Arrival(UseAck, Received(d))
  <2>2. Conf!Arrival(UseAck, Conf!Received(d)) = t /\ Net!Arrival(UseAck, Net!Received(d)) = t
    BY SameArrival
  <2>3. ASSUME NEW r \in {"conf", "net"}, InOrder(handled[r], HandOf(r), Queue(r))
        PROVE  InOrder(handled[r], HandOf(r), Queue(r) \o t)
    BY <2>3, OrderArrived DEF ReadersTyped, Queue
  <2> HIDE DEF t
  <2>4. UNCHANGED <<handled, outbox, inHand, reading, ipc, running>>
    BY <1>3 DEF Receive, Rest, incoming, output, flags
  <2>5. \A r \in {"conf", "net"} : Queue(r)' \in {Queue(r), Queue(r) \o t}
    <3>1. CASE Conf!HandlePackage(d) /\ UNCHANGED netVars
      BY <2>2, <3>1 DEF Conf!HandlePackage, netVars, Queue
    <3>2. CASE Net!HandlePackage(d) /\ UNCHANGED confVars
      BY <2>2, <3>2 DEF Net!HandlePackage, confVars, Queue
    <3> QED
      BY <2>1, <3>1, <3>2
  <2>6. AcknowledgedAfterHandled'
    BY <2>4 DEF AckInv, AcknowledgedAfterHandled
  <2>7. \A r \in {"conf", "net"} : HandOf(r)' = HandOf(r)
    BY <2>4 DEF HandOf
  <2>8. running' => \A r \in {"conf", "net"} : InOrder(handled'[r], HandOf(r)', Queue(r)')
    BY <2>3, <2>4, <2>5, <2>7 DEF AckInv
  <2> QED
    BY <2>4, <2>6, <2>8 DEF AckInv
<1>4. CASE IncomingCheck
  <2>1. /\ UNCHANGED <<handled, outbox, inHand, confQueue, netQueue, running>>
        /\ inHand = None
    BY <1>4 DEF IncomingCheck, HandsTyped, Busy, Elsewhere, output, confVars, netVars, flags
  <2>2. AcknowledgedAfterHandled'
    BY <2>1 DEF AckInv, AcknowledgedAfterHandled
  <2>3. \A r \in {"conf", "net"} : HandOf(r)' = HandOf(r) /\ Queue(r)' = Queue(r)
    BY <2>1 DEF HandOf, Queue
  <2> QED
    BY <2>1, <2>2, <2>3 DEF AckInv
<1>5. CASE IncomingRead
  <2>1. /\ UNCHANGED <<handled, outbox, reading, running>> /\ inHand = None
        /\ ipc' = "handling" /\ reading \in {"conf", "net"}
    BY <1>5 DEF IncomingRead, HandsTyped, Busy, output, flags
  <2>2. AcknowledgedAfterHandled'
    BY <2>1 DEF AckInv, AcknowledgedAfterHandled
  <2> DEFINE q == Queue(reading)
  <2>3. /\ q \in Seq(Packages) /\ handled[reading] \in Seq(Packages)
    BY <2>1 DEF ReadersTyped, Queue, AckInv
  <2>4. \A r \in {"conf", "net"} : r # reading => HandOf(r)' = HandOf(r) /\ Queue(r)' = Queue(r)
    BY <1>5, <2>1 DEF IncomingRead, HandOf, Queue, confVars, netVars
  <2>5. /\ Queue(reading)' = IF q # <<>> THEN Tail(q) ELSE q
        /\ HandOf(reading)' = inHand'
        /\ inHand' = IF q # <<>> THEN Head(q) ELSE None
    BY <1>5, <2>1 DEF IncomingRead, HandOf, Queue, Conf!Read, Net!Read, Conf!ReadResult,
       Net!ReadResult
  <2>6. running => InOrder(handled[reading], None, q)
    BY <2>1 DEF AckInv, HandOf
  <2> HIDE DEF q
  <2>7. CASE q # <<>>
    <3>1. running => /\ InOrder(handled[reading], Head(q), Tail(q))
                     /\ Acks(Head(q)) => Seen(handled[reading], Head(q))
      BY <2>3, <2>6, <2>7, OrderTaken
    <3> QED
      BY <2>1, <2>2, <2>4, <2>5, <2>7, <3>1 DEF AckInv
  <2>8. CASE q = <<>>
    BY <2>1, <2>2, <2>4, <2>5, <2>6, <2>8 DEF AckInv
  <2> QED
    BY <2>7, <2>8
<1>6. CASE IncomingLeave \/ IncomingNotify
  <2>1. /\ UNCHANGED <<handled, outbox, confQueue, netQueue, running>> /\ inHand' = None
        /\ running /\ inHand # None => inHand.type # "Data"
    BY <1>6 DEF IncomingLeave, IncomingNotify, NextReader, NoMore, IsEmpty, HandsTyped, Busy,
       Elsewhere, output, confVars, netVars, flags
  <2>2. AcknowledgedAfterHandled'
    BY <2>1 DEF AckInv, AcknowledgedAfterHandled
  <2>3. \A r \in {"conf", "net"} : HandOf(r)' = None /\ Queue(r)' = Queue(r)
    BY <2>1 DEF HandOf, Queue
  <2>4. \A r \in {"conf", "net"} : running /\ HandOf(r) # None => HandOf(r).type # "Data"
    BY <2>1 DEF HandOf
  <2>5. running => \A r \in {"conf", "net"} : InOrder(handled[r], None, Queue(r))
    BY <2>4, OrderLeft DEF AckInv
  <2> QED
    BY <2>1, <2>2, <2>3, <2>5 DEF AckInv
<1>7. CASE IncomingTake
  <2>1. /\ UNCHANGED <<handled, outbox, inHand, reading, confQueue, netQueue, running>>
        /\ ipc = "handling" /\ running
    BY <1>7 DEF IncomingTake, NoMore, Elsewhere, output, confVars, netVars, flags
  <2>2. AcknowledgedAfterHandled'
    BY <2>1 DEF AckInv, AcknowledgedAfterHandled
  <2>3. \A r \in {"conf", "net"} : HandOf(r)' = HandOf(r) /\ Queue(r)' = Queue(r)
    BY <2>1 DEF HandOf, Queue
  <2> QED
    BY <2>1, <2>2, <2>3 DEF AckInv
<1>8. CASE IncomingPass \/ IncomingShutdown
  <2> DEFINE passed == IF inHand.type = "Acknowledgement" THEN <<inHand>>
                       ELSE passToHandlers(handlers, inHand)
  <2>1. /\ inHand \in Packages /\ reading \in {"conf", "net"} /\ outbox \in Seq(Packages)
        /\ handled' = [handled EXCEPT ![reading] = Append(@, inHand)]
        /\ UNCHANGED <<confQueue, netQueue, running, reading>> /\ inHand' = None
        /\ ipc \in {"passing", "forwarding"}
    BY <1>8 DEF IncomingPass, IncomingShutdown, Handled, HandsTyped, HistoryTyped, Elsewhere,
       confVars, netVars, flags
  <2>2. /\ handled \in [{"conf", "net"} -> Seq(Packages)]
        /\ handled' \in [{"conf", "net"} -> Seq(Packages)]
    BY <2>1 DEF AckInv
  <2>3. \A a : \A r \in {"conf", "net"} :
          Seen(handled'[r], a) <=> Seen(handled[r], a) \/ (r = reading /\ DataOf(inHand, a))
    BY <2>1, <2>2, SeenAppended
  <2>4. PICK ps \in Seq(Packages) :
          sendData(ps) /\ (ps # <<>> /\ Head(ps).type = "Acknowledgement" => Head(ps) = inHand)
    <3>1. CASE IncomingPass
      <4>1. sendData(passed)
        BY <3>1 DEF IncomingPass
      <4>2. /\ passed \in Seq(Packages)
            /\ passed # <<>> /\ Head(passed).type = "Acknowledgement" => Head(passed) = inHand
        BY <2>1, PassFacts
      <4> HIDE DEF passed
      <4> QED
        BY <4>1, <4>2
    <3>2. CASE IncomingShutdown
      <4>1. sendData(<<inHand>>) /\ <<inHand>> \in Seq(Packages) /\ Head(<<inHand>>) = inHand
        BY <2>1, <3>2 DEF IncomingShutdown
      <4> QED
        BY <4>1
    <3> QED
      BY <1>8, <3>1, <3>2
  <2> HIDE DEF passed
  <2>5. inHand # None
    BY <2>1, NodeAssumption
  <2>6. Acks(inHand) => Seen(handled[reading], inHand)
    BY <2>1, <2>5 DEF AckInv
  <2>7. ps # <<>> /\ Acks(Head(ps)) => \E r \in {"conf", "net"} : Seen(handled'[r], Head(ps))
    BY <2>1, <2>3, <2>4, <2>6 DEF Acks
  <2>8. AcknowledgedAfterHandled'
    BY <2>1, <2>3, <2>4, <2>7, AckSent DEF AckInv
  <2>9. ASSUME running, NEW r \in {"conf", "net"}
        PROVE  InOrder(handled'[r], None, Queue(r))
    <3>1. InOrder(handled[r], HandOf(r), Queue(r))
      BY <2>9 DEF AckInv
    <3>2. CASE r = reading
      BY <2>1, <2>2, <3>1, <3>2, OrderHandled DEF HandOf
    <3>3. CASE r # reading
      BY <2>1, <2>2, <3>1, <3>3 DEF HandOf
    <3> QED
      BY <3>2, <3>3
  <2>10. \A r \in {"conf", "net"} : HandOf(r)' = None /\ Queue(r)' = Queue(r)
    BY <2>1 DEF HandOf, Queue
  <2> QED
    BY <2>1, <2>2, <2>8, <2>9, <2>10 DEF AckInv
<1>9. CASE CommandExecute
  <2>1. /\ UNCHANGED <<handled, inHand, reading, confQueue, netQueue, running, ipc>>
        /\ cmd \in Command /\ outbox \in Seq(Packages)
        /\ outbox' = outbox \/ sendData(Sent(cmd))
    BY <1>9 DEF CommandExecute, incoming, Elsewhere, confVars, netVars, flags, HandsTyped,
       HistoryTyped
  <2>2. AcknowledgedAfterHandled'
    <3>1. CASE outbox' = outbox
      BY <2>1, <3>1 DEF AckInv, AcknowledgedAfterHandled
    <3>2. CASE sendData(Sent(cmd))
      <4>1. Sent(cmd) \in Seq(Packages) /\ (Sent(cmd) # <<>> => ~Acks(Head(Sent(cmd))))
        BY <2>1, SentFacts DEF Acks
      <4> QED
        BY <2>1, <3>2, <4>1, AckSent DEF AckInv
    <3> QED
      BY <2>1, <3>1, <3>2
  <2>3. \A r \in {"conf", "net"} : HandOf(r)' = HandOf(r) /\ Queue(r)' = Queue(r)
    BY <2>1 DEF HandOf, Queue
  <2> QED
    BY <2>1, <2>2, <2>3 DEF AckInv
<1> QED
  BY <1>2, <1>3, <1>4, <1>5, <1>6, <1>7, <1>8, <1>9 DEF PackageStep

-----------------------------------------------------------------------------
(***************************************************************************)
(* Together.                                                               *)
(***************************************************************************)
NodeInv ==
  /\ FlagTypes /\ MutexOwned /\ RunningTyped /\ ReadersTyped
  /\ HandsTyped /\ HistoryTyped /\ LateInv /\ StopInv /\ AckInv

LEMMA InitNodeInv == Init => NodeInv
<1> SUFFICES ASSUME Init PROVE NodeInv
  OBVIOUS
<1>1. None # "incoming" /\ None # "command"
  BY NodeAssumption
<1>2. FlagTypes
  BY DEF Init, FlagTypes
<1>3. MutexOwned
  BY <1>1 DEF Init, MutexOwned
<1>4. RunningTyped
  BY DEF Init, RunningTyped
<1>5. ReadersTyped
  <2>1. /\ confQueue = <<>> /\ confReceives = 1 /\ confHandler = "none"
        /\ netQueue = <<>> /\ netReceives = 1 /\ netHandler = "none"
        /\ flagged = FALSE
    BY DEF Init
  <2> QED
    BY <2>1 DEF ReadersTyped, Handler
<1>6. HandsTyped
  BY DEF Init, HandsTyped, Busy
<1>7. HistoryTyped /\ LateInv
  <2>1. outbox = <<>> /\ early = <<>> /\ executed = <<>> /\ late = 0 /\ ipc = "loop"
    BY DEF Init
  <2> QED
    BY <2>1 DEF HistoryTyped, LateInv
<1>8. StopInv
  <2>1. /\ spc = [s \in Stopper |-> "ready"]
        /\ confRunning = TRUE /\ netRunning = TRUE /\ writer = "starting"
    BY DEF Init
  <2> QED
    BY <2>1 DEF StopInv
<1>9. AckInv
  <2>1. /\ handled = [conf |-> <<>>, net |-> <<>>] /\ outbox = <<>> /\ inHand = None
        /\ confQueue = <<>> /\ netQueue = <<>>
    BY DEF Init
  <2>2. handled \in [{"conf", "net"} -> Seq(Packages)]
    <3>1. DOMAIN handled = {"conf", "net"} /\ handled["conf"] = <<>> /\ handled["net"] = <<>>
      BY <2>1
    <3>2. handled = [r \in {"conf", "net"} |-> <<>>]
      BY <2>1
    <3> QED
      BY <3>2
  <2>3. AcknowledgedAfterHandled
    BY <2>1 DEF AcknowledgedAfterHandled
  <2>4. \A r \in {"conf", "net"} : InOrder(handled[r], HandOf(r), Queue(r))
    BY <2>1 DEF InOrder, Queue
  <2> QED
    BY <2>1, <2>2, <2>3, <2>4 DEF AckInv
<1> QED
  BY <1>2, <1>3, <1>4, <1>5, <1>6, <1>7, <1>8, <1>9 DEF NodeInv

LEMMA StepNodeInv == NodeInv /\ [Next]_vars => NodeInv'
<1> SUFFICES ASSUME NodeInv, [Next]_vars PROVE NodeInv'
  OBVIOUS
<1> QED
  BY MutexNext, FlagsNext, RunningNext, ReadersNext, HandsNext, HistoryNext, LateNext, StopNext,
     AckNext
  DEF NodeInv

\* The parts of the invariant hold in every state of a started node, whatever
\* it receives, whatever it is told and whoever stops it.
THEOREM NodeInvariance == Spec => []NodeInv
  BY InitNodeInv, StepNodeInv, PTL DEF Spec

\* The variables of a node have their types, and its mutex is never thought to
\* be owned by a thread that is outside the predicate of its wait().
THEOREM NodeTypes == Spec => []TypeOK
<1>1. NodeInv => TypeOK
  BY SamePackages DEF NodeInv, FlagTypes, MutexOwned, RunningTyped, ReadersTyped, Handler,
     HandsTyped, HistoryTyped, StopInv, TypeOK, Conf!TypeOK, Net!TypeOK
<1> QED
  BY <1>1, NodeInvariance, PTL

\* The handler thread tests running before it takes a package, so stop() and
\* quit are followed by one handled package at the most, whatever is queued.
THEOREM OneLateAtMost == Spec => []AtMostOneLate
<1>1. NodeInv => AtMostOneLate
  BY DEF NodeInv, LateInv, AtMostOneLate
<1> QED
  BY <1>1, NodeInvariance, PTL

\* stop() leaves neither reader with a receive on its socket, also when the io
\* thread is inside handleReceive() and about to place the next one.
THEOREM StoppedIsDeaf == Spec => []StoppedReceivesNothing
<1>1. NodeInv => StoppedReceivesNothing
  BY DEF NodeInv, StopInv, StoppedReceivesNothing
<1> QED
  BY <1>1, NodeInvariance, PTL

\* The reader queues the acknowledgement right behind the data, and the thread
\* takes packages in their order and one at a time: no acknowledgement is given
\* to the writer whose data the handlers have not seen, stopped or not.
THEOREM HandledBeforeAcknowledged == Spec => []AcknowledgedAfterHandled
<1>1. NodeInv => AcknowledgedAfterHandled
  BY DEF NodeInv, AckInv
<1> QED
  BY <1>1, NodeInvariance, PTL

-----------------------------------------------------------------------------
(***************************************************************************)
(* Counting: how often a sequence holds members of a set.                  *)
(***************************************************************************)
LEMMA OccurrencesType ==
  ASSUME NEW S, NEW s \in Seq(S), NEW T
  PROVE  /\ IsFiniteSet({i \in 1 .. Len(s) : s[i] \in T})
         /\ Occurrences(s, T) \in Nat
<1>1. IsFiniteSet(1 .. Len(s))
  BY FS_Interval
<1>2. {i \in 1 .. Len(s) : s[i] \in T} \in SUBSET (1 .. Len(s))
  OBVIOUS
<1>3. IsFiniteSet({i \in 1 .. Len(s) : s[i] \in T})
  BY <1>1, <1>2, FS_Subset
<1> QED
  BY <1>3, FS_CardinalityType DEF Occurrences

LEMMA OccurrencesOfNone == \A T : Occurrences(<<>>, T) = 0
<1> SUFFICES ASSUME NEW T PROVE Occurrences(<<>>, T) = 0
  OBVIOUS
<1>1. {i \in 1 .. Len(<<>>) : <<>>[i] \in T} = {}
  OBVIOUS
<1> QED
  BY <1>1, FS_EmptySet DEF Occurrences

LEMMA OccurrencesOfOne ==
  ASSUME NEW e, NEW T
  PROVE  Occurrences(<<e>>, T) = IF e \in T THEN 1 ELSE 0
<1>1. {i \in 1 .. Len(<<e>>) : <<e>>[i] \in T} = IF e \in T THEN {1} ELSE {}
  OBVIOUS
<1> QED
  BY <1>1, FS_EmptySet, FS_Singleton DEF Occurrences

\* The positions behind s are those of t, moved by its length.
LEMMA OccurrencesBehind ==
  ASSUME NEW S, NEW s \in Seq(S), NEW t \in Seq(S), NEW T
  PROVE  Occurrences(s \o t, T) = Occurrences(s, T) + Occurrences(t, T)
<1> DEFINE A == {i \in 1 .. Len(s) : s[i] \in T}
           B == {i \in 1 .. Len(t) : t[i] \in T}
           C == {i \in Len(s) + 1 .. Len(s) + Len(t) : t[i - Len(s)] \in T}
           moved == [i \in B |-> i + Len(s)]
<1>1. /\ Len(s \o t) = Len(s) + Len(t) /\ Len(s) \in Nat /\ Len(t) \in Nat
      /\ \A i \in 1 .. Len(s) + Len(t) : (s \o t)[i] = IF i <= Len(s) THEN s[i] ELSE t[i - Len(s)]
  BY ConcatProperties
<1>2. {i \in 1 .. Len(s \o t) : (s \o t)[i] \in T} = A \cup C
  BY <1>1
<1>3. A \cap C = {}
  BY <1>1
<1>4. IsFiniteSet(A) /\ IsFiniteSet(B)
  BY OccurrencesType
<1>5. moved \in Bijection(B, C)
  <2>1. moved \in [B -> C]
    BY <1>1
  <2>2. moved \in Injection(B, C)
    BY <1>1, <2>1 DEF Injection, IsInjective
  <2>3. \A c \in C : c - Len(s) \in B /\ moved[c - Len(s)] = c
    BY <1>1
  <2>4. moved \in Surjection(B, C)
    BY <2>1, <2>3 DEF Surjection
  <2> QED
    BY <2>2, <2>4 DEF Bijection
<1> HIDE DEF moved
<1>6. IsFiniteSet(C) /\ Cardinality(C) = Cardinality(B)
  BY <1>4, <1>5, FS_Bijection DEF ExistsBijection
<1> HIDE DEF A, B, C
<1>7. Cardinality(A \cup C) = Cardinality(A) + Cardinality(C) - 0
  BY <1>3, <1>4, <1>6, FS_Union, FS_EmptySet
<1>8. Cardinality(A) \in Nat /\ Cardinality(C) \in Nat
  BY <1>4, <1>6, FS_CardinalityType
<1>9. /\ Occurrences(s \o t, T) = Cardinality(A \cup C)
      /\ Occurrences(s, T) = Cardinality(A) /\ Occurrences(t, T) = Cardinality(B)
  <2>1. Occurrences(s \o t, T) = Cardinality(A \cup C)
    BY <1>2 DEF Occurrences
  <2>2. Occurrences(s, T) = Cardinality(A)
    BY DEF Occurrences, A
  <2>3. Occurrences(t, T) = Cardinality(B)
    BY DEF Occurrences, B
  <2> QED
    BY <2>1, <2>2, <2>3
<1> QED
  BY <1>6, <1>7, <1>8, <1>9

LEMMA OccurrencesAppend ==
  ASSUME NEW S, NEW s \in Seq(S), NEW e \in S, NEW T
  PROVE  Occurrences(Append(s, e), T) = Occurrences(s, T) + IF e \in T THEN 1 ELSE 0
<1>1. Append(s, e) = s \o <<e>> /\ <<e>> \in Seq(S)
  OBVIOUS
<1>2. Occurrences(s \o <<e>>, T) = Occurrences(s, T) + Occurrences(<<e>>, T)
  BY <1>1, OccurrencesBehind
<1>3. Occurrences(<<e>>, T) = IF e \in T THEN 1 ELSE 0
  BY OccurrencesOfOne
<1> QED
  BY <1>1, <1>2, <1>3

LEMMA OccurrencesHeadTail ==
  ASSUME NEW S, NEW s \in Seq(S), s # <<>>, NEW T
  PROVE  Occurrences(s, T) = Occurrences(Tail(s), T) + IF Head(s) \in T THEN 1 ELSE 0
<1>1. s = <<Head(s)>> \o Tail(s) /\ <<Head(s)>> \in Seq(S) /\ Tail(s) \in Seq(S)
  OBVIOUS
<1>2. Occurrences(<<Head(s)>> \o Tail(s), T)
        = Occurrences(<<Head(s)>>, T) + Occurrences(Tail(s), T)
  BY <1>1, OccurrencesBehind
<1>3. Occurrences(Tail(s), T) \in Nat
  BY <1>1, OccurrencesType
<1>4. Occurrences(<<Head(s)>>, T) = IF Head(s) \in T THEN 1 ELSE 0
  BY OccurrencesOfOne
<1>5. Occurrences(s, T) = Occurrences(<<Head(s)>>, T) + Occurrences(Tail(s), T)
  BY <1>1, <1>2, Zenon
<1> QED
  BY <1>3, <1>4, <1>5

-----------------------------------------------------------------------------
(***************************************************************************)
(* Commands.  A command is on its way from the moment it is issued until   *)
(* it is executed or overwritten: in the slot, taken by the command        *)
(* thread, or about to be written for a shutdown package.                  *)
(***************************************************************************)
One(b) == IF b THEN 1 ELSE 0
OnItsWay(c) ==
  One(command = c) + One(cpc = "executing" /\ cmd = c) + One(c = "quit" /\ ipc = "commanding")

Issuers(c) == {a \in App : AppCommand[a] = c /\ apc[a] # "ready"}
ShutdownsHandled == Occurrences(handled.conf, Shutdowns) + Occurrences(handled.net, Shutdowns)

CommandsTyped ==
  /\ apc \in [App -> {"ready", "notifying", "done"}]
  /\ \A c \in Command : IsFiniteSet(Issuers(c))
  /\ ipc = "forwarding" => IsShutdown(inHand)

CommandsInv ==
  /\ CommandsTyped
  /\ \A c \in Command : Occurrences(executed, {c}) + OnItsWay(c) <= Issued(c)
  /\ Writer = "network" /\ running = TRUE =>
       Occurrences(executed, {"quit"}) + OnItsWay("quit")
         <= IssuedByApp("quit") + ShutdownsWritten
  /\ ShutdownPassedOn

\* The steps that have to do with commands.
CommandMove ==
  \/ CommandTake \/ CommandExecute \/ IncomingCommand \/ IncomingShutdown
  \/ \E a \in App : HandleCommand(a)

LEMMA CommandsKept ==
  ASSUME [Next]_vars, ~CommandMove
  PROVE  /\ UNCHANGED <<command, cmd, executed>>
         /\ cpc' = "executing" => cpc = "executing"
         /\ ipc' = "commanding" => ipc = "commanding"
<1> USE DEF flags, commanding, incoming, Elsewhere, Rest, BesideStop, Woken
<1>1. CASE Complete \/ IoStep \/ SpuriousWakeup \/ WriterBegin
  BY <1>1 DEF Complete, IoStep, Receive, ReceiveNothing, receivedDataSet, receivedDataNotify,
     ReadAgain, SpuriousWakeup, WriterBegin, NotifyAll
<1>2. ASSUME NEW a \in App, NotifyCommand(a)
      PROVE  /\ UNCHANGED <<command, cmd, executed>>
             /\ cpc' = "executing" => cpc = "executing"
             /\ ipc' = "commanding" => ipc = "commanding"
  BY <1>2 DEF NotifyCommand, NotifyAll
<1>3. ASSUME NEW s \in Stopper, StopRunning(s) \/ StopStep(s)
      PROVE  /\ UNCHANGED <<command, cmd, executed>>
             /\ cpc' = "executing" => cpc = "executing"
             /\ ipc' = "commanding" => ipc = "commanding"
  BY <1>3 DEF StopRunning, StopStep, StopNotify, StopReader, StopConfigReader, StopWriter,
     NotifyAll
<1>4. CASE IncomingStep \/ IncomingLock
  BY <1>4 DEF CommandMove, IncomingStep, IncomingLock, IncomingLoop, IncomingTest,
     IncomingBlock, IncomingCheck, IncomingRead, IncomingLeave, IncomingTake, IncomingPass,
     IncomingNotify, IncomingClear, NextReader, Handled
<1>5. CASE CommandStep \/ CommandLock
  BY <1>5 DEF CommandMove, CommandStep, CommandLock, CommandLoop, CommandQuit,
     CommandAnnounce, CommandDecide, CommandBlock, CommandEnd
<1>6. CASE UNCHANGED vars
  BY <1>6 DEF vars
<1> QED
  BY <1>1, <1>2, <1>3, <1>4, <1>5, <1>6 DEF Next, CommandMove

\* Who has issued a command stays one who has.
LEMMA ApcKept ==
  ASSUME [Next]_vars
  PROVE  \/ apc' = apc
         \/ \E a \in App : HandleCommand(a) \/ NotifyCommand(a)
<1> USE DEF Elsewhere, Rest, BesideStop
<1>1. CASE Complete \/ IoStep \/ SpuriousWakeup \/ WriterBegin
  BY <1>1 DEF Complete, IoStep, Receive, ReceiveNothing, receivedDataSet, receivedDataNotify,
     ReadAgain, SpuriousWakeup, WriterBegin
<1>2. CASE \E s \in Stopper : StopRunning(s) \/ StopStep(s)
  BY <1>2 DEF StopRunning, StopStep, StopNotify, StopReader, StopConfigReader, StopWriter
<1>3. CASE IncomingStep \/ IncomingLock
  BY <1>3 DEF IncomingStep, IncomingLock, IncomingLoop, IncomingTest,
     IncomingBlock, IncomingCheck, IncomingRead, IncomingLeave, IncomingTake, IncomingPass,
     IncomingShutdown, IncomingCommand, IncomingNotify, IncomingClear, Handled
<1>4. CASE CommandStep \/ CommandLock
  BY <1>4 DEF CommandStep, CommandLock, CommandLoop, CommandTake, CommandExecute, CommandQuit,
     CommandAnnounce, CommandDecide, CommandBlock, CommandEnd
<1>5. CASE UNCHANGED vars
  BY <1>5 DEF vars
<1> QED
  BY <1>1, <1>2, <1>3, <1>4, <1>5 DEF Next

LEMMA CommandsTypedNext ==
  HandsTyped /\ CommandsTyped /\ [Next]_vars => CommandsTyped'
<1> SUFFICES ASSUME HandsTyped, CommandsTyped, [Next]_vars PROVE CommandsTyped'
  OBVIOUS
<1>1. /\ apc' \in [App -> {"ready", "notifying", "done"}]
      /\ \A c \in Command : IsFiniteSet(Issuers(c)')
  <2>1. CASE apc' = apc
    BY <2>1 DEF CommandsTyped, Issuers
  <2>2. ASSUME NEW a \in App, HandleCommand(a)
        PROVE  /\ apc' \in [App -> {"ready", "notifying", "done"}]
               /\ \A c \in Command : IsFiniteSet(Issuers(c)')
    <3>1. /\ apc' \in [App -> {"ready", "notifying", "done"}]
          /\ \A c \in Command : Issuers(c)' \in {Issuers(c), Issuers(c) \cup {a}}
      BY <2>2 DEF CommandsTyped, HandleCommand, Issuers
    <3>2. \A c \in Command : IsFiniteSet(Issuers(c)) /\ IsFiniteSet(Issuers(c) \cup {a})
      BY FS_AddElement DEF CommandsTyped
    <3> QED
      BY <3>1, <3>2
  <2>3. ASSUME NEW a \in App, NotifyCommand(a)
        PROVE  /\ apc' \in [App -> {"ready", "notifying", "done"}]
               /\ \A c \in Command : IsFiniteSet(Issuers(c)')
    <3>1. /\ apc' \in [App -> {"ready", "notifying", "done"}]
          /\ \A c \in Command : Issuers(c)' = Issuers(c)
      BY <2>3 DEF CommandsTyped, NotifyCommand, Issuers
    <3> QED
      BY <3>1 DEF CommandsTyped
  <2> QED
    BY <2>1, <2>2, <2>3, ApcKept
<1>2. ipc' = "forwarding" => IsShutdown(inHand')
  <2>1. CASE IncomingTake
    BY <2>1 DEF IncomingTake
  <2>2. CASE ~PackageStep
    <3>1. inHand' = inHand /\ (inHand # None => ipc' = ipc)
      BY <2>2, PackagesKept
    <3>2. ipc' = "forwarding" => ipc = "forwarding"
      BY <2>2, ToHandling DEF PackageStep
    <3> QED
      BY <3>1, <3>2 DEF CommandsTyped
  <2>3. CASE Receive \/ CommandExecute
    BY <2>3 DEF Receive, CommandExecute, Rest, Elsewhere, incoming, CommandsTyped
  <2>4. CASE IncomingCheck \/ IncomingRead \/ IncomingLeave \/ IncomingPass
             \/ IncomingShutdown \/ IncomingNotify
    BY <2>4 DEF IncomingCheck, IncomingRead, IncomingLeave, IncomingPass, IncomingShutdown,
       IncomingNotify, NextReader
  <2> QED
    BY <2>1, <2>2, <2>3, <2>4 DEF PackageStep
<1> QED
  BY <1>1, <1>2 DEF CommandsTyped

\* The numbers that the invariant compares.
LEMMA CountsTyped ==
  ASSUME NodeInv, CommandsTyped
  PROVE  /\ \A c \in Command : /\ Occurrences(executed, {c}) \in Nat
                               /\ OnItsWay(c) \in Nat /\ IssuedByApp(c) \in Nat
         /\ ShutdownsHandled \in Nat /\ ShutdownsWritten \in Nat
<1>1. executed \in Seq(Command) /\ outbox \in Seq(Packages) /\ early \in Seq(Packages)
      /\ handled.conf \in Seq(Packages) /\ handled.net \in Seq(Packages)
  BY DEF NodeInv, HistoryTyped, AckInv
<1>2. \A c : OnItsWay(c) \in Nat
  BY DEF OnItsWay, One
<1>3. \A c \in Command : IssuedByApp(c) \in Nat
  BY FS_CardinalityType DEF CommandsTyped, IssuedByApp, Issuers
<1>4. \A T : /\ Occurrences(executed, T) \in Nat
             /\ Occurrences(outbox, T) \in Nat /\ Occurrences(early, T) \in Nat
             /\ Occurrences(handled.conf, T) \in Nat /\ Occurrences(handled.net, T) \in Nat
  BY <1>1, OccurrencesType
<1> QED
  BY <1>2, <1>3, <1>4 DEF ShutdownsHandled, ShutdownsWritten

\* Nothing is taken back of what was handled, sent or issued.
LEMMA ShutdownsGrow ==
  ASSUME NodeInv, CommandsTyped, [Next]_vars
  PROVE  /\ ShutdownsHandled' >= ShutdownsHandled
         /\ IncomingShutdown => ShutdownsHandled' = ShutdownsHandled + 1
<1>1. CASE IncomingPass \/ IncomingShutdown
  <2>1. /\ inHand \in Packages /\ reading \in {"conf", "net"}
        /\ handled' = [handled EXCEPT ![reading] = Append(@, inHand)]
        /\ handled \in [{"conf", "net"} -> Seq(Packages)]
    BY <1>1 DEF NodeInv, HandsTyped, AckInv, IncomingPass, IncomingShutdown, Handled
  <2>2. /\ handled.conf \in Seq(Packages) /\ handled.net \in Seq(Packages)
        /\ Occurrences(handled.conf, Shutdowns) \in Nat
        /\ Occurrences(handled.net, Shutdowns) \in Nat
    BY <2>1, OccurrencesType
  <2>3. CASE reading = "conf"
    <3>1. handled'.conf = Append(handled.conf, inHand) /\ handled'.net = handled.net
      BY <2>1, <2>3
    <3>2. Occurrences(handled'.conf, Shutdowns)
            = Occurrences(handled.conf, Shutdowns) + IF inHand \in Shutdowns THEN 1 ELSE 0
      BY <2>1, <2>2, <3>1, OccurrencesAppend
    <3>3. ShutdownsHandled' = ShutdownsHandled + IF inHand \in Shutdowns THEN 1 ELSE 0
      BY <2>2, <3>1, <3>2 DEF ShutdownsHandled
    <3> QED
      BY <2>1, <2>2, <3>3 DEF ShutdownsHandled, Shutdowns, CommandsTyped, IncomingShutdown
  <2>4. CASE reading = "net"
    <3>1. handled'.net = Append(handled.net, inHand) /\ handled'.conf = handled.conf
      BY <2>1, <2>4
    <3>2. Occurrences(handled'.net, Shutdowns)
            = Occurrences(handled.net, Shutdowns) + IF inHand \in Shutdowns THEN 1 ELSE 0
      BY <2>1, <2>2, <3>1, OccurrencesAppend
    <3>3. ShutdownsHandled' = ShutdownsHandled + IF inHand \in Shutdowns THEN 1 ELSE 0
      BY <2>2, <3>1, <3>2 DEF ShutdownsHandled
    <3> QED
      BY <2>1, <2>2, <3>3 DEF ShutdownsHandled, Shutdowns, CommandsTyped, IncomingShutdown
  <2> QED
    BY <2>1, <2>3, <2>4
<1>2. CASE ~(IncomingPass \/ IncomingShutdown)
  <2>1. handled' = handled
    BY <1>2, QuietSteps DEF SendingStep, CommandExecute, incoming
  <2> QED
    BY <1>2, <2>1, CountsTyped DEF ShutdownsHandled
<1> QED
  BY <1>1, <1>2

\* A shutdown that a network writer is given is one more.
LEMMA GivenShutdowns ==
  ASSUME NEW seq \in Seq(Packages), NEW ps \in Seq(Packages)
  PROVE  /\ Occurrences(seq, Shutdowns) \in Nat
         /\ \/ Occurrences(Given(seq, ps), Shutdowns) = Occurrences(seq, Shutdowns)
            \/ Occurrences(Given(seq, ps), Shutdowns) = Occurrences(seq, Shutdowns) + 1
         /\ \A p \in Packages : ps = <<p>> /\ IsShutdown(p) /\ Writer = "network" =>
              Occurrences(Given(seq, ps), Shutdowns) = Occurrences(seq, Shutdowns) + 1
<1>1. Occurrences(seq, Shutdowns) \in Nat
  BY OccurrencesType
<1>2. ASSUME NEW q \in Packages
      PROVE  Occurrences(Append(seq, q), Shutdowns) = Occurrences(seq, Shutdowns) + One(q \in Shutdowns)
  BY <1>2, OccurrencesAppend DEF One
<1>3. \A b : One(b) \in {0, 1}
  BY DEF One
<1>4. ASSUME NEW q \in Packages, Given(seq, ps) = Append(seq, q)
      PROVE  \/ Occurrences(Given(seq, ps), Shutdowns) = Occurrences(seq, Shutdowns)
             \/ Occurrences(Given(seq, ps), Shutdowns) = Occurrences(seq, Shutdowns) + 1
  BY <1>1, <1>2, <1>3, <1>4
<1>5. \/ Occurrences(Given(seq, ps), Shutdowns) = Occurrences(seq, Shutdowns)
      \/ Occurrences(Given(seq, ps), Shutdowns) = Occurrences(seq, Shutdowns) + 1
  BY <1>4, GivenFacts
<1>6. ASSUME NEW p \in Packages, ps = <<p>>, IsShutdown(p), Writer = "network"
      PROVE  Occurrences(Given(seq, ps), Shutdowns) = Occurrences(seq, Shutdowns) + 1
  <2>1. WithOrigin(p) \in Packages /\ WithOrigin(p) \in Shutdowns
    <3>1. [host |-> None, port |-> ListeningPort] \in Address
      BY NodeAssumption DEF Address
    <3>2. WithOrigin(p) \in Packages
          /\ WithOrigin(p).type = p.type /\ WithOrigin(p).payload = p.payload
      BY <3>1 DEF WithOrigin, Packages
    <3> QED
      BY <1>6, <3>2 DEF Shutdowns, IsShutdown, IsControl, PayloadString
  <2>2. Given(seq, ps) = Append(seq, WithOrigin(p))
    BY <1>6 DEF Given, Accepts
  <2>3. One(WithOrigin(p) \in Shutdowns) = 1
    BY <2>1 DEF One
  <2> QED
    BY <1>2, <2>1, <2>2, <2>3
<1> QED
  BY <1>1, <1>5, <1>6

LEMMA OutboxGrows ==
  ASSUME NodeInv, CommandsTyped, [Next]_vars
  PROVE  /\ ShutdownsWritten' >= ShutdownsWritten
         /\ IncomingShutdown /\ Writer = "network" /\ running = TRUE =>
              ShutdownsWritten' = ShutdownsWritten + 1
<1> DEFINE o == Occurrences(outbox, Shutdowns)
           e == Occurrences(early, Shutdowns)
<1>1. /\ outbox \in Seq(Packages) /\ early \in Seq(Packages)
      /\ ShutdownsWritten = o + e /\ ShutdownsWritten' = o' + e'
  BY DEF NodeInv, HistoryTyped, ShutdownsWritten
<1>2. o \in Nat /\ e \in Nat
  BY <1>1, OccurrencesType
<1>3. ASSUME NEW ps \in Seq(Packages), sendData(ps)
      PROVE  /\ o' = o \/ o' = o + 1
             /\ e' = e \/ e' = e + 1
             /\ \A p \in Packages :
                  ps = <<p>> /\ IsShutdown(p) /\ Writer = "network" /\ writer # "stopped" =>
                    o' + e' = o + e + 1
  <2> DEFINE go == Occurrences(Given(outbox, ps), Shutdowns)
             ge == Occurrences(Given(early, ps), Shutdowns)
  <2>1. /\ o' = IF writer = "sending" THEN go ELSE o
        /\ e' = IF writer = "starting" THEN ge ELSE e
    BY <1>3 DEF sendData
  <2>2. (go = o \/ go = o + 1) /\ (ge = e \/ ge = e + 1)
    BY <1>1, GivenShutdowns
  <2>3. ASSUME NEW p \in Packages, ps = <<p>>, IsShutdown(p), Writer = "network"
        PROVE  go = o + 1 /\ ge = e + 1
    BY <1>1, <2>3, GivenShutdowns
  <2>4. writer \in {"starting", "sending", "stopped"}
    BY DEF NodeInv, StopInv
  <2> HIDE DEF o, e, go, ge
  <2> QED
    BY <1>2, <2>1, <2>2, <2>3, <2>4
<1>4. CASE ~SendingStep
  BY <1>1, <1>2, <1>4, QuietSteps DEF SendingStep
<1>5. CASE IncomingPass
  <2> DEFINE sent == IF inHand.type = "Acknowledgement" THEN <<inHand>>
                     ELSE passToHandlers(handlers, inHand)
  <2>1. inHand \in Packages /\ sendData(sent)
    BY <1>5 DEF NodeInv, HandsTyped, IncomingPass
  <2>2. sent \in Seq(Packages)
    BY <2>1, PassFacts
  <2>3. ~IncomingShutdown
    BY <1>5 DEF IncomingPass, IncomingShutdown
  <2> HIDE DEF sent
  <2>4. (o' = o \/ o' = o + 1) /\ (e' = e \/ e' = e + 1)
    BY <1>3, <2>1, <2>2
  <2> HIDE DEF o, e
  <2> QED
    BY <1>1, <1>2, <2>3, <2>4
<1>6. CASE IncomingShutdown
  <2>1. inHand \in Packages /\ IsShutdown(inHand) /\ sendData(<<inHand>>)
        /\ <<inHand>> \in Seq(Packages)
    <3>1. sendData(<<inHand>>) /\ ipc = "forwarding"
      BY <1>6 DEF IncomingShutdown
    <3>2. inHand \in Packages
      BY <3>1 DEF NodeInv, HandsTyped
    <3>3. IsShutdown(inHand)
      BY <3>1, Zenon DEF CommandsTyped
    <3>4. <<inHand>> \in Seq(Packages)
      BY <3>2
    <3> QED
      BY <3>1, <3>2, <3>3, <3>4, Zenon
  <2>2. running = TRUE => writer # "stopped"
    BY DEF NodeInv, StopInv
  <2>3. /\ (o' = o \/ o' = o + 1) /\ (e' = e \/ e' = e + 1)
        /\ Writer = "network" /\ running = TRUE => o' + e' = o + e + 1
    BY <1>3, <2>1, <2>2
  <2> HIDE DEF o, e
  <2> QED
    BY <1>1, <1>2, <2>3
<1>7. CASE CommandExecute
  <2>1. /\ cmd \in Command /\ (UNCHANGED <<outbox, early>> \/ sendData(Sent(cmd)))
        /\ ~IncomingShutdown
    BY <1>7 DEF NodeInv, HandsTyped, MutexOwned, CommandExecute, IncomingShutdown, incoming,
       Elsewhere
  <2>2. (o' = o \/ o' = o + 1) /\ (e' = e \/ e' = e + 1)
    <3>1. CASE UNCHANGED <<outbox, early>>
      BY <3>1
    <3>2. CASE sendData(Sent(cmd))
      BY <1>3, <2>1, <3>2, SentFacts
    <3> QED
      BY <2>1, <3>1, <3>2
  <2> HIDE DEF o, e
  <2> QED
    BY <1>1, <1>2, <2>1, <2>2
<1> QED
  BY <1>4, <1>5, <1>6, <1>7 DEF SendingStep

LEMMA IssuersGrow ==
  ASSUME NodeInv, CommandsTyped, [Next]_vars, NEW c \in Command
  PROVE  /\ IssuedByApp(c)' >= IssuedByApp(c)
         /\ \A a \in App : HandleCommand(a) =>
              IssuedByApp(c)' = IssuedByApp(c) + One(c = AppCommand[a])
<1>1. /\ IsFiniteSet(Issuers(c)) /\ IssuedByApp(c) = Cardinality(Issuers(c))
      /\ IssuedByApp(c)' = Cardinality(Issuers(c)') /\ IssuedByApp(c) \in Nat
  BY CountsTyped DEF CommandsTyped, IssuedByApp, Issuers
<1>2. ASSUME NEW a \in App, HandleCommand(a)
      PROVE  IssuedByApp(c)' = IssuedByApp(c) + One(c = AppCommand[a])
  <2>1. /\ a \notin Issuers(c)
        /\ Issuers(c)' = IF c = AppCommand[a] THEN Issuers(c) \cup {a} ELSE Issuers(c)
    BY <1>2 DEF CommandsTyped, HandleCommand, Issuers
  <2>2. Cardinality(Issuers(c) \cup {a}) = Cardinality(Issuers(c)) + 1
    BY <1>1, <2>1, FS_AddElement
  <2>3. CASE c = AppCommand[a]
    BY <1>1, <2>1, <2>2, <2>3 DEF One
  <2>4. CASE c # AppCommand[a]
    BY <1>1, <2>1, <2>4 DEF One
  <2> QED
    BY <2>3, <2>4
<1>3. ASSUME NEW a \in App, NotifyCommand(a) PROVE Issuers(c)' = Issuers(c)
  BY <1>3 DEF CommandsTyped, NotifyCommand, Issuers
<1>4. apc' = apc => Issuers(c)' = Issuers(c)
  BY DEF Issuers
<1>5. IssuedByApp(c)' >= IssuedByApp(c)
  BY <1>1, <1>2, <1>3, <1>4, ApcKept DEF One
<1> QED
  BY <1>2, <1>5

\* A command gets on its way when it is issued, and leaves it no later than it
\* is executed.
LEMMA OnItsWayNext ==
  ASSUME NodeInv, CommandsTyped, [Next]_vars, NEW c \in Command
  PROVE  Occurrences(executed', {c}) + OnItsWay(c)'
           <= Occurrences(executed, {c}) + OnItsWay(c)
              + One((c = "quit" /\ IncomingShutdown)
                    \/ \E a \in App : HandleCommand(a) /\ c = AppCommand[a])
<1> DEFINE gained == (c = "quit" /\ IncomingShutdown)
                     \/ \E a \in App : HandleCommand(a) /\ c = AppCommand[a]
           slot == One(command = c)
           taken == One(cpc = "executing" /\ cmd = c)
           told == One(c = "quit" /\ ipc = "commanding")
           more == One(gained)
<1>1. executed \in Seq(Command) /\ executed' \in Seq(Command) /\ c # ""
  BY StepNodeInv DEF Command, NodeInv, HistoryTyped
<1>2. PICK n \in Nat, m \in Nat :
       n = Occurrences(executed, {c}) /\ m = Occurrences(executed', {c})
  BY <1>1, OccurrencesType
<1>3. /\ OnItsWay(c) = slot + taken + told /\ OnItsWay(c)' = slot' + taken' + told'
      /\ slot \in {0, 1} /\ taken \in {0, 1} /\ told \in {0, 1} /\ more \in {0, 1}
      /\ slot' \in {0, 1} /\ taken' \in {0, 1} /\ told' \in {0, 1}
  BY DEF OnItsWay, One
<1>4. PICK s0 \in {0, 1}, t0 \in {0, 1}, u0 \in {0, 1},
           s1 \in {0, 1}, t1 \in {0, 1}, u1 \in {0, 1} :
        /\ s0 = slot /\ t0 = taken /\ u0 = told
        /\ s1 = slot' /\ t1 = taken' /\ u1 = told'
  BY <1>3
<1> HIDE DEF gained
<1>5. PICK g \in {0, 1} : g = more
  BY <1>3
<1>6. gained => g = 1
  BY <1>5 DEF One
<1>7. /\ c = "quit" /\ IncomingShutdown => g = 1
      /\ \A a \in App : HandleCommand(a) /\ c = AppCommand[a] => g = 1
  BY <1>6, Zenon DEF gained
<1> SUFFICES m + (s1 + t1 + u1) <= n + (s0 + t0 + u0) + g
  BY <1>2, <1>3, <1>4, <1>5 DEF gained
<1>8. executed' = executed => m = n
  BY <1>2
<1>9. CASE ~CommandMove
  <2>1. /\ m = n /\ s1 = s0
        /\ t1 = 1 => t0 = 1
        /\ u1 = 1 => u0 = 1
    BY <1>4, <1>9, <1>8, CommandsKept DEF One
  <2> QED
    BY <2>1
<1>10. CASE CommandTake
  <2>1. /\ cpc = "testing" /\ command' = "" /\ cmd' = command /\ UNCHANGED <<executed, ipc>>
    BY <1>10 DEF CommandTake, incoming
  <2>2. m = n /\ s1 = 0 /\ t0 = 0 /\ u1 = u0 /\ (t1 = 1 => s0 = 1)
    BY <1>1, <1>4, <1>8, <2>1 DEF One
  <2> QED
    BY <2>2
<1>11. CASE CommandExecute
  <2>1. /\ cpc = "executing" /\ cpc' # "executing" /\ UNCHANGED <<command, ipc, cmd>>
        /\ executed' = executed \/ executed' = Append(executed, cmd)
        /\ cmd \in Command
    BY <1>11 DEF CommandExecute, incoming, flags, NodeInv, HandsTyped
  <2>2. executed' = Append(executed, cmd) => m = n + t0
    <3>1. Occurrences(Append(executed, cmd), {c})
            = Occurrences(executed, {c}) + IF cmd \in {c} THEN 1 ELSE 0
      BY <1>1, <2>1, OccurrencesAppend
    <3> QED
      BY <1>4, <1>2, <2>1, <3>1 DEF One
  <2>3. s1 = s0 /\ t1 = 0 /\ u1 = u0
    BY <1>4, <2>1 DEF One
  <2>4. m = n \/ m = n + t0
    BY <1>8, <2>1, <2>2
  <2> QED
    BY <2>3, <2>4
<1>12. CASE IncomingCommand
  <2>1. /\ ipc = "commanding" /\ ipc' = "notifying" /\ command' = "quit"
        /\ UNCHANGED <<executed, cpc, cmd>>
    BY <1>12 DEF IncomingCommand, commanding
  <2>2. m = n /\ t1 = t0 /\ u1 = 0 /\ (s1 = 1 => u0 = 1)
    BY <1>1, <1>4, <1>8, <2>1 DEF One
  <2> QED
    BY <2>2
<1>13. CASE IncomingShutdown
  <2>1. UNCHANGED <<executed, cpc, cmd, command>>
    BY <1>13 DEF IncomingShutdown, Handled, commanding, flags
  <2>2. m = n /\ t1 = t0 /\ s1 = s0
    BY <1>1, <1>4, <1>8, <2>1 DEF One
  <2>3. u1 = 1 => g = 1
    <3>1. ipc' = "commanding" /\ (u1 = 1 => c = "quit")
      BY <1>4, <1>13 DEF One, IncomingShutdown
    <3> QED
      BY <1>13, <1>7, <3>1
  <2> QED
    BY <2>2, <2>3
<1>14. ASSUME NEW a \in App, HandleCommand(a)
      PROVE  m + (s1 + t1 + u1) <= n + (s0 + t0 + u0) + g
  <2>1. UNCHANGED <<executed, cpc, cmd, ipc>> /\ command' = AppCommand[a]
    BY <1>14 DEF HandleCommand, commanding, incoming
  <2>2. m = n /\ t1 = t0 /\ u1 = u0
    BY <1>1, <1>4, <1>8, <2>1 DEF One
  <2>3. s1 = 1 => g = 1
    <3>1. s1 = 1 => c = AppCommand[a]
      BY <1>4, <2>1 DEF One
    <3> QED
      BY <1>7, <1>14, <3>1
  <2> QED
    BY <2>2, <2>3
<1> QED
  BY <1>9, <1>10, <1>11, <1>12, <1>13, <1>14 DEF CommandMove

LEMMA CommandsInvNext == NodeInv /\ CommandsInv /\ [Next]_vars => CommandsInv'
<1> SUFFICES ASSUME NodeInv, CommandsInv, [Next]_vars PROVE CommandsInv'
  OBVIOUS
<1>1. CommandsTyped /\ CommandsTyped' /\ NodeInv'
  BY CommandsTypedNext, StepNodeInv DEF CommandsInv, NodeInv
<1>2. "quit" \in Command
  BY DEF Command
<1>3. /\ \A c \in Command : /\ Occurrences(executed, {c}) \in Nat /\ Occurrences(executed', {c}) \in Nat
                            /\ OnItsWay(c) \in Nat /\ OnItsWay(c)' \in Nat
                            /\ IssuedByApp(c) \in Nat /\ IssuedByApp(c)' \in Nat
      /\ ShutdownsHandled \in Nat /\ ShutdownsHandled' \in Nat
      /\ ShutdownsWritten \in Nat /\ ShutdownsWritten' \in Nat
  <2>1. /\ executed' \in Seq(Command) /\ outbox' \in Seq(Packages) /\ early' \in Seq(Packages)
        /\ handled'.conf \in Seq(Packages) /\ handled'.net \in Seq(Packages)
    BY <1>1 DEF NodeInv, HistoryTyped, AckInv
  <2>2. \A T : /\ Occurrences(executed', T) \in Nat
               /\ Occurrences(outbox', T) \in Nat /\ Occurrences(early', T) \in Nat
               /\ Occurrences(handled'.conf, T) \in Nat /\ Occurrences(handled'.net, T) \in Nat
    BY <2>1, OccurrencesType
  <2>3. \A c \in Command : IssuedByApp(c)' \in Nat
    BY <1>1, FS_CardinalityType DEF CommandsTyped, IssuedByApp, Issuers
  <2>4. \A c : OnItsWay(c)' \in Nat
    BY DEF OnItsWay, One
  <2>5. ShutdownsHandled' \in Nat /\ ShutdownsWritten' \in Nat
    BY <2>2 DEF ShutdownsHandled, ShutdownsWritten
  <2>6. /\ \A c \in Command : /\ Occurrences(executed, {c}) \in Nat
                               /\ OnItsWay(c) \in Nat /\ IssuedByApp(c) \in Nat
        /\ ShutdownsHandled \in Nat /\ ShutdownsWritten \in Nat
    BY <1>1, CountsTyped, Zenon
  <2> QED
    BY <2>2, <2>3, <2>4, <2>5, <2>6, Zenon
<1>4. ASSUME NEW a \in App, HandleCommand(a)
      PROVE  ~IncomingShutdown /\ ~CommandExecute
             /\ \A b \in App : HandleCommand(b) => AppCommand[b] = AppCommand[a]
  <2>1. ~IncomingShutdown /\ ~CommandExecute
    BY <1>4 DEF HandleCommand, IncomingShutdown, CommandExecute, incoming, commanding, Handled,
       Elsewhere
  <2>2. \A b \in App : HandleCommand(b) => AppCommand[b] = AppCommand[a]
    BY <1>4 DEF HandleCommand
  <2> QED
    BY <2>1, <2>2
<1>5. ASSUME NEW c \in Command
      PROVE  Occurrences(executed', {c}) + OnItsWay(c)' <= Issued(c)'
  <2>1. Occurrences(executed, {c}) + OnItsWay(c) <= IssuedByApp(c) + One(c = "quit") * ShutdownsHandled
    BY <1>3 DEF CommandsInv, Issued, ShutdownsHandled, One
  <2>2. Issued(c)' = IssuedByApp(c)' + One(c = "quit") * ShutdownsHandled'
    BY <1>3 DEF Issued, ShutdownsHandled, One
  <2>3. ShutdownsHandled' >= ShutdownsHandled /\ IssuedByApp(c)' >= IssuedByApp(c)
    BY <1>1, ShutdownsGrow, IssuersGrow
  <2>4. CASE c = "quit" /\ IncomingShutdown
    <3>1. ShutdownsHandled' = ShutdownsHandled + 1
      BY <1>1, <2>4, ShutdownsGrow
    <3>2. Occurrences(executed', {c}) + OnItsWay(c)' <= Occurrences(executed, {c}) + OnItsWay(c) + 1
      BY <1>1, <1>3, <2>4, OnItsWayNext DEF One
    <3> QED
      BY <1>3, <2>1, <2>2, <2>3, <2>4, <3>1, <3>2 DEF One
  <2>5. ASSUME NEW a \in App, HandleCommand(a), c = AppCommand[a]
        PROVE  Occurrences(executed', {c}) + OnItsWay(c)' <= Issued(c)'
    <3>1. IssuedByApp(c)' = IssuedByApp(c) + 1
      BY <1>1, <2>5, IssuersGrow DEF One
    <3>2. Occurrences(executed', {c}) + OnItsWay(c)' <= Occurrences(executed, {c}) + OnItsWay(c) + 1
      BY <1>1, <1>3, OnItsWayNext DEF One
    <3> QED
      BY <1>3, <2>1, <2>2, <2>3, <3>1, <3>2 DEF One
  <2>6. CASE ~((c = "quit" /\ IncomingShutdown) \/ \E a \in App : HandleCommand(a) /\ c = AppCommand[a])
    <3>1. Occurrences(executed', {c}) + OnItsWay(c)' <= Occurrences(executed, {c}) + OnItsWay(c)
      BY <1>1, <1>3, <2>6, OnItsWayNext DEF One
    <3> QED
      BY <1>3, <2>1, <2>2, <2>3, <3>1 DEF One
  <2> QED
    BY <2>4, <2>5, <2>6
<1>6. ASSUME Writer = "network", running' = TRUE
      PROVE  Occurrences(executed', {"quit"}) + OnItsWay("quit")'
               <= IssuedByApp("quit")' + ShutdownsWritten'
  <2>1. running = TRUE
    BY <1>6, RunningOnce
  <2>2. Occurrences(executed, {"quit"}) + OnItsWay("quit")
          <= IssuedByApp("quit") + ShutdownsWritten
    BY <1>6, <2>1 DEF CommandsInv
  <2>3. /\ ShutdownsWritten' >= ShutdownsWritten
        /\ IssuedByApp("quit")' >= IssuedByApp("quit")
    BY <1>1, <1>2, OutboxGrows, IssuersGrow
  <2>4. CASE IncomingShutdown
    <3>1. ShutdownsWritten' = ShutdownsWritten + 1
      BY <1>1, <1>6, <2>1, <2>4, OutboxGrows
    <3>2. Occurrences(executed', {"quit"}) + OnItsWay("quit")'
            <= Occurrences(executed, {"quit"}) + OnItsWay("quit") + 1
      BY <1>1, <1>2, <1>3, OnItsWayNext DEF One
    <3> QED
      BY <1>2, <1>3, <2>2, <2>3, <3>1, <3>2
  <2>5. ASSUME NEW a \in App, HandleCommand(a), "quit" = AppCommand[a]
        PROVE  Occurrences(executed', {"quit"}) + OnItsWay("quit")'
                 <= IssuedByApp("quit")' + ShutdownsWritten'
    <3>1. IssuedByApp("quit")' = IssuedByApp("quit") + 1
      BY <1>1, <1>2, <2>5, IssuersGrow DEF One
    <3>2. Occurrences(executed', {"quit"}) + OnItsWay("quit")'
            <= Occurrences(executed, {"quit"}) + OnItsWay("quit") + 1
      BY <1>1, <1>2, <1>3, OnItsWayNext DEF One
    <3> QED
      BY <1>2, <1>3, <2>2, <2>3, <3>1, <3>2
  <2>6. CASE ~(IncomingShutdown \/ \E a \in App : HandleCommand(a) /\ "quit" = AppCommand[a])
    <3>1. Occurrences(executed', {"quit"}) + OnItsWay("quit")'
            <= Occurrences(executed, {"quit"}) + OnItsWay("quit")
      BY <1>1, <1>2, <1>3, <2>6, OnItsWayNext DEF One
    <3> QED
      BY <1>2, <1>3, <2>2, <2>3, <3>1
  <2> QED
    BY <2>4, <2>5, <2>6
<1>7. ShutdownPassedOn'
  <2> SUFFICES ASSUME Writer = "network"
               PROVE  Occurrences(executed', {"quit"})
                        <= IssuedByApp("quit")' + ShutdownsWritten'
    BY DEF ShutdownPassedOn
  <2>1. CASE executed' = executed
    <3>1. /\ ShutdownsWritten' >= ShutdownsWritten
          /\ IssuedByApp("quit")' >= IssuedByApp("quit")
      BY <1>1, <1>2, OutboxGrows, IssuersGrow
    <3>2. Occurrences(executed, {"quit"}) <= IssuedByApp("quit") + ShutdownsWritten
      BY DEF CommandsInv, ShutdownPassedOn
    <3>3. Occurrences(executed', {"quit"}) = Occurrences(executed, {"quit"})
      BY <2>1
    <3> QED
      BY <1>2, <1>3, <3>1, <3>2, <3>3
  <2>2. CASE executed' # executed
    <3>1. CommandExecute
      BY <2>2, QuietSteps DEF SendingStep, IncomingPass, IncomingShutdown, Handled, commanding
    <3>2. running' = TRUE
      BY <2>2, <3>1 DEF CommandExecute, flags, NodeInv, FlagTypes
    <3> QED
      BY <1>2, <1>3, <1>6, <3>2
  <2> QED
    BY <2>1, <2>2
<1> QED
  BY <1>1, <1>5, <1>6, <1>7 DEF CommandsInv

LEMMA InitCommandsInv == Init => CommandsInv
<1> SUFFICES ASSUME Init PROVE CommandsInv
  OBVIOUS
<1>1. /\ apc = [a \in App |-> "ready"] /\ ipc = "loop" /\ cpc = "loop" /\ command = ""
      /\ executed = <<>> /\ outbox = <<>> /\ early = <<>>
      /\ handled.conf = <<>> /\ handled.net = <<>>
  BY DEF Init
<1>2. \A c : Issuers(c) = {}
  BY <1>1 DEF Issuers
<1>3. \A c : IssuedByApp(c) = 0
  BY <1>2, FS_EmptySet DEF IssuedByApp, Issuers
<1>4. CommandsTyped
  BY <1>1, <1>2, FS_EmptySet DEF CommandsTyped
<1>5. ASSUME NEW c \in Command PROVE OnItsWay(c) = 0
  <2>1. ~(command = c) /\ ~(cpc = "executing" /\ cmd = c) /\ ~(c = "quit" /\ ipc = "commanding")
    BY <1>1 DEF Command
  <2> QED
    BY <2>1 DEF OnItsWay, One
<1>6. \A T : /\ Occurrences(executed, T) = 0
             /\ Occurrences(outbox, T) = 0 /\ Occurrences(early, T) = 0
             /\ Occurrences(handled.conf, T) = 0 /\ Occurrences(handled.net, T) = 0
  BY <1>1, OccurrencesOfNone
<1>7. "quit" \in Command
  BY DEF Command
<1> QED
  BY <1>3, <1>4, <1>5, <1>6, <1>7 DEF CommandsInv, Issued, ShutdownPassedOn, ShutdownsWritten

LEMMA CommandsInvariance == Spec => []CommandsInv
  BY InitCommandsInv, CommandsInvNext, NodeInvariance, PTL DEF Spec

\* Every thread may overwrite the one slot for a command, and the command
\* thread empties it: a command may get lost, but none is executed that was
\* not issued, or more often than that, by any number of threads.
THEOREM NoCommandTwice == Spec => []ExecutedWhenIssued
<1>1. NodeInv /\ CommandsInv => ExecutedWhenIssued
  <2> SUFFICES ASSUME NodeInv, CommandsInv, NEW c \in Command
               PROVE  Occurrences(executed, {c}) <= Issued(c)
    BY DEF ExecutedWhenIssued
  <2>1. /\ Occurrences(executed, {c}) \in Nat /\ OnItsWay(c) \in Nat /\ Issued(c) \in Nat
        /\ Occurrences(executed, {c}) + OnItsWay(c) <= Issued(c)
    BY CountsTyped DEF CommandsInv, Issued, ShutdownsHandled
  <2> QED
    BY <2>1
<1> QED
  BY <1>1, NodeInvariance, CommandsInvariance, PTL

\* A node with a network writer quits only as often as the application says
\* so or its writer was given a shutdown package for the next node and took it,
\* unless its thread had not begun, even if stop() closes the writer while the
\* package is in the thread's hands.
THEOREM PassedOnBeforeQuit == Spec => []ShutdownPassedOn
<1>1. CommandsInv => ShutdownPassedOn
  BY DEF CommandsInv
<1> QED
  BY <1>1, CommandsInvariance, PTL

-----------------------------------------------------------------------------
(***************************************************************************)
(* Packages.  Copies(r, p) is how often p is with the node's threads: read *)
(* from r and handled, in hand, or in its queue.                           *)
(***************************************************************************)
Copies(r, p) ==
  Occurrences(handled[r], {p}) + (IF HandOf(r) = p THEN 1 ELSE 0) + Occurrences(Queue(r), {p})
CameOf(A, p) ==
  Cardinality({d \in A : Received(d) = p}) + Cardinality({d \in A : Acknowledges(d, p)})

LostInv ==
  /\ arrived \in [{"conf", "net"} -> SUBSET (ConfIncoming \cup NetIncoming)]
  /\ \A r \in {"conf", "net"} : IsFiniteSet(arrived[r])
  /\ running = TRUE => \A r \in {"conf", "net"} : \A p \in Packages :
                         IsEmpty(p) \/ Copies(r, p) = CameOf(arrived[r], p)

\* A datagram comes once, and adds what it stands for to what has come.
LEMMA OneMore ==
  ASSUME NEW A, IsFiniteSet(A), NEW d, d \notin A, NEW B \in SUBSET A
  PROVE  Cardinality(B) \in Nat /\ Cardinality(B \cup {d}) = Cardinality(B) + 1
<1>1. IsFiniteSet(B) /\ d \notin B
  BY FS_Subset
<1> QED
  BY <1>1, FS_CardinalityType, FS_AddElement

LEMMA CameMore ==
  ASSUME NEW A, IsFiniteSet(A), NEW d \in ConfIncoming \cup NetIncoming, d \notin A,
         NEW p \in Packages
  PROVE  /\ CameOf(A, p) \in Nat
         /\ CameOf(A \cup {d}, p) = CameOf(A, p) + Occurrences(Arrival(UseAck, Received(d)), {p})
<1> DEFINE B == {e \in A : Received(e) = p}
           C == {e \in A \cup {d} : Received(e) = p}
           X == {e \in A : Acknowledges(e, p)}
           Y == {e \in A \cup {d} : Acknowledges(e, p)}
           q == Received(d)
           a == AckFor(q)
<1>1. /\ B \in SUBSET A /\ C = (IF q = p THEN B \cup {d} ELSE B)
      /\ X \in SUBSET A /\ Y = (IF Acknowledges(d, p) THEN X \cup {d} ELSE X)
  OBVIOUS
<1>2. /\ CameOf(A, p) = Cardinality(B) + Cardinality(X)
      /\ CameOf(A \cup {d}, p) = Cardinality(C) + Cardinality(Y)
  BY DEF CameOf
<1>3. q \in Packages /\ a \in Packages
  BY ArrivalType
<1>4. /\ Arrival(UseAck, q) = IF UseAck /\ q.type = "Data" THEN <<q, a>> ELSE <<q>>
      /\ Acknowledges(d, p) <=> UseAck /\ q.type = "Data" /\ a = p
  BY DEF Arrival, Acknowledges
<1> HIDE DEF B, C, X, Y, q, a
<1>5. /\ Cardinality(B) \in Nat /\ Cardinality(X) \in Nat
      /\ Cardinality(C) = Cardinality(B) + IF q = p THEN 1 ELSE 0
      /\ Cardinality(Y) = Cardinality(X) + IF Acknowledges(d, p) THEN 1 ELSE 0
  <2>1. /\ Cardinality(B) \in Nat /\ Cardinality(B \cup {d}) = Cardinality(B) + 1
        /\ Cardinality(X) \in Nat /\ Cardinality(X \cup {d}) = Cardinality(X) + 1
    BY <1>1, OneMore
  <2> QED
    BY <1>1, <2>1
<1>6. Occurrences(<<q>>, {p}) = IF q = p THEN 1 ELSE 0
  BY OccurrencesOfOne
<1>7. <<q>> \in Seq(Packages) /\ Append(<<q>>, a) = <<q, a>>
  <2>1. <<q>> \in Seq(Packages)
    BY <1>3
  <2>2. Append(<<q>>, a) = <<q, a>>
    <3>1. Append(<<q>>, a) \in Seq(Packages) /\ <<q, a>> \in Seq(Packages)
      BY <1>3, <2>1
    <3>2. /\ Len(Append(<<q>>, a)) = 2 /\ Len(<<q, a>>) = 2
          /\ \A i \in 1 .. 2 : Append(<<q>>, a)[i] = <<q, a>>[i]
      BY <1>3, <2>1
    <3> QED
      BY <3>1, <3>2, SeqEqual
  <2> QED
    BY <2>1, <2>2
<1>8. Occurrences(Append(<<q>>, a), {p}) = Occurrences(<<q>>, {p}) + IF a \in {p} THEN 1 ELSE 0
  BY <1>3, <1>7, OccurrencesAppend
<1>9. CASE UseAck /\ q.type = "Data"
  <2>1. Occurrences(<<q, a>>, {p}) = (IF q = p THEN 1 ELSE 0) + IF a = p THEN 1 ELSE 0
    BY <1>6, <1>7, <1>8
  <2>2. Cardinality(C) + Cardinality(Y)
          = Cardinality(B) + Cardinality(X) + ((IF q = p THEN 1 ELSE 0) + IF a = p THEN 1 ELSE 0)
    BY <1>1, <1>4, <1>5, <1>9
  <2>3. Arrival(UseAck, q) = <<q, a>>
    BY <1>4, <1>9
  <2> QED
    BY <1>2, <1>5, <2>1, <2>2, <2>3 DEF q
<1>10. CASE ~(UseAck /\ q.type = "Data")
  <2>1. Cardinality(C) + Cardinality(Y) = Cardinality(B) + Cardinality(X) + IF q = p THEN 1 ELSE 0
    BY <1>1, <1>4, <1>5, <1>10
  <2>2. Arrival(UseAck, q) = <<q>>
    BY <1>4, <1>10
  <2> QED
    BY <1>2, <1>5, <1>6, <2>1, <2>2 DEF q
<1> QED
  BY <1>9, <1>10

LEMMA ArrivedKept == ASSUME [Next]_vars, ~Receive PROVE arrived' = arrived
<1>1. CASE ~ReaderStep
  BY <1>1, OtherSteps
<1>2. CASE Complete \/ IoStep \/ IncomingRead
  BY <1>2 DEF Complete, IoStep, ReceiveNothing, receivedDataSet, receivedDataNotify, ReadAgain,
     IncomingRead
<1>3. ASSUME NEW s \in Stopper, StopReader(s) \/ StopConfigReader(s) PROVE arrived' = arrived
  BY <1>3 DEF StopReader, StopConfigReader, BesideStop
<1> QED
  BY <1>1, <1>2, <1>3 DEF ReaderStep

\* The numbers that the invariant compares.
LEMMA CopiesTyped ==
  ASSUME ReadersTyped, AckInv, NEW r \in {"conf", "net"}, NEW p
  PROVE  /\ handled[r] \in Seq(Packages) /\ Queue(r) \in Seq(Packages)
         /\ Occurrences(handled[r], {p}) \in Nat /\ Occurrences(Queue(r), {p}) \in Nat
<1>1. handled[r] \in Seq(Packages) /\ Queue(r) \in Seq(Packages)
  BY DEF ReadersTyped, AckInv, Queue
<1> QED
  BY <1>1, OccurrencesType

\* Nothing moves, or only what is empty or nothing leaves the thread's hands.
LEMMA LostKept ==
  ASSUME LostInv, UNCHANGED <<handled, arrived>>, running' = TRUE => running = TRUE,
         \A r \in {"conf", "net"} : Queue(r)' = Queue(r),
         running = TRUE => \A r \in {"conf", "net"} : \A p \in Packages :
                             IsEmpty(p) \/ (HandOf(r)' = p <=> HandOf(r) = p)
  PROVE  LostInv'
<1>1. ASSUME running' = TRUE, NEW r \in {"conf", "net"}, NEW p \in Packages, ~IsEmpty(p)
      PROVE  Copies(r, p)' = CameOf(arrived'[r], p)
  <2>1. Copies(r, p) = CameOf(arrived[r], p) /\ (HandOf(r)' = p <=> HandOf(r) = p)
    BY <1>1 DEF LostInv
  <2>2. Copies(r, p)' = Occurrences(handled[r], {p}) + (IF HandOf(r)' = p THEN 1 ELSE 0)
                        + Occurrences(Queue(r), {p})
    BY DEF Copies
  <2> QED
    BY <2>1, <2>2 DEF Copies
<1> QED
  BY <1>1 DEF LostInv, CameOf

LEMMA LostRead ==
  ASSUME ReadersTyped, HandsTyped, AckInv, LostInv, IncomingRead
  PROVE  LostInv'
<1>1. /\ UNCHANGED <<handled, reading, running, arrived>> /\ inHand = None
      /\ reading \in {"conf", "net"}
  BY DEF IncomingRead, HandsTyped, Busy, flags
<1> DEFINE q == Queue(reading)
<1>2. \A r \in {"conf", "net"} : r # reading => HandOf(r)' = HandOf(r) /\ Queue(r)' = Queue(r)
  BY <1>1 DEF IncomingRead, HandOf, Queue, confVars, netVars
<1>3. /\ Queue(reading)' = IF q # <<>> THEN Tail(q) ELSE q
      /\ HandOf(reading)' = inHand' /\ HandOf(reading) = None
      /\ inHand' = IF q # <<>> THEN Head(q) ELSE None
  BY <1>1 DEF IncomingRead, HandOf, Queue, Conf!Read, Net!Read, Conf!ReadResult,
     Net!ReadResult
<1>4. q \in Seq(Packages)
  BY <1>1, CopiesTyped
<1> HIDE DEF q
<1>5. CASE q = <<>>
  <2>1. /\ \A r \in {"conf", "net"} : Queue(r)' = Queue(r) /\ HandOf(r)' = HandOf(r)
    BY <1>1, <1>2, <1>3, <1>5 DEF q
  <2> QED
    BY <1>1, <2>1, LostKept
<1>6. ASSUME q # <<>>, running' = TRUE, NEW r \in {"conf", "net"}, NEW p \in Packages, ~IsEmpty(p)
      PROVE  Copies(r, p)' = CameOf(arrived'[r], p)
  <2>1. Copies(r, p) = CameOf(arrived'[r], p)
    BY <1>1, <1>6 DEF LostInv
  <2>2. Copies(r, p)' = Occurrences(handled[r], {p}) + (IF HandOf(r)' = p THEN 1 ELSE 0)
                        + Occurrences(Queue(r)', {p})
    BY <1>1 DEF Copies
  <2>3. CASE r # reading
    BY <1>2, <2>1, <2>2, <2>3 DEF Copies
  <2>4. CASE r = reading
    <3>1. Occurrences(q, {p}) = Occurrences(Tail(q), {p}) + IF Head(q) \in {p} THEN 1 ELSE 0
      BY <1>4, <1>6, OccurrencesHeadTail
    <3>2. Tail(q) \in Seq(Packages) /\ None # p
      BY <1>4, <1>6, NodeAssumption
    <3>3. Occurrences(Tail(q), {p}) \in Nat /\ Occurrences(handled[r], {p}) \in Nat
      BY <3>2, OccurrencesType, CopiesTyped
    <3>4. Copies(r, p) = Occurrences(handled[r], {p}) + 0 + Occurrences(q, {p})
      BY <1>3, <2>4, <3>2 DEF Copies, q
    <3>5. Copies(r, p)' = Occurrences(handled[r], {p}) + (IF Head(q) = p THEN 1 ELSE 0)
                          + Occurrences(Tail(q), {p})
      BY <1>1, <1>3, <1>6, <2>2, <2>4
    <3> QED
      BY <2>1, <3>1, <3>3, <3>4, <3>5
  <2> QED
    BY <2>3, <2>4
<1> QED
  BY <1>1, <1>5, <1>6 DEF LostInv, CameOf

LEMMA LostHandled ==
  ASSUME ReadersTyped, HandsTyped, AckInv, LostInv, IncomingPass \/ IncomingShutdown
  PROVE  LostInv'
<1>1. /\ inHand \in Packages /\ reading \in {"conf", "net"}
      /\ handled' = [handled EXCEPT ![reading] = Append(@, inHand)]
      /\ UNCHANGED <<confQueue, netQueue, running, reading, arrived>> /\ inHand' = None
  BY DEF IncomingPass, IncomingShutdown, Handled, HandsTyped, Elsewhere, confVars, netVars, flags
<1>2. handled \in [{"conf", "net"} -> Seq(Packages)]
  BY DEF AckInv
<1>3. ASSUME running' = TRUE, NEW r \in {"conf", "net"}, NEW p \in Packages, ~IsEmpty(p)
      PROVE  Copies(r, p)' = CameOf(arrived'[r], p)
  <2>1. Copies(r, p) = CameOf(arrived'[r], p)
    BY <1>1, <1>3 DEF LostInv
  <2>2. HandOf(r)' = None /\ Queue(r)' = Queue(r) /\ None # p
    BY <1>1, NodeAssumption DEF HandOf, Queue
  <2>3. Copies(r, p)' = Occurrences(handled'[r], {p}) + 0 + Occurrences(Queue(r), {p})
    BY <2>2 DEF Copies
  <2>4. /\ handled[r] \in Seq(Packages)
        /\ Occurrences(handled[r], {p}) \in Nat /\ Occurrences(Queue(r), {p}) \in Nat
    BY CopiesTyped
  <2>5. CASE r = reading
    <3>1. handled'[r] = Append(handled[r], inHand) /\ HandOf(r) = inHand
      BY <1>1, <1>2, <2>5 DEF HandOf
    <3>2. Occurrences(Append(handled[r], inHand), {p})
            = Occurrences(handled[r], {p}) + IF inHand \in {p} THEN 1 ELSE 0
      BY <1>1, <2>4, OccurrencesAppend
    <3>3. Copies(r, p) = Occurrences(handled[r], {p}) + (IF inHand = p THEN 1 ELSE 0)
                         + Occurrences(Queue(r), {p})
      BY <3>1 DEF Copies
    <3> QED
      BY <2>1, <2>3, <2>4, <3>1, <3>2, <3>3
  <2>6. CASE r # reading
    <3>1. handled'[r] = handled[r] /\ HandOf(r) = None
      BY <1>1, <1>2, <2>6 DEF HandOf
    <3>2. Copies(r, p) = Occurrences(handled[r], {p}) + 0 + Occurrences(Queue(r), {p})
      BY <2>2, <3>1 DEF Copies
    <3> QED
      BY <2>1, <2>3, <3>1, <3>2
  <2> QED
    BY <2>5, <2>6
<1> QED
  BY <1>1, <1>3 DEF LostInv, CameOf

LEMMA LostReceived ==
  ASSUME ReadersTyped, HandsTyped, AckInv, LostInv, Receive
  PROVE  LostInv'
<1>1. PICK c \in {"conf", "net"}, d \in ConfIncoming \cup NetIncoming :
        /\ d \notin arrived[c] /\ arrived' = [arrived EXCEPT ![c] = @ \cup {d}]
        /\ c = "conf" => Conf!HandlePackage(d) /\ UNCHANGED netVars
        /\ c = "net" => Net!HandlePackage(d) /\ UNCHANGED confVars
  <2>1. CASE \E d \in ConfIncoming \ arrived.conf :
               /\ Conf!HandlePackage(d) /\ UNCHANGED netVars
               /\ arrived' = [arrived EXCEPT !.conf = @ \cup {d}]
    BY <2>1
  <2>2. CASE \E d \in NetIncoming \ arrived.net :
               /\ Net!HandlePackage(d) /\ UNCHANGED confVars
               /\ arrived' = [arrived EXCEPT !.net = @ \cup {d}]
    BY <2>2
  <2> QED
    BY <2>1, <2>2 DEF Receive
<1> DEFINE t == Arrival(UseAck, Received(d))
<1>2. Conf!Arrival(UseAck, Conf!Received(d)) = t /\ Net!Arrival(UseAck, Net!Received(d)) = t
  BY SameArrival
<1>3. t \in Seq(Packages)
  BY ArrivalType
<1>4. UNCHANGED <<handled, inHand, reading, running>>
  BY DEF Receive, Rest, incoming, flags
<1>5. ASSUME NEW p \in Packages
      PROVE  /\ CameOf(arrived[c], p) \in Nat
             /\ CameOf(arrived[c] \cup {d}, p) = CameOf(arrived[c], p) + Occurrences(t, {p})
  BY <1>1, CameMore DEF LostInv
<1> HIDE DEF t
<1>6. /\ Queue(c)' = Queue(c) \o t
      /\ \A r \in {"conf", "net"} : r # c => Queue(r)' = Queue(r)
  BY <1>1, <1>2 DEF Conf!HandlePackage, Net!HandlePackage, confVars, netVars, Queue
<1>7. /\ arrived'[c] = arrived[c] \cup {d}
      /\ \A r \in {"conf", "net"} : r # c => arrived'[r] = arrived[r]
      /\ arrived' \in [{"conf", "net"} -> SUBSET (ConfIncoming \cup NetIncoming)]
  BY <1>1 DEF LostInv
<1>8. \A r \in {"conf", "net"} : IsFiniteSet(arrived'[r])
  <2>1. IsFiniteSet(arrived[c] \cup {d})
    BY FS_AddElement DEF LostInv
  <2> QED
    BY <1>7, <2>1 DEF LostInv
<1>9. ASSUME running' = TRUE, NEW r \in {"conf", "net"}, NEW p \in Packages, ~IsEmpty(p)
      PROVE  Copies(r, p)' = CameOf(arrived'[r], p)
  <2>1. Copies(r, p) = CameOf(arrived[r], p)
    BY <1>4, <1>9 DEF LostInv
  <2>2. HandOf(r)' = HandOf(r)
    BY <1>4 DEF HandOf
  <2>3. Copies(r, p)' = Occurrences(handled[r], {p}) + (IF HandOf(r) = p THEN 1 ELSE 0)
                        + Occurrences(Queue(r)', {p})
    BY <1>4, <2>2 DEF Copies
  <2>4. /\ Queue(r) \in Seq(Packages)
        /\ Occurrences(handled[r], {p}) \in Nat /\ Occurrences(Queue(r), {p}) \in Nat
    BY CopiesTyped
  <2>5. CASE r = c
    <3>1. Occurrences(Queue(c) \o t, {p}) = Occurrences(Queue(c), {p}) + Occurrences(t, {p})
      BY <1>3, <2>4, <2>5, OccurrencesBehind
    <3>2. Occurrences(t, {p}) \in Nat
      BY <1>3, OccurrencesType
    <3>3. CameOf(arrived'[r], p) = CameOf(arrived[r], p) + Occurrences(t, {p})
      BY <1>5, <1>7, <2>5
    <3>4. Copies(r, p)' = Occurrences(handled[r], {p}) + (IF HandOf(r) = p THEN 1 ELSE 0)
                          + (Occurrences(Queue(r), {p}) + Occurrences(t, {p}))
      BY <1>6, <2>3, <2>5, <3>1
    <3>5. Copies(r, p) = Occurrences(handled[r], {p}) + (IF HandOf(r) = p THEN 1 ELSE 0)
                         + Occurrences(Queue(r), {p})
      BY DEF Copies
    <3> QED
      BY <2>1, <2>4, <3>2, <3>3, <3>4, <3>5
  <2>6. CASE r # c
    BY <1>6, <1>7, <2>1, <2>3, <2>6 DEF Copies
  <2> QED
    BY <2>5, <2>6
<1> QED
  BY <1>7, <1>8, <1>9 DEF LostInv

LEMMA LostNext == NodeInv /\ LostInv /\ [Next]_vars => LostInv'
<1> SUFFICES ASSUME NodeInv, LostInv, [Next]_vars PROVE LostInv'
  OBVIOUS
<1>1. ReadersTyped /\ HandsTyped /\ AckInv /\ (running' = TRUE => running = TRUE)
  BY RunningOnce DEF NodeInv
<1>2. CASE ~PackageStep
  <2>1. UNCHANGED <<handled, inHand, reading, confQueue, netQueue, arrived>>
    BY <1>1, <1>2, PackagesKept, ArrivedKept DEF PackageStep
  <2>2. \A r \in {"conf", "net"} : Queue(r)' = Queue(r) /\ HandOf(r)' = HandOf(r)
    BY <2>1 DEF Queue, HandOf
  <2> QED
    BY <1>1, <2>1, <2>2, LostKept
<1>3. CASE IncomingCheck \/ IncomingLeave \/ IncomingNotify \/ IncomingTake \/ CommandExecute
  <2>1. /\ UNCHANGED <<handled, confQueue, netQueue>>
        /\ \/ UNCHANGED <<inHand, reading>>
           \/ inHand = None /\ inHand' = None
           \/ /\ inHand' = None
              /\ running = TRUE /\ inHand # None => IsEmpty(inHand)
    BY <1>1, <1>3 DEF IncomingCheck, IncomingLeave, IncomingNotify, IncomingTake, CommandExecute,
       NextReader, NoMore, HandsTyped, Busy, Elsewhere, incoming, confVars, netVars
  <2>2. \A r \in {"conf", "net"} : Queue(r)' = Queue(r)
    BY <2>1 DEF Queue
  <2>3. ~Receive
    BY <1>3 DEF Receive, IncomingCheck, IncomingLeave, IncomingNotify, IncomingTake,
       CommandExecute, Conf!HandlePackage, Net!HandlePackage, Elsewhere, confVars, netVars
  <2>4. ASSUME running = TRUE, NEW r \in {"conf", "net"}, NEW p \in Packages, ~IsEmpty(p)
        PROVE  HandOf(r)' = p <=> HandOf(r) = p
    <3>1. p # None
      BY NodeAssumption
    <3> QED
      BY <2>1, <2>4, <3>1 DEF HandOf
  <2> QED
    BY <1>1, <2>1, <2>2, <2>3, <2>4, ArrivedKept, LostKept
<1> QED
  BY <1>1, <1>2, <1>3, LostRead, LostHandled, LostReceived DEF PackageStep

LEMMA InitLostInv == Init => LostInv
<1> SUFFICES ASSUME Init PROVE LostInv
  OBVIOUS
<1>1. /\ handled = [conf |-> <<>>, net |-> <<>>] /\ arrived = [conf |-> {}, net |-> {}]
      /\ inHand = None /\ confQueue = <<>> /\ netQueue = <<>>
  BY DEF Init
<1>2. /\ arrived \in [{"conf", "net"} -> SUBSET (ConfIncoming \cup NetIncoming)]
      /\ \A r \in {"conf", "net"} : arrived[r] = {} /\ IsFiniteSet(arrived[r])
  BY <1>1, FS_EmptySet
<1>3. ASSUME NEW r \in {"conf", "net"}, NEW p \in Packages
      PROVE  Copies(r, p) = CameOf(arrived[r], p)
  <2>1. handled[r] = <<>> /\ Queue(r) = <<>> /\ HandOf(r) = None /\ None # p
    BY <1>1, NodeAssumption DEF Queue, HandOf
  <2>2. Copies(r, p) = 0
    BY <2>1, OccurrencesOfNone DEF Copies
  <2>3. /\ {d \in arrived[r] : Received(d) = p} = {}
        /\ {d \in arrived[r] : Acknowledges(d, p)} = {}
    BY <1>2
  <2>4. CameOf(arrived[r], p) = 0
    BY <2>3, FS_EmptySet DEF CameOf
  <2> QED
    BY <2>2, <2>4
<1> QED
  BY <1>2, <1>3 DEF LostInv

LEMMA LostInvariance == Spec => []LostInv
  BY InitLostInv, LostNext, NodeInvariance, PTL DEF Spec

\* The io thread pushes into the queues that the handler thread pops from, and
\* stop() and the command thread change what the handler thread looks at: while
\* the node runs each package that has come, and each acknowledgement, is in
\* exactly one place, once for every datagram that it came with.
THEOREM EveryPackageOnce == Spec => []NothingLost
<1>1. NodeInv /\ LostInv => NothingLost
  <2> SUFFICES ASSUME NodeInv, LostInv, running, NEW r \in {"conf", "net"},
                      NEW p \in Range(Held(r))
                               \cup UNION {{Received(d), AckFor(Received(d))} : d \in arrived[r]},
                      ~IsEmpty(p)
               PROVE  Occurrences(Held(r), {p}) = Came(r, p)
    BY DEF NothingLost
  <2> DEFINE hand == IF reading = r /\ inHand # None THEN <<inHand>> ELSE <<>>
  <2>1. Held(r) = (handled[r] \o hand) \o Queue(r)
    BY DEF Held, Hand, Queue
  <2>2. ReadersTyped /\ HandsTyped /\ AckInv /\ running = TRUE
    BY DEF NodeInv, FlagTypes
  <2>3. handled[r] \in Seq(Packages) /\ Queue(r) \in Seq(Packages)
    BY <2>2, CopiesTyped
  <2>4. hand \in Seq(Packages)
    <3>1. ASSUME inHand # None PROVE <<inHand>> \in Seq(Packages)
      <4>1. inHand \in Packages
        BY <2>2, <3>1 DEF HandsTyped
      <4> QED
        BY <4>1
    <3>2. <<>> \in Seq(Packages)
      OBVIOUS
    <3> QED
      BY <3>1, <3>2, Zenon
  <2>5. Held(r) \in Seq(Packages) /\ handled[r] \o hand \in Seq(Packages)
    <3> HIDE DEF hand
    <3> QED
      BY <2>1, <2>3, <2>4
  <2>6. p \in Packages
    <3>1. CASE p \in Range(Held(r))
      BY <2>5, <3>1 DEF Range
    <3>2. ASSUME NEW d \in arrived[r], p \in {Received(d), AckFor(Received(d))}
          PROVE  p \in Packages
      <4>1. d \in ConfIncoming \cup NetIncoming
        BY DEF LostInv
      <4> QED
        BY <3>2, <4>1, ArrivalType
    <3> QED
      BY <3>1, <3>2
  <2>7. Occurrences(hand, {p}) = IF HandOf(r) = p THEN 1 ELSE 0
    <3>1. p # None
      BY <2>6, NodeAssumption
    <3>2. Occurrences(<<inHand>>, {p}) = IF inHand = p THEN 1 ELSE 0
      BY OccurrencesOfOne
    <3>3. Occurrences(<<>>, {p}) = 0
      BY OccurrencesOfNone
    <3> QED
      BY <3>1, <3>2, <3>3 DEF HandOf
  <2> HIDE DEF hand
  <2>8. /\ Occurrences(handled[r] \o hand, {p}) = Occurrences(handled[r], {p}) + Occurrences(hand, {p})
        /\ Occurrences(Held(r), {p})
             = Occurrences(handled[r] \o hand, {p}) + Occurrences(Queue(r), {p})
    <3>1. Occurrences(handled[r] \o hand, {p}) = Occurrences(handled[r], {p}) + Occurrences(hand, {p})
      BY <2>3, <2>4, OccurrencesBehind
    <3> DEFINE front == handled[r] \o hand
    <3>2. front \in Seq(Packages) /\ Held(r) = front \o Queue(r)
      BY <2>1, <2>5
    <3> HIDE DEF front
    <3>3. Occurrences(front \o Queue(r), {p}) = Occurrences(front, {p}) + Occurrences(Queue(r), {p})
      BY <2>3, <3>2, OccurrencesBehind
    <3> QED
      BY <3>1, <3>2, <3>3 DEF front
  <2>9. Occurrences(Held(r), {p}) = Copies(r, p)
    BY <2>7, <2>8 DEF Copies
  <2>10. Copies(r, p) = CameOf(arrived[r], p)
    BY <2>2, <2>6 DEF LostInv
  <2> QED
    BY <2>9, <2>10 DEF Came, CameOf
<1> QED
  BY <1>1, NodeInvariance, LostInvariance, PTL

-----------------------------------------------------------------------------
(***************************************************************************)
(* A node is a NodeQueue.                                                  *)
(***************************************************************************)
\* The operators that NodeQueue has from Handlers and Receiving are the same here.
LEMMA SamePassing ==
  ASSUME NEW hs, NEW p
  PROVE  Promise!passToHandlers(hs, p) = passToHandlers(hs, p)
<1>1. Promise!NoAddress = NoAddress /\ \A q : Promise!PayloadString(q) = PayloadString(q)
  BY DEF Promise!PayloadString, PayloadString, Promise!NoAddress, NoAddress
<1>2. \A q : Promise!Encrypted(q) = Encrypted(q)
  BY <1>1 DEF Promise!Encrypted, Encrypted
<1>3. \A from, i, q : Promise!Offered(hs, from, i, q) = Offered(hs, from, i, q)
  <2>1. \A S : Promise!Cardinality(S) = Cardinality(S)
    BY DEF Promise!Cardinality, Cardinality
  <2>2. \A S : Promise!Odd(S) <=> Odd(S)
    BY <2>1 DEF Promise!Odd, Odd
  <2> QED
    BY <1>2, <2>2 DEF Promise!Offered, Offered
<1>4. \A kind, q : Promise!Keeps(kind, q) = Keeps(kind, q)
  BY <1>1 DEF Promise!Keeps, Keeps, Promise!IsControl, IsControl
<1>5. \A from, q : Promise!Keepers(hs, from, q) = Keepers(hs, from, q)
  BY <1>3, <1>4 DEF Promise!Keepers, Keepers
<1>6. \A from, q : Promise!Keeper(hs, from, q) = Keeper(hs, from, q)
  BY <1>5 DEF Promise!Keeper, Keeper
<1>7. \A kind, q : Promise!SentBy(kind, q) = SentBy(kind, q)
  BY <1>1 DEF Promise!SentBy, SentBy, Promise!Reply, Reply
<1>8. Promise!Passed(hs, 1, p) = Passed(hs, 1, p)
  BY <1>3, <1>5, <1>6, <1>7 DEF Promise!Passed, Passed
<1> QED
  BY <1>8 DEF Promise!passToHandlers, passToHandlers

LEMMA SameReceiving ==
  ASSUME NEW d
  PROVE  Promise!Arrival(UseAck, Promise!Received(d)) = Arrival(UseAck, Received(d))
<1>1. Promise!Received(d) = Received(d)
  BY DEF Promise!Received, Promise!FromJson, Promise!OriginOf, Promise!TypeFromString,
         Promise!TypeAsString, Promise!Type, Promise!NoAddress, Received, FromJson, OriginOf,
         TypeFromString, TypeAsString, Type, NoAddress
<1>2. \A p : Promise!AckFor(p) = AckFor(p)
  BY DEF Promise!AckFor, AckFor, Promise!NoAddress, NoAddress
<1> QED
  BY <1>1, <1>2 DEF Promise!Arrival, Arrival

\* sendData() gives a writer that sends what it accepts, and no other anything.
LEMMA AcceptedFacts ==
  ASSUME outbox \in Seq(Packages), NEW ps \in Seq(Packages), sendData(ps)
  PROVE  Promise!Write(ps)
<1> DEFINE q == WithOrigin(Head(ps))
<1>1. Given(outbox, ps) = outbox \o Promise!Accepted(ps)
  <2>1. CASE ps # <<>> /\ Accepts(Head(ps))
    <3>1. q \in Packages
      <4>1. [host |-> None, port |-> ListeningPort] \in Address
        BY NodeAssumption DEF Address
      <4>2. Head(ps) \in Packages
        BY <2>1
      <4> QED
        BY <4>1, <4>2 DEF WithOrigin, Packages
    <3>2. Promise!Accepted(ps) = <<q>>
      BY <2>1 DEF Promise!Accepted, Accepts, WithOrigin
    <3>3. Given(outbox, ps) = Append(outbox, q)
      BY <2>1 DEF Given
    <3> HIDE DEF q
    <3>4. Append(outbox, q) = outbox \o <<q>>
      BY <3>1
    <3> QED
      BY <3>2, <3>3, <3>4
  <2>2. CASE ~(ps # <<>> /\ Accepts(Head(ps)))
    <3>1. Promise!Accepted(ps) = <<>> /\ Given(outbox, ps) = outbox
      BY <2>2 DEF Promise!Accepted, Accepts, Given
    <3>2. outbox \o <<>> = outbox
      OBVIOUS
    <3> QED
      BY <3>1, <3>2
  <2> QED
    BY <2>1, <2>2
<1> QED
  BY <1>1 DEF sendData, Promise!Write

\* The queue of the promise, for one reader.
Waiting(r) == Hand(r) \o Queue(r)

LEMMA WaitingFacts ==
  ASSUME ReadersTyped, HandsTyped, NEW r \in {"conf", "net"}
  PROVE  /\ Queue(r) \in Seq(Packages) /\ Hand(r) \in Seq(Packages)
         /\ HandOf(r) = None => Hand(r) = <<>> /\ Waiting(r) = Queue(r)
         /\ HandOf(r) # None => /\ HandOf(r) \in Packages /\ Waiting(r) # <<>>
                                /\ Head(Waiting(r)) = HandOf(r) /\ Tail(Waiting(r)) = Queue(r)
<1> DEFINE p == HandOf(r)
           q == Queue(r)
<1>1. q \in Seq(Packages) /\ p \in Packages \cup {None}
  BY DEF ReadersTyped, HandsTyped, Queue, HandOf
<1>2. Hand(r) = IF p # None THEN <<p>> ELSE <<>>
  BY DEF Hand, HandOf
<1> HIDE DEF p, q
<1>3. CASE p = None
  <2>1. Hand(r) = <<>> /\ <<>> \o q = q
    BY <1>1, <1>2, <1>3
  <2> QED
    BY <1>1, <1>3, <2>1 DEF Waiting, p, q
<1>4. CASE p # None
  <2>1. Hand(r) = <<p>> /\ p \in Packages
    BY <1>1, <1>2, <1>4
  <2>2. <<p>> \in Seq(Packages)
    BY <2>1
  <2> DEFINE w == <<p>> \o q
  <2>3. /\ w \in Seq(Packages) /\ Len(w) = 1 + Len(q) /\ w[1] = p
        /\ \A i \in 1 .. Len(q) : w[i + 1] = q[i]
    BY <1>1, <2>1, <2>2
  <2> HIDE DEF w
  <2>4. w # <<>> /\ Head(w) = p
    BY <1>1, <2>3
  <2>5. Tail(w) = q
    <3>1. /\ Tail(w) \in Seq(Packages) /\ Len(Tail(w)) = Len(q)
          /\ \A i \in 1 .. Len(q) : Tail(w)[i] = q[i]
      BY <1>1, <2>3, <2>4
    <3> QED
      BY <1>1, <3>1, SeqEqual
  <2>6. Waiting(r) = w
    BY <2>1 DEF Waiting, w, q
  <2> QED
    BY <1>1, <1>4, <2>1, <2>2, <2>4, <2>5, <2>6 DEF p, q
<1> QED
  BY <1>3, <1>4

queueOfPromise == [r \in {"conf", "net"} |-> Waiting(r)]
PromiseStep == Promise!NodeNext \/ UNCHANGED <<running, queueOfPromise, handled, writer, outbox>>

\* Steps that move nothing are stops or none.
LEMMA PromiseKept ==
  ASSUME UNCHANGED <<handled, writer, outbox>>, running' = running \/ running' = FALSE,
         \A r \in {"conf", "net"} : Waiting(r)' = Waiting(r)
  PROVE  PromiseStep
<1>1. queueOfPromise' = queueOfPromise
  BY DEF queueOfPromise
<1>2. CASE running' = running
  BY <1>1, <1>2 DEF PromiseStep
<1>3. CASE running' = FALSE
  <2>1. Promise!Stop
    BY <1>1, <1>3 DEF Promise!Stop, queueOfPromise, Waiting
  <2> QED
    BY <2>1 DEF PromiseStep, Promise!NodeNext
<1> QED
  BY <1>2, <1>3

LEMMA PromiseReceive ==
  ASSUME ReadersTyped, HandsTyped, Receive
  PROVE  PromiseStep
<1>1. PICK c \in {"conf", "net"}, d \in ConfIncoming \cup NetIncoming :
        /\ d \in IF c = "conf" THEN ConfIncoming ELSE NetIncoming
        /\ c = "conf" => Conf!HandlePackage(d) /\ UNCHANGED netVars
        /\ c = "net" => Net!HandlePackage(d) /\ UNCHANGED confVars
  <2>1. CASE \E d \in ConfIncoming \ arrived.conf : Conf!HandlePackage(d) /\ UNCHANGED netVars
    BY <2>1
  <2>2. CASE \E d \in NetIncoming \ arrived.net : Net!HandlePackage(d) /\ UNCHANGED confVars
    BY <2>2
  <2> QED
    BY <2>1, <2>2 DEF Receive
<1> DEFINE t == Arrival(UseAck, Received(d))
<1>2. /\ Conf!Arrival(UseAck, Conf!Received(d)) = t /\ Net!Arrival(UseAck, Net!Received(d)) = t
      /\ Promise!Arrival(UseAck, Promise!Received(d)) = t
  BY SameArrival, SameReceiving
<1>3. t \in Seq(Packages)
  BY ArrivalType
<1>4. UNCHANGED <<handled, inHand, reading, running, writer, outbox>>
  BY DEF Receive, Rest, incoming, output, flags
<1> HIDE DEF t
<1>5. /\ Queue(c)' = Queue(c) \o t
      /\ \A r \in {"conf", "net"} : r # c => Queue(r)' = Queue(r)
  BY <1>1, <1>2 DEF Conf!HandlePackage, Net!HandlePackage, confVars, netVars, Queue
<1>6. \A r \in {"conf", "net"} : Hand(r)' = Hand(r)
  BY <1>4 DEF Hand
<1>7. Waiting(c)' = Waiting(c) \o t
  <2>1. Hand(c) \in Seq(Packages) /\ Queue(c) \in Seq(Packages)
    BY WaitingFacts
  <2>2. Waiting(c)' = Hand(c) \o (Queue(c) \o t)
    BY <1>5, <1>6 DEF Waiting
  <2> DEFINE h == Hand(c)
             q == Queue(c)
  <2> HIDE DEF h, q
  <2>3. h \o (q \o t) = (h \o q) \o t
    <3>1. h \in Seq(Packages) /\ q \in Seq(Packages)
      BY <2>1 DEF h, q
    <3> QED
      BY <1>3, <3>1
  <2> QED
    BY <2>2, <2>3 DEF h, q, Waiting
<1>8. \A r \in {"conf", "net"} : r # c => Waiting(r)' = Waiting(r)
  BY <1>5, <1>6 DEF Waiting
<1>9. queueOfPromise' = [queueOfPromise EXCEPT ![c] = @ \o t]
  BY <1>7, <1>8 DEF queueOfPromise
<1>10. Promise!Receive(c)
  <2>1. queueOfPromise' = [queueOfPromise EXCEPT ![c] = @ \o Promise!Arrival(UseAck, Promise!Received(d))]
    BY <1>2, <1>9
  <2> QED
    BY <1>1, <1>4, <2>1 DEF Promise!Receive, queueOfPromise, Waiting
<1> QED
  BY <1>10 DEF PromiseStep, Promise!NodeNext, Promise!Reader

\* The package in hand leaves the front of the queue.
LEMMA PromiseFront ==
  ASSUME ReadersTyped, HandsTyped, inHand # None, inHand' = None,
         UNCHANGED <<confQueue, netQueue>>
  PROVE  /\ inHand \in Packages /\ reading \in {"conf", "net"}
         /\ queueOfPromise[reading] # <<>> /\ Head(queueOfPromise[reading]) = inHand
         /\ queueOfPromise' = [queueOfPromise EXCEPT ![reading] = Tail(@)]
<1>1. inHand \in Packages /\ reading \in {"conf", "net"} /\ HandOf(reading) = inHand
  BY DEF HandsTyped, HandOf
<1>2. /\ Waiting(reading) # <<>> /\ Head(Waiting(reading)) = inHand
      /\ Tail(Waiting(reading)) = Queue(reading)
  BY <1>1, WaitingFacts
<1>3. \A r \in {"conf", "net"} : Waiting(r)' = Queue(r)
  <2> TAKE r \in {"conf", "net"}
  <2>1. Queue(r) \in Seq(Packages) /\ Hand(r)' = <<>> /\ Queue(r)' = Queue(r)
    BY WaitingFacts DEF Hand, Queue
  <2>2. Waiting(r)' = <<>> \o Queue(r)
    BY <2>1 DEF Waiting
  <2> DEFINE q == Queue(r)
  <2> HIDE DEF q
  <2>3. q \in Seq(Packages) => <<>> \o q = q
    OBVIOUS
  <2> QED
    BY <2>1, <2>2, <2>3 DEF q
<1>4. \A r \in {"conf", "net"} : r # reading => Waiting(r) = Queue(r)
  BY <1>1, WaitingFacts DEF HandOf
<1> QED
  BY <1>1, <1>2, <1>3, <1>4 DEF queueOfPromise

LEMMA PromiseLeave ==
  ASSUME ReadersTyped, HandsTyped, FlagTypes, IncomingLeave
  PROVE  PromiseStep
<1>1. /\ UNCHANGED <<confQueue, netQueue, handled, writer, outbox, running>> /\ inHand' = None
      /\ inHand # None => IsEmpty(inHand) \/ ~running
  BY DEF IncomingLeave, NoMore, NextReader, Elsewhere, confVars, netVars, flags, output
<1>2. CASE inHand = None
  <2>1. \A r \in {"conf", "net"} : Waiting(r)' = Waiting(r)
    BY <1>1, <1>2 DEF Waiting, Hand, Queue
  <2> QED
    BY <1>1, <2>1, PromiseKept
<1>3. CASE inHand # None
  <2>1. /\ reading \in {"conf", "net"} /\ queueOfPromise[reading] # <<>>
        /\ Head(queueOfPromise[reading]) = inHand
        /\ queueOfPromise' = [queueOfPromise EXCEPT ![reading] = Tail(@)]
    BY <1>1, <1>3, PromiseFront
  <2>2. Promise!IsEmpty(inHand) \/ ~running
    BY <1>1, <1>3 DEF Promise!IsEmpty, IsEmpty
  <2>3. Promise!Drop(reading)
    BY <1>1, <2>1, <2>2 DEF Promise!Drop, queueOfPromise, Waiting
  <2> QED
    BY <2>1, <2>3 DEF PromiseStep, Promise!NodeNext, Promise!Reader
<1> QED
  BY <1>2, <1>3

LEMMA PromiseRead ==
  ASSUME ReadersTyped, HandsTyped, IncomingRead
  PROVE  PromiseStep
<1>1. /\ UNCHANGED <<handled, reading, running, writer, outbox>> /\ inHand = None
      /\ reading \in {"conf", "net"}
  BY DEF IncomingRead, HandsTyped, Busy, flags, output
<1> DEFINE q == Queue(reading)
<1>2. \A r \in {"conf", "net"} : r # reading => Waiting(r)' = Waiting(r)
  BY <1>1 DEF IncomingRead, Waiting, Hand, Queue, confVars, netVars
<1>3. /\ Queue(reading)' = IF q # <<>> THEN Tail(q) ELSE q
      /\ inHand' = IF q # <<>> THEN Head(q) ELSE None
  BY <1>1 DEF IncomingRead, Queue, Conf!Read, Net!Read, Conf!ReadResult, Net!ReadResult
<1>4. q \in Seq(Packages) /\ Waiting(reading) = q
  BY <1>1, WaitingFacts DEF HandOf
<1> HIDE DEF q
<1>5. CASE q = <<>>
  <2>1. Hand(reading)' = <<>> /\ Queue(reading)' = <<>>
    BY <1>3, <1>5 DEF Hand
  <2>2. Waiting(reading)' = <<>> \o <<>>
    BY <2>1 DEF Waiting
  <2>3. <<>> \o <<>> = <<>>
    OBVIOUS
  <2> QED
    BY <1>1, <1>2, <1>4, <1>5, <2>2, <2>3, PromiseKept
<1>6. CASE q # <<>>
  <2>1. Head(q) \in Packages /\ Head(q) # None
    BY <1>4, <1>6, NodeAssumption
  <2>2. Hand(reading)' = <<Head(q)>> /\ Queue(reading)' = Tail(q)
    BY <1>1, <1>3, <1>6, <2>1 DEF Hand
  <2>3. Waiting(reading)' = <<Head(q)>> \o Tail(q)
    BY <2>2 DEF Waiting
  <2>4. <<Head(q)>> \o Tail(q) = q
    <3> DEFINE p == Head(q)
               t == Tail(q)
               w == <<p>> \o t
    <3>1. /\ t \in Seq(Packages) /\ Len(q) = Len(t) + 1 /\ p = q[1]
          /\ \A i \in 1 .. Len(t) : t[i] = q[i + 1]
      BY <1>4, <1>6
    <3>2. p \in Packages
      BY <2>1
    <3> HIDE DEF p, t
    <3>3. <<p>> \in Seq(Packages)
      BY <3>2
    <3>4. /\ w \in Seq(Packages) /\ Len(w) = Len(q) /\ w[1] = p
          /\ \A i \in 1 .. Len(t) : w[i + 1] = t[i]
      BY <3>1, <3>2, <3>3
    <3> HIDE DEF w
    <3>5. \A i \in 1 .. Len(q) : w[i] = q[i]
      <4> TAKE i \in 1 .. Len(q)
      <4>1. CASE i = 1
        BY <3>1, <3>4, <4>1
      <4>2. CASE i # 1
        <5>1. i - 1 \in 1 .. Len(t) /\ (i - 1) + 1 = i
          BY <1>4, <3>1, <4>2
        <5> QED
          BY <3>1, <3>4, <5>1
      <4> QED
        BY <4>1, <4>2
    <3> QED
      BY <1>4, <3>4, <3>5, SeqEqual DEF w, p, t
  <2>5. Waiting(reading)' = Waiting(reading)
    BY <1>4, <2>3, <2>4
  <2> QED
    BY <1>1, <1>2, <2>5, PromiseKept
<1> QED
  BY <1>5, <1>6

\* The thread passes on what is no shutdown and forwards what is one, and it
\* takes no empty package.
Taken ==
  /\ ipc \in {"passing", "forwarding"} => ~IsEmpty(inHand)
  /\ ipc = "passing" => ~IsShutdown(inHand)
  /\ ipc = "forwarding" => IsShutdown(inHand)

LEMMA TakenNext == HandsTyped /\ Taken /\ [Next]_vars => Taken'
<1> SUFFICES ASSUME HandsTyped, Taken, [Next]_vars PROVE Taken'
  OBVIOUS
<1>1. CASE IncomingTake
  BY <1>1 DEF IncomingTake, NoMore, HandsTyped, Taken
<1>2. CASE ~PackageStep
  <2>1. inHand' = inHand /\ (inHand # None => ipc' = ipc)
    BY <1>2, PackagesKept
  <2>2. ipc' \in {"passing", "forwarding"} => ipc' = ipc
    BY <1>2, ToHandling DEF PackageStep
  <2> QED
    BY <2>1, <2>2 DEF Taken
<1>3. CASE Receive \/ CommandExecute
  BY <1>3 DEF Receive, CommandExecute, Rest, Elsewhere, incoming, Taken
<1>4. CASE IncomingCheck \/ IncomingRead \/ IncomingLeave \/ IncomingPass
           \/ IncomingShutdown \/ IncomingNotify
  BY <1>4 DEF IncomingCheck, IncomingRead, IncomingLeave, IncomingPass, IncomingShutdown,
     IncomingNotify, NextReader, Taken
<1> QED
  BY <1>1, <1>2, <1>3, <1>4 DEF PackageStep

\* What the thread sends for a package is what the package is made into.
LEMMA PromiseHandle ==
  ASSUME ReadersTyped, HandsTyped, HistoryTyped, Taken,
         IncomingPass \/ IncomingShutdown
  PROVE  PromiseStep
<1>1. /\ UNCHANGED <<confQueue, netQueue, running, writer>> /\ inHand' = None
      /\ handled' = [handled EXCEPT ![reading] = Append(@, inHand)]
      /\ inHand # None
  BY DEF IncomingPass, IncomingShutdown, Handled, Elsewhere, confVars, netVars, flags, HandsTyped
<1>2. /\ inHand \in Packages /\ reading \in {"conf", "net"}
      /\ queueOfPromise[reading] # <<>> /\ Head(queueOfPromise[reading]) = inHand
      /\ queueOfPromise' = [queueOfPromise EXCEPT ![reading] = Tail(@)]
  BY <1>1, PromiseFront
<1> DEFINE ps == Promise!MadeOf(inHand)
<1>3. ps \in Seq(Packages) /\ sendData(ps)
  <2>1. Promise!IsControl(inHand, "shutdown") <=> IsShutdown(inHand)
    BY DEF Promise!IsControl, IsControl, IsShutdown, Promise!PayloadString, PayloadString
  <2>2. Promise!passToHandlers(Promise!WithOwn(Added), inHand) = passToHandlers(handlers, inHand)
    BY SamePassing DEF Promise!WithOwn, WithOwn, handlers
  <2>3. CASE IncomingPass
    <3> DEFINE sent == IF inHand.type = "Acknowledgement" THEN <<inHand>>
                       ELSE passToHandlers(handlers, inHand)
    <3>1. ~IsShutdown(inHand) /\ sendData(sent)
      BY <2>3 DEF IncomingPass, Taken
    <3>2. sent \in Seq(Packages)
      BY <1>2, PassFacts
    <3>3. ps = sent
      BY <2>1, <2>2, <3>1 DEF Promise!MadeOf
    <3> HIDE DEF ps, sent
    <3> QED
      BY <3>1, <3>2, <3>3
  <2>4. CASE IncomingShutdown
    <3>1. IsShutdown(inHand) /\ sendData(<<inHand>>)
      BY <2>4 DEF IncomingShutdown, Taken
    <3>2. ps = <<inHand>>
      BY <2>1, <3>1 DEF Promise!MadeOf
    <3>3. <<inHand>> \in Seq(Packages)
      BY <1>2
    <3> HIDE DEF ps
    <3> QED
      BY <3>1, <3>2, <3>3
  <2> QED
    BY <2>3, <2>4
<1> HIDE DEF ps
<1>4. Promise!Write(ps)
  BY <1>3, AcceptedFacts DEF HistoryTyped
<1>5. ~Promise!IsEmpty(inHand)
  BY DEF Taken, IncomingPass, IncomingShutdown, Promise!IsEmpty, IsEmpty
<1>6. Promise!Handle(reading)
  BY <1>1, <1>2, <1>4, <1>5 DEF Promise!Handle, queueOfPromise, Waiting, ps
<1> QED
  BY <1>2, <1>6 DEF PromiseStep, Promise!NodeNext, Promise!Reader

\* So is what it sends for a command.
LEMMA PromiseExecute ==
  ASSUME HandsTyped, HistoryTyped, CommandExecute
  PROVE  PromiseStep
<1>1. UNCHANGED <<running, writer, handled, inHand, reading, confQueue, netQueue>> /\ cmd \in Command
  BY DEF CommandExecute, HandsTyped, flags, incoming, Elsewhere, confVars, netVars
<1>2. \A r \in {"conf", "net"} : Waiting(r)' = Waiting(r)
  BY <1>1 DEF Waiting, Hand, Queue
<1>3. queueOfPromise' = queueOfPromise
  BY <1>2 DEF queueOfPromise
<1>4. CASE ~running
  <2>1. outbox' = outbox
    BY <1>4 DEF CommandExecute
  <2> QED
    BY <1>1, <1>2, <2>1, PromiseKept
<1>5. CASE running
  <2> DEFINE ps == Sent(cmd)
  <2>2. ps \in Seq(Packages) /\ sendData(ps)
    BY <1>1, <1>5, SentFacts DEF CommandExecute
  <2>3. cmd # "quit" => ps = Promise!MadeFor(cmd)
    <3>1. Promise!Asking(cmd) = Control(cmd)
      BY DEF Promise!Asking, Control, Promise!NoAddress, NoAddress
    <3>2. Promise!passToHandlers(Promise!WithOwn(Added), Control(cmd))
            = passToHandlers(handlers, Control(cmd))
      BY SamePassing DEF Promise!WithOwn, WithOwn, handlers
    <3> QED
      BY <1>1, <3>1, <3>2 DEF Promise!MadeFor, Sent, Command
  <2>4. cmd = "quit" => ps = <<>>
    BY DEF Sent
  <2> HIDE DEF ps
  <2>5. Promise!Write(ps)
    BY <2>2, AcceptedFacts DEF HistoryTyped
  <2>6. CASE cmd = "quit"
    <3>1. outbox' = outbox
      BY <2>4, <2>5, <2>6 DEF Promise!Write, Promise!Accepted, HistoryTyped
    <3> QED
      BY <1>1, <1>2, <3>1, PromiseKept
  <2>7. CASE cmd # "quit"
    <3>1. cmd \in {"ping", "readfile", "shutdown"}
      BY <1>1, <2>7 DEF Command
    <3>2. Promise!Execute
      BY <1>1, <1>3, <1>5, <2>3, <2>5, <2>7, <3>1
      DEF Promise!Execute, queueOfPromise, Waiting
    <3> QED
      BY <3>2 DEF PromiseStep, Promise!NodeNext
  <2> QED
    BY <2>6, <2>7
<1> QED
  BY <1>4, <1>5

\* The writer's state is its thread's and that of a stop.
LEMMA WriterMoves ==
  ASSUME [Next]_vars
  PROVE  writer' = writer \/ WriterBegin \/ \E s \in Stopper : StopWriter(s)
<1>1. ASSUME NEW s \in Stopper, StopRunning(s) \/ StopStep(s), ~StopWriter(s)
      PROVE  writer' = writer
  BY <1>1 DEF StopRunning, StopStep, StopNotify, StopReader, StopConfigReader
<1> QED
  BY <1>1, StopFrame

LEMMA PromiseWriter ==
  ASSUME StopInv, UNCHANGED <<handled, outbox, inHand, reading, confQueue, netQueue>>,
         WriterBegin \/ \E s \in Stopper : StopWriter(s)
  PROVE  PromiseStep
<1>1. running' = running
  BY DEF WriterBegin, StopWriter, flags
<1>2. \A r \in {"conf", "net"} : Waiting(r)' = Waiting(r)
  BY DEF Waiting, Hand, Queue
<1>3. queueOfPromise' = queueOfPromise
  BY <1>2 DEF queueOfPromise
<1>4. CASE writer' = writer
  BY <1>1, <1>2, <1>4, PromiseKept
<1>5. CASE WriterBegin
  <2>1. Promise!BeginSending
    BY <1>1, <1>3, <1>5 DEF WriterBegin, Promise!BeginSending, queueOfPromise, Waiting
  <2> QED
    BY <2>1 DEF PromiseStep, Promise!NodeNext
<1>6. ASSUME NEW s \in Stopper, StopWriter(s), writer' # writer PROVE PromiseStep
  <2>1. writer = "sending" /\ writer' = "stopped" /\ spc[s] = "writer"
    BY <1>6 DEF StopWriter, StopFrom
  <2>2. running = FALSE
    BY <2>1 DEF StopInv
  <2>3. Promise!StopSending
    BY <1>1, <1>3, <2>1, <2>2 DEF Promise!StopSending, queueOfPromise, Waiting
  <2> QED
    BY <2>3 DEF PromiseStep, Promise!NodeNext
<1> QED
  BY <1>4, <1>5, <1>6

LEMMA PromiseNext == NodeInv /\ Taken /\ [Next]_vars => PromiseStep
<1> SUFFICES ASSUME NodeInv, Taken, [Next]_vars PROVE PromiseStep
  OBVIOUS
<1> USE DEF NodeInv
<1>1. CASE Receive \/ IncomingRead \/ IncomingLeave
  BY <1>1, PromiseReceive, PromiseRead, PromiseLeave
<1>2. CASE IncomingPass \/ IncomingShutdown \/ CommandExecute
  BY <1>2, PromiseHandle, PromiseExecute
<1>3. CASE ~PackageStep
  <2>1. UNCHANGED <<handled, outbox, inHand, reading, confQueue, netQueue>>
    BY <1>3, PackagesKept
  <2>2. \A r \in {"conf", "net"} : Waiting(r)' = Waiting(r)
    BY <2>1 DEF Waiting, Hand, Queue
  <2>3. CASE writer' = writer
    BY <2>1, <2>2, <2>3, RunningOnce, PromiseKept
  <2>4. CASE writer' # writer
    BY <2>1, <2>4, WriterMoves, PromiseWriter
  <2> QED
    BY <2>3, <2>4
<1>4. CASE IncomingCheck \/ IncomingTake \/ IncomingNotify
  <2>1. /\ UNCHANGED <<handled, writer, outbox, running, confQueue, netQueue>>
        /\ inHand' = inHand
        /\ reading' = reading \/ inHand = None
    BY <1>4 DEF IncomingCheck, IncomingTake, IncomingNotify, NextReader, Elsewhere, confVars,
       netVars, flags, output, HandsTyped, Busy
  <2>2. \A r \in {"conf", "net"} : Waiting(r)' = Waiting(r)
    BY <2>1 DEF Waiting, Hand, Queue
  <2> QED
    BY <2>1, <2>2, PromiseKept
<1> QED
  BY <1>1, <1>2, <1>3, <1>4 DEF PackageStep

\* Whatever its threads, its stops and the commands do, a started node handles
\* what comes to a reader one package at a time and in order, and gives its
\* writer what it makes of each, and what commands send, and nothing else, from
\* when the writer's thread has begun until a stop reaches it: the interleaving
\* of its threads is one of a NodeQueue.
THEOREM NodeImplementsNodeQueue == Spec => ImplementsNodeQueue
<1>1. Init => Promise!NodeInit
  <2> SUFFICES ASSUME Init PROVE Promise!NodeInit
    OBVIOUS
  <2>1. \A r \in {"conf", "net"} : Hand(r) = <<>> /\ Queue(r) = <<>>
    BY DEF Init, Hand, Queue
  <2>2. <<>> \o <<>> = <<>>
    OBVIOUS
  <2>3. \A r \in {"conf", "net"} : Hand(r) \o Queue(r) = <<>>
    BY <2>1, <2>2
  <2>4. handled = [r \in {"conf", "net"} |-> <<>>] /\ running = TRUE
        /\ writer = "starting" /\ outbox = <<>>
    <3>1. [conf |-> <<>>, net |-> <<>>] = [r \in {"conf", "net"} |-> <<>>]
      OBVIOUS
    <3> QED
      BY <3>1 DEF Init
  <2> QED
    BY <2>3, <2>4 DEF Promise!NodeInit, Promise!Reader
<1>2. NodeInv /\ Taken /\ [Next]_vars => [Promise!NodeNext]_(Promise!nodeVars)
  BY PromiseNext DEF PromiseStep, Promise!nodeVars, queueOfPromise, Waiting
<1>3. Init => Taken
  BY DEF Init, Taken
<1>4. NodeInv /\ Taken /\ [Next]_vars => Taken'
  BY TakenNext DEF NodeInv
<1> QED
  BY <1>1, <1>2, <1>3, <1>4, NodeInvariance, PTL
  DEF Spec, ImplementsNodeQueue, Promise!NodeSpec
=============================================================================
