------------------------------ MODULE Lifecycle ------------------------------
(***************************************************************************)
(* The lives of one node: start() and stop(), again and again              *)
(* (ProcessorNode.cpp).  Each successful start() is a generation with an   *)
(* incoming handler thread and a command handler thread of its own.  They  *)
(* are detached by stop(), never joined, and may outlive their generation. *)
(* What the threads do with packages and commands is in ProcessorNode;     *)
(* here they only run, wait and end.                                       *)
(***************************************************************************)
EXTENDS Package, Naturals

CONSTANTS
  Incoming,        \* datagrams that come to the reader
  UseAck,          \* use-ack, as start() understands it
  MaxQueue,        \* bound on the reader's queue
  MaxStarts        \* bound on the generations

ASSUME LifecycleAssumption ==
  /\ MaxStarts \in Nat \ {0} /\ MaxQueue \in Nat
  /\ Incoming \subseteq [json : Json, from : [host : Host, port : Port]]
  /\ "ack" \in Text /\ UseAck \in BOOLEAN
  /\ None \notin Nat

Generation == 1 .. MaxStarts
Owner == 0
Stopper == {Owner} \cup Generation      \* who may be in stop()

VARIABLES
  running, nodeInitiatedShutdownStarted,
  owner,           \* the owner's place in start(), or "idle"
  failed,          \* the last start() threw
  starts,          \* generations so far
  spc,             \* per thread that may call it: place in stop()
  netQueue, netRunning, netReceives, netHandler,     \* the reader
  writerRunning, writerOpen,  \* the writer, its socket,
  writerThread,    \* and whether its newest thread has begun to run
  ipc, cpc,        \* places of the handler threads, per generation
  incomingHandlerThread, commandHandlerThread, \* a generation, or None
  ioServiceThread, \* "none", "running", or "returned" from io_service.run()
  announced,       \* the observer has got a ShutDownEvent since the last start
  overlapped,      \* history: a call of start() or stop() met another stop()
  process          \* "alive" or "undefined" (behaviour)

Net == INSTANCE NetworkReader
         WITH msgQueue <- netQueue, running <- netRunning,
              receives <- netReceives, handler <- netHandler,
              AckMessages <- UseAck, Datagram <- Incoming

flags == <<running, nodeInitiatedShutdownStarted>>
netVars == <<netQueue, netRunning, netReceives, netHandler>>
writerVars == <<writerRunning, writerOpen, writerThread>>
places == <<ipc, cpc>>
objects == <<incomingHandlerThread, commandHandlerThread>>
starting == <<owner, failed, starts>>
ending == <<announced, overlapped, process>>
vars == <<flags, starting, spc, netVars, writerVars, places, objects,
          ioServiceThread, ending>>

-----------------------------------------------------------------------------
Init ==
  /\ running = FALSE /\ nodeInitiatedShutdownStarted = FALSE
  /\ owner = "idle" /\ failed = FALSE /\ starts = 0
  /\ spc = [s \in Stopper |-> "ready"]
  /\ Net!Init
  /\ writerRunning = FALSE /\ writerOpen = FALSE /\ writerThread = "none"
  /\ ipc = [g \in Generation |-> "unborn"] /\ cpc = [g \in Generation |-> "unborn"]
  /\ incomingHandlerThread = None /\ commandHandlerThread = None
  /\ ioServiceThread = "none"
  /\ announced = FALSE /\ overlapped = FALSE /\ process = "alive"

\* Were only the newest threads woken ...
WokenNewest(pc) ==
  [g \in Generation |-> IF pc[g] = "blocked" /\ g = starts THEN "loop" ELSE pc[g]]

\* condition.notify_all(): whoever is blocked looks at its predicate again.
Woken(pc) == [g \in Generation |-> IF pc[g] = "blocked" THEN "loop" ELSE pc[g]]
NotifyAll == ipc' = Woken(ipc) /\ cpc' = Woken(cpc)

OwnerFree == owner = "idle" /\ spc[Owner] = "ready"
OwnerGoto(from, to) == owner = from /\ owner' = to
InStop(s) == spc[s] \notin {"ready", "through"}

-----------------------------------------------------------------------------
(***************************************************************************)
(* start(), by the owner.  Its steps may throw, and stop() follows then.   *)
(***************************************************************************)
Start ==
  /\ OwnerFree /\ ~running /\ starts < MaxStarts
  /\ owner' = "starting reader"
  /\ nodeInitiatedShutdownStarted' = FALSE /\ running' = TRUE
  /\ failed' = FALSE /\ announced' = FALSE
  /\ overlapped' = (overlapped \/ \E s \in Stopper : InStop(s))
  /\ UNCHANGED <<starts, spc, netVars, writerVars, places, objects,
                 ioServiceThread, process>>

\* Were the exception caught and no more ...
CatchOnly ==
  /\ owner' = "idle" /\ failed' = TRUE
  /\ UNCHANGED spc

\* open() throws if the socket is open: stop() is what comes next.
Catch ==
  /\ owner' = "idle" /\ failed' = TRUE
  /\ spc' = [spc EXCEPT ![Owner] = "begun"]

StartReader ==
  /\ owner = "starting reader"
  /\ \/ /\ ~netRunning /\ Net!Start
        /\ owner' = "starting writer"
        /\ UNCHANGED <<failed, spc>>
     \/ netRunning /\ Catch /\ UNCHANGED netVars
  /\ UNCHANGED <<flags, starts, writerVars, places, objects, ioServiceThread, ending>>

StartWriter ==
  /\ owner = "starting writer"
  /\ \/ /\ ~writerRunning /\ ~writerOpen
        /\ writerOpen' = TRUE /\ writerThread' = "spawned"
        /\ owner' = "starting handler"
        /\ UNCHANGED <<failed, spc>>
     \/ /\ writerRunning
        /\ owner' = "starting handler"
        /\ UNCHANGED <<failed, spc, writerOpen, writerThread>>
     \/ ~writerRunning /\ writerOpen /\ Catch /\ UNCHANGED <<writerOpen, writerThread>>
  /\ UNCHANGED <<flags, starts, netVars, writerRunning, places, objects,
                 ioServiceThread, ending>>

\* The incoming handler thread, and the io thread, whose object is there for
\* good, also when its io_service.run() has returned.
StartHandler ==
  /\ OwnerGoto("starting handler", "starting commands")
  /\ starts' = starts + 1
  /\ ipc' = [ipc EXCEPT ![starts + 1] = "loop"]
  /\ incomingHandlerThread' = starts + 1
  /\ ioServiceThread' = IF ioServiceThread = "none" THEN "running" ELSE ioServiceThread
  /\ UNCHANGED <<flags, failed, spc, netVars, writerVars, cpc,
                 commandHandlerThread, ending>>

\* Were the generations counted once more ...
StartCommandsNext ==
  /\ OwnerGoto("starting commands", "idle")
  /\ cpc' = [cpc EXCEPT ![starts] = "loop"]
  /\ commandHandlerThread' = starts + 1
  /\ UNCHANGED <<flags, failed, starts, spc, netVars, writerVars, ipc,
                 incomingHandlerThread, ioServiceThread, ending>>

StartCommands ==
  /\ OwnerGoto("starting commands", "idle")
  /\ cpc' = [cpc EXCEPT ![starts] = "loop"]
  /\ commandHandlerThread' = starts
  /\ UNCHANGED <<flags, failed, starts, spc, netVars, writerVars, ipc,
                 incomingHandlerThread, ioServiceThread, ending>>

Starting == StartReader \/ StartWriter \/ StartHandler \/ StartCommands

-----------------------------------------------------------------------------
(***************************************************************************)
(* stop(), by the owner or by a command handler thread.                    *)
(***************************************************************************)
StopGoto(s, from, to) == spc[s] = from /\ spc' = [spc EXCEPT ![s] = to]

OwnerStops ==
  /\ OwnerFree
  /\ spc' = [spc EXCEPT ![Owner] = "begun"]
  /\ UNCHANGED <<flags, starting, netVars, writerVars, places, objects,
                 ioServiceThread, ending>>

Meets(s) == owner # "idle" \/ \E t \in Stopper \ {s} : InStop(t)

\* Were running left to the one who issued the quit ...
StopStillRunning(s) ==
  /\ StopGoto(s, "begun", "reader")
  /\ overlapped' = (overlapped \/ Meets(s))
  /\ NotifyAll
  /\ UNCHANGED <<flags, starting, netVars, writerVars, objects,
                 ioServiceThread, announced, process>>

\* Who still waits when running is FALSE is woken; who is between its test and
\* its wait is not.
StopRunning(s) ==
  /\ StopGoto(s, "begun", "reader")
  /\ running' = FALSE
  /\ overlapped' = (overlapped \/ Meets(s))
  /\ NotifyAll
  /\ UNCHANGED <<nodeInitiatedShutdownStarted, starting, netVars, writerVars,
                 objects, ioServiceThread, announced, process>>

StopReader(s) ==
  /\ StopGoto(s, "reader", "writer")
  /\ IF netRunning THEN Net!Stop ELSE UNCHANGED netVars
  /\ UNCHANGED <<flags, starting, writerVars, places, objects, ioServiceThread, ending>>

\* A writer whose thread has not begun does not run yet, and is left alone.
StopWriter(s) ==
  /\ StopGoto(s, "writer", "testing incoming")
  /\ IF writerRunning
     THEN writerRunning' = FALSE /\ writerOpen' = FALSE
     ELSE UNCHANGED <<writerRunning, writerOpen>>
  /\ UNCHANGED <<flags, starting, netVars, writerThread, places, objects,
                 ioServiceThread, ending>>

\* Were the thread objects not tested ...
TestNothing(s, object, from, there, gone) ==
  /\ StopGoto(s, from, there)
  /\ UNCHANGED <<flags, starting, netVars, writerVars, places, objects,
                 ioServiceThread, ending>>

\* The thread objects are tested first, then detached and deleted: what is
\* gone by then is used nevertheless.
TestObject(s, object, from, there, gone) ==
  /\ StopGoto(s, from, IF object # None THEN there ELSE gone)
  /\ UNCHANGED <<flags, starting, netVars, writerVars, places, objects,
                 ioServiceThread, ending>>
StopTestIncoming(s) ==
  TestObject(s, incomingHandlerThread, "testing incoming", "deleting incoming", "testing command")
StopTestCommand(s) ==
  TestObject(s, commandHandlerThread, "testing command", "deleting command", "announcing")

Deleted(object) == process' = IF object # None THEN process ELSE "undefined"

StopDeleteIncoming(s) ==
  /\ StopGoto(s, "deleting incoming", "testing command")
  /\ incomingHandlerThread' = None
  /\ Deleted(incomingHandlerThread)
  /\ UNCHANGED <<flags, starting, netVars, writerVars, places,
                 commandHandlerThread, ioServiceThread, announced, overlapped>>

StopDeleteCommand(s) ==
  /\ StopGoto(s, "deleting command", "announcing")
  /\ commandHandlerThread' = None
  /\ Deleted(commandHandlerThread)
  /\ UNCHANGED <<flags, starting, netVars, writerVars, places,
                 incomingHandlerThread, ioServiceThread, announced, overlapped>>

StopAnnounce(s) ==
  /\ StopGoto(s, "announcing", IF s = Owner THEN "ready" ELSE "through")
  /\ announced' = (announced \/ nodeInitiatedShutdownStarted)
  /\ UNCHANGED <<flags, starting, netVars, writerVars, places, objects,
                 ioServiceThread, overlapped, process>>

Stopping(s) ==
  \/ StopRunning(s) \/ StopReader(s) \/ StopWriter(s)
  \/ StopTestIncoming(s) \/ StopDeleteIncoming(s)
  \/ StopTestCommand(s) \/ StopDeleteCommand(s) \/ StopAnnounce(s)

-----------------------------------------------------------------------------
(***************************************************************************)
(* The threads.  A thread that waits holds the mutex from the test of its  *)
(* predicate until it is blocked; only one can be "deciding" at a time.    *)
(***************************************************************************)
MutexFree == \A g \in Generation : ipc[g] # "deciding" /\ cpc[g] # "deciding"

WriterBegins ==
  /\ writerThread = "spawned"
  /\ writerThread' = "begun" /\ writerRunning' = TRUE
  /\ UNCHANGED <<flags, starting, spc, netVars, writerOpen, places, objects,
                 ioServiceThread, ending>>

Beside == <<starting, writerVars, objects, ioServiceThread, ending>>

\* Whether something has come is left open: then packages are read, else the
\* thread waits.
IncomingLoop(g) ==
  /\ ipc[g] = "loop"
  /\ \/ running /\ Net!Read /\ UNCHANGED ipc
     \/ /\ running /\ MutexFree
        /\ ipc' = [ipc EXCEPT ![g] = "deciding"] /\ UNCHANGED netVars
     \/ /\ ~running
        /\ ipc' = [ipc EXCEPT ![g] = "done"] /\ UNCHANGED netVars
  /\ UNCHANGED <<flags, spc, cpc, Beside>>

IncomingBlock(g) ==
  /\ ipc[g] = "deciding"
  /\ ipc' = [ipc EXCEPT ![g] = "blocked"]
  /\ UNCHANGED <<flags, spc, netVars, cpc, Beside>>

\* Were the stop() at the end of the thread left out ...
CommandLoopOnly(g) ==
  /\ cpc[g] = "loop"
  /\ cpc' = [cpc EXCEPT ![g] = IF running THEN "deciding" ELSE "done"]
  /\ running => MutexFree
  /\ UNCHANGED <<flags, spc, netVars, ipc, Beside>>

\* The thread whose quit it was stops the node, and ends with that stop().
CommandLoop(g) ==
  /\ cpc[g] = "loop"
  /\ \/ /\ running /\ MutexFree
        /\ cpc' = [cpc EXCEPT ![g] = "deciding"]
        /\ UNCHANGED spc
     \/ /\ ~running /\ nodeInitiatedShutdownStarted
        /\ cpc' = [cpc EXCEPT ![g] = "stopping"]
        /\ spc' = [spc EXCEPT ![g] = "begun"]
     \/ /\ ~running /\ ~nodeInitiatedShutdownStarted
        /\ cpc' = [cpc EXCEPT ![g] = "done"]
        /\ UNCHANGED spc
  /\ UNCHANGED <<flags, netVars, ipc, Beside>>

CommandBlock(g) ==
  /\ cpc[g] = "deciding"
  /\ cpc' = [cpc EXCEPT ![g] = "blocked"]
  /\ UNCHANGED <<flags, spc, netVars, ipc, Beside>>

\* "quit" or "shutdown", executed in the predicate with the mutex held.
Quit(g) ==
  /\ cpc[g] = "loop" /\ running /\ MutexFree
  /\ running' = FALSE /\ nodeInitiatedShutdownStarted' = TRUE
  /\ NotifyAll
  /\ UNCHANGED <<spc, netVars, Beside>>

\* handleCommand() by the owner: what the command is shows when it is executed.
HandleCommand ==
  /\ OwnerFree
  /\ NotifyAll
  /\ UNCHANGED <<flags, spc, netVars, Beside>>

\* The io thread, until nothing is left to wait for.
IoStep ==
  /\ ioServiceThread = "running"
  /\ \/ /\ Net!Complete \/ Net!HandleReceive \/ Net!ReadSocketAgain
        /\ UNCHANGED <<ioServiceThread, places>>
     \/ /\ Net!Notified /\ NotifyAll
        /\ UNCHANGED ioServiceThread
     \/ /\ netReceives = 0 /\ netHandler = "none"
        /\ ioServiceThread' = "returned"
        /\ UNCHANGED <<netVars, places>>
  /\ UNCHANGED <<flags, spc, starting, writerVars, objects, ending>>

IncomingThread(g) == IncomingLoop(g) \/ IncomingBlock(g)
CommandThread(g) == CommandLoop(g) \/ CommandBlock(g)

Next ==
  /\ process = "alive"
  /\ \/ Start \/ Starting \/ OwnerStops \/ HandleCommand
     \/ \E s \in Stopper : Stopping(s)
     \/ WriterBegins \/ IoStep
     \/ \E g \in Generation : IncomingThread(g) \/ CommandThread(g) \/ Quit(g)

Spec == Init /\ [][Next]_vars

-----------------------------------------------------------------------------
(***************************************************************************)
(* Fairness.  The scheduler runs every thread that can go on, and a call   *)
(* of start() or stop() returns.  Nobody has to call anything, nothing has *)
(* to be received, and a thread may wait for the mutex for ever.           *)
(***************************************************************************)
Alive(A) == process = "alive" /\ A
Fairness ==
  /\ WF_vars(Alive(Starting))
  /\ \A s \in Stopper : WF_vars(Alive(Stopping(s)))
  /\ \A g \in Generation :
       WF_vars(Alive(IncomingThread(g))) /\ WF_vars(Alive(CommandThread(g)))

FairSpec == Spec /\ Fairness

-----------------------------------------------------------------------------
StopPlace == {"ready", "begun", "reader", "writer", "testing incoming",
              "deleting incoming", "testing command", "deleting command",
              "announcing", "through"}

\* The types of the variables.
TypeOK ==
  /\ running \in BOOLEAN /\ nodeInitiatedShutdownStarted \in BOOLEAN
  /\ owner \in {"idle", "starting reader", "starting writer", "starting handler",
                "starting commands"}
  /\ failed \in BOOLEAN /\ starts \in 0 .. MaxStarts
  /\ spc \in [Stopper -> StopPlace]
  /\ Net!TypeOK
  /\ writerRunning \in BOOLEAN /\ writerOpen \in BOOLEAN
  /\ writerThread \in {"none", "spawned", "begun"}
  /\ ipc \in [Generation -> {"unborn", "loop", "deciding", "blocked", "done"}]
  /\ cpc \in [Generation -> {"unborn", "loop", "deciding", "blocked", "stopping", "done"}]
  /\ incomingHandlerThread \in Generation \cup {None}
  /\ commandHandlerThread \in Generation \cup {None}
  /\ ioServiceThread \in {"none", "running", "returned"}
  /\ announced \in BOOLEAN /\ overlapped \in BOOLEAN
  /\ process \in {"alive", "undefined"}

\* Nobody is in start() or stop().
Quiet == owner = "idle" /\ \A s \in Stopper : ~InStop(s)

\* A start() that fails, because an earlier life has not let go of its sockets,
\* takes everything back: when it has returned, neither the node nor its
\* reader runs, whichever of its steps threw.
FailedStartStops == failed /\ OwnerFree => ~running /\ ~netRunning

\* Called one at a time, by the owner or by the node itself, start() and stop()
\* never use a thread object that is gone, over any number of lives.
AloneIsSafe == process = "undefined" => overlapped

\* Called one at a time, they leave no node that says it runs but whose sockets
\* are closed, even if threads of an earlier life are still about.
RunningIsOpen == Quiet /\ running /\ ~overlapped => netRunning /\ writerOpen

\* The reader keeps its promises in the hands of the node: at most two receives
\* under way, however its lives overlap ...
ReceivesBounded == Net!TwoReceivesAtMost
\* ... and only an error takes one from it while it runs.
ReceivesKept == Net!OnlyErrorsDeafen

\* The observer is told that the node quit, unless the node is started again
\* before: the command thread that executes the quit stops the node.
QuitIsAnnounced ==
  nodeInitiatedShutdownStarted
    ~> announced \/ ~nodeInitiatedShutdownStarted \/ process = "undefined"

\* A quit ends all handler threads, those too that an earlier stop() missed,
\* unless the node is started again: the predicate that executes it holds
\* the mutex, so no thread is between its test and its wait.
Ended ==
  \A g \in Generation :
    /\ ipc[g] \in {"unborn", "done"}
    /\ cpc[g] \in {"unborn", "done"} \/ spc[g] = "through"
QuitEndsEveryThread ==
  nodeInitiatedShutdownStarted /\ ~running
    ~> Ended \/ ~nodeInitiatedShutdownStarted \/ process = "undefined"

\* ProcessorNode.cpp:325: once start() has returned, the node's threads handle
\* what comes in; so somebody serves the receives on its socket.
ReceivesAreServed ==
  Quiet /\ running /\ netReceives > 0 => ioServiceThread = "running"
=============================================================================
