---------------------------- MODULE NetworkReader ----------------------------
(***************************************************************************)
(* The receiving side of a node (NetworkReader.cpp).  The io thread runs   *)
(* handleReceive() for each completed receive; the node's incoming handler *)
(* thread calls read(); another thread calls start() and stop().  The      *)
(* mutex covers a push or a read as a whole, so each of them is one step.  *)
(***************************************************************************)
EXTENDS Receiving, Naturals

CONSTANTS
  AckMessages,     \* the parameter of start(): sendAckMessages
  Datagram,        \* what can arrive, a set of Datagrams
  MaxQueue         \* bound on msgQueue, which the code does not bound

VARIABLES
  msgQueue, running,
  receives,        \* async_receive_from operations outstanding on the socket
  handler          \* where the io thread is in handleReceive()

vars == <<msgQueue, running, receives, handler>>

-----------------------------------------------------------------------------
Init == msgQueue = <<>> /\ running = FALSE /\ receives = 0 /\ handler = "none"

-----------------------------------------------------------------------------
Start ==
  /\ ~running
  /\ running' = TRUE
  /\ receives' = receives + 1
  /\ UNCHANGED <<msgQueue, handler>>

\* Were the socket left open ...
StopWithoutClose ==
  /\ running
  /\ running' = FALSE
  /\ UNCHANGED <<msgQueue, receives, handler>>

\* Closing the socket cancels what is outstanding: its handleReceive() gets an
\* error, pushes nothing and reads no more.  msgQueue keeps its packages.
Stop ==
  /\ running
  /\ running' = FALSE
  /\ receives' = 0
  /\ UNCHANGED <<msgQueue, handler>>

\* A receive completes, and handleReceive() is due; a stop() that comes now
\* has nothing left to cancel.
Complete ==
  /\ handler = "none" /\ receives > 0
  /\ receives' = receives - 1
  /\ handler' = "completed"
  /\ UNCHANGED <<msgQueue, running>>

\* What came is a package, or text that is none, or an error.
HandlePackage(d) ==
  /\ handler = "completed" /\ Len(msgQueue) < MaxQueue
  /\ msgQueue' = msgQueue \o Arrival(AckMessages, Received(d))
  /\ handler' = "notifying"
  /\ UNCHANGED <<running, receives>>

HandleGarbage ==
  /\ handler = "completed"
  /\ handler' = "rereading"
  /\ UNCHANGED <<msgQueue, running, receives>>

HandleError ==
  /\ handler = "completed"
  /\ handler' = "none"
  /\ UNCHANGED <<msgQueue, running, receives>>

\* Were the next read placed on the path of errors alone ...
NotifiedAndLeft ==
  /\ handler = "notifying"
  /\ handler' = "none"
  /\ UNCHANGED <<msgQueue, running, receives>>

\* observer.receivedData() has returned.
Notified ==
  /\ handler = "notifying"
  /\ handler' = "rereading"
  /\ UNCHANGED <<msgQueue, running, receives>>

\* Were running not tested ...
ReadSocketAlways ==
  /\ handler = "rereading"
  /\ handler' = "none"
  /\ receives' = receives + 1
  /\ UNCHANGED <<msgQueue, running>>

\* On a stopped reader nothing is placed on the socket.
ReadSocketAgain ==
  /\ handler = "rereading"
  /\ handler' = "none"
  /\ receives' = IF running THEN receives + 1 ELSE receives
  /\ UNCHANGED <<msgQueue, running>>

\* read() returns the oldest package, or an empty one from an empty queue.
ReadResult == IF msgQueue # <<>> THEN Head(msgQueue) ELSE None

\* Were the queue cleared once its front is taken ...
ReadAndClear ==
  /\ msgQueue' = <<>>
  /\ UNCHANGED <<running, receives, handler>>

Read ==
  /\ msgQueue' = IF msgQueue # <<>> THEN Tail(msgQueue) ELSE msgQueue
  /\ UNCHANGED <<running, receives, handler>>

-----------------------------------------------------------------------------
HandleReceive == (\E d \in Datagram : HandlePackage(d)) \/ HandleGarbage \/ HandleError
Next ==
  Start \/ Stop \/ Complete \/ HandleReceive \/ Notified \/ ReadSocketAgain \/ Read

Spec == Init /\ [][Next]_vars

-----------------------------------------------------------------------------
\* The types of the variables.
TypeOK ==
  /\ msgQueue \in Seq(Packages) /\ running \in BOOLEAN
  /\ receives \in Nat /\ handler \in {"none", "completed", "notifying", "rereading"}

\* While a reader runs, each receive that completes is replaced by another as
\* soon as its handler is through; only an error in receiving costs one.
Pending == receives + (IF handler # "none" THEN 1 ELSE 0)
OnlyErrorsDeafen ==
  [][running /\ running' /\ Pending' < Pending => HandleError]_vars

\* However often the reader is stopped and started, also from under a handler
\* of the io thread, no more than two receives are under way: one of them may
\* still fill the buffer while a handler parses it, but they never pile up.
TwoReceivesAtMost == Pending <= 2
=============================================================================
