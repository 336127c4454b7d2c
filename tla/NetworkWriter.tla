---------------------------- MODULE NetworkWriter ----------------------------
(***************************************************************************)
(* The sending side of a node (NetworkWriter.cpp).  Three kinds of thread  *)
(* meet here: callers of write(), the one that calls start() and stop(),   *)
(* and the writer threads that start() spawns, which take packages from    *)
(* msgQueue and hand them to the socket.  Each step below is a stretch of  *)
(* code between two accesses to what the threads share.                    *)
(***************************************************************************)
EXTENDS Sending

CONSTANTS
  NextNode,        \* the address the writer was created with (host, port)
  UseAck,          \* the parameter of start(): acknowledgePackages
  Caller,          \* threads that call write()
  Outgoing,        \* the packages they may write, each one once
  MaxStarts        \* bound on the number of writer threads ever spawned

ASSUME WriterAssumption ==
  /\ Outgoing \subseteq Packages
  /\ NextNode \in Address
  /\ UseAck \in BOOLEAN
  /\ MaxStarts \in Nat
  /\ None \notin Packages /\ None \notin Nat

Thread == 1 .. MaxStarts

VARIABLES
  running, msgQueue, sentPackages,
  guard,           \* the writer thread that owns the mutex, or None
  socketOpen,
  pc,              \* where each writer thread is
  package,         \* the local variable of threadFunc
  writing,         \* per caller: the package of a write() past its check
  owner,           \* where the thread that starts and stops the writer is
  starts,          \* writer threads spawned so far
  process,         \* "alive", "terminated" or "undefined" (behaviour)
  offered,         \* history: packages given to write() so far
  handled,         \* history: packages dealt with since the last clear
  transmitted      \* history: datagrams that left the socket

containers == <<msgQueue, sentPackages>>
history == <<offered, handled, transmitted>>
vars == <<running, containers, guard, socketOpen, pc, package, writing,
          owner, starts, process, history>>

-----------------------------------------------------------------------------
Init ==
  /\ running = FALSE /\ msgQueue = <<>> /\ sentPackages = <<>>
  /\ guard = None /\ socketOpen = FALSE
  /\ pc = [t \in Thread |-> "unborn"] /\ package = [t \in Thread |-> None]
  /\ writing = [c \in Caller |-> None]
  /\ owner = "stopped" /\ starts = 0 /\ process = "alive"
  /\ offered = {} /\ handled = <<>> /\ transmitted = <<>>

-----------------------------------------------------------------------------
(***************************************************************************)
(* write(): running is read without the mutex, so a stop() may come        *)
(* between that test and the push.                                         *)
(***************************************************************************)
WriteCheck(c, p) ==
  /\ writing[c] = None /\ p \notin offered
  /\ offered' = offered \cup {p}
  /\ writing' = IF running THEN [writing EXCEPT ![c] = p] ELSE writing
  /\ UNCHANGED <<running, containers, guard, socketOpen, pc, package, owner,
                 starts, handled, transmitted>>

WritePush(c) ==
  /\ writing[c] # None /\ guard = None
  /\ msgQueue' = Append(msgQueue, writing[c])
  /\ writing' = [writing EXCEPT ![c] = None]
  /\ UNCHANGED <<running, sentPackages, guard, socketOpen, pc, package, owner,
                 starts, history>>

-----------------------------------------------------------------------------
(***************************************************************************)
(* start() and stop(), called by one thread at a time.  start() throws,    *)
(* and changes nothing, when the socket is still open; stop() changes      *)
(* nothing while running is still FALSE.  The clearing of the containers   *)
(* in stop() does not take the mutex.                                      *)
(***************************************************************************)
Start ==
  /\ owner = "stopped"
  /\ IF running
     THEN UNCHANGED <<socketOpen, starts, pc>>
     ELSE /\ ~socketOpen /\ starts < MaxStarts
          /\ socketOpen' = TRUE
          /\ starts' = starts + 1
          /\ pc' = [pc EXCEPT ![starts + 1] = "spawned"]
  /\ owner' = "started"
  /\ UNCHANGED <<running, containers, guard, package, writing, history>>

StopBegin ==
  /\ owner = "started" \/ (owner = "stopped" /\ running)
  /\ owner' = IF running THEN "draining" ELSE "stopped"
  /\ running' = FALSE
  /\ UNCHANGED <<containers, guard, socketOpen, pc, package, writing, starts,
                 history>>

StopTestQueue ==
  /\ owner = "draining"
  /\ owner' = IF msgQueue # <<>> THEN "popping" ELSE "clearing"
  /\ UNCHANGED <<running, containers, guard, socketOpen, pc, package, writing,
                 starts, history>>

StopPop ==
  /\ owner = "popping" /\ msgQueue # <<>>
  /\ msgQueue' = Tail(msgQueue)
  /\ owner' = "draining"
  /\ UNCHANGED <<running, sentPackages, guard, socketOpen, pc, package,
                 writing, starts, history>>

StopClear ==
  /\ owner = "clearing"
  /\ sentPackages' = <<>> /\ handled' = <<>>
  /\ owner' = "closing"
  /\ UNCHANGED <<running, msgQueue, guard, socketOpen, pc, package, writing,
                 starts, offered, transmitted>>

StopClose ==
  /\ owner = "closing"
  /\ socketOpen' = FALSE
  /\ owner' = "stopped"
  /\ UNCHANGED <<running, containers, guard, pc, package, writing, starts,
                 history>>

-----------------------------------------------------------------------------
(***************************************************************************)
(* threadFunc(): the loop of writer thread t.                              *)
(***************************************************************************)
Goto(t, to) == pc' = [pc EXCEPT ![t] = to]

HasEndpoint == NextNode.host # None /\ NextNode.port # None
Begin(t) ==
  /\ pc[t] = "spawned"
  /\ running' = TRUE
  /\ Goto(t, IF HasEndpoint THEN "loop" ELSE "done")
  /\ UNCHANGED <<containers, guard, socketOpen, package, writing, owner,
                 starts, history>>

\* Were running not tested in the loop ...
LoopForEver(t) ==
  /\ pc[t] = "loop"
  /\ Goto(t, "locking")
  /\ UNCHANGED <<running, containers, guard, socketOpen, package, writing,
                 owner, starts, history>>

Loop(t) ==
  /\ pc[t] = "loop"
  /\ Goto(t, IF running THEN "locking" ELSE "done")
  /\ UNCHANGED <<running, containers, guard, socketOpen, package, writing,
                 owner, starts, history>>

\* Were the mutex not taken, or not waited for ...
LockNothing(t) ==
  /\ pc[t] = "locking" /\ guard = None
  /\ Goto(t, IF msgQueue # <<>> THEN "taking" ELSE "idle")
  /\ UNCHANGED <<running, containers, guard, socketOpen, package, writing,
                 owner, starts, history>>
LockAnyway(t) ==
  /\ pc[t] = "locking"
  /\ guard' = t
  /\ Goto(t, IF msgQueue # <<>> THEN "taking" ELSE "idle")
  /\ UNCHANGED <<running, containers, socketOpen, package, writing, owner,
                 starts, history>>

Lock(t) ==
  /\ pc[t] = "locking" /\ guard = None
  /\ guard' = t
  /\ Goto(t, IF msgQueue # <<>> THEN "taking" ELSE "idle")
  /\ UNCHANGED <<running, containers, socketOpen, package, writing, owner,
                 starts, history>>

\* Nothing to send: the thread does not wait, it goes round again.
Unlock(t) ==
  /\ pc[t] = "idle"
  /\ guard' = None
  /\ Goto(t, "loop")
  /\ UNCHANGED <<running, containers, socketOpen, package, writing, owner,
                 starts, history>>

\* Were front() not followed by pop() ...
TakeWithoutPop(t) ==
  /\ pc[t] = "taking" /\ msgQueue # <<>>
  /\ package' = [package EXCEPT ![t] = Head(msgQueue)]
  /\ Goto(t, "handling")
  /\ UNCHANGED <<running, containers, guard, socketOpen, writing, owner,
                 starts, history>>

Take(t) ==
  /\ pc[t] = "taking" /\ msgQueue # <<>>
  /\ package' = [package EXCEPT ![t] = Head(msgQueue)]
  /\ msgQueue' = Tail(msgQueue)
  /\ Goto(t, "handling")
  /\ UNCHANGED <<running, sentPackages, guard, socketOpen, writing, owner,
                 starts, history>>

-----------------------------------------------------------------------------
(***************************************************************************)
(* handlePackage(): one of four things happens to the package in hand.     *)
(***************************************************************************)
Handling(t) == pc[t] = "handling"

\* Were the unlock in the branch without a package only ...
FinishLocked(t) ==
  /\ handled' = Append(handled, package[t])
  /\ package' = [package EXCEPT ![t] = None]
  /\ guard' = guard
  /\ Goto(t, "loop")

Finish(t) ==
  /\ handled' = Append(handled, package[t])
  /\ package' = [package EXCEPT ![t] = None]
  /\ guard' = None
  /\ Goto(t, "loop")

HandleAck(t) ==
  /\ Handling(t) /\ ~IsEmpty(package[t]) /\ IsLocalAck(UseAck, package[t])
  /\ sentPackages' = handleAcknowledgementMessages(sentPackages, package[t])
  /\ Finish(t)
  /\ UNCHANGED <<running, msgQueue, socketOpen, writing, owner, starts,
                 offered, transmitted>>

\* The package is remembered first and handed to the socket then; whether
\* the datagram leaves is up to the socket, which never retries.
Send(t) ==
  /\ Handling(t) /\ ~IsEmpty(package[t]) /\ ~IsLocalAck(UseAck, package[t])
  /\ CanSend(NextNode, package[t])
  /\ sentPackages' = Remember(sentPackages, package[t])
  /\ \/ UNCHANGED transmitted
     \/ /\ socketOpen
        /\ transmitted' = Append(transmitted, [to |-> DestinationOf(NextNode, package[t]),
                                               json |-> ToJson(package[t])])
  /\ Finish(t)
  /\ UNCHANGED <<running, msgQueue, socketOpen, writing, owner, starts, offered>>

\* An empty package makes the thread lock the mutex that it already owns.
WaitWhileLocked(t) ==
  /\ Handling(t) /\ IsEmpty(package[t])
  /\ Goto(t, "stuck")
  /\ UNCHANGED <<running, containers, guard, socketOpen, package, writing,
                 owner, starts, history>>

\* from_string throws out of the thread's function: std::terminate.
CannotSend(t) ==
  /\ Handling(t) /\ ~IsEmpty(package[t]) /\ ~IsLocalAck(UseAck, package[t])
  /\ ~CanSend(NextNode, package[t])

\* front() and pop() on a queue that the other side has just emptied.
PopEmpty ==
  /\ msgQueue = <<>>
  /\ owner = "popping" \/ \E t \in Thread : pc[t] = "taking"

-----------------------------------------------------------------------------
CallerStep(c) == (\E p \in Outgoing : WriteCheck(c, p)) \/ WritePush(c)
Stopping == StopTestQueue \/ StopPop \/ StopClear \/ StopClose
OwnerStep == Start \/ StopBegin \/ Stopping
Handle(t) == HandleAck(t) \/ Send(t) \/ WaitWhileLocked(t)
ThreadStep(t) == Begin(t) \/ Loop(t) \/ Lock(t) \/ Unlock(t) \/ Take(t) \/ Handle(t)

Step ==
  \/ \E c \in Caller : CallerStep(c)
  \/ OwnerStep
  \/ \E t \in Thread : ThreadStep(t)

\* What ends the process, or all that can be said of it.
Terminate ==
  /\ \E t \in Thread : CannotSend(t)
  /\ process' = "terminated"
Undefined ==
  /\ PopEmpty
  /\ process' = "undefined"
NonProcess == <<running, containers, guard, socketOpen, pc, package, writing,
                owner, starts, history>>

End == (Terminate \/ Undefined) /\ UNCHANGED NonProcess

Next ==
  /\ process = "alive"
  /\ \/ Step /\ UNCHANGED process
     \/ End

Spec == Init /\ [][Next]_vars

-----------------------------------------------------------------------------
(***************************************************************************)
(* Fairness.  A writer thread and a stop() under way keep being scheduled; *)
(* nobody has to call write(), start() or stop().  The mutex is not fair   *)
(* by itself, but whoever asks for it again and again while it is free     *)
(* again and again gets it in the end.                                     *)
(***************************************************************************)
Alive(A) == process = "alive" /\ A /\ UNCHANGED process

Fairness ==
  /\ \A t \in Thread :
       /\ WF_vars(Alive(Begin(t) \/ Loop(t) \/ Unlock(t) \/ Take(t) \/ Handle(t)))
       /\ SF_vars(Alive(Lock(t)))
  /\ \A c \in Caller : SF_vars(Alive(WritePush(c)))
  /\ WF_vars(Alive(Stopping))
  /\ WF_vars(process = "alive" /\ End)

FairSpec == Spec /\ Fairness

-----------------------------------------------------------------------------
Datagram == [to : Address, json : Json]

\* The types of the variables.
TypeOK ==
  /\ running \in BOOLEAN /\ socketOpen \in BOOLEAN
  /\ msgQueue \in Seq(Packages) /\ sentPackages \in Seq(Packages)
  /\ guard \in Thread \cup {None}
  /\ pc \in [Thread -> {"unborn", "spawned", "loop", "locking", "idle",
                        "taking", "handling", "stuck", "done"}]
  /\ package \in [Thread -> Packages \cup {None}]
  /\ writing \in [Caller -> Outgoing \cup {None}]
  /\ owner \in {"stopped", "started", "draining", "popping", "clearing", "closing"}
  /\ starts \in 0 .. MaxStarts
  /\ process \in {"alive", "terminated", "undefined"}
  /\ offered \subseteq Outgoing /\ handled \in Seq(Packages)
  /\ transmitted \in Seq(Datagram)

InSection(t) == pc[t] \in {"idle", "taking", "handling", "stuck"}

\* What keeps the threads apart: the mutex is owned by the one thread that is
\* between its lock and its unlock, a thread that handles has a package, and
\* threads that start() has not spawned yet do nothing.
Sections ==
  /\ \A t \in Thread : InSection(t) <=> guard = t
  /\ \A t \in Thread : pc[t] \in {"handling", "stuck"} => package[t] \in Packages
  /\ \A t \in Thread : t > starts => pc[t] = "unborn"

\* The writer's type invariant: the types and the owner of the mutex, over any
\* interleaving of write(), start(), stop() and the threads.
TypeInv == TypeOK /\ Sections

\* However often the writer is stopped and started again, even while an old
\* thread is still in its loop, only one thread at a time takes a package
\* from the queue or works on one (threadFunc holds guard over both).
OneHandler == \A t, u \in Thread : InSection(t) /\ InSection(u) => t = u

\* A data package that was handed to the socket since sentPackages was last
\* cleared is still in sentPackages unless a positive acknowledgement of it
\* was taken from the queue later: late, repeated, negative or foreign
\* answers never make the writer forget a package that nobody confirmed.
UnackedRetained ==
  \A i \in 1 .. Len(handled) :
    handled[i].type = "Data" =>
      \/ \E k \in 1 .. Len(sentPackages) : sentPackages[k] = handled[i]
      \/ \E j \in i + 1 .. Len(handled) :
           /\ IsLocalAck(UseAck, handled[j]) /\ SamePackage(handled[j], handled[i])
           /\ PayloadString(handled[j]) = "ack"

\* No package leaves the node twice, over any number of restarts and with an
\* old and a new writer thread working on the same queue: the datagrams that
\* left belong to as many different packages given to write(), none of them an
\* acknowledgement that is meant for this node.
MaySend == {p \in offered : ~IsLocalAck(UseAck, p)}
TransmittedOnce ==
  \E sent \in [1 .. Len(transmitted) -> MaySend] :
    /\ \A i \in 1 .. Len(transmitted) : transmitted[i].json = ToJson(sent[i])
    /\ \A i, j \in 1 .. Len(transmitted) : i # j => sent[i] # sent[j]

\* The package in hand and what waits behind it form the abstract queue: the
\* writer implements SendQueue, whatever its threads do.
InHand ==
  IF guard # None /\ pc[guard] \in {"handling", "stuck"}
  THEN <<package[guard]>> ELSE <<>>
Abstract == INSTANCE SendQueue
              WITH queue <- InHand \o msgQueue, unacked <- sentPackages
ImplementsSendQueue == Abstract!QueueSpec

-----------------------------------------------------------------------------
\* The writer cannot go on: the process is gone, or the thread that owns the
\* mutex waits for itself.
Halted == process # "alive" \/ \E t \in Thread : pc[t] = "stuck"

\* A package put in the queue does not stay there for ever while the writer
\* runs and has an address: it is taken, or the writer is stopped.
QueueDrains ==
  \A p \in Outgoing :
    p \in Range(msgQueue) ~> p \notin Range(msgQueue) \/ ~running \/ Halted

\* A stop() that found the writer running ends its threads, unless the writer
\* is started again meanwhile.
EffectiveStopEndsThreads ==
  ~running /\ owner = "stopped" /\ (\A t \in Thread : pc[t] # "spawned")
    ~> \/ \A t \in Thread : pc[t] \in {"unborn", "done"}
       \/ owner = "started" \/ Halted

\* NetworkWriter.cpp:192: the packages that wait for an acknowledgement do not
\* wait for ever while the writer runs, they are resent or acknowledged.
ResentUntilAcknowledged ==
  \A p \in Outgoing :
    p \in Range(sentPackages) ~> p \notin Range(sentPackages) \/ ~running \/ Halted

\* Networker.h:88: the mutex keeps the threads from manipulating the queue
\* simultaneously, so nobody pops from a queue that another has emptied.
QueueGuarded == process # "undefined"
=============================================================================
