----------------------------- MODULE ChainWriter -----------------------------
(***************************************************************************)
(* The writer of one node of a chain, whichever, seen as a SendQueue.      *)
(***************************************************************************)
EXTENDS Chain

CONSTANT Sender
ASSUME SenderAssumption == Sender \in Node

\* What sendData() may give to a writer.
Outgoing == {p \in Packages : p.origin = [host |-> None, port |-> ListeningPort[Sender]]}

\* What the socket was given is not recorded in a chain: it is in the network,
\* until somebody takes it.
Writer == INSTANCE SendQueue
            WITH queue <- outQueue[Sender], unacked <- sentPackages[Sender],
                 transmitted <- <<>>, UseAck <- UseAck[Sender]

\* In the company of other nodes, over losses, repetitions, stops and crashes
\* of any of them, a writer keeps the promises of a SendQueue: what the reader
\* and the handlers of its node give it goes out in order, and an answer from
\* the next node settles no more than the package that it names.
WriterKeepsPromises == Writer!QueueSpec
=============================================================================
