------------------------------ MODULE SendQueue ------------------------------
(***************************************************************************)
(* What a NetworkWriter promises its node, without threads or locks: the   *)
(* packages accepted for sending leave one at a time and in order; a data  *)
(* package handed to the socket is remembered until a positive             *)
(* acknowledgement of it is taken from the queue; acknowledgements meant   *)
(* for this node are never transmitted; stopping forgets packages and      *)
(* invents none.                                                           *)
(***************************************************************************)
EXTENDS Package, Naturals, SequencesExt

CONSTANTS
  UseAck,          \* are acknowledgements of the next node handled here?
  Outgoing         \* the packages the node may offer to its writer

VARIABLES
  queue,           \* accepted, not yet dealt with, oldest first
  unacked,         \* data packages handed over and not acknowledged
  transmitted      \* what the socket was given, oldest first

queueVars == <<queue, unacked, transmitted>>

\* An acknowledgement that came from the next node, meant for this one.
MeantForUs(p) == UseAck /\ p.type = "Acknowledgement" /\ p.destination = NoAddress

\* s without its i-th element.
Without(s, i) ==
  [j \in 1 .. Len(s) - 1 |-> IF j < i THEN s[j] ELSE s[j + 1]]

-----------------------------------------------------------------------------
QueueInit == queue = <<>> /\ unacked = <<>> /\ transmitted = <<>>

\* The queue is the one there was, and one package behind it.
Accept ==
  /\ queue' # <<>> /\ Front(queue') = queue /\ Last(queue') \in Outgoing
  /\ UNCHANGED <<unacked, transmitted>>

\* The oldest package goes to the socket, which may fail to send it.
Transmit ==
  /\ queue # <<>>
  /\ ~IsEmpty(Head(queue)) /\ ~MeantForUs(Head(queue))
  /\ queue' = Tail(queue)
  /\ unacked' = IF Head(queue).type = "Data" THEN Append(unacked, Head(queue))
                                            ELSE unacked
  /\ \/ UNCHANGED transmitted
     \/ \E to \in Address :
          transmitted' = Append(transmitted, [to |-> to, json |-> ToJson(Head(queue))])

\* The oldest package is an answer: a positive one settles one package that
\* it names, if there is one, any other settles nothing.
Settle ==
  /\ queue # <<>>
  /\ MeantForUs(Head(queue))
  /\ queue' = Tail(queue)
  /\ LET named == {i \in 1 .. Len(unacked) : SamePackage(unacked[i], Head(queue))}
     IN  IF PayloadString(Head(queue)) = "ack" /\ named # {}
         THEN \E i \in named : unacked' = Without(unacked, i)
         ELSE UNCHANGED unacked
  /\ UNCHANGED transmitted

\* Stopping drops the waiting packages; one already in hand stays there.
Discard ==
  /\ \E i \in {1, 2} : i <= Len(queue) /\ queue' = Without(queue, i)
  /\ UNCHANGED <<unacked, transmitted>>

Forget ==
  /\ unacked' = <<>>
  /\ UNCHANGED <<queue, transmitted>>

\* A whole stop, over which a package in the hands of the writer stays, and one
\* that is just being accepted, or the end of the process.
Reset ==
  /\ \/ queue' \in {<<>>, queue}
     \/ Len(queue) > 1 /\ queue' \in {<<Head(queue)>>, <<Last(queue)>>,
                                       <<Head(queue), Last(queue)>>}
  /\ unacked' = <<>> /\ UNCHANGED transmitted

QueueNext == Reset \/ Discard \/ Forget \/ Settle \/ Transmit \/ Accept
QueueSpec == QueueInit /\ [][QueueNext]_queueVars
=============================================================================
