----------------------------- MODULE ChainProofs -----------------------------
(***************************************************************************)
(* What holds of any number of nodes, however they are connected, for any  *)
(* handlers, any data and any number of faults.                            *)
(***************************************************************************)
EXTENDS ChainWriter, HandlersProofs, SendingProofs

(***************************************************************************)
(* The inductive invariant.  It follows an acknowledgement on its way, from*)
(* the datagram that it answers back to the node that waits for it; h is   *)
(* what the nodes are done with so far.                                    *)
(***************************************************************************)
\* n's data u is confirmed: the next node acknowledges, and is done with it.
Confirmed(h, n, u) ==
  NextNode[n] # None /\ UseAck[NextNode[n]] /\ u \in h[NextNode[n]]

\* To a node that sends to n, which acknowledges, answers go to a.
Upstream(n, a) == UseAck[n] /\ \E k \in Node : NextNode[k] = n /\ a = SourceOf(k)

\* p may be in the hands of a thread of n.  As far as nodes agree on use-ack, an
\* acknowledgement comes from the next node, or goes to a previous one.
PackageOK(h, n, p) ==
  /\ ~IsEmpty(p)
  /\ p.type = "Data" => p.destination = NoAddress
  /\ UseAckAgreed /\ p.type = "Acknowledgement" =>
       \/ p.destination = NoAddress /\ Confirmed(h, n, p.uid)
       \/ Upstream(n, p.destination) /\ p.uid \in h[n]

\* What is read as a package without a type.
Unnamed == {"", "command"}

\* A datagram names the port that its sender listens to, if there is one; data
\* goes to the next node, an acknowledgement to a previous one.
OnWire(h, d) ==
  /\ d.json.type \notin Unnamed
  /\ \E m \in Node :
       /\ d.from = [host |-> HostOf[m], port |-> SendPort]
       /\ d.json.senderListeningPort = ListeningPort[m]
       /\ d.json.type = "data" => NextNode[m] # None /\ d.to = AddressOf(NextNode[m])
       /\ UseAckAgreed /\ d.json.type = "acknowledgement" =>
            Upstream(m, d.to) /\ d.json.package \in h[m]

\* In a reader's queue q of node n, the acknowledgement that the reader itself
\* has put there stands behind its data.
InOK(h, n, q, i) ==
  /\ ~IsEmpty(q[i])
  /\ q[i].type = "Data" => q[i].destination = NoAddress
  /\ UseAckAgreed /\ q[i].type = "Acknowledgement" =>
       \/ q[i].destination = NoAddress /\ Confirmed(h, n, q[i].uid)
       \/ /\ Upstream(n, q[i].destination)
          /\ \/ q[i].uid \in h[n]
             \/ \E j \in 1 .. i - 1 : q[j].type = "Data" /\ q[j].uid = q[i].uid

OutOK(h, n, p) ==
  /\ PackageOK(h, n, p)
  /\ p.origin = [host |-> None, port |-> ListeningPort[n]]
  /\ p.type = "Data" => NextNode[n] # None

\* ps may be given to sendData() in node n.
Sendable(h, n, ps) == ps # <<>> => PackageOK(h, n, Head(ps))

NetworkInv == \A d \in network : OnWire(Done, d)
InInv == \A n \in Node : \A i \in 1 .. Len(inQueue[n]) : InOK(Done, n, inQueue[n], i)
OutInv == \A n \in Node : \A i \in 1 .. Len(outQueue[n]) : OutOK(Done, n, outQueue[n][i])
HeldInv == \A n \in Node : \A p \in held[n] : PackageOK(Done, n, p)
NothingForgottenInv == UseAckAgreed => ForgottenOnlyWhenHandled
ChainInv ==
  TypeOK /\ NetworkInv /\ InInv /\ OutInv /\ HeldInv /\ NothingForgottenInv

-----------------------------------------------------------------------------
(***************************************************************************)
(* Facts about the operators.                                              *)
(***************************************************************************)
LEMMA Addresses ==
  /\ NoAddress \in Address
  /\ \A n \in Node : /\ AddressOf(n) \in Address /\ AddressOf(n) # NoAddress
                     /\ SourceOf(n) \in Address /\ SourceOf(n) # NoAddress
                     /\ SourceOf(n).host # None /\ SourceOf(n).port # None
                     /\ OutputOf(n) \in Address
<1>1. NoAddress \in Address
  BY DEF NoAddress, Address
<1>2. ASSUME NEW n \in Node
      PROVE  AddressOf(n) \in Address /\ AddressOf(n) # NoAddress
             /\ SourceOf(n) \in Address /\ SourceOf(n) # NoAddress
             /\ SourceOf(n).host # None /\ SourceOf(n).port # None
  BY ChainAssumption DEF AddressOf, SourceOf, NoAddress, Address
<1>3. ASSUME NEW n \in Node PROVE OutputOf(n) \in Address
  BY <1>1, <1>2, ChainAssumption DEF OutputOf
<1> QED
  BY <1>1, <1>2, <1>3

\* An address belongs to one node, the one that answers are sent to as well.
LEMMA OneAddress ==
  \A n, m \in Node : /\ AddressOf(n) = AddressOf(m) => n = m
                     /\ AddressOf(n) = SourceOf(m) => n = m
  BY ChainAssumption DEF AddressOf, SourceOf

LEMMA StringOfType ==
  ASSUME NEW s \in TypeOnWire
  PROVE  /\ TypeFromString(s) \in Type
         /\ TypeFromString(s) = "Data" => s = "data"
         /\ TypeFromString(s) = "Acknowledgement" => s = "acknowledgement"
         /\ TypeFromString(s) = "NoType" => s \in Unnamed
<1>1. /\ TypeAsString["Data"] = "data" /\ TypeAsString["Acknowledgement"] = "acknowledgement"
      /\ TypeAsString["NoType"] = ""
  BY DEF TypeAsString
<1>2. CASE \E t \in Type : TypeAsString[t] = s
  <2>1. TypeFromString(s) \in Type /\ TypeAsString[TypeFromString(s)] = s
    BY <1>2 DEF TypeFromString
  <2> QED
    BY <2>1, <1>1 DEF Unnamed
<1>3. CASE ~\E t \in Type : TypeAsString[t] = s
  <2>1. s = "command" /\ TypeFromString(s) = "NoType"
    BY <1>3 DEF TypeFromString, TypeOnWire
  <2> QED
    BY <2>1 DEF Type, Unnamed
<1> QED
  BY <1>2, <1>3

\* What a reader makes of a datagram.
LEMMA ReceivedFacts ==
  ASSUME NEW n \in Node, NEW d \in Sendings
  PROVE  /\ Received(d) \in Packages
         /\ Received(d).uid = d.json.package
         /\ Received(d).destination = NoAddress
         /\ Received(d).type = "Data" => d.json.type = "data"
         /\ Received(d).type = "Acknowledgement" =>
              d.json.type = "acknowledgement"
         /\ Received(d).type = "NoType" => d.json.type \in Unnamed
         /\ \A m \in Node :
              /\ d.from = [host |-> HostOf[m], port |-> SendPort]
              /\ d.json.senderListeningPort = ListeningPort[m]
              => Received(d).origin = SourceOf(m)
<1>1. d.json \in Json /\ d.from \in Address
  BY DEF Sendings
<1>2. d.json.type \in TypeOnWire
  BY <1>1 DEF Json
<1>3. ASSUME NEW m \in Node, d.from = [host |-> HostOf[m], port |-> SendPort],
             d.json.senderListeningPort = ListeningPort[m]
      PROVE  OriginOf(d) = SourceOf(m)
  BY <1>3 DEF OriginOf, SourceOf
<1> QED
  BY <1>1, <1>2, <1>3, ReceivedType, StringOfType

\* Settling an answer erases one package that it names, at most.
LEMMA SettledFacts ==
  ASSUME NEW n \in Node, NEW sent \in Seq(Packages), NEW p \in Packages
  PROVE  LET s == handleAcknowledgementMessages(sent, p)
         IN  /\ s \in Seq(Packages)
             /\ \A i \in 1 .. Len(sent) :
                  sent[i].uid = p.uid \/ \E j \in 1 .. Len(s) : s[j].uid = sent[i].uid
<1> DEFINE s == handleAcknowledgementMessages(sent, p)
<1>1. CASE s = sent
  BY <1>1
<1>2. ASSUME NEW e \in 1 .. Len(sent), SamePackage(sent[e], p), s = RemoveAt(sent, e)
      PROVE  /\ s \in Seq(Packages)
             /\ \A i \in 1 .. Len(sent) :
                  sent[i].uid = p.uid \/ \E j \in 1 .. Len(s) : s[j].uid = sent[i].uid
  <2> HIDE DEF s
  <2>1. /\ s \in Seq(Packages) /\ Len(s) = Len(sent) - 1
        /\ \A j \in 1 .. Len(sent) - 1 : s[j] = IF j < e THEN sent[j] ELSE sent[j + 1]
    BY <1>2, RemoveAtType
  <2>2. ASSUME NEW i \in 1 .. Len(sent), sent[i].uid # p.uid
        PROVE  \E j \in 1 .. Len(s) : s[j].uid = sent[i].uid
    <3>1. CASE i < e
      BY <3>1, <2>1
    <3>2. CASE i > e
      <4>1. i - 1 \in 1 .. Len(s) /\ s[i - 1] = sent[i]
        BY <3>2, <2>1
      <4> QED
        BY <4>1
    <3> QED
      BY <1>2, <2>2, <3>1, <3>2 DEF SamePackage
  <2> QED
    BY <2>1, <2>2
<1> QED
  BY <1>1, <1>2, AcknowledgementEffect

-----------------------------------------------------------------------------
(***************************************************************************)
(* What a node is done with stays so, and so do the facts that rest on it. *)
(***************************************************************************)
Grows(h, g) == \A n \in Node : h[n] \subseteq g[n]

LEMMA ConfirmedGrows ==
  ASSUME NEW h, NEW g, Grows(h, g), NEW n \in Node, NEW u, Confirmed(h, n, u)
  PROVE  Confirmed(g, n, u)
  BY ChainAssumption DEF Grows, Confirmed

LEMMA PackageOKGrows ==
  ASSUME NEW h, NEW g, Grows(h, g), NEW n \in Node, NEW p, PackageOK(h, n, p)
  PROVE  PackageOK(g, n, p)
<1>1. Confirmed(h, n, p.uid) => Confirmed(g, n, p.uid)
  BY ConfirmedGrows
<1>2. p.uid \in h[n] => p.uid \in g[n]
  BY DEF Grows
<1> QED
  BY <1>1, <1>2 DEF PackageOK

LEMMA OutOKGrows ==
  ASSUME NEW h, NEW g, Grows(h, g), NEW n \in Node, NEW p, OutOK(h, n, p)
  PROVE  OutOK(g, n, p)
  BY PackageOKGrows DEF OutOK

LEMMA InOKGrows ==
  ASSUME NEW h, NEW g, Grows(h, g), NEW n \in Node, NEW q, NEW i, InOK(h, n, q, i)
  PROVE  InOK(g, n, q, i)
<1>1. Confirmed(h, n, q[i].uid) => Confirmed(g, n, q[i].uid)
  BY ConfirmedGrows
<1>2. q[i].uid \in h[n] => q[i].uid \in g[n]
  BY DEF Grows
<1> QED
  BY <1>1, <1>2 DEF InOK, Upstream

LEMMA OnWireGrows ==
  ASSUME NEW h, NEW g, Grows(h, g), NEW d, OnWire(h, d)
  PROVE  OnWire(g, d)
  BY DEF Grows, OnWire, Upstream

\* What is left of a reader's queue when its head has been handled or withheld.
LEMMA TailOK ==
  ASSUME NEW h, NEW g, Grows(h, g), NEW n \in Node, NEW q \in Seq(Packages), q # <<>>,
         \A i \in 1 .. Len(q) : InOK(h, n, q, i),
         Head(q).type = "Data" => Head(q).uid \in g[n]
  PROVE  \A i \in 1 .. Len(Tail(q)) : InOK(g, n, Tail(q), i)
<1> SUFFICES ASSUME NEW i \in 1 .. Len(Tail(q)) PROVE InOK(g, n, Tail(q), i)
  OBVIOUS
<1>1. /\ Len(Tail(q)) = Len(q) - 1 /\ i + 1 \in 1 .. Len(q)
      /\ \A j \in 1 .. Len(q) - 1 : Tail(q)[j] = q[j + 1]
  BY HeadTailProperties
<1>2. Tail(q)[i] = q[i + 1] /\ Head(q) = q[1]
  BY <1>1
<1>3. InOK(g, n, q, i + 1)
  BY <1>1, InOKGrows
<1>4. ASSUME NEW j \in 1 .. i, q[j].type = "Data", q[j].uid = q[i + 1].uid
      PROVE  \/ q[i + 1].uid \in g[n]
             \/ \E k \in 1 .. i - 1 :
                  Tail(q)[k].type = "Data" /\ Tail(q)[k].uid = Tail(q)[i].uid
  <2>1. CASE j = 1
    BY <2>1, <1>2, <1>4
  <2>2. CASE j # 1
    <3>1. j - 1 \in 1 .. i - 1 /\ Tail(q)[j - 1] = q[j]
      BY <2>2, <1>1
    <3> QED
      BY <3>1, <1>2, <1>4
  <2> QED
    BY <2>1, <2>2
<1>5. (i + 1) - 1 = i
  OBVIOUS
<1> DEFINE a == q[i + 1]
           b == Tail(q)[i]
<1>6. a = b
  BY <1>2
<1>7. /\ a.type = "Data" => a.destination = NoAddress
      /\ UseAckAgreed /\ a.type = "Acknowledgement" =>
           \/ a.destination = NoAddress /\ Confirmed(g, n, a.uid)
           \/ /\ Upstream(n, a.destination)
              /\ \/ a.uid \in g[n]
                 \/ \E j \in 1 .. i : q[j].type = "Data" /\ q[j].uid = a.uid
  BY <1>3, <1>5 DEF InOK
<1> QED
  BY <1>4, <1>6, <1>7 DEF InOK

\* What a writer's queue gets from sendData().
LEMMA SendDataOK ==
  ASSUME TypeOK, OutInv, Grows(Done, Done'), NEW n \in Node, NEW ps \in Seq(Packages),
         sendData(n, ps), Sendable(Done, n, ps)
  PROVE  OutInv' /\ outQueue' \in [Node -> Seq(Packages)] /\ faults' \in 0 .. MaxFaults
<1>0. faults' \in 0 .. MaxFaults
  BY ChainAssumption DEF sendData, TypeOK
<1>1. \A m \in Node : \A i \in 1 .. Len(outQueue[m]) : OutOK(Done', m, outQueue[m][i])
  BY OutOKGrows DEF OutInv
<1>2. outQueue \in [Node -> Seq(Packages)]
  BY DEF TypeOK
<1>3. CASE ~(ps # <<>> /\ Accepts(n, Head(ps)) /\ writing[n])
  <2>1. outQueue' = outQueue
    BY <1>3 DEF sendData
  <2>2. \A m \in Node : \A i \in 1 .. Len(outQueue'[m]) : OutOK(Done', m, outQueue'[m][i])
    BY <1>1, <2>1
  <2> QED
    BY <1>0, <1>2, <2>1, <2>2 DEF OutInv
<1>4. CASE ps # <<>> /\ Accepts(n, Head(ps)) /\ writing[n]
  <2> DEFINE p == Head(ps)
             q == WithOrigin(n, p)
  <2>1. p \in Packages
    BY <1>4
  <2>2. /\ q \in Packages /\ q.uid = p.uid /\ q.type = p.type
        /\ q.destination = p.destination
        /\ q.origin = [host |-> None, port |-> ListeningPort[n]]
    <3>1. [host |-> None, port |-> ListeningPort[n]] \in Address
      BY ChainAssumption DEF Address
    <3> QED
      BY <2>1, <3>1 DEF WithOrigin, Packages
  <2>3. p.type = "Data" => NextNode[n] # None
    BY <1>4 DEF Accepts
  <2>4. OutOK(Done, n, q)
    BY <1>4, <2>2, <2>3 DEF OutOK, Sendable, PackageOK, IsEmpty
  <2>5. outQueue' = [outQueue EXCEPT ![n] = Append(outQueue[n], q)]
    BY <1>4 DEF sendData
  <2> HIDE DEF p, q
  <2>6. OutOK(Done', n, q)
    BY <2>4, OutOKGrows
  <2>7. ASSUME NEW m \in Node, NEW i \in 1 .. Len(outQueue'[m])
        PROVE  OutOK(Done', m, outQueue'[m][i])
    <3>1. CASE m = n
      <4>1. outQueue'[m] = Append(outQueue[n], q) /\ outQueue[n] \in Seq(Packages)
        BY <1>2, <2>5, <3>1
      <4>2. outQueue'[m][i] = q \/ (i \in 1 .. Len(outQueue[n]) /\ outQueue'[m][i] = outQueue[n][i])
        BY <4>1, <2>2
      <4> QED
        BY <4>2, <1>1, <2>6, <3>1
    <3>2. CASE m # n
      BY <3>2, <1>1, <1>2, <2>5
    <3> QED
      BY <3>1, <3>2
  <2>8. outQueue' \in [Node -> Seq(Packages)]
    BY <1>2, <2>2, <2>5
  <2> QED
    BY <1>0, <2>7, <2>8 DEF OutInv
<1> QED
  BY <1>3, <1>4

\* The parts of the invariant whose variables a step leaves alone.
LEMMA NetworkKept ==
  ASSUME NetworkInv, Grows(Done, Done'), network' \subseteq network
  PROVE  NetworkInv'
  BY OnWireGrows DEF NetworkInv

LEMMA InKept ==
  ASSUME InInv, Grows(Done, Done'), inQueue' = inQueue
  PROVE  InInv'
  BY InOKGrows DEF InInv

LEMMA OutKept ==
  ASSUME OutInv, Grows(Done, Done'), outQueue' = outQueue
  PROVE  OutInv'
  BY OutOKGrows DEF OutInv

LEMMA HeldKept ==
  ASSUME HeldInv, Grows(Done, Done'), \A n \in Node : held'[n] \subseteq held[n]
  PROVE  HeldInv'
  BY PackageOKGrows DEF HeldInv

LEMMA ForgottenKept ==
  ASSUME NothingForgottenInv, Grows(Done, Done'),
         remembered' = remembered, sentPackages' = sentPackages
  PROVE  NothingForgottenInv'
<1> SUFFICES ASSUME UseAckAgreed, NEW n \in Node, NEW u \in remembered[n]
             PROVE  Waits(n, u)' \/ (NextNode[n] # None /\ u \in Done'[NextNode[n]])
  BY DEF NothingForgottenInv, ForgottenOnlyWhenHandled
<1>1. Waits(n, u) \/ (NextNode[n] # None /\ u \in Done[NextNode[n]])
  BY DEF NothingForgottenInv, ForgottenOnlyWhenHandled
<1>2. Waits(n, u) => Waits(n, u)'
  BY DEF Waits
<1> QED
  BY <1>1, <1>2, ChainAssumption DEF Grows

LEMMA DoneSame ==
  handled' = handled /\ withheld' = withheld => Done' = Done /\ Grows(Done, Done')
  BY DEF Grows, Done

-----------------------------------------------------------------------------
(***************************************************************************)
(* The steps of a node.                                                    *)
(***************************************************************************)
LEMMA ChainInvInit == Init => ChainInv
<1> SUFFICES ASSUME Init PROVE ChainInv
  OBVIOUS
<1>1. TypeOK
  BY ChainAssumption DEF Init, TypeOK
<1>2. NetworkInv /\ InInv /\ OutInv
  BY DEF Init, NetworkInv, InInv, OutInv
<1>3. HeldInv /\ NothingForgottenInv
  BY DEF Init, HeldInv, NothingForgottenInv, ForgottenOnlyWhenHandled
<1> QED
  BY <1>1, <1>2, <1>3 DEF ChainInv

\* The text that a keeping handler gets comes in a package.
LEMMA KeptOfType ==
  ASSUME NEW p \in Packages, NEW hs, NEW from
  PROVE  KeptOf(hs, from, p) \subseteq Packages
  BY OfferedType DEF KeptOf

LEMMA ChainInvReadFile ==
  ASSUME ChainInv, NEW n \in Node, ReadFile(n)
  PROVE  ChainInv'
<1> USE DEF ChainInv, threads
<1>1. PICK i \in 1 .. Len(HandlersOf(n)), p \in FileData \ taken :
        /\ sendData(n, passToNextHandlers(HandlersOf(n), i, p))
        /\ kept' = kept \cup KeptOf(HandlersOf(n), i + 1, p)
        /\ taken' = taken \cup {p}
  BY DEF ReadFile
<1>2. p \in Packages /\ p.type = "Data" /\ p.destination = NoAddress
  BY ChainAssumption
<1>3. Grows(Done, Done')
  BY DoneSame DEF ReadFile
<1> DEFINE ps == passToNextHandlers(HandlersOf(n), i, p)
<1>4. /\ ps \in Seq(Packages)
      /\ ps # <<>> =>
           \/ Head(ps).type = "Data" /\ Head(ps).destination = NoAddress
           \/ Head(ps).type = "Configuration"
  BY <1>2, PassedFacts DEF passToNextHandlers
<1>5. kept' \subseteq Packages
  BY <1>1, <1>2, KeptOfType DEF TypeOK
<1> HIDE DEF ps
<1>6. sendData(n, ps)
  BY <1>1 DEF ps
<1>7. OutInv' /\ outQueue' \in [Node -> Seq(Packages)] /\ faults' \in 0 .. MaxFaults
  <2>1. Sendable(Done, n, ps)
    BY <1>4 DEF Sendable, PackageOK, IsEmpty
  <2> QED
    BY <2>1, <1>3, <1>4, <1>6, SendDataOK
<1>8. TypeOK'
  BY <1>1, <1>5, <1>7 DEF TypeOK, ReadFile
<1>9. NetworkInv' /\ InInv' /\ HeldInv'
  BY <1>3, NetworkKept, InKept, HeldKept DEF ReadFile
<1>10. NothingForgottenInv'
  BY <1>3, ForgottenKept DEF ReadFile
<1> QED
  BY <1>7, <1>8, <1>9, <1>10

\* The head of a reader's queue.
LEMMA InHead ==
  ASSUME TypeOK, InInv, NEW n \in Node, inQueue[n] # <<>>
  PROVE  Head(inQueue[n]) \in Packages /\ PackageOK(Done, n, Head(inQueue[n]))
<1> DEFINE q == inQueue[n]
<1>1. q \in Seq(Packages) /\ q # <<>>
  BY DEF TypeOK
<1>2. Head(q) \in Packages /\ Head(q) = q[1] /\ 1 \in 1 .. Len(q)
  BY <1>1
<1>3. InOK(Done, n, q, 1)
  BY <1>2 DEF InInv
<1>4. \A j \in 1 .. 1 - 1 : FALSE
  OBVIOUS
<1> QED
  BY <1>2, <1>3, <1>4 DEF InOK, PackageOK

\* What is left when it is taken.
LEMMA InTail ==
  ASSUME TypeOK, InInv, Grows(Done, Done'), NEW n \in Node, inQueue[n] # <<>>,
         inQueue' = [inQueue EXCEPT ![n] = Tail(@)],
         Head(inQueue[n]).type = "Data" => Head(inQueue[n]).uid \in Done'[n]
  PROVE  InInv' /\ inQueue' \in [Node -> Seq(Packages)]
<1> DEFINE q == inQueue[n]
<1>1. /\ inQueue \in [Node -> Seq(Packages)] /\ q \in Seq(Packages) /\ q # <<>>
      /\ Tail(q) \in Seq(Packages)
  BY DEF TypeOK
<1>2. \A i \in 1 .. Len(q) : InOK(Done, n, q, i)
  BY DEF InInv
<1>3. /\ inQueue'[n] = Tail(q)
      /\ \A m \in Node : m # n => inQueue'[m] = inQueue[m]
  BY <1>1
<1> HIDE DEF q
<1>4. \A i \in 1 .. Len(Tail(q)) : InOK(Done', n, Tail(q), i)
  BY <1>1, <1>2, TailOK DEF q
<1>5. ASSUME NEW m \in Node, m # n
      PROVE  \A i \in 1 .. Len(inQueue[m]) : InOK(Done', m, inQueue[m], i)
  BY InOKGrows DEF InInv
<1>6. InInv'
  BY <1>3, <1>4, <1>5 DEF InInv
<1>7. inQueue' \in [Node -> Seq(Packages)]
  BY <1>1 DEF q
<1> QED
  BY <1>6, <1>7

\* What a handler thread may do to the invariant with a package in its hands.
LEMMA HandlePackageOK ==
  ASSUME ChainInv, NEW n \in Node, NEW p \in Packages, PackageOK(Done, n, p),
         HandlePackage(n, p)
  PROVE  /\ Grows(Done, Done') /\ (p.type = "Data" => p.uid \in Done'[n])
         /\ handled' \in [Node -> SUBSET Uuid] /\ kept' \subseteq Packages
         /\ outQueue' \in [Node -> Seq(Packages)] /\ faults' \in 0 .. MaxFaults
         /\ OutInv' /\ NetworkInv' /\ NothingForgottenInv'
<1> USE DEF ChainInv
<1> DEFINE g == IF p.type = "Data" THEN [handled EXCEPT ![n] = @ \cup {p.uid}] ELSE handled
<1>1. handled' = g
  <2>1. CASE p.type = "Acknowledgement"
    BY <2>1 DEF HandlePackage
  <2>2. CASE p.type # "Acknowledgement"
    <3>1. handled' = [handled EXCEPT ![n] = IF p.type = "Data" THEN @ \cup {p.uid} ELSE @]
      BY <2>2 DEF HandlePackage
    <3> QED
      BY <3>1 DEF TypeOK
  <2> QED
    BY <2>1, <2>2
<1>2. p.uid \in Uuid
  BY DEF Packages
<1>3. /\ g \in [Node -> SUBSET Uuid] /\ \A m \in Node : handled[m] \subseteq g[m]
      /\ p.type = "Data" => p.uid \in g[n]
  BY <1>2 DEF TypeOK
<1> HIDE DEF g
<1>4. Grows(Done, Done') /\ (p.type = "Data" => p.uid \in Done'[n])
  BY <1>1, <1>3 DEF Grows, Done, HandlePackage
<1>5. PICK ps \in Seq(Packages) : sendData(n, ps) /\ Sendable(Done, n, ps)
  <2>1. CASE p.type = "Acknowledgement"
    <3> DEFINE s == <<p>>
    <3>1. sendData(n, s)
      BY <2>1 DEF HandlePackage
    <3>2. s \in Seq(Packages) /\ s # <<>> /\ Head(s) = p
      OBVIOUS
    <3> HIDE DEF s
    <3>3. Sendable(Done, n, s)
      BY <3>2 DEF Sendable
    <3> QED
      BY <3>1, <3>2, <3>3
  <2>2. CASE p.type # "Acknowledgement"
    <3> DEFINE r == passToHandlers(HandlersOf(n), p)
    <3>1. sendData(n, r)
      BY <2>2 DEF HandlePackage
    <3>2. /\ r \in Seq(Packages)
          /\ r # <<>> => \/ Head(r).type = p.type /\ Head(r).destination = p.destination
                         \/ Head(r).type = "Configuration"
      BY PassedFacts DEF passToHandlers
    <3> HIDE DEF r
    <3>3. Sendable(Done, n, r)
      BY <3>2, <2>2 DEF Sendable, PackageOK, IsEmpty
    <3> QED
      BY <3>1, <3>2, <3>3
  <2> QED
    BY <2>1, <2>2
<1>6. kept' \subseteq Packages
  BY KeptOfType DEF TypeOK, HandlePackage
<1>7. OutInv' /\ outQueue' \in [Node -> Seq(Packages)] /\ faults' \in 0 .. MaxFaults
  BY <1>4, <1>5, SendDataOK
<1>8. NetworkInv' /\ NothingForgottenInv'
  BY <1>4, NetworkKept, ForgottenKept DEF HandlePackage
<1> QED
  BY <1>1, <1>3, <1>4, <1>6, <1>7, <1>8

LEMMA ChainInvHandle ==
  ASSUME ChainInv, NEW n \in Node, Handle(n)
  PROVE  ChainInv'
<1> DEFINE p == Head(inQueue[n])
<1>1. p \in Packages /\ PackageOK(Done, n, p) /\ HandlePackage(n, p)
  BY InHead DEF ChainInv, Handle
<1> HIDE DEF p
<1>2. /\ Grows(Done, Done') /\ (p.type = "Data" => p.uid \in Done'[n])
      /\ handled' \in [Node -> SUBSET Uuid] /\ kept' \subseteq Packages
      /\ outQueue' \in [Node -> Seq(Packages)] /\ faults' \in 0 .. MaxFaults
      /\ OutInv' /\ NetworkInv' /\ NothingForgottenInv'
  BY <1>1, HandlePackageOK
<1>3. InInv' /\ inQueue' \in [Node -> Seq(Packages)]
  BY <1>2, InTail DEF ChainInv, Handle, p
<1>4. HeldInv'
  BY <1>2, HeldKept DEF ChainInv, Handle
<1>5. TypeOK'
  BY <1>1, <1>2, <1>3 DEF ChainInv, TypeOK, Handle, HandlePackage
<1> QED
  BY <1>2, <1>3, <1>4, <1>5 DEF ChainInv

LEMMA ChainInvHandleHeld ==
  ASSUME ChainInv, NEW n \in Node, HandleHeld(n)
  PROVE  ChainInv'
<1>1. PICK p \in held[n] : HandlePackage(n, p) /\ held' = [held EXCEPT ![n] = @ \ {p}]
  BY DEF HandleHeld
<1>2. held \in [Node -> SUBSET Packages]
  BY DEF ChainInv, TypeOK
<1>3. p \in Packages /\ PackageOK(Done, n, p)
  BY <1>1, <1>2 DEF ChainInv, HeldInv
<1>4. /\ Grows(Done, Done')
      /\ handled' \in [Node -> SUBSET Uuid] /\ kept' \subseteq Packages
      /\ outQueue' \in [Node -> Seq(Packages)] /\ faults' \in 0 .. MaxFaults
      /\ OutInv' /\ NetworkInv' /\ NothingForgottenInv'
  BY <1>1, <1>3, HandlePackageOK
<1>5. \A m \in Node : held'[m] \subseteq held[m]
  BY <1>1, <1>2
<1>6. HeldInv' /\ InInv'
  BY <1>4, <1>5, HeldKept, InKept DEF ChainInv, HandleHeld
<1>7. held' \in [Node -> SUBSET Packages]
  BY <1>1, <1>2
<1>8. TypeOK'
  BY <1>1, <1>4, <1>7 DEF ChainInv, TypeOK, HandleHeld, HandlePackage
<1> QED
  BY <1>4, <1>6, <1>8 DEF ChainInv

\* A package that is taken and not handled at once.
LEMMA WithholdOK ==
  ASSUME ChainInv, NEW n \in Node, Withhold(n), handled' = handled
  PROVE  /\ Grows(Done, Done') /\ InInv' /\ HeldInv'
         /\ inQueue' \in [Node -> Seq(Packages)] /\ held' \in [Node -> SUBSET Packages]
         /\ withheld' \in [Node -> SUBSET Uuid]
<1> USE DEF ChainInv
<1> DEFINE p == Head(inQueue[n])
<1>1. p \in Packages /\ PackageOK(Done, n, p)
  BY InHead DEF Withhold
<1>2. /\ held \in [Node -> SUBSET Packages] /\ withheld \in [Node -> SUBSET Uuid]
      /\ p.uid \in Uuid
  BY <1>1 DEF TypeOK, Packages
<1>3. /\ held' = [held EXCEPT ![n] = held[n] \cup {p}]
      /\ withheld' = [withheld EXCEPT ![n] =
                        IF p.type = "Data" THEN withheld[n] \cup {p.uid} ELSE withheld[n]]
  BY DEF Withhold
<1> HIDE DEF p
<1>4. /\ \A m \in Node : withheld[m] \subseteq withheld'[m]
      /\ p.type = "Data" => p.uid \in withheld'[n]
      /\ withheld' \in [Node -> SUBSET Uuid]
  BY <1>2, <1>3
<1>5. Grows(Done, Done') /\ (p.type = "Data" => p.uid \in Done'[n])
  BY <1>4 DEF Grows, Done
<1>6. InInv' /\ inQueue' \in [Node -> Seq(Packages)]
  BY <1>5, InTail DEF Withhold, p
<1>7. /\ held' \in [Node -> SUBSET Packages] /\ (\A m \in Node : held'[m] \subseteq held[m] \cup {p})
      /\ (\A m \in Node : m # n => held'[m] = held[m])
  BY <1>1, <1>2, <1>3
<1>8. HeldInv'
  <2> SUFFICES ASSUME NEW m \in Node, NEW r \in held'[m] PROVE PackageOK(Done', m, r)
    BY DEF HeldInv
  <2>1. PackageOK(Done, m, r)
    <3>1. r \in held[m] \/ (m = n /\ r = p)
      BY <1>7
    <3> QED
      BY <3>1, <1>1 DEF HeldInv
  <2> QED
    BY <2>1, <1>5, PackageOKGrows
<1> QED
  BY <1>4, <1>5, <1>6, <1>7, <1>8

LEMMA ChainInvTake ==
  ASSUME ChainInv, NEW n \in Node, Take(n)
  PROVE  ChainInv'
<1>1. /\ Grows(Done, Done') /\ InInv' /\ HeldInv'
      /\ inQueue' \in [Node -> Seq(Packages)] /\ held' \in [Node -> SUBSET Packages]
      /\ withheld' \in [Node -> SUBSET Uuid]
  BY WithholdOK DEF Take
<1>2. TypeOK'
  BY <1>1 DEF ChainInv, TypeOK, Take
<1>3. NetworkInv' /\ OutInv' /\ NothingForgottenInv'
  BY <1>1, NetworkKept, OutKept, ForgottenKept DEF ChainInv, Take
<1> QED
  BY <1>1, <1>2, <1>3 DEF ChainInv

\* The head of a writer's queue, and what is left when it is taken.
LEMMA OutTail ==
  ASSUME TypeOK, OutInv, Done' = Done, NEW n \in Node, outQueue[n] # <<>>,
         outQueue' = [outQueue EXCEPT ![n] = Tail(@)]
  PROVE  /\ Head(outQueue[n]) \in Packages /\ OutOK(Done, n, Head(outQueue[n]))
         /\ OutInv' /\ outQueue' \in [Node -> Seq(Packages)]
<1> DEFINE q == outQueue[n]
<1>1. q \in Seq(Packages) /\ q # <<>> /\ outQueue \in [Node -> Seq(Packages)]
  BY DEF TypeOK
<1>2. Head(q) \in Packages /\ Head(q) = q[1] /\ 1 \in 1 .. Len(q)
  BY <1>1
<1>3. OutOK(Done, n, q[1])
  BY <1>2 DEF OutInv
<1>4. ASSUME NEW m \in Node, NEW i \in 1 .. Len(outQueue'[m])
      PROVE  OutOK(Done', m, outQueue'[m][i])
  <2>1. CASE m = n
    <3>1. outQueue'[m] = Tail(q)
      BY <1>1, <2>1
    <3>2. i + 1 \in 1 .. Len(q) /\ Tail(q)[i] = q[i + 1]
      BY <1>1, <1>4, <3>1
    <3>3. OutOK(Done, n, q[i + 1])
      BY <3>2 DEF OutInv
    <3> QED
      BY <2>1, <3>1, <3>2, <3>3
  <2>2. CASE m # n
    BY <2>2, <1>1, <1>4 DEF OutInv
  <2> QED
    BY <2>1, <2>2
<1>5. outQueue' \in [Node -> Seq(Packages)]
  BY <1>1
<1> QED
  BY <1>2, <1>3, <1>4, <1>5 DEF OutInv

LEMMA ChainInvSettle ==
  ASSUME ChainInv, NEW n \in Node, Settle(n)
  PROVE  ChainInv'
<1> USE DEF ChainInv, threads, history
<1> DEFINE p == Head(outQueue[n])
           s == handleAcknowledgementMessages(sentPackages[n], p)
<1>1. Done' = Done /\ remembered' = remembered /\ Grows(Done, Done')
  BY DoneSame DEF Settle
<1>2. p \in Packages /\ OutOK(Done, n, p) /\ OutInv' /\ outQueue' \in [Node -> Seq(Packages)]
  BY <1>1, OutTail DEF Settle
<1>3. UseAckAgreed => Confirmed(Done, n, p.uid)
  <2>1. p.type = "Acknowledgement" /\ p.destination = NoAddress
    BY DEF Settle, IsLocalAck, HasDestination
  <2>2. ~Upstream(n, NoAddress)
    BY Addresses DEF Upstream
  <2> QED
    BY <1>2, <2>1, <2>2 DEF OutOK, PackageOK
<1>4. sentPackages[n] \in Seq(Packages) /\ sentPackages \in [Node -> Seq(Packages)]
  BY DEF TypeOK
<1>5. /\ s \in Seq(Packages)
      /\ \A i \in 1 .. Len(sentPackages[n]) :
           \/ sentPackages[n][i].uid = p.uid
           \/ \E j \in 1 .. Len(s) : s[j].uid = sentPackages[n][i].uid
  BY <1>2, <1>4, SettledFacts
<1>6. sentPackages' = [sentPackages EXCEPT ![n] = s]
  BY DEF Settle
<1> HIDE DEF p, s
<1>7. TypeOK'
  BY <1>2, <1>4, <1>5, <1>6 DEF TypeOK, Settle
<1>8. NothingForgottenInv'
  <2> SUFFICES ASSUME UseAckAgreed, NEW m \in Node, NEW u \in remembered[m]
               PROVE  Waits(m, u)' \/ (NextNode[m] # None /\ u \in Done[NextNode[m]])
    BY <1>1 DEF NothingForgottenInv, ForgottenOnlyWhenHandled
  <2>1. Waits(m, u) \/ (NextNode[m] # None /\ u \in Done[NextNode[m]])
    BY DEF NothingForgottenInv, ForgottenOnlyWhenHandled
  <2>2. CASE m # n
    <3>1. sentPackages'[m] = sentPackages[m]
      BY <2>2, <1>4, <1>6
    <3> QED
      BY <2>1, <3>1 DEF Waits
  <2>3. CASE m = n /\ Waits(m, u)
    <3>1. sentPackages'[n] = s
      BY <1>4, <1>6
    <3>2. u = p.uid \/ \E j \in 1 .. Len(s) : s[j].uid = u
      BY <2>3, <1>5 DEF Waits
    <3> QED
      BY <2>3, <3>1, <3>2, <1>3 DEF Waits, Confirmed
  <2> QED
    BY <2>1, <2>2, <2>3
<1>9. NetworkInv' /\ InInv' /\ HeldInv'
  BY <1>1, NetworkKept, InKept, HeldKept DEF Settle
<1> QED
  BY <1>2, <1>7, <1>8, <1>9

\* What a writer puts on the network.
LEMMA DatagramFacts ==
  ASSUME NEW h, NEW n \in Node, NEW p \in Packages, OutOK(h, n, p), ~IsLocalAck(UseAck[n], p)
  PROVE  Datagram(n, p) \in Sendings /\ OnWire(h, Datagram(n, p))
<1> DEFINE d == Datagram(n, p)
           to == DestinationOf(OutputOf(n), p)
<1>1. /\ d.from = [host |-> HostOf[n], port |-> SendPort] /\ d.to = to
      /\ d.json.type = TypeAsString[p.type] /\ d.json.package = p.uid
      /\ d.json.senderListeningPort = p.origin.port
  BY DEF Datagram, ToJson
<1>2. d \in Sendings
  <2>1. ToJson(p) \in Json
    BY JsonType
  <2>2. [host |-> HostOf[n], port |-> SendPort] \in Address
    BY ChainAssumption DEF Address
  <2>3. to \in Address
    BY Addresses DEF DestinationOf, Packages
  <2> QED
    BY <2>1, <2>2, <2>3 DEF Datagram, Sendings
<1>3. p.origin.port = ListeningPort[n]
  BY DEF OutOK
<1>4. p.type \in Type /\ TypeFromString(TypeAsString[p.type]) = p.type
  BY TypeRoundTrip DEF Packages
<1>5. /\ TypeAsString["Data"] = "data" /\ TypeAsString["Acknowledgement"] = "acknowledgement"
      /\ TypeAsString["Control"] = "control" /\ TypeAsString["Configuration"] = "configuration"
  BY DEF TypeAsString
<1>6. /\ TypeFromString("data") = "Data"
      /\ TypeFromString("acknowledgement") = "Acknowledgement"
  BY <1>5, TypeRoundTrip DEF Type
<1>7. /\ d.json.type = "data" => p.type = "Data"
      /\ d.json.type = "acknowledgement" => p.type = "Acknowledgement"
  BY <1>1, <1>4, <1>6
<1>8. p.type = "Data" => NextNode[n] # None /\ to = AddressOf(NextNode[n])
  BY DEF OutOK, PackageOK, DestinationOf, NoAddress, OutputOf
<1>9. ASSUME UseAckAgreed, p.type = "Acknowledgement" PROVE Upstream(n, to) /\ p.uid \in h[n]
  <2>1. ~(p.destination = NoAddress /\ Confirmed(h, n, p.uid))
    BY <1>9 DEF UseAckAgreed, Confirmed, IsLocalAck, HasDestination
  <2>2. Upstream(n, p.destination) /\ p.uid \in h[n]
    BY <1>9, <2>1 DEF OutOK, PackageOK
  <2>3. p.destination.host # None /\ p.destination.port # None
    BY <2>2, Addresses DEF Upstream
  <2> QED
    BY <2>2, <2>3 DEF DestinationOf
<1>10. TypeAsString[p.type] \notin Unnamed
  BY <1>4, <1>5 DEF OutOK, PackageOK, IsEmpty, Type, Unnamed
<1> HIDE DEF d, to
<1>11. OnWire(h, d)
  BY <1>1, <1>3, <1>7, <1>8, <1>9, <1>10 DEF OnWire
<1> QED
  BY <1>2, <1>11 DEF d

LEMMA ChainInvSend ==
  ASSUME ChainInv, NEW n \in Node, Send(n)
  PROVE  ChainInv'
<1> USE DEF ChainInv, threads
<1> DEFINE p == Head(outQueue[n])
           d == Datagram(n, p)
           sent == sentPackages[n]
           s == Remember(sent, p)
           new == IF p.type = "Data" THEN {p.uid} ELSE {}
<1>1. Done' = Done /\ Grows(Done, Done') /\ inQueue' = inQueue
  BY DoneSame DEF Send
<1>2. p \in Packages /\ OutOK(Done, n, p) /\ OutInv' /\ outQueue' \in [Node -> Seq(Packages)]
  BY <1>1, OutTail DEF Send
<1>3. d \in Sendings /\ OnWire(Done, d)
  BY <1>2, DatagramFacts DEF Send
<1>4. /\ sentPackages \in [Node -> Seq(Packages)] /\ sent \in Seq(Packages)
      /\ remembered \in [Node -> SUBSET Uuid] /\ network \subseteq Sendings
  BY DEF TypeOK
<1>5. /\ sentPackages' = [sentPackages EXCEPT ![n] = s]
      /\ network' = network \cup {d}
  BY DEF Send
<1>6. remembered' = [remembered EXCEPT ![n] = @ \cup new]
  BY DEF Send
<1>7. /\ s \in Seq(Packages)
      /\ \A i \in 1 .. Len(sent) : i \in 1 .. Len(s) /\ s[i] = sent[i]
      /\ p.type = "Data" => Len(s) \in 1 .. Len(s) /\ s[Len(s)] = p
  BY <1>2, <1>4 DEF Remember
<1>8. new \subseteq Uuid
  BY <1>2 DEF Packages
<1>9. \A u \in new : p.type = "Data" /\ u = p.uid
  OBVIOUS
<1> HIDE DEF p, d, s, sent, new
<1>10. TypeOK'
  BY <1>1, <1>2, <1>3, <1>4, <1>5, <1>6, <1>7, <1>8 DEF TypeOK, Send
<1>11. NetworkInv'
  BY <1>1, <1>3, <1>5 DEF NetworkInv
<1>12. NothingForgottenInv'
  <2> SUFFICES ASSUME UseAckAgreed, NEW m \in Node, NEW u \in remembered'[m]
               PROVE  Waits(m, u)' \/ (NextNode[m] # None /\ u \in Done[NextNode[m]])
    BY <1>1 DEF NothingForgottenInv, ForgottenOnlyWhenHandled
  <2>1. CASE m # n
    <3>1. sentPackages'[m] = sentPackages[m] /\ u \in remembered[m]
      BY <2>1, <1>4, <1>5, <1>6
    <3> QED
      BY <3>1 DEF NothingForgottenInv, ForgottenOnlyWhenHandled, Waits
  <2>2. CASE m = n
    <3>1. sentPackages'[n] = s /\ (u \in remembered[n] \/ u \in new)
      BY <2>2, <1>4, <1>5, <1>6
    <3>2. CASE u \in remembered[n]
      <4>1. Waits(n, u) => Waits(n, u)'
        BY <3>1, <1>7 DEF Waits, sent
      <4> QED
        BY <3>2, <2>2, <4>1 DEF NothingForgottenInv, ForgottenOnlyWhenHandled
    <3>3. CASE u \in new
      BY <3>3, <2>2, <3>1, <1>7, <1>9 DEF Waits
    <3> QED
      BY <3>1, <3>2, <3>3
  <2> QED
    BY <2>1, <2>2
<1>13. InInv' /\ HeldInv'
  BY <1>1, InKept, HeldKept DEF Send
<1> QED
  BY <1>2, <1>10, <1>11, <1>12, <1>13

-----------------------------------------------------------------------------
\* The two packages that a datagram makes, behind what is in the queue.
LEMMA ArrivalOK ==
  ASSUME NEW h, NEW n \in Node, NEW d \in Sendings, OnWire(h, d), d.to = AddressOf(n),
         NEW q \in Seq(Packages), \A i \in 1 .. Len(q) : InOK(h, n, q, i)
  PROVE  LET s == q \o Arrival(UseAck[n], Received(d))
         IN  s \in Seq(Packages) /\ \A i \in 1 .. Len(s) : InOK(h, n, s, i)
<1> DEFINE r == Received(d)
           a == AckFor(r)
           s == q \o Arrival(UseAck[n], r)
<1>1. PICK m \in Node :
        /\ d.from = [host |-> HostOf[m], port |-> SendPort]
        /\ d.json.senderListeningPort = ListeningPort[m]
        /\ d.json.type = "data" => NextNode[m] # None /\ d.to = AddressOf(NextNode[m])
        /\ UseAckAgreed /\ d.json.type = "acknowledgement" =>
             Upstream(m, d.to) /\ d.json.package \in h[m]
  BY DEF OnWire
<1>2. /\ r \in Packages /\ r.uid = d.json.package /\ r.destination = NoAddress
      /\ r.type = "Data" => d.json.type = "data"
      /\ r.type = "Acknowledgement" => d.json.type = "acknowledgement"
      /\ ~IsEmpty(r)
      /\ r.origin = SourceOf(m)
  BY <1>1, ReceivedFacts DEF OnWire, IsEmpty
<1>3. /\ a \in Packages /\ a.type = "Acknowledgement" /\ a.uid = r.uid
      /\ a.destination = r.origin
  BY <1>2, AckForType, ChainAssumption
<1>4. ASSUME UseAckAgreed, r.type = "Acknowledgement" PROVE Confirmed(h, n, r.uid)
  <2>1. PICK k \in Node : NextNode[k] = m /\ d.to = SourceOf(k)
    BY <1>1, <1>2, <1>4 DEF Upstream
  <2>2. k = n
    BY <2>1, OneAddress
  <2> QED
    BY <1>1, <1>2, <1>4, <2>1, <2>2, ChainAssumption DEF Confirmed, Upstream
<1>5. ASSUME r.type = "Data", UseAck[n] PROVE Upstream(n, a.destination)
  <2>1. NextNode[m] \in Node /\ AddressOf(NextNode[m]) = AddressOf(n)
    BY <1>1, <1>2, <1>5, ChainAssumption
  <2>2. NextNode[m] = n
    BY <2>1, OneAddress
  <2> QED
    BY <2>2, <1>2, <1>3, <1>5 DEF Upstream
<1>6. Arrival(UseAck[n], r) = IF UseAck[n] /\ r.type = "Data" THEN <<r, a>> ELSE <<r>>
  BY DEF Arrival
<1> HIDE DEF r, a
<1>7. ASSUME NEW t \in Seq(Packages), NEW i \in 1 .. Len(q)
      PROVE  InOK(h, n, q \o t, i)
  <2>1. /\ (q \o t)[i] = q[i]
        /\ \A j \in 1 .. i - 1 : (q \o t)[j] = q[j]
    OBVIOUS
  <2>2. InOK(h, n, q, i)
    OBVIOUS
  <2> HIDE DEF s
  <2> QED
    BY <2>1, <2>2 DEF InOK
<1>8. CASE UseAck[n] /\ r.type = "Data"
  <2>1. /\ s = q \o <<r, a>> /\ <<r, a>> \in Seq(Packages) /\ s \in Seq(Packages)
        /\ Len(s) = Len(q) + 2 /\ s[Len(q) + 1] = r /\ s[Len(q) + 2] = a
    BY <1>2, <1>3, <1>6, <1>8
  <2> HIDE DEF s
  <2>2. InOK(h, n, s, Len(q) + 1)
    BY <2>1, <1>2, <1>8 DEF InOK
  <2>3. Len(q) + 1 \in 1 .. (Len(q) + 2) - 1
    OBVIOUS
  <2>4. InOK(h, n, s, Len(q) + 2)
    BY <2>1, <2>3, <1>3, <1>5, <1>8 DEF InOK, IsEmpty
  <2>5. \A i \in 1 .. Len(s) : i \in 1 .. Len(q) \/ i = Len(q) + 1 \/ i = Len(q) + 2
    BY <2>1
  <2>6. \A i \in 1 .. Len(q) : InOK(h, n, s, i)
    BY <2>1, <1>7
  <2> QED
    BY <2>1, <2>2, <2>4, <2>5, <2>6 DEF s, r
<1>9. CASE ~(UseAck[n] /\ r.type = "Data")
  <2>1. /\ s = q \o <<r>> /\ <<r>> \in Seq(Packages) /\ s \in Seq(Packages)
        /\ Len(s) = Len(q) + 1 /\ s[Len(q) + 1] = r
    BY <1>2, <1>6, <1>9
  <2> HIDE DEF s
  <2>2. InOK(h, n, s, Len(q) + 1)
    BY <2>1, <1>2, <1>4 DEF InOK
  <2>3. \A i \in 1 .. Len(s) : i \in 1 .. Len(q) \/ i = Len(q) + 1
    BY <2>1
  <2>4. \A i \in 1 .. Len(q) : InOK(h, n, s, i)
    BY <2>1, <1>7
  <2> QED
    BY <2>1, <2>2, <2>3, <2>4 DEF s, r
<1> QED
  BY <1>8, <1>9

LEMMA ChainInvArrive ==
  ASSUME ChainInv, NEW n \in Node, NEW d \in network, Arrive(n, d), network' \subseteq network,
         faults' \in 0 .. MaxFaults
  PROVE  ChainInv'
<1> USE DEF ChainInv, queues, threads, history
<1> DEFINE s == inQueue[n] \o Arrival(UseAck[n], Received(d))
<1>1. Done' = Done /\ Grows(Done, Done')
  BY DoneSame DEF Arrive
<1>2. /\ inQueue \in [Node -> Seq(Packages)] /\ inQueue' = [inQueue EXCEPT ![n] = s]
      /\ d \in Sendings /\ d.to = AddressOf(n)
  BY DEF TypeOK, Arrive, Listens
<1>3. s \in Seq(Packages) /\ \A i \in 1 .. Len(s) : InOK(Done, n, s, i)
  <2>1. inQueue[n] \in Seq(Packages)
    BY <1>2
  <2>2. OnWire(Done, d) /\ \A i \in 1 .. Len(inQueue[n]) : InOK(Done, n, inQueue[n], i)
    BY DEF NetworkInv, InInv
  <2> QED
    BY <1>2, <2>1, <2>2, ArrivalOK
<1> HIDE DEF s
<1>4. InInv'
  <2>1. inQueue'[n] = s /\ \A m \in Node : m # n => inQueue'[m] = inQueue[m]
    BY <1>2
  <2> QED
    BY <2>1, <1>1, <1>3 DEF InInv
<1>5. TypeOK'
  BY <1>2, <1>3 DEF TypeOK, Arrive
<1>6. NetworkInv' /\ OutInv' /\ HeldInv' /\ NothingForgottenInv'
  BY <1>1, NetworkKept, OutKept, HeldKept, ForgottenKept DEF Arrive
<1> QED
  BY <1>4, <1>5, <1>6

\* Nothing but datagrams gets lost.
LEMMA ChainInvLost ==
  ASSUME ChainInv, network' \subseteq network, faults' \in 0 .. MaxFaults,
         UNCHANGED <<threads, queues, history>>
  PROVE  ChainInv'
<1> USE DEF ChainInv, queues, threads, history
<1>1. Grows(Done, Done')
  BY DoneSame
<1>2. TypeOK'
  BY DEF TypeOK
<1> QED
  BY <1>1, <1>2, NetworkKept, InKept, OutKept, HeldKept, ForgottenKept

\* What stop() leaves of a queue was there before.
LEMMA LeftOfFacts ==
  ASSUME NEW q \in Seq(Packages), NEW r \in LeftOf(q)
  PROVE  /\ r \in Seq(Packages)
         /\ \A i \in 1 .. Len(r) : \E j \in 1 .. Len(q) : r[i] = q[j]
<1>1. CASE Len(q) <= 1
  <2>1. r = <<>> \/ r = q
    BY <1>1 DEF LeftOf
  <2>2. CASE r = <<>>
    BY <2>2
  <2> QED
    BY <2>1, <2>2
<1>2. CASE ~(Len(q) <= 1)
  <2> DEFINE h == Head(q)
             l == Last(q)
  <2>1. /\ Len(q) \in Nat /\ Len(q) > 1 /\ h \in Packages /\ h = q[1]
        /\ 1 \in 1 .. Len(q) /\ Len(q) \in 1 .. Len(q)
    BY <1>2
  <2>2. l \in Packages /\ l = q[Len(q)]
    BY <2>1 DEF Last
  <2>3. r \in {<<>>, <<h>>, <<l>>, <<h, l>>}
    BY <1>2 DEF LeftOf
  <2> HIDE DEF h, l
  <2>4. CASE r = <<>>
    BY <2>4
  <2>5. ASSUME NEW e \in {h, l}, r = <<e>>
        PROVE  r \in Seq(Packages) /\ Len(r) = 1 /\ r[1] = e
    <3>1. e \in Packages
      BY <2>1, <2>2
    <3> QED
      BY <3>1, <2>5
  <2>6. CASE r = <<h, l>>
    <3>1. r \in Seq(Packages) /\ Len(r) = 2 /\ r[1] = h /\ r[2] = l
      BY <2>1, <2>2, <2>6
    <3>2. \A i \in 1 .. 2 : i = 1 \/ i = 2
      OBVIOUS
    <3> QED
      BY <3>1, <3>2, <2>1, <2>2
  <2>7. CASE r = <<h>> \/ r = <<l>>
    <3>1. PICK e \in {h, l} : r = <<e>>
      BY <2>7
    <3>2. r \in Seq(Packages) /\ Len(r) = 1 /\ r[1] = e
      BY <3>1, <2>5
    <3>3. \A i \in 1 .. 1 : i = 1
      OBVIOUS
    <3> QED
      BY <3>1, <3>2, <3>3, <2>1, <2>2
  <2> QED
    BY <2>3, <2>4, <2>6, <2>7
<1> QED
  BY <1>1, <1>2

\* What is left of a writer's queue when its node ends.
LEMMA DownLeaves ==
  ASSUME TypeOK, NEW n \in Node, Stop(n) \/ Crash(n)
  PROVE  \E r \in Seq(Packages) :
           /\ outQueue' = [outQueue EXCEPT ![n] = r]
           /\ \A i \in 1 .. Len(r) : \E j \in 1 .. Len(outQueue[n]) : r[i] = outQueue[n][j]
<1>1. outQueue \in [Node -> Seq(Packages)] /\ <<>> \in Seq(Packages)
  BY DEF TypeOK
<1>2. CASE Crash(n)
  <2>1. outQueue' = [outQueue EXCEPT ![n] = <<>>]
    BY <1>2 DEF Crash
  <2>2. \A i \in 1 .. Len(<<>>) : FALSE
    OBVIOUS
  <2> QED
    BY <1>1, <2>1, <2>2
<1>3. CASE Stop(n) /\ writing[n]
  <2>1. PICK r \in LeftOf(outQueue[n]) : outQueue' = [outQueue EXCEPT ![n] = r]
    BY <1>3 DEF Stop
  <2>2. outQueue[n] \in Seq(Packages)
    BY <1>1
  <2> QED
    BY <2>1, <2>2, LeftOfFacts
<1>4. CASE Stop(n) /\ ~writing[n]
  <2>1. outQueue' = outQueue
    BY <1>4 DEF Stop
  <2> QED
    BY <2>1, <1>1
<1> QED
  BY <1>2, <1>3, <1>4

\* A node that ends remembers nothing.  A crash empties the reader's queue too; a
\* stop leaves a package in the hands of a thread, and some in the writer's queue.
LEMMA ChainInvDown ==
  ASSUME ChainInv, NEW n \in Node, Stop(n) \/ Crash(n)
  PROVE  ChainInv'
<1> USE DEF ChainInv
<1>1. /\ handled' = handled /\ network' = network /\ taken' = taken /\ kept' = kept
      /\ up' = [up EXCEPT ![n] = FALSE] /\ writing' = [writing EXCEPT ![n] = FALSE]
      /\ \E b \in BOOLEAN : stopped' = [stopped EXCEPT ![n] = b]
      /\ remembered' = [remembered EXCEPT ![n] = {}]
  BY DEF Stop, Crash
<1>2. faults' \in 0 .. MaxFaults
  BY ChainAssumption DEF Stop, Crash, Fault, TypeOK
<1>3. /\ up \in [Node -> BOOLEAN] /\ writing \in [Node -> BOOLEAN]
      /\ stopped \in [Node -> BOOLEAN] /\ held \in [Node -> SUBSET Packages]
      /\ inQueue \in [Node -> Seq(Packages)] /\ outQueue \in [Node -> Seq(Packages)]
      /\ sentPackages \in [Node -> Seq(Packages)] /\ remembered \in [Node -> SUBSET Uuid]
      /\ withheld \in [Node -> SUBSET Uuid] /\ <<>> \in Seq(Packages)
  BY DEF TypeOK
<1>4. /\ Grows(Done, Done') /\ InInv' /\ HeldInv'
      /\ inQueue' \in [Node -> Seq(Packages)] /\ held' \in [Node -> SUBSET Packages]
      /\ withheld' \in [Node -> SUBSET Uuid]
  <2>1. CASE Withhold(n)
    BY <1>1, <2>1, WithholdOK
  <2>2. CASE UNCHANGED <<inQueue, held, withheld>>
    BY <1>1, <1>3, <2>2, DoneSame, InKept, HeldKept
  <2>3. CASE Crash(n)
    <3>1. /\ withheld' = withheld /\ held' = [held EXCEPT ![n] = {}]
          /\ inQueue' = [inQueue EXCEPT ![n] = <<>>]
      BY <2>3 DEF Crash
    <3>2. Done' = Done /\ Grows(Done, Done')
      BY <1>1, <3>1, DoneSame
    <3>3. /\ inQueue' \in [Node -> Seq(Packages)] /\ held' \in [Node -> SUBSET Packages]
          /\ inQueue'[n] = <<>> /\ \A m \in Node : m # n => inQueue'[m] = inQueue[m]
          /\ \A m \in Node : held'[m] \subseteq held[m]
      BY <1>3, <3>1
    <3>4. InInv'
      BY <3>2, <3>3 DEF InInv
    <3>5. HeldInv'
      BY <3>2, <3>3, HeldKept
    <3> QED
      BY <1>3, <3>1, <3>2, <3>3, <3>4, <3>5
  <2>4. Stop(n) => Withhold(n) \/ UNCHANGED <<inQueue, held, withheld>>
    BY Zenon DEF Stop
  <2> QED
    BY <2>1, <2>2, <2>3, <2>4
<1>5. PICK r \in Seq(Packages) :
        /\ outQueue' = [outQueue EXCEPT ![n] = r]
        /\ \A i \in 1 .. Len(r) : \E j \in 1 .. Len(outQueue[n]) : r[i] = outQueue[n][j]
  BY DownLeaves
<1>6. sentPackages' = sentPackages \/ sentPackages' = [sentPackages EXCEPT ![n] = <<>>]
  BY DEF Stop, Crash
<1>7. /\ up' \in [Node -> BOOLEAN] /\ writing' \in [Node -> BOOLEAN]
      /\ stopped' \in [Node -> BOOLEAN] /\ remembered' \in [Node -> SUBSET Uuid]
      /\ outQueue' \in [Node -> Seq(Packages)]
  BY <1>1, <1>3, <1>5
<1>8. sentPackages' \in [Node -> Seq(Packages)]
  BY <1>3, <1>6
<1>9. TypeOK'
  BY <1>1, <1>2, <1>4, <1>7, <1>8 DEF TypeOK
<1>10. OutInv'
  <2> SUFFICES ASSUME NEW m \in Node, NEW i \in 1 .. Len(outQueue'[m])
               PROVE  OutOK(Done', m, outQueue'[m][i])
    BY DEF OutInv
  <2>1. PICK j \in 1 .. Len(outQueue[m]) : outQueue'[m][i] = outQueue[m][j]
    BY <1>3, <1>5
  <2>2. OutOK(Done, m, outQueue[m][j])
    BY DEF OutInv
  <2> QED
    BY <1>4, <2>1, <2>2, OutOKGrows
<1>11. NothingForgottenInv'
  <2> SUFFICES ASSUME UseAckAgreed, NEW m \in Node, NEW u \in remembered'[m]
               PROVE  Waits(m, u)' \/ (NextNode[m] # None /\ u \in Done'[NextNode[m]])
    BY DEF NothingForgottenInv, ForgottenOnlyWhenHandled
  <2>1. m # n /\ u \in remembered[m]
    BY <1>1, <1>3
  <2>2. sentPackages'[m] = sentPackages[m]
    BY <1>3, <1>6, <2>1
  <2>3. Waits(m, u) \/ (NextNode[m] # None /\ u \in Done[NextNode[m]])
    BY <2>1 DEF NothingForgottenInv, ForgottenOnlyWhenHandled
  <2>4. Waits(m, u) => Waits(m, u)'
    BY <2>2 DEF Waits
  <2> QED
    BY <1>4, <2>3, <2>4, ChainAssumption DEF Grows
<1>12. NetworkInv'
  BY <1>1, <1>4, NetworkKept
<1> QED
  BY <1>4, <1>9, <1>10, <1>11, <1>12

LEMMA ChainInvSame ==
  ASSUME ChainInv, up' \in [Node -> BOOLEAN], writing' \in [Node -> BOOLEAN],
         UNCHANGED <<stopped, held, queues, network, faults, history>>
  PROVE  ChainInv'
<1> USE DEF ChainInv, queues, threads, history
<1>1. Grows(Done, Done')
  BY DoneSame
<1>2. TypeOK'
  BY DEF TypeOK
<1> QED
  BY <1>1, <1>2, NetworkKept, InKept, OutKept, HeldKept, ForgottenKept

LEMMA ChainInvNext == ChainInv /\ [Next]_vars => ChainInv'
<1> SUFFICES ASSUME ChainInv, [Next]_vars PROVE ChainInv'
  OBVIOUS
<1>1. faults \in 0 .. MaxFaults /\ up \in [Node -> BOOLEAN] /\ writing \in [Node -> BOOLEAN]
  BY DEF ChainInv, TypeOK
<1>2. ASSUME Fault PROVE faults' \in 0 .. MaxFaults
  BY <1>1, <1>2, ChainAssumption DEF Fault
<1>3. ASSUME NEW n \in Node, ReadFile(n) PROVE ChainInv'
  BY <1>3, ChainInvReadFile
<1>4. ASSUME NEW n \in Node, NodeStep(n) PROVE ChainInv'
  <2>1. ASSUME Begin(n) PROVE ChainInv'
    BY <1>1, <2>1, ChainInvSame DEF Begin
  <2> QED
    BY <1>4, <2>1, ChainInvHandle, ChainInvSettle, ChainInvSend DEF NodeStep
<1>5. ASSUME NEW n \in Node, Deliver(n) PROVE ChainInv'
  BY <1>1, <1>5, ChainInvArrive DEF Deliver
<1>6. ASSUME NEW n \in Node, Repeat(n) \/ DeliverUnnoticed(n) PROVE ChainInv'
  BY <1>2, <1>6, ChainInvArrive DEF Repeat, DeliverUnnoticed
<1>7. ASSUME NEW n \in Node, Stop(n) \/ Crash(n) PROVE ChainInv'
  BY <1>7, ChainInvDown
<1>8. ASSUME NEW n \in Node, Restart(n) PROVE ChainInv'
  BY <1>1, <1>8, ChainInvSame DEF Restart
<1>9. CASE Lose
  BY <1>2, <1>9, ChainInvLost DEF Lose
<1>10. CASE Vanish
  BY <1>1, <1>10, ChainInvLost DEF Vanish
<1>11. CASE UNCHANGED vars
  BY <1>1, <1>11, ChainInvSame DEF vars, queues, threads, history
<1>12. ASSUME NEW n \in Node, Take(n) \/ HandleHeld(n) PROVE ChainInv'
  BY <1>12, ChainInvTake, ChainInvHandleHeld
<1> QED
  BY <1>3, <1>4, <1>5, <1>6, <1>7, <1>8, <1>9, <1>10, <1>11, <1>12
  DEF Next

\* Every reachable state has the inductive invariant.
THEOREM ChainInvariance == Spec => []ChainInv
<1>1. Init => ChainInv
  BY ChainInvInit
<1>2. ChainInv /\ [Next]_vars => ChainInv'
  BY ChainInvNext
<1> QED
  BY <1>1, <1>2, PTL DEF Spec

-----------------------------------------------------------------------------
\* The variables of every chain of nodes keep their types.
THEOREM ChainTypes == Spec => []TypeOK
<1>1. ChainInv => TypeOK
  BY DEF ChainInv
<1> QED
  BY <1>1, ChainInvariance, PTL

\* Whatever gets lost, repeated or overtaken between any nodes that agree on
\* use-ack, whoever crashes or is stopped at whatever moment: data that a node has
\* sent waits for its acknowledgement, or the next node is done with it
\* (NetworkWriter::handleAcknowledgementMessages erases nothing else).
THEOREM NothingForgotten == ASSUME UseAckAgreed PROVE Spec => []ForgottenOnlyWhenHandled
<1>1. ChainInv => ForgottenOnlyWhenHandled
  BY DEF ChainInv, NothingForgottenInv
<1> QED
  BY <1>1, ChainInvariance, PTL

\* Among nodes that agree on use-ack, with readers or without, every
\* acknowledgement under way goes to where the sender of its data is taken to be,
\* and the node that it comes from is done with that data.
THEOREM AcknowledgementsComeHome == ASSUME UseAckAgreed PROVE Spec => []AcksComeHome
<1>1. ChainInv => AcksComeHome
  <2> SUFFICES ASSUME ChainInv, NEW d \in network, d.json.type = "acknowledgement"
               PROVE  \E m, n \in Node :
                        /\ d.to = SourceOf(n) /\ d.from.host = HostOf[m] /\ NextNode[n] = m
                        /\ d.json.package \in Done[m]
    BY DEF AcksComeHome
  <2>1. PICK m \in Node :
          d.from = [host |-> HostOf[m], port |-> SendPort]
          /\ Upstream(m, d.to) /\ d.json.package \in Done[m]
    BY DEF ChainInv, NetworkInv, OnWire
  <2>2. PICK n \in Node : NextNode[n] = m /\ d.to = SourceOf(n)
    BY <2>1 DEF Upstream
  <2> QED
    BY <2>1, <2>2
<1> QED
  BY <1>1, ChainInvariance, PTL

-----------------------------------------------------------------------------
(***************************************************************************)
(* Texts arrive as they were read.  The invariant says of every place in   *)
(* the chain whether the texts there are scrambled; b is that, node by     *)
(* node, for what comes to a node.                                         *)
(***************************************************************************)
\* t is the text of the package u from a file, scrambled if s says so.
Made(u, t, s) ==
  \E q \in FileData : u = q.uid /\ t = (IF s THEN Rotated[q.payload] ELSE q.payload)

\* Nothing but data and acknowledgements goes through a chain.
Carries(p, s) ==
  /\ p.type \in {"Data", "Acknowledgement"}
  /\ p.type = "Data" => Made(p.uid, p.payload, s)

CarriesTo(b, d) ==
  /\ d.json.type \in {"data", "acknowledgement"}
  /\ d.json.type = "data" =>
       \A n \in Node : d.to = AddressOf(n) => Made(d.json.package, d.json.payload, b[n])

TextIn(b) == \A n \in Node : \A i \in 1 .. Len(inQueue[n]) : Carries(inQueue[n][i], b[n])
TextOut(b) ==
  \A n \in Node : \A i \in 1 .. Len(outQueue[n]) : Carries(outQueue[n][i], b[NextNode[n]])
TextOnWire(b) == \A d \in network : CarriesTo(b, d)
TextHeld(b) == \A n \in Node : \A p \in held[n] : Carries(p, b[n])
TextInv(b) == TextIn(b) /\ TextOut(b) /\ TextOnWire(b) /\ TextHeld(b) /\ PlainText

\* The handlers fit what b says, and the files hold texts.
Fits(b) ==
  /\ b \in [Node -> BOOLEAN] /\ UndoneBy(b)
  /\ \A q \in FileData : q.payload \in Text

\* What is made of a file's text is a text, and encrypting turns it over.
LEMMA MadeTurns ==
  ASSUME \A q \in FileData : q.payload \in Text,
         NEW p \in Packages, p.type = "Data", NEW s \in BOOLEAN, Made(p.uid, p.payload, s)
  PROVE  p.payload \in Text /\ Made(p.uid, Encrypted(p).payload, ~s)
<1>1. PICK q \in FileData :
        p.uid = q.uid /\ p.payload = (IF s THEN Rotated[q.payload] ELSE q.payload)
  BY DEF Made
<1>2. /\ q.payload \in Text /\ Rotated[q.payload] \in Text
      /\ Rotated[Rotated[q.payload]] = q.payload
  BY HandlersAssumption
<1>3. p.payload \in Text
  BY <1>1, <1>2
<1>4. Encrypted(p).payload = Rotated[p.payload]
  <2>1. CASE p.payload # NoText
    BY <2>1, <1>3 DEF Encrypted, PayloadString, Packages
  <2>2. CASE p.payload = NoText
    BY <2>2, <1>3, HandlersAssumption DEF Encrypted, PayloadString
  <2> QED
    BY <2>1, <2>2
<1>5. Rotated[p.payload] = (IF ~s THEN Rotated[q.payload] ELSE q.payload)
  BY <1>1, <1>2
<1> QED
  BY <1>1, <1>3, <1>4, <1>5 DEF Made

\* As a handler of the node n sees it, or the next node.
LEMMA MadeAtHandler ==
  ASSUME \A q \in FileData : q.payload \in Text, NEW n \in Node,
         NEW p \in Packages, p.type = "Data", NEW s \in BOOLEAN, Made(p.uid, p.payload, s),
         NEW from, NEW i
  PROVE  Made(p.uid, Offered(HandlersOf(n), from, i, p).payload, s # Turned(n, from, i))
<1>1. CASE Turned(n, from, i)
  <2>1. Offered(HandlersOf(n), from, i, p) = Encrypted(p)
    BY <1>1 DEF Turned, Offered
  <2>2. (s # Turned(n, from, i)) = ~s
    BY <1>1 DEF Turned, Odd
  <2> QED
    BY <2>1, <2>2, MadeTurns
<1>2. CASE ~Turned(n, from, i)
  <2>1. Offered(HandlersOf(n), from, i, p) = p
    BY <1>2 DEF Turned, Offered
  <2>2. (s # Turned(n, from, i)) = s
    BY <1>2 DEF Turned, Odd
  <2> QED
    BY <2>1, <2>2
<1> QED
  BY <1>1, <1>2

\* Data ends at a keeping handler or goes on; what is sent on is the data itself.
LEMMA DataPassed ==
  ASSUME NEW p \in Packages, p.type = "Data", NEW n \in Node, NEW from \in Nat
  PROVE  LET hs == HandlersOf(n)
         IN  /\ \/ Passed(hs, from, p) = <<>>
                \/ Passed(hs, from, p) = <<Offered(hs, from, Len(hs) + 1, p)>>
             /\ \A k \in KeptOf(hs, from, p) :
                  \E i \in from .. Len(hs) :
                    hs[i] = "keeper" /\ k = Offered(hs, from, i, p)
<1> DEFINE hs == HandlersOf(n)
           keepers == Keepers(hs, from, p)
           i == Keeper(hs, from, p)
<1>1. CASE keepers = {}
  BY <1>1 DEF Passed, KeptOf
<1>2. CASE keepers # {}
  <2>1. i \in keepers
    <3>1. Len(hs) \in Nat
      BY ChainAssumption DEF HandlersOf, WithOwn
    <3>2. keepers \in SUBSET Nat
      BY <3>1 DEF Keepers
    <3>3. \E k \in keepers : \A j \in keepers : k <= j
      BY <1>2, <3>2, FirstOfSet
    <3> QED
      BY <3>3 DEF Keeper
  <2> DEFINE o == Offered(hs, from, i, p)
  <2>2. i \in from .. Len(hs) /\ Keeps(hs[i], o)
    BY <2>1 DEF Keepers
  <2>3. o.type = "Data"
    BY OfferedType
  <2>4. hs[i] = "keeper"
    BY <2>2, <2>3 DEF Keeps, IsControl
  <2>5. Passed(hs, from, p) = SentBy(hs[i], o)
    BY <1>2 DEF Passed
  <2>6. Passed(hs, from, p) = <<>>
    BY <2>4, <2>5 DEF SentBy
  <2>7. KeptOf(hs, from, p) \subseteq {o}
    BY DEF KeptOf
  <2> QED
    BY <2>2, <2>4, <2>6, <2>7
<1> QED
  BY <1>1, <1>2

\* What comes out of a list of handlers is scrambled as the next node expects it,
\* and what its keeping handlers get is plain.
LEMMA TextPassed ==
  ASSUME NEW b, Fits(b), NEW n \in Node, NEW p \in Packages, p.type = "Data",
         NEW from \in Nat, NEW s \in BOOLEAN, ComesOut(b, n, from, s),
         Made(p.uid, p.payload, s)
  PROVE  /\ Passed(HandlersOf(n), from, p) # <<>> /\ NextNode[n] # None =>
              Carries(Head(Passed(HandlersOf(n), from, p)), b[NextNode[n]])
         /\ \A k \in KeptOf(HandlersOf(n), from, p) : Made(k.uid, k.payload, FALSE)
<1> DEFINE hs == HandlersOf(n)
<1>1. \A i : /\ Made(p.uid, Offered(hs, from, i, p).payload, s # Turned(n, from, i))
             /\ Offered(hs, from, i, p).uid = p.uid /\ Offered(hs, from, i, p).type = "Data"
  BY MadeAtHandler, OfferedType DEF Fits
<1>2. ASSUME Passed(hs, from, p) # <<>>, NextNode[n] # None
      PROVE  Carries(Head(Passed(hs, from, p)), b[NextNode[n]])
  <2> DEFINE o == Offered(hs, from, Len(hs) + 1, p)
  <2>1. Passed(hs, from, p) = <<o>>
    BY <1>2, DataPassed
  <2>2. b[NextNode[n]] = (s # Turned(n, from, Len(hs) + 1))
    BY <1>2 DEF ComesOut
  <2>3. Made(o.uid, o.payload, b[NextNode[n]]) /\ o.type = "Data"
    BY <1>1, <2>2
  <2>4. Head(Passed(hs, from, p)) = o
    BY <2>1
  <2> QED
    BY <2>3, <2>4 DEF Carries
<1>3. ASSUME NEW k \in KeptOf(hs, from, p) PROVE Made(k.uid, k.payload, FALSE)
  <2>1. PICK i \in from .. Len(hs) : hs[i] = "keeper" /\ k = Offered(hs, from, i, p)
    BY DataPassed
  <2>2. s = Turned(n, from, i)
    BY <2>1 DEF ComesOut
  <2>3. (s # Turned(n, from, i)) = FALSE
    BY <2>2
  <2> QED
    BY <1>1, <2>1, <2>3
<1> QED
  BY <1>2, <1>3

LEMMA KeptPlain ==
  ASSUME PlainText, NEW new, kept' = kept \cup new, \A k \in new : Made(k.uid, k.payload, FALSE)
  PROVE  PlainText'
<1>1. \A k \in kept : \E q \in FileData : k.uid = q.uid /\ k.payload = q.payload
  BY DEF PlainText, SamePackage
<1>2. \A k \in new : \E q \in FileData : k.uid = q.uid /\ k.payload = q.payload
  BY DEF Made
<1> QED
  BY <1>1, <1>2 DEF PlainText, SamePackage

\* What sendData() gives to a writer carries text as the next node expects it.
LEMMA TextSent ==
  ASSUME NEW b, TypeOK, TextOut(b), NEW n \in Node, NEW ps \in Seq(Packages), sendData(n, ps),
         ps # <<>> /\ Accepts(n, Head(ps)) => Carries(Head(ps), b[NextNode[n]])
  PROVE  TextOut(b)'
<1>1. outQueue \in [Node -> Seq(Packages)]
  BY DEF TypeOK
<1>2. CASE ~(ps # <<>> /\ Accepts(n, Head(ps)) /\ writing[n])
  <2>1. outQueue' = outQueue
    BY <1>2 DEF sendData
  <2> QED
    BY <2>1 DEF TextOut
<1>3. CASE ps # <<>> /\ Accepts(n, Head(ps)) /\ writing[n]
  <2> DEFINE q == WithOrigin(n, Head(ps))
  <2>1. /\ q \in Packages /\ q.uid = Head(ps).uid /\ q.type = Head(ps).type
        /\ q.payload = Head(ps).payload
    <3>1. Head(ps) \in Packages
      BY <1>3
    <3>2. [host |-> None, port |-> ListeningPort[n]] \in Address
      BY ChainAssumption DEF Address
    <3> QED
      BY <3>1, <3>2 DEF WithOrigin, Packages
  <2>2. Carries(q, b[NextNode[n]])
    BY <1>3, <2>1 DEF Carries
  <2>3. outQueue' = [outQueue EXCEPT ![n] = Append(outQueue[n], q)]
    BY <1>3 DEF sendData
  <2> HIDE DEF q
  <2>4. ASSUME NEW m \in Node, NEW i \in 1 .. Len(outQueue'[m])
        PROVE  Carries(outQueue'[m][i], b[NextNode[m]])
    <3>1. CASE m = n
      <4>1. outQueue'[m] = Append(outQueue[n], q) /\ outQueue[n] \in Seq(Packages)
        BY <1>1, <2>3, <3>1
      <4>2. outQueue'[m][i] = q \/ (i \in 1 .. Len(outQueue[n]) /\ outQueue'[m][i] = outQueue[n][i])
        BY <4>1, <2>1
      <4> QED
        BY <4>2, <2>2, <3>1 DEF TextOut
    <3>2. CASE m # n
      BY <3>2, <1>1, <2>3 DEF TextOut
    <3> QED
      BY <3>1, <3>2
  <2> QED
    BY <2>4 DEF TextOut
<1> QED
  BY <1>2, <1>3

\* When the head of a writer's queue is taken.
LEMMA TextOutTail ==
  ASSUME NEW b, TypeOK, TextOut(b), NEW n \in Node, outQueue[n] # <<>>,
         outQueue' = [outQueue EXCEPT ![n] = Tail(@)]
  PROVE  Carries(Head(outQueue[n]), b[NextNode[n]]) /\ TextOut(b)'
<1> DEFINE q == outQueue[n]
<1>1. q \in Seq(Packages) /\ q # <<>> /\ outQueue \in [Node -> Seq(Packages)]
  BY DEF TypeOK
<1>2. Head(q) = q[1] /\ 1 \in 1 .. Len(q)
  BY <1>1
<1>3. ASSUME NEW m \in Node, NEW i \in 1 .. Len(outQueue'[m])
      PROVE  Carries(outQueue'[m][i], b[NextNode[m]])
  <2>1. CASE m = n
    <3>1. outQueue'[m] = Tail(q)
      BY <1>1, <2>1
    <3>2. i + 1 \in 1 .. Len(q) /\ Tail(q)[i] = q[i + 1]
      BY <1>1, <1>3, <3>1
    <3> QED
      BY <2>1, <3>1, <3>2 DEF TextOut
  <2>2. CASE m # n
    BY <2>2, <1>1, <1>3 DEF TextOut
  <2> QED
    BY <2>1, <2>2
<1> QED
  BY <1>2, <1>3 DEF TextOut

LEMMA TextReadFile ==
  ASSUME NEW b, Fits(b), ChainInv, TextInv(b), NEW n \in Node, ReadFile(n)
  PROVE  TextInv(b)'
<1> DEFINE hs == HandlersOf(n)
<1>1. PICK i \in 1 .. Len(hs), p \in FileData \ taken :
        /\ hs[i] = "file" /\ sendData(n, passToNextHandlers(hs, i, p))
        /\ kept' = kept \cup KeptOf(hs, i + 1, p)
  BY DEF ReadFile
<1>2. p \in Packages /\ p.type = "Data" /\ Made(p.uid, p.payload, FALSE)
  BY ChainAssumption DEF Made
<1>3. ASSUME i < Len(hs)
      PROVE  /\ Passed(hs, i + 1, p) # <<>> /\ NextNode[n] # None =>
                  Carries(Head(Passed(hs, i + 1, p)), b[NextNode[n]])
             /\ \A k \in KeptOf(hs, i + 1, p) : Made(k.uid, k.payload, FALSE)
  <2>1. Len(hs) \in Nat
    BY ChainAssumption DEF HandlersOf, WithOwn
  <2>2. i \in 1 .. Len(hs) - 1 /\ i + 1 \in Nat
    BY <1>3, <2>1
  <2>3. ComesOut(b, n, i + 1, FALSE)
    BY <1>1, <2>2 DEF Fits, UndoneBy
  <2> QED
    BY <1>2, <2>2, <2>3, TextPassed
<1> DEFINE ps == passToNextHandlers(hs, i, p)
<1>4. ps \in Seq(Packages)
  BY <1>2, PassedFacts DEF passToNextHandlers
<1>5. ps # <<>> /\ NextNode[n] # None => Carries(Head(ps), b[NextNode[n]])
  BY <1>3 DEF passToNextHandlers
<1>6. \A k \in KeptOf(hs, i + 1, p) : Made(k.uid, k.payload, FALSE)
  <2>1. CASE i < Len(hs)
    BY <2>1, <1>3
  <2>2. CASE ~(i < Len(hs))
    <3>1. KeptOf(hs, i + 1, p) = {}
      <4>1. Len(hs) \in Nat
        BY ChainAssumption DEF HandlersOf, WithOwn
      <4>2. (i + 1) .. Len(hs) = {}
        BY <2>2, <4>1
      <4>3. Keepers(hs, i + 1, p) = {}
        BY <4>2 DEF Keepers
      <4> QED
        BY <4>3 DEF KeptOf
    <3> QED
      BY <3>1
  <2> QED
    BY <2>1, <2>2
<1>7. ps # <<>> => Head(ps).type = "Data"
  <2>1. passToNextHandlers(hs, i, p) # <<>> =>
          Head(passToNextHandlers(hs, i, p)).type = "Data"
    <3>1. \A j : Offered(hs, i + 1, j, p).type = "Data"
      BY <1>2, OfferedType
    <3>2. i + 1 \in Nat
      OBVIOUS
    <3> QED
      BY <1>2, <3>1, <3>2, DataPassed DEF passToNextHandlers
  <2> QED
    BY <2>1
<1> HIDE DEF ps, hs
<1>8. sendData(n, ps)
  BY <1>1 DEF ps
<1>9. TextOut(b)'
  <2>1. ps # <<>> /\ Accepts(n, Head(ps)) => NextNode[n] # None
    BY <1>7 DEF Accepts
  <2> QED
    BY <1>4, <1>5, <1>8, <2>1, TextSent DEF ChainInv, TextInv
<1>10. PlainText'
  BY <1>1, <1>6, KeptPlain DEF TextInv
<1>11. TextIn(b)' /\ TextOnWire(b)' /\ TextHeld(b)'
  BY DEF ReadFile, TextInv, TextIn, TextOnWire, TextHeld, threads
<1> QED
  BY <1>9, <1>10, <1>11 DEF TextInv

\* When the head of a reader's queue is taken.
LEMMA TextInTail ==
  ASSUME NEW b, TypeOK, TextIn(b), NEW n \in Node, inQueue[n] # <<>>,
         inQueue' = [inQueue EXCEPT ![n] = Tail(@)]
  PROVE  /\ Head(inQueue[n]) \in Packages /\ Carries(Head(inQueue[n]), b[n])
         /\ TextIn(b)'
<1> DEFINE q == inQueue[n]
<1>1. q \in Seq(Packages) /\ q # <<>> /\ inQueue \in [Node -> Seq(Packages)]
  BY DEF TypeOK
<1>2. Head(q) = q[1] /\ 1 \in 1 .. Len(q) /\ Head(q) \in Packages
  BY <1>1
<1>3. ASSUME NEW m \in Node, NEW i \in 1 .. Len(inQueue'[m])
      PROVE  Carries(inQueue'[m][i], b[m])
  <2>1. CASE m = n
    <3>1. inQueue'[m] = Tail(q)
      BY <1>1, <2>1
    <3>2. i + 1 \in 1 .. Len(q) /\ Tail(q)[i] = q[i + 1]
      BY <1>1, <1>3, <3>1
    <3> QED
      BY <2>1, <3>1, <3>2 DEF TextIn
  <2>2. CASE m # n
    BY <2>2, <1>1, <1>3 DEF TextIn
  <2> QED
    BY <2>1, <2>2
<1> QED
  BY <1>2, <1>3 DEF TextIn

LEMMA TextHandlePackage ==
  ASSUME NEW b, Fits(b), ChainInv, TextInv(b), NEW n \in Node, NEW p \in Packages,
         Carries(p, b[n]), HandlePackage(n, p)
  PROVE  TextOut(b)' /\ TextOnWire(b)' /\ PlainText'
<1> DEFINE hs == HandlersOf(n)
<1>1. b[n] \in BOOLEAN /\ ComesOut(b, n, 1, b[n])
  BY DEF Fits, UndoneBy
<1>2. TextOnWire(b)'
  BY DEF TextInv, TextOnWire, HandlePackage
<1>3. CASE p.type = "Acknowledgement"
  <2> DEFINE ps == <<p>>
  <2>1. sendData(n, ps) /\ kept' = kept
    BY <1>3 DEF HandlePackage
  <2>2. ps \in Seq(Packages) /\ Head(ps) = p
    OBVIOUS
  <2>3. Carries(p, b[NextNode[n]])
    BY <1>3 DEF Carries
  <2> HIDE DEF ps
  <2>4. TextOut(b)'
    BY <2>1, <2>2, <2>3, TextSent DEF ChainInv, TextInv
  <2>5. PlainText'
    BY <2>1 DEF TextInv, PlainText
  <2> QED
    BY <1>2, <2>4, <2>5
<1>4. CASE p.type = "Data"
  <2> DEFINE ps == Passed(hs, 1, p)
  <2>1. sendData(n, ps) /\ kept' = kept \cup KeptOf(hs, 1, p)
    BY <1>4 DEF HandlePackage, passToHandlers
  <2>2. Made(p.uid, p.payload, b[n])
    BY <1>4 DEF Carries
  <2>3. /\ ps # <<>> /\ NextNode[n] # None => Carries(Head(ps), b[NextNode[n]])
        /\ \A k \in KeptOf(hs, 1, p) : Made(k.uid, k.payload, FALSE)
    BY <1>1, <1>4, <2>2, TextPassed
  <2>4. ps \in Seq(Packages)
    BY PassedFacts
  <2>5. ps # <<>> => Head(ps).type = "Data"
    <3>1. \A j : Offered(hs, 1, j, p).type = "Data"
      BY <1>4, OfferedType
    <3> QED
      BY <1>4, <3>1, DataPassed
  <2> HIDE DEF ps, hs
  <2>6. ps # <<>> /\ Accepts(n, Head(ps)) => NextNode[n] # None
    BY <2>5 DEF Accepts
  <2>7. TextOut(b)'
    BY <2>1, <2>3, <2>4, <2>6, TextSent DEF ChainInv, TextInv
  <2>8. PlainText'
    BY <2>1, <2>3, KeptPlain DEF TextInv
  <2> QED
    BY <1>2, <2>7, <2>8
<1> QED
  BY <1>3, <1>4 DEF Carries

LEMMA TextHandle ==
  ASSUME NEW b, Fits(b), ChainInv, TextInv(b), NEW n \in Node, Handle(n)
  PROVE  TextInv(b)'
<1> DEFINE p == Head(inQueue[n])
<1>1. p \in Packages /\ Carries(p, b[n]) /\ TextIn(b)'
  BY TextInTail DEF ChainInv, TextInv, Handle
<1>2. HandlePackage(n, p)
  BY DEF Handle
<1> HIDE DEF p
<1>3. TextOut(b)' /\ TextOnWire(b)' /\ PlainText'
  BY <1>1, <1>2, TextHandlePackage
<1>4. TextHeld(b)'
  BY DEF TextInv, TextHeld, Handle
<1> QED
  BY <1>1, <1>3, <1>4 DEF TextInv

LEMMA TextHandleHeld ==
  ASSUME NEW b, Fits(b), ChainInv, TextInv(b), NEW n \in Node, HandleHeld(n)
  PROVE  TextInv(b)'
<1>1. PICK p \in held[n] : HandlePackage(n, p) /\ held' = [held EXCEPT ![n] = @ \ {p}]
  BY DEF HandleHeld
<1>2. held \in [Node -> SUBSET Packages]
  BY DEF ChainInv, TypeOK
<1>3. p \in Packages /\ Carries(p, b[n])
  BY <1>1, <1>2 DEF TextInv, TextHeld
<1>4. TextOut(b)' /\ TextOnWire(b)' /\ PlainText'
  BY <1>1, <1>3, TextHandlePackage
<1>5. \A m \in Node : held'[m] \subseteq held[m]
  BY <1>1, <1>2
<1>6. TextHeld(b)' /\ TextIn(b)'
  BY <1>5 DEF TextInv, TextHeld, TextIn, HandleHeld
<1> QED
  BY <1>4, <1>6 DEF TextInv

LEMMA TextWithhold ==
  ASSUME NEW b, ChainInv, TextInv(b), NEW n \in Node, Withhold(n)
  PROVE  TextIn(b)' /\ TextHeld(b)'
<1> DEFINE p == Head(inQueue[n])
<1>1. Carries(p, b[n]) /\ TextIn(b)'
  BY TextInTail DEF ChainInv, TextInv, Withhold
<1>2. held' = [held EXCEPT ![n] = held[n] \cup {p}] /\ held \in [Node -> SUBSET Packages]
  BY DEF Withhold, ChainInv, TypeOK
<1> HIDE DEF p
<1>3. ASSUME NEW m \in Node, NEW r \in held'[m] PROVE Carries(r, b[m])
  <2>1. r \in held[m] \/ (m = n /\ r = p)
    BY <1>2, <1>3
  <2> QED
    BY <2>1, <1>1 DEF TextInv, TextHeld
<1> QED
  BY <1>1, <1>3 DEF TextHeld

LEMMA TextTake ==
  ASSUME NEW b, ChainInv, TextInv(b), NEW n \in Node, Take(n)
  PROVE  TextInv(b)'
<1>1. TextIn(b)' /\ TextHeld(b)'
  BY TextWithhold DEF Take
<1>2. TextOut(b)' /\ TextOnWire(b)' /\ PlainText'
  BY DEF TextInv, TextOut, TextOnWire, PlainText, Take
<1> QED
  BY <1>1, <1>2 DEF TextInv

LEMMA TextSettle ==
  ASSUME NEW b, ChainInv, TextInv(b), NEW n \in Node, Settle(n)
  PROVE  TextInv(b)'
<1>1. TextOut(b)'
  BY TextOutTail DEF ChainInv, TextInv, Settle
<1>2. TextIn(b)' /\ TextOnWire(b)' /\ TextHeld(b)' /\ PlainText'
  BY DEF TextInv, TextIn, TextOnWire, TextHeld, PlainText, Settle, threads, history
<1> QED
  BY <1>1, <1>2 DEF TextInv

LEMMA TextSend ==
  ASSUME NEW b, Fits(b), ChainInv, TextInv(b), NEW n \in Node, Send(n)
  PROVE  TextInv(b)'
<1> DEFINE p == Head(outQueue[n])
           d == Datagram(n, p)
<1>1. TextOut(b)' /\ Carries(p, b[NextNode[n]])
  BY TextOutTail DEF ChainInv, TextInv, Send
<1>2. p \in Packages /\ OutOK(Done, n, p)
  <2>1. p = outQueue[n][1] /\ 1 \in 1 .. Len(outQueue[n]) /\ p \in Packages
    BY DEF ChainInv, TypeOK, Send
  <2> QED
    BY <2>1 DEF ChainInv, OutInv
<1>3. network' = network \cup {d}
  BY DEF Send
<1>4. CarriesTo(b, d)
  <2>1. /\ d.to = DestinationOf(OutputOf(n), p) /\ d.json.type = TypeAsString[p.type]
        /\ d.json.package = p.uid /\ d.json.payload = PayloadString(p)
    BY DEF Datagram, ToJson
  <2> HIDE DEF d, p
  <2>2. TypeAsString["Data"] = "data" /\ TypeAsString["Acknowledgement"] = "acknowledgement"
    BY DEF TypeAsString
  <2>3. CASE p.type = "Acknowledgement"
    BY <2>1, <2>2, <2>3 DEF CarriesTo
  <2>4. CASE p.type = "Data"
    <3>1. NextNode[n] \in Node /\ d.to = AddressOf(NextNode[n])
      BY <1>2, <2>1, <2>4, ChainAssumption DEF OutOK, PackageOK, DestinationOf, NoAddress,
         OutputOf
    <3>2. Made(p.uid, p.payload, b[NextNode[n]]) /\ b[NextNode[n]] \in BOOLEAN
      BY <1>1, <2>4, <3>1 DEF Carries, Fits
    <3>3. d.json.payload = p.payload
      <4>1. p.payload \in Text
        BY <1>2, <2>4, <3>2, MadeTurns DEF Fits
      <4> QED
        BY <2>1, <4>1 DEF PayloadString
    <3>4. \A m \in Node : d.to = AddressOf(m) => m = NextNode[n]
      BY <3>1, OneAddress
    <3> QED
      BY <2>1, <2>2, <2>4, <3>2, <3>3, <3>4 DEF CarriesTo
  <2> QED
    BY <1>1, <2>3, <2>4 DEF Carries
<1> HIDE DEF d
<1>5. TextOnWire(b)'
  BY <1>3, <1>4 DEF TextInv, TextOnWire
<1>6. TextIn(b)' /\ TextHeld(b)' /\ PlainText'
  BY DEF TextInv, TextIn, TextHeld, PlainText, Send, threads
<1> QED
  BY <1>1, <1>5, <1>6 DEF TextInv

LEMMA TextArrive ==
  ASSUME NEW b, ChainInv, TextInv(b), NEW n \in Node, NEW d \in network, Arrive(n, d),
         network' \subseteq network
  PROVE  TextInv(b)'
<1> DEFINE r == Received(d)
           a == AckFor(r)
           arrival == Arrival(UseAck[n], r)
<1>1. /\ inQueue \in [Node -> Seq(Packages)] /\ d \in Sendings /\ d.to = AddressOf(n)
      /\ inQueue' = [inQueue EXCEPT ![n] = inQueue[n] \o arrival]
  BY DEF ChainInv, TypeOK, Arrive, Listens
<1>2. CarriesTo(b, d)
  BY DEF TextInv, TextOnWire
<1>3. r.uid = d.json.package /\ r.payload = d.json.payload /\ r \in Packages
  <2>1. r = [FromJson(d.json) EXCEPT !.origin = OriginOf(d)]
    BY DEF Received
  <2>2. r.payload = d.json.payload
    BY <2>1 DEF FromJson
  <2> QED
    BY <1>1, <2>2, ReceivedFacts
<1>4. /\ d.json.type = "data" => r.type = "Data"
      /\ d.json.type = "acknowledgement" => r.type = "Acknowledgement"
  <2>1. r.type = TypeFromString(d.json.type)
    BY <1>1, ReceivedType DEF Sendings
  <2>2. TypeAsString["Data"] = "data" /\ TypeAsString["Acknowledgement"] = "acknowledgement"
    BY DEF TypeAsString
  <2>3. /\ TypeFromString("data") = "Data"
        /\ TypeFromString("acknowledgement") = "Acknowledgement"
    BY <2>2, TypeRoundTrip DEF Type
  <2> QED
    BY <2>1, <2>3
<1>5. Carries(r, b[n])
  BY <1>1, <1>2, <1>3, <1>4 DEF CarriesTo, Carries
<1>6. a \in Packages /\ Carries(a, b[n])
  BY <1>3, AckForType, ChainAssumption DEF Carries
<1>7. arrival \in Seq(Packages) /\ \A i \in 1 .. Len(arrival) : Carries(arrival[i], b[n])
  <2>1. arrival = <<r, a>> \/ arrival = <<r>>
    BY DEF Arrival
  <2>2. /\ <<r, a>> \in Seq(Packages) /\ Len(<<r, a>>) = 2
        /\ <<r, a>>[1] = r /\ <<r, a>>[2] = a
        /\ <<r>> \in Seq(Packages) /\ Len(<<r>>) = 1 /\ <<r>>[1] = r
    <3> HIDE DEF r, a
    <3> QED
      BY <1>3, <1>6
  <2> HIDE DEF arrival, r, a
  <2>3. CASE arrival = <<r, a>>
    <3>1. \A i \in 1 .. Len(arrival) : i = 1 \/ i = 2
      BY <2>2, <2>3
    <3> QED
      BY <2>2, <2>3, <3>1, <1>5, <1>6
  <2>4. CASE arrival = <<r>>
    <3>1. \A i \in 1 .. Len(arrival) : i = 1
      BY <2>2, <2>4
    <3> QED
      BY <2>2, <2>4, <3>1, <1>5
  <2> QED
    BY <2>1, <2>3, <2>4
<1> HIDE DEF arrival
<1>8. TextIn(b)'
  <2>1. ASSUME NEW m \in Node, NEW i \in 1 .. Len(inQueue'[m])
        PROVE  Carries(inQueue'[m][i], b[m])
    <3>1. CASE m = n
      <4>1. inQueue'[m] = inQueue[n] \o arrival /\ inQueue[n] \in Seq(Packages)
        BY <1>1, <3>1
      <4>2. \/ i \in 1 .. Len(inQueue[n]) /\ inQueue'[m][i] = inQueue[n][i]
            \/ /\ i - Len(inQueue[n]) \in 1 .. Len(arrival)
               /\ inQueue'[m][i] = arrival[i - Len(inQueue[n])]
        BY <1>7, <2>1, <4>1
      <4> QED
        BY <4>2, <1>7, <3>1 DEF TextInv, TextIn
    <3>2. CASE m # n
      BY <3>2, <1>1, <2>1 DEF TextInv, TextIn
    <3> QED
      BY <3>1, <3>2
  <2> QED
    BY <2>1 DEF TextIn
<1>9. TextOut(b)' /\ TextOnWire(b)' /\ TextHeld(b)' /\ PlainText'
  BY DEF TextInv, TextOut, TextOnWire, TextHeld, PlainText, Arrive, threads, history
<1> QED
  BY <1>8, <1>9 DEF TextInv

\* Datagrams that go away leave the rest as it was.
LEMMA TextLess ==
  ASSUME NEW b, TextInv(b), network' \subseteq network,
         UNCHANGED <<inQueue, outQueue, held, kept>>
  PROVE  TextInv(b)'
  BY DEF TextInv, TextIn, TextOut, TextOnWire, TextHeld, PlainText

LEMMA TextDown ==
  ASSUME NEW b, ChainInv, TextInv(b), NEW n \in Node, Stop(n) \/ Crash(n)
  PROVE  TextInv(b)'
<1>1. /\ inQueue \in [Node -> Seq(Packages)] /\ outQueue \in [Node -> Seq(Packages)]
      /\ held \in [Node -> SUBSET Packages]
  BY DEF ChainInv, TypeOK
<1>2. TextIn(b)' /\ TextHeld(b)'
  <2>1. CASE Withhold(n)
    BY <2>1, TextWithhold
  <2>2. CASE UNCHANGED <<inQueue, held, withheld>>
    BY <2>2 DEF TextInv, TextIn, TextHeld
  <2>3. CASE Crash(n)
    <3>1. inQueue' = [inQueue EXCEPT ![n] = <<>>] /\ held' = [held EXCEPT ![n] = {}]
      BY <2>3 DEF Crash
    <3>2. \A m \in Node : /\ held'[m] \subseteq held[m]
                          /\ inQueue'[m] = <<>> \/ inQueue'[m] = inQueue[m]
      BY <1>1, <3>1
    <3>3. TextIn(b)'
      <4>1. \A i \in 1 .. Len(<<>>) : FALSE
        OBVIOUS
      <4> QED
        BY <3>2, <4>1 DEF TextInv, TextIn
    <3> QED
      BY <3>2, <3>3 DEF TextInv, TextHeld
  <2>4. Stop(n) => Withhold(n) \/ UNCHANGED <<inQueue, held, withheld>>
    BY Zenon DEF Stop
  <2> QED
    BY <2>1, <2>2, <2>3, <2>4
<1>3. TextOut(b)'
  <2>1. PICK r \in Seq(Packages) :
          /\ outQueue' = [outQueue EXCEPT ![n] = r]
          /\ \A i \in 1 .. Len(r) : \E j \in 1 .. Len(outQueue[n]) : r[i] = outQueue[n][j]
    BY DownLeaves DEF ChainInv
  <2> SUFFICES ASSUME NEW m \in Node, NEW i \in 1 .. Len(outQueue'[m])
               PROVE  Carries(outQueue'[m][i], b[NextNode[m]])
    BY DEF TextOut
  <2>2. PICK j \in 1 .. Len(outQueue[m]) : outQueue'[m][i] = outQueue[m][j]
    BY <1>1, <2>1
  <2> QED
    BY <2>2 DEF TextInv, TextOut
<1>4. TextOnWire(b)' /\ PlainText'
  BY DEF TextInv, TextOnWire, PlainText, Stop, Crash
<1> QED
  BY <1>2, <1>3, <1>4 DEF TextInv

LEMMA TextNext ==
  ASSUME NEW b, Fits(b), ChainInv, TextInv(b), [Next]_vars
  PROVE  TextInv(b)'
<1>1. ASSUME NEW n \in Node, ReadFile(n) PROVE TextInv(b)'
  BY <1>1, TextReadFile
<1>2. ASSUME NEW n \in Node, NodeStep(n) PROVE TextInv(b)'
  <2>1. ASSUME Begin(n) PROVE TextInv(b)'
    BY <2>1, TextLess DEF Begin, queues, history
  <2> QED
    BY <1>2, <2>1, TextHandle, TextSettle, TextSend DEF NodeStep
<1>3. ASSUME NEW n \in Node, Take(n) \/ HandleHeld(n) PROVE TextInv(b)'
  BY <1>3, TextTake, TextHandleHeld
<1>4. ASSUME NEW n \in Node, Deliver(n) \/ DeliverUnnoticed(n) \/ Repeat(n) PROVE TextInv(b)'
  BY <1>4, TextArrive DEF Deliver, DeliverUnnoticed, Repeat
<1>5. ASSUME NEW n \in Node, Stop(n) \/ Crash(n) PROVE TextInv(b)'
  BY <1>5, TextDown
<1>6. ASSUME NEW n \in Node, Restart(n) PROVE TextInv(b)'
  BY <1>6, TextLess DEF Restart, queues, history
<1>7. CASE Lose \/ Vanish \/ UNCHANGED vars
  <2>1. network' \subseteq network /\ UNCHANGED <<inQueue, outQueue, held, kept>>
    BY <1>7 DEF Lose, Vanish, vars, queues, threads, history
  <2> QED
    BY <2>1, TextLess
<1> QED
  BY <1>1, <1>2, <1>3, <1>4, <1>5, <1>6, <1>7 DEF Next

\* In a chain whose EncryptHandlers undo each other, every text that a keeping
\* handler gets is the one that was read from a file, however the nodes are
\* connected and whatever gets lost, comes twice or is overtaken
\* (EncryptHandler::consume, ProcessorNode::passToNextHandlers).
THEOREM TextArrivesPlain == ASSUME EncryptionUndone PROVE Spec => []PlainText
<1>1. PICK b \in [Node -> BOOLEAN] : UndoneBy(b)
  BY DEF EncryptionUndone
<1>2. Fits(b)
  BY <1>1 DEF Fits, EncryptionUndone
<1>3. Init => TextInv(b)
  BY DEF Init, TextInv, TextIn, TextOut, TextOnWire, TextHeld, PlainText
<1>4. ChainInv /\ TextInv(b) /\ [Next]_vars => TextInv(b)'
  BY <1>2, TextNext
<1>5. TextInv(b) => PlainText
  BY DEF TextInv
<1> QED
  BY <1>3, <1>4, <1>5, ChainInvariance, PTL DEF Spec

-----------------------------------------------------------------------------
(***************************************************************************)
(* The writer of a node is a SendQueue.                                    *)
(***************************************************************************)
WriterStep == Writer!QueueNext \/ UNCHANGED <<outQueue[Sender], sentPackages[Sender]>>

\* What sendData() gives to any node's writer is one package or none.
LEMMA WriterTakesData ==
  ASSUME TypeOK, NEW n \in Node, NEW ps \in Seq(Packages), sendData(n, ps),
         sentPackages' = sentPackages
  PROVE  WriterStep
<1>1. outQueue \in [Node -> Seq(Packages)] /\ Sender \in Node
  BY SenderAssumption DEF TypeOK
<1>2. CASE outQueue'[Sender] = outQueue[Sender]
  BY <1>2 DEF WriterStep
<1>3. CASE outQueue'[Sender] # outQueue[Sender]
  <2> DEFINE p == WithOrigin(n, Head(ps))
  <2>1. /\ ps # <<>> /\ n = Sender
        /\ outQueue'[Sender] = Append(outQueue[Sender], p)
    BY <1>1, <1>3 DEF sendData
  <2>2. Head(ps) \in Packages
    BY <2>1
  <2>3. p \in Packages /\ p \in Outgoing
    <3>1. [host |-> None, port |-> ListeningPort[n]] \in Address
      BY ChainAssumption DEF Address
    <3> QED
      BY <2>1, <2>2, <3>1 DEF WithOrigin, Packages, Outgoing
  <2> HIDE DEF p
  <2>4. /\ outQueue'[Sender] # <<>> /\ Front(outQueue'[Sender]) = outQueue[Sender]
        /\ Last(outQueue'[Sender]) = p
    BY <1>1, <2>1, <2>3, BehindProperties
  <2>5. Writer!Accept
    BY <2>3, <2>4 DEF Writer!Accept, Writer!Front, Writer!Last, Front, Last
  <2> QED
    BY <2>5 DEF WriterStep, Writer!QueueNext
<1> QED
  BY <1>2, <1>3

LEMMA WriterSettles ==
  ASSUME TypeOK, NEW n \in Node, Settle(n)
  PROVE  WriterStep
<1>1. /\ outQueue \in [Node -> Seq(Packages)] /\ Sender \in Node
      /\ sentPackages \in [Node -> Seq(Packages)]
  BY SenderAssumption DEF TypeOK
<1>2. CASE n # Sender
  BY <1>1, <1>2 DEF Settle, WriterStep
<1>3. CASE n = Sender
  <2> DEFINE q == outQueue[Sender]
             p == Head(q)
             sent == sentPackages[Sender]
             s == sentPackages'[Sender]
             named == {i \in 1 .. Len(sent) : SamePackage(sent[i], p)}
  <2>1. /\ q # <<>> /\ IsLocalAck(UseAck[Sender], p) /\ outQueue'[Sender] = Tail(q)
        /\ s = handleAcknowledgementMessages(sent, p)
    BY <1>1, <1>3 DEF Settle
  <2>2. p \in Packages /\ sent \in Seq(Packages)
    BY <1>1, <2>1
  <2> HIDE DEF q, p, sent, s
  <2>3. Writer!MeantForUs(p)
    BY <2>1 DEF IsLocalAck, HasDestination, NoAddress, Writer!MeantForUs, Writer!NoAddress
  <2>4. IF PayloadString(p) = "ack" /\ named # {}
        THEN \E i \in named : s = Writer!Without(sent, i)
        ELSE s = sent
    <3>1. CASE PayloadString(p) # "ack" \/ named = {}
      BY <2>1, <3>1 DEF handleAcknowledgementMessages
    <3>2. CASE PayloadString(p) = "ack" /\ named # {}
      <4>1. PICK i \in named : s = RemoveAt(sent, i)
        BY <2>1, <2>2, <3>2, AcknowledgementEffect
      <4>2. /\ s \in Seq(Packages) /\ Len(s) = Len(sent) - 1
            /\ \A j \in 1 .. Len(sent) - 1 : s[j] = IF j < i THEN sent[j] ELSE sent[j + 1]
        BY <2>2, <4>1, RemoveAtType
      <4>3. s = [j \in 1 .. Len(s) |-> s[j]]
        BY <4>2
      <4>4. s = Writer!Without(sent, i)
        BY <4>2, <4>3 DEF Writer!Without
      <4> QED
        BY <3>2, <4>1, <4>4
    <3> QED
      BY <3>1, <3>2
  <2>5. Writer!Settle
    BY <2>1, <2>3, <2>4 DEF Writer!Settle, Writer!PayloadString, PayloadString,
       Writer!SamePackage, SamePackage, q, p, sent, s
  <2> QED
    BY <2>5 DEF WriterStep, Writer!QueueNext
<1> QED
  BY <1>2, <1>3

LEMMA WriterTransmits ==
  ASSUME TypeOK, OutInv, NEW n \in Node, Send(n)
  PROVE  WriterStep
<1>1. /\ outQueue \in [Node -> Seq(Packages)] /\ Sender \in Node
      /\ sentPackages \in [Node -> Seq(Packages)]
  BY SenderAssumption DEF TypeOK
<1>2. CASE n # Sender
  BY <1>1, <1>2 DEF Send, WriterStep
<1>3. CASE n = Sender
  <2> DEFINE q == outQueue[Sender]
             p == Head(q)
  <2>1. /\ q # <<>> /\ ~IsLocalAck(UseAck[Sender], p) /\ outQueue'[Sender] = Tail(q)
        /\ sentPackages'[Sender] = Remember(sentPackages[Sender], p)
    BY <1>1, <1>3 DEF Send
  <2>2. OutOK(Done, Sender, p)
    <3>1. p = q[1] /\ 1 \in 1 .. Len(q)
      BY <1>1, <2>1
    <3> QED
      BY <1>1, <3>1 DEF OutInv
  <2> HIDE DEF q, p
  <2>3. ~Writer!MeantForUs(p) /\ ~Writer!IsEmpty(p)
    BY <2>1, <2>2 DEF IsLocalAck, HasDestination, NoAddress, Writer!MeantForUs,
                      Writer!NoAddress, OutOK, PackageOK, IsEmpty, Writer!IsEmpty
  <2>4. Writer!Transmit
    BY <2>1, <2>3 DEF Writer!Transmit, Remember, q, p
  <2> QED
    BY <2>4 DEF WriterStep, Writer!QueueNext
<1> QED
  BY <1>2, <1>3

LEMMA WriterGoesDown ==
  ASSUME TypeOK, NEW n \in Node, Stop(n) \/ Crash(n)
  PROVE  WriterStep
<1>1. /\ outQueue \in [Node -> Seq(Packages)] /\ Sender \in Node
      /\ sentPackages \in [Node -> Seq(Packages)]
  BY SenderAssumption DEF TypeOK
<1>2. CASE n # Sender
  BY <1>1, <1>2 DEF Stop, Crash, WriterStep
<1>3. CASE n = Sender
  <2> DEFINE q == outQueue[Sender]
  <2>1. CASE Crash(n) \/ writing[n]
    <3>1. /\ outQueue'[Sender] = <<>> \/ outQueue'[Sender] \in LeftOf(q)
          /\ sentPackages'[Sender] = <<>>
      BY <1>1, <1>3, <2>1 DEF Stop, Crash
    <3>2. \/ outQueue'[Sender] \in {<<>>, q}
          \/ /\ Len(q) > 1
             /\ outQueue'[Sender] \in {<<Head(q)>>, <<Last(q)>>, <<Head(q), Last(q)>>}
      <4>1. q \in Seq(Packages) /\ Len(q) \in Nat
        BY <1>1
      <4>2. Len(q) <= 1 \/ Len(q) > 1
        BY <4>1
      <4> HIDE DEF q
      <4> QED
        BY <3>1, <4>1, <4>2 DEF LeftOf
    <3>3. Writer!Reset
      BY <3>1, <3>2 DEF Writer!Reset, Writer!Last, Last
    <3> QED
      BY <3>3 DEF WriterStep, Writer!QueueNext
  <2>2. CASE ~Crash(n) /\ ~writing[n]
    <3>1. UNCHANGED <<outQueue, sentPackages>>
      BY <2>2 DEF Stop
    <3> QED
      BY <3>1 DEF WriterStep
  <2> QED
    BY <2>1, <2>2
<1> QED
  BY <1>2, <1>3

LEMMA WriterNext == ChainInv /\ [Next]_vars => WriterStep
<1> SUFFICES ASSUME ChainInv, [Next]_vars PROVE WriterStep
  OBVIOUS
<1> USE DEF ChainInv, queues
<1>1. CASE outQueue' = outQueue /\ sentPackages' = sentPackages
  BY <1>1 DEF WriterStep
<1>2. ASSUME NEW n \in Node, ReadFile(n) PROVE WriterStep
  <2>1. PICK i \in 1 .. Len(HandlersOf(n)), p \in FileData :
          sendData(n, passToNextHandlers(HandlersOf(n), i, p))
    BY <1>2 DEF ReadFile
  <2>2. p \in Packages
    BY ChainAssumption
  <2>3. passToNextHandlers(HandlersOf(n), i, p) \in Seq(Packages)
    BY <2>2, PassedFacts DEF passToNextHandlers
  <2> QED
    BY <1>2, <2>1, <2>3, WriterTakesData DEF ReadFile
<1>3. ASSUME NEW n \in Node, NEW p \in Packages, HandlePackage(n, p) PROVE WriterStep
  <2>1. \/ sendData(n, <<p>>)
        \/ sendData(n, passToHandlers(HandlersOf(n), p))
    BY <1>3 DEF HandlePackage
  <2>2. <<p>> \in Seq(Packages) /\ passToHandlers(HandlersOf(n), p) \in Seq(Packages)
    BY PassedFacts DEF passToHandlers
  <2> QED
    BY <1>3, <2>1, <2>2, WriterTakesData DEF HandlePackage
<1>4. ASSUME NEW n \in Node, Handle(n) PROVE WriterStep
  BY <1>3, <1>4, InHead DEF Handle
<1>5. ASSUME NEW n \in Node, HandleHeld(n) PROVE WriterStep
  BY <1>3, <1>5 DEF HandleHeld, TypeOK
<1>6. ASSUME NEW n \in Node, Begin(n) \/ Take(n) \/ Restart(n) PROVE WriterStep
  BY <1>1, <1>6 DEF Begin, Take, Restart
<1>7. ASSUME NEW n \in Node, Deliver(n) \/ DeliverUnnoticed(n) \/ Repeat(n) PROVE WriterStep
  BY <1>1, <1>7 DEF Deliver, DeliverUnnoticed, Repeat, Arrive
<1>8. CASE Lose \/ Vanish \/ UNCHANGED vars
  BY <1>1, <1>8 DEF Lose, Vanish, vars
<1> QED
  BY <1>2, <1>4, <1>5, <1>6, <1>7, <1>8, WriterSettles, WriterTransmits, WriterGoesDown
  DEF Next, NodeStep

\* In every chain the writer of every node is a SendQueue, whatever the other
\* nodes do and whatever gets lost: packages leave in order, data is remembered
\* and an answer settles one package that it names (NetworkWriter).
THEOREM EveryWriterKeepsPromises == Spec => WriterKeepsPromises
<1>1. Init => Writer!QueueInit
  BY SenderAssumption DEF Init, Writer!QueueInit
<1>2. ChainInv /\ [Next]_vars => [Writer!QueueNext]_(Writer!queueVars)
  BY WriterNext DEF WriterStep, Writer!queueVars
<1> QED
  BY <1>1, <1>2, ChainInvariance, PTL DEF Spec, WriterKeepsPromises, Writer!QueueSpec
=============================================================================
