---------------------------- MODULE PackageProofs ----------------------------
(***************************************************************************)
(* Facts about packages on the wire and what a reader makes of them, and   *)
(* about the sequences and sets of positions that the proofs about single  *)
(* components use.                                                         *)
(***************************************************************************)
EXTENDS Receiving, Naturals, Sequences, SequencesExt, SequenceTheorems,
        WellFoundedInduction, TLAPS

LEMMA JsonType == \A p \in Packages : ToJson(p) \in Json
<1> SUFFICES ASSUME NEW p \in Packages PROVE ToJson(p) \in Json
  OBVIOUS
<1>1. PayloadString(p) \in Text
  BY NoTextAssumption DEF Packages, PayloadString
<1>2. p.type \in Type
  BY DEF Packages
<1> QED
  BY <1>1, <1>2 DEF Packages, Address, ToJson, Json, TypeOnWire

\* The enumeration comes back from its strings.
LEMMA TypeRoundTrip == \A t \in Type : TypeFromString(TypeAsString[t]) = t
<1> SUFFICES ASSUME NEW t \in Type PROVE TypeFromString(TypeAsString[t]) = t
  OBVIOUS
<1>1. \A r \in Type : TypeAsString[r] = TypeAsString[t] => r = t
  <2>1. /\ TypeAsString["NoType"] = "" /\ TypeAsString["Control"] = "control"
        /\ TypeAsString["Data"] = "data"
        /\ TypeAsString["Configuration"] = "configuration"
        /\ TypeAsString["Acknowledgement"] = "acknowledgement"
    BY DEF TypeAsString
  <2> QED
    BY <2>1 DEF Type
<1> QED
  BY <1>1 DEF TypeFromString

\* What a package is after its way over the wire.
LEMMA WireRoundTrip ==
  ASSUME NEW p \in Packages
  PROVE  /\ FromJson(ToJson(p)) \in Packages
         /\ FromJson(ToJson(p)).uid = p.uid
         /\ FromJson(ToJson(p)).type = p.type
         /\ FromJson(ToJson(p)).destination = NoAddress
<1>1. ToJson(p) \in Json
  BY JsonType
<1>2. p.type \in Type
  BY DEF Packages
<1>3. TypeFromString(TypeAsString[p.type]) = p.type
  BY <1>2, TypeRoundTrip
<1>4. NoAddress \in Address /\ [host |-> None, port |-> ToJson(p).senderListeningPort] \in Address
  BY <1>1 DEF NoAddress, Address, Json
<1> QED
  BY <1>1, <1>2, <1>3, <1>4 DEF FromJson, ToJson, Packages, Json

\* What a reader makes of a datagram.
LEMMA ReceivedType ==
  ASSUME NEW d, d.json \in Json, d.from \in Address
  PROVE  /\ Received(d) \in Packages
         /\ Received(d).uid = d.json.package
         /\ Received(d).type = TypeFromString(d.json.type)
         /\ Received(d).destination = NoAddress
         /\ Received(d).origin = OriginOf(d)
<1> DEFINE o == OriginOf(d)
           r == FromJson(d.json)
<1>1. /\ d.json.type \in TypeOnWire /\ d.json.package \in Uuid /\ d.json.payload \in Text
      /\ d.json.senderListeningPort \in Port \cup {None}
  BY DEF Json
<1>2. /\ o \in Address /\ NoAddress \in Address
      /\ [host |-> None, port |-> d.json.senderListeningPort] \in Address
  BY <1>1 DEF OriginOf, Address, NoAddress
<1>3. TypeFromString(d.json.type) \in Type
  BY DEF TypeFromString, Type
<1>4. /\ r \in Packages /\ r.uid = d.json.package /\ r.destination = NoAddress
      /\ r.type = TypeFromString(d.json.type)
  BY <1>1, <1>2, <1>3 DEF FromJson, Packages
<1>5. Received(d) = [r EXCEPT !.origin = o]
  BY DEF Received
<1> HIDE DEF o, r
<1> QED
  BY <1>2, <1>4, <1>5 DEF Packages, o

\* What it queues behind data.
LEMMA AckForType ==
  ASSUME NEW p \in Packages, "ack" \in Text
  PROVE  /\ AckFor(p) \in Packages
         /\ AckFor(p).type = "Acknowledgement" /\ AckFor(p).uid = p.uid
         /\ AckFor(p).destination = p.origin
<1>1. NoAddress \in Address
  BY DEF NoAddress, Address
<1> QED
  BY <1>1 DEF AckFor, Packages, Type

\* Erasing one element leaves the others, in their order.
LEMMA RemoveAtType ==
  ASSUME NEW S, NEW s \in Seq(S), NEW i \in 1 .. Len(s)
  PROVE  /\ RemoveAt(s, i) \in Seq(S)
         /\ Len(RemoveAt(s, i)) = Len(s) - 1
         /\ \A j \in 1 .. Len(s) - 1 :
              RemoveAt(s, i)[j] = IF j < i THEN s[j] ELSE s[j + 1]
<1> DEFINE before == SubSeq(s, 1, i - 1)
           after == SubSeq(s, i + 1, Len(s))
<1>1. before \in Seq(S) /\ Len(before) = i - 1
      /\ \A j \in 1 .. i - 1 : before[j] = s[j]
  BY SubSeqProperties
<1>2. after \in Seq(S) /\ Len(after) = Len(s) - i
      /\ \A j \in 1 .. Len(s) - i : after[j] = s[i + j]
  BY SubSeqProperties
<1> HIDE DEF before, after
<1>3. before \o after \in Seq(S) /\ Len(before \o after) = Len(s) - 1
  BY <1>1, <1>2
<1>4. ASSUME NEW j \in 1 .. Len(s) - 1
      PROVE (before \o after)[j] = IF j < i THEN s[j] ELSE s[j + 1]
  BY <1>1, <1>2
<1> QED
  BY <1>3, <1>4 DEF RemoveAt, before, after

\* A sequence with one element behind it comes apart again.
LEMMA BehindProperties ==
  ASSUME NEW S, NEW s \in Seq(S), NEW e \in S
  PROVE  /\ Append(s, e) # <<>> /\ Front(Append(s, e)) = s /\ Last(Append(s, e)) = e
<1> DEFINE a == Append(s, e)
<1>1. /\ a \in Seq(S) /\ Len(a) = Len(s) + 1 /\ a[Len(s) + 1] = e
      /\ \A j \in 1 .. Len(s) : a[j] = s[j]
  OBVIOUS
<1> HIDE DEF a
<1>2. Front(a) = s
  <2>1. SubSeq(a, 1, Len(a) - 1) \in Seq(S) /\ Len(SubSeq(a, 1, Len(a) - 1)) = Len(s)
        /\ \A j \in 1 .. Len(s) : SubSeq(a, 1, Len(a) - 1)[j] = s[j]
    BY <1>1
  <2> QED
    BY <2>1 DEF Front
<1> QED
  BY <1>1, <1>2 DEF Last, a

\* A set of positions has a first one.
LEMMA FirstOfSet ==
  ASSUME NEW S \in SUBSET Nat, S # {}
  PROVE  \E i \in S : \A j \in S : i <= j
<1> DEFINE Less == {r \in Nat \X Nat : r[1] < r[2]}
<1>1. IsWellFoundedOn(Less, Nat)
  BY NatLessThanWellFounded, Zenon DEF OpToRel
<1>2. PICK i \in S : \A j \in S : <<j, i>> \notin Less
  <2> HIDE DEF Less
  <2> QED
    BY <1>1, WFMin
<1>3. \A j \in S : ~(j < i)
  BY <1>2
<1> QED
  BY <1>3
=============================================================================
