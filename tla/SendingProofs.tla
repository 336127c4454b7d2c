---------------------------- MODULE SendingProofs ----------------------------
(***************************************************************************)
(* Facts about what a writer makes of one package.                         *)
(***************************************************************************)
EXTENDS Sending, PackageProofs

\* handleAcknowledgementMessages() either leaves the sent packages alone or
\* erases one of them that the answer names.
LEMMA AcknowledgementEffect ==
  ASSUME NEW sent \in Seq(Packages), NEW p \in Packages
  PROVE  \/ /\ handleAcknowledgementMessages(sent, p) = sent
            /\ \/ PayloadString(p) # "ack"
               \/ \A i \in 1 .. Len(sent) : ~SamePackage(sent[i], p)
         \/ /\ PayloadString(p) = "ack"
            /\ \E i \in 1 .. Len(sent) :
                 /\ SamePackage(sent[i], p)
                 /\ handleAcknowledgementMessages(sent, p) = RemoveAt(sent, i)
<1> DEFINE found == {i \in 1 .. Len(sent) : SamePackage(sent[i], p)}
<1>1. CASE PayloadString(p) = "ack" /\ found # {}
  <2> DEFINE first == CHOOSE i \in found : \A j \in found : i <= j
  <2>1. \E i \in found : \A j \in found : i <= j
    <3>1. found \in SUBSET Nat
      OBVIOUS
    <3> QED
      BY <1>1, <3>1, FirstOfSet
  <2>2. first \in found
    BY <2>1
  <2> QED
    BY <1>1, <2>2 DEF handleAcknowledgementMessages
<1> QED
  BY <1>1 DEF handleAcknowledgementMessages
=============================================================================
