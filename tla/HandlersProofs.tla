--------------------------- MODULE HandlersProofs ---------------------------
(***************************************************************************)
(* What holds of a list of handlers, whatever is in it.                    *)
(***************************************************************************)
EXTENDS Handlers, TLAPS

\* EncryptHandler decrypts with the same function that it encrypts with: rot13
\* of rot13 is the text that it was made of, character by character.
THEOREM Rot13Involution == \A codes \in Seq(Nat) : rot13(rot13(codes)) = codes
<1> SUFFICES ASSUME NEW codes \in Seq(Nat) PROVE rot13(rot13(codes)) = codes
  OBVIOUS
<1>1. \A c \in Nat : RotatedCode(RotatedCode(c)) = c /\ RotatedCode(c) \in Nat
  BY DEF RotatedCode
<1>2. rot13(codes) \in Seq(Nat) /\ Len(rot13(codes)) = Len(codes)
  BY <1>1 DEF rot13
<1>3. \A i \in 1 .. Len(codes) : rot13(codes)[i] = RotatedCode(codes[i])
  BY DEF rot13
<1>4. \A i \in 1 .. Len(codes) : rot13(rot13(codes))[i] = codes[i]
  <2> TAKE i \in 1 .. Len(codes)
  <2>1. codes[i] \in Nat /\ rot13(codes)[i] = RotatedCode(codes[i])
    BY <1>3
  <2>2. rot13(rot13(codes))[i] = RotatedCode(rot13(codes)[i])
    BY <1>2 DEF rot13
  <2> QED
    BY <1>1, <2>1, <2>2
<1>5. ASSUME NEW s \in Seq(Nat)
      PROVE  rot13(s) \in Seq(Nat) /\ Len(rot13(s)) = Len(s)
  <2>1. \A i \in 1 .. Len(s) : RotatedCode(s[i]) \in Nat
    BY <1>1
  <2> QED
    BY <2>1 DEF rot13
<1>6. rot13(rot13(codes)) \in Seq(Nat) /\ Len(rot13(rot13(codes))) = Len(codes)
  BY <1>2, <1>5
<1> QED
  BY <1>4, <1>6

\* Encrypting leaves alone what a package is known by.
LEMMA EncryptedType ==
  ASSUME NEW p \in Packages
  PROVE  /\ Encrypted(p) \in Packages
         /\ Encrypted(p).uid = p.uid /\ Encrypted(p).type = p.type
         /\ Encrypted(p).origin = p.origin /\ Encrypted(p).destination = p.destination
<1>1. Rotated[PayloadString(p)] \in Text
  BY HandlersAssumption, NoTextAssumption DEF PayloadString
<1> QED
  BY <1>1 DEF Encrypted, Packages

LEMMA OfferedType ==
  ASSUME NEW p \in Packages, NEW hs, NEW from, NEW i
  PROVE  /\ Offered(hs, from, i, p) \in Packages
         /\ Offered(hs, from, i, p).uid = p.uid
         /\ Offered(hs, from, i, p).type = p.type
         /\ Offered(hs, from, i, p).origin = p.origin
         /\ Offered(hs, from, i, p).destination = p.destination
  BY EncryptedType DEF Offered

\* Two EncryptHandlers that a package with a text meets one after the other, in
\* one node or in two, leave it as it was (EncryptHandler::consume).
THEOREM DecryptedAgain ==
  ASSUME NEW p \in Packages, p.payload \in Text
  PROVE  Encrypted(Encrypted(p)) = p
<1>1. CASE p.type = "Data" /\ PayloadString(p) # NoText
  <2> DEFINE r == Rotated[p.payload]
  <2>1. PayloadString(p) = p.payload /\ p.payload # NoText
    BY <1>1 DEF PayloadString
  <2>2. r \in Text /\ r # NoText /\ Rotated[r] = p.payload
    BY <2>1, HandlersAssumption
  <2> HIDE DEF r
  <2>3. Encrypted(p) = [p EXCEPT !.payload = r]
    BY <1>1, <2>1 DEF Encrypted, r
  <2>4. /\ Encrypted(p).type = "Data" /\ PayloadString(Encrypted(p)) = r
    BY <2>2, <2>3, <1>1 DEF Packages, PayloadString
  <2>5. Encrypted(Encrypted(p)) = [Encrypted(p) EXCEPT !.payload = p.payload]
    BY <2>2, <2>4 DEF Encrypted
  <2> QED
    BY <2>3, <2>5 DEF Packages
<1>2. CASE ~(p.type = "Data" /\ PayloadString(p) # NoText)
  BY <1>2 DEF Encrypted
<1> QED
  BY <1>1, <1>2

\* What goes to sendData() is the package itself, encrypted or not, or an answer
\* to a question about the configuration: handlers make no data and no
\* acknowledgements of their own.
LEMMA PassedFacts ==
  ASSUME NEW p \in Packages, NEW hs, NEW from
  PROVE  /\ Passed(hs, from, p) \in Seq(Packages)
         /\ Len(Passed(hs, from, p)) <= 1
         /\ \A i \in 1 .. Len(Passed(hs, from, p)) :
              \/ /\ Passed(hs, from, p)[i].uid = p.uid
                 /\ Passed(hs, from, p)[i].type = p.type
                 /\ Passed(hs, from, p)[i].destination = p.destination
              \/ Passed(hs, from, p)[i].type = "Configuration"
<1> DEFINE At(i) == Offered(hs, from, i, p)
<1>1. \A i : /\ At(i) \in Packages /\ At(i).uid = p.uid /\ At(i).type = p.type
            /\ At(i).destination = p.destination
  BY OfferedType
<1> HIDE DEF At
<1>2. ASSUME NEW q \in Packages
      PROVE  Reply(q) \in Packages /\ Reply(q).type = "Configuration"
  <2>1. q.origin \in Address /\ NoAddress \in Address
    BY DEF Packages, NoAddress, Address
  <2> QED
    BY <2>1, HandlersAssumption DEF Reply, Packages, Type
<1>3. CASE Keepers(hs, from, p) = {}
  <2>1. Passed(hs, from, p) = <<At(Len(hs) + 1)>>
    BY <1>3 DEF Passed, At
  <2> QED
    BY <2>1, <1>1
<1>4. CASE Keepers(hs, from, p) # {}
  <2> DEFINE k == Keeper(hs, from, p)
  <2>1. Passed(hs, from, p) = SentBy(hs[k], At(k))
    BY <1>4 DEF Passed, At
  <2>2. SentBy(hs[k], At(k)) \in {<<At(k)>>, <<Reply(At(k))>>, <<>>}
    BY DEF SentBy
  <2> DEFINE a == At(k)
  <2>3. /\ a \in Packages /\ a.uid = p.uid /\ a.type = p.type
        /\ a.destination = p.destination
    BY <1>1
  <2>4. Reply(a) \in Packages /\ Reply(a).type = "Configuration"
    BY <1>2, <2>3
  <2>5. Passed(hs, from, p) \in {<<a>>, <<Reply(a)>>, <<>>}
    BY <2>1, <2>2
  <2> DEFINE sent == Passed(hs, from, p)
  <2> HIDE DEF k, a
  <2>6. CASE sent = <<a>>
    <3> HIDE DEF sent
    <3> QED
      BY <2>3, <2>6 DEF sent
  <2>7. CASE sent = <<Reply(a)>>
    <3> DEFINE r == Reply(a)
    <3> HIDE DEF sent, r
    <3>1. sent = <<r>> /\ r \in Packages /\ r.type = "Configuration"
      BY <2>4, <2>7 DEF r
    <3> QED
      BY <3>1 DEF sent
  <2>8. CASE sent = <<>>
    <3> HIDE DEF sent
    <3> QED
      BY <2>8 DEF sent
  <2> QED
    BY <2>5, <2>6, <2>7, <2>8
<1> QED
  BY <1>3, <1>4
=============================================================================
