------------------------------- MODULE Handlers -------------------------------
(***************************************************************************)
(* The handlers of a node and how a package goes through their list, as    *)
(* far as it concerns others: which handler keeps the package, what the    *)
(* package looks like there, and what is given to sendData() in the end    *)
(* (ProcessorNode::passToHandlers, passToNextHandlers).                    *)
(***************************************************************************)
EXTENDS Package, Naturals, Sequences, FiniteSets

CONSTANTS
  Rotated,         \* what rot13 makes of a text, see RotatedCode below
  Kept,            \* payloads that a keeping handler of the application keeps
  Info,            \* the payload that tells a node's configuration
  FreshUuid        \* stands for the identifiers that new packages get

ASSUME HandlersAssumption ==
  /\ Rotated \in [Text -> Text]
  /\ \A t \in Text : Rotated[Rotated[t]] = t
  /\ Rotated[NoText] = NoText
  /\ Kept \subseteq Text /\ Info \in Text /\ FreshUuid \in Uuid

-----------------------------------------------------------------------------
(***************************************************************************)
(* EncryptHandler: one character code, and a text as a sequence of them.   *)
(***************************************************************************)
RotatedCode(c) ==
  IF c \in 65 .. 77 \cup 97 .. 109 THEN c + 13
  ELSE IF c \in 78 .. 90 \cup 110 .. 122 THEN c - 13
  ELSE c
rot13(codes) == [i \in 1 .. Len(codes) |-> RotatedCode(codes[i])]

\* A data package with a text; another goes on as it is.
Encrypted(p) ==
  IF p.type = "Data" /\ PayloadString(p) # NoText
  THEN [p EXCEPT !.payload = Rotated[PayloadString(p)]]
  ELSE p

-----------------------------------------------------------------------------
(***************************************************************************)
(* A list of handlers is a sequence of their kinds.  Every node begins     *)
(* with its own two; what the application adds comes behind them.  Its     *)
(* handlers are EncryptHandlers, for either direction, or of its own:      *)
(* "file" reads a file at the command, "keeper" has a use for some         *)
(* payloads, and both let the rest go by.                                  *)
(***************************************************************************)
HandlerKind == {"ping", "configuration", "encrypt", "file", "keeper"}
WithOwn(added) == <<"ping", "configuration">> \o added

IsControl(p, text) == p.type = "Control" /\ PayloadString(p) = text

\* Whether consume() returns true.
Keeps(kind, p) ==
  \/ kind = "ping" /\ IsControl(p, "ping")
  \/ kind = "configuration" /\ p.type = "Configuration"
  \/ kind = "file" /\ IsControl(p, "readfile")
  \/ kind = "keeper" /\ PayloadString(p) \in Kept

Odd(S) == Cardinality(S) % 2 = 1

\* p as the i-th handler sees it, if from is the first that was offered it.
Offered(hs, from, i, p) ==
  IF Odd({k \in from .. i - 1 : hs[k] = "encrypt"}) THEN Encrypted(p) ELSE p

\* The handlers before which the list is left, and the one that keeps p.
Keepers(hs, from, p) ==
  {i \in from .. Len(hs) : Keeps(hs[i], Offered(hs, from, i, p))}
Keeper(hs, from, p) ==
  CHOOSE i \in Keepers(hs, from, p) : \A k \in Keepers(hs, from, p) : i <= k

\* The answer to a "read", to whoever asked.
Reply(p) ==
  [uid |-> FreshUuid, type |-> "Configuration", payload |-> Info,
   origin |-> NoAddress, destination |-> p.origin]

\* What a handler that keeps p gives to sendData() itself.
SentBy(kind, p) ==
  CASE kind = "ping" -> <<p>>
    [] kind = "configuration" /\ PayloadString(p) = "read" -> <<Reply(p)>>
    [] OTHER -> <<>>

\* What goes to sendData() once the handlers have seen p.
Passed(hs, from, p) ==
  IF Keepers(hs, from, p) = {}
  THEN <<Offered(hs, from, Len(hs) + 1, p)>>
  ELSE LET i == Keeper(hs, from, p) IN SentBy(hs[i], Offered(hs, from, i, p))

passToHandlers(hs, p) == Passed(hs, 1, p)

\* Were the search for the handler that passes p on to end one too far ...
OneTooFar(hs, i, p) == IF i < Len(hs) THEN Passed(hs, i + 2, p) ELSE <<>>

\* From behind the i-th handler on; behind the last one p goes nowhere.
passToNextHandlers(hs, i, p) == IF i < Len(hs) THEN Passed(hs, i + 1, p) ELSE <<>>

\* What the application's keeping handlers get of p.
KeptOf(hs, from, p) ==
  IF Keepers(hs, from, p) # {} /\ hs[Keeper(hs, from, p)] = "keeper"
  THEN {Offered(hs, from, Keeper(hs, from, p), p)} ELSE {}
=============================================================================
