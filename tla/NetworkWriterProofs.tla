------------------------- MODULE NetworkWriterProofs -------------------------
(***************************************************************************)
(* What holds of NetworkWriter for any number of callers, packages and     *)
(* restarts.                                                               *)
(***************************************************************************)
EXTENDS NetworkWriter, SendingProofs

(***************************************************************************)
(* Facts about the operators.                                              *)
(***************************************************************************)
LEMMA DestinationType == \A p \in Packages : DestinationOf(NextNode, p) \in Address
  BY WriterAssumption DEF Packages, DestinationOf

-----------------------------------------------------------------------------
(***************************************************************************)
(* Types and mutual exclusion.                                             *)
(***************************************************************************)
LEMMA TypeInvInit == Init => TypeInv
<1> SUFFICES ASSUME Init PROVE TypeInv
  OBVIOUS
<1>1. TypeOK
  <2>1. 0 \in 0 .. MaxStarts
    BY WriterAssumption
  <2>2. /\ pc \in [Thread -> {"unborn", "spawned", "loop", "locking", "idle",
                              "taking", "handling", "stuck", "done"}]
        /\ package \in [Thread -> Packages \cup {None}]
        /\ writing \in [Caller -> Outgoing \cup {None}]
    BY DEF Init
  <2>3. /\ msgQueue \in Seq(Packages) /\ sentPackages \in Seq(Packages)
        /\ handled \in Seq(Packages) /\ transmitted \in Seq(Datagram)
    BY DEF Init
  <2> QED
    BY <2>1, <2>2, <2>3 DEF Init, TypeOK
<1>2. Sections
  BY WriterAssumption DEF Init, Sections, InSection, Thread
<1> QED
  BY <1>1, <1>2 DEF TypeInv

\* The callers of write().
LEMMA TypeInvCaller ==
  ASSUME TypeInv, NEW c \in Caller, CallerStep(c), UNCHANGED process
  PROVE  TypeInv'
<1> USE DEF TypeInv, containers, history
<1>1. CASE \E p \in Outgoing : WriteCheck(c, p)
  <2>1. TypeOK'
    BY <1>1, WriterAssumption DEF WriteCheck, TypeOK
  <2>2. Sections'
    BY <1>1 DEF WriteCheck, Sections, InSection
  <2> QED
    BY <2>1, <2>2
<1>2. CASE WritePush(c)
  <2>1. TypeOK'
    BY <1>2, WriterAssumption DEF WritePush, TypeOK
  <2>2. Sections'
    BY <1>2 DEF WritePush, Sections, InSection
  <2> QED
    BY <2>1, <2>2
<1> QED
  BY <1>1, <1>2 DEF CallerStep

\* The thread that starts and stops the writer.
LEMMA TypeInvOwner ==
  ASSUME TypeInv, OwnerStep, UNCHANGED process
  PROVE  TypeInv'
<1> USE DEF TypeInv, containers, history
<1>1. CASE Start
  <2>1. CASE running
    BY <1>1, <2>1 DEF Start, TypeOK, Sections, InSection
  <2>2. CASE ~running
    <3>1. TypeOK'
      <4>1. starts + 1 \in 0 .. MaxStarts
        BY <1>1, <2>2, WriterAssumption DEF Start, TypeOK
      <4> QED
        BY <1>1, <2>2, <4>1 DEF Start, TypeOK
    <3>2. starts + 1 \in Thread /\ starts' = starts + 1 /\ starts \in Nat
          /\ pc' = [pc EXCEPT ![starts + 1] = "spawned"]
          /\ UNCHANGED <<guard, package>>
      BY <1>1, <2>2, WriterAssumption DEF Start, TypeOK, Thread
    <3>3. Sections'
      BY <3>2, WriterAssumption DEF Sections, InSection, TypeOK, Thread
    <3> QED
      BY <3>1, <3>3
  <2> QED
    BY <2>1, <2>2
<1>2. CASE StopBegin
  BY <1>2 DEF StopBegin, TypeOK, Sections, InSection
<1>3. CASE StopTestQueue
  BY <1>3 DEF StopTestQueue, TypeOK, Sections, InSection
<1>4. CASE StopPop
  <2>1. TypeOK'
    BY <1>4 DEF StopPop, TypeOK
  <2> QED
    BY <1>4, <2>1 DEF StopPop, Sections, InSection
<1>5. CASE StopClear
  BY <1>5 DEF StopClear, TypeOK, Sections, InSection
<1>6. CASE StopClose
  BY <1>6 DEF StopClose, TypeOK, Sections, InSection
<1> QED
  BY <1>1, <1>2, <1>3, <1>4, <1>5, <1>6 DEF OwnerStep, Stopping

\* The loop of a writer thread.
LEMMA TypeInvLoop ==
  ASSUME TypeInv, NEW t \in Thread, UNCHANGED process,
         Begin(t) \/ Loop(t) \/ Lock(t) \/ Unlock(t) \/ Take(t)
  PROVE  TypeInv'
<1> USE DEF TypeInv, containers, history, Goto
<1>0. None \notin Thread /\ None \notin Packages
  BY WriterAssumption DEF Thread
<1>1. CASE Begin(t)
  BY <1>1 DEF Begin, TypeOK, Sections, InSection, Thread
<1>2. CASE Loop(t)
  BY <1>2 DEF Loop, TypeOK, Sections, InSection, Thread
<1>3. CASE Lock(t)
  <2>1. TypeOK'
    BY <1>3 DEF Lock, TypeOK
  <2>2. \A u \in Thread : ~InSection(u)
    BY <1>0, <1>3 DEF Lock, Sections
  <2>3. Sections'
    BY <1>3, <2>2 DEF Lock, TypeOK, Sections, InSection
  <2> QED
    BY <2>1, <2>3
<1>4. CASE Unlock(t)
  <2>1. TypeOK'
    BY <1>4 DEF Unlock, TypeOK
  <2>2. Sections'
    BY <1>0, <1>4 DEF Unlock, TypeOK, Sections, InSection
  <2> QED
    BY <2>1, <2>2
<1>5. CASE Take(t)
  <2>1. Head(msgQueue) \in Packages /\ Tail(msgQueue) \in Seq(Packages)
    BY <1>5 DEF Take, TypeOK
  <2>2. TypeOK'
    BY <1>5, <2>1 DEF Take, TypeOK
  <2>3. Sections'
    BY <1>5, <2>1 DEF Take, TypeOK, Sections, InSection
  <2> QED
    BY <2>2, <2>3
<1> QED
  BY <1>1, <1>2, <1>3, <1>4, <1>5

\* handlePackage().
LEMMA TypeInvHandle ==
  ASSUME TypeInv, NEW t \in Thread, UNCHANGED process, Handle(t)
  PROVE  TypeInv'
<1> USE DEF TypeInv, containers, history, Goto, Handling
<1>0. None \notin Thread /\ None \notin Packages
  BY WriterAssumption DEF Thread
<1>1. package[t] \in Packages /\ InSection(t) /\ guard = t
  BY DEF Handle, HandleAck, Send, WaitWhileLocked, Sections, InSection
<1>2. ASSUME Finish(t), UNCHANGED starts
      PROVE  /\ Sections'
             /\ handled' \in Seq(Packages) /\ guard' \in Thread \cup {None}
             /\ package' \in [Thread -> Packages \cup {None}]
             /\ pc' = [pc EXCEPT ![t] = "loop"]
  BY <1>0, <1>1, <1>2 DEF Finish, TypeOK, Sections, InSection
<1>3. CASE HandleAck(t)
  <2>1. sentPackages' \in Seq(Packages)
    BY <1>1, <1>3, AcknowledgementEffect, RemoveAtType DEF HandleAck, TypeOK
  <2>2. TypeOK'
    BY <1>2, <1>3, <2>1 DEF HandleAck, TypeOK
  <2> QED
    BY <1>2, <1>3, <2>2 DEF HandleAck
<1>4. CASE Send(t)
  <2>1. sentPackages' \in Seq(Packages)
    BY <1>1, <1>4 DEF Send, Remember, TypeOK
  <2>2. transmitted' \in Seq(Datagram)
    <3> DEFINE d == [to |-> DestinationOf(NextNode, package[t]), json |-> ToJson(package[t])]
    <3>1. d \in Datagram
      BY <1>1, JsonType, DestinationType DEF Datagram
    <3>2. transmitted' = transmitted \/ transmitted' = Append(transmitted, d)
      BY <1>4 DEF Send
    <3>3. transmitted \in Seq(Datagram)
      BY DEF TypeOK
    <3> HIDE DEF d
    <3> QED
      BY <3>1, <3>2, <3>3, AppendProperties
  <2>3. TypeOK'
    BY <1>2, <1>4, <2>1, <2>2 DEF Send, TypeOK
  <2> QED
    BY <1>2, <1>4, <2>3 DEF Send
<1>5. CASE WaitWhileLocked(t)
  BY <1>1, <1>5 DEF WaitWhileLocked, TypeOK, Sections, InSection
<1> QED
  BY <1>3, <1>4, <1>5 DEF Handle

LEMMA TypeInvNext == TypeInv /\ [Next]_vars => TypeInv'
<1> SUFFICES ASSUME TypeInv, [Next]_vars PROVE TypeInv'
  OBVIOUS
<1>1. CASE Step /\ UNCHANGED process
  BY <1>1, TypeInvCaller, TypeInvOwner, TypeInvLoop, TypeInvHandle
  DEF Step, ThreadStep
<1>2. CASE End
  BY <1>2 DEF End, Terminate, Undefined, NonProcess, containers, history,
              TypeInv, TypeOK, Sections, InSection
<1>3. CASE UNCHANGED vars
  BY <1>3 DEF vars, containers, history, TypeInv, TypeOK, Sections, InSection
<1> QED
  BY <1>1, <1>2, <1>3 DEF Next

\* The variables keep their types, and the mutex its owner, in every behaviour
\* of the writer (threadFunc, start(), stop() and write() together).
THEOREM TypeCorrect == Spec => []TypeInv
  BY TypeInvInit, TypeInvNext, PTL DEF Spec

\* However many threads start() has spawned, one at a time is between the lock
\* and the unlock of threadFunc.
THEOREM MutualExclusion == Spec => []OneHandler
<1>1. TypeInv => OneHandler
  BY DEF TypeInv, Sections, OneHandler
<1> QED
  BY <1>1, TypeCorrect, PTL

-----------------------------------------------------------------------------
(***************************************************************************)
(* What is remembered until it is acknowledged.                            *)
(***************************************************************************)
LEMMA RetainedAck ==
  ASSUME TypeInv, UnackedRetained, NEW t \in Thread, HandleAck(t)
  PROVE  UnackedRetained'
<1> DEFINE p == package[t]
<1>1. /\ p \in Packages /\ IsLocalAck(UseAck, p)
      /\ handled \in Seq(Packages) /\ handled' = Append(handled, p)
      /\ sentPackages \in Seq(Packages)
      /\ sentPackages' = handleAcknowledgementMessages(sentPackages, p)
  BY DEF HandleAck, Handling, Finish, TypeInv, TypeOK, Sections
<1> HIDE DEF p
<1> SUFFICES ASSUME NEW i \in 1 .. Len(handled'), handled'[i].type = "Data"
             PROVE  \/ \E k \in 1 .. Len(sentPackages') : sentPackages'[k] = handled'[i]
                    \/ \E j \in i + 1 .. Len(handled') :
                         /\ IsLocalAck(UseAck, handled'[j]) /\ SamePackage(handled'[j], handled'[i])
                         /\ PayloadString(handled'[j]) = "ack"
  BY DEF UnackedRetained
<1>2. /\ Len(handled') = Len(handled) + 1 /\ handled'[Len(handled) + 1] = p
      /\ \A j \in 1 .. Len(handled) : handled'[j] = handled[j]
  BY <1>1, AppendProperties
<1>3. i \in 1 .. Len(handled)
  BY <1>1, <1>2 DEF IsLocalAck
<1>4. CASE \E j \in i + 1 .. Len(handled) :
             /\ IsLocalAck(UseAck, handled[j]) /\ SamePackage(handled[j], handled[i])
             /\ PayloadString(handled[j]) = "ack"
  BY <1>1, <1>2, <1>3, <1>4
<1>5. CASE \E k \in 1 .. Len(sentPackages) : sentPackages[k] = handled[i]
  <2>1. CASE sentPackages' = sentPackages
    BY <1>2, <1>3, <1>5, <2>1
  <2>2. ASSUME PayloadString(p) = "ack",
               NEW e \in 1 .. Len(sentPackages), SamePackage(sentPackages[e], p),
               sentPackages' = RemoveAt(sentPackages, e)
        PROVE  \/ \E k \in 1 .. Len(sentPackages') : sentPackages'[k] = handled'[i]
               \/ \E j \in i + 1 .. Len(handled') :
                    /\ IsLocalAck(UseAck, handled'[j]) /\ SamePackage(handled'[j], handled'[i])
                    /\ PayloadString(handled'[j]) = "ack"
    <3>1. PICK k \in 1 .. Len(sentPackages) : sentPackages[k] = handled[i]
      BY <1>5
    <3>2. /\ Len(sentPackages') = Len(sentPackages) - 1
          /\ \A j \in 1 .. Len(sentPackages) - 1 :
               sentPackages'[j] = IF j < e THEN sentPackages[j] ELSE sentPackages[j + 1]
      BY <1>1, <2>2, RemoveAtType
    <3>3. CASE k = e
      <4>1. SamePackage(handled'[Len(handled) + 1], handled'[i])
        BY <1>2, <1>3, <2>2, <3>1, <3>3 DEF SamePackage
      <4>2. Len(handled) + 1 \in i + 1 .. Len(handled')
        BY <1>1, <1>2, <1>3
      <4> QED
        BY <1>1, <1>2, <2>2, <4>1, <4>2
    <3>4. CASE k < e
      BY <1>1, <1>2, <1>3, <3>1, <3>2, <3>4
    <3>5. CASE k > e
      <4>1. k - 1 \in 1 .. Len(sentPackages') /\ sentPackages'[k - 1] = sentPackages[k]
        BY <1>1, <3>2, <3>5
      <4>2. handled'[i] = handled[i]
        BY <1>2, <1>3
      <4>3. sentPackages'[k - 1] = handled'[i]
        BY <3>1, <4>1, <4>2
      <4> QED
        BY <4>1, <4>3
    <3>6. k = e \/ k < e \/ k > e
      BY <1>1, <2>2, <3>1
    <3> QED
      BY <3>3, <3>4, <3>5, <3>6, Zenon
  <2> QED
    BY <1>1, <2>1, <2>2, AcknowledgementEffect
<1>6. handled[i].type = "Data"
  BY <1>2, <1>3
<1> QED
  BY <1>3, <1>4, <1>5, <1>6 DEF UnackedRetained

LEMMA RetainedSend ==
  ASSUME TypeInv, UnackedRetained, NEW t \in Thread, Send(t)
  PROVE  UnackedRetained'
<1> DEFINE p == package[t]
<1>1. /\ p \in Packages
      /\ handled \in Seq(Packages) /\ handled' = Append(handled, p)
      /\ sentPackages \in Seq(Packages)
      /\ sentPackages' = Remember(sentPackages, p)
  BY DEF Send, Handling, Finish, TypeInv, TypeOK, Sections
<1> HIDE DEF p
<1>2. /\ Len(handled') = Len(handled) + 1 /\ handled'[Len(handled) + 1] = p
      /\ \A j \in 1 .. Len(handled) : handled'[j] = handled[j]
  BY <1>1, AppendProperties
<1>3. /\ Len(sentPackages') \in Nat /\ Len(sentPackages) <= Len(sentPackages')
      /\ \A k \in 1 .. Len(sentPackages) : sentPackages'[k] = sentPackages[k]
      /\ p.type = "Data" => \E k \in 1 .. Len(sentPackages') : sentPackages'[k] = p
  BY <1>1, AppendProperties DEF Remember
<1> SUFFICES ASSUME NEW i \in 1 .. Len(handled'), handled'[i].type = "Data"
             PROVE  \/ \E k \in 1 .. Len(sentPackages') : sentPackages'[k] = handled'[i]
                    \/ \E j \in i + 1 .. Len(handled') :
                         /\ IsLocalAck(UseAck, handled'[j]) /\ SamePackage(handled'[j], handled'[i])
                         /\ PayloadString(handled'[j]) = "ack"
  BY DEF UnackedRetained
<1>4. CASE i = Len(handled) + 1
  BY <1>2, <1>3, <1>4
<1>5. CASE i \in 1 .. Len(handled)
  <2>1. CASE \E k \in 1 .. Len(sentPackages) : sentPackages[k] = handled[i]
    <3>1. PICK k \in 1 .. Len(sentPackages) : sentPackages[k] = handled[i]
      BY <2>1
    <3>2. k \in 1 .. Len(sentPackages')
      BY <1>1, <1>3
    <3> QED
      BY <1>2, <1>3, <1>5, <3>1, <3>2
  <2>2. CASE \E j \in i + 1 .. Len(handled) :
               /\ IsLocalAck(UseAck, handled[j]) /\ SamePackage(handled[j], handled[i])
               /\ PayloadString(handled[j]) = "ack"
    <3>1. PICK j \in i + 1 .. Len(handled) :
                 /\ IsLocalAck(UseAck, handled[j]) /\ SamePackage(handled[j], handled[i])
                 /\ PayloadString(handled[j]) = "ack"
      BY <2>2
    <3>2. j \in i + 1 .. Len(handled') /\ handled'[j] = handled[j]
          /\ handled'[i] = handled[i]
      BY <1>1, <1>2, <1>5
    <3> QED
      BY <3>1, <3>2
  <2>3. handled[i].type = "Data"
    BY <1>2, <1>5
  <2> QED
    BY <1>5, <2>1, <2>2, <2>3 DEF UnackedRetained
<1> QED
  BY <1>1, <1>2, <1>4, <1>5

LEMMA RetainedNext == TypeInv /\ UnackedRetained /\ [Next]_vars => UnackedRetained'
<1> SUFFICES ASSUME TypeInv, UnackedRetained, [Next]_vars PROVE UnackedRetained'
  OBVIOUS
<1>1. CASE UNCHANGED <<handled, sentPackages>>
  BY <1>1 DEF UnackedRetained
<1>2. CASE StopClear
  BY <1>2 DEF StopClear, UnackedRetained
<1>3. ASSUME NEW c \in Caller, CallerStep(c) PROVE UNCHANGED <<handled, sentPackages>>
  BY <1>3 DEF CallerStep, WriteCheck, WritePush, containers, history
<1>4. CASE OwnerStep /\ ~StopClear
  BY <1>1, <1>4 DEF OwnerStep, Start, StopBegin, Stopping, StopTestQueue, StopPop,
                    StopClose, containers, history
<1>5. ASSUME NEW t \in Thread, ThreadStep(t), ~HandleAck(t), ~Send(t)
      PROVE  UNCHANGED <<handled, sentPackages>>
  BY <1>5 DEF ThreadStep, Begin, Loop, Lock, Unlock, Take, Handle, WaitWhileLocked,
              containers, history
<1>6. CASE End \/ UNCHANGED vars
  BY <1>1, <1>6 DEF End, NonProcess, vars, containers, history
<1> QED
  BY <1>1, <1>2, <1>3, <1>4, <1>5, <1>6, RetainedAck, RetainedSend DEF Next, Step

\* A data package handed to the socket stays in sentPackages until a positive
\* acknowledgement of it has been taken from the queue, or stop() clears them.
THEOREM RetainedUntilAcknowledged == Spec => []UnackedRetained
<1>1. Init => UnackedRetained
  BY DEF Init, UnackedRetained
<1> QED
  BY <1>1, TypeCorrect, RetainedNext, PTL DEF Spec

-----------------------------------------------------------------------------
(***************************************************************************)
(* The writer implements SendQueue: each step maps to a step of it, or to  *)
(* a stutter.                                                              *)
(***************************************************************************)
AbstractStep == Abstract!QueueNext \/ UNCHANGED <<InHand \o msgQueue, sentPackages, transmitted>>

LEMMA InHandType ==
  ASSUME TypeInv
  PROVE  /\ InHand \in Seq(Packages) /\ Len(InHand) <= 1
         /\ msgQueue \in Seq(Packages)
         /\ InHand \o msgQueue \in Seq(Packages)
<1>1. InHand \in Seq(Packages) /\ Len(InHand) <= 1
  BY DEF TypeInv, TypeOK, Sections, InHand
<1>2. msgQueue \in Seq(Packages)
  BY DEF TypeInv, TypeOK
<1> QED
  BY <1>1, <1>2, ConcatProperties

\* A package followed by a queue is a queue with that package at its head.
LEMMA HeadTail ==
  ASSUME NEW m \in Seq(Packages)
  PROVE  /\ m # <<>> => <<Head(m)>> \o Tail(m) = <<>> \o m
         /\ \A p \in Packages : /\ <<p>> \o m # <<>> /\ Head(<<p>> \o m) = p
                               /\ Tail(<<p>> \o m) = <<>> \o m
<1>1. m # <<>> => <<Head(m)>> \o Tail(m) = m
  OBVIOUS
<1>2. <<>> \o m = m
  BY ConcatEmptySeq
<1>3. ASSUME NEW p \in Packages
      PROVE  /\ <<p>> \o m # <<>> /\ Head(<<p>> \o m) = p
             /\ Tail(<<p>> \o m) = m
  OBVIOUS
<1> QED
  BY <1>1, <1>2, <1>3

\* Dropping the first of what waits behind h drops one element of the whole.
LEMMA DropWaiting ==
  ASSUME NEW h \in Seq(Packages), NEW m \in Seq(Packages), m # <<>>
  PROVE  /\ Len(h) + 1 <= Len(h \o m)
         /\ h \o Tail(m) = Abstract!Without(h \o m, Len(h) + 1)
<1> DEFINE s == h \o m
           t == h \o Tail(m)
<1>1. /\ Tail(m) \in Seq(Packages) /\ Len(Tail(m)) = Len(m) - 1 /\ Len(m) >= 1
      /\ \A j \in 1 .. Len(m) - 1 : Tail(m)[j] = m[j + 1]
  BY HeadTailProperties, EmptySeq
<1>2. /\ s \in Seq(Packages) /\ Len(s) = Len(h) + Len(m)
      /\ \A j \in 1 .. Len(h) + Len(m) : s[j] = IF j <= Len(h) THEN h[j] ELSE m[j - Len(h)]
  BY ConcatProperties
<1>3. /\ t \in Seq(Packages) /\ Len(t) = Len(h) + Len(m) - 1
      /\ \A j \in 1 .. Len(h) + Len(m) - 1 :
           t[j] = IF j <= Len(h) THEN h[j] ELSE Tail(m)[j - Len(h)]
  BY <1>1, ConcatProperties
<1> HIDE DEF s, t
<1>4. ASSUME NEW j \in 1 .. Len(t)
      PROVE  t[j] = IF j < Len(h) + 1 THEN s[j] ELSE s[j + 1]
  <2>1. CASE j <= Len(h)
    BY <1>1, <1>2, <1>3, <2>1
  <2>2. CASE j > Len(h)
    <3>1. Tail(m)[j - Len(h)] = m[(j - Len(h)) + 1]
      BY <1>1, <1>3, <2>2
    <3>2. s[j + 1] = m[(j + 1) - Len(h)]
      BY <1>1, <1>2, <1>3, <2>2
    <3> QED
      BY <1>1, <1>3, <2>2, <3>1, <3>2
  <2> QED
    BY <1>1, <1>3, <2>1, <2>2
<1>5. t = [j \in 1 .. Len(s) - 1 |-> IF j < Len(h) + 1 THEN s[j] ELSE s[j + 1]]
  <2>1. t = [j \in 1 .. Len(t) |-> t[j]] /\ Len(t) = Len(s) - 1
    BY <1>1, <1>2, <1>3
  <2> QED
    BY <1>4, <2>1
<1>6. Len(h) + 1 <= Len(s) /\ t = Abstract!Without(s, Len(h) + 1)
  BY <1>1, <1>2, <1>5 DEF Abstract!Without
<1> QED
  BY <1>6 DEF s, t

\* A step that leaves the queues and the package in hand alone is a stutter.
LEMMA Stutter ==
  ASSUME UNCHANGED <<InHand, msgQueue, sentPackages, transmitted>>
  PROVE  AbstractStep
  BY DEF AbstractStep

LEMMA ImplementsCaller ==
  ASSUME TypeInv, NEW c \in Caller, CallerStep(c)
  PROVE  AbstractStep
<1>1. CASE \E p \in Outgoing : WriteCheck(c, p)
  BY <1>1, Stutter DEF WriteCheck, InHand, containers
<1>2. CASE WritePush(c)
  <2>1. InHand = <<>> /\ InHand' = <<>>
    BY <1>2 DEF WritePush, InHand
  <2>2. msgQueue' = Append(msgQueue, writing[c]) /\ writing[c] \in Outgoing
        /\ UNCHANGED <<sentPackages, transmitted>>
    BY <1>2 DEF WritePush, TypeInv, TypeOK, history
  <2>3. (InHand \o msgQueue)' = Append(InHand \o msgQueue, writing[c])
    <3>1. msgQueue \in Seq(Packages) /\ msgQueue' \in Seq(Packages)
      BY <2>2, WriterAssumption DEF TypeInv, TypeOK
    <3> QED
      BY <2>1, <2>2, <3>1, ConcatEmptySeq
  <2>4. Abstract!Accept
    <3>1. InHand \o msgQueue \in Seq(Packages) /\ writing[c] \in Packages
      BY <2>2, InHandType, WriterAssumption
    <3>2. /\ (InHand \o msgQueue)' # <<>>
          /\ Front((InHand \o msgQueue)') = InHand \o msgQueue
          /\ Last((InHand \o msgQueue)') = writing[c]
      BY <2>3, <3>1, BehindProperties
    <3> QED
      BY <2>2, <3>2 DEF Abstract!Accept, Abstract!Front, Abstract!Last, Front, Last
  <2> QED
    BY <2>4 DEF AbstractStep, Abstract!QueueNext
<1> QED
  BY <1>1, <1>2 DEF CallerStep

LEMMA ImplementsOwner ==
  ASSUME TypeInv, OwnerStep
  PROVE  AbstractStep
<1> USE DEF containers, history
<1>1. CASE Start
  <2>1. guard # None => guard \in Thread /\ pc[guard] # "unborn"
    BY DEF TypeInv, TypeOK, Sections, InSection
  <2>2. ~running => pc[starts + 1] = "unborn" /\ pc' = [pc EXCEPT ![starts + 1] = "spawned"]
    BY <1>1, WriterAssumption DEF Start, TypeInv, TypeOK, Sections, Thread
  <2>3. InHand' = InHand
    BY <1>1, <2>1, <2>2 DEF Start, InHand, TypeInv, TypeOK
  <2> QED
    BY <1>1, <2>3, Stutter DEF Start
<1>2. CASE StopBegin
  BY <1>2, Stutter DEF StopBegin, InHand
<1>3. CASE StopTestQueue
  BY <1>3, Stutter DEF StopTestQueue, InHand
<1>4. CASE StopPop
  <2> DEFINE i == Len(InHand) + 1
  <2>1. /\ InHand \in Seq(Packages) /\ (Len(InHand) = 0 \/ Len(InHand) = 1)
        /\ msgQueue \in Seq(Packages) /\ msgQueue # <<>>
        /\ msgQueue' = Tail(msgQueue) /\ InHand' = InHand
        /\ UNCHANGED <<sentPackages, transmitted>>
    BY <1>4, InHandType DEF StopPop, InHand
  <2>2. /\ i <= Len(InHand \o msgQueue)
        /\ InHand \o Tail(msgQueue) = Abstract!Without(InHand \o msgQueue, i)
    BY <2>1, DropWaiting
  <2>3. i = 1 \/ i = 2
    <3>1. CASE Len(InHand) = 0
      BY <3>1
    <3>2. CASE Len(InHand) = 1
      BY <3>2
    <3> QED
      BY <2>1, <3>1, <3>2
  <2>4. (InHand \o msgQueue)' = InHand \o Tail(msgQueue)
    BY <2>1
  <2> HIDE DEF i
  <2>5. Abstract!Discard
    BY <2>1, <2>2, <2>3, <2>4 DEF Abstract!Discard
  <2> QED
    BY <2>5 DEF AbstractStep, Abstract!QueueNext
<1>5. CASE StopClear
  <2>1. InHand' = InHand
    BY <1>5 DEF StopClear, InHand
  <2>2. Abstract!Forget
    BY <1>5, <2>1 DEF StopClear, Abstract!Forget
  <2> QED
    BY <2>2 DEF AbstractStep, Abstract!QueueNext
<1>6. CASE StopClose
  BY <1>6, Stutter DEF StopClose, InHand
<1> QED
  BY <1>1, <1>2, <1>3, <1>4, <1>5, <1>6 DEF OwnerStep, Stopping

LEMMA ImplementsLoop ==
  ASSUME TypeInv, NEW t \in Thread,
         Begin(t) \/ Loop(t) \/ Lock(t) \/ Unlock(t) \/ Take(t) \/ WaitWhileLocked(t)
  PROVE  AbstractStep
<1> USE DEF containers, history, Goto
<1>0. /\ None \notin Thread /\ DOMAIN pc = Thread /\ pc = [u \in Thread |-> pc[u]]
      /\ guard \in Thread \cup {None}
      /\ \A u \in Thread : InSection(u) <=> guard = u
  BY WriterAssumption DEF TypeInv, TypeOK, Sections, Thread
<1>1. CASE Begin(t) \/ Loop(t)
  <2>1. guard # t
    BY <1>0, <1>1 DEF Begin, Loop, InSection
  <2>2. InHand' = InHand
    BY <1>0, <1>1, <2>1 DEF Begin, Loop, InHand
  <2> QED
    BY <1>1, <2>2, Stutter DEF Begin, Loop
<1>2. CASE Lock(t)
  <2>1. InHand = <<>> /\ InHand' = <<>>
    BY <1>0, <1>2 DEF Lock, InHand
  <2> QED
    BY <1>2, <2>1, Stutter DEF Lock
<1>3. CASE Unlock(t)
  <2>1. guard = t
    BY <1>0, <1>3 DEF Unlock, InSection
  <2>2. InHand = <<>> /\ InHand' = <<>>
    BY <1>0, <1>3, <2>1 DEF Unlock, InHand
  <2> QED
    BY <1>3, <2>2, Stutter DEF Unlock
<1>4. CASE Take(t)
  <2>1. guard = t
    BY <1>0, <1>4 DEF Take, InSection
  <2>2. InHand = <<>>
    BY <1>4, <2>1 DEF Take, InHand
  <2>3. InHand' = <<Head(msgQueue)>> /\ msgQueue' = Tail(msgQueue)
    BY <1>0, <1>4, <2>1 DEF Take, InHand, TypeInv, TypeOK
  <2>4. msgQueue \in Seq(Packages) /\ msgQueue # <<>>
    BY <1>4 DEF Take, TypeInv, TypeOK
  <2>5. (InHand \o msgQueue)' = InHand \o msgQueue
    BY <2>2, <2>3, <2>4, HeadTail
  <2> QED
    BY <1>4, <2>5 DEF AbstractStep, Take
<1>5. CASE WaitWhileLocked(t)
  <2>1. guard = t
    BY <1>0, <1>5 DEF WaitWhileLocked, Handling, InSection
  <2>2. InHand' = InHand
    BY <1>0, <1>5, <2>1 DEF WaitWhileLocked, Handling, InHand
  <2> QED
    BY <1>5, <2>2, Stutter DEF WaitWhileLocked
<1> QED
  BY <1>1, <1>2, <1>3, <1>4, <1>5

\* The package in hand while handlePackage() runs, and what is left of it.
LEMMA ImplementsFinish ==
  ASSUME TypeInv, NEW t \in Thread, Handling(t), Finish(t), UNCHANGED msgQueue
  PROVE  LET q == InHand \o msgQueue
         IN  q # <<>> /\ Head(q) = package[t] /\ q' = Tail(q)
<1>1. guard = t /\ package[t] \in Packages /\ None \notin Thread
  BY WriterAssumption DEF Handling, TypeInv, Sections, InSection, Thread
<1>2. InHand = <<package[t]>> /\ InHand' = <<>>
  BY <1>1 DEF Handling, Finish, InHand
<1>3. msgQueue \in Seq(Packages) /\ msgQueue' = msgQueue
  BY DEF TypeInv, TypeOK
<1> QED
  BY <1>1, <1>2, <1>3, HeadTail

LEMMA ImplementsHandleAck ==
  ASSUME TypeInv, NEW t \in Thread, HandleAck(t)
  PROVE  AbstractStep
<1> DEFINE p == package[t]
           q == InHand \o msgQueue
           named == {i \in 1 .. Len(sentPackages) : SamePackage(sentPackages[i], p)}
<1>1. q # <<>> /\ Head(q) = p /\ q' = Tail(q)
  BY ImplementsFinish DEF HandleAck
<1>2. /\ p \in Packages /\ sentPackages \in Seq(Packages) /\ IsLocalAck(UseAck, p)
      /\ sentPackages' = handleAcknowledgementMessages(sentPackages, p)
      /\ UNCHANGED transmitted
  BY DEF HandleAck, Handling, TypeInv, TypeOK, Sections
<1> HIDE DEF p, q
<1>3. Abstract!MeantForUs(p)
  BY <1>2 DEF IsLocalAck, HasDestination, NoAddress, Abstract!MeantForUs, Abstract!NoAddress
<1>4. IF PayloadString(p) = "ack" /\ named # {}
      THEN \E i \in named : sentPackages' = Abstract!Without(sentPackages, i)
      ELSE UNCHANGED sentPackages
  <2>1. CASE PayloadString(p) # "ack" \/ named = {}
    BY <1>2, <2>1 DEF handleAcknowledgementMessages
  <2>2. CASE PayloadString(p) = "ack" /\ named # {}
    <3>1. PICK i \in named : sentPackages' = RemoveAt(sentPackages, i)
      BY <1>2, <2>2, AcknowledgementEffect
    <3>2. /\ sentPackages' \in Seq(Packages) /\ Len(sentPackages') = Len(sentPackages) - 1
          /\ \A j \in 1 .. Len(sentPackages) - 1 :
               sentPackages'[j] = IF j < i THEN sentPackages[j] ELSE sentPackages[j + 1]
      BY <1>2, <3>1, RemoveAtType
    <3>3. sentPackages' = [j \in 1 .. Len(sentPackages') |-> sentPackages'[j]]
      BY <3>2
    <3>4. sentPackages' = Abstract!Without(sentPackages, i)
      BY <3>2, <3>3 DEF Abstract!Without
    <3> QED
      BY <2>2, <3>1, <3>4
  <2> QED
    BY <2>1, <2>2
<1>5. Abstract!Settle
  BY <1>1, <1>2, <1>3, <1>4 DEF Abstract!Settle, Abstract!PayloadString, PayloadString,
     Abstract!SamePackage, SamePackage, q
<1> QED
  BY <1>5 DEF AbstractStep, Abstract!QueueNext

LEMMA ImplementsSend ==
  ASSUME TypeInv, NEW t \in Thread, Send(t)
  PROVE  AbstractStep
<1> DEFINE p == package[t]
           q == InHand \o msgQueue
<1>1. q # <<>> /\ Head(q) = p /\ q' = Tail(q)
  BY ImplementsFinish DEF Send
<1>2. /\ p \in Packages /\ ~IsLocalAck(UseAck, p) /\ ~IsEmpty(p)
      /\ sentPackages' = Remember(sentPackages, p)
      /\ \/ UNCHANGED transmitted
         \/ transmitted' = Append(transmitted, [to |-> DestinationOf(NextNode, p), json |-> ToJson(p)])
  BY DEF Send, Handling, TypeInv, TypeOK, Sections
<1> HIDE DEF p, q
<1>3. ~Abstract!MeantForUs(p) /\ ~Abstract!IsEmpty(p)
  BY <1>2 DEF IsLocalAck, HasDestination, NoAddress, Abstract!MeantForUs,
              Abstract!NoAddress, IsEmpty, Abstract!IsEmpty
<1>4. DestinationOf(NextNode, p) \in Abstract!Address /\ Abstract!ToJson(p) = ToJson(p)
  BY <1>2, DestinationType DEF Address, Abstract!Address, ToJson, Abstract!ToJson,
     TypeAsString, Abstract!TypeAsString, PayloadString, Abstract!PayloadString
<1>5. Abstract!Transmit
  BY <1>1, <1>2, <1>3, <1>4 DEF Abstract!Transmit, Remember, q
<1> QED
  BY <1>5 DEF AbstractStep, Abstract!QueueNext

LEMMA ImplementsNext == TypeInv /\ [Next]_vars => AbstractStep
<1> SUFFICES ASSUME TypeInv, [Next]_vars PROVE AbstractStep
  OBVIOUS
<1>1. CASE Step
  BY <1>1, ImplementsCaller, ImplementsOwner, ImplementsLoop, ImplementsHandleAck,
     ImplementsSend DEF Step, ThreadStep, Handle
<1>2. CASE End \/ UNCHANGED vars
  <2>1. UNCHANGED <<InHand, msgQueue, sentPackages, transmitted>>
    BY <1>2 DEF End, NonProcess, vars, containers, history, InHand
  <2> QED
    BY <2>1, Stutter
<1> QED
  BY <1>1, <1>2 DEF Next

\* Threads, locks and restarts are invisible: the queue with the package in
\* hand at its head, the sent packages and the datagrams that left behave as
\* SendQueue says.
THEOREM WriterImplementsSendQueue == Spec => ImplementsSendQueue
<1>1. Init => Abstract!QueueInit
  BY DEF Init, InHand, Abstract!QueueInit
<1>2. TypeInv /\ [Next]_vars => [Abstract!QueueNext]_(Abstract!queueVars)
  BY ImplementsNext DEF AbstractStep, Abstract!queueVars
<1> QED
  BY <1>1, <1>2, TypeCorrect, PTL DEF Spec, ImplementsSendQueue, Abstract!QueueSpec

-----------------------------------------------------------------------------
(***************************************************************************)
(* No package leaves twice.  A package given to write() is in one place    *)
(* only until it is handled: with a caller, in the queue, or in the hand   *)
(* of a writer thread; and one that has left is in none of them.           *)
(***************************************************************************)
Written(p) == \E c \in Caller : writing[c] = p
Queued(p) == \E i \in 1 .. Len(msgQueue) : msgQueue[i] = p
Taken(p) == \E t \in Thread : pc[t] = "handling" /\ package[t] = p
Waiting(p) == Written(p) \/ Queued(p) \/ Taken(p)

OnePlace ==
  /\ \A p \in Packages : Waiting(p) => p \in offered
  /\ \A c, d \in Caller : writing[c] # None /\ writing[c] = writing[d] => c = d
  /\ \A i, j \in 1 .. Len(msgQueue) : msgQueue[i] = msgQueue[j] => i = j
  /\ \A p \in Packages : /\ ~(Written(p) /\ Queued(p))
                         /\ ~(Written(p) /\ Taken(p))
                         /\ ~(Queued(p) /\ Taken(p))

\* sent tells which package each datagram was.
Tells(sent) ==
  /\ sent \in [1 .. Len(transmitted) -> MaySend]
  /\ \A i \in 1 .. Len(transmitted) : transmitted[i].json = ToJson(sent[i])
  /\ \A i, j \in 1 .. Len(transmitted) : i # j => sent[i] # sent[j]
  /\ \A i \in 1 .. Len(transmitted) : ~Waiting(sent[i])

OnceInv == OnePlace /\ \E sent : Tells(sent)

\* A step that sends nothing and puts no package where it has not been.
LEMMA TellsKept ==
  ASSUME TypeInv, TypeInv', UNCHANGED transmitted, NEW sent, Tells(sent),
         offered \subseteq offered',
         \A p \in offered : Waiting(p)' => Waiting(p)
  PROVE  Tells(sent)'
<1>1. /\ MaySend \subseteq MaySend' /\ MaySend \subseteq offered
      /\ Len(transmitted) \in Nat /\ transmitted' = transmitted
  BY DEF MaySend, TypeInv, TypeOK
<1>2. sent \in [1 .. Len(transmitted) -> MaySend']
  BY <1>1 DEF Tells
<1>3. \A i \in 1 .. Len(transmitted) : sent[i] \in offered /\ ~Waiting(sent[i])
  BY <1>1 DEF Tells
<1>4. \A i \in 1 .. Len(transmitted) : ~(Waiting(sent[i])')
  BY <1>3
<1> QED
  BY <1>1, <1>2, <1>4 DEF Tells

LEMMA OnceKept ==
  ASSUME TypeInv, TypeInv', OnceInv, UNCHANGED <<writing, msgQueue, offered, transmitted>>,
         \A t \in Thread : pc'[t] = "handling" => pc[t] = "handling" /\ package'[t] = package[t]
  PROVE  OnceInv'
<1>1. \A p : (Written(p)' <=> Written(p)) /\ (Queued(p)' <=> Queued(p))
             /\ (Taken(p)' => Taken(p))
  BY DEF Written, Queued, Taken
<1>2. \A p : Waiting(p)' => Waiting(p)
  BY <1>1 DEF Waiting
<1>3. OnePlace'
  BY <1>1, <1>2 DEF OnceInv, OnePlace
<1>4. PICK sent : Tells(sent)
  BY DEF OnceInv
<1>5. Tells(sent)'
  BY <1>2, <1>4, TellsKept
<1> QED
  BY <1>3, <1>5 DEF OnceInv

LEMMA OnceWriteCheck ==
  ASSUME TypeInv, TypeInv', OnceInv, NEW c \in Caller, NEW p \in Outgoing, WriteCheck(c, p)
  PROVE  OnceInv'
<1> USE DEF containers
<1>1. /\ offered' = offered \cup {p} /\ p \notin offered /\ p \in Packages
      /\ writing \in [Caller -> Outgoing \cup {None}]
      /\ writing' = writing \/ writing' = [writing EXCEPT ![c] = p]
      /\ UNCHANGED <<msgQueue, pc, package, transmitted>>
  BY WriterAssumption DEF WriteCheck, TypeInv, TypeOK
<1>2. \A q : /\ Queued(q)' <=> Queued(q)
             /\ Taken(q)' <=> Taken(q)
             /\ q # p => (Written(q)' => Written(q))
  BY <1>1 DEF Written, Queued, Taken
<1>3. ~Waiting(p)
  BY <1>1 DEF OnceInv, OnePlace
<1>4. \A q : q # p => (Waiting(q)' => Waiting(q))
  BY <1>2 DEF Waiting
<1>5. OnePlace'
  <2>1. \A q \in Packages : Waiting(q)' => q \in offered'
    BY <1>1, <1>4 DEF OnceInv, OnePlace
  <2>2. \A b, d \in Caller : writing'[b] # None /\ writing'[b] = writing'[d] => b = d
    BY <1>1, <1>3 DEF OnceInv, OnePlace, Waiting, Written
  <2>3. \A q \in Packages : /\ ~(Written(q)' /\ Queued(q)')
                            /\ ~(Written(q)' /\ Taken(q)')
                            /\ ~(Queued(q)' /\ Taken(q)')
    BY <1>2, <1>3 DEF OnceInv, OnePlace, Waiting
  <2>4. \A i, j \in 1 .. Len(msgQueue') : msgQueue'[i] = msgQueue'[j] => i = j
    BY <1>1 DEF OnceInv, OnePlace
  <2> QED
    BY <2>1, <2>2, <2>3, <2>4 DEF OnePlace
<1>6. PICK sent : Tells(sent)
  BY DEF OnceInv
<1>7. \A q \in offered : Waiting(q)' => Waiting(q)
  BY <1>1, <1>4
<1>8. Tells(sent)'
  BY <1>1, <1>6, <1>7, TellsKept
<1> QED
  BY <1>5, <1>8 DEF OnceInv

LEMMA OnceWritePush ==
  ASSUME TypeInv, TypeInv', OnceInv, NEW c \in Caller, WritePush(c)
  PROVE  OnceInv'
<1> DEFINE p == writing[c]
<1>1. /\ p \in Packages /\ p # None /\ Written(p)
      /\ msgQueue \in Seq(Packages) /\ msgQueue' = Append(msgQueue, p)
      /\ writing \in [Caller -> Outgoing \cup {None}]
      /\ writing' = [writing EXCEPT ![c] = None]
      /\ UNCHANGED <<pc, package, transmitted, offered>>
  BY WriterAssumption DEF WritePush, history, TypeInv, TypeOK, Written
<1>2. /\ Len(msgQueue') = Len(msgQueue) + 1 /\ Len(msgQueue) \in Nat
      /\ msgQueue'[Len(msgQueue) + 1] = p
      /\ \A i \in 1 .. Len(msgQueue) : msgQueue'[i] = msgQueue[i]
  BY <1>1, AppendProperties
<1>3. \A q : /\ Queued(q)' <=> Queued(q) \/ q = p
             /\ Taken(q)' <=> Taken(q)
  <2>1. \A q : Taken(q)' <=> Taken(q)
    BY <1>1 DEF Taken
  <2>2. \A q : Queued(q)' <=> Queued(q) \/ q = p
    <3>1. 1 .. Len(msgQueue') = (1 .. Len(msgQueue)) \cup {Len(msgQueue) + 1}
      BY <1>2
    <3> QED
      BY <1>2, <3>1 DEF Queued
  <2> QED
    BY <2>1, <2>2
<1>4. \A q \in Packages : Written(q)' => Written(q) /\ q # p
  BY <1>1, WriterAssumption DEF OnceInv, OnePlace, Written
<1>5. \A q \in Packages : Waiting(q)' => Waiting(q)
  BY <1>1, <1>3, <1>4 DEF Waiting
<1>6. OnePlace'
  <2>1. \A q \in Packages : Waiting(q)' => q \in offered'
    BY <1>1, <1>5 DEF OnceInv, OnePlace
  <2>2. \A b, d \in Caller : writing'[b] # None /\ writing'[b] = writing'[d] => b = d
    BY <1>1 DEF OnceInv, OnePlace
  <2>3. \A q \in Packages : /\ ~(Written(q)' /\ Queued(q)')
                            /\ ~(Written(q)' /\ Taken(q)')
                            /\ ~(Queued(q)' /\ Taken(q)')
    BY <1>1, <1>3, <1>4 DEF OnceInv, OnePlace
  <2>4. \A i, j \in 1 .. Len(msgQueue') : msgQueue'[i] = msgQueue'[j] => i = j
    <3>1. ~Queued(p)
      BY <1>1 DEF OnceInv, OnePlace
    <3>2. \A i \in 1 .. Len(msgQueue) : msgQueue[i] # p
      BY <3>1 DEF Queued
    <3>3. \A i, j \in 1 .. Len(msgQueue) : msgQueue[i] = msgQueue[j] => i = j
      BY DEF OnceInv, OnePlace
    <3> QED
      BY <1>2, <3>2, <3>3
  <2> QED
    BY <2>1, <2>2, <2>3, <2>4 DEF OnePlace
<1>7. PICK sent : Tells(sent)
  BY DEF OnceInv
<1>8. \A q \in offered : Waiting(q)' => Waiting(q)
  BY <1>5, WriterAssumption DEF TypeInv, TypeOK
<1>9. Tells(sent)'
  BY <1>1, <1>7, <1>8, TellsKept
<1> QED
  BY <1>6, <1>9 DEF OnceInv

\* What is left of a queue of different packages without its first one.
LEMMA TailQueued ==
  ASSUME TypeInv, OnceInv, msgQueue # <<>>, msgQueue' = Tail(msgQueue)
  PROVE  /\ Head(msgQueue) \in Packages /\ Queued(Head(msgQueue))
         /\ \A q : Queued(q)' => Queued(q) /\ q # Head(msgQueue)
         /\ \A i, j \in 1 .. Len(msgQueue') : msgQueue'[i] = msgQueue'[j] => i = j
<1>1. msgQueue \in Seq(Packages)
  BY DEF TypeInv, TypeOK
<1>2. /\ Len(msgQueue') = Len(msgQueue) - 1 /\ Len(msgQueue) \in Nat \ {0}
      /\ \A i \in 1 .. Len(msgQueue') : msgQueue'[i] = msgQueue[i + 1]
      /\ Head(msgQueue) = msgQueue[1] /\ Head(msgQueue) \in Packages
  BY <1>1, HeadTailProperties, EmptySeq
<1>3. \A i, j \in 1 .. Len(msgQueue) : msgQueue[i] = msgQueue[j] => i = j
  BY DEF OnceInv, OnePlace
<1>4. \A i \in 1 .. Len(msgQueue') : i + 1 \in 1 .. Len(msgQueue) /\ i + 1 # 1
  BY <1>2
<1>5. 1 \in 1 .. Len(msgQueue)
  BY <1>2
<1>6. \A i, j \in 1 .. Len(msgQueue') : msgQueue'[i] = msgQueue'[j] => i = j
  <2> SUFFICES ASSUME NEW i \in 1 .. Len(msgQueue'), NEW j \in 1 .. Len(msgQueue'),
                      msgQueue'[i] = msgQueue'[j]
               PROVE  i = j
    OBVIOUS
  <2>1. i + 1 = j + 1
    BY <1>2, <1>3, <1>4
  <2> QED
    BY <2>1
<1>7. \A i \in 1 .. Len(msgQueue') : msgQueue'[i] # Head(msgQueue)
  BY <1>2, <1>3, <1>4, <1>5
<1> QED
  BY <1>2, <1>4, <1>5, <1>6, <1>7 DEF Queued

LEMMA OnceStopPop ==
  ASSUME TypeInv, TypeInv', OnceInv, StopPop
  PROVE  OnceInv'
<1>1. /\ msgQueue # <<>> /\ msgQueue' = Tail(msgQueue)
      /\ UNCHANGED <<writing, pc, package, transmitted, offered>>
  BY DEF StopPop, history
<1>2. \A q : /\ Written(q)' <=> Written(q)
             /\ Taken(q)' <=> Taken(q)
             /\ Queued(q)' => Queued(q)
  BY <1>1, TailQueued DEF Written, Taken
<1>3. \A q : Waiting(q)' => Waiting(q)
  BY <1>2 DEF Waiting
<1>4. OnePlace'
  BY <1>1, <1>2, <1>3, TailQueued DEF OnceInv, OnePlace
<1>5. PICK sent : Tells(sent)
  BY DEF OnceInv
<1>6. Tells(sent)'
  BY <1>1, <1>3, <1>5, TellsKept
<1> QED
  BY <1>4, <1>6 DEF OnceInv

LEMMA OnceTake ==
  ASSUME TypeInv, TypeInv', OnceInv, NEW t \in Thread, Take(t)
  PROVE  OnceInv'
<1>0. PICK p : p = Head(msgQueue)
  OBVIOUS
<1>1. /\ msgQueue # <<>> /\ msgQueue' = Tail(msgQueue)
      /\ UNCHANGED <<writing, transmitted, offered>>
      /\ package' = [package EXCEPT ![t] = p] /\ pc' = [pc EXCEPT ![t] = "handling"]
      /\ DOMAIN package = Thread /\ DOMAIN pc = Thread
  BY <1>0 DEF Take, Goto, history, TypeInv, TypeOK
<1>2. \A u \in Thread : pc[u] # "handling"
  BY DEF Take, TypeInv, Sections, InSection
<1>3. p \in Packages /\ Queued(p) /\ \A q : Queued(q)' => Queued(q) /\ q # p
  BY <1>0, <1>1, TailQueued
<1>4. \A q : /\ Written(q)' <=> Written(q)
             /\ Taken(q)' <=> q = p
  BY <1>1, <1>2 DEF Written, Taken
<1>5. \A q : Waiting(q)' => Waiting(q)
  BY <1>3, <1>4 DEF Waiting
<1>6. OnePlace'
  BY <1>1, <1>3, <1>4, <1>5, TailQueued DEF OnceInv, OnePlace
<1>7. PICK sent : Tells(sent)
  BY DEF OnceInv
<1>8. Tells(sent)'
  BY <1>1, <1>5, <1>7, TellsKept
<1> QED
  BY <1>6, <1>8 DEF OnceInv

\* The package that leaves is the one in hand, which has not left before.
LEMMA OnceSend ==
  ASSUME TypeInv, TypeInv', OnceInv, NEW t \in Thread, Send(t), transmitted' # transmitted
  PROVE  OnceInv'
<1>0. PICK p, n : p = package[t] /\ n = Len(transmitted)
  OBVIOUS
<1>1. /\ p \in Packages /\ ~IsLocalAck(UseAck, p)
      /\ transmitted' = Append(transmitted, [to |-> DestinationOf(NextNode, p), json |-> ToJson(p)])
      /\ UNCHANGED <<msgQueue, writing, offered>>
  BY <1>0 DEF Send, Handling, TypeInv, Sections
<1>2. /\ pc[t] = "handling" /\ pc' = [pc EXCEPT ![t] = "loop"]
      /\ package' = [package EXCEPT ![t] = None]
      /\ DOMAIN package = Thread /\ DOMAIN pc = Thread
      /\ \A u \in Thread : pc[u] = "handling" => u = t
  BY DEF Send, Handling, Finish, Goto, TypeInv, TypeOK, Sections, InSection
<1>3. Taken(p)
  BY <1>0, <1>2 DEF Taken
<1>4. \A q : /\ Written(q)' <=> Written(q)
             /\ Queued(q)' <=> Queued(q)
             /\ ~(Taken(q)')
  BY <1>1, <1>2 DEF Written, Queued, Taken
<1>5. \A q : Waiting(q)' => Waiting(q)
  BY <1>4 DEF Waiting
<1>6. Waiting(p) /\ ~(Waiting(p)') /\ p \in MaySend
  BY <1>1, <1>3, <1>4 DEF Waiting, OnceInv, OnePlace, MaySend
<1>7. OnePlace'
  BY <1>1, <1>4, <1>5 DEF OnceInv, OnePlace
<1>8. /\ n \in Nat /\ Len(transmitted') = n + 1 /\ transmitted'[n + 1].json = ToJson(p)
      /\ \A i \in 1 .. n : transmitted'[i] = transmitted[i]
  <2> DEFINE d == [to |-> DestinationOf(NextNode, p), json |-> ToJson(p)]
  <2>1. transmitted \in Seq(Datagram) /\ d \in Datagram
    BY <1>0, <1>1, JsonType, DestinationType DEF Datagram, TypeInv, TypeOK
  <2>2. d.json = ToJson(p)
    OBVIOUS
  <2>3. transmitted' = Append(transmitted, d)
    BY <1>1
  <2> HIDE DEF d
  <2> QED
    BY <1>0, <2>1, <2>2, <2>3, AppendProperties
<1>9. PICK sent : Tells(sent)
  BY DEF OnceInv
<1> DEFINE sent1 == [i \in 1 .. n + 1 |-> IF i = n + 1 THEN p ELSE sent[i]]
<1>10. /\ \A i \in 1 .. n : /\ sent[i] \in MaySend /\ ~Waiting(sent[i]) /\ sent[i] # p
                            /\ transmitted[i].json = ToJson(sent[i])
       /\ \A i, j \in 1 .. n : i # j => sent[i] # sent[j]
  BY <1>0, <1>6, <1>9 DEF Tells
<1>11. MaySend' = MaySend
  BY <1>1 DEF MaySend
<1>12. \A i \in 1 .. n + 1 : i = n + 1 \/ i \in 1 .. n
  BY <1>8
<1>13. /\ sent1[n + 1] = p
       /\ \A i \in 1 .. n : sent1[i] = sent[i]
  BY <1>8
<1>14. sent1 \in [1 .. n + 1 -> MaySend]
  BY <1>6, <1>10, <1>12
<1> HIDE DEF sent1
<1>15. Tells(sent1)'
  <2>1. sent1 \in [1 .. Len(transmitted') -> MaySend']
    BY <1>8, <1>11, <1>14
  <2>2. ASSUME NEW i \in 1 .. n + 1
        PROVE  transmitted'[i].json = ToJson(sent1[i]) /\ ~(Waiting(sent1[i])')
    BY <1>5, <1>6, <1>8, <1>10, <1>12, <1>13
  <2>3. \A i, j \in 1 .. n + 1 : i # j => sent1[i] # sent1[j]
    BY <1>10, <1>12, <1>13
  <2> QED
    BY <1>8, <2>1, <2>2, <2>3 DEF Tells
<1> QED
  BY <1>7, <1>15 DEF OnceInv

LEMMA OnceNext == TypeInv /\ OnceInv /\ [Next]_vars => OnceInv'
<1> SUFFICES ASSUME TypeInv, OnceInv, [Next]_vars PROVE OnceInv'
  OBVIOUS
<1> USE DEF containers, history
<1>0. TypeInv' /\ pc \in [Thread -> {"unborn", "spawned", "loop", "locking", "idle",
                                     "taking", "handling", "stuck", "done"}]
  BY TypeInvNext DEF TypeInv, TypeOK
<1>1. ASSUME NEW c \in Caller, CallerStep(c) PROVE OnceInv'
  BY <1>0, <1>1, OnceWriteCheck, OnceWritePush DEF CallerStep
<1>2. CASE OwnerStep /\ ~StopPop
  BY <1>0, <1>2, OnceKept DEF OwnerStep, Start, StopBegin, Stopping, StopTestQueue,
                              StopClear, StopClose
<1>3. ASSUME NEW t \in Thread, Begin(t) \/ Loop(t) \/ Lock(t) \/ Unlock(t) \/ WaitWhileLocked(t)
      PROVE  OnceInv'
  <2>1. /\ UNCHANGED <<writing, msgQueue, offered, transmitted, package>>
        /\ \A u \in Thread : pc'[u] = "handling" => pc[u] = "handling"
    BY <1>0, <1>3 DEF Begin, Loop, Lock, Unlock, WaitWhileLocked, Goto
  <2> QED
    BY <1>0, <2>1, OnceKept
<1>4. ASSUME NEW t \in Thread, Finish(t), UNCHANGED <<writing, msgQueue, offered, transmitted>>
      PROVE  OnceInv'
  <2>1. \A u \in Thread : pc'[u] = "handling" => pc[u] = "handling" /\ package'[u] = package[u]
    BY <1>0, <1>4 DEF Finish, Goto, TypeInv, TypeOK
  <2> QED
    BY <1>0, <1>4, <2>1, OnceKept
<1>5. ASSUME NEW t \in Thread, HandleAck(t) \/ Send(t) PROVE OnceInv'
  BY <1>0, <1>4, <1>5, OnceSend DEF HandleAck, Send
<1>6. CASE End \/ UNCHANGED vars
  <2>1. UNCHANGED <<writing, msgQueue, offered, transmitted, package, pc>>
    BY <1>6 DEF End, NonProcess, vars
  <2> QED
    BY <1>0, <2>1, OnceKept
<1> QED
  BY <1>0, <1>1, <1>2, <1>3, <1>5, <1>6, OnceStopPop, OnceTake
  DEF Next, Step, OwnerStep, Stopping, ThreadStep, Handle

\* A package given to write() leaves the node at most once, whatever start(),
\* stop() and the writer threads do between two of its steps, and an
\* acknowledgement that is meant for this node never does.
THEOREM SentAtMostOnce == Spec => []TransmittedOnce
<1>1. Init => OnceInv
  <2> SUFFICES ASSUME Init PROVE OnceInv
    OBVIOUS
  <2>1. /\ Len(msgQueue) = 0 /\ Len(transmitted) = 0
        /\ \A c \in Caller : writing[c] = None
        /\ \A t \in Thread : pc[t] # "handling"
        /\ None \notin Packages
    BY WriterAssumption DEF Init
  <2>2. OnePlace
    BY <2>1 DEF OnePlace, Waiting, Written, Queued, Taken
  <2>3. Tells([i \in {} |-> None])
    <3>1. 1 .. Len(transmitted) = {}
      BY <2>1
    <3> QED
      BY <3>1 DEF Tells
  <2> QED
    BY <2>2, <2>3 DEF OnceInv
<1>2. OnceInv => TransmittedOnce
  BY DEF OnceInv, Tells, TransmittedOnce
<1> QED
  BY <1>1, <1>2, TypeCorrect, OnceNext, PTL DEF Spec
=============================================================================
