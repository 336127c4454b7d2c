---------------------------- MODULE LifecycleProofs ----------------------------
(***************************************************************************)
(* What holds of a node over any number of lives, whatever comes in.       *)
(***************************************************************************)
EXTENDS Lifecycle, PackageProofs

-----------------------------------------------------------------------------
(***************************************************************************)
(* The reader in the hands of the node: its steps are those that           *)
(* NetworkReader allows.                                                   *)
(***************************************************************************)
LEMMA SamePackages == Net!Packages = Packages
  BY DEF Net!Packages, Packages, Net!Type, Type, Net!Address, Address

LEMMA ArrivalType ==
  \A d \in Incoming : Net!Arrival(UseAck, Net!Received(d)) \in Seq(Packages)
<1> SUFFICES ASSUME NEW d \in Incoming
             PROVE  Net!Arrival(UseAck, Net!Received(d)) \in Seq(Packages)
  OBVIOUS
<1> DEFINE p == Received(d)
<1>1. d.json \in Json /\ d.from \in Address
  BY LifecycleAssumption DEF Address
<1>2. p \in Packages /\ AckFor(p) \in Packages
  BY <1>1, ReceivedType, AckForType, LifecycleAssumption
<1>3. Net!Received(d) = p /\ Net!AckFor(p) = AckFor(p)
  BY DEF Net!Received, Received, Net!FromJson, FromJson, Net!OriginOf, OriginOf,
         Net!TypeFromString, TypeFromString, Net!TypeAsString, TypeAsString, Net!Type, Type,
         Net!NoAddress, NoAddress, Net!AckFor, AckFor
<1> HIDE DEF p
<1> QED
  BY <1>2, <1>3 DEF Net!Arrival

\* What the reader's proofs rest on: a stopped reader waits for nothing.
ReaderInv ==
  /\ Net!TypeOK /\ Net!TwoReceivesAtMost
  /\ ~netRunning => netReceives = 0

LEMMA ReaderInvInit == Net!Init => ReaderInv
<1> SUFFICES ASSUME Net!Init PROVE ReaderInv
  OBVIOUS
<1>1. netQueue = <<>> /\ netRunning = FALSE /\ netReceives = 0 /\ netHandler = "none"
  BY DEF Net!Init
<1>2. netQueue \in Seq(Net!Packages)
  BY <1>1
<1>3. netReceives \in Nat /\ netRunning \in BOOLEAN
  BY <1>1
<1>4. Net!TypeOK
  BY <1>1, <1>2, <1>3 DEF Net!TypeOK
<1>5. Net!TwoReceivesAtMost
  BY <1>1 DEF Net!TwoReceivesAtMost, Net!Pending
<1> QED
  BY <1>1, <1>4, <1>5 DEF ReaderInv

LEMMA ReaderInvNext == ReaderInv /\ [Net!Next]_netVars => ReaderInv'
<1> SUFFICES ASSUME ReaderInv, [Net!Next]_netVars PROVE ReaderInv'
  OBVIOUS
<1> USE DEF ReaderInv, Net!TypeOK, Net!TwoReceivesAtMost, Net!Pending
<1>1. CASE Net!Start
  BY <1>1 DEF Net!Start
<1>2. CASE Net!Stop
  <2>1. netReceives' = 0 /\ netRunning' \in BOOLEAN /\ netQueue' = netQueue /\ netHandler' = netHandler
    BY <1>2 DEF Net!Stop
  <2>2. netReceives' \in Nat
    BY <2>1
  <2> QED
    BY <2>1, <2>2
<1>3. CASE Net!Complete
  BY <1>3 DEF Net!Complete
<1>4. ASSUME NEW d \in Incoming, Net!HandlePackage(d) PROVE ReaderInv'
  <2> DEFINE t == Net!Arrival(UseAck, Net!Received(d))
  <2>1. t \in Seq(Net!Packages)
    BY ArrivalType, SamePackages
  <2>2. netQueue' = netQueue \o t
    BY <1>4 DEF Net!HandlePackage
  <2> HIDE DEF t
  <2>3. netQueue' \in Seq(Net!Packages)
    BY <2>1, <2>2
  <2> QED
    BY <1>4, <2>3 DEF Net!HandlePackage
<1>5. CASE Net!HandleGarbage \/ Net!HandleError \/ Net!Notified
  BY <1>5 DEF Net!HandleGarbage, Net!HandleError, Net!Notified
<1>6. CASE Net!ReadSocketAgain
  BY <1>6 DEF Net!ReadSocketAgain
<1>7. CASE Net!Read
  BY <1>7 DEF Net!Read
<1>8. CASE UNCHANGED netVars
  BY <1>8 DEF netVars
<1> QED
  BY <1>1, <1>2, <1>3, <1>4, <1>5, <1>6, <1>7, <1>8 DEF Net!Next, Net!HandleReceive

\* A step of the node is one of its reader, or leaves the reader alone.
LEMMA ReaderSteps == [Next]_vars => [Net!Next]_netVars
<1> SUFFICES ASSUME [Next]_vars PROVE [Net!Next]_netVars
  OBVIOUS
<1> USE DEF Beside
<1>1. CASE StartReader
  BY <1>1 DEF StartReader, Net!Next
<1>2. ASSUME NEW s \in Stopper, StopReader(s) PROVE [Net!Next]_netVars
  BY <1>2 DEF StopReader, Net!Next
<1>3. ASSUME NEW g \in Generation, IncomingThread(g) PROVE [Net!Next]_netVars
  BY <1>3 DEF IncomingThread, IncomingLoop, IncomingBlock, Net!Next
<1>4. CASE IoStep
  BY <1>4 DEF IoStep, Net!Next
<1>5. CASE Start \/ StartWriter \/ StartHandler \/ StartCommands \/ OwnerStops
           \/ HandleCommand \/ WriterBegins \/ UNCHANGED vars
  BY <1>5 DEF Start, StartWriter, StartHandler, StartCommands, OwnerStops, HandleCommand,
              WriterBegins, vars
<1>6. ASSUME NEW s \in Stopper, Stopping(s), ~StopReader(s) PROVE UNCHANGED netVars
  BY <1>6 DEF Stopping, StopRunning, StopWriter, StopTestIncoming, StopTestCommand, TestObject,
              StopDeleteIncoming, StopDeleteCommand, StopAnnounce
<1>7. ASSUME NEW g \in Generation, CommandThread(g) \/ Quit(g) PROVE UNCHANGED netVars
  BY <1>7 DEF CommandThread, CommandLoop, CommandBlock, Quit
<1> QED
  BY <1>1, <1>2, <1>3, <1>4, <1>5, <1>6, <1>7 DEF Next, Starting

\* A step that costs a running reader a receive is its handling of an error.
LEMMA ReaderStepKeeps ==
  ASSUME ReaderInv, [Net!Next]_netVars, netRunning, netRunning', Net!Pending' < Net!Pending
  PROVE  Net!HandleError
<1> USE DEF Net!Pending
<1>1. netReceives \in Nat
  BY DEF ReaderInv, Net!TypeOK
<1>2. ~Net!Start /\ ~Net!Stop
  BY DEF Net!Start, Net!Stop
<1>3. ~Net!Complete
  BY <1>1 DEF Net!Complete
<1>4. ~\E d \in Incoming : Net!HandlePackage(d)
  BY <1>1 DEF Net!HandlePackage
<1>5. ~Net!HandleGarbage
  BY <1>1 DEF Net!HandleGarbage
<1>6. ~Net!Notified
  BY <1>1 DEF Net!Notified
<1>7. ~Net!ReadSocketAgain
  BY <1>1 DEF Net!ReadSocketAgain
<1>8. ~Net!Read /\ ~UNCHANGED netVars
  BY <1>1 DEF Net!Read, netVars
<1> QED
  BY <1>2, <1>3, <1>4, <1>5, <1>6, <1>7, <1>8 DEF Net!Next, Net!HandleReceive

LEMMA ReaderInvariance == Spec => []ReaderInv
<1>1. Init => ReaderInv
  BY ReaderInvInit DEF Init
<1>2. ReaderInv /\ [Next]_vars => ReaderInv'
  BY ReaderSteps, ReaderInvNext
<1> QED
  BY <1>1, <1>2, PTL DEF Spec

\* However often a node is started and stopped, and whatever its io thread is
\* doing meanwhile, its reader never waits for more than two datagrams.
THEOREM ReaderIsBounded == Spec => []ReceivesBounded
<1>1. ReaderInv => ReceivesBounded
  BY DEF ReaderInv, ReceivesBounded
<1> QED
  BY <1>1, ReaderInvariance, PTL

\* Only an error takes a running reader's receive away.
THEOREM ReaderKeepsReceives == Spec => ReceivesKept
<1>1. ReaderInv /\ [Next]_vars =>
        [netRunning /\ netRunning' /\ Net!Pending' < Net!Pending => Net!HandleError]_netVars
  BY ReaderSteps, ReaderStepKeeps
<1> QED
  BY <1>1, ReaderInvariance, PTL DEF Spec, ReceivesKept, Net!OnlyErrorsDeafen, Net!vars, netVars

-----------------------------------------------------------------------------
(***************************************************************************)
(* The node's inductive invariant.                                         *)
(***************************************************************************)
\* s has begun to take the node down.
Deep(s) == spc[s] \notin {"ready", "begun", "through"}

\* A start() that is under way has a generation left for what it starts.
StartsInv ==
  /\ owner \in {"starting reader", "starting writer", "starting handler"} => starts < MaxStarts
  /\ owner = "starting commands" => starts \in Generation

\* Unless calls overlapped, who takes the node down is alone, and finds the
\* object that it is about to delete.
AloneInv ==
  ~overlapped =>
    \A s \in Stopper :
      /\ Deep(s) => owner = "idle" /\ ~running /\ \A t \in Stopper : Deep(t) => t = s
      /\ spc[s] = "deleting incoming" => incomingHandlerThread # None
      /\ spc[s] = "deleting command" => commandHandlerThread # None

\* How far the stop() has come that follows a start() that failed.
FailedInv ==
  failed => /\ owner = "idle"
            /\ spc[Owner] # "begun" => ~running
            /\ spc[Owner] \notin {"begun", "reader"} => ~netRunning

\* A writer runs with an open socket, and has one before it runs.
WriterInv ==
  /\ writerThread = "spawned" => ~writerRunning /\ writerOpen
  /\ writerRunning => writerOpen

\* Unless calls overlapped: what a start() has opened so far is open, and what a
\* running node needs is.
OpenInv ==
  ~overlapped =>
    /\ owner = "starting writer" => netRunning
    /\ owner \in {"starting handler", "starting commands"} => netRunning /\ writerOpen
    /\ owner = "idle" /\ running /\ spc[Owner] # "begun" => netRunning /\ writerOpen

LifeInv ==
  /\ TypeOK /\ StartsInv /\ AloneInv /\ AloneIsSafe
  /\ FailedInv /\ WriterInv /\ OpenInv

\* What the proofs need of the constants.
LEMMA Names ==
  /\ Owner \in Stopper /\ Generation \subseteq Stopper /\ Owner \notin Generation
  /\ Generation \subseteq Nat \ {0} /\ None \notin Generation
  BY LifecycleAssumption DEF Owner, Stopper, Generation

LEMMA LifeInvInit == Init => LifeInv
<1> SUFFICES ASSUME Init PROVE LifeInv
  OBVIOUS
<1>1. TypeOK
  <2>1. Net!TypeOK
    BY ReaderInvInit DEF Init, ReaderInv
  <2>2. 0 \in 0 .. MaxStarts
    BY LifecycleAssumption
  <2>3. /\ spc \in [Stopper -> StopPlace]
        /\ ipc \in [Generation -> {"unborn", "loop", "deciding", "blocked", "done"}]
        /\ cpc \in [Generation -> {"unborn", "loop", "deciding", "blocked", "stopping", "done"}]
    BY DEF Init, StopPlace
  <2> QED
    BY <2>1, <2>2, <2>3 DEF Init, TypeOK
<1>2. StartsInv /\ AloneInv /\ AloneIsSafe /\ FailedInv /\ WriterInv /\ OpenInv
  BY DEF Init, StartsInv, AloneInv, AloneIsSafe, FailedInv, WriterInv, OpenInv, Deep
<1> QED
  BY <1>1, <1>2 DEF LifeInv

\* The types in parts: a step disturbs few of them.
FlagTypes == running \in BOOLEAN /\ nodeInitiatedShutdownStarted \in BOOLEAN
StartTypes ==
  /\ owner \in {"idle", "starting reader", "starting writer", "starting handler",
                "starting commands"}
  /\ failed \in BOOLEAN /\ starts \in 0 .. MaxStarts
WriterTypes ==
  /\ writerRunning \in BOOLEAN /\ writerOpen \in BOOLEAN
  /\ writerThread \in {"none", "spawned", "begun"}
PlaceTypes ==
  /\ ipc \in [Generation -> {"unborn", "loop", "deciding", "blocked", "done"}]
  /\ cpc \in [Generation -> {"unborn", "loop", "deciding", "blocked", "stopping", "done"}]
ObjectTypes ==
  /\ incomingHandlerThread \in Generation \cup {None}
  /\ commandHandlerThread \in Generation \cup {None}
IoTypes == ioServiceThread \in {"none", "running", "returned"}
EndTypes ==
  /\ announced \in BOOLEAN /\ overlapped \in BOOLEAN
  /\ process \in {"alive", "undefined"}

LEMMA TypesApart ==
  TypeOK => /\ FlagTypes /\ StartTypes /\ spc \in [Stopper -> StopPlace]
            /\ WriterTypes /\ PlaceTypes /\ ObjectTypes /\ IoTypes /\ EndTypes
  BY Zenon DEF TypeOK, FlagTypes, StartTypes, WriterTypes, PlaceTypes, ObjectTypes, IoTypes, EndTypes

LEMMA TypesTogether ==
  ASSUME FlagTypes', StartTypes', spc' \in [Stopper -> StopPlace], Net!TypeOK',
         WriterTypes', PlaceTypes', ObjectTypes', IoTypes', EndTypes'
  PROVE  TypeOK'
  BY Zenon DEF TypeOK, FlagTypes, StartTypes, WriterTypes, PlaceTypes, ObjectTypes, IoTypes, EndTypes

\* What is left alone keeps its types.
LEMMA TypesKept ==
  ASSUME TypeOK
  PROVE  /\ UNCHANGED flags => FlagTypes'
         /\ UNCHANGED starting => StartTypes'
         /\ UNCHANGED spc => spc' \in [Stopper -> StopPlace]
         /\ UNCHANGED writerVars => WriterTypes'
         /\ UNCHANGED places => PlaceTypes'
         /\ UNCHANGED objects => ObjectTypes'
         /\ UNCHANGED ioServiceThread => IoTypes'
         /\ UNCHANGED ending => EndTypes'
<1>1. /\ FlagTypes /\ StartTypes /\ spc \in [Stopper -> StopPlace]
      /\ WriterTypes /\ PlaceTypes /\ ObjectTypes /\ IoTypes /\ EndTypes
  BY TypesApart
<1>2. UNCHANGED flags => FlagTypes'
  BY <1>1, Zenon DEF flags, FlagTypes
<1>3. UNCHANGED starting => StartTypes'
  BY <1>1, Zenon DEF starting, StartTypes
<1>4. UNCHANGED writerVars => WriterTypes'
  BY <1>1, Zenon DEF writerVars, WriterTypes
<1>5. UNCHANGED places => PlaceTypes'
  BY <1>1, Zenon DEF places, PlaceTypes
<1>6. UNCHANGED objects => ObjectTypes'
  BY <1>1, Zenon DEF objects, ObjectTypes
<1>7. UNCHANGED ioServiceThread => IoTypes'
  BY <1>1, Zenon DEF IoTypes
<1>8. UNCHANGED ending => EndTypes'
  BY <1>1, Zenon DEF ending, EndTypes
<1> QED
  BY <1>1, <1>2, <1>3, <1>4, <1>5, <1>6, <1>7, <1>8, Zenon

\* condition.notify_all() keeps the types of the places.
LEMMA WokenTypes == TypeOK /\ NotifyAll => PlaceTypes'
  BY DEF TypeOK, PlaceTypes, NotifyAll, Woken

\* An exception finds nobody who takes the node down, unless calls overlapped.
LEMMA CatchKeeps ==
  ASSUME LifeInv, owner # "idle", Catch, running' = running, overlapped' = overlapped
  PROVE  /\ spc' \in [Stopper -> StopPlace]
         /\ AloneInv' /\ FailedInv'
<1> USE Names DEF LifeInv
<1>1. spc \in [Stopper -> StopPlace] /\ spc' = [spc EXCEPT ![Owner] = "begun"]
  BY DEF TypeOK, Catch
<1>2. spc' \in [Stopper -> StopPlace]
  BY <1>1 DEF StopPlace
<1>3. ASSUME ~overlapped, NEW s \in Stopper
      PROVE  spc'[s] \in {"ready", "begun", "through"}
  <2>1. ~Deep(s)
    BY <1>3 DEF AloneInv
  <2> QED
    BY <1>1, <2>1 DEF Deep
<1>4. AloneInv'
  BY <1>3 DEF AloneInv, Deep
<1>5. FailedInv'
  BY <1>1 DEF Catch, FailedInv
<1> QED
  BY <1>2, <1>4, <1>5

\* The owner in start().
LEMMA LifeInvStart ==
  ASSUME LifeInv, ReaderInv', process = "alive", Start \/ Starting
  PROVE  LifeInv'
<1> USE Names DEF LifeInv, flags, netVars, writerVars, places, objects, starting, ending
<1>1. Net!TypeOK'
  BY DEF ReaderInv
<1>2. CASE Start
  <2>1. TypeOK'
    <3>1. UNCHANGED <<spc, writerVars, places, objects, ioServiceThread>>
      BY <1>2 DEF Start
    <3>2. FlagTypes' /\ StartTypes' /\ EndTypes'
      <4>1. running' = TRUE /\ nodeInitiatedShutdownStarted' = FALSE /\ failed' = FALSE
        BY <1>2, Zenon DEF Start
      <4>2. owner' = "starting reader" /\ starts' = starts
        BY <1>2 DEF Start
      <4>3. /\ announced' = FALSE /\ process' = process
            /\ overlapped' = (overlapped \/ \E s \in Stopper : InStop(s))
        BY <1>2, Zenon DEF Start
      <4>4. starts \in 0 .. MaxStarts /\ process \in {"alive", "undefined"}
        BY DEF TypeOK
      <4> QED
        BY <4>1, <4>2, <4>3, <4>4, ZenonT(30) DEF FlagTypes, StartTypes, EndTypes
    <3> QED
      BY <1>1, <3>1, <3>2, TypesKept, TypesTogether
  <2>2. StartsInv' /\ AloneIsSafe' /\ FailedInv' /\ WriterInv' /\ OpenInv'
    BY <1>2 DEF Start, OwnerFree, StartsInv, AloneIsSafe, FailedInv, WriterInv, OpenInv
  <2>3. AloneInv'
    BY <1>2 DEF Start, AloneInv, Deep, InStop
  <2> QED
    BY <2>1, <2>2, <2>3
<1>3. CASE StartReader
  <2>1. CASE Catch
    <3>1. spc' \in [Stopper -> StopPlace] /\ AloneInv' /\ FailedInv'
      BY <2>1, <1>3, CatchKeeps DEF StartReader
    <3>2. TypeOK'
      <4>1. UNCHANGED <<flags, writerVars, places, objects, ioServiceThread, ending>>
        BY <2>1, <1>3 DEF StartReader
      <4>2. starts' = starts /\ failed' = TRUE /\ owner' = "idle"
        BY <2>1, <1>3 DEF StartReader, Catch
      <4>3. StartTypes'
        BY <4>2, TypesApart, Zenon DEF StartTypes
      <4> QED
        BY <3>1, <4>1, <4>3, <1>1, TypesKept, TypesTogether
    <3>3. spc'[Owner] = "begun" /\ owner' = "idle"
      BY <2>1 DEF Catch, TypeOK
    <3>4. StartsInv' /\ AloneIsSafe' /\ WriterInv' /\ OpenInv'
      BY <3>3, <1>3 DEF StartReader, StartsInv, AloneIsSafe, WriterInv, OpenInv
    <3> QED
      BY <3>1, <3>2, <3>4
  <2>2. CASE ~Catch
    <3>1. /\ owner = "starting reader" /\ owner' = "starting writer"
          /\ Net!Start /\ failed' = failed /\ spc' = spc
      BY <2>2, <1>3 DEF StartReader
    <3>2. netRunning'
      BY <3>1 DEF Net!Start
    <3>3. TypeOK'
      <4>1. UNCHANGED <<flags, spc, writerVars, places, objects, ioServiceThread, ending>>
        BY <3>1, <1>3 DEF StartReader
      <4>2. starts' = starts
        BY <1>3 DEF StartReader
      <4>3. StartTypes'
        BY <3>1, <4>2, TypesApart, Zenon DEF StartTypes
      <4> QED
        BY <1>1, <4>1, <4>3, TypesKept, TypesTogether
    <3>4. StartsInv' /\ AloneIsSafe' /\ FailedInv' /\ WriterInv' /\ OpenInv'
      BY <3>1, <3>2, <1>3 DEF StartReader, StartsInv, AloneIsSafe, FailedInv, WriterInv, OpenInv
    <3>5. AloneInv'
      BY <3>1, <1>3 DEF StartReader, AloneInv, Deep
    <3> QED
      BY <3>3, <3>4, <3>5
  <2> QED
    BY <2>1, <2>2
<1>4. CASE StartWriter
  <2>1. CASE Catch
    <3>1. spc' \in [Stopper -> StopPlace] /\ AloneInv' /\ FailedInv'
      BY <2>1, <1>4, CatchKeeps DEF StartWriter
    <3>2. TypeOK'
      <4>1. UNCHANGED <<flags, writerVars, places, objects, ioServiceThread, ending>>
        BY <2>1, <1>4 DEF StartWriter, Catch
      <4>2. starts' = starts /\ failed' = TRUE /\ owner' = "idle"
        BY <2>1, <1>4 DEF StartWriter, Catch
      <4>3. StartTypes'
        BY <4>2, TypesApart, Zenon DEF StartTypes
      <4> QED
        BY <3>1, <4>1, <4>3, <1>1, TypesKept, TypesTogether
    <3>3. spc'[Owner] = "begun" /\ owner' = "idle"
      BY <2>1 DEF Catch, TypeOK
    <3>4. StartsInv' /\ AloneIsSafe' /\ WriterInv' /\ OpenInv'
      BY <3>3, <1>4 DEF StartWriter, StartsInv, AloneIsSafe, WriterInv, OpenInv
    <3> QED
      BY <3>1, <3>2, <3>4
  <2>2. CASE ~Catch
    <3>1. /\ owner = "starting writer" /\ owner' = "starting handler"
          /\ failed' = failed /\ spc' = spc
          /\ \/ ~writerRunning /\ writerOpen' /\ writerThread' = "spawned"
             \/ writerRunning /\ writerOpen' = writerOpen /\ writerThread' = writerThread
      BY <2>2, <1>4 DEF StartWriter
    <3>2. TypeOK'
      <4>1. /\ UNCHANGED <<flags, spc, places, objects, ioServiceThread, ending>>
            /\ starts' = starts /\ writerRunning' = writerRunning
        BY <3>1, <1>4 DEF StartWriter
      <4>2. StartTypes'
        BY <3>1, <4>1, TypesApart, Zenon DEF StartTypes
      <4>3. WriterTypes'
        BY <3>1, <4>1, TypesApart DEF WriterTypes
      <4> QED
        BY <1>1, <4>1, <4>2, <4>3, TypesKept, TypesTogether
    <3>3. StartsInv' /\ AloneIsSafe' /\ FailedInv' /\ WriterInv' /\ OpenInv'
      BY <3>1, <1>4 DEF StartWriter, StartsInv, AloneIsSafe, FailedInv, WriterInv, OpenInv
    <3>4. AloneInv'
      BY <3>1, <1>4 DEF StartWriter, AloneInv, Deep
    <3> QED
      BY <3>2, <3>3, <3>4
  <2> QED
    BY <2>1, <2>2
<1>5. CASE StartHandler
  <2>1. /\ starts' = starts + 1 /\ starts' \in Generation /\ starts' \in 0 .. MaxStarts
        /\ owner = "starting handler" /\ owner' = "starting commands"
    <3>1. /\ starts' = starts + 1
          /\ owner = "starting handler" /\ owner' = "starting commands"
      BY <1>5 DEF StartHandler, OwnerGoto
    <3>2. starts < MaxStarts /\ starts \in 0 .. MaxStarts /\ MaxStarts \in Nat
      BY <3>1, LifecycleAssumption DEF StartsInv, TypeOK
    <3>3. starts + 1 \in 1 .. MaxStarts /\ starts + 1 \in 0 .. MaxStarts
      BY <3>2
    <3>4. starts' \in Generation
      BY <3>1, <3>3 DEF Generation
    <3> QED
      BY <3>1, <3>3, <3>4
  <2>2. incomingHandlerThread' \in Generation
    BY <1>5, <2>1 DEF StartHandler
  <2>3. TypeOK'
    <3>1. /\ UNCHANGED <<flags, spc, writerVars, ending>>
          /\ failed' = failed /\ cpc' = cpc /\ commandHandlerThread' = commandHandlerThread
      BY <1>5 DEF StartHandler
    <3>2. StartTypes'
      BY <2>1, <3>1, TypesApart, Zenon DEF StartTypes
    <3>3. IoTypes'
      BY <1>5, TypesApart DEF StartHandler, IoTypes
    <3>4. PlaceTypes'
      BY <1>5, <2>1, <3>1, TypesApart DEF StartHandler, PlaceTypes
    <3>5. ObjectTypes'
      BY <2>2, <3>1, TypesApart DEF ObjectTypes
    <3> QED
      BY <1>1, <3>1, <3>2, <3>3, <3>4, <3>5, TypesKept, TypesTogether
  <2>4. StartsInv' /\ AloneIsSafe' /\ FailedInv' /\ WriterInv' /\ OpenInv'
    BY <1>5, <2>1 DEF StartHandler, StartsInv, AloneIsSafe, FailedInv, WriterInv, OpenInv
  <2>5. AloneInv'
    BY <1>5, <2>1, <2>2 DEF StartHandler, AloneInv, Deep
  <2> QED
    BY <2>3, <2>4, <2>5
<1>6. CASE StartCommands
  <2>1. TypeOK'
    <3>1. /\ UNCHANGED <<flags, spc, writerVars, ioServiceThread, ending>>
          /\ failed' = failed /\ starts' = starts /\ ipc' = ipc
          /\ incomingHandlerThread' = incomingHandlerThread /\ commandHandlerThread' = starts
          /\ owner = "starting commands" /\ owner' = "idle"
          /\ cpc' = [cpc EXCEPT ![starts] = "loop"]
      BY <1>6 DEF StartCommands, OwnerGoto
    <3>2. StartTypes'
      BY <3>1, TypesApart, Zenon DEF StartTypes
    <3>3. PlaceTypes'
      BY <3>1, TypesApart DEF PlaceTypes
    <3>4. ObjectTypes'
      BY <3>1, TypesApart DEF ObjectTypes, StartsInv
    <3> QED
      BY <1>1, <3>1, <3>2, <3>3, <3>4, TypesKept, TypesTogether
  <2>2. StartsInv' /\ AloneIsSafe' /\ FailedInv' /\ WriterInv' /\ OpenInv'
    BY <1>6 DEF StartCommands, OwnerGoto, StartsInv, AloneIsSafe, FailedInv, WriterInv, OpenInv
  <2>3. AloneInv'
    BY <1>6 DEF StartCommands, OwnerGoto, AloneInv, Deep
  <2> QED
    BY <2>1, <2>2, <2>3
<1> QED
  BY <1>2, <1>3, <1>4, <1>5, <1>6 DEF Starting


\* From where a stopper comes, and where it is then.
LEMMA StopSteps ==
  ASSUME TypeOK, NEW s \in Stopper, NEW from, NEW to \in StopPlace, StopGoto(s, from, to)
  PROVE  /\ spc[s] = from /\ spc'[s] = to /\ \A t \in Stopper : t # s => spc'[t] = spc[t]
         /\ spc' \in [Stopper -> StopPlace]
  BY DEF TypeOK, StopGoto

\* stop(), by whoever it is.
LEMMA LifeInvStopRunning ==
  ASSUME LifeInv, ReaderInv', process = "alive", NEW s \in Stopper, StopRunning(s)
  PROVE  LifeInv'
<1> USE Names DEF LifeInv, flags, netVars, writerVars, places, objects, starting, ending
<1>1. Net!TypeOK'
  BY DEF ReaderInv
<1>2. /\ spc[s] = "begun" /\ spc'[s] = "reader"
      /\ \A t \in Stopper : t # s => spc'[t] = spc[t]
      /\ spc' \in [Stopper -> StopPlace]
  BY StopSteps DEF StopRunning, StopPlace
<1>3. /\ ~running' /\ running' \in BOOLEAN
      /\ overlapped' = (overlapped \/ Meets(s))
  BY DEF StopRunning
<1>4. TypeOK'
  <2>1. /\ nodeInitiatedShutdownStarted' = nodeInitiatedShutdownStarted
        /\ announced' = announced /\ process' = process
        /\ UNCHANGED <<starting, writerVars, objects, ioServiceThread>>
        /\ NotifyAll
    BY DEF StopRunning
  <2>2. FlagTypes'
    BY <1>3, <2>1, TypesApart, Zenon DEF FlagTypes
  <2>3. EndTypes'
    <3>1. overlapped' \in BOOLEAN
      BY <1>3, Zenon
    <3> QED
      BY <2>1, <3>1, TypesApart, Zenon DEF EndTypes
  <2> QED
    BY <1>1, <1>2, <2>1, <2>2, <2>3, WokenTypes, TypesKept, TypesTogether
<1>5. ASSUME ~overlapped'
      PROVE  ~overlapped /\ owner = "idle" /\ \A t \in Stopper : t # s => ~Deep(t)
  BY <1>3, <1>5 DEF Meets, InStop, Deep
<1>6. AloneInv'
  BY <1>2, <1>3, <1>5 DEF StopRunning, AloneInv, Deep
<1>7. StartsInv' /\ AloneIsSafe' /\ FailedInv' /\ WriterInv'
  BY <1>2, <1>3 DEF StopRunning, StartsInv, AloneIsSafe, FailedInv, WriterInv
<1>8. OpenInv'
  BY <1>3, <1>5 DEF StopRunning, OpenInv
<1> QED
  BY <1>4, <1>6, <1>7, <1>8

LEMMA LifeInvStopReader ==
  ASSUME LifeInv, ReaderInv', process = "alive", NEW s \in Stopper, StopReader(s)
  PROVE  LifeInv'
<1> USE Names DEF LifeInv, flags, netVars, writerVars, places, objects, starting, ending
<1>1. Net!TypeOK'
  BY DEF ReaderInv
<1>2. /\ spc[s] = "reader" /\ spc'[s] = "writer"
      /\ \A t \in Stopper : t # s => spc'[t] = spc[t]
      /\ spc' \in [Stopper -> StopPlace]
  BY StopSteps DEF StopReader, StopPlace
<1>3. ~netRunning'
  BY DEF StopReader, Net!Stop
<1>4. TypeOK'
  <2>1. UNCHANGED <<flags, starting, writerVars, places, objects, ioServiceThread, ending>>
    BY DEF StopReader
  <2> QED
    BY <1>1, <1>2, <2>1, TypesKept, TypesTogether
<1>5. AloneInv'
  BY <1>2 DEF StopReader, AloneInv, Deep
<1>6. StartsInv' /\ AloneIsSafe' /\ FailedInv' /\ WriterInv'
  BY <1>2, <1>3 DEF StopReader, StartsInv, AloneIsSafe, FailedInv, WriterInv
<1>7. OpenInv'
  BY <1>2 DEF StopReader, AloneInv, OpenInv, Deep
<1> QED
  BY <1>4, <1>5, <1>6, <1>7

LEMMA LifeInvStopWriter ==
  ASSUME LifeInv, ReaderInv', process = "alive", NEW s \in Stopper, StopWriter(s)
  PROVE  LifeInv'
<1> USE Names DEF LifeInv, flags, netVars, writerVars, places, objects, starting, ending
<1>1. Net!TypeOK'
  BY DEF ReaderInv
<1>2. /\ spc[s] = "writer" /\ spc'[s] = "testing incoming"
      /\ \A t \in Stopper : t # s => spc'[t] = spc[t]
      /\ spc' \in [Stopper -> StopPlace]
  BY StopSteps DEF StopWriter, StopPlace
<1>3. /\ ~writerRunning'
      /\ writerRunning' \in BOOLEAN /\ writerOpen' \in BOOLEAN
      /\ ~writerRunning /\ writerOpen => writerOpen'
  BY DEF StopWriter, TypeOK
<1>4. TypeOK'
  <2>1. /\ UNCHANGED <<flags, starting, places, objects, ioServiceThread, ending>>
        /\ writerThread' = writerThread
    BY DEF StopWriter
  <2>2. WriterTypes'
    BY <1>3, <2>1, TypesApart, Zenon DEF WriterTypes
  <2> QED
    BY <1>1, <1>2, <2>1, <2>2, TypesKept, TypesTogether
<1>5. AloneInv'
  BY <1>2 DEF StopWriter, AloneInv, Deep
<1>6. WriterInv'
  <2>1. writerThread' = writerThread
    BY DEF StopWriter
  <2>2. writerThread = "spawned" => ~writerRunning /\ writerOpen
    BY DEF WriterInv
  <2> HIDE DEF LifeInv
  <2> QED
    BY <1>3, <2>1, <2>2, Zenon DEF WriterInv
<1>7. StartsInv' /\ AloneIsSafe' /\ FailedInv'
  BY <1>2 DEF StopWriter, StartsInv, AloneIsSafe, FailedInv
<1>8. OpenInv'
  BY <1>2 DEF StopWriter, AloneInv, OpenInv, Deep
<1> QED
  BY <1>4, <1>5, <1>6, <1>7, <1>8

LEMMA LifeInvStopTests ==
  ASSUME LifeInv, ReaderInv', process = "alive", NEW s \in Stopper, StopTestIncoming(s) \/ StopTestCommand(s)
  PROVE  LifeInv'
<1> USE Names DEF LifeInv, flags, netVars, writerVars, places, objects, starting, ending
<1>1. Net!TypeOK'
  BY DEF ReaderInv
<1>2. /\ spc[s] \in {"testing incoming", "testing command"}
      /\ \/ spc'[s] = "deleting incoming" /\ incomingHandlerThread # None
         \/ spc'[s] = "deleting command" /\ commandHandlerThread # None
         \/ spc'[s] \in {"testing command", "announcing"}
      /\ \A t \in Stopper : t # s => spc'[t] = spc[t]
      /\ spc' \in [Stopper -> StopPlace]
  <2>1. CASE StopTestIncoming(s)
    BY <2>1, StopSteps DEF StopTestIncoming, TestObject, StopPlace
  <2>2. CASE StopTestCommand(s)
    BY <2>2, StopSteps DEF StopTestCommand, TestObject, StopPlace
  <2> QED
    BY <2>1, <2>2
<1>3. UNCHANGED <<flags, starting, netVars, writerVars, places, objects, ioServiceThread, ending>>
  BY DEF StopTestIncoming, StopTestCommand, TestObject
<1>4. TypeOK'
  BY <1>1, <1>2, <1>3, TypesKept, TypesTogether
<1>5. AloneInv'
  BY <1>2, <1>3 DEF AloneInv, Deep
<1>6. StartsInv' /\ AloneIsSafe' /\ FailedInv' /\ WriterInv' /\ OpenInv'
  BY <1>2, <1>3 DEF StartsInv, AloneIsSafe, FailedInv, WriterInv, OpenInv
<1> QED
  BY <1>4, <1>5, <1>6

LEMMA LifeInvStopDeletes ==
  ASSUME LifeInv, ReaderInv', process = "alive", NEW s \in Stopper, StopDeleteIncoming(s) \/ StopDeleteCommand(s)
  PROVE  LifeInv'
<1> USE Names DEF LifeInv, flags, netVars, writerVars, places, objects, starting, ending
<1>1. Net!TypeOK'
  BY DEF ReaderInv
<1>2. /\ \/ /\ spc[s] = "deleting incoming" /\ spc'[s] = "testing command"
            /\ incomingHandlerThread' = None /\ commandHandlerThread' = commandHandlerThread
            /\ process' = IF incomingHandlerThread # None THEN process ELSE "undefined"
         \/ /\ spc[s] = "deleting command" /\ spc'[s] = "announcing"
            /\ commandHandlerThread' = None /\ incomingHandlerThread' = incomingHandlerThread
            /\ process' = IF commandHandlerThread # None THEN process ELSE "undefined"
      /\ \A t \in Stopper : t # s => spc'[t] = spc[t]
      /\ spc' \in [Stopper -> StopPlace]
  <2>1. CASE StopDeleteIncoming(s)
    BY <2>1, StopSteps DEF StopDeleteIncoming, Deleted, StopPlace
  <2>2. CASE StopDeleteCommand(s)
    BY <2>2, StopSteps DEF StopDeleteCommand, Deleted, StopPlace
  <2> QED
    BY <2>1, <2>2
<1>3. UNCHANGED <<flags, starting, netVars, writerVars, places, ioServiceThread, announced, overlapped>>
  BY DEF StopDeleteIncoming, StopDeleteCommand
<1>4. TypeOK'
  <2>1. ObjectTypes'
    BY <1>2, TypesApart DEF ObjectTypes
  <2>2. process' \in {"alive", "undefined"}
    BY <1>2
  <2>3. EndTypes'
    BY <1>3, <2>2, TypesApart, Zenon DEF EndTypes
  <2> QED
    BY <1>1, <1>2, <1>3, <2>1, <2>3, TypesKept, TypesTogether
<1>5. ~overlapped => \A t \in Stopper : Deep(t) => t = s
  BY <1>2 DEF AloneInv, Deep
<1>6. AloneInv'
  BY <1>2, <1>3, <1>5 DEF AloneInv, Deep
<1>7. AloneIsSafe'
  BY <1>2, <1>3 DEF AloneInv, AloneIsSafe
<1>8. StartsInv' /\ FailedInv' /\ WriterInv' /\ OpenInv'
  BY <1>2, <1>3 DEF StartsInv, FailedInv, WriterInv, OpenInv
<1> QED
  BY <1>4, <1>6, <1>7, <1>8

LEMMA LifeInvStopAnnounce ==
  ASSUME LifeInv, ReaderInv', process = "alive", NEW s \in Stopper, StopAnnounce(s)
  PROVE  LifeInv'
<1> USE Names DEF LifeInv, flags, netVars, writerVars, places, objects, starting, ending
<1>1. Net!TypeOK'
  BY DEF ReaderInv
<1>2. /\ spc[s] = "announcing" /\ spc'[s] \in {"ready", "through"}
      /\ \A t \in Stopper : t # s => spc'[t] = spc[t]
      /\ spc' \in [Stopper -> StopPlace]
  BY StopSteps DEF StopAnnounce, StopPlace
<1>3. TypeOK'
  <2>1. UNCHANGED <<flags, starting, writerVars, places, objects, ioServiceThread>>
    BY DEF StopAnnounce
  <2>2. announced' \in BOOLEAN /\ overlapped' = overlapped /\ process' = process
    BY Zenon DEF StopAnnounce
  <2>3. EndTypes'
    BY <2>2, TypesApart, Zenon DEF EndTypes
  <2> QED
    BY <1>1, <1>2, <2>1, <2>3, TypesKept, TypesTogether
<1>4. AloneInv'
  BY <1>2 DEF StopAnnounce, AloneInv, Deep
<1>5. StartsInv' /\ AloneIsSafe' /\ FailedInv' /\ WriterInv'
  BY <1>2 DEF StopAnnounce, StartsInv, AloneIsSafe, FailedInv, WriterInv
<1>6. OpenInv'
  BY <1>2 DEF StopAnnounce, AloneInv, OpenInv, Deep
<1> QED
  BY <1>3, <1>4, <1>5, <1>6

-----------------------------------------------------------------------------
\* The owner's call of stop(), and the writer's thread.
LEMMA LifeInvOwnerStops ==
  ASSUME LifeInv, ReaderInv', process = "alive", OwnerStops
  PROVE  LifeInv'
<1> USE Names DEF LifeInv, flags, netVars, writerVars, places, objects, starting, ending
<1>1. Net!TypeOK'
  BY DEF ReaderInv
<1>2. /\ spc' = [spc EXCEPT ![Owner] = "begun"] /\ spc \in [Stopper -> StopPlace]
      /\ owner = "idle" /\ spc[Owner] = "ready"
  BY DEF OwnerStops, OwnerFree, TypeOK
<1>3. /\ spc'[Owner] = "begun" /\ \A t \in Stopper : t # Owner => spc'[t] = spc[t]
      /\ spc' \in [Stopper -> StopPlace]
  BY <1>2 DEF StopPlace
<1>4. TypeOK'
  <2>1. UNCHANGED <<flags, starting, writerVars, places, objects, ioServiceThread, ending>>
    BY DEF OwnerStops
  <2> QED
    BY <1>1, <1>3, <2>1, TypesKept, TypesTogether
<1>5. AloneInv'
  BY <1>3 DEF OwnerStops, AloneInv, Deep
<1>6. StartsInv' /\ AloneIsSafe' /\ FailedInv' /\ WriterInv' /\ OpenInv'
  BY <1>2, <1>3 DEF OwnerStops, StartsInv, AloneIsSafe, FailedInv, WriterInv, OpenInv
<1> QED
  BY <1>4, <1>5, <1>6

LEMMA LifeInvWriterBegins ==
  ASSUME LifeInv, ReaderInv', process = "alive", WriterBegins
  PROVE  LifeInv'
<1> USE Names DEF LifeInv, flags, netVars, writerVars, places, objects, starting, ending
<1>1. Net!TypeOK'
  BY DEF ReaderInv
<1>2. writerRunning' \in BOOLEAN /\ writerThread' = "begun"
  BY DEF WriterBegins
<1>3. TypeOK'
  <2>1. /\ UNCHANGED <<flags, starting, spc, places, objects, ioServiceThread, ending>>
        /\ writerOpen' = writerOpen
    BY DEF WriterBegins
  <2>2. WriterTypes'
    BY <1>2, <2>1, TypesApart, Zenon DEF WriterTypes
  <2> QED
    BY <1>1, <2>1, <2>2, TypesKept, TypesTogether
<1>4. AloneInv'
  BY DEF WriterBegins, AloneInv, Deep
<1>5. StartsInv' /\ AloneIsSafe' /\ FailedInv' /\ OpenInv'
  BY DEF WriterBegins, StartsInv, AloneIsSafe, FailedInv, OpenInv
<1>6. WriterInv'
  BY <1>2 DEF WriterBegins, WriterInv
<1> QED
  BY <1>3, <1>4, <1>5, <1>6

\* Steps of the threads that change their places, and may take a command.
LEMMA LifeInvPlaces ==
  ASSUME LifeInv, ReaderInv', process = "alive", spc' = spc, UNCHANGED Beside,
         netRunning' = netRunning, running' \in BOOLEAN, running' => running,
         nodeInitiatedShutdownStarted' \in BOOLEAN, PlaceTypes'
  PROVE  LifeInv'
<1> USE Names DEF LifeInv, flags, netVars, writerVars, places, objects, starting, ending
<1>1. Net!TypeOK'
  BY DEF ReaderInv
<1>2. UNCHANGED <<starting, writerVars, objects, ioServiceThread, ending>>
  BY DEF Beside
<1>3. TypeOK'
  <2>1. FlagTypes'
    BY Zenon DEF FlagTypes
  <2> QED
    BY <1>1, <1>2, <2>1, TypesKept, TypesTogether
<1>4. AloneInv'
  BY <1>2 DEF AloneInv, Deep
<1>5. StartsInv' /\ AloneIsSafe' /\ WriterInv'
  BY <1>2 DEF StartsInv, AloneIsSafe, WriterInv
<1>6. FailedInv'
  BY <1>2 DEF FailedInv
<1>7. OpenInv'
  BY <1>2 DEF OpenInv
<1> QED
  BY <1>3, <1>4, <1>5, <1>6, <1>7

LEMMA LifeInvIncoming ==
  ASSUME LifeInv, ReaderInv', process = "alive", NEW g \in Generation, IncomingThread(g)
  PROVE  LifeInv'
<1>1. PlaceTypes /\ running \in BOOLEAN /\ nodeInitiatedShutdownStarted \in BOOLEAN
  BY TypesApart DEF LifeInv, FlagTypes
<1>2. PlaceTypes'
  BY <1>1 DEF IncomingThread, IncomingLoop, IncomingBlock, PlaceTypes
<1>3. netRunning' = netRunning
  BY DEF IncomingThread, IncomingLoop, IncomingBlock, Net!Read, netVars
<1>4. UNCHANGED <<flags, spc, cpc, Beside>>
  BY DEF IncomingThread, IncomingLoop, IncomingBlock
<1> QED
  BY <1>1, <1>2, <1>3, <1>4, LifeInvPlaces DEF flags

LEMMA LifeInvCommand ==
  ASSUME LifeInv, ReaderInv', process = "alive", NEW g \in Generation, CommandThread(g)
  PROVE  LifeInv'
<1> USE Names DEF LifeInv, flags, netVars, writerVars, places, objects, starting, ending
<1>1. Net!TypeOK'
  BY DEF ReaderInv
<1>2. /\ spc \in [Stopper -> StopPlace] /\ PlaceTypes
      /\ running \in BOOLEAN /\ nodeInitiatedShutdownStarted \in BOOLEAN
  BY TypesApart DEF FlagTypes
<1>3. PlaceTypes'
  BY <1>2 DEF CommandThread, CommandLoop, CommandBlock, PlaceTypes
<1>4. UNCHANGED <<flags, netVars, ipc, Beside>>
  BY DEF CommandThread, CommandLoop, CommandBlock
<1>5. CASE spc' = spc
  BY <1>2, <1>3, <1>4, <1>5, LifeInvPlaces
<1>6. CASE spc' # spc
  <2>1. spc' = [spc EXCEPT ![g] = "begun"]
    BY <1>6 DEF CommandThread, CommandLoop, CommandBlock
  <2>2. /\ spc' \in [Stopper -> StopPlace] /\ spc'[Owner] = spc[Owner] /\ spc'[g] = "begun"
        /\ \A t \in Stopper : t # g => spc'[t] = spc[t]
    BY <1>2, <2>1 DEF StopPlace
  <2>3. UNCHANGED <<flags, netVars, starting, writerVars, objects, ioServiceThread, ending>>
    BY <1>4 DEF Beside
  <2>4. TypeOK'
    BY <1>1, <1>3, <2>2, <2>3, TypesKept, TypesTogether
  <2>5. AloneInv'
    BY <2>2, <2>3 DEF AloneInv, Deep
  <2>6. StartsInv' /\ AloneIsSafe' /\ FailedInv' /\ WriterInv' /\ OpenInv'
    BY <2>2, <2>3 DEF StartsInv, AloneIsSafe, FailedInv, WriterInv, OpenInv
  <2> QED
    BY <2>4, <2>5, <2>6
<1> QED
  BY <1>5, <1>6

LEMMA LifeInvCalls ==
  ASSUME LifeInv, ReaderInv', process = "alive", NEW g \in Generation, Quit(g) \/ HandleCommand
  PROVE  LifeInv'
<1>1. TypeOK /\ NotifyAll
  BY DEF LifeInv, Quit, HandleCommand
<1>2. PlaceTypes'
  BY <1>1, WokenTypes
<1>3. CASE HandleCommand
  <2>1. running' = running /\ nodeInitiatedShutdownStarted' = nodeInitiatedShutdownStarted
    BY <1>3 DEF HandleCommand, flags
  <2>2. running' \in BOOLEAN /\ nodeInitiatedShutdownStarted' \in BOOLEAN
    BY <1>1, <2>1 DEF TypeOK
  <2> QED
    BY <1>2, <1>3, <2>1, <2>2, LifeInvPlaces DEF HandleCommand, netVars
<1>4. CASE Quit(g)
  <2>1. running' = FALSE /\ nodeInitiatedShutdownStarted' = TRUE
    BY <1>4, Zenon DEF Quit
  <2>2. ~running' /\ running' \in BOOLEAN /\ nodeInitiatedShutdownStarted' \in BOOLEAN
    BY <2>1, Zenon
  <2> QED
    BY <1>2, <1>4, <2>2, LifeInvPlaces DEF Quit, netVars
<1> QED
  BY <1>3, <1>4

LEMMA LifeInvIo ==
  ASSUME LifeInv, ReaderInv', process = "alive", IoStep
  PROVE  LifeInv'
<1> USE Names DEF LifeInv, flags, netVars, writerVars, places, objects, starting, ending
<1>1. Net!TypeOK'
  BY DEF ReaderInv
<1>2. /\ netRunning' = netRunning /\ spc' = spc
      /\ UNCHANGED <<flags, starting, writerVars, objects, ending>>
  BY DEF IoStep, Net!Complete, Net!HandleReceive, Net!HandlePackage, Net!HandleGarbage,
         Net!HandleError, Net!ReadSocketAgain, Net!Notified
<1>3. ioServiceThread' \in {"none", "running", "returned"}
  BY TypesApart DEF IoStep, IoTypes
<1>4. PlaceTypes'
  <2>1. NotifyAll \/ UNCHANGED places
    BY DEF IoStep
  <2> QED
    BY <2>1, WokenTypes, TypesKept
<1>5. TypeOK'
  <2>1. IoTypes'
    BY <1>3 DEF IoTypes
  <2> QED
    BY <1>1, <1>2, <1>4, <2>1, TypesKept, TypesTogether
<1>6. AloneInv'
  BY <1>2 DEF AloneInv, Deep
<1>7. StartsInv' /\ AloneIsSafe' /\ FailedInv' /\ WriterInv' /\ OpenInv'
  BY <1>2 DEF StartsInv, AloneIsSafe, FailedInv, WriterInv, OpenInv
<1> QED
  BY <1>5, <1>6, <1>7

LEMMA LifeInvNext ==
  ASSUME LifeInv, ReaderInv', [Next]_vars
  PROVE  LifeInv'
<1>1. CASE UNCHANGED vars
  <2>1. UNCHANGED <<flags, starting, spc, netVars, writerVars, places, objects,
                    ioServiceThread, ending>>
    BY <1>1 DEF vars
  <2>2. TypeOK'
    BY <2>1, TypesKept, TypesTogether DEF LifeInv, ReaderInv
  <2>3. AloneInv' /\ StartsInv' /\ AloneIsSafe' /\ FailedInv' /\ WriterInv' /\ OpenInv'
    BY <2>1 DEF LifeInv, flags, starting, netVars, writerVars, objects, ending,
                AloneInv, Deep, StartsInv, AloneIsSafe, FailedInv, WriterInv, OpenInv
  <2> QED
    BY <2>2, <2>3 DEF LifeInv
<1>2. CASE Next
  <2>1. process = "alive"
    BY <1>2 DEF Next
  <2>2. ASSUME NEW s \in Stopper, Stopping(s) PROVE LifeInv'
    BY <2>1, <2>2, LifeInvStopRunning, LifeInvStopReader, LifeInvStopWriter, LifeInvStopTests,
       LifeInvStopDeletes, LifeInvStopAnnounce DEF Stopping
  <2>3. ASSUME NEW g \in Generation, IncomingThread(g) \/ CommandThread(g) \/ Quit(g)
        PROVE  LifeInv'
    BY <2>1, <2>3, LifeInvIncoming, LifeInvCommand, LifeInvCalls
  <2>4. CASE HandleCommand
    <3>1. 1 \in Generation
      BY LifecycleAssumption DEF Generation
    <3> QED
      BY <2>1, <2>4, <3>1, LifeInvCalls
  <2>5. CASE Start \/ Starting
    BY <2>1, <2>5, LifeInvStart
  <2>6. CASE OwnerStops \/ WriterBegins \/ IoStep
    BY <2>1, <2>6, LifeInvOwnerStops, LifeInvWriterBegins, LifeInvIo
  <2> QED
    BY <1>2, <2>2, <2>3, <2>4, <2>5, <2>6 DEF Next
<1> QED
  BY <1>1, <1>2

\* Every reachable state of a node has the inductive invariant.
THEOREM LifeInvariance == Spec => []LifeInv
<1>1. Init => LifeInv
  BY LifeInvInit
<1>2. LifeInv /\ ReaderInv' /\ [Next]_vars => LifeInv'
  BY LifeInvNext
<1> QED
  BY <1>1, <1>2, ReaderInvariance, PTL DEF Spec

-----------------------------------------------------------------------------
\* The variables keep their types over any number of lives.
THEOREM LifeTypes == Spec => []TypeOK
<1>1. LifeInv => TypeOK
  BY DEF LifeInv
<1> QED
  BY <1>1, LifeInvariance, PTL

\* A start() that threw has taken everything back when it returns
\* (ProcessorNode::start and its catch).
THEOREM FailedStartTakesBack == Spec => []FailedStartStops
<1>1. LifeInv => FailedStartStops
  BY DEF LifeInv, FailedInv, FailedStartStops, OwnerFree
<1> QED
  BY <1>1, LifeInvariance, PTL

\* Without overlapping calls, stop() never deletes a thread object twice.
THEOREM CallsAloneAreSafe == Spec => []AloneIsSafe
<1>1. LifeInv => AloneIsSafe
  BY DEF LifeInv
<1> QED
  BY <1>1, LifeInvariance, PTL

\* Without overlapping calls, a node that says it runs has both sockets open.
THEOREM RunningNodesAreOpen == Spec => []RunningIsOpen
<1>1. LifeInv => RunningIsOpen
  <2> SUFFICES ASSUME LifeInv, Quiet, running, ~overlapped PROVE netRunning /\ writerOpen
    BY DEF RunningIsOpen
  <2>1. owner = "idle" /\ spc[Owner] # "begun"
    BY Names DEF Quiet, InStop
  <2> QED
    BY <2>1 DEF LifeInv, OpenInv
<1> QED
  BY <1>1, LifeInvariance, PTL
=============================================================================
