# ProcessorNode in TLA+

ProcessorNode is a C++ library for distributed Pipes & Filters systems: a node
receives packages over UDP from the previous node, passes them to its handlers
and sends what they leave over to the next node. This directory specifies the
library in TLA+: the threads of one node, the lives of a node, and a chain of
nodes with an unreliable network between them. It is model-checked with TLC, and
the main results are proved with TLAPS. Paths below are relative to `src/`.

## The system

| Part | State | Operations | Met by |
|---|---|---|---|
| `Package` | uid, type, payload (text or a parsed `DataItem`), origin, destination | conversion to and from JSON, `isEmpty`, `==` (by uid) | everything |
| `Networker` | host, port, `running` (a plain bool), `msgQueue`, `guard`, socket | base class | reader, writer |
| `NetworkReader` | receives outstanding on the socket | `start`, `stop`, `read`; `handleReceive` on the io thread | node, io thread |
| `NetworkWriter` | `sentPackages`, its thread | `start`, `stop`, `write`; `threadFunc` | node, writer thread |
| `ProcessorNode` | `running`, `hasIncoming`, `command`, `guard` + `condition`, two readers, one of two writers, handlers | `configure`, `start`, `stop`, `handleCommand`, `sendData`, `receivedData` | the application, four threads |
| `PingHandler`, `ConfigurationHandler`, `EncryptHandler` | none | `consume` | handler thread, command thread |
| `NodeConfiguration`, `ConfigurationDataItem`, `ConfigurationFileReader`, `DataFileReader` | an ordered list of items | read a file, look up, replace | `configure()` |

The threads of one node:

* the **io thread** runs `io_service`; it completes receives, pushes packages
  into a reader's queue and calls `receivedData()`;
* the **incoming handler thread** (`threadFunc`) waits for `hasIncoming`, reads
  the configuration reader and then the data reader until they are empty, and
  passes each package to the handlers or, if it is an acknowledgement, onward;
* the **command handler thread** waits for a command and executes it *inside the
  predicate of its wait*, so with the node's mutex held; `quit` and `shutdown`
  end in its own call of `stop()`;
* the **writer thread** (one per `start()` of a writer, detached, never joined)
  polls the writer's queue;
* the **application's threads** call `handleCommand()` and `stop()`.

They share the queues (each with a mutex), three flags, one command slot and one
condition variable. Acknowledgements make the protocol between nodes: the
receiver of a data package queues an acknowledgement *behind* it, addressed to
where it came from; the handler thread passes it to the writer; the sender gets
it with its data reader, passes it to its own writer like any acknowledgement,
and there, having no destination, it erases the package from `sentPackages`.

### What is hard about it, and what correct means

* **Writer.** `running` is set by the spawned thread and tested by others without
  a lock; `stop()` empties both containers without the mutex; an old thread may
  survive a restart. Correct: one thread at a time handles packages, none is
  sent twice, none is forgotten unacknowledged, queued packages get taken, an
  effective stop ends the threads.
* **Reader.** Stop and start may come while a handler is running. Correct: it
  listens as long as it runs, never piles up receives, and not at all once
  stopped.
* **Node.** The flags of the predicates change outside the mutex; one thread
  executes commands in a predicate; two threads may be in `stop()`. Correct: no
  package is lost or handled twice in a running node, packages stop being
  handled when it stops, no command runs more often than issued, data is
  acknowledged only after it was handled, quitting ends the threads.
* **Lives.** `stop()` detaches the threads and joins none, so those of an earlier
  life may still run in the next one; `start()` may throw half way; the owner and
  the node itself may both be in `stop()`. Correct: a failed `start()` takes back
  what it did; calls that do not overlap use no object that is gone and leave no
  running node with closed sockets; a quit ends the threads of all lives, and is
  announced; a node that runs is served by its io thread. (The last is not so,
  and with overlapping calls the second is not, see below.)
* **Across nodes.** UDP loses, duplicates and reorders, and nodes crash. Correct
  would be: data is resent until acknowledged. It is not (see below). What is
  left of it: a node remembers its data until the next one has handled it, or
  was stopped with it in a thread's hands, acknowledgements go where the data came
  from, what one end encrypted the other reads, and as long as nothing goes wrong
  everything arrives and is forgotten.
* **Configuration.** Items repeat, lines are corrupt, addresses throw half way,
  and nodes are configured again. Correct: the item assigned last counts, a node
  that is reported as configured is the one its file describes, and one whose
  file is invalid is not reported as configured.

The line-by-line list of hazards is in `PROJECT.json`.

## The modules

| Module | Models |
|---|---|
| `Package` | `Package.cpp`: values and conversion. An address is a record of two parts, each of which may be `None`; that tells the forms `""`, `"port"` and `"host:port"` apart, and the code tells no others apart. |
| `Receiving` | What `handleReceive()` makes of one datagram: the package, its origin, and the acknowledgement behind it. |
| `Sending` | What `handlePackage()` of the writer makes of one package: kept as an answer, or sent, and where to; and `handleAcknowledgementMessages()`. |
| `SendQueue` | What a writer promises its node, with neither threads nor locks: accepted packages leave in order or are discarded; data is remembered until acknowledged. A stop may take them one by one or all at once. |
| `NetworkWriter` | `NetworkWriter.cpp`, one action per stretch of code between two accesses to shared state. Extends `Sending`. |
| `NetworkReader` | `NetworkReader.cpp`. The queue operations are atomic, because the code holds the mutex over each; completion, handling, notifying and placing the next receive are separate steps. Extends `Receiving`; instantiated by the nodes below. |
| `Handlers` | The list of handlers, ping, configuration, rot13 and an application's, `passToHandlers()` and `passToNextHandlers()`: pure operators. |
| `ProcessorNode` | A started node: io thread, both handler threads, the application's threads and `stop()`, with two instances of `NetworkReader`. Extends `Handlers`. |
| `NodeQueue` | What a started node promises, with neither threads nor flags nor locks: what comes to a reader is handled in order, one package at a time, and the writer gets what is made of it. |
| `Lifecycle` | A node that is started and stopped again and again, by its owner and by itself, with an instance of `NetworkReader`. Its threads run, wait and end; what they do with packages is in `ProcessorNode`. |
| `Chain` | Nodes in any number, connected in any way, with the network between them. Extends `Handlers`, `Sending` and `Receiving`. |
| `ChainWriter` | The writer of one node of a chain, whichever, seen as a `SendQueue`. |
| `Configuration` | `configure()` of a node that does not run: the loop over the lines, the list of items, and the replacing of readers and writers, one action per step that may throw. |
| `NetworkWriterProofs`, `ProcessorNodeProofs`, `ConfigurationProofs`, `LifecycleProofs`, `ChainProofs`, `HandlersProofs` | Theorems about the modules of these names. |
| `PackageProofs`, `SendingProofs` | Lemmas that several of them use. |
| `MCNetworkWriter`, `MCProcessorNode`, `MCLifecycle`, `MCChain`, `MCConfiguration` | Constants of the small instances. |

The same definitions of `Receiving`, `Sending` and `Handlers` are used in the
detailed models and in `Chain`, so that the chain's nodes do to a package
exactly what the threads of one node do to it, in one step instead of several.

### Correspondence

*NetworkWriter.* `pc[t]` is the place of writer thread t: `spawned` (line 233),
`loop` (84), `locking` (85), `taking` (88), `handling` (90), `idle` (the unlock
of an empty round, 92), `stuck` (148, the second lock of a mutex it owns),
`done`. `owner` is the place of the thread that calls `start()` and `stop()`.
The model has one such thread at a time; the application and the command
thread may both be in the node's `stop()` (`Lifecycle`), and so in the writer's,
which is not modelled at the grain of this module. `process` becomes `terminated`
when `from_string` throws in a thread (nobody catches it) and `undefined` when `front()`/`pop()` meet an empty queue;
after either nothing is claimed. `offered`, `handled` and `transmitted` are
history variables. A datagram that was given to the socket may or may not leave
(`Send`), and does not if the socket has been closed. The functions that resend
(183-208) cannot be reached: they follow the second lock. An output address
without a port leaves the member `port` uninitialised (`Networker.cpp` 79); the
constant `NextNode` may be any address, so the theorems cover what is read then.
Logging, the counters and the json text are left out.

*NetworkReader.* `receives` counts outstanding `async_receive_from`; `handler`
is the place in `handleReceive()`: `completed`, `notifying` (119), `rereading`
(127). After `stop()` a completion that is already under way still pushes its
package. A cancelled receive only returns its error, so its handler is no step.

*ProcessorNode.* The node has both readers; one to which nothing comes behaves
like one that does not exist. Places of the handler thread: `loop` 628, `locking` 632,
`testing` and `blocking` (the predicate and the wait that may follow it, 633),
`blocked`, `checking` 636, `reading` 652/671/680, `handling` 654, `passing` 670/678,
`forwarding` 659, `commanding` 662, `notifying` 664, `clearing` 645. Places of
the command thread: `loop` 430, `locking` 434, `testing` 436, `executing` 444,
`quitting` 469, `announcing` 471, `deciding` 482, `blocking`, `blocked`,
`stopping` 488. That the test of the predicate and the blocking are two steps is
what makes a notification without the mutex lose: the code's waits hold the
mutex over both, and `NotifyAll` is enabled in between because those who notify
do not take it. Wakeups may be spurious. `writer`, `outbox` and `early` stand for the
writer: `sendData()` is one step, as `write()` is the only thing it does that
anyone can see. `start()` has only spawned the writer's thread, which sets the
writer's `running` when it gets to run (`WriterBegin`): until then (`starting`) what is
written is dropped (`NetworkWriter.cpp` 268, recorded in `early`) and `stop()`
passes the writer over (517, 523), so that it begins to send in a node that has
been stopped. The tests of `stop()` and the writer's own are one step here, and two in
`NetworkWriter`. The constant `Writer` says which of the writers the node has;
with neither `outbox` stays empty. `Kept` stands for the application's own
handlers, which keep some payloads and forward the rest. The condition of
`use-ack` (line 347) holds for every non-empty value, `no` and `off` included,
so `UseAck` is TRUE whenever the item is set.

*Handlers.* A handler is its kind. `Offered` says what the i-th handler sees: the
package, changed by an odd number of EncryptHandlers or not at all. The code
goes through the list in a loop and each `consume()` changes the package in
place; here the first handler that keeps it is described instead (`Keeper`).
`file` and `keeper` are handlers of an application, which the library leaves
open: one reads items from a file and passes each to the handlers behind it, as
`DataReaderObserver` is made for, the other keeps what it has a use for. rot13 is
modelled on character codes (`rot13`) and, where packages go through it, as the
function `Rotated` on texts, of which is assumed what `Rot13Involution` proves.

*Lifecycle.* `owner` is the place of the owner in `start()`: `starting reader` (354),
`starting writer` (362), `starting handler` (371), `starting commands` (429).
`spc[s]` is the place of s in `stop()`, where s is 0 for the owner and else the
generation of a command thread: `begun` 500, `reader` 507, `writer` 523, `testing
incoming` 532, `deleting incoming` 534, `testing command` 537, `deleting command`
539, `announcing` 546, and `through` for a thread that has returned from it. That
the tests of the thread objects and their deletion are two steps is what lets
two callers delete one object (`process = "undefined"`). A thread that waits is
`deciding` from the test of its predicate, with the mutex, until it is `blocked`;
`NotifyAll` wakes the blocked ones. `open()` of a socket that is open throws; the
reader's is open exactly when `netRunning`, the writer's flag is set only when its
thread begins, so `writerOpen` is kept apart. The io thread returns from
`io_service.run()` when no receive is outstanding and no handler runs; sends that
are under way put that off and are left out. The history variable
`overlapped` says that two calls of `start()` and `stop()` have been under way
at once. A node has one reader and one writer here; a second of either goes the
same way at the same places.

*Chain.* A node that is `up` has its threads run, except that its writer's has yet
to begin (`Begin`; until then `sendData()` drops what it is given). `Handle(n)` is one
round of `handlePackagesFrom()`, `Settle(n)` and `Send(n)` one of the writer's
`threadFunc()`. Two threads of a node touch one queue each at their ends, and the
handler thread's and the writer's work on different state, so that rounds may be
taken as steps as long as no stop comes into the middle of one. If one does, the
package that the handler thread has taken is dropped by the test at line 654 and
its acknowledgement stays in the queue: `Stop(n)` may take the head of `inQueue`
to `held`. If the node is started again in time, a thread of the earlier life sees
it running and goes on, next to the new one: it handles what it held (`HandleHeld`)
and takes more (`Take`). `withheld` records what was ever taken so. The
writer's queue is left by a stop with nothing, with the package that its thread has in
hand, with one that a `write()` was about to push, or as it was if the writer's thread
has not begun (`LeftOf`, `Stop`); the last kind of writer outlives the stop, which
is followed in `NetworkWriter`, `ProcessorNode` and `Lifecycle` and not here. `Stop(n)`
keeps the reader's queue, as `NetworkReader::stop()` does, and `Crash(n)` keeps nothing.
That the io thread is gone after a `stop()` (`lifecycle_deaf`) shows here as
datagrams that are lost. `network` is a set: a datagram may be delivered in any
order, once more (`Repeat`) or not at all (`Lose`, `Vanish`). `DeliverUnnoticed(n)` is a
delivery whose notification the handler thread misses (`node_stranded`): the
package waits, and `Handle(n)` may take it whenever something else wakes the
thread, but nothing has to. A node without a reader (`ListeningPort[n] = None`)
names no port, so that `SourceOf` says where answers go: to the port of its writer's
socket, where nobody listens (`Vanish`). That port matters for nothing else, so
that one `SendPort` stands for all.

*Configuration.* `stage` is the place in `configure()`: `reading` (102), `input`
(105), `config-in` (107), `output` (109), `config-out` (111), `files` (113-115).
`line` counts the lines of `DataFileReader::read()`; one that has no line end is
not among the `CompleteLines`, since `good()` is false after it (line 54 there).
A line is empty or a comment (`Skipped`), a name and a value (`ItemLine`), or
anything else (`Corrupt`, which throws; so does an item below a wrong first
line). A reader or a writer is identified by the value it was made from;
`PortText` and `HostText` are the values that do not make `stoi()` throw in
`setInputSource()` or `setHost()`. `configure("")` changes nothing and is no
step. `config-out` and `encrypt` are looked up and not used: a node without an
output gets a config writer whether `config-out` says yes, no or nothing, which
README.md line 80 makes depend on it.

## The runs

`CHECK_DEADLOCK FALSE` stands everywhere but in `configuration`: the other
systems may really come to rest, when the finitely many packages, commands and
starts are used up and the threads have ended.

| Run | Instance | Shows |
|---|---|---|
| `writer` | 2 callers, 4 packages of one uid (data, ack, nack, an ack to pass upstream), 2 starts | `TypeInv`, `OneHandler`, `UnackedRetained`, `TransmittedOnce`, and that the writer implements `SendQueue` |
| `writer_liveness` | data, data to a host name, a package without type; 2 starts | `QueueDrains`, `EffectiveStopEndsThreads` |
| `lifecycle` | 2 starts, one datagram any number of times, any number of stops and quits | `TypeOK`, `FailedStartStops`, `AloneIsSafe`, `RunningIsOpen`; `ReceivesBounded` and `ReceivesKept` of the reader; `QuitIsAnnounced`, `QuitEndsEveryThread` |
| `node_stop` | data at the data port, with its acknowledgement behind it, a shutdown package at the configuration port, a stop by the owner | `AtMostOneLate`, `AcknowledgedAfterHandled`, `StoppedReceivesNothing`, `NothingLost`, `ShutdownPassedOn`, and that the node implements `NodeQueue` |
| `node_commands` | a node with a config writer, a readfile command, a configuration request and a shutdown package | `TypeOK` with the ownership of the mutex, `ExecutedWhenIssued`, `QuitEndsThreads`, and that the node implements `NodeQueue` |
| `configuration` | all files of up to two lines, out of twelve lines, with and without the right first line and the last line end | `TypeInv` with one item per name, `LastAssignmentWins`, `ConfiguredAsWritten`, `SucceedsIfValid` |
| `chain` | 3 nodes, 2 packages read at the first, which has no reader, encrypted there, decrypted and kept at the last; one fault | `TypeOK`, `ForgottenOnlyWhenHandled`, `AcksComeHome`, `PlainText`, `ArrivesAndSettles`, and that the writer of the middle node is a `SendQueue` (`WriterKeepsPromises`) |

Five runs end in a counterexample. Each checks one sentence of the
documentation, quoted in `PROJECT.json`:

| Run | The code does otherwise because |
|---|---|
| `writer_no_resend` | the resend code follows a lock that its thread cannot get |
| `writer_unguarded` | `stop()` pops from the queue without the mutex |
| `lifecycle_deaf` | the io thread has returned when the first life ended, and `start()` makes one only if there never was one |
| `node_stranded` | `hasIncoming` changes and is notified outside the mutex |
| `node_documented_shutdown` | the type is `control` in the code and `command` in the documents |

More deviations are in the models without a run of their own:

* a `stop()` before the writer thread has begun does nothing (`StopBegin`), and
  the next `start()` then fails at its open socket (`StartWriter`);
* a `write()` before that drops the package (`WriteCheck`), a shutdown package too: the
  node then quits and the next one does not (`early`, `ShutdownPassedOn`);
* a writer whose thread begins after `stop()` has passed it goes on sending in a node
  that has been stopped (`WriterBegin`);
* a `stop()` drops the data that the handler thread has in hand and leaves its
  acknowledgement in the queue, which the node sends if it is started again: the
  sender forgets data that nobody has handled (`Withhold`, `Stop`). Checked with
  `handled` in the place of `Done`, `ForgottenOnlyWhenHandled` is false for this;
* `stop()` resets `running` and notifies outside the mutex, so that a handler thread
  can miss both and wait for ever (`IncomingBlock`, `CommandBlock`), where lines
  496-497 of `ProcessorNode.cpp` say that the threads are finished;
* the owner and the node itself can be in `stop()` at once and delete a thread
  object twice (`StopDeleteIncoming`);
* `quit` can miss its notification as data can (`NotifyCommand`);
* after a shutdown package at one reader those of the other are still handled
  (`IncomingNotify`);
* a last line without a line end is dropped (`CompleteLines`);
* a config writer made earlier stays, and is started, next to the writer of an
  output that was configured later (`createConfigurationOutputWriter`);
* the config writer sends acknowledgements too (`Accepts`), where README.md line
  105 says that no other packages would be sent; one without a destination goes
  to `localhost`, which `from_string` cannot parse, and ends the process (`Terminate`);
* a node without `use-ack` passes the acknowledgements that come to it on to the
  next node (`IsLocalAck`), which may take them for answers to its own packages.
  Nothing makes neighbours agree: `UseAckAgreed` is a hypothesis where it is needed;
* a node with a writer and no reader names no port, so that acknowledgements of what
  it sent come to nobody and its `sentPackages` grow for ever (`SourceOf`);
* a handler that passes packages on and is the last of the list passes them to
  nobody, not even to the next node (`passToNextHandlers`).

### Bounds, and why they are enough

Two callers and two starts give every pair of threads that can meet in the
writer: two in `write()`, an old and a new writer thread, and the one that stops.
More starts only add more old threads, all in the same loop. One data package
with a positive and a negative answer is what the retention of one package
depends on; answers to others differ from it by the uid alone. Packages of a
caller are offered once each, because a package has a fresh uid. `MaxQueue`
only cuts off longer queues, which no guard looks at. Two starts of a node give
an old and a new thread of each kind, an old one in `stop()` while the new life
begins, and a start over sockets that an old life has left open; a third life
meets the second as the second met the first. Three nodes
have a first, a middle one that receives, acknowledges, sends and is
acknowledged, and a last one; two packages can overtake each other and be
confused in `sentPackages`. One fault of any kind, at any moment, is enough to break
each rule that a mutant breaks; for more of them, and for other chains, there
are the theorems. What goes wrong together (a stop between the taking of data and
its handling, a restart, and the acknowledgement on its way) is one fault here.
A node keeps no data from one package to the next, so
two packages in a queue, the data and the acknowledgement that depends on it, and
one at the other reader show the interference of one with the next; the command slot needs two
writers to be overwritten, here the application and the shutdown package. Two lines of a
file can repeat an item, set one and spoil the next, or be cut off; files follow
each other without bound. No symmetry is used.

### Fairness

A thread that can go on is scheduled in the end (weak fairness of the steps of
each thread). Mutexes are not fair in C++; the runs assume that who asks for a
mutex that is free again and again gets it in the end (strong fairness of the
locking steps alone). The writer thread polls its mutex in a tight loop, so
without that assumption a caller of `write()` may starve, and the code gives no
better guarantee. Neither packages nor commands, stops, starts, errors nor
spurious wakeups are assumed to happen. In `Lifecycle` a call of `start()` or
`stop()` goes on and each thread of each life does, with weak fairness: who waits
for the mutex may wait for ever there, which costs `QuitEndsEveryThread` nothing
because the thread that executes a quit has the mutex. In `Chain` some node goes on
as long as one that is up has work or mail (weak fairness of all of that together);
no node is promised a share, nothing has to be read, and no node has to be
started again. Nothing is promised any more once something has gone wrong (`faults`),
which includes the missed notification after which the code leaves a package in its
queue, and a package dropped because a writer's thread had not begun. `QueueDrains` and
`EffectiveStopEndsThreads` excuse a writer that is halted (process ended, or its
thread waiting for itself); the run has both cases.

## The proofs

`NetworkWriterProofs`, for any number of callers, packages, starts and for any
address:

* `TypeCorrect`: `Spec => []TypeInv`. `TypeOK` alone is not inductive: that
  `Take` finds the mutex its own, or that `Finish` releases what it owns, needs
  `Sections`, which says that `guard = t` exactly when thread t is between its
  lock and its unlock, that a handling thread has a package, and that threads
  not spawned yet do nothing. `TypeInv` is the conjunction, and it is inductive.
* `MutualExclusion`: `Spec => []OneHandler`, a consequence of `Sections`.
* `RetainedUntilAcknowledged`: `Spec => []UnackedRetained`, inductive together
  with `TypeInv`. The two steps that matter have a lemma each: handing over
  (remembered before it is handled) and an answer (only a positive one erases,
  and only a package with its uid).
* `WriterImplementsSendQueue`: `Spec => ImplementsSendQueue` under the mapping
  queue = package in hand followed by `msgQueue`, unacked = `sentPackages`. Each
  action is a step of `SendQueue` or a stutter; `Take` is a stutter because the
  package moves from one half of the abstract queue to the other, and `StopPop`
  discards the first or the second element depending on whether one is in hand.

* `SentAtMostOnce`: `Spec => []TransmittedOnce`. `OnePlace` says that a package is in
  one place at most: about to be pushed by one caller, at one index of `msgQueue`, or
  in the hands of one thread; `Tells`, that the datagrams that left can be told
  apart by the packages they stand for, none of which is in one of those places.
  `Take` is the step that matters: the thread that takes the front is the only one
  that may (`Sections`).

They rest on `NoTextAssumption` and `WriterAssumption` (outgoing packages are
packages, the next node is an address, None is none of them), which TLC
evaluates in the runs. What removing an element from a sequence does is in
`PackageProofs`, and what an answer does to `sentPackages` in `SendingProofs`; the
chain's proofs use both too.

`ConfigurationProofs`, for all files, of any length:

* `OneItemPerName`: `Spec => []TypeInv`. `AddOrReplaceCorrect` says what the
  list is after an assignment, for every name, which is all the step needs.
* `LastAssignment`: `Spec => []LastAssignmentWins`, inductive with `TypeInv`,
  from that lemma and `NextAssignment`, which says the same of the file's lines.

* `NodeAsWritten` and `SuccessIfValid`: `Spec => []ConfiguredAsWritten` and
  `Spec => []SucceedsIfValid`. `Progress` has a part for each stage of `configure()`: what
  a stage that has been passed has set is what the file says, and its value could be
  converted; where `configure()` has given up, the file is not valid. Whatever
  earlier files have left in the members is overwritten or deleted on the way,
  which is why no earlier state occurs in it.

They rest on `ConfigurationAssumption` (the names the code looks up are names,
empty and "null" are values no address has).

`ProcessorNodeProofs`, for any number of the application's threads and commands, any
datagrams, any handlers and whoever stops the node:

* `NodeInvariance`: `Spec => []NodeInv`, whose parts are the inductive ones below.
* `NodeTypes`: `Spec => []TypeOK`. That the mutex is owned by the thread inside the
  predicate of its wait() needs that a notification or a spurious wakeup moves
  a thread only from "blocked", where it has no mutex (`MutexWoken`); that what is
  handled and sent is a package needs that it is in hand just then (`HandsTyped`).
* `OneLateAtMost`: `Spec => []AtMostOneLate`. Nobody sets `running` again
  (`RunningOnce`), and a package is taken only while the node runs, so that at most
  the one in hand is late (`LateInv`).
* `StoppedIsDeaf`: `Spec => []StoppedReceivesNothing`. `StopInv` follows a stop() from
  one part of the node to the next: a reader that it has passed has no receive,
  and the handler of the io thread adds none to a reader that does not run.
* `HandledBeforeAcknowledged`: `Spec => []AcknowledgedAfterHandled`. `AckInv` follows
  an acknowledgement backwards: what the writer got was in hand, with its data
  handled; what is queued has its data before it in the same queue, in hand or
  handled (`InOrder`, with a lemma for each way in which a queue changes). This last
  part holds only while the node runs: a stop drops the data in hand and leaves
  its acknowledgement in the queue. The proof therefore needs that `IncomingTake`
  takes nothing any more once the node has been told to stop.

* `NoCommandTwice`: `Spec => []ExecutedWhenIssued`. The property counts, so that the
  invariant has to say where the commands are that are issued and not executed:
  `OnItsWay` counts the slot, the command that the thread has taken and the quit that
  the handler thread is about to write for a shutdown package, and executed and on
  its way together are no more than issued. Overwriting the slot only makes the
  first smaller.
* `PassedOnBeforeQuit`: `Spec => []ShutdownPassedOn`, from the same invariant, which
  compares the quits with what the writer accepted, or dropped because its thread had
  not begun, as long as the node runs. It cannot be said of a node that has been
  stopped: there a shutdown package may be forwarded to a writer that takes
  nothing, and its quit is written but not executed. That a writer which has been
  stopped belongs to a node that does not run is what the proof needs of `StopInv`.
* `EveryPackageOnce`: `Spec => []NothingLost`. `LostInv` says for every package that it is
  with the threads as often as it came (`Copies`, over the queue, the hands and what
  has been handled; `CameOf`, over the datagrams).
* `NodeImplementsNodeQueue`: `Spec => ImplementsNodeQueue`, with the package in hand and
  the reader's queue behind it as the queue of `NodeQueue`. Reading is a stutter,
  since it moves a package from one part of that queue to the other; passing on
  and forwarding are `Handle`, leaving a package is `Drop`, and all there is to
  flags, locks and wakeups is `Stop` or nothing. The writer begins to send and is
  stopped in the same steps here and there; `StopSending` needs that the node does not
  run any more (`StopInv`), `Handle` that what is passed on is no shutdown and
  what is forwarded is one (`Taken`).

They rest on `NodeAssumption`, `HandlersAssumption` and `NoTextAssumption`. What counting
the members of a set in a sequence gives when the sequence grows, loses its head
or is put behind another is said once, in `OccurrencesAppend`, `OccurrencesHeadTail` and
`OccurrencesBehind`.

`LifecycleProofs`, for any number of starts, stops and quits, and any datagrams:

* `ReaderIsBounded`, `ReaderKeepsReceives`: `Spec => []ReceivesBounded` and
  `Spec => ReceivesKept`. Every step of the node is a step of its reader or leaves
  it alone (`ReaderSteps`), and of the reader alone `ReaderInv` is inductive: what
  keeps the receives at two is that a stopped reader waits for nothing, so that
  a start finds none and the handler adds at most one.
* `LifeTypes`, `FailedStartTakesBack`, `CallsAloneAreSafe`, `RunningNodesAreOpen`: the
  three properties and `TypeOK` are conjuncts of `LifeInv`, which is inductive. Its
  other parts: while `start()` is at a place, what it has started is there and the
  flags say so, unless a `stop()` came in between (`StartsInv`, `OpenInv`); whoever is
  between the test and the deletion of an object finds it there if nobody else is
  in `stop()` (`AloneInv`); a `stop()` that follows a failure leaves nothing running
  behind the place it has reached (`FailedInv`); a writer that runs has its socket
  open and its thread begun (`WriterInv`). Places that no object, flag or socket
  depends on are treated together (`LifeInvPlaces`).

They rest on `LifecycleAssumption` and `NoTextAssumption`.

`ChainProofs`, for any number of nodes, connected in any way (a node may have
several predecessors), any handlers, any packages and any number of faults:

* `ChainTypes`, `NothingForgotten`, `AcknowledgementsComeHome`: `TypeOK`,
  `ForgottenOnlyWhenHandled` and the invariant that implies `AcksComeHome` are
  conjuncts of `ChainInv`. Neither of the two is inductive alone: that an answer may
  make its node forget a package depends on where answers come from. `NetworkInv`
  says of each acknowledgement under way what `AcksComeHome` says, and of each data
  datagram that it goes to the next node of its sender. `InInv`, `OutInv` and `HeldInv`
  follow them through the queues and the hands of threads: an acknowledgement in a
  reader's queue was either written by this node and stands behind the data it
  confirms, or comes from the next node, which is done with it. That the
  acknowledgement stands *behind* the data, in one queue that is taken from the
  front, is the heart of it: when it comes to the front, its data has been handled or
  taken by a thread that a stop caught (`Done`). `Done` only grows (`ConfirmedGrows` and
  its kin), which a crash does not change: what was handled was.

  The two theorems have the hypothesis `UseAckAgreed`: a node whose next node
  acknowledges has `use-ack` set. It is needed: a node without it passes
  acknowledgements on (see the deviations), and the next node erases what nobody
  has confirmed. The code does not enforce it, and the other theorems of the chain
  do without it.

They rest on `ChainAssumption`: node addresses are distinct, a node that another one sends
to has a reader, and data from files has no destination of its own.

* `EveryWriterKeepsPromises`: `Spec => WriterKeepsPromises`, where `Sender` is any
  node. `sendData()` is an `Accept`, `Settle` and `Send` are steps of the same kind there, a
  stop or a crash is a `Reset`, and what other nodes do is a stutter. It needs
  `ChainInv` for one thing: no package without a type gets into a writer's queue,
  on which a writer would wait for itself; that is so because no datagram of
  these nodes is read as one (`OnWire`).

* `TextArrivesPlain`: `ASSUME EncryptionUndone PROVE Spec => []PlainText`. Whether the texts
  that come to a node are scrambled depends on where it is, not on what has
  happened: `EncryptionUndone` says that every way from a file to a keeping
  handler passes an even number of EncryptHandlers, for some choice of the nodes
  at which texts come scrambled. (A chain that encrypts and does not decrypt keeps
  scrambled texts, so that nothing can be claimed without such a hypothesis;
  `MCChain` assumes it of the chain of the run, where TLC evaluates it, and payloads of files
  are texts.) `TextInv` carries a text through the queues, `sentPackages` and the network
  as it is or scrambled, as that choice says.

`HandlersProofs`: `Rot13Involution` (rot13 twice is the identity, for all sequences
of character codes), `DecryptedAgain` (an EncryptHandler undoes another), and what
goes through the list of handlers remains a package (`PassedFacts`), on which
`ChainProofs` and `ProcessorNodeProofs` rest.

Only model-checked: liveness (`QueueDrains`, `EffectiveStopEndsThreads`, `QuitIsAnnounced`,
`QuitEndsEveryThread`, `QuitEndsThreads`, `ArrivesAndSettles`), which under fairness is out of
the reach of the prover. All invariants and action properties of the passing
runs, and the three refinements, are proved. A theorem is about the definitions
that the runs check, for every value of the constants that satisfies the
assumptions; the runs with a counterexample refute properties that no theorem
states.

## Not modelled

The digits of addresses and the characters of lines; the user interface's
observer but for its shutdown event; statistics; memory (the lifetime of the send
buffer and of detached threads, torn containers, one receive overwriting the
buffer of another); the destructor of a node, which deletes what detached
threads still use; the import of a configuration from JSON, `addFrom()` and the second
overload of `setOutputSink()`, which nobody in the library calls. The set operation of
`ConfigurationHandler` has an empty body. A failure inside a handler of the
application is caught by `passToHandlers()`, and is then the same as keeping the
package. A configured node and its lives are separate models: what `start()` does
without a configuration (it dereferences null) is in neither.

## The plan

Done: `Package`, `SendQueue`, `NetworkWriter`, `NetworkReader`, `ProcessorNode`,
`Configuration`; then `Receiving`, `Sending`, `Handlers`, `Chain` and `Lifecycle`; with
their runs, and the proofs above.

Next, in this order:

1. That a node of `Chain` that has no data file is a `NodeQueue` whose writer is a
   `SendQueue`, so that a chain of threaded nodes is a `Chain`.
2. A configured node and its lives in one model, for what `start()` does with the
   configuration that `configure()` left behind.
