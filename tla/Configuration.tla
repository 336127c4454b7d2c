---------------------------- MODULE Configuration ----------------------------
(***************************************************************************)
(* How a node is configured from a file, and configured again: the reading *)
(* of the file (DataFileReader.cpp, ConfigurationFileReader.cpp), the list *)
(* of items that it fills (NodeConfiguration.cpp), and the readers and     *)
(* writers that ProcessorNode::configure() then replaces one by one, each  *)
(* of which may throw.  The application does so between two runs of the    *)
(* node, from one thread.                                                  *)
(***************************************************************************)
EXTENDS Naturals, Sequences, FiniteSetsExt

CONSTANTS
  Name,            \* names of configuration items
  Value,           \* their values
  NoValue,         \* the empty string
  Null,            \* the string "null"
  PortText,        \* values that stoi() converts
  HostText,        \* values of which setHost() can convert the port, if any
  File,            \* the contents that a configuration file may have
  None             \* no file, no object

Item == [name : Name, value : Value]

\* A line of a file: one that is skipped (empty, or a comment), one with a
\* name and a value, or one that is anything else.
Skipped == [kind |-> "skipped"]
Corrupt == [kind |-> "corrupt"]
ItemLine(n, v) == [kind |-> "item", name |-> n, value |-> v]
Line == {Skipped, Corrupt} \cup {ItemLine(n, v) : n \in Name, v \in Value}

\* A file: whether its first line is "nodeconfiguration", the lines after it,
\* and whether the last of these has a line end.
Contents == [isConfiguration : BOOLEAN, lines : Seq(Line), terminated : BOOLEAN]

ASSUME ConfigurationAssumption ==
  /\ {"input", "config-in", "output", "filein", "fileout"} \subseteq Name
  /\ NoValue \in Value /\ Null \in Value
  /\ PortText \subseteq Value \ {NoValue, Null}
  /\ HostText \subseteq Value \ {NoValue, Null}
  /\ File \subseteq Contents
  /\ None \notin File /\ None \notin Value /\ None \notin Seq(Item)

VARIABLES
  stage,           \* place in configure()
  file, line,      \* the file read last, and how many of its lines
  config,          \* its items, or None
  networkReader, configReader, networkWriter, \* what each was made for, or None
  configWriter,    \* whether there is one
  dataFileName, outputFileName,
  configured       \* the result of the last configure()

readers == <<networkReader, configReader>>
writers == <<networkWriter, configWriter>>
fileNames == <<dataFileName, outputFileName>>
parts == <<readers, writers, fileNames>>
vars == <<stage, file, line, config, parts, configured>>

-----------------------------------------------------------------------------
\* NodeConfiguration: a list of items that is searched from its beginning.
Has(items, n) == \E i \in 1 .. Len(items) : items[i].name = n
Position(items, n) ==
  CHOOSE i \in 1 .. Len(items) :
    items[i].name = n /\ \A j \in 1 .. (i - 1) : items[j].name # n
getValue(items, n) == IF Has(items, n) THEN items[Position(items, n)].value ELSE NoValue

\* Were a name that is there already left as it is, or added once more ...
KeepFirst(items, item) == IF Has(items, item.name) THEN items ELSE Append(items, item)
AddAlways(items, item) == Append(items, item)

addOrReplace(items, item) ==
  IF Has(items, item.name)
  THEN [items EXCEPT ![Position(items, item.name)].value = item.value]
  ELSE Append(items, item)

\* The lines that getline() returns with the stream still good.
CompleteLines(f) ==
  IF f.terminated \/ f.lines = <<>> THEN Len(f.lines) ELSE Len(f.lines) - 1

-----------------------------------------------------------------------------
Init ==
  /\ stage = "idle" /\ file = None /\ line = 0 /\ config = None
  /\ networkReader = None /\ configReader = None
  /\ networkWriter = None /\ configWriter = FALSE
  /\ dataFileName = NoValue /\ outputFileName = NoValue
  /\ configured = FALSE

\* configure() begins with a new configuration ...
Configure(f) ==
  /\ stage = "idle"
  /\ stage' = "reading" /\ file' = f /\ line' = 0 /\ config' = <<>>
  /\ configured' = FALSE
  /\ UNCHANGED parts

\* ... which it deletes again if the file cannot be opened.
ConfigureNoFile ==
  /\ stage = "idle"
  /\ file' = None /\ line' = 0 /\ config' = None
  /\ configured' = FALSE
  /\ UNCHANGED <<stage, parts>>

\* What was done before an exception stays.
Throw == stage' = "idle" /\ UNCHANGED configured

\* Were a line that cannot be parsed passed over, as its missing item is ...
SkipCorrupt ==
  /\ stage = "reading" /\ line < CompleteLines(file)
  /\ LET l == file.lines[line + 1]
     IN  /\ line' = line + 1
         /\ config' = IF l.kind = "item" /\ file.isConfiguration
                      THEN addOrReplace(config, [name |-> l.name, value |-> l.value])
                      ELSE config
  /\ UNCHANGED <<stage, file, parts, configured>>

ReadLine ==
  /\ stage = "reading" /\ line < CompleteLines(file)
  /\ LET l == file.lines[line + 1]
     IN  \/ /\ l.kind = "skipped"
            /\ line' = line + 1
            /\ UNCHANGED <<stage, config, configured>>
         \/ /\ l.kind = "item" /\ file.isConfiguration
            /\ line' = line + 1
            /\ config' = addOrReplace(config, [name |-> l.name, value |-> l.value])
            /\ UNCHANGED <<stage, configured>>
         \/ /\ l.kind = "corrupt" \/ (l.kind = "item" /\ ~file.isConfiguration)
            /\ Throw
            /\ UNCHANGED <<line, config>>
  /\ UNCHANGED <<file, parts>>

ReadEnd ==
  /\ stage = "reading" /\ line = CompleteLines(file)
  /\ stage' = "input"
  /\ UNCHANGED <<file, line, config, parts, configured>>

\* An old object is deleted, and a new one made of the value, if there is one
\* and it can be converted.
IsSet(v) == v # NoValue /\ v # Null
Made(v, convertible) == IF v \in convertible THEN v ELSE None
Then(next, v, convertible) ==
  IF IsSet(v) => v \in convertible THEN stage' = next /\ UNCHANGED configured ELSE Throw

setInputSource ==
  /\ stage = "input"
  /\ LET v == getValue(config, "input")
     IN  networkReader' = Made(v, PortText) /\ Then("config-in", v, PortText)
  /\ UNCHANGED <<file, line, config, configReader, writers, fileNames>>

setConfigurationInputSource ==
  /\ stage = "config-in"
  /\ LET v == getValue(config, "config-in")
     IN  configReader' = Made(v, PortText) /\ Then("output", v, PortText)
  /\ UNCHANGED <<file, line, config, networkReader, writers, fileNames>>

\* Were the old writer deleted only when a new one takes its place ...
SinkKept ==
  /\ stage = "output"
  /\ LET v == getValue(config, "output")
     IN  /\ networkWriter' = IF IsSet(v) THEN Made(v, HostText) ELSE networkWriter
         /\ Then("config-out", v, HostText)
  /\ UNCHANGED <<file, line, config, readers, configWriter, fileNames>>

setOutputSink ==
  /\ stage = "output"
  /\ LET v == getValue(config, "output")
     IN  networkWriter' = Made(v, HostText) /\ Then("config-out", v, HostText)
  /\ UNCHANGED <<file, line, config, readers, configWriter, fileNames>>

\* The value of config-out is read, and not used.
createConfigurationOutputWriter ==
  /\ stage = "config-out"
  /\ LET needed == networkWriter = None /\ ~IsSet(getValue(config, "output"))
     IN  configWriter' = (configWriter \/ needed)
  /\ stage' = "files"
  /\ UNCHANGED <<file, line, config, readers, networkWriter, fileNames, configured>>

\* setDataFileName() and setOutputFileName(), and the result.
setFileNames ==
  /\ stage = "files"
  /\ dataFileName' = getValue(config, "filein")
  /\ outputFileName' = getValue(config, "fileout")
  /\ stage' = "idle" /\ configured' = TRUE
  /\ UNCHANGED <<file, line, config, readers, writers>>

Next ==
  \/ \E f \in File : Configure(f)
  \/ ConfigureNoFile
  \/ ReadLine \/ ReadEnd
  \/ setInputSource \/ setConfigurationInputSource \/ setOutputSink
  \/ createConfigurationOutputWriter \/ setFileNames

Spec == Init /\ [][Next]_vars

-----------------------------------------------------------------------------
\* The types of the variables.  No name stands twice in the list of items,
\* though from getline() to push_back() four classes handle each of them.
TypeOK ==
  /\ stage \in {"idle", "reading", "input", "config-in", "output", "config-out", "files"}
  /\ file \in File \cup {None} /\ line \in Nat
  /\ config \in Seq(Item) \cup {None}
  /\ networkReader \in PortText \cup {None} /\ configReader \in PortText \cup {None}
  /\ networkWriter \in HostText \cup {None} /\ configWriter \in BOOLEAN
  /\ dataFileName \in Value /\ outputFileName \in Value /\ configured \in BOOLEAN
  /\ file = None <=> config = None
  /\ file = None => stage = "idle" /\ ~configured
  /\ file # None => line <= Len(file.lines)
UniqueNames ==
  config # None => \A i, j \in 1 .. Len(config) : config[i].name = config[j].name => i = j
TypeInv == TypeOK /\ UniqueNames

\* The item that the file assigns last among its first k lines counts: what
\* getValue() finds at any moment, in a list in which values are replaced in
\* place and which is left as it is by an exception.
Assignments(k, n) == {i \in 1 .. k : file.lines[i].kind = "item" /\ file.lines[i].name = n}
LastAssigned(k, n) ==
  IF Assignments(k, n) = {} THEN NoValue
  ELSE file.lines[Max(Assignments(k, n))].value
LastAssignmentWins ==
  config # None => \A n \in Name : getValue(config, n) = LastAssigned(line, n)

\* A node that configure() says is configured is the one the file describes,
\* whatever it was configured for before, and however far that went.
Written(n) == LastAssigned(CompleteLines(file), n)
Described(part, n) == part = IF IsSet(Written(n)) THEN Written(n) ELSE None
ConfiguredAsWritten ==
  configured =>
    /\ Described(networkReader, "input") /\ Described(configReader, "config-in")
    /\ Described(networkWriter, "output")
    /\ networkWriter = None => configWriter
    /\ dataFileName = Written("filein") /\ outputFileName = Written("fileout")

\* configure() succeeds for exactly those files whose complete lines can all
\* be parsed and whose addresses can all be converted.
WellFormed(f) ==
  \A i \in 1 .. CompleteLines(f) :
    f.lines[i].kind # "corrupt" /\ (f.lines[i].kind = "item" => f.isConfiguration)
Convertible(n, convertible) == IsSet(Written(n)) => Written(n) \in convertible
SucceedsIfValid ==
  stage = "idle" /\ file # None =>
    (configured <=> /\ WellFormed(file)
                    /\ Convertible("input", PortText) /\ Convertible("config-in", PortText)
                    /\ Convertible("output", HostText))
=============================================================================
