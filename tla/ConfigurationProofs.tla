------------------------- MODULE ConfigurationProofs -------------------------
(***************************************************************************)
(* Theorems about Configuration, for all files: the list of items keeps    *)
(* one item per name, and finds the value that was assigned last.          *)
(***************************************************************************)
EXTENDS Configuration, TLAPS

-----------------------------------------------------------------------------
(***************************************************************************)
(* The list of items (NodeConfiguration).                                  *)
(***************************************************************************)
Unique(items) ==
  \A i, j \in 1 .. Len(items) : items[i].name = items[j].name => i = j

\* In a list without repeated names, Position() is the place of the name.
LEMMA PositionFound ==
  ASSUME NEW items \in Seq(Item), Unique(items), NEW i \in 1 .. Len(items)
  PROVE  Position(items, items[i].name) = i
<1> DEFINE P(k) == /\ items[k].name = items[i].name
                   /\ \A j \in 1 .. (k - 1) : items[j].name # items[i].name
<1>1. P(i)
  BY DEF Unique
<1>2. \A k \in 1 .. Len(items) : P(k) => k = i
  BY DEF Unique
<1>3. (CHOOSE k \in 1 .. Len(items) : P(k)) = i
  BY <1>1, <1>2
<1> QED
  BY <1>3 DEF Position

\* What is found is the value of the item with the name, wherever it stands.
LEMMA ValueFound ==
  ASSUME NEW items \in Seq(Item), Unique(items), NEW i \in 1 .. Len(items)
  PROVE  getValue(items, items[i].name) = items[i].value
BY PositionFound DEF getValue, Has

\* addOrReplace() keeps the list a list of items without repeated names, in
\* which the new item is found, and every other value is what it was.
LEMMA AddOrReplaceCorrect ==
  ASSUME NEW items \in Seq(Item), Unique(items), NEW item \in Item
  PROVE  /\ addOrReplace(items, item) \in Seq(Item)
         /\ Unique(addOrReplace(items, item))
         /\ \A n \in Name : getValue(addOrReplace(items, item), n)
                              = IF n = item.name THEN item.value ELSE getValue(items, n)
<1> DEFINE new == addOrReplace(items, item)
<1>1. CASE Has(items, item.name)
  <2>1. PICK i \in 1 .. Len(items) : items[i].name = item.name
    BY <1>1 DEF Has
  <2>2. Position(items, item.name) = i
    BY <2>1, PositionFound
  <2>3. new = [items EXCEPT ![i].value = item.value]
    BY <1>1, <2>2 DEF addOrReplace
  <2>4. /\ new \in Seq(Item) /\ Len(new) = Len(items)
        /\ \A k \in 1 .. Len(items) : new[k].name = items[k].name
        /\ \A k \in 1 .. Len(items) : k # i => new[k] = items[k]
        /\ new[i].value = item.value
    <3> DEFINE replaced == [items[i] EXCEPT !.value = item.value]
    <3>1. replaced \in Item /\ replaced.name = items[i].name /\ replaced.value = item.value
      <4>1. items[i] \in Item
        OBVIOUS
      <4> QED
        BY <4>1 DEF Item
    <3>2. new = [items EXCEPT ![i] = replaced]
      BY <2>3
    <3> HIDE DEF new, replaced
    <3> QED
      BY <3>1, <3>2
  <2> HIDE DEF new
  <2>5. Unique(new)
    BY <2>4 DEF Unique
  <2>6. ASSUME NEW n \in Name
        PROVE  getValue(new, n) = IF n = item.name THEN item.value ELSE getValue(items, n)
    <3>1. CASE n = item.name
      BY <3>1, <2>1, <2>4, <2>5, ValueFound
    <3>2. CASE n # item.name /\ Has(items, n)
      <4>1. PICK k \in 1 .. Len(items) : items[k].name = n
        BY <3>2 DEF Has
      <4>2. k # i /\ new[k] = items[k] /\ new[k].name = n
        BY <3>2, <2>1, <4>1, <2>4
      <4>3. getValue(new, n) = new[k].value
        BY <4>2, <2>4, <2>5, ValueFound
      <4>4. getValue(items, n) = items[k].value
        BY <4>1, ValueFound
      <4> QED
        BY <3>2, <4>2, <4>3, <4>4
    <3>3. CASE n # item.name /\ ~Has(items, n)
      BY <3>3, <2>4 DEF getValue, Has
    <3> QED
      BY <3>1, <3>2, <3>3
  <2> QED
    BY <2>4, <2>5, <2>6 DEF new
<1>2. CASE ~Has(items, item.name)
  <2>1. new = Append(items, item)
    BY <1>2 DEF addOrReplace
  <2>2. /\ new \in Seq(Item) /\ Len(new) = Len(items) + 1
        /\ \A k \in 1 .. Len(items) : new[k] = items[k]
        /\ new[Len(new)] = item
    BY <2>1
  <2> HIDE DEF new
  <2>3. Unique(new)
    BY <1>2, <2>2 DEF Unique, Has
  <2>4. ASSUME NEW n \in Name
        PROVE  getValue(new, n) = IF n = item.name THEN item.value ELSE getValue(items, n)
    <3>1. CASE n = item.name
      BY <3>1, <2>2, <2>3, ValueFound
    <3>2. CASE n # item.name /\ Has(items, n)
      <4>1. PICK k \in 1 .. Len(items) : items[k].name = n
        BY <3>2 DEF Has
      <4>2. new[k] = items[k] /\ k \in 1 .. Len(new)
        BY <4>1, <2>2
      <4>3. getValue(new, n) = new[k].value
        BY <4>1, <4>2, <2>2, <2>3, ValueFound
      <4>4. getValue(items, n) = items[k].value
        BY <4>1, ValueFound
      <4> QED
        BY <3>2, <4>2, <4>3, <4>4
    <3>3. CASE n # item.name /\ ~Has(items, n)
      BY <3>3, <2>2 DEF getValue, Has
    <3> QED
      BY <3>1, <3>2, <3>3
  <2> QED
    BY <2>2, <2>3, <2>4 DEF new
<1> QED
  BY <1>1, <1>2

-----------------------------------------------------------------------------
(***************************************************************************)
(* The specification.                                                      *)
(***************************************************************************)
\* The last assignment changes with the line that assigns, and only then.
LEMMA NextAssignment ==
  ASSUME file \in File, NEW k \in Nat, k < Len(file.lines), NEW n \in Name
  PROVE  LastAssigned(k + 1, n)
           = IF file.lines[k + 1].kind = "item" /\ file.lines[k + 1].name = n
             THEN file.lines[k + 1].value ELSE LastAssigned(k, n)
<1> DEFINE Sets(i) == file.lines[i].kind = "item" /\ file.lines[i].name = n
<1>1. CASE Sets(k + 1)
  <2>1. k + 1 \in Assignments(k + 1, n) /\ \A j \in Assignments(k + 1, n) : j <= k + 1
    BY <1>1 DEF Assignments
  <2>2. Assignments(k + 1, n) \subseteq Nat
    BY DEF Assignments
  <2>3. Max(Assignments(k + 1, n)) = k + 1
    BY <2>1, <2>2 DEF Max
  <2> QED
    BY <1>1, <2>1, <2>3 DEF LastAssigned
<1>2. CASE ~Sets(k + 1)
  <2>1. Assignments(k + 1, n) = Assignments(k, n)
    BY <1>2 DEF Assignments
  <2> QED
    BY <1>2, <2>1 DEF LastAssigned
<1> QED
  BY <1>1, <1>2

\* TypeInv holds at first and is kept by every action.
LEMMA InitTypeInv == Init => TypeInv
<1> SUFFICES ASSUME Init PROVE TypeInv
  OBVIOUS
<1>1. /\ file = None <=> config = None
      /\ file = None => stage = "idle" /\ ~configured
      /\ file # None => line <= Len(file.lines)
  BY DEF Init
<1>2. TypeOK
  BY <1>1, ConfigurationAssumption DEF Init, TypeOK
<1> QED
  BY <1>2 DEF Init, TypeInv, UniqueNames

\* A line with an item has a name and a value, which make an item.
LEMMA ItemOfLine ==
  ASSUME NEW l \in Line, l.kind = "item"
  PROVE  [name |-> l.name, value |-> l.value] \in Item
<1>1. l # Skipped /\ l # Corrupt
  BY DEF Skipped, Corrupt
<1>2. PICK n \in Name, v \in Value : l = ItemLine(n, v)
  BY <1>1 DEF Line
<1>3. l.name = n /\ l.value = v
  BY <1>2 DEF ItemLine
<1> QED
  BY <1>3 DEF Item

LEMMA CompleteLinesBound ==
  ASSUME NEW f \in File
  PROVE  CompleteLines(f) \in Nat /\ CompleteLines(f) <= Len(f.lines)
  BY ConfigurationAssumption DEF CompleteLines, Contents

\* What a part is made of is of the values that can be converted.
LEMMA MadeType == \A v, S : Made(v, S) \in S \cup {None}
  BY DEF Made

\* Whatever the list of items, a name has a value in it.
LEMMA ValueType ==
  ASSUME NEW items \in Seq(Item), Unique(items), NEW n \in Name
  PROVE  getValue(items, n) \in Value
<1>1. CASE Has(items, n)
  <2>1. PICK i \in 1 .. Len(items) : items[i].name = n
    BY <1>1 DEF Has
  <2>2. items[i] \in Item
    OBVIOUS
  <2> QED
    BY <2>1, <2>2, ValueFound DEF Item
<1>2. CASE ~Has(items, n)
  BY <1>2, ConfigurationAssumption DEF getValue
<1> QED
  BY <1>1, <1>2

LEMMA NextTypeInv == TypeInv /\ [Next]_vars => TypeInv'
<1> SUFFICES ASSUME TypeInv, [Next]_vars PROVE TypeInv'
  OBVIOUS
<1> USE DEF TypeInv
<1>1. ASSUME NEW f \in File, Configure(f) PROVE TypeInv'
  <2>1. config' = <<>> /\ config' \in Seq(Item) /\ f # None /\ 0 <= Len(f.lines)
    BY <1>1, ConfigurationAssumption DEF Configure, Contents
  <2>2. config' # None
    BY <2>1, ConfigurationAssumption
  <2>3. TypeOK'
    BY <1>1, <2>1, <2>2 DEF TypeOK, Configure, parts, readers, writers, fileNames
  <2>4. UniqueNames'
    BY <2>1 DEF UniqueNames
  <2> QED
    BY <2>3, <2>4
<1>2. CASE ConfigureNoFile
  BY <1>2 DEF TypeOK, UniqueNames, ConfigureNoFile, parts, readers, writers, fileNames
<1>3. CASE ReadLine
  <2> DEFINE l == file.lines[line + 1]
  <2>1. /\ file \in File /\ config \in Seq(Item) /\ config # None
        /\ line \in Nat /\ line + 1 <= Len(file.lines)
    BY <1>3, CompleteLinesBound, ConfigurationAssumption DEF TypeOK, ReadLine
  <2>2. l \in Line
    BY <2>1, ConfigurationAssumption DEF Contents
  <2>3. CASE line' = line + 1 /\ UNCHANGED <<stage, config, configured>>
    BY <1>3, <2>1, <2>3
    DEF TypeOK, UniqueNames, ReadLine, parts, readers, writers, fileNames
  <2>4. CASE /\ l.kind = "item" /\ line' = line + 1
             /\ config' = addOrReplace(config, [name |-> l.name, value |-> l.value])
             /\ UNCHANGED <<stage, configured>>
    <3>1. [name |-> l.name, value |-> l.value] \in Item
      BY <2>2, <2>4, ItemOfLine
    <3>2. config' \in Seq(Item) /\ Unique(config')
      <4>1. Unique(config)
        BY <2>1 DEF UniqueNames, Unique
      <4> DEFINE item == [name |-> l.name, value |-> l.value]
      <4>2. config' = addOrReplace(config, item) /\ item \in Item /\ config \in Seq(Item)
        BY <2>1, <2>4, <3>1
      <4> HIDE DEF item
      <4> QED
        BY <4>1, <4>2, AddOrReplaceCorrect
    <3>3. config' # None
      BY <3>2, ConfigurationAssumption
    <3>4. TypeOK'
      BY <1>3, <2>1, <2>4, <3>2, <3>3 DEF TypeOK, ReadLine, parts, readers, writers, fileNames
    <3> QED
      BY <3>2, <3>4 DEF UniqueNames, Unique
  <2>5. CASE Throw /\ UNCHANGED <<line, config>>
    BY <1>3, <2>1, <2>5
    DEF TypeOK, UniqueNames, Throw, ReadLine, parts, readers, writers, fileNames
  <2> QED
    BY <1>3, <2>3, <2>4, <2>5 DEF ReadLine
<1>4. CASE ReadEnd
  BY <1>4 DEF TypeOK, UniqueNames, ReadEnd, parts, readers, writers, fileNames
<1>5. CASE setInputSource
  BY <1>5, MadeType DEF TypeOK, UniqueNames, setInputSource, Then, Throw, writers, fileNames
<1>6. CASE setConfigurationInputSource
  BY <1>6, MadeType
  DEF TypeOK, UniqueNames, setConfigurationInputSource, Then, Throw, writers, fileNames
<1>7. CASE setOutputSink
  BY <1>7, MadeType DEF TypeOK, UniqueNames, setOutputSink, Then, Throw, readers, fileNames
<1>8. CASE createConfigurationOutputWriter
  <2>1. configWriter' \in BOOLEAN
    BY <1>8, Zenon DEF TypeOK, createConfigurationOutputWriter
  <2> QED
    BY <1>8, <2>1
    DEF TypeOK, UniqueNames, createConfigurationOutputWriter, readers, fileNames
<1>9. CASE setFileNames
  <2>1. config \in Seq(Item) /\ Unique(config) /\ file # None
    BY <1>9 DEF TypeOK, UniqueNames, Unique, setFileNames
  <2>2. dataFileName' \in Value /\ outputFileName' \in Value
    BY <1>9, <2>1, ValueType, ConfigurationAssumption DEF setFileNames
  <2> QED
    BY <1>9, <2>1, <2>2 DEF TypeOK, UniqueNames, setFileNames, readers, writers
<1>10. CASE UNCHANGED vars
  BY <1>10 DEF TypeOK, UniqueNames, vars, parts, readers, writers, fileNames
<1> QED
  BY <1>1, <1>2, <1>3, <1>4, <1>5, <1>6, <1>7, <1>8, <1>9, <1>10 DEF Next

\* NodeConfiguration keeps one item per name, and the variables their types,
\* whatever the files hold and however often the node is configured.
THEOREM OneItemPerName == Spec => []TypeInv
<1> QED
  BY InitTypeInv, NextTypeInv, PTL DEF Spec

\* What getValue() finds is what the lines read so far assigned last.
LEMMA InitLastAssignment == Init => LastAssignmentWins
  BY DEF Init, LastAssignmentWins

LEMMA NextLastAssignment ==
  TypeInv /\ LastAssignmentWins /\ [Next]_vars => LastAssignmentWins'
<1> SUFFICES ASSUME TypeInv, LastAssignmentWins, [Next]_vars PROVE LastAssignmentWins'
  OBVIOUS
<1>1. ASSUME NEW f \in File, Configure(f) PROVE LastAssignmentWins'
  <2>1. config' = <<>> /\ line' = 0
    BY <1>1 DEF Configure
  <2>2. \A n : getValue(config', n) = NoValue
    BY <2>1 DEF getValue, Has
  <2>3. \A n : LastAssigned(0, n)' = NoValue
    BY DEF LastAssigned, Assignments
  <2> QED
    BY <2>1, <2>2, <2>3 DEF LastAssignmentWins
<1>2. CASE ConfigureNoFile
  BY <1>2 DEF LastAssignmentWins, ConfigureNoFile
<1>3. CASE ReadLine
  <2> DEFINE l == file.lines[line + 1]
  <2>1. /\ file \in File /\ config \in Seq(Item) /\ config # None /\ Unique(config)
        /\ line \in Nat /\ line < Len(file.lines) /\ l \in Line /\ file' = file
    <3>1. file \in File /\ config \in Seq(Item) /\ config # None /\ line \in Nat
      BY <1>3 DEF TypeInv, TypeOK, ReadLine
    <3>2. line < Len(file.lines) /\ file.lines \in Seq(Line)
      BY <1>3, <3>1, CompleteLinesBound, ConfigurationAssumption DEF ReadLine, Contents
    <3> QED
      BY <1>3, <3>1, <3>2 DEF TypeInv, UniqueNames, Unique, ReadLine
  <2>2. \A n \in Name : LastAssigned(line + 1, n)
          = IF l.kind = "item" /\ l.name = n THEN l.value ELSE LastAssigned(line, n)
    BY <2>1, NextAssignment
  <2>3. \A k, n : LastAssigned(k, n)' = LastAssigned(k, n)
    BY <2>1 DEF LastAssigned, Assignments
  <2>4. CASE l.kind = "skipped" /\ line' = line + 1 /\ config' = config
    BY <2>1, <2>2, <2>3, <2>4 DEF LastAssignmentWins
  <2>5. CASE /\ l.kind = "item" /\ line' = line + 1
             /\ config' = addOrReplace(config, [name |-> l.name, value |-> l.value])
    <3> DEFINE item == [name |-> l.name, value |-> l.value]
    <3>1. item \in Item
      BY <2>1, <2>5, ItemOfLine
    <3>2. \A n \in Name : getValue(config', n)
                            = IF n = l.name THEN l.value ELSE getValue(config, n)
      <4> HIDE DEF item, l
      <4>1. config' = addOrReplace(config, item)
        BY <2>5 DEF item
      <4>2. item.name = l.name /\ item.value = l.value
        BY DEF item
      <4> QED
        BY <2>1, <3>1, <4>1, <4>2, AddOrReplaceCorrect
    <3> QED
      BY <2>1, <2>2, <2>3, <2>5, <3>2 DEF LastAssignmentWins
  <2>6. CASE line' = line /\ config' = config
    BY <2>3, <2>6 DEF LastAssignmentWins
  <2> QED
    BY <1>3, <2>4, <2>5, <2>6 DEF ReadLine
<1>4. CASE UNCHANGED <<file, line, config>>
  BY <1>4 DEF LastAssignmentWins, LastAssigned, Assignments
<1> QED
  BY <1>1, <1>2, <1>3, <1>4
  DEF Next, vars, ReadEnd, setInputSource, setConfigurationInputSource, setOutputSink,
      createConfigurationOutputWriter, setFileNames

\* A repeated item replaces the earlier one: at any moment, in any file, the
\* store answers with the value that was assigned last.
THEOREM LastAssignment == Spec => []LastAssignmentWins
<1>1. TypeInv /\ LastAssignmentWins /\ [Next]_vars => LastAssignmentWins'
  BY NextLastAssignment
<1> QED
  BY <1>1, InitLastAssignment, OneItemPerName, PTL DEF Spec

-----------------------------------------------------------------------------
(***************************************************************************)
(* configure(), step by step: what each of its stages has established, and *)
(* why it stopped where it stopped.                                        *)
(***************************************************************************)
LinesRead == {"input", "config-in", "output", "config-out", "files"}
InputSet == {"config-in", "output", "config-out", "files"}
ConfigInSet == {"output", "config-out", "files"}
OutputSet == {"config-out", "files"}
ConfigOutSet == {"files"}
Reached(stages) == stage \in stages \/ configured = TRUE

Readable(i) ==
  file.lines[i].kind # "corrupt" /\ (file.lines[i].kind = "item" => file.isConfiguration)
Valid ==
  /\ WellFormed(file)
  /\ Convertible("input", PortText) /\ Convertible("config-in", PortText)
  /\ Convertible("output", HostText)

Progress ==
  /\ configured = TRUE => stage = "idle" /\ file # None
  /\ file # None => line <= CompleteLines(file) /\ \A i \in 1 .. line : Readable(i)
  /\ Reached(LinesRead) => line = CompleteLines(file)
  /\ Reached(InputSet) => Described(networkReader, "input") /\ Convertible("input", PortText)
  /\ Reached(ConfigInSet) => /\ Described(configReader, "config-in")
                             /\ Convertible("config-in", PortText)
  /\ Reached(OutputSet) => Described(networkWriter, "output") /\ Convertible("output", HostText)
  /\ Reached(ConfigOutSet) => (networkWriter = None => configWriter = TRUE)
  /\ configured = TRUE => dataFileName = Written("filein") /\ outputFileName = Written("fileout")
  /\ stage = "idle" /\ file # None /\ configured = FALSE => ~Valid

LEMMA InitProgress == Init => Progress
  BY DEF Init, Progress, Reached, LinesRead, InputSet, ConfigInSet, OutputSet, ConfigOutSet

\* After the last line the store holds what the file says.
LEMMA StoreAsWritten ==
  ASSUME TypeInv, LastAssignmentWins, Progress, stage \in LinesRead, NEW n \in Name
  PROVE  getValue(config, n) = Written(n)
<1>1. config # None
  BY DEF TypeInv, TypeOK, LinesRead
<1>2. line = CompleteLines(file)
  BY DEF Progress, Reached
<1> QED
  BY <1>1, <1>2 DEF LastAssignmentWins, Written

\* What the file says is of the file alone.
LEMMA SameFile ==
  ASSUME file' = file
  PROVE  /\ \A n : Written(n)' = Written(n)
         /\ \A i : Readable(i)' <=> Readable(i)
         /\ WellFormed(file)' <=> WellFormed(file)
         /\ \A n, S : Convertible(n, S)' <=> Convertible(n, S)
         /\ Valid' <=> Valid
<1>1. \A n : Written(n)' = Written(n)
  BY DEF Written, LastAssigned, Assignments, CompleteLines
<1>2. \A i : Readable(i)' <=> Readable(i)
  BY DEF Readable
<1>3. WellFormed(file)' <=> WellFormed(file)
  BY DEF WellFormed, CompleteLines
<1>4. \A n, S : Convertible(n, S)' <=> Convertible(n, S)
  BY <1>1 DEF Convertible
<1> QED
  BY <1>1, <1>2, <1>3, <1>4 DEF Valid

\* A part made of the value that the file gives its name, or the exception.
LEMMA PartMade ==
  ASSUME NEW n \in Name, NEW S, S \subseteq Value \ {NoValue, Null}
  PROVE  /\ Convertible(n, S) => Described(Made(Written(n), S), n)
         /\ ~Convertible(n, S) <=> ~(IsSet(Written(n)) => Written(n) \in S)
  BY DEF Convertible, Described, Made, IsSet

LEMMA ProgressReadLine ==
  ASSUME TypeInv, Progress, ReadLine
  PROVE  Progress'
<1> USE DEF LinesRead, InputSet, ConfigInSet, OutputSet, ConfigOutSet
<1>1. /\ file \in File /\ file # None /\ line \in Nat /\ CompleteLines(file) \in Nat
      /\ line < CompleteLines(file) /\ stage = "reading" /\ configured = FALSE
      /\ file' = file /\ UNCHANGED parts /\ CompleteLines(file)' = CompleteLines(file)
  <2>1. file \in File /\ line \in Nat
    BY DEF ReadLine, TypeInv, TypeOK
  <2>2. configured = FALSE
    BY DEF ReadLine, Progress, TypeInv, TypeOK
  <2> QED
    BY <2>1, <2>2, CompleteLinesBound, ConfigurationAssumption DEF ReadLine
<1>2. CASE line' = line + 1 /\ Readable(line + 1) /\ UNCHANGED <<stage, configured>>
  <2>1. \A i \in 1 .. line' : Readable(i)
    BY <1>1, <1>2 DEF Progress
  <2> QED
    BY <1>1, <1>2, <2>1, SameFile DEF Progress, Reached
<1>3. CASE ~Readable(line + 1) /\ Throw /\ line' = line
  <2>1. ~WellFormed(file)
    BY <1>1, <1>3 DEF WellFormed, Readable
  <2>2. ~Valid
    BY <2>1 DEF Valid
  <2> QED
    BY <1>1, <1>3, <2>2, SameFile DEF Progress, Reached, Throw
<1> QED
  BY <1>2, <1>3 DEF ReadLine, Readable

LEMMA ProgressReadEnd ==
  ASSUME TypeInv, Progress, ReadEnd
  PROVE  Progress'
<1>1. /\ stage = "reading" /\ stage' = "input" /\ line = CompleteLines(file)
      /\ UNCHANGED <<file, line, configured>> /\ configured = FALSE
      /\ CompleteLines(file)' = CompleteLines(file)
  <2>1. stage = "reading" /\ stage' = "input" /\ line = CompleteLines(file)
        /\ UNCHANGED <<file, line, configured>>
    BY DEF ReadEnd
  <2>2. configured = FALSE
    BY <2>1 DEF Progress, TypeInv, TypeOK
  <2> QED
    BY <2>1, <2>2
<1> QED
  BY <1>1, SameFile DEF Progress, Reached, LinesRead, InputSet, ConfigInSet, OutputSet, ConfigOutSet

\* What a step of configure() after the reading starts from.
LEMMA SettingFacts ==
  ASSUME TypeInv, LastAssignmentWins, Progress, stage \in LinesRead
  PROVE  /\ configured = FALSE /\ file # None /\ line = CompleteLines(file)
         /\ WellFormed(file)
         /\ \A n \in Name : getValue(config, n) = Written(n)
<1>1. configured = FALSE /\ file # None
  BY DEF TypeInv, TypeOK, LinesRead, Progress
<1>2. line = CompleteLines(file) /\ WellFormed(file)
  BY <1>1 DEF Progress, Reached, WellFormed, Readable
<1> QED
  BY <1>1, <1>2, StoreAsWritten

LEMMA ProgressInput ==
  ASSUME TypeInv, LastAssignmentWins, Progress, setInputSource
  PROVE  Progress'
<1> USE DEF LinesRead, InputSet, ConfigInSet, OutputSet, ConfigOutSet
<1>1. /\ configured = FALSE /\ file # None /\ line = CompleteLines(file)
      /\ getValue(config, "input") = Written("input") /\ stage = "input"
      /\ UNCHANGED <<file, line>> /\ "input" \in Name /\ PortText \subseteq Value \ {NoValue, Null}
      /\ CompleteLines(file)' = CompleteLines(file)
  BY SettingFacts, ConfigurationAssumption DEF setInputSource
<1>2. CASE Convertible("input", PortText)
  <2>1. /\ stage' = "config-in" /\ configured' = FALSE
        /\ Described(networkReader', "input")
    BY <1>1, <1>2, PartMade DEF setInputSource, Then, Convertible
  <2>2. Described(networkReader, "input")'
    BY <1>1, <2>1, SameFile DEF Described
  <2> QED
    BY <1>1, <1>2, <2>1, <2>2, SameFile DEF Progress, Reached
<1>3. CASE ~Convertible("input", PortText)
  <2>1. stage' = "idle" /\ configured' = FALSE
    BY <1>1, <1>3 DEF setInputSource, Then, Throw, Convertible
  <2>2. ~Valid
    BY <1>3 DEF Valid
  <2> QED
    BY <1>1, <2>1, <2>2, SameFile DEF Progress, Reached
<1> QED
  BY <1>2, <1>3

LEMMA ProgressConfigIn ==
  ASSUME TypeInv, LastAssignmentWins, Progress, setConfigurationInputSource
  PROVE  Progress'
<1> USE DEF LinesRead, InputSet, ConfigInSet, OutputSet, ConfigOutSet
<1>1. /\ configured = FALSE /\ file # None /\ line = CompleteLines(file)
      /\ getValue(config, "config-in") = Written("config-in") /\ stage = "config-in"
      /\ UNCHANGED <<file, line, networkReader>>
      /\ "config-in" \in Name /\ PortText \subseteq Value \ {NoValue, Null}
      /\ CompleteLines(file)' = CompleteLines(file)
  BY SettingFacts, ConfigurationAssumption DEF setConfigurationInputSource
<1>2. (Described(networkReader, "input") /\ Convertible("input", PortText))'
  BY <1>1, SameFile DEF Progress, Reached, Described
<1>3. CASE Convertible("config-in", PortText)
  <2>1. /\ stage' = "output" /\ configured' = FALSE
        /\ Described(configReader', "config-in")
    BY <1>1, <1>3, PartMade DEF setConfigurationInputSource, Then, Convertible
  <2>2. Described(configReader, "config-in")'
    BY <1>1, <2>1, SameFile DEF Described
  <2> QED
    BY <1>1, <1>2, <1>3, <2>1, <2>2, SameFile DEF Progress, Reached
<1>4. CASE ~Convertible("config-in", PortText)
  <2>1. stage' = "idle" /\ configured' = FALSE
    BY <1>1, <1>4 DEF setConfigurationInputSource, Then, Throw, Convertible
  <2>2. ~Valid
    BY <1>4 DEF Valid
  <2> QED
    BY <1>1, <2>1, <2>2, SameFile DEF Progress, Reached
<1> QED
  BY <1>3, <1>4

LEMMA ProgressOutput ==
  ASSUME TypeInv, LastAssignmentWins, Progress, setOutputSink
  PROVE  Progress'
<1> USE DEF LinesRead, InputSet, ConfigInSet, OutputSet, ConfigOutSet
<1>1. /\ configured = FALSE /\ file # None /\ line = CompleteLines(file)
      /\ getValue(config, "output") = Written("output") /\ stage = "output"
      /\ UNCHANGED <<file, line, readers>>
      /\ "output" \in Name /\ HostText \subseteq Value \ {NoValue, Null}
      /\ CompleteLines(file)' = CompleteLines(file)
  BY SettingFacts, ConfigurationAssumption DEF setOutputSink
<1>2. /\ (Described(networkReader, "input") /\ Convertible("input", PortText))'
      /\ (Described(configReader, "config-in") /\ Convertible("config-in", PortText))'
  BY <1>1, SameFile DEF Progress, Reached, Described, readers
<1>3. CASE Convertible("output", HostText)
  <2>1. /\ stage' = "config-out" /\ configured' = FALSE
        /\ Described(networkWriter', "output")
    BY <1>1, <1>3, PartMade DEF setOutputSink, Then, Convertible
  <2>2. Described(networkWriter, "output")'
    BY <1>1, <2>1, SameFile DEF Described
  <2> QED
    BY <1>1, <1>2, <1>3, <2>1, <2>2, SameFile DEF Progress, Reached
<1>4. CASE ~Convertible("output", HostText)
  <2>1. stage' = "idle" /\ configured' = FALSE
    BY <1>1, <1>4 DEF setOutputSink, Then, Throw, Convertible
  <2>2. ~Valid
    BY <1>4 DEF Valid
  <2> QED
    BY <1>1, <2>1, <2>2, SameFile DEF Progress, Reached
<1> QED
  BY <1>3, <1>4

\* The last two steps cannot fail.
LEMMA ProgressConfigOut ==
  ASSUME TypeInv, LastAssignmentWins, Progress, createConfigurationOutputWriter
  PROVE  Progress'
<1> USE DEF LinesRead, InputSet, ConfigInSet, OutputSet, ConfigOutSet
<1>1. /\ configured = FALSE /\ file # None /\ line = CompleteLines(file)
      /\ getValue(config, "output") = Written("output") /\ stage = "config-out"
      /\ stage' = "files" /\ configured' = FALSE
      /\ UNCHANGED <<file, line, readers, networkWriter>>
      /\ CompleteLines(file)' = CompleteLines(file)
  BY SettingFacts, ConfigurationAssumption DEF createConfigurationOutputWriter
<1>2. /\ Described(networkReader, "input")' /\ Convertible("input", PortText)'
      /\ Described(configReader, "config-in")' /\ Convertible("config-in", PortText)'
      /\ Described(networkWriter, "output")' /\ Convertible("output", HostText)'
  BY <1>1, SameFile DEF Progress, Reached, Described, readers
<1>3. networkWriter' = None => configWriter' = TRUE
  <2>1. networkWriter = None => ~IsSet(Written("output"))
    <3>1. Described(networkWriter, "output") /\ Convertible("output", HostText)
      BY <1>1 DEF Progress, Reached
    <3> QED
      BY <3>1, ConfigurationAssumption DEF Described, Convertible
  <2>2. configWriter' = (configWriter \/ (networkWriter = None /\ ~IsSet(getValue(config, "output"))))
    BY DEF createConfigurationOutputWriter
  <2>3. networkWriter' = networkWriter
    BY <1>1
  <2>4. getValue(config, "output") = Written("output")
    BY <1>1
  <2> QED
    BY <2>1, <2>2, <2>3, <2>4, Zenon
<1> QED
  BY <1>1, <1>2, <1>3, SameFile DEF Progress, Reached

LEMMA ProgressFiles ==
  ASSUME TypeInv, LastAssignmentWins, Progress, setFileNames
  PROVE  Progress'
<1> USE DEF LinesRead, InputSet, ConfigInSet, OutputSet, ConfigOutSet
<1>1. /\ configured = FALSE /\ file # None /\ line = CompleteLines(file)
      /\ getValue(config, "filein") = Written("filein")
      /\ getValue(config, "fileout") = Written("fileout") /\ stage = "files"
      /\ stage' = "idle" /\ configured' = TRUE
      /\ UNCHANGED <<file, line, readers, writers>>
      /\ CompleteLines(file)' = CompleteLines(file)
  BY SettingFacts, ConfigurationAssumption DEF setFileNames
<1>2. /\ Described(networkReader, "input")' /\ Convertible("input", PortText)'
      /\ Described(configReader, "config-in")' /\ Convertible("config-in", PortText)'
      /\ Described(networkWriter, "output")' /\ Convertible("output", HostText)'
      /\ (networkWriter = None => configWriter = TRUE)'
  BY <1>1, SameFile DEF Progress, Reached, Described, readers, writers
<1>3. /\ dataFileName' = Written("filein")' /\ outputFileName' = Written("fileout")'
  BY <1>1, SameFile DEF setFileNames
<1> QED
  BY <1>1, <1>2, <1>3, SameFile DEF Progress, Reached

LEMMA NextProgress ==
  TypeInv /\ LastAssignmentWins /\ Progress /\ [Next]_vars => Progress'
<1> SUFFICES ASSUME TypeInv, LastAssignmentWins, Progress, [Next]_vars PROVE Progress'
  OBVIOUS
<1>1. ASSUME NEW f \in File, Configure(f) PROVE Progress'
  <2>1. CompleteLines(f) \in Nat
    BY CompleteLinesBound
  <2>2. /\ stage' = "reading" /\ configured' = FALSE /\ file' = f /\ line' = 0
    BY <1>1 DEF Configure
  <2> QED
    BY <2>1, <2>2
    DEF Progress, Reached, LinesRead, InputSet, ConfigInSet, OutputSet, ConfigOutSet
<1>2. CASE ConfigureNoFile
  <2>1. stage' = "idle" /\ configured' = FALSE /\ file' = None
    BY <1>2 DEF ConfigureNoFile
  <2> QED
    BY <2>1 DEF Progress, Reached, LinesRead, InputSet, ConfigInSet, OutputSet, ConfigOutSet
<1>3. CASE UNCHANGED vars
  BY <1>3, SameFile
  DEF vars, parts, readers, writers, fileNames, Progress, Reached, Described, CompleteLines
<1> QED
  BY <1>1, <1>2, <1>3, ProgressReadLine, ProgressReadEnd, ProgressInput, ProgressConfigIn,
     ProgressOutput, ProgressConfigOut, ProgressFiles DEF Next

LEMMA StagesInvariant == Spec => [](TypeInv /\ Progress)
  BY OneItemPerName, LastAssignment, InitProgress, NextProgress, PTL DEF Spec

\* Whatever a node was configured for before, and however far an earlier
\* configure() went before it threw: when configure() returns, the readers,
\* the writers and the file names are those of its file, for any file.
THEOREM NodeAsWritten == Spec => []ConfiguredAsWritten
<1>1. TypeInv /\ Progress => ConfiguredAsWritten
  <2> SUFFICES ASSUME TypeInv, Progress, configured PROVE ConfiguredAsWritten
    BY DEF ConfiguredAsWritten
  <2>1. configured = TRUE
    BY DEF TypeInv, TypeOK
  <2> QED
    BY <2>1 DEF Progress, Reached, ConfiguredAsWritten
<1> QED
  BY <1>1, StagesInvariant, PTL

\* configure() throws for a file exactly if one of its complete lines cannot
\* be parsed, or one of the addresses that it assigns last be converted.
THEOREM SuccessIfValid == Spec => []SucceedsIfValid
<1>1. TypeInv /\ Progress => SucceedsIfValid
  <2> SUFFICES ASSUME TypeInv, Progress, stage = "idle", file # None
               PROVE  configured <=> Valid
    BY DEF SucceedsIfValid, Valid
  <2>1. CASE configured = TRUE
    <3>1. line = CompleteLines(file) /\ \A i \in 1 .. line : Readable(i)
      BY <2>1 DEF Progress, Reached
    <3> QED
      BY <2>1, <3>1 DEF Progress, Reached, Valid, WellFormed, Readable
  <2>2. CASE configured = FALSE
    BY <2>2 DEF Progress
  <2> QED
    BY <2>1, <2>2 DEF TypeInv, TypeOK
<1> QED
  BY <1>1, StagesInvariant, PTL
=============================================================================
