------------------------- MODULE RecordReplayProofs --------------------------
(***************************************************************************)
(* Theorems about FileOutput and FileInput as RecordReplay runs them.      *)
(* With one input, and names that do not come back, nothing recorded is    *)
(* overwritten and no chunk outgrows its limit, for any limits, records    *)
(* and days.  Files in the order of time are replayed in it, for any       *)
(* number of files and records and any depth of the queues, and at the     *)
(* speed of the recording.                                                 *)
(***************************************************************************)
EXTENDS RecordReplay, TLAPS, FiniteSetTheorems, FunctionTheorems, SequenceTheorems

-----------------------------------------------------------------------------
(* Finite sets of integers *)

\* The library states induction over finite sets for an operator; this is the one
\* instance needed, from the well-foundedness of the subsets.
LEMMA FiniteMax ==
    ASSUME NEW S \in SUBSET Int, IsFiniteSet(S), S # {}
    PROVE  \E x \in S : \A y \in S : x >= y
<1> DEFINE HasMax(U) == \E x \in U : \A y \in U : x >= y
           Bad == {U \in SUBSET S : U # {} /\ ~HasMax(U)}
<1>1. SUFFICES ASSUME Bad # {} PROVE FALSE
  OBVIOUS
<1>2. FiniteSubsetsOf(S) = SUBSET S
  BY FS_FiniteSubsetsOfFinite
<1>3. PICK U \in Bad : \A V \in Bad : ~(<<V, U>> \in StrictSubsetOrdering(S))
  <2>1. Bad \subseteq FiniteSubsetsOf(S)
    BY <1>2
  <2>2. IsWellFoundedOn(StrictSubsetOrdering(S), FiniteSubsetsOf(S))
    BY FS_StrictSubsetOrderingWellFounded
  <2> HIDE DEF Bad
  <2>3. QED
    BY <1>1, <2>1, <2>2, WFMin
<1>4. PICK x \in U : TRUE
  OBVIOUS
<1> DEFINE V == U \ {x}
<1>5. V \notin Bad
  <2>1. <<V, U>> \in StrictSubsetOrdering(S)
    BY <1>4 DEF StrictSubsetOrdering
  <2>2. QED
    BY <1>3, <2>1
<1>6. CASE V = {}
  BY <1>4, <1>6
<1>7. CASE V # {}
  <2>1. PICK m \in V : \A y \in V : m >= y
    BY <1>5, <1>7
  <2>2. x \in Int /\ m \in Int /\ V \subseteq Int
    BY <1>4
  <2>3. HasMax(U)
    BY <1>4, <2>1, <2>2
  <2>4. QED
    BY <2>3
<1>8. QED
  BY <1>6, <1>7

\* LastIndex is the index of a file of the base, and no file of the base has a
\* greater one.
LEMMA LastIndexMeans ==
    ASSUME NEW base, IsFiniteSet(DOMAIN disk), Matches(base) # {},
           \A name \in DOMAIN disk : Index(name) \in Nat \cup {NoIndex}
    PROVE  /\ \E last \in Matches(base) : Index(last) = LastIndex(base)
           /\ \A name \in Matches(base) : Index(name) <= LastIndex(base)
           /\ LastIndex(base) \in Nat \cup {NoIndex}
<1> DEFINE S == {Index(name) : name \in Matches(base)}
           f == [name \in Matches(base) |-> Index(name)]
<1>1. S \in SUBSET Int /\ S # {}
  BY DEF Matches, NoIndex
<1>2. IsFiniteSet(S)
  <2>1. IsFiniteSet(Matches(base))
    BY FS_Subset DEF Matches
  <2>2. f \in Surjection(Matches(base), S)
    BY Fun_IsSurj
  <2>3. QED
    BY <2>1, <2>2, FS_Surjection
<1>3. \E x \in S : \A y \in S : x >= y
  BY <1>1, <1>2, FiniteMax
<1>4. LastIndex(base) \in S /\ \A y \in S : LastIndex(base) >= y
  BY <1>3 DEF LastIndex, Max
<1>5. QED
  BY <1>1, <1>4 DEF Matches, NoIndex

-----------------------------------------------------------------------------
(* The invariant, for one input and names that do not come back *)

Single == OneWriter /\ ~config.append /\ ~config.perId

NameOK(name) ==
    /\ name = <<<<name[1][1], name[1][2]>>, Index(name)>>
    /\ name[1][1] \in Nat /\ Index(name) \in Nat \cup {NoIndex}

TypesOK ==
    /\ day \in Nat /\ (~config.dated => day = 0)
    /\ script \in [Writers -> Seq(Records)]
    /\ DOMAIN writing = Writers
    /\ \A v \in Writers :
          /\ writing[v].pc \in {"name", "store", "write"} => writing[v].rec \in Records
          /\ v \notin config.writers => script[v] = <<>> /\ writing[v].pc = "idle"
    /\ buffer \in Seq(Records) /\ queueLength \in Nat
    /\ IsFiniteSet(DOMAIN disk)
    /\ \A name \in DOMAIN disk : NameOK(name) /\ name[1][1] <= day /\ disk[name] \in Seq(Records)

\* No file is of a later day, and none of the same base has a greater index.
Latest(name) == \A other \in DOMAIN disk :
    other[1][1] <= name[1][1] /\ (other[1] = name[1] => Index(other) <= Index(name))

FileOK ==
    /\ file # NoFile => file \in DOMAIN disk /\ Latest(file) /\ file[1][2] = NoTag
    /\ fileState = "open" => file # NoFile

\* A name that is going to be written to is that of the open chunk, or
\* of no file.
Goes(name) ==
    /\ NameOK(name) /\ name[1][1] <= day /\ name[1][2] = NoTag
    /\ Latest(name)
    /\ name = file \/ name \notin DOMAIN disk

NamesOK == \A w \in config.writers :
    /\ writing[w].pc # "write" => currentName = file
    /\ writing[w].pc = "store" => Goes(writing[w].name)
    /\ writing[w].pc = "write" => Goes(currentName)

Kept == TypesOK /\ FileOK /\ NamesOK

IInv == config \in Config /\ (Single => Kept)

\* The one input of the runs without overwriting.
LEMMA TheWriter ==
    ASSUME config \in Config, OneWriter
    PROVE  \E w \in Writers : config.writers = {w}
<1>1. IsFiniteSet(config.writers) /\ config.writers \subseteq Writers
  BY FileOutputAssumption, FS_Subset DEF Config
<1>2. QED
  BY <1>1, FS_Singleton DEF OneWriter

\* The output begins with nothing written, and with the files it finds.
LEMMA InitInv == OutInit => IInv
<1> SUFFICES ASSUME OutInit PROVE IInv
  OBVIOUS
<1>1. config \in Config
  BY FileOutputAssumption DEF OutInit
<1>2. TypesOK
  <2>1. script \in [Writers -> Seq(Records)] /\ buffer \in Seq(Records)
    BY FileOutputAssumption, EmptySeq DEF OutInit
  <2>2. DOMAIN writing = Writers /\ \A v \in Writers : writing[v].pc = "idle"
    BY DEF OutInit
  <2>3. IsFiniteSet(DOMAIN disk)
        /\ \A name \in DOMAIN disk : NameOK(name) /\ name[1][1] <= day /\ disk[name] \in Seq(Records)
    BY BeforeAssumption DEF OutInit, NameOK
  <2>4. QED
    BY <2>1, <2>2, <2>3 DEF OutInit, TypesOK
<1>3. FileOK /\ NamesOK
  <2>1. \A v \in config.writers : writing[v].pc = "idle"
    BY <1>1 DEF OutInit, Config
  <2>2. QED
    BY <1>1, <2>1 DEF OutInit, FileOK, NamesOK, Config
<1>4. QED
  BY <1>1, <1>2, <1>3 DEF IInv, Kept

-----------------------------------------------------------------------------
(* Names *)

\* The name a writer computes is that of a new chunk, or of the open one while it has
\* room.
LEMMA FilenameGoes ==
    ASSUME config \in Config, Single, Kept, NEW w \in config.writers, writing[w].pc = "name"
    PROVE  Goes(Filename)
<1> DEFINE last == LastIndex(Base)
<1>1. /\ Base = <<day, NoTag>> /\ day \in Nat /\ IsFiniteSet(DOMAIN disk)
      /\ \A name \in DOMAIN disk : NameOK(name) /\ name[1][1] <= day
      /\ ~config.append
  BY DEF Kept, TypesOK, Base, Single
<1>2. ASSUME NEW i \in Nat, \A name \in Matches(Base) : Index(name) < i
      PROVE  Goes(<<Base, i>>)
  <2> DEFINE new == <<Base, i>>
  <2>1. NameOK(new) /\ new[1] = Base /\ new[1][1] = day /\ new[1][2] = NoTag /\ Index(new) = i
    BY <1>1 DEF NameOK, Index
  <2>2. new \notin DOMAIN disk
    BY <1>1, <1>2, <2>1 DEF Matches
  <2>3. Latest(new)
    <3> SUFFICES ASSUME NEW other \in DOMAIN disk
                 PROVE  other[1][1] <= day /\ (other[1] = Base => Index(other) <= i)
      BY <2>1 DEF Latest
    <3>1. Index(other) \in Int
      BY <1>1 DEF NameOK, NoIndex
    <3>2. QED
      BY <1>1, <1>2, <3>1 DEF Matches
  <2>4. QED
    BY <1>1, <2>1, <2>2, <2>3 DEF Goes
<1>3. CASE Matches(Base) = {}
  <2>1. Filename = <<Base, 0>>
    BY <1>1, <1>3 DEF Filename
  <2>2. QED
    BY <1>2, <1>3, <2>1
<1>4. CASE Matches(Base) # {}
  <2>1. /\ \E name \in Matches(Base) : Index(name) = last
        /\ \A name \in Matches(Base) : Index(name) <= last
        /\ last \in Nat \cup {NoIndex}
    BY <1>1, <1>4, LastIndexMeans DEF NameOK
  <2>2. \A name \in Matches(Base) : Index(name) \in Int
    BY <1>1 DEF NameOK, NoIndex, Matches
  <2>3. CASE last = NoIndex
    <3>1. Filename = <<Base, 0>>
      BY <1>1, <1>4, <2>3 DEF Filename
    <3>2. \A name \in Matches(Base) : Index(name) < 0
      BY <2>1, <2>2, <2>3 DEF NoIndex
    <3>3. QED
      BY <1>2, <3>1, <3>2
  <2>4. CASE last # NoIndex /\ NextChunk
    <3>1. Filename = <<Base, last + 1>> /\ last + 1 \in Nat
      BY <1>1, <1>4, <2>1, <2>4 DEF Filename
    <3>2. \A name \in Matches(Base) : Index(name) < last + 1
      BY <2>1, <2>2, <2>4
    <3>3. QED
      BY <1>2, <3>1, <3>2
  <2>5. CASE last # NoIndex /\ ~NextChunk
    <3>1. Filename = <<Base, last>> /\ last \in Nat
      BY <1>1, <1>4, <2>1, <2>5 DEF Filename
    <3>2. currentName = file /\ file # NoFile
      BY <2>5 DEF Kept, NamesOK, NextChunk, TypesOK, Config
    <3>3. file \in DOMAIN disk /\ Latest(file) /\ file[1][2] = NoTag /\ NameOK(file)
      BY <1>1, <3>2 DEF Kept, FileOK
    <3>4. PICK name \in Matches(Base) : Index(name) = last
      BY <2>1
    <3>5. name \in DOMAIN disk /\ name[1] = Base
      BY <3>4 DEF Matches
    <3>6. file[1][1] = day
      BY <1>1, <3>3, <3>5 DEF Latest, NameOK
    <3>7. file[1] = Base
      BY <1>1, <3>3, <3>6 DEF NameOK
    <3>8. Index(file) = last
      <4>1. Index(file) <= last
        BY <2>1, <3>3, <3>7 DEF Matches
      <4>2. last <= Index(file)
        BY <3>3, <3>4, <3>5, <3>7 DEF Latest
      <4>3. Index(file) \in Int
        BY <3>3 DEF NameOK, NoIndex
      <4>4. QED
        BY <3>1, <4>1, <4>2, <4>3
    <3>9. Filename = file
      BY <1>1, <3>1, <3>3, <3>7, <3>8 DEF NameOK
    <3>10. QED
      BY <1>1, <3>2, <3>3, <3>9 DEF Goes
  <2>6. QED
    BY <2>3, <2>4, <2>5
<1>5. QED
  BY <1>3, <1>4

-----------------------------------------------------------------------------
(* The steps *)

\* What is written to the chunk that is open is put behind what it holds.
LEMMA PrefixOf ==
    ASSUME NEW S, NEW s \in Seq(S), NEW t \in Seq(S)
    PROVE  /\ IsPrefix(s, s)
           /\ IsPrefix(s, s \o t)
  BY DEF IsPrefix

\* Appending to the second of two sequences.
LEMMA AppendBehind ==
    ASSUME NEW S, NEW s \in Seq(S), NEW b \in Seq(S), NEW x \in S
    PROVE  s \o Append(b, x) = (s \o b) \o <<x>> /\ s \o b \in Seq(S) /\ Append(b, x) \in Seq(S)
  OBVIOUS

Same == \A name \in DOMAIN disk : IsPrefix(Content(name), Content(name)')

ContentType ==
    \A name \in DOMAIN disk : Content(name) \in Seq(Records)

\* What a file holds on the disk and in the buffer is a sequence of records.
LEMMA ContentTyped == ASSUME TypesOK PROVE ContentType
  BY DEF TypesOK, Content, ContentType

\* Steps that touch neither the files nor the names.
LEMMA AsideSame == ASSUME TypesOK, UNCHANGED <<disk, file, fileState, buffer>> PROVE Same
<1>1. \A name \in DOMAIN disk : Content(name)' = Content(name) /\ Content(name) \in Seq(Records)
  BY ContentTyped DEF Content, ContentType
<1>2. QED
  BY <1>1, PrefixOf DEF Same

\* PluginWrite up to the lock.
LEMMA CallStep ==
    ASSUME config \in Config, Single, Kept, NEW w \in config.writers, w \in Writers,
           Call(w) \/ ComputeName(w) \/ StoreName(w)
    PROVE  Kept' /\ Same
<1>1. UNCHANGED <<config, day, fileVars>> /\ DOMAIN writing = Writers
  BY DEF Kept, TypesOK, Call, ComputeName, StoreName
<1>2. Same
  BY <1>1, AsideSame DEF fileVars, Kept
<1>3. \A v \in Writers \ {w} : script'[v] = script[v] /\ writing'[v] = writing[v]
  BY <1>1 DEF Call, ComputeName, StoreName, Kept, TypesOK
<1>4. script' \in [Writers -> Seq(Records)] /\ DOMAIN writing' = Writers
      /\ (writing'[w].pc \in {"name", "store", "write"} => writing'[w].rec \in Records)
  <2>1. CASE Call(w)
    <3>1. script[w] \in Seq(Records) /\ script[w] # <<>>
      BY <2>1 DEF Call, Kept, TypesOK
    <3>2. Head(script[w]) \in Records /\ Tail(script[w]) \in Seq(Records)
      BY <3>1
    <3>3. QED
      BY <2>1, <3>2 DEF Call, Kept, TypesOK
  <2>2. CASE ComputeName(w) \/ StoreName(w)
    BY <2>2 DEF ComputeName, StoreName, Kept, TypesOK
  <2>3. QED
    BY <2>1, <2>2
<1>5. TypesOK'
  BY <1>1, <1>3, <1>4 DEF Kept, TypesOK, fileVars
<1>6. FileOK'
  BY <1>1 DEF Kept, FileOK, Latest, fileVars
<1>8. config.writers = {w}
  BY TheWriter DEF Single
<1>9. NamesOK'
  <2>1. CASE Call(w)
    BY <1>1, <1>4, <1>8, <2>1 DEF Call, Kept, NamesOK, TypesOK, Single, fileVars
  <2>2. CASE ComputeName(w)
    <3>1. Goes(Filename)
      BY <2>2, FilenameGoes DEF ComputeName
    <3>2. writing'[w].pc = "store" /\ writing'[w].name = Filename
      BY <1>1, <2>2 DEF ComputeName
    <3>3. Goes(writing[w].name)'
      BY <1>1, <3>1, <3>2 DEF Goes, Latest, fileVars, NameOK, Index
    <3>4. currentName' = file'
      BY <1>1, <2>2 DEF ComputeName, Kept, NamesOK, fileVars, nameVars
    <3>5. QED
      BY <1>1, <1>8, <3>2, <3>3, <3>4 DEF NamesOK
  <2>3. CASE StoreName(w)
    <3>1. writing'[w].pc = "write" /\ currentName' = writing[w].name /\ Goes(writing[w].name)
      BY <1>1, <2>3 DEF StoreName, Kept, NamesOK
    <3>2. Goes(currentName)'
      BY <1>1, <3>1 DEF Goes, Latest, fileVars, NameOK, Index
    <3>3. QED
      BY <1>1, <1>8, <3>1, <3>2 DEF NamesOK
  <2>4. QED
    BY <2>1, <2>2, <2>3
<1>10. QED
  BY <1>2, <1>5, <1>6, <1>9 DEF Kept

\* What flush leaves in the files.
LEMMA FlushedMeans ==
    ASSUME TypesOK, FileOK
    PROVE  /\ DOMAIN Flushed = DOMAIN disk
           /\ \A name \in DOMAIN disk : Flushed[name] = Content(name) /\ Flushed[name] \in Seq(Records)
<1>1. \A name \in DOMAIN disk : Content(name) \in Seq(Records)
  BY ContentTyped DEF ContentType
<1>2. CASE fileState = "open"
  <2>1. file \in DOMAIN disk
    BY <1>2 DEF FileOK
  <2>2. Flushed = [disk EXCEPT ![file] = disk[file] \o buffer]
    BY <1>2 DEF Flushed
  <2>3. QED
    BY <1>1, <1>2, <2>1, <2>2 DEF Content
<1>3. CASE fileState # "open"
  BY <1>1, <1>3 DEF Flushed, Content
<1>4. QED
  BY <1>2, <1>3

\* A write that opens the next file.
LEMMA ReopensStep ==
    ASSUME config \in Config, Single, Kept, NEW w \in config.writers, w \in Writers, Write(w), Reopens
    PROVE  /\ DOMAIN disk' = DOMAIN disk \cup {currentName} /\ file' = currentName
           /\ currentName \notin DOMAIN disk
           /\ disk'[currentName] \in Seq(Records) /\ buffer' \in Seq(Records)
           /\ \A name \in DOMAIN disk : disk'[name] = Content(name)
           /\ queueLength' = 1
<1>1. Goes(currentName) /\ writing[w].pc = "write" /\ writing[w].rec \in Records
  BY DEF Write, Kept, NamesOK, TypesOK
<1>2. currentName \notin DOMAIN disk
  BY <1>1 DEF Reopens, Goes, NameOK, NoFile
<1>3. PICK through \in BOOLEAN : WriteLocked(writing[w].rec, through)
  BY DEF Write
<1> DEFINE rec == writing[w].rec
<1>4. DOMAIN Opened = DOMAIN disk \cup {currentName} /\ Opened[currentName] = <<>>
      /\ \A name \in DOMAIN disk : Opened[name] = Content(name)
  BY <1>2, FlushedMeans DEF Opened, Kept
<1>5. file' = currentName /\ queueLength' = 1
  BY <1>3 DEF WriteLocked
<1>6. buffer' = IF through THEN <<>> ELSE <<rec>>
  BY <1>3 DEF WriteLocked
<1>7. disk' = IF through THEN [Opened EXCEPT ![currentName] = Opened[currentName] \o <<rec>>] ELSE Opened
  BY <1>3 DEF WriteLocked
<1>8. disk'[currentName] \in Seq(Records)
  <2>1. <<>> \o <<rec>> \in Seq(Records) /\ <<>> \in Seq(Records)
    BY <1>1
  <2>2. QED
    BY <1>4, <1>7, <2>1
<1>9. \A name \in DOMAIN disk : disk'[name] = Content(name)
  BY <1>2, <1>4, <1>7
<1>10. QED
  BY <1>1, <1>2, <1>4, <1>5, <1>6, <1>7, <1>8, <1>9

\* A write to the file that is open.
LEMMA StaysStep ==
    ASSUME config \in Config, Single, Kept, NEW w \in config.writers, w \in Writers, Write(w), ~Reopens
    PROVE  /\ DOMAIN disk' = DOMAIN disk /\ file' = file /\ currentName = file
           /\ buffer' \in Seq(Records)
           /\ \A name \in DOMAIN disk : disk'[name] \in Seq(Records) /\ IsPrefix(Content(name), Content(name)')
           /\ queueLength' = 1 + queueLength
           /\ fileState' = "open" => fileState = "open"
<1>1. writing[w].pc = "write" /\ writing[w].rec \in Records
  BY DEF Write, Kept, TypesOK
<1>2. currentName = file /\ file \in DOMAIN disk
  BY <1>1 DEF Kept, NamesOK, Goes, FileOK, Reopens
<1>3. PICK through \in BOOLEAN : WriteLocked(writing[w].rec, through)
  BY DEF Write
<1> DEFINE rec == writing[w].rec
<1>4. /\ file' = file /\ queueLength' = 1 + queueLength
      /\ fileState' = IF fileState = "closed" /\ through THEN "broken" ELSE fileState
      /\ buffer' = IF fileState' = "broken" \/ through THEN <<>> ELSE Append(buffer, rec)
      /\ disk' = IF fileState = "open" /\ through
                 THEN [disk EXCEPT ![file] = disk[file] \o Append(buffer, rec)] ELSE disk
  BY <1>3 DEF WriteLocked
<1>5. /\ buffer \in Seq(Records) /\ Append(buffer, rec) \in Seq(Records) /\ <<rec>> \in Seq(Records)
      /\ \A name \in DOMAIN disk : disk[name] \in Seq(Records) /\ Content(name) \in Seq(Records)
  BY <1>1, ContentTyped DEF Kept, TypesOK, ContentType
<1>6. CASE fileState = "open"
  <2>1. fileState' = "open" /\ Content(file) = disk[file] \o buffer
    BY <1>4, <1>6 DEF Content
  <2>2. Content(file)' = Content(file) \o <<rec>>
    <3>1. disk[file] \o Append(buffer, rec) = (disk[file] \o buffer) \o <<rec>>
          /\ disk[file] \o Append(buffer, rec) \in Seq(Records)
      BY <1>1, <1>2, <1>5, AppendBehind
    <3>2. CASE through
      BY <1>2, <1>4, <1>6, <2>1, <3>1, <3>2 DEF Content
    <3>3. CASE ~through
      BY <1>2, <1>4, <1>6, <2>1, <3>1, <3>3 DEF Content
    <3>4. QED
      BY <3>2, <3>3
  <2>3. \A name \in DOMAIN disk \ {file} : Content(name)' = Content(name) /\ disk'[name] = disk[name]
    BY <1>4 DEF Content
  <2>4. disk'[file] \in Seq(Records)
    BY <1>2, <1>4, <1>5
  <2>5. ASSUME NEW name \in DOMAIN disk PROVE IsPrefix(Content(name), Content(name)')
    <3>1. CASE name = file
      <4>1. IsPrefix(Content(file), Content(file) \o <<rec>>)
        BY <1>2, <1>5, PrefixOf
      <4>2. Content(name)' = Content(file)' /\ Content(name) = Content(file)
        BY <1>4, <3>1 DEF Content
      <4>3. QED
        BY <2>2, <4>1, <4>2
    <3>2. CASE name # file
      <4>1. Content(name)' = Content(name) /\ IsPrefix(Content(name), Content(name))
        BY <1>5, <2>3, <3>2, PrefixOf
      <4>2. QED
        BY <4>1
    <3>3. QED
      BY <3>1, <3>2
  <2>6. DOMAIN disk' = DOMAIN disk
    BY <1>4
  <2>7. QED
    BY <1>2, <1>4, <1>5, <1>6, <2>3, <2>4, <2>5, <2>6
<1>7. CASE fileState # "open"
  <2>1. disk' = disk /\ fileState' # "open"
    BY <1>4, <1>7
  <2>2. \A name \in DOMAIN disk : Content(name)' = Content(name)
    BY <1>7, <2>1 DEF Content
  <2>3. QED
    BY <1>2, <1>4, <1>5, <2>1, <2>2, PrefixOf
<1>8. QED
  BY <1>6, <1>7

\* A record is written to the chunk that has room, or to a new one behind all others.
LEMMA WriteStep ==
    ASSUME config \in Config, Single, Kept, NEW w \in config.writers, w \in Writers, Write(w)
    PROVE  Kept' /\ Same
<1>1. /\ UNCHANGED <<config, day, script, currentName>> /\ DOMAIN writing' = Writers
      /\ \A v \in Writers \ {w} : writing'[v] = writing[v]
      /\ writing'[w].pc \in {"idle", "stopped"}
  BY DEF Write, Kept, TypesOK, nameVars
<1>2. config.writers = {w}
  BY TheWriter DEF Single
<1>3. /\ script' \in [Writers -> Seq(Records)] /\ day' \in Nat /\ (~config'.dated => day' = 0)
      /\ \A v \in Writers :
            /\ writing'[v].pc \in {"name", "store", "write"} => writing'[v].rec \in Records
            /\ v \notin config'.writers => script'[v] = <<>> /\ writing'[v].pc = "idle"
  BY <1>1, <1>2 DEF Kept, TypesOK
<1>4. Goes(currentName)
  BY DEF Write, Kept, NamesOK
<1>5. CASE Reopens
  <2>1. /\ DOMAIN disk' = DOMAIN disk \cup {currentName} /\ file' = currentName
        /\ currentName \notin DOMAIN disk
        /\ disk'[currentName] \in Seq(Records) /\ buffer' \in Seq(Records)
        /\ \A name \in DOMAIN disk : disk'[name] = Content(name)
        /\ queueLength' = 1
    BY <1>5, ReopensStep
  <2>2. \A name \in DOMAIN disk : Content(name) \in Seq(Records)
    BY ContentTyped DEF ContentType, Kept
  <2>3. TypesOK'
    <3>1. IsFiniteSet(DOMAIN disk')
      BY <2>1, FS_AddElement DEF Kept, TypesOK
    <3>2. \A name \in DOMAIN disk' :
             (NameOK(name))' /\ name[1][1] <= day' /\ disk'[name] \in Seq(Records)
      BY <1>1, <1>4, <2>1, <2>2 DEF Kept, TypesOK, Goes, NameOK, Index
    <3>3. QED
      BY <1>1, <1>3, <2>1, <3>1, <3>2 DEF TypesOK
  <2>4. FileOK'
    <3>1. \A other \in DOMAIN disk' :
             other[1][1] <= currentName[1][1]
             /\ (other[1] = currentName[1] => Index(other) <= Index(currentName))
      BY <1>4, <2>1 DEF Goes, Latest, NameOK, NoIndex
    <3>2. file' # NoFile
      BY <1>4, <2>1 DEF Goes, NameOK, NoFile
    <3>3. QED
      BY <1>4, <2>1, <3>1, <3>2 DEF FileOK, Latest, Goes, Index
  <2>5. NamesOK'
    BY <1>1, <1>2, <2>1 DEF NamesOK
  <2>6. Same
    <3> SUFFICES ASSUME NEW name \in DOMAIN disk PROVE IsPrefix(Content(name), Content(name)')
      BY DEF Same
    <3>1. Content(name)' = Content(name)
      BY <2>1 DEF Content
    <3>2. QED
      BY <2>2, <3>1, PrefixOf
  <2>7. QED
    BY <2>3, <2>4, <2>5, <2>6 DEF Kept
<1>6. CASE ~Reopens
  <2>1. /\ DOMAIN disk' = DOMAIN disk /\ file' = file /\ currentName = file
        /\ buffer' \in Seq(Records)
        /\ \A name \in DOMAIN disk :
             disk'[name] \in Seq(Records) /\ IsPrefix(Content(name), Content(name)')
        /\ queueLength' = 1 + queueLength
        /\ fileState' = "open" => fileState = "open"
    BY <1>6, StaysStep
  <2>2. TypesOK'
    BY <1>1, <1>3, <2>1 DEF Kept, TypesOK, NameOK, Index
  <2>3. FileOK'
    BY <2>1 DEF Kept, FileOK, Latest, Index
  <2>4. NamesOK'
    BY <1>1, <1>2, <2>1 DEF NamesOK
  <2>5. QED
    BY <2>1, <2>2, <2>3, <2>4 DEF Kept, Same
<1>7. QED
  BY <1>5, <1>6

\* What was in the buffer of a file that is open is on the disk afterwards.
LEMMA FlushStep ==
    ASSUME config \in Config, Single, Kept, Flush \/ CloseOutput
    PROVE  Kept' /\ Same
<1>1. /\ UNCHANGED <<config, day, file, queueLength, currentName, script, writing>>
      /\ disk' = Flushed /\ buffer' = <<>>
      /\ fileState' = "open" => fileState = "open"
  BY DEF Flush, CloseOutput, nameVars, callVars
<1>2. DOMAIN disk' = DOMAIN disk
      /\ \A name \in DOMAIN disk : disk'[name] = Content(name) /\ Content(name) \in Seq(Records)
  BY <1>1, FlushedMeans DEF Kept
<1>3. TypesOK'
  <2>1. buffer' \in Seq(Records)
    BY <1>1
  <2>2. \A name \in DOMAIN disk' :
           (NameOK(name))' /\ name[1][1] <= day' /\ disk'[name] \in Seq(Records)
    BY <1>1, <1>2 DEF Kept, TypesOK, NameOK, Index
  <2>3. QED
    BY <1>1, <1>2, <2>1, <2>2 DEF Kept, TypesOK
<1>4. FileOK'
  BY <1>1, <1>2 DEF Kept, FileOK, Latest, Index
<1>5. NamesOK'
  <2>1. ASSUME NEW v \in config.writers, writing[v].pc = "store"
        PROVE  Goes(writing[v].name)'
    BY <1>1, <1>2, <2>1 DEF Kept, NamesOK, Goes, NameOK, Latest, Index
  <2>2. ASSUME NEW v \in config.writers, writing[v].pc = "write"
        PROVE  Goes(currentName)'
    BY <1>1, <1>2, <2>2 DEF Kept, NamesOK, Goes, NameOK, Latest, Index
  <2>3. QED
    BY <1>1, <2>1, <2>2 DEF Kept, NamesOK
<1>6. Same
  <2> SUFFICES ASSUME NEW name \in DOMAIN disk PROVE IsPrefix(Content(name), Content(name)')
    BY DEF Same
  <2>1. Content(name)' = Content(name)
    <3>1. disk'[name] \o buffer' = disk'[name]
      BY <1>1, <1>2
    <3>2. QED
      BY <1>1, <1>2, <3>1 DEF Content
  <2>2. QED
    BY <1>2, <2>1, PrefixOf
<1>7. QED
  BY <1>3, <1>4, <1>5, <1>6 DEF Kept

\* The process that is gone leaves only the disk.
LEMMA KilledStep ==
    ASSUME config \in Config, Single, Kept, Killed
    PROVE  Kept'
<1>1. config.writers \subseteq Writers
  BY DEF Config
<1>2. /\ UNCHANGED <<config, day, disk>> /\ file' = NoFile /\ currentName' = NoFile
      /\ fileState' = "closed" /\ buffer' = <<>> /\ queueLength' = 0
      /\ script' = [v \in Writers |-> <<>>]
      /\ DOMAIN writing' = Writers /\ \A v \in Writers : writing'[v].pc = "idle"
  BY DEF Killed
<1>3. TypesOK'
  <2>1. script' \in [Writers -> Seq(Records)] /\ buffer' \in Seq(Records)
    BY <1>2, EmptySeq
  <2>2. \A v \in Writers : v \notin config'.writers => script'[v] = <<>> /\ writing'[v].pc = "idle"
    BY <1>2
  <2>3. QED
    BY <1>2, <2>1, <2>2 DEF Kept, TypesOK, NameOK, Index
<1>4. FileOK' /\ NamesOK'
  BY <1>1, <1>2 DEF FileOK, NamesOK, Config
<1>5. QED
  BY <1>3, <1>4 DEF Kept

\* Names of an earlier day stay behind those of a later one.
LEMMA DayStep ==
    ASSUME config \in Config, Single, Kept, DayBreaks
    PROVE  Kept' /\ Same
<1>1. /\ UNCHANGED <<config, fileVars, currentName, script, writing>>
      /\ config.dated /\ day' = day + 1 /\ day \in Nat
  BY DEF DayBreaks, nameVars, callVars, Kept, TypesOK
<1>2. TypesOK'
  <2>1. \A name \in DOMAIN disk : NameOK(name) /\ name[1][1] <= day'
    BY <1>1 DEF Kept, TypesOK, NameOK
  <2>2. QED
    BY <1>1, <2>1 DEF Kept, TypesOK, fileVars, NameOK, Index
<1>3. FileOK'
  BY <1>1 DEF Kept, FileOK, Latest, Index, fileVars
<1>4. NamesOK'
  <2>1. ASSUME NEW v \in config.writers, writing[v].pc = "store"
        PROVE  Goes(writing[v].name)'
    BY <1>1, <2>1 DEF Kept, NamesOK, Goes, NameOK, Latest, Index, fileVars
  <2>2. ASSUME NEW v \in config.writers, writing[v].pc = "write"
        PROVE  Goes(currentName)'
    BY <1>1, <2>2 DEF Kept, NamesOK, Goes, NameOK, Latest, Index, fileVars
  <2>3. QED
    BY <1>1, <2>1, <2>2 DEF Kept, NamesOK, fileVars
<1>5. Same
  BY <1>1, AsideSame DEF fileVars, Kept
<1>6. QED
  BY <1>2, <1>3, <1>4, <1>5 DEF Kept

\* Steps that touch no file.
LEMMA AsideStep ==
    ASSUME Kept, UNCHANGED <<config, day, fileVars, nameVars, callVars>>
    PROVE  Kept' /\ Same
<1>1. Same
  BY AsideSame DEF fileVars, Kept
<1>2. Kept'
  BY DEF Kept, TypesOK, FileOK, NamesOK, Goes, NameOK, Latest, Index,
         fileVars, nameVars, callVars
<1>3. QED
  BY <1>1, <1>2

\* A writer that is not configured has nothing to write, so the steps are those of
\* the one input.
LEMMA StepInv ==
    ASSUME IInv, [OutNext]_outVars
    PROVE  IInv' /\ (Single /\ Alive' => Same)
<1>1. config' = config /\ config' \in Config /\ Single' = Single
  BY DEF IInv, OutNext, Call, ComputeName, StoreName, Write, Wake, Flush, CloseOutput, Killed,
         DayBreaks, outVars, Single, OneWriter
<1>2. SUFFICES ASSUME Single PROVE Kept' /\ (Alive' => Same)
  BY <1>1 DEF IInv
<1>3. config \in Config /\ Kept
  BY <1>2 DEF IInv
<1>4. ASSUME NEW w \in Writers, Call(w) \/ ComputeName(w) \/ StoreName(w) \/ Write(w)
      PROVE  Kept' /\ Same
  <2>1. w \in config.writers
    BY <1>3, <1>4 DEF Kept, TypesOK, Call, ComputeName, StoreName, Write
  <2>2. QED
    BY <1>2, <1>3, <1>4, <2>1, CallStep, WriteStep
<1>5. CASE Wake \/ UNCHANGED outVars
  BY <1>3, <1>5, AsideStep DEF Wake, outVars
<1>6. CASE Flush \/ CloseOutput
  BY <1>2, <1>3, <1>6, FlushStep
<1>7. CASE Killed
  <2>1. ~Alive'
    BY <1>7 DEF Killed, Alive
  <2>2. QED
    BY <1>2, <1>3, <1>7, <2>1, KilledStep
<1>8. CASE DayBreaks
  BY <1>2, <1>3, <1>8, DayStep
<1>9. QED
  BY <1>4, <1>5, <1>6, <1>7, <1>8 DEF OutNext

-----------------------------------------------------------------------------
(* Theorems *)

\* Nothing the replay does is a step of the output.
LEMMA RecordedBefore == [Next]_vars => [OutNext]_outVars
BY DEF Next, Record, Replay, vars, outVars

\* The inductive invariant of the output, over the runs of recording and replay.
LEMMA Invariant == Spec => []IInv
<1>1. Init => IInv
  BY InitInv DEF Init
<1>2. IInv /\ [Next]_vars => IInv'
  BY StepInv, RecordedBefore
<1>3. QED
  BY <1>1, <1>2, PTL DEF Spec

\* PluginWrite, closeLocked and flush: with one input and names that do not come
\* back, what was written to a file stays there, over rotation and a new day, and
\* with the files an earlier process left.
THEOREM NeverOverwritten == Spec => NoneOverwritten
<1>1. IInv /\ [Next]_vars =>
        [OneWriter /\ ~config.append /\ ~config.perId /\ Alive' =>
           \A name \in DOMAIN disk : IsPrefix(Content(name), Content(name)')]_outVars
  BY StepInv, RecordedBefore DEF Single, Same
<1>2. QED
  BY <1>1, Invariant, PTL DEF Spec, NoneOverwritten

-----------------------------------------------------------------------------
(* The files, however the output is configured *)

\* Every file is a sequence of records, and so is the buffer of the open one.
FilesTyped ==
    /\ IsFiniteSet(DOMAIN disk)
    /\ \A name \in DOMAIN disk : disk[name] \in Seq(Records)
    /\ buffer \in Seq(Records)
    /\ fileState = "open" => file \in DOMAIN disk
    /\ script \in [Writers -> Seq(Records)]
    /\ DOMAIN writing = Writers
    /\ \A w \in Writers : writing[w].pc \in {"name", "store", "write"} => writing[w].rec \in Records

\* The files an output finds are typed.
LEMMA FilesTypedAtFirst == OutInit => FilesTyped
<1> SUFFICES ASSUME OutInit PROVE FilesTyped
  OBVIOUS
<1>1. script \in [Writers -> Seq(Records)] /\ buffer \in Seq(Records)
  BY FileOutputAssumption, EmptySeq DEF OutInit
<1>2. IsFiniteSet(DOMAIN disk) /\ \A name \in DOMAIN disk : disk[name] \in Seq(Records)
  BY BeforeAssumption DEF OutInit
<1>3. QED
  BY <1>1, <1>2 DEF OutInit, FilesTyped

\* Flushing appends the buffer to the open file.
LEMMA FlushedTyped ==
    ASSUME FilesTyped
    PROVE  /\ DOMAIN Flushed = DOMAIN disk
           /\ \A name \in DOMAIN disk : Flushed[name] \in Seq(Records)
<1>1. CASE fileState = "open"
  <2>1. disk[file] \o buffer \in Seq(Records)
    BY <1>1, ConcatProperties DEF FilesTyped
  <2>2. QED
    BY <1>1, <2>1 DEF Flushed, FilesTyped
<1>2. CASE fileState # "open"
  BY <1>2 DEF Flushed, FilesTyped
<1>3. QED
  BY <1>1, <1>2

\* Writing, with or without opening the next file, keeps the files typed.
LEMMA WriteTyped ==
    ASSUME FilesTyped, NEW rec \in Records, NEW through \in BOOLEAN, WriteLocked(rec, through)
    PROVE  /\ IsFiniteSet(DOMAIN disk')
           /\ \A name \in DOMAIN disk' : disk'[name] \in Seq(Records)
           /\ buffer' \in Seq(Records)
           /\ fileState' = "open" => file' \in DOMAIN disk'
<1> DEFINE kept == IF Reopens THEN <<>> ELSE buffer
           content == IF Reopens THEN Opened ELSE disk
           state == IF Reopens THEN "open" ELSE fileState
<1>1. /\ file' = IF Reopens THEN currentName ELSE file
      /\ fileState' = IF state = "closed" /\ through THEN "broken" ELSE state
      /\ buffer' = IF fileState' = "broken" \/ through THEN <<>> ELSE Append(kept, rec)
      /\ disk' = IF state = "open" /\ through
                  THEN [content EXCEPT ![file'] = @ \o Append(kept, rec)] ELSE content
  BY DEF WriteLocked
<1>2. kept \in Seq(Records) /\ Append(kept, rec) \in Seq(Records)
  <2>1. kept \in Seq(Records)
    BY EmptySeq DEF FilesTyped
  <2> HIDE DEF kept
  <2>2. QED
    BY <2>1, AppendProperties
<1>3. /\ IsFiniteSet(DOMAIN content)
      /\ \A name \in DOMAIN content : content[name] \in Seq(Records)
      /\ state = "open" => file' \in DOMAIN content
  <2>1. CASE Reopens
    <3>1. content = Opened /\ file' = currentName
      BY <1>1, <2>1
    <3>2. DOMAIN Opened = DOMAIN disk \cup {currentName}
      BY FlushedTyped DEF Opened
    <3>3. IsFiniteSet(DOMAIN Opened)
      BY <3>2, FS_AddElement DEF FilesTyped
    <3>4. \A name \in DOMAIN Opened : Opened[name] \in Seq(Records)
      BY FlushedTyped, EmptySeq DEF Opened
    <3>5. QED
      BY <3>1, <3>2, <3>3, <3>4
  <2>2. CASE ~ Reopens
    BY <1>1, <2>2 DEF FilesTyped
  <2>3. QED
    BY <2>1, <2>2
<1> HIDE DEF kept, content, state
<1>4. DOMAIN disk' = DOMAIN content
  BY <1>1
<1>5. \A name \in DOMAIN disk' : disk'[name] \in Seq(Records)
  <2>1. CASE state = "open" /\ through
    <3>1. content[file'] \o Append(kept, rec) \in Seq(Records)
      BY <1>2, <1>3, <2>1, ConcatProperties
    <3>2. QED
      BY <1>1, <1>3, <2>1, <3>1
  <2>2. CASE ~ (state = "open" /\ through)
    BY <1>1, <1>3, <2>2
  <2>3. QED
    BY <2>1, <2>2
<1>6. buffer' \in Seq(Records)
  BY <1>1, <1>2, EmptySeq
<1>7. fileState' = "open" => file' \in DOMAIN disk'
  BY <1>1, <1>3, <1>4
<1>8. QED
  BY <1>3, <1>4, <1>5, <1>6, <1>7

\* So does everything the output does.
LEMMA FilesStayTyped ==
    ASSUME FilesTyped, [OutNext]_outVars
    PROVE  FilesTyped'
<1>1. ASSUME NEW w \in Writers, Call(w) PROVE FilesTyped'
  <2>1. script[w] \in Seq(Records) /\ script[w] # <<>>
    BY <1>1 DEF FilesTyped, Call
  <2>2. Head(script[w]) \in Records /\ Tail(script[w]) \in Seq(Records)
    BY <2>1, HeadTailProperties
  <2>3. QED
    BY <1>1, <2>2 DEF Call, FilesTyped, fileVars
<1>2. ASSUME NEW w \in Writers, ComputeName(w) PROVE FilesTyped'
  BY <1>2 DEF ComputeName, FilesTyped, fileVars
<1>3. ASSUME NEW w \in Writers, StoreName(w) PROVE FilesTyped'
  BY <1>3 DEF StoreName, FilesTyped, fileVars
<1>4. ASSUME NEW w \in Writers, Write(w) PROVE FilesTyped'
  <2>1. PICK through \in BOOLEAN : WriteLocked(writing[w].rec, through)
    BY <1>4 DEF Write
  <2>2. writing[w].rec \in Records
    BY <1>4 DEF Write, FilesTyped
  <2>3. /\ IsFiniteSet(DOMAIN disk')
        /\ \A name \in DOMAIN disk' : disk'[name] \in Seq(Records)
        /\ buffer' \in Seq(Records)
        /\ fileState' = "open" => file' \in DOMAIN disk'
    BY <2>1, <2>2, WriteTyped
  <2>4. script' = script /\ DOMAIN writing' = Writers /\ writing'[w].pc \notin {"name", "store", "write"}
        /\ \A v \in Writers \ {w} : writing'[v] = writing[v]
    BY <1>4 DEF Write, FilesTyped
  <2>5. QED
    BY <2>3, <2>4 DEF FilesTyped
<1>5. CASE Flush \/ CloseOutput
  <2>1. disk' = Flushed /\ buffer' = <<>> /\ file' = file /\ (fileState' = "open" => fileState = "open")
        /\ UNCHANGED <<script, writing>>
    BY <1>5 DEF Flush, CloseOutput, nameVars, callVars
  <2>2. QED
    BY <2>1, FlushedTyped, EmptySeq DEF FilesTyped
<1>6. CASE Killed
  <2>1. disk' = disk /\ buffer' = <<>> /\ fileState' = "closed"
        /\ script' = [w \in Writers |-> <<>>] /\ writing' = [w \in Writers |-> [pc |-> "idle"]]
    BY <1>6 DEF Killed
  <2>2. QED
    BY <2>1, EmptySeq DEF FilesTyped
<1>7. CASE Wake \/ DayBreaks \/ UNCHANGED outVars
  BY <1>7 DEF Wake, DayBreaks, outVars, fileVars, callVars, FilesTyped
<1>8. QED
  BY <1>1, <1>2, <1>3, <1>4, <1>5, <1>6, <1>7 DEF OutNext

-----------------------------------------------------------------------------
(* The bound of a chunk *)

\* A writer that has computed, or is about to write to, the name of the open chunk.
Stale(v) == writing[v].pc = "store" /\ writing[v].name = file
Due(v) == writing[v].pc = "write" /\ currentName = file

Full == queueLength >= config.queueLimit

\* Once the chunk is full, the names that lead to it again can only have been computed
\* before: by one writer, whose name the other one may then write to as well.
Late(v) ==
    /\ Stale(v) => /\ ~OneWriter /\ queueLength = config.queueLimit
                   /\ \A u \in config.writers \ {v} : ~Stale(u) /\ ~Due(u)
    /\ Due(v) => /\ ~OneWriter /\ queueLength <= config.queueLimit + 1
                   /\ \A u \in config.writers \ {v} : Due(u) => queueLength = config.queueLimit

Limited == config.queueLimit > 0 /\ ~config.append /\ Cardinality(config.writers) <= 2

Bounded ==
    /\ file = NoFile => queueLength = 0
    /\ file # NoFile => file \in DOMAIN disk
    /\ \A v \in config.writers : /\ writing[v].pc = "store" => writing[v].name # NoFile
                                 /\ writing[v].pc = "write" => currentName # NoFile
    /\ Full => \A v \in config.writers : Late(v)
    /\ queueLength <= config.queueLimit + (IF OneWriter THEN 0 ELSE 2)

IndexOK(name) == Index(name) \in Nat \cup {NoIndex}

Indexed ==
    /\ \A name \in DOMAIN disk : IndexOK(name)
    /\ IndexOK(currentName)
    /\ \A v \in Writers : writing[v].pc = "store" => IndexOK(writing[v].name)

\* A writer that is not configured has nothing to write.
Idle == \A v \in Writers \ config.writers : script[v] = <<>> /\ writing[v].pc = "idle"

BoundInv ==
    /\ config \in Config /\ FilesTyped /\ queueLength \in Nat /\ Indexed /\ Idle
    /\ Limited => Bounded

\* A name computed when the chunk is full is that of no file.
LEMMA FilenameNew ==
    ASSUME IsFiniteSet(DOMAIN disk), \A name \in DOMAIN disk : IndexOK(name)
    PROVE  /\ IndexOK(Filename)
           /\ ~config.append => Filename # NoFile
           /\ ~config.append /\ NextChunk => Filename \notin DOMAIN disk
<1> DEFINE last == LastIndex(Base)
<1>1. CASE config.append
  BY <1>1 DEF Filename, IndexOK, Index
<1>2. CASE ~config.append /\ Matches(Base) = {}
  <2>1. Filename = <<Base, 0>>
    BY <1>2 DEF Filename
  <2>2. QED
    BY <1>2, <2>1 DEF Matches, IndexOK, Index, NoFile, NoIndex
<1>3. CASE ~config.append /\ Matches(Base) # {}
  <2>1. /\ \A name \in Matches(Base) : Index(name) <= last
        /\ last \in Nat \cup {NoIndex}
    BY <1>3, LastIndexMeans DEF IndexOK
  <2>2. ASSUME NEW i \in Nat, Filename = <<Base, i>>, NextChunk => i > last
        PROVE  IndexOK(Filename) /\ Filename # NoFile /\ (NextChunk => Filename \notin DOMAIN disk)
    <3>1. Index(Filename) = i /\ Filename[1] = Base
      BY <2>2 DEF Index
    <3>2. ASSUME NextChunk, Filename \in DOMAIN disk PROVE FALSE
      <4>1. Filename \in Matches(Base)
        BY <3>1, <3>2 DEF Matches
      <4>2. i <= last /\ i > last
        BY <2>1, <2>2, <3>1, <3>2, <4>1
      <4>3. QED
        BY <2>1, <4>2 DEF NoIndex
    <3>3. QED
      BY <2>2, <3>1, <3>2 DEF IndexOK, NoFile, NoIndex, Index
  <2>3. CASE last = NoIndex
    BY <1>3, <2>2, <2>3 DEF Filename, NoIndex
  <2>4. CASE last # NoIndex
    <3> DEFINE i == IF NextChunk THEN last + 1 ELSE last
    <3>1. Filename = <<Base, i>>
      BY <1>3, <2>4 DEF Filename
    <3>2. i \in Nat /\ (NextChunk => i > last)
      BY <2>1, <2>4
    <3>3. QED
      BY <1>3, <2>2, <3>1, <3>2
  <2>5. QED
    BY <2>3, <2>4
<1>4. QED
  BY <1>1, <1>2, <1>3

\* Of two writers, one is the other's only other.
LEMMA OnlyTwo ==
    ASSUME config \in Config, Cardinality(config.writers) <= 2,
           NEW v \in config.writers, NEW w \in config.writers, v # w
    PROVE  config.writers = {v, w} /\ ~OneWriter
<1>1. IsFiniteSet(config.writers)
  BY FileOutputAssumption, FS_Subset DEF Config
<1>2. IsFiniteSet({v, w}) /\ Cardinality({v, w}) = 2
  <2>1. IsFiniteSet({v}) /\ Cardinality({v}) = 1
    BY FS_Singleton
  <2>2. w \notin {v} /\ {v} \cup {w} = {v, w}
    OBVIOUS
  <2>3. IsFiniteSet({v} \cup {w}) /\ Cardinality({v} \cup {w}) = Cardinality({v}) + 1
    <3>1. \A S, x : IsFiniteSet(S) /\ x \notin S =>
             IsFiniteSet(S \cup {x}) /\ Cardinality(S \cup {x}) = Cardinality(S) + 1
      BY FS_AddElement
    <3>2. QED
      BY <2>1, <2>2, <3>1
  <2>4. QED
    BY <2>1, <2>2, <2>3
<1>3. {v, w} \subseteq config.writers
  OBVIOUS
<1>4. Cardinality({v, w}) <= Cardinality(config.writers) /\ Cardinality(config.writers) \in Nat
  BY <1>1, <1>3, FS_Subset, FS_CardinalityType
<1>5. Cardinality(config.writers) = 2
  BY <1>2, <1>4
<1>6. {v, w} = config.writers
  BY <1>1, <1>2, <1>3, <1>5, FS_Subset
<1>7. QED
  BY <1>5, <1>6 DEF OneWriter

\* The output begins with no chunk.
LEMMA BoundInvAtFirst == OutInit => BoundInv
<1> SUFFICES ASSUME OutInit PROVE BoundInv
  OBVIOUS
<1>1. config \in Config /\ queueLength = 0 /\ file = NoFile /\ currentName = NoFile
  BY FileOutputAssumption DEF OutInit
<1>2. \A v \in Writers : writing[v].pc = "idle"
  BY DEF OutInit
<1>3. config.writers \subseteq Writers /\ config.queueLimit \in Nat
  BY <1>1 DEF Config
<1>4. Indexed
  BY <1>1, <1>2, BeforeAssumption DEF OutInit, Indexed, IndexOK, NoFile, Index
<1>5. Idle
  BY <1>2 DEF OutInit, Idle
<1>6. Limited => Bounded
  BY <1>1, <1>2, <1>3 DEF Limited, Bounded, Full
<1>7. QED
  BY <1>1, <1>4, <1>5, <1>6, FilesTypedAtFirst DEF BoundInv

\* PluginWrite up to the lock.
LEMMA CallBounded ==
    ASSUME BoundInv, Limited, NEW w \in config.writers, w \in Writers,
           Call(w) \/ ComputeName(w) \/ StoreName(w)
    PROVE  Bounded'
<1>1. /\ UNCHANGED <<config, disk, file, queueLength>> /\ DOMAIN writing' = Writers
      /\ \A v \in Writers \ {w} : writing'[v] = writing[v]
  BY DEF Call, ComputeName, StoreName, fileVars, BoundInv, FilesTyped
<1>2. config.writers \subseteq Writers /\ config.queueLimit \in Nat /\ queueLength \in Nat
      /\ config.queueLimit > 0 /\ Bounded
  BY DEF BoundInv, Config, Limited
<1>3. Full' = Full /\ OneWriter' = OneWriter
  BY <1>1 DEF Full, OneWriter
<1>4. Full => file # NoFile /\ NextChunk
  BY <1>2 DEF Full, Bounded, NextChunk
<1>5. CASE Call(w)
  <2>1. writing'[w].pc = "name" /\ currentName' = currentName
    BY <1>5 DEF Call, BoundInv, FilesTyped
  <2>2. \A v \in config.writers : /\ Stale(v)' => Stale(v)
                                  /\ Due(v)' => Due(v)
    BY <1>1, <1>2, <2>1 DEF Stale, Due
  <2>3. Full => \A v \in config.writers : Late(v)'
    BY <1>1, <1>2, <1>3, <2>2 DEF Late, Bounded
  <2>4. QED
    BY <1>1, <1>2, <1>3, <2>1, <2>3 DEF Bounded
<1>6. CASE ComputeName(w)
  <2>1. writing'[w].pc = "store" /\ writing'[w].name = Filename /\ currentName' = currentName
    BY <1>6 DEF ComputeName, BoundInv, FilesTyped, nameVars
  <2>2. /\ Filename # NoFile
        /\ NextChunk => Filename \notin DOMAIN disk
    BY FilenameNew DEF BoundInv, FilesTyped, Indexed, Limited
  <2>3. Full => Filename # file
    BY <1>2, <1>4, <2>2 DEF Bounded
  <2>4. Full => \A v \in config.writers : /\ Stale(v)' => Stale(v)
                                          /\ Due(v)' => Due(v)
    BY <1>1, <1>2, <2>1, <2>3 DEF Stale, Due
  <2>5. Full => \A v \in config.writers : Late(v)'
    BY <1>1, <1>2, <1>3, <2>4 DEF Late, Bounded
  <2>6. QED
    BY <1>1, <1>2, <1>3, <2>1, <2>2, <2>5 DEF Bounded
<1>7. CASE StoreName(w)
  <2>1. /\ writing[w].pc = "store" /\ writing'[w].pc = "write" /\ currentName' = writing[w].name
        /\ currentName' # NoFile
    BY <1>2, <1>7 DEF StoreName, BoundInv, FilesTyped, Bounded
  <2>2. \A v \in config.writers : Stale(v)' => Stale(v) /\ v # w
    BY <1>1, <1>2, <2>1 DEF Stale
  <2>3. ASSUME Full, Stale(w), NEW v \in config.writers PROVE Late(v)'
    <3>1. ~OneWriter /\ queueLength = config.queueLimit
          /\ \A u \in config.writers \ {w} : ~Stale(u) /\ ~Due(u)
      BY <1>2, <2>3 DEF Bounded, Late
    <3>2. \A u \in config.writers : ~Stale(u)'
      BY <2>2, <3>1
    <3>3. QED
      BY <1>1, <1>2, <1>3, <3>1, <3>2 DEF Late
  <2>4. ASSUME Full, ~Stale(w), NEW v \in config.writers PROVE Late(v)'
    <3>1. currentName' # file
      BY <2>1, <2>4 DEF Stale
    <3>2. \A u \in config.writers : ~Due(u)'
      BY <1>1, <3>1 DEF Due
    <3>3. Late(v)
      BY <1>2, <2>4 DEF Bounded
    <3>4. QED
      BY <1>1, <1>3, <2>2, <3>2, <3>3 DEF Late
  <2>5. QED
    BY <1>1, <1>2, <1>3, <2>1, <2>3, <2>4 DEF Bounded
<1>8. QED
  BY <1>5, <1>6, <1>7

\* A write fills the open chunk, or opens the next one.
LEMMA WriteBounded ==
    ASSUME BoundInv, Limited, NEW w \in config.writers, w \in Writers, Write(w)
    PROVE  Bounded'
<1>1. /\ UNCHANGED <<config, currentName>> /\ DOMAIN writing' = Writers
      /\ \A v \in Writers \ {w} : writing'[v] = writing[v]
      /\ writing[w].pc = "write" /\ writing'[w].pc \in {"idle", "stopped"}
  BY DEF Write, nameVars, BoundInv, FilesTyped
<1>2. config.writers \subseteq Writers /\ config.queueLimit \in Nat /\ queueLength \in Nat
      /\ config.queueLimit > 0 /\ Bounded /\ config \in Config /\ Cardinality(config.writers) <= 2
  BY DEF BoundInv, Config, Limited
<1>3. OneWriter' = OneWriter
  BY <1>1 DEF OneWriter
<1>4. PICK through \in BOOLEAN : WriteLocked(writing[w].rec, through)
  BY DEF Write
<1>5. currentName # NoFile
  BY <1>1, <1>2 DEF Bounded
<1>6. /\ file' = currentName
      /\ queueLength' = IF Reopens THEN 1 ELSE 1 + queueLength
  BY <1>4 DEF WriteLocked, Reopens
<1>7. currentName \in DOMAIN disk'
  <2>1. CASE Reopens
    BY <1>4, <2>1 DEF WriteLocked, Opened
  <2>2. CASE ~Reopens
    <3>1. currentName \in DOMAIN disk
      BY <1>2, <2>2 DEF Bounded, Reopens
    <3>2. QED
      BY <1>4, <2>2, <3>1 DEF WriteLocked
  <2>3. QED
    BY <2>1, <2>2
<1>8. ~Stale(w)' /\ ~Due(w)'
  BY <1>1 DEF Stale, Due
\* Full just now, it is so for whom the other writer would make write to it.
<1>9. ASSUME queueLength' <= config.queueLimit, NEW v \in config.writers, Full' PROVE Late(v)'
  <2>1. queueLength' = config.queueLimit
    BY <1>1, <1>2, <1>6, <1>9 DEF Full
  <2>2. CASE v = w
    BY <1>8, <2>2 DEF Late
  <2>3. CASE v # w
    <3>1. config.writers = {v, w} /\ ~OneWriter
      BY <1>2, <2>3, OnlyTwo
    <3>2. \A u \in config'.writers \ {v} : ~Stale(u)' /\ ~Due(u)'
      BY <1>1, <1>8, <3>1
    <3>3. QED
      BY <1>1, <1>2, <1>3, <2>1, <3>1, <3>2 DEF Late
  <2>4. QED
    BY <2>2, <2>3
<1>10. CASE Reopens \/ ~Full
  <2>1. queueLength' <= config.queueLimit
    BY <1>2, <1>6, <1>10 DEF Full
  <2>2. QED
    BY <1>1, <1>2, <1>3, <1>5, <1>6, <1>7, <1>9, <2>1 DEF Bounded
<1>11. CASE ~Reopens /\ Full
  <2>1. Due(w) /\ queueLength' = queueLength + 1
    BY <1>1, <1>2, <1>6, <1>11 DEF Due, Reopens
  <2>2. ~OneWriter /\ queueLength <= config.queueLimit + 1
        /\ \A u \in config.writers \ {w} : Due(u) => queueLength = config.queueLimit
    BY <1>2, <1>11, <2>1 DEF Bounded, Late
  <2>3. file' = file
    BY <1>6, <1>11 DEF Reopens
  <2>4. ASSUME NEW v \in config.writers PROVE Late(v)'
    <3>1. CASE v = w
      BY <1>8, <3>1 DEF Late
    <3>2. CASE v # w
      <4>1. config.writers = {v, w}
        BY <1>2, <3>2, OnlyTwo
      <4>2. ~Stale(v)
        BY <1>2, <1>11, <2>1, <3>2 DEF Bounded, Late
      <4>3. ~Stale(v)' /\ (Due(v)' => Due(v))
        BY <1>1, <1>2, <2>3, <3>2, <4>2 DEF Stale, Due
      <4>4. Due(v)' => queueLength = config.queueLimit
        BY <2>2, <3>2, <4>3
      <4>5. \A u \in config'.writers \ {v} : ~Due(u)'
        BY <1>1, <1>8, <4>1
      <4>6. QED
        BY <1>1, <1>2, <1>3, <2>1, <2>2, <4>3, <4>4, <4>5 DEF Late
    <3>3. QED
      BY <3>1, <3>2
  <2>5. QED
    BY <1>1, <1>2, <1>3, <1>5, <1>6, <1>7, <2>1, <2>2, <2>4 DEF Bounded
<1>12. QED
  BY <1>10, <1>11

\* Every step keeps the indices of the names, and what is written to them in bounds.
LEMMA BoundInvStays ==
    ASSUME BoundInv, [OutNext]_outVars
    PROVE  BoundInv'
<1>1. config' = config /\ config \in Config /\ config.writers \subseteq Writers
  BY DEF BoundInv, OutNext, Call, ComputeName, StoreName, Write, Wake, Flush, CloseOutput, Killed,
         DayBreaks, outVars, Config
<1>2. FilesTyped /\ FilesTyped' /\ Indexed /\ Idle /\ queueLength \in Nat
  BY FilesStayTyped DEF BoundInv
<1>3. Limited' = Limited
  BY <1>1 DEF Limited
<1>4. ASSUME NEW w \in Writers, Call(w) \/ ComputeName(w) \/ StoreName(w)
      PROVE  queueLength' \in Nat /\ Indexed' /\ Idle' /\ (Limited => Bounded')
  <2>1. w \in config.writers
    BY <1>2, <1>4 DEF Idle, Call, ComputeName, StoreName
  <2>2. UNCHANGED <<disk, queueLength>> /\ \A v \in Writers \ {w} : writing'[v] = writing[v]
        /\ script'[v] = script[v]
    BY <1>2, <1>4 DEF Call, ComputeName, StoreName, fileVars, FilesTyped
  <2>3. Indexed'
    <3>1. IndexOK(Filename)
      BY <1>2, FilenameNew DEF FilesTyped, Indexed
    <3>2. IndexOK(currentName)' /\ (writing'[w].pc = "store" => IndexOK(writing[w].name)')
      <4>1. CASE Call(w)
        BY <1>2, <4>1 DEF Call, Indexed, FilesTyped, IndexOK, Index
      <4>2. CASE ComputeName(w)
        BY <1>2, <3>1, <4>2 DEF ComputeName, Indexed, FilesTyped, IndexOK, Index, nameVars
      <4>3. CASE StoreName(w)
        BY <1>2, <4>3 DEF StoreName, Indexed, FilesTyped, IndexOK, Index
      <4>4. QED
        BY <1>4, <4>1, <4>2, <4>3
    <3>3. QED
      BY <1>2, <2>2, <3>2 DEF Indexed, IndexOK, Index
  <2>4. Idle'
    BY <1>1, <1>2, <2>1, <2>2 DEF Idle
  <2>5. QED
    BY <1>2, <1>4, <2>1, <2>2, <2>3, <2>4, CallBounded
<1>5. ASSUME NEW w \in Writers, Write(w)
      PROVE  queueLength' \in Nat /\ Indexed' /\ Idle' /\ (Limited => Bounded')
  <2>1. w \in config.writers
    BY <1>2, <1>5 DEF Idle, Write
  <2>2. /\ UNCHANGED <<script, currentName>> /\ \A v \in Writers \ {w} : writing'[v] = writing[v]
        /\ writing'[w].pc \in {"idle", "stopped"}
    BY <1>2, <1>5 DEF Write, nameVars, FilesTyped
  <2>3. PICK through \in BOOLEAN : WriteLocked(writing[w].rec, through)
    BY <1>5 DEF Write
  <2>4. DOMAIN disk' \subseteq DOMAIN disk \cup {currentName}
    <3>1. DOMAIN Opened = DOMAIN disk \cup {currentName}
      BY <1>2, FlushedTyped DEF Opened
    <3>2. QED
      BY <2>3, <3>1 DEF WriteLocked
  <2>5. queueLength' \in Nat
    BY <1>2, <2>3 DEF WriteLocked
  <2>6. Indexed'
    BY <1>2, <2>2, <2>4 DEF Indexed, IndexOK, Index
  <2>7. Idle'
    BY <1>1, <1>2, <2>1, <2>2 DEF Idle
  <2>8. QED
    BY <1>5, <2>1, <2>5, <2>6, <2>7, WriteBounded
<1>6. ASSUME UNCHANGED <<config, file, queueLength, currentName, writing, script>>,
             DOMAIN disk' = DOMAIN disk
      PROVE  queueLength' \in Nat /\ Indexed' /\ Idle' /\ (Limited => Bounded')
  <2>1. Indexed' /\ Idle'
    BY <1>2, <1>6 DEF Indexed, Idle, IndexOK, Index
  <2>2. Limited => Bounded'
    BY <1>6 DEF BoundInv, Bounded, Late, Full, Stale, Due, OneWriter
  <2>3. QED
    BY <1>2, <1>6, <2>1, <2>2
<1>7. CASE Flush \/ CloseOutput
  <2>1. DOMAIN disk' = DOMAIN disk
    BY <1>2, <1>7, FlushedTyped DEF Flush, CloseOutput
  <2>2. UNCHANGED <<config, file, queueLength, currentName, writing, script>>
    BY <1>7 DEF Flush, CloseOutput, nameVars, callVars
  <2>3. QED
    BY <1>1, <1>2, <1>3, <1>6, <2>1, <2>2 DEF BoundInv
<1>8. CASE Wake \/ DayBreaks \/ UNCHANGED outVars
  <2>1. UNCHANGED <<config, disk, file, queueLength, currentName, writing, script>>
    BY <1>8 DEF Wake, DayBreaks, outVars, fileVars, nameVars, callVars
  <2>2. QED
    BY <1>1, <1>2, <1>3, <1>6, <2>1 DEF BoundInv
<1>9. CASE Killed
  <2>1. /\ UNCHANGED disk /\ file' = NoFile /\ currentName' = NoFile /\ queueLength' = 0
        /\ script' = [v \in Writers |-> <<>>]
        /\ \A v \in Writers : writing'[v].pc = "idle"
    BY <1>9 DEF Killed
  <2>2. Indexed' /\ Idle'
    BY <1>2, <2>1 DEF Indexed, Idle, IndexOK, Index, NoFile
  <2>3. Limited => Bounded'
    BY <1>1, <2>1 DEF Limited, Bounded, Full, Config
  <2>4. QED
    BY <1>1, <1>2, <1>3, <2>1, <2>2, <2>3 DEF BoundInv
<1>10. QED
  <2>1. ASSUME NEW w \in Writers, Call(w) \/ ComputeName(w) \/ StoreName(w) \/ Write(w)
        PROVE  BoundInv'
    BY <1>1, <1>2, <1>3, <1>4, <1>5, <2>1 DEF BoundInv
  <2>2. QED
    BY <1>7, <1>8, <1>9, <2>1 DEF OutNext

\* PluginWrite and updateName: one writer never outgrows the limit of a chunk,
\* two by no more than two records, whatever the template holds.
THEOREM ChunksBounded == Spec => []ChunkBound
<1>1. Init => BoundInv
  BY BoundInvAtFirst DEF Init
<1>2. BoundInv /\ [Next]_vars => BoundInv'
  BY BoundInvStays, RecordedBefore
<1>3. BoundInv => ChunkBound
  BY DEF BoundInv, ChunkBound, Limited, Bounded
<1>4. QED
  BY <1>1, <1>2, <1>3, PTL DEF Spec

-----------------------------------------------------------------------------
(* What the chunks of one input hold *)

\* A name the template has expanded to by day d.
Shape(name, d, append) ==
    /\ name = <<<<name[1][1], NoTag>>, Index(name)>>
    /\ name[1][1] \in 0 .. d /\ Index(name) \in Nat \cup {NoIndex}
    /\ append => Index(name) = NoIndex

\* A file that holds one of recs.
Holds(files, recs, name) == \E i \in DOMAIN files[name] : \E p \in DOMAIN recs : files[name][i] = recs[p]

\* The holders of recs are last, and files before it.
UpTo(files, recs, last, d, append) ==
    \A name \in DOMAIN files : Holds(files, recs, name) =>
        Shape(name, d, append) /\ (name = last \/ Earlier(name, last))

FilesOf(files) == \A name \in DOMAIN files : files[name] \in Seq(Records)

\* b appended to the last file.
Grown(files, last, b) == [files EXCEPT ![last] = @ \o b]

\* The records of a file that has grown are those it had, and the ones appended.
LEMMA GrownMeans ==
    ASSUME NEW files, FilesOf(files), NEW last \in DOMAIN files, NEW b \in Seq(Records)
    PROVE  /\ DOMAIN Grown(files, last, b) = DOMAIN files
           /\ FilesOf(Grown(files, last, b))
           /\ \A name \in DOMAIN files : \A i \in DOMAIN files[name] :
                 /\ i \in DOMAIN Grown(files, last, b)[name] /\ i \in Nat /\ i <= Len(files[name])
                 /\ Grown(files, last, b)[name][i] = files[name][i]
           /\ \A k \in DOMAIN b : /\ Len(files[last]) + k \in DOMAIN Grown(files, last, b)[last]
                                  /\ Grown(files, last, b)[last][Len(files[last]) + k] = b[k]
           /\ \A name \in DOMAIN files : \A i \in DOMAIN Grown(files, last, b)[name] :
                 \/ i \in DOMAIN files[name]
                 \/ name = last /\ \E k \in DOMAIN b : i = Len(files[last]) + k
<1> DEFINE new == Grown(files, last, b)
           f == files[last]
<1>1. DOMAIN new = DOMAIN files /\ new[last] = f \o b
      /\ \A name \in DOMAIN files \ {last} : new[name] = files[name]
  BY DEF Grown
<1>2. f \in Seq(Records)
  BY DEF FilesOf
<1>3. f \o b \in Seq(Records) /\ Len(f \o b) = Len(f) + Len(b) /\ Len(f) \in Nat /\ Len(b) \in Nat
      /\ \A i \in 1 .. Len(f) + Len(b) : (f \o b)[i] = IF i <= Len(f) THEN f[i] ELSE b[i - Len(f)]
  BY <1>2, ConcatProperties, LenProperties
<1>4. DOMAIN f = 1 .. Len(f) /\ DOMAIN b = 1 .. Len(b) /\ DOMAIN (f \o b) = 1 .. Len(f) + Len(b)
  BY <1>2, <1>3, LenProperties
<1>5. FilesOf(new)
  BY <1>1, <1>3 DEF FilesOf
<1>6. ASSUME NEW name \in DOMAIN files, NEW i \in DOMAIN files[name]
      PROVE  i \in DOMAIN new[name] /\ i \in Nat /\ i <= Len(files[name]) /\ new[name][i] = files[name][i]
  <2>1. DOMAIN files[name] = 1 .. Len(files[name])
    BY LenProperties DEF FilesOf
  <2>2. CASE name = last
    BY <1>1, <1>3, <1>4, <1>6, <2>2
  <2>3. CASE name # last
    BY <1>1, <2>1, <2>3
  <2>4. QED
    BY <2>2, <2>3
<1>7. ASSUME NEW k \in DOMAIN b
      PROVE  Len(f) + k \in DOMAIN new[last] /\ new[last][Len(f) + k] = b[k]
  <2>1. k \in 1 .. Len(b) /\ Len(f) + k \in 1 .. Len(f) + Len(b) /\ ~(Len(f) + k <= Len(f))
        /\ (Len(f) + k) - Len(f) = k
    BY <1>3, <1>4
  <2>2. QED
    BY <1>1, <1>3, <1>4, <2>1
<1>8. ASSUME NEW name \in DOMAIN files, NEW i \in DOMAIN new[name]
      PROVE  \/ i \in DOMAIN files[name]
             \/ name = last /\ \E k \in DOMAIN b : i = Len(f) + k
  <2>1. CASE name = last /\ i > Len(f)
    <3>1. i \in 1 .. Len(f) + Len(b)
      BY <1>1, <1>4, <2>1
    <3>2. i - Len(f) \in DOMAIN b /\ i = Len(f) + (i - Len(f))
      BY <1>3, <1>4, <2>1, <3>1
    <3>3. QED
      BY <2>1, <3>2
  <2>2. CASE name = last /\ ~(i > Len(f))
    BY <1>1, <1>3, <1>4, <2>2
  <2>3. CASE name # last
    BY <1>1, <2>3
  <2>4. QED
    BY <2>1, <2>2, <2>3
<1>9. QED
  BY <1>1, <1>5, <1>6, <1>7, <1>8

\* Appending the next records to the last file keeps their order, each once.
LEMMA GrowsFirst ==
    ASSUME NEW files, FilesOf(files), NEW last \in DOMAIN files, NEW b \in Seq(Records),
           NEW recs \in Seq(Records), IsInjective(recs), NEW n \in Nat, NEW d, NEW append,
           n + Len(b) <= Len(recs), \A k \in DOMAIN b : b[k] = recs[n + k],
           HoldFirst(files, recs, n), UpTo(files, recs, last, d, append), Shape(last, d, append)
    PROVE  /\ HoldFirst(Grown(files, last, b), recs, n + Len(b))
           /\ UpTo(Grown(files, last, b), recs, last, d, append)
<1> DEFINE new == Grown(files, last, b)
           f == files[last]
           Old(name, i) == name \in DOMAIN files /\ i \in DOMAIN files[name] /\ new[name][i] = files[name][i]
           New(name, i, k) == name = last /\ k \in DOMAIN b /\ i = Len(f) + k /\ new[name][i] = recs[n + k]
<1>1. /\ DOMAIN new = DOMAIN files
      /\ \A name \in DOMAIN files : \A i \in DOMAIN files[name] :
            /\ i \in DOMAIN new[name] /\ i \in Nat /\ i <= Len(files[name])
            /\ Old(name, i)
      /\ \A k \in DOMAIN b : Len(f) + k \in DOMAIN new[last] /\ New(last, Len(f) + k, k)
      /\ \A name \in DOMAIN new : \A i \in DOMAIN new[name] :
            \/ Old(name, i)
            \/ \E k \in DOMAIN b : New(name, i, k)
  BY GrownMeans
<1>2. /\ DOMAIN recs = 1 .. Len(recs) /\ DOMAIN b = 1 .. Len(b) /\ Len(f) \in Nat
      /\ \A k \in DOMAIN b : k \in Nat /\ n + k \in DOMAIN recs /\ n + k > n
      /\ Len(b) \in Nat /\ Len(recs) \in Nat
  BY LenProperties DEF FilesOf
<1>3. \A p, q \in DOMAIN recs : recs[p] = recs[q] => p = q
  BY DEF IsInjective
<1> HIDE DEF new
\* A record that was there is one of the first n.
<1>4. \A name \in DOMAIN files : \A i \in DOMAIN files[name] : \A p \in DOMAIN recs :
         files[name][i] = recs[p] => p <= n
  BY DEF HoldFirst
<1>5. ASSUME NEW p \in DOMAIN recs
      PROVE  p <= n + Len(b) <=> \E name \in DOMAIN new : \E i \in DOMAIN new[name] : new[name][i] = recs[p]
  <2>1. CASE p <= n
    <3>1. PICK name \in DOMAIN files : \E i \in DOMAIN files[name] : files[name][i] = recs[p]
      BY <2>1 DEF HoldFirst
    <3>2. PICK i \in DOMAIN files[name] : files[name][i] = recs[p]
      BY <3>1
    <3>3. name \in DOMAIN new /\ i \in DOMAIN new[name] /\ new[name][i] = recs[p]
      BY <1>1, <3>2
    <3>4. p <= n + Len(b)
      BY <1>2, <2>1
    <3>5. QED
      BY <3>3, <3>4
  <2>2. CASE p > n /\ p <= n + Len(b)
    <3>1. p - n \in DOMAIN b /\ n + (p - n) = p
      BY <1>2, <2>2
    <3>2. New(last, Len(f) + (p - n), p - n) /\ Len(f) + (p - n) \in DOMAIN new[last]
      BY <1>1, <3>1
    <3>3. QED
      BY <1>1, <2>2, <3>1, <3>2
  <2>3. CASE p > n + Len(b)
    <3>1. ASSUME NEW name \in DOMAIN new, NEW i \in DOMAIN new[name], new[name][i] = recs[p] PROVE FALSE
      <4>1. CASE Old(name, i)
        <5>1. p <= n
          BY <1>4, <3>1, <4>1
        <5>2. QED
          BY <1>2, <2>3, <5>1
      <4>2. ASSUME NEW k \in DOMAIN b, New(name, i, k) PROVE FALSE
        <5>1. p = n + k
          BY <1>2, <1>3, <3>1, <4>2
        <5>2. QED
          BY <1>2, <2>3, <5>1
      <4>3. QED
        BY <1>1, <4>1, <4>2
    <3>2. QED
      BY <1>2, <2>3, <3>1
  <2>4. QED
    BY <1>2, <2>1, <2>2, <2>3
<1>6. ASSUME NEW here \in DOMAIN new, NEW there \in DOMAIN new, NEW i \in DOMAIN new[here],
             NEW j \in DOMAIN new[there], NEW p \in DOMAIN recs, NEW q \in DOMAIN recs,
             new[here][i] = recs[p], new[there][j] = recs[q]
      PROVE  /\ p < q => Earlier(here, there) \/ (here = there /\ i < j)
             /\ p = q => here = there /\ i = j
  <2>1. CASE Old(here, i) /\ Old(there, j)
    <3>1. /\ here \in DOMAIN files /\ i \in DOMAIN files[here] /\ files[here][i] = recs[p]
          /\ there \in DOMAIN files /\ j \in DOMAIN files[there] /\ files[there][j] = recs[q]
      BY <1>6, <2>1
    <3>2. QED
      BY <3>1 DEF HoldFirst
  <2>2. ASSUME Old(here, i), NEW l \in DOMAIN b, New(there, j, l)
        PROVE  p < q /\ (Earlier(here, there) \/ (here = there /\ i < j))
    <3>1. p <= n /\ q = n + l
      BY <1>2, <1>3, <1>4, <1>6, <2>2
    <3>2. p < q
      BY <1>2, <3>1
    <3>3. Holds(files, recs, here)
      BY <1>6, <2>2 DEF Holds
    <3>4. here = last \/ Earlier(here, last)
      BY <2>2, <3>3 DEF UpTo
    <3>5. here = last => i < j
      BY <1>1, <1>2, <2>2
    <3>6. QED
      BY <2>2, <3>2, <3>4, <3>5
  <2>3. ASSUME NEW k \in DOMAIN b, New(here, i, k), Old(there, j)
        PROVE  p > q
    <3>1. there \in DOMAIN files /\ j \in DOMAIN files[there] /\ files[there][j] = recs[q]
      BY <1>6, <2>3
    <3>2. q <= n
      BY <1>4, <3>1
    <3>3. p = n + k
      BY <1>2, <1>3, <1>6, <2>3
    <3>4. QED
      BY <1>2, <3>2, <3>3
  <2>4. ASSUME NEW k \in DOMAIN b, New(here, i, k), NEW l \in DOMAIN b, New(there, j, l)
        PROVE  here = there /\ (p < q => i < j) /\ (p = q => i = j)
    <3>1. p = n + k /\ q = n + l
      BY <1>2, <1>3, <1>6, <2>4
    <3>2. QED
      BY <1>2, <2>4, <3>1
  <2>5. (p < q => ~(p = q) /\ ~(p > q)) /\ (p = q => ~(p > q))
    BY <1>2
  <2>6. QED
    BY <1>1, <2>1, <2>2, <2>3, <2>4, <2>5
<1>7. HoldFirst(new, recs, n + Len(b))
  BY <1>5, <1>6 DEF HoldFirst
<1>8. UpTo(new, recs, last, d, append)
  <2> SUFFICES ASSUME NEW name \in DOMAIN new, Holds(new, recs, name), name # last
               PROVE  Holds(files, recs, name)
    BY <1>1 DEF UpTo
  <2>1. PICK i \in DOMAIN new[name], p \in DOMAIN recs : new[name][i] = recs[p]
    BY DEF Holds
  <2>2. Old(name, i)
    BY <1>1
  <2>3. QED
    BY <2>1, <2>2 DEF Holds
<1>9. QED
  BY <1>7, <1>8 DEF new

\* The disk once next was created, or emptied.
Emptied(files, next) == [name \in DOMAIN files \cup {next} |-> IF name = next THEN <<>> ELSE files[name]]

\* A file behind all holders may be opened, and emptied: it holds none of the records.
LEMMA OpensFirst ==
    ASSUME NEW files, FilesOf(files), NEW last, NEW next, NEW recs \in Seq(Records), NEW n \in Nat,
           NEW d \in Nat, NEW append,
           HoldFirst(files, recs, n), UpTo(files, recs, last, d, append),
           last = NoFile \/ Shape(last, d, append), Shape(next, d, append), Earlier(last, next)
    PROVE  /\ HoldFirst(Emptied(files, next), recs, n)
           /\ UpTo(Emptied(files, next), recs, next, d, append)
           /\ FilesOf(Emptied(files, next))
<1> DEFINE new == Emptied(files, next)
<1>1. last[1][1] \in Int /\ Index(last) \in Int /\ next[1][1] \in Int /\ Index(next) \in Int
  BY DEF NoFile, Index, NoIndex, Shape
<1>2. ASSUME NEW name \in DOMAIN files, Holds(files, recs, name)
      PROVE  Shape(name, d, append) /\ Earlier(name, next) /\ name # next
  <2>1. Shape(name, d, append) /\ (name = last \/ Earlier(name, last))
    BY <1>2 DEF UpTo
  <2>2. name[1][1] \in Int /\ Index(name) \in Int
    BY <2>1 DEF Shape, NoIndex
  <2>3. Earlier(name, next)
    BY <1>1, <2>1, <2>2 DEF Earlier
  <2>4. ~Earlier(next, next)
    BY <1>1 DEF Earlier
  <2>5. QED
    BY <2>1, <2>3, <2>4
<1>3. /\ DOMAIN new = DOMAIN files \cup {next} /\ new[next] = <<>>
      /\ \A name \in DOMAIN new : name # next => name \in DOMAIN files /\ new[name] = files[name]
  BY DEF Emptied
<1> HIDE DEF new
<1>4. DOMAIN new[next] = {}
  BY <1>3
\* The records that new files hold, and where, are those of the old ones.
<1>5. \A name, i, p : name \in DOMAIN new /\ i \in DOMAIN new[name] /\ p \in DOMAIN recs
                        /\ new[name][i] = recs[p]
         => name \in DOMAIN files /\ i \in DOMAIN files[name] /\ files[name][i] = recs[p]
  BY <1>3, <1>4
<1>6. \A name, i, p : name \in DOMAIN files /\ i \in DOMAIN files[name] /\ p \in DOMAIN recs
                        /\ files[name][i] = recs[p]
         => name \in DOMAIN new /\ i \in DOMAIN new[name] /\ new[name][i] = recs[p]
  BY <1>2, <1>3 DEF Holds
<1>7. HoldFirst(new, recs, n)
  <2>1. ASSUME NEW p \in DOMAIN recs
        PROVE  p <= n <=> \E name \in DOMAIN new : \E i \in DOMAIN new[name] : new[name][i] = recs[p]
    BY <1>5, <1>6 DEF HoldFirst
  <2>2. ASSUME NEW here \in DOMAIN new, NEW there \in DOMAIN new, NEW i \in DOMAIN new[here],
               NEW j \in DOMAIN new[there], NEW p \in DOMAIN recs, NEW q \in DOMAIN recs,
               new[here][i] = recs[p], new[there][j] = recs[q]
        PROVE  /\ p < q => Earlier(here, there) \/ (here = there /\ i < j)
               /\ p = q => here = there /\ i = j
    <3>1. /\ here \in DOMAIN files /\ i \in DOMAIN files[here] /\ files[here][i] = recs[p]
          /\ there \in DOMAIN files /\ j \in DOMAIN files[there] /\ files[there][j] = recs[q]
      BY <1>5, <2>2
    <3>2. QED
      BY <3>1 DEF HoldFirst
  <2>3. QED
    BY <2>1, <2>2 DEF HoldFirst
<1>8. UpTo(new, recs, next, d, append)
  <2> SUFFICES ASSUME NEW name \in DOMAIN new, Holds(new, recs, name)
               PROVE  Shape(name, d, append) /\ (name = next \/ Earlier(name, next))
    BY DEF UpTo
  <2>1. PICK i \in DOMAIN new[name], p \in DOMAIN recs : new[name][i] = recs[p]
    BY DEF Holds
  <2>2. name \in DOMAIN files /\ Holds(files, recs, name)
    BY <1>5, <2>1 DEF Holds
  <2>3. QED
    BY <1>2, <2>2
<1>9. FilesOf(new)
  <2>1. <<>> \in Seq(Records)
    BY EmptySeq
  <2>2. QED
    BY <1>3, <2>1 DEF FilesOf
<1>10. QED
  BY <1>7, <1>8, <1>9 DEF new

\* What w has taken of its script, whether it has one in hand, what it has
\* written of it, and what of that has left the buffer.
Begun(w) == Len(Script[w]) - Len(script[w])
Held(w) == IF writing[w].pc \in {"name", "store", "write"} THEN 1 ELSE 0
Out(w) == Begun(w) - Held(w)
Safe(w) == Out(w) - Len(buffer)

\* The script is behind the record in hand, that one behind the buffer.
Rest(w) ==
    /\ Len(script[w]) <= Len(Script[w])
    /\ \A i \in DOMAIN script[w] : script[w][i] = Script[w][Begun(w) + i]
    /\ Held(w) <= Begun(w)
    /\ Held(w) = 1 => writing[w].rec = Script[w][Begun(w)]
    /\ Len(buffer) <= Out(w)
    /\ \A i \in DOMAIN buffer : buffer[i] = Script[w][Safe(w) + i]

\* The open file is the last that holds a record.
Ours(w) ==
    /\ file # NoFile => Shape(file, day, config.append) /\ file \in DOMAIN disk
    /\ UpTo(disk, Script[w], file, day, config.append)

\* A name that is going to be written to is that of the open file, or of one behind it.
Behind(name) == Shape(name, day, config.append) /\ (name = file \/ Earlier(file, name))

Coming(w) ==
    /\ writing[w].pc # "write" => currentName = file
    /\ writing[w].pc = "store" => Behind(writing[w].name)
    /\ writing[w].pc = "write" => Behind(currentName)

\* Nothing closes the file before Close, and then nothing is in the buffer.
States(w) ==
    /\ recorder = "recording" => /\ fileState = IF file = NoFile THEN "closed" ELSE "open"
                                 /\ file = NoFile => Out(w) = 0
    /\ recorder = "finished" => /\ fileState = "closed" /\ buffer = <<>>
                                /\ script[w] = <<>> /\ Held(w) = 0

Whole(w) ==
    /\ Rest(w)
    /\ HoldFirst(disk, Script[w], Safe(w))
    /\ Ours(w)
    /\ Coming(w)
    /\ States(w)

Survives(w) ==
    /\ recorder \in {"recording", "finished"} => Whole(w)
    /\ recorder = "killed" => \E n \in 0 .. Len(Script[w]) : HoldFirst(disk, Script[w], n)

Around ==
    /\ config \in Config /\ FilesTyped /\ Idle
    /\ day \in Nat /\ (~config.dated => day = 0)
    /\ recorder \in {"recording", "closed", "finished", "cut", "killed"}

PrefixInv == Around /\ (OneWriter /\ ~config.perId => \A w \in config.writers : Survives(w))

\* The counts, and what they are counts of.
LEMMA Counts ==
    ASSUME Around, NEW w \in Writers, Rest(w)
    PROVE  /\ Begun(w) \in 0 .. Len(Script[w]) /\ Held(w) \in {0, 1} /\ Held(w) <= Begun(w)
           /\ Out(w) \in 0 .. Begun(w) /\ Safe(w) \in 0 .. Out(w)
           /\ Len(Script[w]) \in Nat /\ Len(buffer) \in Nat /\ Safe(w) + Len(buffer) = Out(w)
           /\ Script[w] \in Seq(Records) /\ IsInjective(Script[w])
           /\ Out(w) + Held(w) = Begun(w) /\ Begun(w) + Len(script[w]) = Len(Script[w])
           /\ script[w] \in Seq(Records) /\ buffer \in Seq(Records)
<1>1. Script[w] \in Seq(Records) /\ IsInjective(Script[w])
      /\ script[w] \in Seq(Records) /\ buffer \in Seq(Records)
  BY FileOutputAssumption DEF Around, FilesTyped
<1>2. Len(Script[w]) \in Nat /\ Len(script[w]) \in Nat /\ Len(buffer) \in Nat
  BY <1>1, LenProperties
<1>3. Begun(w) \in 0 .. Len(Script[w]) /\ Begun(w) + Len(script[w]) = Len(Script[w])
  <2>1. Len(script[w]) <= Len(Script[w])
    BY DEF Rest
  <2>2. \A m, n \in Nat : n <= m => m - n \in 0 .. m /\ (m - n) + n = m
    OBVIOUS
  <2>3. QED
    BY <1>2, <2>1, <2>2 DEF Begun
<1>4. Held(w) \in {0, 1} /\ Held(w) <= Begun(w) /\ Len(buffer) <= Out(w)
  BY DEF Rest, Held
<1>5. Out(w) \in 0 .. Begun(w) /\ Out(w) + Held(w) = Begun(w)
  BY <1>2, <1>3, <1>4 DEF Out
<1>6. Safe(w) \in 0 .. Out(w) /\ Safe(w) + Len(buffer) = Out(w)
  BY <1>2, <1>4, <1>5 DEF Safe
<1>7. QED
  BY <1>1, <1>2, <1>3, <1>4, <1>5, <1>6

\* With the buffer flushed, the files hold all that was written.
LEMMA FlushedFirst ==
    ASSUME Around, NEW w \in Writers, Rest(w), HoldFirst(disk, Script[w], Safe(w)), Ours(w), States(w),
           recorder = "recording"
    PROVE  /\ HoldFirst(Flushed, Script[w], Out(w))
           /\ UpTo(Flushed, Script[w], file, day, config.append)
           /\ FilesOf(Flushed) /\ DOMAIN Flushed = DOMAIN disk
<1>1. FilesOf(disk) /\ FilesOf(Flushed) /\ DOMAIN Flushed = DOMAIN disk
  BY FlushedTyped DEF Around, FilesTyped, FilesOf
<1>2. CASE file = NoFile
  <2>1. Flushed = disk /\ Out(w) = Safe(w)
    BY <1>2, Counts DEF States, Flushed
  <2>2. QED
    BY <1>1, <2>1 DEF Ours
<1>3. CASE file # NoFile
  <2>1. Flushed = Grown(disk, file, buffer)
    BY <1>3 DEF States, Flushed, Grown
  <2>2. HoldFirst(Grown(disk, file, buffer), Script[w], Safe(w) + Len(buffer))
        /\ UpTo(Grown(disk, file, buffer), Script[w], file, day, config.append)
    <3>1. Safe(w) \in Nat /\ Safe(w) + Len(buffer) <= Len(Script[w])
      BY Counts
    <3>2. \A k \in DOMAIN buffer : buffer[k] = Script[w][Safe(w) + k]
      BY DEF Rest
    <3>3. file \in DOMAIN disk /\ Shape(file, day, config.append)
          /\ UpTo(disk, Script[w], file, day, config.append)
      BY <1>3 DEF Ours
    <3>4. Script[w] \in Seq(Records) /\ IsInjective(Script[w]) /\ buffer \in Seq(Records)
      BY Counts
    <3>5. QED
      BY <1>1, <3>1, <3>2, <3>3, <3>4, GrowsFirst
  <2>3. Safe(w) + Len(buffer) = Out(w)
    BY Counts
  <2>4. QED
    BY <1>1, <2>1, <2>2, <2>3
<1>4. QED
  BY <1>2, <1>3

\* The name a writer computes.
LEMMA FilenameBehind ==
    ASSUME IInv, Around, OneWriter, ~config.perId, NEW w \in config.writers, w \in Writers,
           Ours(w), writing[w].pc = "name"
    PROVE  Behind(Filename)
<1>1. day \in Nat /\ Base = <<IF config.dated THEN day ELSE 0, NoTag>> /\ Base[1] = day /\ Base[2] = NoTag
  BY DEF Around, Base
<1>2. CASE config.append
  <2>1. Filename = <<Base, NoIndex>>
    BY <1>2 DEF Filename
  <2>2. Shape(Filename, day, config.append)
    BY <1>1, <2>1 DEF Shape, Index
  <2>3. CASE file = NoFile
    <3>1. file[1][1] < Filename[1][1]
      BY <1>1, <2>1, <2>3 DEF NoFile
    <3>2. QED
      BY <2>2, <3>1 DEF Behind, Earlier
  <2>4. CASE file # NoFile
    <3>1. Shape(file, day, config.append)
      BY <2>4 DEF Ours
    <3>2. file = <<<<file[1][1], NoTag>>, NoIndex>> /\ file[1][1] \in 0 .. day
      BY <1>2, <3>1 DEF Shape
    <3>3. CASE file[1][1] = day
      BY <1>1, <2>1, <2>2, <3>2, <3>3 DEF Behind
    <3>4. CASE file[1][1] # day
      BY <1>1, <2>1, <2>2, <3>2, <3>4 DEF Behind, Earlier
    <3>5. QED
      BY <3>3, <3>4
  <2>5. QED
    BY <2>3, <2>4
<1>3. CASE ~config.append
  <2>1. Goes(Filename)
    BY <1>3, FilenameGoes DEF IInv, Single
  <2>2. Shape(Filename, day, config.append)
    BY <1>1, <1>3, <2>1 DEF Goes, NameOK, Shape
  <2>3. CASE file = NoFile
    <3>1. file[1][1] < Filename[1][1]
      BY <2>2, <2>3 DEF NoFile, Shape
    <3>2. QED
      BY <2>2, <3>1 DEF Behind, Earlier
  <2>4. CASE file # NoFile /\ Filename # file
    <3>1. Shape(file, day, config.append) /\ file \in DOMAIN disk
      BY <2>4 DEF Ours
    <3>2. Filename \notin DOMAIN disk
      BY <2>1, <2>4 DEF Goes
    <3>3. file[1][1] <= Filename[1][1]
          /\ (file[1] = Filename[1] => Index(file) <= Index(Filename))
      BY <2>1, <3>1 DEF Goes, Latest
    <3>4. file[1] = <<file[1][1], NoTag>> /\ Filename[1] = <<Filename[1][1], NoTag>>
      BY <2>2, <3>1 DEF Shape
    <3>5. Index(file) = Index(Filename) /\ file[1] = Filename[1] => file = Filename
      BY <2>2, <3>1 DEF Shape
    <3>6. Index(file) \in Int /\ Index(Filename) \in Int /\ file[1][1] \in Int /\ Filename[1][1] \in Int
      BY <2>2, <3>1 DEF Shape, NoIndex
    <3>7. Earlier(file, Filename)
      BY <2>4, <3>3, <3>4, <3>5, <3>6 DEF Earlier
    <3>8. QED
      BY <2>2, <3>7 DEF Behind
  <2>5. CASE Filename = file
    BY <2>2, <2>5 DEF Behind
  <2>6. QED
    BY <2>3, <2>4, <2>5
<1>4. QED
  BY <1>2, <1>3

\* PluginWrite up to the lock.
LEMMA CallWhole ==
    ASSUME IInv, Around, OneWriter, ~config.perId, NEW w \in config.writers, w \in Writers,
           recorder = "recording", Whole(w), Call(w) \/ ComputeName(w) \/ StoreName(w)
    PROVE  Whole(w)'
<1>1. UNCHANGED <<config, day, fileVars, recorder>> /\ DOMAIN writing = Writers /\ DOMAIN script = Writers
      /\ script[w] \in Seq(Records) /\ Script[w] \in Seq(Records)
  BY FileOutputAssumption DEF Around, FilesTyped, Call, ComputeName, StoreName
<1>2. Out(w)' = Out(w) /\ Safe(w)' = Safe(w) /\ Begun(w)' = Out(w)' + Held(w)'
  <2>1. CASE Call(w)
    <3>1. script'[w] = Tail(script[w]) /\ writing[w].pc = "idle" /\ writing'[w].pc = "name"
          /\ script[w] # <<>>
      BY <1>1, <2>1 DEF Call
    <3>2. Len(script'[w]) = Len(script[w]) - 1
      BY <1>1, <3>1
    <3>3. Held(w) = 0 /\ Held(w)' = 1
      BY <3>1 DEF Held
    <3>4. QED
      BY <1>1, <3>2, <3>3, LenProperties DEF Out, Begun, Safe, fileVars
  <2>2. CASE ComputeName(w) \/ StoreName(w)
    <3>1. script' = script /\ Held(w) = 1 /\ Held(w)' = 1
      BY <1>1, <2>2 DEF ComputeName, StoreName, Held
    <3>2. QED
      BY <1>1, <3>1, LenProperties DEF Out, Begun, Safe, fileVars
  <2>3. QED
    BY <2>1, <2>2
<1>3. Rest(w)'
  <2>1. CASE Call(w)
    <3>1. /\ script'[w] = Tail(script[w]) /\ writing[w].pc = "idle" /\ writing'[w].pc = "name"
          /\ script[w] # <<>> /\ writing'[w].rec = Head(script[w])
      BY <1>1, <2>1 DEF Call
    <3>2. /\ Len(script'[w]) = Len(script[w]) - 1 /\ Head(script[w]) = script[w][1]
          /\ Len(script[w]) \in Nat /\ Len(script[w]) > 0 /\ DOMAIN script[w] = 1 .. Len(script[w])
          /\ DOMAIN script'[w] = 1 .. Len(script[w]) - 1
          /\ \A i \in 1 .. Len(script[w]) - 1 : script'[w][i] = script[w][i + 1]
      BY <1>1, <3>1
    <3>3. Held(w) = 0 /\ Held(w)' = 1
      BY <3>1 DEF Held
    <3>4. Begun(w)' = Begun(w) + 1 /\ Begun(w) \in Nat
      <4>1. Begun(w) \in Nat /\ Len(Script[w]) \in Nat
        BY Counts DEF Whole
      <4>2. Begun(w)' = Len(Script[w]) - (Len(script[w]) - 1)
        BY <3>2 DEF Begun
      <4>3. QED
        BY <3>2, <4>1, <4>2 DEF Begun
    <3>5. writing'[w].rec = Script[w][Begun(w)']
      BY <3>1, <3>2, <3>4 DEF Rest, Whole
    <3>6. \A i \in DOMAIN script'[w] : script'[w][i] = Script[w][Begun(w)' + i]
      <4> SUFFICES ASSUME NEW i \in 1 .. Len(script[w]) - 1
                   PROVE  script[w][i + 1] = Script[w][Begun(w)' + i]
        BY <3>2
      <4>1. i + 1 \in DOMAIN script[w]
        BY <3>2
      <4>2. script[w][i + 1] = Script[w][Begun(w) + (i + 1)]
        BY <4>1 DEF Whole, Rest
      <4>3. Begun(w) + (i + 1) = Begun(w)' + i
        BY <3>2, <3>4
      <4>4. QED
        BY <4>2, <4>3
    <3>7. Len(script'[w]) <= Len(Script[w])
      <4>1. Len(script[w]) <= Len(Script[w]) /\ Len(Script[w]) \in Nat
        BY Counts DEF Whole, Rest
      <4>2. QED
        BY <3>2, <4>1
    <3>8. Held(w)' <= Begun(w)'
      BY <3>3, <3>4
    <3>9. QED
      BY <1>1, <1>2, <3>5, <3>6, <3>7, <3>8 DEF Rest, Whole, fileVars
  <2>2. CASE ComputeName(w) \/ StoreName(w)
    <3>1. script' = script /\ Held(w) = 1 /\ Held(w)' = 1 /\ writing'[w].rec = writing[w].rec
      BY <1>1, <2>2 DEF ComputeName, StoreName, Held
    <3>2. Begun(w)' = Begun(w)
      BY <3>1 DEF Begun
    <3>3. QED
      BY <1>1, <1>2, <3>1, <3>2 DEF Rest, Whole, fileVars
  <2>3. QED
    BY <2>1, <2>2
<1>4. HoldFirst(disk, Script[w], Safe(w))'
  BY <1>1, <1>2 DEF Whole, HoldFirst, fileVars
<1>5. Ours(w)'
  BY <1>1 DEF Whole, Ours, UpTo, fileVars
<1>6. Coming(w)'
  <2>1. CASE Call(w)
    <3>1. writing[w].pc = "idle" /\ writing'[w].pc = "name" /\ currentName' = currentName
      BY <1>1, <2>1 DEF Call
    <3>2. QED
      BY <1>1, <3>1 DEF Coming, Whole, fileVars
  <2>2. CASE ComputeName(w)
    <3>1. writing'[w].pc = "store" /\ writing'[w].name = Filename /\ currentName' = currentName
          /\ writing[w].pc = "name"
      BY <1>1, <2>2 DEF ComputeName, nameVars
    <3>2. Behind(Filename)
      BY <3>1, FilenameBehind DEF Whole
    <3>3. Behind(writing[w].name)'
      BY <1>1, <3>1, <3>2 DEF Behind, fileVars, Shape, Earlier, Index
    <3>4. QED
      BY <1>1, <3>1, <3>3 DEF Coming, Whole, fileVars
  <2>3. CASE StoreName(w)
    <3>1. writing[w].pc = "store" /\ writing'[w].pc = "write" /\ currentName' = writing[w].name
      BY <1>1, <2>3 DEF StoreName
    <3>2. Behind(writing[w].name)
      BY <3>1 DEF Coming, Whole
    <3>3. Behind(currentName)'
      BY <1>1, <3>1, <3>2 DEF Behind, fileVars, Shape, Earlier, Index
    <3>4. QED
      BY <3>1, <3>3 DEF Coming
  <2>4. QED
    BY <2>1, <2>2, <2>3
<1>7. States(w)'
  BY <1>1, <1>2 DEF States, Whole, fileVars
<1>8. QED
  BY <1>3, <1>4, <1>5, <1>6, <1>7 DEF Whole

\* A record written to the next file: the one before it is flushed, and what the next
\* one held is gone, which is none of the records.
LEMMA ReopensWhole ==
    ASSUME Around, NEW w \in config.writers, w \in Writers, recorder = "recording", Whole(w),
           NEW through \in BOOLEAN, writing[w].pc = "write", WriteLocked(writing[w].rec, through), Reopens
    PROVE  /\ file' = currentName /\ fileState' = "open" /\ file' \in DOMAIN disk'
           /\ buffer' = IF through THEN <<>> ELSE <<writing[w].rec>>
           /\ Shape(file', day, config.append)
           /\ UpTo(disk', Script[w], file', day, config.append)
           /\ HoldFirst(disk', Script[w], Out(w) + (IF through THEN 1 ELSE 0))
<1> DEFINE rec == writing[w].rec
<1>1. Behind(currentName) /\ Held(w) = 1
  BY DEF Whole, Coming, Held
<1>2. file = NoFile \/ Shape(file, day, config.append)
  BY DEF Whole, Ours
<1>3. Earlier(file, currentName) /\ Shape(currentName, day, config.append)
  <2>1. currentName # NoFile
    BY <1>1 DEF Behind, Shape, NoFile
  <2>2. QED
    BY <1>1, <2>1 DEF Behind, Reopens
<1>4. /\ HoldFirst(Flushed, Script[w], Out(w))
      /\ UpTo(Flushed, Script[w], file, day, config.append)
      /\ FilesOf(Flushed) /\ DOMAIN Flushed = DOMAIN disk
  BY FlushedFirst DEF Whole
<1>5. /\ Script[w] \in Seq(Records) /\ IsInjective(Script[w]) /\ Out(w) \in Nat /\ Len(Script[w]) \in Nat
      /\ Out(w) + 1 = Begun(w) /\ Begun(w) <= Len(Script[w]) /\ day \in Nat
  BY <1>1, Counts DEF Whole, Around
<1>6. Opened = Emptied(Flushed, currentName)
  BY DEF Opened, Emptied
<1>7. /\ HoldFirst(Opened, Script[w], Out(w))
      /\ UpTo(Opened, Script[w], currentName, day, config.append)
      /\ FilesOf(Opened)
  BY <1>2, <1>3, <1>4, <1>5, <1>6, OpensFirst
<1>8. currentName \in DOMAIN Opened
  BY DEF Opened
<1>9. /\ file' = currentName /\ fileState' = "open"
      /\ buffer' = IF through THEN <<>> ELSE Append(<<>>, rec)
      /\ disk' = IF through THEN [Opened EXCEPT ![currentName] = @ \o Append(<<>>, rec)] ELSE Opened
  BY DEF WriteLocked
<1>10. rec \in Records /\ rec = Script[w][Begun(w)]
  BY <1>1 DEF Around, FilesTyped, Whole, Rest
<1>11. Append(<<>>, rec) = <<rec>> /\ <<rec>> \in Seq(Records) /\ Len(<<rec>>) = 1
       /\ DOMAIN <<rec>> = {1} /\ <<rec>>[1] = rec
  BY <1>10
<1>12. CASE through
  <2>1. disk' = Grown(Opened, currentName, <<rec>>)
    BY <1>9, <1>11, <1>12 DEF Grown
  <2>2. \A k \in DOMAIN <<rec>> : <<rec>>[k] = Script[w][Out(w) + k]
    BY <1>5, <1>10, <1>11
  <2>3. Out(w) + Len(<<rec>>) <= Len(Script[w])
    BY <1>5, <1>11
  <2>4. HoldFirst(Grown(Opened, currentName, <<rec>>), Script[w], Out(w) + Len(<<rec>>))
        /\ UpTo(Grown(Opened, currentName, <<rec>>), Script[w], currentName, day, config.append)
    BY <1>3, <1>5, <1>7, <1>8, <1>11, <2>2, <2>3, GrowsFirst
  <2>5. currentName \in DOMAIN disk'
    BY <1>8, <2>1 DEF Grown
  <2>6. QED
    BY <1>3, <1>9, <1>11, <1>12, <2>1, <2>4, <2>5
<1>13. CASE ~through
  <2>1. disk' = Opened /\ Out(w) + 0 = Out(w)
    BY <1>5, <1>9, <1>13
  <2>2. QED
    BY <1>3, <1>7, <1>8, <1>9, <1>11, <1>13, <2>1
<1>14. QED
  BY <1>12, <1>13

\* A record written to the open file.
LEMMA StaysWhole ==
    ASSUME Around, NEW w \in config.writers, w \in Writers, recorder = "recording", Whole(w),
           NEW through \in BOOLEAN, writing[w].pc = "write", WriteLocked(writing[w].rec, through), ~Reopens
    PROVE  /\ file' = currentName /\ fileState' = "open" /\ file' \in DOMAIN disk'
           /\ buffer' = IF through THEN <<>> ELSE Append(buffer, writing[w].rec)
           /\ Shape(file', day, config.append)
           /\ UpTo(disk', Script[w], file', day, config.append)
           /\ HoldFirst(disk', Script[w], IF through THEN Out(w) + 1 ELSE Safe(w))
<1> DEFINE rec == writing[w].rec
           b == Append(buffer, rec)
<1>1. Held(w) = 1 /\ file # NoFile /\ currentName = file /\ fileState = "open"
  BY DEF Held, Reopens, Whole, States
<1>2. file \in DOMAIN disk /\ Shape(file, day, config.append)
      /\ UpTo(disk, Script[w], file, day, config.append)
  BY <1>1 DEF Whole, Ours
<1>3. /\ Script[w] \in Seq(Records) /\ IsInjective(Script[w]) /\ Out(w) \in Nat /\ Len(Script[w]) \in Nat
      /\ Out(w) + 1 = Begun(w) /\ Begun(w) <= Len(Script[w])
      /\ Safe(w) \in Nat /\ Len(buffer) \in Nat /\ Safe(w) + Len(buffer) = Out(w) /\ buffer \in Seq(Records)
  BY <1>1, Counts DEF Whole
<1>4. rec \in Records /\ rec = Script[w][Begun(w)]
  BY <1>1 DEF Around, FilesTyped, Whole, Rest
<1>5. /\ file' = file /\ fileState' = "open"
      /\ buffer' = IF through THEN <<>> ELSE b
      /\ disk' = IF through THEN [disk EXCEPT ![file] = @ \o b] ELSE disk
  BY <1>1 DEF WriteLocked
<1>6. FilesOf(disk)
  BY DEF Around, FilesTyped, FilesOf
<1>7. CASE through
  <2>1. disk' = Grown(disk, file, b)
    BY <1>5, <1>7 DEF Grown
  <2>2. b \in Seq(Records) /\ Len(b) = Len(buffer) + 1 /\ DOMAIN b = 1 .. Len(buffer) + 1
        /\ \A k \in 1 .. Len(buffer) : b[k] = buffer[k]
        /\ b[Len(buffer) + 1] = rec /\ DOMAIN buffer = 1 .. Len(buffer)
    BY <1>3, <1>4
  <2>3. ASSUME NEW k \in DOMAIN b PROVE b[k] = Script[w][Safe(w) + k]
    <3>1. CASE k \in 1 .. Len(buffer)
      <4>1. k \in DOMAIN buffer
        BY <2>2, <3>1
      <4>2. buffer[k] = Script[w][Safe(w) + k]
        BY <4>1 DEF Whole, Rest
      <4>3. QED
        BY <2>2, <3>1, <4>2
    <3>2. CASE k = Len(buffer) + 1
      <4>1. Safe(w) + k = Begun(w)
        BY <1>3, <3>2
      <4>2. QED
        BY <1>4, <2>2, <3>2, <4>1
    <3>3. QED
      BY <1>3, <2>2, <3>1, <3>2
  <2>4. Safe(w) + Len(b) = Out(w) + 1 /\ Safe(w) + Len(b) <= Len(Script[w])
    BY <1>3, <2>2
  <2>5. HoldFirst(disk, Script[w], Safe(w))
    BY DEF Whole
  <2> HIDE DEF b
  <2>6. HoldFirst(Grown(disk, file, b), Script[w], Safe(w) + Len(b))
        /\ UpTo(Grown(disk, file, b), Script[w], file, day, config.append)
    BY <1>2, <1>3, <1>6, <2>2, <2>3, <2>4, <2>5, GrowsFirst
  <2>7. file \in DOMAIN disk'
    BY <1>2, <2>1 DEF Grown
  <2>8. QED
    BY <1>1, <1>2, <1>5, <1>7, <2>1, <2>4, <2>6, <2>7
<1>8. CASE ~through
  BY <1>1, <1>2, <1>5, <1>8 DEF Whole
<1>9. QED
  BY <1>7, <1>8

\* The record in hand is written.
LEMMA WriteWhole ==
    ASSUME Around, NEW w \in config.writers, w \in Writers, recorder = "recording", Whole(w), Write(w)
    PROVE  Whole(w)'
<1>1. PICK through \in BOOLEAN : WriteLocked(writing[w].rec, through)
  BY DEF Write
<1>2. /\ UNCHANGED <<config, day, script, currentName, recorder>>
      /\ writing[w].pc = "write" /\ writing'[w].pc \in {"idle", "stopped"}
  BY DEF Write, Around, FilesTyped, nameVars
<1> DEFINE rec == writing[w].rec
<1>3. Held(w) = 1 /\ Held(w)' = 0 /\ Begun(w)' = Begun(w)
  BY <1>2 DEF Held, Begun
<1>4. /\ Out(w) \in Nat /\ Out(w) + 1 = Begun(w) /\ Begun(w) <= Len(Script[w]) /\ Len(Script[w]) \in Nat
      /\ Safe(w) \in Nat /\ Len(buffer) \in Nat /\ Safe(w) + Len(buffer) = Out(w) /\ buffer \in Seq(Records)
      /\ Begun(w) \in Nat
  BY <1>3, Counts DEF Whole
<1>5. Out(w)' = Out(w) + 1
  <2>1. Out(w)' = Begun(w) - 0
    BY <1>3 DEF Out
  <2>2. QED
    BY <1>4, <2>1
<1>6. rec \in Records /\ rec = Script[w][Begun(w)]
  BY <1>2, <1>3 DEF Around, FilesTyped, Whole, Rest
<1>7. /\ file' = currentName /\ fileState' = "open" /\ file' \in DOMAIN disk'
      /\ Shape(file', day, config.append)
      /\ UpTo(disk', Script[w], file', day, config.append)
  BY <1>1, <1>2, ReopensWhole, StaysWhole
\* What is left in the buffer, and on the disk.
<1>8. /\ buffer' \in Seq(Records) /\ Len(buffer') <= Out(w) + 1
      /\ \A i \in DOMAIN buffer' : buffer'[i] = Script[w][(Out(w) + 1) - Len(buffer') + i]
      /\ HoldFirst(disk', Script[w], (Out(w) + 1) - Len(buffer'))
  <2>1. CASE through
    <3>1. buffer' = <<>> /\ HoldFirst(disk', Script[w], Out(w) + 1)
      BY <1>1, <1>2, <2>1, ReopensWhole, StaysWhole
    <3>2. Len(buffer') = 0 /\ DOMAIN buffer' = {} /\ buffer' \in Seq(Records) /\ (Out(w) + 1) - 0 = Out(w) + 1
      BY <1>4, <3>1
    <3>3. QED
      BY <1>4, <3>1, <3>2
  <2>2. CASE ~through /\ Reopens
    <3>1. buffer' = <<rec>> /\ HoldFirst(disk', Script[w], Out(w) + 0)
      BY <1>1, <1>2, <2>2, ReopensWhole
    <3>2. Len(buffer') = 1 /\ DOMAIN buffer' = {1} /\ buffer'[1] = rec /\ buffer' \in Seq(Records)
      BY <1>6, <3>1
    <3>3. Out(w) + 0 = Out(w) /\ (Out(w) + 1) - 1 = Out(w) /\ ((Out(w) + 1) - 1) + 1 = Begun(w)
      BY <1>4
    <3>4. QED
      BY <1>4, <1>6, <3>1, <3>2, <3>3
  <2>3. CASE ~through /\ ~Reopens
    <3>1. buffer' = Append(buffer, rec) /\ HoldFirst(disk', Script[w], Safe(w))
      BY <1>1, <1>2, <2>3, StaysWhole
    <3>2. Append(buffer, rec) \in Seq(Records) /\ Len(Append(buffer, rec)) = Len(buffer) + 1
          /\ DOMAIN Append(buffer, rec) = 1 .. Len(buffer) + 1
          /\ \A k \in 1 .. Len(buffer) : Append(buffer, rec)[k] = buffer[k]
          /\ Append(buffer, rec)[Len(buffer) + 1] = rec /\ DOMAIN buffer = 1 .. Len(buffer)
      BY <1>4, <1>6
    <3>3. (Out(w) + 1) - (Len(buffer) + 1) = Safe(w) /\ Safe(w) + (Len(buffer) + 1) = Begun(w)
          /\ Len(buffer) + 1 <= Out(w) + 1
      BY <1>4
    <3>4. \A k \in 1 .. Len(buffer) : buffer[k] = Script[w][Safe(w) + k]
      BY <3>2 DEF Whole, Rest
    <3>5. ASSUME NEW k \in 1 .. Len(buffer) + 1
          PROVE  Append(buffer, rec)[k] = Script[w][Safe(w) + k]
      <4>1. CASE k \in 1 .. Len(buffer)
        BY <3>2, <3>4, <4>1
      <4>2. CASE k = Len(buffer) + 1
        BY <1>6, <3>2, <3>3, <4>2
      <4>3. QED
        BY <1>4, <4>1, <4>2
    <3>6. QED
      BY <3>1, <3>2, <3>3, <3>5
  <2>4. QED
    BY <2>1, <2>2, <2>3
<1>9. Safe(w)' = (Out(w) + 1) - Len(buffer')
  <2>1. Safe(w)' = Out(w)' - Len(buffer')
    BY DEF Safe
  <2>2. QED
    BY <1>5, <2>1
<1>10. Rest(w)'
  <2>1. Len(script[w]) <= Len(Script[w])
        /\ \A i \in DOMAIN script[w] : script[w][i] = Script[w][Begun(w) + i]
    BY DEF Whole, Rest
  <2>2. Held(w)' <= Begun(w)' /\ Held(w)' # 1
    BY <1>3, <1>4
  <2>3. Len(buffer') <= Out(w)' /\ \A i \in DOMAIN buffer' : buffer'[i] = Script[w][Safe(w)' + i]
    BY <1>5, <1>8, <1>9
  <2>4. QED
    BY <1>2, <1>3, <2>1, <2>2, <2>3 DEF Rest
<1>11. HoldFirst(disk, Script[w], Safe(w))'
  BY <1>8, <1>9 DEF HoldFirst
<1>12. Ours(w)'
  BY <1>2, <1>7 DEF Ours, UpTo, Shape, Index, Holds, Earlier
<1>13. Coming(w)' /\ States(w)'
  <2>1. file' # NoFile
    BY <1>7 DEF Shape, NoFile
  <2>2. QED
    BY <1>2, <1>7, <2>1 DEF Coming, States
<1>14. QED
  BY <1>10, <1>11, <1>12, <1>13 DEF Whole

\* What is in the buffer is put on the disk, by the flusher or when the output is
\* closed with nothing left to write.
LEMMA FlushWhole ==
    ASSUME Around, NEW w \in config.writers, w \in Writers, recorder = "recording", Whole(w),
           Flush \/ (CloseOutput /\ recorder' = "finished")
    PROVE  Whole(w)'
<1>1. UNCHANGED <<config, day, file, currentName, script, writing>> /\ disk' = Flushed /\ buffer' = <<>>
  BY DEF Flush, CloseOutput, nameVars, callVars
<1>2. /\ HoldFirst(Flushed, Script[w], Out(w))
      /\ UpTo(Flushed, Script[w], file, day, config.append)
      /\ DOMAIN Flushed = DOMAIN disk
  BY FlushedFirst DEF Whole
<1>3. Out(w) \in Nat /\ Held(w)' = Held(w) /\ Begun(w)' = Begun(w) /\ Out(w)' = Out(w)
  <2>1. Held(w)' = Held(w) /\ Begun(w)' = Begun(w)
    BY <1>1 DEF Held, Begun
  <2>2. Out(w)' = Out(w)
    BY <2>1 DEF Out
  <2>3. Out(w) \in Nat
    BY Counts DEF Whole
  <2>4. QED
    BY <2>1, <2>2, <2>3
<1>4. Safe(w)' = Out(w) /\ Len(buffer') = 0 /\ DOMAIN buffer' = {}
  BY <1>1, <1>3 DEF Safe
<1>5. Rest(w)'
  <2>1. /\ Len(script[w]) <= Len(Script[w])
        /\ \A i \in DOMAIN script[w] : script[w][i] = Script[w][Begun(w) + i]
        /\ Held(w) <= Begun(w)
        /\ Held(w) = 1 => writing[w].rec = Script[w][Begun(w)]
    BY DEF Whole, Rest
  <2>2. Len(buffer') <= Out(w)'
    BY <1>3, <1>4
  <2>3. QED
    BY <1>1, <1>3, <1>4, <2>1, <2>2 DEF Rest
<1>6. HoldFirst(disk, Script[w], Safe(w))'
  BY <1>1, <1>2, <1>4 DEF HoldFirst
<1>7. Ours(w)' /\ Coming(w)'
  <2>1. Ours(w)'
    BY <1>1, <1>2 DEF Ours, Whole, UpTo, Shape, Index, Holds, Earlier
  <2>2. Coming(w)'
    BY <1>1 DEF Coming, Whole, Behind, Shape, Index, Earlier
  <2>3. QED
    BY <2>1, <2>2
<1>8. States(w)'
  <2>1. CASE Flush
    <3>1. recorder' = "recording" /\ fileState = (IF file = NoFile THEN "closed" ELSE "open")
          /\ (file = NoFile => Out(w) = 0)
      BY <2>1 DEF Flush, Whole, States
    <3>2. file = NoFile => buffer = <<>>
      <4>1. file = NoFile => Len(buffer) = 0
        BY <3>1, Counts DEF Whole
      <4>2. QED
        BY <4>1 DEF Around, FilesTyped
    <3>3. fileState' = fileState
      BY <2>1, <3>1, <3>2 DEF Flush
    <3>4. QED
      BY <1>1, <1>3, <3>1, <3>3 DEF States
  <2>2. CASE CloseOutput /\ recorder' = "finished"
    <3>1. AllWritten
      BY <2>2 DEF CloseOutput
    <3>2. script[w] = <<>> /\ Held(w) = 0
      BY <3>1 DEF AllWritten, Held
    <3>3. fileState' = "closed"
      BY <2>2 DEF CloseOutput, Whole, States
    <3>4. QED
      BY <1>1, <1>3, <2>2, <3>2, <3>3 DEF States
  <2>3. QED
    BY <2>1, <2>2
<1>9. QED
  BY <1>5, <1>6, <1>7, <1>8 DEF Whole

\* The output begins with files that hold none of the records.
LEMMA PrefixAtFirst == OutInit => PrefixInv
<1> SUFFICES ASSUME OutInit PROVE PrefixInv
  OBVIOUS
<1>1. Around
  <2>1. config \in Config /\ day = 0 /\ recorder = "recording"
    BY FileOutputAssumption DEF OutInit
  <2>2. Idle
    BY DEF OutInit, Idle
  <2>3. QED
    BY <2>1, <2>2, FilesTypedAtFirst DEF Around
<1>2. ASSUME NEW w \in config.writers, w \in Writers PROVE Whole(w)
  <2>1. /\ script[w] = Script[w] /\ writing[w].pc = "idle" /\ buffer = <<>> /\ Script[w] \in Seq(Records)
        /\ file = NoFile /\ fileState = "closed" /\ currentName = NoFile /\ recorder = "recording"
    BY <1>2, FileOutputAssumption DEF OutInit
  <2>2. Begun(w) = 0 /\ Held(w) = 0 /\ Out(w) = 0 /\ Safe(w) = 0 /\ Len(buffer) = 0 /\ DOMAIN buffer = {}
    <3>1. Len(Script[w]) \in Nat /\ Len(<<>>) = 0 /\ DOMAIN <<>> = {}
      BY <2>1, LenProperties
    <3>2. Begun(w) = 0 /\ Held(w) = 0
      BY <2>1, <3>1 DEF Begun, Held
    <3>3. Out(w) = 0
      BY <3>2 DEF Out
    <3>4. Len(buffer) = 0 /\ DOMAIN buffer = {}
      BY <2>1, <3>1
    <3>5. Safe(w) = 0
      BY <3>3, <3>4 DEF Safe
    <3>6. QED
      BY <3>2, <3>3, <3>4, <3>5
  <2>3. Rest(w)
    <3>1. Len(Script[w]) \in Nat /\ DOMAIN Script[w] = 1 .. Len(Script[w])
      BY <2>1, LenProperties
    <3>2. QED
      BY <2>1, <2>2, <3>1 DEF Rest
  <2>4. \A name \in DOMAIN disk : ~Holds(disk, Script[w], name)
    <3> SUFFICES ASSUME NEW name \in DOMAIN disk, NEW i \in DOMAIN disk[name], NEW p \in DOMAIN Script[w],
                        disk[name][i] = Script[w][p]
                 PROVE  FALSE
      BY DEF Holds
    <3>1. disk[name] \in Seq(Records) /\ ToSet(disk[name]) \cap ToSet(Script[w]) = {}
      BY <1>2, BeforeAssumption DEF OutInit
    <3>2. disk[name][i] \in ToSet(disk[name]) /\ Script[w][p] \in ToSet(Script[w])
      BY DEF ToSet
    <3>3. QED
      BY <3>1, <3>2
  <2>5. HoldFirst(disk, Script[w], Safe(w))
    <3>1. \A p \in DOMAIN Script[w] : ~(p <= 0)
      BY <2>1, LenProperties
    <3>2. \A name, i, p : ~(name \in DOMAIN disk /\ i \in DOMAIN disk[name] /\ p \in DOMAIN Script[w]
                              /\ disk[name][i] = Script[w][p])
      BY <2>4 DEF Holds
    <3>3. HoldFirst(disk, Script[w], 0)
      <4>1. ASSUME NEW p \in DOMAIN Script[w]
            PROVE  p <= 0 <=> \E name \in DOMAIN disk : \E i \in DOMAIN disk[name] : disk[name][i] = Script[w][p]
        BY <3>1, <3>2
      <4>2. ASSUME NEW here \in DOMAIN disk, NEW there \in DOMAIN disk, NEW i \in DOMAIN disk[here],
                   NEW j \in DOMAIN disk[there], NEW p \in DOMAIN Script[w], NEW q \in DOMAIN Script[w],
                   disk[here][i] = Script[w][p], disk[there][j] = Script[w][q]
            PROVE  /\ p < q => Earlier(here, there) \/ (here = there /\ i < j)
                   /\ p = q => here = there /\ i = j
        BY <3>2, <4>2
      <4>3. QED
        BY <4>1, <4>2 DEF HoldFirst
    <3>4. QED
      BY <2>2, <3>3
  <2>6. Ours(w)
    BY <2>1, <2>4 DEF Ours, UpTo
  <2>7. Coming(w) /\ States(w)
    BY <2>1, <2>2 DEF Coming, States
  <2>8. QED
    BY <2>3, <2>5, <2>6, <2>7 DEF Whole
<1>3. config.writers \subseteq Writers /\ recorder = "recording"
  BY <1>1 DEF Around, Config, OutInit
<1>4. QED
  BY <1>1, <1>2, <1>3 DEF PrefixInv, Survives

\* What is around the chunks stays.
LEMMA StaysAround ==
    ASSUME Around, [OutNext]_outVars
    PROVE  Around' /\ config' = config /\ config.writers \subseteq Writers
<1>1. config' = config /\ config \in Config /\ config.writers \subseteq Writers /\ DOMAIN writing = Writers
      /\ DOMAIN script = Writers /\ Idle
  BY DEF Around, FilesTyped, OutNext, Call, ComputeName, StoreName, Write, Wake, Flush, CloseOutput, Killed,
         DayBreaks, outVars, Config
<1>2. FilesTyped'
  BY FilesStayTyped DEF Around
<1>3. day' \in Nat /\ (~config'.dated => day' = 0)
  <2>1. CASE DayBreaks
    BY <1>1, <2>1 DEF Around, DayBreaks
  <2>2. CASE ~DayBreaks
    BY <1>1, <2>2 DEF Around, OutNext, Call, ComputeName, StoreName, Write, Wake, Flush, CloseOutput, Killed, outVars
  <2>3. QED
    BY <2>1, <2>2
<1>4. Idle'
  <2>1. ASSUME NEW w \in Writers, Call(w) \/ ComputeName(w) \/ StoreName(w) \/ Write(w) PROVE Idle'
    <3>1. w \in config.writers
      BY <1>1, <2>1 DEF Idle, Call, ComputeName, StoreName, Write
    <3>2. \A v \in Writers \ {w} : script'[v] = script[v] /\ writing'[v] = writing[v]
      BY <1>1, <2>1 DEF Call, ComputeName, StoreName, Write
    <3>3. QED
      BY <1>1, <3>1, <3>2 DEF Idle
  <2>2. CASE Killed
    BY <2>2 DEF Killed, Idle
  <2>3. CASE Wake \/ Flush \/ CloseOutput \/ DayBreaks \/ UNCHANGED outVars
    BY <1>1, <2>3 DEF Wake, Flush, CloseOutput, DayBreaks, outVars, callVars, Idle
  <2>4. QED
    BY <2>1, <2>2, <2>3 DEF OutNext
<1>5. recorder' \in {"recording", "closed", "finished", "cut", "killed"}
  BY DEF Around, OutNext, Call, ComputeName, StoreName, Write, Wake, Flush, CloseOutput, Killed, DayBreaks, outVars
<1>6. QED
  BY <1>1, <1>2, <1>3, <1>4, <1>5 DEF Around

\* Steps that leave the files, and what is written, alone.
LEMMA AsideWhole ==
    ASSUME Around, NEW w \in config.writers, w \in Writers, Whole(w), recorder' = recorder,
           UNCHANGED <<config, disk, file, fileState, buffer, currentName, callVars>>,
           day' \in Nat, day <= day'
    PROVE  Whole(w)'
<1>1. UNCHANGED <<script, writing>> /\ day \in Nat
  BY DEF callVars, Around
<1>2. Begun(w)' = Begun(w) /\ Held(w)' = Held(w) /\ Out(w)' = Out(w) /\ Safe(w)' = Safe(w)
  BY <1>1 DEF Begun, Held, Out, Safe
<1>3. \A name : Shape(name, day, config.append) => Shape(name, day', config'.append)
  BY <1>1 DEF Shape, Index
<1>4. Rest(w)' /\ HoldFirst(disk, Script[w], Safe(w))' /\ States(w)'
  BY <1>1, <1>2 DEF Whole, Rest, HoldFirst, States
<1>5. Ours(w)'
  BY <1>3 DEF Whole, Ours, UpTo, Holds, Earlier, Index
<1>6. Coming(w)'
  <2>1. \A name : Behind(name) => Shape(name, day', config'.append) /\ (name = file' \/ Earlier(file', name))
    BY <1>3 DEF Behind
  <2>2. QED
    BY <1>1, <2>1 DEF Whole, Coming, Behind
<1>7. QED
  BY <1>4, <1>5, <1>6 DEF Whole

\* A closed output that had nothing left to write writes nothing more.
LEMMA FinishedWhole ==
    ASSUME Around, OneWriter, NEW w \in config.writers, w \in Writers, Whole(w), recorder = "finished",
           [OutNext]_outVars
    PROVE  Whole(w)' /\ recorder' = "finished"
<1>1. fileState = "closed" /\ buffer = <<>> /\ script[w] = <<>> /\ Held(w) = 0
  BY DEF Whole, States
<1>2. ASSUME NEW v \in Writers, Call(v) \/ ComputeName(v) \/ StoreName(v) \/ Write(v) PROVE FALSE
  <2>1. config.writers = {w}
    BY TheWriter DEF Around
  <2>2. v \in config.writers
    BY <1>2 DEF Around, Idle, Call, ComputeName, StoreName, Write
  <2>3. QED
    BY <1>1, <1>2, <2>1, <2>2 DEF Call, ComputeName, StoreName, Write, Held
<1>3. /\ UNCHANGED <<config, disk, file, fileState, buffer, currentName, callVars, recorder>>
      /\ day' \in Nat /\ day <= day'
  <2>1. day \in Nat
    BY DEF Around
  <2>2. CASE Flush
    BY <1>1, <2>1, <2>2 DEF Flush, Flushed, nameVars
  <2>3. CASE Wake \/ DayBreaks \/ UNCHANGED outVars
    BY <2>1, <2>3 DEF Wake, DayBreaks, outVars, fileVars, nameVars
  <2>4. QED
    BY <1>2, <2>2, <2>3 DEF OutNext, CloseOutput, Killed
<1>4. QED
  BY <1>3, AsideWhole

\* Every step keeps a prefix on the disk, and the rest before it where it can still
\* be written.
LEMMA PrefixStays ==
    ASSUME IInv, PrefixInv, [OutNext]_outVars
    PROVE  PrefixInv'
<1>1. Around /\ Around' /\ config' = config /\ config.writers \subseteq Writers
  BY StaysAround DEF PrefixInv
<1>2. SUFFICES ASSUME OneWriter, ~config.perId, NEW w \in config.writers, w \in Writers, Survives(w)
               PROVE  Survives(w)'
  BY <1>1 DEF PrefixInv, OneWriter
<1>3. CASE recorder = "recording"
  <2>1. Whole(w)
    BY <1>2, <1>3 DEF Survives
  <2>2. ASSUME NEW v \in Writers, Call(v) \/ ComputeName(v) \/ StoreName(v) \/ Write(v) PROVE Survives(w)'
    <3>1. v = w
      <4>1. config.writers = {w}
        BY <1>1, <1>2, TheWriter DEF Around
      <4>2. v \in config.writers
        BY <1>1, <2>2 DEF Around, Idle, Call, ComputeName, StoreName, Write
      <4>3. QED
        BY <4>1, <4>2
    <3>2. recorder' = "recording"
      BY <1>3, <2>2 DEF Call, ComputeName, StoreName, Write
    <3>3. Whole(w)'
      BY <1>1, <1>2, <1>3, <2>1, <2>2, <3>1, CallWhole, WriteWhole
    <3>4. QED
      BY <3>2, <3>3 DEF Survives
  <2>3. CASE Flush
    <3>1. recorder' = "recording"
      BY <1>3, <2>3 DEF Flush
    <3>2. Whole(w)'
      BY <1>1, <1>2, <1>3, <2>1, <2>3, FlushWhole
    <3>3. QED
      BY <3>1, <3>2 DEF Survives
  <2>4. CASE CloseOutput
    <3>1. recorder' \in {"finished", "closed"}
      BY <2>4 DEF CloseOutput
    <3>2. CASE recorder' = "finished"
      <4>1. Whole(w)'
        BY <1>1, <1>2, <1>3, <2>1, <2>4, <3>2, FlushWhole
      <4>2. QED
        BY <3>2, <4>1 DEF Survives
    <3>3. CASE recorder' = "closed"
      BY <3>3 DEF Survives
    <3>4. QED
      BY <3>1, <3>2, <3>3
  <2>5. CASE Killed
    <3>1. recorder' = "killed" /\ disk' = disk
      BY <1>3, <2>5 DEF Killed
    <3>2. Safe(w) \in 0 .. Len(Script[w]) /\ HoldFirst(disk, Script[w], Safe(w))
      <4>1. HoldFirst(disk, Script[w], Safe(w)) /\ Rest(w)
        BY <2>1 DEF Whole
      <4>2. Safe(w) \in 0 .. Out(w) /\ Out(w) \in 0 .. Begun(w) /\ Begun(w) \in 0 .. Len(Script[w])
            /\ Len(Script[w]) \in Nat
        BY <1>1, <1>2, <4>1, Counts
      <4>3. QED
        BY <4>1, <4>2
    <3>3. HoldFirst(disk', Script[w], Safe(w))
      BY <3>1, <3>2
    <3>4. QED
      BY <3>1, <3>2, <3>3 DEF Survives
  <2>6. CASE Wake \/ DayBreaks \/ UNCHANGED outVars
    <3>1. /\ UNCHANGED <<config, disk, file, fileState, buffer, currentName, callVars, recorder>>
          /\ day' \in Nat /\ day <= day'
      BY <1>1, <2>6 DEF Wake, DayBreaks, outVars, fileVars, nameVars, Around
    <3>2. Whole(w)'
      BY <1>1, <1>2, <2>1, <3>1, AsideWhole
    <3>3. QED
      BY <1>3, <3>1, <3>2 DEF Survives
  <2>7. QED
    BY <2>2, <2>3, <2>4, <2>5, <2>6 DEF OutNext
<1>4. CASE recorder = "finished"
  <2>1. Whole(w)
    BY <1>2, <1>4 DEF Survives
  <2>2. Whole(w)' /\ recorder' = "finished"
    BY <1>1, <1>2, <1>4, <2>1, FinishedWhole
  <2>3. QED
    BY <2>2 DEF Survives
<1>5. CASE recorder = "killed"
  <2>1. UNCHANGED <<disk, recorder>>
    BY <1>5 DEF OutNext, Alive, Call, ComputeName, StoreName, Write, Wake, Flush, CloseOutput, Killed,
                DayBreaks, outVars, fileVars
  <2>2. QED
    BY <1>2, <1>5, <2>1 DEF Survives
<1>6. CASE recorder \notin {"recording", "finished", "killed"}
  <2>1. recorder' \notin {"recording", "finished", "killed"}
    BY <1>6 DEF OutNext, Alive, Call, ComputeName, StoreName, Write, Wake, Flush, CloseOutput, Killed,
                DayBreaks, outVars
  <2>2. QED
    BY <2>1 DEF Survives
<1>7. QED
  BY <1>3, <1>4, <1>5, <1>6

\* What the invariant says of the disk.
LEMMA PrefixFollows == PrefixInv => PrefixSurvives
<1> SUFFICES ASSUME PrefixInv, OneWriter, ~config.perId, recorder \notin {"closed", "cut"},
                    NEW w \in config.writers
             PROVE  \E n \in 0 .. Len(Script[w]) :
                      HoldFirst(disk, Script[w], n) /\ (recorder = "finished" => n = Len(Script[w]))
  BY DEF PrefixSurvives
<1>1. Around /\ Survives(w) /\ w \in Writers
  BY DEF PrefixInv, Around, Config
<1>2. CASE recorder = "killed"
  BY <1>1, <1>2 DEF Survives
<1>3. CASE recorder \in {"recording", "finished"}
  <2>1. Whole(w) /\ Rest(w) /\ HoldFirst(disk, Script[w], Safe(w)) /\ States(w)
    BY <1>1, <1>3 DEF Survives, Whole
  <2>2. /\ Safe(w) \in 0 .. Out(w) /\ Out(w) \in 0 .. Begun(w) /\ Begun(w) \in 0 .. Len(Script[w])
        /\ Out(w) + Held(w) = Begun(w) /\ Begun(w) + Len(script[w]) = Len(Script[w])
        /\ Safe(w) + Len(buffer) = Out(w) /\ Len(Script[w]) \in Nat
    BY <1>1, <2>1, Counts
  <2>3. recorder = "finished" => Held(w) = 0 /\ Len(script[w]) = 0 /\ Len(buffer) = 0
    BY <2>1 DEF States
  <2>4. recorder = "finished" => Safe(w) = Len(Script[w])
    BY <2>2, <2>3
  <2>5. Safe(w) \in 0 .. Len(Script[w])
    BY <2>2
  <2>6. QED
    BY <2>1, <2>4, <2>5
<1>4. QED
  BY <1>1, <1>2, <1>3 DEF Around

\* PluginWrite, closeLocked, flush, Close and the death of the process: what one input
\* has recorded is a prefix of what came, in order over the chunks and each record
\* once, whatever was in the buffer; all of it if the output was closed with
\* nothing left to write.
THEOREM PrefixKept == Spec => []PrefixSurvives
<1>1. Init => PrefixInv
  BY PrefixAtFirst DEF Init
<1>2. IInv /\ PrefixInv /\ [Next]_vars => PrefixInv'
  BY PrefixStays, RecordedBefore
<1>3. PrefixInv => PrefixSurvives
  BY PrefixFollows
<1>4. QED
  BY <1>1, <1>2, <1>3, Invariant, PTL DEF Spec

-----------------------------------------------------------------------------
(* The readers of the input *)

Reader == [name : DOMAIN disk, pos : Nat, queue : Seq(Records), closed : BOOLEAN]

ReaderOK(r) == r \in Reader /\ r.pos <= Len(disk[r.name])

\* What the reader has still to give: its queue, and the rest of its file.
Left(r) == r.queue \o SubSeq(disk[r.name], r.pos + 1, Len(disk[r.name]))

\* A reader is not nil.
LEMMA ReaderOpens == ASSUME NEW r \in Reader PROVE Opens(r)
<1>1. DOMAIN r = {"name", "pos", "queue", "closed"} /\ DOMAIN Nil = {"name"}
  BY DEF Reader, Nil
<1>2. QED
  BY <1>1 DEF Opens

\* Min and Max of two numbers.
LEMMA MinOfTwo ==
    ASSUME NEW a \in Nat, NEW b \in Nat
    PROVE  Min({a, b}) \in {a, b} /\ Min({a, b}) <= a /\ Min({a, b}) <= b
<1>1. \E x \in {a, b} : \A y \in {a, b} : x <= y
  BY a <= b \/ b <= a
<1>2. QED
  BY <1>1 DEF Min

LEMMA MaxOfTwo ==
    ASSUME NEW a \in Nat, NEW b \in Nat
    PROVE  Max({a, b}) \in {a, b} /\ Max({a, b}) >= a /\ Max({a, b}) >= b
<1>1. \E x \in {a, b} : \A y \in {a, b} : x >= y
  BY a <= b \/ b <= a
<1>2. QED
  BY <1>1 DEF Max

\* The elements of Left, one by one.
LEMMA LeftElements ==
    ASSUME FilesTyped, NEW r, ReaderOK(r)
    PROVE  /\ Left(r) \in Seq(Records)
           /\ Len(r.queue) \in Nat /\ DOMAIN r.queue = 1 .. Len(r.queue)
           /\ Len(disk[r.name]) \in Nat
           /\ Len(Left(r)) = Len(r.queue) + (Len(disk[r.name]) - r.pos)
           /\ Len(Left(r)) \in Nat /\ DOMAIN Left(r) = 1 .. Len(Left(r))
           /\ \A i \in 1 .. Len(Left(r)) :
                 Left(r)[i] = IF i <= Len(r.queue) THEN r.queue[i]
                              ELSE disk[r.name][r.pos + (i - Len(r.queue))]
<1> DEFINE s == disk[r.name]
           q == r.queue
           p == r.pos
           t == SubSeq(s, p + 1, Len(s))
<1>1. s \in Seq(Records) /\ q \in Seq(Records) /\ p \in Nat /\ Len(s) \in Nat /\ p <= Len(s)
  BY LenProperties DEF FilesTyped, ReaderOK, Reader
<1>2. /\ t \in Seq(Records) /\ Len(t) = Len(s) - p
      /\ \A i \in 1 .. Len(t) : t[i] = s[p + i]
  <2> HIDE DEF s, p
  <2>1. CASE p + 1 <= Len(s)
    <3>1. /\ SubSeq(s, p + 1, Len(s)) \in Seq(Records)
          /\ Len(SubSeq(s, p + 1, Len(s))) = Len(s) - (p + 1) + 1
          /\ \A i \in 1 .. Len(s) - (p + 1) + 1 : SubSeq(s, p + 1, Len(s))[i] = s[(p + 1) + i - 1]
      BY <1>1, <2>1, SubSeqProperties
    <3>2. Len(s) - (p + 1) + 1 = Len(s) - p /\ \A i \in 1 .. Len(s) - p : (p + 1) + i - 1 = p + i
      BY <1>1
    <3>3. QED
      BY <3>1, <3>2
  <2>2. CASE ~ (p + 1 <= Len(s))
    <3>1. SubSeq(s, p + 1, Len(s)) = <<>>
      BY <1>1, <2>2, SubSeqEmpty
    <3>2. Len(s) - p = 0
      BY <1>1, <2>2
    <3>3. t = <<>> /\ t \in Seq(Records) /\ Len(t) = 0
      BY <3>1, EmptySeq
    <3>4. QED
      BY <3>2, <3>3
  <2>3. QED
    BY <2>1, <2>2
<1> HIDE DEF t
<1>3. /\ q \o t \in Seq(Records) /\ Len(q \o t) = Len(q) + Len(t) /\ Len(q) \in Nat /\ Len(t) \in Nat
      /\ \A i \in 1 .. Len(q) + Len(t) : (q \o t)[i] = IF i <= Len(q) THEN q[i] ELSE t[i - Len(q)]
  <2> HIDE DEF q, s, p
  <2>1. q \in Seq(Records) /\ t \in Seq(Records)
    BY <1>1, <1>2
  <2>2. QED
    BY <2>1, ConcatProperties, LenProperties
<1>4. Left(r) = q \o t
  BY DEF Left, t
<1> HIDE DEF q, s, p
<1>5. \A i \in 1 .. Len(q) + Len(t) :
        (q \o t)[i] = IF i <= Len(q) THEN q[i] ELSE s[p + (i - Len(q))]
  <2> TAKE i \in 1 .. Len(q) + Len(t)
  <2>1. CASE i <= Len(q)
    BY <1>3, <2>1
  <2>2. CASE ~ (i <= Len(q))
    <3>1. i - Len(q) \in 1 .. Len(t)
      BY <1>3, <2>2
    <3>2. QED
      BY <1>2, <1>3, <2>2, <3>1
  <2>3. QED
    BY <2>1, <2>2
<1>6. DOMAIN q = 1 .. Len(q) /\ DOMAIN (q \o t) = 1 .. Len(q \o t)
  BY <1>1, <1>3, LenProperties
<1>7. /\ Len(q \o t) = Len(q) + (Len(s) - p) /\ Len(q \o t) \in Nat
      /\ \A i \in 1 .. Len(q \o t) :
            (q \o t)[i] = IF i <= Len(q) THEN q[i] ELSE s[p + (i - Len(q))]
  BY <1>1, <1>2, <1>3, <1>5
<1>8. /\ q \o t \in Seq(Records) /\ Len(q) \in Nat /\ Len(s) \in Nat
      /\ DOMAIN q = 1 .. Len(q) /\ DOMAIN (q \o t) = 1 .. Len(q \o t)
  BY <1>1, <1>3, <1>6
<1> HIDE DEF t
<1>9. QED
  BY <1>4, <1>7, <1>8 DEF q, s, p

\* parse moves a record from the file into the queue, and what is left is the same.
LEMMA ParseKeepsLeft ==
    ASSUME FilesTyped, NEW r, ReaderOK(r), r.pos < Len(disk[r.name]),
           NEW r2, r2 = [r EXCEPT !.pos = @ + 1, !.queue = Append(@, disk[r.name][r.pos + 1])]
    PROVE  ReaderOK(r2) /\ Left(r2) = Left(r) /\ r2.queue # <<>> /\ r2.closed = r.closed
           /\ r2.name = r.name
<1> DEFINE s == disk[r.name]
           q == r.queue
           p == r.pos
           n == Len(q)
<1>1. s \in Seq(Records) /\ q \in Seq(Records) /\ p \in Nat /\ Len(s) \in Nat /\ p < Len(s)
      /\ n \in Nat
  BY LenProperties DEF FilesTyped, ReaderOK, Reader
<1>2. s[p + 1] \in Records
  <2>1. p + 1 \in 1 .. Len(s)
    BY <1>1
  <2>2. QED
    BY <1>1, <2>1, ElementOfSeq
<1>3. /\ Append(q, s[p + 1]) \in Seq(Records) /\ Len(Append(q, s[p + 1])) = n + 1
      /\ \A i \in 1 .. n : Append(q, s[p + 1])[i] = q[i]
      /\ Append(q, s[p + 1])[n + 1] = s[p + 1]
  BY <1>1, <1>2, AppendProperties
<1>4. /\ r2 \in Reader /\ r2.pos = p + 1 /\ r2.queue = Append(q, s[p + 1])
      /\ r2.name = r.name /\ r2.closed = r.closed
  <2>1. p + 1 \in Nat
    BY <1>1
  <2>2. QED
    BY <1>3, <2>1 DEF ReaderOK, Reader
<1>5. ReaderOK(r2)
  BY <1>1, <1>4 DEF ReaderOK
<1>6. /\ Left(r) \in Seq(Records) /\ Len(Left(r)) = n + (Len(s) - p)
      /\ \A i \in 1 .. Len(Left(r)) :
             Left(r)[i] = IF i <= n THEN q[i] ELSE s[p + (i - n)]
  BY LeftElements
<1>7. /\ Left(r2) \in Seq(Records) /\ Len(Left(r2)) = (n + 1) + (Len(s) - (p + 1))
      /\ \A i \in 1 .. Len(Left(r2)) :
             Left(r2)[i] = IF i <= n + 1 THEN Append(q, s[p + 1])[i] ELSE s[(p + 1) + (i - (n + 1))]
  <2>1. /\ Left(r2) \in Seq(Records)
        /\ Len(Left(r2)) = Len(r2.queue) + (Len(disk[r2.name]) - r2.pos)
        /\ \A i \in 1 .. Len(Left(r2)) :
              Left(r2)[i] = IF i <= Len(r2.queue) THEN r2.queue[i]
                            ELSE disk[r2.name][r2.pos + (i - Len(r2.queue))]
    BY <1>5, LeftElements
  <2>2. r2.queue = Append(q, s[p + 1]) /\ Len(r2.queue) = n + 1 /\ r2.pos = p + 1 /\ disk[r2.name] = s
    BY <1>3, <1>4
  <2> HIDE DEF n, s, q, p
  <2>3. QED
    BY <2>1, <2>2
<1>8. r2.queue # <<>>
  BY <1>1, <1>3, <1>4, EmptySeq
<1> HIDE DEF n, s, q, p
<1>9. Len(Left(r2)) = Len(Left(r)) /\ Len(Left(r)) \in Nat
  BY <1>1, <1>6, <1>7
<1>10. \A i \in 1 .. Len(Left(r)) : Left(r2)[i] = Left(r)[i]
  <2> TAKE i \in 1 .. Len(Left(r))
  <2>1. CASE i <= n
    <3>1. i \in 1 .. n /\ i <= n + 1
      BY <1>1, <1>9, <2>1
    <3>2. QED
      BY <1>3, <1>6, <1>7, <1>9, <2>1, <3>1
  <2>2. CASE i = n + 1
    <3>1. ~ (i <= n) /\ i <= n + 1 /\ p + (i - n) = p + 1
      BY <1>1, <2>2
    <3>2. QED
      BY <1>3, <1>6, <1>7, <1>9, <2>2, <3>1
  <2>3. CASE i > n + 1
    <3>1. ~ (i <= n) /\ ~ (i <= n + 1) /\ (p + 1) + (i - (n + 1)) = p + (i - n)
      <4>1. i \in Int /\ n \in Int /\ p \in Int
        BY <1>1, <1>9
      <4>2. QED
        BY <2>3, <4>1
    <3>2. QED
      BY <1>6, <1>7, <1>9, <3>1
  <2>4. QED
    BY <1>1, <1>9, <2>1, <2>2, <2>3
<1>11. Left(r2) = Left(r)
  BY <1>6, <1>7, <1>9, <1>10, SeqEqual
<1>12. QED
  BY <1>4, <1>5, <1>8, <1>11

\* A queue that is not empty begins with an earliest record, of all that are left.
LEMMA EarliestIsFirst ==
    ASSUME FilesTyped, NEW r, ReaderOK(r), Ordered(Left(r)), r.queue # <<>>
    PROVE  /\ 1 \in DOMAIN Left(r) /\ Left(r)[1] = r.queue[1]
           /\ Earliest(r) = Ts[Left(r)[1]]
           /\ \A i \in DOMAIN Left(r) : Ts[Left(r)[1]] <= Ts[Left(r)[i]]
<1> DEFINE n == Len(r.queue)
           l == Left(r)
           S == {Ts[r.queue[j]] : j \in DOMAIN r.queue}
<1>1. /\ l \in Seq(Records) /\ n \in Nat /\ DOMAIN r.queue = 1 .. n
      /\ Len(l) \in Nat /\ n <= Len(l) /\ DOMAIN l = 1 .. Len(l)
      /\ \A i \in 1 .. Len(l) : i <= n => l[i] = r.queue[i]
  <2>1. Len(disk[r.name]) - r.pos >= 0
    BY LeftElements DEF ReaderOK, Reader
  <2>2. QED
    BY <2>1, LeftElements DEF ReaderOK, Reader
<1>2. n >= 1
  <2>1. r.queue \in Seq(Records)
    BY DEF ReaderOK, Reader
  <2>2. n # 0
    BY <2>1, EmptySeq
  <2>3. QED
    BY <1>1, <2>2
<1>3. 1 \in DOMAIN l /\ l[1] = r.queue[1] /\ 1 \in DOMAIN r.queue
  BY <1>1, <1>2
<1>4. \A i \in DOMAIN l : l[i] \in Records /\ Ts[l[i]] \in Nat
  BY <1>1, ElementOfSeq, FileInputAssumption
<1>5. \A i \in DOMAIN l : Ts[l[1]] <= Ts[l[i]]
  <2> TAKE i \in DOMAIN l
  <2>1. i = 1 \/ 1 < i
    BY <1>1
  <2>2. QED
    BY <1>1, <1>3, <1>4, <2>1 DEF Ordered
<1>6. Ts[l[1]] \in S /\ \A x \in S : Ts[l[1]] <= x /\ x \in Nat
  <2>1. \A j \in DOMAIN r.queue : j \in DOMAIN l /\ l[j] = r.queue[j]
    BY <1>1
  <2>2. QED
    BY <1>3, <1>4, <1>5, <2>1
<1>7. Min(S) \in S /\ \A x \in S : Min(S) <= x
  <2>1. \E x \in S : \A y \in S : x <= y
    BY <1>6
  <2>2. QED
    BY <2>1 DEF Min
<1> HIDE DEF S, l
<1>8. Min(S) = Ts[l[1]]
  <2>1. Min(S) <= Ts[l[1]] /\ Ts[l[1]] <= Min(S) /\ Min(S) \in Nat /\ Ts[l[1]] \in Nat
    BY <1>6, <1>7
  <2>2. QED
    BY <2>1
<1>9. QED
  BY <1>3, <1>5, <1>8 DEF Earliest, S, l

\* emit takes record j of the queue: what is left is the rest, in the same order.
LEMMA PopLeaves ==
    ASSUME FilesTyped, NEW r, ReaderOK(r), NEW j \in DOMAIN r.queue,
           NEW r2, r2 = [r EXCEPT !.queue = RemoveAt(@, j)]
    PROVE  /\ ReaderOK(r2) /\ r2.name = r.name /\ r2.pos = r.pos /\ r2.closed = r.closed
           /\ Ordered(Left(r)) => Ordered(Left(r2))
           /\ \A i \in DOMAIN Left(r2) : \E k \in DOMAIN Left(r) : Left(r2)[i] = Left(r)[k]
           /\ r.queue[j] \in Records
           /\ \E k \in DOMAIN Left(r) : Left(r)[k] = r.queue[j]
<1> DEFINE q == r.queue
           n == Len(q)
           d == Len(disk[r.name]) - r.pos
           a == SubSeq(q, 1, j - 1)
           b == SubSeq(q, j + 1, n)
           q2 == RemoveAt(q, j)
<1>1. q \in Seq(Records) /\ n \in Nat /\ j \in 1 .. n /\ n >= 1
  BY LeftElements DEF ReaderOK, Reader
<1>2. /\ a \in Seq(Records) /\ Len(a) = j - 1
      /\ \A i \in 1 .. j - 1 : a[i] = q[i]
  <2> HIDE DEF q, n
  <2>1. CASE j = 1
    <3>1. SubSeq(q, 1, j - 1) = <<>>
      BY <1>1, <2>1, SubSeqEmpty
    <3>2. QED
      BY <2>1, <3>1, EmptySeq
  <2>2. CASE j # 1
    <3>1. 1 <= j - 1 /\ j - 1 \in 1 .. n /\ 1 \in 1 .. n + 1
      BY <1>1, <2>2
    <3>2. /\ SubSeq(q, 1, j - 1) \in Seq(Records)
          /\ Len(SubSeq(q, 1, j - 1)) = (j - 1) - 1 + 1
          /\ \A i \in 1 .. (j - 1) - 1 + 1 : SubSeq(q, 1, j - 1)[i] = q[1 + i - 1]
      BY <1>1, <3>1, SubSeqProperties DEF n
    <3>3. (j - 1) - 1 + 1 = j - 1 /\ \A i \in 1 .. j - 1 : 1 + i - 1 = i
      BY <1>1
    <3>4. QED
      BY <3>2, <3>3
  <2>3. QED
    BY <2>1, <2>2
<1>3. /\ b \in Seq(Records) /\ Len(b) = n - j
      /\ \A i \in 1 .. n - j : b[i] = q[j + i]
  <2> HIDE DEF q, n
  <2>1. CASE j = n
    <3>1. SubSeq(q, j + 1, n) = <<>>
      BY <1>1, <2>1, SubSeqEmpty
    <3>2. QED
      BY <1>1, <2>1, <3>1, EmptySeq
  <2>2. CASE j # n
    <3>1. j + 1 <= n /\ j + 1 \in 1 .. n + 1
      BY <1>1, <2>2
    <3>2. /\ SubSeq(q, j + 1, n) \in Seq(Records)
          /\ Len(SubSeq(q, j + 1, n)) = n - (j + 1) + 1
          /\ \A i \in 1 .. n - (j + 1) + 1 : SubSeq(q, j + 1, n)[i] = q[(j + 1) + i - 1]
      BY <1>1, <3>1, SubSeqProperties DEF n
    <3>3. n - (j + 1) + 1 = n - j /\ \A i \in 1 .. n - j : (j + 1) + i - 1 = j + i
      BY <1>1
    <3>4. QED
      BY <3>2, <3>3
  <2>3. QED
    BY <2>1, <2>2
<1> HIDE DEF a, b
<1>4. /\ q2 \in Seq(Records) /\ Len(q2) = n - 1
      /\ \A i \in 1 .. n - 1 : q2[i] = IF i < j THEN q[i] ELSE q[i + 1]
  <2>1. q2 = a \o b
    BY DEF RemoveAt, a, b
  <2> HIDE DEF q2, q, n
  <2>2. /\ a \o b \in Seq(Records) /\ Len(a \o b) = Len(a) + Len(b)
        /\ \A i \in 1 .. Len(a) + Len(b) : (a \o b)[i] = IF i <= Len(a) THEN a[i] ELSE b[i - Len(a)]
    BY <1>2, <1>3, ConcatProperties
  <2>3. Len(a) + Len(b) = n - 1
    BY <1>1, <1>2, <1>3
  <2>4. ASSUME NEW i \in 1 .. n - 1 PROVE q2[i] = IF i < j THEN q[i] ELSE q[i + 1]
    <3>1. CASE i < j
      <4>1. i <= Len(a) /\ i \in 1 .. j - 1
        BY <1>1, <1>2, <3>1
      <4>2. QED
        BY <1>2, <2>1, <2>2, <2>3, <3>1, <4>1
    <3>2. CASE ~ (i < j)
      <4>1. ~ (i <= Len(a)) /\ i - Len(a) \in 1 .. n - j /\ j + (i - Len(a)) = i + 1
        BY <1>1, <1>2, <3>2
      <4>2. q2[i] = b[i - Len(a)]
        BY <2>1, <2>2, <2>3, <4>1
      <4>3. b[i - Len(a)] = q[j + (i - Len(a))]
        BY <1>3, <4>1
      <4>4. QED
        BY <3>2, <4>1, <4>2, <4>3
    <3>3. QED
      BY <3>1, <3>2
  <2>5. QED
    BY <2>1, <2>2, <2>3, <2>4
<1> HIDE DEF q2
<1>5. r2 \in Reader /\ r2.queue = q2 /\ r2.name = r.name /\ r2.pos = r.pos /\ r2.closed = r.closed
  BY <1>4 DEF ReaderOK, Reader, q2
<1>6. ReaderOK(r2)
  BY <1>5 DEF ReaderOK
<1>7. d \in Nat
  BY LeftElements DEF ReaderOK, Reader
<1>8. /\ Left(r) \in Seq(Records) /\ Len(Left(r)) = n + d
      /\ DOMAIN Left(r) = 1 .. n + d
      /\ \A i \in 1 .. n + d : Left(r)[i] = IF i <= n THEN q[i] ELSE disk[r.name][r.pos + (i - n)]
  BY LeftElements
<1>9. /\ Left(r2) \in Seq(Records) /\ Len(Left(r2)) = (n - 1) + d
      /\ DOMAIN Left(r2) = 1 .. (n - 1) + d
      /\ \A i \in 1 .. (n - 1) + d :
           Left(r2)[i] = IF i <= n - 1 THEN q2[i] ELSE disk[r.name][r.pos + (i - (n - 1))]
  <2>1. /\ Left(r2) \in Seq(Records) /\ DOMAIN Left(r2) = 1 .. Len(Left(r2))
        /\ Len(Left(r2)) = Len(r2.queue) + (Len(disk[r2.name]) - r2.pos)
        /\ \A i \in 1 .. Len(Left(r2)) :
              Left(r2)[i] = IF i <= Len(r2.queue) THEN r2.queue[i]
                            ELSE disk[r2.name][r2.pos + (i - Len(r2.queue))]
    BY <1>6, LeftElements
  <2>2. r2.queue = q2 /\ Len(r2.queue) = n - 1 /\ r2.pos = r.pos /\ r2.name = r.name
        /\ Len(disk[r2.name]) - r2.pos = d
    BY <1>4, <1>5
  <2> HIDE DEF n, q, d
  <2>3. QED
    BY <2>1, <2>2
<1> HIDE DEF n, q, d
<1>10. \A i \in 1 .. (n - 1) + d : Left(r2)[i] = Left(r)[IF i < j THEN i ELSE i + 1]
  <2> TAKE i \in 1 .. (n - 1) + d
  <2>1. CASE i < j
    <3>1. i <= n - 1 /\ i <= n /\ i \in 1 .. n - 1 /\ i \in 1 .. n + d
      BY <1>1, <1>7, <2>1
    <3>2. QED
      BY <1>4, <1>8, <1>9, <2>1, <3>1
  <2>2. CASE ~ (i < j) /\ i <= n - 1
    <3>1. i + 1 <= n /\ i \in 1 .. n - 1 /\ i + 1 \in 1 .. n + d
      BY <1>1, <1>7, <2>2
    <3>2. QED
      BY <1>4, <1>8, <1>9, <2>2, <3>1
  <2>3. CASE ~ (i < j) /\ ~ (i <= n - 1)
    <3>1. ~ (i + 1 <= n) /\ i + 1 \in 1 .. n + d /\ i - (n - 1) = (i + 1) - n
      BY <1>1, <1>7, <2>3
    <3>2. QED
      BY <1>8, <1>9, <2>3, <3>1
  <2>4. QED
    BY <2>1, <2>2, <2>3
<1>11. \A i \in 1 .. (n - 1) + d : (IF i < j THEN i ELSE i + 1) \in 1 .. n + d
  BY <1>1, <1>7
<1>12. ASSUME Ordered(Left(r)) PROVE Ordered(Left(r2))
  <2> SUFFICES ASSUME NEW i \in 1 .. (n - 1) + d, NEW k \in 1 .. (n - 1) + d, i < k
               PROVE  Ts[Left(r2)[i]] <= Ts[Left(r2)[k]]
    BY <1>9 DEF Ordered
  <2>1. (IF i < j THEN i ELSE i + 1) < (IF k < j THEN k ELSE k + 1)
    BY <1>1, <1>7
  <2>2. QED
    BY <1>8, <1>10, <1>11, <1>12, <2>1 DEF Ordered
<1>13. \A i \in DOMAIN Left(r2) : \E k \in DOMAIN Left(r) : Left(r2)[i] = Left(r)[k]
  BY <1>8, <1>9, <1>10, <1>11
<1>14. q[j] \in Records /\ \E k \in DOMAIN Left(r) : Left(r)[k] = q[j]
  <2>1. j \in 1 .. n + d /\ j <= n
    BY <1>1, <1>7
  <2>2. q[j] \in Records
    BY <1>1, ElementOfSeq DEF n
  <2>3. QED
    BY <1>8, <2>1, <2>2
<1>15. QED
  BY <1>5, <1>6, <1>12, <1>13, <1>14 DEF q

\* Where emit can be.
Emitting == [pc : {"check", "ended"}]
              \cup [pc : {"scan"}, at : Nat, next : {None} \cup Nat]
              \cup [pc : {"sleep", "send"}, rec : Records]

\* The readers newFileInputReader makes, and those parse and emit have changed.
ReadersTyped ==
    /\ \E n \in Nat : DOMAIN readers = 1 .. n
    /\ \A k \in DOMAIN readers : Opens(readers[k]) => ReaderOK(readers[k])

InTyped ==
    /\ play \in Play
    /\ ReadersTyped
    /\ emit \in Emitting
    /\ emit.pc = "scan" /\ emit.next # None =>
          /\ emit.next \in DOMAIN readers /\ emit.next < emit.at
          /\ Opens(readers[emit.next]) /\ readers[emit.next].queue # <<>>
    /\ data \in Seq(Records) /\ got \in Seq(Records)
    /\ lastTime \in Int /\ slept \in Int

InAlone ==
    /\ play = NoPlay /\ readers = <<>> /\ lastTime = None /\ slept = 0
    /\ data = <<>> /\ got = <<>> /\ emit = [pc |-> "none"]

\* What emit holds where it is.
LEMMA EmittingMeans ==
    ASSUME emit \in Emitting
    PROVE  /\ emit.pc \in {"check", "ended", "scan", "sleep", "send"}
           /\ emit.pc = "scan" => /\ emit \in [pc : {"scan"}, at : Nat, next : {None} \cup Nat]
                                  /\ emit.at \in Nat /\ emit.next \in {None} \cup Nat
           /\ emit.pc \in {"sleep", "send"} => emit.rec \in Records
  BY DEF Emitting

\* One name after the other.
LEMMA NamesOfFiles ==
    ASSUME FilesTyped
    PROVE  /\ Cardinality(DOMAIN disk) \in Nat
           /\ SetToSeq(DOMAIN disk) \in [1 .. Cardinality(DOMAIN disk) -> DOMAIN disk]
<1> DEFINE S == DOMAIN disk
<1>1. Cardinality(S) \in Nat /\ ExistsBijection(1 .. Cardinality(S), S)
  BY FS_CardinalityType DEF FilesTyped
<1>2. PICK f \in Bijection(1 .. Cardinality(S), S) : TRUE
  BY <1>1 DEF ExistsBijection
<1>3. f \in [1 .. Cardinality(S) -> S] /\ IsInjective(f)
  BY <1>2 DEF Bijection, Injection, Surjection, IsInjective
<1>4. SetToSeq(S) \in [1 .. Cardinality(S) -> S]
  BY <1>3 DEF SetToSeq
<1>5. QED
  BY <1>1, <1>4

\* A new reader has all of its file left.
LEMMA FreshReader ==
    ASSUME FilesTyped, NEW name \in DOMAIN disk, NEW depth \in Nat, NEW unreadable,
           NEW r, r = NewReader(name, depth, unreadable), Opens(r)
    PROVE  /\ ReaderOK(r) /\ r.name = name /\ Left(r) = disk[name]
           /\ r.closed => r.pos = Len(disk[name])
<1> DEFINE s == disk[name]
           dep == Max({1, depth})
           first == Min({dep, Len(s)})
<1>1. s \in Seq(Records) /\ Len(s) \in Nat
  BY LenProperties DEF FilesTyped
<1>2. dep \in Nat /\ dep >= 1
  BY MaxOfTwo
<1>3. first \in Nat /\ first \in {dep, Len(s)} /\ first <= Len(s) /\ first <= dep
  <2> HIDE DEF dep, s
  <2>1. QED
    BY <1>1, <1>2, MinOfTwo
<1>4. r = [name |-> name, pos |-> first, queue |-> SubSeq(s, 1, first), closed |-> Len(s) < dep]
  BY DEF NewReader, Opens
<1> HIDE DEF dep, first
<1>5. SubSeq(s, 1, first) \in Seq(Records) /\ Len(SubSeq(s, 1, first)) = first
      /\ \A i \in 1 .. first : SubSeq(s, 1, first)[i] = s[i]
  <2> HIDE DEF s
  <2>1. CASE first = 0
    <3>1. SubSeq(s, 1, first) = <<>>
      BY <1>1, <2>1, SubSeqEmpty
    <3>2. QED
      BY <2>1, <3>1, EmptySeq
  <2>2. CASE first # 0
    <3>1. 1 \in 1 .. Len(s) + 1 /\ first \in 1 .. Len(s) /\ 1 <= first
      BY <1>1, <1>3, <2>2
    <3>2. /\ SubSeq(s, 1, first) \in Seq(Records)
          /\ Len(SubSeq(s, 1, first)) = first - 1 + 1
          /\ \A i \in 1 .. first - 1 + 1 : SubSeq(s, 1, first)[i] = s[1 + i - 1]
      BY <1>1, <3>1, SubSeqProperties
    <3>3. first - 1 + 1 = first /\ \A i \in 1 .. first : 1 + i - 1 = i
      BY <1>3
    <3>4. QED
      BY <3>2, <3>3
  <2>3. QED
    BY <2>1, <2>2
<1>6. r \in Reader /\ r.pos = first /\ r.name = name /\ r.queue = SubSeq(s, 1, first)
      /\ r.closed = (Len(s) < dep)
  BY <1>1, <1>3, <1>4, <1>5 DEF Reader
<1>7. ReaderOK(r)
  BY <1>3, <1>6 DEF ReaderOK
<1>8. r.closed => r.pos = Len(s)
  <2>1. r.closed => Len(s) < dep
    BY <1>6, Zenon
  <2> HIDE DEF s
  <2>2. Len(s) < dep => first = Len(s)
    BY <1>1, <1>2, <1>3
  <2>3. QED
    BY <1>6, <2>1, <2>2
<1>9. Left(r) = s
  <2>1. /\ Left(r) \in Seq(Records) /\ Len(Left(r)) = first + (Len(s) - first)
        /\ \A i \in 1 .. Len(Left(r)) :
              Left(r)[i] = IF i <= first THEN SubSeq(s, 1, first)[i] ELSE s[first + (i - first)]
    <3>1. /\ Left(r) \in Seq(Records)
          /\ Len(Left(r)) = Len(r.queue) + (Len(disk[r.name]) - r.pos)
          /\ \A i \in 1 .. Len(Left(r)) :
                Left(r)[i] = IF i <= Len(r.queue) THEN r.queue[i]
                             ELSE disk[r.name][r.pos + (i - Len(r.queue))]
      BY <1>7, LeftElements
    <3>2. Len(r.queue) = first /\ disk[r.name] = s
      BY <1>5, <1>6
    <3> HIDE DEF s
    <3>3. QED
      BY <1>6, <3>1, <3>2
  <2> HIDE DEF s
  <2>2. Len(Left(r)) = Len(s)
    BY <1>1, <1>3, <2>1
  <2>3. \A i \in 1 .. Len(s) : Left(r)[i] = s[i]
    <3> TAKE i \in 1 .. Len(s)
    <3>1. CASE i <= first
      <4>1. i \in 1 .. first
        BY <1>1, <1>3, <3>1
      <4>2. QED
        BY <1>5, <2>1, <2>2, <3>1, <4>1
    <3>2. CASE ~ (i <= first)
      <4>1. first + (i - first) = i
        BY <1>1, <1>3
      <4>2. QED
        BY <2>1, <2>2, <3>2, <4>1
    <3>3. QED
      BY <3>1, <3>2
  <2>4. QED
    BY <1>1, <2>1, <2>2, <2>3, SeqEqual
<1>10. QED
  BY <1>6, <1>7, <1>8, <1>9

\* All of them, one for each file.
LEMMA FreshReaders ==
    ASSUME FilesTyped, NEW depth \in Nat, NEW unreadable
    PROVE  /\ \E n \in Nat : DOMAIN NewReaders(depth, unreadable) = 1 .. n
           /\ \A k \in DOMAIN NewReaders(depth, unreadable) :
                LET r == NewReaders(depth, unreadable)[k]
                IN Opens(r) => /\ ReaderOK(r) /\ Left(r) = disk[r.name]
                               /\ r.closed => r.pos = Len(disk[r.name])
<1> DEFINE names == SetToSeq(DOMAIN disk)
<1>1. PICK n \in Nat : names \in [1 .. n -> DOMAIN disk]
  BY NamesOfFiles
<1> HIDE DEF names
<1>2. NewReaders(depth, unreadable) = [k \in 1 .. n |-> NewReader(names[k], depth, unreadable)]
  BY <1>1 DEF NewReaders, names
<1>3. \A k \in 1 .. n :
         LET r == NewReader(names[k], depth, unreadable)
         IN Opens(r) => /\ ReaderOK(r) /\ Left(r) = disk[r.name]
                        /\ r.closed => r.pos = Len(disk[r.name])
  <2> SUFFICES ASSUME NEW k \in 1 .. n, NEW r, r = NewReader(names[k], depth, unreadable), Opens(r)
               PROVE  /\ ReaderOK(r) /\ Left(r) = disk[r.name]
                      /\ r.closed => r.pos = Len(disk[r.name])
    OBVIOUS
  <2>1. names[k] \in DOMAIN disk
    BY <1>1
  <2>2. QED
    BY <2>1, FreshReader
<1>4. QED
  BY <1>2, <1>3

\* parse and Close change a reader without emptying its queue or taking from what is
\* left; the other readers stay.
Grows(k, r2) ==
    LET r == readers[k]
    IN /\ ReaderOK(r2) /\ Opens(r2) /\ r2.name = r.name /\ Left(r2) = Left(r)
       /\ r.queue # <<>> => r2.queue # <<>>

\* parse, one record or the end of the file.
LEMMA ParseGrows ==
    ASSUME FilesTyped, InTyped, NEW k \in DOMAIN readers, Parse(k) \/ ParseEnds(k)
    PROVE  /\ DOMAIN readers' = DOMAIN readers
           /\ \A j \in DOMAIN readers : j # k => readers'[j] = readers[j]
           /\ Opens(readers[k]) /\ Grows(k, readers'[k])
           /\ readers'[k].closed =>
                 \/ readers'[k].pos = Len(disk[readers[k].name])
                 \/ readers[k].closed /\ readers[k].pos < Len(disk[readers[k].name])
           /\ UNCHANGED <<play, input, emit, clockVars, data, got>>
<1> DEFINE r == readers[k]
<1>1. Opens(r) /\ ReaderOK(r)
  BY DEF Parse, ParseEnds, InTyped, ReadersTyped
<1>2. CASE Parse(k)
  <2> DEFINE r2 == [r EXCEPT !.pos = @ + 1, !.queue = Append(@, disk[r.name][r.pos + 1])]
  <2>1. /\ r.pos < Len(disk[r.name])
        /\ readers' = [readers EXCEPT ![k] = r2]
        /\ UNCHANGED <<play, input, emit, clockVars, data, got>>
    BY <1>2 DEF Parse
  <2>2. ReaderOK(r2) /\ Left(r2) = Left(r) /\ r2.queue # <<>> /\ r2.closed = r.closed
        /\ r2.name = r.name
    BY <1>1, <2>1, ParseKeepsLeft
  <2>3. Opens(r2)
    BY <2>2, ReaderOpens DEF ReaderOK
  <2> HIDE DEF r2
  <2>4. readers'[k] = r2 /\ DOMAIN readers' = DOMAIN readers
        /\ \A j \in DOMAIN readers : j # k => readers'[j] = readers[j]
    BY <2>1
  <2>5. QED
    BY <1>1, <2>1, <2>2, <2>3, <2>4 DEF Grows
<1>3. CASE ParseEnds(k)
  <2> DEFINE r2 == [r EXCEPT !.closed = TRUE]
  <2>1. /\ r.pos = Len(disk[r.name])
        /\ readers' = [readers EXCEPT ![k] = r2]
        /\ UNCHANGED <<play, input, emit, clockVars, data, got>>
    BY <1>3 DEF ParseEnds
  <2>2. r2 \in Reader /\ r2.name = r.name /\ r2.pos = r.pos /\ r2.queue = r.queue
    BY <1>1 DEF ReaderOK, Reader
  <2>3. ReaderOK(r2) /\ Left(r2) = Left(r) /\ Opens(r2)
    BY <1>1, <2>2, ReaderOpens DEF ReaderOK, Left
  <2> HIDE DEF r2
  <2>4. readers'[k] = r2 /\ DOMAIN readers' = DOMAIN readers
        /\ \A j \in DOMAIN readers : j # k => readers'[j] = readers[j]
    BY <2>1
  <2>5. QED
    BY <1>1, <2>1, <2>2, <2>3, <2>4 DEF Grows
<1>4. QED
  BY <1>2, <1>3

\* Close.
LEMMA CloseGrows ==
    ASSUME FilesTyped, InTyped, CloseInput
    PROVE  /\ DOMAIN readers' = DOMAIN readers
           /\ \A k \in DOMAIN readers : Opens(readers[k]) => Grows(k, readers'[k])
           /\ \A k \in DOMAIN readers : ~ Opens(readers[k]) => readers'[k] = readers[k]
           /\ UNCHANGED <<play, emit, clockVars, data, got>>
           /\ input' \in {"closed", "panicked"}
<1>1. /\ readers' = [k \in DOMAIN readers |->
                       IF \A j \in 1 .. k : Opens(readers[j]) THEN [readers[k] EXCEPT !.closed = TRUE]
                       ELSE readers[k]]
      /\ UNCHANGED <<play, emit, clockVars, data, got>>
      /\ input' \in {"closed", "panicked"}
  BY DEF CloseInput
<1>2. \A k \in DOMAIN readers : k \in 1 .. k
  BY DEF InTyped, ReadersTyped
<1>3. ASSUME NEW k \in DOMAIN readers, Opens(readers[k]) PROVE Grows(k, readers'[k])
  <2> DEFINE r == readers[k]
             r2 == [r EXCEPT !.closed = TRUE]
  <2>1. ReaderOK(r)
    BY <1>3 DEF InTyped, ReadersTyped
  <2>2. r2 \in Reader /\ r2.name = r.name /\ r2.pos = r.pos /\ r2.queue = r.queue
    BY <2>1 DEF ReaderOK, Reader
  <2>3. ReaderOK(r2) /\ Left(r2) = Left(r) /\ Opens(r2)
    BY <2>1, <2>2, ReaderOpens DEF ReaderOK, Left
  <2>4. readers'[k] \in {r, r2}
    BY <1>1
  <2> HIDE DEF r2
  <2>5. QED
    BY <1>3, <2>1, <2>2, <2>3, <2>4 DEF Grows
<1>4. \A k \in DOMAIN readers : ~ Opens(readers[k]) => readers'[k] = readers[k]
  BY <1>1, <1>2
<1>5. QED
  BY <1>1, <1>3, <1>4

\* Steps that leave emit where it is, and take nothing from a queue.
LEMMA GrowsTyped ==
    ASSUME InTyped, UNCHANGED <<disk, play, emit, clockVars, data, got>>,
           DOMAIN readers' = DOMAIN readers,
           \A k \in DOMAIN readers : readers'[k] = readers[k] \/ (Opens(readers[k]) /\ Grows(k, readers'[k]))
    PROVE  InTyped'
<1>1. \A k \in DOMAIN readers : Opens(readers'[k]) => ReaderOK(readers'[k])
  BY DEF InTyped, ReadersTyped, Grows
<1>2. ReadersTyped'
  BY <1>1 DEF InTyped, ReadersTyped, ReaderOK, Reader
<1>3. emit.pc = "scan" /\ emit.next # None =>
          Opens(readers'[emit.next]) /\ readers'[emit.next].queue # <<>>
  BY DEF InTyped, Grows
<1>4. QED
  BY <1>2, <1>3 DEF InTyped, clockVars

\* What Pop takes, and from which reader.
LEMMA PopTakes ==
    ASSUME FilesTyped, InTyped, Pop
    PROVE  \E k \in DOMAIN readers, rec \in Records :
              /\ k = emit.next /\ emit.pc = "scan" /\ emit.at \notin DOMAIN readers
              /\ Opens(readers[k]) /\ readers[k].queue # <<>> /\ ReaderOK(readers[k])
              /\ DOMAIN readers' = DOMAIN readers
              /\ \A j \in DOMAIN readers : j # k => readers'[j] = readers[j]
              /\ ReaderOK(readers'[k]) /\ readers'[k].name = readers[k].name
              /\ readers'[k].pos = readers[k].pos /\ readers'[k].closed = readers[k].closed
              /\ Ordered(Left(readers[k])) => Ordered(Left(readers'[k]))
              /\ \A i \in DOMAIN Left(readers'[k]) :
                    \E l \in DOMAIN Left(readers[k]) : Left(readers'[k])[i] = Left(readers[k])[l]
              /\ \E l \in DOMAIN Left(readers[k]) : Left(readers[k])[l] = rec
              /\ Ts[rec] = Earliest(readers[k])
              /\ emit' = [pc |-> "sleep", rec |-> rec]
              /\ Clock(Ts[rec])
              /\ UNCHANGED <<play, input, data, got>>
<1> DEFINE k == emit.next
           r == readers[k]
<1>1. emit.pc = "scan" /\ emit.at \notin DOMAIN readers /\ k # None
  BY DEF Pop, Scanned
<1>2. k \in DOMAIN readers /\ Opens(r) /\ r.queue # <<>> /\ ReaderOK(r)
  BY <1>1 DEF InTyped, ReadersTyped
<1>3. PICK j \in DOMAIN r.queue :
         /\ Ts[r.queue[j]] = Earliest(r)
         /\ readers' = [readers EXCEPT ![k].queue = RemoveAt(@, j)]
         /\ emit' = [pc |-> "sleep", rec |-> r.queue[j]]
         /\ Clock(Ts[r.queue[j]])
         /\ UNCHANGED <<play, input, data, got>>
  BY DEF Pop
<1> DEFINE r2 == [r EXCEPT !.queue = RemoveAt(@, j)]
<1>4. /\ ReaderOK(r2) /\ r2.name = r.name /\ r2.pos = r.pos /\ r2.closed = r.closed
      /\ Ordered(Left(r)) => Ordered(Left(r2))
      /\ \A i \in DOMAIN Left(r2) : \E l \in DOMAIN Left(r) : Left(r2)[i] = Left(r)[l]
      /\ r.queue[j] \in Records
      /\ \E l \in DOMAIN Left(r) : Left(r)[l] = r.queue[j]
  BY <1>2, PopLeaves
<1>5. readers' = [readers EXCEPT ![k] = r2]
  BY <1>3
<1> HIDE DEF r2
<1>6. readers'[k] = r2 /\ DOMAIN readers' = DOMAIN readers
      /\ \A i \in DOMAIN readers : i # k => readers'[i] = readers[i]
  BY <1>2, <1>5
<1> HIDE DEF k
<1>7. QED
  BY <1>1, <1>2, <1>3, <1>4, <1>6 DEF k

\* Every step of a running input keeps its types.
LEMMA InStaysTyped ==
    ASSUME FilesTyped, InTyped, NEW unreadable, InNext(unreadable), input # "off", UNCHANGED disk
    PROVE  InTyped'
<1>1. ASSUME NEW k \in DOMAIN readers, Parse(k) \/ ParseEnds(k) PROVE InTyped'
  <2>1. /\ DOMAIN readers' = DOMAIN readers
        /\ \A j \in DOMAIN readers : j # k => readers'[j] = readers[j]
        /\ Opens(readers[k]) /\ Grows(k, readers'[k])
        /\ UNCHANGED <<play, emit, clockVars, data, got>>
    BY <1>1, ParseGrows
  <2>2. \A j \in DOMAIN readers :
           readers'[j] = readers[j] \/ (Opens(readers[j]) /\ Grows(j, readers'[j]))
    BY <2>1
  <2>3. QED
    BY <2>1, <2>2, GrowsTyped
<1>2. CASE CloseInput
  <2>1. /\ DOMAIN readers' = DOMAIN readers
        /\ \A j \in DOMAIN readers :
              readers'[j] = readers[j] \/ (Opens(readers[j]) /\ Grows(j, readers'[j]))
        /\ UNCHANGED <<play, emit, clockVars, data, got>>
    BY <1>2, CloseGrows
  <2>2. QED
    BY <2>1, GrowsTyped
<1>3. CASE Check
  <2>1. emit' \in Emitting /\ (emit'.pc = "scan" => emit'.next = None)
    BY <1>3 DEF Check, Emitting
  <2>2. QED
    BY <1>3, <2>1 DEF Check, InTyped, ReadersTyped, ReaderOK, Reader, clockVars
<1>4. CASE Scan
  <2> DEFINE r == readers[emit.at]
             earlier == emit.next = None \/ Earliest(r) < Earliest(readers[emit.next])
             next == IF Opens(r) /\ r.queue # <<>> /\ earlier THEN emit.at ELSE emit.next
  <2>1. /\ emit.pc = "scan" /\ emit.at \in DOMAIN readers
        /\ emit' = [emit EXCEPT !.at = @ + 1, !.next = next]
        /\ UNCHANGED <<play, input, readers, clockVars, data, got>>
    BY <1>4 DEF Scan
  <2> HIDE DEF next
  <2>2. emit \in [pc : {"scan"}, at : Nat, next : {None} \cup Nat] /\ emit.at \in Nat
    BY <2>1, EmittingMeans DEF InTyped
  <2>3. next \in {None} \cup Nat
    BY <2>2 DEF next
  <2>4. emit' \in Emitting /\ emit'.pc = "scan" /\ emit'.at = emit.at + 1 /\ emit'.next = next
    <3>1. emit' \in [pc : {"scan"}, at : Nat, next : {None} \cup Nat]
          /\ emit'.pc = "scan" /\ emit'.at = emit.at + 1 /\ emit'.next = next
      <4>1. emit.at + 1 \in Nat
        BY <2>2
      <4>2. emit = [pc |-> "scan", at |-> emit.at, next |-> emit.next]
        BY <2>2
      <4>3. emit' = [pc |-> "scan", at |-> emit.at + 1, next |-> next]
        BY <2>1, <4>2
      <4>4. QED
        BY <2>3, <4>1, <4>3
    <3>2. QED
      BY <3>1 DEF Emitting
  <2>5. next # None => /\ next \in DOMAIN readers /\ next < emit.at + 1
                       /\ Opens(readers[next]) /\ readers[next].queue # <<>>
    BY <2>1, <2>2 DEF InTyped, next
  <2>6. QED
    BY <2>1, <2>4, <2>5 DEF InTyped, ReadersTyped, ReaderOK, Reader, clockVars
<1>5. CASE Exhausted(unreadable)
  <2>1. CASE play.loop
    <3>1. /\ readers' = NewReaders(play.readDepth, unreadable) /\ lastTime' = None
          /\ emit' = [pc |-> "check"] /\ UNCHANGED <<play, slept, data, got>>
      BY <1>5, <2>1 DEF Exhausted
    <3>2. play.readDepth \in Nat
      BY DEF InTyped, Play
    <3>3. /\ \E n \in Nat : DOMAIN readers' = 1 .. n
          /\ \A k \in DOMAIN readers' : Opens(readers'[k]) => ReaderOK(readers'[k])
      BY <3>1, <3>2, FreshReaders
    <3>4. ReadersTyped'
      BY <3>3 DEF ReadersTyped, ReaderOK, Reader
    <3>5. emit' \in Emitting /\ emit'.pc # "scan" /\ None \in Int
      BY <3>1 DEF Emitting, None
    <3>6. QED
      BY <3>1, <3>4, <3>5 DEF InTyped
  <2>2. CASE ~ play.loop
    <3>1. emit' = [pc |-> "ended"] /\ UNCHANGED <<play, readers, lastTime, slept, data, got>>
      BY <1>5, <2>2 DEF Exhausted
    <3>2. emit' \in Emitting /\ emit'.pc # "scan"
      BY <3>1 DEF Emitting
    <3>3. QED
      BY <3>1, <3>2 DEF InTyped, ReadersTyped, ReaderOK, Reader
  <2>3. QED
    BY <2>1, <2>2
<1>6. CASE Pop
  <2>1. PICK k \in DOMAIN readers, rec \in Records :
              /\ DOMAIN readers' = DOMAIN readers
              /\ \A j \in DOMAIN readers : j # k => readers'[j] = readers[j]
              /\ ReaderOK(readers'[k])
              /\ emit' = [pc |-> "sleep", rec |-> rec]
              /\ Clock(Ts[rec])
              /\ UNCHANGED <<play, input, data, got>>
    BY <1>6, PopTakes
  <2>2. emit' \in Emitting /\ emit'.pc # "scan"
    BY <2>1 DEF Emitting
  <2>3. \A j \in DOMAIN readers' : Opens(readers'[j]) => ReaderOK(readers'[j])
    BY <2>1 DEF InTyped, ReadersTyped
  <2>4. ReadersTyped'
    BY <2>1, <2>3 DEF InTyped, ReadersTyped, ReaderOK, Reader
  <2>5. lastTime' \in Int /\ slept' \in Int
    <3>1. /\ Ts[rec] \in Int /\ play.speed \in Nat /\ play.speed # 0 /\ play.maxWait \in Nat
          /\ lastTime \in Int /\ slept \in Int
      BY FileInputAssumption DEF InTyped, Play
    <3> DEFINE diff == Ts[rec] - lastTime
               scaled == IF diff < 0 THEN -((-diff) \div play.speed) ELSE diff \div play.speed
               wait == IF play.maxWait > 0 /\ scaled > play.maxWait THEN play.maxWait ELSE scaled
    <3>2. diff \in Int
      BY <3>1
    <3>3. scaled \in Int
      <4> HIDE DEF diff
      <4>1. -diff \in Int
        BY <3>2
      <4>2. (-diff) \div play.speed \in Int /\ diff \div play.speed \in Int
        BY <3>1, <3>2, <4>1
      <4>3. QED
        BY <4>2
    <3>4. wait \in Int
      <4> HIDE DEF scaled
      <4>1. QED
        BY <3>1, <3>3
    <3>5. \/ lastTime' = Ts[rec] /\ slept' = slept
          \/ lastTime' = lastTime /\ slept' = slept
          \/ lastTime' = Ts[rec] /\ slept' = slept + wait
      <4>1. Clock(Ts[rec])
        BY <2>1
      <4>2. QED
        BY <4>1 DEF Clock, clockVars
    <3> HIDE DEF wait
    <3>6. QED
      BY <3>1, <3>4, <3>5
  <2>6. QED
    BY <2>1, <2>2, <2>4, <2>5 DEF InTyped
<1>7. CASE Recheck
  <2>1. emit' \in {[pc |-> "ended"], [pc |-> "check"], [pc |-> "send", rec |-> emit.rec]}
        /\ emit.rec \in Records /\ UNCHANGED <<play, readers, clockVars, data, got>>
    BY <1>7, EmittingMeans DEF Recheck, InTyped
  <2>2. emit' \in Emitting /\ emit'.pc # "scan"
    BY <2>1 DEF Emitting
  <2>3. QED
    BY <2>1, <2>2 DEF InTyped, ReadersTyped, ReaderOK, Reader, clockVars
<1>8. CASE Send
  <2>1. /\ emit.rec \in Records /\ data \in Seq(Records)
        /\ data' = Append(data, emit.rec) /\ emit' = [pc |-> "check"]
        /\ UNCHANGED <<play, readers, clockVars, got>>
    BY <1>8, EmittingMeans DEF Send, InTyped
  <2>2. data' \in Seq(Records) /\ emit' \in Emitting /\ emit'.pc # "scan"
    BY <2>1, AppendProperties DEF Emitting
  <2>3. QED
    BY <2>1, <2>2 DEF InTyped, ReadersTyped, ReaderOK, Reader, clockVars
<1>9. CASE PluginRead
  <2>1. /\ data \in Seq(Records) /\ got \in Seq(Records) /\ data # <<>>
        /\ got' = Append(got, Head(data)) /\ data' = Tail(data)
        /\ UNCHANGED <<play, readers, emit, clockVars>>
    BY <1>9 DEF PluginRead, InTyped
  <2>2. got' \in Seq(Records) /\ data' \in Seq(Records)
    BY <2>1, HeadTailProperties, AppendProperties
  <2>3. QED
    BY <2>1, <2>2 DEF InTyped, ReadersTyped, ReaderOK, Reader, clockVars
<1>10. QED
  BY <1>1, <1>2, <1>3, <1>4, <1>5, <1>6, <1>7, <1>8, <1>9 DEF InNext, Start, Parses, Emits

-----------------------------------------------------------------------------
(* What emit has taken *)

Through == got \o data

\* Behind nextReader, the record emit holds is the last one taken.
LEMMA TakenIs ==
    ASSUME InTyped
    PROVE  /\ Through \in Seq(Records) /\ Taken \in Seq(Records)
           /\ emit.pc \in {"sleep", "send"} => Taken = Append(Through, emit.rec) /\ emit.rec \in Records
           /\ emit.pc \notin {"sleep", "send"} => Taken = Through
<1>1. Through \in Seq(Records)
  BY ConcatProperties DEF Through, InTyped
<1>2. CASE emit.pc \in {"sleep", "send"}
  <2>1. emit.rec \in Records
    BY <1>2, EmittingMeans DEF InTyped
  <2>2. Taken = Through \o <<emit.rec>>
    <3>1. Taken = got \o data \o <<emit.rec>>
      BY <1>2 DEF Taken
    <3>2. QED
      BY <3>1 DEF Through
  <2>3. Append(Through, emit.rec) = Through \o <<emit.rec>> /\ Append(Through, emit.rec) \in Seq(Records)
    BY <1>1, <2>1, AppendIsConcat, AppendProperties
  <2>4. QED
    BY <1>1, <1>2, <2>1, <2>2, <2>3
<1>3. CASE emit.pc \notin {"sleep", "send"}
  <2>1. Taken = Through \o <<>>
    <3>1. Taken = got \o data \o <<>>
      BY <1>3 DEF Taken
    <3>2. QED
      BY <3>1 DEF Through
  <2>2. Through \o <<>> = Through
    BY <1>1, ConcatEmptySeq
  <2>3. QED
    BY <1>1, <1>3, <2>1, <2>2
<1>4. QED
  BY <1>2, <1>3

TakenOK ==
    /\ emit.pc \in {"sleep", "send"} => Taken = Append(Through, emit.rec) /\ emit.rec \in Records
    /\ emit.pc \notin {"sleep", "send"} => Taken = Through

\* The same as a formula of the state, for the state after a step.
LEMMA TakenIsThrough == InTyped => TakenOK
  BY TakenIs DEF TakenOK

\* A dropped record leaves what was taken before it.
Drops(rec) == Taken = Append(Taken', rec)

\* What each step of the input does to Taken.
LEMMA TakenBy ==
    ASSUME InTyped, InTyped', NEW unreadable
    PROVE  /\ \A rec \in Records : emit.pc = "scan" /\ emit' = [pc |-> "sleep", rec |-> rec]
                                   /\ UNCHANGED <<data, got>> => Taken' = Append(Taken, rec)
           /\ Recheck => \/ emit'.pc = "send" /\ Taken' = Taken
                         \/ /\ emit'.pc = "ended" \/ (emit'.pc = "check" /\ play.dryRun)
                            /\ \E rec \in Records : Drops(rec)
           /\ Send \/ PluginRead \/ Check \/ Scan \/ Exhausted(unreadable) => Taken' = Taken
           /\ UNCHANGED <<emit, data, got>> => Taken' = Taken
<1>1. /\ Through \in Seq(Records) /\ Taken \in Seq(Records)
      /\ emit.pc \in {"sleep", "send"} => Taken = Append(Through, emit.rec) /\ emit.rec \in Records
      /\ emit.pc \notin {"sleep", "send"} => Taken = Through
  BY TakenIs
<1>2. /\ emit'.pc \in {"sleep", "send"} => Taken' = Append(Through', emit'.rec)
      /\ emit'.pc \notin {"sleep", "send"} => Taken' = Through'
  <2>1. TakenOK'
    BY TakenIsThrough, PTL
  <2>2. QED
    BY <2>1 DEF TakenOK
<1>3. ASSUME UNCHANGED <<data, got>> PROVE Through' = Through
  BY <1>3 DEF Through
<1>4. \A rec \in Records : emit.pc = "scan" /\ emit' = [pc |-> "sleep", rec |-> rec]
                           /\ UNCHANGED <<data, got>> => Taken' = Append(Taken, rec)
  BY <1>1, <1>2, <1>3
<1>5. ASSUME Recheck
      PROVE  \/ emit'.pc = "send" /\ Taken' = Taken
             \/ /\ emit'.pc = "ended" \/ (emit'.pc = "check" /\ play.dryRun)
                /\ \E rec \in Records : Drops(rec)
  <2>1. emit.pc = "sleep" /\ Through' = Through
    BY <1>3, <1>5 DEF Recheck
  <2>2. CASE emit' = [pc |-> "send", rec |-> emit.rec]
    BY <1>1, <1>2, <2>1, <2>2
  <2>3. CASE emit' = [pc |-> "ended"] \/ (emit' = [pc |-> "check"] /\ play.dryRun)
    <3>1. Taken' = Through /\ Taken = Append(Through, emit.rec) /\ emit.rec \in Records
      BY <1>1, <1>2, <2>1, <2>3
    <3>2. QED
      BY <2>3, <3>1 DEF Drops
  <2>4. QED
    BY <1>5, <2>2, <2>3 DEF Recheck
<1>6. ASSUME Send PROVE Taken' = Taken
  <2>1. emit.pc = "send" /\ emit'.pc = "check" /\ data' = Append(data, emit.rec) /\ got' = got
    BY <1>6 DEF Send
  <2>2. Through' = got \o Append(data, emit.rec)
    BY <2>1 DEF Through
  <2>3. got \o Append(data, emit.rec) = (got \o data) \o <<emit.rec>>
    BY <1>1, <2>1, AppendBehind DEF InTyped
  <2>4. Append(Through, emit.rec) = Through \o <<emit.rec>>
    BY <1>1, <2>1, AppendIsConcat
  <2>5. QED
    BY <1>1, <1>2, <2>1, <2>2, <2>3, <2>4 DEF Through
<1>7. ASSUME PluginRead PROVE Taken' = Taken
  <2>1. data # <<>> /\ got' = Append(got, Head(data)) /\ data' = Tail(data) /\ emit' = emit
    BY <1>7 DEF PluginRead
  <2>2. data = <<Head(data)>> \o Tail(data) /\ Head(data) \in Records /\ Tail(data) \in Seq(Records)
    <3>1. data \in Seq(Records) /\ data # <<>>
      BY <2>1 DEF InTyped
    <3>2. QED
      BY <3>1
  <2>3. Through' = Through
    <3>1. Append(got, Head(data)) = got \o <<Head(data)>>
      BY <2>2, AppendIsConcat DEF InTyped
    <3>2. (got \o <<Head(data)>>) \o Tail(data) = got \o (<<Head(data)>> \o Tail(data))
      BY <2>2, ConcatAssociative DEF InTyped
    <3>3. QED
      BY <2>1, <2>2, <3>1, <3>2 DEF Through
  <2>4. QED
    BY <1>1, <1>2, <2>1, <2>3
<1>8. ASSUME Check \/ Scan \/ Exhausted(unreadable) PROVE Taken' = Taken
  <2>1. emit.pc \in {"check", "scan"} /\ UNCHANGED <<data, got>>
    BY <1>8 DEF Check, Scan, Exhausted, Scanned
  <2>2. emit'.pc \in {"check", "scan", "ended"}
    <3>1. CASE Check
      BY <3>1 DEF Check
    <3>2. CASE Exhausted(unreadable)
      BY <3>2 DEF Exhausted
    <3>3. CASE Scan
      <4>1. emit \in [pc : {"scan"}, at : Nat, next : {None} \cup Nat]
        BY <3>3, EmittingMeans DEF Scan, InTyped
      <4>2. emit = [pc |-> "scan", at |-> emit.at, next |-> emit.next]
        BY <4>1
      <4>3. PICK n : emit' = [emit EXCEPT !.at = @ + 1, !.next = n]
        BY <3>3 DEF Scan
      <4>4. emit'.pc = "scan"
        BY <4>2, <4>3
      <4>5. QED
        BY <4>4
    <3>4. QED
      BY <1>8, <3>1, <3>2, <3>3
  <2>3. QED
    BY <1>1, <1>2, <1>3, <2>1, <2>2
<1>9. ASSUME UNCHANGED <<emit, data, got>> PROVE Taken' = Taken
  BY <1>9 DEF Taken
<1>10. QED
  BY <1>4, <1>5, <1>6, <1>7, <1>8, <1>9

-----------------------------------------------------------------------------
(* The clock of emit *)

\* Paced, with the latest record for the maximum of the times.
PacedOK ==
    play.speed = 1 /\ play.maxWait = 0 /\ ~play.loop /\ ~play.dryRun /\ emit.pc # "ended" =>
        \/ lastTime = None /\ Taken = <<>> /\ slept = 0
        \/ /\ Taken # <<>>
           /\ slept = lastTime - Ts[Taken[1]]
           /\ \E i \in DOMAIN Taken : Ts[Taken[i]] = lastTime
           /\ \A i \in DOMAIN Taken : Ts[Taken[i]] <= lastTime

\* Elements of a sequence of records, and their times.
LEMMA TimesOfTaken ==
    ASSUME NEW s \in Seq(Records)
    PROVE  /\ Len(s) \in Nat /\ DOMAIN s = 1 .. Len(s)
           /\ \A i \in DOMAIN s : s[i] \in Records /\ Ts[s[i]] \in Nat
           /\ s # <<>> => 1 \in DOMAIN s
<1>1. Len(s) \in Nat /\ DOMAIN s = 1 .. Len(s)
  BY LenProperties
<1>2. \A i \in DOMAIN s : s[i] \in Records /\ Ts[s[i]] \in Nat
  BY <1>1, ElementOfSeq, FileInputAssumption
<1>3. s # <<>> => 1 \in DOMAIN s
  <2>1. s # <<>> => Len(s) # 0
    BY EmptySeq
  <2>2. QED
    BY <1>1, <2>1
<1>4. QED
  BY <1>1, <1>2, <1>3

\* The inductive form names the latest record; Paced has the maximum of the times.
LEMMA PacedFollows == ASSUME InTyped, PacedOK PROVE Paced
<1> SUFFICES ASSUME play.speed = 1 /\ play.maxWait = 0 /\ ~play.loop /\ ~play.dryRun /\ emit.pc # "ended"
             PROVE  \/ lastTime = None /\ Taken = <<>> /\ slept = 0
                    \/ /\ Taken # <<>>
                       /\ slept = lastTime - Ts[Taken[1]]
                       /\ lastTime = Max({Ts[rec] : rec \in ToSet(Taken)})
  BY DEF Paced
<1>1. CASE lastTime = None /\ Taken = <<>> /\ slept = 0
  BY <1>1
<1>2. CASE /\ Taken # <<>>
           /\ slept = lastTime - Ts[Taken[1]]
           /\ \E i \in DOMAIN Taken : Ts[Taken[i]] = lastTime
           /\ \A i \in DOMAIN Taken : Ts[Taken[i]] <= lastTime
  <2> DEFINE T == {Ts[rec] : rec \in ToSet(Taken)}
  <2>1. T = {Ts[Taken[i]] : i \in DOMAIN Taken}
    BY DEF ToSet
  <2>2. \A t \in T : t \in Nat
    BY <2>1, TakenIs, TimesOfTaken
  <2>3. lastTime \in T /\ \A t \in T : t <= lastTime
    BY <1>2, <2>1
  <2> HIDE DEF T
  <2>4. Max(T) \in T /\ \A t \in T : Max(T) >= t
    <3>1. \E x \in T : \A y \in T : x >= y
      BY <2>2, <2>3
    <3>2. QED
      BY <3>1 DEF Max
  <2>5. lastTime = Max(T)
    BY <2>2, <2>3, <2>4
  <2>6. QED
    BY <1>2, <2>5 DEF T
<1>3. QED
  BY <1>1, <1>2 DEF PacedOK

\* A step of the input that takes no record.
LEMMA TakesNothing ==
    ASSUME FilesTyped, InTyped, InTyped', NEW unreadable, InNext(unreadable), input # "off", ~ Pop
    PROVE  /\ play' = play
           /\ emit.pc = "ended" => emit'.pc = "ended"
           /\ \/ emit'.pc = "ended"
              \/ play.dryRun
              \/ Taken' = Taken /\ (play.loop \/ UNCHANGED clockVars)
<1>1. CASE Check \/ Scan \/ Exhausted(unreadable) \/ Send
  <2>1. play' = play /\ emit.pc # "ended"
    BY <1>1 DEF Check, Scan, Exhausted, Scanned, Send
  <2>2. emit'.pc = "ended" \/ play.loop \/ UNCHANGED clockVars
    BY <1>1 DEF Check, Scan, Exhausted, Send, clockVars
  <2>3. Taken' = Taken
    BY <1>1, TakenBy
  <2>4. QED
    BY <2>1, <2>2, <2>3
<1>2. CASE Recheck
  <2>1. play' = play /\ emit.pc # "ended" /\ UNCHANGED clockVars
    BY <1>2 DEF Recheck
  <2>2. Taken' = Taken \/ emit'.pc = "ended" \/ play.dryRun
    BY <1>2, TakenBy
  <2>3. QED
    BY <2>1, <2>2
<1>3. CASE PluginRead
  <2>1. play' = play /\ emit' = emit /\ UNCHANGED clockVars
    BY <1>3 DEF PluginRead
  <2>2. Taken' = Taken
    BY <1>3, TakenBy
  <2>3. QED
    BY <2>1, <2>2
<1>4. CASE CloseInput \/ \E k \in DOMAIN readers : Parse(k) \/ ParseEnds(k)
  <2>1. UNCHANGED <<play, emit, clockVars, data, got>>
    BY <1>4 DEF CloseInput, Parse, ParseEnds
  <2>2. Taken' = Taken
    BY <2>1, TakenBy
  <2>3. QED
    BY <2>1, <2>2
<1>5. QED
  BY <1>1, <1>2, <1>3, <1>4 DEF InNext, Start, Parses, Emits

\* SpeedFactor 1 scales nothing.
LEMMA DivOne == ASSUME NEW x \in Int PROVE x \div 1 = x
  OBVIOUS

\* Clock at the speed of the recording.
LEMMA ClockAtSpeed ==
    ASSUME InTyped, play.speed = 1, play.maxWait = 0, NEW ts \in Nat, Clock(ts)
    PROVE  /\ lastTime = None => lastTime' = ts /\ slept' = slept
           /\ lastTime # None /\ ts < lastTime => lastTime' = lastTime /\ slept' = slept
           /\ lastTime # None /\ ts >= lastTime => lastTime' = ts /\ slept' = slept + (ts - lastTime)
<1> DEFINE diff == ts - lastTime
           scaled == IF diff < 0 THEN -((-diff) \div play.speed) ELSE diff \div play.speed
           wait == IF play.maxWait > 0 /\ scaled > play.maxWait THEN play.maxWait ELSE scaled
<1>1. lastTime \in Int /\ slept \in Int
  BY DEF InTyped
<1>2. diff \in Int /\ -diff \in Int
  BY <1>1
<1>3. /\ lastTime = None => lastTime' = ts /\ UNCHANGED slept
      /\ lastTime # None /\ wait < 0 => UNCHANGED clockVars
      /\ lastTime # None /\ ~ (wait < 0) => lastTime' = ts /\ slept' = slept + wait
  BY DEF Clock
<1>4. scaled = diff
  <2> HIDE DEF diff
  <2>1. diff \div 1 = diff /\ (-diff) \div 1 = -diff /\ -(-diff) = diff
    BY <1>2, DivOne
  <2>2. QED
    BY <2>1
<1> HIDE DEF scaled
<1>5. wait = diff
  BY <1>4
<1> HIDE DEF wait
<1>6. wait < 0 <=> ts < lastTime
  BY <1>1, <1>5
<1>7. ts >= lastTime <=> ~ (ts < lastTime)
  BY <1>1
<1>8. QED
  BY <1>3, <1>5, <1>6, <1>7 DEF clockVars

\* emit takes a record, and the clock goes on to its time unless it is from the past.
LEMMA PopPaced ==
    ASSUME FilesTyped, InTyped, InTyped', PacedOK, Pop
    PROVE  PacedOK'
<1>1. PICK rec \in Records :
         /\ emit.pc = "scan" /\ emit' = [pc |-> "sleep", rec |-> rec]
         /\ Clock(Ts[rec])
         /\ UNCHANGED <<play, data, got>>
  BY PopTakes
<1>2. Taken \in Seq(Records) /\ Taken' = Append(Taken, rec)
  BY <1>1, TakenBy, TakenIs
<1> SUFFICES ASSUME play.speed = 1, play.maxWait = 0, ~play.loop, ~play.dryRun
             PROVE  /\ Taken' # <<>>
                    /\ slept' = lastTime' - Ts[Taken'[1]]
                    /\ \E i \in DOMAIN Taken' : Ts[Taken'[i]] = lastTime'
                    /\ \A i \in DOMAIN Taken' : Ts[Taken'[i]] <= lastTime'
  BY <1>1 DEF PacedOK
<1> DEFINE n == Len(Taken)
<1>3. /\ n \in Nat /\ DOMAIN Taken = 1 .. n
      /\ \A i \in DOMAIN Taken : Ts[Taken[i]] \in Nat
      /\ Taken # <<>> => 1 \in DOMAIN Taken
  BY <1>2, TimesOfTaken
<1>4. /\ DOMAIN Taken' = 1 .. n + 1 /\ Taken'[n + 1] = rec /\ Taken' # <<>>
      /\ \A i \in 1 .. n : Taken'[i] = Taken[i]
  BY <1>2, AppendProperties, LenProperties, EmptySeq
<1>5. Ts[rec] \in Nat /\ lastTime \in Int /\ slept \in Int
  BY FileInputAssumption DEF InTyped
<1>6. \/ lastTime = None /\ Taken = <<>> /\ slept = 0
      \/ /\ Taken # <<>>
         /\ slept = lastTime - Ts[Taken[1]]
         /\ \E i \in DOMAIN Taken : Ts[Taken[i]] = lastTime
         /\ \A i \in DOMAIN Taken : Ts[Taken[i]] <= lastTime
  BY <1>1 DEF PacedOK
<1>7. CASE lastTime = None /\ Taken = <<>> /\ slept = 0
  <2>1. n = 0 /\ lastTime' = Ts[rec] /\ slept' = 0
    BY <1>1, <1>5, <1>7, ClockAtSpeed, EmptySeq
  <2>2. DOMAIN Taken' = {1} /\ Taken'[1] = rec
    BY <1>4, <2>1
  <2>3. QED
    BY <1>4, <1>5, <2>1, <2>2
<1>8. CASE /\ Taken # <<>>
           /\ slept = lastTime - Ts[Taken[1]]
           /\ \E i \in DOMAIN Taken : Ts[Taken[i]] = lastTime
           /\ \A i \in DOMAIN Taken : Ts[Taken[i]] <= lastTime
  <2>1. PICK i \in DOMAIN Taken : Ts[Taken[i]] = lastTime
    BY <1>8
  <2>2. lastTime \in Nat /\ lastTime # None /\ Ts[Taken[1]] \in Nat /\ Taken'[1] = Taken[1]
    BY <1>3, <1>4, <1>8, <2>1 DEF None
  <2>3. i \in DOMAIN Taken' /\ Taken'[i] = Taken[i] /\ n + 1 \in DOMAIN Taken'
    BY <1>3, <1>4
  <2>4. \A j \in DOMAIN Taken' : (j \in DOMAIN Taken /\ Taken'[j] = Taken[j]) \/ j = n + 1
    BY <1>3, <1>4
  <2> HIDE DEF n
  <2>5. CASE Ts[rec] < lastTime
    <3>1. lastTime' = lastTime /\ slept' = slept
      BY <1>1, <1>5, <2>2, <2>5, ClockAtSpeed
    <3>2. \A j \in DOMAIN Taken' : Ts[Taken'[j]] <= lastTime
      BY <1>4, <1>5, <1>8, <2>2, <2>4, <2>5
    <3>3. QED
      BY <1>4, <1>8, <2>1, <2>2, <2>3, <3>1, <3>2
  <2>6. CASE Ts[rec] >= lastTime
    <3>1. lastTime' = Ts[rec] /\ slept' = slept + (Ts[rec] - lastTime)
      BY <1>1, <1>5, <2>2, <2>6, ClockAtSpeed
    <3>2. \A j \in DOMAIN Taken' : Ts[Taken'[j]] <= Ts[rec]
      BY <1>3, <1>4, <1>5, <1>8, <2>2, <2>4, <2>6
    <3>3. slept' = lastTime' - Ts[Taken'[1]]
      BY <1>5, <1>8, <2>2, <3>1
    <3>4. QED
      BY <1>4, <2>3, <3>1, <3>2, <3>3
  <2>7. QED
    BY <1>5, <2>2, <2>5, <2>6
<1>9. QED
  BY <1>6, <1>7, <1>8

\* No other step changes the clock or what was taken.
LEMMA StaysPaced ==
    ASSUME FilesTyped, InTyped, InTyped', PacedOK,
           NEW unreadable, InNext(unreadable), input # "off"
    PROVE  PacedOK'
<1>1. CASE Pop
  BY <1>1, PopPaced
<1>2. CASE ~ Pop
  <2>1. play' = play /\ (emit.pc = "ended" => emit'.pc = "ended")
        /\ \/ emit'.pc = "ended"
           \/ play.dryRun
           \/ Taken' = Taken /\ (play.loop \/ UNCHANGED clockVars)
    BY <1>2, TakesNothing
  <2>2. QED
    BY <2>1 DEF PacedOK, clockVars
<1>3. QED
  BY <1>1, <1>2

-----------------------------------------------------------------------------
(* The order of time *)

LeftAt(k) == Left(readers[k])

\* What is left of a file is in order, and its reader is not closed before the end
\* of it unless the input is.
OrderedLeft ==
    \A k \in DOMAIN readers : Opens(readers[k]) =>
        /\ Ordered(LeftAt(k))
        /\ readers[k].closed /\ ~Exited => readers[k].pos = Len(disk[readers[k].name])

\* Nothing that is left is earlier than what was taken.
Ahead ==
    \A k \in DOMAIN readers : Opens(readers[k]) =>
        \A t \in DOMAIN Taken, i \in DOMAIN LeftAt(k) : Ts[Taken[t]] <= Ts[LeftAt(k)[i]]

\* Of the readers looked at, the chosen one has the earliest record.
Chosen ==
    \A k \in DOMAIN readers : k < emit.at /\ Opens(readers[k]) /\ LeftAt(k) # <<>> =>
        emit.next # None /\ Ts[LeftAt(emit.next)[1]] <= Ts[LeftAt(k)[1]]

FilesOrdered == \A name \in DOMAIN disk : Ordered(disk[name])

\* An input that was closed while nextReader looked at the readers may take a record
\* that is not the earliest: that one is the last, and Recheck drops it.
OrderOK ==
    ~play.loop /\ FilesOrdered =>
        /\ Ordered(Taken)
        /\ OrderedLeft
        /\ emit.pc = "ended" \/ (Exited /\ emit.pc = "sleep") \/ Ahead
        /\ emit.pc = "scan" /\ ~Exited => Chosen

\* The replay leaves the files alone.
LEMMA PrimedLeft ==
    ASSUME UNCHANGED disk
    PROVE  \A k : LeftAt(k)' = Left(readers'[k])
  BY DEF LeftAt, Left

\* Types of what is left.
LEMMA LeftTyped ==
    ASSUME FilesTyped, InTyped, NEW k \in DOMAIN readers, Opens(readers[k])
    PROVE  /\ ReaderOK(readers[k])
           /\ LeftAt(k) \in Seq(Records)
           /\ \A i \in DOMAIN LeftAt(k) : LeftAt(k)[i] \in Records /\ Ts[LeftAt(k)[i]] \in Nat
           /\ LeftAt(k) # <<>> => 1 \in DOMAIN LeftAt(k)
<1>1. ReaderOK(readers[k])
  BY DEF InTyped, ReadersTyped
<1>2. LeftAt(k) \in Seq(Records)
  BY <1>1, LeftElements DEF LeftAt
<1>3. QED
  BY <1>1, <1>2, TimesOfTaken

\* Steps that take nothing: what is left of every reader stays, and closing one before
\* the end of its file is for an input that is closed.
LEMMA GrowsInOrder ==
    ASSUME OrderOK, UNCHANGED <<disk, play, Taken>>, Exited => Exited',
           DOMAIN readers' = DOMAIN readers,
           \A k \in DOMAIN readers : Opens(readers'[k]) => Opens(readers[k]) /\ LeftAt(k)' = LeftAt(k),
           \A k \in DOMAIN readers : Opens(readers'[k]) /\ readers'[k].closed /\ ~Exited' =>
              readers'[k].pos = Len(disk[readers'[k].name]),
           \/ UNCHANGED emit /\ (emit.pc = "scan" /\ emit.next # None => LeftAt(emit.next)' = LeftAt(emit.next))
           \/ emit.pc \notin {"ended", "sleep"} /\ emit'.pc # "scan"
    PROVE  OrderOK'
<1> SUFFICES ASSUME (~play.loop /\ FilesOrdered)'
             PROVE  (/\ Ordered(Taken)
                     /\ OrderedLeft
                     /\ emit.pc = "ended" \/ (Exited /\ emit.pc = "sleep") \/ Ahead
                     /\ emit.pc = "scan" /\ ~Exited => Chosen)'
  BY DEF OrderOK
<1>1. ~play.loop /\ FilesOrdered
  BY DEF FilesOrdered
<1>2. /\ Ordered(Taken) /\ OrderedLeft
      /\ emit.pc = "ended" \/ (Exited /\ emit.pc = "sleep") \/ Ahead
      /\ emit.pc = "scan" /\ ~Exited => Chosen
  BY <1>1 DEF OrderOK
<1>3. Ordered(Taken)' /\ OrderedLeft'
  BY <1>2 DEF OrderedLeft, Ordered
<1>4. (emit.pc = "ended" \/ (Exited /\ emit.pc = "sleep") \/ Ahead)'
  <2>1. Ahead => Ahead'
    BY DEF Ahead
  <2>2. QED
    BY <1>2, <2>1
<1>5. (emit.pc = "scan" /\ ~Exited => Chosen)'
  <2> SUFFICES ASSUME UNCHANGED emit, emit.pc = "scan", ~Exited, Chosen,
                      emit.next # None => LeftAt(emit.next)' = LeftAt(emit.next)
               PROVE  Chosen'
    BY <1>2
  <2>1. emit'.next # None => LeftAt(emit.next)' = LeftAt(emit.next)
    OBVIOUS
  <2>2. QED
    BY <2>1 DEF Chosen
<1>6. QED
  BY <1>3, <1>4, <1>5

\* No reader takes a step.
LEMMA StillInOrder ==
    ASSUME OrderOK, UNCHANGED <<disk, play, readers, input, Taken>>,
           UNCHANGED emit \/ (emit.pc \notin {"ended", "sleep"} /\ emit'.pc # "scan")
    PROVE  OrderOK'
<1>1. \A k : LeftAt(k)' = LeftAt(k)
  BY DEF LeftAt, Left
<1>2. Exited' = Exited
  BY DEF Exited
<1>3. CASE ~play.loop /\ FilesOrdered
  <2>1. \A k \in DOMAIN readers : Opens(readers[k]) /\ readers[k].closed /\ ~Exited =>
              readers[k].pos = Len(disk[readers[k].name])
    BY <1>3 DEF OrderOK, OrderedLeft
  <2>2. QED
    BY <1>1, <1>2, <2>1, GrowsInOrder
<1>4. CASE ~ (~play.loop /\ FilesOrdered)
  BY <1>4 DEF OrderOK, FilesOrdered
<1>5. QED
  BY <1>3, <1>4

\* parse and Close.
LEMMA ReadersInOrder ==
    ASSUME FilesTyped, InTyped, InTyped', OrderOK, UNCHANGED disk,
           CloseInput \/ \E k \in DOMAIN readers : Parse(k) \/ ParseEnds(k)
    PROVE  OrderOK'
<1>1. UNCHANGED <<play, emit, data, got>> /\ Taken' = Taken
  <2>1. UNCHANGED <<play, emit, data, got>>
    BY DEF CloseInput, Parse, ParseEnds
  <2>2. QED
    BY <2>1, TakenBy
<1>2. SUFFICES ASSUME ~play.loop /\ FilesOrdered PROVE OrderOK'
  BY <1>1 DEF OrderOK, FilesOrdered
<1>3. OrderedLeft
  BY <1>2 DEF OrderOK
<1>4. emit.pc = "scan" /\ emit.next # None => emit.next \in DOMAIN readers /\ Opens(readers[emit.next])
  BY DEF InTyped
<1>5. ASSUME NEW k \in DOMAIN readers, Parse(k) \/ ParseEnds(k) PROVE OrderOK'
  <2>1. /\ DOMAIN readers' = DOMAIN readers
        /\ \A j \in DOMAIN readers : j # k => readers'[j] = readers[j]
        /\ Opens(readers[k]) /\ Grows(k, readers'[k])
        /\ readers'[k].closed =>
              \/ readers'[k].pos = Len(disk[readers[k].name])
              \/ readers[k].closed /\ readers[k].pos < Len(disk[readers[k].name])
        /\ input' = input
    BY <1>5, ParseGrows
  <2>2. Exited' = Exited
    BY <2>1 DEF Exited
  <2>3. \A j \in DOMAIN readers : LeftAt(j)' = LeftAt(j)
    BY <2>1, PrimedLeft DEF LeftAt, Grows
  <2>4. \A j \in DOMAIN readers : Opens(readers'[j]) => Opens(readers[j])
    BY <2>1
  <2>5. Len(disk[readers[k].name]) \in Nat /\ readers[k].pos \in Nat /\ readers'[k].name = readers[k].name
    <3>1. ReaderOK(readers[k])
      BY <2>1 DEF InTyped, ReadersTyped
    <3>2. QED
      BY <2>1, <3>1, LeftElements DEF Grows, ReaderOK, Reader
  <2>6. ASSUME NEW j \in DOMAIN readers, Opens(readers'[j]), readers'[j].closed, ~Exited'
        PROVE  readers'[j].pos = Len(disk[readers'[j].name])
    <3>1. CASE j = k
      <4>1. ~ (readers[k].closed /\ readers[k].pos < Len(disk[readers[k].name]))
        BY <1>3, <2>1, <2>2, <2>5, <2>6 DEF OrderedLeft
      <4>2. QED
        BY <2>1, <2>5, <2>6, <3>1, <4>1
    <3>2. CASE j # k
      BY <1>3, <2>1, <2>2, <2>4, <2>6, <3>2 DEF OrderedLeft
    <3>3. QED
      BY <3>1, <3>2
  <2>7. QED
    BY <1>1, <1>4, <2>1, <2>2, <2>3, <2>4, <2>6, GrowsInOrder
<1>6. CASE CloseInput
  <2>1. /\ DOMAIN readers' = DOMAIN readers
        /\ \A k \in DOMAIN readers : Opens(readers[k]) => Grows(k, readers'[k])
        /\ \A k \in DOMAIN readers : ~ Opens(readers[k]) => readers'[k] = readers[k]
        /\ input' \in {"closed", "panicked"}
    BY <1>6, CloseGrows
  <2>2. Exited'
    BY <2>1 DEF Exited
  <2>3. \A j \in DOMAIN readers : LeftAt(j)' = LeftAt(j)
    BY <2>1, PrimedLeft DEF LeftAt, Grows
  <2>4. \A j \in DOMAIN readers : Opens(readers'[j]) => Opens(readers[j])
    BY <2>1
  <2>5. QED
    BY <1>1, <1>4, <2>1, <2>2, <2>3, <2>4, GrowsInOrder
<1>7. QED
  BY <1>5, <1>6

\* A new round looks at the first reader next, and has chosen none.
LEMMA CheckInOrder ==
    ASSUME InTyped, InTyped', OrderOK, UNCHANGED disk, Check
    PROVE  OrderOK'
<1>1. /\ emit.pc = "check" /\ UNCHANGED <<play, input, readers, data, got>>
      /\ emit' \in {[pc |-> "ended"], [pc |-> "scan", at |-> 1, next |-> None]}
  BY DEF Check
<1>2. Taken' = Taken
  BY TakenBy
<1>3. \A k : LeftAt(k)' = LeftAt(k)
  BY <1>1 DEF LeftAt, Left
<1> SUFFICES ASSUME ~play.loop /\ FilesOrdered
             PROVE  (/\ Ordered(Taken)
                     /\ OrderedLeft
                     /\ Ahead
                     /\ emit.pc = "scan" /\ ~Exited => Chosen)'
  BY <1>1 DEF OrderOK, FilesOrdered
<1>4. Ordered(Taken) /\ OrderedLeft /\ Ahead
  BY <1>1 DEF OrderOK
<1>5. Ordered(Taken)' /\ OrderedLeft' /\ Ahead'
  BY <1>1, <1>2, <1>3, <1>4 DEF OrderedLeft, Ahead, Ordered, Exited
<1>6. emit'.pc = "scan" => Chosen'
  <2>1. emit'.pc = "scan" => emit'.at = 1
    BY <1>1
  <2>2. \A k \in DOMAIN readers' : ~ (k < 1)
    BY <1>1 DEF InTyped, ReadersTyped
  <2>3. QED
    BY <2>1, <2>2 DEF Chosen
<1>7. QED
  BY <1>5, <1>6

\* wait has returned: a reader with nothing queued is at the end of its file, and of
\* two with a record the earlier is chosen.
LEMMA ScanInOrder ==
    ASSUME FilesTyped, InTyped, InTyped', OrderOK, UNCHANGED disk, Scan
    PROVE  OrderOK'
<1> DEFINE at == emit.at
           old == emit.next
           r == readers[at]
           earlier == old = None \/ Earliest(r) < Earliest(readers[old])
           next == IF Opens(r) /\ r.queue # <<>> /\ earlier THEN at ELSE old
<1>1. /\ emit.pc = "scan" /\ at \in DOMAIN readers
      /\ Opens(r) => Ready(r)
      /\ emit' = [emit EXCEPT !.at = @ + 1, !.next = next]
      /\ UNCHANGED <<play, input, readers, data, got>>
  BY DEF Scan
<1> HIDE DEF next
<1>2. emit'.pc = "scan" /\ emit'.at = at + 1 /\ emit'.next = next /\ at \in Nat
  <2>1. emit \in [pc : {"scan"}, at : Nat, next : {None} \cup Nat] /\ at \in Nat
    BY <1>1, EmittingMeans DEF InTyped
  <2>2. emit = [pc |-> "scan", at |-> emit.at, next |-> emit.next]
    BY <2>1
  <2>3. emit' = [pc |-> "scan", at |-> at + 1, next |-> next]
    BY <1>1, <2>2
  <2>4. QED
    BY <2>1, <2>3
<1>3. Taken' = Taken
  BY TakenBy
<1>4. \A k : LeftAt(k)' = LeftAt(k)
  BY <1>1 DEF LeftAt, Left
<1> SUFFICES ASSUME ~play.loop /\ FilesOrdered
             PROVE  (/\ Ordered(Taken)
                     /\ OrderedLeft
                     /\ Ahead
                     /\ ~Exited => Chosen)'
  BY <1>1 DEF OrderOK, FilesOrdered
<1>5. Ordered(Taken) /\ OrderedLeft /\ Ahead /\ (~Exited => Chosen)
  BY <1>1 DEF OrderOK
<1>6. Ordered(Taken)' /\ OrderedLeft' /\ Ahead'
  BY <1>1, <1>3, <1>4, <1>5 DEF OrderedLeft, Ahead, Ordered, Exited
<1>7. ASSUME NEW k \in DOMAIN readers, Opens(readers[k]), readers[k].queue # <<>>
      PROVE  LeftAt(k) # <<>> /\ Earliest(readers[k]) = Ts[LeftAt(k)[1]] /\ Ts[LeftAt(k)[1]] \in Nat
  <2>1. ReaderOK(readers[k]) /\ LeftAt(k) \in Seq(Records)
        /\ \A i \in DOMAIN LeftAt(k) : Ts[LeftAt(k)[i]] \in Nat
    BY <1>7, LeftTyped
  <2>2. Ordered(Left(readers[k]))
    BY <1>5, <1>7 DEF OrderedLeft, LeftAt
  <2>3. 1 \in DOMAIN LeftAt(k) /\ Earliest(readers[k]) = Ts[LeftAt(k)[1]]
    BY <1>7, <2>1, <2>2, EarliestIsFirst DEF LeftAt
  <2>4. LeftAt(k) # <<>>
    BY <2>3
  <2>5. QED
    BY <2>1, <2>3, <2>4
<1>8. old # None => old \in DOMAIN readers /\ Opens(readers[old]) /\ readers[old].queue # <<>>
  BY <1>1 DEF InTyped
<1>9. ASSUME ~Exited, NEW k \in DOMAIN readers, k < at + 1, Opens(readers[k]), LeftAt(k) # <<>>
      PROVE  next # None /\ Ts[LeftAt(next)[1]] <= Ts[LeftAt(k)[1]]
  <2>1. at # None
    BY <1>2 DEF None
  <2>2. CASE k = at
    <3>1. r.queue # <<>>
      <4> SUFFICES ASSUME r.queue = <<>> PROVE FALSE
        OBVIOUS
      <4>1. r.closed
        BY <1>1, <1>9, <2>2 DEF Ready
      <4>2. r.pos = Len(disk[r.name])
        BY <1>5, <1>9, <2>2, <4>1 DEF OrderedLeft
      <4>3. ReaderOK(r)
        BY <1>9, <2>2, LeftTyped
      <4>4. Len(Left(r)) = 0 /\ Left(r) \in Seq(Records)
        <5>1. Left(r) \in Seq(Records) /\ Len(Left(r)) = Len(r.queue) + (Len(disk[r.name]) - r.pos)
              /\ Len(disk[r.name]) \in Nat
          BY <4>3, LeftElements
        <5>2. Len(r.queue) = 0
          BY EmptySeq
        <5>3. QED
          BY <4>2, <5>1, <5>2
      <4>5. QED
        BY <1>9, <2>2, <4>4, EmptySeq DEF LeftAt
    <3>2. CASE earlier
      <4>1. next = at
        BY <1>9, <2>2, <3>1, <3>2 DEF next
      <4>2. QED
        BY <1>1, <1>7, <1>9, <2>1, <2>2, <3>1, <4>1
    <3>3. CASE ~earlier
      <4>1. next = old /\ old # None /\ ~ (Earliest(r) < Earliest(readers[old]))
        BY <3>3 DEF next
      <4>2. /\ Earliest(r) = Ts[LeftAt(at)[1]] /\ Ts[LeftAt(at)[1]] \in Nat
            /\ Earliest(readers[old]) = Ts[LeftAt(old)[1]] /\ Ts[LeftAt(old)[1]] \in Nat
        BY <1>1, <1>7, <1>8, <1>9, <2>2, <3>1, <4>1
      <4>3. QED
        BY <2>2, <4>1, <4>2
    <3>4. QED
      BY <3>2, <3>3
  <2>3. CASE k # at
    <3>1. k < at
      <4>1. k \in Nat
        BY DEF InTyped, ReadersTyped
      <4>2. QED
        BY <1>2, <1>9, <2>3, <4>1
    <3>2. old # None /\ Ts[LeftAt(old)[1]] <= Ts[LeftAt(k)[1]]
      BY <1>5, <1>9, <3>1 DEF Chosen
    <3>3. Ts[LeftAt(k)[1]] \in Nat
      BY <1>9, LeftTyped
    <3>4. Earliest(readers[old]) = Ts[LeftAt(old)[1]] /\ Ts[LeftAt(old)[1]] \in Nat
      BY <1>7, <1>8, <3>2
    <3>5. CASE Opens(r) /\ r.queue # <<>> /\ earlier
      <4>1. next = at /\ Earliest(r) < Earliest(readers[old])
        BY <3>2, <3>5 DEF next
      <4>2. Earliest(r) = Ts[LeftAt(at)[1]] /\ Ts[LeftAt(at)[1]] \in Nat
        BY <1>1, <1>7, <3>5
      <4>3. QED
        BY <2>1, <3>2, <3>3, <3>4, <4>1, <4>2
    <3>6. CASE ~ (Opens(r) /\ r.queue # <<>> /\ earlier)
      BY <3>2, <3>6 DEF next
    <3>7. QED
      BY <3>5, <3>6
  <2>4. QED
    BY <2>2, <2>3
<1>10. (~Exited => Chosen)'
  <2> SUFFICES ASSUME ~Exited PROVE Chosen'
    BY <1>1 DEF Exited
  <2>1. LeftAt(emit.next)' = LeftAt(next)
    BY <1>1, <1>2 DEF LeftAt, Left
  <2>2. QED
    BY <1>1, <1>2, <1>4, <1>9, <2>1 DEF Chosen
<1>11. QED
  BY <1>6, <1>10

\* All readers are looked at, so the chosen one has the earliest record of all files.
LEMMA PopInOrder ==
    ASSUME FilesTyped, InTyped, InTyped', OrderOK, UNCHANGED disk, Pop
    PROVE  OrderOK'
<1>1. PICK k \in DOMAIN readers, rec \in Records :
         /\ k = emit.next /\ emit.pc = "scan" /\ emit.at \notin DOMAIN readers
         /\ Opens(readers[k]) /\ readers[k].queue # <<>> /\ ReaderOK(readers[k])
         /\ DOMAIN readers' = DOMAIN readers
         /\ \A j \in DOMAIN readers : j # k => readers'[j] = readers[j]
         /\ ReaderOK(readers'[k]) /\ readers'[k].name = readers[k].name
         /\ readers'[k].pos = readers[k].pos /\ readers'[k].closed = readers[k].closed
         /\ Ordered(Left(readers[k])) => Ordered(Left(readers'[k]))
         /\ \A i \in DOMAIN Left(readers'[k]) :
               \E l \in DOMAIN Left(readers[k]) : Left(readers'[k])[i] = Left(readers[k])[l]
         /\ \E l \in DOMAIN Left(readers[k]) : Left(readers[k])[l] = rec
         /\ Ts[rec] = Earliest(readers[k])
         /\ emit' = [pc |-> "sleep", rec |-> rec]
         /\ UNCHANGED <<play, input, data, got>>
  BY PopTakes
<1>2. Taken \in Seq(Records) /\ Taken' = Append(Taken, rec)
  BY <1>1, TakenBy, TakenIs
<1> SUFFICES ASSUME ~play.loop /\ FilesOrdered
             PROVE  Ordered(Taken') /\ OrderedLeft' /\ (~Exited => Ahead')
  BY <1>1 DEF OrderOK, FilesOrdered, Exited
<1>3. Ordered(Taken) /\ OrderedLeft /\ Ahead /\ (~Exited => Chosen)
  BY <1>1 DEF OrderOK
<1> DEFINE n == Len(Taken)
<1>4. /\ n \in Nat /\ DOMAIN Taken = 1 .. n /\ \A i \in 1 .. n : Ts[Taken[i]] \in Nat
      /\ DOMAIN Taken' = 1 .. n + 1 /\ Taken'[n + 1] = rec
      /\ \A i \in 1 .. n : Taken'[i] = Taken[i]
  BY <1>2, TimesOfTaken, AppendProperties, LenProperties
<1> HIDE DEF n
<1>5. \A t \in 1 .. n : Ts[Taken[t]] <= Ts[rec]
  BY <1>1, <1>3, <1>4 DEF Ahead, LeftAt
<1>6. Ordered(Taken')
  <2> SUFFICES ASSUME NEW i \in 1 .. n + 1, NEW j \in 1 .. n + 1, i < j
               PROVE  Ts[Taken'[i]] <= Ts[Taken'[j]]
    BY <1>4 DEF Ordered
  <2>1. i \in 1 .. n
    BY <1>4
  <2>2. CASE j \in 1 .. n
    BY <1>3, <1>4, <2>1, <2>2 DEF Ordered
  <2>3. CASE j = n + 1
    BY <1>4, <1>5, <2>1, <2>3
  <2>4. QED
    BY <1>4, <2>2, <2>3
<1>7. \A j : LeftAt(j)' = Left(readers'[j])
  BY PrimedLeft
<1>8. \A j \in DOMAIN readers : Opens(readers'[j]) => Opens(readers[j])
  BY <1>1
<1>9. \A j \in DOMAIN readers : \A i \in DOMAIN LeftAt(j)' :
         \E l \in DOMAIN LeftAt(j) : LeftAt(j)'[i] = LeftAt(j)[l]
  BY <1>1, <1>7 DEF LeftAt
<1>10. \A j \in DOMAIN readers : Ordered(LeftAt(j)) => Ordered(LeftAt(j)')
  BY <1>1, <1>7 DEF LeftAt
<1>11. OrderedLeft'
  <2> SUFFICES ASSUME NEW j \in DOMAIN readers, Opens(readers'[j])
               PROVE  /\ Ordered(LeftAt(j)')
                      /\ readers'[j].closed /\ ~Exited' =>
                            readers'[j].pos = Len(disk[readers'[j].name])
    BY <1>1 DEF OrderedLeft, Ordered
  <2>1. /\ Ordered(LeftAt(j))
        /\ readers[j].closed /\ ~Exited => readers[j].pos = Len(disk[readers[j].name])
    BY <1>3, <1>8 DEF OrderedLeft
  <2>2. Exited' = Exited
    BY <1>1 DEF Exited
  <2>3. readers'[j].closed = readers[j].closed /\ readers'[j].pos = readers[j].pos
        /\ readers'[j].name = readers[j].name
    BY <1>1
  <2>4. QED
    BY <1>10, <2>1, <2>2, <2>3
<1>12. ASSUME ~Exited PROVE Ahead'
  <2> SUFFICES ASSUME NEW j \in DOMAIN readers, Opens(readers'[j]),
                      NEW t \in 1 .. n + 1, NEW i \in DOMAIN LeftAt(j)'
               PROVE  Ts[Taken'[t]] <= Ts[LeftAt(j)'[i]]
    BY <1>1, <1>4 DEF Ahead
  <2>1. Opens(readers[j])
    BY <1>8
  <2>2. PICK l \in DOMAIN LeftAt(j) : LeftAt(j)'[i] = LeftAt(j)[l]
    BY <1>9
  <2>3. CASE t \in 1 .. n
    BY <1>3, <1>4, <2>1, <2>2, <2>3 DEF Ahead
  <2>4. CASE t = n + 1
    <3>1. j < emit.at
      <4>1. PICK m \in Nat : DOMAIN readers = 1 .. m
        BY DEF InTyped, ReadersTyped
      <4>2. emit.at \in Nat /\ k < emit.at
        BY <1>1, EmittingMeans DEF InTyped, None
      <4>3. QED
        BY <1>1, <4>1, <4>2
    <3>2. /\ LeftAt(j) \in Seq(Records) /\ ReaderOK(readers[j])
          /\ \A a \in DOMAIN LeftAt(j) : Ts[LeftAt(j)[a]] \in Nat
          /\ LeftAt(j) # <<>> => 1 \in DOMAIN LeftAt(j)
      BY <2>1, LeftTyped
    <3>3. LeftAt(j) # <<>>
      BY <2>2
    <3>4. Ts[LeftAt(k)[1]] <= Ts[LeftAt(j)[1]]
      BY <1>1, <1>3, <1>12, <2>1, <3>1, <3>3 DEF Chosen
    <3>5. Ts[LeftAt(j)[1]] <= Ts[LeftAt(j)[l]]
      <4>1. Ordered(LeftAt(j)) /\ 1 \in DOMAIN LeftAt(j)
        BY <1>3, <2>1, <3>2, <3>3 DEF OrderedLeft
      <4>2. l = 1 \/ 1 < l
        BY <2>2, <3>2, TimesOfTaken
      <4>3. QED
        BY <2>2, <3>2, <4>1, <4>2 DEF Ordered
    <3>6. Ts[rec] = Ts[LeftAt(k)[1]] /\ Ts[LeftAt(k)[1]] \in Nat
      <4>1. Ordered(Left(readers[k]))
        BY <1>1, <1>3 DEF OrderedLeft, LeftAt
      <4>2. 1 \in DOMAIN Left(readers[k]) /\ Earliest(readers[k]) = Ts[Left(readers[k])[1]]
        BY <1>1, <4>1, EarliestIsFirst
      <4>3. Ts[LeftAt(k)[1]] \in Nat
        BY <1>1, <4>2, LeftTyped DEF LeftAt
      <4>4. QED
        BY <1>1, <4>2, <4>3 DEF LeftAt
    <3>7. Ts[LeftAt(j)[l]] \in Nat /\ Ts[LeftAt(j)[1]] \in Nat
      BY <2>2, <3>2, <3>3
    <3>8. QED
      BY <1>4, <2>2, <2>4, <3>4, <3>5, <3>6, <3>7
  <2>5. QED
    BY <1>4, <2>3, <2>4
<1>13. QED
  BY <1>6, <1>11, <1>12

\* Taken is a sequence of records.
LEMMA TakenSeq == InTyped => Taken \in Seq(Records)
  BY TakenIs

\* The record is handed on, or dropped as the last or as one of a dry run.
LEMMA RecheckInOrder ==
    ASSUME FilesTyped, InTyped, InTyped', OrderOK, UNCHANGED disk, Recheck
    PROVE  OrderOK'
<1>1. /\ emit.pc = "sleep" /\ UNCHANGED <<play, input, readers, data, got>>
      /\ emit'.pc # "ended" => ~Exited
      /\ emit'.pc # "scan"
  BY DEF Recheck
<1>2. \A k : LeftAt(k)' = LeftAt(k)
  BY <1>1 DEF LeftAt, Left
<1> SUFFICES ASSUME ~play.loop /\ FilesOrdered
             PROVE  Ordered(Taken') /\ OrderedLeft' /\ (Ahead => Ahead')
  BY <1>1 DEF OrderOK, FilesOrdered
<1>3. Ordered(Taken) /\ OrderedLeft
  BY <1>1 DEF OrderOK
<1>4. OrderedLeft'
  BY <1>1, <1>2, <1>3 DEF OrderedLeft, Exited
<1>5. Taken \in Seq(Records) /\ Taken' \in Seq(Records)
  <2>1. (InTyped => Taken \in Seq(Records))'
    BY TakenSeq, PTL
  <2>2. QED
    BY <2>1, TakenIs
<1>6. Taken' = Taken \/ \E rec \in Records : Taken = Append(Taken', rec)
  BY TakenBy DEF Drops
<1>7. \A i \in DOMAIN Taken' : i \in DOMAIN Taken /\ Taken'[i] = Taken[i]
  <2>1. CASE Taken' = Taken
    BY <2>1
  <2>2. ASSUME NEW rec \in Records, Taken = Append(Taken', rec)
        PROVE  \A i \in DOMAIN Taken' : i \in DOMAIN Taken /\ Taken'[i] = Taken[i]
    <3>1. /\ Len(Taken') \in Nat /\ DOMAIN Taken' = 1 .. Len(Taken')
          /\ Len(Taken) = Len(Taken') + 1 /\ DOMAIN Taken = 1 .. Len(Taken)
          /\ \A i \in 1 .. Len(Taken') : Taken[i] = Taken'[i]
      BY <1>5, <2>2, AppendProperties, LenProperties
    <3>2. QED
      BY <3>1
  <2>3. QED
    BY <1>6, <2>1, <2>2
<1>8. Ordered(Taken')
  BY <1>3, <1>7 DEF Ordered
<1>9. Ahead => Ahead'
  BY <1>1, <1>2, <1>7 DEF Ahead
<1>10. QED
  BY <1>4, <1>8, <1>9

\* Every step of a running input keeps the order.
LEMMA StaysInOrder ==
    ASSUME FilesTyped, InTyped, InTyped', OrderOK, UNCHANGED disk,
           NEW unreadable, InNext(unreadable), input # "off"
    PROVE  OrderOK'
<1>1. CASE CloseInput \/ \E k \in DOMAIN readers : Parse(k) \/ ParseEnds(k)
  BY <1>1, ReadersInOrder
<1>2. CASE Check
  BY <1>2, CheckInOrder
<1>3. CASE Scan
  BY <1>3, ScanInOrder
<1>4. CASE Pop
  BY <1>4, PopInOrder
<1>5. CASE Recheck
  BY <1>5, RecheckInOrder
<1>6. CASE Send \/ PluginRead
  <2>1. UNCHANGED <<play, readers, input>>
    BY <1>6 DEF Send, PluginRead
  <2>2. Taken' = Taken
    BY <1>6, TakenBy
  <2>3. UNCHANGED emit \/ (emit.pc \notin {"ended", "sleep"} /\ emit'.pc # "scan")
    BY <1>6 DEF Send, PluginRead
  <2>4. QED
    BY <2>1, <2>2, <2>3, StillInOrder
<1>7. CASE Exhausted(unreadable)
  <2>1. CASE play.loop
    BY <1>7, <2>1 DEF Exhausted, OrderOK
  <2>2. CASE ~play.loop
    <3>1. /\ UNCHANGED <<play, readers, input>>
          /\ emit.pc \notin {"ended", "sleep"} /\ emit'.pc # "scan"
      BY <1>7, <2>2 DEF Exhausted, Scanned
    <3>2. Taken' = Taken
      BY <1>7, TakenBy
    <3>3. QED
      BY <3>1, <3>2, StillInOrder
  <2>3. QED
    BY <2>1, <2>2
<1>8. QED
  BY <1>1, <1>2, <1>3, <1>4, <1>5, <1>6, <1>7 DEF InNext, Start, Parses, Emits

-----------------------------------------------------------------------------
(* The recording and its replay *)

ReplayInv ==
    /\ FilesTyped
    /\ input = "off" => InAlone
    /\ input # "off" => InTyped /\ PacedOK /\ OrderOK

\* init: every reader has all of its file left.
LEMMA StartsWell ==
    ASSUME FilesTyped, InAlone, NEW unreadable, Start(unreadable), UNCHANGED disk
    PROVE  input' = "running" /\ InTyped' /\ PacedOK' /\ OrderOK'
<1>1. /\ input' = "running" /\ play' \in Plays
      /\ readers' = NewReaders(play'.readDepth, unreadable)
      /\ emit' \in {[pc |-> "ended"], [pc |-> "check"]}
      /\ lastTime' = None /\ slept' = 0 /\ data' = <<>> /\ got' = <<>>
  BY DEF Start, InAlone, clockVars
<1>2. play' \in Play /\ play'.readDepth \in Nat
  BY <1>1, FileInputAssumption DEF Play
<1>3. /\ \E n \in Nat : DOMAIN readers' = 1 .. n
      /\ \A k \in DOMAIN readers' :
           Opens(readers'[k]) => /\ ReaderOK(readers'[k])
                                 /\ Left(readers'[k]) = disk[readers'[k].name]
                                 /\ readers'[k].closed => readers'[k].pos = Len(disk[readers'[k].name])
  BY <1>1, <1>2, FreshReaders
<1>4. ReadersTyped'
  BY <1>3 DEF ReadersTyped, ReaderOK, Reader
<1>5. InTyped'
  <2>1. emit' \in Emitting /\ emit'.pc # "scan" /\ None \in Int
    BY <1>1 DEF Emitting, None
  <2>2. data' \in Seq(Records) /\ got' \in Seq(Records)
    BY <1>1, EmptySeq
  <2>3. QED
    BY <1>1, <1>2, <1>4, <2>1, <2>2 DEF InTyped
<1>6. Taken' = <<>>
  <2>1. TakenOK'
    BY <1>5, TakenIsThrough, PTL
  <2>2. Taken' = Through'
    BY <1>1, <2>1 DEF TakenOK
  <2>3. Through' = <<>> \o <<>>
    BY <1>1 DEF Through
  <2>4. <<>> \o <<>> = <<>>
    <3>1. <<>> \in Seq(Records)
      BY EmptySeq
    <3>2. QED
      BY <3>1, ConcatEmptySeq
  <2>5. QED
    BY <2>2, <2>3, <2>4
<1>7. PacedOK'
  BY <1>1, <1>6 DEF PacedOK
<1>8. OrderOK'
  <2> SUFFICES ASSUME FilesOrdered'
               PROVE  Ordered(Taken') /\ OrderedLeft' /\ Ahead'
    BY <1>1 DEF OrderOK
  <2>1. FilesOrdered
    BY DEF FilesOrdered
  <2>2. Ordered(Taken') /\ Ahead'
    BY <1>6 DEF Ordered, Ahead
  <2>3. \A k : LeftAt(k)' = Left(readers'[k])
    BY PrimedLeft
  <2>4. ASSUME NEW k \in DOMAIN readers', Opens(readers'[k])
        PROVE  /\ Ordered(LeftAt(k)')
               /\ readers'[k].closed => readers'[k].pos = Len(disk[readers'[k].name])
    <3>1. readers'[k].name \in DOMAIN disk
      BY <1>3, <2>4 DEF ReaderOK, Reader
    <3>2. QED
      BY <1>3, <2>1, <2>3, <2>4, <3>1 DEF FilesOrdered
  <2>5. OrderedLeft'
    BY <2>4 DEF OrderedLeft, Ordered
  <2>6. QED
    BY <2>2, <2>5
<1>9. QED
  BY <1>1, <1>5, <1>7, <1>8

\* The inductive invariant of the replay: at first the input is off.
LEMMA ReplayInvAtFirst == Init => ReplayInv
<1> SUFFICES ASSUME Init PROVE ReplayInv
  OBVIOUS
<1>1. FilesTyped
  BY FilesTypedAtFirst DEF Init
<1>2. input = "off" /\ InAlone
  BY DEF Init, InInit, InAlone
<1>3. QED
  BY <1>1, <1>2 DEF ReplayInv

\* A running input keeps it.
LEMMA InStays ==
    ASSUME FilesTyped, InTyped, PacedOK, OrderOK, input # "off",
           NEW unreadable, InNext(unreadable), UNCHANGED disk
    PROVE  input' # "off" /\ InTyped' /\ PacedOK' /\ OrderOK'
<1>1. InTyped'
  BY InStaysTyped
<1>2. input' # "off"
  BY DEF InNext, Start, Parses, Parse, ParseEnds, Emits, Check, Scan, Exhausted, Pop, Recheck,
         Send, PluginRead, CloseInput
<1>3. PacedOK'
  BY <1>1, StaysPaced
<1>4. OrderOK'
  BY <1>1, StaysInOrder
<1>5. QED
  BY <1>1, <1>2, <1>3, <1>4

\* Recording does not touch the input, and the replay not the files.
LEMMA ReplayInvStays == ReplayInv /\ [Next]_vars => ReplayInv'
<1> SUFFICES ASSUME ReplayInv, [Next]_vars PROVE ReplayInv'
  OBVIOUS
<1>1. FilesTyped
  BY DEF ReplayInv
<1>2. CASE Record
  <2>1. FilesTyped'
    BY <1>1, <1>2, FilesStayTyped DEF Record
  <2>2. input' = "off" /\ InAlone'
    BY <1>2 DEF Record, inVars, clockVars, ReplayInv, InAlone
  <2>3. QED
    BY <2>1, <2>2 DEF ReplayInv
<1>3. CASE Replay
  <2>1. InNext(Unreadable) /\ UNCHANGED outVars /\ UNCHANGED disk
    BY <1>3 DEF Replay, outVars, fileVars
  <2>2. FilesTyped'
    BY <1>1, <2>1, FilesStayTyped
  <2>3. CASE input = "off"
    <3>1. InAlone
      BY <2>3 DEF ReplayInv
    <3>2. CASE Start(Unreadable)
      <4>1. input' = "running" /\ InTyped' /\ PacedOK' /\ OrderOK'
        BY <1>1, <2>1, <3>1, <3>2, StartsWell
      <4>2. QED
        BY <2>2, <4>1 DEF ReplayInv
    <3>3. ~ (PluginRead \/ CloseInput \/ Check \/ Scan \/ Exhausted(Unreadable) \/ Pop \/ Recheck \/ Send)
      BY <2>3, <3>1 DEF InAlone, PluginRead, CloseInput, Check, Scan, Exhausted, Pop, Recheck, Send, Scanned
    <3>4. CASE Parses
      <4>1. readers = <<>>
        BY <3>1 DEF InAlone
      <4>2. QED
        BY <3>4, <4>1, EmptySeq DEF Parses
    <3>5. QED
      BY <2>1, <3>2, <3>3, <3>4 DEF InNext, Emits
  <2>4. CASE input # "off"
    <3>1. input' # "off" /\ InTyped' /\ PacedOK' /\ OrderOK'
      BY <1>1, <2>1, <2>4, InStays DEF ReplayInv
    <3>2. QED
      BY <2>2, <3>1 DEF ReplayInv
  <2>5. QED
    BY <2>3, <2>4
<1>4. CASE UNCHANGED vars
  <2>1. UNCHANGED <<outVars, play, input, readers, emit, clockVars, data, got, disk>>
    BY <1>4 DEF vars, inVars, outVars, fileVars
  <2>2. FilesTyped'
    BY <1>1, <2>1, FilesStayTyped
  <2>3. InAlone => InAlone'
    BY <2>1 DEF InAlone, clockVars
  <2>4. Taken' = Taken
    BY <2>1 DEF Taken
  <2>5. PacedOK => PacedOK'
    BY <2>1, <2>4 DEF PacedOK, clockVars
  <2>6. OrderOK => OrderOK'
    BY <2>1, <2>4, StillInOrder
  <2>7. InTyped => InTyped'
    <3>1. InTyped => \A k \in DOMAIN readers : readers'[k] = readers[k]
      BY <2>1
    <3>2. QED
      BY <2>1, <3>1, GrowsTyped
  <2>8. QED
    BY <2>1, <2>2, <2>3, <2>5, <2>6, <2>7 DEF ReplayInv
<1>5. QED
  BY <1>2, <1>3, <1>4 DEF Next

\* nextReader and emit: if every file is in the order of time, so is what is replayed,
\* over any number of files, however far each parser has got, whatever readDepth, and
\* whenever the input is closed.
THEOREM ReplayInOrder == Spec => []InOrder
<1>1. ReplayInv => InOrder
  <2> SUFFICES ASSUME ReplayInv, play # NoPlay, ~play.loop, FilesOrdered PROVE Ordered(Taken)
    BY DEF InOrder, FilesOrdered
  <2>1. OrderOK
    BY DEF ReplayInv, InAlone
  <2>2. QED
    BY <2>1 DEF OrderOK
<1>2. QED
  BY <1>1, ReplayInvAtFirst, ReplayInvStays, PTL DEF Spec

\* emit at the speed of the recording: it has slept for exactly the time between the
\* first record and the latest one taken, for any files, also out of order.
THEOREM ReplayPaced == Spec => []Paced
<1>1. ReplayInv => Paced
  <2>1. CASE play = NoPlay
    BY <2>1 DEF Paced
  <2>2. CASE play # NoPlay
    <3>1. ReplayInv => InTyped /\ PacedOK
      BY <2>2 DEF ReplayInv, InAlone
    <3>2. QED
      BY <3>1, PacedFollows
  <2>3. QED
    BY <2>1, <2>2
<1>2. QED
  BY <1>1, ReplayInvAtFirst, ReplayInvStays, PTL DEF Spec
=============================================================================
