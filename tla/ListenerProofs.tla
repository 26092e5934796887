---------------------------- MODULE ListenerProofs ----------------------------
(***************************************************************************)
(* Theorems about Listener: with any number of interfaces, and whatever    *)
(* happens to them, handles are read by one goroutine each and the end is  *)
(* signalled once.                                                         *)
(***************************************************************************)
EXTENDS Listener, TLAPS, FiniteSetTheorems, FunctionTheorems, SequenceTheorems

ReaderType == [key : HandleKeys, handle : Nat, pc : {"reading", "closing", "ended"}]

\* Types, as far as they are needed, and what is so before Listen has started the
\* readers: only Activate has been called.
Base ==
    /\ readers \in Seq(ReaderType)
    /\ opened \in [HandleKeys -> Nat] /\ DOMAIN handles \subseteq HandleKeys /\ \A k \in DOMAIN handles : handles[k] \in Nat
    /\ visible \subseteq Names /\ listed \subseteq Names /\ pending \subseteq Names
    /\ pending \subseteq listed /\ (monitor # "activating" => pending = {})
    /\ listen = "starting" => /\ readers = <<>> /\ monitor = "none"
                              /\ ~closeDone /\ ~panicked /\ DOMAIN handles # {}
    /\ listen = "returned" => closeDone

\* Interfaces that do not come up are never found new, and so nothing is opened after
\* the first Activate: handles go one by one, each with the one reader it has.
SteadyInv ==
    Steady =>
        /\ visible \subseteq listed /\ pending = {}
        /\ \A k \in DOMAIN handles : handles[k] = 1 /\ <<k, 1>> \notin shut
        /\ \A k \in HandleKeys :
              /\ opened[k] \in {0, 1}
              /\ opened[k] = 1 => k \in DOMAIN handles \/ engine \notin Closers \/ <<k, 1>> \in shut
        /\ \A r \in DOMAIN readers :
              readers[r].handle = 1 /\ (readers[r].pc # "ended" => readers[r].key \in DOMAIN handles)
        /\ \A r, s \in DOMAIN readers : readers[r].key = readers[s].key => r = s
        /\ listen # "starting" => \A k \in DOMAIN handles : \E r \in DOMAIN readers :
              readers[r].key = k /\ readers[r].handle = 1 /\ readers[r].pc # "ended"
        /\ closeDone <=> DOMAIN handles = {}
        /\ ~panicked

\* The file is read once, though the monitor opens it again.
FileInv ==
    engine = "pcap_file" =>
        /\ DOMAIN handles \subseteq {FileKey}
        /\ Len(readers) <= 1
        /\ closeDone => \A r \in DOMAIN readers : readers[r].pc = "ended"
        /\ shut = {} /\ ~panicked

\* When no interface goes and listing does not fail, listed only grows, and a reader
\* is started for what it grows by.
KeysInv ==
    (engine # "pcap_file" /\ faults \cap {"list", "vanish"} = {}) =>
        /\ listed \subseteq visible
        /\ \A r \in DOMAIN readers : readers[r].key \in listed \ pending
        /\ \A r, s \in DOMAIN readers : readers[r].key = readers[s].key => r = s
        /\ listen = "starting" => DOMAIN handles \subseteq listed

IInv == engine \in EngineKinds /\ Base /\ SteadyInv /\ FileInv /\ KeysInv

-----------------------------------------------------------------------------
(* The readers Listen starts *)

\* The sequence a finite set is made into has each of its elements once.
LEMMA AsSequence ==
    ASSUME NEW S, IsFiniteSet(S)
    PROVE  /\ SetToSeq(S) \in Seq(S) /\ Len(SetToSeq(S)) = Cardinality(S)
           /\ \A i, j \in DOMAIN SetToSeq(S) : SetToSeq(S)[i] = SetToSeq(S)[j] => i = j
           /\ \A x \in S : \E i \in DOMAIN SetToSeq(S) : SetToSeq(S)[i] = x
<1> DEFINE n == Cardinality(S)
           s == SetToSeq(S)
<1>1. n \in Nat /\ \E f \in Bijection(1 .. n, S) : TRUE
  BY FS_CardinalityType, Fun_ExistsBij
<1>2. s \in [1 .. n -> S] /\ IsInjective(s)
  <2>1. \E f \in [1 .. n -> S] : IsInjective(f)
    BY <1>1 DEF Bijection, Injection
  <2>2. QED
    BY <2>1 DEF SetToSeq
<1>3. \A i, j \in 1 .. n : s[i] = s[j] => i = j
  BY <1>2 DEF IsInjective
<1>4. s \in Surjection(1 .. n, S)
  <2>1. s \in Injection(1 .. n, S)
    BY <1>2 DEF Injection
  <2>2. IsFiniteSet(1 .. n) /\ Cardinality(1 .. n) = n
    BY <1>1, FS_Interval
  <2>3. QED
    BY <2>1, <2>2, FS_Injection
<1>5. \A x \in S : \E i \in 1 .. n : s[i] = x
  BY <1>4 DEF Surjection
<1>6. s \in Seq(S) /\ Len(s) = n /\ DOMAIN s = 1 .. n
  BY <1>1, <1>2
<1>7. QED
  BY <1>3, <1>5, <1>6

LEMMA Started ==
    ASSUME Base, ListenStarts
    PROVE  /\ readers' \in Seq(ReaderType)
           /\ \A k \in DOMAIN handles : \E r \in DOMAIN readers' : readers'[r] = Reader(k, handles[k])
           /\ \A r \in DOMAIN readers' : \E k \in DOMAIN handles : readers'[r] = Reader(k, handles[k])
           /\ \A r, s \in DOMAIN readers' : readers'[r].key = readers'[s].key => r = s
           /\ DOMAIN handles \subseteq {FileKey} => Len(readers') <= 1
<1> DEFINE S == {Reader(k, handles[k]) : k \in DOMAIN handles}
           f == [k \in DOMAIN handles |-> Reader(k, handles[k])]
<1>1. IsFiniteSet(DOMAIN handles)
  <2>1. IsFiniteSet(HandleKeys)
    BY ListenerAssumption, FS_AddElement DEF HandleKeys
  <2>2. QED
    BY <2>1, FS_Subset DEF Base
<1>2. f \in Surjection(DOMAIN handles, S)
  BY Fun_IsSurj
<1>3. IsFiniteSet(S) /\ Cardinality(S) <= Cardinality(DOMAIN handles) /\ Cardinality(S) \in Nat
  BY <1>1, <1>2, FS_Surjection, FS_CardinalityType
<1>4. readers' = SetToSeq(S)
  BY DEF ListenStarts
<1>5. S \subseteq ReaderType
  BY DEF Base, Reader, ReaderType
<1>6. /\ readers' \in Seq(S) /\ Len(readers') = Cardinality(S)
      /\ \A i, j \in DOMAIN readers' : readers'[i] = readers'[j] => i = j
      /\ \A x \in S : \E i \in DOMAIN readers' : readers'[i] = x
  BY <1>3, <1>4, AsSequence
<1>7. readers' \in Seq(ReaderType)
  BY <1>5, <1>6
<1>8. \A r \in DOMAIN readers' : readers'[r] \in S
  BY <1>6
<1>9. \A r, s \in DOMAIN readers' : readers'[r].key = readers'[s].key => r = s
  BY <1>6, <1>8 DEF Reader
<1>10. ASSUME DOMAIN handles \subseteq {FileKey} PROVE Len(readers') <= 1
  <2>1. IsFiniteSet({FileKey}) /\ Cardinality({FileKey}) = 1
    BY FS_Singleton
  <2>2. Cardinality(DOMAIN handles) <= 1 /\ Cardinality(DOMAIN handles) \in Nat
    BY <1>1, <1>10, <2>1, FS_Subset, FS_CardinalityType
  <2>3. QED
    BY <1>3, <1>6, <2>2
<1>11. ASSUME NEW k \in DOMAIN handles PROVE \E r \in DOMAIN readers' : readers'[r] = Reader(k, handles[k])
  <2>1. Reader(k, handles[k]) \in S
    OBVIOUS
  <2> HIDE DEF S
  <2>2. PICK r \in DOMAIN SetToSeq(S) : SetToSeq(S)[r] = Reader(k, handles[k])
    BY <1>3, <2>1, AsSequence
  <2>3. QED
    BY <1>4, <2>2
<1>12. \A r \in DOMAIN readers' : \E k \in DOMAIN handles : readers'[r] = Reader(k, handles[k])
  BY <1>8
<1>13. QED
  BY <1>7, <1>9, <1>10, <1>11, <1>12

-----------------------------------------------------------------------------
(* The steps *)

LEMMA InitInv == ListenerInit => IInv
<1> SUFFICES ASSUME ListenerInit PROVE IInv
  OBVIOUS
<1>0. /\ engine \in EngineKinds /\ visible \subseteq Names /\ visible # {}
      /\ listed = (IF engine = "pcap_file" THEN {} ELSE visible)
  BY ListenerAssumption DEF ListenerInit, Setting
<1>1. PICK keys : /\ keys \subseteq HandleKeys /\ keys # {}
                  /\ engine = "pcap_file" => keys = {FileKey}
                  /\ engine # "pcap_file" => keys \subseteq visible
                  /\ opened = [k \in HandleKeys |-> IF k \in keys THEN 1 ELSE 0]
                  /\ handles = [k \in keys |-> 1]
  BY <1>0 DEF ListenerInit, HandleKeys
<1>2. readers = <<>> /\ DOMAIN readers = {} /\ readers \in Seq(ReaderType)
  BY EmptySeq DEF ListenerInit
<1>3. Base
  BY <1>0, <1>1, <1>2 DEF ListenerInit, Base
<1>4. SteadyInv
  BY <1>0, <1>1, <1>2 DEF ListenerInit, SteadyInv, Steady
<1>5. FileInv
  BY <1>1, <1>2 DEF ListenerInit, FileInv
<1>6. KeysInv
  BY <1>0, <1>1, <1>2 DEF ListenerInit, KeysInv
<1>7. QED
  BY <1>0, <1>3, <1>4, <1>5, <1>6 DEF IInv

LEMMA ListenStartsInv == ASSUME IInv, ListenStarts PROVE IInv'
<1> USE DEF IInv
<1>1. /\ readers' \in Seq(ReaderType)
      /\ \A k \in DOMAIN handles : \E r \in DOMAIN readers' : readers'[r] = Reader(k, handles[k])
      /\ \A r \in DOMAIN readers' : \E k \in DOMAIN handles : readers'[r] = Reader(k, handles[k])
      /\ \A r, s \in DOMAIN readers' : readers'[r].key = readers'[s].key => r = s
      /\ DOMAIN handles \subseteq {FileKey} => Len(readers') <= 1
  BY Started
<1>2. /\ UNCHANGED <<env, resources, listed, pending, signals, panicked>>
      /\ listen = "starting" /\ listen' = "select" /\ monitor' = "sleep"
  BY DEF ListenStarts
<1> USE DEF env, resources, signals
<1>3. Base'
  BY <1>1, <1>2 DEF Base
<1>4. SteadyInv'
  <2> SUFFICES ASSUME Steady PROVE SteadyInv'
    BY <1>2 DEF SteadyInv, Steady
  <2>1. \A k \in DOMAIN handles' : \E r \in DOMAIN readers' :
           readers'[r].key = k /\ readers'[r].handle = 1 /\ readers'[r].pc # "ended"
    <3> SUFFICES ASSUME NEW k \in DOMAIN handles
                 PROVE  \E r \in DOMAIN readers' :
                          readers'[r].key = k /\ readers'[r].handle = 1 /\ readers'[r].pc # "ended"
      BY <1>2
    <3>1. PICK r \in DOMAIN readers' : readers'[r] = Reader(k, handles[k])
      BY <1>1
    <3>2. handles[k] = 1
      BY DEF SteadyInv
    <3>3. QED
      BY <3>1, <3>2 DEF Reader
  <2>2. \A r \in DOMAIN readers' :
           readers'[r].handle = 1 /\ (readers'[r].pc # "ended" => readers'[r].key \in DOMAIN handles')
    <3> SUFFICES ASSUME NEW r \in DOMAIN readers'
                 PROVE  readers'[r].handle = 1 /\ readers'[r].key \in DOMAIN handles'
      OBVIOUS
    <3>1. PICK k \in DOMAIN handles : readers'[r] = Reader(k, handles[k])
      BY <1>1
    <3>2. handles[k] = 1 /\ handles' = handles
      BY <1>2 DEF SteadyInv
    <3>3. QED
      BY <3>1, <3>2 DEF Reader
  <2>3. /\ UNCHANGED <<engine, faults, visible, listed, pending, opened, handles, shut, closeDone, panicked>>
        /\ listen' # "starting" /\ ~closeDone /\ DOMAIN handles # {}
    BY <1>2 DEF Base
  <2>4. QED
    BY <1>1, <2>1, <2>2, <2>3 DEF SteadyInv
<1>5. FileInv'
  BY <1>1, <1>2 DEF FileInv, Base
<1>6. KeysInv'
  BY <1>1, <1>2 DEF KeysInv, Base, Reader
<1>7. QED
  BY <1>2, <1>3, <1>4, <1>5, <1>6

\* A socket that another has closed is read only where a handle has two readers.
LEMMA PanicsInv == ASSUME IInv, NEW r \in DOMAIN readers, ReadPanics(r) PROVE IInv'
<1> USE DEF IInv
<1>1. /\ readers[r].pc = "reading" /\ <<readers[r].key, readers[r].handle>> \in shut
      /\ UNCHANGED <<env, resources, readers, watch, listen, signals>>
  BY DEF ReadPanics
<1> USE DEF env, resources, watch, signals
<1>2. ~Steady /\ engine # "pcap_file"
  BY <1>1 DEF SteadyInv, FileInv
<1>3. listen # "starting"
  BY EmptySeq DEF Base
<1>4. Base'
  BY <1>1, <1>3 DEF Base
<1>5. SteadyInv' /\ FileInv' /\ KeysInv'
  BY <1>1, <1>2 DEF SteadyInv, Steady, FileInv, KeysInv
<1>6. QED
  BY <1>1, <1>4, <1>5

\* Steps that change neither handles nor readers nor the interfaces.
LEMMA SignalsInv ==
    ASSUME IInv, ListenCancelled \/ ListenReturns \/ MonitorWakes \/ MonitorSleeps
                 \/ EmitterCloses \/ ListenerEnded
    PROVE  IInv'
<1>1. /\ UNCHANGED <<env, resources, readers, pending, listed, closeDone, panicked>>
      /\ listen' = listen \/ (listen # "starting" /\ listen' = "waiting")
         \/ (listen # "starting" /\ listen' = "returned" /\ closeDone)
      /\ monitor' # "activating" => pending = {}
      /\ listen = "starting" => monitor' = monitor
      /\ listen' = "starting" <=> listen = "starting"
  BY DEF IInv, Base, ListenCancelled, ListenReturns, MonitorWakes, MonitorSleeps, EmitterCloses,
         ListenerEnded, Close, env, resources, watch, signals
<1>2. Base'
  BY <1>1 DEF IInv, Base, env, resources
<1>3. SteadyInv'
  BY <1>1 DEF IInv, SteadyInv, Steady, env, resources
<1>4. FileInv'
  BY <1>1 DEF IInv, FileInv, env, resources
<1>5. KeysInv'
  BY <1>1 DEF IInv, KeysInv, env, resources
<1>6. QED
  BY <1>1, <1>2, <1>3, <1>4, <1>5 DEF IInv, env

LEMMA ListsInv == ASSUME IInv, MonitorLists \/ MonitorListsNothing PROVE IInv'
<1>1. /\ UNCHANGED <<engine, faults, visible, resources, readers, listen, signals, panicked>>
      /\ monitor = "listing" /\ monitor' = "activating"
      /\ \/ listed' = visible /\ pending' = visible \ listed
         \/ "list" \in faults /\ listed' = {} /\ pending' = {}
  BY DEF MonitorLists, MonitorListsNothing, SetInterfaces, env
<1> USE DEF IInv, resources, signals
<1>2. listen # "starting" /\ pending = {}
  BY <1>1 DEF Base
<1>3. Base'
  BY <1>1, <1>2 DEF Base
<1>4. SteadyInv'
  BY <1>1, <1>2 DEF SteadyInv, Steady
<1>5. FileInv'
  BY <1>1 DEF FileInv
<1>6. KeysInv'
  BY <1>1, <1>2 DEF KeysInv
<1>7. QED
  BY <1>1, <1>3, <1>4, <1>5, <1>6

LEMMA ActivateType ==
    ASSUME Base, NEW names \in SUBSET Names, Activate(names)
    PROVE  /\ opened' \in [HandleKeys -> Nat] /\ DOMAIN handles' \subseteq HandleKeys
           /\ \A k \in DOMAIN handles' : handles'[k] \in Nat
           /\ engine = "pcap_file" => DOMAIN handles' \subseteq DOMAIN handles \cup {FileKey}
<1>1. PICK new : /\ new \subseteq (IF engine = "pcap_file" THEN {FileKey} ELSE names \ DOMAIN handles)
                 /\ opened' = [k \in HandleKeys |-> IF k \in new THEN opened[k] + 1 ELSE opened[k]]
                 /\ handles' = [k \in DOMAIN handles \cup new |-> IF k \in new THEN opened'[k] ELSE handles[k]]
  BY DEF Activate
<1>2. new \subseteq HandleKeys
  BY <1>1 DEF HandleKeys
<1>3. opened' \in [HandleKeys -> Nat]
  BY <1>1 DEF Base
<1>4. QED
  BY <1>1, <1>2, <1>3 DEF Base

LEMMA ActivatesInv == ASSUME IInv, NEW n \in Names, MonitorActivates(n) PROVE IInv'
<1> USE DEF IInv
<1>1. /\ n \in pending /\ pending' = pending \ {n} /\ monitor = "activating"
      /\ UNCHANGED <<env, shut, monitor, listed, listen, signals, panicked>>
      /\ Activate(listed)
      /\ readers' = IF n \in DOMAIN handles' THEN Append(readers, Reader(n, handles'[n])) ELSE readers
  BY DEF MonitorActivates
<1> USE DEF env, signals
<1>2. ~Steady /\ listen # "starting"
  BY <1>1 DEF SteadyInv, Base
<1>3. /\ opened' \in [HandleKeys -> Nat] /\ DOMAIN handles' \subseteq HandleKeys
      /\ \A k \in DOMAIN handles' : handles'[k] \in Nat
      /\ engine = "pcap_file" => DOMAIN handles' \subseteq DOMAIN handles \cup {FileKey}
  BY <1>1, ActivateType DEF Base
<1>4. CASE n \notin DOMAIN handles'
  <2>1. Base'
    BY <1>1, <1>2, <1>3, <1>4 DEF Base
  <2>2. SteadyInv' /\ FileInv' /\ KeysInv'
    BY <1>1, <1>2, <1>3, <1>4 DEF SteadyInv, Steady, FileInv, KeysInv
  <2>3. QED
    BY <1>1, <2>1, <2>2
<1>5. CASE n \in DOMAIN handles'
  <2> DEFINE new == Reader(n, handles'[n])
  <2>1. new \in ReaderType /\ new.key = n
    BY <1>3, <1>5 DEF Reader, ReaderType, HandleKeys
  <2>2. /\ readers' = Append(readers, new) /\ readers \in Seq(ReaderType) /\ Len(readers) \in Nat
        /\ readers' \in Seq(ReaderType)
        /\ DOMAIN readers' = DOMAIN readers \cup {Len(readers) + 1} /\ DOMAIN readers = 1 .. Len(readers)
        /\ \A r \in DOMAIN readers : readers'[r] = readers[r]
        /\ readers'[Len(readers) + 1] = new
    BY <1>1, <1>5, <2>1 DEF Base
  <2>3. engine # "pcap_file"
    BY <1>1, <1>3, <1>5, ListenerAssumption DEF FileInv, EngineKinds
  <2>4. Base'
    BY <1>1, <1>2, <1>3, <2>2 DEF Base
  <2>5. KeysInv'
    <3> SUFFICES ASSUME engine # "pcap_file", faults \cap {"list", "vanish"} = {} PROVE KeysInv'
      BY <1>1 DEF KeysInv
    <3>1. \A r \in DOMAIN readers : readers[r].key \in listed \ pending
      BY DEF KeysInv
    <3>2. n \in listed
      BY <1>1 DEF Base
    <3>3. QED
      BY <1>1, <1>2, <2>1, <2>2, <3>1, <3>2 DEF KeysInv
  <2>6. QED
    BY <1>1, <1>2, <2>3, <2>4, <2>5 DEF SteadyInv, Steady, FileInv
<1>6. QED
  BY <1>4, <1>5

LEMMA Moved ==
    ASSUME Base, NEW r \in DOMAIN readers, NEW pc \in {"closing", "ended"},
           readers' = [readers EXCEPT ![r].pc = pc]
    PROVE  /\ readers' \in Seq(ReaderType) /\ Len(readers') = Len(readers) /\ DOMAIN readers' = DOMAIN readers
           /\ DOMAIN readers = 1 .. Len(readers)
           /\ \A q \in DOMAIN readers :
                 /\ readers'[q].key = readers[q].key /\ readers'[q].handle = readers[q].handle
                 /\ readers'[q].pc = IF q = r THEN pc ELSE readers[q].pc
<1> DEFINE moved == [readers[r] EXCEPT !.pc = pc]
<1>1. readers \in Seq(ReaderType) /\ readers[r] \in ReaderType
  BY DEF Base
<1>2. readers' = [readers EXCEPT ![r] = moved]
  OBVIOUS
<1>3. moved \in ReaderType /\ moved.key = readers[r].key /\ moved.handle = readers[r].handle /\ moved.pc = pc
  BY <1>1 DEF ReaderType
<1>4. QED
  BY <1>1, <1>2, <1>3

LEMMA EndsInv == ASSUME IInv, NEW r \in DOMAIN readers, Stops(r) PROVE IInv'
<1> USE DEF IInv
<1>1. /\ readers[r].pc = "reading" /\ readers' = [readers EXCEPT ![r].pc = "closing"]
      /\ UNCHANGED <<env, resources, watch, listen, signals, panicked>>
  BY DEF Stops
<1> USE DEF env, resources, watch, signals
<1>2. /\ readers' \in Seq(ReaderType) /\ Len(readers') = Len(readers) /\ DOMAIN readers' = DOMAIN readers
      /\ \A q \in DOMAIN readers : /\ readers'[q].key = readers[q].key /\ readers'[q].handle = readers[q].handle
                                   /\ (readers'[q].pc = "ended") <=> (readers[q].pc = "ended")
  <2>1. \A q \in DOMAIN readers : /\ readers'[q].key = readers[q].key /\ readers'[q].handle = readers[q].handle
                                  /\ readers'[q].pc = IF q = r THEN "closing" ELSE readers[q].pc
    BY <1>1, Moved
  <2>2. readers' \in Seq(ReaderType) /\ Len(readers') = Len(readers) /\ DOMAIN readers' = DOMAIN readers
    BY <1>1, Moved
  <2>3. QED
    BY <1>1, <2>1, <2>2
<1>3. Base'
  BY <1>1, <1>2 DEF Base
<1>4. SteadyInv'
  BY <1>1, <1>2 DEF SteadyInv, Steady
<1>5. FileInv'
  BY <1>1, <1>2 DEF FileInv
<1>6. KeysInv'
  BY <1>1, <1>2 DEF KeysInv
<1>7. QED
  BY <1>1, <1>3, <1>4, <1>5, <1>6

LEMMA CloseHandlesInv == ASSUME IInv, ~panicked, NEW r \in DOMAIN readers, CloseHandles(r) PROVE IInv'
<1> USE DEF IInv
<1> DEFINE key == readers[r].key
<1>1. /\ readers[r].pc = "closing" /\ readers' = [readers EXCEPT ![r].pc = "ended"]
      /\ UNCHANGED <<env, opened, watch, listen>>
      /\ \/ /\ key \in DOMAIN handles
            /\ shut' = IF engine \in Closers THEN shut \cup {<<key, handles[key]>>} ELSE shut
            /\ DOMAIN handles' = DOMAIN handles \ {key}
            /\ \A k \in DOMAIN handles' : handles'[k] = handles[k]
            /\ closeDone' <=> closeDone \/ DOMAIN handles' = {}
            /\ panicked' <=> closeDone /\ DOMAIN handles' = {}
         \/ key \notin DOMAIN handles /\ UNCHANGED <<shut, handles, closeDone, panicked>>
  BY DEF CloseHandles, Restrict
<1> USE DEF env, watch
<1>2. /\ readers' \in Seq(ReaderType) /\ Len(readers') = Len(readers) /\ DOMAIN readers' = DOMAIN readers
      /\ DOMAIN readers = 1 .. Len(readers)
      /\ \A q \in DOMAIN readers : /\ readers'[q].key = readers[q].key /\ readers'[q].handle = readers[q].handle
                                   /\ readers'[q].pc = IF q = r THEN "ended" ELSE readers[q].pc
  BY <1>1, Moved
<1>3. listen # "starting"
  BY <1>1, <1>2 DEF Base
<1>4. Base'
  BY <1>1, <1>2, <1>3 DEF Base
<1>5. SteadyInv'
  <2> SUFFICES ASSUME Steady PROVE SteadyInv'
    BY <1>1 DEF SteadyInv, Steady
  <2>1. \A k \in DOMAIN handles' : \E q \in DOMAIN readers' :
           readers'[q].key = k /\ readers'[q].handle = 1 /\ readers'[q].pc # "ended"
    <3> SUFFICES ASSUME NEW k \in DOMAIN handles'
                 PROVE  \E q \in DOMAIN readers' :
                          readers'[q].key = k /\ readers'[q].handle = 1 /\ readers'[q].pc # "ended"
      OBVIOUS
    <3>1. k # key /\ k \in DOMAIN handles
      BY <1>1
    <3>2. PICK q \in DOMAIN readers : readers[q].key = k /\ readers[q].handle = 1 /\ readers[q].pc # "ended"
      BY <1>3, <3>1 DEF SteadyInv
    <3>3. QED
      BY <1>2, <3>1, <3>2
  <2>2. /\ \A k \in DOMAIN handles' : handles'[k] = 1 /\ <<k, 1>> \notin shut'
        /\ \A k \in HandleKeys :
              /\ opened'[k] \in {0, 1}
              /\ opened'[k] = 1 => k \in DOMAIN handles' \/ engine \notin Closers \/ <<k, 1>> \in shut'
    BY <1>1 DEF SteadyInv
  <2>3. (closeDone' <=> DOMAIN handles' = {}) /\ ~panicked' /\ (closeDone => closeDone')
    BY <1>1 DEF SteadyInv
  <2>4. /\ \A q \in DOMAIN readers' :
              readers'[q].handle = 1 /\ (readers'[q].pc # "ended" => readers'[q].key \in DOMAIN handles')
        /\ \A q, p \in DOMAIN readers' : readers'[q].key = readers'[p].key => q = p
    BY <1>1, <1>2 DEF SteadyInv
  <2>5. QED
    BY <1>1, <1>3, <2>1, <2>2, <2>3, <2>4 DEF SteadyInv
<1>6. FileInv'
  <2> SUFFICES ASSUME engine = "pcap_file" PROVE FileInv'
    BY <1>1 DEF FileInv
  <2>1. \A q \in DOMAIN readers : q = r
    BY <1>2 DEF FileInv, Base
  <2>2. ~closeDone
    BY <1>1 DEF FileInv
  <2>3. QED
    BY <1>1, <1>2, <2>1, <2>2 DEF FileInv, Closers
<1>7. KeysInv'
  BY <1>1, <1>2, <1>3 DEF KeysInv
<1>8. QED
  BY <1>1, <1>4, <1>5, <1>6, <1>7

LEMMA EnvironmentInv == ASSUME IInv, NEW n \in Names, Appear(n) \/ Vanish(n) PROVE IInv'
<1>1. /\ UNCHANGED <<engine, faults, resources, readers, watch, listen, signals, panicked>>
      /\ \/ "appear" \in faults /\ visible' = visible \cup {n}
         \/ "vanish" \in faults /\ visible' = visible \ {n}
  BY DEF Appear, Vanish
<1> USE DEF IInv, resources, watch, signals
<1>2. Base'
  BY <1>1 DEF Base
<1>3. SteadyInv'
  BY <1>1 DEF SteadyInv, Steady
<1>4. FileInv' /\ KeysInv'
  BY <1>1 DEF FileInv, KeysInv
<1>5. QED
  BY <1>1, <1>2, <1>3, <1>4

LEMMA StepInv == IInv /\ [ListenerNext]_listenerVars => IInv'
<1> SUFFICES ASSUME IInv, [ListenerNext]_listenerVars PROVE IInv'
  OBVIOUS
<1>1. CASE ListenStarts
  BY <1>1, ListenStartsInv
<1>2. CASE ListenCancelled \/ ListenReturns \/ MonitorWakes \/ MonitorSleeps \/ EmitterCloses \/ ListenerEnded
  BY <1>2, SignalsInv
<1>3. CASE MonitorLists \/ MonitorListsNothing
  BY <1>3, ListsInv
<1>4. CASE \E n \in Names : MonitorActivates(n)
  BY <1>4, ActivatesInv
<1>5. CASE \E r \in DOMAIN readers : ReadFails(r) \/ ReadQuits(r)
  BY <1>5, EndsInv DEF ReadFails, ReadQuits
<1>10. CASE \E r \in DOMAIN readers : ReadPanics(r)
  BY <1>10, PanicsInv
<1>6. CASE ~panicked /\ \E r \in DOMAIN readers : CloseHandles(r)
  BY <1>6, CloseHandlesInv
<1>7. CASE \E n \in Names : Appear(n) \/ Vanish(n)
  BY <1>7, EnvironmentInv
<1>8. CASE UNCHANGED listenerVars
  <2>1. UNCHANGED <<env, resources, readers, watch, listen, signals, panicked>>
    BY <1>8 DEF listenerVars
  <2>2. Base' /\ SteadyInv'
    BY <2>1 DEF IInv, Base, SteadyInv, Steady, env, resources, watch, signals
  <2>3. FileInv' /\ KeysInv'
    BY <2>1 DEF IInv, FileInv, KeysInv, env, resources, watch, signals
  <2>4. QED
    BY <2>1, <2>2, <2>3 DEF IInv, env
<1>9. QED
  BY <1>1, <1>2, <1>3, <1>4, <1>5, <1>6, <1>7, <1>8, <1>10 DEF ListenerNext, Monitor

LEMMA Invariance == ListenerSpec => []IInv
<1>1. ListenerInit => IInv
  BY InitInv
<1>2. IInv /\ [ListenerNext]_listenerVars => IInv'
  BY StepInv
<1>3. QED
  BY <1>1, <1>2, PTL DEF ListenerSpec

-----------------------------------------------------------------------------
(* Theorems *)

\* While no interface comes up every handle has a goroutine that reads it and will
\* close it; and while none goes no two goroutines read the same handle: for any
\* number of interfaces and changes (readHandle and the monitor of Listen).
THEOREM ReadersMatch == ListenerSpec => []ReadByOne
<1>1. IInv => ReadByOne
  <2> SUFFICES ASSUME IInv PROVE ReadByOne
    OBVIOUS
  <2>1. ASSUME Steady, listen # "starting", NEW k \in DOMAIN handles
        PROVE  \E r \in Running : readers[r].key = k /\ readers[r].handle = handles[k]
    BY <2>1 DEF IInv, SteadyInv, Running
  <2>2. ASSUME faults \cap {"list", "vanish"} = {}, NEW r \in Running, NEW s \in Running,
               readers[r].key = readers[s].key
        PROVE  r = s
    <3>1. CASE engine # "pcap_file"
      BY <2>2, <3>1 DEF IInv, KeysInv, Running
    <3>2. CASE engine = "pcap_file"
      <4>1. DOMAIN readers = 1 .. Len(readers) /\ Len(readers) <= 1 /\ Len(readers) \in Nat
        BY <3>2 DEF IInv, FileInv, Base
      <4>2. QED
        BY <2>2, <4>1 DEF Running
    <3>3. QED
      BY <3>1, <3>2 DEF IInv, EngineKinds
  <2>3. QED
    BY <2>1, <2>2 DEF ReadByOne
<1>2. QED
  BY <1>1, Invariance, PTL

\* Under the same conditions, or with a file, the end is signalled once and no closed
\* socket is read; when Listen returns nothing is read any more, and every handle
\* that is an io.Closer is closed (closeHandles, Listen).
THEOREM EndsOnce == ListenerSpec => []ClosedOnce
<1>1. IInv => ClosedOnce
  <2> SUFFICES ASSUME IInv, Steady \/ engine = "pcap_file" PROVE ClosedOnce
    BY DEF ClosedOnce
  <2>1. ~panicked
    BY DEF IInv, SteadyInv, FileInv
  <2>2. ASSUME listen = "returned" PROVE Running = {}
    <3>1. closeDone
      BY <2>2 DEF IInv, Base
    <3>2. QED
      BY <3>1 DEF IInv, SteadyInv, FileInv, Running
  <2>3. ASSUME listen = "returned", engine \in Closers, NEW k \in HandleKeys, NEW g \in 1 .. opened[k]
        PROVE  <<k, g>> \in shut
    <3>1. Steady /\ closeDone
      BY <2>3 DEF IInv, Base, Closers
    <3>2. opened[k] \in {0, 1} /\ DOMAIN handles = {}
      BY <3>1 DEF IInv, SteadyInv
    <3>3. opened[k] = 1 /\ g = 1
      BY <2>3, <3>2
    <3>4. QED
      BY <2>3, <3>1, <3>2, <3>3 DEF IInv, SteadyInv
  <2>4. QED
    BY <2>1, <2>2, <2>3 DEF ClosedOnce
<1>2. QED
  BY <1>1, Invariance, PTL
=============================================================================
