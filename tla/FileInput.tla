----------------------------- MODULE FileInput ------------------------------
(***************************************************************************)
(* goreplay/input/input_file.go.  init opens every file that matches the   *)
(* path, and for each a goroutine parses records into a queue that holds   *)
(* up to readDepth of them.  emit waits until it knows the first record of *)
(* every file, takes the earliest, sleeps for as long as the recording     *)
(* did, and hands it to PluginRead over a channel.                         *)
(*                                                                         *)
(* The files do not change while they are read.                            *)
(***************************************************************************)
EXTENDS Disk

CONSTANTS
    Plays,      \* configurations an input starts with, see Play
    DataCap,    \* capacity of the data channel (1000 in the code)
    MaxRead     \* bound: records PluginRead returns

Play == [readDepth : Nat,
         speed : Nat \ {0},    \* SpeedFactor
         maxWait : Nat,        \* maxWait, 0 for none
         loop : BOOLEAN,
         dryRun : BOOLEAN]

ASSUME FileInputAssumption ==
    /\ Plays \subseteq Play
    /\ Ts \in [Records -> Nat]
    /\ DataCap \in Nat \ {0}
    /\ MaxRead \in Nat

None == -1

NoPlay == [readDepth |-> 0]

VARIABLES
    play,       \* how the input is configured, NoPlay before it is
    input,      \* off, running, closed by Close, or panicked in it
    readers,    \* i.readers, one for each file
    emit,       \* the emit goroutine: where it is, and with what
    lastTime,   \* lastTime of emit, None for -1
    slept,      \* the time emit has slept
    data,       \* the data channel
    got         \* the records PluginRead has returned
clockVars == <<lastTime, slept>>
inVars == <<play, input, readers, emit, clockVars, data, got>>

InInit ==
    /\ play = NoPlay
    /\ input = "off"
    /\ readers = <<>>
    /\ emit = [pc |-> "none"]
    /\ lastTime = None /\ slept = 0
    /\ data = <<>>
    /\ got = <<>>

Exited == input # "running"

-----------------------------------------------------------------------------
(* The readers *)

Nil == [name |-> "nil"]
Opens(r) == r # Nil

\* newFileInputReader.  It returns once parse has filled the queue, or has found
\* the end of the file; nil if the file (unreadable) cannot be opened.
NewReader(name, depth0, unreadable) ==
    LET depth == Max({1, depth0})
        first == Min({depth, Len(disk[name])})
    IN IF name \in unreadable THEN Nil
       ELSE [name |-> name, pos |-> first, queue |-> SubSeq(disk[name], 1, first),
             closed |-> Len(disk[name]) < depth]

\* init.  The order Glob gives them decides between records of one time only.
NewReaders(depth, unreadable) ==
    LET names == SetToSeq(DOMAIN disk)
    IN [k \in DOMAIN names |-> NewReader(names[k], depth, unreadable)]

\* NewFileInput: without a file there is nothing to emit.
Start(unreadable) ==
    /\ input = "off"
    /\ input' = "running"
    /\ play' \in Plays
    /\ readers' = NewReaders(play'.readDepth, unreadable)
    /\ emit' = [pc |-> IF DOMAIN disk = {} THEN "ended" ELSE "check"]
    /\ UNCHANGED <<clockVars, data, got>>

\* parse pushes one more record once the queue has room again ...
Parse(k) ==
    /\ Opens(readers[k])
    /\ Len(readers[k].queue) < play.readDepth
    /\ readers[k].pos < Len(disk[readers[k].name])
    /\ readers' = [readers EXCEPT ![k].pos = @ + 1,
                                  ![k].queue = Append(@, disk[readers[k].name][readers[k].pos + 1])]
    /\ UNCHANGED <<play, input, emit, clockVars, data, got>>

\* Mutant: the reader is closed with the last record still to push.
ParseEnds_Early(k) ==
    /\ Opens(readers[k])
    /\ ~readers[k].closed
    /\ Len(readers[k].queue) < play.readDepth
    /\ readers[k].pos + 1 >= Len(disk[readers[k].name])
    /\ readers' = [readers EXCEPT ![k].closed = TRUE]
    /\ UNCHANGED <<play, input, emit, clockVars, data, got>>

\* ... and closes the reader at the end of the file.
ParseEnds(k) ==
    /\ Opens(readers[k])
    /\ ~readers[k].closed
    /\ Len(readers[k].queue) < play.readDepth
    /\ readers[k].pos = Len(disk[readers[k].name])
    /\ readers' = [readers EXCEPT ![k].closed = TRUE]
    /\ UNCHANGED <<play, input, emit, clockVars, data, got>>

-----------------------------------------------------------------------------
(* emit *)

Earliest(r) == Min({Ts[r.queue[j]] : j \in DOMAIN r.queue})

\* Another round, unless the input is closed.
Check ==
    /\ emit.pc = "check"
    /\ emit' = IF Exited THEN [pc |-> "ended"] ELSE [pc |-> "scan", at |-> 1, next |-> None]
    /\ UNCHANGED <<play, input, readers, clockVars, data, got>>

\* Mutant: the next reader is chosen among those that have a record by now.
Ready_NoWait(r) == TRUE

\* wait returns.
Ready(r) == r.closed \/ r.queue # <<>>

\* nextReader looks at one reader.
Scan ==
    /\ emit.pc = "scan" /\ emit.at \in DOMAIN readers
    /\ LET r == readers[emit.at]
           earlier == emit.next = None \/ Earliest(r) < Earliest(readers[emit.next])
       IN /\ Opens(r) => Ready(r)
          /\ emit' = [emit EXCEPT !.at = @ + 1,
                                  !.next = IF Opens(r) /\ r.queue # <<>> /\ earlier THEN emit.at ELSE @]
    /\ UNCHANGED <<play, input, readers, clockVars, data, got>>

Scanned == emit.pc = "scan" /\ emit.at \notin DOMAIN readers

\* No file has a record left.
Exhausted(unreadable) ==
    /\ Scanned /\ emit.next = None
    /\ IF play.loop
       THEN /\ readers' = NewReaders(play.readDepth, unreadable)
            /\ lastTime' = None
            /\ emit' = [pc |-> "check"]
       ELSE /\ emit' = [pc |-> "ended"]
            /\ UNCHANGED <<readers, lastTime>>
    /\ UNCHANGED <<play, input, slept, data, got>>

\* Mutant: a record from the past sets the clock back.
Clock_Back(ts) ==
    /\ lastTime' = ts
    /\ slept' = slept + (IF lastTime # None /\ ts > lastTime THEN ts - lastTime ELSE 0)

\* How long to sleep before a record of time ts: scaled, then capped, and not at
\* all for one from the past.
Clock(ts) ==
    LET diff == ts - lastTime
        scaled == IF diff < 0 THEN -((-diff) \div play.speed) ELSE diff \div play.speed
        wait == IF play.maxWait > 0 /\ scaled > play.maxWait THEN play.maxWait ELSE scaled
    IN IF lastTime = None THEN lastTime' = ts /\ UNCHANGED slept
       ELSE IF wait < 0 THEN UNCHANGED clockVars
       ELSE lastTime' = ts /\ slept' = slept + wait

\* The heap gives any record of the smallest time.
Pop ==
    /\ Scanned /\ emit.next # None
    /\ LET r == readers[emit.next] IN
       \E j \in {j \in DOMAIN r.queue : Ts[r.queue[j]] = Earliest(r)} :
         /\ readers' = [readers EXCEPT ![emit.next].queue = RemoveAt(@, j)]
         /\ emit' = [pc |-> "sleep", rec |-> r.queue[j]]
         /\ Clock(Ts[r.queue[j]])
    /\ UNCHANGED <<play, input, data, got>>

\* Slept: the record is dropped if the input was closed meanwhile.
Recheck ==
    /\ emit.pc = "sleep"
    /\ emit' = CASE Exited -> [pc |-> "ended"]
                 [] ~Exited /\ play.dryRun -> [pc |-> "check"]
                 [] OTHER -> [pc |-> "send", rec |-> emit.rec]
    /\ UNCHANGED <<play, input, readers, clockVars, data, got>>

\* The channel has room; once PluginRead is not called any more it may never have.
Send ==
    /\ emit.pc = "send"
    /\ Len(data) < DataCap
    /\ data' = Append(data, emit.rec)
    /\ emit' = [pc |-> "check"]
    /\ UNCHANGED <<play, input, readers, clockVars, got>>

-----------------------------------------------------------------------------
(* PluginRead and Close *)

\* After Close it may still choose the record.
PluginRead ==
    /\ input # "panicked"
    /\ data # <<>>
    /\ Len(got) < MaxRead
    /\ got' = Append(got, Head(data))
    /\ data' = Tail(data)
    /\ UNCHANGED <<play, input, readers, emit, clockVars>>

\* Close closes the readers, and what parse reads next is an error.  A nil reader
\* among them is a panic.
CloseInput ==
    /\ input = "running"
    /\ input' = IF \A k \in DOMAIN readers : Opens(readers[k]) THEN "closed" ELSE "panicked"
    /\ readers' = [k \in DOMAIN readers |->
                     IF \A j \in 1 .. k : Opens(readers[j]) THEN [readers[k] EXCEPT !.closed = TRUE]
                     ELSE readers[k]]
    /\ UNCHANGED <<play, emit, clockVars, data, got>>

Parses == input # "panicked" /\ \E k \in DOMAIN readers : Parse(k) \/ ParseEnds(k)

Emits(unreadable) ==
    input # "panicked" /\ (Check \/ Scan \/ Exhausted(unreadable) \/ Pop \/ Recheck \/ Send)

InNext(unreadable) ==
    \/ Start(unreadable)
    \/ Parses
    \/ Emits(unreadable)
    \/ PluginRead
    \/ CloseInput

-----------------------------------------------------------------------------
(* Properties *)

\* What emit has taken from the files.
Taken == got \o data \o (IF emit.pc \in {"sleep", "send"} THEN <<emit.rec>> ELSE <<>>)

\* If every file is in the order of time, so is what is replayed, over all files,
\* whatever the parsers are behind.
InOrder ==
    play # NoPlay /\ ~play.loop /\ (\A name \in DOMAIN disk : Ordered(disk[name])) => Ordered(Taken)

\* At the speed of the recording, emit has slept for exactly the time between the
\* first record and the latest one taken so far; one from the past, and what a file
\* out of order makes of it, is not counted twice.
Paced ==
    play # NoPlay /\ play.speed = 1 /\ play.maxWait = 0 /\ ~play.loop /\ ~play.dryRun /\ emit.pc # "ended" =>
        \/ lastTime = None /\ Taken = <<>> /\ slept = 0
        \/ /\ Taken # <<>>
           /\ slept = lastTime - Ts[Taken[1]]
           /\ lastTime = Max({Ts[rec] : rec \in ToSet(Taken)})

Times(rec, recs) == Cardinality({i \in DOMAIN recs : recs[i] = rec})

\* Every record of every file that can be opened is read, as often as it is there,
\* unless the input is closed first.  (With readDepth 0, the default, parse waits
\* for ever once it has pushed the first record of a file.)
Replayed(unreadable) ==
    LET files == SetToSeq(DOMAIN disk \ unreadable)
        all == FlattenSeq([k \in DOMAIN files |-> disk[files[k]]])
    IN \/ Exited
       \/ play.readDepth = 0 \/ play.loop \/ play.dryRun
       \/ \A rec \in Records : Times(rec, got) = Times(rec, all)
=============================================================================
