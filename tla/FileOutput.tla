----------------------------- MODULE FileOutput -----------------------------
(***************************************************************************)
(* goreplay/output/output_file.go.  PluginWrite is called by one copier    *)
(* per input.  It takes the lock of the output three or four times: to     *)
(* note the id of the payload, to compute the name of the file, to store   *)
(* that name, and to write; what one writer computed, another may have     *)
(* changed by then.  A goroutine flushes the buffer until it finds the     *)
(* output closed.  The process may be killed at any moment, and then what  *)
(* is in the buffer is lost (log.Fatal ends it so where a file cannot be   *)
(* opened, and os.Exit after Close).                                       *)
(*                                                                         *)
(* Every record counts one towards the limits on the size.                 *)
(***************************************************************************)
EXTENDS Disk

CONSTANTS
    Configs,     \* configurations a run starts with, see Config
    Script,      \* the records each writer is going to write, in order
    Tag,         \* what %r, and %t beside it, expand to for each record
    Today,       \* days on which the template expands to something else
    MaxSize,     \* OutputFileMaxSize, 0 for none
    Before       \* contents of the disk an earlier process may have left

Writers == DOMAIN Script

Config == [append : BOOLEAN,        \* Append
           perId : BOOLEAN,         \* the template has %r; %t without it expands to nothing
           dated : BOOLEAN,         \* or a date
           queueLimit : Nat,        \* QueueLimit, 0 for none
           sizeLimit : Nat,         \* SizeLimit, 0 for none
           gz : BOOLEAN,            \* the files are compressed
           writers : SUBSET Writers]

ASSUME FileOutputAssumption ==
    /\ Configs \subseteq Config
    /\ IsFiniteSet(Writers)
    /\ Script \in [Writers -> Seq(Records)]
    \* Every record is a thing of its own: one payload at one time.
    /\ \A w \in Writers : IsInjective(Script[w])
    /\ MaxSize \in Nat
    /\ 0 \in Today /\ Today \subseteq Nat

\* Day 0 is the first of this run: no earlier process wrote a file of a later one, nor
\* a record of this one.
ASSUME BeforeAssumption ==
    \A files \in Before :
        /\ IsFiniteSet(DOMAIN files)
        /\ \A name \in DOMAIN files : /\ name = <<<<name[1][1], name[1][2]>>, Index(name)>>
                                      /\ name[1][1] = 0 /\ Index(name) \in Nat \cup {NoIndex}
                                      /\ files[name] \in Seq(Records)
                                      /\ \A w \in Writers : ToSet(files[name]) \cap ToSet(Script[w]) = {}

NoTag == "none"
NoFile == <<<<-1, NoTag>>, NoIndex>>

VARIABLES
    config,           \* how the output was configured, for good
    day,              \* what the date in the template expands to
    script,           \* records each writer has still to write
    writing,          \* each writer: where it is in PluginWrite, and with what
    file,             \* the name of o.file, NoFile for nil
    fileState,        \* o.file: open, closed, or broken once writing to it has failed
    buffer,           \* records in o.writer
    currentName,      \* o.currentName, NoFile for ""
    currentTag,       \* o.currentID and o.payloadType
    queueLength,      \* o.QueueLength
    currentFileSize,  \* o.currentFileSize
    totalFileSize,    \* o.totalFileSize
    closed,           \* o.closed
    flusher,          \* the flushing goroutine: asleep, about to flush, or returned
    recorder          \* the process, see Over
fileVars == <<disk, file, fileState, buffer, queueLength, currentFileSize, totalFileSize, closed>>
nameVars == <<currentName, currentTag>>
callVars == <<script, writing>>
outVars == <<config, day, fileVars, nameVars, callVars, flusher, recorder>>

\* "recording" until Close; then "finished" if every writer had returned, with
\* nothing left to write, else "closed"; "cut" or "killed" once it is gone.
Over == recorder \in {"finished", "cut", "killed"}
Alive == recorder \notin {"cut", "killed"}

OutInit ==
    /\ config \in Configs
    /\ disk \in Before
    /\ day = 0
    /\ script = [w \in Writers |-> IF w \in config.writers THEN Script[w] ELSE <<>>]
    /\ writing = [w \in Writers |-> [pc |-> "idle"]]
    /\ file = NoFile /\ fileState = "closed" /\ buffer = <<>>
    /\ currentName = NoFile /\ currentTag = NoTag
    /\ queueLength = 0 /\ currentFileSize = 0 /\ totalFileSize = 0
    /\ closed = FALSE
    /\ flusher = "asleep"
    /\ recorder = "recording"

-----------------------------------------------------------------------------
(* Names *)

\* What the template expands to at this moment.
Base == <<IF config.dated THEN day ELSE 0, IF config.perId THEN currentTag ELSE NoTag>>

\* Mutant: a full chunk is noticed one record late.
NextChunk_Late ==
    \/ currentName = NoFile
    \/ config.queueLimit > 0 /\ queueLength > config.queueLimit
    \/ config.sizeLimit > 0 /\ currentFileSize > config.sizeLimit

\* The chunk is full, or this is the first one since the process started.
NextChunk ==
    \/ currentName = NoFile
    \/ config.queueLimit > 0 /\ queueLength >= config.queueLimit
    \/ config.sizeLimit > 0 /\ currentFileSize >= config.sizeLimit

\* The greatest index among the files of a base: the last one of sortByFileIndex.
LastIndex(base) == Max({Index(name) : name \in Matches(base)})

\* Mutant: the first chunk of a process is numbered like the last one of the
\* process before.
Filename_FromLast ==
    CASE config.append -> <<Base, NoIndex>>
      [] ~config.append /\ Matches(Base) = {} -> <<Base, 0>>
      [] OTHER -> <<Base, IF NextChunk /\ currentName # NoFile /\ LastIndex(Base) # NoIndex
                          THEN LastIndex(Base) + 1
                          ELSE IF LastIndex(Base) = NoIndex THEN 0 ELSE LastIndex(Base)>>

\* filename
Filename ==
    CASE config.append -> <<Base, NoIndex>>
      [] ~config.append /\ Matches(Base) = {} -> <<Base, 0>>
      [] ~config.append /\ Matches(Base) # {} /\ LastIndex(Base) = NoIndex -> <<Base, 0>>
      [] OTHER -> <<Base, IF NextChunk THEN LastIndex(Base) + 1 ELSE LastIndex(Base)>>

-----------------------------------------------------------------------------
(* PluginWrite *)

\* The call; with %r the id and type of the payload are noted first.
Call(w) ==
    /\ Alive
    /\ writing[w].pc = "idle"
    /\ script[w] # <<>>
    /\ script' = [script EXCEPT ![w] = Tail(@)]
    /\ currentTag' = IF config.perId THEN Tag[Head(script[w])] ELSE currentTag
    /\ writing' = [writing EXCEPT ![w] = [pc |-> "name", rec |-> Head(script[w])]]
    /\ UNCHANGED <<config, day, fileVars, currentName, flusher, recorder>>

\* updateName computes the name under the read lock ...
ComputeName(w) ==
    /\ Alive
    /\ writing[w].pc = "name"
    /\ writing' = [writing EXCEPT ![w] = [pc |-> "store", rec |-> @.rec, name |-> Filename]]
    /\ UNCHANGED <<config, day, fileVars, nameVars, script, flusher, recorder>>

\* ... and stores it under the write lock.
StoreName(w) ==
    /\ Alive
    /\ writing[w].pc = "store"
    /\ currentName' = writing[w].name
    /\ writing' = [writing EXCEPT ![w] = [pc |-> "write", rec |-> @.rec]]
    /\ UNCHANGED <<config, day, fileVars, currentTag, script, flusher, recorder>>

\* Mutant: a file is left without what is still in the buffer.
Flushed_Lost == disk

\* The disk once the buffer is flushed.
Flushed == IF fileState = "open" THEN [disk EXCEPT ![file] = @ \o buffer] ELSE disk

\* The name is not that of the current file.
Reopens == file = NoFile \/ currentName # file

\* closeLocked for the current file, and the new one opened, and emptied if it
\* was there.
Opened == [name \in DOMAIN Flushed \cup {currentName} |->
              IF name = currentName THEN <<>> ELSE Flushed[name]]

\* The lines of PluginWrite under its last lock.  The buffer may write through at
\* any record (through), which fails when the file is closed.  closeLocked sets
\* closed whether or not there was a file to close.
WriteLocked(rec, through) ==
    LET kept == IF Reopens THEN <<>> ELSE buffer
        content == IF Reopens THEN Opened ELSE disk
        state == IF Reopens THEN "open" ELSE fileState
    IN /\ file' = IF Reopens THEN currentName ELSE file
       /\ fileState' = IF state = "closed" /\ through THEN "broken" ELSE state
       /\ buffer' = IF fileState' = "broken" \/ through THEN <<>> ELSE Append(kept, rec)
       /\ disk' = IF state = "open" /\ through
                   THEN [content EXCEPT ![file'] = @ \o Append(kept, rec)] ELSE content
       /\ queueLength' = 1 + (IF Reopens THEN 0 ELSE queueLength)
       /\ currentFileSize' = 1 + (IF Reopens THEN 0 ELSE currentFileSize)
       /\ totalFileSize' = totalFileSize + 1
       /\ closed' = (closed \/ Reopens)

\* The copier stops at an error: the output has its size, or the file is broken.
Write(w) ==
    /\ Alive
    /\ writing[w].pc = "write"
    /\ \E through \in BOOLEAN : WriteLocked(writing[w].rec, through)
    /\ writing' = [writing EXCEPT ![w] =
                     [pc |-> IF fileState' = "broken" \/ (MaxSize > 0 /\ totalFileSize' >= MaxSize)
                             THEN "stopped" ELSE "idle"]]
    /\ UNCHANGED <<config, day, nameVars, script, flusher, recorder>>

-----------------------------------------------------------------------------
(* The flusher, Close, and the end of the process *)

\* It wakes and returns if it finds the output closed.
Wake ==
    /\ Alive
    /\ flusher = "asleep"
    /\ flusher' = IF closed THEN "returned" ELSE "flush"
    /\ UNCHANGED <<config, day, fileVars, nameVars, callVars, recorder>>

\* flush.  A file that is closed can neither be written to nor asked for its size.
Flush ==
    /\ Alive
    /\ flusher = "flush"
    /\ disk' = Flushed
    /\ buffer' = <<>>
    /\ fileState' = IF fileState = "closed" /\ buffer # <<>> THEN "broken" ELSE fileState
    /\ currentFileSize' = IF fileState = "open" THEN Len(Flushed[file]) ELSE currentFileSize
    /\ flusher' = "asleep"
    /\ UNCHANGED <<config, day, file, queueLength, totalFileSize, closed, nameVars, callVars, recorder>>

AllWritten == \A w \in Writers : script[w] = <<>> /\ writing[w].pc \in {"idle", "stopped"}

\* Close, which the emitter calls while copiers may still be writing.
CloseOutput ==
    /\ recorder = "recording"
    /\ recorder' = IF AllWritten THEN "finished" ELSE "closed"
    /\ disk' = Flushed
    /\ buffer' = <<>>
    /\ fileState' = IF fileState = "open" THEN "closed" ELSE fileState
    /\ closed' = TRUE
    /\ currentFileSize' = 0
    /\ UNCHANGED <<config, day, file, queueLength, totalFileSize, nameVars, callVars, flusher>>

\* Nothing but the disk is left.
Killed ==
    /\ recorder \in {"recording", "closed"}
    /\ recorder' = IF recorder = "closed" THEN "cut" ELSE "killed"
    /\ script' = [w \in Writers |-> <<>>]
    /\ writing' = [w \in Writers |-> [pc |-> "idle"]]
    /\ file' = NoFile /\ fileState' = "closed" /\ buffer' = <<>>
    /\ currentName' = NoFile /\ currentTag' = NoTag
    /\ queueLength' = 0 /\ currentFileSize' = 0 /\ totalFileSize' = 0
    /\ closed' = FALSE
    /\ flusher' = "asleep"
    /\ UNCHANGED <<config, day, disk>>

\* The date in the template changes.
DayBreaks ==
    /\ config.dated /\ Alive
    /\ day + 1 \in Today
    /\ day' = day + 1
    /\ UNCHANGED <<config, fileVars, nameVars, callVars, flusher, recorder>>

OutNext ==
    \/ \E w \in Writers : Call(w) \/ ComputeName(w) \/ StoreName(w) \/ Write(w)
    \/ Wake \/ Flush
    \/ CloseOutput \/ Killed
    \/ DayBreaks

OutSpec == OutInit /\ [][OutNext]_outVars

-----------------------------------------------------------------------------
(* Properties *)

\* What the process has put into a file, whether it is on the disk yet or not.
Content(name) == IF fileState = "open" /\ name = file THEN disk[name] \o buffer ELSE disk[name]

OneWriter == Cardinality(config.writers) = 1

\* With one input, and a template that never expands to an earlier name again, no
\* record that was written to a file is ever lost from it: rotation, a new process
\* and a new day empty new files only.  (Two writers can return to a chunk that was
\* full, a template with %r to the file of an id, Append opens what is there: each
\* empties the file.)
NoneOverwritten ==
    [][OneWriter /\ ~config.append /\ ~config.perId /\ Alive' =>
         \A name \in DOMAIN disk : IsPrefix(Content(name), Content(name)')]_outVars

\* One input never outgrows the limit of a chunk.  Of two, one may write to the
\* full chunk because it has computed the name too early, and because it stores that
\* name the other may do the same; but not a third time.
ChunkBound ==
    config.queueLimit > 0 /\ ~config.append /\ Cardinality(config.writers) <= 2 =>
        queueLength <= config.queueLimit + (IF OneWriter THEN 0 ELSE 2)

\* Files hold the first n of recs, each once, and in order from chunk to chunk.
HoldFirst(files, recs, n) ==
    /\ \A p \in DOMAIN recs :
          p <= n <=> \E name \in DOMAIN files : \E i \in DOMAIN files[name] : files[name][i] = recs[p]
    /\ \A here, there \in DOMAIN files : \A i \in DOMAIN files[here] : \A j \in DOMAIN files[there] :
          \A p, q \in DOMAIN recs : files[here][i] = recs[p] /\ files[there][j] = recs[q] =>
             /\ p < q => Earlier(here, there) \/ (here = there /\ i < j)
             /\ p = q => here = there /\ i = j

\* Whatever was rotated, flushed or lost, the chunks of one input hold a prefix of
\* what it wrote, in order, also after the process was killed; and all of it once
\* the output was closed with nothing left to write.
PrefixSurvives ==
    OneWriter /\ ~config.perId /\ recorder \notin {"closed", "cut"} =>
        \A w \in config.writers : \E n \in 0 .. Len(Script[w]) :
            HoldFirst(disk, Script[w], n) /\ (recorder = "finished" => n = Len(Script[w]))
=============================================================================
