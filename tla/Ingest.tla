------------------------------- MODULE Ingest --------------------------------
(***************************************************************************)
(* How traffic sent to goreplay gets to its outputs: connections of        *)
(* input/input_tcp.go or input/input_http.go, an optional limiter          *)
(* (core/limiter.go) around the input, an optional middleware              *)
(* (core/middleware.go), the copying of bootstrap/emitter.go, and its      *)
(* Close.  A record is a name; the TCP input reads the records of one      *)
(* connection into one buffer and hands out slices of it, so memory is     *)
(* kept apart from the messages.                                           *)
(***************************************************************************)
EXTENDS Integers, Sequences, FiniteSets, SequencesExt

CONSTANTS
    Conns,       \* connections to the input
    Sent,        \* the records each connection sends, in order
    Setups,      \* how the process may be started, see Setup
    DataCap,     \* capacity of the data channels (1000 in the code)
    PipeCap,     \* lines a pipe to or from the command holds
    MaxSeconds   \* bound on the windows of the limiter

Setup == [kind : {"tcp", "http"},
          limited : BOOLEAN,       \* the input is wrapped in a limiter
          limit : Nat,             \* its limit
          middleware : BOOLEAN,
          conns : SUBSET Conns]    \* the connections that are made

\* What is in a buffer that is being written, and the error of an input that is closed.
Torn == "torn"
Stopped == [rec |-> "ErrorStopped", at |-> 0]

Records == UNION {ToSet(Sent[c]) : c \in Conns}

ASSUME IngestAssumption ==
    /\ Setups \subseteq Setup
    \* Every record is a thing of its own: it is sent once, on one connection.
    /\ Sent \in [Conns -> Seq(Records)]
    /\ \A c \in Conns : IsInjective(Sent[c])
    /\ \A c, other \in Conns : c # other => ToSet(Sent[c]) \cap ToSet(Sent[other]) = {}
    /\ Torn \notin Records /\ Stopped.rec \notin Records
    /\ DataCap \in Nat \ {0} /\ PipeCap \in Nat \ {0} /\ MaxSeconds \in Nat

VARIABLES
    setup,        \* how the process was started, for good
    conn,         \* the handler of each connection
    unsent,       \* what each connection has still to send
    memory,       \* buffers: the record each holds, or Torn
    data,         \* the data channel of the input: records, and where they are
    inputStop,    \* the stop channel of the input is closed
    currentRPS,   \* l.currentRPS
    windowOver,   \* a second has passed since l.currentTime
    seconds,      \* windows so far
    passed,       \* messages PluginRead of the limiter has let pass in this one
    reader,       \* who reads the input: the copier, or copy of the middleware
    copier,       \* with a middleware: who copies from it
    stdin, stdout,\* the pipes to and from the command
    command,      \* running, quit by itself, or killed
    pump,         \* read of the middleware
    mwData,       \* m.data
    mwStop,       \* m.stop is closed, and m.closed set
    waiter,       \* the goroutine that waits for the command
    emitter,      \* Close of the emitter
    taken         \* what the output was given: the record meant, and what was there
connVars == <<conn, unsent, memory>>
limitVars == <<currentRPS, windowOver, seconds, passed>>
mwVars == <<stdin, stdout, command, pump, mwData, mwStop, waiter>>
ingestVars == <<setup, connVars, data, inputStop, limitVars, reader, copier, mwVars, emitter, taken>>

IngestInit ==
    /\ setup \in Setups
    /\ conn = [c \in Conns |-> [pc |-> "reading", at |-> 0]]
    /\ unsent = [c \in Conns |-> IF c \in setup.conns THEN Sent[c] ELSE <<>>]
    /\ memory = <<>>
    /\ data = <<>>
    /\ inputStop = FALSE
    /\ currentRPS = 0 /\ windowOver = FALSE /\ seconds = 0 /\ passed = 0
    /\ reader = [pc |-> "read"]
    /\ copier = [pc |-> IF setup.middleware THEN "read" ELSE "none"]
    /\ stdin = <<>> /\ stdout = <<>>
    /\ command = IF setup.middleware THEN "running" ELSE "quit"
    /\ pump = [pc |-> IF setup.middleware THEN "line" ELSE "returned"]
    /\ mwData = <<>>
    /\ mwStop = FALSE
    /\ waiter = IF setup.middleware THEN "wait" ELSE "done"
    /\ emitter = "running"
    /\ taken = <<>>

Going == emitter # "panicked"

-----------------------------------------------------------------------------
(* The connections *)

\* Mutant: the handlers share one buffer.
Cells_Shared(c) == {1}

\* Where a handler writes the next record: over the one before (Reset keeps the
\* memory), or into new memory if that is too small.
Cells(c) == {Len(memory) + 1} \cup (IF conn[c].at = 0 THEN {} ELSE {conn[c].at})

\* handleConnection has read the first lines of a record ...
Begin(c) ==
    /\ Going /\ setup.kind = "tcp"
    /\ conn[c].pc = "reading"
    /\ unsent[c] # <<>>
    /\ \E at \in Cells(c) :
          /\ memory' = IF at \in DOMAIN memory THEN [memory EXCEPT ![at] = Torn] ELSE Append(memory, Torn)
          /\ conn' = [conn EXCEPT ![c] = [pc |-> "partial", at |-> at]]
    /\ UNCHANGED <<setup, unsent, data, inputStop, limitVars, reader, copier, mwVars, emitter, taken>>

\* ... and then the separator.
Separator(c) ==
    /\ Going
    /\ conn[c].pc = "partial"
    /\ memory' = [memory EXCEPT ![conn[c].at] = Head(unsent[c])]
    /\ conn' = [conn EXCEPT ![c].pc = "handing"]
    /\ UNCHANGED <<setup, unsent, data, inputStop, limitVars, reader, copier, mwVars, emitter, taken>>

\* handler of the HTTP input answers at once, also after Close, which leaves its
\* listener open; each request has memory of its own.
Respond(c) ==
    /\ Going /\ setup.kind = "http"
    /\ conn[c].pc = "reading"
    /\ unsent[c] # <<>>
    /\ memory' = Append(memory, Head(unsent[c]))
    /\ conn' = [conn EXCEPT ![c] = [pc |-> "handing", at |-> Len(memory) + 1]]
    /\ UNCHANGED <<setup, unsent, data, inputStop, limitVars, reader, copier, mwVars, emitter, taken>>

\* i.data <-, which waits for room even if nobody reads any more.
Hand(c) ==
    /\ Going
    /\ conn[c].pc = "handing"
    /\ Len(data) < DataCap
    /\ data' = Append(data, [rec |-> Head(unsent[c]), at |-> conn[c].at])
    /\ unsent' = [unsent EXCEPT ![c] = Tail(@)]
    /\ conn' = [conn EXCEPT ![c].pc = "reading"]
    /\ UNCHANGED <<setup, memory, inputStop, limitVars, reader, copier, mwVars, emitter, taken>>

\* The peer goes away; what is left of a record is dropped.
Disconnects(c) ==
    /\ Going
    /\ conn[c].pc \in {"reading", "partial"}
    /\ unsent[c] # <<>>
    /\ conn' = [conn EXCEPT ![c].pc = "gone"]
    /\ unsent' = [unsent EXCEPT ![c] = <<>>]
    /\ UNCHANGED <<setup, memory, data, inputStop, limitVars, reader, copier, mwVars, emitter, taken>>

-----------------------------------------------------------------------------
(* The limiter *)

\* Time passes.
Second ==
    /\ Going
    /\ setup.limited /\ ~windowOver
    /\ seconds < MaxSeconds \/ emitter = "closing"
    /\ windowOver' = TRUE
    /\ UNCHANGED <<setup, connVars, data, inputStop, currentRPS, seconds, passed, reader, copier, mwVars,
                   emitter, taken>>

\* isLimited up to its comparison: whether the call is limited, and what it has
\* read of currentRPS.  It takes no lock.
RPS == IF windowOver THEN 0 ELSE currentRPS

LimiterCompares ==
    /\ currentRPS' = RPS
    /\ windowOver' = FALSE
    /\ seconds' = IF windowOver /\ seconds < MaxSeconds THEN seconds + 1 ELSE seconds
    /\ passed' = IF windowOver THEN 0 ELSE passed

\* Mutant: the limit itself is let through.
Limited_Over == RPS > setup.limit

\* Of a limit in messages per second.  One in percent, which draws a number for each
\* call and counts nothing, is left out.
Limited == RPS >= setup.limit

-----------------------------------------------------------------------------
(* The goroutine that reads the input *)

\* What it does next with a message the input returned and no limiter held back:
\* copy of the middleware encodes it at once, CopyMulty passes the slice on.
Deliver(msg) ==
    IF setup.middleware THEN [pc |-> "stdin", line |-> [rec |-> msg.rec, is |-> memory[msg.at]]]
    ELSE IF setup.limited THEN [pc |-> "back", msg |-> msg]
    ELSE [pc |-> "output", msg |-> msg]

\* PluginRead of the input: with both ready the select takes either.
ReadMessage ==
    /\ Going
    /\ reader.pc = "read"
    /\ data # <<>>
    /\ data' = Tail(data)
    /\ reader' = IF setup.limited THEN [pc |-> "compare", msg |-> Head(data)] ELSE Deliver(Head(data))
    /\ UNCHANGED <<setup, connVars, inputStop, limitVars, copier, mwVars, emitter, taken>>

ReadStopped ==
    /\ Going
    /\ reader.pc = "read"
    /\ inputStop
    /\ reader' = IF setup.limited THEN [pc |-> "compare", msg |-> Stopped] ELSE [pc |-> "returned"]
    /\ UNCHANGED <<setup, connVars, data, inputStop, limitVars, copier, mwVars, emitter, taken>>

\* A call that is limited returns neither message nor error, not even ErrorStopped.
ReadCompare ==
    /\ Going
    /\ reader.pc = "compare"
    /\ LimiterCompares
    /\ reader' = IF Limited THEN [pc |-> "read"] ELSE [pc |-> "count", msg |-> reader.msg, rps |-> RPS]
    /\ UNCHANGED <<setup, connVars, data, inputStop, copier, mwVars, emitter, taken>>

\* l.currentRPS++ stores what was read plus one.
ReadCount ==
    /\ Going
    /\ reader.pc = "count"
    /\ currentRPS' = reader.rps + 1
    /\ IF reader.msg = Stopped
       THEN reader' = [pc |-> "returned"] /\ UNCHANGED passed
       ELSE reader' = Deliver(reader.msg) /\ passed' = passed + 1
    /\ UNCHANGED <<setup, connVars, data, inputStop, windowOver, seconds, copier, mwVars, emitter, taken>>

\* A limited input is among the outputs too, RegisterPlugin finding a PluginWrite
\* in the limiter: CopyMulty writes every message back to it, which costs as much
\* as reading one, and goes on with the next output.
WriteBack ==
    /\ Going
    /\ reader.pc = "back"
    /\ LimiterCompares
    /\ reader' = IF Limited THEN [pc |-> "output", msg |-> reader.msg]
                 ELSE [pc |-> "backCount", msg |-> reader.msg, rps |-> RPS]
    /\ UNCHANGED <<setup, connVars, data, inputStop, copier, mwVars, emitter, taken>>

WriteBackCount ==
    /\ Going
    /\ reader.pc = "backCount"
    /\ currentRPS' = reader.rps + 1
    /\ reader' = [pc |-> "output", msg |-> reader.msg]
    /\ UNCHANGED <<setup, connVars, data, inputStop, windowOver, seconds, passed, copier, mwVars, emitter, taken>>

\* The output that is meant copies what is in memory by now.
WriteOutput ==
    /\ Going
    /\ reader.pc = "output"
    /\ taken' = Append(taken, [rec |-> reader.msg.rec, is |-> memory[reader.msg.at]])
    /\ reader' = [pc |-> "read"]
    /\ UNCHANGED <<setup, connVars, data, inputStop, limitVars, copier, mwVars, emitter>>

\* to.Write of the middleware; an error ends copy only if the middleware is closed.
WriteStdin ==
    /\ Going
    /\ reader.pc = "stdin"
    /\ IF command = "running"
       THEN /\ Len(stdin) < PipeCap
            /\ stdin' = Append(stdin, reader.line)
            /\ reader' = [pc |-> "read"]
       ELSE /\ reader' = [pc |-> IF mwStop THEN "returned" ELSE "read"]
            /\ UNCHANGED stdin
    /\ UNCHANGED <<setup, connVars, data, inputStop, limitVars, copier, stdout, command, pump, mwData,
                   mwStop, waiter, emitter, taken>>

Reads == ReadMessage \/ ReadStopped \/ ReadCompare \/ ReadCount \/ WriteBack \/ WriteBackCount
         \/ WriteOutput \/ WriteStdin

-----------------------------------------------------------------------------
(* The middleware *)

\* The command gives back a line, keeps it, or writes one that does not decode.
CommandRuns ==
    /\ Going
    /\ command = "running"
    /\ stdin # <<>> /\ Len(stdout) < PipeCap
    /\ stdin' = Tail(stdin)
    /\ \E line \in {<<>>, <<[rec |-> Torn]>>, <<Head(stdin)>>} : stdout' = stdout \o line
    /\ UNCHANGED <<setup, connVars, data, inputStop, limitVars, reader, copier, command, pump, mwData,
                   mwStop, waiter, emitter, taken>>

\* It ends by itself.  Wait closes the pipes, with what is in them.
CommandQuits ==
    /\ Going
    /\ command = "running"
    /\ command' = "quit"
    /\ stdin' = <<>>
    /\ \E n \in 0 .. Len(stdout) : stdout' = SubSeq(stdout, 1, n)
    /\ UNCHANGED <<setup, connVars, data, inputStop, limitVars, reader, copier, pump, mwData, mwStop, waiter,
                   emitter, taken>>

\* read takes a line, if it decodes; at the end of the pipe it tries again until
\* the middleware is closed.
PumpLine ==
    /\ Going
    /\ pump.pc = "line"
    /\ stdout # <<>>
    /\ stdout' = Tail(stdout)
    /\ pump' = IF Head(stdout).rec = Torn THEN pump ELSE [pc |-> "send", line |-> Head(stdout)]
    /\ UNCHANGED <<setup, connVars, data, inputStop, limitVars, reader, copier, stdin, command, mwData, mwStop,
                   waiter, emitter, taken>>

PumpSend ==
    /\ Going
    /\ pump.pc = "send"
    /\ Len(mwData) < DataCap
    /\ mwData' = Append(mwData, pump.line)
    /\ pump' = [pc |-> "line"]
    /\ UNCHANGED <<setup, connVars, data, inputStop, limitVars, reader, copier, stdin, stdout, command, mwStop,
                   waiter, emitter, taken>>

PumpEnds ==
    /\ Going
    /\ mwStop
    /\ pump.pc = "send" \/ (pump.pc = "line" /\ stdout = <<>> /\ command # "running")
    /\ pump' = [pc |-> "returned"]
    /\ UNCHANGED <<setup, connVars, data, inputStop, limitVars, reader, copier, stdin, stdout, command, mwData,
                   mwStop, waiter, emitter, taken>>

\* CopyMulty from the middleware.
CopyReads ==
    /\ Going
    /\ copier.pc = "read"
    /\ mwData # <<>>
    /\ mwData' = Tail(mwData)
    /\ copier' = [pc |-> IF setup.limited THEN "back" ELSE "output", line |-> Head(mwData)]
    /\ UNCHANGED <<setup, connVars, data, inputStop, limitVars, reader, stdin, stdout, command, pump, mwStop,
                   waiter, emitter, taken>>

CopyBack ==
    /\ Going
    /\ copier.pc = "back"
    /\ LimiterCompares
    /\ copier' = IF Limited THEN [pc |-> "output", line |-> copier.line]
                 ELSE [pc |-> "backCount", line |-> copier.line, rps |-> RPS]
    /\ UNCHANGED <<setup, connVars, data, inputStop, reader, mwVars, emitter, taken>>

CopyBackCount ==
    /\ Going
    /\ copier.pc = "backCount"
    /\ currentRPS' = copier.rps + 1
    /\ copier' = [pc |-> "output", line |-> copier.line]
    /\ UNCHANGED <<setup, connVars, data, inputStop, windowOver, seconds, passed, reader, mwVars, emitter, taken>>

CopyOutput ==
    /\ Going
    /\ copier.pc = "output"
    /\ taken' = Append(taken, copier.line)
    /\ copier' = [pc |-> "read"]
    /\ UNCHANGED <<setup, connVars, data, inputStop, limitVars, reader, mwVars, emitter>>

CopyEnds ==
    /\ Going
    /\ copier.pc = "read"
    /\ mwStop
    /\ copier' = [pc |-> "returned"]
    /\ UNCHANGED <<setup, connVars, data, inputStop, limitVars, reader, mwVars, emitter, taken>>

Pumps == PumpLine \/ PumpSend \/ PumpEnds

Copies == CopyReads \/ CopyBack \/ CopyBackCount \/ CopyOutput \/ CopyEnds

-----------------------------------------------------------------------------
(* Close *)

\* Middleware.Close behind its check of closed: the command is killed, and the
\* channel closed; a second close of the channel panics.
CloseLocked ==
    /\ mwStop' = TRUE
    /\ command' = IF command = "running" THEN "killed" ELSE command
    /\ stdin' = IF command = "running" THEN <<>> ELSE stdin

\* The goroutine that waits for the command closes the middleware.
WaiterChecks ==
    /\ Going
    /\ waiter = "wait" /\ command # "running"
    /\ waiter' = IF mwStop THEN "done" ELSE "checked"
    /\ UNCHANGED <<setup, connVars, data, inputStop, limitVars, reader, copier, stdin, stdout, command, pump,
                   mwData, mwStop, emitter, taken>>

WaiterCloses ==
    /\ Going
    /\ waiter = "checked"
    /\ CloseLocked
    /\ waiter' = "done"
    /\ emitter' = IF mwStop THEN "panicked" ELSE emitter
    /\ UNCHANGED <<setup, connVars, data, inputStop, limitVars, reader, copier, stdout, pump, mwData, taken>>

\* Mutant: the middleware is not among the plugins that are closed.
CloseInput_Only ==
    /\ emitter = "running"
    /\ inputStop' = TRUE
    /\ emitter' = "closing"
    /\ UNCHANGED <<setup, connVars, data, limitVars, reader, copier, mwVars, taken>>

\* Emitter.Close: the input, by way of the limiter or not ...
CloseInput ==
    /\ emitter = "running"
    /\ inputStop' = TRUE
    /\ emitter' = IF setup.middleware THEN "middleware" ELSE "closing"
    /\ UNCHANGED <<setup, connVars, data, limitVars, reader, copier, mwVars, taken>>

\* ... the middleware, which was registered last ...
CloseChecks ==
    /\ emitter = "middleware"
    /\ emitter' = IF mwStop THEN "closing" ELSE "checked"
    /\ UNCHANGED <<setup, connVars, data, inputStop, limitVars, reader, copier, mwVars, taken>>

CloseMiddleware ==
    /\ emitter = "checked"
    /\ CloseLocked
    /\ emitter' = IF mwStop THEN "panicked" ELSE "closing"
    /\ UNCHANGED <<setup, connVars, data, inputStop, limitVars, reader, copier, stdout, pump, mwData, waiter, taken>>

\* ... and Wait, for the one copier there is.
CloseReturns ==
    /\ emitter = "closing"
    /\ (IF setup.middleware THEN copier ELSE reader).pc = "returned"
    /\ emitter' = "closed"
    /\ UNCHANGED <<setup, connVars, data, inputStop, limitVars, reader, copier, mwVars, taken>>

Closes == CloseChecks \/ CloseMiddleware \/ CloseReturns

IngestNext ==
    \/ \E c \in Conns : Begin(c) \/ Separator(c) \/ Respond(c) \/ Hand(c) \/ Disconnects(c)
    \/ Second
    \/ Reads
    \/ CommandRuns \/ CommandQuits
    \/ Pumps
    \/ Copies
    \/ WaiterChecks \/ WaiterCloses
    \/ CloseInput \/ Closes

\* Goroutines that can run do, and a second ends.  A select that finds its stop
\* channel closed again and again takes it in the end.
IngestFairness ==
    /\ WF_ingestVars(Second)
    /\ WF_ingestVars(Reads) /\ SF_ingestVars(ReadStopped)
    /\ WF_ingestVars(Pumps)
    /\ WF_ingestVars(Copies) /\ SF_ingestVars(CopyEnds)
    /\ WF_ingestVars(Closes)

IngestSpec == IngestInit /\ [][IngestNext]_ingestVars /\ IngestFairness

-----------------------------------------------------------------------------
(* Properties *)

\* Nothing goes from one connection to another, and what one sent comes in order:
\* for a message the output gets the record that was sent there, or, as the buffer
\* is used again, a later one of the same connection, or pieces of both.  The HTTP
\* input, and whoever sends one record at a time, gets it whole.
OwnConnection ==
    \A c \in Conns : \A p, q \in DOMAIN Sent[c] : \A i, j \in DOMAIN taken :
        /\ i < j /\ taken[i].rec = Sent[c][p] /\ taken[j].rec = Sent[c][q] => p < q
        /\ taken[i].rec = Sent[c][p] =>
              /\ taken[i].is = Torn \/ \E later \in DOMAIN Sent[c] : p <= later /\ taken[i].is = Sent[c][later]
              /\ setup.kind = "http" \/ Len(Sent[c]) = 1 => taken[i].is = taken[i].rec

\* Of a limited input no more messages than its limit get through in a second.
WithinLimit == setup.limited /\ ~setup.middleware => passed <= setup.limit

\* An input limited to 10 lets 10 messages through (limiter_test.go:39-63): it refuses no
\* message before it has let through as many as its limit in the same second.
LimitReached ==
    [][reader.pc = "compare" /\ reader.msg # Stopped /\ reader'.pc = "read"
          => passed' >= setup.limit]_ingestVars

\* Close of the emitter returns: a limiter that keeps ErrorStopped to itself does so
\* for a second, unless nothing is ever let pass.  It may panic instead, but only if
\* the command of the middleware has quit by itself and both close the channel.
CloseEnds ==
    (emitter \in {"middleware", "checked", "closing"} /\ (setup.limited => setup.limit > 0)) ~>
        (emitter = "closed" \/ (emitter = "panicked" /\ command = "quit"))
=============================================================================
