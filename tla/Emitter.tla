------------------------------- MODULE Emitter -------------------------------
(***************************************************************************)
(* goreplay/bootstrap/emitter.go: one copier (CopyMulty) per input, each   *)
(* writing what it reads to every output in turn, and Close.  One of the   *)
(* outputs is the TCP output, whose module this one extends: PluginWrite   *)
(* blocks there.  The others, files and HTTP outputs, take what they are   *)
(* given, until they are closed or, a file, has reached its size limit.    *)
(*                                                                         *)
(* Kept of a payload: its kind, its request id, and whether the modifier   *)
(* or the prettifier turns it into nothing.                                *)
(***************************************************************************)
EXTENDS TCPOutput

CONSTANTS
    Inputs,      \* the input plugins, in order
    Outputs,     \* the output plugins, in order; "tcp" is one of them
    All,         \* all plugins, in the order they were registered
    Script,      \* the payloads each input returns, in order
    Kind,        \* of a payload: "request", "response", "replayed" or "malformed"
    Id,          \* its request id
    Rejected,    \* requests the modifier empties
    Unpretty,    \* payloads the prettifier empties
    Limit        \* payloads after which the file output has reached its size limit

ASSUME EmitterAssumption ==
    /\ Callers = ToSet(Inputs) /\ IsInjective(Inputs) /\ Len(Inputs) \in Nat
    /\ "tcp" \in ToSet(Outputs) /\ IsInjective(Outputs) /\ Len(Outputs) \in Nat
    \* Every payload is a thing of its own: it is read once, by one input.
    /\ Script \in [Callers -> Seq(Msgs)]
    /\ \A in \in Callers : IsInjective(Script[in])
    /\ \A in, other \in Callers : in # other => ToSet(Script[in]) \cap ToSet(Script[other]) = {}
    /\ ToSet(All) = ToSet(Inputs) \cup ToSet(Outputs)
    /\ \A msg \in Msgs : Kind[msg] \in {"request", "response", "replayed", "malformed"}

VARIABLES
    installed,   \* e.plugins has been set
    started,     \* copiers Start has started
    stream,      \* payloads each input has still to return
    copier,      \* each copier: reading, or which payload it is writing to which output
    filtered,    \* filteredRequests of each copier: whether an id is in, or has expired
    taken,       \* payloads each output has taken, in order
    emitter,     \* control state of Close
    closing      \* the next plugin it looks at
emitterVars == <<installed, started, stream, copier, filtered, taken, emitter, closing, tcpVars>>

Ids == {Id[msg] : msg \in Msgs}

\* Mutant: inputs are not closed.
Closed_Outputs == ({All[j] : j \in 1 .. closing - 1} \cap ToSet(Outputs)) \ {"tcp"}

\* Plugins Close has closed.  The Close of the TCP output returns no error, so
\* that the type is no io.Closer and Close is never called.
Closed == {All[j] : j \in 1 .. closing - 1} \ {"tcp"}

EmitterInit ==
    /\ TCPInit
    /\ installed = FALSE
    /\ started = 0
    /\ stream = Script
    /\ copier = [in \in Callers |-> [pc |-> "unstarted"]]
    /\ filtered = [in \in Callers |-> [id \in Ids |-> "out"]]
    /\ taken = [o \in ToSet(Outputs) |-> <<>>]
    /\ emitter = "running"
    /\ closing = 1

-----------------------------------------------------------------------------
(* Start, in a goroutine of its own *)

Install ==
    /\ emitter # "panicked"
    /\ ~installed
    /\ installed' = TRUE
    /\ UNCHANGED <<started, stream, copier, filtered, taken, emitter, closing, tcpVars>>

StartCopier ==
    /\ installed
    /\ started < Len(Inputs)
    /\ started' = started + 1
    /\ copier' = [copier EXCEPT ![Inputs[started + 1]] = [pc |-> "read"]]
    /\ UNCHANGED <<installed, stream, filtered, taken, emitter, closing, tcpVars>>

-----------------------------------------------------------------------------
(* CopyMulty *)

\* Mutant: a response does not look for its request.
Outcome_Unpaired(in, msg) ==
    [entry |-> IF msg \in Rejected THEN "in" ELSE filtered[in][Id[msg]],
     write |-> Kind[msg] # "malformed" /\ msg \notin Rejected \cup Unpretty]

\* What becomes of a payload that was read: the new state of the id in the cache
\* and whether the payload is written.
Outcome(in, msg) ==
    LET id == Id[msg]
        entry == filtered[in][id]
        pretty == msg \notin Unpretty
    IN CASE Kind[msg] = "malformed" -> [entry |-> entry, write |-> FALSE]
         [] Kind[msg] = "request" /\ msg \in Rejected -> [entry |-> "in", write |-> FALSE]
         [] Kind[msg] = "request" /\ msg \notin Rejected -> [entry |-> entry, write |-> pretty]
         [] Kind[msg] \in {"response", "replayed"} /\ entry = "in" -> [entry |-> "out", write |-> FALSE]
         [] OTHER -> [entry |-> entry, write |-> pretty]

\* A closed input may still return a payload: the select of PluginRead has both.
Read(in) ==
    /\ copier[in].pc = "read"
    /\ stream[in] # <<>>
    /\ LET msg == Head(stream[in])
           outcome == Outcome(in, msg)
       IN /\ filtered' = [filtered EXCEPT ![in][Id[msg]] = outcome.entry]
          /\ copier' = IF outcome.write
                       THEN [copier EXCEPT ![in] = [pc |-> "write", msg |-> msg, k |-> 1]]
                       ELSE copier
    /\ stream' = [stream EXCEPT ![in] = Tail(@)]
    /\ UNCHANGED <<installed, started, taken, emitter, closing, tcpVars>>

ReadStops(in) ==
    /\ copier[in].pc = "read"
    /\ in \in Closed
    /\ copier' = [copier EXCEPT ![in] = [pc |-> "returned"]]
    /\ UNCHANGED <<installed, started, stream, filtered, taken, emitter, closing, tcpVars>>

\* 60 seconds after it was put in an entry is gone.
Expire(in, id) ==
    /\ filtered[in][id] = "in"
    /\ filtered' = [filtered EXCEPT ![in][id] = "expired"]
    /\ UNCHANGED <<installed, started, stream, copier, taken, emitter, closing, tcpVars>>

\* The copier after a write without error.
Written(in) ==
    LET at == copier[in]
    IN IF at.k = Len(Outputs) THEN [pc |-> "read"] ELSE [at EXCEPT !.pc = "write", !.k = @ + 1]

AtOutput(in, o) == copier[in].pc = "write" /\ Outputs[copier[in].k] = o

Origin(msg) == Kind[msg] \in {"request", "response"}

\* PluginWrite of the TCP output: it skips what is no origin payload, and else
\* waits for room in the buffer.
WriteTCP(in) ==
    /\ AtOutput(in, "tcp")
    /\ IF Origin(copier[in].msg)
       THEN /\ Choose_(in, copier[in].msg)
            /\ copier' = [copier EXCEPT ![in].pc = "inTCP"]
       ELSE /\ copier' = [copier EXCEPT ![in] = Written(in)]
            /\ UNCHANGED tcpVars
    /\ UNCHANGED <<installed, started, stream, filtered, taken, emitter, closing>>

WriteTCPReturns(in) ==
    /\ copier[in].pc = "inTCP"
    /\ Put(in)
    /\ taken' = [taken EXCEPT !["tcp"] = Append(@, copier[in].msg)]
    /\ copier' = [copier EXCEPT ![in] = Written(in)]
    /\ UNCHANGED <<installed, started, stream, filtered, emitter, closing>>

\* Mutant: an error is logged and the copying goes on.
WriteError_Ignored(in) == Written(in)

\* The copier after a write with an error other than ErrClosedPipe.
WriteError(in) == [pc |-> "returned"]

\* Another output takes the payload.  A file says afterwards that it is full.
Write(in, o) ==
    /\ o # "tcp"
    /\ AtOutput(in, o)
    /\ taken' = [taken EXCEPT ![o] = Append(@, copier[in].msg)]
    /\ copier' = [copier EXCEPT ![in] =
                    IF o = "file" /\ Len(taken'[o]) >= Limit THEN WriteError(in) ELSE Written(in)]
    /\ UNCHANGED <<installed, started, stream, filtered, emitter, closing, tcpVars>>

\* A closed one may refuse it.
WriteRefused(in, o) ==
    /\ AtOutput(in, o)
    /\ o \in Closed
    /\ copier' = [copier EXCEPT ![in] = WriteError(in)]
    /\ UNCHANGED <<installed, started, stream, filtered, taken, emitter, closing, tcpVars>>

Copy(in) ==
    \/ Read(in) \/ ReadStops(in)
    \/ WriteTCP(in) \/ WriteTCPReturns(in)
    \/ \E o \in ToSet(Outputs) : Write(in, o) \/ WriteRefused(in, o)

-----------------------------------------------------------------------------
(* Close, once the signal or the end of ExitAfter has come *)

\* Before Start has set e.plugins Close dereferences nil, and the process ends.
CloseStarts ==
    /\ emitter = "running"
    /\ emitter' = IF installed THEN "closing" ELSE "panicked"
    /\ UNCHANGED <<installed, started, stream, copier, filtered, taken, closing, tcpVars>>

CloseOne ==
    /\ emitter = "closing"
    /\ closing <= Len(All)
    /\ closing' = closing + 1
    /\ UNCHANGED <<installed, started, stream, copier, filtered, taken, emitter, tcpVars>>

\* Wait: no copier that was added is running.
CloseReturns ==
    /\ emitter = "closing"
    /\ closing > Len(All)
    /\ \A in \in Callers : copier[in].pc \in {"unstarted", "returned"}
    /\ emitter' = "closed"
    /\ UNCHANGED <<installed, started, stream, copier, filtered, taken, closing, tcpVars>>

\* The goroutines of the TCP output.
TCPWorks ==
    /\ emitter # "panicked"
    /\ Background
    /\ UNCHANGED <<installed, started, stream, copier, filtered, taken, emitter, closing>>

EmitterNext ==
    \/ Install
    \/ StartCopier
    \/ \E in \in Callers : Copy(in) \/ \E id \in Ids : Expire(in, id)
    \/ CloseStarts
    \/ CloseOne
    \/ CloseReturns
    \/ TCPWorks

EmitterSpec == EmitterInit /\ [][EmitterNext]_emitterVars

\* Goroutines that can run do: those of the emitter, and those of the output.
EmitterFairness ==
    /\ WF_emitterVars(Install \/ StartCopier)
    /\ \A in \in Callers : WF_emitterVars(Copy(in))
    /\ WF_emitterVars(CloseOne \/ CloseReturns)
    /\ \A i \in Indices :
          /\ WF_emitterVars(Work(i) /\ TCPWorks)
          /\ WF_emitterVars(\E msg \in Msgs : PutBack(i, msg) /\ TCPWorks)

EmitterFairSpec == EmitterSpec /\ EmitterFairness

\* And the aggregator comes back.
EmitterUpSpec == EmitterFairSpec /\ WF_emitterVars(AggregatorUp /\ TCPWorks)

-----------------------------------------------------------------------------
(* Properties *)

\* Which payloads of one input an output has taken, by their places in its script.
Got(in, o) == {p \in DOMAIN Script[in] : Script[in][p] \in ToSet(taken[o])}

\* An input that reassembles traffic delivers, of each id, a request and behind it its
\* response, and nothing else of that id but what is malformed.
Exchange(in, r, s) ==
    /\ r < s
    /\ Kind[Script[in][r]] = "request" /\ Kind[Script[in][s]] = "response"
    /\ Id[Script[in][r]] = Id[Script[in][s]]
    /\ \A t \in DOMAIN Script[in] :
          Id[Script[in][t]] = Id[Script[in][r]] => t \in {r, s} \/ Kind[Script[in][t]] = "malformed"

Exchanged ==
    \A in \in Callers : \A s \in DOMAIN Script[in] :
        Kind[Script[in][s]] = "response" => \E r \in DOMAIN Script[in] : Exchange(in, r, s)

\* An output takes a response only after its request, which the modifier and the
\* prettifier both let pass; but for a request the prettifier emptied, which no
\* cache remembers, and one that was rejected more than a minute ago.
ResponsesHaveRequests ==
    \A o \in ToSet(Outputs) : \A j \in DOMAIN taken[o] :
        Kind[taken[o][j]] = "response" =>
            \E req \in Msgs :
                /\ Id[req] = Id[taken[o][j]] /\ Kind[req] = "request"
                /\ \/ \E i \in 1 .. j - 1 : taken[o][i] = req
                   \/ req \in Unpretty
                   \/ \E in \in Callers : filtered[in][Id[req]] = "expired"

\* Every output gets what an input delivers in its order, and nothing of it twice.
\* A later output takes nothing that an earlier one did not, and lacks at most the
\* last one the earlier has taken.  (Leaving aside what the TCP output skips.)
InStep ==
    \A in \in Callers :
        /\ \A o \in ToSet(Outputs) : \A i, j \in DOMAIN taken[o] : \A p, q \in DOMAIN Script[in] :
              i < j /\ taken[o][i] = Script[in][p] /\ taken[o][j] = Script[in][q] => p < q
        /\ \A j, k \in DOMAIN Outputs : \A p \in DOMAIN Script[in] :
              j < k /\ ("tcp" \in {Outputs[j], Outputs[k]} => Origin(Script[in][p])) =>
                LET earlier == Got(in, Outputs[j])
                    later == Got(in, Outputs[k])
                IN /\ p \in later => p \in earlier
                   /\ p \in earlier \ later => \A q \in earlier \cup later : q <= p

\* Close returns, even while copiers wait for the TCP output.
CloseEnds == (emitter = "closing") ~> (emitter = "closed")

\* Origin payloads the filters have let pass.
Passed == {msg \in Msgs : Origin(msg) /\
             (\/ \E o \in ToSet(Outputs) : msg \in ToSet(taken[o])
              \/ \E in \in Callers : copier[in].pc \in {"write", "inTCP"} /\ copier[in].msg = msg)}

\* Payloads a file has answered with the error that it is full.
Overfull == {taken[o][j] : o \in ToSet(Outputs) \cap {"file"}, j \in {j \in DOMAIN taken["file"] : j >= Limit}}

\* What the filters pass on is written to the aggregator in the end, unless the
\* emitter is closed, or the file was full with that very payload.
Delivered ==
    []<>(\/ Passed \ Overfull \subseteq UNION {ToSet(written[i]) : i \in Indices}
         \/ emitter # "running")
=============================================================================
