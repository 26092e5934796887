------------------------------ MODULE TCPOutput ------------------------------
(***************************************************************************)
(* goreplay/output/output_tcp.go: PluginWrite puts a message into one of   *)
(* several buffers; for each buffer a worker writes them to a connection   *)
(* of its own.  A worker whose write fails starts its successor and puts   *)
(* the message back, behind what the buffer holds by then.                 *)
(*                                                                         *)
(* output_ws.go repeats PluginWrite, the worker and Close of this file     *)
(* line for line, over another kind of connection.                         *)
(***************************************************************************)
EXTENDS Integers, Sequences, FiniteSets, SequencesExt

CONSTANTS
    Msgs,        \* origin payloads offered to PluginWrite, each once
    Workers,     \* number of buffers
    Sticky,      \* the buffer is chosen by the id of the message
    Bucket,      \* the buffer the hash of its id chooses for each message
    BufLen,      \* capacity of a buffer, 100 in the code
    Callers,     \* goroutines calling PluginWrite
    MaxBreaks    \* bound on the connections that break

Indices == 0 .. Workers - 1

ASSUME TCPAssumption ==
    /\ Workers \in Nat \ {0}
    /\ Sticky \in BOOLEAN
    /\ Bucket \in [Msgs -> Indices]
    /\ BufLen \in Nat \ {0}
    /\ MaxBreaks \in Nat

VARIABLES
    buf,          \* o.buf
    workerIndex,  \* o.workerIndex, as far as the choice of a buffer goes
    calling,      \* the message each caller is in PluginWrite with, and its buffer
    worker,       \* the worker of each buffer: connecting, waiting, or at a message
    returning,    \* per buffer, messages old workers are putting back
    written,      \* messages written whole, in order, per buffer
    up,           \* the aggregator accepts connections
    breaks,       \* connections that have broken
    close         \* o.close
tcpVars == <<buf, workerIndex, calling, worker, returning, written, up, breaks, close>>

Nothing == [pc |-> "none"]

TCPInit ==
    /\ buf = [i \in Indices |-> <<>>]
    /\ workerIndex = 0
    /\ calling = [c \in Callers |-> Nothing]
    /\ worker = [i \in Indices |-> [pc |-> "connecting"]]
    /\ returning = [i \in Indices |-> {}]
    /\ written = [i \in Indices |-> <<>>]
    /\ up \in BOOLEAN
    /\ breaks = 0
    /\ close = FALSE

-----------------------------------------------------------------------------
(* PluginWrite *)

\* Mutant: the id is not looked at.
BufferIndex_Next(msg) == IF Cardinality(Callers) = 1 THEN {(workerIndex + 1) % Workers} ELSE Indices

\* getBufferIndex.  Callers increment workerIndex without a lock: with several of
\* them increments get lost, or undone by a late one, and any index may come out.
BufferIndex(msg) ==
    CASE Sticky -> {Bucket[msg]}
      [] ~Sticky /\ Cardinality(Callers) = 1 -> {(workerIndex + 1) % Workers}
      [] OTHER -> Indices

Choose_(c, msg) ==
    /\ calling[c] = Nothing
    /\ \E i \in BufferIndex(msg) :
          /\ calling' = [calling EXCEPT ![c] = [pc |-> "send", msg |-> msg, index |-> i]]
          /\ workerIndex' = IF Sticky THEN workerIndex ELSE i
    /\ UNCHANGED <<buf, worker, returning, written, up, breaks, close>>

\* The send blocks while the buffer is full, and nothing but room ends it.
Put(c) ==
    /\ calling[c] # Nothing
    /\ LET i == calling[c].index
       IN /\ Len(buf[i]) < BufLen
          /\ buf' = [buf EXCEPT ![i] = Append(@, calling[c].msg)]
    /\ calling' = [calling EXCEPT ![c] = Nothing]
    /\ UNCHANGED <<workerIndex, worker, returning, written, up, breaks, close>>

-----------------------------------------------------------------------------
(* worker *)

\* The connect succeeds, unless o.close has been set when it returns; a connect
\* that fails is repeated.
Connect(i) ==
    /\ worker[i].pc = "connecting"
    /\ ~close /\ up
    /\ worker' = [worker EXCEPT ![i] = [pc |-> "waiting"]]
    /\ UNCHANGED <<buf, workerIndex, calling, returning, written, up, breaks, close>>

GiveUp(i) ==
    /\ worker[i].pc = "connecting"
    /\ close
    /\ worker' = [worker EXCEPT ![i] = [pc |-> "returned"]]
    /\ UNCHANGED <<buf, workerIndex, calling, returning, written, up, breaks, close>>

Receive(i) ==
    /\ worker[i].pc = "waiting"
    /\ buf[i] # <<>>
    /\ worker' = [worker EXCEPT ![i] = [pc |-> "writing", msg |-> Head(buf[i])]]
    /\ buf' = [buf EXCEPT ![i] = Tail(@)]
    /\ UNCHANGED <<workerIndex, calling, returning, written, up, breaks, close>>

WriteWhole(i) ==
    /\ worker[i].pc = "writing"
    /\ written' = [written EXCEPT ![i] = Append(@, worker[i].msg)]
    /\ worker' = [worker EXCEPT ![i] = [pc |-> "waiting"]]
    /\ UNCHANGED <<buf, workerIndex, calling, returning, up, breaks, close>>

\* Mutant: the message is not put back.
WriteFails_Drops(i) ==
    /\ worker[i].pc = "writing"
    /\ breaks < MaxBreaks
    /\ breaks' = breaks + 1
    /\ worker' = [worker EXCEPT ![i] = [pc |-> "connecting"]]
    /\ UNCHANGED <<buf, workerIndex, calling, returning, written, up, close>>

\* The connection has broken: a new worker takes over the buffer.
WriteFails(i) ==
    /\ worker[i].pc = "writing"
    /\ breaks < MaxBreaks
    /\ breaks' = breaks + 1
    /\ worker' = [worker EXCEPT ![i] = [pc |-> "connecting"]]
    /\ returning' = [returning EXCEPT ![i] = @ \cup {worker[i].msg}]
    /\ UNCHANGED <<buf, workerIndex, calling, written, up, close>>

\* Mutant: the old worker goes on after it has put the message back.
PutBack_Writes(i, msg) ==
    /\ msg \in returning[i]
    /\ Len(buf[i]) < BufLen
    /\ buf' = [buf EXCEPT ![i] = Append(@, msg)]
    /\ written' = [written EXCEPT ![i] = Append(@, msg)]
    /\ returning' = [returning EXCEPT ![i] = @ \ {msg}]
    /\ UNCHANGED <<workerIndex, calling, worker, up, breaks, close>>

\* The old worker puts its message back as soon as there is room, and returns.
PutBack(i, msg) ==
    /\ msg \in returning[i]
    /\ Len(buf[i]) < BufLen
    /\ buf' = [buf EXCEPT ![i] = Append(@, msg)]
    /\ returning' = [returning EXCEPT ![i] = @ \ {msg}]
    /\ UNCHANGED <<workerIndex, calling, worker, written, up, breaks, close>>

\* The method sets the flag and no more.  The emitter never calls it, see Closed in
\* Emitter.
TCPClose ==
    /\ ~close
    /\ close' = TRUE
    /\ UNCHANGED <<buf, workerIndex, calling, worker, returning, written, up, breaks>>

\* The aggregator comes and goes.
AggregatorUp ==
    /\ ~up
    /\ up' = TRUE
    /\ UNCHANGED <<buf, workerIndex, calling, worker, returning, written, breaks, close>>

AggregatorDown ==
    /\ up /\ breaks < MaxBreaks
    /\ up' = FALSE
    /\ breaks' = breaks + 1
    /\ UNCHANGED <<buf, workerIndex, calling, worker, returning, written, close>>

Work(i) == Connect(i) \/ Receive(i) \/ WriteWhole(i)

\* What happens in the goroutines of the plugin and around it.
Background ==
    \/ \E i \in Indices : Work(i) \/ WriteFails(i) \/ \E msg \in Msgs : PutBack(i, msg)
    \/ AggregatorUp
    \/ AggregatorDown

-----------------------------------------------------------------------------
(* The plugin alone, with callers that offer every message once, and a Close *)

Held(i) == IF worker[i].pc = "writing" THEN {worker[i].msg} ELSE {}

InCall == {calling[c].msg : c \in {d \in Callers : calling[d] # Nothing}}

Inside(i) == ToSet(buf[i]) \cup Held(i) \cup returning[i]

Offered == (UNION {Inside(i) \cup ToSet(written[i]) : i \in Indices}) \cup InCall

Call(c) == \E msg \in Msgs \ Offered : Choose_(c, msg)

TCPNext ==
    \/ \E c \in Callers : Call(c) \/ Put(c)
    \/ Background
    \/ TCPClose
    \/ \E i \in Indices : GiveUp(i)

TCPSpec == TCPInit /\ [][TCPNext]_tcpVars

-----------------------------------------------------------------------------
(* Properties *)

TCPTypeOK ==
    /\ buf \in [Indices -> Seq(Msgs)]
    /\ \A i \in Indices : Len(buf[i]) <= BufLen
    /\ workerIndex \in Indices
    /\ calling \in [Callers -> {Nothing} \cup [pc : {"send"}, msg : Msgs, index : Indices]]
    /\ worker \in [Indices -> [pc : {"connecting", "waiting", "returned"}]
                                \cup [pc : {"writing"}, msg : Msgs]]
    /\ returning \in [Indices -> SUBSET Msgs]
    /\ written \in [Indices -> Seq(Msgs)]
    /\ up \in BOOLEAN /\ breaks \in 0 .. MaxBreaks /\ close \in BOOLEAN

\* A message that is in the plugin is there once, and not one that was written
\* already: neither the changes of workers nor the putting back duplicate it.
InOnePlace ==
    /\ \A i \in Indices :
          /\ IsInjective(buf[i] \o written[i])
          /\ ToSet(buf[i] \o written[i]) \cap (Held(i) \cup returning[i]) = {}
          /\ Held(i) \cap returning[i] = {}
    /\ \A i, j \in Indices : i # j =>
          (Inside(i) \cup ToSet(written[i])) \cap (Inside(j) \cup ToSet(written[j])) = {}

\* With Sticky, messages of one id are written by one worker.
StickyTogether ==
    Sticky => \A i \in Indices : \A msg \in Inside(i) \cup ToSet(written[i]) : Bucket[msg] = i
=============================================================================
