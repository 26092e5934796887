---------------------------- MODULE BinaryOutput ----------------------------
(***************************************************************************)
(* The worker pool of goreplay/output/output_binary_pro.go, fixed or       *)
(* dynamic.  A dynamic pool grows when a writer finds the queue longer     *)
(* than the counter of workers, and a worker that has had nothing to do    *)
(* for long dies unless it thinks it is the last.                          *)
(*                                                                         *)
(* Workers that hold no message differ in nothing but their place in the   *)
(* code, so the model counts how many there are at each place.  Of the     *)
(* deathCount of a worker only its passing the limit of 20 is kept: it may *)
(* at any time turn out to have been idle for long enough.                 *)
(***************************************************************************)
EXTENDS Integers, Sequences, FiniteSets

CONSTANTS
    Requests,       \* request payloads offered to PluginWrite, each once
    Writers,        \* goroutines calling PluginWrite
    Workers,        \* option: size of a fixed pool, 0 for a dynamic one
    Initial,        \* InitialDynamicWorkers, 10 in the code
    QueueLen,       \* capacity of queue and of responses, 1000 in the code
    TrackResponses

ASSUME BinaryAssumption ==
    /\ IsFiniteSet(Writers)
    /\ Workers \in Nat
    /\ Initial \in Nat \ {0}
    /\ QueueLen \in Nat \ {0}
    /\ TrackResponses \in BOOLEAN

Dynamic == Workers = 0

VARIABLES
    queue,       \* o.queue
    responses,   \* o.responses
    needWorker,  \* o.needWorker, of capacity 1
    active,      \* o.activeWorkers
    master,      \* control state of workerMaster
    starting,    \* workers it has still to start for the number it received
    unborn,      \* goroutines started that have not added to the counter
    idle,        \* workers in the select
    tired,       \* those in the select whose deathCount is beyond the limit
    sending,     \* messages a worker is in client.Send with
    answering,   \* messages a worker has the outcome of, not yet in o.responses
    doomed,      \* workers beyond the limit, about to load the counter
    dying,       \* workers that have loaded it and will die
    done,        \* messages their worker has finished with
    offered,     \* messages PluginWrite has been called with
    writer,      \* control state and local of PluginWrite
    quit         \* o.quit is closed
pool == <<active, unborn, idle, tired, sending, answering, doomed, dying, done>>
growth == <<master, starting, needWorker>>
vars == <<queue, responses, growth, pool, offered, writer, quit>>

Init ==
    /\ queue = <<>>
    /\ responses = <<>>
    /\ needWorker = <<IF Dynamic THEN Initial ELSE Workers>>
    /\ active = 0
    /\ master = "waiting"
    /\ starting = 0
    /\ unborn = 0
    /\ idle = 0 /\ tired = 0
    /\ sending = {} /\ answering = {}
    /\ doomed = 0 /\ dying = 0
    /\ done = {}
    /\ offered = {}
    /\ writer = [w \in Writers |-> [pc |-> "ready", n |-> 0]]
    /\ quit = FALSE

-----------------------------------------------------------------------------
(* PluginWrite of a request *)

Goto(w, pc, n) == writer' = [writer EXCEPT ![w] = [pc |-> pc, n |-> n]]

Enqueue(w, msg) ==
    /\ writer[w].pc = "ready"
    /\ msg \in Requests \ offered
    /\ Len(queue) < QueueLen
    /\ queue' = Append(queue, msg)
    /\ offered' = offered \cup {msg}
    /\ Goto(w, IF Dynamic THEN "load" ELSE "ready", 0)
    /\ UNCHANGED <<responses, growth, pool, quit>>

\* The counter of workers.
Load(w) ==
    /\ writer[w].pc = "load"
    /\ Goto(w, "compare", active)
    /\ UNCHANGED <<queue, responses, growth, pool, offered, quit>>

Compare(w) ==
    /\ writer[w].pc = "compare"
    /\ IF Len(queue) > writer[w].n THEN Goto(w, "measure", 0) ELSE Goto(w, "ready", 0)
    /\ UNCHANGED <<queue, responses, growth, pool, offered, quit>>

\* The length is read again, before the send that may block.
Measure(w) ==
    /\ writer[w].pc = "measure"
    /\ Goto(w, "need", Len(queue))
    /\ UNCHANGED <<queue, responses, growth, pool, offered, quit>>

Need(w) ==
    /\ writer[w].pc = "need"
    /\ needWorker = <<>>
    /\ needWorker' = <<writer[w].n>>
    /\ Goto(w, "ready", 0)
    /\ UNCHANGED <<queue, responses, master, starting, pool, offered, quit>>

-----------------------------------------------------------------------------
(* workerMaster *)

MasterTakes ==
    /\ master = "waiting"
    /\ needWorker # <<>>
    /\ starting' = Head(needWorker)
    /\ needWorker' = <<>>
    /\ master' = IF Dynamic THEN "starting" ELSE "leaving"
    /\ UNCHANGED <<queue, responses, pool, offered, writer, quit>>

MasterStarts ==
    /\ master \in {"starting", "leaving"}
    /\ starting > 0
    /\ starting' = starting - 1
    /\ unborn' = unborn + 1
    /\ UNCHANGED <<queue, responses, master, needWorker, active, idle, tired, sending,
                   answering, doomed, dying, done, offered, writer, quit>>

MasterLoops ==
    /\ master \in {"starting", "leaving"}
    /\ starting = 0
    /\ master' = IF master = "starting" THEN "waiting" ELSE "returned"
    /\ UNCHANGED <<queue, responses, starting, needWorker, pool, offered, writer, quit>>

-----------------------------------------------------------------------------
(* startWorker *)

Born ==
    /\ unborn > 0
    /\ unborn' = unborn - 1
    /\ active' = active + 1
    /\ idle' = idle + 1
    /\ UNCHANGED <<queue, responses, growth, tired, sending, answering, doomed, dying, done,
                   offered, writer, quit>>

\* A worker takes a message, however long it has been idle.
Take ==
    /\ queue # <<>>
    /\ \/ idle > 0 /\ idle' = idle - 1 /\ UNCHANGED tired
       \/ tired > 0 /\ tired' = tired - 1 /\ UNCHANGED idle
    /\ sending' = sending \cup {Head(queue)}
    /\ queue' = Tail(queue)
    /\ UNCHANGED <<responses, growth, active, unborn, answering, doomed, dying, done,
                   offered, writer, quit>>

\* client.Send returns; an error too has a response.
Sent(msg) ==
    /\ msg \in sending
    /\ sending' = sending \ {msg}
    /\ IF TrackResponses
       THEN answering' = answering \cup {msg} /\ UNCHANGED <<idle, done>>
       ELSE idle' = idle + 1 /\ done' = done \cup {msg} /\ UNCHANGED answering
    /\ UNCHANGED <<queue, responses, growth, active, unborn, tired, doomed, dying,
                   offered, writer, quit>>

\* Mutant: the worker ends after its first response.
Answer_Ends(msg) ==
    /\ msg \in answering
    /\ Len(responses) < QueueLen
    /\ answering' = answering \ {msg}
    /\ responses' = Append(responses, msg)
    /\ done' = done \cup {msg}
    /\ UNCHANGED <<queue, growth, active, unborn, idle, tired, sending, doomed, dying,
                   offered, writer, quit>>

Answer(msg) ==
    /\ msg \in answering
    /\ Len(responses) < QueueLen
    /\ answering' = answering \ {msg}
    /\ responses' = Append(responses, msg)
    /\ idle' = idle + 1
    /\ done' = done \cup {msg}
    /\ UNCHANGED <<queue, growth, active, unborn, tired, sending, doomed, dying,
                   offered, writer, quit>>

\* PluginRead; after Close it may return ErrorStopped for good.
Read ==
    /\ responses # <<>>
    /\ responses' = Tail(responses)
    /\ UNCHANGED <<queue, growth, pool, offered, writer, quit>>

\* 100ms without a message have put the deathCount of a worker beyond the
\* limit, or further beyond.  In a fixed pool nobody counts.
Tick ==
    /\ Dynamic
    /\ \/ idle > 0 /\ idle' = idle - 1 /\ UNCHANGED tired
       \/ tired > 0 /\ tired' = tired - 1 /\ UNCHANGED idle
    /\ doomed' = doomed + 1
    /\ UNCHANGED <<queue, responses, growth, active, unborn, sending, answering, dying,
                   done, offered, writer, quit>>

\* Mutant: a worker that finds others stays.
Look_Stays ==
    /\ doomed > 0
    /\ doomed' = doomed - 1
    /\ tired' = tired + 1
    /\ UNCHANGED <<queue, responses, growth, active, unborn, idle, sending, answering,
                   dying, done, offered, writer, quit>>

\* Is it the last?
Look ==
    /\ doomed > 0
    /\ doomed' = doomed - 1
    /\ IF active # 1
       THEN dying' = dying + 1 /\ UNCHANGED tired
       ELSE tired' = tired + 1 /\ UNCHANGED dying
    /\ UNCHANGED <<queue, responses, growth, active, unborn, idle, sending, answering, done,
                   offered, writer, quit>>

\* Mutant: the counter is left alone.
Die_Uncounted ==
    /\ dying > 0
    /\ dying' = dying - 1
    /\ UNCHANGED <<queue, responses, growth, active, unborn, idle, tired, sending,
                   answering, doomed, done, offered, writer, quit>>

Die ==
    /\ dying > 0
    /\ dying' = dying - 1
    /\ active' = active - 1
    /\ UNCHANGED <<queue, responses, growth, unborn, idle, tired, sending, answering,
                   doomed, done, offered, writer, quit>>

Close ==
    /\ ~quit
    /\ quit' = TRUE
    /\ UNCHANGED <<queue, responses, growth, pool, offered, writer>>

Write(w) == Load(w) \/ Compare(w) \/ Measure(w) \/ Need(w)

Master == MasterTakes \/ MasterStarts \/ MasterLoops

Next ==
    \/ \E w \in Writers : Write(w) \/ \E msg \in Requests : Enqueue(w, msg)
    \/ Master
    \/ Born
    \/ Take
    \/ Tick
    \/ \E msg \in Requests : Sent(msg) \/ Answer(msg)
    \/ Read
    \/ Look
    \/ Die
    \/ Close

Spec == Init /\ [][Next]_vars

\* Goroutines that can run do; client.Send has timeouts; time passes; the
\* responses are read until Close.  A worker whose time is up again and again finds
\* a message at one of its selects, which chooses among what is ready at random.
FairSpec ==
    /\ Spec
    /\ \A w \in Writers : WF_vars(Write(w))
    /\ WF_vars(Master)
    /\ WF_vars(Born)
    /\ SF_vars(Take)
    /\ WF_vars(Tick)
    /\ \A msg \in Requests : WF_vars(Sent(msg)) /\ WF_vars(Answer(msg))
    /\ WF_vars(~quit /\ Read)
    /\ WF_vars(Look)
    /\ WF_vars(Die)

-----------------------------------------------------------------------------
(* Properties *)

\* Workers that have been counted and have not died.
Alive == idle + tired + Cardinality(sending) + Cardinality(answering) + doomed + dying

TypeOK ==
    /\ queue \in Seq(Requests) /\ Len(queue) <= QueueLen
    /\ responses \in Seq(Requests) /\ Len(responses) <= QueueLen
    /\ needWorker \in Seq(Nat) /\ Len(needWorker) <= 1
    /\ active \in Nat /\ unborn \in Nat /\ starting \in Nat
    /\ idle \in Nat /\ tired \in Nat /\ doomed \in Nat /\ dying \in Nat
    /\ master \in {"waiting", "starting", "leaving", "returned"}
    /\ sending \subseteq Requests /\ answering \subseteq Requests
    /\ done \subseteq offered /\ offered \subseteq Requests
    /\ writer \in [Writers -> [pc : {"ready", "load", "compare", "measure", "need"}, n : Nat]]
    /\ quit \in BOOLEAN

\* The counter is the number of workers that count themselves in: none is lost
\* or counted twice, although each adds and subtracts for itself.
Accounting == active = Alive

\* Once there is a worker there is always one (output_binary_pro.go:100).
KeepsOne == [][active > 0 => active' > 0]_vars

\* Every request that was accepted is sent and finished with, unless the output is
\* closed or its last worker has died; and no writer waits for the master for ever.
Served ==
    /\ \A msg \in Requests : (msg \in offered) ~> (msg \in done \/ quit \/ active = 0)
    /\ \A w \in Writers : (writer[w].pc = "need") ~> (writer[w].pc = "ready")

\* When the traffic is over a dynamic pool shrinks to a worker or none.
Shrinks == <>[](active <= 1)
=============================================================================
