----------------------------- MODULE HTTPOutput -----------------------------
(***************************************************************************)
(* The dynamic worker pool of goreplay/output/output_http.go.              *)
(*                                                                         *)
(* Writers are the copying goroutines of the emitter (one per input) that  *)
(* call PluginWrite; each worker is a goroutine running startWorker; the   *)
(* master is the goroutine of workerMaster.  Steps between two accesses to *)
(* the shared counter, the queue or a channel are separate actions.        *)
(***************************************************************************)
EXTENDS Integers, Sequences, FiniteSets, SequencesExt, FiniteSetsExt

CONSTANTS
    Msgs,            \* messages offered to PluginWrite, each once
    Requests,        \* those of them that are request payloads
    Writers,         \* goroutines calling PluginWrite
    WorkersMin, WorkersMax, QueueLen,
    TrackResponses   \* responses are handed to PluginRead

ASSUME PoolAssumption ==
    /\ Requests \subseteq Msgs
    /\ IsFiniteSet(Writers)
    /\ WorkersMin \in Nat \ {0} /\ WorkersMax \in Nat /\ WorkersMin <= WorkersMax
    /\ QueueLen \in Nat \ {0}
    /\ TrackResponses \in BOOLEAN

VARIABLES
    queue,       \* o.queue
    active,      \* o.activeWorkers
    workers,     \* startWorker goroutines that have not returned
    sending,     \* messages a worker is in client.Send with
    answering,   \* messages a worker has the response of, not yet in o.responses
    responses,   \* o.responses
    done,        \* messages their worker has finished with
    offered,     \* messages PluginWrite has been called with
    writer,      \* control state and locals of PluginWrite
    master,      \* control state of workerMaster
    stop,        \* o.stop is closed
    stopWorker   \* o.stopWorker is closed
vars == <<queue, active, workers, sending, answering, responses, done,
          offered, writer, master, stop, stopWorker>>

\* The locals of PluginWrite have no value that matters between two calls.
Ready == [pc |-> "ready", count |-> 0, extra |-> 0]
Starting(extra) == [pc |-> "start", count |-> 0, extra |-> extra]

Idle == workers - Cardinality(sending) - Cardinality(answering)

Init ==
    /\ queue = <<>>
    /\ active = WorkersMin
    /\ workers = WorkersMin
    /\ sending = {} /\ answering = {}
    /\ responses = <<>>
    /\ done = {}
    /\ offered = {}
    /\ writer = [w \in Writers |-> Ready]
    /\ master = "top"
    /\ stop = FALSE
    /\ stopWorker = FALSE

-----------------------------------------------------------------------------
(* PluginWrite *)

Goto(w, pc) == writer' = [writer EXCEPT ![w].pc = pc]

\* A request is put into the queue; the call blocks while it is full.
Enqueue(w, msg) ==
    /\ writer[w].pc = "ready"
    /\ msg \in Requests \ offered
    /\ Len(queue) < QueueLen
    /\ queue' = Append(queue, msg)
    /\ offered' = offered \cup {msg}
    /\ Goto(w, IF WorkersMax # WorkersMin THEN "load" ELSE "ready")
    /\ UNCHANGED <<active, workers, sending, answering, responses, done, master, stop, stopWorker>>

\* Anything but a request is ignored.
Skip(w, msg) ==
    /\ writer[w].pc = "ready"
    /\ msg \in Msgs \ (Requests \cup offered)
    /\ offered' = offered \cup {msg}
    /\ UNCHANGED <<queue, active, workers, sending, answering, responses, done,
                   writer, master, stop, stopWorker>>

\* The other branch of the select: ErrorStopped, which ends the copying loop.
Refuse(w) ==
    /\ writer[w].pc = "ready"
    /\ stop
    /\ Goto(w, "ended")
    /\ UNCHANGED <<queue, active, workers, sending, answering, responses, done,
                   offered, master, stop, stopWorker>>

Load(w) ==
    /\ writer[w].pc = "load"
    /\ writer' = [writer EXCEPT ![w].pc = "compare", ![w].count = active]
    /\ UNCHANGED <<queue, active, workers, sending, answering, responses, done,
                   offered, master, stop, stopWorker>>

Compare(w) ==
    /\ writer[w].pc = "compare"
    /\ writer' = [writer EXCEPT ![w] =
                     IF Len(queue) > @.count THEN [@ EXCEPT !.pc = "extra"] ELSE Ready]
    /\ UNCHANGED <<queue, active, workers, sending, answering, responses, done,
                   offered, master, stop, stopWorker>>

\* Mutant: WorkersMax is not looked at.
ExtraWorkersReq_NoMax(count) == Len(queue) - count + 1

\* How many workers to start; the length of the queue is read again.
ExtraWorkersReq(count) == Min({Len(queue) - count + 1, WorkersMax - count})

Extra(w) ==
    LET extra == ExtraWorkersReq(writer[w].count)
    IN /\ writer[w].pc = "extra"
       /\ writer' = [writer EXCEPT ![w] =
                        IF extra > 0 THEN Starting(extra) ELSE Ready]
       /\ UNCHANGED <<queue, active, workers, sending, answering, responses, done,
                      offered, master, stop, stopWorker>>

\* go o.startWorker() and, in a step of its own, the addition to the counter.
Start(w) ==
    /\ writer[w].pc = "start"
    /\ workers' = workers + 1
    /\ Goto(w, "count")
    /\ UNCHANGED <<queue, active, sending, answering, responses, done,
                   offered, master, stop, stopWorker>>

Count(w) ==
    LET left == writer[w].extra - 1
    IN /\ writer[w].pc = "count"
       /\ active' = active + 1
       /\ writer' = [writer EXCEPT ![w] =
                        IF left > 0 THEN Starting(left) ELSE Ready]
       /\ UNCHANGED <<queue, workers, sending, answering, responses, done,
                      offered, master, stop, stopWorker>>

-----------------------------------------------------------------------------
(* startWorker *)

Take ==
    /\ Idle > 0
    /\ queue # <<>>
    /\ sending' = sending \cup {Head(queue)}
    /\ queue' = Tail(queue)
    /\ UNCHANGED <<active, workers, answering, responses, done,
                   offered, writer, master, stop, stopWorker>>

\* client.Send returns with an error or no response, or nobody wants it.
Finish(msg) ==
    /\ msg \in sending
    /\ sending' = sending \ {msg}
    /\ done' = done \cup {msg}
    /\ UNCHANGED <<queue, active, workers, answering, responses,
                   offered, writer, master, stop, stopWorker>>

Answer(msg) ==
    /\ msg \in sending
    /\ TrackResponses
    /\ sending' = sending \ {msg}
    /\ answering' = answering \cup {msg}
    /\ UNCHANGED <<queue, active, workers, responses, done,
                   offered, writer, master, stop, stopWorker>>

\* The worker blocks while o.responses, as long as the queue, is full.
PutResponse(msg) ==
    /\ msg \in answering
    /\ Len(responses) < QueueLen
    /\ answering' = answering \ {msg}
    /\ responses' = Append(responses, msg)
    /\ done' = done \cup {msg}
    /\ UNCHANGED <<queue, active, workers, sending,
                   offered, writer, master, stop, stopWorker>>

\* PluginRead; after Close it may return ErrorStopped for good.
ReadResponse ==
    /\ responses # <<>>
    /\ responses' = Tail(responses)
    /\ UNCHANGED <<queue, active, workers, sending, answering, done,
                   offered, writer, master, stop, stopWorker>>

\* A receive from the closed o.stopWorker.
WorkerReturns ==
    /\ Idle > 0
    /\ stopWorker
    /\ workers' = workers - 1
    /\ UNCHANGED <<queue, active, sending, answering, responses, done,
                   offered, writer, master, stop, stopWorker>>

-----------------------------------------------------------------------------
(* workerMaster *)

MasterTop ==
    /\ master = "top"
    /\ master' = IF stop THEN "returned" ELSE "sleep"
    /\ UNCHANGED <<queue, active, workers, sending, answering, responses, done,
                   offered, writer, stop, stopWorker>>

MasterWakes ==
    /\ master = "sleep"
    /\ master' = "rollback"
    /\ UNCHANGED <<queue, active, workers, sending, answering, responses, done,
                   offered, writer, stop, stopWorker>>

\* Mutants: the last worker may go too; a queue that is not empty is waited for.
Superfluous_Last == active > 0 /\ Len(queue) < 1
Superfluous_Busy == active > WorkersMin /\ Len(queue) > 0

Superfluous == active > WorkersMin /\ Len(queue) < 1

Rollback ==
    /\ master = "rollback"
    /\ master' = IF Superfluous THEN "stopOne" ELSE "top"
    /\ UNCHANGED <<queue, active, workers, sending, answering, responses, done,
                   offered, writer, stop, stopWorker>>

\* The unbuffered send meets a worker that is waiting in its select.
StopOne ==
    /\ master = "stopOne"
    /\ ~stopWorker
    /\ Idle > 0
    /\ workers' = workers - 1
    /\ master' = "decrement"
    /\ UNCHANGED <<queue, active, sending, answering, responses, done,
                   offered, writer, stop, stopWorker>>

\* The send on the closed channel panics; the master recovers and returns.
MasterPanics ==
    /\ master = "stopOne"
    /\ stopWorker
    /\ master' = "returned"
    /\ UNCHANGED <<queue, active, workers, sending, answering, responses, done,
                   offered, writer, stop, stopWorker>>

\* Mutant: the counter is left alone.
Decrement_Not ==
    /\ master = "decrement"
    /\ master' = "rollback"
    /\ UNCHANGED <<queue, active, workers, sending, answering, responses, done,
                   offered, writer, stop, stopWorker>>

Decrement ==
    /\ master = "decrement"
    /\ active' = active - 1
    /\ master' = "rollback"
    /\ UNCHANGED <<queue, workers, sending, answering, responses, done,
                   offered, writer, stop, stopWorker>>

-----------------------------------------------------------------------------
(* Close, called once by the emitter *)

CloseStop ==
    /\ ~stop
    /\ stop' = TRUE
    /\ UNCHANGED <<queue, active, workers, sending, answering, responses, done,
                   offered, writer, master, stopWorker>>

\* Mutant: the workers are not told.
CloseStopWorker_Not == stop /\ UNCHANGED vars

CloseStopWorker ==
    /\ stop
    /\ ~stopWorker
    /\ stopWorker' = TRUE
    /\ UNCHANGED <<queue, active, workers, sending, answering, responses, done,
                   offered, writer, master, stop>>

Write(w) == Load(w) \/ Compare(w) \/ Extra(w) \/ Start(w) \/ Count(w)

Send(msg) == Finish(msg) \/ Answer(msg)

Master == MasterTop \/ MasterWakes \/ Rollback \/ StopOne \/ MasterPanics \/ Decrement

Next ==
    \/ \E w \in Writers : \/ \E msg \in Msgs : Enqueue(w, msg) \/ Skip(w, msg)
                          \/ Refuse(w)
                          \/ Write(w)
    \/ Take
    \/ \E msg \in Msgs : Send(msg) \/ PutResponse(msg)
    \/ ReadResponse
    \/ WorkerReturns
    \/ Master
    \/ CloseStop
    \/ CloseStopWorker

Spec == Init /\ [][Next]_vars

\* Goroutines that can run do; the HTTP client has a timeout, so Send returns;
\* the timer of the master fires; Close runs to its end once it was called.  A
\* worker whose select is always ready gets every branch some time.
\* PluginRead stops being called after Close, so ReadResponse is fair before.
PoolFairness ==
    /\ \A w \in Writers : WF_vars(Write(w)) /\ WF_vars(Refuse(w))
    /\ WF_vars(Take)
    /\ \A msg \in Msgs : WF_vars(Send(msg)) /\ WF_vars(PutResponse(msg))
    /\ WF_vars(~stop /\ ReadResponse)
    /\ WF_vars(WorkerReturns)
    /\ WF_vars(Master)
    /\ WF_vars(CloseStopWorker)

FairSpec == Spec /\ PoolFairness

-----------------------------------------------------------------------------
(* Properties *)

WriterState == [pc : {"ready", "load", "compare", "extra", "start", "count", "ended"},
                count : Int, extra : Int]

\* Type invariant; only requests are queued and sent, never more than fit.
TypeOK ==
    /\ queue \in Seq(Requests)
    /\ Len(queue) <= QueueLen
    /\ active \in Int /\ workers \in Int
    /\ sending \subseteq Requests /\ answering \subseteq Requests
    /\ responses \in Seq(Requests)
    /\ done \subseteq Requests /\ offered \subseteq Msgs
    /\ writer \in [Writers -> WriterState]
    /\ master \in {"top", "sleep", "rollback", "stopOne", "decrement", "returned"}
    /\ stop \in BOOLEAN /\ stopWorker \in BOOLEAN

Uncounted == {w \in Writers : writer[w].pc = "count"}

Stopping == IF master = "decrement" THEN 1 ELSE 0

\* The counter is the number of workers, up to additions and subtractions that
\* are still to be made: the pool neither loses nor leaks a worker.
Accounting == ~stopWorker => workers = active + Cardinality(Uncounted) - Stopping

\* Until Close the pool never has fewer than WorkersMin workers, although the
\* master reads the counter, stops a worker and subtracts in separate steps.
AtLeastMin == ~stopWorker => workers >= WorkersMin

\* WorkersMax is the maximum number of workers (output_http.go:31).
WithinMax == workers <= WorkersMax

\* What the code keeps of it when several goroutines call PluginWrite: each one
\* but the first may have compared the same count, and so fill the room from
\* the minimum to the maximum once more, but no later call adds to that, however
\* the counts the writers hold have aged.  One goroutine keeps WithinMax.
OvershootBounded ==
    workers <= WorkersMax + (Cardinality(Writers) - 1) * (WorkersMax - WorkersMin)

\* Every request that was accepted is sent and finished with, unless the plugin
\* is closed.
Served == \A msg \in Requests : (msg \in offered) ~> (msg \in done \/ stop)

\* When the traffic is over the pool shrinks back to its minimum.
ShrinksBack == <>[](stop \/ active = WorkersMin)

\* After Close every goroutine of the plugin ends, workers started late
\* included, and no caller of PluginWrite stays blocked.  Only a worker whose
\* response nobody reads any more stays.
ShutsDown ==
    stop ~> /\ workers = Cardinality(answering)
            /\ answering # {} => Len(responses) = QueueLen
            /\ master = "returned"
            /\ \A w \in Writers : writer[w].pc = "ended"
=============================================================================
