------------------------- MODULE BinaryOutputProofs -------------------------
(***************************************************************************)
(* Theorems about BinaryOutput: however writers, the master and workers    *)
(* interleave, the counter is the number of workers, and every request is  *)
(* in one place.                                                           *)
(***************************************************************************)
EXTENDS BinaryOutput, TLAPS, FiniteSetTheorems, SequenceTheorems

\* A request is in the queue once, or with one worker.  Without it a worker could
\* take a message another one holds, and the sets of messages would be smaller
\* than the numbers of workers.
Once ==
    /\ \A i, j \in 1 .. Len(queue) : queue[i] = queue[j] => i = j
    /\ \A i \in 1 .. Len(queue) : queue[i] \in offered /\ queue[i] \notin sending \cup answering
    /\ sending \cap answering = {} /\ sending \cup answering \subseteq offered
    /\ IsFiniteSet(sending) /\ IsFiniteSet(answering)

IInv == TypeOK /\ Once /\ Accounting

LEMMA Numbers ==
    ASSUME IInv
    PROVE  /\ Cardinality(sending) \in Nat /\ Cardinality(answering) \in Nat
           /\ active \in Nat /\ unborn \in Nat /\ starting \in Nat
           /\ idle \in Nat /\ tired \in Nat /\ doomed \in Nat /\ dying \in Nat
  BY FS_CardinalityType DEF IInv, TypeOK, Once

LEMMA InitInv == Init => IInv
<1> SUFFICES ASSUME Init PROVE IInv
  OBVIOUS
<1>1. needWorker \in Seq(Nat) /\ Len(needWorker) <= 1
  BY BinaryAssumption DEF Init
<1>2. queue \in Seq(Requests) /\ Len(queue) = 0 /\ responses \in Seq(Requests) /\ Len(responses) = 0
  BY EmptySeq DEF Init
<1>3. TypeOK
  <2>1. writer \in [Writers -> [pc : {"ready", "load", "compare", "measure", "need"}, n : Nat]]
    BY DEF Init
  <2>2. Len(queue) <= QueueLen /\ Len(responses) <= QueueLen
    BY <1>2, BinaryAssumption
  <2>3. QED
    BY <1>1, <1>2, <2>1, <2>2 DEF Init, TypeOK
<1>4. Once
  BY <1>2, FS_EmptySet DEF Init, Once
<1>5. Accounting
  BY FS_EmptySet DEF Init, Accounting, Alive
<1>6. QED
  BY <1>3, <1>4, <1>5 DEF IInv

-----------------------------------------------------------------------------
(* PluginWrite *)

LEMMA GotoType ==
    ASSUME TypeOK, NEW w \in Writers, NEW n \in Nat,
           NEW pc \in {"ready", "load", "compare", "measure", "need"}, Goto(w, pc, n)
    PROVE  writer' \in [Writers -> [pc : {"ready", "load", "compare", "measure", "need"}, n : Nat]]
  BY DEF TypeOK, Goto

LEMMA EnqueueInv ==
    ASSUME IInv, NEW w \in Writers, NEW msg \in Requests, Enqueue(w, msg)
    PROVE  IInv'
<1> USE DEF IInv
<1>1. /\ queue' \in Seq(Requests) /\ Len(queue') = Len(queue) + 1 /\ Len(queue) \in Nat
      /\ \A i \in 1 .. Len(queue) : queue'[i] = queue[i]
      /\ queue'[Len(queue) + 1] = msg
  BY DEF TypeOK, Enqueue
<1>2. writer' \in [Writers -> [pc : {"ready", "load", "compare", "measure", "need"}, n : Nat]]
  BY DEF TypeOK, Enqueue, Goto
<1>3. Len(queue') <= QueueLen
  BY <1>1, BinaryAssumption DEF Enqueue
<1>4. TypeOK'
  BY <1>1, <1>2, <1>3 DEF TypeOK, Enqueue, growth, pool
<1>5. msg \notin offered /\ offered' = offered \cup {msg} /\ sending' = sending /\ answering' = answering
  BY DEF Enqueue, pool
<1>6. \A i \in 1 .. Len(queue) : queue[i] # msg
  BY <1>5 DEF Once
<1>7. \A i \in 1 .. Len(queue') : i \in 1 .. Len(queue) \/ i = Len(queue) + 1
  BY <1>1
<1>8. \A i, j \in 1 .. Len(queue') : queue'[i] = queue'[j] => i = j
  BY <1>1, <1>6, <1>7 DEF Once
<1>9. \A i \in 1 .. Len(queue') : queue'[i] \in offered' /\ queue'[i] \notin sending' \cup answering'
  BY <1>1, <1>5, <1>7 DEF Once
<1>10. Once'
  BY <1>5, <1>8, <1>9 DEF Once
<1>11. Accounting'
  BY DEF Accounting, Alive, Enqueue, pool
<1>12. QED
  BY <1>4, <1>10, <1>11

LEMMA OtherWritesInv ==
    ASSUME IInv, NEW w \in Writers, Write(w)
    PROVE  IInv'
<1> USE DEF IInv
<1>1. /\ queue' = queue /\ responses' = responses /\ offered' = offered /\ sending' = sending
      /\ answering' = answering /\ active' = active /\ unborn' = unborn /\ idle' = idle
      /\ tired' = tired /\ doomed' = doomed /\ dying' = dying /\ done' = done /\ quit' = quit
      /\ master' = master /\ starting' = starting
  BY DEF Write, Load, Compare, Measure, Need, growth, pool
<1>2. writer[w].n \in Nat /\ active \in Nat /\ Len(queue) \in Nat
  BY LenProperties DEF TypeOK
<1>3. writer' \in [Writers -> [pc : {"ready", "load", "compare", "measure", "need"}, n : Nat]]
  <2>1. CASE Load(w)
    BY <2>1, <1>2, GotoType DEF Load
  <2>2. CASE Compare(w)
    BY <2>2, GotoType DEF Compare
  <2>3. CASE Measure(w)
    BY <2>3, <1>2, GotoType DEF Measure
  <2>4. CASE Need(w)
    BY <2>4, GotoType DEF Need
  <2>5. QED
    BY <2>1, <2>2, <2>3, <2>4 DEF Write
<1>4. needWorker' \in Seq(Nat) /\ Len(needWorker') <= 1
  <2>1. CASE Need(w)
    BY <2>1, <1>2 DEF Need
  <2>2. CASE ~Need(w)
    BY <2>2 DEF Write, Load, Compare, Measure, growth, TypeOK
  <2>3. QED
    BY <2>1, <2>2
<1>5. TypeOK'
  BY <1>1, <1>3, <1>4 DEF TypeOK
<1>6. Once'
  BY <1>1 DEF Once
<1>7. Accounting'
  BY <1>1 DEF Accounting, Alive
<1>8. QED
  BY <1>5, <1>6, <1>7

-----------------------------------------------------------------------------
(* workerMaster *)

LEMMA MasterInv ==
    ASSUME IInv, Master \/ Close
    PROVE  IInv'
<1> USE DEF IInv
<1>1. /\ queue' = queue /\ responses' = responses /\ offered' = offered /\ sending' = sending
      /\ answering' = answering /\ active' = active /\ idle' = idle /\ tired' = tired
      /\ doomed' = doomed /\ dying' = dying /\ done' = done /\ writer' = writer
  BY DEF Master, MasterTakes, MasterStarts, MasterLoops, Close, growth, pool
<1>2. starting' \in Nat /\ unborn' \in Nat
  <2>1. CASE MasterTakes
    <3>1. Head(needWorker) \in Nat
      BY <2>1, HeadTailProperties DEF MasterTakes, TypeOK
    <3>2. QED
      BY <2>1, <3>1 DEF MasterTakes, TypeOK, pool
  <2>2. CASE MasterStarts
    BY <2>2 DEF MasterStarts, TypeOK
  <2>3. CASE MasterLoops \/ Close
    BY <2>3 DEF MasterLoops, Close, TypeOK, growth, pool
  <2>4. QED
    BY <2>1, <2>2, <2>3 DEF Master
<1>3. needWorker' \in Seq(Nat) /\ Len(needWorker') <= 1
  <2>1. CASE MasterTakes
    BY <2>1, EmptySeq DEF MasterTakes
  <2>2. CASE ~MasterTakes
    BY <2>2 DEF Master, MasterStarts, MasterLoops, Close, growth, TypeOK
  <2>3. QED
    BY <2>1, <2>2
<1>4. master' \in {"waiting", "starting", "leaving", "returned"} /\ quit' \in BOOLEAN
  BY DEF Master, MasterTakes, MasterStarts, MasterLoops, Close, growth, TypeOK
<1>5. TypeOK'
  BY <1>1, <1>2, <1>3, <1>4 DEF TypeOK
<1>6. Once'
  BY <1>1 DEF Once
<1>7. Accounting'
  BY <1>1 DEF Accounting, Alive
<1>8. QED
  BY <1>5, <1>6, <1>7

-----------------------------------------------------------------------------
(* The workers *)

\* What no step of a worker touches.
Untouched == UNCHANGED <<growth, offered, writer, quit>>

LEMMA TakeInv == ASSUME IInv, Take PROVE IInv'
<1> USE DEF IInv
<1> DEFINE msg == Head(queue)
<1>1. queue \in Seq(Requests) /\ queue # <<>>
  BY DEF TypeOK, Take
<1>2. /\ Len(queue) \in Nat /\ Len(queue) > 0 /\ msg = queue[1] /\ msg \in Requests
      /\ queue' \in Seq(Requests) /\ Len(queue') = Len(queue) - 1
      /\ \A i \in 1 .. Len(queue) - 1 : queue'[i] = queue[i + 1]
  BY <1>1, HeadTailProperties, EmptySeq, LenProperties DEF Take
<1>3. /\ sending' = sending \cup {msg} /\ answering' = answering /\ offered' = offered
      /\ active' = active /\ unborn' = unborn /\ doomed' = doomed /\ dying' = dying
      /\ done' = done /\ responses' = responses /\ Untouched
  BY DEF Take, growth, Untouched
<1>4. idle' \in Nat /\ tired' \in Nat /\ idle' + tired' = idle + tired - 1
  <2>1. \/ idle > 0 /\ idle' = idle - 1 /\ tired' = tired
        \/ tired > 0 /\ tired' = tired - 1 /\ idle' = idle
    BY DEF Take
  <2>2. idle \in Nat /\ tired \in Nat
    BY DEF TypeOK
  <2>3. QED
    BY <2>1, <2>2
<1>5. msg \notin sending /\ msg \notin answering /\ msg \in offered
  BY <1>2 DEF Once
<1>6. Cardinality(sending') = Cardinality(sending) + 1 /\ IsFiniteSet(sending')
  BY <1>3, <1>5, FS_AddElement DEF Once
<1>7. TypeOK'
  <2>1. Len(queue') <= QueueLen
    BY <1>2, BinaryAssumption DEF TypeOK
  <2>2. QED
    BY <1>2, <1>3, <1>4, <2>1 DEF TypeOK, Untouched, growth
<1>8. Once'
  <2>1. \A i, j \in 1 .. Len(queue') : queue'[i] = queue'[j] => i = j
    BY <1>2 DEF Once
  <2>2. \A i \in 1 .. Len(queue') : queue'[i] # msg
    BY <1>2 DEF Once
  <2>3. \A i \in 1 .. Len(queue') : queue'[i] \in offered /\ queue'[i] \notin sending \cup answering
    BY <1>2 DEF Once
  <2>4. QED
    BY <1>3, <1>5, <1>6, <2>1, <2>2, <2>3 DEF Once
<1>9. Accounting'
  <2>1. active' = active /\ doomed' = doomed /\ dying' = dying /\ answering' = answering
    BY <1>3
  <2>2. QED
    BY <1>4, <1>6, <2>1, Numbers DEF Accounting, Alive
<1>10. QED
  BY <1>7, <1>8, <1>9

LEMMA SentInv == ASSUME IInv, NEW msg \in Requests, Sent(msg) PROVE IInv'
<1> USE DEF IInv
<1>1. /\ queue' = queue /\ responses' = responses /\ active' = active /\ unborn' = unborn
      /\ tired' = tired /\ doomed' = doomed /\ dying' = dying /\ offered' = offered
      /\ sending' = sending \ {msg} /\ msg \in sending /\ Untouched
  BY DEF Sent, growth, Untouched
<1>2. IsFiniteSet(sending') /\ Cardinality(sending') = Cardinality(sending) - 1
  BY <1>1, FS_RemoveElement DEF Once
<1>3. msg \in offered /\ msg \notin answering /\ \A i \in 1 .. Len(queue) : queue[i] # msg
  BY <1>1 DEF Once
<1>4. CASE TrackResponses
  <2>1. answering' = answering \cup {msg} /\ idle' = idle /\ done' = done
    BY <1>4 DEF Sent
  <2>2. IsFiniteSet(answering') /\ Cardinality(answering') = Cardinality(answering) + 1
    BY <1>3, <2>1, FS_AddElement DEF Once
  <2>3. TypeOK'
    BY <1>1, <2>1 DEF TypeOK, Untouched, growth
  <2>4. Once'
    BY <1>1, <1>2, <1>3, <2>1, <2>2 DEF Once
  <2>5. Accounting'
    BY <1>1, <1>2, <2>1, <2>2, Numbers DEF Accounting, Alive
  <2>6. QED
    BY <2>3, <2>4, <2>5
<1>5. CASE ~TrackResponses
  <2>1. answering' = answering /\ idle' = idle + 1 /\ done' = done \cup {msg}
    BY <1>5 DEF Sent
  <2>2. TypeOK'
    BY <1>1, <1>3, <2>1 DEF TypeOK, Untouched, growth
  <2>3. Once'
    BY <1>1, <1>2, <2>1 DEF Once
  <2>4. Accounting'
    BY <1>1, <1>2, <2>1, Numbers DEF Accounting, Alive
  <2>5. QED
    BY <2>2, <2>3, <2>4
<1>6. QED
  BY <1>4, <1>5

LEMMA AnswerInv == ASSUME IInv, NEW msg \in Requests, Answer(msg) PROVE IInv'
<1> USE DEF IInv
<1>1. /\ queue' = queue /\ active' = active /\ unborn' = unborn /\ tired' = tired
      /\ doomed' = doomed /\ dying' = dying /\ offered' = offered /\ sending' = sending
      /\ idle' = idle + 1 /\ done' = done \cup {msg} /\ answering' = answering \ {msg}
      /\ msg \in answering /\ Untouched
  BY DEF Answer, growth, Untouched
<1>2. responses' \in Seq(Requests) /\ Len(responses') <= QueueLen
  <2>1. responses' = Append(responses, msg) /\ Len(responses) < QueueLen /\ responses \in Seq(Requests)
    BY DEF Answer, TypeOK
  <2>2. QED
    BY <2>1, BinaryAssumption
<1>3. IsFiniteSet(answering') /\ Cardinality(answering') = Cardinality(answering) - 1
  BY <1>1, FS_RemoveElement DEF Once
<1>4. TypeOK'
  BY <1>1, <1>2 DEF TypeOK, Once, Untouched, growth
<1>5. Once'
  BY <1>1, <1>3 DEF Once
<1>6. Accounting'
  BY <1>1, <1>3, Numbers DEF Accounting, Alive
<1>7. QED
  BY <1>4, <1>5, <1>6

\* Born, Tick, Look and Die move a worker from one number to another, or change the
\* counter with them; Read is of PluginRead.
LEMMA OthersInv ==
    ASSUME IInv, Born \/ Tick \/ Look \/ Die \/ Read
    PROVE  IInv'
<1> USE DEF IInv
<1>1. /\ queue' = queue /\ sending' = sending /\ answering' = answering /\ offered' = offered
      /\ done' = done /\ Untouched
  BY DEF Born, Tick, Look, Die, Read, growth, pool, Untouched
<1>2. responses' \in Seq(Requests) /\ Len(responses') <= QueueLen
  <2>1. CASE Read
    <3>1. responses' = Tail(responses) /\ responses # <<>> /\ responses \in Seq(Requests)
          /\ Len(responses) <= QueueLen
      BY <2>1 DEF Read, TypeOK
    <3>2. QED
      BY <3>1, HeadTailProperties, LenProperties, BinaryAssumption
  <2>2. CASE ~Read
    BY <2>2 DEF Born, Tick, Look, Die, growth, TypeOK
  <2>3. QED
    BY <2>1, <2>2
<1>3. /\ active' \in Nat /\ unborn' \in Nat /\ idle' \in Nat /\ tired' \in Nat
      /\ doomed' \in Nat /\ dying' \in Nat
      /\ active' - idle' - tired' - doomed' - dying' = active - idle - tired - doomed - dying
  <2>1. CASE Born
    BY <2>1, Numbers DEF Born
  <2>2. CASE Tick
    BY <2>2, Numbers DEF Tick
  <2>3. CASE Look
    BY <2>3, Numbers DEF Look
  <2>4. CASE Die
    <3>1. active > 0
      BY <2>4, Numbers DEF Die, Accounting, Alive
    <3>2. QED
      BY <2>4, <3>1, Numbers DEF Die
  <2>5. CASE Read
    BY <2>5, Numbers DEF Read, pool
  <2>6. QED
    BY <2>1, <2>2, <2>3, <2>4, <2>5
<1>4. TypeOK'
  BY <1>1, <1>2, <1>3 DEF TypeOK, Untouched, growth
<1>5. Once'
  BY <1>1 DEF Once
<1>6. Accounting'
  BY <1>1, <1>3, Numbers DEF Accounting, Alive
<1>7. QED
  BY <1>4, <1>5, <1>6

-----------------------------------------------------------------------------
(* The theorems *)

LEMMA StepInv == IInv /\ [Next]_vars => IInv'
<1> SUFFICES ASSUME IInv, [Next]_vars PROVE IInv'
  OBVIOUS
<1>1. ASSUME NEW w \in Writers, Write(w) PROVE IInv'
  BY <1>1, OtherWritesInv
<1>2. ASSUME NEW w \in Writers, NEW msg \in Requests, Enqueue(w, msg) PROVE IInv'
  BY <1>2, EnqueueInv
<1>3. CASE Master \/ Close
  BY <1>3, MasterInv
<1>4. CASE Take
  BY <1>4, TakeInv
<1>5. ASSUME NEW msg \in Requests, Sent(msg) \/ Answer(msg) PROVE IInv'
  BY <1>5, SentInv, AnswerInv
<1>6. CASE Born \/ Tick \/ Look \/ Die \/ Read
  BY <1>6, OthersInv
<1>7. CASE UNCHANGED vars
  <2>1. TypeOK' /\ Accounting'
    BY <1>7 DEF vars, growth, pool, IInv, TypeOK, Accounting, Alive
  <2>2. Once'
    BY <1>7 DEF vars, growth, pool, IInv, Once
  <2>3. QED
    BY <2>1, <2>2 DEF IInv
<1>8. QED
  BY <1>1, <1>2, <1>3, <1>4, <1>5, <1>6, <1>7 DEF Next

LEMMA Invariance == Spec => []IInv
<1>1. Init => IInv
  BY InitInv
<1>2. IInv /\ [Next]_vars => IInv'
  BY StepInv
<1>3. QED
  BY <1>1, <1>2, PTL DEF Spec

\* o.activeWorkers is the number of workers that have counted themselves in and not
\* yet out, for any number of requests, writers and workers, fixed pool or dynamic.
THEOREM CounterIsRight == Spec => []Accounting
<1>1. IInv => Accounting
  BY DEF IInv
<1>2. QED
  BY <1>1, Invariance, PTL

\* A request is queued once or held by one worker, never both and never by two.
THEOREM HeldOnce == Spec => []Once
<1>1. IInv => Once
  BY DEF IInv
<1>2. QED
  BY <1>1, Invariance, PTL
=============================================================================
