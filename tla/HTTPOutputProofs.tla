-------------------------- MODULE HTTPOutputProofs --------------------------
(***************************************************************************)
(* Theorems about HTTPOutput: the counter of workers is right up to steps  *)
(* under way, the pool never falls below its minimum before Close, and it  *)
(* outgrows its maximum only by what further writers may each add once.    *)
(***************************************************************************)
EXTENDS HTTPOutput, TLAPS, FiniteSetTheorems, SequenceTheorems

-----------------------------------------------------------------------------
(* Types *)

LEMMA Bounds == WorkersMin \in Int /\ WorkersMax \in Int /\ 0 < WorkersMin /\ WorkersMin <= WorkersMax
  BY PoolAssumption

LEMMA Counters ==
    TypeOK => /\ active \in Int /\ workers \in Int
              /\ \A w \in Writers : writer[w] \in WriterState
  BY DEF TypeOK

LEMMA ReadyType == Ready \in WriterState
  BY DEF Ready, WriterState

LEMMA InitType == Init => TypeOK
<1> SUFFICES ASSUME Init PROVE TypeOK
  OBVIOUS
<1>1. queue \in Seq(Requests) /\ Len(queue) <= QueueLen /\ responses \in Seq(Requests)
  BY PoolAssumption, EmptySeq DEF Init
<1>2. active \in Int /\ workers \in Int
  BY Bounds DEF Init
<1>3. writer \in [Writers -> WriterState]
  BY ReadyType DEF Init
<1>4. QED
  BY <1>1, <1>2, <1>3 DEF Init, TypeOK

LEMMA MinOfTwo ==
    ASSUME NEW a \in Int, NEW b \in Int
    PROVE  /\ Min({a, b}) \in {a, b}
           /\ Min({a, b}) <= a /\ Min({a, b}) <= b
<1>1. PICK x \in {a, b} : \A y \in {a, b} : x <= y
  <2>1. a <= b \/ b <= a
    OBVIOUS
  <2>2. QED
    BY <2>1
<1>2. QED
  BY <1>1 DEF Min

LEMMA ExtraWorkersReqType ==
    ASSUME TypeOK, NEW count \in Int
    PROVE  ExtraWorkersReq(count) \in Int /\ ExtraWorkersReq(count) <= WorkersMax - count
<1>1. Len(queue) \in Nat
  BY LenProperties DEF TypeOK
<1> DEFINE a == Len(queue) - count + 1
           b == WorkersMax - count
<1>2. a \in Int /\ b \in Int
  BY <1>1, Bounds
<1>3. ExtraWorkersReq(count) = Min({a, b})
  BY DEF ExtraWorkersReq
<1> HIDE DEF a, b
<1>4. ExtraWorkersReq(count) \in Int /\ ExtraWorkersReq(count) <= b
  BY <1>2, <1>3, MinOfTwo
<1>5. QED
  BY <1>4 DEF b

\* The state a step of PluginWrite leaves its writer in.
Became(w, r) == writer' = [writer EXCEPT ![w] = r]

LEMMA WriterType ==
    ASSUME TypeOK, NEW w \in Writers, NEW r \in WriterState, Became(w, r)
    PROVE  writer' \in [Writers -> WriterState]
  BY DEF TypeOK, Became

\* Each step of PluginWrite but its two additions, as a change of one writer
\* that is not about to count.
LEMMA EnqueueBecomes ==
    ASSUME TypeOK, NEW w \in Writers, NEW msg, Enqueue(w, msg)
    PROVE  \E r \in WriterState : Became(w, r) /\ r.pc # "count" /\ writer[w].pc # "count"
<1> DEFINE r == [writer[w] EXCEPT !.pc = IF WorkersMax # WorkersMin THEN "load" ELSE "ready"]
<1>1. writer[w] \in WriterState /\ writer[w].pc = "ready"
  BY Counters DEF Enqueue
<1>2. r \in WriterState /\ r.pc # "count"
  BY <1>1 DEF WriterState
<1>3. Became(w, r)
  BY DEF Enqueue, Goto, Became
<1> HIDE DEF r
<1>4. QED
  BY <1>1, <1>2, <1>3

LEMMA RefuseBecomes ==
    ASSUME TypeOK, NEW w \in Writers, Refuse(w)
    PROVE  \E r \in WriterState : Became(w, r) /\ r.pc # "count" /\ writer[w].pc # "count"
<1> DEFINE r == [writer[w] EXCEPT !.pc = "ended"]
<1>1. writer[w] \in WriterState /\ writer[w].pc = "ready"
  BY Counters DEF Refuse
<1>2. r \in WriterState /\ r.pc # "count"
  BY <1>1 DEF WriterState
<1>3. Became(w, r)
  BY DEF Refuse, Goto, Became
<1> HIDE DEF r
<1>4. QED
  BY <1>1, <1>2, <1>3

LEMMA LoadBecomes ==
    ASSUME TypeOK, NEW w \in Writers, Load(w)
    PROVE  \E r \in WriterState : /\ Became(w, r) /\ r.pc # "count" /\ writer[w].pc # "count"
                                  /\ r.pc = "compare" /\ r.count = active
<1> DEFINE r == [writer[w] EXCEPT !.pc = "compare", !.count = active]
<1>1. writer[w] \in WriterState /\ writer[w].pc = "load" /\ active \in Int
  BY Counters DEF Load
<1>2. r \in WriterState /\ r.pc = "compare" /\ r.count = active
  BY <1>1 DEF WriterState
<1>3. writer' = [writer EXCEPT ![w] = [writer[w] EXCEPT !.pc = "compare", !.count = active]]
  BY DEF Load
<1>4. Became(w, r)
  BY <1>3 DEF Became
<1> HIDE DEF r
<1>5. QED
  BY <1>1, <1>2, <1>4

LEMMA CompareBecomes ==
    ASSUME TypeOK, NEW w \in Writers, Compare(w)
    PROVE  \E r \in WriterState : /\ Became(w, r) /\ r.pc # "count" /\ writer[w].pc # "count"
                                  /\ r.pc \in {"extra", "ready"}
                                  /\ r.pc = "extra" => r.count = writer[w].count
<1> DEFINE r == IF Len(queue) > writer[w].count
                THEN [writer[w] EXCEPT !.pc = "extra"] ELSE Ready
<1>1. writer[w] \in WriterState /\ writer[w].pc = "compare"
  BY Counters DEF Compare
<1>2. /\ r \in WriterState /\ r.pc \in {"extra", "ready"}
      /\ r.pc = "extra" => r.count = writer[w].count
  BY <1>1 DEF WriterState, Ready
<1>3. Became(w, r)
  BY DEF Compare, Became
<1> HIDE DEF r
<1>4. QED
  BY <1>1, <1>2, <1>3

LEMMA ExtraBecomes ==
    ASSUME TypeOK, NEW w \in Writers, Extra(w)
    PROVE  \E r \in WriterState :
              /\ Became(w, r) /\ r.pc # "count" /\ writer[w].pc # "count"
              /\ writer[w].pc = "extra" /\ r.pc \in {"start", "ready"}
              /\ r.pc = "start" => r.extra > 0 /\ r.extra <= WorkersMax - writer[w].count
<1> DEFINE extra == ExtraWorkersReq(writer[w].count)
           r == IF extra > 0 THEN Starting(extra) ELSE Ready
<1>1. writer[w] \in WriterState /\ writer[w].pc = "extra"
  BY Counters DEF Extra
<1>2. writer[w].count \in Int
  BY <1>1 DEF WriterState
<1>3. extra \in Int /\ extra <= WorkersMax - writer[w].count
  BY <1>2, ExtraWorkersReqType
<1>4. Became(w, r)
  BY DEF Extra, Became
<1> HIDE DEF extra
<1>5. /\ r \in WriterState /\ r.pc \in {"start", "ready"}
      /\ r.pc = "start" => r.extra = extra /\ extra > 0
  BY <1>3 DEF WriterState, Ready, Starting
<1> HIDE DEF r
<1>6. QED
  BY <1>1, <1>3, <1>4, <1>5

\* The two steps that start a worker and count it.
LEMMA StartBecomes ==
    ASSUME TypeOK, NEW w \in Writers, Start(w)
    PROVE  \E r \in WriterState : /\ Became(w, r) /\ r.pc = "count" /\ writer[w].pc = "start"
                                  /\ r.extra = writer[w].extra
<1> DEFINE r == [writer[w] EXCEPT !.pc = "count"]
<1>1. writer[w] \in WriterState /\ writer[w].pc = "start"
  BY Counters DEF Start
<1>2. r \in WriterState /\ r.pc = "count" /\ r.extra = writer[w].extra
  BY <1>1 DEF WriterState
<1>3. Became(w, r)
  BY DEF Start, Goto, Became
<1> HIDE DEF r
<1>4. QED
  BY <1>1, <1>2, <1>3

LEMMA CountBecomes ==
    ASSUME TypeOK, NEW w \in Writers, Count(w)
    PROVE  \E r \in WriterState :
              /\ Became(w, r) /\ r.pc \in {"start", "ready"} /\ writer[w].pc = "count"
              /\ r.pc = "start" => r.extra > 0 /\ r.extra = writer[w].extra - 1
<1> DEFINE left == writer[w].extra - 1
           r == IF left > 0 THEN Starting(left) ELSE Ready
<1>1. writer[w] \in WriterState /\ writer[w].pc = "count"
  BY Counters DEF Count
<1>2. left \in Int
  BY <1>1 DEF WriterState
<1>3. Became(w, r)
  BY DEF Count, Became
<1> HIDE DEF left
<1>4. /\ r \in WriterState /\ r.pc \in {"start", "ready"}
      /\ r.pc = "start" => r.extra = left /\ left > 0
  BY <1>2 DEF WriterState, Ready, Starting
<1> HIDE DEF r
<1>5. QED
  BY <1>1, <1>3, <1>4 DEF left

\* Every step keeps the type invariant.
LEMMA StepType == ASSUME TypeOK, [Next]_vars PROVE TypeOK'
<1>1. ASSUME NEW w \in Writers, NEW msg \in Msgs, Enqueue(w, msg) PROVE TypeOK'
  <2>1. queue' \in Seq(Requests) /\ Len(queue') = Len(queue) + 1 /\ Len(queue) \in Nat
    BY <1>1, AppendProperties, LenProperties DEF Enqueue, TypeOK
  <2>2. Len(queue') <= QueueLen
    BY <1>1, <2>1, PoolAssumption DEF Enqueue
  <2>3. writer' \in [Writers -> WriterState]
    BY <1>1, EnqueueBecomes, WriterType
  <2>4. QED
    BY <1>1, <2>1, <2>2, <2>3 DEF Enqueue, TypeOK
<1>2. ASSUME NEW w \in Writers, NEW msg \in Msgs, Skip(w, msg) PROVE TypeOK'
  BY <1>2 DEF Skip, TypeOK
<1>3. ASSUME NEW w \in Writers, Refuse(w) PROVE TypeOK'
  <2>1. writer' \in [Writers -> WriterState]
    BY <1>3, RefuseBecomes, WriterType
  <2>2. QED
    BY <1>3, <2>1 DEF Refuse, TypeOK
<1>4. ASSUME NEW w \in Writers, Load(w) PROVE TypeOK'
  <2>1. writer' \in [Writers -> WriterState]
    BY <1>4, LoadBecomes, WriterType
  <2>2. QED
    BY <1>4, <2>1 DEF Load, TypeOK
<1>5. ASSUME NEW w \in Writers, Compare(w) PROVE TypeOK'
  <2>1. writer' \in [Writers -> WriterState]
    BY <1>5, CompareBecomes, WriterType
  <2>2. QED
    BY <1>5, <2>1 DEF Compare, TypeOK
<1>6. ASSUME NEW w \in Writers, Extra(w) PROVE TypeOK'
  <2>1. writer' \in [Writers -> WriterState]
    BY <1>6, ExtraBecomes, WriterType
  <2>2. QED
    BY <1>6, <2>1 DEF Extra, TypeOK
<1>7. ASSUME NEW w \in Writers, Start(w) PROVE TypeOK'
  <2>1. writer' \in [Writers -> WriterState]
    BY <1>7, StartBecomes, WriterType
  <2>2. QED
    BY <1>7, <2>1 DEF Start, TypeOK
<1>8. ASSUME NEW w \in Writers, Count(w) PROVE TypeOK'
  <2>1. writer' \in [Writers -> WriterState]
    BY <1>8, CountBecomes, WriterType
  <2>2. QED
    BY <1>8, <2>1 DEF Count, TypeOK
<1>9. CASE Take
  <2>1. queue \in Seq(Requests) /\ queue # <<>> /\ Len(queue) \in Nat /\ Len(queue) <= QueueLen
    BY <1>9, LenProperties DEF Take, TypeOK
  <2>2. Head(queue) \in Requests /\ Tail(queue) \in Seq(Requests) /\ Len(Tail(queue)) = Len(queue) - 1
    BY <2>1, HeadTailProperties
  <2>3. Len(Tail(queue)) <= QueueLen
    BY <2>1, <2>2, PoolAssumption
  <2>4. QED
    BY <1>9, <2>2, <2>3 DEF Take, TypeOK
<1>10. ASSUME NEW msg \in Msgs, Send(msg) PROVE TypeOK'
  BY <1>10 DEF Send, Finish, Answer, TypeOK
<1>11. ASSUME NEW msg \in Msgs, PutResponse(msg) PROVE TypeOK'
  <2>1. responses' \in Seq(Requests)
    BY <1>11, AppendProperties DEF PutResponse, TypeOK
  <2>2. QED
    BY <1>11, <2>1 DEF PutResponse, TypeOK
<1>12. CASE ReadResponse
  <2>1. responses' \in Seq(Requests)
    BY <1>12, HeadTailProperties DEF ReadResponse, TypeOK
  <2>2. QED
    BY <1>12, <2>1 DEF ReadResponse, TypeOK
<1>13. CASE WorkerReturns
  BY <1>13 DEF WorkerReturns, TypeOK
<1>14. CASE MasterTop \/ MasterWakes \/ Rollback \/ MasterPanics
  BY <1>14 DEF MasterTop, MasterWakes, Rollback, MasterPanics, TypeOK
<1>15. CASE StopOne
  BY <1>15 DEF StopOne, TypeOK
<1>16. CASE Decrement
  BY <1>16 DEF Decrement, TypeOK
<1>17. CASE CloseStop \/ CloseStopWorker
  BY <1>17 DEF CloseStop, CloseStopWorker, TypeOK
<1>18. CASE UNCHANGED vars
  BY <1>18 DEF vars, TypeOK
<1>19. QED
  BY <1>1, <1>2, <1>3, <1>4, <1>5, <1>6, <1>7, <1>8, <1>9, <1>10, <1>11, <1>12,
     <1>13, <1>14, <1>15, <1>16, <1>17, <1>18 DEF Next, Write, Master

\* The types are right, the queue within its capacity, for every pool.
THEOREM TypeCorrect == Spec => []TypeOK
  BY InitType, StepType, PTL DEF Spec

-----------------------------------------------------------------------------
(* The number of workers *)

LEMMA UncountedFinite ==
    ASSUME TypeOK
    PROVE  IsFiniteSet(Uncounted) /\ Cardinality(Uncounted) \in Nat
<1>1. IsFiniteSet(Uncounted)
  BY PoolAssumption, FS_Subset DEF Uncounted
<1>2. QED
  BY <1>1, FS_CardinalityType

\* How many additions to the counter are outstanding after a step.
LEMMA UncountedStep ==
    ASSUME TypeOK, NEW w \in Writers, NEW r \in WriterState, Became(w, r)
    PROVE  Cardinality(Uncounted') =
              Cardinality(Uncounted)
                + (IF r.pc = "count" THEN 1 ELSE 0)
                - (IF writer[w].pc = "count" THEN 1 ELSE 0)
<1>1. IsFiniteSet(Uncounted) /\ Cardinality(Uncounted) \in Nat
  BY UncountedFinite
<1>2. \A u \in Writers : writer'[u] = IF u = w THEN r ELSE writer[u]
  BY DEF TypeOK, Became
<1>3. w \in Uncounted <=> writer[w].pc = "count"
  BY DEF Uncounted
<1>4. CASE r.pc = "count"
  <2>1. Uncounted' = Uncounted \cup {w}
    BY <1>2, <1>4 DEF Uncounted
  <2>2. QED
    <3>1. Cardinality(Uncounted \cup {w}) =
            IF w \in Uncounted THEN Cardinality(Uncounted) ELSE Cardinality(Uncounted) + 1
      BY <1>1, FS_AddElement
    <3>2. QED
      BY <1>1, <1>4, <2>1, <3>1, <1>3
<1>5. CASE r.pc # "count"
  <2>1. Uncounted' = Uncounted \ {w}
    BY <1>2, <1>5 DEF Uncounted
  <2>2. QED
    <3>1. Cardinality(Uncounted \ {w}) =
            IF w \in Uncounted THEN Cardinality(Uncounted) - 1 ELSE Cardinality(Uncounted)
      BY <1>1, FS_RemoveElement
    <3>2. QED
      BY <1>1, <1>5, <2>1, <3>1, <1>3
<1>6. QED
  BY <1>4, <1>5

\* Accounting holds up to workers that have returned after Close; the master
\* only ever stops a worker while the counter is above the minimum.
Counted ==
    /\ workers <= active + Cardinality(Uncounted) - Stopping
    /\ Accounting
Above ==
    /\ active >= WorkersMin
    /\ master \in {"stopOne", "decrement"} => active > WorkersMin

LEMMA InitCounted == Init => Counted /\ Above
<1> SUFFICES ASSUME Init PROVE Counted /\ Above
  OBVIOUS
<1>1. Uncounted = {}
  BY DEF Init, Uncounted, Ready
<1>2. Cardinality(Uncounted) = 0 /\ Stopping = 0
  BY <1>1, FS_EmptySet DEF Init, Stopping
<1>3. QED
  BY <1>2, PoolAssumption DEF Init, Counted, Accounting, Above

\* A step of PluginWrite that replaces the state of one writer by r.
LEMMA WriterStep ==
    ASSUME TypeOK, Counted, Above, NEW w \in Writers, NEW r \in WriterState,
           Became(w, r), master' = master, stopWorker' = stopWorker,
           workers' = workers + (IF r.pc = "count" THEN 1 ELSE 0),
           active' = active + (IF writer[w].pc = "count" THEN 1 ELSE 0)
    PROVE  Counted' /\ Above'
<1>1. /\ Cardinality(Uncounted) \in Nat
      /\ Cardinality(Uncounted') =
           Cardinality(Uncounted)
             + (IF r.pc = "count" THEN 1 ELSE 0)
             - (IF writer[w].pc = "count" THEN 1 ELSE 0)
  BY UncountedFinite, UncountedStep
<1>2. active \in Int /\ workers \in Int /\ Stopping \in Int /\ Stopping' = Stopping
  BY DEF TypeOK, Stopping
<1>3. Counted'
  BY <1>1, <1>2 DEF Counted, Accounting
<1>4. Above'
  BY <1>2, PoolAssumption DEF Above
<1>5. QED
  BY <1>3, <1>4

\* A step that leaves the writers alone.
LEMMA OtherStep ==
    ASSUME TypeOK, writer' = writer
    PROVE  /\ Cardinality(Uncounted') = Cardinality(Uncounted)
           /\ Cardinality(Uncounted) \in Nat
           /\ active \in Int /\ workers \in Int /\ WorkersMin \in Int
           /\ stopWorker \in BOOLEAN
<1>1. Uncounted' = Uncounted
  BY DEF Uncounted
<1>2. QED
  BY <1>1, UncountedFinite, PoolAssumption DEF TypeOK

LEMMA StepCounted ==
    ASSUME TypeOK, Counted, Above, [Next]_vars
    PROVE  Counted' /\ Above'
<1>0. active \in Int /\ workers \in Int
  BY Counters
<1>1. ASSUME NEW w \in Writers, NEW msg \in Msgs, Enqueue(w, msg) PROVE Counted' /\ Above'
  <2>1. PICK r \in WriterState : Became(w, r) /\ r.pc # "count" /\ writer[w].pc # "count"
    BY <1>1, EnqueueBecomes
  <2>2. QED
    BY <1>0, <1>1, <2>1, WriterStep DEF Enqueue
<1>2. ASSUME NEW w \in Writers, NEW msg \in Msgs, Skip(w, msg) PROVE Counted' /\ Above'
  BY <1>2, OtherStep DEF Skip, Counted, Accounting, Above, Stopping
<1>3. ASSUME NEW w \in Writers, Refuse(w) PROVE Counted' /\ Above'
  <2>1. PICK r \in WriterState : Became(w, r) /\ r.pc # "count" /\ writer[w].pc # "count"
    BY <1>3, RefuseBecomes
  <2>2. QED
    BY <1>0, <1>3, <2>1, WriterStep DEF Refuse
<1>4. ASSUME NEW w \in Writers, Load(w) PROVE Counted' /\ Above'
  <2>1. PICK r \in WriterState : Became(w, r) /\ r.pc # "count" /\ writer[w].pc # "count"
    BY <1>4, LoadBecomes
  <2>2. QED
    BY <1>0, <1>4, <2>1, WriterStep DEF Load
<1>5. ASSUME NEW w \in Writers, Compare(w) PROVE Counted' /\ Above'
  <2>1. PICK r \in WriterState : Became(w, r) /\ r.pc # "count" /\ writer[w].pc # "count"
    BY <1>5, CompareBecomes
  <2>2. QED
    BY <1>0, <1>5, <2>1, WriterStep DEF Compare
<1>6. ASSUME NEW w \in Writers, Extra(w) PROVE Counted' /\ Above'
  <2>1. PICK r \in WriterState : Became(w, r) /\ r.pc # "count" /\ writer[w].pc # "count"
    BY <1>6, ExtraBecomes
  <2>2. QED
    BY <1>0, <1>6, <2>1, WriterStep DEF Extra
<1>7. ASSUME NEW w \in Writers, Start(w) PROVE Counted' /\ Above'
  <2>1. PICK r \in WriterState : Became(w, r) /\ r.pc = "count" /\ writer[w].pc = "start"
    BY <1>7, StartBecomes
  <2>2. QED
    BY <1>0, <1>7, <2>1, WriterStep DEF Start
<1>8. ASSUME NEW w \in Writers, Count(w) PROVE Counted' /\ Above'
  <2>1. PICK r \in WriterState :
          Became(w, r) /\ r.pc \in {"start", "ready"} /\ writer[w].pc = "count"
    BY <1>8, CountBecomes
  <2>2. QED
    BY <1>0, <1>8, <2>1, WriterStep DEF Count
<1>9. CASE Take \/ ReadResponse \/ CloseStop \/ CloseStopWorker
  BY <1>9, OtherStep DEF Take, ReadResponse, CloseStop, CloseStopWorker,
                         Counted, Accounting, Above, Stopping
<1>10. ASSUME NEW msg \in Msgs, Send(msg) \/ PutResponse(msg) PROVE Counted' /\ Above'
  BY <1>10, OtherStep DEF Send, Finish, Answer, PutResponse,
                          Counted, Accounting, Above, Stopping
<1>11. CASE WorkerReturns
  <2>1. /\ stopWorker' /\ workers' = workers - 1
        /\ active' = active /\ master' = master /\ writer' = writer
    BY <1>11 DEF WorkerReturns
  <2>2. Stopping' = Stopping /\ Stopping \in Int
    BY <2>1 DEF Stopping
  <2> DEFINE n == Cardinality(Uncounted)
  <2>3. /\ Cardinality(Uncounted') = n /\ n \in Int
        /\ active \in Int /\ workers \in Int
    BY <2>1, OtherStep
  <2> HIDE DEF n
  <2>4. workers <= active + n - Stopping
    BY DEF Counted, n
  <2>5. ~stopWorker => workers = active + n - Stopping
    BY DEF Counted, Accounting, n
  <2>6. workers' <= active' + n - Stopping'
    BY <2>1, <2>2, <2>3, <2>4
  <2>7. ~stopWorker' => workers' = active' + n - Stopping'
    BY <2>1, <2>2, <2>3, <2>5
  <2>8. Counted'
    BY <2>3, <2>6, <2>7 DEF Counted, Accounting
  <2>9. QED
    BY <2>1, <2>8 DEF Above
<1>12. CASE MasterTop \/ MasterWakes \/ MasterPanics
  BY <1>12, OtherStep DEF MasterTop, MasterWakes, MasterPanics,
                          Counted, Accounting, Above, Stopping
<1>13. CASE Rollback
  BY <1>13, OtherStep DEF Rollback, Superfluous, Counted, Accounting, Above, Stopping
<1>14. CASE StopOne
  <2>1. /\ workers' = workers - 1 /\ stopWorker' = stopWorker
        /\ active' = active /\ writer' = writer
        /\ master = "stopOne" /\ master' = "decrement"
    BY <1>14 DEF StopOne
  <2>2. Stopping = 0 /\ Stopping' = 1
    BY <2>1 DEF Stopping
  <2> DEFINE n == Cardinality(Uncounted)
  <2>3. /\ Cardinality(Uncounted') = n /\ n \in Int
        /\ active \in Int /\ workers \in Int
    BY <2>1, OtherStep
  <2> HIDE DEF n
  <2>4. workers <= active + n - Stopping
    BY DEF Counted, n
  <2>5. ~stopWorker => workers = active + n - Stopping
    BY DEF Counted, Accounting, n
  <2>6. workers' <= active' + n - Stopping'
    BY <2>1, <2>2, <2>3, <2>4
  <2>7. ~stopWorker' => workers' = active' + n - Stopping'
    BY <2>1, <2>2, <2>3, <2>5
  <2>8. Counted'
    BY <2>3, <2>6, <2>7 DEF Counted, Accounting
  <2>9. QED
    BY <2>1, <2>8 DEF Above
<1>15. CASE Decrement
  BY <1>15, OtherStep DEF Decrement, Counted, Accounting, Above, Stopping
<1>16. CASE UNCHANGED vars
  BY <1>16, OtherStep DEF vars, Counted, Accounting, Above, Stopping
<1>17. QED
  BY <1>1, <1>2, <1>3, <1>4, <1>5, <1>6, <1>7, <1>8, <1>9, <1>10, <1>11, <1>12,
     <1>13, <1>14, <1>15, <1>16 DEF Next, Write, Master

LEMMA MinFromCounted == TypeOK /\ Counted /\ Above => AtLeastMin
<1> SUFFICES ASSUME TypeOK, Counted, Above PROVE AtLeastMin
  OBVIOUS
<1>1. Cardinality(Uncounted) \in Nat
  BY UncountedFinite
<1>2. active - Stopping >= WorkersMin /\ Stopping \in Int
  <2>1. CASE master = "decrement"
    BY <2>1, Bounds, Counters DEF Above, Stopping
  <2>2. CASE master # "decrement"
    BY <2>2, Bounds, Counters DEF Above, Stopping
  <2>3. QED
    BY <2>1, <2>2
<1>3. ASSUME ~stopWorker PROVE workers >= WorkersMin
  BY <1>1, <1>2, <1>3, Bounds, Counters DEF Counted, Accounting
<1>4. QED
  BY <1>3 DEF AtLeastMin

\* The counter is the number of workers up to steps under way, whatever the
\* writers, the workers and the master do.
THEOREM CounterIsRight == Spec => []Accounting
<1> DEFINE IInv == TypeOK /\ Counted /\ Above
<1>1. Init => IInv
  BY InitType, InitCounted
<1>2. IInv /\ [Next]_vars => IInv'
  BY StepType, StepCounted
<1>3. IInv => Accounting
  BY DEF Counted
<1>4. QED
  BY <1>1, <1>2, <1>3, PTL DEF Spec

\* Until Close there are always at least WorkersMin workers.
THEOREM NeverBelowMin == Spec => []AtLeastMin
<1> DEFINE IInv == TypeOK /\ Counted /\ Above
<1>1. Init => IInv
  BY InitType, InitCounted
<1>2. IInv /\ [Next]_vars => IInv'
  BY StepType, StepCounted
<1>3. IInv => AtLeastMin
  BY MinFromCounted
<1>4. QED
  BY <1>1, <1>2, <1>3, PTL DEF Spec

-----------------------------------------------------------------------------
(* The maximum *)

\* A writer between its look at the counter and its last addition has a claim:
\* the workers it may still add.  Claims are counted as pairs of a writer and a
\* number, so that no sum over the writers is needed.
Spare == 1..(WorkersMax - WorkersMin)
Claim(s) == IF s.pc \in {"compare", "extra"} THEN WorkersMax - s.count
            ELSE IF s.pc \in {"start", "count"} THEN s.extra ELSE 0
Claims == {t \in Writers \X Spare : t[2] <= Claim(writer[t[1]])}

Most == WorkersMax + (Cardinality(Writers) - 1) * (WorkersMax - WorkersMin)

\* What a writer may claim, and the bound on the counter and the claims together.
Honest(s) == /\ s.pc \in {"compare", "extra"} => s.count >= WorkersMin
             /\ s.pc \in {"start", "count"} => s.extra \in Spare
Within ==
    /\ \A w \in Writers : Honest(writer[w])
    /\ active + Cardinality(Claims) <= Most

LEMMA SpareFinite ==
    IsFiniteSet(Spare) /\ Cardinality(Spare) = WorkersMax - WorkersMin
<1>1. /\ IsFiniteSet(1..(WorkersMax - WorkersMin))
      /\ Cardinality(1..(WorkersMax - WorkersMin)) =
           IF 1 > WorkersMax - WorkersMin THEN 0 ELSE (WorkersMax - WorkersMin) - 1 + 1
  BY Bounds, FS_Interval
<1>2. QED
  BY <1>1, Bounds DEF Spare

\* A set of pairs of a writer and a number is finite, and no larger than a set
\* of such pairs around it.
LEMMA PairsFinite ==
    ASSUME NEW S \in SUBSET (Writers \X Spare), NEW T \in SUBSET S
    PROVE  /\ IsFiniteSet(S) /\ Cardinality(S) \in Nat
           /\ IsFiniteSet(T) /\ Cardinality(T) \in Nat
           /\ Cardinality(T) <= Cardinality(S)
<1>1. IsFiniteSet(Writers \X Spare)
  BY SpareFinite, PoolAssumption, FS_Product
<1>2. IsFiniteSet(S)
  BY <1>1, FS_Subset
<1>3. IsFiniteSet(T) /\ Cardinality(T) <= Cardinality(S)
  BY <1>2, FS_Subset
<1>4. QED
  BY <1>2, <1>3, FS_CardinalityType

LEMMA MostType == Most \in Int /\ Cardinality(Writers) \in Nat
<1>1. Cardinality(Writers) \in Nat
  BY PoolAssumption, FS_CardinalityType
<1>2. QED
  BY <1>1, Bounds DEF Most

LEMMA InitWithin == Init => Within
<1> SUFFICES ASSUME Init PROVE Within
  OBVIOUS
<1>1. \A w \in Writers : writer[w].pc = "ready"
  BY DEF Init, Ready
<1>2. Claims = {}
  <2>1. \A t \in Writers \X Spare : ~(t[2] <= Claim(writer[t[1]]))
    BY <1>1, Bounds DEF Claim, Spare
  <2>2. QED
    BY <2>1 DEF Claims
<1>3. active = WorkersMin /\ Cardinality(Claims) = 0
  BY <1>2, FS_EmptySet DEF Init
<1>4. WorkersMin <= Most
  <2> DEFINE n == Cardinality(Writers)
             d == WorkersMax - WorkersMin
  <2>1. n \in Nat /\ d \in Nat
    BY MostType, Bounds
  <2> HIDE DEF n
  <2>2. n * d >= 0 /\ (n - 1) * d = n * d - d /\ n * d \in Int
    <3> HIDE DEF d
    <3>1. QED
      BY <2>1
  <2>3. Most = WorkersMax + (n - 1) * d
    BY DEF Most, n
  <2>4. QED
    BY <2>1, <2>2, <2>3, Bounds
<1>5. QED
  BY <1>1, <1>3, <1>4, Bounds DEF Within, Honest

\* The states of the writers after a step that replaces one of them.
LEMMA Others ==
    ASSUME TypeOK, NEW w \in Writers, NEW r \in WriterState, Became(w, r)
    PROVE  /\ \A u \in Writers : writer'[u] = IF u = w THEN r ELSE writer[u]
           /\ writer[w] \in WriterState
  BY DEF TypeOK, Became

LEMMA ClaimType ==
    ASSUME NEW s \in WriterState
    PROVE  Claim(s) \in Int
  BY Bounds DEF Claim, WriterState

\* A step after which its writer claims no more than before.
LEMMA ClaimsNoMore ==
    ASSUME TypeOK, Within, NEW w \in Writers, NEW r \in WriterState, Became(w, r), Honest(r),
           active' = active, \A i \in Spare : i <= Claim(r) => i <= Claim(writer[w])
    PROVE  Within'
<1>1. \A u \in Writers : writer'[u] = IF u = w THEN r ELSE writer[u]
  BY Others
<1>2. Claims' \subseteq Claims /\ Claims \subseteq Writers \X Spare
  <2>1. ASSUME NEW t \in Writers \X Spare, t[2] <= Claim(writer'[t[1]])
        PROVE  t[2] <= Claim(writer[t[1]])
    <3>1. t[1] \in Writers /\ t[2] \in Spare
      OBVIOUS
    <3>2. QED
      BY <1>1, <2>1, <3>1
  <2>2. QED
    BY <2>1 DEF Claims, Claim, Spare
<1>3. /\ Cardinality(Claims) \in Nat /\ Cardinality(Claims') \in Nat
      /\ Cardinality(Claims') <= Cardinality(Claims)
  BY <1>2, PairsFinite
<1>4. active + Cardinality(Claims) <= Most /\ active \in Int /\ Most \in Int
  BY Counters, MostType DEF Within
<1>5. active' + Cardinality(Claims)' <= Most
  BY <1>3, <1>4
<1>6. \A u \in Writers : Honest(writer'[u])
  BY <1>1 DEF Within
<1>7. QED
  BY <1>5, <1>6 DEF Within, Most, Honest, Spare

\* The claim a look at the counter makes is the room up to WorkersMax, and those
\* of the other writers are one room each at most.
LEMMA LoadWithin ==
    ASSUME TypeOK, Above, Within, NEW w \in Writers, Load(w)
    PROVE  Within'
<1>1. PICK r \in WriterState : Became(w, r) /\ r.pc = "compare" /\ r.count = active
  BY LoadBecomes
<1>2. \A u \in Writers : writer'[u] = IF u = w THEN r ELSE writer[u]
  BY <1>1, Others
<1>3. active' = active /\ active \in Int /\ Claim(r) = WorkersMax - active
  BY <1>1, Counters DEF Load, Claim
<1>4. Honest(r)
  BY <1>1 DEF Honest, Above
<1>5. CASE active > WorkersMax
  <2>1. \A i \in Spare : ~(i <= Claim(r))
    BY <1>3, <1>5, Bounds DEF Spare
  <2>2. QED
    BY <1>1, <1>3, <1>4, <2>1, ClaimsNoMore
<1>6. CASE active <= WorkersMax
  <2> DEFINE A == (Writers \ {w}) \X Spare
             B == {w} \X (1..(WorkersMax - active))
             d == WorkersMax - WorkersMin
             n == Cardinality(Writers)
  <2>1. 1..(WorkersMax - active) \subseteq Spare
    BY <1>3, Bounds DEF Spare, Above
  <2>2. Claims' \subseteq A \cup B
    <3>1. ASSUME NEW t \in Writers \X Spare, t[2] <= Claim(writer'[t[1]])
          PROVE  t \in A \cup B
      <4>1. t = <<t[1], t[2]>> /\ t[1] \in Writers /\ t[2] \in Spare
        OBVIOUS
      <4>2. CASE t[1] # w
        BY <4>1, <4>2
      <4>3. CASE t[1] = w
        <5>1. t[2] <= WorkersMax - active
          BY <1>2, <1>3, <3>1, <4>1, <4>3
        <5>2. t[2] \in 1..(WorkersMax - active)
          BY <1>3, <4>1, <5>1, Bounds DEF Spare
        <5>3. QED
          BY <4>1, <4>3, <5>2
      <4>4. QED
        BY <4>2, <4>3
    <3>2. QED
      BY <3>1 DEF Claims, Claim, Spare
  <2>3. IsFiniteSet(Writers \ {w}) /\ Cardinality(Writers \ {w}) = n - 1
    BY PoolAssumption, FS_RemoveElement
  <2>4. IsFiniteSet(A) /\ Cardinality(A) = (n - 1) * d
    BY <2>3, SpareFinite, FS_Product
  <2>5. IsFiniteSet(B) /\ Cardinality(B) = WorkersMax - active
    <3>1. /\ IsFiniteSet(1..(WorkersMax - active))
          /\ Cardinality(1..(WorkersMax - active)) = WorkersMax - active
      <4>1. /\ IsFiniteSet(1..(WorkersMax - active))
            /\ Cardinality(1..(WorkersMax - active)) =
                 IF 1 > WorkersMax - active THEN 0 ELSE (WorkersMax - active) - 1 + 1
        BY <1>3, Bounds, FS_Interval
      <4>2. QED
        BY <1>3, <1>6, <4>1, Bounds
    <3>2. IsFiniteSet({w}) /\ Cardinality({w}) = 1
      BY FS_Singleton
    <3>3. IsFiniteSet(B) /\ Cardinality(B) = 1 * (WorkersMax - active)
      BY <3>1, <3>2, FS_Product
    <3>4. QED
      BY <1>3, <3>3, Bounds
  <2>6. A \cup B \subseteq Writers \X Spare
    BY <2>1
  <2> HIDE DEF A, B
  <2>7. Cardinality(A \cup B) <= Cardinality(A) + Cardinality(B)
    <3>1. Cardinality(A \cup B) = Cardinality(A) + Cardinality(B) - Cardinality(A \cap B)
      BY <2>4, <2>5, FS_Union
    <3>2. Cardinality(A \cap B) \in Nat /\ Cardinality(A) \in Nat /\ Cardinality(B) \in Nat
      <4>1. IsFiniteSet(A \cap B)
        BY <2>4, FS_Subset
      <4>2. QED
        BY <2>4, <2>5, <4>1, FS_CardinalityType
    <3>3. QED
      BY <3>1, <3>2
  <2>8. /\ Cardinality(Claims') <= Cardinality(A \cup B)
        /\ Cardinality(Claims') \in Nat /\ Cardinality(A \cup B) \in Nat
    BY <2>2, <2>6, PairsFinite
  <2>9. (n - 1) * d \in Int
    BY MostType, Bounds
  <2>10. Most = WorkersMax + (n - 1) * d
    BY DEF Most
  <2> HIDE DEF n, d
  <2>11. active' + Cardinality(Claims') <= Most
    BY <1>3, <2>4, <2>5, <2>7, <2>8, <2>9, <2>10, Bounds
  <2>12. \A u \in Writers : Honest(writer'[u])
    BY <1>2, <1>4 DEF Within
  <2>13. QED
    BY <2>11, <2>12 DEF Within, Most, Honest, Spare
<1>7. QED
  BY <1>3, <1>5, <1>6, Bounds

\* An addition to the counter takes one from the claim.
LEMMA CountWithin ==
    ASSUME TypeOK, Within, NEW w \in Writers, Count(w)
    PROVE  Within'
<1>1. PICK r \in WriterState :
        /\ Became(w, r) /\ r.pc \in {"start", "ready"} /\ writer[w].pc = "count"
        /\ r.pc = "start" => r.extra > 0 /\ r.extra = writer[w].extra - 1
  BY CountBecomes
<1>2. /\ \A u \in Writers : writer'[u] = IF u = w THEN r ELSE writer[u]
      /\ writer[w] \in WriterState
  BY <1>1, Others
<1> DEFINE k == writer[w].extra
<1>3. k \in Spare /\ Claim(writer[w]) = k /\ k \in Int
  BY <1>1, <1>2 DEF Within, Honest, Claim, Spare, WriterState
<1>4. Honest(r) /\ Claim(r) \in Int /\ Claim(r) < k
  BY <1>1, <1>3, Bounds DEF Honest, Claim, Spare, WriterState
<1>5. Claims' \subseteq Claims \ {<<w, k>>} /\ <<w, k>> \in Claims
  <2>1. ASSUME NEW t \in Writers \X Spare, t[2] <= Claim(writer'[t[1]])
        PROVE  t[2] <= Claim(writer[t[1]]) /\ t # <<w, k>>
    <3>1. t[1] \in Writers /\ t[2] \in Spare
      OBVIOUS
    <3>2. CASE t[1] = w
      <4>1. t[2] <= Claim(r) /\ t[2] \in Int
        BY <1>2, <2>1, <3>1, <3>2 DEF Spare
      <4>2. t[2] < k
        BY <1>3, <1>4, <4>1
      <4>3. QED
        BY <1>3, <3>2, <4>1, <4>2
    <3>3. CASE t[1] # w
      BY <1>2, <2>1, <3>1, <3>3
    <3>4. QED
      BY <3>2, <3>3
  <2>2. Claims' \subseteq Claims \ {<<w, k>>}
    BY <2>1 DEF Claims, Claim, Spare
  <2>3. <<w, k>> \in Claims
    BY <1>3 DEF Claims
  <2>4. QED
    BY <2>2, <2>3
<1>6. /\ IsFiniteSet(Claims) /\ Cardinality(Claims) \in Nat
      /\ Cardinality(Claims') \in Nat
      /\ Cardinality(Claims') <= Cardinality(Claims \ {<<w, k>>})
  <2>1. Claims \subseteq Writers \X Spare
    BY DEF Claims
  <2>2. QED
    BY <1>5, <2>1, PairsFinite
<1>7. Cardinality(Claims \ {<<w, k>>}) = Cardinality(Claims) - 1
  BY <1>5, <1>6, FS_RemoveElement
<1>8. active' = active + 1 /\ active \in Int /\ Most \in Int
  BY Counters, MostType DEF Count
<1>9. active' + Cardinality(Claims') <= Most
  BY <1>6, <1>7, <1>8 DEF Within
<1>10. \A u \in Writers : Honest(writer'[u])
  BY <1>2, <1>4 DEF Within
<1>11. QED
  BY <1>9, <1>10 DEF Within, Most, Honest, Spare

LEMMA StepWithin ==
    ASSUME TypeOK, Above, Within, [Next]_vars
    PROVE  Within'
<1>0. /\ active \in Int /\ Most \in Int /\ Cardinality(Claims) \in Nat
      /\ \A w \in Writers : writer[w] \in WriterState
  <2>1. Claims \in SUBSET (Writers \X Spare)
    BY DEF Claims
  <2>2. QED
    BY <2>1, PairsFinite, MostType, Counters
<1>1. ASSUME NEW w \in Writers, NEW msg \in Msgs, Enqueue(w, msg) PROVE Within'
  <2>1. PICK r \in WriterState : Became(w, r) /\ r.pc \in {"load", "ready"}
    <3> DEFINE r == [writer[w] EXCEPT !.pc = IF WorkersMax # WorkersMin THEN "load" ELSE "ready"]
    <3>1. r \in WriterState /\ r.pc \in {"load", "ready"}
      BY <1>0 DEF WriterState
    <3>2. Became(w, r)
      BY <1>1 DEF Enqueue, Goto, Became
    <3> HIDE DEF r
    <3>3. QED
      BY <3>1, <3>2
  <2>2. Honest(r) /\ Claim(r) = 0 /\ active' = active
    BY <1>1, <2>1 DEF Honest, Claim, Enqueue
  <2>3. QED
    BY <2>1, <2>2, ClaimsNoMore, Bounds DEF Spare
<1>2. ASSUME NEW w \in Writers, Refuse(w) PROVE Within'
  <2>1. PICK r \in WriterState : Became(w, r) /\ r.pc = "ended"
    <3> DEFINE r == [writer[w] EXCEPT !.pc = "ended"]
    <3>1. r \in WriterState /\ r.pc = "ended"
      BY <1>0 DEF WriterState
    <3>2. Became(w, r)
      BY <1>2 DEF Refuse, Goto, Became
    <3> HIDE DEF r
    <3>3. QED
      BY <3>1, <3>2
  <2>2. Honest(r) /\ Claim(r) = 0 /\ active' = active
    BY <1>2, <2>1 DEF Honest, Claim, Refuse
  <2>3. QED
    BY <2>1, <2>2, ClaimsNoMore, Bounds DEF Spare
<1>3. ASSUME NEW w \in Writers, Compare(w) PROVE Within'
  <2>1. PICK r \in WriterState : /\ Became(w, r) /\ r.pc \in {"extra", "ready"}
                                 /\ r.pc = "extra" => r.count = writer[w].count
    BY <1>3, CompareBecomes
  <2>2. writer[w].pc = "compare" /\ Honest(writer[w]) /\ active' = active
    BY <1>3 DEF Compare, Within
  <2>3. Honest(r) /\ (Claim(r) = Claim(writer[w]) \/ Claim(r) = 0)
    BY <2>1, <2>2 DEF Honest, Claim
  <2>4. QED
    BY <2>1, <2>2, <2>3, ClaimsNoMore, Bounds DEF Spare
<1>4. ASSUME NEW w \in Writers, Extra(w) PROVE Within'
  <2>1. PICK r \in WriterState :
          /\ Became(w, r) /\ writer[w].pc = "extra" /\ r.pc \in {"start", "ready"}
          /\ r.pc = "start" => r.extra > 0 /\ r.extra <= WorkersMax - writer[w].count
    BY <1>4, ExtraBecomes
  <2>2. /\ writer[w].count \in Int /\ writer[w].count >= WorkersMin
        /\ r.extra \in Int /\ active' = active
    BY <1>0, <1>4, <2>1 DEF Extra, Within, Honest, WriterState
  <2>3. Claim(writer[w]) = WorkersMax - writer[w].count
    BY <2>1 DEF Claim
  <2>4. CASE r.pc = "start"
    <3>1. Claim(r) = r.extra
      BY <2>4 DEF Claim
    <3>2. Honest(r)
      BY <2>1, <2>2, <2>4, Bounds DEF Honest, Spare
    <3>3. \A i \in Spare : i <= Claim(r) => i <= Claim(writer[w])
      BY <2>1, <2>2, <2>3, <2>4, <3>1, Bounds DEF Spare
    <3>4. QED
      BY <2>1, <2>2, <3>2, <3>3, ClaimsNoMore
  <2>5. CASE r.pc = "ready"
    <3>1. Claim(r) = 0 /\ Honest(r)
      BY <2>5 DEF Claim, Honest
    <3>2. QED
      BY <2>1, <2>2, <3>1, ClaimsNoMore, Bounds DEF Spare
  <2>6. QED
    BY <2>1, <2>4, <2>5
<1>5. ASSUME NEW w \in Writers, Start(w) PROVE Within'
  <2>1. PICK r \in WriterState : /\ Became(w, r) /\ r.pc = "count" /\ writer[w].pc = "start"
                                 /\ r.extra = writer[w].extra
    BY <1>5, StartBecomes
  <2>2. Honest(r) /\ Claim(r) = Claim(writer[w]) /\ active' = active
    BY <1>5, <2>1 DEF Start, Within, Honest, Claim
  <2>3. QED
    BY <2>1, <2>2, ClaimsNoMore
<1>6. CASE Decrement
  <2>1. active' = active - 1 /\ writer' = writer
    BY <1>6 DEF Decrement
  <2>2. Claims' = Claims
    BY <2>1 DEF Claims, Claim, Spare
  <2>3. active' + Cardinality(Claims') <= Most
    BY <1>0, <2>1, <2>2 DEF Within
  <2>4. QED
    BY <2>1, <2>3 DEF Within, Most, Honest, Spare
<1>7. CASE writer' = writer /\ active' = active
  BY <1>7 DEF Within, Claims, Claim, Most, Honest, Spare
<1>8. CASE UNCHANGED vars
  BY <1>7, <1>8 DEF vars
<1>9. CASE Next
  <2>1. ASSUME NEW u \in Writers, NEW msg \in Msgs, Enqueue(u, msg) \/ Skip(u, msg)
        PROVE  Within'
    BY <1>1, <1>7, <2>1 DEF Skip
  <2>2. ASSUME NEW u \in Writers, Refuse(u) \/ Write(u) PROVE Within'
    BY <1>2, <1>3, <1>4, <1>5, <2>2, LoadWithin, CountWithin DEF Write
  <2>3. CASE Master
    BY <1>6, <1>7, <2>3 DEF Master, MasterTop, MasterWakes, Rollback, StopOne, MasterPanics
  <2>4. ASSUME NEW msg \in Msgs, Send(msg) \/ PutResponse(msg) PROVE Within'
    BY <1>7, <2>4 DEF Send, Finish, Answer, PutResponse
  <2>5. CASE Take \/ ReadResponse \/ WorkerReturns \/ CloseStop \/ CloseStopWorker
    BY <1>7, <2>5 DEF Take, ReadResponse, WorkerReturns, CloseStop, CloseStopWorker
  <2>6. QED
    BY <1>9, <2>1, <2>2, <2>3, <2>4, <2>5 DEF Next
<1>10. QED
  BY <1>8, <1>9

\* A worker that is not counted yet is claimed by its writer, who counts it.
LEMMA BoundFromWithin == TypeOK /\ Counted /\ Within => OvershootBounded
<1> SUFFICES ASSUME TypeOK, Counted, Within PROVE OvershootBounded
  OBVIOUS
<1>1. Claims \in SUBSET (Writers \X Spare)
  BY DEF Claims
<1>2. Uncounted \X {1} \subseteq Claims
  <2>1. ASSUME NEW w \in Writers, writer[w].pc = "count"
        PROVE  <<w, 1>> \in Writers \X Spare /\ 1 <= Claim(writer[w])
    <3>1. writer[w].extra \in Spare /\ Claim(writer[w]) = writer[w].extra
      BY <2>1 DEF Within, Honest, Claim
    <3>2. QED
      BY <3>1, Bounds DEF Spare
  <2>2. QED
    BY <2>1 DEF Uncounted, Claims
<1>3. /\ Cardinality(Uncounted \X {1}) <= Cardinality(Claims)
      /\ Cardinality(Claims) \in Nat
  BY <1>1, <1>2, PairsFinite
<1>4. Cardinality(Uncounted \X {1}) = Cardinality(Uncounted)
  <2>1. IsFiniteSet({1}) /\ Cardinality({1}) = 1
    BY FS_Singleton
  <2>2. Cardinality(Uncounted \X {1}) = Cardinality(Uncounted) * 1
    BY <2>1, UncountedFinite, FS_Product
  <2>3. QED
    BY <2>2, UncountedFinite
<1>5. workers <= active + Cardinality(Uncounted)
  <2>1. Cardinality(Uncounted) \in Nat /\ active \in Int /\ workers \in Int
    BY UncountedFinite, Counters
  <2>2. QED
    BY <2>1 DEF Counted, Stopping
<1>6. active + Cardinality(Claims) <= Most
  BY DEF Within
<1>7. workers <= Most
  BY <1>3, <1>4, <1>5, <1>6, UncountedFinite, Counters, MostType
<1>8. QED
  BY <1>7 DEF OvershootBounded, Most

\* However many goroutines call PluginWrite, the pool outgrows WorkersMax at most
\* by the room from WorkersMin to WorkersMax for each of them but one.
THEOREM OvershootIsBounded == Spec => []OvershootBounded
<1> DEFINE IInv == TypeOK /\ Counted /\ Above /\ Within
<1>1. Init => IInv
  BY InitType, InitCounted, InitWithin
<1>2. IInv /\ [Next]_vars => IInv'
  BY StepType, StepCounted, StepWithin
<1>3. IInv => OvershootBounded
  BY BoundFromWithin
<1>4. QED
  BY <1>1, <1>2, <1>3, PTL DEF Spec

\* A single goroutine calling PluginWrite keeps the pool within WorkersMax, which
\* output_http.go:31 says is the maximum: the overshoot takes two of them.
THEOREM OneWriterWithinMax == Cardinality(Writers) = 1 => (Spec => []WithinMax)
<1> SUFFICES ASSUME Cardinality(Writers) = 1 PROVE Spec => []WithinMax
  OBVIOUS
<1>1. OvershootBounded => WithinMax
  BY Bounds DEF OvershootBounded, WithinMax
<1>2. QED
  BY <1>1, OvershootIsBounded, PTL
=============================================================================
