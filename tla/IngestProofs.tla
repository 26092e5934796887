---------------------------- MODULE IngestProofs ----------------------------
(***************************************************************************)
(* Theorems about Ingest: a limited input without a middleware lets half   *)
(* of its limit pass, whatever the limit; and what an output gets of one   *)
(* connection is in order, and never another's.                            *)
(***************************************************************************)
EXTENDS Ingest, SequenceTheorems, TLAPS

-----------------------------------------------------------------------------
(* The limit *)

\* A message that was let pass is still to be written back.
Owed == IF reader.pc \in {"back", "backCount"} THEN 1 ELSE 0

\* Each message costs two, one of which may be owed; when the write back finds the
\* limit reached it costs nothing, and nothing passes any more.  Nobody but the
\* reader counts, so that what it has read is what there is.
Books ==
    /\ copier.pc = "none"
    /\ currentRPS \in 0 .. setup.limit /\ passed \in Nat
    /\ \/ 2 * passed <= currentRPS + Owed
       \/ currentRPS = setup.limit /\ 2 * passed <= setup.limit + 1
    /\ reader.pc \in {"count", "backCount"} => reader.rps = currentRPS /\ currentRPS < setup.limit

IInv == setup \in Setup /\ (setup.limited /\ ~setup.middleware => Books)

\* The goroutines that have nothing to do with the limiter.
Aside == UNCHANGED <<setup, currentRPS, passed, reader, copier>>

\* A process starts with its books in order.
LEMMA InitInv == IngestInit => IInv
<1> SUFFICES ASSUME IngestInit PROVE IInv
  OBVIOUS
<1>1. setup \in Setup /\ setup.limit \in Nat
  BY IngestAssumption DEF IngestInit, Setup
<1>2. ASSUME ~setup.middleware PROVE Books
  BY <1>1, <1>2 DEF IngestInit, Books, Owed
<1>3. QED
  BY <1>1, <1>2 DEF IInv

\* Who has nothing to do with the limiter leaves them so.
LEMMA AsideInv == ASSUME IInv, Aside PROVE IInv'
  BY DEF IInv, Aside, Books, Owed

\* What a comparison reads, and what it forgets as the second ends.
LEMMA CompareInv ==
    ASSUME Books, setup.limit \in Nat, LimiterCompares
    PROVE  /\ RPS \in 0 .. setup.limit /\ currentRPS' = RPS /\ passed' \in Nat
           /\ 2 * passed' <= RPS + Owed \/ (RPS = setup.limit /\ 2 * passed' <= setup.limit + 1)
  BY DEF Books, LimiterCompares, RPS, Owed

\* The reader keeps its books.
LEMMA ReadsInv ==
    ASSUME IInv, Reads, setup.limited, ~setup.middleware
    PROVE  Books'
<1>1. Books /\ setup' = setup /\ setup.limit \in Nat /\ copier' = copier
  BY DEF IInv, Setup, Reads, ReadMessage, ReadStopped, ReadCompare, ReadCount, WriteBack,
         WriteBackCount, WriteOutput, WriteStdin
<1>2. CASE ReadMessage \/ ReadStopped
  <2>1. reader.pc = "read" /\ reader'.pc = "compare" /\ UNCHANGED limitVars
    BY <1>2 DEF ReadMessage, ReadStopped
  <2>2. QED
    BY <1>1, <2>1 DEF Books, Owed, limitVars
<1>3. CASE ReadCompare
  <2>1. Owed = 0 /\ LimiterCompares
    BY <1>3 DEF ReadCompare, Owed
  <2>2. CASE Limited
    BY <1>1, <1>3, <2>1, <2>2, CompareInv DEF ReadCompare, Books, Owed
  <2>3. CASE ~Limited
    <3>1. reader' = [pc |-> "count", msg |-> reader.msg, rps |-> RPS]
      BY <1>3, <2>3 DEF ReadCompare
    <3>2. reader'.pc = "count" /\ reader'.rps = RPS
      BY <3>1
    <3>3. RPS < setup.limit
      BY <1>1, <2>1, <2>3, CompareInv DEF Limited
    <3>4. QED
      BY <1>1, <2>1, <3>2, <3>3, CompareInv DEF Books, Owed
  <2>4. QED
    BY <2>2, <2>3
<1>4. CASE ReadCount
  <2>1. currentRPS' = currentRPS + 1 /\ currentRPS < setup.limit /\ Owed = 0
    BY <1>1, <1>4 DEF ReadCount, Books, Owed
  <2>2. CASE reader.msg = Stopped
    <3>1. passed' = passed /\ reader'.pc = "returned"
      BY <1>4, <2>2 DEF ReadCount
    <3>2. QED
      BY <1>1, <2>1, <3>1 DEF Books, Owed
  <2>3. CASE reader.msg # Stopped
    <3>1. passed' = passed + 1 /\ reader'.pc = "back"
      BY <1>4, <2>3 DEF ReadCount, Deliver
    <3>2. 2 * passed <= currentRPS /\ passed \in Nat /\ currentRPS \in Nat
      BY <1>1, <2>1 DEF Books
    <3>3. Owed' = 1
      BY <3>1 DEF Owed
    <3>4. 2 * passed' <= currentRPS' + Owed'
      BY <2>1, <3>1, <3>2, <3>3
    <3>5. QED
      BY <1>1, <2>1, <3>1, <3>4 DEF Books
  <2>4. QED
    BY <2>2, <2>3
<1>5. CASE WriteBack
  <2>1. Owed = 1 /\ LimiterCompares
    BY <1>5 DEF WriteBack, Owed
  <2>2. CASE Limited
    <3>1. reader'.pc = "output"
      BY <1>5, <2>2 DEF WriteBack
    <3>2. RPS = setup.limit
      BY <1>1, <2>1, <2>2, CompareInv DEF Limited
    <3>3. QED
      BY <1>1, <2>1, <3>1, <3>2, CompareInv DEF Books, Owed
  <2>3. CASE ~Limited
    <3>1. reader' = [pc |-> "backCount", msg |-> reader.msg, rps |-> RPS]
      BY <1>5, <2>3 DEF WriteBack
    <3>2. reader'.pc = "backCount" /\ reader'.rps = RPS
      BY <3>1
    <3>3. RPS < setup.limit
      BY <1>1, <2>1, <2>3, CompareInv DEF Limited
    <3>4. QED
      BY <1>1, <2>1, <3>2, <3>3, CompareInv DEF Books, Owed
  <2>4. QED
    BY <2>2, <2>3
<1>6. CASE WriteBackCount
  <2>1. currentRPS' = currentRPS + 1 /\ currentRPS < setup.limit /\ passed' = passed /\ Owed = 1
    BY <1>1, <1>6 DEF WriteBackCount, Books, Owed
  <2>2. reader'.pc = "output"
    BY <1>6 DEF WriteBackCount
  <2>3. QED
    BY <1>1, <2>1, <2>2 DEF Books, Owed
<1>7. CASE WriteOutput \/ WriteStdin
  <2>1. Owed = 0 /\ reader'.pc \in {"read", "returned"} /\ UNCHANGED limitVars
    BY <1>7 DEF WriteOutput, WriteStdin, Owed
  <2>2. QED
    BY <1>1, <2>1 DEF Books, Owed, limitVars
<1>8. QED
  BY <1>2, <1>3, <1>4, <1>5, <1>6, <1>7 DEF Reads

\* So does every step.
LEMMA StepInv == IInv /\ [IngestNext]_ingestVars => IInv'
<1> SUFFICES ASSUME IInv, [IngestNext]_ingestVars PROVE IInv'
  OBVIOUS
<1>1. CASE Reads
  <2>1. setup' = setup
    BY <1>1 DEF Reads, ReadMessage, ReadStopped, ReadCompare, ReadCount, WriteBack, WriteBackCount,
                WriteOutput, WriteStdin
  <2>2. QED
    BY <1>1, <2>1, ReadsInv DEF IInv
<1>2. CASE Copies
  <2>1. setup' = setup /\ copier.pc # "none"
    BY <1>2 DEF Copies, CopyReads, CopyBack, CopyBackCount, CopyOutput, CopyEnds
  <2>2. QED
    BY <2>1 DEF IInv, Books
<1>3. ASSUME NEW c \in Conns, Begin(c) \/ Separator(c) \/ Respond(c) \/ Hand(c) \/ Disconnects(c)
      PROVE  Aside
  BY <1>3 DEF Begin, Separator, Respond, Hand, Disconnects, Aside, limitVars
<1>4. CASE Second \/ CommandRuns \/ CommandQuits \/ Pumps
  BY <1>4, AsideInv DEF Second, CommandRuns, CommandQuits, Pumps, PumpLine, PumpSend, PumpEnds, Aside, limitVars
<1>5. CASE WaiterChecks \/ WaiterCloses \/ CloseInput \/ Closes
  BY <1>5, AsideInv DEF WaiterChecks, WaiterCloses, CloseInput, Closes, CloseChecks, CloseMiddleware,
                        CloseReturns, Aside, limitVars
<1>6. CASE UNCHANGED ingestVars
  BY <1>6, AsideInv DEF ingestVars, Aside, limitVars
<1>7. QED
  BY <1>1, <1>2, <1>3, <1>4, <1>5, <1>6, AsideInv DEF IngestNext

\* The books as an invariant, for the theorems on the limit below.
LEMMA BooksKept == IngestSpec => []IInv
<1>1. IngestInit => IInv
  BY InitInv
<1>2. IInv /\ [IngestNext]_ingestVars => IInv'
  BY StepInv
<1>3. QED
  BY <1>1, <1>2, PTL DEF IngestSpec

\* A limited input without a middleware lets no more messages through in a second
\* than its limit, whatever the limit and the traffic.
THEOREM LimitHolds == IngestSpec => []WithinLimit
<1>1. IInv => WithinLimit
  <2> SUFFICES ASSUME IInv, setup.limited, ~setup.middleware PROVE passed <= setup.limit
    BY DEF WithinLimit
  <2>1. setup.limit \in Nat /\ Books
    BY DEF IInv, Setup
  <2>2. Owed \in {0, 1}
    BY DEF Owed
  <2>3. passed \in Nat /\ 2 * passed <= setup.limit + 1
    BY <2>1, <2>2 DEF Books
  <2>4. CASE setup.limit = 0
    BY <2>1, <2>3, <2>4 DEF Books, Owed
  <2>5. CASE setup.limit # 0
    BY <2>1, <2>3, <2>5
  <2>6. QED
    BY <2>4, <2>5
<1>2. QED
  BY <1>1, BooksKept, PTL

\* Why such an input never reaches its limit once that is more than one: being
\* registered among the outputs as well (plugins.go:77), the limiter counts every
\* message twice, and at most half of the limit, rounded up, gets through.
THEOREM LimitIsHalved ==
    IngestSpec => [](setup.limited /\ ~setup.middleware => 2 * passed <= setup.limit + 1)
<1>1. IInv => (setup.limited /\ ~setup.middleware => 2 * passed <= setup.limit + 1)
  <2> SUFFICES ASSUME IInv, setup.limited, ~setup.middleware PROVE 2 * passed <= setup.limit + 1
    OBVIOUS
  <2>1. setup.limit \in Nat /\ Books
    BY DEF IInv, Setup
  <2>2. QED
    BY <2>1 DEF Books, Owed
<1>2. QED
  BY <1>1, BooksKept, PTL

-----------------------------------------------------------------------------
(* Records on their way *)

\* x is no later than y, if one connection has sent both.
Older(x, y) ==
    \A c \in Conns : \A p, q \in DOMAIN Sent[c] : x.rec = Sent[c][p] /\ y.rec = Sent[c][q] => p < q

\* No connection has sent it.
Foreign(x) == \A c \in Conns : \A p \in DOMAIN Sent[c] : x.rec # Sent[c][p]

\* Along stages from the output back to the input records are in order.
InRow(s) ==
    \A a, b \in 1 .. 8 : \A i \in DOMAIN s[a] : \A j \in DOMAIN s[b] :
        a < b \/ (a = b /\ i < j) => Older(s[a][i], s[b][j])

\* Of each connection, what is on its way is among the first records it sent.
Within(s, n) == \A a \in 1 .. 8 : \A i \in DOMAIN s[a] : \A c \in Conns : \A p \in DOMAIN Sent[c] :
                    s[a][i].rec = Sent[c][p] => p <= n[c]

Row(s, n) == InRow(s) /\ Within(s, n)

\* Of each connection the counts of n grow to those of e, and x comes behind the first.
Grows(n, e) == \A c \in Conns : n[c] \in Int /\ e[c] \in Int /\ n[c] <= e[c]
Behind(x, n, e) == \A c \in Conns : \A p \in DOMAIN Sent[c] : x.rec = Sent[c][p] => p > n[c] /\ p <= e[c]

\* What Append gives, element by element.
LEMMA Appended ==
    ASSUME NEW S, NEW s \in Seq(S), NEW x
    PROVE  /\ Len(s) \in Nat /\ DOMAIN s = 1 .. Len(s) /\ DOMAIN Append(s, x) = 1 .. Len(s) + 1
           /\ \A i \in DOMAIN s : Append(s, x)[i] = s[i]
           /\ Append(s, x)[Len(s) + 1] = x
<1>1. s \in Seq(S \cup {x})
  BY SeqMonotonic
<1>2. QED
  BY <1>1, LenProperties, AppendProperties

\* Stages keep what they have, or lose something at their ends.
LEMMA FewerInRow ==
    ASSUME NEW s, NEW t, NEW n, Row(s, n),
           \A a \in 1 .. 8 : DOMAIN t[a] \subseteq DOMAIN s[a] /\ \A i \in DOMAIN t[a] : t[a][i].rec = s[a][i].rec
    PROVE  Row(t, n)
<1>1. InRow(t)
  BY DEF Row, InRow, Older
<1>2. Within(t, n)
  BY DEF Row, Within
<1>3. QED
  BY <1>1, <1>2 DEF Row

\* The first of a stage leaves it, or goes to one before with nothing in between.
LEMMA MoveInRow ==
    ASSUME NEW s, NEW t, NEW n, Row(s, n),
           NEW k \in 1 .. 8, NEW l \in 1 .. 8, k < l,
           NEW S, s[k] \in Seq(S), NEW T, s[l] \in Seq(T), s[l] # <<>>,
           \A a \in 1 .. 8 : k < a /\ a < l => s[a] = <<>>,
           \A a \in 1 .. 8 : a # k /\ a # l => t[a] = s[a],
           t[l] = Tail(s[l]),
           t[k] = s[k] \/ \E x : t[k] = Append(s[k], x) /\ (x.rec = Head(s[l]).rec \/ Foreign(x))
    PROVE  Row(t, n)
<1>1. PICK x : /\ t[k] = s[k] \/ t[k] = Append(s[k], x)
               /\ x.rec = Head(s[l]).rec \/ Foreign(x)
  <2>1. CASE t[k] = s[k]
    BY <2>1
  <2>2. CASE t[k] # s[k]
    BY <2>2
  <2>3. QED
    BY <2>1, <2>2
<1>2. /\ Len(s[l]) \in Nat /\ Len(s[l]) > 0 /\ DOMAIN s[l] = 1 .. Len(s[l]) /\ Head(s[l]) = s[l][1]
      /\ DOMAIN t[l] = 1 .. Len(s[l]) - 1 /\ \A i \in DOMAIN t[l] : t[l][i] = s[l][i + 1]
  BY HeadTailProperties, LenProperties, EmptySeq
<1>3. /\ Len(s[k]) \in Nat /\ DOMAIN s[k] = 1 .. Len(s[k])
      /\ \A i \in DOMAIN t[k] : \/ i \in DOMAIN s[k] /\ t[k][i] = s[k][i]
                                \/ i = Len(s[k]) + 1 /\ t[k][i] = x
  <2> DEFINE sk == s[k]
             m == Len(sk)
  <2>1. m \in Nat /\ DOMAIN sk = 1 .. m
    BY LenProperties
  <2>2. /\ DOMAIN Append(sk, x) = 1 .. m + 1 /\ \A i \in DOMAIN sk : Append(sk, x)[i] = sk[i]
        /\ Append(sk, x)[m + 1] = x
    BY Appended
  <2>3. \A i \in 1 .. m + 1 : i \in 1 .. m \/ i = m + 1
    BY <2>1
  <2>4. CASE t[k] = sk
    BY <2>1, <2>4
  <2>5. CASE t[k] = Append(sk, x)
    <3> HIDE DEF sk, m
    <3>1. \A i \in DOMAIN t[k] : (i \in DOMAIN sk /\ t[k][i] = sk[i]) \/ (i = m + 1 /\ t[k][i] = x)
      BY <2>1, <2>2, <2>3, <2>5
    <3>2. QED
      BY <2>1, <3>1 DEF m, sk
  <2>6. QED
    BY <1>1, <2>4, <2>5
<1>4. ASSUME NEW i \in DOMAIN t[l]
      PROVE  i \in Int /\ i + 1 \in DOMAIN s[l] /\ 1 < i + 1 /\ t[l][i] = s[l][i + 1]
  <2> DEFINE m == Len(s[l])
  <2>1. m \in Nat /\ i \in 1 .. m - 1 /\ DOMAIN s[l] = 1 .. m
    BY <1>2
  <2> HIDE DEF m
  <2>2. i \in Int /\ i + 1 \in 1 .. m /\ 1 < i + 1
    BY <2>1
  <2>3. QED
    BY <1>2, <2>1, <2>2
<1>5. 1 \in DOMAIN s[l]
  BY <1>2
<1>6. ASSUME NEW a \in 1 .. 8, NEW b \in 1 .. 8, NEW i \in DOMAIN t[a], NEW j \in DOMAIN t[b],
             a < b \/ (a = b /\ i < j)
      PROVE  Older(t[a][i], t[b][j])
  <2>1. CASE a = l
    <3> i \in DOMAIN t[l]
      BY <2>1
    <3>1. t[a][i] = s[l][i + 1] /\ i + 1 \in DOMAIN s[l] /\ b # k
      <4>1. b # k
        BY <1>6, <2>1
      <4>2. QED
        BY <1>4, <2>1, <4>1
    <3>2. CASE b = l
      <4> j \in DOMAIN t[l]
        BY <3>2
      <4>1. t[b][j] = s[l][j + 1] /\ j + 1 \in DOMAIN s[l] /\ i + 1 < j + 1
        <5>1. i < j /\ i \in Int /\ j \in Int
          BY <1>4, <1>6, <2>1, <3>2
        <5>2. i + 1 < j + 1
          BY <5>1
        <5>3. t[l][j] = s[l][j + 1] /\ j + 1 \in DOMAIN s[l]
          BY <1>4
        <5>4. QED
          BY <3>2, <5>2, <5>3
      <4>2. QED
        BY <3>1, <4>1 DEF Row, InRow
    <3>3. CASE b # l
      BY <1>6, <2>1, <3>1, <3>3 DEF Row, InRow
    <3>4. QED
      BY <3>2, <3>3
  <2>2. CASE a = k /\ t[a][i] = s[k][i] /\ i \in DOMAIN s[k]
    <3>1. CASE b = l
      <4> j \in DOMAIN t[l]
        BY <3>1
      <4>1. t[b][j] = s[l][j + 1] /\ j + 1 \in DOMAIN s[l]
        BY <1>4, <3>1
      <4>2. QED
        BY <2>2, <4>1 DEF Row, InRow
    <3>2. CASE b = k /\ j \in DOMAIN s[k] /\ t[b][j] = s[k][j]
      BY <1>6, <2>2, <3>2 DEF Row, InRow
    <3>3. CASE b = k /\ t[b][j] = x
      <4>1. Older(s[k][i], s[l][1])
        BY <1>5, <2>2 DEF Row, InRow
      <4>2. QED
        BY <1>1, <1>2, <2>2, <3>3, <4>1 DEF Older, Foreign
    <3>4. CASE b # l /\ b # k
      BY <1>6, <2>2, <3>4 DEF Row, InRow
    <3>5. QED
      BY <1>3, <3>1, <3>2, <3>3, <3>4
  <2>3. CASE a = k /\ t[a][i] = x /\ i = Len(s[k]) + 1
    <3>1. b # k
      BY <1>3, <1>6, <2>3
    <3>2. b > k /\ (b = l \/ b > l)
      <4>1. b > k
        BY <1>6, <2>3, <3>1
      <4>2. b < l => t[b] = <<>>
        BY <3>1, <4>1
      <4>3. DOMAIN <<>> = {}
        OBVIOUS
      <4>4. QED
        BY <4>1, <4>2, <4>3
    <3>3. Older(s[l][1], t[b][j])
      <4>1. CASE b = l
        <5> j \in DOMAIN t[l]
          BY <4>1
        <5>1. t[b][j] = s[l][j + 1] /\ j + 1 \in DOMAIN s[l] /\ 1 < j + 1
          BY <1>4, <4>1
        <5>2. QED
          BY <1>5, <5>1 DEF Row, InRow
      <4>2. CASE b > l
        BY <1>5, <3>1, <4>2 DEF Row, InRow
      <4>3. QED
        BY <3>2, <4>1, <4>2
    <3>4. QED
      BY <1>1, <1>2, <2>3, <3>3 DEF Older, Foreign
  <2>4. CASE a # k /\ a # l
    <3>1. CASE b = l
      <4> j \in DOMAIN t[l]
        BY <3>1
      <4>1. t[b][j] = s[l][j + 1] /\ j + 1 \in DOMAIN s[l]
        BY <1>4, <3>1
      <4>2. QED
        BY <1>6, <2>4, <3>1, <4>1 DEF Row, InRow
    <3>2. CASE b = k /\ j \in DOMAIN s[k] /\ t[b][j] = s[k][j]
      BY <1>6, <2>4, <3>2 DEF Row, InRow
    <3>3. CASE b = k /\ t[b][j] = x
      <4>1. a < l
        BY <1>6, <2>4, <3>3
      <4>2. Older(t[a][i], s[l][1])
        BY <1>5, <2>4, <4>1 DEF Row, InRow
      <4>3. QED
        BY <1>1, <1>2, <3>3, <4>2 DEF Older, Foreign
    <3>4. CASE b # l /\ b # k
      BY <1>6, <2>4, <3>4 DEF Row, InRow
    <3>5. QED
      BY <1>3, <3>1, <3>2, <3>3, <3>4
  <2>5. QED
    BY <1>3, <2>1, <2>2, <2>3, <2>4
<1>7. InRow(t)
  BY <1>6 DEF Row, InRow
<1>8. Within(t, n)
  <2> SUFFICES ASSUME NEW a \in 1 .. 8, NEW i \in DOMAIN t[a], NEW c \in Conns, NEW p \in DOMAIN Sent[c],
                      t[a][i].rec = Sent[c][p]
               PROVE  p <= n[c]
    BY DEF Row, Within
  <2>1. CASE a = l
    <3> i \in DOMAIN t[l]
      BY <2>1
    <3>1. t[a][i] = s[l][i + 1] /\ i + 1 \in DOMAIN s[l]
      BY <1>4, <2>1
    <3>2. QED
      BY <3>1 DEF Row, Within
  <2>2. CASE a = k
    <3>1. CASE i \in DOMAIN s[k] /\ t[k][i] = s[k][i]
      BY <2>2, <3>1 DEF Row, Within
    <3>2. CASE t[k][i] = x
      BY <1>1, <1>2, <1>5, <2>2, <3>2 DEF Row, Within, Foreign
    <3>3. QED
      BY <1>3, <2>2, <3>1, <3>2
  <2>3. CASE a # k /\ a # l
    BY <2>3 DEF Row, Within
  <2>4. QED
    BY <2>1, <2>2, <2>3
<1>9. QED
  BY <1>7, <1>8 DEF Row

\* Something is added to a stage, behind all that is known.
LEMMA AddInRow ==
    ASSUME NEW s, NEW t, NEW n, NEW e, Row(s, n), NEW k \in 1 .. 8, NEW S, s[k] \in Seq(S),
           \A a \in 1 .. 8 : a # k => t[a] = s[a],
           NEW x, t[k] = Append(s[k], x),
           Foreign(x) \/ (k = 8 /\ Behind(x, n, e)), Grows(n, e)
    PROVE  Row(t, e)
<1>1. /\ Len(s[k]) \in Nat /\ DOMAIN s[k] = 1 .. Len(s[k])
      /\ \A i \in DOMAIN t[k] : \/ i \in DOMAIN s[k] /\ t[k][i] = s[k][i]
                                \/ i = Len(s[k]) + 1 /\ t[k][i] = x
  BY Appended
<1>2. \A c \in Conns : \A p \in DOMAIN Sent[c] : p \in Int
  BY IngestAssumption, LenProperties
<1>3. \A a \in 1 .. 8 : \A i \in DOMAIN t[a] :
         \/ i \in DOMAIN s[a] /\ t[a][i] = s[a][i]
         \/ a = k /\ i = Len(s[k]) + 1 /\ t[a][i] = x
  BY <1>1
<1>4. ASSUME NEW a \in 1 .. 8, NEW b \in 1 .. 8, NEW i \in DOMAIN t[a], NEW j \in DOMAIN t[b],
             a < b \/ (a = b /\ i < j)
      PROVE  Older(t[a][i], t[b][j])
  <2>1. CASE Foreign(x) /\ (t[a][i] = x \/ t[b][j] = x)
    BY <2>1 DEF Older, Foreign
  <2>2. CASE i \in DOMAIN s[a] /\ t[a][i] = s[a][i] /\ j \in DOMAIN s[b] /\ t[b][j] = s[b][j]
    BY <1>4, <2>2 DEF Row, InRow
  <2>3. CASE ~Foreign(x) /\ b = k /\ t[b][j] = x /\ i \in DOMAIN s[a] /\ t[a][i] = s[a][i]
    <3>1. \A c \in Conns : \A p \in DOMAIN Sent[c] : s[a][i].rec = Sent[c][p] => p <= n[c]
      BY <2>3 DEF Row, Within
    <3>2. \A c \in Conns : \A q \in DOMAIN Sent[c] : x.rec = Sent[c][q] => q > n[c]
      BY <2>3 DEF Behind
    <3>3. \A c \in Conns : \A p, q \in DOMAIN Sent[c] : p <= n[c] /\ q > n[c] => p < q
      BY <1>2 DEF Grows
    <3>4. QED
      BY <2>3, <3>1, <3>2, <3>3 DEF Older
  <2>4. CASE ~Foreign(x) /\ a = k /\ i = Len(s[k]) + 1 /\ t[a][i] = x
    BY <1>1, <1>4, <2>4
  <2>5. QED
    BY <1>3, <2>1, <2>2, <2>3, <2>4
<1>5. InRow(t)
  BY <1>4 DEF Row, InRow
<1>6. Within(t, e)
  <2> SUFFICES ASSUME NEW a \in 1 .. 8, NEW i \in DOMAIN t[a], NEW c \in Conns, NEW p \in DOMAIN Sent[c],
                      t[a][i].rec = Sent[c][p]
               PROVE  p <= e[c]
    BY DEF Row, Within
  <2>1. CASE i \in DOMAIN s[a] /\ t[a][i] = s[a][i]
    <3>1. p <= n[c]
      BY <2>1 DEF Row, Within
    <3>2. QED
      BY <1>2, <3>1 DEF Grows
  <2>2. CASE t[a][i] = x
    BY <2>2 DEF Foreign, Behind
  <2>3. QED
    BY <1>3, <2>1, <2>2
<1>7. QED
  BY <1>5, <1>6 DEF Row

-----------------------------------------------------------------------------
(* The stages, and what is in them *)

Line == [rec : Records, is : Records \cup {Torn}]
Msg == [rec : Records, at : Nat]
Spoilt == [rec : {Torn}]

WithMsg == {"compare", "count", "back", "backCount", "output"}

InCopier == IF copier.pc \in {"back", "backCount", "output"} THEN <<copier.line>> ELSE <<>>
InPump == IF pump.pc = "send" THEN <<pump.line>> ELSE <<>>
InReader == IF reader.pc = "stdin" THEN <<reader.line>>
            ELSE IF reader.pc \in WithMsg THEN <<reader.msg>> ELSE <<>>

Stages == <<taken, InCopier, mwData, InPump, stdout, stdin, InReader, data>>

\* How many records of a connection have been handed over.
Done(c) == Len(Sent[c]) - Len(unsent[c])
AllDone == [c \in Conns |-> Done(c)]

ReaderTypes ==
    [pc : {"read", "returned"}] \cup [pc : {"compare"}, msg : Msg \cup {Stopped}]
      \cup [pc : {"count"}, msg : Msg \cup {Stopped}, rps : Nat]
      \cup [pc : {"back", "output"}, msg : Msg] \cup [pc : {"backCount"}, msg : Msg, rps : Nat]
      \cup [pc : {"stdin"}, line : Line]

CopierTypes ==
    [pc : {"none", "read", "returned"}] \cup [pc : {"back", "output"}, line : Line]
      \cup [pc : {"backCount"}, line : Line, rps : Nat]

PumpTypes == [pc : {"line", "returned"}] \cup [pc : {"send"}, line : Line]

Typed ==
    /\ setup \in Setup
    /\ conn \in [Conns -> [pc : {"reading", "partial", "handing", "gone"}, at : Nat]]
    /\ unsent \in [Conns -> Seq(Records)]
    /\ memory \in Seq(Records \cup {Torn})
    /\ currentRPS \in Nat
    /\ taken \in Seq(Line) /\ mwData \in Seq(Line) /\ stdin \in Seq(Line)
    /\ stdout \in Seq(Line \cup Spoilt) /\ data \in Seq(Msg)
    /\ reader \in ReaderTypes /\ copier \in CopierTypes /\ pump \in PumpTypes

\* Without a middleware nothing is in it.
Direct ==
    /\ ~setup.middleware => /\ copier.pc = "none" /\ mwData = <<>> /\ pump.pc = "returned"
                            /\ stdout = <<>> /\ stdin = <<>> /\ command # "running"
                            /\ reader.pc # "stdin"
    /\ setup.middleware => reader.pc \notin {"back", "backCount", "output"}

\* What a connection has still to send is the end of what it sends.
Rest ==
    \A c \in Conns :
        /\ Len(unsent[c]) <= Len(Sent[c])
        /\ \A i \in DOMAIN unsent[c] : unsent[c][i] = Sent[c][Done(c) + i]

-----------------------------------------------------------------------------
(* What an output may find for a record *)

\* Whose records are not written over before they are copied.
Careful(c) == setup.kind = "http" \/ Len(Sent[c]) = 1

Fits(c, p, is) ==
    \/ is = Torn /\ ~Careful(c)
    \/ \E later \in DOMAIN Sent[c] : p <= later /\ is = Sent[c][later] /\ (Careful(c) => later = p)

Lines == ToSet(taken) \cup ToSet(InCopier) \cup ToSet(mwData) \cup ToSet(InPump) \cup ToSet(stdout)
            \cup ToSet(stdin) \cup (IF reader.pc = "stdin" THEN {reader.line} ELSE {})

Slices == ToSet(data) \cup (IF reader.pc \in WithMsg THEN {reader.msg} ELSE {})

LineOK(line) == \A c \in Conns : \A p \in DOMAIN Sent[c] : line.rec = Sent[c][p] => Fits(c, p, line.is)

\* A message's record is in memory that no other connection writes to.
SliceOK(msg) ==
    \A c \in Conns : \A p \in DOMAIN Sent[c] : msg.rec = Sent[c][p] =>
        /\ msg.at \in DOMAIN memory
        /\ Fits(c, p, memory[msg.at])
        /\ \A d \in Conns \ {c} : conn[d].at # msg.at

ConnOK(c) ==
    /\ conn[c].at \in 0 .. Len(memory)
    /\ conn[c].at # 0 => \A d \in Conns \ {c} : conn[d].at # conn[c].at
    /\ conn[c].pc \in {"partial", "handing"} => conn[c].at # 0 /\ unsent[c] # <<>>
    /\ conn[c].pc = "handing" => memory[conn[c].at] = Head(unsent[c])
    /\ conn[c].pc = "reading" /\ conn[c].at # 0 => Done(c) > 0
    /\ conn[c].pc = "partial" => setup.kind = "tcp"

Contents ==
    /\ \A line \in Lines : LineOK(line)
    /\ \A msg \in Slices : SliceOK(msg)

OwnInv == Typed /\ Direct /\ Rest /\ Row(Stages, AllDone) /\ Contents /\ \A c \in Conns : ConnOK(c)

\* Of the records that are sent: each is on one connection, in one place.
LEMMA Wires ==
    /\ \A c \in Conns : /\ Sent[c] \in Seq(Records) /\ Len(Sent[c]) \in Nat
                        /\ DOMAIN Sent[c] = 1 .. Len(Sent[c])
                        /\ \A p \in DOMAIN Sent[c] : p \in Int /\ Sent[c][p] \in Records
    /\ \A c, d \in Conns : \A p \in DOMAIN Sent[c] : \A q \in DOMAIN Sent[d] :
          Sent[c][p] = Sent[d][q] => c = d /\ p = q
    /\ \A rec \in Records : \E c \in Conns : \E p \in DOMAIN Sent[c] : rec = Sent[c][p]
<1>1. ASSUME NEW c \in Conns
      PROVE  /\ Sent[c] \in Seq(Records) /\ Len(Sent[c]) \in Nat
             /\ DOMAIN Sent[c] = 1 .. Len(Sent[c])
             /\ \A p \in DOMAIN Sent[c] : p \in Int /\ Sent[c][p] \in Records
  BY IngestAssumption, LenProperties, ElementOfSeq
<1>2. ASSUME NEW c \in Conns, NEW d \in Conns, NEW p \in DOMAIN Sent[c], NEW q \in DOMAIN Sent[d],
             Sent[c][p] = Sent[d][q]
      PROVE  c = d /\ p = q
  <2>1. Sent[c][p] \in ToSet(Sent[c]) /\ Sent[d][q] \in ToSet(Sent[d])
    BY DEF ToSet
  <2>2. c = d
    BY <1>2, <2>1, IngestAssumption
  <2>3. QED
    BY <1>2, <2>2, IngestAssumption DEF IsInjective
<1>3. \A rec \in Records : \E c \in Conns : \E p \in DOMAIN Sent[c] : rec = Sent[c][p]
  BY DEF Records, ToSet
<1>4. QED
  BY <1>1, <1>2, <1>3

\* What no connection sends.
LEMMA NoRecords ==
    /\ Torn \notin Records /\ Foreign([rec |-> Torn]) /\ Foreign(Stopped) /\ Stopped \notin Msg
    /\ \A x \in Spoilt : x = [rec |-> Torn] /\ Foreign(x)
    /\ \A x \in Line : x.rec # Torn
<1>1. Torn \notin Records /\ Stopped.rec \notin Records
  BY IngestAssumption
<1>2. QED
  BY <1>1, Wires DEF Foreign, Msg, Spoilt, Line

\* The stages there are.
LEMMA OneToEight == \A a \in 1 .. 8 : a = 1 \/ a = 2 \/ a = 3 \/ a = 4 \/ a = 5 \/ a = 6 \/ a = 7 \/ a = 8
  OBVIOUS

\* The property is about the first stage alone.
LEMMA OwnFollows == ASSUME OwnInv PROVE OwnConnection
<1> SUFFICES ASSUME NEW c \in Conns, NEW p \in DOMAIN Sent[c], NEW q \in DOMAIN Sent[c],
                    NEW i \in DOMAIN taken, NEW j \in DOMAIN taken, taken[i].rec = Sent[c][p]
             PROVE  /\ i < j /\ taken[j].rec = Sent[c][q] => p < q
                    /\ taken[i].is = Torn \/ \E later \in DOMAIN Sent[c] : p <= later /\ taken[i].is = Sent[c][later]
                    /\ setup.kind = "http" \/ Len(Sent[c]) = 1 => taken[i].is = taken[i].rec
  BY DEF OwnConnection
<1>1. Stages[1] = taken
  BY DEF Stages
<1>2. i < j /\ taken[j].rec = Sent[c][q] => p < q
  BY <1>1 DEF OwnInv, Row, InRow, Older
<1>3. taken[i] \in Lines
  BY DEF Lines, ToSet
<1>4. Fits(c, p, taken[i].is)
  BY <1>3 DEF OwnInv, Contents, LineOK
<1>5. QED
  BY <1>2, <1>4 DEF Fits, Careful

-----------------------------------------------------------------------------
(* Steps that leave the connections alone *)

\* What is at the ends of a queue.
LEMMA Ends ==
    ASSUME NEW S, NEW s \in Seq(S)
    PROVE  /\ \A x : ToSet(Append(s, x)) \subseteq ToSet(s) \cup {x}
           /\ \A x \in S : Append(s, x) \in Seq(S)
           /\ s # <<>> => /\ Head(s) \in S /\ Head(s) \in ToSet(s) /\ Tail(s) \in Seq(S)
                          /\ ToSet(Tail(s)) \subseteq ToSet(s)
<1>1. ASSUME NEW x PROVE ToSet(Append(s, x)) \subseteq ToSet(s) \cup {x}
  <2>1. DOMAIN s = 1 .. Len(s) /\ DOMAIN Append(s, x) = 1 .. Len(s) + 1 /\ Len(s) \in Nat
        /\ (\A i \in DOMAIN s : Append(s, x)[i] = s[i]) /\ Append(s, x)[Len(s) + 1] = x
    BY Appended
  <2>2. QED
    BY <2>1 DEF ToSet
<1>2. ASSUME NEW x \in S PROVE Append(s, x) \in Seq(S)
  OBVIOUS
<1>3. ASSUME s # <<>>
      PROVE  /\ Head(s) \in S /\ Head(s) \in ToSet(s) /\ Tail(s) \in Seq(S)
             /\ ToSet(Tail(s)) \subseteq ToSet(s)
  <2>1. /\ Len(s) \in Nat /\ Len(s) > 0 /\ DOMAIN s = 1 .. Len(s) /\ Head(s) = s[1] /\ Head(s) \in S
        /\ Tail(s) \in Seq(S)
        /\ DOMAIN Tail(s) = 1 .. Len(s) - 1 /\ \A i \in DOMAIN Tail(s) : Tail(s)[i] = s[i + 1]
    BY <1>3, HeadTailProperties, LenProperties, EmptySeq
  <2>2. 1 \in DOMAIN s /\ \A i \in DOMAIN Tail(s) : i + 1 \in DOMAIN s
    BY <2>1
  <2>3. QED
    BY <2>1, <2>2 DEF ToSet
<1>4. QED
  BY <1>1, <1>2, <1>3

\* What the goroutines hold.
LEMMA Shapes ==
    ASSUME Typed
    PROVE  /\ reader.pc \in {"read", "returned", "compare", "count", "back", "backCount", "output", "stdin"}
           /\ reader.pc \in {"compare", "count"} => reader.msg \in Msg \cup {Stopped}
           /\ reader.pc \in {"back", "backCount", "output"} => reader.msg \in Msg
           /\ reader.pc \in {"count", "backCount"} => reader.rps \in Nat
           /\ reader.pc = "stdin" => reader.line \in Line
           /\ copier.pc \in {"none", "read", "returned", "back", "backCount", "output"}
           /\ copier.pc \in {"back", "backCount", "output"} => copier.line \in Line
           /\ copier.pc = "backCount" => copier.rps \in Nat
           /\ pump.pc \in {"line", "returned", "send"}
           /\ pump.pc = "send" => pump.line \in Line
<1>1. reader \in ReaderTypes /\ copier \in CopierTypes /\ pump \in PumpTypes
  BY DEF Typed
<1>2. /\ reader.pc \in {"read", "returned", "compare", "count", "back", "backCount", "output", "stdin"}
      /\ reader.pc \in {"compare", "count"} => reader.msg \in Msg \cup {Stopped}
      /\ reader.pc \in {"back", "backCount", "output"} => reader.msg \in Msg
      /\ reader.pc \in {"count", "backCount"} => reader.rps \in Nat
      /\ reader.pc = "stdin" => reader.line \in Line
  BY <1>1 DEF ReaderTypes
<1>3. /\ copier.pc \in {"none", "read", "returned", "back", "backCount", "output"}
      /\ copier.pc \in {"back", "backCount", "output"} => copier.line \in Line
      /\ copier.pc = "backCount" => copier.rps \in Nat
  BY <1>1 DEF CopierTypes
<1>4. pump.pc \in {"line", "returned", "send"} /\ (pump.pc = "send" => pump.line \in Line)
  BY <1>1 DEF PumpTypes
<1>5. QED
  BY <1>2, <1>3, <1>4

\* The stages are queues of what they are queues of.
LEMMA StagesTyped ==
    ASSUME Typed
    PROVE  /\ Stages[1] \in Seq(Line) /\ Stages[2] \in Seq(Line) /\ Stages[3] \in Seq(Line)
           /\ Stages[4] \in Seq(Line) /\ Stages[5] \in Seq(Line \cup Spoilt) /\ Stages[6] \in Seq(Line)
           /\ Stages[7] \in Seq(Line \cup Msg \cup {Stopped}) /\ Stages[8] \in Seq(Msg)
<1>1. InCopier \in Seq(Line) /\ InPump \in Seq(Line)
  BY Shapes DEF InCopier, InPump
<1>2. InReader \in Seq(Line \cup Msg \cup {Stopped})
  <2>1. CASE reader.pc = "stdin"
    BY <2>1, Shapes DEF InReader
  <2>2. CASE reader.pc \in WithMsg
    <3>1. reader.msg \in Msg \cup {Stopped} /\ reader.pc # "stdin"
      BY <2>2, Shapes DEF WithMsg
    <3>2. QED
      BY <2>2, <3>1 DEF InReader
  <2>3. QED
    BY <2>1, <2>2 DEF InReader
<1>3. QED
  BY <1>1, <1>2 DEF Stages, Typed

\* Enough for such a step to show.
LEMMA Onward ==
    ASSUME OwnInv, UNCHANGED <<setup, connVars>>, Typed', Direct', Row(Stages', AllDone),
           \A line \in Lines' : line \in Lines \/ LineOK(line),
           \A msg \in Slices' : msg \in Slices \/ Foreign(msg)
    PROVE  OwnInv'
<1>1. setup' = setup /\ conn' = conn /\ unsent' = unsent /\ memory' = memory
  BY DEF connVars
<1>2. AllDone' = AllDone
  BY <1>1 DEF AllDone, Done
<1>3. Row(Stages, AllDone)'
  BY <1>2 DEF Row, InRow, Within, Older
<1>4. Rest' /\ \A c \in Conns : ConnOK(c)'
  BY <1>1 DEF OwnInv, Rest, ConnOK, Done
<1>5. \A c \in Conns : Careful(c)' <=> Careful(c)
  BY <1>1 DEF Careful
<1>6. \A c \in Conns : \A p, is : Fits(c, p, is)' <=> Fits(c, p, is)
  BY <1>5 DEF Fits
<1>7. \A line \in Lines' : LineOK(line)'
  <2> SUFFICES ASSUME NEW line \in Lines' PROVE LineOK(line)'
    OBVIOUS
  <2>1. LineOK(line)
    BY DEF OwnInv, Contents
  <2>2. QED
    BY <1>6, <2>1 DEF LineOK
<1>8. \A msg \in Slices' : SliceOK(msg)'
  <2> SUFFICES ASSUME NEW msg \in Slices' PROVE SliceOK(msg)'
    OBVIOUS
  <2>1. SliceOK(msg)
    BY DEF OwnInv, Contents, Foreign, SliceOK
  <2>2. QED
    BY <1>1, <1>6, <2>1 DEF SliceOK
<1>9. QED
  BY <1>3, <1>4, <1>7, <1>8 DEF OwnInv, Contents

\* The stages by their names.
LEMMA StagesAre ==
    /\ Stages[1] = taken /\ Stages[2] = InCopier /\ Stages[3] = mwData /\ Stages[4] = InPump
    /\ Stages[5] = stdout /\ Stages[6] = stdin /\ Stages[7] = InReader /\ Stages[8] = data
    /\ Stages'[1] = taken' /\ Stages'[2] = InCopier' /\ Stages'[3] = mwData' /\ Stages'[4] = InPump'
    /\ Stages'[5] = stdout' /\ Stages'[6] = stdin' /\ Stages'[7] = InReader' /\ Stages'[8] = data'
  BY DEF Stages

\* A stage of one thing.
LEMMA One ==
    ASSUME NEW x
    PROVE  <<x>> # <<>> /\ Head(<<x>>) = x /\ Tail(<<x>>) = <<>> /\ ToSet(<<x>>) = {x} /\ ToSet(<<>>) = {}
  BY DEF ToSet

\* A line goes from the pump to the channel of the middleware.
LEMMA PumpSendOwn == ASSUME OwnInv, PumpSend PROVE OwnInv'
<1>1. /\ pump.pc = "send" /\ mwData' = Append(mwData, pump.line) /\ pump' = [pc |-> "line"]
      /\ UNCHANGED <<setup, connVars, data, limitVars, reader, copier, stdin, stdout, command, taken>>
  BY DEF PumpSend
<1>2. InPump = <<pump.line>> /\ InPump' = <<>> /\ InCopier' = InCopier /\ InReader' = InReader
  BY <1>1 DEF InPump, InCopier, InReader
<1>3. Typed /\ pump.line \in Line
  BY <1>1, Shapes DEF OwnInv
<1>4. Row(Stages', AllDone)
  <2>1. \A a \in 1 .. 8 : a # 3 /\ a # 4 => Stages'[a] = Stages[a]
    BY <1>1, <1>2, StagesAre, OneToEight
  <2>2. Stages[3] \in Seq(Line) /\ Stages[4] \in Seq(Line)
    BY <1>3, StagesTyped
  <2>3. /\ Stages[4] # <<>> /\ Stages'[4] = Tail(Stages[4]) /\ Stages'[3] = Append(Stages[3], pump.line)
        /\ pump.line.rec = Head(Stages[4]).rec
    BY <1>1, <1>2, StagesAre, One
  <2>4. QED
    BY <2>1, <2>2, <2>3, MoveInRow DEF OwnInv
<1>5. Typed'
  <2>1. mwData' \in Seq(Line) /\ pump' \in PumpTypes
    BY <1>1, <1>3 DEF Typed, PumpTypes
  <2>2. QED
    BY <1>1, <1>3, <2>1 DEF Typed, connVars, limitVars
<1>6. Direct'
  BY <1>1 DEF OwnInv, Direct
<1>7. Lines' \subseteq Lines
  BY <1>1, <1>2, <1>3, Ends, One DEF Lines, Typed
<1>8. Slices' = Slices
  BY <1>1 DEF Slices
<1>9. QED
  BY <1>1, <1>4, <1>5, <1>6, <1>7, <1>8, Onward

\* The pump takes a line, or one that does not decode.
LEMMA PumpLineOwn == ASSUME OwnInv, PumpLine PROVE OwnInv'
<1>1. /\ pump.pc = "line" /\ stdout # <<>> /\ stdout' = Tail(stdout)
      /\ pump' = IF Head(stdout).rec = Torn THEN pump ELSE [pc |-> "send", line |-> Head(stdout)]
      /\ UNCHANGED <<setup, connVars, data, limitVars, reader, copier, stdin, command, mwData, taken>>
  BY DEF PumpLine
<1>2. /\ Typed /\ Head(stdout) \in Line \cup Spoilt /\ stdout \in Seq(Line \cup Spoilt)
      /\ stdout' \in Seq(Line \cup Spoilt) /\ Head(stdout) \in ToSet(stdout) /\ ToSet(stdout') \subseteq ToSet(stdout)
  BY <1>1, Ends DEF OwnInv, Typed
<1>3. InCopier' = InCopier /\ InReader' = InReader /\ InPump = <<>>
  BY <1>1 DEF InPump, InCopier, InReader
<1>4. \/ InPump' = <<>> /\ pump' = pump
      \/ InPump' = <<Head(stdout)>> /\ Head(stdout) \in Line /\ pump' = [pc |-> "send", line |-> Head(stdout)]
  <2>1. CASE Head(stdout).rec = Torn
    BY <1>1, <2>1 DEF InPump
  <2>2. CASE Head(stdout).rec # Torn
    <3>1. Head(stdout) \in Line
      BY <1>2, <2>2, NoRecords
    <3>2. QED
      BY <1>1, <2>2, <3>1 DEF InPump
  <2>3. QED
    BY <2>1, <2>2
<1>5. Row(Stages', AllDone)
  <2>1. \A a \in 1 .. 8 : a # 4 /\ a # 5 => Stages'[a] = Stages[a]
    BY <1>1, <1>3, StagesAre, OneToEight
  <2>2. Stages[4] \in Seq(Line) /\ Stages[5] \in Seq(Line \cup Spoilt)
    BY <1>2, StagesTyped
  <2>3. Stages[5] # <<>> /\ Stages'[5] = Tail(Stages[5])
    BY <1>1, StagesAre
  <2>4. \/ Stages'[4] = Stages[4]
        \/ Stages'[4] = Append(Stages[4], Head(stdout)) /\ Head(stdout).rec = Head(Stages[5]).rec
    BY <1>1, <1>3, <1>4, StagesAre, One
  <2>5. QED
    BY <2>1, <2>2, <2>3, <2>4, MoveInRow DEF OwnInv
<1>6. Typed'
  <2>1. pump' \in PumpTypes
    BY <1>2, <1>4 DEF Typed, PumpTypes
  <2>2. QED
    BY <1>1, <1>2, <2>1 DEF Typed, connVars, limitVars
<1>7. Direct'
  BY <1>1, <1>4 DEF OwnInv, Direct
<1>8. Lines' \subseteq Lines
  BY <1>1, <1>2, <1>3, <1>4, One DEF Lines
<1>9. Slices' = Slices
  BY <1>1 DEF Slices
<1>10. QED
  BY <1>1, <1>5, <1>6, <1>7, <1>8, <1>9, Onward

\* The copier takes a line from the middleware.
LEMMA CopyReadsOwn == ASSUME OwnInv, CopyReads PROVE OwnInv'
<1>1. /\ copier.pc = "read" /\ mwData # <<>> /\ mwData' = Tail(mwData)
      /\ copier' = [pc |-> IF setup.limited THEN "back" ELSE "output", line |-> Head(mwData)]
      /\ UNCHANGED <<setup, connVars, data, limitVars, reader, stdin, stdout, command, pump, taken>>
  BY DEF CopyReads
<1>2. /\ Typed /\ Head(mwData) \in Line /\ mwData \in Seq(Line) /\ mwData' \in Seq(Line)
      /\ Head(mwData) \in ToSet(mwData) /\ ToSet(mwData') \subseteq ToSet(mwData)
  BY <1>1, Ends DEF OwnInv, Typed
<1>3. InCopier = <<>> /\ InCopier' = <<Head(mwData)>> /\ InReader' = InReader /\ InPump' = InPump
  BY <1>1 DEF InPump, InCopier, InReader
<1>4. Row(Stages', AllDone)
  <2>1. \A a \in 1 .. 8 : a # 2 /\ a # 3 => Stages'[a] = Stages[a]
    BY <1>1, <1>3, StagesAre, OneToEight
  <2>2. Stages[2] \in Seq(Line) /\ Stages[3] \in Seq(Line)
    BY <1>2, StagesTyped
  <2>3. /\ Stages[3] # <<>> /\ Stages'[3] = Tail(Stages[3]) /\ Stages'[2] = Append(Stages[2], Head(mwData))
        /\ Head(mwData).rec = Head(Stages[3]).rec
    BY <1>1, <1>3, StagesAre
  <2>4. QED
    BY <2>1, <2>2, <2>3, MoveInRow DEF OwnInv
<1>5. Typed'
  <2>1. copier' \in CopierTypes
    BY <1>1, <1>2 DEF CopierTypes
  <2>2. QED
    BY <1>1, <1>2, <2>1 DEF Typed, connVars, limitVars
<1>6. Direct'
  BY <1>1 DEF OwnInv, Direct
<1>7. Lines' \subseteq Lines
  BY <1>1, <1>2, <1>3, One DEF Lines
<1>8. Slices' = Slices
  BY <1>1 DEF Slices
<1>9. QED
  BY <1>1, <1>4, <1>5, <1>6, <1>7, <1>8, Onward

\* The copier gives it to the output.
LEMMA CopyOutputOwn == ASSUME OwnInv, CopyOutput PROVE OwnInv'
<1>1. /\ copier.pc = "output" /\ taken' = Append(taken, copier.line) /\ copier' = [pc |-> "read"]
      /\ UNCHANGED <<setup, connVars, data, limitVars, reader, mwVars>>
  BY DEF CopyOutput
<1>2. InCopier = <<copier.line>> /\ InCopier' = <<>> /\ InReader' = InReader /\ InPump' = InPump
  BY <1>1 DEF InPump, InCopier, InReader, mwVars
<1>3. Typed /\ copier.line \in Line
  BY <1>1, Shapes DEF OwnInv
<1>4. Row(Stages', AllDone)
  <2>1. \A a \in 1 .. 8 : a # 1 /\ a # 2 => Stages'[a] = Stages[a]
    BY <1>1, <1>2, StagesAre, OneToEight DEF mwVars
  <2>2. Stages[1] \in Seq(Line) /\ Stages[2] \in Seq(Line)
    BY <1>3, StagesTyped
  <2>3. /\ Stages[2] # <<>> /\ Stages'[2] = Tail(Stages[2]) /\ Stages'[1] = Append(Stages[1], copier.line)
        /\ copier.line.rec = Head(Stages[2]).rec
    BY <1>1, <1>2, StagesAre, One
  <2>4. QED
    BY <2>1, <2>2, <2>3, MoveInRow DEF OwnInv
<1>5. Typed'
  <2>1. taken' \in Seq(Line) /\ copier' \in CopierTypes
    BY <1>1, <1>3 DEF Typed, CopierTypes
  <2>2. QED
    BY <1>1, <1>3, <2>1 DEF Typed, connVars, limitVars, mwVars
<1>6. Direct'
  BY <1>1 DEF OwnInv, Direct, mwVars
<1>7. Lines' \subseteq Lines
  BY <1>1, <1>2, <1>3, Ends, One DEF Lines, Typed, mwVars
<1>8. Slices' = Slices
  BY <1>1 DEF Slices
<1>9. QED
  BY <1>1, <1>4, <1>5, <1>6, <1>7, <1>8, Onward

\* The command's pipe may lose its end.
LEMMA Cut ==
    ASSUME NEW S, NEW s \in Seq(S), NEW n \in 0 .. Len(s)
    PROVE  /\ SubSeq(s, 1, n) \in Seq(S) /\ ToSet(SubSeq(s, 1, n)) \subseteq ToSet(s)
           /\ DOMAIN SubSeq(s, 1, n) \subseteq DOMAIN s
           /\ \A i \in DOMAIN SubSeq(s, 1, n) : SubSeq(s, 1, n)[i] = s[i]
<1>1. SubSeq(s, 1, n) \in Seq(S) /\ DOMAIN SubSeq(s, 1, n) = 1 .. n /\ DOMAIN s = 1 .. Len(s) /\ Len(s) \in Nat
      /\ \A i \in 1 .. n : SubSeq(s, 1, n)[i] = s[i]
  BY SubSeqProperties, LenProperties
<1>2. QED
  BY <1>1 DEF ToSet

\* What is on its way is dropped.
LEMMA FewerOwn ==
    ASSUME OwnInv, UNCHANGED <<setup, connVars, data, currentRPS, reader, copier, mwData, taken>>,
           pump' = pump \/ (pump' = [pc |-> "returned"]),
           stdin' = stdin \/ stdin' = <<>>,
           stdout' = stdout \/ \E n \in 0 .. Len(stdout) : stdout' = SubSeq(stdout, 1, n),
           command' = command \/ command' # "running"
    PROVE  OwnInv'
<1>1. Typed /\ stdout \in Seq(Line \cup Spoilt) /\ Len(stdout) \in Nat
  BY LenProperties DEF OwnInv, Typed
<1>2. /\ stdout' \in Seq(Line \cup Spoilt) /\ ToSet(stdout') \subseteq ToSet(stdout)
      /\ DOMAIN stdout' \subseteq DOMAIN stdout /\ \A i \in DOMAIN stdout' : stdout'[i] = stdout[i]
  <2>1. CASE stdout' = stdout
    BY <1>1, <2>1
  <2>2. CASE \E n \in 0 .. Len(stdout) : stdout' = SubSeq(stdout, 1, n)
    <3>1. PICK n \in 0 .. Len(stdout) : stdout' = SubSeq(stdout, 1, n)
      BY <2>2
    <3> DEFINE S == Line \cup Spoilt
    <3>2. stdout \in Seq(S)
      BY <1>1
    <3> HIDE DEF S
    <3>3. /\ SubSeq(stdout, 1, n) \in Seq(S) /\ ToSet(SubSeq(stdout, 1, n)) \subseteq ToSet(stdout)
          /\ DOMAIN SubSeq(stdout, 1, n) \subseteq DOMAIN stdout
          /\ \A i \in DOMAIN SubSeq(stdout, 1, n) : SubSeq(stdout, 1, n)[i] = stdout[i]
      BY <3>2, Cut
    <3>4. QED
      BY <3>1, <3>3 DEF S
  <2>3. QED
    BY <2>1, <2>2
<1>3. InCopier' = InCopier /\ InReader' = InReader /\ (InPump' = InPump \/ InPump' = <<>>)
  BY DEF InPump, InCopier, InReader
<1>4. Row(Stages', AllDone)
  <2>1. DOMAIN <<>> = {}
    OBVIOUS
  <2>2. ASSUME NEW a \in 1 .. 8
        PROVE  DOMAIN Stages'[a] \subseteq DOMAIN Stages[a]
               /\ \A i \in DOMAIN Stages'[a] : Stages'[a][i].rec = Stages[a][i].rec
    <3>1. CASE a = 5
      BY <1>2, <3>1, StagesAre
    <3>2. CASE a = 4 \/ a = 6
      BY <1>3, <2>1, <3>2, StagesAre
    <3>3. CASE a \notin {4, 5, 6}
      <4>1. Stages'[a] = Stages[a]
        BY <1>3, <3>3, StagesAre, OneToEight
      <4>2. QED
        BY <4>1
    <3>4. QED
      BY <3>1, <3>2, <3>3
  <2>3. QED
    BY <2>2, FewerInRow DEF OwnInv
<1>5. Typed'
  <2>1. pump' \in PumpTypes /\ stdin' \in Seq(Line)
    <3>1. [pc |-> "returned"] \in PumpTypes
      BY DEF PumpTypes
    <3>2. pump \in PumpTypes /\ stdin \in Seq(Line) /\ <<>> \in Seq(Line)
      BY <1>1 DEF Typed
    <3>3. QED
      BY <3>1, <3>2
  <2>2. QED
    BY <1>1, <1>2, <2>1 DEF Typed, connVars
<1>6. Direct'
  <2>1. ~setup.middleware => stdout' = <<>>
    <3>1. ASSUME stdout = <<>> PROVE stdout' = <<>>
      BY <1>1, <1>2, <3>1, EmptySeq, LenProperties
    <3>2. QED
      BY <3>1 DEF OwnInv, Direct
  <2>2. QED
    BY <2>1 DEF OwnInv, Direct
<1>7. Lines' \subseteq Lines
  BY <1>2, <1>3, One DEF Lines
<1>8. Slices' = Slices
  BY DEF Slices
<1>9. QED
  BY <1>4, <1>5, <1>6, <1>7, <1>8, Onward

\* The command takes a line, and gives it back, keeps it or spoils it.
LEMMA CommandRunsOwn == ASSUME OwnInv, CommandRuns PROVE OwnInv'
<1>1. PICK line \in {<<>>, <<[rec |-> Torn]>>, <<Head(stdin)>>} : stdout' = stdout \o line
  BY DEF CommandRuns
<1>2. /\ stdin # <<>> /\ stdin' = Tail(stdin) /\ command = "running"
      /\ UNCHANGED <<setup, connVars, data, limitVars, reader, copier, command, pump, mwData, taken>>
  BY DEF CommandRuns
<1>3. /\ Typed /\ Head(stdin) \in Line /\ stdin \in Seq(Line) /\ stdin' \in Seq(Line)
      /\ Head(stdin) \in ToSet(stdin) /\ ToSet(stdin') \subseteq ToSet(stdin) /\ stdout \in Seq(Line \cup Spoilt)
  BY <1>2, Ends DEF OwnInv, Typed
<1>4. InCopier' = InCopier /\ InReader' = InReader /\ InPump' = InPump
  BY <1>2 DEF InPump, InCopier, InReader
<1>5. \/ stdout' = stdout
      \/ \E x \in Line \cup Spoilt : /\ stdout' = Append(stdout, x)
                                     /\ x = Head(stdin) \/ (x = [rec |-> Torn] /\ Foreign(x))
  <2>1. \A x \in Line \cup Spoilt : stdout \o <<x>> = Append(stdout, x)
    BY <1>3, AppendIsConcat
  <2>2. stdout \o <<>> = stdout
    BY <1>3, ConcatEmptySeq
  <2>3. [rec |-> Torn] \in Spoilt
    BY DEF Spoilt
  <2>4. QED
    BY <1>1, <1>3, <2>1, <2>2, <2>3, NoRecords
<1>6. Row(Stages', AllDone)
  <2>1. \A a \in 1 .. 8 : a # 5 /\ a # 6 => Stages'[a] = Stages[a]
    BY <1>2, <1>4, StagesAre, OneToEight
  <2>2. Stages[5] \in Seq(Line \cup Spoilt) /\ Stages[6] \in Seq(Line)
    BY <1>3, StagesTyped
  <2>3. Stages[6] # <<>> /\ Stages'[6] = Tail(Stages[6])
    BY <1>2, StagesAre
  <2>4. \/ Stages'[5] = Stages[5]
        \/ \E x : Stages'[5] = Append(Stages[5], x) /\ (x.rec = Head(Stages[6]).rec \/ Foreign(x))
    BY <1>5, StagesAre
  <2>5. QED
    BY <2>1, <2>2, <2>3, <2>4, MoveInRow DEF OwnInv
<1>7. stdout' \in Seq(Line \cup Spoilt) /\ ToSet(stdout') \subseteq ToSet(stdout) \cup {Head(stdin), [rec |-> Torn]}
  <2>1. CASE stdout' = stdout
    BY <1>3, <2>1
  <2>2. CASE stdout' # stdout
    <3> DEFINE S == Line \cup Spoilt
    <3>1. PICK x \in S : stdout' = Append(stdout, x) /\ x \in {Head(stdin), [rec |-> Torn]}
      BY <1>5, <2>2
    <3>2. stdout \in Seq(S)
      BY <1>3
    <3> HIDE DEF S
    <3>3. Append(stdout, x) \in Seq(S) /\ ToSet(Append(stdout, x)) \subseteq ToSet(stdout) \cup {x}
      BY <3>2, Ends
    <3>4. QED
      BY <3>1, <3>3 DEF S
  <2>3. QED
    BY <2>1, <2>2
<1>8. Typed'
  BY <1>2, <1>3, <1>7 DEF Typed, connVars, limitVars
<1>9. Direct'
  BY <1>2 DEF OwnInv, Direct
<1>10. \A l \in Lines' : l \in Lines \/ LineOK(l)
  <2>1. \A l \in Lines' : l \in Lines \/ l = [rec |-> Torn]
    BY <1>2, <1>3, <1>4, <1>7 DEF Lines
  <2>2. LineOK([rec |-> Torn])
    BY NoRecords DEF Foreign, LineOK
  <2>3. QED
    BY <2>1, <2>2
<1>11. Slices' = Slices
  BY <1>2 DEF Slices
<1>12. QED
  BY <1>2, <1>6, <1>8, <1>9, <1>10, <1>11, Onward

\* The command goes, and with it what is in its pipes.
LEMMA CommandQuitsOwn == ASSUME OwnInv, CommandQuits PROVE OwnInv'
  BY FewerOwn DEF CommandQuits, limitVars

\* The pump drops what it holds.
LEMMA PumpEndsOwn == ASSUME OwnInv, PumpEnds PROVE OwnInv'
  BY FewerOwn DEF PumpEnds, limitVars

\* Closing drops at most what the command has not read.
LEMMA ClosesOwn == ASSUME OwnInv, WaiterChecks \/ WaiterCloses \/ CloseInput \/ Closes PROVE OwnInv'
  BY FewerOwn DEF WaiterChecks, WaiterCloses, CloseInput, Closes, CloseChecks, CloseMiddleware, CloseReturns,
                  CloseLocked, limitVars, mwVars

\* Time passes.
LEMMA SecondOwn == ASSUME OwnInv, Second PROVE OwnInv'
  BY FewerOwn DEF Second, mwVars

\* Nothing happens.
LEMMA StutterOwn == ASSUME OwnInv, UNCHANGED ingestVars PROVE OwnInv'
  BY FewerOwn DEF ingestVars, mwVars, limitVars

\* The copier counts, or ends.
LEMMA CopierOwn == ASSUME OwnInv, CopyBack \/ CopyBackCount \/ CopyEnds PROVE OwnInv'
<1>1. Typed /\ RPS \in Nat
  BY DEF OwnInv, Typed, RPS
<1>2. UNCHANGED <<setup, connVars, data, inputStop, reader, mwVars, taken>> /\ copier.pc # "none"
  BY DEF CopyBack, CopyBackCount, CopyEnds
<1>3. copier' \in CopierTypes /\ InCopier' = InCopier /\ currentRPS' \in Nat
  <2>1. CASE CopyBack
    <3>1. copier.pc = "back" /\ copier.line \in Line /\ currentRPS' = RPS
      BY <1>1, <2>1, Shapes DEF CopyBack, LimiterCompares
    <3>2. \/ copier' = [pc |-> "output", line |-> copier.line]
          \/ copier' = [pc |-> "backCount", line |-> copier.line, rps |-> RPS]
      BY <2>1 DEF CopyBack
    <3>3. QED
      BY <1>1, <3>1, <3>2 DEF CopierTypes, InCopier
  <2>2. CASE CopyBackCount
    <3>1. /\ copier.pc = "backCount" /\ copier.line \in Line /\ copier.rps \in Nat
          /\ currentRPS' = copier.rps + 1 /\ copier' = [pc |-> "output", line |-> copier.line]
      BY <1>1, <2>2, Shapes DEF CopyBackCount
    <3>2. QED
      BY <3>1 DEF CopierTypes, InCopier
  <2>3. CASE CopyEnds
    <3>1. copier.pc = "read" /\ copier' = [pc |-> "returned"] /\ currentRPS' = currentRPS
      BY <2>3 DEF CopyEnds, limitVars
    <3>2. QED
      BY <1>1, <3>1 DEF CopierTypes, InCopier, Typed
  <2>4. QED
    BY <2>1, <2>2, <2>3
<1>4. InReader' = InReader /\ InPump' = InPump
  BY <1>2 DEF InReader, InPump, mwVars
<1>5. Row(Stages', AllDone)
  <2>1. Stages' = Stages
    BY <1>2, <1>3, <1>4 DEF Stages, mwVars
  <2>2. QED
    BY <2>1 DEF OwnInv
<1>6. Typed'
  BY <1>1, <1>2, <1>3 DEF Typed, connVars, mwVars
<1>7. Direct'
  BY <1>2 DEF OwnInv, Direct, mwVars
<1>8. Lines' \subseteq Lines /\ Slices' = Slices
  BY <1>2, <1>3, <1>4 DEF Lines, Slices, mwVars
<1>9. QED
  BY <1>2, <1>5, <1>6, <1>7, <1>8, Onward

\* What the reader holds.
LEMMA Holds ==
    /\ reader.pc \in {"read", "returned"} => InReader = <<>>
    /\ reader.pc = "stdin" => InReader = <<reader.line>>
    /\ reader.pc \in WithMsg => InReader = <<reader.msg>>
    /\ reader'.pc \in {"read", "returned"} => InReader' = <<>>
    /\ reader'.pc = "stdin" => InReader' = <<reader'.line>>
    /\ reader'.pc \in WithMsg => InReader' = <<reader'.msg>>
  BY DEF InReader, WithMsg

\* Copy encodes what it finds in memory, CopyMulty passes the slice on.
LEMMA DeliverShape ==
    ASSUME OwnInv, NEW msg \in Msg, SliceOK(msg)
    PROVE  /\ Deliver(msg) \in ReaderTypes
           /\ \/ /\ setup.middleware /\ Deliver(msg).pc = "stdin"
                 /\ Deliver(msg).line.rec = msg.rec /\ LineOK(Deliver(msg).line)
              \/ /\ ~setup.middleware /\ Deliver(msg).pc \in {"back", "output"}
                 /\ Deliver(msg).msg = msg
<1>1. msg.rec \in Records /\ memory \in Seq(Records \cup {Torn})
  BY DEF Msg, OwnInv, Typed
<1>2. PICK c \in Conns : \E p \in DOMAIN Sent[c] : msg.rec = Sent[c][p]
  BY <1>1, Wires
<1>3. memory[msg.at] \in Records \cup {Torn}
  <2>1. msg.at \in DOMAIN memory
    BY <1>2 DEF SliceOK
  <2> DEFINE S == Records \cup {Torn}
  <2>2. memory \in Seq(S)
    BY <1>1
  <2> HIDE DEF S
  <2>3. memory[msg.at] \in S
    BY <2>1, <2>2, ElementOfSeq, LenProperties
  <2>4. QED
    BY <2>3 DEF S
<1>4. CASE setup.middleware
  <2> DEFINE line == [rec |-> msg.rec, is |-> memory[msg.at]]
  <2>1. line \in Line
    BY <1>1, <1>3 DEF Line
  <2>2. LineOK(line)
    BY DEF SliceOK, LineOK
  <2>3. Deliver(msg) = [pc |-> "stdin", line |-> line]
    BY <1>4 DEF Deliver
  <2> HIDE DEF line
  <2>4. [pc |-> "stdin", line |-> line] \in ReaderTypes
    BY <2>1 DEF ReaderTypes
  <2>5. line.rec = msg.rec
    BY DEF line
  <2>6. QED
    BY <1>4, <2>2, <2>3, <2>4, <2>5
<1>5. CASE ~setup.middleware
  <2>1. [pc |-> "back", msg |-> msg] \in ReaderTypes /\ [pc |-> "output", msg |-> msg] \in ReaderTypes
    BY DEF ReaderTypes
  <2>2. QED
    BY <1>5, <2>1 DEF Deliver
<1>6. QED
  BY <1>4, <1>5

\* The reader goes on with what it has, or drops it.
LEMMA ReaderOwn ==
    ASSUME OwnInv, reader' \in ReaderTypes, currentRPS' \in Nat,
           UNCHANGED <<setup, connVars, data, copier, mwVars, taken>>,
           InReader # <<>>,
           \/ reader'.pc \in {"read", "returned"}
           \/ /\ setup.middleware /\ reader'.pc = "stdin"
              /\ reader'.line.rec = InReader[1].rec /\ LineOK(reader'.line)
           \/ /\ reader'.pc \in WithMsg /\ reader'.msg = InReader[1] /\ reader.pc \in WithMsg
              /\ reader'.pc \in {"back", "backCount", "output"} => ~setup.middleware
    PROVE  OwnInv'
<1>1. InReader' = <<>> \/ \E x : InReader' = <<x>> /\ x.rec = InReader[1].rec
  BY Holds
<1>2. InCopier' = InCopier /\ InPump' = InPump
  BY DEF InCopier, InPump, mwVars
<1>3. Row(Stages', AllDone)
  <2>1. DOMAIN <<>> = {} /\ \A x : DOMAIN <<x>> = {1} /\ <<x>>[1] = x
    OBVIOUS
  <2>2. InReader = <<>> \/ \E x : InReader = <<x>>
    BY DEF InReader
  <2>3. ASSUME NEW a \in 1 .. 8
        PROVE  DOMAIN Stages'[a] \subseteq DOMAIN Stages[a]
               /\ \A i \in DOMAIN Stages'[a] : Stages'[a][i].rec = Stages[a][i].rec
    <3>1. CASE a = 7
      BY <1>1, <2>1, <2>2, <3>1, StagesAre
    <3>2. CASE a # 7
      <4>1. Stages'[a] = Stages[a]
        BY <1>2, <3>2, StagesAre, OneToEight DEF mwVars
      <4>2. QED
        BY <4>1
    <3>3. QED
      BY <3>1, <3>2
  <2>4. QED
    BY <2>3, FewerInRow DEF OwnInv
<1>4. Typed'
  BY DEF OwnInv, Typed, connVars, mwVars
<1>5. Direct'
  BY DEF OwnInv, Direct, mwVars, WithMsg
<1>6. \A line \in Lines' : line \in Lines \/ LineOK(line)
  <2>1. \A line \in Lines' : line \in Lines \/ (reader'.pc = "stdin" /\ line = reader'.line)
    BY <1>2 DEF Lines, mwVars
  <2>2. reader'.pc = "stdin" => LineOK(reader'.line)
    BY DEF WithMsg
  <2>3. QED
    BY <2>1, <2>2
<1>7. Slices' \subseteq Slices
  <2>1. reader.pc \in WithMsg => InReader = <<reader.msg>>
    BY Holds
  <2>2. QED
    BY <2>1 DEF Slices, WithMsg
<1>8. QED
  BY <1>3, <1>4, <1>5, <1>6, <1>7, Onward

\* The limiter holds a message back, or counts it.
LEMMA ReadCompareOwn == ASSUME OwnInv, ReadCompare PROVE OwnInv'
<1>1. /\ reader.pc = "compare" /\ currentRPS' = RPS
      /\ reader' = IF Limited THEN [pc |-> "read"] ELSE [pc |-> "count", msg |-> reader.msg, rps |-> RPS]
      /\ UNCHANGED <<setup, connVars, data, inputStop, copier, mwVars, emitter, taken>>
  BY DEF ReadCompare, LimiterCompares
<1>2. Typed /\ RPS \in Nat
  BY DEF OwnInv, Typed, RPS
<1>3. reader.msg \in Msg \cup {Stopped} /\ InReader = <<reader.msg>>
  BY <1>1, <1>2, Shapes, Holds DEF WithMsg
<1>4. reader' \in ReaderTypes
  <2>1. [pc |-> "read"] \in ReaderTypes /\ [pc |-> "count", msg |-> reader.msg, rps |-> RPS] \in ReaderTypes
    BY <1>2, <1>3 DEF ReaderTypes
  <2>2. QED
    BY <1>1, <2>1
<1>5. reader'.pc = "read" \/ (reader'.pc = "count" /\ reader'.msg = reader.msg)
  BY <1>1
<1>6. InReader # <<>> /\ InReader[1] = reader.msg
  BY <1>3
<1>7. QED
  BY <1>1, <1>2, <1>4, <1>5, <1>6, ReaderOwn DEF WithMsg

\* It has counted, and the reader goes on with the message.
LEMMA ReadCountOwn == ASSUME OwnInv, ReadCount PROVE OwnInv'
<1>1. /\ reader.pc = "count" /\ currentRPS' = reader.rps + 1
      /\ reader' = IF reader.msg = Stopped THEN [pc |-> "returned"] ELSE Deliver(reader.msg)
      /\ UNCHANGED <<setup, connVars, data, inputStop, windowOver, seconds, copier, mwVars, emitter, taken>>
  BY DEF ReadCount
<1>2. Typed
  BY DEF OwnInv
<1>3. reader.msg \in Msg \cup {Stopped} /\ InReader = <<reader.msg>> /\ reader.rps \in Nat
  BY <1>1, <1>2, Shapes, Holds DEF WithMsg
<1>4. InReader # <<>> /\ InReader[1] = reader.msg
  BY <1>3
<1>5. CASE reader.msg = Stopped
  <2>1. reader' \in ReaderTypes /\ reader'.pc = "returned"
    BY <1>1, <1>5 DEF ReaderTypes
  <2>2. QED
    BY <1>1, <1>3, <1>4, <2>1, ReaderOwn
<1>6. CASE reader.msg # Stopped
  <2>1. reader.msg \in Msg /\ SliceOK(reader.msg) /\ reader' = Deliver(reader.msg)
    BY <1>1, <1>3, <1>6 DEF OwnInv, Contents, Slices, WithMsg
  <2>2. /\ reader' \in ReaderTypes
        /\ \/ /\ setup.middleware /\ reader'.pc = "stdin"
              /\ reader'.line.rec = reader.msg.rec /\ LineOK(reader'.line)
           \/ ~setup.middleware /\ reader'.pc \in {"back", "output"} /\ reader'.msg = reader.msg
    <3>1. /\ Deliver(reader.msg) \in ReaderTypes
          /\ \/ /\ setup.middleware /\ Deliver(reader.msg).pc = "stdin"
                /\ Deliver(reader.msg).line.rec = reader.msg.rec /\ LineOK(Deliver(reader.msg).line)
             \/ /\ ~setup.middleware /\ Deliver(reader.msg).pc \in {"back", "output"}
                /\ Deliver(reader.msg).msg = reader.msg
      BY <2>1, DeliverShape
    <3>2. QED
      BY <2>1, <3>1
  <2>3. QED
    BY <1>1, <1>3, <1>4, <2>2, ReaderOwn DEF WithMsg
<1>7. QED
  BY <1>5, <1>6

\* The message is written back to the limiter.
LEMMA WriteBackOwn == ASSUME OwnInv, WriteBack \/ WriteBackCount PROVE OwnInv'
<1>1. /\ reader.pc \in {"back", "backCount"}
      /\ UNCHANGED <<setup, connVars, data, inputStop, copier, mwVars, emitter, taken>>
  BY DEF WriteBack, WriteBackCount
<1>2. Typed /\ RPS \in Nat
  BY DEF OwnInv, Typed, RPS
<1>3. reader.msg \in Msg /\ InReader = <<reader.msg>> /\ (reader.pc = "backCount" => reader.rps \in Nat)
  BY <1>1, <1>2, Shapes, Holds DEF WithMsg
<1>4. \/ reader' = [pc |-> "output", msg |-> reader.msg]
      \/ reader' = [pc |-> "backCount", msg |-> reader.msg, rps |-> RPS]
  BY DEF WriteBack, WriteBackCount
<1>5. reader' \in ReaderTypes
  <2>1. /\ [pc |-> "output", msg |-> reader.msg] \in ReaderTypes
        /\ [pc |-> "backCount", msg |-> reader.msg, rps |-> RPS] \in ReaderTypes
    BY <1>2, <1>3 DEF ReaderTypes
  <2>2. QED
    BY <1>4, <2>1
<1>6. currentRPS' \in Nat
  BY <1>2, <1>3 DEF WriteBack, WriteBackCount, LimiterCompares
<1>7. reader'.pc \in {"output", "backCount"} /\ reader'.msg = reader.msg /\ ~setup.middleware
  BY <1>1, <1>4 DEF OwnInv, Direct
<1>8. InReader # <<>> /\ InReader[1] = reader.msg
  BY <1>3
<1>9. QED
  BY <1>1, <1>5, <1>6, <1>7, <1>8, ReaderOwn DEF WithMsg

\* The input is found closed.
LEMMA ReadStoppedOwn == ASSUME OwnInv, ReadStopped PROVE OwnInv'
<1>1. /\ reader.pc = "read"
      /\ reader' = IF setup.limited THEN [pc |-> "compare", msg |-> Stopped] ELSE [pc |-> "returned"]
      /\ UNCHANGED <<setup, connVars, data, limitVars, copier, mwVars, taken>>
  BY DEF ReadStopped
<1>2. Typed /\ InReader = <<>>
  BY <1>1, Holds DEF OwnInv
<1>3. \/ reader'.pc = "returned" /\ InReader' = <<>>
      \/ reader'.pc = "compare" /\ reader'.msg = Stopped /\ InReader' = <<Stopped>>
  BY <1>1, Holds DEF WithMsg
<1>4. InCopier' = InCopier /\ InPump' = InPump
  BY <1>1 DEF InCopier, InPump, mwVars
<1>5. Row(Stages', AllDone)
  <2>1. \A a \in 1 .. 8 : a # 7 => Stages'[a] = Stages[a]
    BY <1>1, <1>4, StagesAre, OneToEight DEF mwVars
  <2>2. CASE InReader' = <<>>
    <3>1. Stages'[7] = Stages[7]
      BY <1>2, <2>2, StagesAre
    <3>2. Stages' = Stages
      BY <1>1, <1>2, <1>4, <2>2 DEF Stages, mwVars
    <3>3. QED
      BY <3>2 DEF OwnInv
  <2>3. CASE InReader' = <<Stopped>>
    <3>1. Stages[7] \in Seq(Line \cup Msg \cup {Stopped})
      BY <1>2, StagesTyped
    <3>2. Stages'[7] = Append(Stages[7], Stopped)
      BY <1>2, <2>3, StagesAre
    <3>3. Grows(AllDone, AllDone)
      BY <1>2, Wires, LenProperties DEF Grows, AllDone, Done, Typed
    <3>4. QED
      BY <2>1, <3>1, <3>2, <3>3, AddInRow, NoRecords DEF OwnInv
  <2>4. QED
    BY <1>3, <2>2, <2>3
<1>6. Typed'
  <2>1. reader' \in ReaderTypes
    BY <1>1 DEF ReaderTypes
  <2>2. QED
    BY <1>1, <1>2, <2>1 DEF Typed, connVars, mwVars, limitVars
<1>7. Direct'
  BY <1>1, <1>3 DEF OwnInv, Direct, mwVars
<1>8. Lines' \subseteq Lines
  BY <1>1, <1>3, <1>4 DEF Lines, mwVars
<1>9. \A msg \in Slices' : msg \in Slices \/ Foreign(msg)
  BY <1>1, <1>3, NoRecords DEF Slices, WithMsg
<1>10. QED
  BY <1>1, <1>5, <1>6, <1>7, <1>8, <1>9, Onward

\* The reader takes a slice from the channel.
LEMMA ReadMessageOwn == ASSUME OwnInv, ReadMessage PROVE OwnInv'
<1>1. /\ reader.pc = "read" /\ data # <<>> /\ data' = Tail(data)
      /\ reader' = IF setup.limited THEN [pc |-> "compare", msg |-> Head(data)] ELSE Deliver(Head(data))
      /\ UNCHANGED <<setup, connVars, limitVars, copier, mwVars, taken>>
  BY DEF ReadMessage
<1>2. Typed /\ InReader = <<>>
  BY <1>1, Holds DEF OwnInv
<1>3. /\ Head(data) \in Msg /\ data \in Seq(Msg) /\ data' \in Seq(Msg) /\ Head(data) \in ToSet(data)
      /\ ToSet(data') \subseteq ToSet(data)
  BY <1>1, <1>2, Ends DEF Typed
<1>4. SliceOK(Head(data))
  BY <1>3 DEF OwnInv, Contents, Slices
<1>5. /\ reader' \in ReaderTypes
      /\ \/ /\ setup.middleware /\ reader'.pc = "stdin"
            /\ reader'.line.rec = Head(data).rec /\ LineOK(reader'.line)
         \/ ~setup.middleware /\ reader'.pc \in {"back", "output"} /\ reader'.msg = Head(data)
         \/ reader'.pc = "compare" /\ reader'.msg = Head(data)
  <2>1. CASE setup.limited
    BY <1>1, <1>3, <2>1 DEF ReaderTypes
  <2>2. CASE ~setup.limited
    <3>1. /\ Deliver(Head(data)) \in ReaderTypes
          /\ \/ /\ setup.middleware /\ Deliver(Head(data)).pc = "stdin"
                /\ Deliver(Head(data)).line.rec = Head(data).rec /\ LineOK(Deliver(Head(data)).line)
             \/ /\ ~setup.middleware /\ Deliver(Head(data)).pc \in {"back", "output"}
                /\ Deliver(Head(data)).msg = Head(data)
      BY <1>3, <1>4, DeliverShape
    <3>2. reader' = Deliver(Head(data))
      BY <1>1, <2>2
    <3>3. QED
      BY <3>1, <3>2
  <2>3. QED
    BY <2>1, <2>2
<1>6. \E x : InReader' = <<x>> /\ x.rec = Head(data).rec
  BY <1>5, Holds DEF WithMsg
<1>7. InCopier' = InCopier /\ InPump' = InPump
  BY <1>1 DEF InCopier, InPump, mwVars
<1>8. Row(Stages', AllDone)
  <2>1. \A a \in 1 .. 8 : a # 7 /\ a # 8 => Stages'[a] = Stages[a]
    BY <1>1, <1>7, StagesAre, OneToEight DEF mwVars
  <2>2. Stages[7] \in Seq(Line \cup Msg \cup {Stopped}) /\ Stages[8] \in Seq(Msg)
    BY <1>2, StagesTyped
  <2>3. Stages[8] # <<>> /\ Stages'[8] = Tail(Stages[8])
    BY <1>1, StagesAre
  <2>4. \E x : Stages'[7] = Append(Stages[7], x) /\ x.rec = Head(Stages[8]).rec
    BY <1>2, <1>6, StagesAre
  <2>5. QED
    BY <2>1, <2>2, <2>3, <2>4, MoveInRow DEF OwnInv
<1>9. Typed'
  BY <1>1, <1>2, <1>3, <1>5 DEF Typed, connVars, mwVars, limitVars
<1>10. Direct'
  BY <1>1, <1>5 DEF OwnInv, Direct, mwVars
<1>11. \A line \in Lines' : line \in Lines \/ LineOK(line)
  <2>1. \A line \in Lines' : line \in Lines \/ (reader'.pc = "stdin" /\ line = reader'.line)
    BY <1>1, <1>7 DEF Lines, mwVars
  <2>2. reader'.pc = "stdin" => LineOK(reader'.line)
    BY <1>5
  <2>3. QED
    BY <2>1, <2>2
<1>12. Slices' \subseteq Slices
  BY <1>3, <1>5 DEF Slices, WithMsg
<1>13. QED
  BY <1>1, <1>8, <1>9, <1>10, <1>11, <1>12, Onward

\* The output copies what is in memory.
LEMMA WriteOutputOwn == ASSUME OwnInv, WriteOutput PROVE OwnInv'
<1>1. /\ reader.pc = "output" /\ reader' = [pc |-> "read"]
      /\ taken' = Append(taken, [rec |-> reader.msg.rec, is |-> memory[reader.msg.at]])
      /\ UNCHANGED <<setup, connVars, data, limitVars, copier, mwVars>>
  BY DEF WriteOutput
<1>2. Typed /\ reader.msg \in Msg /\ InReader = <<reader.msg>> /\ InReader' = <<>>
  BY <1>1, Holds, Shapes DEF OwnInv, WithMsg
<1>3. SliceOK(reader.msg)
  BY <1>1 DEF OwnInv, Contents, Slices, WithMsg
<1> DEFINE line == [rec |-> reader.msg.rec, is |-> memory[reader.msg.at]]
<1>4. line \in Line
  <2>1. reader.msg.rec \in Records /\ memory \in Seq(Records \cup {Torn})
    BY <1>2 DEF Msg, Typed
  <2>2. \E c \in Conns : \E p \in DOMAIN Sent[c] : reader.msg.rec = Sent[c][p]
    BY <2>1, Wires
  <2>3. reader.msg.at \in DOMAIN memory
    BY <1>3, <2>2 DEF SliceOK
  <2> DEFINE S == Records \cup {Torn}
  <2>4. memory \in Seq(S)
    BY <2>1
  <2> HIDE DEF S
  <2>5. memory[reader.msg.at] \in S
    BY <2>3, <2>4, ElementOfSeq, LenProperties
  <2>6. QED
    BY <2>1, <2>5 DEF S, Line
<1>5. LineOK(line)
  BY <1>3 DEF SliceOK, LineOK
<1>6. InCopier = <<>> /\ InCopier' = <<>> /\ InPump = <<>> /\ InPump' = <<>> /\ mwData = <<>> /\ stdout = <<>>
      /\ stdin = <<>>
  BY <1>1 DEF OwnInv, Direct, InCopier, InPump, mwVars
<1>7. line.rec = reader.msg.rec /\ taken' = Append(taken, line)
  BY <1>1
<1> HIDE DEF line
<1>8. Row(Stages', AllDone)
  <2>1. \A a \in 1 .. 8 : a # 1 /\ a # 7 => Stages'[a] = Stages[a]
    BY <1>1, <1>6, StagesAre, OneToEight DEF mwVars
  <2>2. Stages[1] \in Seq(Line) /\ Stages[7] \in Seq(Line \cup Msg \cup {Stopped})
    BY <1>2, StagesTyped
  <2>3. /\ Stages[7] # <<>> /\ Stages'[7] = Tail(Stages[7]) /\ Stages'[1] = Append(Stages[1], line)
        /\ line.rec = Head(Stages[7]).rec
    BY <1>2, <1>7, StagesAre, One
  <2>4. \A a \in 1 .. 8 : 1 < a /\ a < 7 => Stages[a] = <<>>
    BY <1>6, StagesAre, OneToEight
  <2>5. QED
    BY <2>1, <2>2, <2>3, <2>4, MoveInRow DEF OwnInv
<1>9. Typed'
  <2>1. taken' \in Seq(Line) /\ reader' \in ReaderTypes
    BY <1>1, <1>2, <1>4, <1>7 DEF Typed, ReaderTypes
  <2>2. QED
    BY <1>1, <1>2, <2>1 DEF Typed, connVars, mwVars, limitVars
<1>10. Direct'
  BY <1>1 DEF OwnInv, Direct, mwVars
<1>11. \A l \in Lines' : l \in Lines \/ LineOK(l)
  <2>1. ToSet(taken') \subseteq ToSet(taken) \cup {line}
    BY <1>2, <1>7, Ends DEF Typed
  <2>2. \A l \in Lines' : l \in Lines \/ l = line
    BY <1>1, <1>6, <2>1, One DEF Lines, mwVars
  <2>3. QED
    BY <1>5, <2>2
<1>12. Slices' \subseteq Slices
  BY <1>1 DEF Slices, WithMsg
<1>13. QED
  BY <1>1, <1>8, <1>9, <1>10, <1>11, <1>12, Onward

\* The reader gives a line to the command.
LEMMA WriteStdinOwn == ASSUME OwnInv, WriteStdin PROVE OwnInv'
<1>1. /\ reader.pc = "stdin"
      /\ UNCHANGED <<setup, connVars, data, limitVars, copier, stdout, command, pump, mwData, taken>>
      /\ \/ command = "running" /\ stdin' = Append(stdin, reader.line) /\ reader' = [pc |-> "read"]
         \/ stdin' = stdin /\ reader' \in {[pc |-> "read"], [pc |-> "returned"]}
  BY DEF WriteStdin
<1>2. Typed /\ reader.line \in Line /\ InReader = <<reader.line>> /\ InReader' = <<>>
  BY <1>1, Holds, Shapes DEF OwnInv
<1>3. InCopier' = InCopier /\ InPump' = InPump
  BY <1>1 DEF InCopier, InPump
<1>4. Row(Stages', AllDone)
  <2>1. \A a \in 1 .. 8 : a # 6 /\ a # 7 => Stages'[a] = Stages[a]
    BY <1>1, <1>3, StagesAre, OneToEight
  <2>2. Stages[6] \in Seq(Line) /\ Stages[7] \in Seq(Line \cup Msg \cup {Stopped})
    BY <1>2, StagesTyped
  <2>3. Stages[7] # <<>> /\ Stages'[7] = Tail(Stages[7]) /\ reader.line.rec = Head(Stages[7]).rec
    BY <1>1, <1>2, StagesAre, One
  <2>4. Stages'[6] = Stages[6] \/ Stages'[6] = Append(Stages[6], reader.line)
    BY <1>1, StagesAre
  <2>5. \A a \in 1 .. 8 : 6 < a /\ a < 7 => Stages[a] = <<>>
    OBVIOUS
  <2>6. Row(Stages, AllDone)
    BY DEF OwnInv
  <2>7. QED
    BY <2>1, <2>2, <2>3, <2>4, <2>5, <2>6, MoveInRow
<1>5. stdin' \in Seq(Line) /\ ToSet(stdin') \subseteq ToSet(stdin) \cup {reader.line}
  <2>1. stdin \in Seq(Line)
    BY <1>2 DEF Typed
  <2>2. Append(stdin, reader.line) \in Seq(Line)
        /\ ToSet(Append(stdin, reader.line)) \subseteq ToSet(stdin) \cup {reader.line}
    BY <1>2, <2>1, Ends
  <2>3. QED
    BY <1>1, <2>1, <2>2
<1>6. Typed'
  <2>1. reader' \in ReaderTypes
    BY <1>1 DEF ReaderTypes
  <2>2. QED
    BY <1>1, <1>2, <1>5, <2>1 DEF Typed, connVars, limitVars
<1>7. Direct'
  BY <1>1 DEF OwnInv, Direct
<1>8. Lines' \subseteq Lines
  BY <1>1, <1>3, <1>5 DEF Lines
<1>9. Slices' \subseteq Slices
  BY <1>1 DEF Slices, WithMsg
<1>10. QED
  BY <1>1, <1>4, <1>6, <1>7, <1>8, <1>9, Onward

-----------------------------------------------------------------------------
(* Steps of the connections *)

\* A buffer is written, an old one or a new one.
LEMMA Written ==
    ASSUME NEW S, NEW s \in Seq(S), NEW x \in S, NEW at \in 1 .. Len(s) + 1, NEW t,
           t = IF at \in DOMAIN s THEN [s EXCEPT ![at] = x] ELSE Append(s, x)
    PROVE  /\ t \in Seq(S) /\ Len(t) \in Nat /\ DOMAIN t = 1 .. Len(t) /\ DOMAIN s = 1 .. Len(s) /\ Len(s) \in Nat
           /\ Len(s) <= Len(t) /\ at <= Len(t) /\ t[at] = x
           /\ \A k \in DOMAIN s : k # at => t[k] = s[k]
<1>1. Len(s) \in Nat /\ DOMAIN s = 1 .. Len(s)
  BY LenProperties
<1>2. CASE at \in DOMAIN s
  <2>1. t = [s EXCEPT ![at] = x]
    BY <1>2
  <2>2. t \in Seq(S) /\ Len(t) = Len(s) /\ t[at] = x /\ \A k \in DOMAIN s : k # at => t[k] = s[k]
    BY <1>1, <1>2, <2>1, ExceptSeq
  <2>3. QED
    BY <1>1, <1>2, <2>2, LenProperties
<1>3. CASE at \notin DOMAIN s
  <2>1. t = Append(s, x) /\ at = Len(s) + 1
    <3> DEFINE n == Len(s)
    <3>1. n \in Nat /\ at \in 1 .. n + 1 /\ ~(at \in 1 .. n)
      BY <1>1, <1>3
    <3> HIDE DEF n
    <3>2. at = n + 1
      BY <3>1
    <3>3. t = Append(s, x)
      BY <1>3
    <3>4. QED
      BY <3>2, <3>3 DEF n
  <2>2. t \in Seq(S) /\ Len(t) = Len(s) + 1 /\ t[Len(s) + 1] = x /\ \A k \in DOMAIN s : t[k] = s[k]
    BY <2>1, AppendProperties, Appended
  <2>3. DOMAIN t = 1 .. Len(t)
    BY <2>2, LenProperties
  <2>4. Len(t) \in Nat /\ Len(s) <= Len(t) /\ at <= Len(t) /\ t[at] = x
    <3>1. at = Len(s) + 1 /\ Len(s) \in Nat
      BY <1>1, <2>1
    <3>2. t[at] = x
      BY <2>2, <3>1
    <3>3. Len(t) = at
      BY <2>2, <3>1
    <3>4. QED
      BY <3>1, <3>2, <3>3
  <2>5. QED
    BY <1>1, <2>2, <2>3, <2>4
<1>4. QED
  BY <1>2, <1>3

\* A slice that is about is of a record handed over.
LEMMA SliceDone ==
    ASSUME Row(Stages, AllDone), NEW msg \in Slices, NEW c \in Conns, NEW p \in DOMAIN Sent[c],
           msg.rec = Sent[c][p]
    PROVE  p <= Done(c)
<1>1. AllDone[c] = Done(c)
  BY DEF AllDone
<1>2. CASE msg \in ToSet(data)
  <2>1. PICK i \in DOMAIN data : data[i] = msg
    BY <1>2 DEF ToSet
  <2>2. i \in DOMAIN Stages[8] /\ Stages[8][i] = msg
    BY <2>1, StagesAre
  <2>3. QED
    BY <1>1, <2>2 DEF Row, Within
<1>3. CASE reader.pc \in WithMsg /\ msg = reader.msg
  <2>1. 1 \in DOMAIN Stages[7] /\ Stages[7][1] = msg
    BY <1>3, StagesAre, Holds
  <2>2. QED
    BY <1>1, <2>1 DEF Row, Within
<1>4. QED
  BY <1>2, <1>3 DEF Slices

\* The record a connection is at.
LEMMA Due ==
    ASSUME OwnInv, NEW c \in Conns
    PROVE  /\ Done(c) \in Nat /\ Len(unsent[c]) \in Nat /\ Len(Sent[c]) \in Nat /\ Len(Sent[c]) = Done(c) + Len(unsent[c])
           /\ DOMAIN Sent[c] = 1 .. Len(Sent[c])
           /\ unsent[c] # <<>> => /\ Len(unsent[c]) > 0 /\ Done(c) + 1 \in DOMAIN Sent[c]
                                  /\ Head(unsent[c]) = Sent[c][Done(c) + 1] /\ Head(unsent[c]) \in Records
<1>1. unsent[c] \in Seq(Records) /\ Len(unsent[c]) <= Len(Sent[c])
      /\ \A i \in DOMAIN unsent[c] : unsent[c][i] = Sent[c][Done(c) + i]
  BY DEF OwnInv, Typed, Rest
<1>2. Len(unsent[c]) \in Nat /\ DOMAIN unsent[c] = 1 .. Len(unsent[c]) /\ Len(Sent[c]) \in Nat
      /\ DOMAIN Sent[c] = 1 .. Len(Sent[c])
  BY <1>1, LenProperties, Wires
<1>3. Done(c) \in Nat /\ Len(Sent[c]) = Done(c) + Len(unsent[c])
  BY <1>1, <1>2 DEF Done
<1>4. ASSUME unsent[c] # <<>>
      PROVE  /\ Len(unsent[c]) > 0 /\ Done(c) + 1 \in DOMAIN Sent[c]
             /\ Head(unsent[c]) = Sent[c][Done(c) + 1] /\ Head(unsent[c]) \in Records
  <2>1. Len(unsent[c]) > 0 /\ Head(unsent[c]) = unsent[c][1] /\ Head(unsent[c]) \in Records
    BY <1>1, <1>2, <1>4, HeadTailProperties, EmptySeq
  <2>2. 1 \in DOMAIN unsent[c] /\ Done(c) + 1 \in DOMAIN Sent[c]
    BY <1>2, <1>3, <2>1
  <2>3. QED
    BY <1>1, <2>1, <2>2
<1>5. QED
  BY <1>2, <1>3, <1>4

\* A connection writes a record, or part of one.
LEMMA WrittenOwn ==
    ASSUME OwnInv, NEW c \in Conns, NEW at \in Cells(c), NEW pc \in {"partial", "handing"}, NEW is,
           memory' = IF at \in DOMAIN memory THEN [memory EXCEPT ![at] = is] ELSE Append(memory, is),
           conn' = [conn EXCEPT ![c] = [pc |-> pc, at |-> at]],
           UNCHANGED <<setup, unsent, data, currentRPS, reader, copier, mwVars, taken>>,
           unsent[c] # <<>>,
           at \in DOMAIN memory \/ pc = "partial" => setup.kind = "tcp",
           IF pc = "partial" THEN is = Torn ELSE is = Head(unsent[c])
    PROVE  OwnInv'
<1>1. Typed /\ setup' = setup /\ unsent' = unsent /\ \A d \in Conns : ConnOK(d)
  BY DEF OwnInv
<1>2. is \in Records \cup {Torn} /\ at \in 1 .. Len(memory) + 1 /\ at \in Nat
  <2>1. conn[c].at \in 0 .. Len(memory) /\ Len(memory) \in Nat
    BY <1>1, LenProperties DEF ConnOK, Typed
  <2>2. QED
    BY <2>1, Due DEF Cells
<1>3. /\ memory' \in Seq(Records \cup {Torn}) /\ Len(memory') \in Nat /\ DOMAIN memory' = 1 .. Len(memory')
      /\ DOMAIN memory = 1 .. Len(memory) /\ Len(memory) \in Nat
      /\ Len(memory) <= Len(memory') /\ at <= Len(memory') /\ memory'[at] = is
      /\ \A k \in DOMAIN memory : k # at => memory'[k] = memory[k]
  <2> DEFINE S == Records \cup {Torn}
  <2>1. memory \in Seq(S) /\ is \in S
    BY <1>1, <1>2 DEF Typed
  <2> HIDE DEF S
  <2>2. /\ memory' \in Seq(S) /\ Len(memory') \in Nat /\ DOMAIN memory' = 1 .. Len(memory')
        /\ DOMAIN memory = 1 .. Len(memory) /\ Len(memory) \in Nat
        /\ Len(memory) <= Len(memory') /\ at <= Len(memory') /\ memory'[at] = is
        /\ \A k \in DOMAIN memory : k # at => memory'[k] = memory[k]
    BY <1>2, <2>1, Written
  <2>3. QED
    BY <2>2 DEF S
<1>4. conn'[c] = [pc |-> pc, at |-> at] /\ \A d \in Conns \ {c} : conn'[d] = conn[d]
  BY <1>1 DEF Typed
<1>5. \A d \in Conns \ {c} : conn[d].at # at
  <2>1. \A d \in Conns : conn[d].at \in 0 .. Len(memory)
    BY <1>1 DEF ConnOK
  <2>2. at = conn[c].at => at # 0
    BY <1>2
  <2>3. CASE at = conn[c].at
    BY <1>1, <2>2, <2>3 DEF ConnOK
  <2>4. CASE at = Len(memory) + 1
    BY <1>3, <2>1, <2>4
  <2>5. QED
    BY <2>3, <2>4 DEF Cells
<1>6. \A d \in Conns : Done(d)' = Done(d) /\ (Careful(d)' <=> Careful(d))
  BY <1>1 DEF Done, Careful
<1>7. \A d \in Conns : \A p, x : Fits(d, p, x)' <=> Fits(d, p, x)
  BY <1>6 DEF Fits
<1>8. Typed'
  <2>1. conn' \in [Conns -> [pc : {"reading", "partial", "handing", "gone"}, at : Nat]]
    BY <1>1, <1>2 DEF Typed
  <2>2. QED
    BY <1>1, <1>3, <2>1 DEF Typed, mwVars
<1>9. Direct' /\ Rest'
  BY <1>1, <1>6 DEF OwnInv, Direct, Rest, mwVars
<1>10. Row(Stages, AllDone)'
  <2>1. Stages' = Stages
    BY DEF Stages, InCopier, InPump, InReader, mwVars
  <2>2. AllDone' = AllDone
    BY <1>6 DEF AllDone
  <2>3. QED
    BY <2>1, <2>2 DEF OwnInv, Row, InRow, Within, Older
<1>11. \A line \in Lines' : LineOK(line)'
  <2>1. Lines' = Lines
    BY DEF Lines, InCopier, InPump, mwVars
  <2>2. QED
    BY <1>7, <2>1 DEF OwnInv, Contents, LineOK
<1>12. \A msg \in Slices' : SliceOK(msg)'
  <2>1. Slices' = Slices
    BY DEF Slices
  <2> SUFFICES ASSUME NEW msg \in Slices, NEW d \in Conns, NEW p \in DOMAIN Sent[d], msg.rec = Sent[d][p]
               PROVE  /\ msg.at \in DOMAIN memory' /\ Fits(d, p, memory'[msg.at])
                      /\ \A e \in Conns \ {d} : conn'[e].at # msg.at
    BY <1>7, <2>1 DEF SliceOK
  <2>2. /\ msg.at \in DOMAIN memory /\ Fits(d, p, memory[msg.at])
        /\ \A e \in Conns \ {d} : conn[e].at # msg.at
    BY DEF OwnInv, Contents, SliceOK
  <2>3. msg.at \in DOMAIN memory'
    BY <1>3, <2>2
  <2>4. CASE msg.at # at
    <3>1. memory'[msg.at] = memory[msg.at]
      BY <1>3, <2>2, <2>4
    <3>2. QED
      BY <1>4, <2>2, <2>3, <2>4, <3>1
  <2>5. CASE msg.at = at
    <3>1. at \in DOMAIN memory /\ setup.kind = "tcp"
      BY <2>2, <2>5
    <3>2. at = conn[c].at
      BY <1>3, <3>1 DEF Cells
    <3>3. d = c
      BY <2>2, <2>5, <3>2
    <3>4. p <= Done(c) /\ p \in 1 .. Len(Sent[c])
      BY <3>3, SliceDone, Due DEF OwnInv
    <3>5. Done(c) + 1 \in DOMAIN Sent[c] /\ Head(unsent[c]) = Sent[c][Done(c) + 1] /\ Done(c) \in Nat
          /\ DOMAIN Sent[c] = 1 .. Len(Sent[c]) /\ Len(Sent[c]) \in Nat
      BY Due
    <3>6. ~Careful(c)
      BY <3>1, <3>4, <3>5 DEF Careful
    <3>7. Fits(c, p, is)
      <4>1. is = Torn \/ is = Sent[c][Done(c) + 1]
        BY <3>5
      <4>2. p <= Done(c) + 1
        BY <3>4, <3>5
      <4>3. QED
        BY <3>5, <3>6, <4>1, <4>2 DEF Fits
    <3>8. QED
      BY <1>3, <1>4, <1>5, <2>3, <2>5, <3>3, <3>7
  <2>6. QED
    BY <2>4, <2>5
<1>13. ASSUME NEW d \in Conns PROVE ConnOK(d)'
  <2>1. CASE d = c
    <3>1. conn'[c].at = at /\ conn'[c].pc = pc
      BY <1>4
    <3>2. at \in 0 .. Len(memory') /\ at # 0
      BY <1>2, <1>3
    <3>3. \A e \in Conns \ {c} : conn'[e].at # at
      BY <1>4, <1>5
    <3>4. pc = "handing" => memory'[at] = Head(unsent[c])
      BY <1>3
    <3>5. QED
      BY <1>1, <2>1, <3>1, <3>2, <3>3, <3>4 DEF ConnOK
  <2>2. CASE d # c
    <3>1. conn'[d] = conn[d] /\ conn[d].at # at /\ ConnOK(d)
      BY <1>1, <1>4, <1>5, <2>2
    <3>2. conn[d].at \in 0 .. Len(memory')
      BY <1>3, <3>1 DEF ConnOK
    <3>3. conn[d].at # 0 => \A e \in Conns \ {d} : conn'[e].at # conn[d].at
      BY <1>4, <3>1 DEF ConnOK
    <3>4. conn[d].pc = "handing" => memory'[conn[d].at] = Head(unsent[d])
      <4>1. conn[d].pc = "handing" => conn[d].at \in DOMAIN memory
        BY <1>3, <3>1 DEF ConnOK
      <4>2. QED
        BY <1>3, <3>1, <4>1 DEF ConnOK
    <3>5. QED
      BY <1>1, <1>6, <3>1, <3>2, <3>3, <3>4 DEF ConnOK
  <2>3. QED
    BY <2>1, <2>2
<1>14. QED
  BY <1>8, <1>9, <1>10, <1>11, <1>12, <1>13 DEF OwnInv, Contents

\* Lines of a record are read, over an earlier one or not: that was handed over.
LEMMA BeginOwn == ASSUME OwnInv, NEW c \in Conns, Begin(c) PROVE OwnInv'
<1>1. PICK at \in Cells(c) :
         /\ memory' = IF at \in DOMAIN memory THEN [memory EXCEPT ![at] = Torn] ELSE Append(memory, Torn)
         /\ conn' = [conn EXCEPT ![c] = [pc |-> "partial", at |-> at]]
  BY DEF Begin
<1>2. /\ setup.kind = "tcp" /\ unsent[c] # <<>>
      /\ UNCHANGED <<setup, unsent, data, currentRPS, reader, copier, mwVars, taken>>
  BY DEF Begin, limitVars
<1>3. QED
  BY <1>1, <1>2, WrittenOwn

\* The rest of it is read.
LEMMA SeparatorOwn == ASSUME OwnInv, NEW c \in Conns, Separator(c) PROVE OwnInv'
<1>1. /\ conn[c].pc = "partial" /\ memory' = [memory EXCEPT ![conn[c].at] = Head(unsent[c])]
      /\ conn' = [conn EXCEPT ![c].pc = "handing"]
      /\ UNCHANGED <<setup, unsent, data, currentRPS, reader, copier, mwVars, taken>>
  BY DEF Separator, limitVars
<1>2. conn[c].at \in 1 .. Len(memory) /\ unsent[c] # <<>> /\ setup.kind = "tcp"
  BY <1>1 DEF OwnInv, ConnOK
<1>3. conn[c].at \in Cells(c) /\ conn[c].at \in DOMAIN memory
  BY <1>2, LenProperties DEF Cells, OwnInv, Typed
<1>4. conn' = [conn EXCEPT ![c] = [pc |-> "handing", at |-> conn[c].at]]
  <2>1. conn[c] \in [pc : {"reading", "partial", "handing", "gone"}, at : Nat]
    BY DEF OwnInv, Typed
  <2>2. [conn[c] EXCEPT !.pc = "handing"] = [pc |-> "handing", at |-> conn[c].at]
    BY <2>1
  <2>3. QED
    BY <1>1, <2>2
<1>5. memory' = IF conn[c].at \in DOMAIN memory THEN [memory EXCEPT ![conn[c].at] = Head(unsent[c])]
                ELSE Append(memory, Head(unsent[c]))
  BY <1>1, <1>3
<1>6. QED
  BY <1>1, <1>2, <1>3, <1>4, <1>5, WrittenOwn

\* A request is read.
LEMMA AnswerOwn == ASSUME OwnInv, NEW c \in Conns, Respond(c) PROVE OwnInv'
<1>1. /\ unsent[c] # <<>> /\ memory' = Append(memory, Head(unsent[c]))
      /\ conn' = [conn EXCEPT ![c] = [pc |-> "handing", at |-> Len(memory) + 1]]
      /\ UNCHANGED <<setup, unsent, data, currentRPS, reader, copier, mwVars, taken>>
  BY DEF Respond, limitVars
<1>2. Len(memory) + 1 \in Cells(c) /\ Len(memory) + 1 \notin DOMAIN memory
  BY LenProperties DEF Cells, OwnInv, Typed
<1>3. memory' = IF Len(memory) + 1 \in DOMAIN memory THEN [memory EXCEPT ![Len(memory) + 1] = Head(unsent[c])]
                ELSE Append(memory, Head(unsent[c]))
  BY <1>1, <1>2
<1>4. QED
  BY <1>1, <1>2, <1>3, WrittenOwn

\* A slice of the buffer is handed over; the next record may come over it.
LEMMA HandOwn == ASSUME OwnInv, NEW c \in Conns, Hand(c) PROVE OwnInv'
<1> DEFINE msg == [rec |-> Head(unsent[c]), at |-> conn[c].at]
<1>1. /\ conn[c].pc = "handing" /\ data' = Append(data, msg)
      /\ unsent' = [unsent EXCEPT ![c] = Tail(unsent[c])] /\ conn' = [conn EXCEPT ![c].pc = "reading"]
      /\ UNCHANGED <<setup, memory, limitVars, reader, copier, mwVars, taken>>
  BY DEF Hand
<1>2. Typed /\ \A d \in Conns : ConnOK(d)
  BY DEF OwnInv
<1>3. /\ unsent[c] # <<>> /\ conn[c].at # 0 /\ conn[c].at \in 0 .. Len(memory) /\ memory[conn[c].at] = Head(unsent[c])
      /\ \A d \in Conns \ {c} : conn[d].at # conn[c].at
  BY <1>1, <1>2 DEF ConnOK
<1>4. /\ Done(c) + 1 \in DOMAIN Sent[c] /\ Head(unsent[c]) = Sent[c][Done(c) + 1] /\ Head(unsent[c]) \in Records
      /\ Done(c) \in Nat /\ Len(unsent[c]) \in Nat /\ Len(unsent[c]) > 0 /\ Len(Sent[c]) = Done(c) + Len(unsent[c])
      /\ Len(Sent[c]) \in Nat
  BY <1>3, Due
<1>5. msg \in Msg /\ msg.rec = Sent[c][Done(c) + 1] /\ msg.at = conn[c].at
  BY <1>2, <1>4 DEF Msg, Typed
<1>6. /\ unsent'[c] = Tail(unsent[c]) /\ unsent'[c] \in Seq(Records) /\ Len(unsent'[c]) = Len(unsent[c]) - 1
      /\ DOMAIN unsent'[c] = 1 .. Len(unsent[c]) - 1
      /\ \A i \in DOMAIN unsent'[c] : unsent'[c][i] = unsent[c][i + 1]
      /\ \A d \in Conns \ {c} : unsent'[d] = unsent[d]
  <2>1. unsent \in [Conns -> Seq(Records)] /\ unsent[c] \in Seq(Records)
    BY <1>2 DEF Typed
  <2>2. unsent'[c] = Tail(unsent[c]) /\ \A d \in Conns \ {c} : unsent'[d] = unsent[d]
    BY <1>1, <2>1
  <2>3. /\ Tail(unsent[c]) \in Seq(Records) /\ Len(Tail(unsent[c])) = Len(unsent[c]) - 1
        /\ DOMAIN Tail(unsent[c]) = 1 .. Len(unsent[c]) - 1
        /\ \A i \in DOMAIN Tail(unsent[c]) : Tail(unsent[c])[i] = unsent[c][i + 1]
    BY <1>3, <2>1, HeadTailProperties, LenProperties
  <2>4. QED
    BY <2>2, <2>3
<1>7. Done(c)' = Done(c) + 1 /\ \A d \in Conns \ {c} : Done(d)' = Done(d)
  <2>1. Done(c) = Len(Sent[c]) - Len(unsent[c]) /\ Done(c)' = Len(Sent[c]) - Len(unsent'[c])
    BY DEF Done
  <2>2. \A d \in Conns \ {c} : Done(d)' = Done(d)
    BY <1>6 DEF Done
  <2>3. Len(unsent'[c]) = Len(unsent[c]) - 1
    BY <1>6
  <2>4. Done(c)' = Done(c) + 1
    <3> DEFINE a == Len(Sent[c])
               b == Len(unsent[c])
               b1 == Len(unsent'[c])
    <3>1. a \in Nat /\ b \in Nat /\ b1 = b - 1 /\ Done(c) = a - b /\ Done(c)' = a - b1
      BY <1>4, <2>1, <2>3
    <3> HIDE DEF a, b, b1
    <3>2. QED
      BY <3>1
  <2>5. QED
    BY <2>2, <2>4
<1>8. /\ conn'[c].at = conn[c].at /\ conn'[c].pc = "reading" /\ \A d \in Conns \ {c} : conn'[d] = conn[d]
      /\ conn' \in [Conns -> [pc : {"reading", "partial", "handing", "gone"}, at : Nat]]
  BY <1>1, <1>2 DEF Typed
<1>9. \A d \in Conns : Careful(d)' <=> Careful(d)
  BY <1>1 DEF Careful
<1>10. \A d \in Conns : \A p, x : Fits(d, p, x)' <=> Fits(d, p, x)
  BY <1>9 DEF Fits
<1> HIDE DEF msg
<1>11. Typed'
  <2>1. unsent' \in [Conns -> Seq(Records)] /\ data' \in Seq(Msg)
    BY <1>1, <1>2, <1>5, <1>6 DEF Typed
  <2>2. QED
    BY <1>1, <1>2, <1>8, <2>1 DEF Typed, limitVars, mwVars
<1>12. Direct'
  BY <1>1 DEF OwnInv, Direct, mwVars
<1>13. Rest'
  <2> SUFFICES ASSUME NEW d \in Conns
               PROVE  /\ Len(unsent'[d]) <= Len(Sent[d])
                      /\ \A i \in DOMAIN unsent'[d] : unsent'[d][i] = Sent[d][Done(d)' + i]
    BY DEF Rest
  <2>1. CASE d = c
    <3>1. Len(unsent'[c]) <= Len(Sent[c])
      BY <1>4, <1>6
    <3>2. ASSUME NEW i \in DOMAIN unsent'[c] PROVE unsent'[c][i] = Sent[c][Done(c)' + i]
      <4>1. i \in 1 .. Len(unsent[c]) - 1 /\ unsent'[c][i] = unsent[c][i + 1]
        BY <1>6
      <4>2. i + 1 \in DOMAIN unsent[c]
        BY <1>2, <1>4, <4>1, LenProperties DEF Typed
      <4>3. unsent[c][i + 1] = Sent[c][Done(c) + (i + 1)]
        BY <4>2 DEF OwnInv, Rest
      <4>4. Done(c) + (i + 1) = Done(c)' + i
        BY <1>4, <1>7, <4>1
      <4>5. QED
        BY <4>1, <4>3, <4>4
    <3>3. QED
      BY <2>1, <3>1, <3>2
  <2>2. CASE d # c
    BY <1>6, <1>7, <2>2 DEF OwnInv, Rest
  <2>3. QED
    BY <2>1, <2>2
<1>14. Row(Stages, AllDone)'
  <2>1. InCopier' = InCopier /\ InPump' = InPump /\ InReader' = InReader
    BY <1>1 DEF InCopier, InPump, InReader, mwVars
  <2>2. \A a \in 1 .. 8 : a # 8 => Stages'[a] = Stages[a]
    BY <1>1, <2>1, StagesAre, OneToEight DEF mwVars
  <2>3. Stages[8] \in Seq(Msg) /\ Stages'[8] = Append(Stages[8], msg)
    BY <1>1, <1>2, StagesTyped, StagesAre
  <2>4. AllDone' = [d \in Conns |-> Done(d)']
    BY DEF AllDone
  <2>5. \A d \in Conns : /\ AllDone[d] = Done(d) /\ AllDone'[d] = Done(d)' /\ Done(d) \in Int
                         /\ Sent[d] \in Seq(Records)
    BY <2>4, Due, Wires DEF AllDone
  <2>6. Grows(AllDone, AllDone')
    BY <1>4, <1>7, <2>5 DEF Grows
  <2>7. ASSUME NEW d \in Conns, NEW p \in DOMAIN Sent[d], msg.rec = Sent[d][p]
        PROVE  p > AllDone[d] /\ p <= AllDone'[d]
    <3>1. d = c /\ p = Done(c) + 1
      <4>1. Sent[d][p] = Sent[c][Done(c) + 1] /\ Done(c) + 1 \in DOMAIN Sent[c]
        BY <1>4, <1>5, <2>7
      <4>2. QED
        BY <4>1, Wires
    <3>2. QED
      BY <1>4, <1>7, <2>5, <3>1
  <2>8. Row(Stages, AllDone)
    BY DEF OwnInv
  <2>9. Row(Stages', AllDone')
    <3>1. Behind(msg, AllDone, AllDone')
      BY <2>7 DEF Behind
    <3>2. QED
      BY <2>2, <2>3, <2>6, <2>8, <3>1, AddInRow
  <2>10. QED
    BY <2>9 DEF Row, InRow, Within, Older
<1>15. \A line \in Lines' : LineOK(line)'
  <2>1. Lines' = Lines
    BY <1>1 DEF Lines, InCopier, InPump, mwVars
  <2>2. QED
    BY <1>10, <2>1 DEF OwnInv, Contents, LineOK
<1>16. \A m \in Slices' : SliceOK(m)'
  <2> SUFFICES ASSUME NEW m \in Slices', NEW d \in Conns, NEW p \in DOMAIN Sent[d], m.rec = Sent[d][p]
               PROVE  /\ m.at \in DOMAIN memory /\ Fits(d, p, memory[m.at])
                      /\ \A e \in Conns \ {d} : conn'[e].at # m.at
    BY <1>1, <1>10 DEF SliceOK
  <2>1. \A e \in Conns : conn'[e].at = conn[e].at
    BY <1>8
  <2>2. CASE m \in Slices
    BY <2>1, <2>2 DEF OwnInv, Contents, SliceOK
  <2>3. CASE m = msg
    <3>1. d = c /\ p = Done(c) + 1
      BY <1>4, <1>5, <2>3, Wires
    <3>2. m.at \in DOMAIN memory /\ memory[m.at] = Sent[c][p]
      BY <1>2, <1>3, <1>4, <1>5, <2>3, <3>1, LenProperties DEF Typed
    <3>3. Fits(c, p, memory[m.at])
      BY <1>4, <3>1, <3>2 DEF Fits
    <3>4. QED
      BY <1>3, <1>5, <2>1, <2>3, <3>1, <3>2, <3>3
  <2>4. ToSet(data') \subseteq ToSet(data) \cup {msg}
    BY <1>1, <1>2, Ends DEF Typed
  <2>5. QED
    BY <1>1, <2>2, <2>3, <2>4 DEF Slices
<1>17. ASSUME NEW d \in Conns PROVE ConnOK(d)'
  <2>1. ConnOK(d) /\ \A e \in Conns : conn'[e].at = conn[e].at
    BY <1>2, <1>8
  <2>2. CASE d = c
    <3>1. conn'[c].pc = "reading" /\ Done(c)' > 0
      BY <1>4, <1>7, <1>8
    <3>2. QED
      BY <1>1, <2>1, <2>2, <3>1 DEF ConnOK
  <2>3. CASE d # c
    <3>1. conn'[d] = conn[d] /\ unsent'[d] = unsent[d] /\ Done(d)' = Done(d)
      BY <1>6, <1>7, <1>8, <2>3
    <3>2. QED
      BY <1>1, <2>1, <3>1 DEF ConnOK
  <2>4. QED
    BY <2>2, <2>3
<1>18. QED
  BY <1>11, <1>12, <1>13, <1>14, <1>15, <1>16, <1>17 DEF OwnInv, Contents

\* A peer goes away.
LEMMA DisconnectsOwn == ASSUME OwnInv, NEW c \in Conns, Disconnects(c) PROVE OwnInv'
<1>1. /\ conn' = [conn EXCEPT ![c].pc = "gone"] /\ unsent' = [unsent EXCEPT ![c] = <<>>]
      /\ UNCHANGED <<setup, memory, data, limitVars, reader, copier, mwVars, taken>>
  BY DEF Disconnects
<1>2. Typed /\ \A d \in Conns : ConnOK(d)
  BY DEF OwnInv
<1>3. unsent'[c] = <<>> /\ (\A d \in Conns \ {c} : unsent'[d] = unsent[d]) /\ unsent' \in [Conns -> Seq(Records)]
  BY <1>1, <1>2 DEF Typed
<1>4. /\ conn'[c].at = conn[c].at /\ conn'[c].pc = "gone" /\ \A d \in Conns \ {c} : conn'[d] = conn[d]
      /\ conn' \in [Conns -> [pc : {"reading", "partial", "handing", "gone"}, at : Nat]]
  BY <1>1, <1>2 DEF Typed
<1>5. Done(c)' = Len(Sent[c]) /\ \A d \in Conns \ {c} : Done(d)' = Done(d)
  <2>1. Done(c)' = Len(Sent[c]) - Len(unsent'[c]) /\ \A d \in Conns \ {c} : Done(d)' = Done(d)
    BY <1>3 DEF Done
  <2>2. Len(unsent'[c]) = 0 /\ Len(Sent[c]) \in Nat
    BY <1>3, Due
  <2>3. Len(Sent[c]) - Len(unsent'[c]) = Len(Sent[c])
    BY <2>2
  <2>4. QED
    BY <2>1, <2>3
<1>6. \A d \in Conns : \A p, x : Fits(d, p, x)' <=> Fits(d, p, x)
  BY <1>1 DEF Fits, Careful
<1>7. Typed'
  BY <1>1, <1>2, <1>3, <1>4 DEF Typed, limitVars, mwVars
<1>8. Direct'
  BY <1>1 DEF OwnInv, Direct, mwVars
<1>9. Rest'
  <2> SUFFICES ASSUME NEW d \in Conns
               PROVE  /\ Len(unsent'[d]) <= Len(Sent[d])
                      /\ \A i \in DOMAIN unsent'[d] : unsent'[d][i] = Sent[d][Done(d)' + i]
    BY DEF Rest
  <2>1. CASE d = c
    <3>1. DOMAIN unsent'[c] = {} /\ Len(unsent'[c]) = 0
      BY <1>3
    <3>2. QED
      BY <2>1, <3>1, Due
  <2>2. CASE d # c
    BY <1>3, <1>5, <2>2 DEF OwnInv, Rest
  <2>3. QED
    BY <2>1, <2>2
<1>10. Row(Stages, AllDone)'
  <2>1. Stages' = Stages
    BY <1>1 DEF Stages, InCopier, InPump, InReader, mwVars
  <2>2. AllDone' = [d \in Conns |-> Done(d)']
    BY DEF AllDone
  <2>3. \A d \in Conns : AllDone[d] = Done(d) /\ AllDone'[d] = Done(d)' /\ Done(d) \in Int
    BY <2>2, Due DEF AllDone
  <2>4. \A d \in Conns : AllDone[d] \in Int /\ AllDone'[d] \in Int /\ AllDone[d] <= AllDone'[d]
    <3>1. Len(Sent[c]) \in Int /\ Done(c) <= Len(Sent[c])
      BY Due
    <3>2. QED
      BY <1>5, <2>3, <3>1
  <2>5. InRow(Stages) /\ Within(Stages, AllDone)
    BY DEF OwnInv, Row
  <2>6. Within(Stages, AllDone')
    <3> SUFFICES ASSUME NEW a \in 1 .. 8, NEW i \in DOMAIN Stages[a], NEW d \in Conns, NEW p \in DOMAIN Sent[d],
                        Stages[a][i].rec = Sent[d][p]
                 PROVE  p <= AllDone'[d]
      BY DEF Within
    <3>1. p <= AllDone[d] /\ p \in Int
      BY <2>5, Wires DEF Within
    <3>2. QED
      BY <2>4, <3>1
  <2>7. QED
    BY <2>1, <2>5, <2>6 DEF Row, InRow, Within, Older
<1>11. \A line \in Lines' : LineOK(line)'
  <2>1. Lines' = Lines
    BY <1>1 DEF Lines, InCopier, InPump, mwVars
  <2>2. QED
    BY <1>6, <2>1 DEF OwnInv, Contents, LineOK
<1>12. \A msg \in Slices' : SliceOK(msg)'
  <2>1. Slices' = Slices /\ memory' = memory /\ \A e \in Conns : conn'[e].at = conn[e].at
    BY <1>1, <1>4 DEF Slices
  <2>2. QED
    BY <1>6, <2>1 DEF OwnInv, Contents, SliceOK
<1>13. ASSUME NEW d \in Conns PROVE ConnOK(d)'
  <2>1. ConnOK(d) /\ \A e \in Conns : conn'[e].at = conn[e].at
    BY <1>2, <1>4
  <2>2. CASE d = c
    BY <1>1, <1>4, <2>1, <2>2 DEF ConnOK
  <2>3. CASE d # c
    <3>1. conn'[d] = conn[d] /\ unsent'[d] = unsent[d] /\ Done(d)' = Done(d)
      BY <1>3, <1>4, <1>5, <2>3
    <3>2. QED
      BY <1>1, <2>1, <3>1 DEF ConnOK
  <2>4. QED
    BY <2>2, <2>3
<1>14. QED
  BY <1>7, <1>8, <1>9, <1>10, <1>11, <1>12, <1>13 DEF OwnInv, Contents

\* At first nothing is on its way.
LEMMA InitOwn == IngestInit => OwnInv
<1> SUFFICES ASSUME IngestInit PROVE OwnInv
  OBVIOUS
<1>1. /\ setup \in Setup /\ data = <<>> /\ memory = <<>> /\ taken = <<>> /\ stdin = <<>> /\ stdout = <<>>
      /\ mwData = <<>> /\ currentRPS = 0 /\ reader = [pc |-> "read"]
      /\ conn = [c \in Conns |-> [pc |-> "reading", at |-> 0]]
      /\ unsent = [c \in Conns |-> IF c \in setup.conns THEN Sent[c] ELSE <<>>]
      /\ copier.pc \in {"none", "read"} /\ copier = [pc |-> copier.pc]
      /\ pump.pc \in {"line", "returned"} /\ pump = [pc |-> pump.pc]
      /\ ~setup.middleware => copier.pc = "none" /\ pump.pc = "returned" /\ command # "running"
  BY IngestAssumption DEF IngestInit
<1>2. \A c \in Conns : unsent[c] \in Seq(Records) /\ (unsent[c] = Sent[c] \/ unsent[c] = <<>>)
  BY <1>1, Wires
<1>3. Typed
  <2>1. unsent \in [Conns -> Seq(Records)]
    BY <1>1, <1>2
  <2>2. reader \in ReaderTypes /\ copier \in CopierTypes /\ pump \in PumpTypes
    BY <1>1 DEF ReaderTypes, CopierTypes, PumpTypes
  <2>3. conn \in [Conns -> [pc : {"reading", "partial", "handing", "gone"}, at : Nat]]
    BY <1>1
  <2>4. <<>> \in Seq(Line) /\ <<>> \in Seq(Line \cup Spoilt) /\ <<>> \in Seq(Msg)
        /\ <<>> \in Seq(Records \cup {Torn})
    OBVIOUS
  <2>5. QED
    BY <1>1, <2>1, <2>2, <2>3, <2>4 DEF Typed
<1>4. Direct
  BY <1>1 DEF Direct
<1>5. Rest
  <2> SUFFICES ASSUME NEW c \in Conns
               PROVE  /\ Len(unsent[c]) <= Len(Sent[c])
                      /\ \A i \in DOMAIN unsent[c] : unsent[c][i] = Sent[c][Done(c) + i]
    BY DEF Rest
  <2>1. Len(Sent[c]) \in Nat /\ DOMAIN Sent[c] = 1 .. Len(Sent[c])
    BY Wires
  <2>2. CASE unsent[c] = Sent[c]
    <3>1. Done(c) = 0
      BY <2>1, <2>2 DEF Done
    <3>2. \A i \in 1 .. Len(Sent[c]) : Sent[c][i] = Sent[c][0 + i]
      BY <2>1
    <3>3. QED
      BY <2>1, <2>2, <3>1, <3>2
  <2>3. CASE unsent[c] = <<>>
    <3>1. DOMAIN unsent[c] = {} /\ Len(unsent[c]) = 0
      BY <2>3
    <3>2. QED
      BY <2>1, <3>1
  <2>4. QED
    BY <1>2, <2>2, <2>3
<1>6. Row(Stages, AllDone)
  <2>1. InCopier = <<>> /\ InPump = <<>> /\ InReader = <<>>
    BY <1>1, Holds DEF InCopier, InPump
  <2>2. \A a \in 1 .. 8 : Stages[a] = <<>>
    BY <1>1, <2>1, StagesAre, OneToEight
  <2>3. DOMAIN <<>> = {}
    OBVIOUS
  <2>4. QED
    BY <2>2, <2>3 DEF Row, InRow, Within
<1>7. Contents
  <2>1. Lines = {} /\ Slices = {}
    BY <1>1, One DEF Lines, Slices, WithMsg, InCopier, InPump
  <2>2. QED
    BY <2>1 DEF Contents
<1>8. ASSUME NEW c \in Conns PROVE ConnOK(c)
  <2>1. conn[c].at = 0 /\ conn[c].pc = "reading" /\ Len(memory) = 0
    BY <1>1
  <2>2. QED
    BY <2>1 DEF ConnOK
<1>9. QED
  BY <1>3, <1>4, <1>5, <1>6, <1>7, <1>8 DEF OwnInv

\* Every step keeps it all.
LEMMA NextOwn == OwnInv /\ [IngestNext]_ingestVars => OwnInv'
<1> SUFFICES ASSUME OwnInv, [IngestNext]_ingestVars PROVE OwnInv'
  OBVIOUS
<1>1. ASSUME NEW c \in Conns, Begin(c) \/ Separator(c) \/ Respond(c) \/ Hand(c) \/ Disconnects(c)
      PROVE  OwnInv'
  BY <1>1, BeginOwn, SeparatorOwn, AnswerOwn, HandOwn, DisconnectsOwn
<1>2. CASE Reads
  BY <1>2, ReadMessageOwn, ReadStoppedOwn, ReadCompareOwn, ReadCountOwn, WriteBackOwn, WriteOutputOwn,
     WriteStdinOwn DEF Reads
<1>3. CASE CommandRuns \/ CommandQuits \/ Pumps
  BY <1>3, CommandRunsOwn, CommandQuitsOwn, PumpLineOwn, PumpSendOwn, PumpEndsOwn DEF Pumps
<1>4. CASE Copies
  BY <1>4, CopyReadsOwn, CopierOwn, CopyOutputOwn DEF Copies
<1>5. CASE Second \/ WaiterChecks \/ WaiterCloses \/ CloseInput \/ Closes
  BY <1>5, SecondOwn, ClosesOwn
<1>6. CASE UNCHANGED ingestVars
  BY <1>6, StutterOwn
<1>7. QED
  BY <1>1, <1>2, <1>3, <1>4, <1>5, <1>6 DEF IngestNext

\* Whatever is sent over however many connections, through whatever buffers: the
\* outputs get the records of one connection in its order, and for each of them
\* that record, a later one of the same connection, or pieces; never another's.
THEOREM ConnectionsApart == IngestSpec => []OwnConnection
<1>1. IngestInit => OwnInv
  BY InitOwn
<1>2. OwnInv /\ [IngestNext]_ingestVars => OwnInv'
  BY NextOwn
<1>3. OwnInv => OwnConnection
  BY OwnFollows
<1>4. QED
  BY <1>1, <1>2, <1>3, PTL DEF IngestSpec
=============================================================================
