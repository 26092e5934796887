---------------------------- MODULE EmitterProofs ----------------------------
(***************************************************************************)
(* Theorems about TCPOutput and about Emitter, which is built on it.       *)
(*                                                                         *)
(* In a TCP output a message is in one place, whatever breaks when, and    *)
(* with Sticky it stays with the worker of its bucket: Separate, Bucketed. *)
(*                                                                         *)
(* With the copiers for its callers the TCP output is handed every message *)
(* once, so that what holds of the output alone holds of the two together: *)
(* EmitterInv.                                                             *)
(*                                                                         *)
(* Every payload is, at any time, with the first outputs and not with the  *)
(* rest, and all but the last one read are with all or with none: StepInv. *)
(*                                                                         *)
(* A rejected request is in its copier's cache until its response is read: *)
(* CacheInv.                                                               *)
(***************************************************************************)
EXTENDS Emitter, TLAPS, SequenceTheorems

-----------------------------------------------------------------------------
(* Sequences as sets *)

LEMMA ToSetAppend ==
    ASSUME NEW S, NEW s \in Seq(S), NEW e \in S
    PROVE  /\ Append(s, e) \in Seq(S) /\ ToSet(Append(s, e)) = ToSet(s) \cup {e}
           /\ IsInjective(s) /\ e \notin ToSet(s) => IsInjective(Append(s, e))
<1> DEFINE t == Append(s, e)
<1>1. /\ t \in Seq(S) /\ Len(s) \in Nat /\ DOMAIN s = 1 .. Len(s) /\ DOMAIN t = 1 .. Len(s) + 1
      /\ t[Len(s) + 1] = e /\ \A i \in 1 .. Len(s) : t[i] = s[i]
  OBVIOUS
<1>2. \A i \in DOMAIN t : i \in DOMAIN s \/ i = Len(s) + 1
  BY <1>1
<1> HIDE DEF t
<1>3. ToSet(t) = ToSet(s) \cup {e}
  BY <1>1, <1>2 DEF ToSet
<1>4. ASSUME IsInjective(s), e \notin ToSet(s) PROVE IsInjective(t)
  BY <1>1, <1>2, <1>4 DEF ToSet, IsInjective
<1>5. QED
  BY <1>1, <1>3, <1>4 DEF t

LEMMA ToSetTail ==
    ASSUME NEW S, NEW s \in Seq(S), s # <<>>
    PROVE  /\ Head(s) \in S /\ Tail(s) \in Seq(S) /\ ToSet(s) = ToSet(Tail(s)) \cup {Head(s)}
           /\ IsInjective(s) => IsInjective(Tail(s)) /\ Head(s) \notin ToSet(Tail(s))
<1> DEFINE t == Tail(s)
<1>1. /\ t \in Seq(S) /\ Len(s) \in Nat /\ Len(s) > 0 /\ DOMAIN s = 1 .. Len(s)
      /\ Len(t) = Len(s) - 1 /\ DOMAIN t = 1 .. Len(s) - 1
      /\ Head(s) = s[1] /\ Head(s) \in S /\ \A i \in 1 .. Len(s) - 1 : t[i] = s[i + 1]
  BY HeadTailProperties, EmptySeq, LenProperties
<1>2. \A i \in DOMAIN s : i = 1 \/ i - 1 \in DOMAIN t
  BY <1>1
<1>3. \A i \in DOMAIN t : i + 1 \in DOMAIN s /\ t[i] = s[i + 1]
  BY <1>1
<1>4. 1 \in DOMAIN s
  BY <1>1
<1> HIDE DEF t
<1>5. ToSet(s) = ToSet(t) \cup {Head(s)}
  <2>1. ASSUME NEW i \in DOMAIN s PROVE s[i] \in ToSet(t) \cup {Head(s)}
    <3>1. CASE i = 1
      BY <1>1, <3>1
    <3>2. CASE i # 1
      <4>1. i - 1 \in DOMAIN t /\ t[i - 1] = s[i]
        BY <1>1, <1>2, <3>2
      <4>2. QED
        BY <4>1 DEF ToSet
    <3>3. QED
      BY <3>1, <3>2
  <2>2. ToSet(t) \subseteq ToSet(s)
    BY <1>3 DEF ToSet
  <2>3. Head(s) \in ToSet(s)
    BY <1>1, <1>4 DEF ToSet
  <2>4. QED
    BY <2>1, <2>2, <2>3 DEF ToSet
<1>6. ASSUME IsInjective(s) PROVE IsInjective(t) /\ Head(s) \notin ToSet(t)
  <2>1. ASSUME NEW i \in DOMAIN t, NEW j \in DOMAIN t, t[i] = t[j] PROVE i = j
    <3>1. i + 1 = j + 1
      BY <1>3, <1>6, <2>1 DEF IsInjective
    <3>2. QED
      BY <1>1, <3>1
  <2>2. ASSUME NEW i \in DOMAIN t PROVE t[i] # Head(s)
    <3>1. i + 1 # 1
      BY <1>1
    <3>2. QED
      BY <1>1, <1>3, <1>4, <1>6, <3>1 DEF IsInjective
  <2>3. QED
    BY <2>1, <2>2 DEF IsInjective, ToSet
<1>7. QED
  BY <1>1, <1>5, <1>6 DEF t

LEMMA InjectiveConcat ==
    ASSUME NEW S, NEW s \in Seq(S), NEW t \in Seq(S),
           IsInjective(s), IsInjective(t), ToSet(s) \cap ToSet(t) = {}
    PROVE  IsInjective(s \o t) /\ ToSet(s \o t) = ToSet(s) \cup ToSet(t)
<1> DEFINE u == s \o t
<1>1. /\ Len(s) \in Nat /\ Len(t) \in Nat /\ DOMAIN s = 1 .. Len(s) /\ DOMAIN t = 1 .. Len(t)
      /\ DOMAIN u = 1 .. Len(s) + Len(t)
      /\ \A i \in DOMAIN u : u[i] = IF i <= Len(s) THEN s[i] ELSE t[i - Len(s)]
  BY ConcatProperties, LenProperties
<1>2. \A i \in DOMAIN u : \/ i \in DOMAIN s /\ u[i] = s[i]
                          \/ i - Len(s) \in DOMAIN t /\ u[i] = t[i - Len(s)]
  BY <1>1
<1>3. (\A i \in DOMAIN s : i \in DOMAIN u /\ u[i] = s[i])
      /\ \A i \in DOMAIN t : i + Len(s) \in DOMAIN u /\ u[i + Len(s)] = t[i]
  BY <1>1
<1> HIDE DEF u
<1>4. ToSet(u) = ToSet(s) \cup ToSet(t)
  BY <1>2, <1>3 DEF ToSet
<1>5. ASSUME NEW i \in DOMAIN u, NEW j \in DOMAIN u, u[i] = u[j] PROVE i = j
  <2>1. CASE i \in DOMAIN s /\ u[i] = s[i] /\ j \in DOMAIN s /\ u[j] = s[j]
    BY <1>5, <2>1 DEF IsInjective
  <2>2. CASE i - Len(s) \in DOMAIN t /\ u[i] = t[i - Len(s)] /\ j - Len(s) \in DOMAIN t /\ u[j] = t[j - Len(s)]
    <3>1. i - Len(s) = j - Len(s)
      BY <1>5, <2>2 DEF IsInjective
    <3>2. QED
      BY <1>1, <3>1
  <2>3. CASE i \in DOMAIN s /\ u[i] = s[i] /\ j - Len(s) \in DOMAIN t /\ u[j] = t[j - Len(s)]
    BY <1>5, <2>3 DEF ToSet
  <2>4. CASE j \in DOMAIN s /\ u[j] = s[j] /\ i - Len(s) \in DOMAIN t /\ u[i] = t[i - Len(s)]
    BY <1>5, <2>4 DEF ToSet
  <2>5. QED
    BY <1>2, <2>1, <2>2, <2>3, <2>4
<1>6. QED
  BY <1>4, <1>5 DEF u, IsInjective

-----------------------------------------------------------------------------
(* The invariant *)

\* What has gone through a buffer or is in it.
Had(i) == Inside(i) \cup ToSet(written[i])

\* The places of one buffer have nothing in common ...
Apart(i) ==
    /\ IsInjective(buf[i]) /\ IsInjective(written[i])
    /\ ToSet(buf[i]) \cap ToSet(written[i]) = {}
    /\ (ToSet(buf[i]) \cup ToSet(written[i])) \cap (Held(i) \cup returning[i]) = {}
    /\ Held(i) \cap returning[i] = {}

\* ... nor have two buffers, nor the messages that callers have still to put in.
Separate ==
    /\ \A i \in Indices : Apart(i)
    /\ \A i, j \in Indices : i # j => Had(i) \cap Had(j) = {}
    /\ \A c \in Callers : calling[c] # Nothing =>
          /\ \A i \in Indices : calling[c].msg \notin Had(i)
          /\ \A d \in Callers \ {c} : calling[d] # Nothing => calling[d].msg # calling[c].msg

\* Messages are, or are to be put, where the hash of their id says.
Bucketed ==
    Sticky => /\ \A i \in Indices : \A msg \in Had(i) : Bucket[msg] = i
              /\ \A c \in Callers : calling[c] # Nothing => Bucket[calling[c].msg] = calling[c].index

\* A message the plugin has been offered went through a buffer, or is in a call.
OfferedIs ==
    /\ \A i \in Indices : Had(i) \subseteq Offered
    /\ \A c \in Callers : calling[c] # Nothing => calling[c].msg \in Offered
    /\ \A msg \in Offered : \/ \E i \in Indices : msg \in Had(i)
                            \/ \E c \in Callers : calling[c] # Nothing /\ calling[c].msg = msg

LEMMA OfferedOnce == OfferedIs /\ OfferedIs'
<1>1. InCall \subseteq Offered /\ \A i \in Indices : Had(i) \subseteq Offered
  BY DEF Offered, Had
<1>2. \A c \in Callers : calling[c] # Nothing => calling[c].msg \in InCall
  BY DEF InCall
<1>3. \A msg \in InCall : \E c \in Callers : calling[c] # Nothing /\ calling[c].msg = msg
  BY DEF InCall
<1>4. \A msg \in Offered : msg \in InCall \/ \E i \in Indices : msg \in Had(i)
  BY DEF Offered, Had
<1>5. OfferedIs
  BY <1>1, <1>2, <1>3, <1>4 DEF OfferedIs
<1>6. QED
  BY <1>5, PTL

LEMMA IndexInBounds == ASSUME TCPTypeOK, NEW msg \in Msgs PROVE BufferIndex(msg) \subseteq Indices
<1>1. workerIndex \in Nat /\ Workers \in Nat \ {0} /\ Bucket[msg] \in Indices
  BY TCPAssumption DEF TCPTypeOK, Indices
<1>2. (workerIndex + 1) % Workers \in 0 .. Workers - 1
  BY <1>1
<1>3. QED
  BY <1>1, <1>2, TCPAssumption DEF BufferIndex, Indices

\* What a step of the worker of one buffer leaves alone.
Elsewhere(i) ==
    /\ UNCHANGED <<workerIndex, calling, close, up>>
    /\ \A j \in Indices \ {i} : /\ buf'[j] = buf[j] /\ worker'[j] = worker[j]
                                /\ returning'[j] = returning[j] /\ written'[j] = written[j]

\* A step that moves a message between the places of one buffer.
LEMMA Moves ==
    ASSUME TCPTypeOK, NEW i \in Indices, Elsewhere(i), Had(i)' = Had(i)
    PROVE  /\ Separate /\ Apart(i)' => Separate'
           /\ Bucketed => Bucketed'
<1>1. \A j \in Indices : Had(j)' = Had(j)
  BY DEF Elsewhere, Had, Inside, Held
<1>2. \A j \in Indices \ {i} : Apart(j) => Apart(j)'
  BY DEF Elsewhere, Apart, Held
<1>3. calling' = calling
  BY DEF Elsewhere
<1>4. ASSUME Separate, Apart(i)' PROVE Separate'
  <2>1. \A j \in Indices : Apart(j)'
    BY <1>2, <1>4 DEF Separate
  <2>2. \A j, k \in Indices : j # k => Had(j)' \cap Had(k)' = {}
    BY <1>1, <1>4 DEF Separate
  <2>3. QED
    BY <1>1, <1>3, <1>4, <2>1, <2>2 DEF Separate
<1>5. ASSUME Bucketed PROVE Bucketed'
  BY <1>1, <1>3, <1>5 DEF Bucketed
<1>6. QED
  BY <1>4, <1>5

-----------------------------------------------------------------------------
(* The workers *)

\* Every step of a worker keeps the types, and what has gone through its buffer; and
\* if the places were apart they are.
Kept(i) == TCPTypeOK' /\ Elsewhere(i) /\ Had(i)' = Had(i) /\ (Separate => Apart(i)')

LEMMA ConnectKeeps == ASSUME TCPTypeOK, NEW i \in Indices, Connect(i) \/ GiveUp(i) PROVE Kept(i)
<1>1. /\ UNCHANGED <<buf, workerIndex, calling, returning, written, up, breaks, close>>
      /\ worker[i].pc = "connecting" /\ worker'[i].pc \in {"waiting", "returned"}
      /\ \A j \in Indices \ {i} : worker'[j] = worker[j]
      /\ worker' \in [Indices -> [pc : {"connecting", "waiting", "returned"}] \cup [pc : {"writing"}, msg : Msgs]]
  <2>1. PICK new \in {[pc |-> "waiting"], [pc |-> "returned"]} : worker' = [worker EXCEPT ![i] = new]
    BY DEF Connect, GiveUp
  <2>2. new.pc \in {"waiting", "returned"} /\ new \in [pc : {"connecting", "waiting", "returned"}]
    OBVIOUS
  <2>3. worker[i].pc = "connecting" /\ UNCHANGED <<buf, workerIndex, calling, returning, written, up, breaks, close>>
    BY DEF Connect, GiveUp
  <2>4. QED
    BY <2>1, <2>2, <2>3 DEF TCPTypeOK
<1>2. Held(i) = {} /\ Held(i)' = {}
  BY <1>1 DEF Held
<1>3. TCPTypeOK' /\ Elsewhere(i)
  BY <1>1 DEF TCPTypeOK, Elsewhere
<1>4. Had(i)' = Had(i) /\ (Apart(i) => Apart(i)')
  BY <1>1, <1>2 DEF Had, Inside, Apart
<1>5. QED
  BY <1>3, <1>4 DEF Kept, Separate

LEMMA ReceiveKeeps == ASSUME TCPTypeOK, NEW i \in Indices, Receive(i) PROVE Kept(i)
<1> DEFINE msg == Head(buf[i])
<1>1. /\ buf[i] \in Seq(Msgs) /\ buf[i] # <<>> /\ Len(buf[i]) <= BufLen
      /\ UNCHANGED <<workerIndex, calling, returning, written, up, breaks, close>>
      /\ buf' = [buf EXCEPT ![i] = Tail(buf[i])]
      /\ worker' = [worker EXCEPT ![i] = [pc |-> "writing", msg |-> msg]]
      /\ worker[i].pc = "waiting"
  BY DEF Receive, TCPTypeOK
<1>2. /\ msg \in Msgs /\ Tail(buf[i]) \in Seq(Msgs) /\ ToSet(buf[i]) = ToSet(Tail(buf[i])) \cup {msg}
      /\ IsInjective(buf[i]) => IsInjective(Tail(buf[i])) /\ msg \notin ToSet(Tail(buf[i]))
      /\ Len(Tail(buf[i])) <= BufLen
  BY <1>1, ToSetTail, HeadTailProperties, LenProperties, TCPAssumption
<1> HIDE DEF msg
<1>3. /\ buf'[i] = Tail(buf[i]) /\ \A j \in Indices \ {i} : buf'[j] = buf[j]
      /\ worker'[i] = [pc |-> "writing", msg |-> msg] /\ \A j \in Indices \ {i} : worker'[j] = worker[j]
      /\ buf' \in [Indices -> Seq(Msgs)]
      /\ worker' \in [Indices -> [pc : {"connecting", "waiting", "returned"}] \cup [pc : {"writing"}, msg : Msgs]]
  BY <1>1, <1>2 DEF TCPTypeOK
<1>4. Held(i) = {} /\ Held(i)' = {msg}
  BY <1>1, <1>3 DEF Held
<1>5. TCPTypeOK'
  <2>1. \A j \in Indices : Len(buf'[j]) <= BufLen
    BY <1>2, <1>3 DEF TCPTypeOK
  <2>2. QED
    BY <1>1, <1>3, <2>1 DEF TCPTypeOK
<1>6. Elsewhere(i)
  BY <1>1, <1>3 DEF Elsewhere
<1>7. Had(i)' = Had(i) /\ (Apart(i) => Apart(i)')
  BY <1>1, <1>2, <1>3, <1>4 DEF Had, Inside, Apart
<1>8. QED
  BY <1>5, <1>6, <1>7 DEF Kept, Separate

LEMMA WriteWholeKeeps == ASSUME TCPTypeOK, NEW i \in Indices, WriteWhole(i) PROVE Kept(i)
<1> DEFINE msg == worker[i].msg
<1>1. /\ UNCHANGED <<buf, workerIndex, calling, returning, up, breaks, close>>
      /\ worker[i].pc = "writing" /\ msg \in Msgs /\ written[i] \in Seq(Msgs)
      /\ written' = [written EXCEPT ![i] = Append(written[i], msg)]
      /\ worker' = [worker EXCEPT ![i] = [pc |-> "waiting"]]
  BY DEF WriteWhole, TCPTypeOK
<1>2. /\ Append(written[i], msg) \in Seq(Msgs)
      /\ ToSet(Append(written[i], msg)) = ToSet(written[i]) \cup {msg}
      /\ IsInjective(written[i]) /\ msg \notin ToSet(written[i]) => IsInjective(Append(written[i], msg))
  BY <1>1, ToSetAppend
<1>3. Held(i) = {msg}
  BY <1>1 DEF Held
<1> HIDE DEF msg
<1>4. /\ written'[i] = Append(written[i], msg) /\ \A j \in Indices \ {i} : written'[j] = written[j]
      /\ worker'[i].pc = "waiting" /\ \A j \in Indices \ {i} : worker'[j] = worker[j]
      /\ written' \in [Indices -> Seq(Msgs)]
      /\ worker' \in [Indices -> [pc : {"connecting", "waiting", "returned"}] \cup [pc : {"writing"}, msg : Msgs]]
  BY <1>1, <1>2 DEF TCPTypeOK
<1>5. Held(i)' = {}
  BY <1>4 DEF Held
<1>6. TCPTypeOK' /\ Elsewhere(i)
  BY <1>1, <1>4 DEF TCPTypeOK, Elsewhere
<1>7. Had(i)' = Had(i) /\ (Apart(i) => Apart(i)')
  BY <1>1, <1>2, <1>3, <1>4, <1>5 DEF Had, Inside, Apart
<1>8. QED
  BY <1>6, <1>7 DEF Kept, Separate

LEMMA WriteFailsKeeps == ASSUME TCPTypeOK, NEW i \in Indices, WriteFails(i) PROVE Kept(i)
<1> DEFINE msg == worker[i].msg
<1>1. /\ UNCHANGED <<buf, workerIndex, calling, written, up, close>>
      /\ worker[i].pc = "writing" /\ msg \in Msgs
      /\ returning' = [returning EXCEPT ![i] = returning[i] \cup {msg}]
      /\ worker' = [worker EXCEPT ![i] = [pc |-> "connecting"]]
  BY DEF WriteFails, TCPTypeOK
<1>2. Held(i) = {msg}
  BY <1>1 DEF Held
<1>3. breaks' \in 0 .. MaxBreaks
  BY TCPAssumption DEF WriteFails, TCPTypeOK
<1> HIDE DEF msg
<1>4. /\ returning'[i] = returning[i] \cup {msg} /\ \A j \in Indices \ {i} : returning'[j] = returning[j]
      /\ worker'[i].pc = "connecting" /\ \A j \in Indices \ {i} : worker'[j] = worker[j]
      /\ returning' \in [Indices -> SUBSET Msgs]
      /\ worker' \in [Indices -> [pc : {"connecting", "waiting", "returned"}] \cup [pc : {"writing"}, msg : Msgs]]
  BY <1>1 DEF TCPTypeOK
<1>5. Held(i)' = {}
  BY <1>4 DEF Held
<1>6. TCPTypeOK' /\ Elsewhere(i)
  BY <1>1, <1>3, <1>4 DEF TCPTypeOK, Elsewhere
<1>7. Had(i)' = Had(i) /\ (Apart(i) => Apart(i)')
  BY <1>1, <1>2, <1>4, <1>5 DEF Had, Inside, Apart
<1>8. QED
  BY <1>6, <1>7 DEF Kept, Separate

LEMMA PutBackKeeps ==
    ASSUME TCPTypeOK, NEW i \in Indices, NEW msg \in Msgs, PutBack(i, msg)
    PROVE  Kept(i)
<1>1. /\ UNCHANGED <<workerIndex, calling, worker, written, up, breaks, close>>
      /\ msg \in returning[i] /\ buf[i] \in Seq(Msgs) /\ Len(buf[i]) < BufLen
      /\ buf' = [buf EXCEPT ![i] = Append(buf[i], msg)]
      /\ returning' = [returning EXCEPT ![i] = returning[i] \ {msg}]
  BY DEF PutBack, TCPTypeOK
<1>2. /\ Append(buf[i], msg) \in Seq(Msgs) /\ ToSet(Append(buf[i], msg)) = ToSet(buf[i]) \cup {msg}
      /\ IsInjective(buf[i]) /\ msg \notin ToSet(buf[i]) => IsInjective(Append(buf[i], msg))
      /\ Len(Append(buf[i], msg)) <= BufLen
  BY <1>1, ToSetAppend, TCPAssumption
<1>3. /\ buf'[i] = Append(buf[i], msg) /\ \A j \in Indices \ {i} : buf'[j] = buf[j]
      /\ returning'[i] = returning[i] \ {msg} /\ \A j \in Indices \ {i} : returning'[j] = returning[j]
      /\ buf' \in [Indices -> Seq(Msgs)] /\ returning' \in [Indices -> SUBSET Msgs]
  BY <1>1, <1>2 DEF TCPTypeOK
<1>4. Held(i)' = Held(i)
  BY <1>1 DEF Held
<1>5. TCPTypeOK'
  <2>1. \A j \in Indices : Len(buf'[j]) <= BufLen
    BY <1>2, <1>3 DEF TCPTypeOK
  <2>2. QED
    BY <1>1, <1>3, <2>1 DEF TCPTypeOK
<1>6. Elsewhere(i)
  BY <1>1, <1>3 DEF Elsewhere
<1>7. Had(i)' = Had(i) /\ (Apart(i) => Apart(i)')
  BY <1>1, <1>2, <1>3, <1>4 DEF Had, Inside, Apart
<1>8. QED
  BY <1>5, <1>6, <1>7 DEF Kept, Separate

-----------------------------------------------------------------------------
(* PluginWrite, and what is around *)

\* A call takes a message nobody has, or in StickyTogether any.
LEMMA ChooseInv ==
    ASSUME TCPTypeOK, NEW c \in Callers, NEW msg \in Msgs, Choose_(c, msg)
    PROVE  /\ TCPTypeOK'
           /\ Separate /\ msg \notin Offered => Separate'
           /\ Bucketed => Bucketed'
           /\ Offered' \subseteq Offered \cup {msg}
<1>1. PICK i \in BufferIndex(msg) :
          /\ calling' = [calling EXCEPT ![c] = [pc |-> "send", msg |-> msg, index |-> i]]
          /\ workerIndex' = IF Sticky THEN workerIndex ELSE i
  BY DEF Choose_
<1>2. UNCHANGED <<buf, worker, returning, written, up, breaks, close>> /\ calling[c] = Nothing
  BY DEF Choose_
<1>3. i \in Indices /\ (Sticky => i = Bucket[msg])
  BY IndexInBounds DEF BufferIndex
<1>4. /\ calling'[c] = [pc |-> "send", msg |-> msg, index |-> i] /\ calling'[c].msg = msg
      /\ calling'[c].index = i
      /\ \A d \in Callers \ {c} : calling'[d] = calling[d]
  BY <1>1 DEF TCPTypeOK
<1>5. TCPTypeOK'
  BY <1>1, <1>2, <1>3 DEF TCPTypeOK
<1>6. \A j \in Indices : Had(j)' = Had(j) /\ (Apart(j) => Apart(j)')
  BY <1>2 DEF Had, Inside, Held, Apart
<1>7. ASSUME Separate, msg \notin Offered PROVE Separate'
  <2>1. (\A j \in Indices : msg \notin Had(j)) /\ \A d \in Callers : calling[d] # Nothing => calling[d].msg # msg
    BY <1>7, OfferedOnce DEF OfferedIs
  <2>2. \A j \in Indices : Apart(j)'
    BY <1>6, <1>7 DEF Separate
  <2>3. \A j, k \in Indices : j # k => Had(j)' \cap Had(k)' = {}
    BY <1>6, <1>7 DEF Separate
  <2>4. ASSUME NEW d \in Callers, calling'[d] # Nothing
        PROVE  /\ \A j \in Indices : calling'[d].msg \notin Had(j)'
               /\ \A e \in Callers \ {d} : calling'[e] # Nothing => calling'[e].msg # calling'[d].msg
    BY <1>4, <1>6, <1>7, <2>1, <2>4 DEF Separate
  <2>5. QED
    BY <2>2, <2>3, <2>4 DEF Separate
<1>8. ASSUME Bucketed PROVE Bucketed'
  BY <1>3, <1>4, <1>6, <1>8 DEF Bucketed
<1>9. ASSUME NEW m \in Offered' PROVE m \in Offered \cup {msg}
  <2>1. \/ \E j \in Indices : m \in Had(j)'
        \/ \E d \in Callers : calling'[d] # Nothing /\ calling'[d].msg = m
    BY <1>9, OfferedOnce DEF OfferedIs
  <2>2. QED
    BY <1>4, <1>6, <2>1, OfferedOnce DEF OfferedIs
<1>10. QED
  BY <1>5, <1>7, <1>8, <1>9

LEMMA PutInv ==
    ASSUME TCPTypeOK, NEW c \in Callers, Put(c)
    PROVE  TCPTypeOK' /\ (Separate => Separate') /\ (Bucketed => Bucketed') /\ Offered' \subseteq Offered
<1>0. PICK i \in Indices, msg \in Msgs : calling[c].index = i /\ calling[c].msg = msg
  <2>1. calling[c] \in [pc : {"send"}, msg : Msgs, index : Indices]
    BY DEF Put, TCPTypeOK
  <2>2. QED
    BY <2>1
<1>1. /\ UNCHANGED <<workerIndex, worker, returning, written, up, breaks, close>>
      /\ calling[c] # Nothing
      /\ buf[i] \in Seq(Msgs) /\ Len(buf[i]) < BufLen
      /\ buf' = [buf EXCEPT ![i] = Append(buf[i], msg)]
      /\ calling' = [calling EXCEPT ![c] = Nothing]
  BY <1>0 DEF Put, TCPTypeOK
<1>2. /\ Append(buf[i], msg) \in Seq(Msgs) /\ ToSet(Append(buf[i], msg)) = ToSet(buf[i]) \cup {msg}
      /\ IsInjective(buf[i]) /\ msg \notin ToSet(buf[i]) => IsInjective(Append(buf[i], msg))
      /\ Len(Append(buf[i], msg)) <= BufLen
  BY <1>1, ToSetAppend, TCPAssumption
<1>3. Bucketed /\ Sticky => Bucket[msg] = i
  BY <1>0, <1>1 DEF Bucketed
<1>4. Separate => /\ \A j \in Indices : msg \notin Had(j)
                  /\ \A d \in Callers \ {c} : calling[d] # Nothing => calling[d].msg # msg
  BY <1>0, <1>1 DEF Separate
<1>5. /\ buf'[i] = Append(buf[i], msg) /\ \A j \in Indices \ {i} : buf'[j] = buf[j]
      /\ calling'[c] = Nothing /\ \A d \in Callers \ {c} : calling'[d] = calling[d]
      /\ buf' \in [Indices -> Seq(Msgs)]
      /\ calling' \in [Callers -> {Nothing} \cup [pc : {"send"}, msg : Msgs, index : Indices]]
  BY <1>1, <1>2 DEF TCPTypeOK
<1>6. TCPTypeOK'
  <2>1. \A j \in Indices : Len(buf'[j]) <= BufLen
    BY <1>2, <1>5 DEF TCPTypeOK
  <2>2. QED
    BY <1>1, <1>5, <2>1 DEF TCPTypeOK
<1>7. Had(i)' = Had(i) \cup {msg} /\ \A j \in Indices \ {i} : Had(j)' = Had(j) /\ (Apart(j) => Apart(j)')
  BY <1>1, <1>2, <1>5 DEF Had, Inside, Held, Apart
<1>8. ASSUME Separate PROVE Separate'
  <2>1. Apart(i)'
    <3>1. Apart(i) /\ msg \notin Had(i) /\ Held(i)' = Held(i)
      BY <1>1, <1>4, <1>8 DEF Separate, Held
    <3>2. QED
      BY <1>1, <1>2, <1>5, <3>1 DEF Apart, Had, Inside
  <2>2. \A j \in Indices : Apart(j)'
    BY <1>7, <1>8, <2>1 DEF Separate
  <2>3. \A j, k \in Indices : j # k => Had(j)' \cap Had(k)' = {}
    BY <1>4, <1>7, <1>8 DEF Separate
  <2>4. ASSUME NEW d \in Callers, calling'[d] # Nothing
        PROVE  /\ \A j \in Indices : calling'[d].msg \notin Had(j)'
               /\ \A e \in Callers \ {d} : calling'[e] # Nothing => calling'[e].msg # calling'[d].msg
    <3>1. d # c /\ calling'[d] = calling[d] /\ calling[d] # Nothing
      BY <1>5, <2>4
    <3>2. calling[d].msg # msg /\ \A j \in Indices : calling[d].msg \notin Had(j)
      BY <1>4, <1>8, <3>1 DEF Separate
    <3>3. \A j \in Indices : Had(j)' \subseteq Had(j) \cup {msg}
      BY <1>7
    <3>4. ASSUME NEW e \in Callers \ {d}, calling'[e] # Nothing PROVE calling'[e].msg # calling'[d].msg
      <4>1. e # c /\ calling'[e] = calling[e] /\ calling[e] # Nothing
        BY <1>5, <3>4
      <4>2. QED
        BY <1>8, <3>1, <4>1 DEF Separate
    <3>5. QED
      BY <3>1, <3>2, <3>3, <3>4
  <2>5. QED
    BY <2>2, <2>3, <2>4 DEF Separate
<1>9. ASSUME Bucketed PROVE Bucketed'
  <2> SUFFICES ASSUME Sticky PROVE Bucketed'
    BY DEF Bucketed
  <2>1. ASSUME NEW j \in Indices, NEW m \in Had(j)' PROVE Bucket[m] = j
    <3>1. m \in Had(j) \/ (j = i /\ m = msg)
      BY <1>7, <2>1
    <3>2. QED
      BY <1>3, <1>9, <3>1 DEF Bucketed
  <2>2. ASSUME NEW d \in Callers, calling'[d] # Nothing PROVE Bucket[calling'[d].msg] = calling'[d].index
    <3>1. d # c /\ calling'[d] = calling[d] /\ calling[d] # Nothing
      BY <1>5, <2>2
    <3>2. QED
      BY <1>9, <3>1 DEF Bucketed
  <2>3. QED
    BY <2>1, <2>2 DEF Bucketed
<1>10. ASSUME NEW m \in Offered' PROVE m \in Offered
  <2>1. \/ \E j \in Indices : m \in Had(j)'
        \/ \E d \in Callers : calling'[d] # Nothing /\ calling'[d].msg = m
    BY <1>10, OfferedOnce DEF OfferedIs
  <2>2. CASE \E j \in Indices : m \in Had(j)'
    <3>1. (\E j \in Indices : m \in Had(j)) \/ m = calling[c].msg
      BY <1>0, <1>7, <2>2
    <3>2. QED
      BY <1>1, <3>1, OfferedOnce DEF OfferedIs
  <2>3. CASE \E d \in Callers : calling'[d] # Nothing /\ calling'[d].msg = m
    <3>1. PICK d \in Callers : calling'[d] # Nothing /\ calling'[d].msg = m
      BY <2>3
    <3>2. d # c /\ calling'[d] = calling[d]
      BY <1>5, <3>1
    <3>3. QED
      BY <3>1, <3>2, OfferedOnce DEF OfferedIs
  <2>4. QED
    BY <2>1, <2>2, <2>3
<1>11. QED
  BY <1>6, <1>8, <1>9, <1>10

LEMMA BackgroundInv ==
    ASSUME TCPTypeOK, Background \/ TCPClose \/ (\E i \in Indices : GiveUp(i)) \/ UNCHANGED tcpVars
    PROVE  TCPTypeOK' /\ (Separate => Separate') /\ (Bucketed => Bucketed') /\ Offered' \subseteq Offered
<1>0. ASSUME calling' = calling, \A j \in Indices : Had(j)' = Had(j) PROVE Offered' \subseteq Offered
  <2>1. ASSUME NEW m \in Offered' PROVE m \in Offered
    <3>1. \/ \E j \in Indices : m \in Had(j)'
          \/ \E d \in Callers : calling'[d] # Nothing /\ calling'[d].msg = m
      BY <2>1, OfferedOnce DEF OfferedIs
    <3>2. QED
      BY <1>0, <3>1, OfferedOnce DEF OfferedIs
  <2>2. QED
    BY <2>1
<1>1. ASSUME NEW i \in Indices, Kept(i)
      PROVE  TCPTypeOK' /\ (Separate => Separate') /\ (Bucketed => Bucketed') /\ Offered' \subseteq Offered
  <2>1. calling' = calling /\ \A j \in Indices : Had(j)' = Had(j)
    BY <1>1 DEF Kept, Elsewhere, Had, Inside, Held
  <2>2. QED
    BY <1>0, <1>1, <2>1, Moves DEF Kept
<1>2. CASE AggregatorUp \/ AggregatorDown \/ TCPClose \/ UNCHANGED tcpVars
  <2>1. /\ UNCHANGED <<buf, workerIndex, calling, worker, returning, written>>
        /\ up' \in BOOLEAN /\ close' \in BOOLEAN /\ breaks' \in 0 .. MaxBreaks
    <3>1. CASE AggregatorUp
      BY <3>1 DEF AggregatorUp, TCPTypeOK
    <3>2. CASE AggregatorDown
      <4>1. breaks \in 0 .. MaxBreaks /\ breaks < MaxBreaks /\ breaks' = breaks + 1
        BY <3>2 DEF AggregatorDown, TCPTypeOK
      <4>2. breaks' \in 0 .. MaxBreaks
        BY <4>1, TCPAssumption
      <4>3. QED
        BY <3>2, <4>2 DEF AggregatorDown, TCPTypeOK
    <3>3. CASE TCPClose
      BY <3>3 DEF TCPClose, TCPTypeOK
    <3>4. CASE UNCHANGED tcpVars
      BY <3>4 DEF tcpVars, TCPTypeOK
    <3>5. QED
      BY <1>2, <3>1, <3>2, <3>3, <3>4
  <2>2. TCPTypeOK'
    BY <2>1 DEF TCPTypeOK
  <2>3. \A j \in Indices : Had(j)' = Had(j) /\ (Apart(j) => Apart(j)')
    BY <2>1 DEF Had, Inside, Held, Apart
  <2>4. Separate => Separate'
    BY <2>1, <2>3 DEF Separate
  <2>5. Bucketed => Bucketed'
    BY <2>1, <2>3 DEF Bucketed
  <2>6. QED
    BY <1>0, <2>1, <2>2, <2>3, <2>4, <2>5
<1>3. ASSUME NEW i \in Indices, Work(i) \/ GiveUp(i) \/ WriteFails(i) \/ \E msg \in Msgs : PutBack(i, msg)
      PROVE  Kept(i)
  <2>1. CASE Connect(i) \/ GiveUp(i)
    BY <2>1, ConnectKeeps
  <2>2. CASE Receive(i)
    BY <2>2, ReceiveKeeps
  <2>3. CASE WriteWhole(i)
    BY <2>3, WriteWholeKeeps
  <2>4. CASE WriteFails(i)
    BY <2>4, WriteFailsKeeps
  <2>5. CASE \E msg \in Msgs : PutBack(i, msg)
    BY <2>5, PutBackKeeps
  <2>6. QED
    BY <1>3, <2>1, <2>2, <2>3, <2>4, <2>5 DEF Work
<1>4. QED
  BY <1>1, <1>2, <1>3 DEF Background

LEMMA InitInv == TCPInit => TCPTypeOK /\ Separate /\ Bucketed
<1> SUFFICES ASSUME TCPInit PROVE TCPTypeOK /\ Separate /\ Bucketed
  OBVIOUS
<1>1. \A i \in Indices : /\ buf[i] = <<>> /\ written[i] = <<>> /\ returning[i] = {}
                         /\ worker[i].pc = "connecting" /\ Held(i) = {}
  BY DEF TCPInit, Held
<1>2. \A i \in Indices : ToSet(buf[i]) = {} /\ ToSet(written[i]) = {} /\ IsInjective(buf[i]) /\ IsInjective(written[i])
  BY <1>1 DEF ToSet, IsInjective
<1>3. \A c \in Callers : calling[c] = Nothing
  BY DEF TCPInit
<1>4. Separate /\ Bucketed
  BY <1>1, <1>2, <1>3 DEF Separate, Apart, Bucketed, Had, Inside
<1>5. 0 \in Indices
  BY TCPAssumption DEF Indices
<1>6. TCPTypeOK
  BY <1>1, <1>5, EmptySeq, TCPAssumption DEF TCPInit, TCPTypeOK
<1>7. QED
  BY <1>4, <1>6

-----------------------------------------------------------------------------
(* The theorems *)

LEMMA SeparateMeans == ASSUME TCPTypeOK, Separate PROVE InOnePlace
<1>1. ASSUME NEW i \in Indices
      PROVE  /\ IsInjective(buf[i] \o written[i])
             /\ ToSet(buf[i] \o written[i]) = ToSet(buf[i]) \cup ToSet(written[i])
  <2>1. buf[i] \in Seq(Msgs) /\ written[i] \in Seq(Msgs)
    BY DEF TCPTypeOK
  <2>2. IsInjective(buf[i]) /\ IsInjective(written[i]) /\ ToSet(buf[i]) \cap ToSet(written[i]) = {}
    BY DEF Separate, Apart
  <2>3. QED
    BY <2>1, <2>2, InjectiveConcat
<1>2. QED
  BY <1>1 DEF InOnePlace, Separate, Apart, Had

LEMMA Invariance == TCPSpec => [](TCPTypeOK /\ Separate /\ Bucketed)
<1>1. TCPTypeOK /\ Separate /\ Bucketed /\ [TCPNext]_tcpVars => (TCPTypeOK /\ Separate /\ Bucketed)'
  <2> SUFFICES ASSUME TCPTypeOK, Separate, Bucketed, [TCPNext]_tcpVars
               PROVE  (TCPTypeOK /\ Separate /\ Bucketed)'
    OBVIOUS
  <2>1. ASSUME NEW c \in Callers, Call(c) PROVE (TCPTypeOK /\ Separate /\ Bucketed)'
    BY <2>1, ChooseInv DEF Call
  <2>2. ASSUME NEW c \in Callers, Put(c) PROVE (TCPTypeOK /\ Separate /\ Bucketed)'
    BY <2>2, PutInv
  <2>3. CASE Background \/ TCPClose \/ (\E i \in Indices : GiveUp(i)) \/ UNCHANGED tcpVars
    BY <2>3, BackgroundInv
  <2>4. QED
    BY <2>1, <2>2, <2>3 DEF TCPNext
<1>2. QED
  BY <1>1, InitInv, PTL DEF TCPSpec

\* Called with every message once, the plugin has each in one place, and in none any
\* more that was written: connections that break, and workers that take over, never
\* duplicate one.
THEOREM NoDuplicates == TCPSpec => []InOnePlace
<1>1. TCPTypeOK /\ Separate => InOnePlace
  BY SeparateMeans
<1>2. QED
  BY <1>1, Invariance, PTL

\* The types of the plugin.
THEOREM PluginTypes == TCPSpec => []TCPTypeOK
  BY Invariance, PTL

-----------------------------------------------------------------------------
(* The emitter with its TCP output *)

\* Where the TCP output stands among the outputs.
TcpAt == CHOOSE k \in DOMAIN Outputs : Outputs[k] = "tcp"

CopierTypes ==
    [pc : {"unstarted", "read", "returned"}]
        \cup [pc : {"write", "inTCP"}, msg : Msgs, k : DOMAIN Outputs]

\* The payload a copier has still to take to the TCP output.
Carried(in) == IF copier[in].pc = "write" /\ copier[in].k <= TcpAt THEN {copier[in].msg} ELSE {}

Unseen(in) == ToSet(stream[in]) \cup Carried(in)

\* One input: what it has still to hand over it will hand over once, and has not yet.
Ahead(in) ==
    /\ IsInjective(stream[in])
    /\ ToSet(stream[in]) \cap Carried(in) = {}
    /\ Unseen(in) \cap Offered = {}
    /\ copier[in].pc = "inTCP" => copier[in].k = TcpAt

Composed ==
    /\ stream \in [Callers -> Seq(Msgs)]
    /\ copier \in [Callers -> CopierTypes]
    /\ \A in \in Callers : Ahead(in)
    /\ \A in, other \in Callers : in # other => Unseen(in) \cap Unseen(other) = {}

EmitterInv == TCPTypeOK /\ Separate /\ Bucketed /\ Composed

\* There is one TCP output.
LEMMA TheTcp ==
    /\ TcpAt \in DOMAIN Outputs /\ Outputs[TcpAt] = "tcp"
    /\ \A k \in DOMAIN Outputs : Outputs[k] = "tcp" => k = TcpAt
<1>1. \E k \in DOMAIN Outputs : Outputs[k] = "tcp"
  BY EmitterAssumption DEF ToSet
<1>2. TcpAt \in DOMAIN Outputs /\ Outputs[TcpAt] = "tcp"
  BY <1>1 DEF TcpAt
<1>3. QED
  BY <1>2, EmitterAssumption DEF IsInjective

\* A step of one copier that hands the output nothing new but what it carried.
LEMMA OneCopier ==
    ASSUME EmitterInv, NEW in \in Callers, TCPTypeOK', Separate', Bucketed',
           stream' \in [Callers -> Seq(Msgs)], copier' \in [Callers -> CopierTypes],
           \A other \in Callers \ {in} : stream'[other] = stream[other] /\ copier'[other] = copier[other],
           NEW handed, Offered' \subseteq Offered \cup handed, handed \subseteq Unseen(in),
           Unseen(in)' \subseteq Unseen(in) \ handed,
           IsInjective(stream'[in]), ToSet(stream'[in]) \cap Carried(in)' = {},
           copier'[in].pc = "inTCP" => copier'[in].k = TcpAt
    PROVE  EmitterInv'
<1>1. \A other \in Callers \ {in} : Carried(other)' = Carried(other) /\ Unseen(other)' = Unseen(other)
  BY DEF Carried, Unseen
<1>2. Ahead(in)'
  <2>1. Unseen(in)' \cap Offered' = {}
    BY DEF EmitterInv, Composed, Ahead
  <2>2. QED
    BY <2>1 DEF Ahead
<1>3. ASSUME NEW other \in Callers \ {in} PROVE Ahead(other)'
  <2>1. Unseen(other) \cap Unseen(in) = {} /\ Ahead(other)
    BY DEF EmitterInv, Composed
  <2>2. Unseen(other)' \cap Offered' = {}
    BY <1>1, <2>1 DEF Ahead
  <2>3. QED
    BY <1>1, <2>1, <2>2 DEF Ahead
<1>4. ASSUME NEW one \in Callers, NEW other \in Callers, one # other
      PROVE  Unseen(one)' \cap Unseen(other)' = {}
  <2>1. Unseen(one)' \subseteq Unseen(one) /\ Unseen(other)' \subseteq Unseen(other)
    BY <1>1
  <2>2. QED
    BY <1>4, <2>1 DEF EmitterInv, Composed
<1>5. QED
  BY <1>2, <1>3, <1>4 DEF EmitterInv, Composed

\* A step that leaves the copiers alone and hands nothing to the output.
LEMMA NoCopier ==
    ASSUME EmitterInv, TCPTypeOK', Separate', Bucketed', Offered' \subseteq Offered,
           UNCHANGED <<stream, copier>>
    PROVE  EmitterInv'
<1>1. \A in \in Callers : Carried(in)' = Carried(in) /\ Unseen(in)' = Unseen(in)
  BY DEF Carried, Unseen
<1>2. \A in \in Callers : Ahead(in)'
  BY <1>1 DEF EmitterInv, Composed, Ahead
<1>3. QED
  BY <1>1, <1>2 DEF EmitterInv, Composed

\* Steps that leave the TCP output alone keep what holds of it.
LEMMA StillTCP == ASSUME EmitterInv, UNCHANGED tcpVars
                  PROVE  TCPTypeOK' /\ Separate' /\ Bucketed' /\ Offered' \subseteq Offered
  BY BackgroundInv DEF EmitterInv

\* What a copier is at after a write without error is not the TCP output, if the write was to it.
LEMMA WrittenBehind ==
    ASSUME EmitterInv, NEW in \in Callers, copier[in].pc \in {"write", "inTCP"}
    PROVE  /\ copier[in] \in [pc : {"write", "inTCP"}, msg : Msgs, k : DOMAIN Outputs]
           /\ Written(in) \in CopierTypes /\ Written(in).pc \in {"read", "write"}
           /\ Written(in).pc = "write" => /\ Written(in).msg = copier[in].msg
                                          /\ Written(in).k = copier[in].k + 1
<1>1. copier[in] \in [pc : {"write", "inTCP"}, msg : Msgs, k : DOMAIN Outputs]
  <2>1. copier[in] \in CopierTypes
    BY DEF EmitterInv, Composed
  <2>2. QED
    BY <2>1 DEF CopierTypes
<1>2. Len(Outputs) \in Nat /\ DOMAIN Outputs = 1 .. Len(Outputs)
  BY EmitterAssumption
<1>3. CASE copier[in].k = Len(Outputs)
  BY <1>1, <1>3 DEF Written, CopierTypes
<1>4. CASE copier[in].k # Len(Outputs)
  <2>1. copier[in].k + 1 \in DOMAIN Outputs
    BY <1>1, <1>2, <1>4
  <2>2. Written(in) = [pc |-> "write", msg |-> copier[in].msg, k |-> copier[in].k + 1]
    BY <1>1, <1>4 DEF Written
  <2>3. QED
    BY <1>1, <2>1, <2>2 DEF CopierTypes
<1>5. QED
  BY <1>1, <1>3, <1>4
-----------------------------------------------------------------------------
(* The actions of a copier *)

\* Read takes a payload from the stream; carried or dropped, it is not in the rest of it.
LEMMA ReadInv == ASSUME EmitterInv, NEW in \in Callers, Read(in) PROVE EmitterInv'
<1> DEFINE msg == Head(stream[in])
           rest == Tail(stream[in])
<1>1. stream[in] \in Seq(Msgs) /\ stream[in] # <<>> /\ copier[in].pc = "read" /\ UNCHANGED tcpVars
  BY DEF Read, EmitterInv, Composed
<1>2. /\ msg \in Msgs /\ rest \in Seq(Msgs) /\ ToSet(stream[in]) = ToSet(rest) \cup {msg}
      /\ IsInjective(stream[in]) => IsInjective(rest) /\ msg \notin ToSet(rest)
  BY <1>1, ToSetTail
<1>3. /\ stream' = [stream EXCEPT ![in] = rest]
      /\ \/ copier' = [copier EXCEPT ![in] = [pc |-> "write", msg |-> msg, k |-> 1]]
         \/ copier' = copier
  BY DEF Read
<1> HIDE DEF msg, rest
<1>4. stream \in [Callers -> Seq(Msgs)] /\ copier \in [Callers -> CopierTypes] /\ IsInjective(stream[in])
  BY DEF EmitterInv, Composed, Ahead
<1>5. 1 \in DOMAIN Outputs
  BY EmitterAssumption, TheTcp
<1>6. [pc |-> "write", msg |-> msg, k |-> 1] \in CopierTypes
  BY <1>2, <1>5 DEF CopierTypes
<1>7. /\ stream' \in [Callers -> Seq(Msgs)] /\ copier' \in [Callers -> CopierTypes]
      /\ stream'[in] = rest
      /\ \A other \in Callers \ {in} : stream'[other] = stream[other] /\ copier'[other] = copier[other]
  BY <1>2, <1>3, <1>4, <1>6
<1>8. /\ copier'[in].pc \in {"read", "write"}
      /\ copier'[in].pc = "write" => copier'[in].msg = msg
  BY <1>1, <1>3, <1>4
<1>9. Carried(in)' \subseteq {msg}
  BY <1>8 DEF Carried
<1>10. ToSet(rest) \cap Carried(in)' = {} /\ Unseen(in)' \subseteq Unseen(in)
  BY <1>2, <1>4, <1>7, <1>9 DEF Unseen
<1>11. TCPTypeOK' /\ Separate' /\ Bucketed' /\ Offered' \subseteq Offered \cup {}
  BY <1>1, StillTCP
<1>12. IsInjective(stream'[in]) /\ ToSet(stream'[in]) \cap Carried(in)' = {}
  BY <1>2, <1>4, <1>7, <1>10
<1>13. copier'[in].pc = "inTCP" => copier'[in].k = TcpAt
  BY <1>8
<1>14. Unseen(in)' \subseteq Unseen(in) \ {}
  BY <1>10
<1>15. QED
  BY <1>7, <1>11, <1>12, <1>13, <1>14, OneCopier

\* The copier stops, or moves on from an output: what it carries it has handed over,
\* or will never.
LEMMA LeavesInv ==
    ASSUME EmitterInv, NEW in \in Callers, TCPTypeOK', Separate', Bucketed',
           Offered' \subseteq Offered, stream' = stream,
           NEW at \in CopierTypes, copier' = [copier EXCEPT ![in] = at],
           \/ at.pc = "returned" \/ at.pc = "read"
           \/ /\ copier[in].pc \in {"write", "inTCP"}
              /\ at.pc = "write" /\ at.msg = copier[in].msg /\ at.k = copier[in].k + 1
    PROVE  EmitterInv'
<1>1. stream \in [Callers -> Seq(Msgs)] /\ copier \in [Callers -> CopierTypes] /\ Ahead(in)
  BY DEF EmitterInv, Composed
<1>2. /\ copier' \in [Callers -> CopierTypes] /\ copier'[in] = at
      /\ \A other \in Callers \ {in} : stream'[other] = stream[other] /\ copier'[other] = copier[other]
  BY <1>1
<1>3. Carried(in)' \subseteq Carried(in)
  <2>1. CASE at.pc = "returned" \/ at.pc = "read"
    BY <1>2, <2>1 DEF Carried
  <2>2. CASE /\ copier[in].pc \in {"write", "inTCP"}
             /\ at.pc = "write" /\ at.msg = copier[in].msg /\ at.k = copier[in].k + 1
    <3>1. copier[in].k \in Int /\ TcpAt \in Int
      BY <2>2, WrittenBehind, TheTcp, EmitterAssumption
    <3>2. CASE copier[in].pc = "inTCP"
      BY <1>1, <1>2, <2>2, <3>1, <3>2 DEF Carried, Ahead
    <3>3. CASE copier[in].pc = "write"
      BY <1>2, <2>2, <3>1, <3>3 DEF Carried
    <3>4. QED
      BY <2>2, <3>2, <3>3
  <2>3. QED
    BY <2>1, <2>2
<1>4. Unseen(in)' \subseteq Unseen(in) \ {}
  BY <1>3 DEF Unseen
<1>5. /\ Offered' \subseteq Offered \cup {} /\ IsInjective(stream'[in])
      /\ ToSet(stream'[in]) \cap Carried(in)' = {}
      /\ (copier'[in].pc = "inTCP" => copier'[in].k = TcpAt)
  BY <1>1, <1>2, <1>3 DEF Ahead
<1>6. QED
  BY <1>1, <1>2, <1>4, <1>5, OneCopier

\* Handed to the TCP output, a payload is no longer carried.
LEMMA HandInv ==
    ASSUME EmitterInv, NEW in \in Callers, WriteTCP(in), Origin(copier[in].msg)
    PROVE  EmitterInv'
<1>1. /\ copier[in].pc = "write" /\ Outputs[copier[in].k] = "tcp"
      /\ Choose_(in, copier[in].msg) /\ stream' = stream
      /\ copier' = [copier EXCEPT ![in].pc = "inTCP"]
  BY DEF WriteTCP, AtOutput
<1>2. PICK msg \in Msgs, k \in DOMAIN Outputs : copier[in] = [pc |-> "write", msg |-> msg, k |-> k]
  BY <1>1, WrittenBehind
<1>3. k = TcpAt /\ k <= TcpAt
  BY <1>1, <1>2, TheTcp, EmitterAssumption
<1>4. Carried(in) = {msg} /\ Ahead(in) /\ msg \in Unseen(in) /\ msg \notin Offered
  BY <1>1, <1>2, <1>3 DEF Carried, Unseen, EmitterInv, Composed, Ahead
<1>5. TCPTypeOK' /\ Separate' /\ Bucketed' /\ Offered' \subseteq Offered \cup {msg}
  BY <1>1, <1>2, <1>4, ChooseInv DEF EmitterInv
<1>6. copier' = [copier EXCEPT ![in] = [pc |-> "inTCP", msg |-> msg, k |-> k]]
  <2>1. copier' = [copier EXCEPT ![in] = [copier[in] EXCEPT !.pc = "inTCP"]]
    BY <1>1
  <2>2. [copier[in] EXCEPT !.pc = "inTCP"] = [pc |-> "inTCP", msg |-> msg, k |-> k]
    BY <1>2
  <2>3. QED
    BY <2>1, <2>2
<1>7. [pc |-> "inTCP", msg |-> msg, k |-> k] \in CopierTypes
  BY DEF CopierTypes
<1>8. /\ stream' \in [Callers -> Seq(Msgs)] /\ copier' \in [Callers -> CopierTypes]
      /\ copier'[in] = [pc |-> "inTCP", msg |-> msg, k |-> k]
      /\ \A other \in Callers \ {in} : stream'[other] = stream[other] /\ copier'[other] = copier[other]
  BY <1>1, <1>6, <1>7 DEF EmitterInv, Composed
<1>9. Carried(in)' = {}
  BY <1>8 DEF Carried
<1>10. {msg} \subseteq Unseen(in) /\ Unseen(in)' \subseteq Unseen(in) \ {msg}
  BY <1>1, <1>4, <1>9 DEF Unseen, Ahead
<1>11. IsInjective(stream'[in]) /\ ToSet(stream'[in]) \cap Carried(in)' = {}
  BY <1>1, <1>4, <1>9 DEF Ahead
<1>12. copier'[in].pc = "inTCP" => copier'[in].k = TcpAt
  BY <1>3, <1>8
<1>13. QED
  BY <1>5, <1>8, <1>10, <1>11, <1>12, OneCopier

\* Every action of a copier is one of the three: it reads, hands over or moves on.
LEMMA CopyInv == ASSUME EmitterInv, NEW in \in Callers, Copy(in) PROVE EmitterInv'
<1>1. [pc |-> "returned"] \in CopierTypes
  BY DEF CopierTypes
<1>2. CASE Read(in)
  BY <1>2, ReadInv
<1>3. CASE ReadStops(in) \/ \E o \in ToSet(Outputs) : WriteRefused(in, o)
  <2>1. UNCHANGED tcpVars /\ stream' = stream /\ copier' = [copier EXCEPT ![in] = [pc |-> "returned"]]
    BY <1>3 DEF ReadStops, WriteRefused, WriteError
  <2>2. QED
    BY <1>1, <2>1, StillTCP, LeavesInv
<1>4. CASE \E o \in ToSet(Outputs) : Write(in, o)
  <2>1. /\ UNCHANGED tcpVars /\ stream' = stream /\ copier[in].pc = "write"
        /\ \/ copier' = [copier EXCEPT ![in] = [pc |-> "returned"]]
           \/ copier' = [copier EXCEPT ![in] = Written(in)]
    BY <1>4 DEF Write, WriteError, AtOutput
  <2>2. QED
    BY <1>1, <2>1, StillTCP, LeavesInv, WrittenBehind
<1>5. CASE WriteTCP(in)
  <2>1. CASE Origin(copier[in].msg)
    BY <1>5, <2>1, HandInv
  <2>2. CASE ~Origin(copier[in].msg)
    <3>1. /\ UNCHANGED tcpVars /\ stream' = stream /\ copier[in].pc = "write"
          /\ copier' = [copier EXCEPT ![in] = Written(in)]
      BY <1>5, <2>2 DEF WriteTCP, AtOutput
    <3>2. QED
      BY <3>1, StillTCP, LeavesInv, WrittenBehind
  <2>3. QED
    BY <2>1, <2>2
<1>6. CASE WriteTCPReturns(in)
  <2>1. /\ Put(in) /\ stream' = stream /\ copier[in].pc = "inTCP"
        /\ copier' = [copier EXCEPT ![in] = Written(in)]
    BY <1>6 DEF WriteTCPReturns
  <2>2. TCPTypeOK' /\ Separate' /\ Bucketed' /\ Offered' \subseteq Offered
    BY <2>1, PutInv DEF EmitterInv
  <2>3. QED
    BY <2>1, <2>2, LeavesInv, WrittenBehind
<1>7. QED
  BY <1>2, <1>3, <1>4, <1>5, <1>6 DEF Copy

-----------------------------------------------------------------------------
(* The theorems *)

\* At first every payload is still in the script of its input.
LEMMA EmitterInitInv == EmitterInit => EmitterInv
<1> SUFFICES ASSUME EmitterInit PROVE EmitterInv
  OBVIOUS
<1>1. /\ TCPTypeOK /\ Separate /\ Bucketed /\ stream = Script
      /\ copier = [in \in Callers |-> [pc |-> "unstarted"]]
  BY InitInv DEF EmitterInit
<1>2. Offered = {}
  <2>1. (\A i \in Indices : Had(i) = {}) /\ \A c \in Callers : calling[c] = Nothing
    BY DEF EmitterInit, TCPInit, Had, Inside, Held, ToSet
  <2>2. QED
    BY <2>1, OfferedOnce DEF OfferedIs
<1>3. \A in \in Callers : copier[in] = [pc |-> "unstarted"] /\ copier[in] \in CopierTypes /\ Carried(in) = {}
  BY <1>1 DEF CopierTypes, Carried
<1>4. \A in \in Callers : Unseen(in) = ToSet(Script[in])
  BY <1>1, <1>3 DEF Unseen
<1>5. \A in \in Callers : Ahead(in)
  BY <1>1, <1>2, <1>3, EmitterAssumption DEF Ahead
<1>6. QED
  BY <1>1, <1>3, <1>4, <1>5, EmitterAssumption DEF EmitterInv, Composed

\* No step hands the TCP output a payload it has had.
LEMMA EmitterInvariance == EmitterSpec => []EmitterInv
<1>1. EmitterInv /\ [EmitterNext]_emitterVars => EmitterInv'
  <2> SUFFICES ASSUME EmitterInv, [EmitterNext]_emitterVars PROVE EmitterInv'
    OBVIOUS
  <2>1. CASE StartCopier
    <3>1. UNCHANGED tcpVars /\ stream' = stream /\ copier' = [copier EXCEPT ![Inputs[started + 1]] = [pc |-> "read"]]
      BY <2>1 DEF StartCopier
    <3>2. [pc |-> "read"] \in CopierTypes
      BY DEF CopierTypes
    <3>3. CASE Inputs[started + 1] \in Callers
      BY <3>1, <3>2, <3>3, StillTCP, LeavesInv
    <3>4. CASE Inputs[started + 1] \notin Callers
      <4>1. copier' = copier
        BY <3>1, <3>4 DEF EmitterInv, Composed
      <4>2. QED
        BY <3>1, <4>1, StillTCP, NoCopier
    <3>5. QED
      BY <3>3, <3>4
  <2>2. ASSUME NEW in \in Callers, Copy(in) PROVE EmitterInv'
    BY <2>2, CopyInv
  <2>3. CASE \/ Install \/ CloseStarts \/ CloseOne \/ CloseReturns \/ UNCHANGED emitterVars
             \/ \E in \in Callers, id \in Ids : Expire(in, id)
    <3>1. UNCHANGED tcpVars /\ UNCHANGED <<stream, copier>>
      BY <2>3 DEF Install, CloseStarts, CloseOne, CloseReturns, Expire, emitterVars
    <3>2. QED
      BY <3>1, StillTCP, NoCopier
  <2>4. CASE TCPWorks
    <3>1. TCPTypeOK' /\ Separate' /\ Bucketed' /\ Offered' \subseteq Offered
      BY <2>4, BackgroundInv DEF TCPWorks, EmitterInv
    <3>2. UNCHANGED <<stream, copier>>
      BY <2>4 DEF TCPWorks
    <3>3. QED
      BY <3>1, <3>2, NoCopier
  <2>5. QED
    BY <2>1, <2>2, <2>3, <2>4 DEF EmitterNext
<1>2. QED
  BY <1>1, EmitterInitInv, PTL DEF EmitterSpec

\* What the copiers read goes into the TCP output once, and is in one place there,
\* whichever connections break, whichever outputs fail and whenever Close comes.
THEOREM NothingTwice == EmitterSpec => []InOnePlace
<1>1. EmitterInv => InOnePlace
  BY SeparateMeans DEF EmitterInv
<1>2. QED
  BY <1>1, EmitterInvariance, PTL

\* With a split by the id, messages of one id all go through the same worker.
THEOREM OneWorker == EmitterSpec => []StickyTogether
<1>1. EmitterInv => StickyTogether
  BY DEF EmitterInv, Bucketed, StickyTogether, Had
<1>2. QED
  BY <1>1, EmitterInvariance, PTL

-----------------------------------------------------------------------------
(* Where the payloads of an input are *)

\* How many payloads of its script an input has returned.
Cursor(in) == Len(Script[in]) - Len(stream[in])

\* The TCP output skips what is no origin payload.
Wanted(in, p, k) == Outputs[k] = "tcp" => Origin(Script[in][p])

Gets(in, p, k) == p \in Got(in, Outputs[k])

\* Every output that wants it has it, or none.
Even(in, p) ==
    \A j, k \in DOMAIN Outputs : Wanted(in, p, j) /\ Wanted(in, p, k) => (Gets(in, p, j) <=> Gets(in, p, k))

\* The outputs that have it are the first ones.
Downward(in, p) ==
    \A j, k \in DOMAIN Outputs :
        j < k /\ Wanted(in, p, j) /\ Wanted(in, p, k) /\ Gets(in, p, k) => Gets(in, p, j)

InScriptOrder(in, o) ==
    \A i, j \in DOMAIN taken[o] : \A p, q \in DOMAIN Script[in] :
        i < j /\ taken[o][i] = Script[in][p] /\ taken[o][j] = Script[in][q] => p < q

StreamIs(in) ==
    /\ Len(stream[in]) <= Len(Script[in])
    /\ \A i \in DOMAIN stream[in] : stream[in][i] = Script[in][Cursor(in) + i]

\* What a copier holds was read last.
Holds(in) ==
    copier[in].pc \in {"write", "inTCP"} =>
        /\ Cursor(in) \in DOMAIN Script[in]
        /\ copier[in].msg = Script[in][Cursor(in)]
        /\ copier[in].pc = "inTCP" => Outputs[copier[in].k] = "tcp" /\ Origin(copier[in].msg)

\* Payloads before the last one are with all outputs or with none; that one is with
\* the outputs its copier has come past.
Places(in) ==
    \A p \in DOMAIN Script[in] :
        /\ \A k \in DOMAIN Outputs : Gets(in, p, k) => p <= Cursor(in) /\ Wanted(in, p, k)
        /\ p < Cursor(in) => Even(in, p)
        /\ p = Cursor(in) =>
              /\ copier[in].pc = "read" => Even(in, p)
              /\ copier[in].pc = "returned" => Downward(in, p)
              /\ copier[in].pc \in {"write", "inTCP"} =>
                    \A k \in DOMAIN Outputs :
                        Gets(in, p, k) <=> k < copier[in].k /\ Wanted(in, p, k)

Alone(in) ==
    /\ StreamIs(in) /\ Holds(in) /\ Places(in)
    /\ \A o \in ToSet(Outputs) : InScriptOrder(in, o)
    /\ copier[in].pc = "unstarted" => Cursor(in) = 0

Unstarted ==
    /\ started \in 0 .. Len(Inputs)
    /\ \A i \in DOMAIN Inputs : i > started => copier[Inputs[i]].pc = "unstarted"

StepInv ==
    /\ taken \in [ToSet(Outputs) -> Seq(Msgs)]
    /\ \A in \in Callers : Alone(in)
    /\ Unstarted

\* What EmitterAssumption says of one script: no payload twice, and none of it in another.
LEMMA Scripts ==
    ASSUME NEW in \in Callers
    PROVE  /\ Script[in] \in Seq(Msgs) /\ Len(Script[in]) \in Nat
           /\ DOMAIN Script[in] = 1 .. Len(Script[in])
           /\ \A p, q \in DOMAIN Script[in] : Script[in][p] = Script[in][q] => p = q
           /\ \A other \in Callers : other # in =>
                \A p \in DOMAIN Script[in], q \in DOMAIN Script[other] : Script[in][p] # Script[other][q]
<1>1. Script[in] \in Seq(Msgs) /\ Len(Script[in]) \in Nat /\ DOMAIN Script[in] = 1 .. Len(Script[in])
  BY EmitterAssumption, LenProperties
<1>2. \A p, q \in DOMAIN Script[in] : Script[in][p] = Script[in][q] => p = q
  BY EmitterAssumption DEF IsInjective
<1>3. \A other \in Callers : other # in =>
        \A p \in DOMAIN Script[in], q \in DOMAIN Script[other] : Script[in][p] # Script[other][q]
  <2> SUFFICES ASSUME NEW other \in Callers, other # in,
                      NEW p \in DOMAIN Script[in], NEW q \in DOMAIN Script[other]
               PROVE  Script[in][p] # Script[other][q]
    OBVIOUS
  <2>1. ToSet(Script[in]) \cap ToSet(Script[other]) = {}
    BY EmitterAssumption
  <2>2. Script[in][p] \in ToSet(Script[in]) /\ Script[other][q] \in ToSet(Script[other])
    BY DEF ToSet
  <2>3. QED
    BY <2>1, <2>2
<1>4. QED
  BY <1>1, <1>2, <1>3

\* The types of what concerns one input.
LEMMA Streams ==
    ASSUME EmitterInv, NEW in \in Callers
    PROVE  /\ stream[in] \in Seq(Msgs) /\ Len(stream[in]) \in Nat
           /\ DOMAIN stream[in] = 1 .. Len(stream[in])
           /\ copier[in] \in CopierTypes
           /\ Cursor(in) \in Int
<1>1. stream[in] \in Seq(Msgs) /\ copier[in] \in CopierTypes
  BY DEF EmitterInv, Composed
<1>2. Len(stream[in]) \in Nat /\ DOMAIN stream[in] = 1 .. Len(stream[in])
  BY <1>1, LenProperties
<1>3. QED
  BY <1>1, <1>2, Scripts DEF Cursor

\* Places says of every payload where it is, which is more than InStep asks.
LEMMA StepFollows == ASSUME EmitterInv, StepInv PROVE InStep
<1> SUFFICES ASSUME NEW in \in Callers, NEW j \in DOMAIN Outputs, NEW k \in DOMAIN Outputs,
                    NEW p \in DOMAIN Script[in], j < k,
                    "tcp" \in {Outputs[j], Outputs[k]} => Origin(Script[in][p])
             PROVE  /\ Gets(in, p, k) => Gets(in, p, j)
                    /\ Gets(in, p, j) /\ ~Gets(in, p, k) =>
                         \A q \in Got(in, Outputs[j]) \cup Got(in, Outputs[k]) : q <= p
  BY DEF StepInv, Alone, InScriptOrder, InStep, Gets
<1>1. Alone(in) /\ Wanted(in, p, j) /\ Wanted(in, p, k)
  BY DEF StepInv, Wanted
<1>2. /\ Gets(in, p, j) \/ Gets(in, p, k) => p <= Cursor(in)
      /\ p < Cursor(in) => Even(in, p)
      /\ p = Cursor(in) =>
              /\ copier[in].pc = "read" => Even(in, p)
              /\ copier[in].pc = "returned" => Downward(in, p)
              /\ copier[in].pc \in {"write", "inTCP"} =>
                    \A l \in DOMAIN Outputs :
                        Gets(in, p, l) <=> l < copier[in].k /\ Wanted(in, p, l)
              /\ copier[in].pc # "unstarted"
  BY <1>1, Scripts DEF Alone, Places
<1>3. p \in Int /\ Cursor(in) \in Int /\ copier[in] \in CopierTypes
  BY Scripts, Streams
<1>4. copier[in].pc \in {"unstarted", "read", "returned", "write", "inTCP"}
  BY <1>3 DEF CopierTypes
<1>5. CASE p < Cursor(in)
  BY <1>1, <1>2, <1>5 DEF Even
<1>6. CASE p = Cursor(in)
  <2>1. Gets(in, p, k) => Gets(in, p, j)
    <3>1. CASE copier[in].pc = "read"
      BY <1>1, <1>2, <1>6, <3>1 DEF Even
    <3>2. CASE copier[in].pc = "returned"
      BY <1>1, <1>2, <1>6, <3>2 DEF Downward
    <3>3. CASE copier[in].pc \in {"write", "inTCP"}
      <4>1. copier[in].k \in Int /\ j \in Int /\ k \in Int
        BY <3>3, WrittenBehind, EmitterAssumption
      <4>2. QED
        BY <1>1, <1>2, <1>6, <3>3, <4>1
    <3>4. QED
      BY <1>2, <1>4, <1>6, <3>1, <3>2, <3>3
  <2>2. \A q \in Got(in, Outputs[j]) \cup Got(in, Outputs[k]) : q <= Cursor(in)
    BY <1>1 DEF Alone, Places, Gets, Got
  <2>3. QED
    BY <1>6, <2>1, <2>2
<1>7. CASE p > Cursor(in)
  BY <1>2, <1>3, <1>7
<1>8. QED
  BY <1>3, <1>5, <1>6, <1>7

\* An input that takes no part in the step stays as it was.
LEMMA AloneStays ==
    ASSUME EmitterInv, NEW in \in Callers, Alone(in), taken \in [ToSet(Outputs) -> Seq(Msgs)],
           stream'[in] = stream[in], copier'[in] = copier[in],
           \A o \in ToSet(Outputs) : Got(in, o)' = Got(in, o) /\ InScriptOrder(in, o)'
    PROVE  Alone(in)'
<1>1. Cursor(in)' = Cursor(in)
  BY DEF Cursor
<1>2. \A p \in DOMAIN Script[in], k \in DOMAIN Outputs : Gets(in, p, k)' = Gets(in, p, k)
  BY DEF Gets, ToSet
<1>3. \A p \in DOMAIN Script[in] : (Even(in, p) => Even(in, p)') /\ (Downward(in, p) => Downward(in, p)')
  BY <1>2 DEF Even, Downward
<1>4. StreamIs(in)' /\ Holds(in)'
  BY <1>1 DEF Alone, StreamIs, Holds
<1>5. Places(in)'
  BY <1>1, <1>2, <1>3 DEF Alone, Places
<1>6. QED
  BY <1>1, <1>4, <1>5 DEF Alone

\* One output takes the payload its copier holds.
LEMMA Takes ==
    ASSUME EmitterInv, StepInv, NEW in \in Callers, NEW k \in DOMAIN Outputs,
           copier[in].pc \in {"write", "inTCP"}, copier[in].k = k,
           taken' = [taken EXCEPT ![Outputs[k]] = Append(@, copier[in].msg)]
    PROVE  /\ taken' \in [ToSet(Outputs) -> Seq(Msgs)]
           /\ \A other \in Callers \ {in}, o \in ToSet(Outputs) :
                 Got(other, o)' = Got(other, o) /\ InScriptOrder(other, o)'
           /\ \A o \in ToSet(Outputs) : InScriptOrder(in, o)'
           /\ \A p \in DOMAIN Script[in], j \in DOMAIN Outputs :
                 Gets(in, p, j)' <=> Gets(in, p, j) \/ (p = Cursor(in) /\ j = k)
<1> DEFINE o == Outputs[k]
           msg == copier[in].msg
           c == Cursor(in)
           t == taken[o]
<1>1. /\ o \in ToSet(Outputs) /\ taken \in [ToSet(Outputs) -> Seq(Msgs)] /\ t \in Seq(Msgs)
      /\ \A j \in DOMAIN Outputs : Outputs[j] \in ToSet(Outputs) /\ (Outputs[j] = o => j = k)
  <2>1. o \in ToSet(Outputs) /\ \A j \in DOMAIN Outputs : Outputs[j] \in ToSet(Outputs)
    BY DEF ToSet
  <2>2. \A j \in DOMAIN Outputs : Outputs[j] = o => j = k
    BY EmitterAssumption DEF IsInjective
  <2>3. QED
    BY <2>1, <2>2 DEF StepInv
<1>2. c \in DOMAIN Script[in] /\ msg = Script[in][c] /\ msg \in Msgs
  <2>1. c \in DOMAIN Script[in] /\ msg = Script[in][c]
    BY DEF StepInv, Alone, Holds
  <2>2. msg \in Msgs
    BY WrittenBehind
  <2>3. QED
    BY <2>1, <2>2
<1>3. c \notin Got(in, o) /\ \A p \in Got(in, o) : p < c
  <2>1. Places(in)
    BY DEF StepInv, Alone
  <2>2. ~Gets(in, c, k)
    <3>1. k \in Int
      BY EmitterAssumption
    <3>2. Gets(in, c, k) => k < copier[in].k
      BY <1>2, <2>1 DEF Places
    <3>3. QED
      BY <3>1, <3>2
  <2>3. \A p \in Got(in, o) : p \in DOMAIN Script[in] /\ p <= c
    BY <2>1 DEF Places, Gets, Got
  <2>4. \A p \in DOMAIN Script[in] : p \in Int
    BY Scripts
  <2>5. QED
    BY <1>2, <2>2, <2>3, <2>4 DEF Gets
<1> HIDE DEF c, msg
<1>4. /\ taken' = [taken EXCEPT ![o] = Append(t, msg)]
      /\ Append(t, msg) \in Seq(Msgs) /\ ToSet(Append(t, msg)) = ToSet(t) \cup {msg}
      /\ Len(t) \in Nat /\ DOMAIN t = 1 .. Len(t) /\ DOMAIN Append(t, msg) = 1 .. Len(t) + 1
      /\ Append(t, msg)[Len(t) + 1] = msg /\ \A i \in 1 .. Len(t) : Append(t, msg)[i] = t[i]
  <2>1. taken' = [taken EXCEPT ![o] = Append(t, msg)]
    BY DEF msg
  <2> HIDE DEF t
  <2>2. t \in Seq(Msgs)
    BY <1>1
  <2>3. Append(t, msg) \in Seq(Msgs) /\ ToSet(Append(t, msg)) = ToSet(t) \cup {msg}
    BY <1>2, <2>2, ToSetAppend
  <2>4. /\ Len(Append(t, msg)) = Len(t) + 1 /\ Append(t, msg)[Len(t) + 1] = msg
        /\ \A i \in 1 .. Len(t) : Append(t, msg)[i] = t[i]
    BY <1>2, <2>2, AppendProperties
  <2>5. /\ Len(t) \in Nat /\ DOMAIN t = 1 .. Len(t)
        /\ DOMAIN Append(t, msg) = 1 .. Len(Append(t, msg))
    BY <2>2, <2>3, LenProperties
  <2>6. QED
    BY <2>1, <2>3, <2>4, <2>5
<1>5. /\ taken' \in [ToSet(Outputs) -> Seq(Msgs)] /\ taken'[o] = Append(t, msg)
      /\ \A u \in ToSet(Outputs) : u # o => taken'[u] = taken[u]
  BY <1>1, <1>4
<1>6. ASSUME NEW one \in Callers, NEW u \in ToSet(Outputs), u # o
      PROVE  Got(one, u)' = Got(one, u) /\ (InScriptOrder(one, u) => InScriptOrder(one, u)')
  BY <1>5, <1>6 DEF Got, InScriptOrder
<1>7. \A one \in Callers : \A p \in DOMAIN Script[one] :
         p \in Got(one, o)' <=> p \in Got(one, o) \/ Script[one][p] = msg
  BY <1>4, <1>5 DEF Got
<1>8. \A other \in Callers \ {in} : \A p \in DOMAIN Script[other] : Script[other][p] # msg
  BY <1>2, Scripts
<1>9. ASSUME NEW other \in Callers \ {in} PROVE Got(other, o)' = Got(other, o)
  <2>1. Got(other, o) \subseteq DOMAIN Script[other] /\ Got(other, o)' \subseteq DOMAIN Script[other]
    BY DEF Got
  <2>2. QED
    <3>1. \A p \in DOMAIN Script[other] : p \in Got(other, o)' <=> p \in Got(other, o)
      BY <1>7, <1>8
    <3>2. QED
      BY <2>1, <3>1
<1>10. \A i \in DOMAIN taken'[o] : (i \in DOMAIN t /\ taken'[o][i] = t[i]) \/ (i = Len(t) + 1 /\ taken'[o][i] = msg)
  BY <1>4, <1>5
<1>11. ASSUME NEW other \in Callers \ {in} PROVE InScriptOrder(other, o)'
  <2>1. InScriptOrder(other, o)
    BY <1>1 DEF StepInv, Alone
  <2>2. QED
    BY <1>8, <1>10, <2>1 DEF InScriptOrder
<1>12. InScriptOrder(in, o)'
  <2>1. InScriptOrder(in, o)
    BY <1>1 DEF StepInv, Alone
  <2> SUFFICES ASSUME NEW i \in DOMAIN taken'[o], NEW j \in DOMAIN taken'[o],
                      NEW p \in DOMAIN Script[in], NEW q \in DOMAIN Script[in],
                      i < j, taken'[o][i] = Script[in][p], taken'[o][j] = Script[in][q]
               PROVE  p < q
    BY DEF InScriptOrder
  <2>2. i \in DOMAIN t /\ taken'[o][i] = t[i]
    BY <1>4, <1>5
  <2>3. CASE j \in DOMAIN t /\ taken'[o][j] = t[j]
    BY <2>1, <2>2, <2>3 DEF InScriptOrder
  <2>4. CASE taken'[o][j] = msg
    <3>1. q = c
      BY <1>2, <2>4, Scripts
    <3>2. p \in Got(in, o)
      BY <2>2 DEF Got, ToSet
    <3>3. QED
      BY <1>3, <3>1, <3>2
  <2>5. QED
    BY <1>10, <2>3, <2>4
<1>13. \A u \in ToSet(Outputs) : InScriptOrder(in, u)'
  BY <1>6, <1>12 DEF StepInv, Alone
<1>14. ASSUME NEW p \in DOMAIN Script[in], NEW j \in DOMAIN Outputs
       PROVE  Gets(in, p, j)' <=> Gets(in, p, j) \/ (p = Cursor(in) /\ j = k)
  <2>1. Script[in][p] = msg <=> p = c
    BY <1>2, Scripts
  <2>2. CASE j = k
    BY <1>7, <2>1, <2>2 DEF Gets, c
  <2>3. CASE j # k
    <3>1. Outputs[j] \in ToSet(Outputs) /\ Outputs[j] # o
      BY <1>1, <2>3
    <3>2. QED
      BY <1>6, <2>3, <3>1 DEF Gets
  <2>4. QED
    BY <2>2, <2>3
<1>15. \A other \in Callers \ {in}, u \in ToSet(Outputs) :
          Got(other, u)' = Got(other, u) /\ InScriptOrder(other, u)'
  BY <1>6, <1>9, <1>11 DEF StepInv, Alone
<1>16. QED
  BY <1>5, <1>13, <1>14, <1>15

\* A step of one copier.
LEMMA OneStep ==
    ASSUME EmitterInv, StepInv, NEW in \in Callers, copier[in].pc # "unstarted",
           started' = started,
           \A other \in Callers \ {in} : stream'[other] = stream[other] /\ copier'[other] = copier[other],
           taken' \in [ToSet(Outputs) -> Seq(Msgs)],
           \A other \in Callers \ {in}, o \in ToSet(Outputs) :
                 Got(other, o)' = Got(other, o) /\ InScriptOrder(other, o)',
           Alone(in)'
    PROVE  StepInv'
<1>1. \A other \in Callers \ {in} : Alone(other)'
  BY AloneStays DEF StepInv
<1>2. Unstarted'
  <2>1. \A i \in DOMAIN Inputs : Inputs[i] \in Callers
    BY EmitterAssumption DEF ToSet
  <2>2. QED
    BY <2>1 DEF StepInv, Unstarted
<1>3. QED
  BY <1>1, <1>2 DEF StepInv

\* When no output takes anything the places stay as they are.
LEMMA SameTaken ==
    ASSUME StepInv, taken' = taken
    PROVE  /\ taken' \in [ToSet(Outputs) -> Seq(Msgs)]
           /\ \A in \in Callers, o \in ToSet(Outputs) : Got(in, o)' = Got(in, o) /\ InScriptOrder(in, o)'
           /\ \A in \in Callers : \A p \in DOMAIN Script[in], k \in DOMAIN Outputs :
                 Gets(in, p, k)' <=> Gets(in, p, k)
<1>1. \A in \in Callers, o \in ToSet(Outputs) : Got(in, o)' = Got(in, o)
  BY DEF Got
<1>2. \A in \in Callers, o \in ToSet(Outputs) : InScriptOrder(in, o)'
  BY DEF StepInv, Alone, InScriptOrder
<1>3. \A k \in DOMAIN Outputs : Outputs[k] \in ToSet(Outputs)
  BY DEF ToSet
<1>4. QED
  BY <1>1, <1>2, <1>3 DEF StepInv, Gets

\* Steps that concern no copier.
LEMMA NoStep ==
    ASSUME EmitterInv, StepInv, UNCHANGED <<started, stream, copier, taken>>
    PROVE  StepInv'
<1>1. \A in \in Callers : Alone(in)'
  BY SameTaken, AloneStays DEF StepInv
<1>2. Unstarted'
  BY DEF StepInv, Unstarted
<1>3. QED
  BY <1>1, <1>2 DEF StepInv

\* A copier starts with nothing read and nothing taken.
LEMMA StartStep == ASSUME EmitterInv, StepInv, StartCopier PROVE StepInv'
<1>1. DOMAIN Inputs = 1 .. Len(Inputs) /\ Len(Inputs) \in Nat
  BY EmitterAssumption
<1>2. started \in 0 .. Len(Inputs) /\ started < Len(Inputs)
  BY DEF StartCopier, StepInv, Unstarted
<1>3. PICK n \in DOMAIN Inputs : n = started + 1
  BY <1>1, <1>2
<1>4. PICK in \in Callers : in = Inputs[n]
  BY EmitterAssumption DEF ToSet
<1>5. /\ started' = n /\ copier' = [copier EXCEPT ![in] = [pc |-> "read"]]
      /\ UNCHANGED <<stream, taken>>
  BY <1>3, <1>4 DEF StartCopier
<1>6. started \in Nat /\ n \in 0 .. Len(Inputs) /\ n > started
  BY <1>1, <1>2, <1>3
<1>7. copier[in].pc = "unstarted"
  BY <1>6, <1>4 DEF StepInv, Unstarted
<1>8. copier'[in] = [pc |-> "read"] /\ \A other \in Callers \ {in} : copier'[other] = copier[other]
  BY <1>5, <1>4 DEF EmitterInv, Composed
<1>9. \A other \in Callers \ {in} : Alone(other)'
  BY <1>5, <1>8, SameTaken, AloneStays DEF StepInv
<1>10. Alone(in) /\ Cursor(in) = 0
  BY <1>4, <1>7 DEF StepInv, Alone
<1>11. Alone(in)'
  <2>1. Cursor(in)' = 0
    BY <1>5, <1>10 DEF Cursor
  <2>2. StreamIs(in)' /\ Holds(in)'
    BY <1>5, <1>8, <1>10, <2>1 DEF Alone, StreamIs, Holds
  <2>3. \A p \in DOMAIN Script[in] : p > 0
    BY <1>4, Scripts
  <2>4. Places(in)'
    <3>1. \A p \in DOMAIN Script[in], k \in DOMAIN Outputs : Gets(in, p, k)' <=> Gets(in, p, k)
      BY <1>5, <1>4, SameTaken
    <3>2. \A p \in DOMAIN Script[in] : p \in Int /\ ~ (p < 0) /\ p # 0
      BY <1>4, <2>3, Scripts
    <3>3. QED
      BY <1>10, <2>1, <3>1, <3>2 DEF Alone, Places
  <2>5. \A o \in ToSet(Outputs) : InScriptOrder(in, o)'
    BY <1>5, <1>4, SameTaken
  <2>6. QED
    BY <1>8, <2>1, <2>2, <2>4, <2>5 DEF Alone
<1>12. Unstarted'
  <2> SUFFICES ASSUME NEW i \in DOMAIN Inputs, i > n PROVE copier'[Inputs[i]].pc = "unstarted"
    BY <1>5, <1>6 DEF Unstarted
  <2>1. i # n /\ i > started
    BY <1>1, <1>6
  <2>2. Inputs[i] # in /\ Inputs[i] \in Callers
    BY <1>4, <2>1, EmitterAssumption DEF IsInjective, ToSet
  <2>3. QED
    BY <1>8, <2>1, <2>2 DEF StepInv, Unstarted
<1>13. QED
  <2>1. \A one \in Callers : Alone(one)'
    BY <1>9, <1>11
  <2>2. QED
    BY <1>5, <1>12, <2>1, SameTaken DEF StepInv

\* What a Read reads is the next payload of the script.
LEMMA ReadNext ==
    ASSUME EmitterInv, StepInv, NEW in \in Callers, stream[in] # <<>>,
           stream' = [stream EXCEPT ![in] = Tail(stream[in])]
    PROVE  /\ Head(stream[in]) \in Msgs
           /\ Cursor(in)' = Cursor(in) + 1
           /\ Cursor(in) + 1 \in DOMAIN Script[in]
           /\ Head(stream[in]) = Script[in][Cursor(in) + 1]
<1> DEFINE c == Cursor(in)
           a == Len(Script[in])
           b == Len(stream[in])
           rest == Tail(stream[in])
<1>1. stream[in] \in Seq(Msgs) /\ b \in Nat /\ DOMAIN stream[in] = 1 .. b
  BY Streams
<1>2. b >= 1 /\ Head(stream[in]) = stream[in][1] /\ Head(stream[in]) \in Msgs /\ Len(rest) = b - 1
  BY <1>1, HeadTailProperties, EmptySeq, LenProperties
<1>3. /\ b <= a /\ c = a - b
      /\ \A i \in DOMAIN stream[in] : stream[in][i] = Script[in][c + i]
  BY DEF StepInv, Alone, StreamIs, Cursor
<1>4. a \in Nat /\ DOMAIN Script[in] = 1 .. a
  BY Scripts
<1>5. Cursor(in)' = a - Len(rest)
  BY DEF EmitterInv, Composed, Cursor
<1> HIDE DEF a, b, c, rest
<1>6. a - (b - 1) = c + 1 /\ c + 1 \in 1 .. a /\ 1 \in 1 .. b
  BY <1>1, <1>2, <1>3, <1>4
<1>7. stream[in][1] = Script[in][c + 1]
  BY <1>1, <1>3, <1>6
<1>8. QED
  BY <1>2, <1>4, <1>5, <1>6, <1>7 DEF c

\* The payload read before is with all outputs or with none, the one read now with none.
LEMMA ReadStep == ASSUME EmitterInv, StepInv, NEW in \in Callers, Read(in) PROVE StepInv'
<1> DEFINE c == Cursor(in)
           msg == Head(stream[in])
           rest == Tail(stream[in])
<1>1. /\ copier[in].pc = "read" /\ stream[in] # <<>>
      /\ stream' = [stream EXCEPT ![in] = rest]
      /\ \/ copier' = [copier EXCEPT ![in] = [pc |-> "write", msg |-> msg, k |-> 1]]
         \/ copier' = copier
      /\ UNCHANGED <<started, taken>>
  BY DEF Read
<1>2. /\ stream[in] \in Seq(Msgs) /\ Len(stream[in]) \in Nat /\ c \in Int
      /\ DOMAIN stream[in] = 1 .. Len(stream[in])
  BY Streams
<1>3. /\ Len(stream[in]) >= 1 /\ msg = stream[in][1]
      /\ rest \in Seq(Msgs) /\ Len(rest) = Len(stream[in]) - 1 /\ DOMAIN rest = 1 .. Len(rest)
      /\ \A i \in 1 .. Len(rest) : rest[i] = stream[in][i + 1]
  BY <1>1, <1>2, HeadTailProperties, EmptySeq, LenProperties
<1> HIDE DEF msg, rest
<1>4. Alone(in)
  BY DEF StepInv
<1>5. /\ Len(stream[in]) <= Len(Script[in])
      /\ c = Len(Script[in]) - Len(stream[in])
      /\ \A i \in DOMAIN stream[in] : stream[in][i] = Script[in][c + i]
  BY <1>4 DEF Alone, StreamIs, Cursor
<1>6. Len(Script[in]) \in Nat /\ DOMAIN Script[in] = 1 .. Len(Script[in])
  BY Scripts
<1>7. /\ stream'[in] = rest /\ \A other \in Callers \ {in} : stream'[other] = stream[other]
      /\ copier'[in] = copier[in] \/ copier'[in] = [pc |-> "write", msg |-> msg, k |-> 1]
      /\ \A other \in Callers \ {in} : copier'[other] = copier[other]
  BY <1>1 DEF EmitterInv, Composed
<1>8. Cursor(in)' = c + 1 /\ c + 1 \in DOMAIN Script[in] /\ msg = Script[in][c + 1]
  BY <1>1, ReadNext DEF msg, rest
<1> HIDE DEF c
<1>9. StreamIs(in)'
  <2>1. Len(rest) <= Len(Script[in])
    BY <1>2, <1>3, <1>5, <1>6
  <2>2. ASSUME NEW i \in DOMAIN rest PROVE rest[i] = Script[in][(c + 1) + i]
    <3>1. i \in 1 .. Len(rest) /\ i + 1 \in DOMAIN stream[in] /\ c + (i + 1) = (c + 1) + i
      BY <1>2, <1>3
    <3>2. QED
      BY <1>3, <1>5, <3>1
  <2>3. QED
    BY <1>7, <1>8, <2>1, <2>2 DEF StreamIs
<1>10. Holds(in)'
  BY <1>1, <1>7, <1>8 DEF Holds
<1>11. \A p \in DOMAIN Script[in], k \in DOMAIN Outputs : Gets(in, p, k)' <=> Gets(in, p, k)
  BY <1>1, SameTaken
<1>12. Places(in)'
  <2> SUFFICES ASSUME NEW p \in DOMAIN Script[in]
        PROVE  /\ \A k \in DOMAIN Outputs : Gets(in, p, k)' => p <= c + 1 /\ Wanted(in, p, k)
               /\ p < c + 1 => Even(in, p)'
               /\ p = c + 1 =>
                     /\ Even(in, p)'
                     /\ copier'[in].pc # "returned"
                     /\ copier'[in].pc \in {"write", "inTCP"} =>
                           \A k \in DOMAIN Outputs :
                               Gets(in, p, k)' <=> k < copier'[in].k /\ Wanted(in, p, k)
    BY <1>8 DEF Places, Wanted
  <2>1. /\ \A k \in DOMAIN Outputs : Gets(in, p, k) => p <= c /\ Wanted(in, p, k)
        /\ p < c \/ p = c => Even(in, p)
    BY <1>1, <1>4 DEF Alone, Places, c
  <2>2. p \in Int
    BY <1>6
  <2>3. \A k \in DOMAIN Outputs : Gets(in, p, k)' => p <= c + 1 /\ Wanted(in, p, k)
    BY <1>2, <1>11, <2>1, <2>2
  <2>4. Even(in, p) => Even(in, p)'
    BY <1>11 DEF Even
  <2>5. p < c + 1 => Even(in, p)'
    BY <1>2, <2>1, <2>2, <2>4
  <2>6. ASSUME p = c + 1
        PROVE  /\ \A k \in DOMAIN Outputs : ~Gets(in, p, k)'
               /\ Even(in, p)'
    <3>1. ~ (p <= c)
      BY <1>2, <2>6
    <3>2. QED
      BY <1>11, <2>1, <3>1 DEF Even
  <2>7. \A k \in DOMAIN Outputs : ~ (k < 1)
    BY EmitterAssumption
  <2>8. QED
    BY <1>1, <1>7, <2>3, <2>5, <2>6, <2>7
<1>13. \A o \in ToSet(Outputs) : InScriptOrder(in, o)'
  BY <1>1, SameTaken
<1>14. Alone(in)'
  BY <1>1, <1>7, <1>9, <1>10, <1>12, <1>13 DEF Alone
<1>15. QED
  BY <1>1, <1>7, <1>14, SameTaken, OneStep

\* The copier goes on from an output, stops there, or waits in the TCP output; the
\* outputs before the K-th have the payload.
LEMMA AtOutputK ==
    ASSUME EmitterInv, StepInv, NEW in \in Callers, copier[in].pc \in {"write", "inTCP"},
           stream' = stream, NEW K \in Int,
           \A p \in DOMAIN Script[in], j \in DOMAIN Outputs :
              Gets(in, p, j)' <=> IF p = Cursor(in) THEN j < K /\ Wanted(in, p, j) ELSE Gets(in, p, j),
           \A o \in ToSet(Outputs) : InScriptOrder(in, o)',
           \/ copier'[in].pc = "returned"
           \/ copier'[in].pc = "read" /\ K > Len(Outputs)
           \/ /\ copier'[in].pc \in {"write", "inTCP"} /\ copier'[in].k = K
              /\ copier'[in].msg = copier[in].msg
              /\ copier'[in].pc = "inTCP" => Outputs[K] = "tcp" /\ Origin(copier[in].msg)
    PROVE  Alone(in)'
<1>1. Alone(in) /\ Cursor(in)' = Cursor(in)
  BY DEF StepInv, Cursor
<1>2. StreamIs(in)' /\ Holds(in)'
  BY <1>1 DEF Alone, StreamIs, Holds
<1>3. Places(in)'
  <2> SUFFICES ASSUME NEW p \in DOMAIN Script[in]
        PROVE  /\ \A k \in DOMAIN Outputs : Gets(in, p, k)' => p <= Cursor(in) /\ Wanted(in, p, k)
               /\ p < Cursor(in) => Even(in, p)'
               /\ p = Cursor(in) =>
                     /\ copier'[in].pc = "read" => Even(in, p)'
                     /\ copier'[in].pc = "returned" => Downward(in, p)'
                     /\ copier'[in].pc \in {"write", "inTCP"} =>
                           \A k \in DOMAIN Outputs :
                               Gets(in, p, k)' <=> k < copier'[in].k /\ Wanted(in, p, k)
    BY <1>1 DEF Places, Wanted
  <2>1. p \in Int /\ Cursor(in) \in Int
    BY Scripts, Streams
  <2>2. \A j \in DOMAIN Outputs : j \in Int /\ j <= Len(Outputs) /\ Len(Outputs) \in Int
    BY EmitterAssumption
  <2>3. CASE p = Cursor(in)
    <3>1. \A j \in DOMAIN Outputs : Gets(in, p, j)' <=> j < K /\ Wanted(in, p, j)
      BY <2>3
    <3>2. copier'[in].pc = "read" => Even(in, p)'
      <4>1. copier'[in].pc = "read" => \A j \in DOMAIN Outputs : j < K
        BY <2>2
      <4>2. QED
        BY <3>1, <4>1 DEF Even, Wanted
    <3>3. Downward(in, p)'
      BY <2>2, <3>1 DEF Downward, Wanted
    <3>4. QED
      BY <2>1, <2>3, <3>1, <3>2, <3>3
  <2>4. CASE p # Cursor(in)
    <3>1. \A j \in DOMAIN Outputs : Gets(in, p, j)' <=> Gets(in, p, j)
      BY <2>4
    <3>2. /\ \A k \in DOMAIN Outputs : Gets(in, p, k) => p <= Cursor(in) /\ Wanted(in, p, k)
          /\ p < Cursor(in) => Even(in, p)
      BY <1>1 DEF Alone, Places
    <3>3. Even(in, p) => Even(in, p)'
      BY <3>1 DEF Even, Wanted
    <3>4. QED
      BY <2>4, <3>1, <3>2, <3>3
  <2>5. QED
    BY <2>3, <2>4
<1>4. copier'[in].pc # "unstarted"
  OBVIOUS
<1>5. QED
  BY <1>2, <1>3, <1>4 DEF Alone

\* Where Written and WriteError leave the copier.
LEMMA GoesOn ==
    ASSUME EmitterInv, NEW in \in Callers, copier[in].pc \in {"write", "inTCP"},
           NEW at, copier' = [copier EXCEPT ![in] = at], at = Written(in) \/ at = WriteError(in)
    PROVE  /\ copier[in].k \in DOMAIN Outputs /\ copier[in].k \in Int /\ copier[in].msg \in Msgs
           /\ \A other \in Callers \ {in} : copier'[other] = copier[other]
           /\ \/ copier'[in].pc = "returned"
              \/ copier'[in].pc = "read" /\ copier[in].k + 1 > Len(Outputs)
              \/ /\ copier'[in].pc \in {"write", "inTCP"} /\ copier'[in].k = copier[in].k + 1
                 /\ copier'[in].msg = copier[in].msg
                 /\ copier'[in].pc # "inTCP"
<1>1. /\ copier[in] \in [pc : {"write", "inTCP"}, msg : Msgs, k : DOMAIN Outputs]
      /\ Written(in).pc \in {"read", "write"}
      /\ Written(in).pc = "write" => /\ Written(in).msg = copier[in].msg
                                     /\ Written(in).k = copier[in].k + 1
  BY WrittenBehind
<1>2. copier'[in] = at /\ \A other \in Callers \ {in} : copier'[other] = copier[other]
  BY DEF EmitterInv, Composed
<1>3. copier[in].k \in Int /\ Len(Outputs) \in Int
  BY <1>1, EmitterAssumption
<1>4. Written(in).pc = "read" => copier[in].k + 1 > Len(Outputs)
  <2>1. CASE copier[in].k = Len(Outputs)
    BY <1>3, <2>1
  <2>2. CASE copier[in].k # Len(Outputs)
    BY <1>1, <2>2 DEF Written
  <2>3. QED
    BY <2>1, <2>2
<1>5. WriteError(in).pc = "returned"
  BY DEF WriteError
<1>6. QED
  BY <1>1, <1>2, <1>3, <1>4, <1>5

\* The places of the payload a copier holds.
LEMMA HeldPlaces ==
    ASSUME EmitterInv, StepInv, NEW in \in Callers, copier[in].pc \in {"write", "inTCP"}
    PROVE  /\ Cursor(in) \in DOMAIN Script[in] /\ copier[in].msg = Script[in][Cursor(in)]
           /\ \A j \in DOMAIN Outputs :
                 Gets(in, Cursor(in), j) <=> j < copier[in].k /\ Wanted(in, Cursor(in), j)
<1>1. Cursor(in) \in DOMAIN Script[in] /\ copier[in].msg = Script[in][Cursor(in)]
  BY DEF StepInv, Alone, Holds
<1>2. QED
  BY <1>1 DEF StepInv, Alone, Places

\* The output takes the payload.
LEMMA TakeStep ==
    ASSUME EmitterInv, StepInv, NEW in \in Callers, copier[in].pc \in {"write", "inTCP"},
           Wanted(in, Cursor(in), copier[in].k),
           NEW at, copier' = [copier EXCEPT ![in] = at], at = Written(in) \/ at = WriteError(in),
           taken' = [taken EXCEPT ![Outputs[copier[in].k]] = Append(@, copier[in].msg)],
           UNCHANGED <<stream, started>>
    PROVE  StepInv'
<1>1. PICK k \in DOMAIN Outputs : k = copier[in].k
  BY GoesOn
<1>2. /\ taken' \in [ToSet(Outputs) -> Seq(Msgs)]
      /\ \A other \in Callers \ {in}, o \in ToSet(Outputs) :
            Got(other, o)' = Got(other, o) /\ InScriptOrder(other, o)'
      /\ \A o \in ToSet(Outputs) : InScriptOrder(in, o)'
      /\ \A p \in DOMAIN Script[in], j \in DOMAIN Outputs :
            Gets(in, p, j)' <=> Gets(in, p, j) \/ (p = Cursor(in) /\ j = k)
  BY <1>1, Takes
<1>3. k \in Int /\ \A j \in DOMAIN Outputs : j \in Int
  BY EmitterAssumption
<1>4. ASSUME NEW p \in DOMAIN Script[in], NEW j \in DOMAIN Outputs
      PROVE  Gets(in, p, j)' <=> IF p = Cursor(in) THEN j < k + 1 /\ Wanted(in, p, j) ELSE Gets(in, p, j)
  <2>1. CASE p = Cursor(in)
    <3>1. Gets(in, p, j) <=> j < k /\ Wanted(in, p, j)
      BY <1>1, <2>1, HeldPlaces
    <3>2. Wanted(in, p, k)
      BY <1>1, <2>1
    <3>3. j < k + 1 <=> j < k \/ j = k
      BY <1>3
    <3>4. Gets(in, p, j)' <=> Gets(in, p, j) \/ j = k
      BY <1>2, <2>1
    <3>5. QED
      BY <2>1, <3>1, <3>2, <3>3, <3>4
  <2>2. CASE p # Cursor(in)
    BY <1>2, <2>2
  <2>3. QED
    BY <2>1, <2>2
<1>5. Alone(in)'
  <2>1. k + 1 \in Int
    BY <1>3
  <2>2. \/ copier'[in].pc = "returned"
        \/ copier'[in].pc = "read" /\ k + 1 > Len(Outputs)
        \/ /\ copier'[in].pc \in {"write", "inTCP"} /\ copier'[in].k = k + 1
           /\ copier'[in].msg = copier[in].msg
           /\ copier'[in].pc # "inTCP"
    BY <1>1, GoesOn
  <2>3. QED
    BY <1>2, <1>4, <2>1, <2>2, AtOutputK
<1>6. \A other \in Callers \ {in} : copier'[other] = copier[other]
  BY GoesOn
<1>7. QED
  BY <1>2, <1>5, <1>6, OneStep

\* Nothing is taken: the TCP output skips the payload or is yet to have room for it,
\* or a closed output refuses it.
LEMMA NotTaken ==
    ASSUME EmitterInv, StepInv, NEW in \in Callers, copier[in].pc \in {"write", "inTCP"},
           taken' = taken, UNCHANGED <<stream, started>>,
           \A other \in Callers \ {in} : copier'[other] = copier[other],
           NEW K \in {copier[in].k, copier[in].k + 1},
           K = copier[in].k \/ ~Wanted(in, Cursor(in), copier[in].k),
           \/ copier'[in].pc = "returned"
           \/ copier'[in].pc = "read" /\ K > Len(Outputs)
           \/ /\ copier'[in].pc \in {"write", "inTCP"} /\ copier'[in].k = K
              /\ copier'[in].msg = copier[in].msg
              /\ copier'[in].pc = "inTCP" => Outputs[K] = "tcp" /\ Origin(copier[in].msg)
    PROVE  StepInv'
<1>1. copier[in].k \in Int /\ K \in Int /\ \A j \in DOMAIN Outputs : j \in Int
  BY WrittenBehind, EmitterAssumption
<1>2. ASSUME NEW p \in DOMAIN Script[in], NEW j \in DOMAIN Outputs
      PROVE  Gets(in, p, j)' <=> IF p = Cursor(in) THEN j < K /\ Wanted(in, p, j) ELSE Gets(in, p, j)
  <2>1. Gets(in, p, j)' <=> Gets(in, p, j)
    BY SameTaken
  <2>2. CASE p = Cursor(in)
    <3>1. Gets(in, p, j) <=> j < copier[in].k /\ Wanted(in, p, j)
      BY <2>2, HeldPlaces
    <3>2. CASE K = copier[in].k
      BY <2>1, <2>2, <3>1, <3>2
    <3>3. CASE K = copier[in].k + 1 /\ ~Wanted(in, Cursor(in), copier[in].k)
      <4>1. j < K <=> j < copier[in].k \/ j = copier[in].k
        BY <1>1, <3>3
      <4>2. j = copier[in].k => ~Wanted(in, p, j)
        BY <2>2, <3>3
      <4>3. QED
        BY <2>1, <2>2, <3>1, <4>1, <4>2
    <3>4. QED
      BY <3>2, <3>3
  <2>3. CASE p # Cursor(in)
    BY <2>1, <2>3
  <2>4. QED
    BY <2>2, <2>3
<1>3. Alone(in)'
  <2>1. \A o \in ToSet(Outputs) : InScriptOrder(in, o)'
    BY SameTaken
  <2>2. QED
    BY <1>1, <1>2, <2>1, AtOutputK
<1>4. QED
  BY <1>3, SameTaken, OneStep

\* The actions of a copier: it reads, an output takes the payload, or none does.
LEMMA CopyStep == ASSUME EmitterInv, StepInv, NEW in \in Callers, Copy(in) PROVE StepInv'
<1> DEFINE k == copier[in].k
           c == Cursor(in)
<1>1. CASE Read(in)
  BY <1>1, ReadStep
<1>2. CASE ReadStops(in)
  <2>1. /\ copier[in].pc = "read" /\ copier' = [copier EXCEPT ![in] = [pc |-> "returned"]]
        /\ UNCHANGED <<started, stream, taken>>
    BY <1>2 DEF ReadStops
  <2>2. copier'[in] = [pc |-> "returned"] /\ \A other \in Callers \ {in} : copier'[other] = copier[other]
    BY <2>1 DEF EmitterInv, Composed
  <2>3. Alone(in) /\ Cursor(in)' = Cursor(in)
    BY <2>1 DEF StepInv, Cursor
  <2>4. StreamIs(in)' /\ Holds(in)'
    BY <2>1, <2>2, <2>3 DEF Alone, StreamIs, Holds
  <2>5. \A p \in DOMAIN Script[in], j \in DOMAIN Outputs : Gets(in, p, j)' <=> Gets(in, p, j)
    BY <2>1, SameTaken
  <2>6. \A p \in DOMAIN Script[in] : (Even(in, p) => Even(in, p)' /\ Downward(in, p)')
    BY <2>5 DEF Even, Downward, Wanted
  <2>7. Places(in)'
    BY <2>1, <2>2, <2>3, <2>5, <2>6 DEF Alone, Places, Wanted
  <2>8. Alone(in)'
    <3>1. \A o \in ToSet(Outputs) : InScriptOrder(in, o)'
      BY <2>1, SameTaken
    <3>2. copier'[in].pc # "unstarted"
      BY <2>2
    <3>3. QED
      BY <2>4, <2>7, <3>1, <3>2 DEF Alone
  <2>9. QED
    BY <2>1, <2>2, <2>8, SameTaken, OneStep
<1>3. CASE WriteTCP(in)
  <2>1. /\ copier[in].pc = "write" /\ Outputs[k] = "tcp" /\ UNCHANGED <<started, stream, taken>>
        /\ IF Origin(copier[in].msg)
           THEN copier' = [copier EXCEPT ![in].pc = "inTCP"]
           ELSE copier' = [copier EXCEPT ![in] = Written(in)]
    BY <1>3 DEF WriteTCP, AtOutput
  <2>2. CASE Origin(copier[in].msg)
    <3>1. copier[in] \in [pc : {"write", "inTCP"}, msg : Msgs, k : DOMAIN Outputs]
      BY <2>1, WrittenBehind
    <3>2. /\ copier'[in].pc = "inTCP" /\ copier'[in].msg = copier[in].msg /\ copier'[in].k = k
          /\ \A other \in Callers \ {in} : copier'[other] = copier[other]
      BY <2>1, <2>2, <3>1 DEF EmitterInv, Composed
    <3>3. QED
      BY <2>1, <2>2, <3>2, NotTaken
  <2>3. CASE ~Origin(copier[in].msg)
    <3>1. ~Wanted(in, c, k)
      BY <2>1, <2>3, HeldPlaces DEF Wanted
    <3>2. /\ \A other \in Callers \ {in} : copier'[other] = copier[other]
          /\ \/ copier'[in].pc = "returned"
             \/ copier'[in].pc = "read" /\ k + 1 > Len(Outputs)
             \/ /\ copier'[in].pc \in {"write", "inTCP"} /\ copier'[in].k = k + 1
                /\ copier'[in].msg = copier[in].msg
                /\ copier'[in].pc # "inTCP"
      BY <2>1, <2>3, GoesOn
    <3>3. QED
      BY <2>1, <3>1, <3>2, NotTaken
  <2>4. QED
    BY <2>2, <2>3
<1>4. CASE WriteTCPReturns(in)
  <2>1. /\ copier[in].pc = "inTCP" /\ copier' = [copier EXCEPT ![in] = Written(in)]
        /\ taken' = [taken EXCEPT !["tcp"] = Append(@, copier[in].msg)]
        /\ UNCHANGED <<stream, started>>
    BY <1>4 DEF WriteTCPReturns
  <2>2. Outputs[k] = "tcp" /\ Origin(copier[in].msg)
    BY <2>1 DEF StepInv, Alone, Holds
  <2>3. Wanted(in, c, k)
    BY <2>1, <2>2, HeldPlaces DEF Wanted
  <2>4. QED
    BY <2>1, <2>2, <2>3, TakeStep
<1>5. ASSUME NEW o \in ToSet(Outputs), Write(in, o) PROVE StepInv'
  <2>1. /\ copier[in].pc = "write" /\ Outputs[k] = o /\ o # "tcp"
        /\ taken' = [taken EXCEPT ![o] = Append(@, copier[in].msg)]
        /\ \/ copier' = [copier EXCEPT ![in] = Written(in)]
           \/ copier' = [copier EXCEPT ![in] = WriteError(in)]
        /\ UNCHANGED <<stream, started>>
    BY <1>5 DEF Write, AtOutput
  <2>2. Wanted(in, c, k)
    BY <2>1 DEF Wanted
  <2>3. QED
    BY <2>1, <2>2, TakeStep
<1>6. ASSUME NEW o \in ToSet(Outputs), WriteRefused(in, o) PROVE StepInv'
  <2>1. /\ copier[in].pc = "write" /\ copier' = [copier EXCEPT ![in] = WriteError(in)]
        /\ UNCHANGED <<stream, started, taken>>
    BY <1>6 DEF WriteRefused, AtOutput
  <2>2. copier'[in].pc = "returned" /\ \A other \in Callers \ {in} : copier'[other] = copier[other]
    BY <2>1 DEF EmitterInv, Composed, WriteError
  <2>3. QED
    BY <2>1, <2>2, NotTaken
<1>7. QED
  BY <1>1, <1>2, <1>3, <1>4, <1>5, <1>6 DEF Copy

\* At first nothing is read.
LEMMA StepInvAtFirst == EmitterInit => StepInv
<1> SUFFICES ASSUME EmitterInit PROVE StepInv
  OBVIOUS
<1>1. /\ stream = Script /\ started = 0 /\ copier = [in \in Callers |-> [pc |-> "unstarted"]]
      /\ taken = [o \in ToSet(Outputs) |-> <<>>]
  BY DEF EmitterInit
<1>2. taken \in [ToSet(Outputs) -> Seq(Msgs)] /\ \A o \in ToSet(Outputs) : taken[o] = <<>>
  BY <1>1, EmptySeq
<1>3. \A k \in DOMAIN Outputs : Outputs[k] \in ToSet(Outputs)
  BY DEF ToSet
<1>4. \A i \in DOMAIN Inputs : Inputs[i] \in Callers
  BY EmitterAssumption DEF ToSet
<1>5. ASSUME NEW in \in Callers PROVE Alone(in)
  <2>1. copier[in].pc = "unstarted" /\ stream[in] = Script[in]
    BY <1>1
  <2>2. Len(Script[in]) \in Nat /\ DOMAIN Script[in] = 1 .. Len(Script[in])
    BY Scripts
  <2>3. Cursor(in) = 0
    BY <2>1, <2>2 DEF Cursor
  <2>4. StreamIs(in)
    BY <2>1, <2>2, <2>3 DEF StreamIs
  <2>5. Holds(in)
    BY <2>1 DEF Holds
  <2>6. \A p \in DOMAIN Script[in] : ~ (p < 0) /\ p # 0
    BY <2>2
  <2>7. \A p \in DOMAIN Script[in], k \in DOMAIN Outputs : ~Gets(in, p, k)
    BY <1>2, <1>3 DEF Gets, Got, ToSet
  <2>8. Places(in)
    BY <2>3, <2>6, <2>7 DEF Places
  <2>9. \A o \in ToSet(Outputs) : InScriptOrder(in, o)
    BY <1>2 DEF InScriptOrder
  <2>10. QED
    BY <2>3, <2>4, <2>5, <2>8, <2>9 DEF Alone
<1>6. Unstarted
  BY <1>1, <1>4, EmitterAssumption DEF Unstarted
<1>7. QED
  BY <1>2, <1>5, <1>6 DEF StepInv

\* Where payloads are is known after every step.
LEMMA StepInvStays == EmitterInv /\ StepInv /\ [EmitterNext]_emitterVars => StepInv'
<1> SUFFICES ASSUME EmitterInv, StepInv, [EmitterNext]_emitterVars PROVE StepInv'
  OBVIOUS
<1>1. CASE StartCopier
  BY <1>1, StartStep
<1>2. ASSUME NEW in \in Callers, Copy(in) PROVE StepInv'
  BY <1>2, CopyStep
<1>3. CASE \/ Install \/ CloseStarts \/ CloseOne \/ CloseReturns \/ TCPWorks \/ UNCHANGED emitterVars
           \/ \E in \in Callers, id \in Ids : Expire(in, id)
  <2>1. UNCHANGED <<started, stream, copier, taken>>
    BY <1>3 DEF Install, CloseStarts, CloseOne, CloseReturns, Expire, TCPWorks, emitterVars
  <2>2. QED
    BY <2>1, NoStep
<1>4. QED
  BY <1>1, <1>2, <1>3 DEF EmitterNext

\* CopyMulty: whatever outputs are full, closed or wait for the aggregator, each gets
\* what an input delivers in the same order, and no two are ever more than the one
\* payload apart that the copier holds.
THEOREM OutputsInStep == EmitterSpec => []InStep
<1>1. EmitterInv /\ StepInv => InStep
  BY StepFollows
<1>2. QED
  BY <1>1, EmitterInvariance, StepInvAtFirst, StepInvStays, PTL DEF EmitterSpec

-----------------------------------------------------------------------------
(* Responses follow their requests *)

Busy(in) == copier[in].pc \in {"write", "inTCP"}

\* No output has it, and none will.
Dropped(in, s) ==
    /\ \A k \in DOMAIN Outputs : ~Gets(in, s, k)
    /\ s = Cursor(in) => ~Busy(in)

\* A rejected request is in the cache until its response is read, which is dropped,
\* unless it expires; one that passes goes to every output before its copier reads on.
Remembers(in) ==
    \A r, s \in DOMAIN Script[in] : Exchange(in, r, s) /\ r <= Cursor(in) =>
        /\ Script[in][r] \in Rejected =>
              \/ filtered[in][Id[Script[in][r]]] = "expired"
              \/ s <= Cursor(in) /\ Dropped(in, s)
              \/ s > Cursor(in) /\ filtered[in][Id[Script[in][r]]] = "in"
        /\ Script[in][r] \notin Rejected \cup Unpretty /\ (r < Cursor(in) \/ copier[in].pc = "read") =>
              \A k \in DOMAIN Outputs : Gets(in, r, k)

\* What an output has taken some input has delivered.
Sourced ==
    \A o \in ToSet(Outputs) : \A j \in DOMAIN taken[o] :
        \E in \in Callers : \E p \in DOMAIN Script[in] : taken[o][j] = Script[in][p]

CacheInv ==
    /\ filtered \in [Callers -> [Ids -> {"out", "in", "expired"}]]
    /\ Sourced
    /\ \A in \in Callers : Remembers(in)

\* An output that has a response has its request, unless the cache forgot it, and by the order
\* of the script has it before.
LEMMA ResponsesFollow ==
    ASSUME Exchanged, EmitterInv, StepInv, CacheInv PROVE ResponsesHaveRequests
<1> SUFFICES ASSUME NEW o \in ToSet(Outputs), NEW j \in DOMAIN taken[o],
                    Kind[taken[o][j]] = "response"
             PROVE  \E req \in Msgs :
                       /\ Id[req] = Id[taken[o][j]] /\ Kind[req] = "request"
                       /\ \/ \E i \in 1 .. j - 1 : taken[o][i] = req
                          \/ req \in Unpretty
                          \/ \E in \in Callers : filtered[in][Id[req]] = "expired"
  BY DEF ResponsesHaveRequests
<1>1. PICK in \in Callers : \E s \in DOMAIN Script[in] : taken[o][j] = Script[in][s]
  BY DEF CacheInv, Sourced
<1>2. PICK s \in DOMAIN Script[in] : taken[o][j] = Script[in][s]
  BY <1>1
<1>3. PICK r \in DOMAIN Script[in] : Exchange(in, r, s)
  BY <1>2 DEF Exchanged
<1>4. PICK k \in DOMAIN Outputs : Outputs[k] = o
  BY DEF ToSet
<1>5. Gets(in, s, k)
  BY <1>2, <1>4 DEF Gets, Got, ToSet
<1>6. r < s /\ s <= Cursor(in) /\ r \in Int /\ s \in Int /\ Cursor(in) \in Int
  BY <1>3, <1>5, Scripts, Streams DEF StepInv, Alone, Places, Exchange
<1>7. r < Cursor(in) /\ r <= Cursor(in)
  BY <1>6
<1> DEFINE req == Script[in][r]
<1>8. req \in Msgs /\ Id[req] = Id[taken[o][j]] /\ Kind[req] = "request"
  BY <1>2, <1>3, Scripts, ElementOfSeq DEF Exchange
<1>9. Remembers(in)
  BY DEF CacheInv
<1>10. CASE req \in Unpretty
  BY <1>8, <1>10
<1>11. CASE req \in Rejected
  <2>1. filtered[in][Id[req]] = "expired"
    BY <1>3, <1>5, <1>6, <1>7, <1>9, <1>11 DEF Remembers, Dropped
  <2>2. QED
    BY <1>8, <2>1
<1>12. CASE req \notin Rejected \cup Unpretty
  <2>1. Gets(in, r, k)
    BY <1>3, <1>7, <1>9, <1>12 DEF Remembers
  <2>2. PICK i \in DOMAIN taken[o] : taken[o][i] = req
    BY <1>4, <2>1 DEF Gets, Got, ToSet
  <2>3. InScriptOrder(in, o)
    BY DEF StepInv, Alone
  <2>4. DOMAIN taken[o] = 1 .. Len(taken[o]) /\ Len(taken[o]) \in Nat
    BY LenProperties DEF StepInv
  <2>5. ~ (j < i)
    <3>1. j < i => s < r
      BY <1>2, <2>2, <2>3 DEF InScriptOrder
    <3>2. QED
      BY <1>6, <3>1
  <2>6. i # j
    BY <1>2, <1>6, <2>2, Scripts
  <2>7. i \in 1 .. j - 1
    BY <2>4, <2>5, <2>6
  <2>8. QED
    BY <1>8, <2>2, <2>7
<1>13. QED
  BY <1>10, <1>11, <1>12

\* Nothing happens to one input.
LEMMA RemembersStays ==
    ASSUME NEW in \in Callers, Remembers(in),
           stream'[in] = stream[in], copier'[in] = copier[in],
           filtered'[in] = filtered[in],
           \A o \in ToSet(Outputs) : Got(in, o)' = Got(in, o)
    PROVE  Remembers(in)'
<1>1. Cursor(in)' = Cursor(in)
  BY DEF Cursor
<1>2. \A p \in DOMAIN Script[in], k \in DOMAIN Outputs : Gets(in, p, k)' = Gets(in, p, k)
  BY DEF Gets, ToSet
<1>3. \A s \in DOMAIN Script[in] : Dropped(in, s) => Dropped(in, s)'
  BY <1>1, <1>2 DEF Dropped, Busy
<1>4. QED
  BY <1>1, <1>2, <1>3 DEF Remembers, Exchange

\* The copier of an input goes on from an output.
LEMMA RemembersOn ==
    ASSUME EmitterInv, NEW in \in Callers, Remembers(in),
           stream'[in] = stream[in], filtered'[in] = filtered[in],
           \A p \in DOMAIN Script[in], k \in DOMAIN Outputs :
              /\ Gets(in, p, k) => Gets(in, p, k)'
              /\ Gets(in, p, k)' => Gets(in, p, k) \/ (p = Cursor(in) /\ Busy(in)),
           Busy(in)' => Busy(in),
           copier'[in].pc = "read" =>
              \/ copier[in].pc = "read"
              \/ \A p \in DOMAIN Script[in], k \in DOMAIN Outputs :
                    p = Cursor(in) /\ Wanted(in, p, k) => Gets(in, p, k)'
    PROVE  Remembers(in)'
<1>1. Cursor(in)' = Cursor(in) /\ Cursor(in) \in Int
  BY Streams DEF Cursor
<1>2. \A s \in DOMAIN Script[in] : Dropped(in, s) => Dropped(in, s)'
  BY <1>1 DEF Dropped
<1> SUFFICES ASSUME NEW r \in DOMAIN Script[in], NEW s \in DOMAIN Script[in],
                    Exchange(in, r, s), r <= Cursor(in)
             PROVE  /\ Script[in][r] \in Rejected =>
                          \/ filtered[in][Id[Script[in][r]]] = "expired"
                          \/ s <= Cursor(in) /\ Dropped(in, s)'
                          \/ s > Cursor(in) /\ filtered[in][Id[Script[in][r]]] = "in"
                    /\ Script[in][r] \notin Rejected \cup Unpretty /\ (r < Cursor(in) \/ copier'[in].pc = "read") =>
                          \A k \in DOMAIN Outputs : Gets(in, r, k)'
  BY <1>1 DEF Remembers, Exchange
<1>3. /\ Script[in][r] \in Rejected =>
            \/ filtered[in][Id[Script[in][r]]] = "expired"
            \/ s <= Cursor(in) /\ Dropped(in, s)
            \/ s > Cursor(in) /\ filtered[in][Id[Script[in][r]]] = "in"
      /\ Script[in][r] \notin Rejected \cup Unpretty /\ (r < Cursor(in) \/ copier[in].pc = "read") =>
            \A k \in DOMAIN Outputs : Gets(in, r, k)
  BY DEF Remembers
<1>4. r \in Int /\ (r < Cursor(in) \/ r = Cursor(in))
  BY <1>1, Scripts
<1>5. \A k \in DOMAIN Outputs : Wanted(in, r, k)
  BY DEF Exchange, Wanted, Origin
<1>6. ASSUME Script[in][r] \notin Rejected \cup Unpretty, r < Cursor(in) \/ copier'[in].pc = "read",
             NEW k \in DOMAIN Outputs
      PROVE  Gets(in, r, k)'
  <2>1. CASE r < Cursor(in) \/ copier[in].pc = "read"
    BY <1>3, <1>6, <2>1
  <2>2. CASE r = Cursor(in) /\ copier'[in].pc = "read" /\ copier[in].pc # "read"
    BY <1>5, <2>2
  <2>3. QED
    BY <1>1, <1>4, <1>6, <2>1, <2>2
<1>7. QED
  BY <1>2, <1>3, <1>6

\* What a step of a copier does that is no Read: one output takes the payload, or none.
Goes(in) ==
    /\ UNCHANGED <<stream, filtered>>
    /\ \A other \in Callers \ {in} : copier'[other] = copier[other]
    /\ \A other \in Callers \ {in}, o \in ToSet(Outputs) : Got(other, o)' = Got(other, o)
    /\ \A p \in DOMAIN Script[in], k \in DOMAIN Outputs :
          /\ Gets(in, p, k) => Gets(in, p, k)'
          /\ Gets(in, p, k)' => Gets(in, p, k) \/ (p = Cursor(in) /\ Busy(in))
    /\ Busy(in)' => Busy(in)
    /\ copier'[in].pc = "read" =>
          \A p \in DOMAIN Script[in], k \in DOMAIN Outputs :
              p = Cursor(in) /\ Wanted(in, p, k) => Gets(in, p, k)'

\* When an output takes the payload.
LEMMA GoesTaking ==
    ASSUME EmitterInv, StepInv, NEW in \in Callers, Busy(in), UNCHANGED <<stream, filtered>>,
           NEW at, copier' = [copier EXCEPT ![in] = at], at = Written(in) \/ at = WriteError(in),
           taken' = [taken EXCEPT ![Outputs[copier[in].k]] = Append(@, copier[in].msg)]
    PROVE  Goes(in)
<1>1. PICK k \in DOMAIN Outputs : k = copier[in].k
  BY GoesOn DEF Busy
<1>2. /\ \A other \in Callers \ {in}, o \in ToSet(Outputs) : Got(other, o)' = Got(other, o)
      /\ \A p \in DOMAIN Script[in], j \in DOMAIN Outputs :
            Gets(in, p, j)' <=> Gets(in, p, j) \/ (p = Cursor(in) /\ j = k)
  BY <1>1, Takes DEF Busy
<1>3. /\ \A other \in Callers \ {in} : copier'[other] = copier[other]
      /\ copier'[in].pc = "read" => k + 1 > Len(Outputs)
  BY <1>1, GoesOn DEF Busy
<1>4. k \in Int /\ \A j \in DOMAIN Outputs : j \in Int /\ j <= Len(Outputs) /\ Len(Outputs) \in Int
  BY EmitterAssumption
<1>5. ASSUME copier'[in].pc = "read", NEW p \in DOMAIN Script[in], NEW j \in DOMAIN Outputs,
             p = Cursor(in), Wanted(in, p, j)
      PROVE  Gets(in, p, j)'
  <2>1. j < k \/ j = k
    BY <1>3, <1>4, <1>5
  <2>2. j < k => Gets(in, p, j)
    BY <1>1, <1>5, HeldPlaces DEF Busy
  <2>3. QED
    BY <1>2, <1>5, <2>1, <2>2
<1>6. QED
  BY <1>2, <1>3, <1>5 DEF Goes

\* When none takes it: the copier stops, waits in the TCP output or is skipped by it.
LEMMA GoesLeaving ==
    ASSUME EmitterInv, StepInv, NEW in \in Callers, UNCHANGED <<stream, filtered, taken>>,
           \A other \in Callers \ {in} : copier'[other] = copier[other],
           Busy(in)' => Busy(in),
           copier'[in].pc = "read" =>
              Busy(in) /\ ~Wanted(in, Cursor(in), copier[in].k) /\ copier[in].k + 1 > Len(Outputs)
    PROVE  Goes(in)
<1>1. /\ \A other \in Callers \ {in}, o \in ToSet(Outputs) : Got(other, o)' = Got(other, o)
      /\ \A p \in DOMAIN Script[in], j \in DOMAIN Outputs : Gets(in, p, j)' <=> Gets(in, p, j)
  BY SameTaken
<1>2. ASSUME copier'[in].pc = "read", NEW p \in DOMAIN Script[in], NEW j \in DOMAIN Outputs,
             p = Cursor(in), Wanted(in, p, j)
      PROVE  Gets(in, p, j)'
  <2>1. copier[in].k \in Int /\ j \in Int /\ j <= Len(Outputs) /\ Len(Outputs) \in Int
    BY <1>2, WrittenBehind, EmitterAssumption DEF Busy
  <2>2. j # copier[in].k
    BY <1>2
  <2>3. j < copier[in].k
    BY <1>2, <2>1, <2>2
  <2>4. QED
    BY <1>1, <1>2, <2>3, HeldPlaces DEF Busy
<1>3. QED
  BY <1>1, <1>2 DEF Goes

\* Every action of a copier but Read is of one of these two sorts.
LEMMA CopyGoes ==
    ASSUME EmitterInv, StepInv, NEW in \in Callers, Copy(in)
    PROVE  Read(in) \/ Goes(in)
<1> DEFINE k == copier[in].k
           c == Cursor(in)
<1>1. CASE ReadStops(in) \/ \E o \in ToSet(Outputs) : WriteRefused(in, o)
  <2>1. copier' = [copier EXCEPT ![in] = [pc |-> "returned"]] /\ UNCHANGED <<stream, filtered, taken>>
    BY <1>1 DEF ReadStops, WriteRefused, WriteError
  <2>2. copier'[in].pc = "returned" /\ \A other \in Callers \ {in} : copier'[other] = copier[other]
    BY <2>1 DEF EmitterInv, Composed
  <2>3. QED
    BY <2>1, <2>2, GoesLeaving DEF Busy
<1>2. CASE WriteTCP(in)
  <2>1. /\ copier[in].pc = "write" /\ Outputs[k] = "tcp" /\ UNCHANGED <<stream, filtered, taken>>
        /\ IF Origin(copier[in].msg)
           THEN copier' = [copier EXCEPT ![in].pc = "inTCP"]
           ELSE copier' = [copier EXCEPT ![in] = Written(in)]
    BY <1>2 DEF WriteTCP, AtOutput
  <2>2. CASE Origin(copier[in].msg)
    <3>1. copier[in] \in [pc : {"write", "inTCP"}, msg : Msgs, k : DOMAIN Outputs]
      BY <2>1, WrittenBehind
    <3>2. copier'[in].pc = "inTCP" /\ \A other \in Callers \ {in} : copier'[other] = copier[other]
      BY <2>1, <2>2, <3>1 DEF EmitterInv, Composed
    <3>3. QED
      BY <2>1, <3>2, GoesLeaving DEF Busy
  <2>3. CASE ~Origin(copier[in].msg)
    <3>1. ~Wanted(in, c, k)
      BY <2>1, <2>3, HeldPlaces DEF Wanted
    <3>2. /\ \A other \in Callers \ {in} : copier'[other] = copier[other]
          /\ copier'[in].pc = "read" => k + 1 > Len(Outputs)
      BY <2>1, <2>3, GoesOn
    <3>3. QED
      BY <2>1, <3>1, <3>2, GoesLeaving DEF Busy
  <2>4. QED
    BY <2>2, <2>3
<1>3. CASE WriteTCPReturns(in)
  <2>1. /\ copier[in].pc = "inTCP" /\ copier' = [copier EXCEPT ![in] = Written(in)]
        /\ taken' = [taken EXCEPT !["tcp"] = Append(@, copier[in].msg)]
        /\ UNCHANGED <<stream, filtered>>
    BY <1>3 DEF WriteTCPReturns
  <2>2. Outputs[k] = "tcp"
    BY <2>1 DEF StepInv, Alone, Holds
  <2>3. QED
    BY <2>1, <2>2, GoesTaking DEF Busy
<1>4. ASSUME NEW o \in ToSet(Outputs), Write(in, o) PROVE Goes(in)
  <2>1. /\ copier[in].pc = "write" /\ Outputs[k] = o
        /\ taken' = [taken EXCEPT ![o] = Append(@, copier[in].msg)]
        /\ \/ copier' = [copier EXCEPT ![in] = Written(in)]
           \/ copier' = [copier EXCEPT ![in] = WriteError(in)]
        /\ UNCHANGED <<stream, filtered>>
    BY <1>4 DEF Write, AtOutput
  <2>2. QED
    BY <2>1, GoesTaking DEF Busy
<1>5. QED
  BY <1>1, <1>2, <1>3, <1>4 DEF Copy

\* Whatever a copier does, an output takes only what some input has delivered.
LEMMA SourcedStays ==
    ASSUME EmitterInv, StepInv, Sourced,
           taken' = taken \/ \E in \in Callers : Busy(in) /\ \E o \in ToSet(Outputs) :
                                taken' = [taken EXCEPT ![o] = Append(@, copier[in].msg)]
    PROVE  Sourced'
<1>1. CASE taken' = taken
  BY <1>1 DEF Sourced
<1>2. ASSUME NEW in \in Callers, Busy(in), NEW o \in ToSet(Outputs),
             taken' = [taken EXCEPT ![o] = Append(@, copier[in].msg)]
      PROVE  Sourced'
  <2> DEFINE t == taken[o]
             msg == copier[in].msg
  <2>1. Cursor(in) \in DOMAIN Script[in] /\ msg = Script[in][Cursor(in)]
    BY <1>2, HeldPlaces DEF Busy
  <2>2. taken \in [ToSet(Outputs) -> Seq(Msgs)] /\ t \in Seq(Msgs) /\ msg \in Msgs
    BY <1>2, WrittenBehind DEF StepInv, Busy
  <2>3. taken'[o] = Append(t, msg) /\ \A u \in ToSet(Outputs) : u # o => taken'[u] = taken[u]
    BY <1>2, <2>2
  <2>4. \A j \in DOMAIN Append(t, msg) :
           (j \in DOMAIN t /\ Append(t, msg)[j] = t[j]) \/ Append(t, msg)[j] = msg
    <3> HIDE DEF t, msg
    <3>1. /\ Len(t) \in Nat /\ DOMAIN t = 1 .. Len(t)
          /\ DOMAIN Append(t, msg) = 1 .. Len(t) + 1
          /\ Append(t, msg)[Len(t) + 1] = msg
          /\ \A i \in 1 .. Len(t) : Append(t, msg)[i] = t[i]
      BY <2>2, AppendProperties, LenProperties
    <3>2. QED
      BY <3>1
  <2> SUFFICES ASSUME NEW u \in ToSet(Outputs), NEW j \in DOMAIN taken'[u]
               PROVE  \E one \in Callers : \E p \in DOMAIN Script[one] : taken'[u][j] = Script[one][p]
    BY DEF Sourced
  <2>5. \A i \in DOMAIN taken[u] :
           \E one \in Callers : \E p \in DOMAIN Script[one] : taken[u][i] = Script[one][p]
    BY DEF Sourced
  <2>6. CASE u # o
    BY <2>3, <2>5, <2>6
  <2>7. CASE u = o
    <3>1. CASE taken'[u][j] = msg
      BY <2>1, <3>1
    <3>2. CASE j \in DOMAIN t /\ taken'[u][j] = t[j]
      BY <2>5, <2>7, <3>2
    <3>3. QED
      BY <2>3, <2>4, <2>7, <3>1, <3>2
  <2>8. QED
    BY <2>6, <2>7
<1>3. QED
  BY <1>1, <1>2

\* What a Read does to the cache: only to the entry of the payload's id, and not at all
\* for a malformed one.
LEMMA ReadEntry ==
    ASSUME NEW in \in Callers, filtered \in [Callers -> [Ids -> {"out", "in", "expired"}]],
           NEW msg \in Msgs,
           filtered' = [filtered EXCEPT ![in][Id[msg]] = Outcome(in, msg).entry]
    PROVE  /\ filtered' \in [Callers -> [Ids -> {"out", "in", "expired"}]]
           /\ \A other \in Callers \ {in} : filtered'[other] = filtered[other]
           /\ filtered'[in][Id[msg]] = Outcome(in, msg).entry
           /\ \A id \in Ids : id # Id[msg] \/ Kind[msg] = "malformed" => filtered'[in][id] = filtered[in][id]
<1> DEFINE e == Outcome(in, msg).entry
<1>1. Id[msg] \in Ids
  BY DEF Ids
<1>2. filtered[in][Id[msg]] \in {"out", "in", "expired"}
  BY <1>1
<1>3. Kind[msg] \in {"request", "response", "replayed", "malformed"}
  BY EmitterAssumption
<1>4. e \in {"out", "in", "expired"} /\ (Kind[msg] = "malformed" => e = filtered[in][Id[msg]])
  BY <1>2, <1>3 DEF Outcome
<1> HIDE DEF e
<1>5. filtered' = [filtered EXCEPT ![in] = [filtered[in] EXCEPT ![Id[msg]] = e]]
  BY DEF e
<1>6. filtered'[in] = [filtered[in] EXCEPT ![Id[msg]] = e]
  BY <1>5
<1>7. [filtered[in] EXCEPT ![Id[msg]] = e] \in [Ids -> {"out", "in", "expired"}]
  BY <1>4
<1>8. filtered'[in][Id[msg]] = e /\ \A id \in Ids : id # Id[msg] => filtered'[in][id] = filtered[in][id]
  BY <1>1, <1>6
<1>9. /\ filtered' \in [Callers -> [Ids -> {"out", "in", "expired"}]]
      /\ \A other \in Callers \ {in} : filtered'[other] = filtered[other]
  BY <1>5, <1>7
<1>10. QED
  BY <1>4, <1>8, <1>9 DEF e

\* Read puts a rejected request in the cache, drops its response with the entry, and reads on
\* only when every output has the last payload.
LEMMA ReadRemembers ==
    ASSUME EmitterInv, StepInv, CacheInv, NEW in \in Callers, Read(in)
    PROVE  CacheInv'
<1> DEFINE c == Cursor(in)
           msg == Head(stream[in])
<1>1. /\ copier[in].pc = "read" /\ stream[in] # <<>>
      /\ stream' = [stream EXCEPT ![in] = Tail(stream[in])]
      /\ filtered' = [filtered EXCEPT ![in][Id[msg]] = Outcome(in, msg).entry]
      /\ copier' = IF Outcome(in, msg).write
                   THEN [copier EXCEPT ![in] = [pc |-> "write", msg |-> msg, k |-> 1]]
                   ELSE copier
      /\ taken' = taken
  BY DEF Read
<1>2. stream[in] \in Seq(Msgs) /\ stream \in [Callers -> Seq(Msgs)] /\ copier \in [Callers -> CopierTypes] /\ c \in Int
  BY Streams DEF EmitterInv, Composed
<1>3. msg \in Msgs /\ Cursor(in)' = c + 1 /\ c + 1 \in DOMAIN Script[in] /\ msg = Script[in][c + 1]
  BY <1>1, <1>2, ReadNext
<1>4. /\ filtered' \in [Callers -> [Ids -> {"out", "in", "expired"}]]
      /\ \A other \in Callers \ {in} : filtered'[other] = filtered[other]
      /\ filtered'[in][Id[msg]] = Outcome(in, msg).entry
      /\ \A id \in Ids : id # Id[msg] \/ Kind[msg] = "malformed" => filtered'[in][id] = filtered[in][id]
  BY <1>1, <1>3, ReadEntry DEF CacheInv
<1> HIDE DEF c, msg
<1>5. /\ \A one \in Callers, o \in ToSet(Outputs) : Got(one, o)' = Got(one, o)
      /\ \A p \in DOMAIN Script[in], k \in DOMAIN Outputs : Gets(in, p, k)' <=> Gets(in, p, k)
  BY <1>1, SameTaken
<1>6. \A other \in Callers \ {in} : stream'[other] = stream[other] /\ copier'[other] = copier[other]
  BY <1>1, <1>2
<1>7. \A other \in Callers \ {in} : Remembers(other)'
  BY <1>4, <1>5, <1>6, RemembersStays DEF CacheInv
<1>8. Remembers(in) /\ Places(in)
  BY DEF CacheInv, StepInv, Alone
<1>9. ASSUME NEW r \in DOMAIN Script[in], NEW s \in DOMAIN Script[in],
             Exchange(in, r, s), r <= c + 1
      PROVE  /\ Script[in][r] \in Rejected =>
                  \/ filtered'[in][Id[Script[in][r]]] = "expired"
                  \/ s <= c + 1 /\ Dropped(in, s)'
                  \/ s > c + 1 /\ filtered'[in][Id[Script[in][r]]] = "in"
             /\ Script[in][r] \notin Rejected \cup Unpretty /\ (r < c + 1 \/ copier'[in].pc = "read") =>
                  \A k \in DOMAIN Outputs : Gets(in, r, k)'
  <2> DEFINE id == Id[Script[in][r]]
  <2>1. /\ r < s /\ r \in Int /\ s \in Int
        /\ Kind[Script[in][r]] = "request" /\ Kind[Script[in][s]] = "response" /\ Id[Script[in][s]] = id
        /\ \A t \in DOMAIN Script[in] : Id[Script[in][t]] = id => t \in {r, s} \/ Kind[Script[in][t]] = "malformed"
    BY <1>9, Scripts DEF Exchange
  <2>2. id \in Ids
    BY Scripts, ElementOfSeq DEF Ids
  <2>3. filtered[in][id] \in {"out", "in", "expired"}
    BY <2>2 DEF CacheInv
  <2>4. CASE r = c + 1
    <3>1. msg = Script[in][r]
      BY <1>3, <2>4
    <3>2. /\ msg \in Rejected => Outcome(in, msg).entry = "in"
          /\ msg \notin Rejected \cup Unpretty => Outcome(in, msg).write
      BY <2>1, <3>1 DEF Outcome
    <3>3. Outcome(in, msg).write => copier'[in].pc = "write"
      BY <1>1, <1>2
    <3>4. ~ (r < c + 1) /\ s > c + 1
      BY <1>2, <2>1, <2>4
    <3>5. QED
      BY <1>4, <3>1, <3>2, <3>3, <3>4
  <2>5. CASE r # c + 1
    <3>1. r <= c
      BY <1>2, <1>9, <2>1, <2>5
    <3>2. /\ Script[in][r] \in Rejected =>
               \/ filtered[in][id] = "expired"
               \/ s <= c /\ Dropped(in, s)
               \/ s > c /\ filtered[in][id] = "in"
          /\ Script[in][r] \notin Rejected \cup Unpretty => \A k \in DOMAIN Outputs : Gets(in, r, k)
      BY <1>1, <1>8, <1>9, <3>1 DEF Remembers, c
    <3>3. CASE s = c + 1
      <4>1. msg = Script[in][s] /\ ~ (s <= c) /\ s <= c + 1
        BY <1>2, <1>3, <3>3
      <4>2. \A k \in DOMAIN Outputs : ~Gets(in, s, k)
        BY <1>8, <4>1 DEF Places, c
      <4>3. CASE filtered[in][id] = "in"
        <5>1. Outcome(in, msg).write = FALSE
          BY <2>1, <4>1, <4>3 DEF Outcome
        <5>2. copier' = copier
          BY <1>1, <5>1
        <5>3. Dropped(in, s)'
          BY <1>1, <1>5, <4>2, <5>2 DEF Dropped, Busy
        <5>4. QED
          BY <1>5, <3>2, <4>1, <5>3
      <4>4. CASE filtered[in][id] = "expired"
        <5>1. Outcome(in, msg).entry = "expired"
          BY <2>1, <4>1, <4>4 DEF Outcome
        <5>2. QED
          BY <1>4, <1>5, <2>1, <3>2, <4>1, <5>1
      <4>5. QED
        BY <1>5, <3>2, <4>1, <4>3, <4>4
    <3>4. CASE s # c + 1
      <4>1. Id[msg] = id => Kind[msg] = "malformed"
        BY <1>3, <2>1, <2>5, <3>4
      <4>2. filtered'[in][id] = filtered[in][id]
        BY <1>4, <2>2, <4>1
      <4>3. s <= c /\ Dropped(in, s) => Dropped(in, s)'
        BY <1>3, <1>5, <3>4 DEF Dropped
      <4>4. (s <= c => s <= c + 1) /\ (s > c => s > c + 1)
        BY <1>2, <2>1, <3>4
      <4>5. QED
        BY <1>5, <3>2, <4>2, <4>3, <4>4
    <3>5. QED
      BY <3>3, <3>4
  <2>6. QED
    BY <2>4, <2>5
<1>10. Remembers(in)'
  BY <1>3, <1>9 DEF Remembers, Exchange
<1>11. Sourced'
  BY <1>1 DEF CacheInv, Sourced
<1>12. QED
  BY <1>4, <1>7, <1>10, <1>11 DEF CacheInv

\* A Copy that is no Read has one output take the payload, or none.
LEMMA GoesRemembers ==
    ASSUME EmitterInv, StepInv, CacheInv, NEW in \in Callers, Copy(in), Goes(in)
    PROVE  CacheInv'
<1>1. \A other \in Callers \ {in} : Remembers(other)'
  BY RemembersStays DEF Goes, CacheInv
<1>2. Remembers(in)'
  BY RemembersOn DEF Goes, CacheInv
<1>3. taken' = taken \/ \E one \in Callers : Busy(one) /\ \E o \in ToSet(Outputs) :
                            taken' = [taken EXCEPT ![o] = Append(@, copier[one].msg)]
  <2>1. CASE WriteTCPReturns(in)
    BY <2>1, EmitterAssumption DEF WriteTCPReturns, Busy
  <2>2. CASE \E o \in ToSet(Outputs) : Write(in, o)
    BY <2>2 DEF Write, AtOutput, Busy
  <2>3. CASE Read(in) \/ ReadStops(in) \/ WriteTCP(in) \/ \E o \in ToSet(Outputs) : WriteRefused(in, o)
    BY <2>3 DEF Read, ReadStops, WriteTCP, WriteRefused
  <2>4. QED
    BY <2>1, <2>2, <2>3 DEF Copy
<1>4. Sourced'
  BY <1>3, SourcedStays DEF CacheInv
<1>5. QED
  BY <1>1, <1>2, <1>4 DEF Goes, CacheInv

\* A copier that starts has read no request.
LEMMA StartRemembers ==
    ASSUME EmitterInv, StepInv, CacheInv, StartCopier PROVE CacheInv'
<1>1. DOMAIN Inputs = 1 .. Len(Inputs) /\ Len(Inputs) \in Nat
  BY EmitterAssumption
<1>2. started \in 0 .. Len(Inputs) /\ started < Len(Inputs)
  BY DEF StartCopier, StepInv, Unstarted
<1>3. PICK n \in DOMAIN Inputs : n = started + 1
  BY <1>1, <1>2
<1>4. PICK in \in Callers : in = Inputs[n]
  BY EmitterAssumption DEF ToSet
<1>5. copier' = [copier EXCEPT ![in] = [pc |-> "read"]] /\ UNCHANGED <<stream, filtered, taken>>
  BY <1>3, <1>4 DEF StartCopier
<1>6. copier[in].pc = "unstarted"
  BY <1>2, <1>3, <1>4 DEF StepInv, Unstarted
<1>7. \A other \in Callers \ {in} : copier'[other] = copier[other]
  BY <1>5
<1>8. \A one \in Callers, o \in ToSet(Outputs) : Got(one, o)' = Got(one, o)
  BY <1>5, SameTaken
<1>9. \A other \in Callers \ {in} : Remembers(other)'
  BY <1>5, <1>7, <1>8, RemembersStays DEF CacheInv
<1>10. Remembers(in)'
  <2>1. Cursor(in) = 0 /\ Cursor(in)' = 0
    BY <1>5, <1>6 DEF StepInv, Alone, Cursor
  <2>2. \A r \in DOMAIN Script[in] : ~ (r <= 0)
    BY Scripts
  <2>3. QED
    BY <2>1, <2>2 DEF Remembers
<1>11. Sourced'
  BY <1>5 DEF CacheInv, Sourced
<1>12. QED
  BY <1>5, <1>9, <1>10, <1>11 DEF CacheInv

\* An entry that expires is what ResponsesHaveRequests excepts.
LEMMA ExpireRemembers ==
    ASSUME EmitterInv, StepInv, CacheInv, NEW in \in Callers, NEW id \in Ids, Expire(in, id)
    PROVE  CacheInv'
<1>1. filtered' = [filtered EXCEPT ![in][id] = "expired"] /\ UNCHANGED <<stream, copier, taken>>
  BY DEF Expire
<1>2. filtered' = [filtered EXCEPT ![in] = [filtered[in] EXCEPT ![id] = "expired"]]
  BY <1>1
<1>3. /\ filtered' \in [Callers -> [Ids -> {"out", "in", "expired"}]]
      /\ \A other \in Callers \ {in} : filtered'[other] = filtered[other]
      /\ \A any \in Ids : filtered'[in][any] = filtered[in][any] \/ filtered'[in][any] = "expired"
  BY <1>2 DEF CacheInv
<1>4. /\ \A one \in Callers, o \in ToSet(Outputs) : Got(one, o)' = Got(one, o)
      /\ \A p \in DOMAIN Script[in], k \in DOMAIN Outputs : Gets(in, p, k)' <=> Gets(in, p, k)
  BY <1>1, SameTaken
<1>5. \A other \in Callers \ {in} : Remembers(other)'
  BY <1>1, <1>3, <1>4, RemembersStays DEF CacheInv
<1>6. Remembers(in)'
  <2>1. Cursor(in)' = Cursor(in)
    BY <1>1 DEF Cursor
  <2>2. \A s \in DOMAIN Script[in] : Dropped(in, s) => Dropped(in, s)'
    BY <1>1, <1>4, <2>1 DEF Dropped, Busy
  <2>3. \A r \in DOMAIN Script[in] : Id[Script[in][r]] \in Ids
    BY Scripts, ElementOfSeq DEF Ids
  <2>4. Remembers(in)
    BY DEF CacheInv
  <2>5. QED
    BY <1>1, <1>3, <1>4, <2>1, <2>2, <2>3, <2>4 DEF Remembers, Exchange
<1>7. QED
  BY <1>1, <1>3, <1>5, <1>6 DEF CacheInv, Sourced

\* At first no request is read.
LEMMA CacheInvAtFirst == EmitterInit => CacheInv
<1> SUFFICES ASSUME EmitterInit PROVE CacheInv
  OBVIOUS
<1>1. /\ stream = Script /\ filtered = [in \in Callers |-> [id \in Ids |-> "out"]]
      /\ taken = [o \in ToSet(Outputs) |-> <<>>]
  BY DEF EmitterInit
<1>2. ASSUME NEW in \in Callers PROVE Remembers(in)
  <2>1. Cursor(in) = 0 /\ \A r \in DOMAIN Script[in] : ~ (r <= 0)
    BY <1>1, Scripts DEF Cursor
  <2>2. QED
    BY <2>1 DEF Remembers
<1>3. Sourced
  BY <1>1 DEF Sourced
<1>4. QED
  BY <1>1, <1>2, <1>3 DEF CacheInv

\* The cache knows every rejected request that waits for its response, after every step.
LEMMA CacheInvStays == EmitterInv /\ StepInv /\ CacheInv /\ [EmitterNext]_emitterVars => CacheInv'
<1> SUFFICES ASSUME EmitterInv, StepInv, CacheInv, [EmitterNext]_emitterVars PROVE CacheInv'
  OBVIOUS
<1>1. CASE StartCopier
  BY <1>1, StartRemembers
<1>2. ASSUME NEW in \in Callers, Copy(in) PROVE CacheInv'
  BY <1>2, CopyGoes, ReadRemembers, GoesRemembers
<1>3. ASSUME NEW in \in Callers, NEW id \in Ids, Expire(in, id) PROVE CacheInv'
  BY <1>3, ExpireRemembers
<1>4. CASE Install \/ CloseStarts \/ CloseOne \/ CloseReturns \/ TCPWorks \/ UNCHANGED emitterVars
  <2>1. UNCHANGED <<stream, copier, filtered, taken>>
    BY <1>4 DEF Install, CloseStarts, CloseOne, CloseReturns, TCPWorks, emitterVars
  <2>2. \A in \in Callers : Remembers(in)'
    BY <2>1, SameTaken, RemembersStays DEF CacheInv
  <2>3. QED
    BY <2>1, <2>2 DEF CacheInv, Sourced
<1>5. QED
  BY <1>1, <1>2, <1>3, <1>4 DEF EmitterNext

\* CopyMulty: when each response an input delivers has its request before it in the same
\* input, one exchange to an id, no output takes a response before its request or of a
\* rejected one, whatever outputs fill up, close or wait, until the entry expires.
THEOREM ResponsesBehindRequests == Exchanged => (EmitterSpec => []ResponsesHaveRequests)
<1> SUFFICES ASSUME Exchanged PROVE EmitterSpec => []ResponsesHaveRequests
  OBVIOUS
<1>1. EmitterInv /\ StepInv /\ CacheInv => ResponsesHaveRequests
  BY ResponsesFollow
<1>2. QED
  BY <1>1, EmitterInvariance, StepInvAtFirst, StepInvStays, CacheInvAtFirst, CacheInvStays, PTL DEF EmitterSpec

=============================================================================
