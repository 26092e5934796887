------------------------ MODULE MessageParserProofs ------------------------
(***************************************************************************)
(* Theorems about MessageParser: the type invariant, that add keeps every  *)
(* message sorted by sequence number without duplicates, and, as long as   *)
(* no Expect header has come in, what the map holds, what the reader gets, *)
(* and that the parser implements Reassembly.                              *)
(***************************************************************************)
EXTENDS MessageParser, TLAPS, SequenceTheorems, WellFoundedInduction

\* A non-empty set of naturals has a least element, which Min returns.
LEMMA MinOfNat ==
    ASSUME NEW T \in SUBSET Nat, T # {}
    PROVE  Min(T) \in T /\ \A x \in T : Min(T) <= x
<1> DEFINE R == OpToRel(<, Nat)
<1>1. \A y, z \in Nat : y < z => <<y, z>> \in R
  BY SMT DEF OpToRel
<1>2. IsWellFoundedOn(R, Nat)
  BY NatLessThanWellFounded
<1> HIDE DEF R
<1>3. PICK x \in T : \A y \in T : ~ (<<y, x>> \in R)
  BY <1>2, WFMin
<1>4. ASSUME NEW y \in T
      PROVE  x <= y
  <2>1. x \in Nat /\ y \in Nat
    OBVIOUS
  <2>2. ~ (y < x)
    BY <1>1, <1>3, <2>1, Zenon
  <2>3. QED
    BY <2>1, <2>2
<1>5. QED
  BY <1>4 DEF Min

\* The packets of a message are in strictly increasing order of Seq.
Sorted(pkts) ==
    \A i, j \in DOMAIN pkts : i < j => Seq_(pkts[i]) < Seq_(pkts[j])

LEMMA SeqIsNat == \A c \in Captures : Seq_(c) \in Nat
  BY ParserAssumption DEF Seq_, PacketRecord

\* What inserting e before position i of s gives, element by element.
LEMMA InsertAtProperties ==
    ASSUME NEW S, NEW s \in Seq(S), NEW i \in 1 .. Len(s) + 1, NEW e \in S
    PROVE  /\ InsertAt(s, i, e) \in Seq(S)
           /\ Len(InsertAt(s, i, e)) = Len(s) + 1
           /\ \A j \in 1 .. Len(s) + 1 :
                InsertAt(s, i, e)[j] = IF j < i THEN s[j]
                                       ELSE IF j = i THEN e ELSE s[j - 1]
<1> DEFINE a == SubSeq(s, 1, i - 1)
           b == SubSeq(s, i, Len(s))
<1>1. /\ a \in Seq(S) /\ Len(a) = i - 1
      /\ \A j \in 1 .. i - 1 : a[j] = s[j]
  BY SubSeqProperties, LenProperties, ElementOfSeq
<1>2. /\ b \in Seq(S) /\ Len(b) = Len(s) - i + 1
      /\ \A j \in 1 .. Len(s) - i + 1 : b[j] = s[i + j - 1]
  BY SubSeqProperties, LenProperties, ElementOfSeq
<1>3. <<e>> \in Seq(S) /\ Len(<<e>>) = 1 /\ <<e>>[1] = e
  OBVIOUS
<1>4. InsertAt(s, i, e) = (a \o <<e>>) \o b
  BY DEF InsertAt
<1> HIDE DEF a, b
<1> DEFINE c == a \o <<e>>
<1>5. /\ c \in Seq(S) /\ Len(c) = i
      /\ \A j \in 1 .. i : c[j] = IF j < i THEN s[j] ELSE e
  <2>1. /\ c \in Seq(S) /\ Len(c) = (i - 1) + 1
        /\ \A j \in 1 .. (i - 1) + 1 : c[j] = IF j <= i - 1 THEN a[j] ELSE <<e>>[j - (i - 1)]
    BY <1>1, <1>3, ConcatProperties
  <2> HIDE DEF c
  <2>2. ASSUME NEW j \in 1 .. i
        PROVE  c[j] = IF j < i THEN s[j] ELSE e
    <3>1. CASE j < i
      BY <1>1, <2>1, <3>1
    <3>2. CASE j = i
      <4>1. c[i] = <<e>>[i - (i - 1)]
        BY <2>1
      <4>2. i - (i - 1) = 1
        OBVIOUS
      <4>3. QED
        BY <1>3, <3>2, <4>1, <4>2
    <3>3. QED
      BY <3>1, <3>2
  <2>3. QED
    BY <2>1, <2>2
<1> HIDE DEF c
<1>6. /\ c \o b \in Seq(S)
      /\ Len(c \o b) = i + (Len(s) - i + 1)
      /\ \A j \in 1 .. i + (Len(s) - i + 1) :
           (c \o b)[j] = IF j <= i THEN c[j] ELSE b[j - i]
  BY <1>2, <1>5, ConcatProperties
<1>7. Len(s) \in Nat /\ i + (Len(s) - i + 1) = Len(s) + 1
  BY LenProperties
<1>8. ASSUME NEW j \in 1 .. Len(s) + 1
      PROVE  (c \o b)[j] = IF j < i THEN s[j] ELSE IF j = i THEN e ELSE s[j - 1]
  <2>1. CASE j <= i
    BY <1>5, <1>6, <1>7, <2>1
  <2>2. CASE j > i
    <3>1. j - i \in 1 .. Len(s) - i + 1 /\ i + (j - i) - 1 = j - 1
      BY <1>7, <2>2
    <3>2. (c \o b)[j] = b[j - i]
      BY <1>6, <1>7, <2>2
    <3>3. b[j - i] = s[j - 1]
      BY <1>2, <3>1
    <3>4. QED
      BY <2>2, <3>2, <3>3
  <2>3. j <= i \/ j > i
    BY <1>7
  <2>4. QED
    BY <2>1, <2>2, <2>3, Zenon
<1>9. InsertAt(s, i, e) = c \o b
  BY <1>4 DEF c
<1>10. QED
  BY <1>6, <1>7, <1>8, <1>9

\* Where add puts a packet that is no duplicate.
LEMMA InsertPosProperties ==
    ASSUME NEW pkts \in Seq(Captures), NEW c \in Captures, ~Duplicate(pkts, c)
    PROVE  /\ InsertPos(pkts, c) \in 1 .. Len(pkts) + 1
           /\ Sorted(pkts) =>
                /\ \A j \in 1 .. InsertPos(pkts, c) - 1 : Seq_(pkts[j]) < Seq_(c)
                /\ \A j \in InsertPos(pkts, c) .. Len(pkts) : Seq_(c) < Seq_(pkts[j])
<1> USE SeqIsNat, LenProperties, ElementOfSeq
<1>1. CASE pkts = <<>>
  BY <1>1, EmptySeq DEF InsertPos
<1>2. CASE pkts # <<>> /\ Seq_(c) > Seq_(pkts[Len(pkts)])
  <2>1. InsertPos(pkts, c) = Len(pkts) + 1
    BY <1>2 DEF InsertPos
  <2>2. Len(pkts) \in DOMAIN pkts
    BY <1>2, EmptySeq
  <2>3. ASSUME Sorted(pkts), NEW j \in 1 .. Len(pkts)
        PROVE  Seq_(pkts[j]) < Seq_(c)
    BY <1>2, <2>2, <2>3 DEF Sorted
  <2>4. QED
    BY <2>1, <2>3
<1>3. CASE pkts # <<>> /\ ~(Seq_(c) > Seq_(pkts[Len(pkts)]))
  <2> DEFINE T == {i \in 1 .. Len(pkts) : Seq_(c) < Seq_(pkts[i])}
  <2>1. InsertPos(pkts, c) = Min(T)
    BY <1>3 DEF InsertPos
  <2>2. Len(pkts) \in T
    BY <1>3, EmptySeq DEF Duplicate
  <2>3. Min(T) \in T /\ \A x \in T : Min(T) <= x
    <3>1. T \in SUBSET Nat /\ T # {}
      BY <2>2
    <3> HIDE DEF T
    <3>2. QED
      BY <3>1, MinOfNat
  <2>4. Min(T) \in 1 .. Len(pkts) /\ Seq_(c) < Seq_(pkts[Min(T)])
    BY <2>3
  <2>5. \A j \in 1 .. Min(T) - 1 : Seq_(pkts[j]) < Seq_(c)
    <3> TAKE j \in 1 .. Min(T) - 1
    <3>1. Min(T) \in Int /\ j \in Int /\ j < Min(T)
      <4> HIDE DEF T
      <4>1. QED
        BY <2>4
    <3>2. j \in 1 .. Len(pkts)
      <4> HIDE DEF T
      <4>1. QED
        BY <2>4
    <3>3. j \notin T
      <4> HIDE DEF T
      <4>1. j \in T => Min(T) <= j
        BY <2>3, Zenon
      <4>2. QED
        BY <3>1, <4>1
    <3>4. Seq_(pkts[j]) # Seq_(c)
      BY <3>2 DEF Duplicate
    <3>5. QED
      BY <3>2, <3>3, <3>4
  <2>6. ASSUME Sorted(pkts), NEW j \in Min(T) .. Len(pkts)
        PROVE  Seq_(c) < Seq_(pkts[j])
    <3>1. j \in 1 .. Len(pkts) /\ Min(T) \in DOMAIN pkts /\ j \in DOMAIN pkts
      BY <2>4
    <3>2. j = Min(T) \/ Seq_(pkts[Min(T)]) < Seq_(pkts[j])
      BY <2>6, <3>1, <2>4 DEF Sorted
    <3>3. Seq_(c) \in Nat /\ Seq_(pkts[j]) \in Nat /\ Seq_(pkts[Min(T)]) \in Nat
      BY <3>1
    <3>4. QED
      BY <2>4, <3>2, <3>3
  <2>7. QED
    BY <2>1, <2>4, <2>5, <2>6
<1>4. QED
  BY <1>1, <1>2, <1>3

\* add returns a sequence of packets, never empty, and keeps it sorted.
LEMMA AddProperties ==
    ASSUME NEW pkts \in Seq(Captures), NEW c \in Captures, ~Duplicate(pkts, c)
    PROVE  /\ Add(pkts, c) \in Seq(Captures)
           /\ Add(pkts, c) # <<>>
           /\ Sorted(pkts) => Sorted(Add(pkts, c))
<1> DEFINE i == InsertPos(pkts, c)
           new == Add(pkts, c)
<1>1. i \in 1 .. Len(pkts) + 1
  BY InsertPosProperties
<1>2. /\ new \in Seq(Captures)
      /\ Len(new) = Len(pkts) + 1
      /\ \A j \in 1 .. Len(pkts) + 1 :
           new[j] = IF j < i THEN pkts[j] ELSE IF j = i THEN c ELSE pkts[j - 1]
  <2> HIDE DEF i
  <2>1. new = InsertAt(pkts, i, c)
    BY DEF Add, i
  <2> HIDE DEF new
  <2>2. /\ InsertAt(pkts, i, c) \in Seq(Captures)
        /\ Len(InsertAt(pkts, i, c)) = Len(pkts) + 1
        /\ \A j \in 1 .. Len(pkts) + 1 :
             InsertAt(pkts, i, c)[j] = IF j < i THEN pkts[j]
                                       ELSE IF j = i THEN c ELSE pkts[j - 1]
    BY <1>1, InsertAtProperties
  <2>3. QED
    BY <2>1, <2>2
<1>3. new # <<>>
  BY <1>2, LenProperties, EmptySeq
<1>4. ASSUME Sorted(pkts), NEW j \in DOMAIN new, NEW k \in DOMAIN new, j < k
      PROVE  Seq_(new[j]) < Seq_(new[k])
  <2> HIDE DEF i, new
  <2>1. j \in 1 .. Len(pkts) + 1 /\ k \in 1 .. Len(pkts) + 1 /\ Len(pkts) \in Nat
    BY <1>2, LenProperties
  <2>2. /\ \A x \in 1 .. i - 1 : Seq_(pkts[x]) < Seq_(c)
        /\ \A x \in i .. Len(pkts) : Seq_(c) < Seq_(pkts[x])
    BY <1>4, InsertPosProperties DEF i
  <2>3. \A x, y \in 1 .. Len(pkts) : x < y => Seq_(pkts[x]) < Seq_(pkts[y])
    BY <1>4, LenProperties DEF Sorted
  <2>4. CASE k < i
    <3>1. new[j] = pkts[j] /\ new[k] = pkts[k]
      BY <1>1, <1>2, <1>4, <2>1, <2>4
    <3>2. j \in 1 .. Len(pkts) /\ k \in 1 .. Len(pkts)
      BY <1>1, <1>4, <2>1, <2>4
    <3>3. QED
      BY <1>4, <2>3, <3>1, <3>2
  <2>5. CASE k = i
    <3>1. new[j] = pkts[j] /\ new[k] = c
      BY <1>1, <1>2, <1>4, <2>1, <2>5
    <3>2. j \in 1 .. i - 1
      BY <1>1, <1>4, <2>1, <2>5
    <3>3. QED
      BY <2>2, <3>1, <3>2
  <2>6. CASE k > i /\ j < i
    <3>1. new[j] = pkts[j] /\ new[k] = pkts[k - 1]
      BY <1>1, <1>2, <2>1, <2>6
    <3>2. j < k - 1 /\ j \in 1 .. Len(pkts) /\ k - 1 \in 1 .. Len(pkts)
      BY <1>1, <2>1, <2>6
    <3>3. QED
      BY <2>3, <3>1, <3>2
  <2>7. CASE k > i /\ j = i
    <3>1. new[j] = c /\ new[k] = pkts[k - 1]
      BY <1>1, <1>2, <2>1, <2>7
    <3>2. k - 1 \in i .. Len(pkts)
      BY <1>1, <2>1, <2>7
    <3>3. QED
      BY <2>2, <3>1, <3>2
  <2>8. CASE k > i /\ j > i
    <3>1. new[j] = pkts[j - 1] /\ new[k] = pkts[k - 1]
      BY <1>1, <1>2, <2>1, <2>8
    <3>2. j - 1 < k - 1 /\ j - 1 \in 1 .. Len(pkts) /\ k - 1 \in 1 .. Len(pkts)
      BY <1>1, <1>4, <2>1, <2>8
    <3>3. QED
      BY <2>3, <3>1, <3>2
  <2>9. QED
    BY <2>4, <2>5, <2>6, <2>7, <2>8, <1>1, <2>1
<1>5. QED
  BY <1>2, <1>3, <1>4 DEF Sorted

-----------------------------------------------------------------------------
(* The parts of the type invariant that a handler changes, for n messages.  *)

HeapOK(h) == /\ h \in Seq(Message)
             /\ \A q \in 1 .. Len(h) : h[q].pkts # <<>>
MapOK(mm, n) == /\ DOMAIN mm \subseteq Keys
                /\ \A k \in DOMAIN mm : mm[k] \in 1 .. n
StackOK(fr, n) == fr \in Seq([obj : 1 .. n, rest : Seq(Captures)])
ChannelOK(ms, n) == ms \in Seq(1 .. n) /\ Len(ms) <= MessagesCap

HandlerOK(n) ==
    /\ HeapOK(heap') /\ Len(heap') = n
    /\ MapOK(m', n)
    /\ StackOK(merging', n)
    /\ ChannelOK(messages', n)
    /\ ack' \in [Captures -> Nat]

\* What processPacket does with a message in progress: it adds the packet, or panics.
KnownAdds(c) ==
    Arrives(c) /\ MessageID(c, ack) \in DOMAIN m /\ AddToKnown(c, m[MessageID(c, ack)])

KnownPanics(c) ==
    Arrives(c) /\ MessageID(c, ack) \in DOMAIN m /\ CallOfNil(m[MessageID(c, ack)])

LEMMA KnownCases ==
    \A c \in Captures : ProcessKnown(c) <=> KnownAdds(c) \/ KnownPanics(c)
  BY DEF ProcessKnown, KnownAdds, KnownPanics

\* The option does not change.
LEMMA OptionFixed == [Next]_vars => allowIncompete' = allowIncompete
  BY DEF Next, vars, Arrives, ProcessKnown, ProcessNew, MergeNext, MergeDone,
         Timer, SweepKeep, SweepExpired, Read, Clock

LEMMA TypeParts ==
    TypeOK <=> /\ allowIncompete \in BOOLEAN
               /\ now \in Nat /\ received \in SUBSET Captures
               /\ ack \in [Captures -> Nat]
               /\ HeapOK(heap) /\ MapOK(m, Len(heap)) /\ StackOK(merging, Len(heap))
               /\ sweep \subseteq Keys /\ ChannelOK(messages, Len(heap))
               /\ out \in Seq(Taken) /\ crashed \in BOOLEAN
  BY DEF TypeOK, HeapOK, MapOK, StackOK, ChannelOK, Objects

\* Indices stay valid when messages are allocated.
LEMMA Growing ==
    ASSUME NEW n \in Nat, NEW p \in Nat, n <= p
    PROVE  /\ \A mm : MapOK(mm, n) => MapOK(mm, p)
           /\ \A fr : StackOK(fr, n) => StackOK(fr, p)
           /\ \A ms : ChannelOK(ms, n) => ChannelOK(ms, p)
<1>1. 1 .. n \subseteq 1 .. p
  OBVIOUS
<1>2. [obj : 1 .. n, rest : Seq(Captures)] \subseteq [obj : 1 .. p, rest : Seq(Captures)]
  BY <1>1
<1>3. \A mm : MapOK(mm, n) => MapOK(mm, p)
  BY <1>1 DEF MapOK
<1>4. \A fr : StackOK(fr, n) => StackOK(fr, p)
  BY <1>2, SeqMonotonic DEF StackOK
<1>5. \A ms : ChannelOK(ms, n) => ChannelOK(ms, p)
  BY <1>1, SeqMonotonic DEF ChannelOK
<1>6. QED
  BY <1>3, <1>4, <1>5

LEMMA RestrictedMap ==
    ASSUME NEW mm, NEW n, MapOK(mm, n), NEW k
    PROVE  MapOK(Restrict(mm, DOMAIN mm \ {k}), n)
  BY DEF MapOK, Restrict

\* Registering object o under a key.
LEMMA RegisteredMap ==
    ASSUME NEW mm, NEW n, MapOK(mm, n), NEW id \in Keys, NEW o \in 1 .. n,
           NEW new, new = [k \in DOMAIN mm \cup {id} |-> IF k = id THEN o ELSE mm[k]]
    PROVE  MapOK(new, n)
  BY DEF MapOK

LEMMA IdIsKey ==
    ASSUME NEW c \in Captures, NEW acks \in [Captures -> Nat]
    PROVE  MessageID(c, acks) \in Keys
  BY DEF MessageID, Keys

\* Preconditions under which the handlers keep the types.
CallOK(h, mm, fr, o) ==
    /\ h \in Seq(Message)
    /\ Len(heap) <= Len(h)
    /\ o \in 1 .. Len(h)
    /\ \A q \in 1 .. Len(h) : q # o => h[q].pkts # <<>>
    /\ MapOK(mm, Len(h))
    /\ StackOK(fr, Len(h))

LEMMA EmitType ==
    ASSUME TypeOK, NEW h, NEW mm, NEW fr, NEW o,
           CallOK(h, mm, fr, o), h[o].pkts # <<>>, Emit(h, mm, fr, o)
    PROVE  HandlerOK(Len(h))
<1>1. HeapOK(heap') /\ Len(heap') = Len(h)
  BY DEF Emit, HeapOK, CallOK
<1>2. MapOK(m', Len(h))
  BY RestrictedMap DEF Emit, CallOK
<1>3. StackOK(merging', Len(h))
  BY DEF Emit, CallOK
<1>4. ChannelOK(messages', Len(h))
  <2>1. Len(heap) \in Nat /\ Len(h) \in Nat /\ Len(heap) <= Len(h)
    BY LenProperties DEF CallOK, TypeOK
  <2>2. messages \in Seq(1 .. Len(h))
    BY <2>1, TypeParts, Growing DEF ChannelOK
  <2>3. Len(messages) \in Nat /\ Len(messages) < MessagesCap
    BY <2>2, LenProperties DEF Emit
  <2>4. o \in 1 .. Len(h) /\ messages' = Append(messages, o)
    BY DEF Emit, CallOK
  <2>5. messages' \in Seq(1 .. Len(h)) /\ Len(messages') = Len(messages) + 1
    BY <2>2, <2>4, AppendProperties
  <2>6. QED
    BY <2>3, <2>5, ParserAssumption DEF ChannelOK
<1>5. ack' \in [Captures -> Nat]
  BY DEF Emit, TypeOK
<1>6. QED
  BY <1>1, <1>2, <1>3, <1>4, <1>5 DEF HandlerOK

LEMMA Fix100ContinueType ==
    ASSUME TypeOK, NEW h, NEW mm, NEW fr, NEW o,
           CallOK(h, mm, fr, o), h[o].pkts # <<>>, Fix100Continue(h, mm, fr, o)
    PROVE  HandlerOK(Len(h))
<1> DEFINE acks == [c \in Captures |->
                     IF c \in Range(h[o].pkts) THEN ack[c] + ContinueLen ELSE ack[c]]
           id == MessageID(h[o].pkts[1], acks)
           rest == IF id \in DOMAIN mm THEN h[mm[id]].pkts ELSE <<>>
<1>1. /\ ack' = acks
      /\ merging' = Append(fr, [obj |-> o, rest |-> rest])
      /\ heap' = h /\ m' = mm /\ messages' = messages
  BY DEF Fix100Continue
<1>2. acks \in [Captures -> Nat]
  BY ParserAssumption DEF TypeOK
<1>3. rest \in Seq(Captures)
  <2>1. CASE id \in DOMAIN mm
    <3>1. mm[id] \in 1 .. Len(h)
      BY <2>1 DEF CallOK, MapOK
    <3>2. h[mm[id]] \in Message
      BY <3>1, ElementOfSeq DEF CallOK
    <3>3. QED
      BY <2>1, <3>2 DEF Message
  <2>2. CASE id \notin DOMAIN mm
    BY <2>2, EmptySeq
  <2>3. QED
    BY <2>1, <2>2
<1> HIDE DEF acks, id, rest
<1>4. StackOK(merging', Len(h))
  <2>1. [obj |-> o, rest |-> rest] \in [obj : 1 .. Len(h), rest : Seq(Captures)]
    BY <1>3 DEF CallOK
  <2>2. QED
    BY <1>1, <2>1, AppendProperties DEF StackOK, CallOK
<1>5. ChannelOK(messages', Len(h))
  <2>1. Len(heap) \in Nat /\ Len(h) \in Nat /\ Len(heap) <= Len(h)
    BY LenProperties DEF CallOK, TypeOK
  <2>2. QED
    BY <1>1, <2>1, TypeParts, Growing
<1>6. HeapOK(heap') /\ Len(heap') = Len(h) /\ MapOK(m', Len(h))
  BY <1>1 DEF HeapOK, CallOK
<1>7. QED
  BY <1>1, <1>2, <1>4, <1>5, <1>6 DEF HandlerOK

AllSorted(h) == \A q \in 1 .. Len(h) : Sorted(h[q].pkts)

\* addPacket changes no packet list but the one of o, to which it adds.
Added(h, o, c, state) ==
    [h EXCEPT ![o] = [@ EXCEPT !.pkts = Add(h[o].pkts, c), !.state = state]]

LEMMA AddedHeap ==
    ASSUME NEW h \in Seq(Message), NEW o \in 1 .. Len(h), NEW c \in Captures,
           NEW state \in Captures \cup {NoHeader}, ~Duplicate(h[o].pkts, c),
           \A q \in 1 .. Len(h) : q # o => h[q].pkts # <<>>,
           NEW added, added = Added(h, o, c, state)
    PROVE  /\ added \in Seq(Message) /\ Len(added) = Len(h)
           /\ \A q \in 1 .. Len(h) : added[q].pkts # <<>>
           /\ AllSorted(h) => AllSorted(added)
<1> DEFINE new == Add(h[o].pkts, c)
           msg == [h[o] EXCEPT !.pkts = new, !.state = state]
<1>1. h[o] \in Message /\ h[o].pkts \in Seq(Captures)
  <2>1. h[o] \in Message
    BY ElementOfSeq
  <2>2. QED
    BY <2>1 DEF Message
<1>2. new \in Seq(Captures) /\ new # <<>> /\ (Sorted(h[o].pkts) => Sorted(new))
  BY <1>1, AddProperties
<1> HIDE DEF new
<1>3. msg \in Message /\ msg.pkts = new
  BY <1>1, <1>2 DEF Message
<1>4. added = [h EXCEPT ![o] = msg]
  BY DEF new, Added
<1> HIDE DEF msg
<1>5. /\ added \in Seq(Message) /\ Len(added) = Len(h)
      /\ \A q \in 1 .. Len(h) : added[q] = IF q = o THEN msg ELSE h[q]
  <2>1. /\ [h EXCEPT ![o] = msg] \in Seq(Message)
        /\ Len([h EXCEPT ![o] = msg]) = Len(h)
        /\ \A q \in 1 .. Len(h) :
              [h EXCEPT ![o] = msg][q] = IF q = o THEN msg ELSE h[q]
    BY <1>3, ExceptSeq
  <2>2. QED
    BY <1>4, <2>1
<1>6. \A q \in 1 .. Len(h) : added[q].pkts # <<>>
  BY <1>2, <1>3, <1>5
<1>7. ASSUME AllSorted(h) PROVE AllSorted(added)
  BY <1>2, <1>3, <1>5, <1>7 DEF AllSorted
<1>8. QED
  BY <1>5, <1>6, <1>7

LEMMA AddPacketType ==
    ASSUME TypeOK, NEW h, NEW mm, NEW fr, NEW o, NEW c \in Captures,
           CallOK(h, mm, fr, o), AddPacket(h, mm, fr, o, c)
    PROVE  /\ HandlerOK(Len(h))
           /\ AllSorted(h) => AllSorted(heap')
<1> DEFINE pkts == Add(h[o].pkts, c)
           state == IF HttpHints THEN ParseHeader(h[o].state, pkts) ELSE h[o].state
           added == [h EXCEPT ![o] = [@ EXCEPT !.pkts = pkts, !.state = state]]
<1>1. h[o] \in Message /\ h \in Seq(Message) /\ o \in 1 .. Len(h)
  BY ElementOfSeq DEF CallOK
<1>2. ChannelOK(messages, Len(h)) /\ Len(h) \in Nat
  <2>1. Len(heap) \in Nat /\ Len(h) \in Nat /\ Len(heap) <= Len(h)
    BY LenProperties DEF CallOK, TypeOK
  <2>2. QED
    BY <2>1, TypeParts, Growing
<1>3. CASE Duplicate(h[o].pkts, c)
  <2>1. /\ heap' = h /\ m' = mm /\ merging' = fr
        /\ ack' = ack /\ messages' = messages
    BY <1>3 DEF AddPacket
  <2>2. h[o].pkts # <<>>
    BY <1>3 DEF Duplicate
  <2>3. HeapOK(h)
    BY <2>2 DEF HeapOK, CallOK
  <2>4. QED
    BY <2>1, <2>3, <1>2 DEF HandlerOK, CallOK, TypeOK
<1>4. CASE ~Duplicate(h[o].pkts, c)
  <2>1. pkts \in Seq(Captures) /\ pkts # <<>>
    BY <1>1, <1>4, AddProperties DEF Message
  <2>2. pkts[1] \in Captures
    BY <2>1, EmptySeq, ElementOfSeq
  <2>3. state \in Captures \cup {NoHeader}
    BY <1>1, <2>2 DEF ParseHeader, Message
  <2>4. /\ added \in Seq(Message) /\ Len(added) = Len(h)
        /\ \A q \in 1 .. Len(h) : added[q].pkts # <<>>
        /\ AllSorted(h) => AllSorted(added)
    <3>1. \A q \in 1 .. Len(h) : q # o => h[q].pkts # <<>>
      BY DEF CallOK
    <3>2. added = Added(h, o, c, state)
      BY DEF Added
    <3> HIDE DEF state, added, pkts
    <3>3. QED
      BY <1>1, <1>4, <2>3, <3>1, <3>2, AddedHeap
  <2>5. \/ Emit(added, mm, fr, o)
        \/ Fix100Continue(added, mm, fr, o)
        \/ /\ heap' = added /\ m' = mm /\ merging' = fr
           /\ ack' = ack /\ messages' = messages
    BY <1>4 DEF AddPacket
  <2> HIDE DEF added
  <2>6. CallOK(added, mm, fr, o) /\ added[o].pkts # <<>>
    BY <2>4 DEF CallOK
  <2>7. CASE Emit(added, mm, fr, o)
    <3>1. HandlerOK(Len(added)) /\ heap' = added
      BY <2>6, <2>7, EmitType DEF Emit
    <3>2. QED
      BY <2>4, <3>1
  <2>8. CASE Fix100Continue(added, mm, fr, o)
    <3>1. HandlerOK(Len(added)) /\ heap' = added
      BY <2>6, <2>8, Fix100ContinueType DEF Fix100Continue
    <3>2. QED
      BY <2>4, <3>1
  <2>9. CASE /\ heap' = added /\ m' = mm /\ merging' = fr
             /\ ack' = ack /\ messages' = messages
    BY <1>2, <2>4, <2>9 DEF HandlerOK, HeapOK, CallOK, TypeOK
  <2>10. QED
    BY <2>5, <2>7, <2>8, <2>9
<1>5. QED
  BY <1>3, <1>4

-----------------------------------------------------------------------------
(* The actions *)

\* Replacing one message by another with the same packets.
LEMMA Touched ==
    ASSUME NEW h \in Seq(Message), NEW o \in 1 .. Len(h), NEW msg \in Message,
           msg.pkts = h[o].pkts, NEW new, new = [h EXCEPT ![o] = msg]
    PROVE  /\ new \in Seq(Message) /\ Len(new) = Len(h)
           /\ \A q \in 1 .. Len(h) : new[q].pkts = h[q].pkts
           /\ AllSorted(h) => AllSorted(new)
<1>1. /\ [h EXCEPT ![o] = msg] \in Seq(Message)
      /\ Len([h EXCEPT ![o] = msg]) = Len(h)
      /\ \A q \in 1 .. Len(h) :
            [h EXCEPT ![o] = msg][q] = IF q = o THEN msg ELSE h[q]
  BY ExceptSeq
<1>2. \A q \in 1 .. Len(h) : new[q].pkts = h[q].pkts
  BY <1>1
<1>3. QED
  BY <1>1, <1>2 DEF AllSorted

\* What is left of the type invariant when a handler has done its part.
LEMMA HandlerTypeOK ==
    ASSUME TypeOK, NEW n \in Nat, HandlerOK(n), Len(heap) <= n,
           allowIncompete' = allowIncompete, now' = now,
           received' \in SUBSET Captures, sweep' \subseteq Keys,
           out' = out, crashed' \in BOOLEAN
    PROVE  TypeOK'
<1>1. Len(heap) \in Nat
  BY LenProperties DEF TypeOK
<1>2. Taken \subseteq Taken'
  BY <1>1 DEF Taken, Objects, HandlerOK
<1>3. out' \in Seq(Taken')
  BY <1>2, SeqMonotonic DEF TypeOK
<1>4. QED
  BY <1>3 DEF TypeOK, Objects, HandlerOK, HeapOK, MapOK, StackOK, ChannelOK

LEMMA KnownAddsStep ==
    ASSUME TypeOK, NEW c \in Captures, KnownAdds(c)
    PROVE  TypeOK' /\ (AllSorted(heap) => AllSorted(heap'))
<1> DEFINE id == MessageID(c, ack)
           o == m[id]
           dir == IF heap[o].dir = "unknown" THEN StartHint(c) ELSE heap[o].dir
           msg == [heap[o] EXCEPT !.dir = dir]
           h == [heap EXCEPT ![o] = msg]
<1>1. /\ Arrives(c) /\ id \in DOMAIN m /\ crashed' = crashed
      /\ AddPacket(h, m, merging, o, c)
  BY DEF KnownAdds, AddToKnown
<1>2. o \in 1 .. Len(heap) /\ heap \in Seq(Message) /\ Len(heap) \in Nat
  BY <1>1, LenProperties DEF TypeOK, Objects
<1>3. msg \in Message /\ msg.pkts = heap[o].pkts
  <2>1. heap[o] \in Message
    BY <1>2, ElementOfSeq
  <2>2. dir \in {"in", "out", "unknown"}
    BY <2>1 DEF Message, StartHint
  <2>3. QED
    BY <2>1, <2>2 DEF Message
<1> HIDE DEF msg
<1>4. /\ h \in Seq(Message) /\ Len(h) = Len(heap)
      /\ \A q \in 1 .. Len(h) : h[q].pkts = heap[q].pkts
      /\ AllSorted(heap) => AllSorted(h)
  BY <1>2, <1>3, Touched
<1> HIDE DEF h
<1>5. CallOK(h, m, merging, o)
  BY <1>2, <1>4, TypeParts DEF CallOK, HeapOK
<1>6. HandlerOK(Len(h)) /\ (AllSorted(h) => AllSorted(heap'))
  BY <1>1, <1>5, AddPacketType
<1>7. TypeOK'
  <2>1. /\ now' = now /\ received' \in SUBSET Captures /\ sweep' \subseteq Keys
        /\ out' = out /\ crashed' \in BOOLEAN /\ allowIncompete' = allowIncompete
    BY <1>1 DEF Arrives, TypeOK
  <2>2. QED
    BY <1>2, <1>4, <1>6, <2>1, HandlerTypeOK
<1>8. QED
  BY <1>4, <1>6, <1>7

LEMMA ProcessNewStep ==
    ASSUME TypeOK, NEW c \in Captures, ProcessNew(c)
    PROVE  TypeOK' /\ (AllSorted(heap) => AllSorted(heap'))
<1> DEFINE id == MessageID(c, ack)
           o == Len(heap) + 1
           dir == IF Pkt[c].dir = "unknown" /\ HttpHints THEN StartHint(c) ELSE Pkt[c].dir
           msg == NewMessage(dir)
           h == Append(heap, msg)
           registered == [k \in DOMAIN m \cup {id} |-> IF k = id THEN o ELSE m[k]]
<1>1. /\ Arrives(c) /\ crashed' = crashed
      /\ AddPacket(h, registered, merging, o, c)
  BY DEF ProcessNew
<1>2. msg \in Message /\ msg.pkts = <<>>
  <2>1. dir \in {"in", "out", "unknown"}
    BY ParserAssumption DEF StartHint, PacketRecord
  <2>2. QED
    BY <2>1, EmptySeq DEF NewMessage, Message
<1> HIDE DEF msg
<1>3. heap \in Seq(Message) /\ Len(heap) \in Nat
  BY LenProperties DEF TypeOK
<1>4. /\ h \in Seq(Message) /\ Len(h) = Len(heap) + 1 /\ h[o] = msg
      /\ \A q \in 1 .. Len(heap) : h[q] = heap[q]
  BY <1>2, <1>3, AppendProperties
<1> HIDE DEF h
<1>5. AllSorted(heap) => AllSorted(h)
  <2>1. ASSUME AllSorted(heap), NEW q \in 1 .. Len(h) PROVE Sorted(h[q].pkts)
    <3>1. CASE q = o
      BY <1>2, <1>4, <3>1 DEF Sorted
    <3>2. CASE q # o
      BY <1>3, <1>4, <2>1, <3>2 DEF AllSorted
    <3>3. QED
      BY <3>1, <3>2
  <2>2. QED
    BY <2>1 DEF AllSorted
<1>6. CallOK(h, registered, merging, o)
  <2>1. MapOK(m, Len(h)) /\ StackOK(merging, Len(h)) /\ o \in 1 .. Len(h)
    BY <1>3, <1>4, TypeParts, Growing
  <2>2. id \in Keys
    BY IdIsKey DEF TypeOK
  <2> HIDE DEF id, o
  <2>3. MapOK(registered, Len(h))
    BY <2>1, <2>2, RegisteredMap
  <2>4. \A q \in 1 .. Len(h) : q # o => h[q].pkts # <<>>
    <3>1. HeapOK(heap)
      BY TypeParts
    <3>2. TAKE q \in 1 .. Len(h)
    <3>3. HAVE q # o
    <3>4. q \in 1 .. Len(heap)
      BY <1>3, <1>4, <3>3 DEF o
    <3>5. QED
      BY <1>4, <3>1, <3>4 DEF HeapOK
  <2> HIDE DEF registered
  <2>5. QED
    BY <1>3, <1>4, <2>1, <2>3, <2>4 DEF CallOK
<1> HIDE DEF registered, o
<1>7. HandlerOK(Len(h)) /\ (AllSorted(h) => AllSorted(heap'))
  BY <1>1, <1>6, AddPacketType
<1>8. TypeOK'
  <2>1. /\ now' = now /\ received' \in SUBSET Captures /\ sweep' \subseteq Keys
        /\ out' = out /\ crashed' \in BOOLEAN /\ allowIncompete' = allowIncompete
    BY <1>1 DEF Arrives, TypeOK
  <2>2. QED
    BY <1>3, <1>4, <1>7, <2>1, HandlerTypeOK
<1>9. QED
  BY <1>5, <1>7, <1>8

LEMMA MergeNextStep ==
    ASSUME TypeOK, MergeNext
    PROVE  TypeOK' /\ (AllSorted(heap) => AllSorted(heap'))
<1> DEFINE top == merging[Len(merging)]
           below == SubSeq(merging, 1, Len(merging) - 1)
           left == [top EXCEPT !.rest = Tail(@)]
           fr == Append(below, left)
           c == Head(top.rest)
<1>1. /\ merging # <<>> /\ top.rest # <<>>
      /\ AddPacket(heap, m, fr, top.obj, c)
      /\ now' = now /\ received' = received /\ sweep' = sweep
      /\ out' = out /\ crashed' = crashed
  BY DEF MergeNext
<1>2. heap \in Seq(Message) /\ Len(heap) \in Nat
  BY LenProperties DEF TypeOK
<1> DEFINE Frame == [obj : 1 .. Len(heap), rest : Seq(Captures)]
<1>3. merging \in Seq(Frame) /\ Len(merging) \in Nat \ {0}
  BY <1>1, LenProperties, EmptySeq DEF TypeOK, Objects
<1>4. top \in Frame
  <2> HIDE DEF Frame
  <2>1. QED
    BY <1>3, ElementOfSeq
<1>5. c \in Captures /\ left \in Frame
  BY <1>1, <1>4, HeadTailProperties
<1>6. fr \in Seq(Frame)
  <2> HIDE DEF Frame, left
  <2>1. below \in Seq(Frame)
    BY <1>3, SubSeqProperties, ElementOfSeq
  <2> HIDE DEF below
  <2>2. QED
    BY <1>5, <2>1, AppendProperties
<1> HIDE DEF fr, c
<1>7. CallOK(heap, m, fr, top.obj)
  BY <1>2, <1>4, <1>6, TypeParts DEF CallOK, HeapOK, StackOK
<1>8. HandlerOK(Len(heap)) /\ (AllSorted(heap) => AllSorted(heap'))
  BY <1>1, <1>5, <1>7, AddPacketType
<1>9. TypeOK'
  <2>1. /\ now' = now /\ received' \in SUBSET Captures /\ sweep' \subseteq Keys
        /\ out' = out /\ crashed' \in BOOLEAN /\ allowIncompete' = allowIncompete
    BY <1>1 DEF TypeOK, MergeNext
  <2>2. QED
    BY <1>2, <1>8, <2>1, HandlerTypeOK
<1>10. QED
  BY <1>8, <1>9

LEMMA MergeDoneStep ==
    ASSUME TypeOK, MergeDone
    PROVE  TypeOK' /\ (AllSorted(heap) => AllSorted(heap'))
<1> DEFINE top == merging[Len(merging)]
           id == MessageID(heap[top.obj].pkts[1], ack)
           msg == [heap[top.obj] EXCEPT !.adjusted = TRUE]
           h == [heap EXCEPT ![top.obj] = msg]
           Frame == [obj : 1 .. Len(heap), rest : Seq(Captures)]
<1>1. /\ merging # <<>> /\ heap' = h
      /\ m' = [k \in DOMAIN m \cup {id} |-> IF k = id THEN top.obj ELSE m[k]]
      /\ merging' = SubSeq(merging, 1, Len(merging) - 1)
      /\ UNCHANGED <<now, received, ack, sweep, messages, out, crashed>>
  BY DEF MergeDone
<1>2. heap \in Seq(Message) /\ Len(heap) \in Nat
  BY LenProperties DEF TypeOK
<1>3. merging \in Seq(Frame) /\ Len(merging) \in Nat \ {0}
  BY <1>1, LenProperties, EmptySeq DEF TypeOK, Objects
<1>4. top \in Frame /\ merging' \in Seq(Frame)
  <2> HIDE DEF Frame
  <2>1. QED
    BY <1>1, <1>3, ElementOfSeq, SubSeqProperties
<1>5. top.obj \in 1 .. Len(heap)
  BY <1>4
<1> HIDE DEF top
<1>6. heap[top.obj] \in Message
  BY <1>2, <1>5, ElementOfSeq
<1>7. msg \in Message /\ msg.pkts = heap[top.obj].pkts
  BY <1>6 DEF Message
<1>8. heap[top.obj].pkts \in Seq(Captures) /\ heap[top.obj].pkts # <<>>
  BY <1>5, <1>6 DEF Message, TypeOK, Objects
<1>9. heap[top.obj].pkts[1] \in Captures
  BY <1>8, EmptySeq, ElementOfSeq
<1>10. id \in Keys
  BY <1>9, IdIsKey DEF TypeOK
<1> HIDE DEF id, msg
<1>11. /\ h \in Seq(Message) /\ Len(h) = Len(heap)
       /\ \A q \in 1 .. Len(heap) : h[q].pkts = heap[q].pkts
       /\ AllSorted(heap) => AllSorted(h)
  BY <1>2, <1>5, <1>7, Touched
<1> HIDE DEF h
<1>12. MapOK(m, Len(heap))
  BY TypeParts
<1>13. MapOK(m', Len(heap))
  <2> DEFINE new == [k \in DOMAIN m \cup {id} |-> IF k = id THEN top.obj ELSE m[k]]
  <2>1. MapOK(m, Len(heap)) /\ id \in Keys /\ top.obj \in 1 .. Len(heap)
    BY <1>5, <1>10, <1>12
  <2>2. /\ DOMAIN new = DOMAIN m \cup {id}
        /\ \A k \in DOMAIN new : new[k] \in {top.obj, m[k]} /\ (k # id => new[k] = m[k])
        /\ new[id] = top.obj
    OBVIOUS
  <2>3. m' = new
    BY <1>1
  <2> HIDE DEF new
  <2>4. DOMAIN new \subseteq Keys
    BY <2>1, <2>2 DEF MapOK
  <2>5. ASSUME NEW k \in DOMAIN new PROVE new[k] \in 1 .. Len(heap)
    <3>1. CASE k = id
      BY <2>1, <2>2, <3>1
    <3>2. CASE k # id
      BY <2>1, <2>2, <3>2 DEF MapOK
    <3>3. QED
      BY <3>1, <3>2
  <2>6. QED
    BY <2>3, <2>4, <2>5 DEF MapOK
<1>14. HandlerOK(Len(heap))
  <2>1. HeapOK(heap')
    BY <1>1, <1>11, TypeParts DEF HeapOK
  <2>2. StackOK(merging', Len(heap))
    BY <1>4 DEF StackOK
  <2>3. ChannelOK(messages', Len(heap)) /\ ack' \in [Captures -> Nat]
    BY <1>1, TypeParts
  <2>4. QED
    BY <1>1, <1>11, <1>13, <2>1, <2>2, <2>3 DEF HandlerOK
<1>15. TypeOK'
  <2>1. /\ now' = now /\ received' \in SUBSET Captures /\ sweep' \subseteq Keys
        /\ out' = out /\ crashed' \in BOOLEAN /\ allowIncompete' = allowIncompete
    BY <1>1 DEF TypeOK, MergeDone
  <2>2. QED
    BY <1>2, <1>14, <2>1, HandlerTypeOK
<1>16. QED
  BY <1>1, <1>11, <1>15

LEMMA SweepExpiredStep ==
    ASSUME TypeOK, NEW k \in sweep, SweepExpired(k)
    PROVE  TypeOK' /\ (AllSorted(heap) => AllSorted(heap'))
<1> DEFINE o == m[k]
           msg == [heap[o] EXCEPT !.timedOut = TRUE]
           late == [heap EXCEPT ![o] = msg]
           key == MessageID(late[o].pkts[1], ack)
<1>1. /\ k \in DOMAIN m /\ sweep' = sweep \ {k}
      /\ now' = now /\ received' = received /\ out' = out /\ crashed' = crashed
      /\ \/ Emit(late, m, merging, o)
         \/ /\ heap' = late /\ m' = Restrict(m, DOMAIN m \ {key})
            /\ ack' = ack /\ merging' = merging /\ messages' = messages
  BY DEF SweepExpired
<1>2. /\ heap \in Seq(Message) /\ Len(heap) \in Nat
      /\ o \in 1 .. Len(heap)
  BY <1>1, LenProperties DEF TypeOK, Objects
<1>3. msg \in Message /\ msg.pkts = heap[o].pkts
  <2>1. heap[o] \in Message
    BY <1>2, ElementOfSeq
  <2>2. QED
    BY <2>1 DEF Message
<1> HIDE DEF msg
<1>4. /\ late \in Seq(Message) /\ Len(late) = Len(heap)
      /\ \A q \in 1 .. Len(heap) : late[q].pkts = heap[q].pkts
      /\ AllSorted(heap) => AllSorted(late)
  BY <1>2, <1>3, Touched
<1> HIDE DEF late
<1>5. HeapOK(late) /\ MapOK(m, Len(heap)) /\ StackOK(merging, Len(heap))
  BY <1>4, TypeParts DEF HeapOK
<1>6. heap' = late
  BY <1>1 DEF Emit
<1>7. HandlerOK(Len(heap))
  <2>1. CASE Emit(late, m, merging, o)
    <3>1. CallOK(late, m, merging, o) /\ late[o].pkts # <<>>
      BY <1>2, <1>4, <1>5 DEF CallOK, HeapOK
    <3> HIDE DEF o
    <3>2. HandlerOK(Len(late))
      BY <2>1, <3>1, EmitType
    <3>3. QED
      BY <1>4, <3>2
  <2>2. CASE /\ heap' = late /\ m' = Restrict(m, DOMAIN m \ {key})
             /\ ack' = ack /\ merging' = merging /\ messages' = messages
    <3> HIDE DEF key
    <3>1. MapOK(m', Len(heap))
      BY <1>5, <2>2, RestrictedMap
    <3>2. ChannelOK(messages', Len(heap)) /\ ack' \in [Captures -> Nat]
      BY <2>2, TypeParts
    <3>3. QED
      BY <1>4, <1>5, <2>2, <3>1, <3>2 DEF HandlerOK
  <2>3. QED
    BY <1>1, <2>1, <2>2
<1>8. TypeOK'
  <2>1. /\ now' = now /\ received' \in SUBSET Captures /\ sweep' \subseteq Keys
        /\ out' = out /\ crashed' \in BOOLEAN /\ allowIncompete' = allowIncompete
    BY <1>1 DEF TypeOK, SweepExpired
  <2>2. QED
    BY <1>2, <1>7, <2>1, HandlerTypeOK
<1>9. QED
  BY <1>4, <1>6, <1>8

LEMMA ReadStep ==
    ASSUME TypeOK, Read
    PROVE  TypeOK' /\ (AllSorted(heap) => AllSorted(heap'))
<1>1. heap' = heap /\ m' = m /\ merging' = merging /\ ack' = ack
      /\ now' = now /\ received' = received /\ sweep' = sweep /\ crashed' = crashed
      /\ allowIncompete' = allowIncompete
  BY DEF Read
<1>2. messages \in Seq(Objects) /\ messages # <<>> /\ messages' = Tail(messages)
  BY DEF TypeOK, Read
<1>3. /\ messages' \in Seq(Objects) /\ Head(messages) \in Objects
      /\ Len(messages') = Len(messages) - 1
  BY <1>2, HeadTailProperties
<1>4. Len(messages') <= MessagesCap
  BY <1>2, <1>3, LenProperties, ParserAssumption DEF TypeOK
<1> DEFINE o == Head(messages)
           taken == [obj |-> o, pkts |-> heap[o].pkts, dir |-> heap[o].dir,
                     timedOut |-> heap[o].timedOut, uuid |-> UUID(heap[o])]
<1>5. heap[o] \in Message /\ heap[o].pkts # <<>>
  BY <1>3, ElementOfSeq DEF TypeOK, Objects
<1>6. heap[o].pkts[1] \in Captures /\ heap[o].pkts \in Seq(Captures)
  <2>1. heap[o].pkts \in Seq(Captures)
    BY <1>5 DEF Message
  <2>2. QED
    BY <1>5, <2>1, EmptySeq, ElementOfSeq
<1>7. UUID(heap[o]) \in UUIDs
  <2> DEFINE c == heap[o].pkts[1]
  <2>1. Pkt[c].conn \in STRING /\ Pkt[c].side \in {"client", "server"}
    BY <1>6, ParserAssumption DEF PacketRecord
  <2>2. ack[c] \in Nat /\ Seq_(c) \in Nat
    BY <1>6, SeqIsNat DEF TypeOK
  <2>3. QED
    BY <2>1, <2>2 DEF UUID, UUIDs, Flow, PeerFlow
<1>8. taken \in Taken
  <2> HIDE DEF o
  <2>1. QED
    BY <1>3, <1>5, <1>6, <1>7 DEF Taken, Message, o
<1>9. out' \in Seq(Taken)
  <2>1. out' = Append(out, taken) /\ out \in Seq(Taken)
    BY DEF Read, TypeOK
  <2> HIDE DEF taken
  <2>2. QED
    BY <1>8, <2>1, AppendProperties
<1>10. Taken' = Taken
  BY <1>1 DEF Taken, Objects
<1>11. QED
  BY <1>1, <1>3, <1>4, <1>9, <1>10 DEF TypeOK, Objects

-----------------------------------------------------------------------------
(* The theorems *)

LEMMA InitTypeOK == Init => TypeOK /\ AllSorted(heap)
<1> SUFFICES ASSUME Init PROVE TypeOK /\ AllSorted(heap)
  OBVIOUS
<1>1. ack \in [Captures -> Nat]
  BY ParserAssumption DEF Init, PacketRecord
<1>2. heap = <<>> /\ Len(heap) = 0 /\ heap \in Seq(Message)
  BY EmptySeq DEF Init
<1>3. TypeOK
  <2>1. \A S : <<>> \in Seq(S)
    BY EmptySeq
  <2>2. messages \in Seq(Objects) /\ Len(messages) <= MessagesCap
    BY <2>1, EmptySeq, ParserAssumption DEF Init
  <2>3. DOMAIN m = {} /\ Objects = {}
    BY <1>2 DEF Init, Objects
  <2>4. merging \in Seq([obj : Objects, rest : Seq(Captures)]) /\ out \in Seq(Taken)
    BY <2>1 DEF Init
  <2>5. QED
    BY <1>1, <1>2, <2>2, <2>3, <2>4 DEF Init, TypeOK
<1>4. AllSorted(heap)
  BY <1>2 DEF AllSorted
<1>5. QED
  BY <1>3, <1>4

\* Every step keeps the type invariant and the order within the messages.
LEMMA StepTypeOK ==
    ASSUME TypeOK, [Next]_vars
    PROVE  TypeOK' /\ (AllSorted(heap) => AllSorted(heap'))
<1>1. ASSUME NEW c \in Captures, KnownAdds(c)
      PROVE  TypeOK' /\ (AllSorted(heap) => AllSorted(heap'))
  BY <1>1, KnownAddsStep
<1>2. ASSUME NEW c \in Captures, KnownPanics(c)
      PROVE  TypeOK' /\ (AllSorted(heap) => AllSorted(heap'))
  BY <1>2 DEF KnownPanics, CallOfNil, Arrives, TypeOK, Objects, Taken
<1>3. ASSUME NEW c \in Captures, ProcessNew(c)
      PROVE  TypeOK' /\ (AllSorted(heap) => AllSorted(heap'))
  BY <1>3, ProcessNewStep
<1>4. CASE MergeNext
  BY <1>4, MergeNextStep
<1>5. CASE MergeDone
  BY <1>5, MergeDoneStep
<1>6. CASE Timer
  BY <1>6 DEF Timer, TypeOK, Objects, Taken
<1>7. ASSUME NEW k \in sweep, SweepKeep(k)
      PROVE  TypeOK' /\ (AllSorted(heap) => AllSorted(heap'))
  BY <1>7 DEF SweepKeep, TypeOK, Objects, Taken
<1>8. ASSUME NEW k \in sweep, SweepExpired(k)
      PROVE  TypeOK' /\ (AllSorted(heap) => AllSorted(heap'))
  BY <1>8, SweepExpiredStep
<1>9. CASE Read
  BY <1>9, ReadStep
<1>10. CASE Clock
  BY <1>10 DEF Clock, TypeOK, Objects, Taken
<1>11. CASE UNCHANGED vars
  BY <1>11 DEF vars, TypeOK, Objects, Taken
<1>12. QED
  BY <1>1, <1>2, <1>3, <1>4, <1>5, <1>6, <1>7, <1>8, <1>9, <1>10, <1>11,
     KnownCases DEF Next

\* The map and the running loops only ever refer to allocated messages, and no
\* message is empty, whatever is captured and in whatever order.
THEOREM TypeCorrect == Spec => []TypeOK
<1>1. Init => TypeOK
  BY InitTypeOK
<1>2. TypeOK /\ [Next]_vars => TypeOK'
  BY StepTypeOK
<1>3. QED
  BY <1>1, <1>2, PTL DEF Spec

LEMMA SortedMessages == SortedUnique <=> AllSorted(heap)
  BY DEF SortedUnique, AllSorted, Sorted, Objects

\* The packets of every message are in strictly increasing order of Seq at all
\* times: add, the merge loop and retransmissions never break it.
THEOREM PacketsSorted == Spec => []SortedUnique
<1> DEFINE IInv == TypeOK /\ AllSorted(heap)
<1>1. Init => IInv
  BY InitTypeOK
<1>2. IInv /\ [Next]_vars => IInv'
  BY StepTypeOK DEF AllSorted, Sorted
<1>3. IInv => SortedUnique
  BY SortedMessages
<1>4. QED
  BY <1>1, <1>2, <1>3, PTL DEF Spec

\* add adds the packet and drops none.
LEMMA AddedPackets ==
    ASSUME NEW pkts \in Seq(Captures), NEW c \in Captures, ~Duplicate(pkts, c)
    PROVE  Range(Add(pkts, c)) = Range(pkts) \cup {c}
<1> DEFINE i == InsertPos(pkts, c)
<1>1. i \in 1 .. Len(pkts) + 1 /\ Len(pkts) \in Nat
  BY InsertPosProperties, LenProperties
<1> HIDE DEF i
<1>2. /\ InsertAt(pkts, i, c) \in Seq(Captures)
      /\ Len(InsertAt(pkts, i, c)) = Len(pkts) + 1
      /\ \A j \in 1 .. Len(pkts) + 1 :
           InsertAt(pkts, i, c)[j] = IF j < i THEN pkts[j]
                                     ELSE IF j = i THEN c ELSE pkts[j - 1]
  BY <1>1, InsertAtProperties
<1> DEFINE new == InsertAt(pkts, i, c)
<1>3. new = Add(pkts, c)
  BY DEF Add, i
<1>4. DOMAIN new = 1 .. Len(pkts) + 1 /\ DOMAIN pkts = 1 .. Len(pkts)
  BY <1>2, LenProperties
<1> HIDE DEF new
<1>5. ASSUME NEW j \in DOMAIN new PROVE new[j] \in Range(pkts) \cup {c}
  <2>1. j < i => j \in DOMAIN pkts
    BY <1>1, <1>4
  <2>2. j > i => j - 1 \in DOMAIN pkts
    BY <1>1, <1>4
  <2>3. j < i \/ j = i \/ j > i
    BY <1>1, <1>4
  <2>4. QED
    BY <1>1, <1>2, <1>4, <2>1, <2>2, <2>3 DEF Range, new
<1>6. ASSUME NEW j \in DOMAIN pkts PROVE pkts[j] \in Range(new)
  <2>1. CASE j < i
    <3>1. new[j] = pkts[j] /\ j \in DOMAIN new
      BY <1>1, <1>2, <1>4, <2>1 DEF new
    <3>2. QED
      BY <3>1 DEF Range
  <2>2. CASE ~(j < i)
    <3>1. new[j + 1] = pkts[j] /\ j + 1 \in DOMAIN new
      BY <1>1, <1>2, <1>4, <2>2 DEF new
    <3>2. QED
      BY <3>1 DEF Range
  <2>3. QED
    BY <2>1, <2>2
<1>7. c \in Range(new)
  <2>1. new[i] = c /\ i \in DOMAIN new
    BY <1>1, <1>2, <1>4 DEF new
  <2>2. QED
    BY <2>1 DEF Range
<1>8. QED
  BY <1>3, <1>5, <1>6, <1>7 DEF Range

\* A subset of the naturals that is closed downwards in the sense that nothing
\* can be its least element is empty.
LEMMA NoLeastElement ==
    ASSUME NEW T \in SUBSET Nat, \A x \in T : \E y \in T : y < x
    PROVE  T = {}
<1> SUFFICES ASSUME T # {} PROVE FALSE
  OBVIOUS
<1>1. Min(T) \in T /\ \A x \in T : Min(T) <= x
  BY MinOfNat
<1>2. PICK y \in T : y < Min(T)
  BY <1>1
<1>3. Min(T) <= y /\ y \in Nat /\ Min(T) \in Nat
  BY <1>1
<1>4. QED
  BY <1>2, <1>3

\* The fields of a packet that are numbers, and those that are Booleans.
LEMMA PacketNumbers ==
    ASSUME NEW c \in Captures
    PROVE  /\ Seq_(c) \in Nat /\ Pkt[c].len \in Nat /\ NextSeq(c) = Seq_(c) + Pkt[c].len
           /\ Pkt[c].hdr \in Nat /\ Pkt[c].body \in Nat
           /\ Pkt[c].chunked \in BOOLEAN /\ Pkt[c].tail \in BOOLEAN
  BY ParserAssumption DEF Seq_, NextSeq, PacketRecord

\* No packet reaches the end of the sequence space.
LEMMA NoWrap ==
    ASSUME WellFormed, NEW c \in Captures
    PROVE  /\ Pkt[c].len > 0 /\ NextSeq(c) < SeqSpace /\ NextSeq(c) \in Nat
           /\ NextSeq(c) % SeqSpace = NextSeq(c)
<1>1. Pkt[c].len > 0 /\ NextSeq(c) < SeqSpace
  BY DEF WellFormed
<1>2. NextSeq(c) \in Nat
  BY PacketNumbers
<1>3. SeqSpace \in Nat \ {0}
  BY ParserAssumption
<1>4. QED
  BY <1>1, <1>2, <1>3

\* Without a missing chunk the packets follow each other, and the size of the
\* message is the distance from its first byte to its last.
LEMMA SizeOfRun ==
    ASSUME WellFormed, NEW pkts \in Seq(Captures), pkts # <<>>, ~MissingChunk(pkts)
    PROVE  /\ \A i \in 2 .. Len(pkts) : Seq_(pkts[i]) = NextSeq(pkts[i - 1])
           /\ Size(pkts) = NextSeq(pkts[Len(pkts)]) - Seq_(pkts[1])
<1> DEFINE L == Len(pkts)
           Step(f) == [n \in 0 .. L |-> IF n = 0 THEN 0 ELSE f[n - 1] + Pkt[pkts[n]].len]
           g == [n \in 0 .. L |-> IF n = 0 THEN 0 ELSE NextSeq(pkts[n]) - Seq_(pkts[1])]
           total == CHOOSE f : f = Step(f)
<1>1. L \in Nat \ {0} /\ \A i \in 1 .. L : pkts[i] \in Captures
  BY LenProperties, EmptySeq, ElementOfSeq
<1>2. \A i \in 1 .. L : /\ Seq_(pkts[i]) \in Nat /\ Pkt[pkts[i]].len \in Nat
                        /\ NextSeq(pkts[i]) \in Nat
                        /\ NextSeq(pkts[i]) = Seq_(pkts[i]) + Pkt[pkts[i]].len
                        /\ NextSeq(pkts[i]) % SeqSpace = NextSeq(pkts[i])
  <2> TAKE i \in 1 .. L
  <2>1. pkts[i] \in Captures
    BY <1>1
  <2> HIDE DEF L, g, total
  <2>2. QED
    BY <2>1, PacketNumbers, NoWrap
<1>3. ASSUME NEW i \in 2 .. L PROVE Seq_(pkts[i]) = NextSeq(pkts[i - 1])
  <2>1. i - 1 \in 1 .. L
    BY <1>1
  <2>2. Seq_(pkts[i]) = (Seq_(pkts[i - 1]) + Pkt[pkts[i - 1]].len) % SeqSpace
    BY DEF MissingChunk
  <2>3. NextSeq(pkts[i - 1]) % SeqSpace = NextSeq(pkts[i - 1])
    BY <1>2, <2>1
  <2>4. QED
    BY <1>2, <2>1, <2>2, <2>3
<1>4. g = Step(g)
  <2>1. ASSUME NEW n \in 0 .. L
        PROVE  g[n] = IF n = 0 THEN 0 ELSE g[n - 1] + Pkt[pkts[n]].len
    <3>1. CASE n = 0
      BY <3>1
    <3>2. CASE n = 1
      BY <1>1, <1>2, <3>2
    <3>3. CASE n \in 2 .. L
      <4>1. g[n] = NextSeq(pkts[n]) - Seq_(pkts[1])
        BY <3>3
      <4>2. g[n - 1] = Seq_(pkts[n]) - Seq_(pkts[1])
        BY <1>3, <3>3
      <4>3. n \in 1 .. L /\ 1 \in 1 .. L /\ n # 0
        BY <1>1, <3>3
      <4> HIDE DEF g
      <4>4. QED
        BY <1>2, <4>1, <4>2, <4>3
    <3>4. QED
      BY <1>1, <3>1, <3>2, <3>3
  <2>2. g = [n \in 0 .. L |-> g[n]]
    OBVIOUS
  <2> HIDE DEF g
  <2>3. QED
    BY <2>1, <2>2
<1>5. total = Step(total)
  <2> HIDE DEF g
  <2>1. QED
    BY <1>4
<1> HIDE DEF total
<1>6. \A n \in 0 .. L : total[n] = IF n = 0 THEN 0 ELSE total[n - 1] + Pkt[pkts[n]].len
  <2>1. \A n \in 0 .. L : Step(total)[n] = IF n = 0 THEN 0 ELSE total[n - 1] + Pkt[pkts[n]].len
    OBVIOUS
  <2>2. QED
    BY <1>5, <2>1
<1>7. \A n \in 0 .. L : g[n] = IF n = 0 THEN 0 ELSE g[n - 1] + Pkt[pkts[n]].len
  <2> HIDE DEF g
  <2>1. \A n \in 0 .. L : Step(g)[n] = IF n = 0 THEN 0 ELSE g[n - 1] + Pkt[pkts[n]].len
    OBVIOUS
  <2>2. QED
    BY <1>4, <2>1
<1> DEFINE Wrong == {n \in 0 .. L : total[n] # g[n]}
<1>8. Wrong = {}
  <2> HIDE DEF g
  <2>1. ASSUME NEW n \in Wrong PROVE \E y \in Wrong : y < n
    <3>1. n # 0
      BY <1>1, <1>6, <1>7
    <3>2. n - 1 \in 0 .. L /\ n - 1 < n
      BY <1>1, <3>1
    <3>3. total[n - 1] # g[n - 1]
      BY <1>6, <1>7, <3>1
    <3>4. QED
      BY <3>2, <3>3
  <2>2. Wrong \in SUBSET Nat
    BY <1>1
  <2> HIDE DEF Wrong
  <2>3. QED
    BY <2>1, <2>2, NoLeastElement
<1>9. total[L] = g[L] /\ g[L] = NextSeq(pkts[L]) - Seq_(pkts[1])
  <2>1. L \in 0 .. L /\ L # 0
    BY <1>1
  <2> HIDE DEF L
  <2>2. QED
    BY <1>8, <2>1
<1>10. Size(pkts) = total[L]
  BY DEF Size, total
<1>11. QED
  BY <1>3, <1>9, <1>10

-----------------------------------------------------------------------------
(* End and the header hint recognise a message exactly when all of it is    *)
(* there.                                                                   *)

OneMessage(pkts) == \A i, j \in DOMAIN pkts : SameMessage(pkts[i], pkts[j])

\* Every packet of the message of pkts on the wire is there.
Covered(pkts) == PacketSeqs(pkts) = WireSeqs(pkts[1])

\* The header was parsed from a packet of the message that has a title.
HeaderOK(state, pkts) ==
    state # NoHeader => state \in Range(pkts) /\ Pkt[state].title # "none"

\* Being of one message is symmetric and transitive.
LEMMA SameMessageRelation ==
    /\ \A c, d : SameMessage(c, d) <=> SameMessage(d, c)
    /\ \A c, d, e : SameMessage(c, d) /\ SameMessage(d, e) => SameMessage(c, e)
  BY DEF SameMessage

\* A retransmission ends a message where the packet it repeats does.
LEMMA SameEnds ==
    ASSUME NEW first \in Captures, NEW f \in Captures,
           Seq_(f) = Seq_(first), Content(f) = Content(first)
    PROVE  \A c : Ends(c, f) <=> Ends(c, first)
  BY DEF Ends, Content

\* A packet with a title is the first of its message.
LEMMA TitleOpens ==
    ASSUME WellFormed, NEW f \in Captures, Pkt[f].title # "none"
    PROVE  Opens(f)
<1>1. PICK first \in Captures : SameMessage(first, f) /\ Opens(first)
  BY DEF WellFormed
<1>2. Seq_(f) = Seq_(first)
  BY <1>1 DEF Opens
<1>3. Content(f) = Content(first)
  BY <1>1, <1>2, SameMessageRelation DEF WellFormed
<1>4. \A c : Ends(c, f) <=> Ends(c, first)
  BY <1>2, <1>3, SameEnds
<1>5. \A c : SameMessage(f, c) => SameMessage(first, c)
  BY <1>1, SameMessageRelation
<1>6. QED
  BY <1>1, <1>2, <1>4, <1>5 DEF Opens

\* What the provers need of the packets of one message.
LEMMA MessagePackets ==
    ASSUME WellFormed, NEW pkts \in Seq(Captures), pkts # <<>>, OneMessage(pkts), Sorted(pkts)
    PROVE  /\ Len(pkts) \in Nat \ {0} /\ DOMAIN pkts = 1 .. Len(pkts)
           /\ \A i \in 1 .. Len(pkts) :
                /\ pkts[i] \in Captures /\ SameMessage(pkts[1], pkts[i])
                /\ Seq_(pkts[i]) \in Nat /\ NextSeq(pkts[i]) \in Nat
                /\ Seq_(pkts[i]) < NextSeq(pkts[i])
           /\ \A i, j \in 1 .. Len(pkts) : Seq_(pkts[i]) < Seq_(pkts[j]) => i < j
<1>1. /\ Len(pkts) \in Nat \ {0} /\ DOMAIN pkts = 1 .. Len(pkts)
      /\ \A i \in 1 .. Len(pkts) : pkts[i] \in Captures
  BY LenProperties, EmptySeq, ElementOfSeq
<1>2. ASSUME NEW i \in 1 .. Len(pkts)
      PROVE  /\ SameMessage(pkts[1], pkts[i])
             /\ Seq_(pkts[i]) \in Nat /\ NextSeq(pkts[i]) \in Nat
             /\ Seq_(pkts[i]) < NextSeq(pkts[i])
  <2>1. pkts[i] \in Captures /\ i \in DOMAIN pkts /\ 1 \in DOMAIN pkts
    BY <1>1
  <2>2. SameMessage(pkts[1], pkts[i])
    BY <2>1 DEF OneMessage
  <2>3. /\ Seq_(pkts[i]) \in Nat /\ Pkt[pkts[i]].len \in Nat /\ Pkt[pkts[i]].len > 0
        /\ NextSeq(pkts[i]) = Seq_(pkts[i]) + Pkt[pkts[i]].len
    BY <2>1, PacketNumbers, NoWrap
  <2>4. QED
    BY <2>2, <2>3
<1>3. ASSUME NEW i \in 1 .. Len(pkts), NEW j \in 1 .. Len(pkts), Seq_(pkts[i]) < Seq_(pkts[j])
      PROVE  i < j
  <2>1. Seq_(pkts[i]) \in Nat /\ Seq_(pkts[j]) \in Nat
    BY <1>2
  <2>2. i # j /\ ~ (j < i)
    BY <1>1, <1>3, <2>1 DEF Sorted
  <2>3. QED
    BY <2>2
<1>4. QED
  BY <1>1, <1>2, <1>3

\* What the header says is the same whichever copy of the first packet it was
\* parsed from.
LEMMA SameHeader ==
    ASSUME WellFormed, NEW pkts \in Seq(Captures), pkts # <<>>, OneMessage(pkts), Sorted(pkts),
           Pkt[pkts[1]].title # "none", NEW state, state # NoHeader, HeaderOK(state, pkts)
    PROVE  /\ Pkt[state].hdr = Pkt[pkts[1]].hdr /\ Pkt[state].body = Pkt[pkts[1]].body
           /\ Pkt[state].chunked = Pkt[pkts[1]].chunked
<1>1. PICK i \in DOMAIN pkts : state = pkts[i]
  BY DEF HeaderOK, Range
<1>2. state \in Captures /\ pkts[1] \in Captures /\ SameMessage(pkts[1], state)
  BY <1>1, MessagePackets
<1>3. Opens(pkts[1])
  BY <1>2, TitleOpens
<1>4. Seq_(state) = Seq_(pkts[1])
  BY <1>2, <1>3 DEF Opens, HeaderOK
<1>5. Content(pkts[1]) = Content(state)
  BY <1>2, <1>4 DEF WellFormed
<1>6. QED
  BY <1>5 DEF Content

\* What the header hint caches is a packet of the message, with a title.
LEMMA ParsedHeader ==
    ASSUME NEW pkts \in Seq(Captures), pkts # <<>>, NEW state, HeaderOK(state, pkts)
    PROVE  HeaderOK(ParseHeader(state, pkts), pkts)
<1>1. pkts[1] \in Range(pkts)
  BY LenProperties, EmptySeq DEF Range
<1>2. QED
  BY <1>1 DEF HeaderOK, ParseHeader

\* End finds no message complete that is not.
LEMMA CompleteIsCovered ==
    ASSUME WellFormed, NEW pkts \in Seq(Captures), pkts # <<>>, OneMessage(pkts), Sorted(pkts),
           NEW state, HeaderOK(state, pkts), Complete(state, pkts)
    PROVE  Covered(pkts)
<1> DEFINE first == pkts[1]
           last == pkts[Len(pkts)]
<1>1. /\ ~MissingChunk(pkts) /\ Pkt[first].title # "none" /\ state # NoHeader
      /\ IF Pkt[state].chunked
         THEN Size(pkts) > Pkt[state].hdr /\ Pkt[last].tail
         ELSE Size(pkts) = Pkt[state].hdr + Pkt[state].body
  BY DEF Complete
<1>2. /\ Len(pkts) \in Nat \ {0} /\ first \in Captures /\ last \in Captures
      /\ SameMessage(first, last) /\ SameMessage(first, first)
  BY MessagePackets
<1>3. Opens(first)
  BY <1>1, <1>2, TitleOpens
<1>4. /\ Pkt[state].hdr = Pkt[first].hdr /\ Pkt[state].body = Pkt[first].body
      /\ Pkt[state].chunked = Pkt[first].chunked
  BY <1>1, SameHeader
<1>5. /\ \A i \in 2 .. Len(pkts) : Seq_(pkts[i]) = NextSeq(pkts[i - 1])
      /\ Size(pkts) = NextSeq(last) - Seq_(first)
  BY <1>1, SizeOfRun
<1>6. Ends(last, first)
  <2>1. /\ NextSeq(last) \in Nat /\ Seq_(first) \in Nat
        /\ Pkt[first].hdr \in Nat /\ Pkt[first].body \in Nat
    BY <1>2, PacketNumbers
  <2>2. IF Pkt[first].chunked
        THEN NextSeq(last) - Seq_(first) > Pkt[first].hdr /\ Pkt[last].tail
        ELSE NextSeq(last) - Seq_(first) = Pkt[first].hdr + Pkt[first].body
    BY <1>1, <1>4, <1>5
  <2> HIDE DEF first, last
  <2>3. /\ NextSeq(last) - Seq_(first) > Pkt[first].hdr
            <=> NextSeq(last) > Seq_(first) + Pkt[first].hdr
        /\ NextSeq(last) - Seq_(first) = Pkt[first].hdr + Pkt[first].body
            <=> NextSeq(last) = Seq_(first) + Pkt[first].hdr + Pkt[first].body
    <3> DEFINE a == NextSeq(last)
               b == Seq_(first)
               x == Pkt[first].hdr
               y == Pkt[first].body
    <3>1. a \in Nat /\ b \in Nat /\ x \in Nat /\ y \in Nat
      BY <2>1
    <3> HIDE DEF a, b, x, y
    <3>2. /\ a - b > x <=> a > b + x
          /\ a - b = x + y <=> a = b + x + y
      BY <3>1
    <3>3. QED
      BY <3>2, Zenon DEF a, b, x, y
  <2>4. QED
    BY <2>2, <2>3, Zenon DEF Ends
<1>7. ASSUME NEW e \in Captures, SameMessage(first, e) PROVE Seq_(e) \in PacketSeqs(pkts)
  <2> SUFFICES ASSUME Seq_(e) \notin PacketSeqs(pkts) PROVE FALSE
    OBVIOUS
  <2> DEFINE Beyond == {i \in 1 .. Len(pkts) : ~ (Seq_(pkts[i]) < Seq_(e))}
  <2>1. Seq_(e) \in Nat /\ \A i \in 1 .. Len(pkts) : Seq_(pkts[i]) # Seq_(e)
    BY <1>2, SeqIsNat, MessagePackets DEF PacketSeqs
  <2>2. ASSUME NEW i \in Beyond PROVE \E j \in Beyond : j < i
    <3>1. CASE i = 1
      <4>1. Seq_(first) <= Seq_(e)
        BY <1>3, <1>7 DEF Opens
      <4>2. Seq_(first) \in Nat /\ Seq_(first) # Seq_(e)
        BY <1>2, <2>1, SeqIsNat
      <4>3. QED
        BY <2>1, <2>2, <3>1, <4>1, <4>2
    <3>2. CASE i # 1
      <4>1. i - 1 \in 1 .. Len(pkts) /\ i \in 2 .. Len(pkts) /\ i \in 1 .. Len(pkts)
        BY <1>2, <2>2, <3>2
      <4>2. CASE Seq_(pkts[i - 1]) < Seq_(e)
        <5>1. SameMessage(pkts[i - 1], e) /\ pkts[i - 1] \in Captures
          BY <1>7, <4>1, MessagePackets, SameMessageRelation
        <5>2. NextSeq(pkts[i - 1]) <= Seq_(e)
          BY <4>2, <5>1 DEF WellFormed
        <5>3. Seq_(pkts[i]) <= Seq_(e)
          BY <1>5, <4>1, <5>2
        <5>4. Seq_(pkts[i]) \in Nat /\ Seq_(pkts[i]) # Seq_(e)
          BY <2>1, <4>1, MessagePackets
        <5>5. QED
          BY <2>1, <2>2, <5>3, <5>4
      <4>3. CASE ~ (Seq_(pkts[i - 1]) < Seq_(e))
        BY <4>1, <4>3
      <4>4. QED
        BY <4>2, <4>3
    <3>3. QED
      BY <3>1, <3>2
  <2>3. Beyond \in SUBSET Nat
    BY <1>2
  <2>4. Beyond = {}
    <3> HIDE DEF Beyond
    <3>1. QED
      BY <2>2, <2>3, NoLeastElement
  <2>5. Seq_(last) < Seq_(e)
    <3>1. Len(pkts) \in 1 .. Len(pkts)
      BY <1>2
    <3>2. QED
      BY <2>4, <3>1
  <2>6. Seq_(e) <= Seq_(last)
    <3>1. SameMessage(last, e)
      BY <1>2, <1>7, SameMessageRelation
    <3>2. QED
      BY <1>2, <1>3, <1>6, <3>1 DEF Opens
  <2>7. QED
    BY <1>2, <2>1, <2>5, <2>6, SeqIsNat
<1>8. PacketSeqs(pkts) \subseteq WireSeqs(first)
  BY MessagePackets DEF PacketSeqs, WireSeqs, SameMessage
<1>9. WireSeqs(first) \subseteq PacketSeqs(pkts)
  BY <1>7 DEF WireSeqs, SameMessage
<1>10. QED
  BY <1>8, <1>9 DEF Covered

\* End misses no message all of whose packets are there.
LEMMA CoveredIsComplete ==
    ASSUME WellFormed, NEW pkts \in Seq(Captures), pkts # <<>>, OneMessage(pkts), Sorted(pkts),
           NEW before, HeaderOK(before, pkts), Covered(pkts)
    PROVE  Complete(ParseHeader(before, pkts), pkts)
<1> DEFINE L == Len(pkts)
           first == pkts[1]
           last == pkts[L]
           state == ParseHeader(before, pkts)
<1>1. /\ L \in Nat \ {0} /\ DOMAIN pkts = 1 .. L
      /\ \A i \in 1 .. L :
           /\ pkts[i] \in Captures /\ SameMessage(first, pkts[i])
           /\ Seq_(pkts[i]) \in Nat /\ NextSeq(pkts[i]) \in Nat
           /\ Seq_(pkts[i]) < NextSeq(pkts[i])
      /\ \A i, j \in 1 .. L : Seq_(pkts[i]) < Seq_(pkts[j]) => i < j
  BY MessagePackets
<1>2. \A i, j \in 1 .. L : i < j => Seq_(pkts[i]) < Seq_(pkts[j])
  BY <1>1 DEF Sorted
<1>3. first \in Captures /\ last \in Captures /\ SameMessage(first, last)
  BY <1>1
<1>4. ASSUME NEW e \in Captures, SameMessage(first, e)
      PROVE  \E j \in 1 .. L : Seq_(pkts[j]) = Seq_(e)
  BY <1>1, <1>4 DEF Covered, PacketSeqs, WireSeqs, SameMessage
<1>5. Pkt[first].title # "none"
  <2>1. PICK f \in Captures : SameMessage(f, first) /\ Opens(f)
    BY <1>3 DEF WellFormed
  <2>2. PICK j \in 1 .. L : Seq_(pkts[j]) = Seq_(f)
    BY <1>4, <2>1, SameMessageRelation
  <2>3. Seq_(f) <= Seq_(first)
    BY <1>3, <2>1 DEF Opens
  <2>4. j = 1
    <3>1. 1 \in 1 .. L /\ Seq_(first) \in Nat /\ Seq_(pkts[j]) \in Nat
      BY <1>1
    <3>2. ~ (1 < j)
      BY <1>2, <2>2, <2>3, <3>1
    <3>3. QED
      BY <3>2
  <2>5. QED
    BY <1>3, <2>1, <2>2, <2>4 DEF Opens
<1>6. Opens(first)
  BY <1>3, <1>5, TitleOpens
<1>7. ASSUME NEW i \in 2 .. L PROVE NextSeq(pkts[i - 1]) = Seq_(pkts[i])
  <2> DEFINE d == pkts[i - 1]
  <2>1. /\ i - 1 \in 1 .. L /\ i \in 1 .. L /\ d \in Captures /\ pkts[i] \in Captures
        /\ SameMessage(first, d) /\ SameMessage(d, pkts[i])
        /\ Seq_(d) \in Nat /\ NextSeq(d) \in Nat /\ Seq_(pkts[i]) \in Nat
        /\ Seq_(d) < NextSeq(d) /\ Seq_(d) < Seq_(pkts[i])
    <3>1. i - 1 \in 1 .. L /\ i \in 1 .. L /\ i - 1 < i
      BY <1>1
    <3>2. QED
      BY <1>1, <1>2, <3>1, SameMessageRelation
  <2> HIDE DEF d
  <2>2. ~ Ends(d, first)
    BY <1>6, <2>1 DEF Opens
  <2>3. PICK e \in Captures : SameMessage(d, e) /\ Seq_(e) = NextSeq(d)
    BY <1>6, <2>1, <2>2 DEF Opens
  <2>4. PICK j \in 1 .. L : Seq_(pkts[j]) = NextSeq(d)
    BY <1>4, <2>1, <2>3, SameMessageRelation
  <2>5. i - 1 < j
    BY <1>1, <2>1, <2>4 DEF d
  <2>6. Seq_(pkts[i]) <= NextSeq(d)
    <3>1. i = j \/ i < j
      BY <2>5
    <3>2. Seq_(pkts[j]) \in Nat
      BY <1>1
    <3>3. QED
      BY <1>2, <2>1, <2>4, <3>1, <3>2
  <2>7. NextSeq(d) <= Seq_(pkts[i])
    BY <2>1 DEF WellFormed
  <2>8. QED
    BY <2>1, <2>6, <2>7 DEF d
<1>8. ~ MissingChunk(pkts)
  <2>1. ASSUME NEW i \in 2 .. L
        PROVE  Seq_(pkts[i]) = (Seq_(pkts[i - 1]) + Pkt[pkts[i - 1]].len) % SeqSpace
    <3>1. pkts[i - 1] \in Captures
      BY <1>1
    <3>2. QED
      BY <1>7, <3>1, NoWrap DEF NextSeq
  <2>2. QED
    BY <2>1 DEF MissingChunk
<1>9. Size(pkts) = NextSeq(last) - Seq_(first)
  BY <1>8, SizeOfRun
<1>10. Ends(last, first)
  <2> SUFFICES ASSUME ~ Ends(last, first) PROVE FALSE
    OBVIOUS
  <2>1. PICK e \in Captures : SameMessage(last, e) /\ Seq_(e) = NextSeq(last)
    BY <1>3, <1>6 DEF Opens
  <2>2. PICK j \in 1 .. L : Seq_(pkts[j]) = NextSeq(last)
    BY <1>3, <1>4, <2>1, SameMessageRelation
  <2>3. L \in 1 .. L
    BY <1>1
  <2>4. L < j
    BY <1>1, <2>2, <2>3
  <2>5. QED
    BY <1>1, <2>4
<1>11. /\ Size(pkts) >= Pkt[first].hdr
       /\ IF Pkt[first].chunked
          THEN Size(pkts) > Pkt[first].hdr /\ Pkt[last].tail
          ELSE Size(pkts) = Pkt[first].hdr + Pkt[first].body
  <2> DEFINE a == NextSeq(last)
             b == Seq_(first)
             x == Pkt[first].hdr
             y == Pkt[first].body
  <2>1. a \in Nat /\ b \in Nat /\ x \in Nat /\ y \in Nat
    BY <1>3, PacketNumbers
  <2>2. IF Pkt[first].chunked THEN Pkt[last].tail /\ a > b + x ELSE a = b + x + y
    BY <1>10, Zenon DEF Ends
  <2>3. Size(pkts) = a - b
    BY <1>9
  <2> HIDE DEF a, b, x, y
  <2>4. /\ a > b + x => a - b >= x /\ a - b > x
        /\ a = b + x + y => a - b >= x /\ a - b = x + y
    BY <2>1
  <2>5. IF Pkt[first].chunked THEN a - b > x /\ Pkt[last].tail ELSE a - b = x + y
    BY <2>2, <2>4, Zenon
  <2>6. a - b >= x
    BY <2>2, <2>4, Zenon
  <2>7. QED
    BY <2>3, <2>5, <2>6, Zenon DEF x, y
<1>12. state # NoHeader
  <2>1. before = NoHeader => state = first
    <3>1. Pkt[first].hdr \in Nat /\ NextSeq(last) \in Nat /\ Seq_(first) \in Nat
      BY <1>3, PacketNumbers
    <3>2. ~ (Size(pkts) < Pkt[first].hdr)
      BY <1>9, <1>11, <3>1
    <3>3. QED
      BY <1>5, <1>8, <3>2 DEF ParseHeader
  <2>2. before # NoHeader => state = before
    BY DEF ParseHeader
  <2>3. QED
    BY <1>3, <2>1, <2>2, ParserAssumption
<1>13. HeaderOK(state, pkts)
  BY ParsedHeader
<1> HIDE DEF state
<1>14. /\ Pkt[state].hdr = Pkt[first].hdr /\ Pkt[state].body = Pkt[first].body
       /\ Pkt[state].chunked = Pkt[first].chunked
  BY <1>5, <1>12, <1>13, SameHeader
<1>15. Complete(state, pkts)
  BY <1>5, <1>8, <1>11, <1>12, <1>14, Zenon DEF Complete
<1>16. QED
  BY <1>15 DEF state

-----------------------------------------------------------------------------
(* The invariant as long as no Expect header has come in.                   *)

\* The key a packet has, Fix100Continue not having changed its Ack.
Id(c) == <<Flow(c), Pkt[c].ack>>

DirFits(dir, c) == /\ dir = "in" => Pkt[c].side = "client"
                   /\ dir = "out" => Pkt[c].side = "server"

\* A message holds packets that came in, all with one id.
ObjectOK(msg, rcv) ==
    /\ Range(msg.pkts) \subseteq rcv
    /\ \A c, d \in Range(msg.pkts) : Id(c) = Id(d)
    /\ HeaderOK(msg.state, msg.pkts)
    /\ HttpHints => \A c \in Range(msg.pkts) : DirFits(msg.dir, c)

\* The messages handed over: those the reader has, and those in the channel.
Objs == [i \in DOMAIN out |-> out[i].obj]
Handed == Objs \o messages

Snapshot(o) == [obj |-> o, pkts |-> heap[o].pkts, dir |-> heap[o].dir,
                timedOut |-> heap[o].timedOut, uuid |-> UUID(heap[o])]

Recorded(rcv) == rcv # {} => \E recording \in Recordings : rcv \subseteq recording

\* Ended by the timer, or whole.
Done(msg) == msg.timedOut \/ (HttpHints /\ Covered(msg.pkts))

\* The messages in the map are registered under the id of their packets, were not
\* handed over, and wait for more; those handed over never change again, were
\* handed over once, and are whole unless the timer ended them.
PlainInv ==
    /\ Recorded(received)
    /\ ack = [c \in Captures |-> Pkt[c].ack]
    /\ merging = <<>>
    /\ \A q \in 1 .. Len(heap) : ObjectOK(heap[q], received)
    /\ \A k \in DOMAIN m : \A c \in Range(heap[m[k]].pkts) : Id(c) = k
    /\ \A k \in DOMAIN m : m[k] \notin Range(Handed)
    /\ IsInjective(Handed)
    /\ \A i \in DOMAIN out : out[i] = Snapshot(out[i].obj)
    /\ HttpHints => \A k \in DOMAIN m : ~ Covered(heap[m[k]].pkts)
    /\ \A i \in DOMAIN Handed : Done(heap[Handed[i]])

\* MessageID while no Ack has been rewritten.
LEMMA PlainId ==
    ASSUME ack = [c \in Captures |-> Pkt[c].ack], NEW c \in Captures
    PROVE  MessageID(c, ack) = Id(c)
  BY DEF MessageID, Id

\* The packets of a message are captures.
LEMMA RangeOfPackets ==
    ASSUME NEW pkts \in Seq(Captures)
    PROVE  /\ Range(pkts) \subseteq Captures
           /\ pkts # <<>> => pkts[1] \in Range(pkts)
           /\ Range(pkts) = {} <=> pkts = <<>>
<1>1. DOMAIN pkts = 1 .. Len(pkts) /\ Len(pkts) \in Nat
  BY LenProperties
<1>2. \A i \in 1 .. Len(pkts) : pkts[i] \in Captures
  BY ElementOfSeq
<1>3. pkts = <<>> <=> Len(pkts) = 0
  BY EmptySeq
<1>4. pkts # <<>> => 1 \in DOMAIN pkts
  BY <1>1, <1>3
<1>5. pkts = <<>> => DOMAIN pkts = {}
  BY <1>1, <1>3
<1>6. QED
  BY <1>1, <1>2, <1>4, <1>5 DEF Range

\* Packets with one id belong to one message on the wire.
LEMMA OneIdOneMessage ==
    ASSUME HttpHints, NEW recording \in Recordings, NEW pkts \in Seq(Captures),
           Range(pkts) \subseteq recording, \A c, d \in Range(pkts) : Id(c) = Id(d)
    PROVE  OneMessage(pkts)
<1>1. TakesTurns(recording)
  BY WireAssumption
<1>2. ASSUME NEW i \in DOMAIN pkts, NEW j \in DOMAIN pkts
      PROVE  SameMessage(pkts[i], pkts[j])
  <2>1. pkts[i] \in Range(pkts) /\ pkts[j] \in Range(pkts)
    BY DEF Range
  <2>2. Flow(pkts[i]) = Flow(pkts[j]) /\ Pkt[pkts[i]].ack = Pkt[pkts[j]].ack
    BY <2>1 DEF Id
  <2>3. QED
    BY <1>1, <2>1, <2>2 DEF TakesTurns
<1>3. QED
  BY <1>2 DEF OneMessage

\* addPacket, when no Expect header has come in.
LEMMA AddPacketPlain ==
    ASSUME NEW h \in Seq(Message), NEW mm, NEW o \in 1 .. Len(h), NEW c \in Captures, NEW rcv,
           Sorted(h[o].pkts),
           ack = [d \in Captures |-> Pkt[d].ack],
           c \in rcv, \A d \in rcv : ~ Pkt[d].expect,
           NEW recording \in Recordings, rcv \subseteq recording,
           ObjectOK(h[o], rcv), \A d \in Range(h[o].pkts) : Id(d) = Id(c),
           HttpHints => DirFits(h[o].dir, c),
           AddPacket(h, mm, <<>>, o, c)
    PROVE  /\ ack' = ack /\ merging' = <<>> /\ Len(heap') = Len(h)
           /\ \A q \in 1 .. Len(h) : q # o => heap'[q] = h[q]
           /\ ObjectOK(heap'[o], rcv) /\ \A d \in Range(heap'[o].pkts) : Id(d) = Id(c)
           /\ \/ /\ Duplicate(h[o].pkts, c)
                 /\ heap' = h /\ m' = mm /\ messages' = messages
              \/ /\ Range(heap'[o].pkts) = Range(h[o].pkts) \cup {c}
                 /\ m' = mm /\ messages' = messages
                 /\ HttpHints => ~ Covered(heap'[o].pkts)
              \/ /\ Range(heap'[o].pkts) = Range(h[o].pkts) \cup {c}
                 /\ m' = Restrict(mm, DOMAIN mm \ {Id(c)})
                 /\ messages' = Append(messages, o)
                 /\ HttpHints /\ Covered(heap'[o].pkts)
<1> DEFINE pkts == Add(h[o].pkts, c)
           state == IF HttpHints THEN ParseHeader(h[o].state, pkts) ELSE h[o].state
           msg == [h[o] EXCEPT !.pkts = pkts, !.state = state]
           added == [h EXCEPT ![o] = [@ EXCEPT !.pkts = pkts, !.state = state]]
<1>1. h[o] \in Message /\ h[o].pkts \in Seq(Captures)
  <2>1. h[o] \in Message
    BY ElementOfSeq
  <2>2. QED
    BY <2>1 DEF Message
<1>2. CASE Duplicate(h[o].pkts, c)
  <2>1. heap' = h /\ m' = mm /\ merging' = <<>> /\ ack' = ack /\ messages' = messages
    BY <1>2 DEF AddPacket
  <2>2. QED
    BY <1>2, <2>1
<1>3. CASE ~ Duplicate(h[o].pkts, c)
  <2>1. /\ pkts \in Seq(Captures) /\ pkts # <<>> /\ Sorted(pkts)
        /\ Range(pkts) = Range(h[o].pkts) \cup {c}
    BY <1>1, <1>3, AddProperties, AddedPackets
  <2>2. /\ Range(pkts) \subseteq rcv
        /\ \A d \in Range(pkts) : Id(d) = Id(c)
    BY <2>1 DEF ObjectOK
  <2>3. HeaderOK(h[o].state, pkts)
    BY <2>1 DEF ObjectOK, HeaderOK
  <2>4. HeaderOK(state, pkts)
    BY <2>1, <2>3, ParsedHeader
  <2>5. pkts[1] \in Captures /\ Id(pkts[1]) = Id(c)
    BY <2>1, <2>2, RangeOfPackets
  <2>6. state \in Captures \cup {NoHeader}
    BY <2>1, <2>4, RangeOfPackets DEF HeaderOK
  <2>7. ASSUME HttpHints PROVE Complete(state, pkts) <=> Covered(pkts)
    <3>1. OneMessage(pkts)
      BY <2>1, <2>2, <2>7, OneIdOneMessage
    <3>2. WellFormed
      BY <2>7, WireAssumption
    <3>3. state = ParseHeader(h[o].state, pkts)
      BY <2>7
    <3> HIDE DEF state, pkts
    <3>4. Complete(state, pkts) => Covered(pkts)
      BY <2>1, <2>4, <3>1, <3>2, CompleteIsCovered
    <3>5. Covered(pkts) => Complete(state, pkts)
      BY <2>1, <2>3, <3>1, <3>2, <3>3, CoveredIsComplete
    <3>6. QED
      BY <3>4, <3>5
  <2> HIDE DEF state, pkts
  <2>8. /\ added \in Seq(Message) /\ Len(added) = Len(h) /\ added[o] = msg
        /\ \A q \in 1 .. Len(h) : q # o => added[q] = h[q]
        /\ msg.pkts = pkts /\ msg.state = state /\ msg.dir = h[o].dir
    <3>1. msg \in Message /\ msg.pkts = pkts /\ msg.state = state /\ msg.dir = h[o].dir
      BY <1>1, <2>1, <2>6 DEF Message
    <3>2. added = [h EXCEPT ![o] = msg]
      OBVIOUS
    <3> HIDE DEF msg, added
    <3>3. QED
      BY <3>1, <3>2, ExceptSeq
  <2> HIDE DEF added, msg
  <2>9. ~ NeedsContinueFix(added[o])
    <3>1. CASE state = NoHeader
      BY <2>8, <3>1 DEF NeedsContinueFix
    <3>2. CASE state # NoHeader
      BY <2>2, <2>4, <2>8, <3>2 DEF NeedsContinueFix, HeaderOK
    <3>3. QED
      BY <3>1, <3>2
  <2>10. \/ HttpHints /\ Complete(state, pkts) /\ Emit(added, mm, <<>>, o)
         \/ /\ ~ (HttpHints /\ Complete(state, pkts))
            /\ heap' = added /\ m' = mm /\ merging' = <<>>
            /\ ack' = ack /\ messages' = messages
    BY <1>3, <2>9 DEF AddPacket, added, state, pkts
  <2>11. ObjectOK(msg, rcv) /\ \A d \in Range(msg.pkts) : Id(d) = Id(c)
    BY <2>1, <2>2, <2>4, <2>8 DEF ObjectOK
  <2>12. CASE HttpHints /\ Complete(state, pkts) /\ Emit(added, mm, <<>>, o)
    <3>1. MessageID(added[o].pkts[1], ack) = Id(c)
      BY <2>5, <2>8, PlainId
    <3>2. /\ heap' = added /\ merging' = <<>> /\ ack' = ack
          /\ m' = Restrict(mm, DOMAIN mm \ {Id(c)}) /\ messages' = Append(messages, o)
      BY <2>12, <3>1 DEF Emit
    <3>3. QED
      BY <2>1, <2>7, <2>8, <2>11, <2>12, <3>2
  <2>13. CASE /\ ~ (HttpHints /\ Complete(state, pkts))
              /\ heap' = added /\ m' = mm /\ merging' = <<>>
              /\ ack' = ack /\ messages' = messages
    BY <2>1, <2>7, <2>8, <2>11, <2>13
  <2>14. QED
    BY <2>10, <2>12, <2>13
<1>4. QED
  BY <1>2, <1>3

\* What a handler does to message o, registered under id: no other message, and
\* no other entry of the map, changes.
Changes(o, id) ==
    /\ ack' = ack /\ merging' = <<>> /\ out' = out
    /\ received \subseteq received' /\ Recorded(received')
    /\ Len(heap) <= Len(heap') /\ o \in 1 .. Len(heap')
    /\ \A q \in 1 .. Len(heap') : q # o => q \in 1 .. Len(heap) /\ heap'[q] = heap[q]
    /\ ObjectOK(heap'[o], received') /\ \A d \in Range(heap'[o].pkts) : Id(d) = id
    /\ o \notin Range(Handed)
    /\ id \in DOMAIN m => m[id] = o
    /\ \A k \in DOMAIN m \ {id} : m[k] # o /\ k \in DOMAIN m' /\ m'[k] = m[k]
    /\ DOMAIN m' \subseteq DOMAIN m \cup {id}

\* It waits for more packets, is handed over, or is dropped.
Waits(o, id) ==
    /\ id \in DOMAIN m' /\ m'[id] = o
    /\ messages' = messages
    /\ HttpHints => ~ Covered(heap'[o].pkts)
Sends(o, id) ==
    /\ id \notin DOMAIN m'
    /\ messages' = Append(messages, o)
    /\ Done(heap'[o])
Drops(o, id) ==
    /\ id \notin DOMAIN m'
    /\ messages' = messages

\* The messages handed over are allocated.
LEMMA HandedType ==
    ASSUME TypeOK
    PROVE  /\ Objs \in Seq(Objects) /\ Handed \in Seq(Objects)
           /\ Range(Handed) = {out[i].obj : i \in DOMAIN out} \cup Range(messages)
<1>1. out \in Seq(Taken) /\ messages \in Seq(Objects)
  BY DEF TypeOK
<1>2. /\ Len(out) \in Nat /\ DOMAIN out = 1 .. Len(out)
      /\ \A i \in 1 .. Len(out) : out[i] \in Taken
  BY <1>1, LenProperties, ElementOfSeq
<1>3. Objs \in [1 .. Len(out) -> Objects]
  BY <1>2 DEF Objs, Taken
<1>4. Objs \in Seq(Objects)
  BY <1>2, <1>3, IsASeq
<1>5. Handed \in Seq(Objects)
  BY <1>1, <1>4, ConcatProperties DEF Handed
<1>6. Range(Handed) = Range(Objs) \cup Range(messages)
  <2> HIDE DEF Objs
  <2>1. Range(Objs \o messages) = Range(Objs) \cup Range(messages)
    BY <1>1, <1>4, RangeConcatenation
  <2>2. QED
    BY <2>1 DEF Handed
<1>7. QED
  BY <1>4, <1>5, <1>6 DEF Objs, Range

\* Appending to the second of two sequences appends to both together.
LEMMA AppendToConcat ==
    ASSUME NEW S, NEW s \in Seq(S), NEW t \in Seq(S), NEW e \in S
    PROVE  s \o Append(t, e) = Append(s \o t, e)
<1>1. <<e>> \in Seq(S) /\ s \o t \in Seq(S)
  BY ConcatProperties
<1>2. Append(t, e) = t \o <<e>> /\ Append(s \o t, e) = (s \o t) \o <<e>>
  BY <1>1, AppendIsConcat
<1>3. QED
  BY <1>1, <1>2, ConcatAssociative

\* Moving the head of one sequence to the end of another.
LEMMA MoveHead ==
    ASSUME NEW S, NEW s \in Seq(S), NEW t \in Seq(S), t # <<>>
    PROVE  Append(s, Head(t)) \o Tail(t) = s \o t
<1>1. Head(t) \in S /\ Tail(t) \in Seq(S) /\ Head(t) = t[1]
  BY HeadTailProperties
<1>2. <<Head(t)>> \in Seq(S)
  BY <1>1
<1>3. Append(s, Head(t)) = s \o <<Head(t)>>
  BY <1>1, AppendIsConcat
<1>4. <<Head(t)>> \o Tail(t) = t
  <2>1. Len(t) \in Nat \ {0}
    BY LenProperties, EmptySeq
  <2>2. SubSeq(t, 1, Len(t)) = <<t[1]>> \o SubSeq(t, 2, Len(t))
    BY <2>1, SubSeqRecursiveFirst
  <2>3. QED
    BY <1>1, <2>2, SubSeqFull, TailIsSubSeq
<1>5. (s \o <<Head(t)>>) \o Tail(t) = s \o (<<Head(t)>> \o Tail(t))
  BY <1>1, <1>2, ConcatAssociative
<1>6. QED
  BY <1>3, <1>4, <1>5

\* An appended element that was not there before.
LEMMA AppendedRange ==
    ASSUME NEW S, NEW s \in Seq(S), NEW e \in S
    PROVE  /\ Range(Append(s, e)) = Range(s) \cup {e}
           /\ IsInjective(s) /\ e \notin Range(s) => IsInjective(Append(s, e))
<1> DEFINE n == Len(s)
           t == Append(s, e)
<1>1. /\ n \in Nat /\ DOMAIN s = 1 .. n /\ DOMAIN t = 1 .. n + 1
      /\ \A i \in 1 .. n : t[i] = s[i]
      /\ t[n + 1] = e
  BY LenProperties, AppendProperties
<1> HIDE DEF n, t
<1>2. \A i \in 1 .. n + 1 : i \in 1 .. n \/ i = n + 1
  BY <1>1
<1>3. 1 .. n \subseteq 1 .. n + 1 /\ n + 1 \in 1 .. n + 1
  BY <1>1
<1>4. Range(t) = Range(s) \cup {e}
  BY <1>1, <1>2, <1>3 DEF Range
<1>5. ASSUME IsInjective(s), e \notin Range(s), NEW i \in DOMAIN t, NEW j \in DOMAIN t, t[i] = t[j]
      PROVE  i = j
  <2>1. \A k \in 1 .. n : s[k] # e
    BY <1>1, <1>5 DEF Range
  <2>2. QED
    BY <1>1, <1>2, <1>5, <2>1 DEF IsInjective
<1>6. QED
  BY <1>4, <1>5 DEF IsInjective, t

\* Every such change keeps the invariant.
LEMMA ChangeKeepsPlain ==
    ASSUME TypeOK, TypeOK', PlainInv, NEW o, NEW id, Changes(o, id),
           Waits(o, id) \/ Sends(o, id) \/ Drops(o, id)
    PROVE  PlainInv'
<1> USE DEF Changes
<1>1. /\ ack' = [c \in Captures |-> Pkt[c].ack] /\ merging' = <<>> /\ Recorded(received)'
  BY DEF PlainInv, Recorded
<1>2. \A q \in 1 .. Len(heap') : ObjectOK(heap'[q], received')
  <2>1. \A q \in 1 .. Len(heap) : ObjectOK(heap[q], received')
    BY DEF PlainInv, ObjectOK
  <2>2. QED
    BY <2>1
<1>3. \A k \in DOMAIN m' : m'[k] = IF k = id THEN o ELSE m[k]
  BY DEF Waits, Sends, Drops
<1>4. \A k \in DOMAIN m' : k # id => k \in DOMAIN m /\ m[k] # o /\ heap'[m[k]] = heap[m[k]]
  BY DEF TypeOK, Objects
<1>5. \A k \in DOMAIN m' : \A c \in Range(heap'[m'[k]].pkts) : Id(c) = k
  BY <1>3, <1>4 DEF PlainInv
<1>6. /\ Handed \in Seq(Objects) /\ Objs' = Objs /\ messages \in Seq(Objects)
      /\ Objs \in Seq(Objects)
  BY HandedType DEF Objs, TypeOK
<1>7. /\ \A i \in DOMAIN Handed : Handed[i] \in Objects /\ Handed[i] # o
                                  /\ heap'[Handed[i]] = heap[Handed[i]]
      /\ \A i \in DOMAIN out : out[i].obj \in Objects /\ out[i].obj # o
                               /\ heap'[out[i].obj] = heap[out[i].obj]
  <2>1. \A i \in DOMAIN Handed : Handed[i] \in Objects /\ Handed[i] # o
    BY <1>6, LenProperties, ElementOfSeq DEF Range
  <2>2. \A i \in DOMAIN out : out[i].obj \in Objects /\ out[i].obj # o
    <3>1. \A i \in DOMAIN out : out[i] \in Taken
      BY LenProperties, ElementOfSeq DEF TypeOK
    <3>2. \A i \in DOMAIN out : out[i].obj \in Range(Handed)
      BY HandedType
    <3>3. QED
      BY <3>1, <3>2 DEF Taken
  <2>3. \A q \in Objects : q # o => heap'[q] = heap[q]
    BY LenProperties DEF Objects, TypeOK
  <2>4. QED
    BY <2>1, <2>2, <2>3
<1>8. \A i \in DOMAIN out' : out'[i] = Snapshot(out[i].obj)'
  <2> TAKE i \in DOMAIN out'
  <2>1. i \in DOMAIN out /\ out' = out /\ out[i] = Snapshot(out[i].obj)
    BY DEF PlainInv
  <2>2. heap'[out[i].obj] = heap[out[i].obj] /\ ack' = ack
    BY <1>7, <2>1
  <2>3. Snapshot(out[i].obj)' = Snapshot(out[i].obj)
    BY <2>1, <2>2 DEF Snapshot, UUID
  <2>4. QED
    BY <2>1, <2>3
<1>9. HttpHints => \A k \in DOMAIN m' : ~ Covered(heap'[m'[k]].pkts)
  <2>1. ASSUME HttpHints, NEW k \in DOMAIN m' PROVE ~ Covered(heap'[m'[k]].pkts)
    <3>1. CASE k = id
      BY <1>3, <2>1, <3>1 DEF Waits, Sends, Drops
    <3>2. CASE k # id
      BY <1>3, <1>4, <2>1, <3>2 DEF PlainInv
    <3>3. QED
      BY <3>1, <3>2
  <2>2. QED
    BY <2>1
<1>10. CASE messages' = messages /\ (id \in DOMAIN m' => m'[id] = o)
  <2>1. Handed' = Handed
    BY <1>6, <1>10 DEF Handed
  <2>2. \A k \in DOMAIN m' : m'[k] \notin Range(Handed)
    BY <1>3, <1>4 DEF PlainInv
  <2>3. \A i \in DOMAIN Handed : Done(heap'[Handed[i]])
    BY <1>7 DEF PlainInv
  <2>4. IsInjective(Handed)
    BY DEF PlainInv
  <2>5. QED
    BY <1>1, <1>2, <1>5, <1>8, <1>9, <2>1, <2>2, <2>3, <2>4 DEF PlainInv
<1>11. CASE Sends(o, id)
  <2> DEFINE n == Len(Handed)
  <2>1. o \in 1 .. Len(heap') /\ messages \in Seq(1 .. Len(heap'))
        /\ Objs \in Seq(1 .. Len(heap')) /\ Handed \in Seq(1 .. Len(heap'))
    <3>1. 1 .. Len(heap) \subseteq 1 .. Len(heap')
      BY LenProperties DEF TypeOK
    <3>2. QED
      BY <1>6, <3>1, SeqMonotonic DEF Objects
  <2>2. Handed' = Append(Handed, o)
    BY <1>6, <1>11, <2>1, AppendToConcat DEF Handed, Sends
  <2>3. /\ n \in Nat /\ DOMAIN Handed = 1 .. n /\ DOMAIN Handed' = 1 .. n + 1
        /\ \A i \in 1 .. n : Handed'[i] = Handed[i]
        /\ Handed'[n + 1] = o
    BY <2>1, <2>2, LenProperties, AppendProperties
  <2>4. IsInjective(Handed')
    BY <2>1, <2>2, AppendedRange DEF PlainInv
  <2>5. Range(Handed') = Range(Handed) \cup {o}
    BY <2>1, <2>2, AppendedRange
  <2>6. \A k \in DOMAIN m' : m'[k] \notin Range(Handed')
    BY <1>3, <1>4, <1>11, <2>5 DEF PlainInv, Sends
  <2>7. ASSUME NEW i \in DOMAIN Handed' PROVE Done(heap'[Handed'[i]])
    <3>1. CASE i = n + 1
      BY <1>11, <2>3, <2>7, <3>1 DEF Sends
    <3>2. CASE i # n + 1
      <4>1. i \in DOMAIN Handed /\ Handed'[i] = Handed[i]
        BY <2>3, <3>2
      <4>2. QED
        BY <1>7, <2>7, <4>1 DEF PlainInv
    <3>3. QED
      BY <3>1, <3>2
  <2>8. QED
    BY <1>1, <1>2, <1>5, <1>8, <1>9, <2>4, <2>6, <2>7 DEF PlainInv
<1>12. QED
  BY <1>10, <1>11 DEF Waits, Drops

\* What processPacket does with packet c and message o: it repeats a packet, or is
\* added, in which case End may hand the message over.
Takes(o, c) ==
    /\ Changes(o, Id(c))
    /\ \/ /\ Id(c) \in DOMAIN m /\ Duplicate(heap[o].pkts, c)
          /\ heap'[o].pkts = heap[o].pkts
          /\ Waits(o, Id(c))
       \/ /\ Range(heap'[o].pkts)
                = (IF Id(c) \in DOMAIN m THEN Range(heap[o].pkts) ELSE {}) \cup {c}
          /\ \/ Waits(o, Id(c))
             \/ Sends(o, Id(c)) /\ HttpHints /\ Covered(heap'[o].pkts)

\* A packet that arrives leaves the captures within one recording.
LEMMA ArrivesRecorded ==
    ASSUME TypeOK, NEW c \in Captures, Arrives(c)
    PROVE  /\ received' = received \cup {c} /\ out' = out
           /\ \E recording \in Recordings : received' \subseteq recording
<1>1. PICK recording \in Traffic[allowIncompete] : received \cup {c} \subseteq recording
  BY DEF Arrives
<1>2. recording \in Recordings
  BY <1>1, TypeParts DEF Recordings
<1>3. QED
  BY <1>1, <1>2 DEF Arrives

\* A packet fits the direction its message has or is given for it.
LEMMA GuessedDirection ==
    ASSUME HttpHints, NEW recording \in Recordings, NEW c \in recording
    PROVE  DirFits(StartHint(c), c) /\ DirFits(Pkt[c].dir, c)
<1>1. TakesTurns(recording)
  BY WireAssumption
<1>2. QED
  BY <1>1 DEF TakesTurns, DirFits, StartHint

\* processPacket with a message in progress.
LEMMA KnownAddsTakes ==
    ASSUME TypeOK, TypeOK', AllSorted(heap), PlainInv, NEW c \in Captures, KnownAdds(c),
           \A d \in received' : ~ Pkt[d].expect
    PROVE  Takes(m[Id(c)], c)
<1> DEFINE id == Id(c)
           o == m[id]
           dir == IF heap[o].dir = "unknown" THEN StartHint(c) ELSE heap[o].dir
           msg == [heap[o] EXCEPT !.dir = dir]
           h == [heap EXCEPT ![o].dir = dir]
<1>1. ack = [d \in Captures |-> Pkt[d].ack] /\ merging = <<>>
  BY DEF PlainInv
<1>2. MessageID(c, ack) = id
  BY <1>1, PlainId
<1>3. /\ Arrives(c) /\ id \in DOMAIN m /\ AddPacket(h, m, <<>>, o, c)
  BY <1>1, <1>2 DEF KnownAdds, AddToKnown
<1>4. /\ heap \in Seq(Message) /\ Len(heap) \in Nat /\ o \in 1 .. Len(heap)
      /\ heap[o] \in Message /\ heap[o].pkts # <<>>
  <2>1. o \in 1 .. Len(heap) /\ heap \in Seq(Message)
    BY <1>3 DEF TypeOK, Objects
  <2>2. QED
    BY <2>1, LenProperties, ElementOfSeq DEF TypeOK, Objects
<1>5. heap[o].pkts \in Seq(Captures) /\ heap[o].pkts[1] \in Range(heap[o].pkts)
  BY <1>4, RangeOfPackets DEF Message
<1>6. /\ ObjectOK(heap[o], received)
      /\ \A d \in Range(heap[o].pkts) : Id(d) = id
  BY <1>3, <1>4 DEF PlainInv
<1>7. PICK recording \in Recordings : received' \subseteq recording
  BY <1>3, ArrivesRecorded
<1>8. received' = received \cup {c} /\ out' = out /\ c \in recording
  BY <1>3, <1>7, ArrivesRecorded
<1>9. HttpHints => \A d \in Range(heap[o].pkts) \cup {c} : DirFits(dir, d)
  <2> SUFFICES ASSUME HttpHints, NEW d \in Range(heap[o].pkts) \cup {c}
               PROVE  DirFits(dir, d)
    OBVIOUS
  <2>1. /\ \A e \in Range(heap[o].pkts) : DirFits(heap[o].dir, e)
        /\ DirFits(StartHint(c), c)
    BY <1>6, <1>8, GuessedDirection DEF ObjectOK
  <2>2. \A e, f \in Range(heap[o].pkts) \cup {c} : Pkt[e].side = Pkt[f].side
    BY <1>6 DEF Id, Flow
  <2>3. QED
    BY <1>5, <2>1, <2>2 DEF DirFits
<1>10. msg \in Message /\ msg.pkts = heap[o].pkts /\ msg.dir = dir /\ msg.state = heap[o].state
  <2>1. dir \in {"in", "out", "unknown"}
    BY <1>4 DEF Message, StartHint
  <2>2. QED
    BY <1>4, <2>1 DEF Message
<1>11. h = [heap EXCEPT ![o] = msg]
  OBVIOUS
<1>12. ObjectOK(msg, received')
  BY <1>6, <1>8, <1>9, <1>10 DEF ObjectOK
<1> HIDE DEF msg, h, dir
<1>13. /\ h \in Seq(Message) /\ Len(h) = Len(heap) /\ h[o] = msg
       /\ \A q \in 1 .. Len(heap) : q # o => h[q] = heap[q]
  BY <1>4, <1>10, <1>11, ExceptSeq
<1>14. Sorted(h[o].pkts)
  BY <1>4, <1>10, <1>13 DEF AllSorted
<1> HIDE DEF o, id
<1>15. /\ ack' = ack /\ merging' = <<>> /\ Len(heap') = Len(h)
       /\ \A q \in 1 .. Len(h) : q # o => heap'[q] = h[q]
       /\ ObjectOK(heap'[o], received') /\ \A d \in Range(heap'[o].pkts) : Id(d) = Id(c)
       /\ \/ /\ Duplicate(h[o].pkts, c)
             /\ heap' = h /\ m' = m /\ messages' = messages
          \/ /\ Range(heap'[o].pkts) = Range(h[o].pkts) \cup {c}
             /\ m' = m /\ messages' = messages
             /\ HttpHints => ~ Covered(heap'[o].pkts)
          \/ /\ Range(heap'[o].pkts) = Range(h[o].pkts) \cup {c}
             /\ m' = Restrict(m, DOMAIN m \ {Id(c)})
             /\ messages' = Append(messages, o)
             /\ HttpHints /\ Covered(heap'[o].pkts)
  <2>1. c \in received' /\ HttpHints => DirFits(h[o].dir, c)
    BY <1>8, <1>9, <1>10, <1>13
  <2>2. \A d \in Range(h[o].pkts) : Id(d) = Id(c)
    BY <1>6, <1>10, <1>13 DEF id
  <2>3. c \in received' /\ ObjectOK(h[o], received') /\ o \in 1 .. Len(h)
    BY <1>4, <1>8, <1>12, <1>13
  <2>4. QED
    BY <1>1, <1>3, <1>7, <1>13, <1>14, <2>1, <2>2, <2>3, AddPacketPlain
<1>16. \A k \in DOMAIN m \ {id} : m[k] # o
  <2> SUFFICES ASSUME NEW k \in DOMAIN m \ {id}, m[k] = o PROVE FALSE
    OBVIOUS
  <2>1. Id(heap[o].pkts[1]) = k
    BY <1>5 DEF PlainInv
  <2>2. QED
    BY <1>5, <1>6, <2>1
<1>17. m' = m \/ m' = Restrict(m, DOMAIN m \ {id})
  BY <1>15 DEF id
<1>18. Changes(o, id)
  <2>1. o \notin Range(Handed)
    BY <1>3 DEF PlainInv, o
  <2>2. /\ \A k \in DOMAIN m \ {id} : m[k] # o /\ k \in DOMAIN m' /\ m'[k] = m[k]
        /\ DOMAIN m' \subseteq DOMAIN m \cup {id}
    BY <1>16, <1>17 DEF Restrict
  <2>3. Recorded(received')
    BY <1>7 DEF Recorded
  <2>4. /\ Len(heap) <= Len(heap') /\ o \in 1 .. Len(heap')
        /\ \A q \in 1 .. Len(heap') : q # o => q \in 1 .. Len(heap) /\ heap'[q] = heap[q]
    BY <1>4, <1>13, <1>15
  <2>5. ObjectOK(heap'[o], received') /\ \A d \in Range(heap'[o].pkts) : Id(d) = id
    BY <1>15 DEF id
  <2>6. m[id] = o
    BY DEF o
  <2>7. QED
    BY <1>1, <1>8, <1>15, <2>1, <2>2, <2>3, <2>4, <2>5, <2>6 DEF Changes
<1>19. CASE /\ Duplicate(h[o].pkts, c)
            /\ heap' = h /\ m' = m /\ messages' = messages
  <2>1. Duplicate(heap[o].pkts, c) /\ heap'[o].pkts = heap[o].pkts
    BY <1>10, <1>13, <1>19
  <2>2. HttpHints => ~ Covered(heap'[o].pkts)
    BY <1>3, <2>1 DEF PlainInv, o
  <2>3. Waits(o, id)
    BY <1>3, <1>19, <2>2 DEF Waits, o
  <2>4. QED
    BY <1>3, <1>18, <2>1, <2>3 DEF Takes, o, id
<1>20. CASE /\ Range(heap'[o].pkts) = Range(h[o].pkts) \cup {c}
            /\ m' = m /\ messages' = messages
            /\ HttpHints => ~ Covered(heap'[o].pkts)
  <2>1. Waits(o, id)
    BY <1>3, <1>20 DEF Waits, o
  <2>2. QED
    BY <1>3, <1>10, <1>13, <1>18, <1>20, <2>1 DEF Takes, o, id
<1>21. CASE /\ Range(heap'[o].pkts) = Range(h[o].pkts) \cup {c}
            /\ m' = Restrict(m, DOMAIN m \ {Id(c)})
            /\ messages' = Append(messages, o)
            /\ HttpHints /\ Covered(heap'[o].pkts)
  <2>1. id \notin DOMAIN m'
    BY <1>21 DEF Restrict, id
  <2>2. Sends(o, id)
    BY <1>21, <2>1 DEF Sends, Done
  <2>3. QED
    BY <1>3, <1>10, <1>13, <1>18, <1>21, <2>2 DEF Takes, o, id
<1>22. QED
  BY <1>15, <1>19, <1>20, <1>21 DEF o, id

\* processPacket with the first packet of a message.
LEMMA ProcessNewTakes ==
    ASSUME TypeOK, TypeOK', AllSorted(heap), PlainInv, NEW c \in Captures, ProcessNew(c),
           \A d \in received' : ~ Pkt[d].expect
    PROVE  Takes(Len(heap) + 1, c)
<1> DEFINE id == Id(c)
           o == Len(heap) + 1
           dir == IF Pkt[c].dir = "unknown" /\ HttpHints THEN StartHint(c) ELSE Pkt[c].dir
           msg == NewMessage(dir)
           h == Append(heap, msg)
           registered == [k \in DOMAIN m \cup {id} |-> IF k = id THEN o ELSE m[k]]
<1>1. ack = [d \in Captures |-> Pkt[d].ack] /\ merging = <<>>
  BY DEF PlainInv
<1>2. MessageID(c, ack) = id
  BY <1>1, PlainId
<1>3. Arrives(c) /\ id \notin DOMAIN m /\ AddPacket(h, registered, <<>>, o, c)
  BY <1>1, <1>2 DEF ProcessNew
<1>4. heap \in Seq(Message) /\ Len(heap) \in Nat
  BY LenProperties DEF TypeOK
<1>5. PICK recording \in Recordings : received' \subseteq recording
  BY <1>3, ArrivesRecorded
<1>6. received' = received \cup {c} /\ out' = out /\ c \in recording
  BY <1>3, <1>5, ArrivesRecorded
<1>7. HttpHints => DirFits(dir, c)
  BY <1>6, GuessedDirection
<1>8. /\ msg \in Message /\ msg.pkts = <<>> /\ msg.dir = dir /\ msg.state = NoHeader
      /\ Range(msg.pkts) = {}
  <2>1. dir \in {"in", "out", "unknown"}
    BY ParserAssumption DEF StartHint, PacketRecord
  <2>2. msg \in Message /\ msg.pkts = <<>> /\ msg.dir = dir /\ msg.state = NoHeader
    BY <2>1, EmptySeq DEF NewMessage, Message
  <2>3. QED
    BY <2>2, EmptySeq, RangeOfPackets
<1>9. ObjectOK(msg, received')
  BY <1>8 DEF ObjectOK, HeaderOK
<1> HIDE DEF msg, dir
<1>10. /\ h \in Seq(Message) /\ Len(h) = o /\ h[o] = msg
       /\ \A q \in 1 .. Len(heap) : h[q] = heap[q]
  BY <1>4, <1>8, AppendProperties
<1> HIDE DEF h
<1>11. Sorted(h[o].pkts)
  BY <1>8, <1>10 DEF Sorted
<1>12. /\ ack' = ack /\ merging' = <<>> /\ Len(heap') = Len(h)
       /\ \A q \in 1 .. Len(h) : q # o => heap'[q] = h[q]
       /\ ObjectOK(heap'[o], received') /\ \A d \in Range(heap'[o].pkts) : Id(d) = Id(c)
       /\ \/ /\ Duplicate(h[o].pkts, c)
             /\ heap' = h /\ m' = registered /\ messages' = messages
          \/ /\ Range(heap'[o].pkts) = Range(h[o].pkts) \cup {c}
             /\ m' = registered /\ messages' = messages
             /\ HttpHints => ~ Covered(heap'[o].pkts)
          \/ /\ Range(heap'[o].pkts) = Range(h[o].pkts) \cup {c}
             /\ m' = Restrict(registered, DOMAIN registered \ {Id(c)})
             /\ messages' = Append(messages, o)
             /\ HttpHints /\ Covered(heap'[o].pkts)
  <2> HIDE DEF registered
  <2>1. c \in received' /\ (HttpHints => DirFits(h[o].dir, c))
    BY <1>6, <1>7, <1>8, <1>10
  <2>2. \A d \in Range(h[o].pkts) : Id(d) = Id(c)
    BY <1>8, <1>10
  <2>3. ObjectOK(h[o], received') /\ o \in 1 .. Len(h)
    BY <1>4, <1>9, <1>10
  <2> HIDE DEF o, id
  <2>4. QED
    <3>1. /\ h \in Seq(Message) /\ o \in 1 .. Len(h) /\ Sorted(h[o].pkts)
          /\ ack = [d \in Captures |-> Pkt[d].ack]
          /\ AddPacket(h, registered, <<>>, o, c)
      BY <1>1, <1>3, <1>10, <1>11, <2>3
    <3>2. recording \in Recordings /\ received' \subseteq recording
      BY <1>5
    <3>3. QED
      BY <2>1, <2>2, <2>3, <3>1, <3>2, AddPacketPlain
<1>13. ~ Duplicate(h[o].pkts, c)
  BY <1>8, <1>10, LenProperties, EmptySeq DEF Duplicate
<1>14. \A k \in DOMAIN m : m[k] \in 1 .. Len(heap) /\ m[k] # o
  BY <1>4 DEF TypeOK, Objects
<1>15. /\ DOMAIN registered = DOMAIN m \cup {id} /\ registered[id] = o
       /\ \A k \in DOMAIN m : registered[k] = m[k]
  BY <1>3
<1> HIDE DEF registered
<1>16. m' = registered \/ m' = Restrict(registered, DOMAIN registered \ {id})
  BY <1>12 DEF id
<1>17. Changes(o, id)
  <2>1. o \notin Range(Handed)
    <3>1. Range(Handed) \subseteq Objects
      BY HandedType, RangeOfSeq
    <3>2. QED
      BY <1>4, <3>1 DEF Objects
  <2>2. /\ \A k \in DOMAIN m \ {id} : m[k] # o /\ k \in DOMAIN m' /\ m'[k] = m[k]
        /\ DOMAIN m' \subseteq DOMAIN m \cup {id}
    BY <1>14, <1>15, <1>16 DEF Restrict
  <2>3. Recorded(received')
    BY <1>5 DEF Recorded
  <2>4. /\ Len(heap) <= Len(heap') /\ o \in 1 .. Len(heap')
        /\ \A q \in 1 .. Len(heap') : q # o => q \in 1 .. Len(heap) /\ heap'[q] = heap[q]
    BY <1>4, <1>10, <1>12
  <2>5. ObjectOK(heap'[o], received') /\ \A d \in Range(heap'[o].pkts) : Id(d) = id
    BY <1>12 DEF id
  <2>6. QED
    BY <1>1, <1>3, <1>6, <1>12, <2>1, <2>2, <2>3, <2>4, <2>5 DEF Changes
<1>18. Range(heap'[o].pkts) = {c}
  BY <1>8, <1>10, <1>12, <1>13
<1> HIDE DEF o
<1>19. CASE /\ m' = registered /\ messages' = messages
            /\ HttpHints => ~ Covered(heap'[o].pkts)
  <2>1. Waits(o, id)
    BY <1>15, <1>19 DEF Waits
  <2>2. QED
    BY <1>3, <1>17, <1>18, <2>1 DEF Takes, o, id
<1>20. CASE /\ m' = Restrict(registered, DOMAIN registered \ {Id(c)})
            /\ messages' = Append(messages, o)
            /\ HttpHints /\ Covered(heap'[o].pkts)
  <2>1. id \notin DOMAIN m'
    BY <1>20 DEF Restrict, id
  <2>2. Sends(o, id)
    BY <1>20, <2>1 DEF Sends, Done
  <2>3. QED
    BY <1>3, <1>17, <1>18, <1>20, <2>2 DEF Takes, o, id
<1>21. QED
  BY <1>12, <1>13, <1>19, <1>20 DEF o, id

\* The timer ends message m[k]: it is handed over or dropped.
LEMMA SweepExpiredChanges ==
    ASSUME TypeOK, TypeOK', PlainInv, NEW k \in sweep, SweepExpired(k)
    PROVE  /\ k \in DOMAIN m /\ Changes(m[k], k) /\ received' = received
           /\ heap'[m[k]].pkts = heap[m[k]].pkts
           /\ IF ~ HttpHints \/ allowIncompete THEN Sends(m[k], k) ELSE Drops(m[k], k)
<1> DEFINE o == m[k]
           msg == [heap[o] EXCEPT !.timedOut = TRUE]
           late == [heap EXCEPT ![o].timedOut = TRUE]
           key == MessageID(late[o].pkts[1], ack)
<1>1. /\ k \in DOMAIN m
      /\ received' = received /\ out' = out
      /\ IF ~ HttpHints \/ allowIncompete
         THEN Emit(late, m, merging, o)
         ELSE /\ heap' = late /\ m' = Restrict(m, DOMAIN m \ {key})
              /\ ack' = ack /\ merging' = merging /\ messages' = messages
  BY DEF SweepExpired
<1>2. /\ heap \in Seq(Message) /\ Len(heap) \in Nat /\ o \in 1 .. Len(heap)
      /\ heap[o] \in Message /\ heap[o].pkts # <<>>
  <2>1. o \in 1 .. Len(heap) /\ heap \in Seq(Message)
    BY <1>1 DEF TypeOK, Objects
  <2>2. QED
    BY <2>1, LenProperties, ElementOfSeq DEF TypeOK, Objects
<1>3. /\ msg \in Message /\ msg.pkts = heap[o].pkts /\ msg.dir = heap[o].dir
      /\ msg.state = heap[o].state /\ msg.timedOut = TRUE
  BY <1>2 DEF Message
<1>4. late = [heap EXCEPT ![o] = msg]
  OBVIOUS
<1> HIDE DEF msg, late
<1>5. /\ late \in Seq(Message) /\ Len(late) = Len(heap) /\ late[o] = msg
      /\ \A q \in 1 .. Len(heap) : q # o => late[q] = heap[q]
  BY <1>2, <1>3, <1>4, ExceptSeq
<1>6. heap[o].pkts \in Seq(Captures) /\ heap[o].pkts[1] \in Range(heap[o].pkts)
      /\ heap[o].pkts[1] \in Captures
  BY <1>2, RangeOfPackets DEF Message
<1>7. key = k
  <2>1. Id(heap[o].pkts[1]) = k
    BY <1>1, <1>6 DEF PlainInv
  <2>2. late[o].pkts = heap[o].pkts
    BY <1>3, <1>5
  <2>3. ack = [d \in Captures |-> Pkt[d].ack]
    BY DEF PlainInv
  <2>4. QED
    BY <1>6, <2>1, <2>2, <2>3, PlainId
<1>8. /\ heap' = late /\ m' = Restrict(m, DOMAIN m \ {k}) /\ ack' = ack /\ merging' = <<>>
      /\ IF ~ HttpHints \/ allowIncompete THEN messages' = Append(messages, o)
         ELSE messages' = messages
  BY <1>1, <1>7 DEF Emit, PlainInv
<1>9. Changes(o, k)
  <2>1. \A l \in DOMAIN m \ {k} : m[l] # o
    <3> SUFFICES ASSUME NEW l \in DOMAIN m \ {k}, m[l] = o PROVE FALSE
      OBVIOUS
    <3>1. Id(heap[o].pkts[1]) = l /\ Id(heap[o].pkts[1]) = k
      BY <1>1, <1>6 DEF PlainInv
    <3>2. QED
      BY <3>1
  <2>2. ObjectOK(heap'[o], received') /\ \A d \in Range(heap'[o].pkts) : Id(d) = k
    <3>1. ObjectOK(heap[o], received) /\ \A d \in Range(heap[o].pkts) : Id(d) = k
      BY <1>1, <1>2 DEF PlainInv
    <3>2. heap'[o] = msg /\ received' = received
      BY <1>1, <1>5, <1>8
    <3>3. QED
      BY <1>3, <3>1, <3>2 DEF ObjectOK
  <2>3. o \notin Range(Handed) /\ Recorded(received')
    BY <1>1 DEF PlainInv
  <2>4. /\ \A l \in DOMAIN m \ {k} : m[l] # o /\ l \in DOMAIN m' /\ m'[l] = m[l]
        /\ DOMAIN m' \subseteq DOMAIN m \cup {k}
    BY <1>8, <2>1 DEF Restrict
  <2>5. /\ Len(heap) <= Len(heap') /\ o \in 1 .. Len(heap')
        /\ \A q \in 1 .. Len(heap') : q # o => q \in 1 .. Len(heap) /\ heap'[q] = heap[q]
    BY <1>2, <1>5, <1>8
  <2>6. m[k] = o
    OBVIOUS
  <2> HIDE DEF o
  <2>7. QED
    BY <1>1, <1>8, <2>2, <2>3, <2>4, <2>5, <2>6 DEF Changes
<1>10. k \notin DOMAIN m'
  BY <1>8 DEF Restrict
<1>11. heap'[o].pkts = heap[o].pkts /\ heap'[o].timedOut = TRUE
  BY <1>3, <1>5, <1>8
<1>12. QED
  BY <1>1, <1>8, <1>9, <1>10, <1>11 DEF Sends, Drops, Done

\* Two intervals from 1 that are equal end at one number.
LEMMA SameInterval ==
    ASSUME NEW a \in Nat, NEW b \in Nat, 1 .. a = 1 .. b
    PROVE  a = b
<1>1. a \in 1 .. a <=> a \in 1 .. b
  OBVIOUS
<1>2. b \in 1 .. a <=> b \in 1 .. b
  OBVIOUS
<1>3. QED
  BY <1>1, <1>2

\* The reader moves a message from the channel to its own list.
LEMMA ReadMoves ==
    ASSUME TypeOK, Read
    PROVE  /\ Handed' = Handed
           /\ out' = Append(out, Snapshot(Head(messages)))
           /\ Head(messages) \in Objects
<1> DEFINE o == Head(messages)
           taken == Snapshot(o)
<1>1. messages \in Seq(Objects) /\ messages # <<>> /\ messages' = Tail(messages)
  BY DEF TypeOK, Read
<1>2. o \in Objects
  BY <1>1, HeadTailProperties
<1>3. out' = Append(out, taken)
  BY DEF Read, Snapshot
<1>4. taken.obj = o
  BY DEF Snapshot
<1> HIDE DEF o, taken
<1>5. /\ Len(out) \in Nat /\ DOMAIN out = 1 .. Len(out) /\ DOMAIN out' = 1 .. Len(out) + 1
      /\ \A i \in 1 .. Len(out) : out'[i] = out[i]
      /\ out'[Len(out) + 1] = taken
  <2>1. out \in Seq(Taken \cup {taken})
    <3>1. Taken \subseteq Taken \cup {taken} /\ out \in Seq(Taken)
      BY DEF TypeOK
    <3>2. QED
      BY <3>1, SeqMonotonic
  <2>2. QED
    BY <1>3, <2>1, LenProperties, AppendProperties
<1>6. Objs' = Append(Objs, o)
  <2>1. Objs \in Seq(Objects) /\ Append(Objs, o) \in Seq(Objects)
    BY <1>2, HandedType, AppendProperties
  <2>2. Len(Objs) = Len(out)
    <3>1. DOMAIN Objs = 1 .. Len(out) /\ DOMAIN Objs = 1 .. Len(Objs) /\ Len(Objs) \in Nat
      BY <1>5, <2>1, LenProperties DEF Objs
    <3>2. QED
      BY <1>5, <3>1
  <2>3. /\ Len(Append(Objs, o)) = Len(out) + 1
        /\ \A i \in 1 .. Len(out) : Append(Objs, o)[i] = Objs[i]
        /\ Append(Objs, o)[Len(out) + 1] = o
    BY <1>2, <2>1, <2>2, AppendProperties
  <2>4. Objs' = [i \in 1 .. Len(out) + 1 |-> out'[i].obj]
    BY <1>5 DEF Objs
  <2>5. \A i \in 1 .. Len(out) + 1 : Objs'[i] = Append(Objs, o)[i]
    <3>1. \A i \in 1 .. Len(out) : Objs[i] = out[i].obj
      BY <1>5 DEF Objs
    <3>2. TAKE i \in 1 .. Len(out) + 1
    <3>3. i \in 1 .. Len(out) \/ i = Len(out) + 1
      BY <1>5
    <3>4. QED
      BY <1>4, <1>5, <2>3, <2>4, <3>1, <3>3
  <2>6. Objs' \in Seq(Objects)
    <3>1. \A i \in 1 .. Len(out) + 1 : Append(Objs, o)[i] \in Objects
      BY <2>1, <2>3, ElementOfSeq
    <3>2. Objs' \in [1 .. Len(out) + 1 -> Objects]
      BY <2>4, <2>5, <3>1
    <3>3. Len(out) + 1 \in Nat
      BY <1>5
    <3>4. QED
      BY <3>2, <3>3, IsASeq
  <2>7. Len(Objs') = Len(out) + 1
    <3>1. DOMAIN Objs' = 1 .. Len(Objs') /\ DOMAIN Objs' = 1 .. Len(out) + 1 /\ Len(Objs') \in Nat
      BY <2>4, <2>6, LenProperties
    <3>2. Len(out) + 1 \in Nat
      BY <1>5
    <3>3. QED
      BY <3>1, <3>2, SameInterval
  <2>8. QED
    BY <2>1, <2>3, <2>5, <2>6, <2>7, SeqEqual
<1>7. Objs \in Seq(Objects)
  BY HandedType
<1>8. Handed' = Append(Objs, o) \o Tail(messages)
  BY <1>1, <1>6 DEF Handed
<1>9. QED
  BY <1>1, <1>2, <1>3, <1>7, <1>8, MoveHead DEF Handed, o, taken

\* At first there is nothing.
LEMMA InitPlain == Init => PlainInv
<1> SUFFICES ASSUME Init PROVE PlainInv
  OBVIOUS
<1>1. /\ received = {} /\ heap = <<>> /\ m = <<>> /\ merging = <<>> /\ messages = <<>> /\ out = <<>>
      /\ ack = [c \in Captures |-> Pkt[c].ack]
  BY DEF Init
<1>2. Len(heap) = 0 /\ DOMAIN m = {} /\ DOMAIN out = {}
  BY <1>1, EmptySeq
<1>3. Handed \in Seq(Objects) /\ Range(Handed) = {}
  <2>1. TypeOK
    BY InitTypeOK
  <2>2. Range(messages) = {}
    BY <1>1 DEF Range
  <2>3. {out[i].obj : i \in DOMAIN out} = {}
    BY <1>2
  <2>4. QED
    BY <2>1, <2>2, <2>3, HandedType
<1>4. DOMAIN Handed = {}
  BY <1>3 DEF Range
<1>5. QED
  BY <1>1, <1>2, <1>4 DEF PlainInv, Recorded, IsInjective

\* Steps that touch neither map, messages nor channel.
LEMMA UntouchedPlain ==
    ASSUME PlainInv, received \subseteq received', Recorded(received'),
           UNCHANGED <<ack, heap, m, merging, messages, out>>
    PROVE  PlainInv'
<1>1. Handed' = Handed
  BY DEF Handed, Objs
<1>3. \A q \in 1 .. Len(heap) : ObjectOK(heap[q], received')
  BY DEF PlainInv, ObjectOK
<1>4. \A i \in DOMAIN out' : out'[i] = Snapshot(out[i].obj)'
  <2>1. \A i \in DOMAIN out : out[i] = Snapshot(out[i].obj)
    BY DEF PlainInv
  <2>2. QED
    BY <2>1 DEF Snapshot, UUID
<1>5. Recorded(received)'
  BY DEF Recorded
<1>6. QED
  BY <1>1, <1>3, <1>4, <1>5 DEF PlainInv

\* The reader takes a message as it was handed over.
LEMMA ReadPlain ==
    ASSUME TypeOK, PlainInv, Read
    PROVE  PlainInv'
<1> DEFINE o == Head(messages)
<1>1. Handed' = Handed /\ out' = Append(out, Snapshot(o))
  BY ReadMoves
<1>2. UNCHANGED <<received, ack, heap, m, merging>>
  BY DEF Read
<1>4. Snapshot(o).obj = o
  BY DEF Snapshot
<1> HIDE DEF o
<1>5. \A i \in DOMAIN out' : out'[i] = Snapshot(out[i].obj)'
  <2>1. out \in Seq(Taken \cup {Snapshot(o)})
    <3>1. Taken \subseteq Taken \cup {Snapshot(o)} /\ out \in Seq(Taken)
      BY DEF TypeOK
    <3>2. QED
      BY <3>1, SeqMonotonic
  <2>2. /\ Len(out) \in Nat /\ DOMAIN out = 1 .. Len(out) /\ DOMAIN out' = 1 .. Len(out) + 1
        /\ \A i \in 1 .. Len(out) : out'[i] = out[i]
        /\ out'[Len(out) + 1] = Snapshot(o)
    BY <1>1, <2>1, LenProperties, AppendProperties
  <2>3. TAKE i \in DOMAIN out'
  <2>4. CASE i \in DOMAIN out
    <3>1. out'[i] = out[i] /\ out[i] = Snapshot(out[i].obj)
      BY <2>2, <2>4 DEF PlainInv
    <3>2. QED
      BY <1>2, <3>1 DEF Snapshot, UUID
  <2>5. CASE i = Len(out) + 1
    <3>1. out'[i] = Snapshot(o) /\ out'[i].obj = o
      BY <1>4, <2>2, <2>5
    <3>2. QED
      BY <1>2, <3>1 DEF Snapshot, UUID
  <2>6. QED
    BY <2>2, <2>4, <2>5
<1>6. QED
  BY <1>1, <1>2, <1>5 DEF PlainInv, Recorded

\* The inductive invariant.
IInv == TypeOK /\ AllSorted(heap) /\ (NoExpect => PlainInv)

\* Captures only get more.
LEMMA OnlyMoreReceived ==
    ASSUME [Next]_vars
    PROVE  received \subseteq received' /\ (NoExpect' => NoExpect)
<1>1. received \subseteq received'
  BY DEF Next, vars, ProcessKnown, ProcessNew, Arrives, MergeNext, MergeDone,
         Timer, SweepKeep, SweepExpired, Read, Clock
<1>2. QED
  BY <1>1 DEF NoExpect

\* Every step that brings in no Expect header keeps PlainInv.
LEMMA StepPlain ==
    ASSUME TypeOK, TypeOK', AllSorted(heap), PlainInv, [Next]_vars, NoExpect'
    PROVE  PlainInv'
<1>1. \A d \in received' : ~ Pkt[d].expect
  BY DEF NoExpect
<1>2. ASSUME NEW c \in Captures, NEW o, Takes(o, c) PROVE PlainInv'
  BY <1>2, ChangeKeepsPlain DEF Takes
<1>3. ASSUME NEW c \in Captures, KnownAdds(c) PROVE PlainInv'
  BY <1>1, <1>2, <1>3, KnownAddsTakes
<1>4. ASSUME NEW c \in Captures, ProcessNew(c) PROVE PlainInv'
  BY <1>1, <1>2, <1>4, ProcessNewTakes
<1>5. ASSUME NEW c \in Captures, KnownPanics(c) PROVE PlainInv'
  <2>1. /\ Arrives(c)
        /\ UNCHANGED <<ack, heap, m, merging, messages>>
    BY <1>5 DEF KnownPanics, CallOfNil
  <2>2. /\ received' = received \cup {c} /\ out' = out
        /\ \E recording \in Recordings : received' \subseteq recording
    BY <2>1, ArrivesRecorded
  <2>3. QED
    BY <2>1, <2>2, UntouchedPlain DEF Recorded
<1>6. ~ MergeNext /\ ~ MergeDone
  BY DEF MergeNext, MergeDone, PlainInv
<1>7. ASSUME NEW k \in sweep, SweepExpired(k) PROVE PlainInv'
  <2>1. Changes(m[k], k) /\ (Sends(m[k], k) \/ Drops(m[k], k))
    BY <1>7, SweepExpiredChanges
  <2>2. QED
    BY <2>1, ChangeKeepsPlain
<1>8. CASE Read
  BY <1>8, ReadPlain
<1>9. ASSUME UNCHANGED <<received, ack, heap, m, merging, messages, out>> PROVE PlainInv'
  BY <1>9, UntouchedPlain DEF PlainInv, Recorded
<1>10. CASE Timer \/ Clock \/ (\E k \in sweep : SweepKeep(k)) \/ UNCHANGED vars
  BY <1>9, <1>10 DEF Timer, Clock, SweepKeep, vars
<1>11. QED
  BY <1>3, <1>4, <1>5, <1>6, <1>7, <1>8, <1>10, KnownCases DEF Next

\* The inductive invariant holds.
LEMMA Invariance == Spec => []IInv
<1>1. Init => IInv
  BY InitTypeOK, InitPlain DEF IInv
<1>2. IInv /\ [Next]_vars => IInv'
  <2> SUFFICES ASSUME IInv, [Next]_vars PROVE IInv'
    OBVIOUS
  <2>1. TypeOK' /\ AllSorted(heap)'
    BY StepTypeOK DEF IInv, AllSorted, Sorted
  <2>2. NoExpect' => PlainInv'
    BY <2>1, StepPlain, OnlyMoreReceived DEF IInv
  <2>3. QED
    BY <2>1, <2>2 DEF IInv
<1>3. QED
  BY <1>1, <1>2, PTL DEF Spec

-----------------------------------------------------------------------------
(* What the invariant gives *)

\* As long as no Expect header has come in, every packet of a message in the map
\* has the key of the message: delete in Emit and timer hit the right entry.
THEOREM MapKeyedByPackets == Spec => []KeyedByPackets
<1>1. IInv => KeyedByPackets
  <2> SUFFICES ASSUME IInv, NoExpect, NEW k \in DOMAIN m, NEW i \in DOMAIN heap[m[k]].pkts
               PROVE  MessageID(heap[m[k]].pkts[i], ack) = k
    BY DEF KeyedByPackets
  <2>1. PlainInv /\ TypeOK
    BY DEF IInv
  <2>2. heap[m[k]].pkts[i] \in Captures
    <3>1. heap[m[k]] \in Message
      BY <2>1, ElementOfSeq DEF TypeOK, Objects
    <3>2. QED
      BY <3>1, LenProperties, ElementOfSeq DEF Message
  <2>3. Id(heap[m[k]].pkts[i]) = k
    BY <2>1 DEF PlainInv, Range
  <2>4. ack = [c \in Captures |-> Pkt[c].ack]
    BY <2>1 DEF PlainInv
  <2>5. QED
    BY <2>2, <2>3, <2>4, PlainId
<1>2. QED
  BY <1>1, Invariance, PTL

\* As long as no Expect header has come in, no message that was handed over is in
\* the map, so that neither End nor the timer can hand it over again.
THEOREM MapInProgressOnly == Spec => [](NoExpect => InProgressOnly)
<1>1. IInv => (NoExpect => InProgressOnly)
  <2> SUFFICES ASSUME IInv, NoExpect, NEW k \in DOMAIN m
               PROVE  m[k] \notin Range(messages) /\ \A i \in DOMAIN out : out[i].obj # m[k]
    BY DEF InProgressOnly
  <2>1. m[k] \notin Range(Handed) /\ TypeOK
    BY DEF IInv, PlainInv
  <2>2. QED
    BY <2>1, HandedType
<1>2. QED
  BY <1>1, Invariance, PTL

\* No message waits in the map once all of its packets have come in.
THEOREM WholeMessagesLeave == Spec => []NoneWholeWaits
<1>1. IInv => NoneWholeWaits
  BY DEF IInv, NoneWholeWaits, PlainInv, Covered
<1>2. QED
  BY <1>1, Invariance, PTL

\* What a handed-over message the timer did not end is like.
LEMMA HandedWhole ==
    ASSUME TypeOK, AllSorted(heap), PlainInv, NEW o \in Range(Handed), ~ heap[o].timedOut
    PROVE  /\ HttpHints /\ Covered(heap[o].pkts) /\ Sorted(heap[o].pkts)
           /\ heap[o].pkts \in Seq(Captures) /\ heap[o].pkts # <<>>
           /\ OneMessage(heap[o].pkts)
<1>1. o \in Objects
  BY HandedType, RangeOfSeq
<1>2. heap[o].pkts \in Seq(Captures) /\ heap[o].pkts # <<>>
  <2>1. heap[o] \in Message
    BY <1>1, ElementOfSeq DEF TypeOK, Objects
  <2>2. QED
    BY <1>1, <2>1 DEF TypeOK, Message
<1>3. HttpHints /\ Covered(heap[o].pkts)
  BY DEF PlainInv, Range, Done
<1>4. ObjectOK(heap[o], received) /\ Sorted(heap[o].pkts)
  BY <1>1 DEF PlainInv, Objects, AllSorted
<1>5. Range(heap[o].pkts) # {}
  BY <1>2, RangeOfPackets
<1>6. PICK recording \in Recordings : received \subseteq recording
  BY <1>4, <1>5 DEF PlainInv, Recorded, ObjectOK
<1>7. OneMessage(heap[o].pkts)
  BY <1>2, <1>3, <1>4, <1>6, OneIdOneMessage DEF ObjectOK
<1>8. QED
  BY <1>2, <1>3, <1>4, <1>7

\* A message that is sent is in the channel.
LEMMA SentIsInChannel ==
    ASSUME TypeOK, NEW o, NEW id, Sends(o, id)
    PROVE  o \in Range(messages')
<1>1. messages \in Seq(Objects) /\ messages' = Append(messages, o)
  BY DEF TypeOK, Sends
<1>2. messages \in Seq(Objects \cup {o})
  <2>1. Objects \subseteq Objects \cup {o}
    OBVIOUS
  <2>2. QED
    BY <1>1, <2>1, SeqMonotonic
<1>3. QED
  BY <1>1, <1>2, AppendedRange

\* A message the reader has is one that was handed over, and as it still is.
LEMMA TakenIsHanded ==
    ASSUME TypeOK, PlainInv, NEW i \in DOMAIN out
    PROVE  /\ out[i].obj \in Range(Handed) /\ out[i] = Snapshot(out[i].obj)
           /\ out[i].pkts = heap[out[i].obj].pkts /\ out[i].dir = heap[out[i].obj].dir
           /\ out[i].timedOut = heap[out[i].obj].timedOut
           /\ out[i].uuid = UUID(heap[out[i].obj])
<1>1. out[i] = Snapshot(out[i].obj)
  BY DEF PlainInv
<1>2. out[i].obj \in Range(Handed)
  BY HandedType
<1>3. QED
  BY <1>1, <1>2 DEF Snapshot

\* A reader who gets a message the timer did not end has the whole of one message
\* of the wire, each packet once and in order; and no message comes twice.
THEOREM MessagesReadWhole == Spec => [](NoExpect => ReadWhole)
<1>1. IInv => (NoExpect => ReadWhole)
  <2> SUFFICES ASSUME IInv, NoExpect PROVE ReadWhole
    OBVIOUS
  <2>1. TypeOK /\ AllSorted(heap) /\ PlainInv
    BY DEF IInv
  <2>2. ASSUME NEW i \in DOMAIN out, ~ out[i].timedOut
        PROVE  LET pkts == out[i].pkts
               IN /\ \A j \in DOMAIN pkts : Wire[pkts[j]].msg = Wire[pkts[1]].msg
                  /\ PacketSeqs(pkts) = WireSeqs(pkts[1])
                  /\ \A j \in 2 .. Len(pkts) : Seq_(pkts[j - 1]) < Seq_(pkts[j])
    <3> DEFINE pkts == out[i].pkts
    <3>1. /\ Covered(pkts) /\ Sorted(pkts) /\ OneMessage(pkts)
          /\ pkts \in Seq(Captures) /\ pkts # <<>>
      BY <2>1, <2>2, TakenIsHanded, HandedWhole
    <3> HIDE DEF pkts
    <3>2. DOMAIN pkts = 1 .. Len(pkts) /\ Len(pkts) \in Nat \ {0}
      BY <3>1, LenProperties, EmptySeq
    <3>3. \A j \in DOMAIN pkts : Wire[pkts[j]].msg = Wire[pkts[1]].msg
      BY <3>1, <3>2 DEF OneMessage, SameMessage
    <3>4. \A j \in 2 .. Len(pkts) : Seq_(pkts[j - 1]) < Seq_(pkts[j])
      BY <3>1, <3>2 DEF Sorted
    <3>5. QED
      BY <3>1, <3>3, <3>4 DEF Covered, pkts
  <2>3. IsInjective([i \in DOMAIN out |-> out[i].obj] \o messages)
    BY <2>1 DEF PlainInv, Handed, Objs
  <2>4. QED
    BY <2>2, <2>3 DEF ReadWhole
<1>2. QED
  BY <1>1, Invariance, PTL

\* Without an Expect header no message leaves the map unless it is handed over or
\* the timer drops it.
THEOREM NothingLost == (\A c \in Captures : ~ Pkt[c].expect) => (Spec => NoSilentLoss)
<1> SUFFICES ASSUME \A c \in Captures : ~ Pkt[c].expect PROVE Spec => NoSilentLoss
  OBVIOUS
<1> DEFINE Kept(o) == \/ \E k \in DOMAIN m' : m'[k] = o
                      \/ o \in Range(messages')
                      \/ Expired(heap[o]) /\ HttpHints /\ ~allowIncompete
                      \/ \E q \in Objects \ {o} : Range(heap[o].pkts) \subseteq Range(heap[q].pkts)
<1>1. ASSUME IInv, TypeOK', [Next]_vars
      PROVE  \A o \in {m[k] : k \in DOMAIN m} : Kept(o)
  <2> SUFFICES ASSUME NEW k \in DOMAIN m PROVE Kept(m[k])
    OBVIOUS
  <2>1. TypeOK /\ AllSorted(heap) /\ PlainInv /\ \A d \in received' : ~ Pkt[d].expect
    BY <1>1 DEF IInv, NoExpect, TypeOK
  <2>2. CASE m' = m
    BY <2>2
  <2>3. ASSUME NEW c \in Captures, NEW o, Takes(o, c) PROVE Kept(m[k])
    <3>1. CASE k # Id(c)
      BY <2>3, <3>1 DEF Takes, Changes
    <3>2. CASE k = Id(c) /\ Waits(o, Id(c))
      BY <2>3, <3>2 DEF Takes, Changes, Waits
    <3>3. CASE k = Id(c) /\ Sends(o, Id(c))
      BY <2>1, <2>3, <3>3, SentIsInChannel DEF Takes, Changes
    <3>4. QED
      BY <2>3, <3>1, <3>2, <3>3 DEF Takes
  <2>4. ASSUME NEW c \in Captures, KnownAdds(c) \/ ProcessNew(c) PROVE Kept(m[k])
    BY <1>1, <2>1, <2>3, <2>4, KnownAddsTakes, ProcessNewTakes
  <2>5. ASSUME NEW l \in sweep, SweepExpired(l) PROVE Kept(m[k])
    <3>1. /\ l \in DOMAIN m /\ Changes(m[l], l)
          /\ IF ~ HttpHints \/ allowIncompete THEN Sends(m[l], l) ELSE Drops(m[l], l)
      BY <1>1, <2>1, <2>5, SweepExpiredChanges
    <3>2. CASE k # l
      BY <3>1, <3>2 DEF Changes
    <3>3. CASE k = l /\ Sends(m[l], l)
      BY <2>1, <3>1, <3>3, SentIsInChannel DEF Changes
    <3>4. CASE k = l /\ HttpHints /\ ~ allowIncompete
      <4>1. Expired(heap[m[l]])
        BY <2>5 DEF SweepExpired
      <4>2. QED
        BY <3>4, <4>1
    <3>5. QED
      BY <3>1, <3>2, <3>3, <3>4
  <2>6. ~ MergeNext /\ ~ MergeDone
    BY <2>1 DEF MergeNext, MergeDone, PlainInv
  <2>7. ASSUME NEW c \in Captures, KnownPanics(c) PROVE m' = m
    BY <2>7 DEF KnownPanics, CallOfNil
  <2>8. CASE Timer \/ Clock \/ Read \/ (\E l \in sweep : SweepKeep(l)) \/ UNCHANGED vars
    BY <2>2, <2>8 DEF Timer, Clock, Read, SweepKeep, vars
  <2>9. QED
    BY <1>1, <2>2, <2>4, <2>5, <2>6, <2>7, <2>8, KnownCases DEF Next
<1>2. IInv /\ IInv' /\ [Next]_vars => [\A o \in {m[k] : k \in DOMAIN m} : Kept(o)]_vars
  BY <1>1 DEF IInv
<1>3. QED
  BY <1>2, Invariance, PTL DEF Spec, NoSilentLoss

-----------------------------------------------------------------------------
(* The refinement of Reassembly *)

PacketSets(s) == [i \in DOMAIN s |-> PacketSet(s[i])]

\* The state of the abstract parser, for a recording without Expect headers.
Pool == UNION {PacketSet(m[k]) : k \in DOMAIN m}
HandedOver == [i \in DOMAIN out |-> Range(out[i].pkts)]
                \o [i \in DOMAIN messages |-> PacketSet(messages[i])]

\* PacketSets maps messages to their sets of packets, one by one.
LEMMA PacketSetsType ==
    ASSUME TypeOK, NEW s \in Seq(Objects)
    PROVE  /\ PacketSets(s) \in Seq(SUBSET Captures)
           /\ Len(PacketSets(s)) = Len(s) /\ Len(s) \in Nat
           /\ \A i \in 1 .. Len(s) : PacketSets(s)[i] = PacketSet(s[i])
<1>1. Len(s) \in Nat /\ DOMAIN s = 1 .. Len(s)
  BY LenProperties
<1>2. \A i \in 1 .. Len(s) : PacketSet(s[i]) \in SUBSET Captures
  <2> SUFFICES ASSUME NEW i \in 1 .. Len(s) PROVE PacketSet(s[i]) \in SUBSET Captures
    OBVIOUS
  <2>1. s[i] \in Objects
    BY ElementOfSeq
  <2>2. heap[s[i]] \in Message
    BY <2>1, ElementOfSeq DEF TypeOK, Objects
  <2>3. QED
    BY <2>2, RangeOfPackets DEF PacketSet, Message
<1>3. PacketSets(s) = [i \in 1 .. Len(s) |-> PacketSet(s[i])]
  BY <1>1 DEF PacketSets
<1>4. PacketSets(s) \in [1 .. Len(s) -> SUBSET Captures]
  BY <1>2, <1>3
<1>5. PacketSets(s) \in Seq(SUBSET Captures)
  BY <1>1, <1>4, IsASeq
<1>6. Len(PacketSets(s)) = Len(s)
  <2>1. 1 .. Len(PacketSets(s)) = 1 .. Len(s) /\ Len(PacketSets(s)) \in Nat
    BY <1>4, <1>5, LenProperties
  <2>2. QED
    BY <1>1, <2>1, SameInterval
<1>7. QED
  BY <1>1, <1>3, <1>5, <1>6

\* PacketSets of a concatenation.
LEMMA PacketSetsOfConcat ==
    ASSUME TypeOK, NEW s \in Seq(Objects), NEW t \in Seq(Objects)
    PROVE  PacketSets(s \o t) = PacketSets(s) \o PacketSets(t)
<1> DEFINE u == s \o t
           a == PacketSets(s)
           b == PacketSets(t)
           l == PacketSets(u)
           r == a \o b
           n == Len(s)
           k == Len(t)
<1>1. /\ u \in Seq(Objects) /\ Len(u) = n + k /\ n \in Nat /\ k \in Nat
      /\ \A i \in 1 .. n + k : u[i] = IF i <= n THEN s[i] ELSE t[i - n]
  BY LenProperties, ConcatProperties
<1>2. /\ a \in Seq(SUBSET Captures) /\ Len(a) = n /\ \A i \in 1 .. n : a[i] = PacketSet(s[i])
      /\ b \in Seq(SUBSET Captures) /\ Len(b) = k /\ \A i \in 1 .. k : b[i] = PacketSet(t[i])
  BY PacketSetsType
<1> HIDE DEF u, a, b
<1>3. /\ l \in Seq(SUBSET Captures) /\ Len(l) = n + k
      /\ \A i \in 1 .. n + k : l[i] = PacketSet(u[i])
  BY <1>1, PacketSetsType
<1> HIDE DEF l, n, k
<1>4. /\ r \in Seq(SUBSET Captures) /\ Len(r) = n + k
      /\ \A i \in 1 .. n + k : r[i] = IF i <= n THEN a[i] ELSE b[i - n]
  BY <1>2, ConcatProperties
<1> HIDE DEF r
<1>5. \A i \in 1 .. n + k : l[i] = r[i]
  <2> TAKE i \in 1 .. n + k
  <2>1. CASE i <= n
    <3>1. i \in 1 .. n
      BY <1>1, <2>1
    <3>2. QED
      BY <1>1, <1>2, <1>3, <1>4, <2>1, <3>1
  <2>2. CASE ~ (i <= n)
    <3>1. i - n \in 1 .. k
      BY <1>1, <2>2
    <3>2. QED
      BY <1>1, <1>2, <1>3, <1>4, <2>2, <3>1
  <2>3. QED
    BY <2>1, <2>2
<1>6. l = r
  BY <1>3, <1>4, <1>5, SeqEqual
<1>7. QED
  BY <1>6 DEF l, r, u, a, b

\* PacketSets of a sequence with one message more.
LEMMA PacketSetsOfAppend ==
    ASSUME TypeOK, NEW s \in Seq(Objects), NEW o \in Objects
    PROVE  PacketSets(Append(s, o)) = Append(PacketSets(s), PacketSet(o))
<1>1. <<o>> \in Seq(Objects)
  OBVIOUS
<1>2. PacketSets(<<o>>) = <<PacketSet(o)>>
  BY DEF PacketSets
<1>3. Append(s, o) = s \o <<o>>
  BY AppendIsConcat
<1>4. PacketSets(s) \in Seq(SUBSET Captures) /\ PacketSet(o) \in SUBSET Captures
  <2>1. PacketSets(<<o>>) \in Seq(SUBSET Captures)
    BY <1>1, PacketSetsType
  <2>2. QED
    BY <1>2, <2>1, PacketSetsType
<1>5. Append(PacketSets(s), PacketSet(o)) = PacketSets(s) \o <<PacketSet(o)>>
  BY <1>4, AppendIsConcat
<1>6. QED
  BY <1>1, <1>2, <1>3, <1>5, PacketSetsOfConcat

\* A message the reader has taken has the packets it was handed over with.
LEMMA HandedOverSets ==
    ASSUME TypeOK, PlainInv
    PROVE  HandedOver = PacketSets(Handed)
<1>1. Objs \in Seq(Objects) /\ messages \in Seq(Objects)
  BY HandedType DEF TypeOK
<1>2. \A i \in DOMAIN out : Range(out[i].pkts) = PacketSet(Objs[i])
  BY TakenIsHanded DEF PacketSet, Objs
<1>3. [i \in DOMAIN out |-> Range(out[i].pkts)] = PacketSets(Objs)
  BY <1>2 DEF PacketSets, Objs
<1>4. PacketSets(Handed) = PacketSets(Objs) \o PacketSets(messages)
  BY <1>1, PacketSetsOfConcat DEF Handed
<1>5. QED
  BY <1>3, <1>4 DEF HandedOver, PacketSets

\* Element i of what was handed over is what message Handed[i] holds.
HandedOverIsHanded ==
    /\ HandedOver = PacketSets(Handed)
    /\ HandedOver \in Seq(SUBSET Captures)
    /\ Len(HandedOver) = Len(Handed) /\ Len(Handed) \in Nat
    /\ \A i \in 1 .. Len(Handed) : HandedOver[i] = Range(heap[Handed[i]].pkts)

\* The invariant ties what the abstract parser has handed over to Handed.
LEMMA HandedOverElements == TypeOK /\ PlainInv => HandedOverIsHanded
<1>1. TypeOK => Handed \in Seq(Objects)
  BY HandedType
<1>2. QED
  BY <1>1, HandedOverSets, PacketSetsType DEF PacketSet, HandedOverIsHanded

\* What a handler does with message o shows in the pool in no other place.
LEMMA ChangedPool ==
    ASSUME TypeOK, TypeOK', PlainInv, NEW o, NEW id, Changes(o, id),
           DOMAIN m' \subseteq DOMAIN m \cup {id}, id \in DOMAIN m' => m'[id] = o
    PROVE  \E rest \in SUBSET Captures :
              /\ \A c \in rest : Id(c) # id
              /\ Pool = rest \cup IF id \in DOMAIN m THEN PacketSet(o) ELSE {}
              /\ Pool' = rest \cup IF id \in DOMAIN m' THEN Range(heap'[o].pkts) ELSE {}
<1> DEFINE rest == UNION {PacketSet(m[k]) : k \in DOMAIN m \ {id}}
<1>1. \A k \in DOMAIN m \ {id} : \A c \in PacketSet(m[k]) : Id(c) # id
  BY DEF PlainInv, PacketSet
<1>2. \A k \in DOMAIN m : PacketSet(m[k]) \subseteq Captures
  <2> SUFFICES ASSUME NEW k \in DOMAIN m PROVE PacketSet(m[k]) \subseteq Captures
    OBVIOUS
  <2>1. m[k] \in 1 .. Len(heap) /\ received \subseteq Captures
    BY DEF TypeOK, Objects
  <2>2. QED
    BY <2>1 DEF PlainInv, ObjectOK, PacketSet
<1>3. \A k \in DOMAIN m \ {id} : k \in DOMAIN m' /\ Range(heap'[m'[k]].pkts) = PacketSet(m[k])
  <2> SUFFICES ASSUME NEW k \in DOMAIN m \ {id}
               PROVE  k \in DOMAIN m' /\ Range(heap'[m'[k]].pkts) = PacketSet(m[k])
    OBVIOUS
  <2>1. k \in DOMAIN m' /\ m'[k] = m[k] /\ m[k] # o /\ m[k] \in 1 .. Len(heap')
    BY DEF Changes, TypeOK, Objects
  <2>2. heap'[m[k]] = heap[m[k]]
    BY <2>1 DEF Changes
  <2>3. QED
    BY <2>1, <2>2 DEF PacketSet
<1>4. DOMAIN m' \ {id} = DOMAIN m \ {id}
  BY <1>3
<1>5. Pool = rest \cup IF id \in DOMAIN m THEN PacketSet(o) ELSE {}
  <2>1. id \in DOMAIN m => m[id] = o
    BY DEF Changes
  <2>2. QED
    BY <2>1 DEF Pool
<1>6. Pool' = rest \cup IF id \in DOMAIN m' THEN Range(heap'[o].pkts) ELSE {}
  <2>1. Pool' = UNION {Range(heap'[m'[k]].pkts) : k \in DOMAIN m'}
    BY DEF Pool, PacketSet
  <2>2. {Range(heap'[m'[k]].pkts) : k \in DOMAIN m' \ {id}} = {PacketSet(m[k]) : k \in DOMAIN m \ {id}}
    BY <1>3, <1>4
  <2>3. UNION {Range(heap'[m'[k]].pkts) : k \in DOMAIN m'}
           = (UNION {Range(heap'[m'[k]].pkts) : k \in DOMAIN m' \ {id}})
               \cup IF id \in DOMAIN m' THEN Range(heap'[o].pkts) ELSE {}
    OBVIOUS
  <2>4. QED
    BY <2>1, <2>2, <2>3
<1>7. rest \in SUBSET Captures /\ \A c \in rest : Id(c) # id
  BY <1>1, <1>2
<1>8. QED
  BY <1>5, <1>6, <1>7

\* Only a message that is sent shows in what was handed over.
LEMMA ChangedHandedOver ==
    ASSUME TypeOK, TypeOK', PlainInv, PlainInv', NEW o, NEW id, Changes(o, id)
    PROVE  /\ messages' = messages => HandedOver' = HandedOver
           /\ Sends(o, id) => HandedOver' = Append(HandedOver, Range(heap'[o].pkts))
<1>1. /\ Handed \in Seq(Objects) /\ Objs \in Seq(Objects) /\ messages \in Seq(Objects)
      /\ Objs' = Objs
  BY HandedType DEF TypeOK, Objs, Changes
<1>2. /\ HandedOver \in Seq(SUBSET Captures)
      /\ Len(HandedOver) = Len(Handed) /\ Len(Handed) \in Nat
      /\ \A i \in 1 .. Len(Handed) : HandedOver[i] = Range(heap[Handed[i]].pkts)
      /\ HandedOver = PacketSets(Handed)
  BY HandedOverElements DEF HandedOverIsHanded
<1>9. /\ HandedOver' = PacketSets(Handed)'
      /\ HandedOver' \in Seq(SUBSET Captures)
      /\ Len(HandedOver') = Len(Handed') /\ Len(Handed') \in Nat
      /\ \A i \in 1 .. Len(Handed') : HandedOver'[i] = Range(heap'[Handed'[i]].pkts)
  <2>1. HandedOverIsHanded'
    BY HandedOverElements, PTL
  <2>2. QED
    BY <2>1 DEF HandedOverIsHanded
<1>3. \A q \in Range(Handed) : heap'[q] = heap[q]
  <2> SUFFICES ASSUME NEW q \in Range(Handed) PROVE heap'[q] = heap[q]
    OBVIOUS
  <2>1. q \in 1 .. Len(heap) /\ q # o
    BY <1>1, RangeOfSeq DEF Objects, Changes
  <2>2. Len(heap) \in Nat /\ Len(heap') \in Nat /\ Len(heap) <= Len(heap')
    BY LenProperties DEF TypeOK, Changes
  <2>3. q \in 1 .. Len(heap')
    BY <2>1, <2>2
  <2>4. QED
    BY <2>1, <2>3 DEF Changes
<1>4. \A i \in DOMAIN Handed : Range(heap'[Handed[i]].pkts) = Range(heap[Handed[i]].pkts)
  BY <1>3 DEF Range
<1>5. ASSUME messages' = messages PROVE HandedOver' = HandedOver
  <2>1. Handed' = Handed
    BY <1>1, <1>5 DEF Handed
  <2>2. PacketSets(Handed)' = [i \in DOMAIN Handed |-> Range(heap'[Handed[i]].pkts)]
    BY <2>1 DEF PacketSets, PacketSet
  <2>3. PacketSets(Handed) = [i \in DOMAIN Handed |-> Range(heap[Handed[i]].pkts)]
    BY DEF PacketSets, PacketSet
  <2>4. QED
    BY <1>2, <1>9, <1>4, <2>2, <2>3
<1>6. ASSUME Sends(o, id) PROVE HandedOver' = Append(HandedOver, Range(heap'[o].pkts))
  <2> DEFINE n == Len(Handed)
             l == HandedOver'
             S == Range(heap'[o].pkts)
             r == Append(HandedOver, S)
  <2>1. o \in 1 .. Len(heap') /\ messages \in Seq(1 .. Len(heap'))
        /\ Objs \in Seq(1 .. Len(heap')) /\ Handed \in Seq(1 .. Len(heap'))
    <3>1. 1 .. Len(heap) \subseteq 1 .. Len(heap')
      BY LenProperties DEF TypeOK, Changes
    <3>2. QED
      BY <1>1, <3>1, SeqMonotonic DEF Objects, Changes
  <2>2. Handed' = Append(Handed, o)
    BY <1>1, <1>6, <2>1, AppendToConcat DEF Handed, Sends
  <2>3. /\ n \in Nat /\ DOMAIN Handed = 1 .. n /\ Len(Handed') = n + 1
        /\ \A i \in 1 .. n : Handed'[i] = Handed[i]
        /\ Handed'[n + 1] = o
    BY <2>1, <2>2, LenProperties, AppendProperties
  <2>4. /\ l \in Seq(SUBSET Captures) /\ Len(l) = n + 1
        /\ \A i \in 1 .. n + 1 : l[i] = Range(heap'[Handed'[i]].pkts)
    BY <1>9, <2>3
  <2>5. /\ HandedOver \in Seq(SUBSET Captures) /\ Len(HandedOver) = n
        /\ \A i \in 1 .. n : HandedOver[i] = Range(heap[Handed[i]].pkts)
    BY <1>2
  <2>6. S \in SUBSET Captures
    <3>1. ObjectOK(heap'[o], received') /\ received' \subseteq Captures
      BY DEF Changes, TypeOK
    <3>2. QED
      BY <3>1 DEF ObjectOK
  <2> HIDE DEF n, l, S
  <2>7. /\ r \in Seq(SUBSET Captures) /\ Len(r) = n + 1
        /\ \A i \in 1 .. n : r[i] = HandedOver[i]
        /\ r[n + 1] = S
    BY <2>5, <2>6, AppendProperties
  <2> HIDE DEF r
  <2>8. \A i \in 1 .. n + 1 : l[i] = r[i]
    <3> TAKE i \in 1 .. n + 1
    <3>1. CASE i \in 1 .. n
      <4>1. Handed'[i] = Handed[i] /\ i \in DOMAIN Handed
        BY <2>3, <3>1
      <4>2. QED
        BY <1>4, <2>4, <2>5, <2>7, <3>1, <4>1
    <3>2. CASE i = n + 1
      BY <2>3, <2>4, <2>7, <3>2 DEF S
    <3>3. QED
      BY <2>3, <3>1, <3>2
  <2>9. QED
    BY <2>4, <2>7, <2>8, SeqEqual DEF l, r, S
<1>7. QED
  BY <1>5, <1>6

\* The packets of one message are a whole message for the abstract parser when all of
\* them are there.
LEMMA WholeIsCovered ==
    ASSUME NEW pkts \in Seq(Captures), pkts # <<>>, OneMessage(pkts), Sorted(pkts)
    PROVE  Reassembled!Whole(Range(pkts)) <=> Covered(pkts)
<1> DEFINE S == Range(pkts)
<1>1. DOMAIN pkts = 1 .. Len(pkts) /\ Len(pkts) \in Nat /\ S \subseteq Captures
      /\ pkts[1] \in S
  BY LenProperties, RangeOfPackets
<1>2. \A c, d \in S : Wire[c].msg = Wire[d].msg
  BY DEF OneMessage, SameMessage, Range
<1>3. \A c, d \in S : Pkt[c].seq = Pkt[d].seq => c = d
  <2> SUFFICES ASSUME NEW i \in DOMAIN pkts, NEW j \in DOMAIN pkts,
                      Pkt[pkts[i]].seq = Pkt[pkts[j]].seq
               PROVE  pkts[i] = pkts[j]
    BY DEF Range
  <2>1. i \in Nat /\ j \in Nat /\ (i < j \/ j < i \/ i = j)
    BY <1>1
  <2>2. Seq_(pkts[i]) \in Nat
    BY <1>1, SeqIsNat DEF Range
  <2>3. QED
    BY <2>1, <2>2 DEF Sorted, Seq_
<1>4. {Pkt[c].seq : c \in S} = PacketSeqs(pkts)
  BY DEF PacketSeqs, Seq_, Range
<1>5. \A c \in S : {Pkt[d].seq : d \in {e \in Captures : Wire[e].msg = Wire[c].msg}} = WireSeqs(pkts[1])
  BY <1>1, <1>2 DEF WireSeqs, Seq_
<1> HIDE DEF S
<1>6. Reassembled!Whole(S) <=> Covered(pkts)
  BY <1>1, <1>2, <1>3, <1>4, <1>5 DEF Reassembled!Whole, Reassembled!Seqs, Covered
<1>7. QED
  BY <1>6 DEF S

\* processPacket is a step of the abstract parser.
LEMMA TakesIsArrival ==
    ASSUME HttpHints, TypeOK, TypeOK', AllSorted(heap)', PlainInv, PlainInv', Plain, Plain',
           NEW c \in Captures, c \notin received, received' = received \cup {c},
           allowIncompete' = allowIncompete, NEW o, Takes(o, c)
    PROVE  Reassembled!Next
<1> DEFINE id == Id(c)
           S == Range(heap'[o].pkts)
           Before == IF id \in DOMAIN m THEN PacketSet(o) ELSE {}
           After == IF id \in DOMAIN m' THEN S ELSE {}
<1>1. /\ Changes(o, id)
      /\ \/ /\ id \in DOMAIN m /\ Duplicate(heap[o].pkts, c) /\ heap'[o].pkts = heap[o].pkts
            /\ Waits(o, id)
         \/ S = Before \cup {c} /\ Waits(o, id)
         \/ S = Before \cup {c} /\ Sends(o, id) /\ Covered(heap'[o].pkts)
  BY DEF Takes, PacketSet
<1>2. PICK rest \in SUBSET Captures :
              /\ \A e \in rest : Id(e) # id
              /\ Pool = rest \cup Before
              /\ Pool' = rest \cup After
  BY <1>1, ChangedPool DEF Changes, Waits, Sends
<1>3. /\ messages' = messages => HandedOver' = HandedOver
      /\ Sends(o, id) => HandedOver' = Append(HandedOver, S)
  BY <1>1, ChangedHandedOver
<1>4. /\ Reassembled!Arrive(c)
  BY DEF Reassembled!Arrive
<1>5. \A e \in S : Id(e) = id
  BY <1>1 DEF Changes
<1>6. PICK recording \in Recordings : received' \subseteq recording
  BY DEF Plain
<1>7. TakesTurns(recording) /\ c \in recording
  BY <1>6, WireAssumption
<1>8. ObjectOK(heap'[o], received') /\ o \in 1 .. Len(heap')
  BY <1>1 DEF Changes
<1>9. /\ heap'[o].pkts \in Seq(Captures) /\ heap'[o].pkts # <<>> /\ Sorted(heap'[o].pkts)
      /\ OneMessage(heap'[o].pkts)
  <2>1. heap'[o] \in Message /\ heap'[o].pkts # <<>>
    BY <1>8, ElementOfSeq DEF TypeOK, Objects
  <2>2. heap'[o].pkts \in Seq(Captures)
    BY <2>1 DEF Message
  <2>3. Sorted(heap'[o].pkts)
    BY <1>8 DEF AllSorted
  <2>4. Range(heap'[o].pkts) \subseteq recording /\ \A d, e \in Range(heap'[o].pkts) : Id(d) = Id(e)
    BY <1>6, <1>8 DEF ObjectOK
  <2>5. OneMessage(heap'[o].pkts)
    BY <2>2, <2>4, OneIdOneMessage
  <2>6. QED
    BY <2>1, <2>2, <2>3, <2>5
<1>10. CASE /\ id \in DOMAIN m /\ Duplicate(heap[o].pkts, c) /\ heap'[o].pkts = heap[o].pkts
            /\ Waits(o, id)
  <2>1. PICK i \in 1 .. Len(heap[o].pkts) : Seq_(heap[o].pkts[i]) = Seq_(c)
    BY <1>10 DEF Duplicate
  <2> DEFINE d == heap[o].pkts[i]
  <2>2. d \in S /\ S = Before
    BY <1>9, <1>10, <2>1, LenProperties DEF Range, PacketSet
  <2>3. Id(d) = Id(c) /\ d \in recording
    BY <1>5, <1>6, <1>8, <2>2 DEF ObjectOK
  <2>4. SameMessage(d, c)
    BY <1>7, <2>3 DEF TakesTurns, Id
  <2>5. d \in Pool /\ Wire[d].msg = Wire[c].msg /\ Pkt[d].seq = Pkt[c].seq
    BY <1>2, <2>1, <2>2, <2>4 DEF SameMessage, Seq_
  <2>6. Pool' = Pool /\ HandedOver' = HandedOver
    BY <1>2, <1>3, <1>10, <2>2 DEF Waits
  <2> HIDE DEF d
  <2>7. Reassembled!Ignore(c)
    BY <1>4, <2>5, <2>6 DEF Reassembled!Ignore, Pool, HandedOver
  <2>8. QED
    BY <2>7 DEF Reassembled!Next
<1>11. CASE S = Before \cup {c} /\ Waits(o, id)
  <2>1. Pool' = Pool \cup {c} /\ HandedOver' = HandedOver
    BY <1>2, <1>3, <1>11 DEF Waits
  <2>2. Reassembled!Keep(c)
    BY <1>4, <2>1 DEF Reassembled!Keep, Pool, HandedOver
  <2>3. QED
    BY <2>2 DEF Reassembled!Next
<1>12. CASE S = Before \cup {c} /\ Sends(o, id) /\ Covered(heap'[o].pkts)
  <2>1. Reassembled!Whole(S)
    BY <1>9, <1>12, WholeIsCovered
  <2>2. Pool' = rest /\ HandedOver' = Append(HandedOver, S)
    BY <1>2, <1>3, <1>12 DEF Sends
  <2>3. S \in SUBSET (Pool \cup {c}) /\ c \in S
    BY <1>2, <1>12
  <2>4. (Pool \cup {c}) \ S = rest
    BY <1>2, <1>5, <1>12
  <2> HIDE DEF S
  <2>5. Reassembled!Finish(c)
    BY <1>4, <2>1, <2>2, <2>3, <2>4 DEF Reassembled!Finish, Pool, HandedOver
  <2>6. QED
    BY <2>5 DEF Reassembled!Next
<1>13. QED
  BY <1>1, <1>10, <1>11, <1>12

\* The timer ending a message is the abstract parser's Lapse.
LEMMA SweepIsLapse ==
    ASSUME HttpHints, TypeOK, TypeOK', AllSorted(heap), PlainInv, PlainInv', Plain, Plain',
           NEW k \in sweep, SweepExpired(k), allowIncompete' = allowIncompete
    PROVE  Reassembled!Next
<1> DEFINE o == m[k]
           S == PacketSet(o)
<1>1. /\ k \in DOMAIN m /\ Changes(o, k) /\ received' = received
      /\ heap'[o].pkts = heap[o].pkts
      /\ IF ~ HttpHints \/ allowIncompete THEN Sends(o, k) ELSE Drops(o, k)
  BY SweepExpiredChanges
<1>2. k \notin DOMAIN m'
  BY <1>1 DEF Sends, Drops
<1>3. PICK rest \in SUBSET Captures :
              /\ \A e \in rest : Id(e) # k
              /\ Pool = rest \cup S
              /\ Pool' = rest
  <2>1. DOMAIN m' \subseteq DOMAIN m \cup {k}
    BY <1>1 DEF Changes
  <2> HIDE DEF o
  <2>2. PICK rest \in SUBSET Captures :
              /\ \A e \in rest : Id(e) # k
              /\ Pool = rest \cup IF k \in DOMAIN m THEN PacketSet(o) ELSE {}
              /\ Pool' = rest \cup IF k \in DOMAIN m' THEN Range(heap'[o].pkts) ELSE {}
    BY <1>1, <1>2, <2>1, ChangedPool
  <2>3. Pool = rest \cup S /\ Pool' = rest
    BY <1>1, <1>2, <2>2
  <2>4. QED
    BY <2>2, <2>3
<1>4. /\ messages' = messages => HandedOver' = HandedOver
      /\ Sends(o, k) => HandedOver' = Append(HandedOver, S)
  BY <1>1, ChangedHandedOver DEF PacketSet
<1>5. /\ o \in 1 .. Len(heap) /\ ObjectOK(heap[o], received)
      /\ \A e \in S : Id(e) = k
      /\ ~ Covered(heap[o].pkts)
  BY <1>1 DEF TypeOK, Objects, PlainInv, PacketSet
<1>6. PICK recording \in Recordings : received \subseteq recording
  BY DEF Plain
<1>7. /\ heap[o].pkts \in Seq(Captures) /\ heap[o].pkts # <<>> /\ Sorted(heap[o].pkts)
      /\ OneMessage(heap[o].pkts)
  <2>1. heap[o] \in Message /\ heap[o].pkts # <<>>
    BY <1>5, ElementOfSeq DEF TypeOK, Objects
  <2>2. heap[o].pkts \in Seq(Captures)
    BY <2>1 DEF Message
  <2>3. Sorted(heap[o].pkts)
    BY <1>5 DEF AllSorted
  <2>4. Range(heap[o].pkts) \subseteq recording
        /\ \A d, e \in Range(heap[o].pkts) : Id(d) = Id(e)
    BY <1>5, <1>6 DEF ObjectOK
  <2>5. OneMessage(heap[o].pkts)
    BY <2>2, <2>4, OneIdOneMessage
  <2>6. QED
    BY <2>1, <2>2, <2>3, <2>5
<1>8. ~ Reassembled!Whole(S)
  BY <1>5, <1>7, WholeIsCovered DEF PacketSet
<1>9. S \in SUBSET Pool /\ S # {} /\ Pool \ S = rest
  <2>1. S # {}
    BY <1>7, RangeOfPackets DEF PacketSet
  <2>2. QED
    BY <1>3, <1>5, <2>1
<1>10. HandedOver' = IF allowIncompete \/ ~ HttpHints THEN Append(HandedOver, S) ELSE HandedOver
  BY <1>1, <1>4 DEF Drops
<1> HIDE DEF S
<1>11. Reassembled!Lapse
  BY <1>1, <1>3, <1>8, <1>9, <1>10 DEF Reassembled!Lapse, Pool, HandedOver
<1>12. QED
  BY <1>11 DEF Reassembled!Next

\* Before the first packet the parser holds nothing and has handed over nothing.
LEMMA NothingBefore ==
    ASSUME TypeOK, PlainInv, received = {}
    PROVE  Pool = {} /\ HandedOver = <<>>
<1>1. \A q \in Objects : FALSE
  <2> SUFFICES ASSUME NEW q \in Objects PROVE FALSE
    OBVIOUS
  <2>1. heap[q] \in Message /\ heap[q].pkts # <<>> /\ Range(heap[q].pkts) \subseteq received
    BY ElementOfSeq DEF TypeOK, Objects, PlainInv, ObjectOK
  <2>2. QED
    BY <2>1, RangeOfPackets DEF Message
<1>2. DOMAIN m = {}
  BY <1>1 DEF TypeOK
<1>3. Pool = {}
  BY <1>2 DEF Pool
<1>4. Handed \in Seq(Objects) /\ Range(Handed) = {}
  BY <1>1, HandedType, RangeOfSeq
<1>5. Len(Handed) = 0
  <2>1. DOMAIN Handed = 1 .. Len(Handed) /\ Len(Handed) \in Nat /\ DOMAIN Handed = {}
    BY <1>4, LenProperties DEF Range
  <2>2. 1 .. Len(Handed) = {}
    BY <2>1
  <2>3. QED
    BY <2>1, <2>2
<1>6. HandedOver \in Seq(SUBSET Captures) /\ Len(HandedOver) = 0
  BY <1>5, HandedOverElements DEF HandedOverIsHanded
<1>7. QED
  BY <1>3, <1>6, EmptySeq

\* With HTTP hints, and as long as no Expect header comes in, the parser does what
\* Reassembly promises: every step is a step of it or changes nothing it sees.
THEOREM ParserReassembles == HttpHints => (Spec => ImplementsReassembly)
<1> SUFFICES ASSUME HttpHints PROVE Spec => ImplementsReassembly
  OBVIOUS
<1>1. Init => Reassembled!Init
  <2> SUFFICES ASSUME Init PROVE Reassembled!Init
    OBVIOUS
  <2>1. received = {} /\ Pool = {} /\ HandedOver = <<>>
    <3>1. received = {} /\ TypeOK /\ PlainInv
      BY InitTypeOK, InitPlain DEF Init
    <3>2. QED
      BY <3>1, NothingBefore
  <2>2. QED
    BY <2>1, ParserAssumption DEF Reassembled!Init, Pool, HandedOver, Init
<1>2. IInv /\ IInv' /\ [Next]_vars => [Reassembled!Next]_(Reassembled!vars)
  <2> SUFFICES ASSUME IInv, IInv', [Next]_vars
               PROVE  Reassembled!Next \/ UNCHANGED Reassembled!vars
    OBVIOUS
  <2>1. TypeOK /\ TypeOK' /\ AllSorted(heap) /\ AllSorted(heap)'
    BY DEF IInv
  <2>2. /\ Plain => NoExpect /\ PlainInv
        /\ Plain' => NoExpect' /\ PlainInv'
    <3>1. Plain => NoExpect
      BY DEF Plain, NoExpect, Simple
    <3>2. Plain' => NoExpect'
      BY DEF Plain, NoExpect, Simple
    <3>3. QED
      BY <3>1, <3>2 DEF IInv
  <2>3. /\ Plain' => Plain
        /\ allowIncompete' = allowIncompete
    BY OnlyMoreReceived, OptionFixed DEF Plain
  <2>4. CASE ~ Plain
    BY <2>3, <2>4 DEF Reassembled!vars
  <2>5. CASE Plain /\ ~ Plain'
    <3>1. received' # received
      BY <2>5 DEF Plain
    <3>2. PICK c \in Captures : Arrives(c)
      BY <3>1 DEF Next, vars, ProcessKnown, ProcessNew, MergeNext, MergeDone,
                  Timer, SweepKeep, SweepExpired, Read, Clock
    <3>3. PICK s \in Recordings : received' \subseteq s
      BY <2>1, <3>2, ArrivesRecorded
    <3>4. PICK r \in Recordings : received \subseteq r /\ Simple(r)
      BY <2>5 DEF Plain
    <3>5. received \subseteq r \cap s
      BY <3>3, <3>4, OnlyMoreReceived
    <3>6. ~ Simple(s)
      BY <2>5, <3>3 DEF Plain
    <3>7. received = {}
      BY <3>4, <3>5, <3>6, WireAssumption
    <3>8. Pool = {} /\ HandedOver = <<>>
      BY <2>1, <2>2, <2>5, <3>7, NothingBefore
    <3>9. QED
      BY <2>3, <2>5, <3>7, <3>8 DEF Reassembled!vars, Pool, HandedOver
  <2>6. CASE Plain /\ Plain'
    <3>1. PlainInv /\ PlainInv' /\ \A d \in received' : ~ Pkt[d].expect
      BY <2>2, <2>6 DEF NoExpect
    <3>2. ASSUME received' = received, Pool' = Pool, HandedOver' = HandedOver
          PROVE  UNCHANGED Reassembled!vars
      BY <2>3, <2>6, <3>2 DEF Reassembled!vars, Pool, HandedOver
    <3>3. ASSUME NEW c \in Captures, KnownAdds(c) PROVE Reassembled!Next
      <4>1. c \notin received /\ received' = received \cup {c}
        BY <3>3 DEF KnownAdds, Arrives
      <4>2. Takes(m[Id(c)], c)
        BY <2>1, <3>1, <3>3, KnownAddsTakes
      <4>3. QED
        BY <2>1, <2>6, <3>1, <4>1, <4>2, <2>3, TakesIsArrival
    <3>4. ASSUME NEW c \in Captures, ProcessNew(c) PROVE Reassembled!Next
      <4>1. c \notin received /\ received' = received \cup {c}
        BY <3>4 DEF ProcessNew, Arrives
      <4>2. Takes(Len(heap) + 1, c)
        BY <2>1, <3>1, <3>4, ProcessNewTakes
      <4>3. QED
        BY <2>1, <2>6, <3>1, <2>3, <4>1, <4>2, TakesIsArrival
    <3>5. ASSUME NEW c \in Captures, KnownPanics(c) PROVE FALSE
      BY <3>5 DEF KnownPanics, CallOfNil
    <3>6. ~ MergeNext /\ ~ MergeDone
      BY <3>1 DEF MergeNext, MergeDone, PlainInv
    <3>7. ASSUME NEW k \in sweep, SweepExpired(k) PROVE Reassembled!Next
      BY <2>1, <2>3, <2>6, <3>1, <3>7, SweepIsLapse
    <3>8. CASE Read
      <4>1. UNCHANGED <<received, heap, m>>
        BY <3>8 DEF Read
      <4>2. Pool' = Pool
        BY <4>1 DEF Pool, PacketSet
      <4>3. HandedOver = PacketSets(Handed) /\ HandedOver' = PacketSets(Handed)'
        <5>1. HandedOverIsHanded
          BY <2>1, <3>1, HandedOverElements
        <5>2. HandedOverIsHanded'
          BY <2>1, <3>1, HandedOverElements, PTL
        <5>3. QED
          BY <5>1, <5>2 DEF HandedOverIsHanded
      <4>4. Handed' = Handed
        BY <2>1, <3>8, ReadMoves
      <4>5. HandedOver' = HandedOver
        BY <4>1, <4>3, <4>4 DEF PacketSets, PacketSet
      <4>6. QED
        BY <3>2, <4>1, <4>2, <4>5
    <3>9. CASE Timer \/ Clock \/ (\E k \in sweep : SweepKeep(k)) \/ UNCHANGED vars
      <4>1. UNCHANGED <<received, heap, m, messages, out>>
        BY <3>9 DEF Timer, Clock, SweepKeep, vars
      <4>2. Pool' = Pool /\ HandedOver' = HandedOver
        BY <4>1 DEF Pool, HandedOver, PacketSet
      <4>3. QED
        BY <3>2, <4>1, <4>2
    <3>10. QED
      BY <3>3, <3>4, <3>5, <3>6, <3>7, <3>8, <3>9, KnownCases DEF Next
  <2>7. QED
    BY <2>4, <2>5, <2>6
<1>3. QED
  BY <1>1, <1>2, Invariance, PTL DEF Spec, ImplementsReassembly, Reassembled!Spec
=============================================================================
