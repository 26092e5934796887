------------------------- MODULE HTTPModifierProofs -------------------------
(***************************************************************************)
(* Theorems about HTTPModifier: what is set is there when a request is     *)
(* written, and the body of a payload and what its headers say of it       *)
(* survive rewriting and prettifying.                                      *)
(***************************************************************************)
EXTENDS HTTPModifier, TLAPS, SequenceTheorems, WellFoundedInduction

-----------------------------------------------------------------------------
(* Sequences and least elements *)

LEMMA FirstIs ==
    ASSUME NEW T \in SUBSET Nat
    PROVE  /\ T = {} => First(T) = 0
           /\ T # {} => First(T) \in T /\ \A x \in T : First(T) <= x
<1>1. ASSUME T # {} PROVE Min(T) \in T /\ \A x \in T : Min(T) <= x
  <2> DEFINE R == OpToRel(<, Nat)
  <2>1. \A y, z \in Nat : y < z => <<y, z>> \in R
    BY SMT DEF OpToRel
  <2>2. IsWellFoundedOn(R, Nat)
    BY NatLessThanWellFounded
  <2> HIDE DEF R
  <2>3. PICK x \in T : \A y \in T : ~ (<<y, x>> \in R)
    BY <1>1, <2>2, WFMin
  <2>4. ASSUME NEW y \in T PROVE x <= y
    <3>1. x \in Nat /\ y \in Nat /\ ~ (y < x)
      BY <2>1, <2>3, Zenon
    <3>2. QED
      BY <3>1
  <2>5. QED
    BY <2>4 DEF Min
<1>2. QED
  BY <1>1 DEF First

LEMMA FirstAt ==
    ASSUME NEW T \in SUBSET Nat, NEW i \in T, \A x \in T : i <= x
    PROVE  First(T) = i
<1>1. First(T) \in T /\ First(T) <= i
  BY FirstIs
<1>2. i <= First(T) /\ i \in Nat /\ First(T) \in Nat
  BY <1>1
<1>3. QED
  BY <1>1, <1>2

\* A property of numbers that 0 has, and n whenever n - 1 has it.
LEMMA UpTo ==
    ASSUME NEW n \in Nat, NEW S, 0 \in S, \A k \in 1 .. n : k - 1 \in S => k \in S
    PROVE  \A k \in 0 .. n : k \in S
<1> DEFINE T == {k \in 0 .. n : k \notin S}
<1> SUFFICES ASSUME T # {} PROVE FALSE
  OBVIOUS
<1>1. T \in SUBSET Nat
  OBVIOUS
<1>2. First(T) \in T /\ \A x \in T : First(T) <= x
  BY <1>1, FirstIs
<1> DEFINE k == First(T)
<1>3. k \in 1 .. n /\ k - 1 \in 0 .. n /\ k - 1 \notin T
  BY <1>2
<1>4. QED
  BY <1>2, <1>3

LEMMA SequenceIs ==
    ASSUME NEW s
    PROVE  /\ IsSequence(s) => /\ s \in Seq(ToSet(s)) /\ Len(s) \in Nat
                               /\ DOMAIN s = 1 .. Len(s)
           /\ \A S : s \in Seq(S) => IsSequence(s)
<1>1. ASSUME NEW S, s \in Seq(S) PROVE s \in Seq(ToSet(s))
  <2>1. Len(s) \in Nat /\ s \in [1 .. Len(s) -> S]
    BY <1>1, LenProperties
  <2>2. s \in [1 .. Len(s) -> ToSet(s)]
    BY <2>1 DEF ToSet
  <2>3. QED
    BY <2>1, <2>2, SeqDef
<1>2. QED
  BY <1>1, LenProperties DEF IsSequence
-----------------------------------------------------------------------------
(* Where a header and the end of the headers are *)

IsField(p, i, name) == p[i].kind = "field" /\ p[i].name = name

\* A payload, or the headers of one, that starts with a title.
Titled(p) == IsSequence(p) /\ HasTitle(p)

LEMMA TitledIs ==
    ASSUME NEW p, Titled(p)
    PROVE  /\ p \in Seq(ToSet(p)) /\ Len(p) \in Nat \ {0} /\ DOMAIN p = 1 .. Len(p)
           /\ \A name : ~IsField(p, 1, name)
<1>1. p # <<>> /\ p[1].kind \in {"request", "response"} /\ IsSequence(p)
  BY DEF Titled, HasTitle
<1>2. p \in Seq(ToSet(p)) /\ Len(p) \in Nat /\ DOMAIN p = 1 .. Len(p)
  BY <1>1, SequenceIs
<1>3. Len(p) # 0
  BY <1>1, <1>2, EmptySeq
<1>4. QED
  BY <1>1, <1>2, <1>3 DEF IsField

LEMMA BlankIsNoField == \A p, i, name : IsField(p, i, name) => p[i] # Blank
<1>1. Blank.kind = "blank"
  BY DEF Blank
<1>2. QED
  BY <1>1 DEF IsField

\* The search for a header finds the first field of its name.
LEMMA HeaderIs ==
    ASSUME NEW p, Titled(p), NEW name
    PROVE  LET i == header(p, name)
           IN /\ i \in {0} \cup 2 .. Len(p)
              /\ i # 0 => IsField(p, i, name) /\ Header(p, name) = p[i].value
              /\ i = 0 => Header(p, name) = NoValue
              /\ \A j \in 1 .. Len(p) : IsField(p, j, name) => i # 0 /\ i <= j
<1> DEFINE T == {j \in 2 .. Len(p) : IsField(p, j, name)}
<1>1. header(p, name) = First(T)
  BY DEF header, IsField, Titled
<1>2. T \in SUBSET Nat /\ Len(p) \in Nat
  BY TitledIs
<1>3. \A j \in 1 .. Len(p) : IsField(p, j, name) => j \in T
  BY TitledIs
<1>4. /\ T = {} => First(T) = 0
      /\ T # {} => First(T) \in T /\ \A x \in T : First(T) <= x
  BY <1>2, FirstIs
<1>5. QED
  BY <1>1, <1>2, <1>3, <1>4 DEF Header

LEMMA HeaderAt ==
    ASSUME NEW p, Titled(p), NEW name, NEW i \in 1 .. Len(p), IsField(p, i, name),
           \A j \in 1 .. Len(p) : IsField(p, j, name) => i <= j
    PROVE  header(p, name) = i
<1>1. /\ header(p, name) \in {0} \cup 2 .. Len(p)
      /\ header(p, name) # 0 => IsField(p, header(p, name), name)
      /\ header(p, name) # 0 /\ header(p, name) <= i
  BY HeaderIs
<1>2. Len(p) \in Nat
  BY TitledIs
<1>3. header(p, name) \in 1 .. Len(p) /\ i <= header(p, name)
  BY <1>1, <1>2
<1>4. QED
  BY <1>1, <1>2, <1>3

\* The headers end with the first blank line.
LEMMA EndIs ==
    ASSUME NEW p, Titled(p)
    PROVE  LET i == MIMEHeadersEndPos(p)
           IN /\ i \in {0} \cup 2 .. Len(p)
              /\ i # 0 => p[i] = Blank
              /\ \A j \in 2 .. Len(p) : p[j] = Blank => i # 0 /\ i <= j
<1> DEFINE T == {j \in 2 .. Len(p) : p[j] = Blank}
<1>1. MIMEHeadersEndPos(p) = First(T)
  BY DEF MIMEHeadersEndPos
<1>2. T \in SUBSET Nat /\ Len(p) \in Nat
  BY TitledIs
<1>4. /\ T = {} => First(T) = 0
      /\ T # {} => First(T) \in T /\ \A x \in T : First(T) <= x
  BY <1>2, FirstIs
<1>5. QED
  BY <1>1, <1>2, <1>4

LEMMA EndAt ==
    ASSUME NEW p, Titled(p), NEW i \in 2 .. Len(p), p[i] = Blank,
           \A j \in 2 .. Len(p) : p[j] = Blank => i <= j
    PROVE  MIMEHeadersEndPos(p) = i
<1>1. /\ MIMEHeadersEndPos(p) \in {0} \cup 2 .. Len(p)
      /\ MIMEHeadersEndPos(p) # 0 => p[MIMEHeadersEndPos(p)] = Blank
      /\ MIMEHeadersEndPos(p) # 0 /\ MIMEHeadersEndPos(p) <= i
  BY EndIs
<1>2. Len(p) \in Nat
  BY TitledIs
<1>3. MIMEHeadersEndPos(p) \in 2 .. Len(p) /\ i <= MIMEHeadersEndPos(p)
  BY <1>1, <1>2
<1>4. QED
  BY <1>1, <1>2, <1>3

-----------------------------------------------------------------------------
(* Setting and deleting a header *)

LEMMA InsertAtProperties ==
    ASSUME NEW S, NEW s \in Seq(S), NEW i \in 1 .. Len(s) + 1, NEW e \in S
    PROVE  /\ InsertAt(s, i, e) \in Seq(S)
           /\ Len(InsertAt(s, i, e)) = Len(s) + 1
           /\ \A j \in 1 .. Len(s) + 1 :
                InsertAt(s, i, e)[j] = IF j < i THEN s[j]
                                       ELSE IF j = i THEN e ELSE s[j - 1]
<1> DEFINE a == SubSeq(s, 1, i - 1)
           b == SubSeq(s, i, Len(s))
<1>1. /\ a \in Seq(S) /\ Len(a) = i - 1
      /\ \A j \in 1 .. i - 1 : a[j] = s[j]
  BY SubSeqProperties, LenProperties, ElementOfSeq
<1>2. /\ b \in Seq(S) /\ Len(b) = Len(s) - i + 1
      /\ \A j \in 1 .. Len(s) - i + 1 : b[j] = s[i + j - 1]
  BY SubSeqProperties, LenProperties, ElementOfSeq
<1>3. <<e>> \in Seq(S) /\ Len(<<e>>) = 1 /\ <<e>>[1] = e
  OBVIOUS
<1>4. InsertAt(s, i, e) = (a \o <<e>>) \o b
  BY DEF InsertAt
<1> HIDE DEF a, b
<1> DEFINE c == a \o <<e>>
<1>5. /\ c \in Seq(S) /\ Len(c) = i
      /\ \A j \in 1 .. i : c[j] = IF j < i THEN s[j] ELSE e
  <2>1. /\ c \in Seq(S) /\ Len(c) = (i - 1) + 1
        /\ \A j \in 1 .. (i - 1) + 1 : c[j] = IF j <= i - 1 THEN a[j] ELSE <<e>>[j - (i - 1)]
    BY <1>1, <1>3, ConcatProperties
  <2> HIDE DEF c
  <2>2. ASSUME NEW j \in 1 .. i
        PROVE  c[j] = IF j < i THEN s[j] ELSE e
    <3>1. CASE j < i
      BY <1>1, <2>1, <3>1
    <3>2. CASE j = i
      <4>1. c[i] = <<e>>[i - (i - 1)]
        BY <2>1
      <4>2. i - (i - 1) = 1
        OBVIOUS
      <4>3. QED
        BY <1>3, <3>2, <4>1, <4>2
    <3>3. QED
      BY <3>1, <3>2
  <2>3. QED
    BY <2>1, <2>2
<1> HIDE DEF c
<1>6. /\ c \o b \in Seq(S)
      /\ Len(c \o b) = i + (Len(s) - i + 1)
      /\ \A j \in 1 .. i + (Len(s) - i + 1) :
           (c \o b)[j] = IF j <= i THEN c[j] ELSE b[j - i]
  BY <1>2, <1>5, ConcatProperties
<1>7. Len(s) \in Nat /\ i + (Len(s) - i + 1) = Len(s) + 1
  BY LenProperties
<1>8. ASSUME NEW j \in 1 .. Len(s) + 1
      PROVE  (c \o b)[j] = IF j < i THEN s[j] ELSE IF j = i THEN e ELSE s[j - 1]
  <2>1. CASE j <= i
    BY <1>5, <1>6, <1>7, <2>1
  <2>2. CASE j > i
    <3>1. j - i \in 1 .. Len(s) - i + 1 /\ i + (j - i) - 1 = j - 1
      BY <1>7, <2>2
    <3>2. (c \o b)[j] = b[j - i]
      BY <1>6, <1>7, <2>2
    <3>3. b[j - i] = s[j - 1]
      BY <1>2, <3>1
    <3>4. QED
      BY <2>2, <3>2, <3>3
  <2>3. j <= i \/ j > i
    BY <1>7
  <2>4. QED
    BY <2>1, <2>2, <2>3, Zenon
<1>9. InsertAt(s, i, e) = c \o b
  BY <1>4 DEF c
<1>10. QED
  BY <1>6, <1>7, <1>8, <1>9

LEMMA InsertIs ==
    ASSUME NEW S, NEW p \in Seq(S), Len(p) # 0, NEW e \in S
    PROVE  LET q == InsertAt(p, 2, e)
           IN /\ q \in Seq(S) /\ Len(q) = Len(p) + 1
              /\ q[1] = p[1] /\ q[2] = e
              /\ \A j \in 2 .. Len(p) : q[j + 1] = p[j]
<1> DEFINE q == InsertAt(p, 2, e)
<1>1. Len(p) \in Nat
  BY LenProperties
<1>2. /\ q \in Seq(S) /\ Len(q) = Len(p) + 1
      /\ \A j \in 1 .. Len(p) + 1 :
            q[j] = IF j < 2 THEN p[j] ELSE IF j = 2 THEN e ELSE p[j - 1]
  <2>1. PICK i \in 1 .. Len(p) + 1 : i = 2
    BY <1>1
  <2>2. /\ InsertAt(p, i, e) \in Seq(S) /\ Len(InsertAt(p, i, e)) = Len(p) + 1
        /\ \A j \in 1 .. Len(p) + 1 :
              InsertAt(p, i, e)[j] = IF j < i THEN p[j] ELSE IF j = i THEN e ELSE p[j - 1]
    BY InsertAtProperties
  <2>3. QED
    BY <2>1, <2>2
<1> HIDE DEF q
<1>3. q[1] = p[1] /\ q[2] = e
  BY <1>1, <1>2
<1>4. ASSUME NEW j \in 2 .. Len(p) PROVE q[j + 1] = p[j]
  BY <1>1, <1>2
<1>5. QED
  BY <1>2, <1>3, <1>4 DEF q

LEMMA RemoveIs ==
    ASSUME NEW S, NEW p \in Seq(S), NEW i \in 2 .. Len(p)
    PROVE  LET q == RemoveAt(p, i)
           IN /\ q \in Seq(S) /\ Len(q) = Len(p) - 1
              /\ \A j \in 1 .. i - 1 : q[j] = p[j]
              /\ \A j \in i .. Len(p) - 1 : q[j] = p[j + 1]
<1> DEFINE a == SubSeq(p, 1, i - 1)
           b == SubSeq(p, i + 1, Len(p))
<1>1. Len(p) \in Nat /\ i \in Nat /\ i >= 2 /\ i <= Len(p)
  BY LenProperties
<1>2. a \in Seq(S) /\ Len(a) = i - 1 /\ \A j \in 1 .. i - 1 : a[j] = p[j]
  BY SubSeqProperties, LenProperties, ElementOfSeq
<1>3. b \in Seq(S) /\ Len(b) = Len(p) - i /\ \A j \in 1 .. Len(p) - i : b[j] = p[i + j]
  BY SubSeqProperties, LenProperties, ElementOfSeq
<1>4. RemoveAt(p, i) = a \o b
  BY DEF RemoveAt
<1> HIDE DEF a, b
<1> DEFINE q == a \o b
<1>5. /\ q \in Seq(S) /\ Len(q) = Len(a) + Len(b)
      /\ \A j \in 1 .. Len(a) + Len(b) : q[j] = IF j <= Len(a) THEN a[j] ELSE b[j - Len(a)]
  BY <1>2, <1>3, ConcatProperties
<1> HIDE DEF q
<1>6. ASSUME NEW j \in i .. Len(p) - 1 PROVE q[j] = p[j + 1]
  <2>1. j - (i - 1) \in 1 .. Len(p) - i /\ i + (j - (i - 1)) = j + 1
    BY <1>1
  <2>2. j \in 1 .. Len(a) + Len(b) /\ ~(j <= Len(a)) /\ Len(a) = i - 1
    BY <1>1, <1>2, <1>3
  <2>3. q[j] = b[j - (i - 1)]
    BY <1>5, <2>2
  <2>4. QED
    BY <1>3, <2>1, <2>3
<1>7. ASSUME NEW j \in 1 .. i - 1 PROVE q[j] = p[j]
  <2>1. j \in 1 .. Len(a) + Len(b) /\ j <= Len(a)
    BY <1>1, <1>2, <1>3
  <2>2. QED
    BY <1>2, <1>5, <2>1
<1>8. Len(q) = Len(p) - 1
  BY <1>1, <1>2, <1>3, <1>5
<1>9. QED
  BY <1>4, <1>5, <1>6, <1>7, <1>8 DEF q

\* A payload with a title keeps it, and gets the field where one of its name is, or
\* as its second line.
LEMMA SetHeaderIs ==
    ASSUME NEW p, Titled(p), NEW name, NEW value
    PROVE  LET q == SetHeader(p, name, value)
               i == header(p, name)
           IN /\ Titled(q) /\ q[1] = p[1]
              /\ i = 0 => /\ Len(q) = Len(p) + 1 /\ q[2] = Field(name, value)
                          /\ \A j \in 2 .. Len(p) : q[j + 1] = p[j]
              /\ i # 0 => /\ Len(q) = Len(p) /\ q[i] = Field(name, value)
                          /\ \A j \in 1 .. Len(p) : j # i => q[j] = p[j]
<1> DEFINE f == Field(name, value)
           i == header(p, name)
           q == SetHeader(p, name, value)
           S == ToSet(p) \cup {f}
<1>1. /\ p \in Seq(ToSet(p)) /\ Len(p) \in Nat \ {0} /\ DOMAIN p = 1 .. Len(p)
      /\ HasTitle(p) /\ i \in {0} \cup 2 .. Len(p)
  BY TitledIs, HeaderIs DEF Titled
<1>2. p \in Seq(S)
  <2>1. p \in [1 .. Len(p) -> S]
    BY <1>1, ElementOfSeq
  <2>2. QED
    BY <1>1, <2>1, SeqDef
<1>3. CASE i = 0
  <2>1. q = InsertAt(p, 2, f)
    BY <1>1, <1>3 DEF SetHeader, AddHeader
  <2> HIDE DEF q, f
  <2>2. /\ q \in Seq(S) /\ Len(q) = Len(p) + 1 /\ q[1] = p[1] /\ q[2] = f
        /\ \A j \in 2 .. Len(p) : q[j + 1] = p[j]
    <3>1. f \in S
      OBVIOUS
    <3>2. Len(p) # 0
      BY <1>1
    <3> HIDE DEF S
    <3>3. /\ InsertAt(p, 2, f) \in Seq(S) /\ Len(InsertAt(p, 2, f)) = Len(p) + 1
          /\ InsertAt(p, 2, f)[1] = p[1] /\ InsertAt(p, 2, f)[2] = f
          /\ \A j \in 2 .. Len(p) : InsertAt(p, 2, f)[j + 1] = p[j]
      BY <1>2, <3>1, <3>2, InsertIs
    <3>4. QED
      BY <2>1, <3>3
  <2>3. Titled(q)
    BY <1>1, <2>2, SequenceIs, EmptySeq DEF Titled, HasTitle
  <2>4. QED
    BY <1>3, <2>2, <2>3 DEF q, f
<1>4. CASE i # 0
  <2>1. q = [p EXCEPT ![i] = f]
    BY <1>4 DEF SetHeader
  <2> HIDE DEF q, f
  <2>2. /\ q \in Seq(S) /\ Len(q) = Len(p) /\ q[i] = f
        /\ \A j \in 1 .. Len(p) : j # i => q[j] = p[j]
    BY <1>1, <1>2, <1>4, <2>1, ExceptSeq
  <2>3. Titled(q) /\ q[1] = p[1]
    BY <1>1, <1>4, <2>2, SequenceIs, EmptySeq DEF Titled, HasTitle
  <2>4. QED
    BY <1>4, <2>2, <2>3 DEF q, f
<1>5. QED
  BY <1>3, <1>4

\* The other lines are where they were, or one further, all of them.
Place(p, name) == IF header(p, name) = 0 THEN 2 ELSE header(p, name)
Shift(p, name) == IF header(p, name) = 0 THEN 1 ELSE 0

LEMMA SetHeaderMoves ==
    ASSUME NEW p, Titled(p), NEW name, NEW value
    PROVE  LET q == SetHeader(p, name, value)
               k == Place(p, name)
               d == Shift(p, name)
           IN /\ Titled(q) /\ q[1] = p[1] /\ Len(q) = Len(p) + d
              /\ d \in {0, 1} /\ k \in 2 .. Len(q) /\ q[k] = Field(name, value)
              /\ d = 1 => k = 2 /\ \A j \in 1 .. Len(p) : ~IsField(p, j, name)
              /\ d = 0 => header(p, name) = k /\ IsField(p, k, name)
              /\ \A j \in 2 .. Len(p) : j + d # k => q[j + d] = p[j]
              /\ \A j \in 2 .. Len(q) : j # k => j - d \in 2 .. Len(p) /\ q[j] = p[j - d]
<1> DEFINE q == SetHeader(p, name, value)
           i == header(p, name)
           k == Place(p, name)
           d == Shift(p, name)
<1>1. /\ Len(p) \in Nat \ {0} /\ i \in {0} \cup 2 .. Len(p)
      /\ i # 0 => IsField(p, i, name)
      /\ i = 0 => \A j \in 1 .. Len(p) : ~IsField(p, j, name)
  BY TitledIs, HeaderIs
<1>2. /\ Titled(q) /\ q[1] = p[1]
      /\ i = 0 => /\ Len(q) = Len(p) + 1 /\ q[2] = Field(name, value)
                  /\ \A j \in 2 .. Len(p) : q[j + 1] = p[j]
      /\ i # 0 => /\ Len(q) = Len(p) /\ q[i] = Field(name, value)
                  /\ \A j \in 1 .. Len(p) : j # i => q[j] = p[j]
  BY SetHeaderIs
<1> HIDE DEF q
<1>3. CASE i = 0
  <2>1. k = 2 /\ d = 1
    BY <1>3 DEF Place, Shift
  <2> HIDE DEF i, k, d
  <2>2. ASSUME NEW j \in 2 .. Len(q), j # k PROVE j - d \in 2 .. Len(p) /\ q[j] = p[j - d]
    <3>1. j - 1 \in 2 .. Len(p) /\ (j - 1) + 1 = j
      BY <1>1, <1>2, <1>3, <2>1, <2>2
    <3>2. QED
      BY <1>2, <1>3, <2>1, <3>1
  <2>3. ASSUME NEW j \in 2 .. Len(p) PROVE q[j + d] = p[j]
    BY <1>2, <1>3, <2>1
  <2>4. k \in 2 .. Len(q) /\ Len(q) = Len(p) + d /\ q[k] = Field(name, value)
    BY <1>1, <1>2, <1>3, <2>1
  <2>5. QED
    BY <1>1, <1>2, <1>3, <2>1, <2>2, <2>3, <2>4 DEF q, i, k, d
<1>4. CASE i # 0
  <2>1. k = i /\ d = 0
    BY <1>4 DEF Place, Shift
  <2> HIDE DEF i, k, d
  <2>2. ASSUME NEW j \in 2 .. Len(p) PROVE j + d = j /\ j - d = j
    BY <2>1
  <2>3. k \in 2 .. Len(q) /\ Len(q) = Len(p) + d /\ q[k] = Field(name, value)
    BY <1>1, <1>2, <1>4, <2>1
  <2>4. \A j \in 2 .. Len(p) : j # k => q[j] = p[j]
    BY <1>2, <1>4, <2>1
  <2>5. Len(q) = Len(p) /\ header(p, name) = k /\ IsField(p, k, name)
    BY <1>1, <1>2, <1>4, <2>1 DEF i
  <2>6. QED
    BY <1>2, <2>1, <2>2, <2>3, <2>4, <2>5 DEF q, i, k, d
<1>5. QED
  BY <1>3, <1>4

\* A header that is set is found, and any other one is found as before.
LEMMA SetHeaderFinds ==
    ASSUME NEW p, Titled(p), NEW name, NEW value
    PROVE  LET q == SetHeader(p, name, value)
               d == Shift(p, name)
           IN /\ header(q, name) = Place(p, name) /\ Header(q, name) = value
              /\ \A m : m # name =>
                    /\ header(q, m) = IF header(p, m) = 0 THEN 0 ELSE header(p, m) + d
                    /\ Header(q, m) = Header(p, m)
              /\ MIMEHeadersEndPos(q) =
                    IF MIMEHeadersEndPos(p) = 0 THEN 0 ELSE MIMEHeadersEndPos(p) + d
<1> DEFINE q == SetHeader(p, name, value)
           k == Place(p, name)
           d == Shift(p, name)
<1>1. /\ Titled(q) /\ q[1] = p[1] /\ Len(q) = Len(p) + d
      /\ d \in {0, 1} /\ k \in 2 .. Len(q) /\ q[k] = Field(name, value)
      /\ d = 1 => k = 2 /\ \A j \in 1 .. Len(p) : ~IsField(p, j, name)
      /\ d = 0 => header(p, name) = k /\ IsField(p, k, name)
      /\ \A j \in 2 .. Len(p) : j + d # k => q[j + d] = p[j]
      /\ \A j \in 2 .. Len(q) : j # k => j - d \in 2 .. Len(p) /\ q[j] = p[j - d]
  BY SetHeaderMoves
<1> HIDE DEF q, k, d
<1>2. Len(p) \in Nat \ {0} /\ Len(q) \in Nat /\ \A m : ~IsField(q, 1, m) /\ ~IsField(p, 1, m)
  BY <1>1, TitledIs
<1>3. IsField(q, k, name) /\ q[k].value = value /\ \A m : IsField(q, k, m) => m = name
  BY <1>1 DEF IsField, Field
<1>4. header(q, name) = k
  <2>1. ASSUME NEW j \in 1 .. Len(q), IsField(q, j, name) PROVE k <= j
    <3>1. j \in 2 .. Len(q)
      BY <1>2, <2>1
    <3>2. CASE d = 1
      BY <1>1, <3>1, <3>2
    <3>3. CASE d = 0 /\ j # k
      <4>1. j \in 2 .. Len(p) /\ IsField(p, j, name)
        BY <1>1, <1>2, <2>1, <3>1, <3>3 DEF IsField
      <4>2. header(p, name) <= j
        BY <1>2, <4>1, HeaderIs
      <4>3. QED
        BY <1>1, <3>3, <4>2
    <3>4. QED
      BY <1>1, <3>1, <3>2, <3>3
  <2>2. k \in 1 .. Len(q)
    BY <1>1
  <2>3. QED
    BY <1>1, <1>3, <2>1, <2>2, HeaderAt
<1>5. Header(q, name) = value
  BY <1>1, <1>3, <1>4, HeaderIs
<1>6. ASSUME NEW m, m # name
      PROVE  /\ header(q, m) = IF header(p, m) = 0 THEN 0 ELSE header(p, m) + d
             /\ Header(q, m) = Header(p, m)
  <2> DEFINE i == header(p, m)
  <2>1. /\ i \in {0} \cup 2 .. Len(p)
        /\ i # 0 => IsField(p, i, m) /\ Header(p, m) = p[i].value
        /\ i = 0 => Header(p, m) = NoValue
        /\ \A j \in 1 .. Len(p) : IsField(p, j, m) => i # 0 /\ i <= j
    BY HeaderIs
  <2> HIDE DEF i
  <2>2. ASSUME NEW j \in 1 .. Len(q), IsField(q, j, m)
        PROVE  j - d \in 2 .. Len(p) /\ IsField(p, j - d, m) /\ q[j] = p[j - d]
    <3>1. j \in 2 .. Len(q) /\ j # k
      BY <1>2, <1>3, <1>6, <2>2
    <3>2. j - d \in 2 .. Len(p) /\ q[j] = p[j - d]
      BY <1>1, <3>1
    <3>3. QED
      BY <2>2, <3>2 DEF IsField
  <2>3. CASE i = 0
    <3>1. \A j \in 1 .. Len(q) : ~IsField(q, j, m)
      BY <1>2, <2>1, <2>2, <2>3
    <3>2. header(q, m) = 0
      BY <1>1, <1>2, <3>1, HeaderIs
    <3>3. Header(q, m) = NoValue
      BY <1>1, <3>2, HeaderIs
    <3>4. QED
      BY <2>1, <2>3, <3>2, <3>3 DEF i
  <2>4. CASE i # 0
    <3>1. i \in 2 .. Len(p) /\ i + d \in 1 .. Len(q) /\ IsField(p, i, m)
      BY <1>1, <1>2, <2>1, <2>4
    <3>2. i + d # k
      <4>1. CASE d = 1
        BY <1>1, <3>1, <4>1
      <4>2. CASE d = 0
        BY <1>1, <1>6, <3>1, <4>2 DEF IsField
      <4>3. QED
        BY <1>1, <4>1, <4>2
    <3>3. q[i + d] = p[i] /\ IsField(q, i + d, m)
      BY <1>1, <3>1, <3>2 DEF IsField
    <3>4. \A j \in 1 .. Len(q) : IsField(q, j, m) => i + d <= j
      <4>1. ASSUME NEW j \in 1 .. Len(q), IsField(q, j, m) PROVE i + d <= j
        <5>1. j - d \in 1 .. Len(p) /\ i <= j - d
          BY <1>2, <2>1, <2>2, <4>1
        <5>2. QED
          BY <1>1, <1>2, <3>1, <5>1
      <4>2. QED
        BY <4>1
    <3>5. header(q, m) = i + d
      BY <1>1, <3>1, <3>3, <3>4, HeaderAt
    <3>6. Header(q, m) = q[i + d].value
      BY <1>1, <1>2, <3>1, <3>5, HeaderIs
    <3>7. QED
      BY <2>1, <2>4, <3>3, <3>5, <3>6 DEF i
  <2>5. QED
    BY <2>3, <2>4
<1>7. MIMEHeadersEndPos(q) = IF MIMEHeadersEndPos(p) = 0 THEN 0 ELSE MIMEHeadersEndPos(p) + d
  <2> DEFINE i == MIMEHeadersEndPos(p)
  <2>1. /\ i \in {0} \cup 2 .. Len(p)
        /\ i # 0 => p[i] = Blank
        /\ \A j \in 2 .. Len(p) : p[j] = Blank => i # 0 /\ i <= j
    BY EndIs
  <2> HIDE DEF i
  <2>2. ASSUME NEW j \in 2 .. Len(q), q[j] = Blank
        PROVE  j - d \in 2 .. Len(p) /\ p[j - d] = Blank
    <3>1. j # k
      BY <1>3, <2>2, BlankIsNoField
    <3>2. QED
      BY <1>1, <2>2, <3>1
  <2>3. CASE i = 0
    <3>1. \A j \in 2 .. Len(q) : q[j] # Blank
      BY <2>1, <2>2, <2>3
    <3>2. MIMEHeadersEndPos(q) = 0
      BY <1>1, <1>2, <3>1, EndIs
    <3>3. QED
      BY <2>3, <3>2 DEF i
  <2>4. CASE i # 0
    <3>1. i \in 2 .. Len(p) /\ i + d \in 2 .. Len(q) /\ p[i] = Blank
      BY <1>1, <1>2, <2>1, <2>4
    <3>2. i + d # k
      <4>1. CASE d = 1
        BY <1>1, <3>1, <4>1
      <4>2. CASE d = 0
        BY <1>1, <3>1, <4>2, BlankIsNoField
      <4>3. QED
        BY <1>1, <4>1, <4>2
    <3>3. q[i + d] = Blank
      BY <1>1, <3>1, <3>2
    <3>4. ASSUME NEW j \in 2 .. Len(q), q[j] = Blank PROVE i + d <= j
      <4>1. i <= j - d /\ j - d \in Int
        BY <2>1, <2>2, <3>4
      <4>2. QED
        BY <1>1, <1>2, <3>1, <4>1
    <3>5. MIMEHeadersEndPos(q) = i + d
      BY <1>1, <3>1, <3>3, <3>4, EndAt
    <3>6. QED
      BY <2>4, <3>5 DEF i
  <2>5. QED
    BY <2>3, <2>4
<1>8. QED
  BY <1>4, <1>5, <1>6, <1>7 DEF q, k, d

-----------------------------------------------------------------------------
(* The headers and the body *)

LEMMA HeadersIs ==
    ASSUME NEW p, Titled(p)
    PROVE  LET e == MIMEHeadersEndPos(p)
               h == Headers(p)
           IN /\ e = 0 => h = <<>> /\ Body(p) = <<>>
              /\ e # 0 => /\ e \in 2 .. Len(p) /\ p[e] = Blank
                          /\ Titled(h) /\ Len(h) = e /\ MIMEHeadersEndPos(h) = e
                          /\ \A j \in 1 .. e : h[j] = p[j]
                          /\ \A name : header(h, name) = IF header(p, name) <= e
                                                         THEN header(p, name) ELSE 0
<1> DEFINE e == MIMEHeadersEndPos(p)
           h == Headers(p)
<1>1. /\ p \in Seq(ToSet(p)) /\ Len(p) \in Nat \ {0} /\ HasTitle(p)
      /\ \A j \in 1 .. Len(p) : p[j] \in ToSet(p)
  BY TitledIs, ElementOfSeq DEF Titled
<1>2. /\ e \in {0} \cup 2 .. Len(p)
      /\ e # 0 => p[e] = Blank
      /\ \A j \in 2 .. Len(p) : p[j] = Blank => e # 0 /\ e <= j
  BY EndIs
<1>3. h = SubSeq(p, 1, e)
  BY DEF Headers
<1>4. ASSUME e = 0 PROVE h = <<>> /\ Body(p) = <<>>
  BY <1>3, <1>4 DEF Body
<1> HIDE DEF e, h
<1>5. ASSUME e # 0
      PROVE  /\ e \in 2 .. Len(p) /\ p[e] = Blank
             /\ Titled(h) /\ Len(h) = e /\ MIMEHeadersEndPos(h) = e
             /\ \A j \in 1 .. e : h[j] = p[j]
             /\ \A name : header(h, name) = IF header(p, name) <= e THEN header(p, name) ELSE 0
  <2>1. e \in 2 .. Len(p) /\ p[e] = Blank
    BY <1>2, <1>5
  <2>2. /\ h \in Seq(ToSet(p)) /\ Len(h) = e /\ \A j \in 1 .. e : h[j] = p[j]
    <3>1. \A j \in 1 .. e : p[j] \in ToSet(p)
      BY <1>1, <2>1
    <3>2. /\ SubSeq(p, 1, e) \in Seq(ToSet(p))
          /\ Len(SubSeq(p, 1, e)) = IF 1 <= e THEN e - 1 + 1 ELSE 0
          /\ \A j \in 1 .. e - 1 + 1 : SubSeq(p, 1, e)[j] = p[1 + j - 1]
      BY <2>1, <3>1, SubSeqProperties
    <3>3. /\ Len(SubSeq(p, 1, e)) = e /\ \A j \in 1 .. e : SubSeq(p, 1, e)[j] = p[j]
      BY <1>1, <2>1, <3>2
    <3>4. QED
      BY <1>3, <3>2, <3>3
  <2>3. Titled(h)
    BY <1>1, <2>1, <2>2, SequenceIs, EmptySeq DEF Titled, HasTitle
  <2>4. MIMEHeadersEndPos(h) = e
    <3>1. \A j \in 2 .. Len(h) : h[j] = Blank => e <= j
      BY <1>1, <1>2, <2>1, <2>2
    <3>2. e \in 2 .. Len(h) /\ h[e] = Blank
      BY <2>1, <2>2
    <3>3. QED
      BY <2>3, <3>1, <3>2, EndAt
  <2>5. ASSUME NEW name
        PROVE  header(h, name) = IF header(p, name) <= e THEN header(p, name) ELSE 0
    <3> DEFINE i == header(p, name)
    <3>1. /\ i \in {0} \cup 2 .. Len(p)
          /\ i # 0 => IsField(p, i, name)
          /\ \A j \in 1 .. Len(p) : IsField(p, j, name) => i # 0 /\ i <= j
      BY HeaderIs
    <3> HIDE DEF i
    <3>2. \A j \in 1 .. Len(h) : j \in 1 .. Len(p) /\ (IsField(h, j, name) <=> IsField(p, j, name))
      BY <1>1, <2>1, <2>2 DEF IsField
    <3>3. CASE i # 0 /\ i <= e
      <4>1. i \in 1 .. Len(h) /\ IsField(h, i, name)
        BY <1>1, <2>1, <2>2, <3>1, <3>2, <3>3
      <4>2. \A j \in 1 .. Len(h) : IsField(h, j, name) => i <= j
        BY <3>1, <3>2
      <4>3. QED
        BY <2>3, <3>3, <4>1, <4>2, HeaderAt DEF i
    <3>4. CASE i = 0 \/ ~(i <= e)
      <4>1. \A j \in 1 .. Len(h) : ~IsField(h, j, name)
        BY <1>1, <2>1, <2>2, <3>1, <3>2, <3>4
      <4>2. header(h, name) \in {0} \cup 2 .. Len(h)
        /\ (header(h, name) # 0 => IsField(h, header(h, name), name))
        BY <2>3, HeaderIs
      <4>3. header(h, name) = 0
        BY <2>1, <2>2, <4>1, <4>2
      <4>4. QED
        BY <3>4, <4>3 DEF i
    <3>5. QED
      BY <3>3, <3>4
  <2>6. QED
    BY <2>1, <2>2, <2>3, <2>4, <2>5
<1>6. QED
  BY <1>4, <1>5 DEF e, h

LEMMA BodyIs ==
    ASSUME NEW p, Titled(p), MIMEHeadersEndPos(p) # 0
    PROVE  LET e == MIMEHeadersEndPos(p)
           IN /\ Body(p) \in Seq(ToSet(p)) /\ Len(Body(p)) = Len(p) - e
              /\ \A j \in 1 .. Len(p) - e : Body(p)[j] = p[e + j]
<1> DEFINE e == MIMEHeadersEndPos(p)
<1>1. /\ Len(p) \in Nat \ {0} /\ e \in 2 .. Len(p)
      /\ \A j \in 1 .. Len(p) : p[j] \in ToSet(p)
  BY TitledIs, ElementOfSeq, EndIs
<1>2. Body(p) = SubSeq(p, e + 1, Len(p))
  BY DEF Body
<1> HIDE DEF e
<1>3. \A j \in e + 1 .. Len(p) : p[j] \in ToSet(p)
  BY <1>1
<1>4. /\ SubSeq(p, e + 1, Len(p)) \in Seq(ToSet(p))
      /\ Len(SubSeq(p, e + 1, Len(p))) = IF e + 1 <= Len(p) THEN Len(p) - (e + 1) + 1 ELSE 0
      /\ \A j \in 1 .. Len(p) - (e + 1) + 1 : SubSeq(p, e + 1, Len(p))[j] = p[(e + 1) + j - 1]
  BY <1>1, <1>3, SubSeqProperties
<1>5. Len(SubSeq(p, e + 1, Len(p))) = Len(p) - e
  BY <1>1, <1>4
<1>6. ASSUME NEW j \in 1 .. Len(p) - e PROVE SubSeq(p, e + 1, Len(p))[j] = p[e + j]
  <2>1. j \in 1 .. Len(p) - (e + 1) + 1 /\ (e + 1) + j - 1 = e + j
    BY <1>1
  <2>2. QED
    BY <1>4, <2>1
<1>7. QED
  BY <1>2, <1>4, <1>5, <1>6 DEF e

\* The code finds a header where it should: the body is not reached.
InHead(p, name) == MIMEHeadersEndPos(p) # 0 => header(p, name) <= MIMEHeadersEndPos(p)

\* A header is not doubled.
Once(p, name) ==
    \A i, j \in 1 .. MIMEHeadersEndPos(p) : IsField(p, i, name) /\ IsField(p, j, name) => i = j

\* What the headers themselves say.
LEMMA HeadersSay ==
    ASSUME NEW p, Titled(p), MIMEHeadersEndPos(p) # 0, NEW name
    PROVE  /\ Header(Headers(p), name) = IF header(p, name) <= MIMEHeadersEndPos(p)
                                         THEN Header(p, name) ELSE NoValue
           /\ InHead(p, name) => Header(Headers(p), name) = Header(p, name)
<1> DEFINE e == MIMEHeadersEndPos(p)
           h == Headers(p)
           i == header(p, name)
<1>1. /\ Titled(h) /\ \A j \in 1 .. e : h[j] = p[j]
      /\ header(h, name) = IF i <= e THEN i ELSE 0
      /\ i \in {0} \cup 2 .. Len(p) /\ e \in 2 .. Len(p)
      /\ i # 0 => Header(p, name) = p[i].value
      /\ i = 0 => Header(p, name) = NoValue
  BY HeadersIs, HeaderIs
<1>2. /\ header(h, name) # 0 => Header(h, name) = h[header(h, name)].value
      /\ header(h, name) = 0 => Header(h, name) = NoValue
  BY <1>1, HeaderIs
<1>3. Len(p) \in Nat
  BY TitledIs
<1> HIDE DEF e, h, i
<1>4. CASE i # 0 /\ i <= e
  <2>1. i \in 1 .. e /\ header(h, name) = i
    BY <1>1, <1>3, <1>4
  <2>2. Header(h, name) = p[i].value /\ Header(p, name) = p[i].value
    BY <1>1, <1>2, <1>4, <2>1
  <2>3. QED
    BY <1>4, <2>2 DEF e, h, i
<1>5. CASE i = 0 \/ ~(i <= e)
  <2>1. header(h, name) = 0 /\ Header(h, name) = NoValue
    BY <1>1, <1>2, <1>5
  <2>2. i = 0 => Header(p, name) = NoValue
    BY <1>1
  <2>3. QED
    BY <1>1, <1>3, <1>5, <2>1, <2>2 DEF e, h, i, InHead
<1>6. QED
  BY <1>4, <1>5

\* Setting a header that is not found in the body leaves the body alone, and what
\* the headers say but for it.
LEMMA SetHeaderKeeps ==
    ASSUME NEW p, Titled(p), NEW name, NEW value, InHead(p, name)
    PROVE  LET q == SetHeader(p, name, value)
           IN /\ Titled(q) /\ q[1] = p[1]
              /\ MIMEHeadersEndPos(q) = 0 <=> MIMEHeadersEndPos(p) = 0
              /\ Body(q) = Body(p)
              /\ InHead(q, name) /\ Header(q, name) = value
              /\ \A m : m # name => /\ InHead(p, m) => InHead(q, m)
                                    /\ Once(p, m) => Once(q, m)
                                    /\ Header(q, m) = Header(p, m)
                                    /\ Header(Headers(q), m) = Header(Headers(p), m)
<1> DEFINE q == SetHeader(p, name, value)
           k == Place(p, name)
           d == Shift(p, name)
           e == MIMEHeadersEndPos(p)
           f == MIMEHeadersEndPos(q)
<1>1. /\ Titled(q) /\ q[1] = p[1] /\ Len(q) = Len(p) + d
      /\ d \in {0, 1} /\ k \in 2 .. Len(q) /\ q[k] = Field(name, value)
      /\ d = 1 => k = 2 /\ \A j \in 1 .. Len(p) : ~IsField(p, j, name)
      /\ d = 0 => header(p, name) = k /\ IsField(p, k, name)
      /\ \A j \in 2 .. Len(p) : j + d # k => q[j + d] = p[j]
      /\ \A j \in 2 .. Len(q) : j # k => j - d \in 2 .. Len(p) /\ q[j] = p[j - d]
  BY SetHeaderMoves
<1>2. /\ header(q, name) = k /\ Header(q, name) = value
      /\ \A m : m # name =>
            /\ header(q, m) = IF header(p, m) = 0 THEN 0 ELSE header(p, m) + d
            /\ Header(q, m) = Header(p, m)
      /\ f = IF e = 0 THEN 0 ELSE e + d
  BY SetHeaderFinds
<1>3. Len(p) \in Nat \ {0} /\ e \in {0} \cup 2 .. Len(p) /\ (e # 0 => p[e] = Blank)
  BY TitledIs, EndIs
<1>4. e # 0 /\ d = 0 => k < e
  <2> SUFFICES ASSUME e # 0, d = 0 PROVE k < e
    OBVIOUS
  <2>1. k <= e /\ k # e
    BY <1>1, <1>3, BlankIsNoField DEF InHead
  <2>2. QED
    BY <1>1, <1>3, <2>1
<1>5. \A m : header(p, m) \in {0} \cup 2 .. Len(p)
  BY HeaderIs
<1>6. ASSUME e = 0
      PROVE  /\ Body(q) = Body(p) /\ Headers(q) = Headers(p)
             /\ \A m : InHead(q, m) /\ Once(q, m)
  <2>1. f = 0
    BY <1>2, <1>6
  <2>2. /\ Headers(q) = <<>> /\ Body(q) = <<>>
        /\ Headers(p) = <<>> /\ Body(p) = <<>>
    BY <1>1, <1>6, <2>1, HeadersIs
  <2>3. QED
    BY <2>1, <2>2 DEF InHead, Once
<1> HIDE DEF q, k, d, e, f
<1>7. ASSUME e # 0
      PROVE  /\ Body(q) = Body(p) /\ InHead(q, name)
             /\ \A m : m # name => /\ InHead(p, m) => InHead(q, m)
                                   /\ Once(p, m) => Once(q, m)
                                   /\ Header(Headers(q), m) = Header(Headers(p), m)
  <2>1. f = e + d /\ f \in 2 .. Len(q) /\ e \in 2 .. Len(p) /\ k < f /\ f # 0
    BY <1>1, <1>2, <1>3, <1>4, <1>7
  <2>2. Body(q) = Body(p)
    <3> DEFINE S == ToSet(p) \cup ToSet(q)
               n == Len(p) - e
    <3>1. /\ Body(p) \in Seq(ToSet(p)) /\ Len(Body(p)) = n
          /\ \A j \in 1 .. n : Body(p)[j] = p[e + j]
      BY <1>7, BodyIs DEF e
    <3>2. /\ Body(q) \in Seq(ToSet(q)) /\ Len(Body(q)) = Len(q) - f
          /\ \A j \in 1 .. Len(q) - f : Body(q)[j] = q[f + j]
      BY <1>1, <2>1, BodyIs DEF f
    <3>3. Len(q) - f = n /\ n \in Nat
      BY <1>1, <1>3, <2>1
    <3>4. ASSUME NEW j \in 1 .. n PROVE Body(q)[j] = Body(p)[j]
      <4>1. f + j \in 2 .. Len(q) /\ f + j # k /\ (f + j) - d = e + j
        BY <1>1, <1>3, <2>1, <3>3
      <4>2. q[f + j] = p[e + j]
        BY <1>1, <4>1
      <4>3. QED
        BY <3>1, <3>2, <3>3, <4>2
    <3>5. Body(p) \in Seq(S) /\ Body(q) \in Seq(S)
      <4>1. Body(p) \in [1 .. Len(Body(p)) -> S]
        BY <3>1, ElementOfSeq, LenProperties
      <4>2. Body(q) \in [1 .. Len(Body(q)) -> S]
        BY <3>2, ElementOfSeq, LenProperties
      <4>3. Len(Body(p)) \in Nat /\ Len(Body(q)) \in Nat
        BY <3>1, <3>2, <3>3
      <4> HIDE DEF S
      <4>4. QED
        BY <4>1, <4>2, <4>3, SeqDef
    <3> HIDE DEF S
    <3>6. QED
      BY <3>1, <3>2, <3>3, <3>4, <3>5, SeqEqual
  <2>3. InHead(q, name)
    BY <1>1, <1>2, <2>1 DEF InHead, f
  <2>4. ASSUME NEW m, m # name
        PROVE  header(p, m) <= e <=> header(q, m) <= f
    BY <1>1, <1>2, <1>3, <1>5, <2>1, <2>4
  <2>5. ASSUME NEW m, m # name PROVE InHead(p, m) => InHead(q, m)
    BY <1>7, <2>4, <2>5 DEF InHead, e, f
  <2>6. ASSUME NEW m, m # name PROVE Header(Headers(q), m) = Header(Headers(p), m)
    <3>1. Header(Headers(p), m) = IF header(p, m) <= e THEN Header(p, m) ELSE NoValue
      BY <1>7, HeadersSay DEF e
    <3>2. Header(Headers(q), m) = IF header(q, m) <= f THEN Header(q, m) ELSE NoValue
      BY <1>1, <2>1, HeadersSay DEF f
    <3>3. QED
      BY <1>2, <2>4, <2>6, <3>1, <3>2
  <2>7. ASSUME NEW m, m # name, Once(p, m) PROVE Once(q, m)
    <3>1. ASSUME NEW i \in 1 .. f, IsField(q, i, m) PROVE i - d \in 1 .. e /\ IsField(p, i - d, m)
      <4>1. ~IsField(q, 1, m) /\ ~IsField(q, k, m)
        <5>1. ~IsField(q, 1, m)
          BY <1>1, TitledIs
        <5>2. ~IsField(q, k, m)
          BY <1>1, <2>7 DEF IsField, Field
        <5>3. QED
          BY <5>1, <5>2
      <4>2. i \in 2 .. Len(q) /\ i # k
        BY <1>1, <1>3, <2>1, <3>1, <4>1
      <4>3. i - d \in 2 .. Len(p) /\ q[i] = p[i - d]
        BY <1>1, <4>2
      <4>4. i - d \in 1 .. e
        BY <1>1, <1>3, <2>1, <4>3
      <4>5. QED
        BY <3>1, <4>3, <4>4 DEF IsField
    <3>2. ASSUME NEW i \in 1 .. f, NEW j \in 1 .. f, IsField(q, i, m), IsField(q, j, m)
          PROVE  i = j
      <4>1. i - d = j - d
        BY <2>7, <3>1, <3>2 DEF Once, e
      <4>2. i \in Int /\ j \in Int /\ d \in Int
        BY <1>1
      <4>3. QED
        BY <4>1, <4>2
    <3>3. QED
      BY <3>2 DEF Once, f
  <2>8. QED
    BY <2>2, <2>3, <2>5, <2>6, <2>7
<1>8. f = 0 <=> e = 0
  BY <1>1, <1>2, <1>3
<1>9. CASE e = 0
  BY <1>1, <1>2, <1>6, <1>8, <1>9 DEF q, e, f
<1>10. CASE e # 0
  BY <1>1, <1>2, <1>7, <1>8, <1>10 DEF q, e, f
<1>11. QED
  BY <1>9, <1>10

-----------------------------------------------------------------------------
(* Deleting a header of headers that end with their last line *)

Ended(h) == Titled(h) /\ MIMEHeadersEndPos(h) = Len(h)

LEMMA DeleteHeaderIs ==
    ASSUME NEW h, Ended(h), NEW name
    PROVE  LET g == DeleteHeader(h, name)
           IN /\ Ended(g) /\ g[1] = h[1]
              /\ \A m : m # name => /\ (header(g, m) = 0 <=> header(h, m) = 0)
                                    /\ Header(g, m) = Header(h, m)
              /\ Once(h, name) => Header(g, name) = NoValue
<1> DEFINE g == DeleteHeader(h, name)
           k == header(h, name)
           n == Len(h)
<1>1. /\ Titled(h) /\ n \in Nat \ {0} /\ h \in Seq(ToSet(h)) /\ HasTitle(h)
      /\ n \in {0} \cup 2 .. n
      /\ n # 0 => h[n] = Blank
      /\ \A j \in 2 .. n : h[j] = Blank => n <= j
      /\ \A m : ~IsField(h, 1, m)
  BY TitledIs, EndIs DEF Ended, Titled
<1>2. /\ k \in {0} \cup 2 .. n
      /\ k # 0 => IsField(h, k, name)
      /\ k = 0 => Header(h, name) = NoValue
      /\ \A j \in 1 .. n : IsField(h, j, name) => k # 0 /\ k <= j
  BY <1>1, HeaderIs
<1>3. CASE k = 0
  <2>1. g = h
    BY <1>3 DEF DeleteHeader
  <2>2. QED
    BY <1>2, <1>3, <2>1
<1>4. CASE k # 0
  <2>0. g = RemoveAt(h, k) /\ k \in 2 .. n
    BY <1>2, <1>4 DEF DeleteHeader
  <2>1. /\ g \in Seq(ToSet(h)) /\ Len(g) = n - 1
        /\ \A j \in 1 .. k - 1 : g[j] = h[j]
        /\ \A j \in k .. n - 1 : g[j] = h[j + 1]
    BY <1>1, <2>0, RemoveIs
  <2>2. k < n
    <3>1. k # n
      BY <1>1, <1>2, <1>4, BlankIsNoField
    <3>2. QED
      BY <1>1, <2>0, <3>1
  <2> HIDE DEF g, k, n
  <2>3. g[1] = h[1] /\ Len(g) >= 2 /\ Len(g) \in Nat
    BY <1>1, <2>0, <2>1, <2>2
  <2>4. Titled(g)
    BY <1>1, <2>1, <2>3, SequenceIs, EmptySeq DEF Titled, HasTitle
  \* A line of what is left, and the line it was.
  <2> DEFINE was(j) == IF j < k THEN j ELSE j + 1
  <2>5. ASSUME NEW j \in 1 .. Len(g)
        PROVE  /\ was(j) \in 1 .. n /\ g[j] = h[was(j)] /\ was(j) # k
    <3>1. CASE j < k
      BY <1>1, <2>0, <2>1, <3>1
    <3>2. CASE ~(j < k)
      BY <1>1, <2>0, <2>1, <3>2
    <3>3. QED
      BY <3>1, <3>2
  <2>6. Ended(g)
    <3>1. g[Len(g)] = Blank
      BY <1>1, <2>0, <2>1, <2>2
    <3>2. ASSUME NEW j \in 2 .. Len(g), g[j] = Blank PROVE Len(g) <= j
      <4>1. h[was(j)] = Blank /\ was(j) \in 2 .. n
        BY <1>1, <2>0, <2>3, <2>5, <3>2
      <4>2. n <= was(j)
        BY <1>1, <4>1
      <4>3. QED
        BY <1>1, <2>0, <2>1, <2>3, <4>2
    <3>3. Len(g) \in 2 .. Len(g)
      BY <2>3
    <3>4. QED
      BY <2>4, <3>1, <3>2, <3>3, EndAt DEF Ended
  <2>7. ASSUME NEW m, m # name
        PROVE  /\ (header(g, m) = 0 <=> header(h, m) = 0)
               /\ Header(g, m) = Header(h, m)
    <3> DEFINE i == header(h, m)
    <3>1. /\ i \in {0} \cup 2 .. n
          /\ i # 0 => IsField(h, i, m) /\ Header(h, m) = h[i].value
          /\ i = 0 => Header(h, m) = NoValue
          /\ \A j \in 1 .. n : IsField(h, j, m) => i # 0 /\ i <= j
      BY <1>1, HeaderIs DEF n
    <3>2. /\ header(g, m) \in {0} \cup 2 .. Len(g)
          /\ header(g, m) # 0 => IsField(g, header(g, m), m) /\ Header(g, m) = g[header(g, m)].value
          /\ header(g, m) = 0 => Header(g, m) = NoValue
      BY <2>4, HeaderIs
    <3> HIDE DEF i
    <3>3. \A j \in 1 .. Len(g) : IsField(g, j, m) <=> IsField(h, was(j), m)
      BY <2>5 DEF IsField
    <3>4. CASE i = 0
      <4>1. header(g, m) = 0
        BY <2>3, <2>5, <3>1, <3>2, <3>3, <3>4
      <4>2. QED
        BY <3>1, <3>2, <3>4, <4>1 DEF i
    <3>5. CASE i # 0
      <4>1. i # k /\ i \in 2 .. n /\ i # n
        BY <1>1, <1>2, <1>4, <2>7, <3>1, <3>5, BlankIsNoField DEF IsField
      <4> DEFINE j == IF i < k THEN i ELSE i - 1
      <4>2. j \in 1 .. Len(g) /\ was(j) = i
        BY <1>1, <2>0, <2>1, <4>1
      <4>3. IsField(g, j, m) /\ g[j] = h[i]
        BY <2>5, <3>1, <3>3, <3>5, <4>2
      <4>4. ASSUME NEW l \in 1 .. Len(g), IsField(g, l, m) PROVE j <= l
        <5>1. i <= was(l)
          BY <2>5, <3>1, <3>3, <4>4
        <5>2. QED
          BY <1>1, <2>0, <2>3, <4>1, <5>1
      <4> HIDE DEF j
      <4>5. header(g, m) = j
        BY <2>4, <4>2, <4>3, <4>4, HeaderAt
      <4>6. header(g, m) # 0 /\ Header(g, m) = g[j].value
        BY <2>3, <3>2, <4>2, <4>5
      <4>7. QED
        BY <3>1, <3>5, <4>3, <4>6 DEF i
    <3>6. QED
      BY <3>4, <3>5
  <2>8. ASSUME Once(h, name) PROVE Header(g, name) = NoValue
    <3>1. ASSUME NEW j \in 1 .. Len(g) PROVE ~IsField(g, j, name)
      <4>1. was(j) \in 1 .. n /\ was(j) # k /\ k \in 1 .. n /\ g[j] = h[was(j)]
        BY <1>1, <2>0, <2>5
      <4>2. MIMEHeadersEndPos(h) = n
        BY DEF Ended, n
      <4>3. ~IsField(h, was(j), name)
        BY <1>2, <1>4, <2>8, <4>1, <4>2 DEF Once
      <4>4. QED
        BY <4>1, <4>3 DEF IsField
    <3>2. /\ header(g, name) \in {0} \cup 2 .. Len(g)
          /\ header(g, name) # 0 => IsField(g, header(g, name), name)
          /\ header(g, name) = 0 => Header(g, name) = NoValue
      BY <2>4, HeaderIs
    <3>3. QED
      BY <2>3, <3>1, <3>2
  <2>9. QED
    BY <2>3, <2>6, <2>7, <2>8 DEF g
<1>5. QED
  BY <1>3, <1>4

\* Undoing an encoding.
Undoes(g, h, encoding, content) ==
    /\ Ended(g) /\ g[1] = h[1]
    /\ Header(g, "Content-Length") = ToString(Len(content))
    /\ \A m : m \notin {encoding, "Content-Length"} =>
          /\ (header(g, m) = 0 <=> header(h, m) = 0)
          /\ Header(g, m) = Header(h, m)
    /\ Once(h, encoding) => Header(g, encoding) = NoValue

LEMMA DecodedIs ==
    ASSUME NEW h, Ended(h), NEW encoding, encoding # "Content-Length", NEW content
    PROVE  Undoes(Decoded(h, encoding, content), h, encoding, content)
<1> DEFINE r == DeleteHeader(h, encoding)
           v == ToString(Len(content))
           g == SetHeader(r, "Content-Length", v)
           d == Shift(r, "Content-Length")
<1>1. /\ Ended(r) /\ r[1] = h[1]
      /\ \A m : m # encoding => /\ (header(r, m) = 0 <=> header(h, m) = 0)
                                /\ Header(r, m) = Header(h, m)
      /\ Once(h, encoding) => Header(r, encoding) = NoValue
  BY DeleteHeaderIs
<1>2. Decoded(h, encoding, content) = g
  BY DEF Decoded
<1>3. Titled(r) /\ MIMEHeadersEndPos(r) = Len(r)
  BY <1>1 DEF Ended
<1> HIDE DEF r, v
<1>4. /\ Titled(g) /\ g[1] = r[1] /\ Len(g) = Len(r) + d /\ d \in {0, 1}
  BY <1>3, SetHeaderMoves
<1>5. /\ Header(g, "Content-Length") = v
      /\ \A m : m # "Content-Length" =>
            /\ header(g, m) = IF header(r, m) = 0 THEN 0 ELSE header(r, m) + d
            /\ Header(g, m) = Header(r, m)
      /\ MIMEHeadersEndPos(g) = IF MIMEHeadersEndPos(r) = 0 THEN 0 ELSE MIMEHeadersEndPos(r) + d
  BY <1>3, SetHeaderFinds
<1>6. Len(r) \in Nat \ {0} /\ \A m : header(r, m) \in {0} \cup 2 .. Len(r)
  BY <1>3, TitledIs, HeaderIs
<1> HIDE DEF g, d
<1>7. Ended(g)
  BY <1>3, <1>4, <1>5, <1>6 DEF Ended
<1>8. ASSUME NEW m, m \notin {encoding, "Content-Length"}
      PROVE  /\ (header(g, m) = 0 <=> header(h, m) = 0)
             /\ Header(g, m) = Header(h, m)
  <2>1. /\ header(g, m) = IF header(r, m) = 0 THEN 0 ELSE header(r, m) + d
        /\ Header(g, m) = Header(r, m)
    BY <1>5, <1>8
  <2>2. /\ (header(r, m) = 0 <=> header(h, m) = 0)
        /\ Header(r, m) = Header(h, m)
    BY <1>1, <1>8
  <2>3. QED
    BY <1>4, <1>6, <2>1, <2>2
<1>9. Once(h, encoding) => Header(g, encoding) = NoValue
  BY <1>1, <1>5
<1>10. QED
  BY <1>1, <1>2, <1>4, <1>5, <1>7, <1>8, <1>9 DEF v, Undoes

LEMMA SeqWithin ==
    ASSUME NEW s, IsSequence(s), NEW S, ToSet(s) \subseteq S
    PROVE  s \in Seq(S)
<1>1. s \in Seq(ToSet(s)) /\ Len(s) \in Nat
  BY SequenceIs
<1>2. s \in [1 .. Len(s) -> S]
  BY <1>1, ElementOfSeq, LenProperties
<1>3. QED
  BY <1>1, <1>2, SeqDef

\* Headers and a body put together are the headers and the body of what results.
LEMMA Together ==
    ASSUME NEW h, Ended(h), NEW c, IsSequence(c)
    PROVE  LET p == h \o c
           IN /\ Titled(p) /\ p[1] = h[1] /\ p # <<>>
              /\ MIMEHeadersEndPos(p) # 0
              /\ Headers(p) = h /\ Body(p) = c
              /\ \A m : header(h, m) # 0 => Header(p, m) = Header(h, m)
<1> DEFINE p == h \o c
           S == ToSet(h) \cup ToSet(c)
           n == Len(h)
<1>1. /\ Titled(h) /\ n \in Nat \ {0} /\ HasTitle(h) /\ n \in {0} \cup 2 .. n
      /\ n # 0 => h[n] = Blank
      /\ \A j \in 2 .. n : h[j] = Blank => n <= j
  BY TitledIs, EndIs DEF Ended, Titled
<1>2. /\ h \in Seq(S) /\ c \in Seq(S) /\ Len(c) \in Nat
  <2>1. IsSequence(h)
    BY <1>1 DEF Titled
  <2>2. ToSet(h) \subseteq S /\ ToSet(c) \subseteq S
    OBVIOUS
  <2> HIDE DEF S
  <2>3. QED
    BY <2>1, <2>2, SeqWithin, SequenceIs
<1> HIDE DEF S
<1>3. /\ p \in Seq(S) /\ Len(p) = n + Len(c)
      /\ \A i \in 1 .. n + Len(c) : p[i] = IF i <= n THEN h[i] ELSE c[i - n]
  BY <1>2, ConcatProperties
<1> HIDE DEF p, n
<1>4. n \in 2 .. Len(p) /\ \A i \in 1 .. n : p[i] = h[i]
  BY <1>1, <1>2, <1>3
<1>5. Titled(p) /\ p[1] = h[1] /\ p # <<>>
  BY <1>1, <1>3, <1>4, SequenceIs, EmptySeq DEF Titled, HasTitle
<1>6. MIMEHeadersEndPos(p) = n
  <2>1. \A j \in 2 .. Len(p) : p[j] = Blank => n <= j
    BY <1>1, <1>4
  <2>2. QED
    BY <1>1, <1>4, <1>5, <2>1, EndAt
<1>7. Headers(p) = h
  <2>1. /\ Titled(Headers(p)) /\ Len(Headers(p)) = n
        /\ \A j \in 1 .. n : Headers(p)[j] = p[j]
    BY <1>1, <1>5, <1>6, HeadersIs
  <2>2. Headers(p) \in [1 .. n -> S] /\ h \in [1 .. n -> S]
    <3>1. h \in [1 .. n -> S]
      BY <1>2, LenProperties DEF n
    <3>2. Headers(p) \in [1 .. n -> ToSet(Headers(p))]
      BY <2>1, LenProperties DEF Titled, IsSequence
    <3>3. QED
      BY <1>4, <2>1, <3>1, <3>2
  <2>3. QED
    BY <1>4, <2>1, <2>2
<1>8. Body(p) = c
  <2>1. /\ Body(p) \in Seq(ToSet(p)) /\ Len(Body(p)) = Len(p) - n
        /\ \A j \in 1 .. Len(p) - n : Body(p)[j] = p[n + j]
    BY <1>1, <1>5, <1>6, BodyIs
  <2>2. Len(p) - n = Len(c)
    BY <1>1, <1>2, <1>3
  <2>3. ASSUME NEW j \in 1 .. Len(c) PROVE Body(p)[j] = c[j]
    <3>1. p[n + j] = c[(n + j) - n] /\ (n + j) - n = j
      BY <1>1, <1>2, <1>3
    <3>2. QED
      BY <2>1, <2>2, <3>1
  <2>4. c \in [1 .. Len(c) -> S] /\ Body(p) \in [1 .. Len(c) -> ToSet(p)]
    BY <1>2, <2>1, <2>2, LenProperties
  <2>5. QED
    BY <2>3, <2>4
<1>9. ASSUME NEW m, header(h, m) # 0 PROVE Header(p, m) = Header(h, m)
  <2>1. header(h, m) = IF header(p, m) <= n THEN header(p, m) ELSE 0
    BY <1>1, <1>5, <1>6, <1>7, HeadersIs
  <2>2. header(p, m) <= n
    BY <1>9, <2>1
  <2>3. InHead(p, m)
    BY <1>6, <2>2 DEF InHead
  <2>4. QED
    BY <1>1, <1>5, <1>6, <1>7, <2>3, HeadersSay
<1>10. QED
  BY <1>1, <1>5, <1>6, <1>7, <1>8, <1>9 DEF p

-----------------------------------------------------------------------------
(* The prettifier *)

\* A body whose encodings can be undone.
Decodable(b) == IsSequence(b) /\ (IsEncoded(b, "gzip") => IsSequence(b[1].content))

IsChunked(p) == Header(p, "Transfer-Encoding") = "chunked"
IsGzip(p) == Header(p, "Content-Encoding") = "gzip"
Content(p) == IF IsChunked(p) THEN Dechunked(Body(p)) ELSE Body(p)
Undone(p) == IF IsChunked(p) THEN Decoded(Headers(p), "Transfer-Encoding", Content(p)) ELSE Headers(p)

\* The cases of the code, one by one.
LEMMA PrettifyCases ==
    ASSUME NEW p
    PROVE  LET q == PrettifyHTTP(p)
               c == Content(p)
           IN \/ q \in {p, <<>>}
              \/ /\ MIMEHeadersEndPos(p) # 0 /\ IsChunked(p) /\ ~IsGzip(p)
                 /\ q = Undone(p) \o c
              \/ /\ MIMEHeadersEndPos(p) # 0 /\ IsChunked(p) /\ IsEncoded(c, "gzip") /\ ~c[1].whole
                 /\ q = (Undone(p) \o <<Remnant>>) \o Body(p)
              \/ /\ MIMEHeadersEndPos(p) # 0 /\ IsEncoded(c, "gzip")
                 /\ q = Decoded(Undone(p), "Content-Encoding", c[1].content) \o c[1].content
<1>1. CASE ~(IsChunked(p) \/ IsGzip(p)) \/ MIMEHeadersEndPos(p) = 0
  <2>1. PrettifyHTTP(p) = p
    BY <1>1 DEF PrettifyHTTP, IsChunked, IsGzip
  <2>2. QED
    BY <2>1
<1>2. CASE IsChunked(p) /\ ~IsGzip(p) /\ MIMEHeadersEndPos(p) # 0
  <2>1. PrettifyHTTP(p) = Undone(p) \o Content(p)
    BY <1>2 DEF PrettifyHTTP, IsChunked, IsGzip, Undone, Content
  <2>2. QED
    BY <1>2, <2>1
<1>3. CASE IsGzip(p) /\ MIMEHeadersEndPos(p) # 0
  <2>1. PrettifyHTTP(p) =
          IF ~IsEncoded(Content(p), "gzip") THEN <<>>
          ELSE IF ~Content(p)[1].whole
          THEN IF IsChunked(p) THEN (Undone(p) \o <<Remnant>>) \o Body(p) ELSE p
          ELSE Decoded(Undone(p), "Content-Encoding", Content(p)[1].content) \o Content(p)[1].content
    BY <1>3 DEF PrettifyHTTP, IsChunked, IsGzip, Undone, Content
  <2>2. QED
    BY <1>3, <2>1
<1>4. QED
  BY <1>1, <1>2, <1>3

\* The headers with the chunks undone.
LEMMA UndoneIs ==
    ASSUME NEW p, Titled(p), MIMEHeadersEndPos(p) # 0, InHead(p, "Transfer-Encoding")
    PROVE  LET h == Undone(p)
           IN /\ Ended(h) /\ h[1] = p[1]
              /\ \A m : m \notin {"Transfer-Encoding", "Content-Length"} =>
                    /\ (header(h, m) = 0 <=> header(Headers(p), m) = 0)
                    /\ Header(h, m) = Header(Headers(p), m)
              /\ IsChunked(p) => Header(h, "Content-Length") = ToString(Len(Content(p)))
              /\ Once(p, "Transfer-Encoding") => Header(h, "Transfer-Encoding") # "chunked"
<1> DEFINE h == Headers(p)
           e == MIMEHeadersEndPos(p)
<1>1. /\ e \in 2 .. Len(p) /\ Titled(h) /\ Len(h) = e /\ MIMEHeadersEndPos(h) = e
      /\ \A j \in 1 .. e : h[j] = p[j]
      /\ Header(h, "Transfer-Encoding") = Header(p, "Transfer-Encoding")
  BY HeadersIs, HeadersSay
<1>2. Ended(h) /\ h[1] = p[1]
  BY <1>1, TitledIs DEF Ended
<1>3. Once(p, "Transfer-Encoding") => Once(h, "Transfer-Encoding")
  <2> HIDE DEF h, e
  <2>1. \A j \in 1 .. e : IsField(h, j, "Transfer-Encoding") <=> IsField(p, j, "Transfer-Encoding")
    BY <1>1 DEF IsField
  <2>2. QED
    BY <1>1, <2>1 DEF Once, e
<1>4. CASE IsChunked(p)
  <2>1. Undone(p) = Decoded(h, "Transfer-Encoding", Content(p))
    BY <1>4 DEF Undone
  <2> HIDE DEF h, e
  <2>2. LET g == Decoded(h, "Transfer-Encoding", Content(p))
        IN /\ Ended(g) /\ g[1] = h[1]
           /\ Header(g, "Content-Length") = ToString(Len(Content(p)))
           /\ \A m : m \notin {"Transfer-Encoding", "Content-Length"} =>
                 /\ (header(g, m) = 0 <=> header(h, m) = 0)
                 /\ Header(g, m) = Header(h, m)
           /\ Once(h, "Transfer-Encoding") => Header(g, "Transfer-Encoding") = NoValue
    <3>1. "Transfer-Encoding" # "Content-Length" /\ Ended(h)
      BY <1>2
    <3>2. Undoes(Decoded(h, "Transfer-Encoding", Content(p)), h, "Transfer-Encoding", Content(p))
      BY <3>1, DecodedIs
    <3>3. QED
      BY <3>2 DEF Undoes
  <2>3. NoValue # "chunked"
    BY DEF NoValue
  <2>4. QED
    BY <1>2, <1>3, <2>1, <2>2, <2>3 DEF h
<1>5. CASE ~IsChunked(p)
  <2>1. Undone(p) = h
    BY <1>5 DEF Undone
  <2>2. Header(h, "Transfer-Encoding") # "chunked"
    BY <1>1, <1>5 DEF IsChunked
  <2>3. QED
    BY <1>2, <1>5, <2>1, <2>2
<1>6. QED
  BY <1>4, <1>5

\* What is left of the payload, unless gzip is cut off inside of chunks.
CutInside(p) ==
    IsChunked(p) /\ IsEncoded(Content(p), "gzip") /\ ~Content(p)[1].whole

\* The result is dropped, left alone, or headers and a body.
LEMMA PrettifyIs ==
    ASSUME NEW p, Titled(p), Decodable(Body(p)), Decodable(Content(p)),
           InHead(p, "Transfer-Encoding"), PrettifyHTTP(p) \notin {p, <<>>}
    PROVE  /\ MIMEHeadersEndPos(p) # 0
           /\ \E h, c :
                /\ PrettifyHTTP(p) = h \o c /\ Ended(h) /\ IsSequence(c) /\ h[1] = p[1]
                /\ \A m : m \notin {"Transfer-Encoding", "Content-Encoding", "Content-Length"} =>
                      /\ (header(h, m) = 0 <=> header(Headers(p), m) = 0)
                      /\ Header(h, m) = Header(Headers(p), m)
                /\ ~CutInside(p) =>
                      /\ \/ IsChunked(p) /\ c = Content(p)
                         \/ IsEncoded(Content(p), "gzip") /\ c = Content(p)[1].content
                      /\ Header(h, "Content-Length") = ToString(Len(c))
                      /\ Once(p, "Transfer-Encoding") => Header(h, "Transfer-Encoding") # "chunked"
<1> DEFINE q == PrettifyHTTP(p)
           u == Undone(p)
           b == Content(p)
<1>1. /\ MIMEHeadersEndPos(p) # 0
      /\ \/ IsChunked(p) /\ ~IsGzip(p) /\ q = u \o b
         \/ /\ IsChunked(p) /\ IsEncoded(b, "gzip") /\ ~b[1].whole
            /\ q = (u \o <<Remnant>>) \o Body(p)
         \/ IsEncoded(b, "gzip") /\ q = Decoded(u, "Content-Encoding", b[1].content) \o b[1].content
  BY PrettifyCases
<1>2. /\ Ended(u) /\ u[1] = p[1]
      /\ \A m : m \notin {"Transfer-Encoding", "Content-Length"} =>
            /\ (header(u, m) = 0 <=> header(Headers(p), m) = 0)
            /\ Header(u, m) = Header(Headers(p), m)
      /\ IsChunked(p) => Header(u, "Content-Length") = ToString(Len(b))
      /\ Once(p, "Transfer-Encoding") => Header(u, "Transfer-Encoding") # "chunked"
  BY <1>1, UndoneIs
<1>3. IsSequence(b) /\ IsSequence(Body(p)) /\ (IsEncoded(b, "gzip") => IsSequence(b[1].content))
  BY DEF Decodable
<1> HIDE DEF q, u, b
<1>4. CASE IsChunked(p) /\ ~IsGzip(p) /\ q = u \o b
  BY <1>1, <1>2, <1>3, <1>4 DEF q, b
<1>5. CASE /\ IsChunked(p) /\ IsEncoded(b, "gzip") /\ ~b[1].whole
           /\ q = (u \o <<Remnant>>) \o Body(p)
  <2> DEFINE c == <<Remnant>> \o Body(p)
             S == (ToSet(u) \cup ToSet(Body(p))) \cup {Remnant}
  <2>1. u \in Seq(S) /\ Body(p) \in Seq(S) /\ <<Remnant>> \in Seq(S)
    <3>1. ToSet(u) \subseteq S /\ ToSet(Body(p)) \subseteq S /\ Remnant \in S
      OBVIOUS
    <3>2. IsSequence(u)
      BY <1>2 DEF Ended, Titled
    <3> HIDE DEF S
    <3>3. QED
      BY <1>3, <3>1, <3>2, SeqWithin
  <2> HIDE DEF S
  <2>2. q = u \o c /\ c \in Seq(S)
    BY <1>5, <2>1, ConcatAssociative, ConcatProperties
  <2> HIDE DEF c
  <2>3. IsSequence(c)
    BY <2>2, SequenceIs
  <2>4. CutInside(p)
    BY <1>5 DEF CutInside, b
  <2>5. QED
    BY <1>1, <1>2, <2>2, <2>3, <2>4 DEF q
<1>6. CASE IsEncoded(b, "gzip") /\ q = Decoded(u, "Content-Encoding", b[1].content) \o b[1].content
  <2> DEFINE c == b[1].content
             h == Decoded(u, "Content-Encoding", c)
  <2>1. "Content-Encoding" # "Content-Length" /\ "Transfer-Encoding" # "Content-Encoding"
        /\ "Transfer-Encoding" # "Content-Length"
    OBVIOUS
  <2> HIDE DEF c
  <2>2. /\ Ended(h) /\ h[1] = u[1]
        /\ Header(h, "Content-Length") = ToString(Len(c))
        /\ \A m : m \notin {"Content-Encoding", "Content-Length"} =>
              /\ (header(h, m) = 0 <=> header(u, m) = 0)
              /\ Header(h, m) = Header(u, m)
    <3>1. "Content-Encoding" # "Content-Length" /\ Ended(u)
      BY <1>2
    <3>2. Undoes(Decoded(u, "Content-Encoding", c), u, "Content-Encoding", c)
      BY <3>1, DecodedIs
    <3>3. QED
      BY <3>2 DEF Undoes
  <2>3. q = h \o c /\ IsSequence(c)
    BY <1>3, <1>6 DEF c
  <2> HIDE DEF h
  <2>4. Header(h, "Transfer-Encoding") = Header(u, "Transfer-Encoding")
    BY <2>1, <2>2
  <2>5. \A m : m \notin {"Transfer-Encoding", "Content-Encoding", "Content-Length"} =>
            /\ (header(h, m) = 0 <=> header(Headers(p), m) = 0)
            /\ Header(h, m) = Header(Headers(p), m)
    BY <1>2, <2>2
  <2>6. IsEncoded(b, "gzip") /\ c = b[1].content
    BY <1>6 DEF c
  <2>7. QED
    BY <1>1, <1>2, <2>2, <2>3, <2>4, <2>5, <2>6 DEF q, b
<1>7. QED
  BY <1>1, <1>4, <1>5, <1>6

-----------------------------------------------------------------------------
(* The settings, one after the other *)

\* What RewriteHeaders does for one setting.
RewriteOne(at, f) ==
    LET value == Header(at.p, f.name)
    IN CASE at.stop \/ value = NoValue -> [at EXCEPT !.stop = TRUE]
         [] ~at.stop /\ value # NoValue /\ value \in f.src ->
                [at EXCEPT !.p = SetHeader(@, f.name, f.target)]
         [] OTHER -> at

\* The k-th setting of a kind.
Apply(kind, x, k) ==
    IF kind = "headers" THEN SetHeader(x, config.headers[k].name, config.headers[k].value)
    ELSE IF kind = "params" THEN SetPathParam(x, config.params[k].name, config.params[k].value)
    ELSE RewriteOne(x, config.rewriteHeader[k])

\* The function a fold over n settings is taken from.
Folds(g, kind, base, n) ==
    g = [s \in SUBSET (1 .. n) |->
            IF s = {} THEN base ELSE Apply(kind, g[s \ {Max(s)}], Max(s))]

LEMMA MaxIs ==
    ASSUME NEW k \in Nat, NEW s \in SUBSET (1 .. k), k \in s
    PROVE  Max(s) = k
<1>1. \A y \in s : k >= y
  OBVIOUS
<1>2. \A x \in s : x >= k => x = k
  OBVIOUS
<1>3. QED
  BY <1>1, <1>2 DEF Max

LEMMA FoldExists ==
    ASSUME NEW kind, NEW base, NEW n \in Nat
    PROVE  \E g : Folds(g, kind, base, n)
<1> DEFINE S == {k \in Nat : \E g : Folds(g, kind, base, k)}
<1>1. 0 \in S
  <2> DEFINE g == [s \in SUBSET (1 .. 0) |-> base]
  <2>1. \A s \in SUBSET (1 .. 0) : s = {}
    OBVIOUS
  <2>2. g = [s \in SUBSET (1 .. 0) |->
                IF s = {} THEN base ELSE Apply(kind, g[s \ {Max(s)}], Max(s))]
    BY <2>1, Zenon
  <2> HIDE DEF g
  <2>3. Folds(g, kind, base, 0)
    BY <2>2 DEF Folds
  <2>4. QED
    BY <2>3
<1>2. ASSUME NEW k \in 1 .. n, k - 1 \in S PROVE k \in S
  <2>1. PICK g : Folds(g, kind, base, k - 1)
    BY <1>2
  <2> DEFINE f == [s \in SUBSET (1 .. k) |->
                      IF k \in s THEN Apply(kind, g[s \ {k}], k) ELSE g[s]]
  <2>2. \A s \in SUBSET (1 .. (k - 1)) :
           g[s] = IF s = {} THEN base ELSE Apply(kind, g[s \ {Max(s)}], Max(s))
    BY <2>1 DEF Folds
  <2>3. \A s \in SUBSET (1 .. k) :
           f[s] = IF k \in s THEN Apply(kind, g[s \ {k}], k) ELSE g[s]
    OBVIOUS
  <2>4. \A s \in SUBSET (1 .. k) : k \notin s => s \in SUBSET (1 .. (k - 1))
    OBVIOUS
  <2>5. ASSUME NEW s \in SUBSET (1 .. k)
        PROVE  f[s] = IF s = {} THEN base ELSE Apply(kind, f[s \ {Max(s)}], Max(s))
    <3> HIDE DEF f
    <3>1. CASE k \in s
      <4>1. Max(s) = k
        BY <3>1, MaxIs
      <4>2. s \ {k} \in SUBSET (1 .. k) /\ k \notin s \ {k}
        OBVIOUS
      <4>3. f[s \ {k}] = g[s \ {k}] /\ f[s] = Apply(kind, g[s \ {k}], k)
        BY <2>3, <3>1, <4>2
      <4>4. QED
        BY <3>1, <4>1, <4>3
    <3>2. CASE k \notin s
      <4>1. f[s] = g[s] /\ s \in SUBSET (1 .. (k - 1))
        BY <2>3, <2>4, <3>2
      <4>2. s \ {Max(s)} \in SUBSET (1 .. k) /\ k \notin s \ {Max(s)}
        BY <3>2
      <4>3. f[s \ {Max(s)}] = g[s \ {Max(s)}]
        BY <2>3, <4>2
      <4>4. QED
        BY <2>2, <4>1, <4>3
    <3>3. QED
      BY <3>1, <3>2
  <2>6. f = [s \in SUBSET (1 .. k) |->
                IF s = {} THEN base ELSE Apply(kind, f[s \ {Max(s)}], Max(s))]
    <3>1. f = [s \in SUBSET (1 .. k) |-> f[s]]
      OBVIOUS
    <3> HIDE DEF f
    <3>2. QED
      BY <2>5, <3>1, Zenon
  <2> HIDE DEF f
  <2>7. Folds(f, kind, base, k)
    BY <2>6 DEF Folds
  <2>8. QED
    BY <2>7
<1> HIDE DEF S
<1>3. \A k \in 0 .. n : k \in S
  BY <1>1, <1>2, UpTo
<1>4. n \in S
  BY <1>3
<1>5. QED
  BY <1>4 DEF S

\* The payloads in between, the first one before the first setting.
Chain(x, kind, base, n) ==
    /\ x[0] = base
    /\ \A k \in 1 .. n : x[k] = Apply(kind, x[k - 1], k)

LEMMA FoldChain ==
    ASSUME NEW kind, NEW base, NEW n \in Nat, NEW g, Folds(g, kind, base, n)
    PROVE  \E x : Chain(x, kind, base, n) /\ x[n] = g[1 .. n]
<1> DEFINE x == [k \in 0 .. n |-> g[1 .. k]]
<1>1. \A s \in SUBSET (1 .. n) :
         g[s] = IF s = {} THEN base ELSE Apply(kind, g[s \ {Max(s)}], Max(s))
  BY DEF Folds
<1>2. x[0] = base
  <2>1. x[0] = g[1 .. 0] /\ 1 .. 0 = {} /\ {} \in SUBSET (1 .. n)
    OBVIOUS
  <2>2. QED
    BY <1>1, <2>1
<1>3. ASSUME NEW k \in 1 .. n PROVE x[k] = Apply(kind, x[k - 1], k)
  <2>1. x[k] = g[1 .. k] /\ x[k - 1] = g[1 .. (k - 1)]
    OBVIOUS
  <2>2. 1 .. k \in SUBSET (1 .. n) /\ 1 .. k # {} /\ (1 .. k) \ {k} = 1 .. (k - 1) /\ k \in 1 .. k
    OBVIOUS
  <2>3. Max(1 .. k) = k
    BY <2>2, MaxIs
  <2> HIDE DEF x
  <2>4. QED
    BY <1>1, <2>1, <2>2, <2>3
<1>4. x[n] = g[1 .. n]
  OBVIOUS
<1> HIDE DEF x
<1>5. QED
  BY <1>2, <1>3, <1>4 DEF Chain

\* What a fold over n settings returns.
Result(kind, base, n) == (CHOOSE g : Folds(g, kind, base, n))[1 .. n]

LEMMA ResultChain ==
    \A kind, base : \A n \in Nat :
        \E x : Chain(x, kind, base, n) /\ x[n] = Result(kind, base, n)
<1>1. ASSUME NEW kind, NEW base, NEW n \in Nat
      PROVE  \E x : Chain(x, kind, base, n) /\ x[n] = Result(kind, base, n)
  <2>1. PICK g : g = CHOOSE f : Folds(f, kind, base, n)
    OBVIOUS
  <2>2. Folds(g, kind, base, n)
    BY <2>1, FoldExists, Zenon
  <2>3. Result(kind, base, n) = g[1 .. n]
    BY <2>1 DEF Result
  <2>4. QED
    BY <2>2, <2>3, FoldChain
<1>2. QED
  BY <1>1

LEMMA HeadersChain ==
    ASSUME NEW p, IsSequence(config.headers)
    PROVE  \E x : Chain(x, "headers", p, Len(config.headers)) /\ x[Len(config.headers)] = SetHeaders(p)
<1>1. Len(config.headers) \in Nat /\ DOMAIN config.headers = 1 .. Len(config.headers)
  BY SequenceIs
<1>2. SetHeaders(p) = Result("headers", p, Len(config.headers))
  BY <1>1 DEF SetHeaders, FoldLeft, MapThenFoldSet, Folds, Apply, Result
<1>3. QED
  BY <1>1, <1>2, ResultChain, Zenon

LEMMA ParamsChain ==
    ASSUME NEW p, IsSequence(config.params)
    PROVE  \E x : Chain(x, "params", p, Len(config.params)) /\ x[Len(config.params)] = SetParams(p)
<1>1. Len(config.params) \in Nat /\ DOMAIN config.params = 1 .. Len(config.params)
  BY SequenceIs
<1>2. SetParams(p) = Result("params", p, Len(config.params))
  BY <1>1 DEF SetParams, FoldLeft, MapThenFoldSet, Folds, Apply, Result
<1>3. QED
  BY <1>1, <1>2, ResultChain, Zenon

LEMMA RewriteChain ==
    ASSUME NEW p, IsSequence(config.rewriteHeader)
    PROVE  \E x : /\ Chain(x, "rewrite", [p |-> p, stop |-> FALSE], Len(config.rewriteHeader))
                  /\ RewriteHeaders(p) = x[Len(config.rewriteHeader)].p
<1>1. /\ Len(config.rewriteHeader) \in Nat
      /\ DOMAIN config.rewriteHeader = 1 .. Len(config.rewriteHeader)
  BY SequenceIs
<1>2. RewriteHeaders(p) = Result("rewrite", [p |-> p, stop |-> FALSE], Len(config.rewriteHeader)).p
  BY <1>1 DEF RewriteHeaders, FoldLeft, MapThenFoldSet, Folds, Apply, RewriteOne, Result
<1>3. PICK x : /\ Chain(x, "rewrite", [p |-> p, stop |-> FALSE], Len(config.rewriteHeader))
               /\ x[Len(config.rewriteHeader)]
                     = Result("rewrite", [p |-> p, stop |-> FALSE], Len(config.rewriteHeader))
  BY <1>1, ResultChain, Zenon
<1>4. QED
  BY <1>2, <1>3

-----------------------------------------------------------------------------
(* What rewriting keeps *)

\* q is p with headers of these names set, and other parts of the path.
Keeps(p, q, names) ==
    /\ Titled(q)
    /\ MIMEHeadersEndPos(q) = 0 <=> MIMEHeadersEndPos(p) = 0
    /\ Body(q) = Body(p)
    /\ \A m : /\ InHead(p, m) => InHead(q, m)
              /\ header(p, m) # 0 => header(q, m) # 0
    /\ \A m : m \notin names => /\ Once(p, m) => Once(q, m)
                                /\ Header(q, m) = Header(p, m)
                                /\ Header(Headers(q), m) = Header(Headers(p), m)

LEMMA KeepsItself ==
    ASSUME NEW p, Titled(p), NEW names
    PROVE  Keeps(p, p, names)
  BY DEF Keeps

LEMMA KeepsOn ==
    ASSUME NEW p, NEW q, NEW r, NEW names, NEW more, Keeps(p, q, names), Keeps(q, r, more)
    PROVE  Keeps(p, r, names \cup more)
<1>1. \A m : m \notin names \cup more => m \notin names /\ m \notin more
  OBVIOUS
<1>2. QED
  BY <1>1 DEF Keeps

LEMMA SetHeaderOn ==
    ASSUME NEW p, Titled(p), NEW names, NEW name \in names, InHead(p, name), NEW value
    PROVE  LET q == SetHeader(p, name, value)
           IN /\ Keeps(p, q, names) /\ q[1] = p[1]
              /\ Header(q, name) = value /\ header(q, name) # 0
              /\ \A m : m # name => Header(q, m) = Header(p, m)
<1> DEFINE q == SetHeader(p, name, value)
<1>1. /\ Titled(q) /\ q[1] = p[1]
      /\ MIMEHeadersEndPos(q) = 0 <=> MIMEHeadersEndPos(p) = 0
      /\ Body(q) = Body(p)
      /\ InHead(q, name) /\ Header(q, name) = value
      /\ \A m : m # name => /\ InHead(p, m) => InHead(q, m)
                            /\ Once(p, m) => Once(q, m)
                            /\ Header(q, m) = Header(p, m)
                            /\ Header(Headers(q), m) = Header(Headers(p), m)
  BY SetHeaderKeeps
<1>2. /\ header(q, name) = Place(p, name)
      /\ \A m : m # name => header(q, m) = IF header(p, m) = 0 THEN 0 ELSE header(p, m) + Shift(p, name)
  BY SetHeaderFinds
<1>3. Place(p, name) # 0
  BY DEF Place
<1>4. Shift(p, name) \in {0, 1} /\ Len(p) \in Nat /\ \A m : header(p, m) \in {0} \cup 2 .. Len(p)
  BY TitledIs, HeaderIs DEF Shift
<1> HIDE DEF q
<1>5. \A m : header(p, m) # 0 => header(q, m) # 0
  <2> TAKE m
  <2>1. CASE m = name
    BY <1>2, <1>3, <2>1
  <2>2. CASE m # name
    BY <1>2, <1>4, <2>2
  <2>3. QED
    BY <2>1, <2>2
<1>6. \A m : InHead(p, m) => InHead(q, m)
  BY <1>1
<1>7. \A m : m \notin names => m # name
  OBVIOUS
<1>8. Keeps(p, q, names)
  BY <1>1, <1>5, <1>6, <1>7 DEF Keeps
<1>9. QED
  BY <1>1, <1>2, <1>3, <1>8 DEF q

\* A request whose parameters are a sequence.
Requested(p) ==
    /\ Titled(p) /\ p[1].kind = "request"
    /\ p[1] = Request(p[1].method, p[1].path)
    /\ p[1].path = [base |-> p[1].path.base, params |-> p[1].path.params]
    /\ IsSequence(p[1].path.params)

LEMMA SetPathIs ==
    ASSUME NEW p, Requested(p), NEW path, path = [base |-> path.base, params |-> path.params],
           IsSequence(path.params), NEW names
    PROVE  LET q == SetPath(p, path)
           IN /\ Requested(q) /\ Keeps(p, q, names)
              /\ q[1].path = path /\ \A m : Header(q, m) = Header(p, m)
<1> DEFINE q == SetPath(p, path)
           e == MIMEHeadersEndPos(p)
<1>1. /\ p \in Seq(ToSet(p)) /\ Len(p) \in Nat \ {0} /\ DOMAIN p = 1 .. Len(p) /\ HasTitle(p)
      /\ p[1] = [kind |-> "request", method |-> p[1].method, path |-> p[1].path]
  BY TitledIs DEF Requested, Titled, Request
<1>2. /\ q = [p EXCEPT ![1] = [p[1] EXCEPT !.path = path]]
      /\ [p[1] EXCEPT !.path = path] = [kind |-> "request", method |-> p[1].method, path |-> path]
  BY <1>1 DEF SetPath
<1> DEFINE line == [kind |-> "request", method |-> p[1].method, path |-> path]
           S == ToSet(p) \cup {line}
<1>3. /\ q[1] = line /\ \A j \in 2 .. Len(p) : q[j] = p[j]
      /\ q \in [1 .. Len(p) -> S]
  <2>1. p \in [1 .. Len(p) -> ToSet(p)] /\ 1 \in 1 .. Len(p)
    BY <1>1, LenProperties
  <2>2. q = [p EXCEPT ![1] = line]
    BY <1>2
  <2>3. S = ToSet(p) \cup {line}
    OBVIOUS
  <2> HIDE DEF q, line, S
  <2>4. q \in [1 .. Len(p) -> S]
    BY <2>1, <2>2, <2>3
  <2>5. q[1] = line /\ \A j \in 2 .. Len(p) : q[j] = p[j]
    BY <1>1, <2>1, <2>2
  <2>6. QED
    BY <2>4, <2>5
<1>4. q \in Seq(S) /\ Len(q) = Len(p)
  <2> HIDE DEF q, S
  <2>1. q \in Seq(S)
    BY <1>1, <1>3, SeqDef
  <2>2. DOMAIN q = 1 .. Len(p) /\ DOMAIN q = 1 .. Len(q) /\ Len(q) \in Nat
    BY <1>3, <2>1, LenProperties
  <2>3. QED
    BY <1>1, <2>1, <2>2
<1>5. /\ q[1].kind = "request" /\ q[1].method = p[1].method /\ q[1].path = path
      /\ q[1] = Request(q[1].method, q[1].path)
  BY <1>3 DEF Request
<1>6. Titled(q)
  <2>1. q # <<>>
    <3> HIDE DEF q, S
    <3>1. QED
      BY <1>1, <1>4
  <2>2. IsSequence(q)
    BY <1>4, SequenceIs
  <2>3. QED
    BY <1>5, <2>1, <2>2 DEF Titled, HasTitle
<1>7. Requested(q)
  BY <1>5, <1>6 DEF Requested
<1> HIDE DEF q, line, S
<1>8. /\ Titled(p) /\ \A m : ~IsField(q, 1, m) /\ ~IsField(p, 1, m)
      /\ \A m : \A j \in 2 .. Len(p) : IsField(q, j, m) <=> IsField(p, j, m)
  BY <1>3, <1>6, TitledIs DEF IsField, Requested
<1>9. ASSUME NEW m PROVE header(q, m) = header(p, m) /\ Header(q, m) = Header(p, m)
  <2>1. header(q, m) = header(p, m)
    <3>1. HasTitle(q) /\ HasTitle(p)
      BY <1>1, <1>6 DEF Titled
    <3>2. {i \in 2 .. Len(q) : q[i].kind = "field" /\ q[i].name = m}
             = {i \in 2 .. Len(p) : p[i].kind = "field" /\ p[i].name = m}
      BY <1>3, <1>4
    <3>3. QED
      BY <3>1, <3>2 DEF header
  <2>2. header(p, m) \in {0} \cup 2 .. Len(p)
    BY <1>8, HeaderIs
  <2>3. QED
    BY <1>3, <2>1, <2>2 DEF Header
<1>10. MIMEHeadersEndPos(q) = e
  <2>1. {i \in 2 .. Len(q) : q[i] = Blank} = {i \in 2 .. Len(p) : p[i] = Blank}
    BY <1>3, <1>4
  <2>2. QED
    BY <2>1 DEF MIMEHeadersEndPos, e
<1>11. \A m : InHead(p, m) => InHead(q, m)
  BY <1>9, <1>10 DEF InHead, e
<1>12. e \in {0} \cup 2 .. Len(p)
  BY <1>8, EndIs
<1>13. ASSUME NEW m, Once(p, m) PROVE Once(q, m)
  <2> HIDE DEF e
  <2>1. \A j \in 1 .. e : IsField(q, j, m) => IsField(p, j, m)
    BY <1>1, <1>8, <1>12
  <2>2. QED
    BY <1>10, <1>13, <2>1 DEF Once, e
<1>14. Body(q) = Body(p)
  <2>1. CASE e = 0
    BY <1>10, <2>1 DEF Body
  <2>2. CASE e # 0
    <3>1. /\ Body(p) \in Seq(ToSet(p)) /\ Len(Body(p)) = Len(p) - e
          /\ \A j \in 1 .. Len(p) - e : Body(p)[j] = p[e + j]
      BY <1>8, <2>2, BodyIs
    <3>2. /\ Body(q) \in Seq(ToSet(q)) /\ Len(Body(q)) = Len(q) - e
          /\ \A j \in 1 .. Len(q) - e : Body(q)[j] = q[e + j]
      BY <1>6, <1>10, <2>2, BodyIs
    <3>3. \A j \in 1 .. Len(p) - e : e + j \in 2 .. Len(p)
      BY <1>1, <1>12, <2>2
    <3> HIDE DEF e
    <3>4. \A j \in 1 .. Len(Body(q)) : Body(q)[j] = Body(p)[j]
      BY <1>3, <1>4, <3>1, <3>2, <3>3
    <3>5. QED
      BY <1>4, <3>1, <3>2, <3>4, SeqEqual
  <2>3. QED
    BY <2>1, <2>2
<1>15. ASSUME NEW m PROVE Header(Headers(q), m) = Header(Headers(p), m)
  <2>1. CASE e = 0
    <3>1. Headers(p) = <<>> /\ Headers(q) = <<>>
      BY <1>6, <1>8, <1>10, <2>1, HeadersIs
    <3>2. QED
      BY <3>1
  <2>2. CASE e # 0
    <3>1. Header(Headers(p), m) = IF header(p, m) <= e THEN Header(p, m) ELSE NoValue
      BY <1>8, <2>2, HeadersSay
    <3>2. Header(Headers(q), m) = IF header(q, m) <= e THEN Header(q, m) ELSE NoValue
      BY <1>6, <1>10, <2>2, HeadersSay
    <3>3. QED
      BY <1>9, <3>1, <3>2
  <2>3. QED
    BY <2>1, <2>2
<1>16. Keeps(p, q, names)
  BY <1>6, <1>9, <1>10, <1>11, <1>13, <1>14, <1>15 DEF Keeps, e
<1>17. QED
  BY <1>5, <1>7, <1>9, <1>16 DEF q

\* Where a parameter is in a sequence of some.
Places(s, name) == {j \in DOMAIN s : s[j].name = name}
At(s, name) == IF Places(s, name) \ {1} # {} THEN Min(Places(s, name) \ {1}) ELSE First(Places(s, name))

LEMMA ParamAtIs ==
    \A path, name : ParamAt(path, name) = At(path.params, name)
  BY DEF ParamAt, At, Places

LEMMA AtIs ==
    ASSUME NEW s, NEW n \in Nat, DOMAIN s = 1 .. n, NEW name
    PROVE  /\ At(s, name) \in 0 .. n
           /\ At(s, name) = 0 => \A j \in 1 .. n : s[j].name # name
           /\ At(s, name) # 0 => s[At(s, name)].name = name
<1> DEFINE T == Places(s, name)
<1>1. T \in SUBSET Nat /\ T \ {1} \in SUBSET Nat
  BY DEF Places
<1>2. /\ T = {} => First(T) = 0
      /\ T # {} => First(T) \in T
      /\ T \ {1} # {} => First(T \ {1}) \in T \ {1}
  BY <1>1, FirstIs
<1>3. T \ {1} # {} => First(T \ {1}) = Min(T \ {1})
  BY DEF First
<1>4. \A j : j \in T <=> j \in 1 .. n /\ s[j].name = name
  BY DEF Places
<1>5. At(s, name) = IF T \ {1} # {} THEN Min(T \ {1}) ELSE First(T)
  BY DEF At
<1> HIDE DEF T
<1>6. CASE T = {}
  BY <1>2, <1>4, <1>5, <1>6
<1>7. CASE T # {}
  <2>1. At(s, name) \in T
    BY <1>2, <1>3, <1>5, <1>7
  <2>2. QED
    BY <1>4, <2>1
<1>8. QED
  BY <1>6, <1>7

\* Only the names count, and where they are.
LEMMA AtSame ==
    ASSUME NEW s, NEW t, DOMAIN s = DOMAIN t, NEW name,
           \A j \in DOMAIN s : s[j].name = name <=> t[j].name = name
    PROVE  At(s, name) = At(t, name)
<1>1. Places(s, name) = Places(t, name)
  BY DEF Places
<1>2. QED
  BY <1>1 DEF At

\* The parameters with one of them set.
With(s, name, value) ==
    LET param == [name |-> name, value |-> value]
    IN IF At(s, name) = 0 THEN Append(s, param) ELSE [s EXCEPT ![At(s, name)] = param]

\* A parameter that is set is found, and any other one as before.
LEMMA AtSet ==
    ASSUME NEW s, IsSequence(s), NEW name, NEW value
    PROVE  LET t == With(s, name, value)
           IN /\ IsSequence(t) /\ At(t, name) # 0 /\ t[At(t, name)].value = value
              /\ \A m : m # name => /\ At(t, m) = At(s, m)
                                    /\ At(s, m) # 0 => t[At(s, m)] = s[At(s, m)]
<1> DEFINE n == Len(s)
           i == At(s, name)
           param == [name |-> name, value |-> value]
           t == IF i = 0 THEN Append(s, param) ELSE [s EXCEPT ![i] = param]
           S == ToSet(s) \cup {param}
<1>1. s \in Seq(ToSet(s)) /\ n \in Nat /\ DOMAIN s = 1 .. n /\ s \in [1 .. n -> S]
  BY SequenceIs, LenProperties
<1>2. /\ i \in 0 .. n
      /\ i = 0 => \A j \in 1 .. n : s[j].name # name
      /\ i # 0 => s[i].name = name
  BY <1>1, AtIs
<1>3. param.name = name /\ param.value = value
  OBVIOUS
<1>4. param \in S
  OBVIOUS
<1> HIDE DEF i, param, S, n
<1>5. CASE i = 0
  <2>1. s \in Seq(S)
    BY <1>1, SeqDef
  <2>2. /\ t = Append(s, param) /\ t \in Seq(S)
        /\ DOMAIN t = 1 .. (n + 1) /\ t[n + 1] = param
        /\ \A j \in 1 .. n : t[j] = s[j]
    BY <1>1, <1>4, <1>5, <2>1, AppendProperties DEF n
  <2> HIDE DEF t
  <2>3. IsSequence(t)
    BY <2>2, SequenceIs
  <2>4. At(t, name) # 0 /\ t[At(t, name)].value = value
    <3>1. n + 1 \in Nat /\ t[n + 1].name = name /\ n + 1 \in 1 .. (n + 1)
      BY <1>1, <1>3, <2>2
    <3>2. /\ At(t, name) \in 0 .. (n + 1)
          /\ At(t, name) = 0 => \A j \in 1 .. (n + 1) : t[j].name # name
          /\ At(t, name) # 0 => t[At(t, name)].name = name
      BY <2>2, <3>1, AtIs
    <3>3. At(t, name) = n + 1
      BY <1>1, <1>2, <1>5, <2>2, <3>1, <3>2
    <3>4. QED
      BY <1>1, <1>3, <2>2, <3>3
  <2>5. ASSUME NEW m, m # name
        PROVE  At(t, m) = At(s, m) /\ (At(s, m) # 0 => t[At(s, m)] = s[At(s, m)])
    <3>1. Places(t, m) = Places(s, m)
      <4>1. \A j : j \in Places(t, m) <=> j \in Places(s, m)
        <5> TAKE j
        <5>1. j \in Places(t, m) <=> j \in 1 .. (n + 1) /\ t[j].name = m
          BY <2>2 DEF Places
        <5>2. j \in Places(s, m) <=> j \in 1 .. n /\ s[j].name = m
          BY <1>1 DEF Places
        <5>3. j \in 1 .. (n + 1) <=> j \in 1 .. n \/ j = n + 1
          BY <1>1
        <5>4. t[n + 1].name # m /\ n + 1 \notin 1 .. n
          BY <1>1, <1>3, <2>2, <2>5
        <5>5. QED
          BY <2>2, <5>1, <5>2, <5>3, <5>4
      <4>2. QED
        BY <4>1
    <3>2. At(s, m) \in 0 .. n
      BY <1>1, AtIs
    <3>3. QED
      BY <1>1, <2>2, <3>1, <3>2 DEF At
  <2>6. QED
    BY <2>3, <2>4, <2>5 DEF t, i, param, With
<1>6. CASE i # 0
  <2>1. i \in 1 .. n
    BY <1>1, <1>2, <1>6
  <2>2. /\ t = [s EXCEPT ![i] = param] /\ t \in [1 .. n -> S]
        /\ DOMAIN t = 1 .. n /\ t[i] = param
        /\ \A j \in 1 .. n : j # i => t[j] = s[j]
    BY <1>1, <1>4, <1>6, <2>1
  <2> HIDE DEF t
  <2>3. IsSequence(t)
    <3>1. t \in Seq(S)
      BY <1>1, <2>2, SeqDef
    <3>2. QED
      BY <3>1, SequenceIs
  <2>4. DOMAIN s = DOMAIN t /\ \A m : \A j \in DOMAIN s : s[j].name = m <=> t[j].name = m
    BY <1>1, <1>2, <1>3, <1>6, <2>2
  <2>5. \A m : At(t, m) = At(s, m)
    BY <2>4, AtSame
  <2>6. At(t, name) = i
    BY <2>5 DEF i
  <2>7. ASSUME NEW m, m # name, At(s, m) # 0 PROVE t[At(s, m)] = s[At(s, m)]
    <3>1. At(s, m) \in 1 .. n /\ s[At(s, m)].name = m
      BY <1>1, <2>7, AtIs
    <3>2. At(s, m) # i
      BY <1>2, <1>6, <2>7, <3>1
    <3>3. QED
      BY <2>2, <3>1, <3>2
  <2>8. QED
    BY <1>3, <1>6, <2>2, <2>3, <2>5, <2>6, <2>7 DEF t, i, param, With
<1>7. QED
  BY <1>5, <1>6

LEMMA SetPathParamIs ==
    ASSUME NEW p, Requested(p), NEW name, NEW value, NEW names
    PROVE  LET q == SetPathParam(p, name, value)
           IN /\ Requested(q) /\ Keeps(p, q, names)
              /\ PathParam(q, name) = value
              /\ \A m : m # name => PathParam(q, m) = PathParam(p, m)
              /\ \A m : Header(q, m) = Header(p, m)
<1> DEFINE s == p[1].path.params
           t == With(s, name, value)
           path == [base |-> p[1].path.base, params |-> t]
           q == SetPathParam(p, name, value)
<1>1. q = SetPath(p, path)
  <2>1. \A r, u : r = [base |-> r.base, params |-> r.params]
                 => [r EXCEPT !.params = u] = [base |-> r.base, params |-> u]
    OBVIOUS
  <2>2. p[1].path = [base |-> p[1].path.base, params |-> p[1].path.params]
    BY DEF Requested
  <2>3. q = SetPath(p, [p[1].path EXCEPT !.params = t])
    BY ParamAtIs DEF SetPathParam, With
  <2> HIDE DEF t, q
  <2>4. [p[1].path EXCEPT !.params = t] = path
    BY <2>1, <2>2
  <2>5. QED
    BY <2>3, <2>4
<1>2. /\ IsSequence(t) /\ At(t, name) # 0 /\ t[At(t, name)].value = value
      /\ \A m : m # name => /\ At(t, m) = At(s, m)
                            /\ At(s, m) # 0 => t[At(s, m)] = s[At(s, m)]
  BY AtSet DEF Requested
<1> HIDE DEF q, t
<1>3. path.params = t /\ path = [base |-> path.base, params |-> path.params]
  OBVIOUS
<1> HIDE DEF path
<1>4. /\ Requested(q) /\ Keeps(p, q, names)
      /\ q[1].path = path /\ \A m : Header(q, m) = Header(p, m)
  BY <1>1, <1>2, <1>3, SetPathIs
<1>5. \A m : PathParam(q, m) = IF At(t, m) = 0 THEN NoValue ELSE t[At(t, m)].value
  BY <1>3, <1>4, ParamAtIs DEF PathParam, ParamOf
<1>6. \A m : PathParam(p, m) = IF At(s, m) = 0 THEN NoValue ELSE s[At(s, m)].value
  BY ParamAtIs DEF PathParam, ParamOf
<1>7. QED
  BY <1>2, <1>4, <1>5, <1>6 DEF q

-----------------------------------------------------------------------------
(* What Rewrite does *)

HeaderNames == {h.name : h \in ToSet(config.headers)}

\* The i-th of the first k settings is the last of its name.
LastOf(settings, i, k) == \A j \in 1 .. k : settings[j].name = settings[i].name => j <= i

LEMMA LastIs ==
    ASSUME NEW settings, IsSequence(settings), NEW s \in Final(settings)
    PROVE  \E i \in 1 .. Len(settings) : s = settings[i] /\ LastOf(settings, i, Len(settings))
<1>1. DOMAIN settings = 1 .. Len(settings)
  BY SequenceIs
<1>2. PICK i \in DOMAIN settings :
         s = settings[i] /\ \A j \in DOMAIN settings : settings[j].name = settings[i].name => j <= i
  BY DEF Final
<1>3. QED
  BY <1>1, <1>2 DEF LastOf

LEMMA SetHeadersIs ==
    ASSUME NEW p, Titled(p), IsSequence(config.headers), \A name \in HeaderNames : InHead(p, name)
    PROVE  LET q == SetHeaders(p)
           IN /\ Keeps(p, q, HeaderNames) /\ q[1] = p[1]
              /\ \A h \in Final(config.headers) : Header(q, h.name) = h.value /\ header(q, h.name) # 0
<1> DEFINE s == config.headers
           n == Len(s)
<1>1. PICK x : Chain(x, "headers", p, n) /\ x[n] = SetHeaders(p)
  BY HeadersChain
<1>2. /\ n \in Nat /\ x[0] = p
      /\ \A k \in 1 .. n : x[k] = SetHeader(x[k - 1], s[k].name, s[k].value)
  BY <1>1, SequenceIs DEF Chain, Apply
<1>3. \A k \in 1 .. n : s[k].name \in HeaderNames
  BY SequenceIs, ElementOfSeq DEF HeaderNames
<1> DEFINE Done(k) == /\ Keeps(p, x[k], HeaderNames) /\ x[k][1] = p[1]
                      /\ \A i \in 1 .. k : LastOf(s, i, k) =>
                            Header(x[k], s[i].name) = s[i].value /\ header(x[k], s[i].name) # 0
           S == {k \in Nat : Done(k)}
<1> HIDE DEF n, s
<1>4. 0 \in S
  BY <1>2, KeepsItself
<1>5. ASSUME NEW k \in 1 .. n, k - 1 \in S PROVE k \in S
  <2> DEFINE q == x[k - 1]
             r == x[k]
             name == s[k].name
  <2>1. /\ Keeps(p, q, HeaderNames) /\ q[1] = p[1] /\ k \in Nat /\ k - 1 \in Nat
        /\ \A i \in 1 .. (k - 1) : LastOf(s, i, k - 1) =>
              Header(q, s[i].name) = s[i].value /\ header(q, s[i].name) # 0
    BY <1>5
  <2>2. r = SetHeader(q, name, s[k].value) /\ name \in HeaderNames
    BY <1>2, <1>3
  <2> HIDE DEF q, r
  <2>3. Titled(q) /\ InHead(q, name)
    BY <2>1, <2>2 DEF Keeps
  <2>4. /\ Keeps(q, r, HeaderNames) /\ r[1] = q[1]
        /\ Header(r, name) = s[k].value /\ header(r, name) # 0
        /\ \A m : m # name => Header(r, m) = Header(q, m)
    BY <2>2, <2>3, SetHeaderOn
  <2>5. Keeps(p, r, HeaderNames)
    BY <2>1, <2>4, KeepsOn
  <2>6. ASSUME NEW i \in 1 .. k, LastOf(s, i, k)
        PROVE  Header(r, s[i].name) = s[i].value /\ header(r, s[i].name) # 0
    <3>1. CASE i = k
      BY <2>4, <3>1
    <3>2. CASE i # k
      <4>1. i \in 1 .. (k - 1) /\ s[i].name # name
        BY <1>2, <2>6, <3>2 DEF LastOf
      <4>2. LastOf(s, i, k - 1)
        BY <1>2, <2>6 DEF LastOf
      <4>3. QED
        BY <2>1, <2>4, <4>1, <4>2 DEF Keeps
    <3>3. QED
      BY <3>1, <3>2
  <2>7. Done(k)
    BY <2>1, <2>4, <2>5, <2>6 DEF r
  <2>8. QED
    BY <2>1, <2>7
<1> HIDE DEF S
<1>6. \A k \in 0 .. n : k \in S
  BY <1>2, <1>4, <1>5, UpTo
<1>7. Done(n)
  BY <1>2, <1>6 DEF S
<1>8. \A h \in Final(s) : Header(x[n], h.name) = h.value /\ header(x[n], h.name) # 0
  BY <1>7, LastIs DEF n, s
<1>9. QED
  BY <1>1, <1>7, <1>8 DEF n, s

LEMMA SetParamsIs ==
    ASSUME NEW p, Requested(p), IsSequence(config.params), NEW names
    PROVE  LET q == SetParams(p)
           IN /\ Requested(q) /\ Keeps(p, q, names)
              /\ \A param \in Final(config.params) : PathParam(q, param.name) = param.value
              /\ \A m : Header(q, m) = Header(p, m)
<1> DEFINE s == config.params
           n == Len(s)
<1>1. PICK x : Chain(x, "params", p, n) /\ x[n] = SetParams(p)
  BY ParamsChain
<1>2. /\ n \in Nat /\ x[0] = p
      /\ \A k \in 1 .. n : x[k] = SetPathParam(x[k - 1], s[k].name, s[k].value)
  BY <1>1, SequenceIs DEF Chain, Apply
<1> DEFINE Done(k) == /\ Requested(x[k]) /\ Keeps(p, x[k], names)
                      /\ \A m : Header(x[k], m) = Header(p, m)
                      /\ \A i \in 1 .. k : LastOf(s, i, k) => PathParam(x[k], s[i].name) = s[i].value
           S == {k \in Nat : Done(k)}
<1> HIDE DEF n, s
<1>4. 0 \in S
  BY <1>2, KeepsItself DEF Requested
<1>5. ASSUME NEW k \in 1 .. n, k - 1 \in S PROVE k \in S
  <2> DEFINE q == x[k - 1]
             r == x[k]
             name == s[k].name
  <2>1. /\ Requested(q) /\ Keeps(p, q, names) /\ k \in Nat /\ k - 1 \in Nat
        /\ \A m : Header(q, m) = Header(p, m)
        /\ \A i \in 1 .. (k - 1) : LastOf(s, i, k - 1) => PathParam(q, s[i].name) = s[i].value
    BY <1>5
  <2>2. r = SetPathParam(q, name, s[k].value)
    BY <1>2
  <2> HIDE DEF q, r
  <2>4. /\ Requested(r) /\ Keeps(q, r, names)
        /\ PathParam(r, name) = s[k].value
        /\ \A m : m # name => PathParam(r, m) = PathParam(q, m)
        /\ \A m : Header(r, m) = Header(q, m)
    BY <2>1, <2>2, SetPathParamIs
  <2>5. Keeps(p, r, names)
    <3>1. Keeps(p, r, names \cup names)
      BY <2>1, <2>4, KeepsOn
    <3>2. QED
      BY <3>1
  <2>6. ASSUME NEW i \in 1 .. k, LastOf(s, i, k) PROVE PathParam(r, s[i].name) = s[i].value
    <3>1. CASE i = k
      BY <2>4, <3>1
    <3>2. CASE i # k
      <4>1. i \in 1 .. (k - 1) /\ s[i].name # name
        BY <1>2, <2>6, <3>2 DEF LastOf
      <4>2. LastOf(s, i, k - 1)
        BY <1>2, <2>6 DEF LastOf
      <4>3. QED
        BY <2>1, <2>4, <4>1, <4>2
    <3>3. QED
      BY <3>1, <3>2
  <2>7. Done(k)
    BY <2>1, <2>4, <2>5, <2>6 DEF r
  <2>8. QED
    BY <2>1, <2>7
<1> HIDE DEF S
<1>6. \A k \in 0 .. n : k \in S
  BY <1>2, <1>4, <1>5, UpTo
<1>7. Done(n)
  BY <1>2, <1>6 DEF S
<1>8. \A param \in Final(s) : PathParam(x[n], param.name) = param.value
  BY <1>7, LastIs DEF n, s
<1>9. QED
  BY <1>1, <1>7, <1>8 DEF n, s

\* A path that was rewritten or not: it has the parameters, or is made of one that has.
PathSet(path) ==
    \/ ParamsSet(path)
    \/ \E f \in ToSet(config.rewriteURL) : \E from \in DOMAIN f : ParamsSet(from) /\ path = f[from]

LEMMA RewriteURLIs ==
    ASSUME NEW p, Requested(p), NEW names, IsSequence(config.rewriteURL),
           \A f \in ToSet(config.rewriteURL) : \A path \in DOMAIN f : IsPath(f[path]),
           ParamsSet(p[1].path)
    PROVE  LET q == RewriteURL(p)
           IN /\ Requested(q) /\ Keeps(p, q, names)
              /\ PathSet(q[1].path)
              /\ \A m : Header(q, m) = Header(p, m)
<1> DEFINE s == config.rewriteURL
           from == p[1].path
           q == RewriteURL(p)
           i == First({j \in DOMAIN s : from \in DOMAIN s[j]})
<1>1. DOMAIN s = 1 .. Len(s) /\ Len(s) \in Nat /\ \A j \in 1 .. Len(s) : s[j] \in ToSet(s)
  BY SequenceIs, ElementOfSeq DEF ToSet
<1>2. q = IF i = 0 THEN p ELSE SetPath(p, s[i][from])
  BY DEF RewriteURL
<1>3. i # 0 => i \in DOMAIN s /\ from \in DOMAIN s[i]
  <2>1. {j \in DOMAIN s : from \in DOMAIN s[j]} \in SUBSET Nat
    BY <1>1
  <2>2. QED
    BY <2>1, FirstIs
<1> HIDE DEF q, i, s
<1>4. CASE i = 0
  <2>1. Titled(p)
    BY DEF Requested
  <2>2. QED
    BY <1>2, <1>4, <2>1, KeepsItself DEF PathSet, q
<1>5. CASE i # 0
  <2> DEFINE f == s[i]
             path == f[from]
  <2>1. f \in ToSet(s) /\ from \in DOMAIN f
    BY <1>1, <1>3, <1>5
  <2>2. IsPath(path)
    BY <2>1 DEF s
  <2> HIDE DEF f
  <2>3. PathSet(path)
    BY <2>1 DEF PathSet, s
  <2>4. q = SetPath(p, path)
    BY <1>2, <1>5 DEF f
  <2> HIDE DEF path
  <2>5. /\ Requested(q) /\ Keeps(p, q, names)
        /\ q[1].path = path /\ \A m : Header(q, m) = Header(p, m)
    BY <2>2, <2>4, SetPathIs DEF IsPath
  <2>6. QED
    BY <2>3, <2>5 DEF q
<1>6. QED
  BY <1>4, <1>5

\* A header is set or not, and the rewriting goes on or not.
MayBe(r, p, f) ==
    \E halt \in BOOLEAN : r \in {[p |-> p, stop |-> halt],
                                 [p |-> SetHeader(p, f.name, f.target), stop |-> halt]}

LEMMA RewriteOneIs ==
    ASSUME NEW at, at = [p |-> at.p, stop |-> at.stop], at.stop \in BOOLEAN, NEW f
    PROVE  MayBe(RewriteOne(at, f), at.p, f)
<1> DEFINE new == SetHeader(at.p, f.name, f.target)
<1>1. RewriteOne(at, f) \in {[at EXCEPT !.stop = TRUE], at, [at EXCEPT !.p = new]}
  BY DEF RewriteOne
<1>2. \A r, u : r = [p |-> r.p, stop |-> r.stop] =>
         /\ [r EXCEPT !.stop = u] = [p |-> r.p, stop |-> u]
         /\ [r EXCEPT !.p = u] = [p |-> u, stop |-> r.stop]
  OBVIOUS
<1> HIDE DEF new
<1>3. /\ [at EXCEPT !.stop = TRUE] = [p |-> at.p, stop |-> TRUE]
      /\ [at EXCEPT !.p = new] = [p |-> new, stop |-> at.stop]
  BY <1>2
<1>4. RewriteOne(at, f) \in {[p |-> at.p, stop |-> TRUE], [p |-> at.p, stop |-> at.stop],
                             [p |-> new, stop |-> at.stop]}
  BY <1>1, <1>3
<1>5. QED
  BY <1>4 DEF MayBe, new

LEMMA RewriteHeadersIs ==
    ASSUME NEW p, Titled(p), IsSequence(config.rewriteHeader), \A name \in Rewritten : InHead(p, name)
    PROVE  Keeps(p, RewriteHeaders(p), Rewritten) /\ RewriteHeaders(p)[1] = p[1]
<1> DEFINE s == config.rewriteHeader
           n == Len(s)
           base == [p |-> p, stop |-> FALSE]
<1>1. PICK x : Chain(x, "rewrite", base, n) /\ RewriteHeaders(p) = x[n].p
  BY RewriteChain
<1>2. n \in Nat /\ x[0] = base /\ \A k \in 1 .. n : x[k] = RewriteOne(x[k - 1], s[k])
  BY <1>1, SequenceIs DEF Chain, Apply
<1>3. \A k \in 1 .. n : s[k].name \in Rewritten
  BY SequenceIs, ElementOfSeq DEF Rewritten
<1> DEFINE Done(k) == /\ x[k] = [p |-> x[k].p, stop |-> x[k].stop] /\ x[k].stop \in BOOLEAN
                      /\ Keeps(p, x[k].p, Rewritten) /\ x[k].p[1] = p[1]
           S == {k \in Nat : Done(k)}
<1> HIDE DEF n, s
<1>4. 0 \in S
  <2>1. x[0].p = p /\ x[0].stop = FALSE
    BY <1>2
  <2>2. Done(0)
    BY <1>2, <2>1, KeepsItself
  <2> HIDE DEF Done
  <2>3. QED
    BY <2>2
<1>5. ASSUME NEW k \in 1 .. n, k - 1 \in S PROVE k \in S
  <2> DEFINE at == x[k - 1]
             q == at.p
             r == SetHeader(q, s[k].name, s[k].target)
  <2>1. /\ at = [p |-> q, stop |-> at.stop] /\ at.stop \in BOOLEAN
        /\ Keeps(p, q, Rewritten) /\ q[1] = p[1]
    BY <1>5
  <2> HIDE DEF at, q
  <2>2. PICK halt \in BOOLEAN : x[k] \in {[p |-> q, stop |-> halt], [p |-> r, stop |-> halt]}
    <3>1. x[k] = RewriteOne(at, s[k])
      BY <1>2 DEF at
    <3>2. MayBe(RewriteOne(at, s[k]), at.p, s[k])
      BY <2>1, RewriteOneIs DEF q
    <3>3. QED
      BY <3>1, <3>2 DEF MayBe, q
  <2>3. Keeps(p, r, Rewritten) /\ r[1] = p[1]
    <3>1. s[k].name \in Rewritten /\ Titled(q) /\ InHead(q, s[k].name)
      BY <1>3, <2>1 DEF Keeps
    <3>2. Keeps(q, r, Rewritten) /\ r[1] = q[1]
      BY <3>1, SetHeaderOn
    <3> HIDE DEF r
    <3>3. Keeps(p, r, Rewritten \cup Rewritten)
      BY <2>1, <3>2, KeepsOn
    <3>4. QED
      BY <2>1, <3>2, <3>3
  <2>4. \E u : x[k] = [p |-> u, stop |-> halt] /\ Keeps(p, u, Rewritten) /\ u[1] = p[1]
    BY <2>1, <2>2, <2>3
  <2>5. Done(k)
    BY <2>4
  <2> HIDE DEF Done
  <2>6. k \in Nat
    BY <1>2
  <2>7. QED
    BY <2>5, <2>6
<1> HIDE DEF S
<1>6. \A k \in 0 .. n : k \in S
  BY <1>2, <1>4, <1>5, UpTo
<1>7. n \in S
  BY <1>2, <1>6
<1>8. Done(n)
  BY <1>7 DEF S
<1>9. QED
  BY <1>1, <1>8

\* A request that is not dropped: what is kept, and what is set.
LEMMA RewriteIs ==
    ASSUME NEW p, Requested(p), \A name \in HeaderNames \cup Rewritten : InHead(p, name),
           IsSequence(config.headers), IsSequence(config.params), IsSequence(config.rewriteHeader),
           IsSequence(config.rewriteURL),
           \A f \in ToSet(config.rewriteURL) : \A path \in DOMAIN f : IsPath(f[path]),
           Rewrite(p) # <<>>
    PROVE  LET q == Rewrite(p)
           IN /\ Keeps(p, q, HeaderNames \cup Rewritten)
              /\ \A h \in Final(config.headers) :
                    header(q, h.name) # 0 /\ (h.name \notin Rewritten => Header(q, h.name) = h.value)
              /\ PathSet(q[1].path)
<1> DEFINE a == SetHeaders(p)
           b == SetParams(a)
           c == RewriteURL(b)
           d == RewriteHeaders(c)
<1>1. Rewrite(p) = d
  BY DEF Rewrite, Requested, Titled, HasTitle, HasRequestTitle
<1>2. /\ Keeps(p, a, HeaderNames) /\ a[1] = p[1]
      /\ \A h \in Final(config.headers) : Header(a, h.name) = h.value /\ header(a, h.name) # 0
  BY SetHeadersIs DEF Requested
<1> HIDE DEF a
<1>3. Requested(a)
  BY <1>2 DEF Requested, Keeps
<1>4. /\ Requested(b) /\ Keeps(a, b, {})
      /\ ParamsSet(b[1].path)
      /\ \A m : Header(b, m) = Header(a, m)
  BY <1>3, SetParamsIs DEF ParamsSet, PathParam
<1> HIDE DEF b
<1>5. /\ Requested(c) /\ Keeps(b, c, {})
      /\ PathSet(c[1].path)
      /\ \A m : Header(c, m) = Header(b, m)
  BY <1>4, RewriteURLIs
<1> HIDE DEF c
<1>6. Titled(c) /\ \A name \in Rewritten : InHead(c, name)
  BY <1>2, <1>4, <1>5 DEF Keeps
<1>7. Keeps(c, d, Rewritten) /\ d[1] = c[1]
  BY <1>6, RewriteHeadersIs
<1> HIDE DEF d
<1>8. Keeps(p, d, HeaderNames \cup Rewritten)
  <2>1. Keeps(p, b, HeaderNames \cup {})
    BY <1>2, <1>4, KeepsOn
  <2>2. Keeps(p, c, (HeaderNames \cup {}) \cup {})
    BY <1>5, <2>1, KeepsOn
  <2>3. Keeps(p, d, ((HeaderNames \cup {}) \cup {}) \cup Rewritten)
    BY <1>7, <2>2, KeepsOn
  <2>4. ((HeaderNames \cup {}) \cup {}) \cup Rewritten = HeaderNames \cup Rewritten
    OBVIOUS
  <2>5. QED
    BY <2>3, <2>4
<1>9. ASSUME NEW h \in Final(config.headers)
      PROVE  header(d, h.name) # 0 /\ (h.name \notin Rewritten => Header(d, h.name) = h.value)
  <2>1. header(d, h.name) # 0
    BY <1>2, <1>4, <1>5, <1>7 DEF Keeps
  <2>2. h.name \notin Rewritten => Header(d, h.name) = h.value
    BY <1>2, <1>4, <1>5, <1>7 DEF Keeps
  <2>3. QED
    BY <2>1, <2>2
<1>10. PathSet(d[1].path)
  BY <1>5, <1>7
<1>11. QED
  BY <1>1, <1>8, <1>9, <1>10

-----------------------------------------------------------------------------
(* The states *)

\* What rewriting has made of the original, if no name is found in its body.
Rewrites(p) ==
    /\ ~HasRequestTitle(original) => p = original
    /\ (HasRequestTitle(original) /\ \A name \in HeaderNames \cup Rewritten : InHead(original, name)) =>
          /\ Keeps(original, p, HeaderNames \cup Rewritten)
          /\ \A h \in Final(config.headers) :
                header(p, h.name) # 0 /\ (h.name \notin Rewritten => Header(p, h.name) = h.value)
          /\ PathSet(p[1].path)

ModifierInv ==
    /\ config \in Configs /\ original \in Payloads
    /\ step = "read" => payload = original
    /\ step = "modified" => Rewrites(payload)
    /\ step = "written" =>
          /\ payload # <<>>
          /\ \E p : Rewrites(p) /\ payload = IF config.prettify THEN PrettifyHTTP(p) ELSE p

LEMMA ModifierAlways == ModifierSpec => []ModifierInv
<1>1. ModifierInit => ModifierInv
  BY DEF ModifierInit, ModifierInv
<1>2. ASSUME ModifierInv, [Modify \/ Prettify]_modifierVars PROVE ModifierInv'
  <2>1. CASE Modify
    <3>1. payload = original /\ config \in Configs /\ original \in Payloads
      BY <1>2, <2>1 DEF ModifierInv, Modify
    <3>2. /\ config' = config /\ original' = original /\ payload' = Rewrite(original)
          /\ step' = IF Rewrite(original) = <<>> THEN "dropped" ELSE "modified"
      BY <2>1, <3>1 DEF Modify, Becomes
    <3>3. ASSUME Rewrite(original) # <<>> PROVE Rewrites(Rewrite(original))
      <4>1. CASE ~HasRequestTitle(original)
        BY <4>1 DEF Rewrites, Rewrite
      <4>2. CASE HasRequestTitle(original) /\ \A name \in HeaderNames \cup Rewritten : InHead(original, name)
        <5>1. Requested(original)
          BY <3>1, <4>2, ModifierAssumption
             DEF Requested, Titled, HasTitle, HasRequestTitle, WellFormed, IsPath
        <5>2. /\ IsSequence(config.headers) /\ IsSequence(config.params)
              /\ IsSequence(config.rewriteHeader) /\ IsSequence(config.rewriteURL)
              /\ \A f \in ToSet(config.rewriteURL) : \A path \in DOMAIN f : IsPath(f[path])
          BY <3>1, ModifierAssumption DEF Options
        <5>3. QED
          BY <3>3, <4>2, <5>1, <5>2, RewriteIs DEF Rewrites
      <4>3. QED
        BY <4>1, <4>2 DEF Rewrites
    <3>4. step' = "modified" => Rewrites(Rewrite(original))
      BY <3>2, <3>3
    <3> DEFINE r == Rewrite(original)
    <3> HIDE DEF r
    <3>5. step' = "modified" => Rewrites(payload)'
      <4>1. payload' = r /\ (step' = "modified" => Rewrites(r))
        BY <3>2, <3>4 DEF r
      <4>2. QED
        BY <3>2, <4>1 DEF Rewrites, HeaderNames, Rewritten, PathSet, ParamsSet
    <3>6. step' # "read" /\ step' # "written"
      BY <3>2
    <3>7. QED
      BY <3>1, <3>2, <3>5, <3>6 DEF ModifierInv
  <2>2. CASE Prettify
    <3>1. Rewrites(payload) /\ config \in Configs /\ original \in Payloads
      BY <1>2, <2>2 DEF ModifierInv, Prettify
    <3> DEFINE new == IF config.prettify THEN PrettifyHTTP(payload) ELSE payload
    <3>2. /\ config' = config /\ original' = original /\ payload' = new
          /\ step' = IF new = <<>> THEN "dropped" ELSE "written"
      BY <2>2 DEF Prettify, Becomes
    <3>3. PICK p : p = payload
      OBVIOUS
    <3>4. Rewrites(p)'
      BY <3>1, <3>2, <3>3 DEF Rewrites, HeaderNames, Rewritten, PathSet, ParamsSet
    <3>5. payload' = IF config'.prettify THEN PrettifyHTTP(p) ELSE p
      BY <3>2, <3>3
    <3>6. step' # "read" /\ step' # "modified" /\ (step' = "written" => payload' # <<>>)
      BY <3>2
    <3> HIDE DEF new
    <3>7. QED
      BY <3>1, <3>2, <3>4, <3>5, <3>6 DEF ModifierInv
  <2>3. CASE UNCHANGED modifierVars
    BY <1>2, <2>3 DEF modifierVars, ModifierInv, Rewrites, HeaderNames, Rewritten, PathSet, ParamsSet
  <2>4. QED
    BY <1>2, <2>1, <2>2, <2>3
<1>3. QED
  BY <1>1, <1>2, PTL DEF ModifierSpec

-----------------------------------------------------------------------------
(* Theorems *)

LEMMA NotInBody ==
    ASSUME Titled(original), ~FoundInBody
    PROVE  \A name \in LookedFor : InHead(original, name)
<1> DEFINE e == MIMEHeadersEndPos(original)
<1> SUFFICES ASSUME NEW name \in LookedFor, e # 0 PROVE header(original, name) <= e
  BY DEF InHead
<1>1. header(Headers(original), name) = IF header(original, name) <= e THEN header(original, name) ELSE 0
  BY HeadersIs
<1>2. header(original, name) \in {0} \cup 2 .. Len(original) /\ e \in {0} \cup 2 .. Len(original)
  BY HeaderIs, EndIs
<1>3. Len(original) \in Nat
  BY TitledIs
<1>4. header(Headers(original), name) # 0 \/ header(original, name) = 0
  BY DEF FoundInBody
<1> HIDE DEF e
<1>5. QED
  BY <1>1, <1>2, <1>3, <1>4

\* The encodings of a body can be undone.
LEMMA BodyDecodable ==
    ASSUME NEW p, Titled(p), WellFormed(p)
    PROVE  Decodable(Body(p)) /\ Decodable(Dechunked(Body(p)))
<1> DEFINE b == Body(p)
           e == MIMEHeadersEndPos(p)
<1>1. \A i \in DOMAIN p : p[i].kind \in {"chunked", "gzip"} =>
          /\ IsSequence(p[i].content)
          /\ \A j \in DOMAIN p[i].content :
                p[i].content[j].kind = "gzip" => IsSequence(p[i].content[j].content)
  BY DEF WellFormed
<1>2. IsSequence(<<>>) /\ \A kind : ~IsEncoded(<<>>, kind)
  BY EmptySeq, SequenceIs DEF IsEncoded
<1>3. CASE e = 0
  <2>1. b = <<>> /\ Dechunked(b) = <<>>
    BY <1>2, <1>3 DEF Body, Dechunked
  <2>2. QED
    BY <1>2, <2>1 DEF Decodable
<1>4. CASE e # 0
  <2>1. /\ b \in Seq(ToSet(p)) /\ Len(b) = Len(p) - e
        /\ \A j \in 1 .. Len(p) - e : b[j] = p[e + j]
    BY <1>4, BodyIs
  <2>2. Len(p) \in Nat /\ e \in 2 .. Len(p) /\ DOMAIN p = 1 .. Len(p)
    BY <1>4, TitledIs, EndIs
  <2>3. IsSequence(b)
    BY <2>1, SequenceIs
  <2> HIDE DEF b, e
  <2>4. ASSUME b # <<>> PROVE \E i \in DOMAIN p : b[1] = p[i]
    <3>1. Len(b) # 0
      BY <2>1, <2>4, EmptySeq
    <3>2. 1 \in 1 .. Len(p) - e /\ e + 1 \in DOMAIN p
      BY <2>1, <2>2, <3>1
    <3>3. QED
      BY <2>1, <3>2
  <2>5. Decodable(b)
    BY <1>1, <2>3, <2>4 DEF Decodable, IsEncoded
  <2>6. Decodable(Dechunked(b))
    <3>1. CASE IsEncoded(b, "chunked")
      <4>1. PICK i \in DOMAIN p : b[1] = p[i] /\ p[i].kind = "chunked"
        BY <2>4, <3>1 DEF IsEncoded
      <4> DEFINE c == p[i].content
      <4>2. /\ Dechunked(b) = c /\ IsSequence(c)
            /\ \A j \in DOMAIN c : c[j].kind = "gzip" => IsSequence(c[j].content)
        BY <1>1, <3>1, <4>1 DEF Dechunked
      <4> HIDE DEF c
      <4>3. IsEncoded(c, "gzip") => 1 \in DOMAIN c
        <5>1. c \in Seq(ToSet(c)) /\ Len(c) \in Nat /\ DOMAIN c = 1 .. Len(c)
          BY <4>2, SequenceIs
        <5>2. c # <<>> => Len(c) # 0
          BY <5>1, EmptySeq
        <5>3. QED
          BY <5>1, <5>2 DEF IsEncoded
      <4>4. QED
        BY <4>2, <4>3 DEF Decodable, IsEncoded
    <3>2. CASE ~IsEncoded(b, "chunked")
      BY <1>2, <3>2 DEF Dechunked, Decodable
    <3>3. QED
      BY <3>1, <3>2
  <2>7. QED
    BY <2>5, <2>6 DEF b
<1>5. QED
  BY <1>3, <1>4

\* The payload in front of the prettifier.
Between(p) ==
    /\ Titled(p) /\ Keeps(original, p, HeaderNames \cup Rewritten)
    /\ \A name \in LookedFor : InHead(original, name) /\ InHead(p, name)
    /\ Decodable(Body(p)) /\ Decodable(Content(p))
    /\ HasRequestTitle(original) =>
          /\ \A h \in Final(config.headers) :
                header(p, h.name) # 0 /\ (h.name \notin Rewritten => Header(p, h.name) = h.value)
          /\ PathSet(p[1].path)
    /\ payload # p =>
          /\ config.prettify /\ payload = PrettifyHTTP(p) /\ PrettifyHTTP(p) \notin {p, <<>>}
          /\ InHead(original, "Transfer-Encoding") /\ InHead(p, "Transfer-Encoding")

LEMMA WrittenIs ==
    ASSUME ModifierInv, step = "written", HasTitle(original), ~FoundInBody
    PROVE  \E p : Between(p)
<1>1. /\ WellFormed(original) /\ Titled(original) /\ payload # <<>>
  BY ModifierAssumption DEF ModifierInv, WellFormed, Titled
<1>2. PICK p : Rewrites(p) /\ payload = IF config.prettify THEN PrettifyHTTP(p) ELSE p
  BY DEF ModifierInv
<1>3. \A name \in LookedFor : InHead(original, name)
  BY <1>1, NotInBody
<1>4. \A name \in HeaderNames \cup Rewritten : name \in LookedFor
  BY DEF LookedFor, HeaderNames
<1>5. /\ Keeps(original, p, HeaderNames \cup Rewritten)
      /\ HasRequestTitle(original) =>
          /\ \A h \in Final(config.headers) :
                header(p, h.name) # 0 /\ (h.name \notin Rewritten => Header(p, h.name) = h.value)
          /\ PathSet(p[1].path)
  <2>1. CASE HasRequestTitle(original)
    BY <1>2, <1>3, <1>4, <2>1 DEF Rewrites
  <2>2. CASE ~HasRequestTitle(original)
    BY <1>1, <1>2, <2>2, KeepsItself DEF Rewrites
  <2>3. QED
    BY <2>1, <2>2
<1>6. Titled(p) /\ Body(p) = Body(original) /\ \A m : InHead(original, m) => InHead(p, m)
  BY <1>5 DEF Keeps
<1>7. Decodable(Body(p)) /\ Decodable(Content(p))
  BY <1>1, <1>6, BodyDecodable DEF Content
<1>8. config.prettify => "Transfer-Encoding" \in LookedFor
  BY DEF LookedFor
<1>9. payload # p =>
          /\ config.prettify /\ payload = PrettifyHTTP(p) /\ PrettifyHTTP(p) \notin {p, <<>>}
          /\ InHead(original, "Transfer-Encoding") /\ InHead(p, "Transfer-Encoding")
  BY <1>1, <1>2, <1>3, <1>6, <1>8
<1>10. QED
  BY <1>3, <1>5, <1>6, <1>7, <1>9 DEF Between

\* A request is written with every header that is set, whatever else is set, rewritten
\* and decoded after it, and with every parameter, unless a rewriting matched: that
\* one has made the path of one which had them all.
THEOREM SettingsAreThere == ModifierSpec => []SettingsHold
<1>1. ASSUME ModifierInv PROVE SettingsHold
  <2> SUFFICES ASSUME step = "written", HasRequestTitle(original), ~FoundInBody
               PROVE  /\ \A h \in Final(config.headers) :
                            h.name \notin Rewritten \cup Prettified => Header(payload, h.name) = h.value
                      /\ PathSet(payload[1].path)
    BY DEF SettingsHold, PathSet
  <2>1. HasTitle(original)
    BY DEF HasTitle, HasRequestTitle
  <2>2. PICK p : Between(p)
    BY <1>1, <2>1, WrittenIs
  <2>3. /\ \A h \in Final(config.headers) :
              header(p, h.name) # 0 /\ (h.name \notin Rewritten => Header(p, h.name) = h.value)
        /\ PathSet(p[1].path)
    BY <2>2 DEF Between
  <2>4. CASE payload = p
    BY <2>3, <2>4
  <2>5. CASE payload # p
    <3>1. /\ config.prettify /\ payload = PrettifyHTTP(p) /\ PrettifyHTTP(p) \notin {p, <<>>}
          /\ InHead(p, "Transfer-Encoding") /\ Titled(p)
          /\ Decodable(Body(p)) /\ Decodable(Content(p))
      BY <2>2, <2>5 DEF Between
    <3>2. /\ MIMEHeadersEndPos(p) # 0
          /\ \E h, c :
                /\ payload = h \o c /\ Ended(h) /\ IsSequence(c) /\ h[1] = p[1]
                /\ \A m : m \notin {"Transfer-Encoding", "Content-Encoding", "Content-Length"} =>
                      /\ (header(h, m) = 0 <=> header(Headers(p), m) = 0)
                      /\ Header(h, m) = Header(Headers(p), m)
      BY <3>1, PrettifyIs
    <3>3. PICK h, c :
             /\ payload = h \o c /\ Ended(h) /\ IsSequence(c) /\ h[1] = p[1]
             /\ \A m : m \notin {"Transfer-Encoding", "Content-Encoding", "Content-Length"} =>
                   /\ (header(h, m) = 0 <=> header(Headers(p), m) = 0)
                   /\ Header(h, m) = Header(Headers(p), m)
      BY <3>2
    <3>4. payload[1] = h[1] /\ \A m : header(h, m) # 0 => Header(payload, m) = Header(h, m)
      BY <3>3, Together
    <3>5. PathSet(payload[1].path)
      BY <2>3, <3>3, <3>4
    <3>6. ASSUME NEW s \in Final(config.headers), s.name \notin Rewritten \cup Prettified
          PROVE  Header(payload, s.name) = s.value
      <4>1. header(p, s.name) # 0 /\ Header(p, s.name) = s.value /\ InHead(p, s.name)
        <5>1. s.name \in LookedFor
          BY DEF LookedFor, Final, ToSet
        <5>2. QED
          BY <2>2, <2>3, <3>6, <5>1 DEF Between
      <4>2. header(Headers(p), s.name) # 0 /\ Header(Headers(p), s.name) = s.value
        BY <3>1, <3>2, <4>1, HeadersIs, HeadersSay DEF InHead
      <4>3. s.name \notin {"Transfer-Encoding", "Content-Encoding", "Content-Length"}
        BY <3>1, <3>6 DEF Prettified
      <4>4. QED
        BY <3>3, <3>4, <4>2, <4>3
    <3>7. QED
      BY <3>5, <3>6
  <2>6. QED
    BY <2>4, <2>5
<1>2. QED
  BY <1>1, ModifierAlways, PTL

\* Headers behind a title say that a body is chunks only where it is, and no setting
\* makes them say so, or no longer.
ChunksTold ==
    /\ HasTitle(original)
    /\ Header(Headers(original), "Transfer-Encoding") = "chunked" => IsEncoded(Body(original), "chunked")
    /\ "Transfer-Encoding" \notin HeaderNames \cup Rewritten

\* They say it once, and no setting changes the length either.
ExtentTold ==
    /\ ChunksTold
    /\ Once(original, "Transfer-Encoding")
    /\ "Content-Length" \notin HeaderNames \cup Rewritten

\* What the prettifier has done to such a payload.
LEMMA PrettifiedIs ==
    ASSUME NEW p, Between(p), ChunksTold, ~CutGzip, payload # p
    PROVE  \E h, c :
              /\ payload = h \o c /\ Ended(h) /\ IsSequence(c)
              /\ \/ IsEncoded(Body(original), "chunked") /\ c = Dechunked(Body(original))
                 \/ LET b == Body(original)
                        d == IF IsEncoded(b, "chunked") THEN Dechunked(b) ELSE b
                    IN IsEncoded(d, "gzip") /\ c = d[1].content
              /\ Header(h, "Content-Length") = ToString(Len(c))
              /\ Once(p, "Transfer-Encoding") => Header(h, "Transfer-Encoding") # "chunked"
<1> DEFINE b == Body(original)
           d == IF IsEncoded(b, "chunked") THEN Dechunked(b) ELSE b
<1>1. /\ config.prettify /\ payload = PrettifyHTTP(p) /\ PrettifyHTTP(p) \notin {p, <<>>}
      /\ InHead(original, "Transfer-Encoding") /\ InHead(p, "Transfer-Encoding") /\ Titled(p)
      /\ Decodable(Body(p)) /\ Decodable(Content(p))
  BY DEF Between
<1>2. /\ MIMEHeadersEndPos(p) # 0
      /\ \E h, c :
            /\ payload = h \o c /\ Ended(h) /\ IsSequence(c)
            /\ ~CutInside(p) =>
                  /\ \/ IsChunked(p) /\ c = Content(p)
                     \/ IsEncoded(Content(p), "gzip") /\ c = Content(p)[1].content
                  /\ Header(h, "Content-Length") = ToString(Len(c))
                  /\ Once(p, "Transfer-Encoding") => Header(h, "Transfer-Encoding") # "chunked"
  BY <1>1, PrettifyIs
<1>3. Body(p) = b
  BY DEF Between, Keeps
<1>4. IsChunked(p) => IsEncoded(b, "chunked")
  <2>1. Header(Headers(p), "Transfer-Encoding") = Header(Headers(original), "Transfer-Encoding")
    BY DEF Between, Keeps, ChunksTold
  <2>2. Header(Headers(p), "Transfer-Encoding") = Header(p, "Transfer-Encoding")
    BY <1>1, <1>2, HeadersSay
  <2>3. QED
    BY <2>1, <2>2 DEF IsChunked, ChunksTold
<1>5. Content(p) = IF IsChunked(p) THEN Dechunked(b) ELSE b
  BY <1>3 DEF Content
<1>6. ~CutInside(p)
  BY <1>1, <1>4, <1>5 DEF CutInside, CutGzip
<1>7. IsEncoded(b, "gzip") => ~IsEncoded(b, "chunked")
  BY DEF IsEncoded
<1> HIDE DEF b
<1>8. IsEncoded(Content(p), "gzip") => Content(p) = d
  BY <1>4, <1>5, <1>7
<1>9. QED
  BY <1>2, <1>4, <1>5, <1>6, <1>8 DEF b

\* The body is written as it was read, or decoded, where the headers tell the truth
\* about chunks.
THEOREM BodySurvives == ModifierSpec => [](ChunksTold => BodyKept)
<1>1. ASSUME ModifierInv, ChunksTold PROVE BodyKept
  <2> DEFINE body == Body(original)
             chunks == IF IsEncoded(body, "chunked") THEN Dechunked(body) ELSE body
  <2> SUFFICES ASSUME step = "written", ~FoundInBody, ~CutGzip
               PROVE  Body(payload) \in {body, chunks} \cup
                        {chunks[1].content : i \in {i \in {1} : IsEncoded(chunks, "gzip") /\ config.prettify}}
    BY DEF BodyKept
  <2>1. PICK p : Between(p)
    BY <1>1, WrittenIs DEF ChunksTold
  <2>2. CASE payload = p
    <3>1. Body(p) = body
      BY <2>1 DEF Between, Keeps
    <3>2. QED
      BY <2>2, <3>1
  <2>3. CASE payload # p
    <3>1. PICK h, c :
             /\ payload = h \o c /\ Ended(h) /\ IsSequence(c)
             /\ \/ IsEncoded(body, "chunked") /\ c = Dechunked(body)
                \/ IsEncoded(chunks, "gzip") /\ c = chunks[1].content
      BY <1>1, <2>1, <2>3, PrettifiedIs
    <3>2. Body(payload) = c
      BY <3>1, Together
    <3>3. config.prettify
      BY <2>1, <2>3 DEF Between
    <3>4. QED
      BY <3>1, <3>2, <3>3
  <2>4. QED
    BY <2>2, <2>3
<1>2. ModifierInv => (ChunksTold => BodyKept)
  BY <1>1
<1>3. QED
  BY <1>2, ModifierAlways, PTL

\* The headers of a payload that is written tell the extent of its body, where they
\* told it when it was read, once, and no setting is about that.
THEOREM FramingSurvives == ModifierSpec => [](ExtentTold => KeepsFraming)
<1>1. ASSUME ModifierInv, ExtentTold PROVE KeepsFraming
  <2> SUFFICES ASSUME Framed(original), ~FoundInBody, ~CutGzip, step = "written"
               PROVE  Framed(payload)
    BY DEF KeepsFraming
  <2>1. PICK p : Between(p)
    BY <1>1, WrittenIs DEF ExtentTold, ChunksTold
  <2>2. CASE payload = p
    <3>1. /\ Body(p) = Body(original)
          /\ Header(Headers(p), "Transfer-Encoding") = Header(Headers(original), "Transfer-Encoding")
          /\ Header(Headers(p), "Content-Length") = Header(Headers(original), "Content-Length")
      BY <1>1, <2>1 DEF Between, Keeps, ExtentTold, ChunksTold
    <3>2. QED
      BY <2>2, <3>1 DEF Framed
  <2>3. CASE payload # p
    <3>1. Once(p, "Transfer-Encoding")
      BY <1>1, <2>1 DEF Between, Keeps, ExtentTold, ChunksTold
    <3>2. PICK h, c :
             /\ payload = h \o c /\ Ended(h) /\ IsSequence(c)
             /\ Header(h, "Content-Length") = ToString(Len(c))
             /\ Header(h, "Transfer-Encoding") # "chunked"
      BY <1>1, <2>1, <2>3, <3>1, PrettifiedIs DEF ExtentTold
    <3>3. Headers(payload) = h /\ Body(payload) = c
      BY <3>2, Together
    <3>4. QED
      BY <3>2, <3>3 DEF Framed
  <2>4. QED
    BY <2>2, <2>3
<1>2. ModifierInv => (ExtentTold => KeepsFraming)
  BY <1>1
<1>3. QED
  BY <1>2, ModifierAlways, PTL
=============================================================================
