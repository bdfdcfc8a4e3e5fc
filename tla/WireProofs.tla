----------------------------- MODULE WireProofs -----------------------------
(***************************************************************************)
(* Proofs about Wire, for every set of messages: what is read is what was  *)
(* written, however the bytes arrive.                                      *)
(*                                                                         *)
(* A message is a sequence of items, one for each read.  An item has the   *)
(* bytes of its own read, the values these give, and the items its count   *)
(* asks for.  Written, Heard and ReadOf are what is written of an item,    *)
(* what is to be heard of it and how it is read, each for the item and all *)
(* below it.  The inductive invariant says that the bytes on their way are *)
(* those of the items the reader still expects and of the messages it has  *)
(* not begun.                                                              *)
(***************************************************************************)
EXTENDS Wire, TLAPS, WellFoundedInduction, SequenceTheorems, FiniteSetTheorems

\* Induction over a set of numbers.
LEMMA NumberInduction ==
    ASSUME NEW S, 0 \in S, \A n \in Nat : n \in S => n + 1 \in S
    PROVE  Nat \subseteq S
<1> DEFINE Less == OpToRel(<, Nat)
           rest == Nat \ S
<1>1. IsWellFoundedOn(Less, Nat)
  BY NatLessThanWellFounded
<1>2. \A x, y \in Nat : x < y => <<x, y>> \in Less
  BY DEF OpToRel
<1> HIDE DEF Less
<1> SUFFICES ASSUME rest # {} PROVE FALSE
  OBVIOUS
<1>3. rest \subseteq Nat
  OBVIOUS
<1>4. PICK x \in rest : \A y \in rest : ~(<<y, x>> \in Less)
  <2> HIDE DEF rest
  <2> QED
    BY <1>1, <1>3, WFMin
<1>5. x \in Nat /\ x # 0
  OBVIOUS
<1>6. x - 1 \in Nat /\ x - 1 < x /\ (x - 1) + 1 = x
  BY <1>5
<1>7. x - 1 \in S
  BY <1>2, <1>4, <1>5, <1>6
<1> QED
  BY <1>6, <1>7

\* Induction over a set of sequences.
LEMMA SequenceInduction ==
    ASSUME NEW T, NEW S, <<>> \in S,
           \A s \in Seq(T), e \in T : s \in S => Append(s, e) \in S
    PROVE  Seq(T) \subseteq S
<1> DEFINE N == {n \in Nat : \A s \in Seq(T) : Len(s) = n => s \in S}
<1>1. 0 \in N
  BY EmptySeq
<1>2. ASSUME NEW n \in Nat, n \in N PROVE n + 1 \in N
  <2> SUFFICES ASSUME NEW s \in Seq(T), Len(s) = n + 1 PROVE s \in S
    OBVIOUS
  <2>1. s # <<>>
    BY EmptySeq
  <2>2. PICK t \in Seq(T), e \in T : s = Append(t, e)
    BY <2>1, SequenceEmptyOrAppend
  <2>3. Len(t) = n
    BY <2>2
  <2> QED
    BY <1>2, <2>2, <2>3
<1>3. Nat \subseteq N
  <2> HIDE DEF N
  <2> QED
    BY <1>1, <1>2, NumberInduction
<1> QED
  BY <1>3, LenProperties

-----------------------------------------------------------------------------
IsFlattening(ss, f) ==
    f = [i \in 1..Len(ss) |-> IF i = 1 THEN ss[i] ELSE f[i - 1] \o ss[i]]

\* Every sequence of sequences has a table of its flattened beginnings.
LEMMA FlatteningExists ==
    ASSUME NEW T
    PROVE  \A ss \in Seq(Seq(T)) : \E f : IsFlattening(ss, f)
<1> DEFINE S == {ss \in Seq(Seq(T)) : \E f : IsFlattening(ss, f)}
<1>1. <<>> \in S
  <2>1. IsFlattening(<<>>, [i \in 1..0 |-> i])
    BY DEF IsFlattening
  <2> QED
    BY <2>1, EmptySeq
<1>2. ASSUME NEW ss \in Seq(Seq(T)), NEW s \in Seq(T), ss \in S PROVE Append(ss, s) \in S
  <2>1. PICK f : IsFlattening(ss, f)
    BY <1>2
  <2> DEFINE n == Len(ss)
             tt == Append(ss, s)
             g == [i \in 1..(n + 1) |-> IF i = n + 1 THEN IF n = 0 THEN s ELSE f[n] \o s ELSE f[i]]
  <2>2. n \in Nat /\ tt \in Seq(Seq(T)) /\ Len(tt) = n + 1 /\ tt[n + 1] = s
    OBVIOUS
  <2>3. \A i \in 1..n : tt[i] = ss[i]
    OBVIOUS
  <2>4. \A i \in 1..n : f[i] = IF i = 1 THEN ss[i] ELSE f[i - 1] \o ss[i]
    BY <2>1 DEF IsFlattening
  <2> HIDE DEF tt
  <2>5. ASSUME NEW i \in 1..(n + 1)
        PROVE  g[i] = IF i = 1 THEN tt[i] ELSE g[i - 1] \o tt[i]
    <3>1. CASE i = n + 1
      <4>1. i # 1 => i - 1 \in 1..n /\ i - 1 = n /\ n # 0
        BY <2>2, <3>1
      <4>2. i = 1 => n = 0
        BY <2>2, <3>1
      <4> QED
        BY <2>2, <3>1, <4>1, <4>2
    <3>2. CASE i # n + 1
      <4>1. i \in 1..n /\ (i # 1 => i - 1 \in 1..n /\ i - 1 # n + 1 /\ i - 1 \in 1..(n + 1))
        BY <2>2, <3>2
      <4> QED
        BY <2>3, <2>4, <3>2, <4>1
    <3> QED
      BY <3>1, <3>2
  <2>6. IsFlattening(tt, g)
    <3>1. g = [i \in 1..(n + 1) |-> g[i]]
      OBVIOUS
    <3> HIDE DEF g
    <3> QED
      BY <2>2, <2>5, <3>1 DEF IsFlattening
  <2> QED
    BY <2>2, <2>6 DEF tt
<1>3. Seq(Seq(T)) \subseteq S
  <2> HIDE DEF S
  <2> QED
    BY <1>1, <1>2, SequenceInduction
<1> QED
  BY <1>3

\* It has only one.
LEMMA FlatteningUnique ==
    ASSUME NEW T, NEW ss \in Seq(Seq(T)), NEW f, NEW g,
           IsFlattening(ss, f), IsFlattening(ss, g)
    PROVE  f = g
<1> DEFINE n == Len(ss)
           N == {m \in Nat : m \in 1..n => f[m] = g[m]}
<1>1. n \in Nat
  OBVIOUS
<1>2. 0 \in N
  OBVIOUS
<1>3. ASSUME NEW m \in Nat, m \in N PROVE m + 1 \in N
  <2> SUFFICES ASSUME m + 1 \in 1..n PROVE f[m + 1] = g[m + 1]
    OBVIOUS
  <2>1. (m # 0 => m \in 1..n) /\ (m + 1) - 1 = m
    BY <1>1
  <2>2. f[m + 1] = IF m + 1 = 1 THEN ss[m + 1] ELSE f[m] \o ss[m + 1]
    BY <2>1 DEF IsFlattening
  <2>3. g[m + 1] = IF m + 1 = 1 THEN ss[m + 1] ELSE g[m] \o ss[m + 1]
    BY <2>1 DEF IsFlattening
  <2> QED
    BY <1>3, <2>1, <2>2, <2>3
<1>4. Nat \subseteq N
  <2> HIDE DEF N
  <2> QED
    BY <1>2, <1>3, NumberInduction
<1>5. \A i \in 1..n : f[i] = g[i]
  BY <1>1, <1>4
<1>6. f = [i \in 1..n |-> f[i]] /\ g = [i \in 1..n |-> g[i]]
  BY DEF IsFlattening
<1> QED
  BY <1>5, <1>6

\* FlattenSeq gives the last entry of the table.
LEMMA FlattenTable ==
    ASSUME NEW T, NEW ss \in Seq(Seq(T)), ss # <<>>
    PROVE  \E f : IsFlattening(ss, f) /\ FlattenSeq(ss) = f[Len(ss)]
<1> DEFINE f == CHOOSE f : IsFlattening(ss, f)
<1>1. IsFlattening(ss, f)
  BY FlatteningExists
<1>2. Len(ss) # 0
  BY EmptySeq
<1>3. FlattenSeq(ss) = f[Len(ss)]
  BY <1>2 DEF FlattenSeq, IsFlattening
<1> QED
  BY <1>1, <1>3

LEMMA FlattenEmpty == FlattenSeq(<<>>) = <<>>
BY DEF FlattenSeq

LEMMA FlattenFirst ==
    ASSUME NEW T, NEW s \in Seq(T)
    PROVE  FlattenSeq(<<s>>) = s
<1>1. <<s>> \in Seq(Seq(T)) /\ <<s>> # <<>> /\ Len(<<s>>) = 1
  OBVIOUS
<1>2. PICK f : IsFlattening(<<s>>, f) /\ FlattenSeq(<<s>>) = f[1]
  BY <1>1, FlattenTable
<1>3. f[1] = s
  BY <1>1, <1>2 DEF IsFlattening
<1> QED
  BY <1>2, <1>3

LEMMA FlattenLonger ==
    ASSUME NEW T, NEW ss \in Seq(Seq(T)), ss # <<>>, NEW tt \in Seq(Seq(T)),
           Len(tt) = Len(ss) + 1, \A i \in 1..Len(ss) : ss[i] = tt[i]
    PROVE  FlattenSeq(tt) = FlattenSeq(ss) \o tt[Len(tt)]
<1> DEFINE n == Len(ss)
<1>1. n \in Nat /\ n # 0 /\ tt # <<>>
  OBVIOUS
<1>2. PICK f : IsFlattening(ss, f) /\ FlattenSeq(ss) = f[n]
  BY FlattenTable
<1>3. PICK g : IsFlattening(tt, g) /\ FlattenSeq(tt) = g[n + 1]
  BY <1>1, FlattenTable
<1>4. f[n] = g[n]
  <2> DEFINE h == [i \in 1..n |-> g[i]]
  <2>1. ASSUME NEW i \in 1..n PROVE h[i] = IF i = 1 THEN ss[i] ELSE h[i - 1] \o ss[i]
    <3>1. i \in 1..Len(tt) /\ (i # 1 => i - 1 \in 1..n)
      BY <1>1
    <3>2. g[i] = IF i = 1 THEN tt[i] ELSE g[i - 1] \o tt[i]
      BY <1>3, <3>1 DEF IsFlattening
    <3> QED
      BY <3>1, <3>2
  <2>2. h = [i \in 1..n |-> h[i]]
    OBVIOUS
  <2>3. h[n] = g[n]
    BY <1>1
  <2> HIDE DEF h
  <2>4. IsFlattening(ss, h)
    BY <2>1, <2>2 DEF IsFlattening
  <2>5. f = h
    BY <1>2, <2>4, FlatteningUnique
  <2> QED
    BY <2>3, <2>5
<1>5. g[n + 1] = g[n] \o tt[n + 1]
  <2>1. n + 1 \in 1..Len(tt) /\ n + 1 # 1 /\ (n + 1) - 1 = n
    BY <1>1
  <2>2. g[n + 1] = IF n + 1 = 1 THEN tt[n + 1] ELSE g[(n + 1) - 1] \o tt[n + 1]
    BY <1>3, <2>1 DEF IsFlattening
  <2> QED
    BY <2>1, <2>2
<1> QED
  BY <1>2, <1>3, <1>4, <1>5

\* One more sequence comes after the others.
LEMMA FlattenNext ==
    ASSUME NEW T, NEW ss \in Seq(Seq(T)), NEW s \in Seq(T), ss # <<>>
    PROVE  FlattenSeq(Append(ss, s)) = FlattenSeq(ss) \o s
<1> DEFINE tt == Append(ss, s)
<1>1. /\ tt \in Seq(Seq(T)) /\ Len(tt) = Len(ss) + 1 /\ tt[Len(tt)] = s
      /\ \A i \in 1..Len(ss) : ss[i] = tt[i]
  OBVIOUS
<1> HIDE DEF tt
<1>2. FlattenSeq(tt) = FlattenSeq(ss) \o tt[Len(tt)]
  BY <1>1, FlattenLonger
<1> QED
  BY <1>1, <1>2 DEF tt

\* What is flattened has the elements of the sequences.
LEMMA FlattenType ==
    ASSUME NEW T
    PROVE  \A ss \in Seq(Seq(T)) : FlattenSeq(ss) \in Seq(T)
<1> DEFINE S == {ss \in Seq(Seq(T)) : FlattenSeq(ss) \in Seq(T)}
<1>1. <<>> \in S
  BY FlattenEmpty, EmptySeq
<1>2. ASSUME NEW ss \in Seq(Seq(T)), NEW s \in Seq(T), ss \in S PROVE Append(ss, s) \in S
  <2>1. CASE ss = <<>>
    <3>1. Append(ss, s) = <<s>>
      BY <2>1
    <3> QED
      BY <3>1, FlattenFirst
  <2>2. CASE ss # <<>>
    <3>1. FlattenSeq(Append(ss, s)) = FlattenSeq(ss) \o s
      BY <2>2, FlattenNext
    <3>2. FlattenSeq(ss) \o s \in Seq(T)
      BY <1>2, ConcatProperties
    <3> QED
      BY <3>1, <3>2, AppendProperties
  <2> QED
    BY <2>1, <2>2
<1>3. Seq(Seq(T)) \subseteq S
  <2> HIDE DEF S
  <2> QED
    BY <1>1, <1>2, SequenceInduction
<1> QED
  BY <1>3

LEMMA FlattenAppend ==
    ASSUME NEW T, NEW ss \in Seq(Seq(T)), NEW s \in Seq(T)
    PROVE  FlattenSeq(Append(ss, s)) = FlattenSeq(ss) \o s
<1>1. CASE ss = <<>>
  <2>1. Append(ss, s) = <<s>>
    BY <1>1
  <2>2. <<>> \o s = s
    BY ConcatEmptySeq
  <2> QED
    BY <1>1, <2>1, <2>2, FlattenFirst, FlattenEmpty
<1> QED
  BY <1>1, FlattenNext

\* Flattening takes concatenation to concatenation.
LEMMA FlattenConcat ==
    ASSUME NEW T, NEW rr \in Seq(Seq(T))
    PROVE  \A ss \in Seq(Seq(T)) : FlattenSeq(rr \o ss) = FlattenSeq(rr) \o FlattenSeq(ss)
<1> DEFINE S == {ss \in Seq(Seq(T)) : FlattenSeq(rr \o ss) = FlattenSeq(rr) \o FlattenSeq(ss)}
<1>1. <<>> \in S
  <2>1. rr \o <<>> = rr
    BY ConcatEmptySeq
  <2>2. FlattenSeq(rr) \o <<>> = FlattenSeq(rr)
    BY FlattenType, ConcatEmptySeq
  <2> QED
    BY <2>1, <2>2, FlattenEmpty, EmptySeq
<1>2. ASSUME NEW ss \in Seq(Seq(T)), NEW s \in Seq(T), ss \in S PROVE Append(ss, s) \in S
  <2>1. rr \o Append(ss, s) = Append(rr \o ss, s)
    <3>1. Append(ss, s) = ss \o <<s>> /\ Append(rr \o ss, s) = (rr \o ss) \o <<s>>
      BY AppendIsConcat, ConcatProperties
    <3>2. <<s>> \in Seq(Seq(T))
      OBVIOUS
    <3> QED
      BY <3>1, <3>2, ConcatAssociative
  <2>2. FlattenSeq(Append(rr \o ss, s)) = FlattenSeq(rr \o ss) \o s
    BY FlattenAppend, ConcatProperties
  <2>3. FlattenSeq(Append(ss, s)) = FlattenSeq(ss) \o s
    BY FlattenAppend
  <2>4. (FlattenSeq(rr) \o FlattenSeq(ss)) \o s = FlattenSeq(rr) \o (FlattenSeq(ss) \o s)
    BY FlattenType, ConcatAssociative
  <2> QED
    BY <1>2, <2>1, <2>2, <2>3, <2>4, AppendProperties
<1>3. Seq(Seq(T)) \subseteq S
  <2> HIDE DEF S
  <2> QED
    BY <1>1, <1>2, SequenceInduction
<1> QED
  BY <1>3
-----------------------------------------------------------------------------
(* The images of a sequence's members, one after the other.                *)

Each(f, w) == [i \in 1..Len(w) |-> f[w[i]]]
All(f, w) == FlattenSeq(Each(f, w))
GivesSequences(f, X) == \E T : f \in [X -> Seq(T)]

LEMMA EachType ==
    ASSUME NEW X, NEW Y, NEW f \in [X -> Y], NEW w \in Seq(X)
    PROVE  Each(f, w) \in Seq(Y)
<1>1. Len(w) \in Nat /\ \A i \in 1..Len(w) : f[w[i]] \in Y
  OBVIOUS
<1>2. Each(f, w) \in [1..Len(w) -> Y]
  BY <1>1 DEF Each
<1> QED
  BY <1>1, <1>2

LEMMA EachLen ==
    ASSUME NEW f, NEW X, NEW w \in Seq(X)
    PROVE  Len(Each(f, w)) = Len(w)
BY DEF Each

\* Each and All take concatenation to concatenation.
LEMMA EachConcat ==
    ASSUME NEW f, NEW X, NEW v \in Seq(X), NEW w \in Seq(X)
    PROVE  Each(f, v \o w) = Each(f, v) \o Each(f, w)
<1> DEFINE Y == {f[x] : x \in X}
           a == Each(f, v)
           b == Each(f, w)
           c == Each(f, v \o w)
<1>1. Len(v) \in Nat /\ Len(w) \in Nat /\ Len(v \o w) = Len(v) + Len(w)
  BY ConcatProperties
<1>2. a \in Seq(Y)
  <2>1. a \in [1..Len(v) -> Y]
    BY DEF Each
  <2> QED
    BY <1>1, <2>1
<1>3. b \in Seq(Y)
  <2>1. b \in [1..Len(w) -> Y]
    BY DEF Each
  <2> QED
    BY <1>1, <2>1
<1>4. c \in Seq(Y)
  <2>1. c \in [1..Len(v) + Len(w) -> Y]
    BY DEF Each
  <2> QED
    BY <1>1, <2>1
<1>5. Len(a) = Len(v) /\ Len(b) = Len(w) /\ Len(c) = Len(v) + Len(w)
  BY DEF Each
<1>6. \A i \in 1..Len(v) : a[i] = f[v[i]] /\ c[i] = f[v[i]]
  BY DEF Each
<1>7. \A i \in 1..Len(w) : b[i] = f[w[i]] /\ c[Len(v) + i] = f[w[i]]
  BY DEF Each
<1> HIDE DEF Y, a, b, c
<1>8. /\ a \o b \in Seq(Y) /\ Len(a \o b) = Len(a) + Len(b)
      /\ \A i \in 1..Len(a) + Len(b) :
            (a \o b)[i] = IF i <= Len(a) THEN a[i] ELSE b[i - Len(a)]
  BY <1>2, <1>3, ConcatProperties
<1>9. /\ Len(a \o b) = Len(c)
      /\ \A i \in 1..Len(c) : (a \o b)[i] = IF i <= Len(v) THEN a[i] ELSE b[i - Len(v)]
  BY <1>5, <1>8
<1>10. ASSUME NEW i \in 1..Len(c) PROVE c[i] = (a \o b)[i]
  <2>1. CASE i <= Len(v)
    BY <1>1, <1>5, <1>6, <1>9, <2>1
  <2>2. CASE ~(i <= Len(v))
    <3>1. i - Len(v) \in 1..Len(w) /\ Len(v) + (i - Len(v)) = i
      BY <1>1, <1>5, <2>2
    <3> QED
      BY <1>7, <1>9, <2>2, <3>1
  <2> QED
    BY <2>1, <2>2
<1>11. c = a \o b
  BY <1>4, <1>8, <1>9, <1>10, SeqEqual
<1> QED
  BY <1>11 DEF a, b, c

LEMMA EachOne ==
    ASSUME NEW f, NEW x
    PROVE  Each(f, <<x>>) = <<f[x]>>
BY DEF Each

LEMMA EachEmpty ==
    ASSUME NEW f
    PROVE  Each(f, <<>>) = <<>>
BY DEF Each

LEMMA AllType ==
    ASSUME NEW X, NEW T, NEW f \in [X -> Seq(T)], NEW w \in Seq(X)
    PROVE  All(f, w) \in Seq(T)
BY EachType, FlattenType DEF All

LEMMA AllEmpty ==
    ASSUME NEW f
    PROVE  All(f, <<>>) = <<>>
BY EachEmpty, FlattenEmpty DEF All

LEMMA AllOne ==
    ASSUME NEW f, NEW X, GivesSequences(f, X), NEW x \in X
    PROVE  All(f, <<x>>) = f[x]
<1>1. All(f, <<x>>) = FlattenSeq(<<f[x]>>)
  BY EachOne DEF All
<1>2. PICK T : f[x] \in Seq(T)
  BY DEF GivesSequences
<1> QED
  BY <1>1, <1>2, FlattenFirst

LEMMA AllConcat ==
    ASSUME NEW f, NEW X, GivesSequences(f, X), NEW v \in Seq(X), NEW w \in Seq(X)
    PROVE  All(f, v \o w) = All(f, v) \o All(f, w)
<1> DEFINE a == Each(f, v)
           b == Each(f, w)
<1>1. PICK T : f \in [X -> Seq(T)]
  BY DEF GivesSequences
<1> DEFINE Y == Seq(T)
<1>2. f \in [X -> Y]
  BY <1>1
<1> HIDE DEF Y
<1>3. a \in Seq(Y) /\ b \in Seq(Y)
  BY <1>2, EachType
<1>4. Each(f, v \o w) = a \o b
  BY EachConcat
<1> HIDE DEF a, b
<1>5. FlattenSeq(a \o b) = FlattenSeq(a) \o FlattenSeq(b)
  BY <1>3, FlattenConcat DEF Y
<1> QED
  BY <1>4, <1>5 DEF All, a, b

LEMMA AllAppend ==
    ASSUME NEW f, NEW X, GivesSequences(f, X), NEW w \in Seq(X), NEW x \in X
    PROVE  All(f, Append(w, x)) = All(f, w) \o f[x]
<1>1. Append(w, x) = w \o <<x>> /\ <<x>> \in Seq(X)
  BY AppendIsConcat
<1>2. All(f, w \o <<x>>) = All(f, w) \o All(f, <<x>>)
  BY <1>1, AllConcat
<1>3. All(f, <<x>>) = f[x]
  BY AllOne
<1> QED
  BY <1>1, <1>2, <1>3

\* All of a sequence, from its first element on.
LEMMA AllFirst ==
    ASSUME NEW f, NEW X, GivesSequences(f, X), NEW w \in Seq(X), NEW x \in X
    PROVE  All(f, <<x>> \o w) = f[x] \o All(f, w)
<1>1. <<x>> \in Seq(X)
  OBVIOUS
<1>2. All(f, <<x>> \o w) = All(f, <<x>>) \o All(f, w)
  BY <1>1, AllConcat
<1>3. All(f, <<x>>) = f[x]
  BY AllOne
<1> QED
  BY <1>2, <1>3
-----------------------------------------------------------------------------
(* What a message is made of: an item for each read.                       *)

Items ==
    ({"boolean"} \X BOOLEAN)
        \cup ({"bytes"} \X {bytes \in Seq(Byte) : Len(bytes) \in 1..MaxInt \cup {GuidBytes}})
        \cup ({"member"} \X Int32)
        \cup ({"string", "data"} \X ({Null} \cup ByteArrays))
        \cup ({"set"} \X ({Null} \cup IntSets))
        \cup ({"packets"} \X ({Null} \cup {packets \in Seq(Packets) : Len(packets) <= MaxInt}))

\* Whatever may be read.
Values == BOOLEAN \cup Seq(Byte) \cup (SUBSET Int32) \cup Nat \cup {Null}

Counted(x) == x[1] \in {"string", "data", "set", "packets"}
Count(x) ==
    IF x[2] = Null THEN 0
    ELSE IF x[1] = "set" THEN Cardinality(x[2]) ELSE Len(x[2])

\* The bytes of the item's own read, and the items its count asks for.
Chunk(x) ==
    CASE x[1] = "boolean" -> <<IF x[2] THEN 1 ELSE 0>>
      [] x[1] = "bytes" -> x[2]
      [] x[1] = "member" -> BytesOfInt(x[2])
      [] OTHER -> BytesOfInt(Count(x))

MemberItems(set) == [i \in 1..Cardinality(set) |-> <<"member", SetToSeq(set)[i]>>]
PacketItems(packet) == << <<"set", packet.entitlements>>, <<"data", packet.data>> >>
Below(x) ==
    IF ~Counted(x) \/ Count(x) = 0 THEN <<>>
    ELSE CASE x[1] = "set" -> MemberItems(x[2])
           [] x[1] = "packets" -> FlattenSeq([i \in 1..Len(x[2]) |-> PacketItems(x[2][i])])
           [] OTHER -> << <<"bytes", x[2]>> >>

\* The values the item gives, without those of the items below it; a set is
\* given when its members are there.
Given(x) ==
    CASE x[1] = "member" -> <<>>
      [] Counted(x) /\ Count(x) = 0 -> IF x[1] = "string" THEN << <<>> >> ELSE <<Null>>
      [] x[1] = "packets" /\ Count(x) # 0 -> <<Count(x)>>
      [] x[1] \in {"string", "data"} /\ Count(x) # 0 -> <<>>
      [] OTHER -> <<x[2]>>

-----------------------------------------------------------------------------
(* Integers.                                                               *)

\* BytesOfInt gives four bytes, of which IntOfBytes makes the number again.
LEMMA IntBytes ==
    ASSUME NEW n \in Int32
    PROVE  /\ BytesOfInt(n) \in Seq(Byte)
           /\ Len(BytesOfInt(n)) = 4
           /\ IntOfBytes(BytesOfInt(n)) = n
<1> DEFINE a == n \div 16777216
           b == n \div 65536
           c == n \div 256
<1>1. n \in Int /\ -2147483648 <= n /\ n <= 2147483647
  <2>1. MaxInt \in Int
    BY SMT DEF MaxInt
  <2>2. n \in Int /\ -MaxInt - 1 <= n /\ n <= MaxInt
    BY <2>1, SMT DEF Int32
  <2> QED
    BY <2>2, SMT DEF MaxInt
<1>2. a \in -128..127
  BY <1>1, SMT
<1>3. /\ b \in Int /\ b = 256 * a + (b % 256)
      /\ c \in Int /\ c = 256 * b + (c % 256)
      /\ n = 256 * c + (n % 256)
  <2>1. b \in Int /\ b = 256 * a + (b % 256)
    BY <1>1, SMT
  <2>2. c \in Int /\ c = 256 * b + (c % 256)
    BY <1>1, SMT
  <2>3. n = 256 * c + (n % 256)
    BY <1>1, SMT
  <2> QED
    BY <2>1, <2>2, <2>3
<1>4. BytesOfInt(n) = <<a % 256, b % 256, c % 256, n % 256>>
  BY SMT DEF BytesOfInt
<1> HIDE DEF a, b, c
<1>5. a % 256 \in Byte /\ b % 256 \in Byte /\ c % 256 \in Byte /\ n % 256 \in Byte
  BY <1>1, <1>2, <1>3, SMT DEF Byte
<1>6. a % 256 = IF a < 0 THEN a + 256 ELSE a
  BY <1>2, SMT
<1>7. BytesOfInt(n) \in Seq(Byte) /\ Len(BytesOfInt(n)) = 4
  BY <1>4, <1>5, SMT
<1>8. IntOfBytes(BytesOfInt(n)) =
        (IF a % 256 < 128 THEN a % 256 ELSE (a % 256) - 256) * 16777216
            + (b % 256) * 65536 + (c % 256) * 256 + (n % 256)
  BY <1>4, SMT DEF IntOfBytes
<1>9. (IF a % 256 < 128 THEN a % 256 ELSE (a % 256) - 256) = a
  BY <1>2, <1>6, SMT
<1>10. IntOfBytes(BytesOfInt(n)) = n
  <2> DEFINE p == b % 256
             q == c % 256
             r == n % 256
  <2>1. p \in Int /\ q \in Int /\ r \in Int /\ a \in Int
    BY <1>2, <1>5, SMT DEF Byte
  <2>2. IntOfBytes(BytesOfInt(n)) = a * 16777216 + p * 65536 + q * 256 + r
    BY <1>8, <1>9, SMT
  <2>3. b = 256 * a + p /\ c = 256 * b + q /\ n = 256 * c + r
    BY <1>3
  <2> HIDE DEF p, q, r
  <2> QED
    BY <1>1, <1>3, <2>1, <2>2, <2>3, SMT
<1> QED
  BY <1>7, <1>10
-----------------------------------------------------------------------------
(* The types of items.                                                     *)

Kinds == {"boolean", "bytes", "member", "string", "data", "set", "packets"}
PacketArrays == {packets \in Seq(Packets) : Len(packets) <= MaxInt}
Flat == {x \in Items : x[1] # "packets"}
Leaves == {x \in Items : ~Counted(x)}

LEMMA MaxIntType == MaxInt \in Nat
BY SMT DEF MaxInt

\* What is known of an item by its kind.
LEMMA ItemKinds ==
    ASSUME NEW x \in Items
    PROVE  /\ x[1] \in Kinds
           /\ x[1] = "boolean" => x[2] \in BOOLEAN
           /\ x[1] = "bytes" => x[2] \in Seq(Byte) /\ Len(x[2]) \in Nat \ {0}
           /\ x[1] = "member" => x[2] \in Int32
           /\ x[1] \in {"string", "data"} => x[2] \in {Null} \cup ByteArrays
           /\ x[1] = "set" => x[2] \in {Null} \cup IntSets
           /\ x[1] = "packets" => x[2] \in {Null} \cup PacketArrays
<1>1. ASSUME NEW n \in 1..MaxInt \cup {GuidBytes} PROVE n \in Nat \ {0}
  BY MaxIntType, ConstantsAssumption
<1>2. CASE x \in {"boolean"} \X BOOLEAN
  BY <1>2 DEF Kinds
<1>3. CASE x \in {"bytes"} \X {bytes \in Seq(Byte) : Len(bytes) \in 1..MaxInt \cup {GuidBytes}}
  BY <1>1, <1>3 DEF Kinds
<1>4. CASE x \in {"member"} \X Int32
  BY <1>4 DEF Kinds
<1>5. CASE x \in {"string", "data"} \X ({Null} \cup ByteArrays)
  BY <1>5 DEF Kinds
<1>6. CASE x \in {"set"} \X ({Null} \cup IntSets)
  BY <1>6 DEF Kinds
<1>7. CASE x \in {"packets"} \X ({Null} \cup {packets \in Seq(Packets) : Len(packets) <= MaxInt})
  BY <1>7 DEF Kinds, PacketArrays
<1> QED
  BY <1>2, <1>3, <1>4, <1>5, <1>6, <1>7 DEF Items

\* A finite set in some order.
LEMMA SetToSeqType ==
    ASSUME NEW S, IsFiniteSet(S)
    PROVE  /\ Cardinality(S) \in Nat
           /\ SetToSeq(S) \in Seq(S)
           /\ Len(SetToSeq(S)) = Cardinality(S)
           /\ S = {SetToSeq(S)[i] : i \in 1..Cardinality(S)}
<1> DEFINE n == Cardinality(S)
           s == SetToSeq(S)
<1>1. n \in Nat /\ ExistsBijection(1..n, S)
  BY FS_CardinalityType
<1>2. \E f \in [1..n -> S] : IsInjective(f)
  BY <1>1 DEF ExistsBijection, Bijection, Injection
<1>3. s \in [1..n -> S] /\ IsInjective(s)
  BY <1>2 DEF SetToSeq
<1> HIDE DEF s
<1>4. s \in Injection(1..n, S)
  BY <1>3 DEF Injection
<1>5. Cardinality(1..n) = n
  BY <1>1, FS_Interval
<1>6. s \in Surjection(1..n, S)
  BY <1>4, <1>5, FS_Injection
<1>7. S = {s[i] : i \in 1..n}
  BY <1>6 DEF Surjection
<1>8. s \in Seq(S) /\ Len(s) = n
  BY <1>1, <1>3
<1> QED
  BY <1>1, <1>7, <1>8 DEF s

LEMMA IntSetsFinite ==
    ASSUME NEW v \in IntSets
    PROVE  IsFiniteSet(v) /\ v \subseteq Int32 /\ Cardinality(v) \in Int32 \cap Nat
<1>1. MaxInt \in Nat
  BY MaxIntType
<1>2. IsFiniteSet(Int32)
  BY <1>1, FS_Interval DEF Int32
<1>3. v \in SUBSET Int32 /\ Cardinality(v) <= MaxInt
  BY DEF IntSets
<1>4. IsFiniteSet(v)
  BY <1>2, <1>3, FS_Subset
<1>5. Cardinality(v) \in Nat
  BY <1>4, FS_CardinalityType
<1> QED
  BY <1>1, <1>3, <1>4, <1>5, SMT DEF Int32

\* A count fits the four bytes it is written in.
LEMMA CountType ==
    ASSUME NEW x \in Items, Counted(x)
    PROVE  Count(x) \in Int32 \cap Nat
<1>1. MaxInt \in Nat
  BY MaxIntType
<1>2. CASE x[2] = Null
  BY <1>1, <1>2, SMT DEF Count, Int32
<1>3. CASE x[2] # Null /\ x[1] = "set"
  BY <1>3, ItemKinds, IntSetsFinite DEF Count
<1>4. CASE x[2] # Null /\ x[1] # "set"
  <2>1. x[2] \in ByteArrays \cup PacketArrays
    BY <1>4, ItemKinds DEF Counted
  <2>2. Len(x[2]) \in Nat /\ Len(x[2]) <= MaxInt
    BY <2>1 DEF ByteArrays, PacketArrays
  <2> QED
    BY <1>1, <1>4, <2>2, SMT DEF Count, Int32
<1> QED
  BY <1>2, <1>3, <1>4

\* Every read is for at least one byte.
LEMMA ChunkType ==
    ASSUME NEW x \in Items
    PROVE  Chunk(x) \in Seq(Byte) /\ Len(Chunk(x)) \in Nat \ {0}
<1>1. CASE Counted(x)
  <2>1. Chunk(x) = BytesOfInt(Count(x))
    BY <1>1 DEF Chunk, Counted
  <2> QED
    BY <1>1, <2>1, CountType, IntBytes
<1>2. CASE x[1] = "boolean"
  BY <1>2 DEF Chunk, Byte
<1>3. CASE x[1] = "bytes"
  BY <1>3, ItemKinds DEF Chunk
<1>4. CASE x[1] = "member"
  BY <1>4, ItemKinds, IntBytes DEF Chunk
<1> QED
  BY <1>1, <1>2, <1>3, <1>4, ItemKinds DEF Counted, Kinds

LEMMA MemberItemsType ==
    ASSUME NEW v \in IntSets
    PROVE  MemberItems(v) \in Seq(Leaves) /\ Len(MemberItems(v)) = Cardinality(v)
<1>1. /\ Cardinality(v) \in Nat
      /\ \A i \in 1..Cardinality(v) : SetToSeq(v)[i] \in Int32
  BY IntSetsFinite, SetToSeqType
<1>2. \A n \in Int32 : <<"member", n>> \in Leaves
  BY DEF Leaves, Items, Counted
<1>3. MemberItems(v) \in [1..Cardinality(v) -> Leaves]
  BY <1>1, <1>2 DEF MemberItems
<1> QED
  BY <1>1, <1>3

LEMMA PacketItemsType ==
    ASSUME NEW p \in Packets
    PROVE  PacketItems(p) \in Seq(Flat)
<1>1. p.entitlements \in {Null} \cup IntSets /\ p.data \in {Null} \cup ByteArrays
  BY DEF Packets
<1>2. <<"set", p.entitlements>> \in Flat /\ <<"data", p.data>> \in Flat
  BY <1>1 DEF Flat, Items
<1> QED
  BY <1>2 DEF PacketItems

\* What is below an item is flatter than the item.
LEMMA BelowType ==
    ASSUME NEW x \in Items
    PROVE  /\ Below(x) \in Seq(Flat) /\ Below(x) \in Seq(Items)
           /\ x \in Flat => Below(x) \in Seq(Leaves)
           /\ x \in Leaves => Below(x) = <<>>
<1>1. /\ \A w \in Seq(Leaves) : w \in Seq(Flat)
      /\ \A w \in Seq(Flat) : w \in Seq(Items)
  <2>1. Leaves \subseteq Flat /\ Flat \subseteq Items
    BY DEF Leaves, Flat, Counted
  <2> QED
    BY <2>1, SeqMonotonic
<1>2. CASE ~Counted(x) \/ Count(x) = 0
  <2>1. Below(x) = <<>>
    BY <1>2 DEF Below
  <2> QED
    BY <2>1, EmptySeq
<1>3. CASE Counted(x) /\ Count(x) # 0 /\ x[1] = "set"
  <2>1. x[2] \in IntSets
    BY <1>3, ItemKinds DEF Count
  <2>2. Below(x) = MemberItems(x[2])
    BY <1>3 DEF Below
  <2> QED
    BY <1>1, <1>3, <2>1, <2>2, MemberItemsType DEF Leaves
<1>4. CASE Counted(x) /\ Count(x) # 0 /\ x[1] = "packets"
  <2>1. x[2] \in PacketArrays
    BY <1>4, ItemKinds DEF Count
  <2>2. Below(x) = FlattenSeq([i \in 1..Len(x[2]) |-> PacketItems(x[2][i])])
    BY <1>4 DEF Below
  <2>3. [i \in 1..Len(x[2]) |-> PacketItems(x[2][i])] \in Seq(Seq(Flat))
    <3>1. Len(x[2]) \in Nat /\ \A i \in 1..Len(x[2]) : x[2][i] \in Packets
      BY <2>1 DEF PacketArrays
    <3>2. [i \in 1..Len(x[2]) |-> PacketItems(x[2][i])] \in [1..Len(x[2]) -> Seq(Flat)]
      BY <3>1, PacketItemsType
    <3> QED
      BY <3>1, <3>2
  <2>4. Below(x) \in Seq(Flat)
    BY <2>2, <2>3, FlattenType
  <2> QED
    BY <1>1, <1>4, <2>4 DEF Flat, Leaves
<1>5. CASE Counted(x) /\ Count(x) # 0 /\ x[1] \in {"string", "data"}
  <2>1. x[2] \in ByteArrays /\ Len(x[2]) # 0
    BY <1>5, ItemKinds DEF Count
  <2>2. x[2] \in Seq(Byte) /\ Len(x[2]) \in 1..MaxInt
    BY <2>1, MaxIntType DEF ByteArrays
  <2>3. <<"bytes", x[2]>> \in Leaves
    BY <2>2 DEF Leaves, Items, Counted
  <2>4. Below(x) = << <<"bytes", x[2]>> >>
    BY <1>5 DEF Below
  <2>5. Below(x) \in Seq(Leaves)
    BY <2>3, <2>4
  <2> QED
    BY <1>1, <1>5, <2>5 DEF Leaves
<1> QED
  BY <1>2, <1>3, <1>4, <1>5, ItemKinds DEF Counted
-----------------------------------------------------------------------------
(* An item with all that is below it.                                      *)

Shallow(f) == [x \in Items |-> f[x] \o All(f, Below(x))]
Deep(f) == [x \in Items |-> f[x] \o All(Shallow(f), Below(x))]

LEMMA EachEqual ==
    ASSUME NEW f, NEW g, NEW X, NEW w \in Seq(X), \A x \in X : f[x] = g[x]
    PROVE  Each(f, w) = Each(g, w)
BY DEF Each

LEMMA ShallowType ==
    ASSUME NEW T, NEW f \in [Items -> Seq(T)]
    PROVE  Shallow(f) \in [Items -> Seq(T)]
<1>1. \A x \in Items : f[x] \in Seq(T) /\ All(f, Below(x)) \in Seq(T)
  BY BelowType, AllType
<1> QED
  BY <1>1, ConcatProperties DEF Shallow

LEMMA DeepType ==
    ASSUME NEW T, NEW f \in [Items -> Seq(T)]
    PROVE  Deep(f) \in [Items -> Seq(T)]
<1>1. \A x \in Items : f[x] \in Seq(T) /\ All(Shallow(f), Below(x)) \in Seq(T)
  BY BelowType, ShallowType, AllType
<1> QED
  BY <1>1, ConcatProperties DEF Deep

\* What is below an item is as deep as it is: packets are the deepest.
LEMMA DeepUnfolds ==
    ASSUME NEW T, NEW f \in [Items -> Seq(T)], NEW x \in Items
    PROVE  Deep(f)[x] = f[x] \o All(Deep(f), Below(x))
<1>1. \A y \in Leaves : Shallow(f)[y] = f[y]
  <2> SUFFICES ASSUME NEW y \in Leaves PROVE Shallow(f)[y] = f[y]
    OBVIOUS
  <2>1. y \in Items /\ f[y] \in Seq(T)
    BY DEF Leaves
  <2>2. Shallow(f)[y] = f[y] \o <<>>
    BY <2>1, BelowType, AllEmpty DEF Shallow
  <2> QED
    BY <2>1, <2>2, ConcatEmptySeq
<1>2. \A y \in Flat : Deep(f)[y] = Shallow(f)[y]
  <2> SUFFICES ASSUME NEW y \in Flat PROVE Deep(f)[y] = Shallow(f)[y]
    OBVIOUS
  <2>1. y \in Items /\ Below(y) \in Seq(Leaves)
    BY BelowType DEF Flat
  <2>2. Each(Shallow(f), Below(y)) = Each(f, Below(y))
    BY <1>1, <2>1, EachEqual
  <2> QED
    BY <2>1, <2>2 DEF Deep, Shallow, All
<1>3. Each(Deep(f), Below(x)) = Each(Shallow(f), Below(x))
  BY <1>2, BelowType, EachEqual
<1>4. Deep(f)[x] = f[x] \o All(Shallow(f), Below(x))
  BY DEF Deep
<1> QED
  BY <1>3, <1>4 DEF All
-----------------------------------------------------------------------------
(* Sequences of sequences.                                                 *)

\* A function on the first numbers is a sequence.
LEMMA IsSequence ==
    ASSUME NEW S, NEW n \in Nat, NEW s, s \in [1..n -> S]
    PROVE  s \in Seq(S) /\ Len(s) = n
OBVIOUS

\* All goes through a sequence of sequences.
LEMMA AllFlatten ==
    ASSUME NEW f, NEW X, NEW T, f \in [X -> Seq(T)]
    PROVE  \A ww \in Seq(Seq(X)) :
                All(f, FlattenSeq(ww)) = FlattenSeq([i \in 1..Len(ww) |-> All(f, ww[i])])
<1> DEFINE Alls(ww) == [i \in 1..Len(ww) |-> All(f, ww[i])]
           S == {ww \in Seq(Seq(X)) : All(f, FlattenSeq(ww)) = FlattenSeq(Alls(ww))}
<1>1. GivesSequences(f, X)
  BY DEF GivesSequences
<1>2. \A w \in Seq(X) : All(f, w) \in Seq(T)
  BY AllType
<1>3. <<>> \in S
  <2>1. Alls(<<>>) = <<>>
    OBVIOUS
  <2> QED
    BY <2>1, FlattenEmpty, AllEmpty, EmptySeq
<1>4. ASSUME NEW ww \in Seq(Seq(X)), NEW w \in Seq(X), ww \in S PROVE Append(ww, w) \in S
  <2>1. FlattenSeq(Append(ww, w)) = FlattenSeq(ww) \o w /\ FlattenSeq(ww) \in Seq(X)
    BY FlattenAppend, FlattenType
  <2>2. All(f, FlattenSeq(ww) \o w) = All(f, FlattenSeq(ww)) \o All(f, w)
    BY <1>1, <2>1, AllConcat
  <2>3. Alls(ww) \in Seq(Seq(T))
    <3>1. Len(ww) \in Nat /\ \A i \in 1..Len(ww) : ww[i] \in Seq(X)
      OBVIOUS
    <3>2. \A i \in 1..Len(ww) : All(f, ww[i]) \in Seq(T)
      BY <1>2, <3>1, Zenon
    <3>3. Alls(ww) \in [1..Len(ww) -> Seq(T)]
      BY <3>2
    <3> HIDE DEF Alls
    <3> QED
      BY <3>1, <3>3, IsSequence
  <2>4. Alls(Append(ww, w)) = Append(Alls(ww), All(f, w))
    <3>1. Len(ww) \in Nat /\ Len(Append(ww, w)) = Len(ww) + 1
      OBVIOUS
    <3>2. \A i \in 1..Len(ww) + 1 :
            Append(ww, w)[i] = IF i = Len(ww) + 1 THEN w ELSE ww[i]
      OBVIOUS
    <3>3. Append(Alls(ww), All(f, w)) =
            [i \in 1..Len(ww) + 1 |-> IF i = Len(ww) + 1 THEN All(f, w) ELSE Alls(ww)[i]]
      BY <3>1
    <3>4. Alls(Append(ww, w)) = [i \in 1..Len(ww) + 1 |-> All(f, Append(ww, w)[i])]
      BY <3>1
    <3> QED
      BY <3>1, <3>2, <3>3, <3>4
  <2>5. FlattenSeq(Append(Alls(ww), All(f, w))) = FlattenSeq(Alls(ww)) \o All(f, w)
    <3> HIDE DEF Alls
    <3> QED
      BY <1>2, <2>3, FlattenAppend
  <2> HIDE DEF Alls
  <2>6. All(f, FlattenSeq(Append(ww, w))) = FlattenSeq(Alls(Append(ww, w)))
    BY <1>4, <2>1, <2>2, <2>4, <2>5
  <2> QED
    BY <2>6, AppendProperties
<1>5. Seq(Seq(X)) \subseteq S
  <2> HIDE DEF S
  <2> QED
    BY <1>3, <1>4, SequenceInduction
<1> QED
  BY <1>5

\* Single elements in a row.
LEMMA FlattenSingles ==
    ASSUME NEW X
    PROVE  \A w \in Seq(X) : FlattenSeq([i \in 1..Len(w) |-> <<w[i]>>]) = w
<1> DEFINE Singles(w) == [i \in 1..Len(w) |-> <<w[i]>>]
           S == {w \in Seq(X) : FlattenSeq(Singles(w)) = w}
<1>1. <<>> \in S
  <2>1. Singles(<<>>) = <<>>
    OBVIOUS
  <2> QED
    BY <2>1, FlattenEmpty, EmptySeq
<1>2. ASSUME NEW w \in Seq(X), NEW x \in X, w \in S PROVE Append(w, x) \in S
  <2>1. Len(w) \in Nat /\ Len(Append(w, x)) = Len(w) + 1
    OBVIOUS
  <2>2. Singles(w) \in Seq(Seq(X))
    <3>1. Singles(w) \in [1..Len(w) -> Seq(X)]
      OBVIOUS
    <3> QED
      BY <2>1, <3>1
  <2>3. Singles(Append(w, x)) = Append(Singles(w), <<x>>)
    <3>1. \A i \in 1..Len(w) + 1 : Append(w, x)[i] = IF i = Len(w) + 1 THEN x ELSE w[i]
      OBVIOUS
    <3>2. Append(Singles(w), <<x>>) =
            [i \in 1..Len(w) + 1 |-> IF i = Len(w) + 1 THEN <<x>> ELSE Singles(w)[i]]
      BY <2>1
    <3>3. Singles(Append(w, x)) = [i \in 1..Len(w) + 1 |-> <<Append(w, x)[i]>>]
      BY <2>1
    <3> QED
      BY <2>1, <3>1, <3>2, <3>3
  <2>4. <<x>> \in Seq(X)
    OBVIOUS
  <2>5. FlattenSeq(Append(Singles(w), <<x>>)) = FlattenSeq(Singles(w)) \o <<x>>
    <3> HIDE DEF Singles
    <3> QED
      BY <2>2, <2>4, FlattenAppend
  <2> HIDE DEF Singles
  <2>6. FlattenSeq(Singles(Append(w, x))) = Append(w, x)
    BY <1>2, <2>3, <2>5, AppendIsConcat
  <2> QED
    BY <2>6, AppendProperties
<1>3. Seq(X) \subseteq S
  <2> HIDE DEF S
  <2> QED
    BY <1>1, <1>2, SequenceInduction
<1> QED
  BY <1>3
LEMMA AllPair ==
    ASSUME NEW f, NEW X, GivesSequences(f, X), NEW x \in X, NEW y \in X
    PROVE  All(f, <<x, y>>) = f[x] \o f[y]
<1>1. <<x, y>> = Append(<<x>>, y) /\ <<x>> \in Seq(X)
  OBVIOUS
<1>2. All(f, Append(<<x>>, y)) = All(f, <<x>>) \o f[y]
  BY <1>1, AllAppend
<1> QED
  BY <1>1, <1>2, AllOne

\* What gives nothing for each element gives nothing for all.
LEMMA AllNothing ==
    ASSUME NEW f, NEW X, \A x \in X : f[x] = <<>>
    PROVE  \A w \in Seq(X) : All(f, w) = <<>>
<1> DEFINE S == {w \in Seq(X) : All(f, w) = <<>>}
<1>1. GivesSequences([x \in X |-> <<>>], X)
  <2>1. [x \in X |-> <<>>] \in [X -> Seq(X)]
    OBVIOUS
  <2> QED
    BY <2>1 DEF GivesSequences
<1> DEFINE g == [x \in X |-> <<>>]
<1>2. \A w \in Seq(X) : All(f, w) = All(g, w)
  <2>1. \A w \in Seq(X) : Each(f, w) = Each(g, w)
    BY EachEqual
  <2> QED
    BY <2>1 DEF All
<1>3. \A x \in X : g[x] = <<>>
  OBVIOUS
<1> HIDE DEF g
<1>4. <<>> \in S
  BY AllEmpty, EmptySeq
<1>5. ASSUME NEW w \in Seq(X), NEW x \in X, w \in S PROVE Append(w, x) \in S
  <2>1. Append(w, x) \in Seq(X)
    BY AppendProperties
  <2>2. All(g, Append(w, x)) = All(g, w) \o g[x]
    BY <1>1, AllAppend DEF g
  <2>3. All(g, w) = <<>>
    BY <1>2, <1>5
  <2>4. All(g, Append(w, x)) = <<>>
    BY <1>3, <2>2, <2>3
  <2> QED
    BY <1>2, <2>1, <2>4
<1>6. Seq(X) \subseteq S
  <2> HIDE DEF S
  <2> QED
    BY <1>4, <1>5, SequenceInduction
<1> QED
  BY <1>6

-----------------------------------------------------------------------------
(* What is written of an item, what is heard of it, and how it is read.    *)

Chunks == [x \in Items |-> Chunk(x)]
Givens == [x \in Items |-> Given(x)]
Written == Deep(Chunks)
Heard == Deep(Givens)
ReadOf == [x \in Items |-> << <<x[1], Len(Chunk(x))>> >>]
Reads == Kinds \X (Nat \ {0})

LEMMA ValuesOfKinds ==
    /\ \A v \in BOOLEAN \cup {Null} : v \in Values
    /\ \A v \in Seq(Byte) : v \in Values
    /\ \A v \in SUBSET Int32 : v \in Values
    /\ \A v \in Nat : v \in Values
BY DEF Values

LEMMA GivenType ==
    ASSUME NEW x \in Items
    PROVE  Given(x) \in Seq(Values)
<1>1. \A v \in Values : <<v>> \in Seq(Values)
  OBVIOUS
<1>2. <<>> \in Seq(Values) /\ <<>> \in Values /\ Null \in Values
  <2>1. <<>> \in Seq(Byte)
    OBVIOUS
  <2> QED
    BY <2>1, EmptySeq, ValuesOfKinds
<1>3. CASE x[1] = "member"
  BY <1>2, <1>3 DEF Given
<1>4. CASE x[1] # "member" /\ Counted(x) /\ Count(x) = 0
  BY <1>1, <1>2, <1>4 DEF Given
<1>5. CASE x[1] = "packets" /\ Count(x) # 0
  <2>1. Counted(x)
    BY <1>5 DEF Counted
  <2>2. Count(x) \in Values
    BY <2>1, CountType, ValuesOfKinds
  <2> QED
    BY <1>1, <1>5, <2>2 DEF Given
<1>6. CASE x[1] \in {"string", "data"} /\ Count(x) # 0
  BY <1>2, <1>6 DEF Given
<1>7. CASE x[1] \in {"boolean", "bytes"} \/ (x[1] = "set" /\ Count(x) # 0)
  <2>1. Given(x) = <<x[2]>>
    BY <1>7 DEF Given, Counted
  <2>2. x[2] \in Values
    <3>1. x[1] = "set" => x[2] \in SUBSET Int32
      BY <1>7, ItemKinds DEF IntSets, Count
    <3> QED
      BY <1>7, <3>1, ItemKinds, ValuesOfKinds
  <2> QED
    BY <1>1, <2>1, <2>2
<1> QED
  BY <1>3, <1>4, <1>5, <1>6, <1>7, ItemKinds DEF Counted, Kinds

\* The three functions on items give sequences.
LEMMA ItemFunctions ==
    /\ Written \in [Items -> Seq(Byte)] /\ GivesSequences(Written, Items)
    /\ Heard \in [Items -> Seq(Values)] /\ GivesSequences(Heard, Items)
    /\ ReadOf \in [Items -> Seq(Reads)] /\ GivesSequences(ReadOf, Items)
<1>1. Chunks \in [Items -> Seq(Byte)]
  BY ChunkType DEF Chunks
<1>2. Givens \in [Items -> Seq(Values)]
  BY GivenType DEF Givens
<1>3. ReadOf \in [Items -> Seq(Reads)]
  BY ChunkType, ItemKinds DEF ReadOf, Reads
<1> QED
  BY <1>1, <1>2, <1>3, DeepType DEF Written, Heard, GivesSequences

\* An item is written as its chunk and the items below it.
LEMMA WrittenUnfolds ==
    ASSUME NEW x \in Items
    PROVE  Written[x] = Chunk(x) \o All(Written, Below(x))
<1>1. Chunks \in [Items -> Seq(Byte)] /\ Chunks[x] = Chunk(x)
  BY ChunkType DEF Chunks
<1> QED
  BY <1>1, DeepUnfolds DEF Written

LEMMA HeardUnfolds ==
    ASSUME NEW x \in Items
    PROVE  Heard[x] = Given(x) \o All(Heard, Below(x))
<1>1. Givens \in [Items -> Seq(Values)] /\ Givens[x] = Given(x)
  BY GivenType DEF Givens
<1> QED
  BY <1>1, DeepUnfolds DEF Heard

LEMMA NothingBelow ==
    ASSUME NEW x \in Items, Below(x) = <<>>
    PROVE  Written[x] = Chunk(x) /\ Heard[x] = Given(x)
<1>1. Written[x] = Chunk(x) \o <<>> /\ Heard[x] = Given(x) \o <<>>
  BY WrittenUnfolds, HeardUnfolds, AllEmpty
<1>2. Chunk(x) \in Seq(Byte) /\ Given(x) \in Seq(Values)
  BY ChunkType, GivenType
<1> QED
  BY <1>1, <1>2, ConcatEmptySeq
-----------------------------------------------------------------------------
(* What is written of a value is that of its item, and so is what is heard. *)

\* A string or an array of bytes is written and heard as its item.
LEMMA ByteArrayItem ==
    ASSUME NEW v \in {Null} \cup ByteArrays, NEW kind \in {"string", "data"}
    PROVE  LET x == <<kind, v>>
           IN  /\ x \in Items
               /\ Written[x] = WriteBytes(v)
               /\ kind = "string" => Heard[x] = <<IF v = Null THEN <<>> ELSE v>>
               /\ kind = "data" => Heard[x] = <<OrNull(v, <<>>)>>
<1> DEFINE x == <<kind, v>>
<1>1. x \in Items /\ x[1] = kind /\ x[2] = v
  BY DEF Items
<1> HIDE DEF x
<1>2. CASE v = Null
  <2>1. Count(x) = 0 /\ Below(x) = <<>>
    BY <1>1, <1>2 DEF Count, Below
  <2>2. Chunk(x) = BytesOfInt(0) /\ Given(x) = IF kind = "string" THEN << <<>> >> ELSE <<Null>>
    BY <1>1, <2>1 DEF Chunk, Given, Counted
  <2> QED
    BY <1>1, <1>2, <2>1, <2>2, NothingBelow DEF WriteBytes, OrNull, x
<1>3. CASE v # Null /\ Len(v) = 0
  <2>1. v \in Seq(Byte) /\ v = <<>>
    BY <1>3, EmptySeq DEF ByteArrays
  <2>2. Count(x) = 0 /\ Below(x) = <<>>
    BY <1>1, <1>3 DEF Count, Below
  <2>3. Chunk(x) = BytesOfInt(0) /\ Given(x) = IF kind = "string" THEN << <<>> >> ELSE <<Null>>
    BY <1>1, <2>2 DEF Chunk, Given, Counted
  <2>4. WriteBytes(v) = BytesOfInt(0)
    <3>1. 0 \in Int32
      BY MaxIntType, SMT DEF Int32
    <3>2. BytesOfInt(0) \in Seq(Byte)
      BY <3>1, IntBytes
    <3> QED
      BY <1>3, <2>1, <3>2, ConcatEmptySeq DEF WriteBytes
  <2> QED
    BY <1>1, <1>3, <2>1, <2>2, <2>3, <2>4, NothingBelow DEF OrNull, x
<1>4. CASE v # Null /\ Len(v) # 0
  <2> DEFINE y == <<"bytes", v>>
  <2>1. v \in Seq(Byte) /\ Len(v) \in 1..MaxInt /\ v # <<>>
    BY <1>4, MaxIntType DEF ByteArrays
  <2>2. y \in Items /\ y[1] = "bytes" /\ y[2] = v
    BY <2>1 DEF Items
  <2>3. Count(x) = Len(v) /\ Counted(x) /\ Below(x) = <<y>>
    BY <1>1, <1>4 DEF Count, Below, Counted
  <2> HIDE DEF y
  <2>4. Below(y) = <<>> /\ Chunk(y) = v /\ Given(y) = <<v>>
    BY <2>2 DEF Below, Chunk, Given, Counted
  <2>5. Written[y] = v /\ Heard[y] = <<v>>
    BY <2>2, <2>4, NothingBelow
  <2>6. Chunk(x) = BytesOfInt(Len(v)) /\ Given(x) = <<>>
    BY <1>1, <1>4, <2>3 DEF Chunk, Given, Counted
  <2>7. All(Written, Below(x)) = v /\ All(Heard, Below(x)) = <<v>>
    BY <2>2, <2>3, <2>5, AllOne, ItemFunctions
  <2>8. Written[x] = BytesOfInt(Len(v)) \o v /\ Heard[x] = <<>> \o <<v>>
    BY <1>1, <2>6, <2>7, WrittenUnfolds, HeardUnfolds
  <2>9. Heard[x] = <<v>>
    BY <2>8
  <2> QED
    BY <1>1, <1>4, <2>1, <2>8, <2>9 DEF WriteBytes, OrNull, x
<1> QED
  <2>1. v # Null => Len(v) \in Nat
    BY DEF ByteArrays
  <2> QED
    BY <1>2, <1>3, <1>4

\* A set of numbers is written and heard as its item.
LEMMA IntSetItem ==
    ASSUME NEW v \in {Null} \cup IntSets
    PROVE  LET x == <<"set", v>>
           IN  /\ x \in Items
               /\ Written[x] = WriteSet(v)
               /\ Heard[x] = <<OrNull(v, {})>>
<1> DEFINE x == <<"set", v>>
           members == SetToSeq(v)
           each == [i \in DOMAIN members |-> BytesOfInt(members[i])]
<1>1. x \in Items /\ x[1] = "set" /\ x[2] = v
  BY DEF Items
<1>2. 0 \in Int32 /\ BytesOfInt(0) \in Seq(Byte)
  <2>1. 0 \in Int32
    BY MaxIntType, SMT DEF Int32
  <2> QED
    BY <2>1, IntBytes
<1> HIDE DEF x
<1>3. CASE v = Null
  <2>1. Count(x) = 0 /\ Below(x) = <<>>
    BY <1>1, <1>3 DEF Count, Below
  <2>2. Chunk(x) = BytesOfInt(0) /\ Given(x) = <<Null>>
    BY <1>1, <2>1 DEF Chunk, Given, Counted
  <2> QED
    BY <1>1, <1>3, <2>1, <2>2, NothingBelow DEF WriteSet, OrNull, x
<1>4. CASE v # Null
  <2>1. v \in IntSets /\ IsFiniteSet(v) /\ v \subseteq Int32
    BY <1>4, IntSetsFinite
  <2>2. /\ Cardinality(v) \in Nat /\ members \in Seq(v) /\ Len(members) = Cardinality(v)
        /\ DOMAIN members = 1..Cardinality(v)
        /\ \A i \in 1..Cardinality(v) : members[i] \in Int32
    <3>1. Cardinality(v) \in Nat /\ members \in Seq(v) /\ Len(members) = Cardinality(v)
      BY <2>1, SetToSeqType
    <3> HIDE DEF members
    <3> QED
      BY <2>1, <3>1
  <2>3. WriteSet(v) = BytesOfInt(Cardinality(v)) \o FlattenSeq(each)
    BY <1>4, <2>2 DEF WriteSet
  <2>4. Counted(x) /\ Count(x) = Cardinality(v) /\ Chunk(x) = BytesOfInt(Cardinality(v))
    BY <1>1, <1>4 DEF Count, Chunk, Counted
  <2>5. CASE Cardinality(v) = 0
    <3>1. v = {}
      BY <2>1, <2>5, FS_EmptySet
    <3>2. each = <<>>
      <4>1. each = [i \in 1..0 |-> BytesOfInt(members[i])]
        BY <2>2, <2>5
      <4> QED
        BY <4>1
    <3>3. WriteSet(v) = BytesOfInt(0)
      BY <1>2, <2>3, <2>5, <3>2, FlattenEmpty, ConcatEmptySeq
    <3>4. Below(x) = <<>> /\ Given(x) = <<Null>>
      BY <1>1, <2>4, <2>5 DEF Below, Given
    <3> QED
      BY <1>1, <2>4, <2>5, <3>1, <3>3, <3>4, NothingBelow DEF OrNull, x
  <2>6. CASE Cardinality(v) # 0
    <3>1. v # {}
      BY <2>6, FS_EmptySet
    <3>2. Below(x) = MemberItems(v) /\ Given(x) = <<v>>
      BY <1>1, <2>4, <2>6 DEF Below, Given
    <3>3. MemberItems(v) \in Seq(Leaves) /\ Len(MemberItems(v)) = Cardinality(v)
      BY <2>1, MemberItemsType
    <3>4. \A i \in 1..Cardinality(v) :
            /\ MemberItems(v)[i] \in Items /\ MemberItems(v)[i][1] = "member"
            /\ Written[MemberItems(v)[i]] = BytesOfInt(members[i])
      <4> SUFFICES ASSUME NEW i \in 1..Cardinality(v)
                   PROVE  /\ MemberItems(v)[i] \in Items /\ MemberItems(v)[i][1] = "member"
                          /\ Written[MemberItems(v)[i]] = BytesOfInt(members[i])
        OBVIOUS
      <4> DEFINE y == MemberItems(v)[i]
      <4>1. y = <<"member", members[i]>>
        BY DEF MemberItems
      <4>2. members[i] \in Int32
        BY <2>2
      <4>3. y \in Items /\ y[1] = "member" /\ y[2] = members[i]
        BY <4>1, <4>2 DEF Items
      <4> HIDE DEF y
      <4>4. Below(y) = <<>> /\ Chunk(y) = BytesOfInt(members[i])
        BY <4>3 DEF Below, Chunk, Counted
      <4> QED
        BY <4>3, <4>4, NothingBelow DEF y
    <3>5. Each(Written, MemberItems(v)) = each
      BY <2>2, <3>3, <3>4 DEF Each
    <3>6. All(Heard, Below(x)) = <<>>
      <4> DEFINE Members == {y \in Items : y[1] = "member"}
      <4>1. \A y \in Members : Heard[y] = <<>>
        <5> SUFFICES ASSUME NEW y \in Members PROVE Heard[y] = <<>>
          OBVIOUS
        <5>1. y \in Items /\ y[1] = "member"
          OBVIOUS
        <5>2. Below(y) = <<>> /\ Given(y) = <<>>
          BY <5>1 DEF Below, Given, Counted
        <5> QED
          BY <5>1, <5>2, NothingBelow
      <4>2. MemberItems(v) \in Seq(Members)
        <5>1. MemberItems(v) \in [1..Cardinality(v) -> Members]
          BY <3>4 DEF MemberItems
        <5> HIDE DEF Members
        <5> QED
          BY <2>2, <5>1, IsSequence
      <4> HIDE DEF Members
      <4> QED
        BY <3>2, <4>1, <4>2, AllNothing
    <3>7. Written[x] = BytesOfInt(Cardinality(v)) \o FlattenSeq(each)
      BY <1>1, <2>4, <3>2, <3>5, WrittenUnfolds DEF All
    <3>8. Heard[x] = <<v>> \o <<>>
      BY <1>1, <3>2, <3>6, HeardUnfolds
    <3>9. Heard[x] = <<v>>
      BY <3>8
    <3> QED
      BY <1>1, <1>4, <2>3, <3>1, <3>7, <3>9 DEF OrNull, x
  <2> QED
    BY <2>5, <2>6
<1> QED
  BY <1>3, <1>4

\* An array of packets is written and heard as its item.
LEMMA PacketsItem ==
    ASSUME NEW v \in {Null} \cup PacketArrays
    PROVE  LET x == <<"packets", v>>
           IN  /\ x \in Items
               /\ Written[x] = WritePackets(v)
               /\ Heard[x] = HeardField("packets", v)
<1> DEFINE x == <<"packets", v>>
<1>1. x \in Items /\ x[1] = "packets" /\ x[2] = v
  BY DEF Items, PacketArrays
<1>2. 0 \in Int32 /\ BytesOfInt(0) \in Seq(Byte)
  <2>1. 0 \in Int32
    BY MaxIntType, SMT DEF Int32
  <2> QED
    BY <2>1, IntBytes
<1> HIDE DEF x
<1>3. HeardField("packets", v) =
        IF OrNull(v, <<>>) = Null THEN <<Null>>
        ELSE <<Len(v)>> \o FlattenSeq([i \in DOMAIN v |->
                <<OrNull(v[i].entitlements, {}), OrNull(v[i].data, <<>>)>>])
  BY DEF HeardField
<1>4. CASE v = Null
  <2>1. Count(x) = 0 /\ Below(x) = <<>>
    BY <1>1, <1>4 DEF Count, Below
  <2>2. Chunk(x) = BytesOfInt(0) /\ Given(x) = <<Null>>
    BY <1>1, <2>1 DEF Chunk, Given, Counted
  <2> QED
    BY <1>1, <1>3, <1>4, <2>1, <2>2, NothingBelow DEF WritePackets, OrNull, x
<1>5. CASE v # Null
  <2> DEFINE n == Len(v)
             items == [i \in 1..n |-> PacketItems(v[i])]
  <2>1. v \in Seq(Packets) /\ n \in Nat /\ DOMAIN v = 1..n /\ \A i \in 1..n : v[i] \in Packets
    BY <1>5 DEF PacketArrays
  <2>2. Counted(x) /\ Count(x) = n /\ Chunk(x) = BytesOfInt(n)
    BY <1>1, <1>5 DEF Count, Chunk, Counted
  <2>3. CASE n = 0
    <3>1. v = <<>>
      BY <2>1, <2>3, EmptySeq
    <3>2. WritePackets(v) = BytesOfInt(0) \o FlattenSeq(<<>>)
      BY <1>5, <3>1 DEF WritePackets
    <3>3. WritePackets(v) = BytesOfInt(0)
      BY <1>2, <3>2, FlattenEmpty, ConcatEmptySeq
    <3>4. Below(x) = <<>> /\ Given(x) = <<Null>>
      BY <1>1, <2>2, <2>3 DEF Below, Given
    <3>5. HeardField("packets", v) = <<Null>>
      BY <1>3, <3>1 DEF OrNull
    <3> QED
      BY <1>1, <2>2, <2>3, <3>3, <3>4, <3>5, NothingBelow DEF x
  <2>4. CASE n # 0
    <3>1. v # <<>>
      BY <2>4, EmptySeq
    <3>2. Below(x) = FlattenSeq(items) /\ Given(x) = <<n>>
      BY <1>1, <2>2, <2>4 DEF Below, Given
    <3>3. items \in Seq(Seq(Items)) /\ Len(items) = n
      <4>1. \A i \in 1..n : PacketItems(v[i]) \in Seq(Items)
        <5>1. \A w \in Seq(Flat) : w \in Seq(Items)
          BY SeqMonotonic DEF Flat
        <5> QED
          BY <2>1, <5>1, PacketItemsType
      <4>2. items \in [1..n -> Seq(Items)]
        BY <4>1
      <4> HIDE DEF items, n
      <4> QED
        BY <2>1, <4>2, IsSequence
    <3>4. \A i \in 1..n :
            /\ All(Written, items[i]) = WriteSet(v[i].entitlements) \o WriteBytes(v[i].data)
            /\ All(Heard, items[i]) = <<OrNull(v[i].entitlements, {}), OrNull(v[i].data, <<>>)>>
      <4> SUFFICES ASSUME NEW i \in 1..n
                   PROVE  /\ All(Written, items[i]) =
                                WriteSet(v[i].entitlements) \o WriteBytes(v[i].data)
                          /\ All(Heard, items[i]) =
                                <<OrNull(v[i].entitlements, {}), OrNull(v[i].data, <<>>)>>
        OBVIOUS
      <4> DEFINE es == v[i].entitlements
                 d == v[i].data
                 y == <<"set", es>>
                 z == <<"data", d>>
      <4>1. es \in {Null} \cup IntSets /\ d \in {Null} \cup ByteArrays
        BY <2>1 DEF Packets
      <4>2. items[i] = <<y, z>>
        BY DEF PacketItems
      <4> HIDE DEF es, d
      <4>3. y \in Items /\ Written[y] = WriteSet(es) /\ Heard[y] = <<OrNull(es, {})>>
        BY <4>1, IntSetItem
      <4>4. z \in Items /\ Written[z] = WriteBytes(d) /\ Heard[z] = <<OrNull(d, <<>>)>>
        BY <4>1, ByteArrayItem
      <4> HIDE DEF y, z
      <4>5. All(Written, <<y, z>>) = WriteSet(es) \o WriteBytes(d)
        BY <4>3, <4>4, AllPair, ItemFunctions
      <4>6. All(Heard, <<y, z>>) = <<OrNull(es, {})>> \o <<OrNull(d, <<>>)>>
        BY <4>3, <4>4, AllPair, ItemFunctions
      <4>7. All(Heard, <<y, z>>) = <<OrNull(es, {}), OrNull(d, <<>>)>>
        BY <4>6
      <4> QED
        BY <4>2, <4>5, <4>7 DEF es, d
    <3> HIDE DEF items
    <3>5. All(Written, FlattenSeq(items)) = FlattenSeq([i \in 1..n |-> All(Written, items[i])])
      BY <3>3, AllFlatten, ItemFunctions
    <3>6. All(Heard, FlattenSeq(items)) = FlattenSeq([i \in 1..n |-> All(Heard, items[i])])
      BY <3>3, AllFlatten, ItemFunctions
    <3>7. [i \in 1..n |-> All(Written, items[i])] =
            [i \in DOMAIN v |-> WriteSet(v[i].entitlements) \o WriteBytes(v[i].data)]
      BY <2>1, <3>4
    <3>8. [i \in 1..n |-> All(Heard, items[i])] =
            [i \in DOMAIN v |-> <<OrNull(v[i].entitlements, {}), OrNull(v[i].data, <<>>)>>]
      BY <2>1, <3>4
    <3>9. Written[x] = WritePackets(v)
      <4>1. Written[x] = BytesOfInt(n) \o All(Written, FlattenSeq(items))
        BY <1>1, <2>2, <3>2, WrittenUnfolds
      <4>2. WritePackets(v) = BytesOfInt(n) \o FlattenSeq([i \in DOMAIN v |->
                WriteSet(v[i].entitlements) \o WriteBytes(v[i].data)])
        BY <1>5 DEF WritePackets
      <4> QED
        BY <3>5, <3>7, <4>1, <4>2
    <3>10. Heard[x] = HeardField("packets", v)
      <4>1. Heard[x] = <<n>> \o All(Heard, FlattenSeq(items))
        BY <1>1, <3>2, HeardUnfolds
      <4>2. OrNull(v, <<>>) # Null
        BY <1>5, <3>1 DEF OrNull
      <4> QED
        BY <1>3, <3>6, <3>8, <4>1, <4>2
    <3> QED
      BY <1>1, <3>9, <3>10 DEF x
  <2> QED
    BY <2>3, <2>4
<1> QED
  BY <1>4, <1>5
-----------------------------------------------------------------------------
(* How an item is read.                                                    *)

\* An item is read in one read of the bytes of its chunk, a count in four.
LEMMA ReadOfItem ==
    ASSUME NEW x \in Items
    PROVE  /\ ReadOf[x] = << <<x[1], Len(Chunk(x))>> >>
           /\ Counted(x) => Len(Chunk(x)) = 4
<1>1. CASE Counted(x)
  <2>1. Chunk(x) = BytesOfInt(Count(x))
    BY <1>1 DEF Chunk, Counted
  <2> QED
    BY <1>1, <2>1, CountType, IntBytes DEF ReadOf
<1> QED
  BY <1>1 DEF ReadOf

\* A count asks for the reads of the items below it.
LEMMA CountRead ==
    ASSUME NEW x \in Items, Counted(x)
    PROVE  /\ AfterCount(x[1], Count(x)).reads = All(ReadOf, Below(x))
           /\ AfterCount(x[1], Count(x)).values =
                IF x[1] = "set" /\ Count(x) # 0 THEN << {} >> ELSE Given(x)
<1> DEFINE n == Count(x)
<1>1. n \in Nat
  BY CountType
<1>2. CASE n = 0
  <2>1. Below(x) = <<>> /\ All(ReadOf, Below(x)) = <<>>
    BY <1>2, AllEmpty DEF Below
  <2>2. \A r : Repeat(r, 0) = <<>>
    <3>1. \A r : [i \in 1..0 |-> r] = <<>>
      OBVIOUS
    <3> QED
      BY <3>1, FlattenEmpty DEF Repeat
  <2>3. Given(x) = IF x[1] = "string" THEN << <<>> >> ELSE <<Null>>
    BY <1>2 DEF Given, Counted
  <2> HIDE DEF n
  <2> QED
    BY <1>2, <2>1, <2>2, <2>3 DEF AfterCount, Counted, n
<1>3. CASE n # 0 /\ x[1] \in {"string", "data"}
  <2> DEFINE y == <<"bytes", x[2]>>
  <2>1. Below(x) = <<y>> /\ Given(x) = <<>> /\ x[2] # Null /\ n = Len(x[2])
    BY <1>3 DEF Below, Given, Counted, Count
  <2>2. y \in Items /\ y[1] = "bytes" /\ y[2] = x[2]
    <3>1. <<y>> \in Seq(Items)
      BY <2>1, BelowType
    <3>2. y = <<y>>[1] /\ Len(<<y>>) = 1
      OBVIOUS
    <3> QED
      BY <3>1, <3>2, ElementOfSeq
  <2> HIDE DEF y
  <2>3. Chunk(y) = x[2]
    BY <2>2 DEF Chunk
  <2>4. All(ReadOf, Below(x)) = << <<"bytes", n>> >>
    <3>1. ReadOf[y] = << <<"bytes", n>> >>
      BY <2>1, <2>2, <2>3, ReadOfItem
    <3>2. All(ReadOf, <<y>>) = ReadOf[y]
      BY <2>2, AllOne, ItemFunctions
    <3> QED
      BY <2>1, <3>1, <3>2
  <2> QED
    BY <1>3, <2>1, <2>4 DEF AfterCount
<1>4. CASE n # 0 /\ x[1] = "set"
  <2>1. Below(x) = MemberItems(x[2]) /\ x[2] \in IntSets /\ n = Cardinality(x[2])
    <3>1. x[2] # Null /\ n = Cardinality(x[2])
      BY <1>4 DEF Count
    <3>2. Below(x) = MemberItems(x[2])
      BY <1>4 DEF Below
    <3> QED
      BY <1>4, <3>1, <3>2, ItemKinds
  <2>2. Below(x) \in Seq(Items) /\ Len(Below(x)) = n
    BY <2>1, BelowType, MemberItemsType
  <2>3. \A i \in 1..n : ReadOf[Below(x)[i]] = << <<"member", 4>> >>
    <3> SUFFICES ASSUME NEW i \in 1..n PROVE ReadOf[Below(x)[i]] = << <<"member", 4>> >>
      OBVIOUS
    <3> DEFINE y == Below(x)[i]
    <3>1. y \in Items
      BY <2>2, ElementOfSeq
    <3>2. y[1] = "member"
      BY <2>1 DEF MemberItems
    <3> HIDE DEF y
    <3>3. Len(Chunk(y)) = 4
      BY <3>1, <3>2, ItemKinds, IntBytes DEF Chunk
    <3> QED
      BY <3>1, <3>2, <3>3, ReadOfItem DEF y
  <2>4. All(ReadOf, Below(x)) = Repeat(<< <<"member", 4>> >>, n)
    BY <2>2, <2>3 DEF All, Each, Repeat
  <2> QED
    BY <1>4, <2>4 DEF AfterCount
<1>5. CASE n # 0 /\ x[1] = "packets"
  <2> DEFINE items == [i \in 1..n |-> PacketItems(x[2][i])]
  <2>1. /\ x[2] \in PacketArrays /\ n = Len(x[2]) /\ Below(x) = FlattenSeq(items)
        /\ Given(x) = <<n>>
    BY <1>5, ItemKinds DEF Below, Counted, Count, Given
  <2>2. \A i \in 1..n : PacketItems(x[2][i]) \in Seq(Items)
    <3>1. \A w \in Seq(Flat) : w \in Seq(Items)
      BY SeqMonotonic DEF Flat
    <3>2. \A i \in 1..n : x[2][i] \in Packets
      BY <2>1 DEF PacketArrays
    <3> QED
      BY <3>1, <3>2, PacketItemsType
  <2>3. items \in Seq(Seq(Items)) /\ Len(items) = n
    <3>1. items \in [1..n -> Seq(Items)]
      BY <2>2
    <3> HIDE DEF items, n
    <3> QED
      BY <1>1, <3>1, IsSequence
  <2>4. \A i \in 1..n : All(ReadOf, items[i]) = ReadPacket
    <3> SUFFICES ASSUME NEW i \in 1..n PROVE All(ReadOf, items[i]) = ReadPacket
      OBVIOUS
    <3> DEFINE y == <<"set", x[2][i].entitlements>>
               z == <<"data", x[2][i].data>>
    <3>1. items[i] = <<y, z>> /\ y[1] = "set" /\ z[1] = "data"
      BY DEF PacketItems
    <3>2. <<y, z>> \in Seq(Items)
      BY <2>2, <3>1
    <3>3. y \in Items /\ z \in Items
      <4>1. y = <<y, z>>[1] /\ z = <<y, z>>[2] /\ Len(<<y, z>>) = 2
        OBVIOUS
      <4> HIDE DEF y, z
      <4> QED
        BY <3>2, <4>1, ElementOfSeq
    <3> HIDE DEF y, z, items
    <3>4. ReadOf[y] = << <<"set", 4>> >> /\ ReadOf[z] = << <<"data", 4>> >>
      BY <3>1, <3>3, ReadOfItem DEF Counted
    <3>5. All(ReadOf, <<y, z>>) = << <<"set", 4>> >> \o << <<"data", 4>> >>
      BY <3>3, <3>4, AllPair, ItemFunctions
    <3> QED
      BY <3>1, <3>5 DEF ReadPacket, ReadField
  <2> HIDE DEF items
  <2>5. All(ReadOf, FlattenSeq(items)) = FlattenSeq([i \in 1..n |-> All(ReadOf, items[i])])
    BY <2>3, AllFlatten, ItemFunctions
  <2>6. All(ReadOf, Below(x)) = Repeat(ReadPacket, n)
    BY <2>1, <2>4, <2>5 DEF Repeat
  <2> QED
    BY <1>5, <2>1, <2>6 DEF AfterCount
<1> QED
  BY <1>2, <1>3, <1>4, <1>5 DEF Counted
-----------------------------------------------------------------------------
(* A message is its type and an item for each of its fields.               *)

FieldKinds == {"boolean", "guid", "string", "set", "packets"}
ItemOf(kind, value) == <<IF kind = "guid" THEN "bytes" ELSE kind, value>>
ItemsOf(m) == [i \in DOMAIN m.body |-> ItemOf(Fields[m.type][i], m.body[i])]

\* Every type of message has fields.
LEMMA FieldsType ==
    ASSUME NEW type \in DOMAIN Fields
    PROVE  /\ type \in 1..9
           /\ Fields[type] \in Seq(FieldKinds) /\ Fields[type] # <<>>
<1>1. DOMAIN Fields = 1..9
  BY DEF Fields
<1>2. Fields \in Seq(Seq(FieldKinds))
  BY DEF Fields, FieldKinds
<1>3. /\ Fields[1] # <<>> /\ Fields[2] # <<>> /\ Fields[3] # <<>>
      /\ Fields[4] # <<>> /\ Fields[5] # <<>> /\ Fields[6] # <<>>
      /\ Fields[7] # <<>> /\ Fields[8] # <<>> /\ Fields[9] # <<>>
  BY DEF Fields
<1>4. Fields[type] \in Seq(FieldKinds)
  BY <1>2, ElementOfSeq
<1>5. Fields[type] # <<>>
  BY <1>1, <1>3
<1> QED
  BY <1>1, <1>4, <1>5

\* A field is written, heard and read as its item.
LEMMA FieldItem ==
    ASSUME NEW kind \in FieldKinds, NEW value \in FieldValues(kind)
    PROVE  LET x == ItemOf(kind, value)
           IN  /\ x \in Items /\ x[1] # "member"
               /\ Written[x] = WriteField(kind, value)
               /\ Heard[x] = HeardField(kind, value)
               /\ ReadOf[x] = <<ReadField(kind)>>
<1> DEFINE x == ItemOf(kind, value)
<1>1. CASE kind = "boolean"
  <2>1. value \in BOOLEAN /\ x = <<"boolean", value>>
    BY <1>1 DEF FieldValues, ItemOf
  <2>2. x \in Items /\ x[1] = "boolean" /\ x[2] = value
    BY <2>1 DEF Items
  <2> HIDE DEF x
  <2>3. /\ Below(x) = <<>> /\ Chunk(x) = <<IF value THEN 1 ELSE 0>> /\ Given(x) = <<value>>
        /\ Len(Chunk(x)) = 1
    BY <2>2 DEF Below, Chunk, Given, Counted
  <2> QED
    BY <1>1, <2>2, <2>3, NothingBelow, ReadOfItem
        DEF WriteField, HeardField, ReadField, x
<1>2. CASE kind = "guid"
  <2>1. value \in Seq(Byte) /\ Len(value) = GuidBytes /\ x = <<"bytes", value>>
    BY <1>2 DEF FieldValues, ItemOf
  <2>2. x \in Items /\ x[1] = "bytes" /\ x[2] = value
    BY <2>1 DEF Items
  <2> HIDE DEF x
  <2>3. Below(x) = <<>> /\ Chunk(x) = value /\ Given(x) = <<value>>
    BY <2>2 DEF Below, Chunk, Given, Counted
  <2> QED
    BY <1>2, <2>1, <2>2, <2>3, NothingBelow, ReadOfItem
        DEF WriteField, HeardField, ReadField, x
<1>3. CASE kind = "string"
  <2>1. value \in {Null} \cup ByteArrays /\ x = <<"string", value>>
    BY <1>3 DEF FieldValues, ItemOf
  <2>2. /\ x \in Items /\ Written[x] = WriteBytes(value)
        /\ Heard[x] = <<IF value = Null THEN <<>> ELSE value>>
    BY <2>1, ByteArrayItem
  <2>3. x[1] = "string"
    BY <2>1
  <2> HIDE DEF x
  <2>4. ReadOf[x] = << <<"string", 4>> >>
    BY <2>2, <2>3, ReadOfItem DEF Counted
  <2> QED
    BY <1>3, <2>2, <2>3, <2>4 DEF WriteField, HeardField, ReadField, x
<1>4. CASE kind = "set"
  <2>1. value \in {Null} \cup IntSets /\ x = <<"set", value>>
    BY <1>4 DEF FieldValues, ItemOf
  <2>2. x \in Items /\ Written[x] = WriteSet(value) /\ Heard[x] = <<OrNull(value, {})>>
    BY <2>1, IntSetItem
  <2>3. x[1] = "set"
    BY <2>1
  <2> HIDE DEF x
  <2>4. ReadOf[x] = << <<"set", 4>> >>
    BY <2>2, <2>3, ReadOfItem DEF Counted
  <2> QED
    BY <1>4, <2>2, <2>3, <2>4 DEF WriteField, HeardField, ReadField, x
<1>5. CASE kind = "packets"
  <2>1. value \in {Null} \cup PacketArrays /\ x = <<"packets", value>>
    BY <1>5 DEF FieldValues, PacketArrays, ItemOf
  <2>2. x \in Items /\ Written[x] = WritePackets(value) /\ Heard[x] = HeardField("packets", value)
    BY <2>1, PacketsItem
  <2>3. x[1] = "packets"
    BY <2>1
  <2> HIDE DEF x
  <2>4. ReadOf[x] = << <<"packets", 4>> >>
    BY <2>2, <2>3, ReadOfItem DEF Counted
  <2> QED
    BY <1>5, <2>2, <2>3, <2>4 DEF WriteField, ReadField, x
<1> QED
  BY <1>1, <1>2, <1>3, <1>4, <1>5 DEF FieldKinds

\* A message is written, heard and read as its type and its items.
LEMMA MessageItems ==
    ASSUME NEW m \in Messages
    PROVE  /\ m.type \in Byte /\ m.type \in Values /\ m.type \in DOMAIN Fields
           /\ ItemsOf(m) \in Seq(Items) /\ ItemsOf(m) # <<>>
           /\ \A i \in 1..Len(ItemsOf(m)) : ItemsOf(m)[i][1] # "member"
           /\ WriteMessage(m) = <<m.type>> \o All(Written, ItemsOf(m))
           /\ HeardMessage(m) = <<m.type>> \o All(Heard, ItemsOf(m))
           /\ [i \in DOMAIN Fields[m.type] |-> ReadField(Fields[m.type][i])] =
                All(ReadOf, ItemsOf(m))
<1> DEFINE fields == Fields[m.type]
           n == Len(fields)
           w == ItemsOf(m)
<1>1. /\ m.type \in DOMAIN Fields /\ DOMAIN m.body = DOMAIN fields
      /\ \A i \in DOMAIN m.body : m.body[i] \in FieldValues(fields[i])
  BY ConstantsAssumption
<1>2. m.type \in 1..9 /\ fields \in Seq(FieldKinds) /\ fields # <<>>
  <2>1. m.type \in DOMAIN Fields
    BY <1>1
  <2>2. m.type \in 1..9 /\ Fields[m.type] \in Seq(FieldKinds) /\ Fields[m.type] # <<>>
    BY <2>1, FieldsType
  <2> QED
    BY <2>2
<1>3. m.type \in Byte /\ m.type \in Values
  <2>1. m.type \in 1..9
    BY <1>2
  <2>2. m.type \in Byte /\ m.type \in Nat
    BY <2>1, SMT DEF Byte
  <2>3. \A v \in Nat : v \in Values
    BY ValuesOfKinds
  <2> QED
    BY <2>2, <2>3
<1> HIDE DEF fields
<1>4. n \in Nat \ {0} /\ DOMAIN fields = 1..n /\ \A i \in 1..n : fields[i] \in FieldKinds
  BY <1>2, EmptySeq
<1>5. DOMAIN m.body = 1..n /\ \A i \in 1..n : m.body[i] \in FieldValues(fields[i])
  BY <1>1, <1>4
<1>6. w = [i \in 1..n |-> ItemOf(fields[i], m.body[i])]
  BY <1>5 DEF ItemsOf, fields
<1>7. \A i \in 1..n :
        /\ w[i] \in Items /\ w[i][1] # "member"
        /\ Written[w[i]] = WriteField(fields[i], m.body[i])
        /\ Heard[w[i]] = HeardField(fields[i], m.body[i])
        /\ ReadOf[w[i]] = <<ReadField(fields[i])>>
  BY <1>4, <1>5, <1>6, FieldItem
<1> HIDE DEF w, n
<1>8. w \in Seq(Items) /\ Len(w) = n
  <2>1. w \in [1..n -> Items]
    BY <1>6, <1>7
  <2> QED
    BY <1>4, <2>1, IsSequence
<1>9. w # <<>>
  BY <1>4, <1>8, EmptySeq
<1>10. Each(Written, w) = [i \in 1..n |-> WriteField(fields[i], m.body[i])]
  BY <1>7, <1>8 DEF Each
<1>11. Each(Heard, w) = [i \in 1..n |-> HeardField(fields[i], m.body[i])]
  BY <1>7, <1>8 DEF Each
<1>12. All(ReadOf, w) = [i \in DOMAIN fields |-> ReadField(fields[i])]
  <2> DEFINE reads == [i \in 1..n |-> ReadField(fields[i])]
             S == {ReadField(fields[i]) : i \in 1..n}
  <2>1. reads \in [1..n -> S]
    OBVIOUS
  <2>2. \A i \in 1..n : reads[i] = ReadField(fields[i])
    OBVIOUS
  <2> HIDE DEF reads, S
  <2>3. reads \in Seq(S) /\ Len(reads) = n
    BY <1>4, <2>1, IsSequence
  <2>4. Each(ReadOf, w) = [i \in 1..Len(reads) |-> <<reads[i]>>]
    BY <1>7, <1>8, <2>2, <2>3 DEF Each
  <2>5. FlattenSeq([i \in 1..Len(reads) |-> <<reads[i]>>]) = reads
    BY <2>3, FlattenSingles
  <2> QED
    BY <1>4, <2>4, <2>5 DEF All, reads
<1>13. WriteMessage(m) = <<m.type>> \o All(Written, w)
  BY <1>5, <1>10 DEF WriteMessage, All, fields
<1>14. HeardMessage(m) = <<m.type>> \o All(Heard, w)
  BY <1>5, <1>11 DEF HeardMessage, All, fields
<1> QED
  BY <1>1, <1>3, <1>7, <1>8, <1>9, <1>12, <1>13, <1>14 DEF w, fields
-----------------------------------------------------------------------------
(* A read.  The members of the set at hand, M, come before the other items *)
(* of the message, U.                                                      *)

MemberSet == {"member"} \X Int32
Plain == {x \in Items : x[1] # "member"}
Filled(values, M) ==
    IF M = <<>> THEN values
    ELSE [values EXCEPT ![Len(values)] = @ \cup {M[i][2] : i \in 1..Len(M)}]
Fillable(values, M) ==
    /\ M \in Seq(MemberSet) /\ values \in Seq(Values)
    /\ M # <<>> => values # <<>> /\ values[Len(values)] \in SUBSET Int32

\* Members and plain items are items.
LEMMA MembersAndPlain ==
    /\ \A M \in Seq(MemberSet) : M \in Seq(Items)
    /\ \A U \in Seq(Plain) : U \in Seq(Items)
    /\ \A x \in MemberSet : x \in Items /\ x[1] = "member" /\ x[2] \in Int32
<1>1. MemberSet \subseteq Items /\ Plain \subseteq Items
  BY DEF MemberSet, Plain, Items
<1>2. \A x \in MemberSet : x[1] = "member" /\ x[2] \in Int32
  BY DEF MemberSet
<1> QED
  BY <1>1, <1>2, SeqMonotonic

\* Members are below a set only.
LEMMA BelowPlain ==
    ASSUME NEW x \in Plain
    PROVE  IF x[1] = "set" THEN Below(x) \in Seq(MemberSet) ELSE Below(x) \in Seq(Plain)
<1>1. x \in Items /\ x[1] # "member"
  BY DEF Plain
<1>2. CASE ~Counted(x) \/ Count(x) = 0
  <2>1. Below(x) = <<>>
    BY <1>2 DEF Below
  <2> QED
    BY <2>1, EmptySeq
<1>3. CASE Count(x) # 0 /\ x[1] = "set"
  <2>1. x[2] \in IntSets
    BY <1>1, <1>3, ItemKinds DEF Count
  <2>2. Below(x) = MemberItems(x[2])
    BY <1>3 DEF Below, Counted
  <2> DEFINE s == SetToSeq(x[2])
             n == Cardinality(x[2])
  <2>3. n \in Nat /\ s \in Seq(x[2]) /\ Len(s) = n /\ x[2] \subseteq Int32
    BY <2>1, IntSetsFinite, SetToSeqType
  <2>4. \A i \in 1..n : s[i] \in Int32
    BY <2>3, ElementOfSeq
  <2>5. MemberItems(x[2]) = [i \in 1..n |-> <<"member", s[i]>>]
    BY DEF MemberItems
  <2> HIDE DEF s, n
  <2>6. MemberItems(x[2]) \in [1..n -> MemberSet]
    BY <2>4, <2>5 DEF MemberSet
  <2> QED
    BY <1>3, <2>2, <2>3, <2>6, IsSequence
<1>4. CASE Count(x) # 0 /\ x[1] \in {"string", "data"}
  <2> DEFINE y == <<"bytes", x[2]>>
  <2>1. Below(x) = <<y>> /\ y[1] = "bytes"
    BY <1>4 DEF Below, Counted
  <2>2. y \in Items
    <3>1. <<y>> \in Seq(Items)
      BY <1>1, <2>1, BelowType
    <3>2. y = <<y>>[1] /\ Len(<<y>>) = 1
      OBVIOUS
    <3> QED
      BY <3>1, <3>2, ElementOfSeq
  <2>3. y \in Plain
    BY <2>1, <2>2 DEF Plain
  <2> HIDE DEF y
  <2>4. <<y>> \in Seq(Plain)
    BY <2>3
  <2> QED
    BY <1>4, <2>1, <2>4
<1>5. CASE Count(x) # 0 /\ x[1] = "packets"
  <2> DEFINE n == Len(x[2])
             items == [i \in 1..n |-> PacketItems(x[2][i])]
  <2>1. x[2] \in Seq(Packets) /\ n \in Nat
    BY <1>1, <1>5, ItemKinds DEF Count, PacketArrays
  <2>2. Below(x) = FlattenSeq(items)
    BY <1>5 DEF Below, Counted
  <2>3. \A i \in 1..n : PacketItems(x[2][i]) \in Seq(Plain)
    <3> SUFFICES ASSUME NEW i \in 1..n PROVE PacketItems(x[2][i]) \in Seq(Plain)
      OBVIOUS
    <3> DEFINE y == <<"set", x[2][i].entitlements>>
               z == <<"data", x[2][i].data>>
    <3>1. PacketItems(x[2][i]) = <<y, z>> /\ y[1] = "set" /\ z[1] = "data"
      BY DEF PacketItems
    <3>2. <<y, z>> \in Seq(Flat)
      BY <2>1, <3>1, ElementOfSeq, PacketItemsType
    <3>3. y \in Flat /\ z \in Flat
      <4>1. y = <<y, z>>[1] /\ z = <<y, z>>[2] /\ Len(<<y, z>>) = 2
        OBVIOUS
      <4> HIDE DEF y, z
      <4> QED
        BY <3>2, <4>1, ElementOfSeq
    <3> HIDE DEF y, z
    <3>4. y \in Plain /\ z \in Plain
      BY <3>1, <3>3 DEF Flat, Plain
    <3> QED
      BY <3>1, <3>4
  <2>4. items \in [1..n -> Seq(Plain)]
    BY <2>3
  <2> HIDE DEF n, items
  <2>5. items \in Seq(Seq(Plain))
    BY <2>1, <2>4, IsSequence
  <2> QED
    BY <1>5, <2>2, <2>5, FlattenType
<1> QED
  BY <1>1, <1>2, <1>3, <1>4, <1>5, ItemKinds DEF Counted, Kinds

\* The first read of a plan is that of the first item.
LEMMA PlanUnfolds ==
    ASSUME NEW x \in Items, NEW w \in Seq(Items)
    PROVE  /\ All(ReadOf, <<x>> \o w) # <<>>
           /\ Head(All(ReadOf, <<x>> \o w)) = <<x[1], Len(Chunk(x))>>
           /\ Tail(All(ReadOf, <<x>> \o w)) = All(ReadOf, w)
<1> DEFINE r == <<x[1], Len(Chunk(x))>>
           rest == All(ReadOf, w)
<1>1. All(ReadOf, <<x>> \o w) = ReadOf[x] \o rest
  BY AllFirst, ItemFunctions
<1>2. ReadOf[x] = <<r>>
  BY ReadOfItem
<1>3. rest \in Seq(Reads)
  BY AllType, ItemFunctions
<1>4. r \in Reads
  BY ItemKinds, ChunkType DEF Reads
<1> HIDE DEF r, rest
<1>5. <<r>> \o rest # <<>> /\ Head(<<r>> \o rest) = r /\ Tail(<<r>> \o rest) = rest
  BY <1>3, <1>4
<1> QED
  BY <1>1, <1>2, <1>5 DEF r, rest

\* A member that is read is added to the set at hand.
LEMMA MemberRead ==
    ASSUME NEW M, NEW values, Fillable(values, M), M # <<>>
    PROVE  LET next == AfterRead("member", Chunk(Head(M)), values)
           IN  /\ next.reads = <<>> /\ Fillable(next.values, Tail(M))
               /\ Filled(next.values, Tail(M)) = Filled(values, M)
<1> DEFINE x == Head(M)
           rest == Tail(M)
           n == Len(values)
           more == {rest[i][2] : i \in 1..Len(rest)}
           longer == [values EXCEPT ![n] = values[n] \cup {x[2]}]
<1>1. M \in Seq(MemberSet) /\ values \in Seq(Values)
  BY DEF Fillable
<1>2. values # <<>> /\ values[n] \in SUBSET Int32 /\ n \in 1..Len(values)
  <2>1. values # <<>> /\ values[n] \in SUBSET Int32
    BY DEF Fillable
  <2> QED
    BY <1>1, <2>1, EmptySeq
<1>3. /\ x \in MemberSet /\ rest \in Seq(MemberSet) /\ Len(rest) = Len(M) - 1
      /\ \A i \in 1..Len(rest) : rest[i] = M[i + 1]
      /\ Len(M) \in Nat \ {0} /\ x = M[1]
  BY <1>1, HeadTailProperties, EmptySeq
<1>4. IntOfBytes(Chunk(x)) = x[2] /\ x[2] \in Int32
  <2>1. x[1] = "member" /\ x[2] \in Int32
    BY <1>3, MembersAndPlain
  <2> QED
    BY <2>1, IntBytes DEF Chunk
<1>5. AfterRead("member", Chunk(x), values) = [reads |-> <<>>, values |-> longer]
  BY <1>4 DEF AfterRead
<1> HIDE DEF x, rest, n
<1>6. {M[i][2] : i \in 1..Len(M)} = {x[2]} \cup more
  <2>1. ASSUME NEW i \in 1..Len(M) PROVE M[i][2] \in {x[2]} \cup more
    <3>1. CASE i = 1
      BY <1>3, <3>1
    <3>2. CASE i # 1
      <4>1. i - 1 \in 1..Len(rest) /\ M[i] = rest[i - 1]
        BY <1>3, <3>2
      <4> QED
        BY <4>1
    <3> QED
      BY <3>1, <3>2
  <2>2. ASSUME NEW i \in 1..Len(rest) PROVE rest[i][2] \in {M[j][2] : j \in 1..Len(M)}
    <3>1. i + 1 \in 1..Len(M) /\ rest[i] = M[i + 1]
      BY <1>3
    <3> QED
      BY <3>1
  <2>3. x[2] \in {M[j][2] : j \in 1..Len(M)}
    BY <1>3
  <2> QED
    BY <2>1, <2>2, <2>3
<1>7. rest = <<>> => more = {}
  <2> SUFFICES ASSUME rest = <<>> PROVE more = {}
    OBVIOUS
  <2>1. 1..Len(rest) = {}
    BY SMT
  <2> QED
    BY <2>1, Zenon
<1> HIDE DEF more
<1> DEFINE set == values[n] \cup {x[2]}
<1>8. set \in SUBSET Int32 /\ set \in Values
  <2>1. set \in SUBSET Int32
    BY <1>2, <1>4
  <2> HIDE DEF set
  <2> QED
    BY <2>1, ValuesOfKinds
<1>9. longer = [values EXCEPT ![n] = set]
  OBVIOUS
<1> HIDE DEF set, longer
<1>10. longer \in Seq(Values) /\ Len(longer) = Len(values) /\ longer[n] = set
  BY <1>1, <1>2, <1>8, <1>9, ExceptSeq
<1>11. longer # <<>> /\ Len(longer) = n
  BY <1>1, <1>2, <1>10, EmptySeq DEF n
<1>12. Fillable(longer, rest)
  BY <1>3, <1>8, <1>10, <1>11 DEF Fillable
<1>13. Filled(values, M) = [values EXCEPT ![n] = set \cup more]
  <2>1. Filled(values, M) = [values EXCEPT ![n] = values[n] \cup ({x[2]} \cup more)]
    BY <1>6 DEF Filled, n
  <2>2. values[n] \cup ({x[2]} \cup more) = set \cup more
    BY DEF set
  <2> QED
    BY <2>1, <2>2
<1>14. Filled(longer, rest) = Filled(values, M)
  <2>1. CASE rest = <<>>
    <3>1. set \cup more = set
      BY <1>7, <2>1
    <3>2. Filled(longer, rest) = longer
      BY <2>1 DEF Filled
    <3> QED
      BY <1>9, <1>13, <3>1, <3>2
  <2>2. CASE rest # <<>>
    <3>1. Filled(longer, rest) = [longer EXCEPT ![n] = longer[n] \cup more]
      BY <1>11, <2>2 DEF Filled, more
    <3>2. \A s : [longer EXCEPT ![n] = s] = [values EXCEPT ![n] = s]
      BY <1>9
    <3> QED
      BY <1>10, <1>13, <3>1, <3>2
  <2> QED
    BY <2>1, <2>2
<1> QED
  BY <1>5, <1>12, <1>14 DEF x, rest

Beginning(x) == IF x[1] = "set" /\ Count(x) # 0 THEN << {} >> ELSE Given(x)

\* A plain item that is read gives its values and asks for the items below it.
LEMMA AfterReadOf ==
    ASSUME NEW x \in Plain, NEW values \in Seq(Values)
    PROVE  LET next == AfterRead(x[1], Chunk(x), values)
           IN  next.reads = All(ReadOf, Below(x)) /\ next.values = values \o Beginning(x)
<1>1. x \in Items /\ x[1] # "member"
  BY DEF Plain
<1>2. Given(x) \in Seq(Values)
  BY <1>1, GivenType
<1>3. CASE ~Counted(x)
  <2>1. x[1] \in {"boolean", "bytes"}
    BY <1>1, <1>3, ItemKinds DEF Counted, Kinds
  <2>2. Beginning(x) = <<x[2]>> /\ x[2] \in Values
    <3>1. Beginning(x) = <<x[2]>>
      BY <2>1 DEF Beginning, Given, Counted
    <3> QED
      BY <1>1, <2>1, <3>1, ItemKinds, ValuesOfKinds
  <2>3. All(ReadOf, Below(x)) = <<>>
    BY <1>3, AllEmpty DEF Below
  <2>4. Append(values, x[2]) = values \o <<x[2]>>
    BY <2>2, AppendIsConcat
  <2>5. CASE x[1] = "bytes"
    BY <2>2, <2>3, <2>4, <2>5 DEF AfterRead, Chunk
  <2>6. CASE x[1] = "boolean"
    <3>1. (Chunk(x)[1] # 0) = x[2]
      <4>1. x[2] \in BOOLEAN /\ Chunk(x)[1] = IF x[2] THEN 1 ELSE 0
        BY <1>1, <2>6, ItemKinds DEF Chunk
      <4>2. CASE x[2] = TRUE
        BY <4>1, <4>2
      <4>3. CASE x[2] = FALSE
        BY <4>1, <4>3
      <4> QED
        BY <4>1, <4>2, <4>3
    <3>2. AfterRead(x[1], Chunk(x), values) = [reads |-> <<>>, values |-> Append(values, x[2])]
      BY <2>6, <3>1 DEF AfterRead
    <3> QED
      BY <2>2, <2>3, <2>4, <3>2
  <2> QED
    BY <2>1, <2>5, <2>6
<1>4. CASE Counted(x)
  <2>1. Chunk(x) = BytesOfInt(Count(x)) /\ IntOfBytes(Chunk(x)) = Count(x)
    <3>1. Chunk(x) = BytesOfInt(Count(x))
      BY <1>4 DEF Counted, Chunk
    <3> QED
      BY <1>1, <1>4, <3>1, CountType, IntBytes
  <2>2. AfterRead(x[1], Chunk(x), values) =
            [reads |-> AfterCount(x[1], Count(x)).reads,
             values |-> values \o AfterCount(x[1], Count(x)).values]
    BY <1>4, <2>1 DEF AfterRead, Counted
  <2> DEFINE asked == AfterCount(x[1], Count(x))
  <2>3. asked.reads = All(ReadOf, Below(x)) /\ asked.values = Beginning(x)
    BY <1>1, <1>4, CountRead DEF Beginning
  <2> HIDE DEF asked
  <2> QED
    BY <2>2, <2>3 DEF asked
<1> QED
  BY <1>3, <1>4

\* Concatenation is associative.
LEMMA Regroup ==
    ASSUME NEW r, NEW s, NEW t, r \in Seq(Byte) /\ s \in Seq(Byte) /\ t \in Seq(Byte)
    PROVE  (r \o s) \o t = r \o (s \o t)
OBVIOUS

LEMMA RegroupValues ==
    ASSUME NEW r, NEW s, NEW t, r \in Seq(Values) /\ s \in Seq(Values) /\ t \in Seq(Values)
    PROVE  (r \o s) \o t = r \o (s \o t)
OBVIOUS

\* A set is complete when its members are.
LEMMA FilledByMembers ==
    ASSUME NEW v \in IntSets, Cardinality(v) # 0, NEW values \in Seq(Values)
    PROVE  /\ Fillable(values \o << {} >>, MemberItems(v))
           /\ Filled(values \o << {} >>, MemberItems(v)) = values \o <<v>>
           /\ All(Heard, MemberItems(v)) = <<>>
<1> DEFINE M == MemberItems(v)
           s == SetToSeq(v)
           n == Cardinality(v)
           before == values \o << {} >>
           k == Len(before)
<1>1. n \in Nat \ {0} /\ s \in Seq(v) /\ Len(s) = n /\ v = {s[i] : i \in 1..n} /\ v \subseteq Int32
  BY IntSetsFinite, SetToSeqType
<1>2. \A i \in 1..n : s[i] \in Int32
  BY <1>1, ElementOfSeq
<1>3. M = [i \in 1..n |-> <<"member", s[i]>>]
  BY DEF MemberItems
<1> HIDE DEF M, s, n
<1>4. M \in Seq(MemberSet) /\ Len(M) = n /\ M # <<>>
  <2>1. M \in [1..n -> MemberSet]
    BY <1>2, <1>3 DEF MemberSet
  <2>2. M \in Seq(MemberSet) /\ Len(M) = n
    BY <1>1, <2>1, IsSequence
  <2> QED
    BY <1>1, <2>2, EmptySeq
<1>5. {M[i][2] : i \in 1..Len(M)} = v
  <2>1. \A i \in 1..n : M[i][2] = s[i]
    BY <1>3
  <2> QED
    BY <1>1, <1>4, <2>1
<1>6. {} \in SUBSET Int32 /\ {} \in Values /\ v \in Values
  BY <1>1, ValuesOfKinds
<1>7. /\ before \in Seq(Values) /\ k = Len(values) + 1 /\ before[k] = {} /\ before # <<>>
      /\ \A i \in 1..Len(values) : before[i] = values[i]
  <2>1. << {} >> \in Seq(Values) /\ Len(<< {} >>) = 1 /\ << {} >>[1] = {}
    BY <1>6
  <2>2. before \in Seq(Values) /\ k = Len(values) + 1
    BY <2>1, ConcatProperties
  <2>3. Len(values) \in Nat
    BY LenProperties
  <2>4. \A i \in 1..(Len(values) + 1) :
            before[i] = IF i <= Len(values) THEN values[i] ELSE << {} >>[i - Len(values)]
    BY <2>1, ConcatProperties
  <2> HIDE DEF before
  <2>5. before[k] = {} /\ \A i \in 1..Len(values) : before[i] = values[i]
    BY <2>1, <2>2, <2>3, <2>4
  <2> QED
    BY <2>2, <2>3, <2>5, EmptySeq
<1> HIDE DEF before
<1>8. Fillable(before, M)
  BY <1>4, <1>6, <1>7 DEF Fillable
<1>9. Filled(before, M) = [before EXCEPT ![k] = v]
  <2>1. Filled(before, M) = [before EXCEPT ![k] = before[k] \cup v]
    BY <1>4, <1>5 DEF Filled
  <2> QED
    BY <1>7, <2>1
<1>10. [before EXCEPT ![k] = v] = values \o <<v>>
  <2> DEFINE a == [before EXCEPT ![k] = v]
             b == values \o <<v>>
  <2>1. k \in 1..Len(before)
    BY <1>7, LenProperties
  <2>2. /\ a \in Seq(Values) /\ Len(a) = k
        /\ \A i \in 1..k : a[i] = IF i = k THEN v ELSE before[i]
    BY <1>6, <1>7, <2>1, ExceptSeq
  <2>3. <<v>> \in Seq(Values) /\ Len(<<v>>) = 1 /\ <<v>>[1] = v
    BY <1>6
  <2>4. /\ b \in Seq(Values) /\ Len(b) = Len(values) + 1
        /\ \A i \in 1..(Len(values) + 1) :
            b[i] = IF i <= Len(values) THEN values[i] ELSE <<v>>[i - Len(values)]
    BY <2>3, ConcatProperties
  <2>5. Len(values) \in Nat
    BY LenProperties
  <2> HIDE DEF a, b, k
  <2>6. \A i \in 1..k : a[i] = b[i]
    <3> SUFFICES ASSUME NEW i \in 1..k PROVE a[i] = b[i]
      OBVIOUS
    <3>1. k = Len(values) + 1 /\ i \in 1..(Len(values) + 1)
      BY <1>7
    <3>2. CASE i = k
      <4>1. i - Len(values) = 1 /\ ~(i <= Len(values))
        BY <2>5, <3>1, <3>2
      <4>2. b[i] = <<v>>[1]
        BY <2>4, <3>1, <4>1
      <4> QED
        BY <2>2, <2>3, <3>2, <4>2
    <3>3. CASE i # k
      <4>1. i \in 1..Len(values)
        BY <2>5, <3>1, <3>3
      <4>2. b[i] = values[i]
        BY <2>4, <3>1, <4>1
      <4> QED
        BY <1>7, <2>2, <3>3, <4>1, <4>2
    <3> QED
      BY <3>2, <3>3
  <2>7. a = b
    BY <1>7, <2>2, <2>4, <2>6, SeqEqual
  <2> QED
    BY <2>7 DEF a, b
<1>11. All(Heard, M) = <<>>
  <2>1. \A x \in MemberSet : Heard[x] = <<>>
    <3> SUFFICES ASSUME NEW x \in MemberSet PROVE Heard[x] = <<>>
      OBVIOUS
    <3>1. x \in Items /\ x[1] = "member"
      BY MembersAndPlain
    <3>2. Below(x) = <<>> /\ Given(x) = <<>>
      BY <3>1 DEF Below, Given, Counted
    <3> QED
      BY <3>1, <3>2, NothingBelow
  <2> QED
    BY <1>4, <2>1, AllNothing
<1> QED
  BY <1>8, <1>9, <1>10, <1>11 DEF before, M

\* After a plain item the reader is to hear what it was to hear before.
LEMMA PlainRead ==
    ASSUME NEW x \in Plain, NEW U \in Seq(Plain), NEW values \in Seq(Values)
    PROVE  LET next == AfterRead(x[1], Chunk(x), values)
           IN  \E M2 \in Seq(MemberSet), U2 \in Seq(Plain) :
                 /\ next.reads \o All(ReadOf, U) = All(ReadOf, M2 \o U2)
                 /\ Written[x] \o All(Written, U) = Chunk(x) \o All(Written, M2 \o U2)
                 /\ Fillable(next.values, M2)
                 /\ Filled(next.values, M2) \o All(Heard, U2) = values \o All(Heard, <<x>> \o U)
<1> DEFINE next == AfterRead(x[1], Chunk(x), values)
<1>1. x \in Items /\ U \in Seq(Items) /\ Below(x) \in Seq(Items)
  BY MembersAndPlain, BelowType DEF Plain
<1>2. next.reads = All(ReadOf, Below(x)) /\ next.values = values \o Beginning(x)
  BY AfterReadOf
<1> HIDE DEF next
<1>3. next.reads \o All(ReadOf, U) = All(ReadOf, Below(x) \o U)
  <2>1. All(ReadOf, Below(x) \o U) = All(ReadOf, Below(x)) \o All(ReadOf, U)
    BY <1>1, AllConcat, ItemFunctions
  <2> QED
    BY <1>2, <2>1
<1>4. Written[x] \o All(Written, U) = Chunk(x) \o All(Written, Below(x) \o U)
  <2> DEFINE g == Chunk(x)
             h == All(Written, Below(x))
             u == All(Written, U)
  <2>1. Written[x] = g \o h
    BY <1>1, WrittenUnfolds
  <2>2. g \in Seq(Byte) /\ h \in Seq(Byte) /\ u \in Seq(Byte)
    BY <1>1, ChunkType, AllType, ItemFunctions
  <2>3. All(Written, Below(x) \o U) = h \o u
    BY <1>1, AllConcat, ItemFunctions
  <2> HIDE DEF g, h, u
  <2>4. (g \o h) \o u = g \o (h \o u)
    BY <2>2, Regroup
  <2> QED
    BY <2>1, <2>3, <2>4 DEF g, u
<1> DEFINE g == Given(x)
           h == All(Heard, Below(x))
           u == All(Heard, U)
           all == All(Heard, <<x>> \o U)
<1>5. g \in Seq(Values) /\ h \in Seq(Values) /\ u \in Seq(Values)
  BY <1>1, GivenType, AllType, ItemFunctions
<1>6. all = g \o (h \o u)
  <2>1. Heard[x] = g \o h
    BY <1>1, HeardUnfolds
  <2>2. all = Heard[x] \o u
    BY <1>1, AllFirst, ItemFunctions
  <2> HIDE DEF g, h, u, all
  <2> QED
    BY <1>5, <2>1, <2>2, ConcatAssociative
<1>7. CASE x[1] = "set" /\ Count(x) # 0
  <2> DEFINE v == x[2]
             M == MemberItems(v)
  <2>1. v \in IntSets /\ Cardinality(v) # 0
    BY <1>1, <1>7, ItemKinds DEF Count
  <2>2. Below(x) = M /\ Given(x) = <<v>> /\ Beginning(x) = << {} >>
    BY <1>7 DEF Below, Given, Beginning, Counted
  <2>3. M \in Seq(MemberSet)
    BY <1>7, <2>2, BelowPlain
  <2>4. /\ Fillable(next.values, M) /\ Filled(next.values, M) = values \o Given(x)
        /\ All(Heard, M) = <<>>
    BY <1>2, <2>1, <2>2, FilledByMembers
  <2> HIDE DEF M, v
  <2>5. Filled(next.values, M) \o u = values \o all
    <3>1. h = <<>>
      BY <2>2, <2>4
    <3> HIDE DEF g, h, u, all
    <3>2. all = g \o u
      BY <1>5, <1>6, <3>1, ConcatEmptySeq
    <3>3. (values \o g) \o u = values \o (g \o u)
      BY <1>5
    <3> QED
      BY <2>4, <3>2, <3>3 DEF g
  <2>6. /\ M \in Seq(MemberSet) /\ U \in Seq(Plain)
        /\ next.reads \o All(ReadOf, U) = All(ReadOf, M \o U)
        /\ Written[x] \o All(Written, U) = Chunk(x) \o All(Written, M \o U)
        /\ Fillable(next.values, M)
        /\ Filled(next.values, M) \o u = values \o all
    BY <1>3, <1>4, <2>2, <2>3, <2>4, <2>5
  <2> QED
    BY <2>6 DEF next
<1>8. CASE ~(x[1] = "set" /\ Count(x) # 0)
  <2>1. Below(x) \in Seq(Plain)
    <3>1. CASE x[1] # "set"
      BY <3>1, BelowPlain
    <3>2. CASE Count(x) = 0
      <4>1. Below(x) = <<>>
        BY <3>2 DEF Below
      <4> QED
        BY <4>1, EmptySeq
    <3> QED
      BY <1>8, <3>1, <3>2
  <2> DEFINE M == <<>>
             U2 == Below(x) \o U
  <2>2. U2 \in Seq(Plain) /\ M \o U2 = U2 /\ M \in Seq(MemberSet)
    BY <2>1, ConcatProperties, ConcatEmptySeq, EmptySeq
  <2>3. next.values = values \o g /\ next.values \in Seq(Values)
    <3>1. next.values = values \o g
      BY <1>2, <1>8 DEF Beginning
    <3> HIDE DEF g
    <3> QED
      BY <1>5, <3>1, ConcatProperties
  <2>4. Fillable(next.values, M) /\ Filled(next.values, M) = next.values
    BY <2>2, <2>3 DEF Fillable, Filled
  <2>5. All(Heard, U2) = h \o u
    BY <1>1, AllConcat, ItemFunctions
  <2>6. Filled(next.values, M) \o All(Heard, U2) = values \o all
    <3> HIDE DEF g, h, u, all
    <3> DEFINE k == h \o u
    <3>1. k \in Seq(Values)
      BY <1>5, ConcatProperties
    <3> HIDE DEF k
    <3>2. values \in Seq(Values) /\ g \in Seq(Values) /\ k \in Seq(Values)
      BY <1>5, <3>1
    <3>3. (values \o g) \o k = values \o (g \o k)
      BY <3>2, RegroupValues
    <3> QED
      BY <1>6, <2>3, <2>4, <2>5, <3>3 DEF k
  <2> HIDE DEF M, U2
  <2>7. /\ M \in Seq(MemberSet) /\ U2 \in Seq(Plain)
        /\ next.reads \o All(ReadOf, U) = All(ReadOf, M \o U2)
        /\ Written[x] \o All(Written, U) = Chunk(x) \o All(Written, M \o U2)
        /\ Fillable(next.values, M)
        /\ Filled(next.values, M) \o All(Heard, U2) = values \o all
    BY <1>3, <1>4, <2>2, <2>4, <2>6 DEF U2
  <2> QED
    BY <2>7 DEF next
<1> QED
  BY <1>7, <1>8

\* A read has got its bytes: M2 and U2 are what is to be read after it.
FirstRead(M, U, values) == LET x == Head(M \o U) IN AfterRead(x[1], Chunk(x), values)
ReadsOn(M, U, values, M2, U2) ==
    LET next == FirstRead(M, U, values)
    IN  /\ M2 \in Seq(MemberSet) /\ U2 \in Seq(Plain)
        /\ next.reads \o Tail(All(ReadOf, M \o U)) = All(ReadOf, M2 \o U2)
        /\ All(Written, M \o U) = Chunk(Head(M \o U)) \o All(Written, M2 \o U2)
        /\ Fillable(next.values, M2)
        /\ Filled(next.values, M2) \o All(Heard, U2) = Filled(values, M) \o All(Heard, U)

\* A read that gets the bytes of the first item leaves the reader in step.
LEMMA ItemRead ==
    ASSUME NEW M, NEW U, NEW values, M \in Seq(MemberSet) /\ U \in Seq(Plain),
           Fillable(values, M), M \o U # <<>>
    PROVE  /\ Head(M \o U) \in Items
           /\ All(ReadOf, M \o U) # <<>>
           /\ Head(All(ReadOf, M \o U)) = <<Head(M \o U)[1], Len(Chunk(Head(M \o U)))>>
           /\ \E M2, U2 : ReadsOn(M, U, values, M2, U2)
<1> DEFINE x == Head(M \o U)
           next == FirstRead(M, U, values)
<1>1. next = AfterRead(x[1], Chunk(x), values)
  BY DEF FirstRead
<1>2. M \in Seq(Items) /\ U \in Seq(Items) /\ values \in Seq(Values)
  BY MembersAndPlain DEF Fillable
<1>3. CASE M # <<>>
  <2> DEFINE y == Head(M)
             rest == Tail(M)
             w == rest \o U
  <2>1. y \in MemberSet /\ rest \in Seq(MemberSet) /\ M = <<y>> \o rest
    BY <1>3
  <2>2. y \in Items /\ y[1] = "member" /\ rest \in Seq(Items)
    BY <2>1, MembersAndPlain
  <2> HIDE DEF y, rest
  <2>3. M \o U = <<y>> \o w /\ x = y /\ w \in Seq(Items)
    <3>1. <<y>> \in Seq(Items)
      BY <2>2
    <3>2. (<<y>> \o rest) \o U = <<y>> \o (rest \o U)
      BY <1>2, <2>2, <3>1
    <3>3. rest \o U \in Seq(Items)
      BY <1>2, <2>2, ConcatProperties
    <3>4. M \o U = <<y>> \o w
      BY <2>1, <3>2
    <3> HIDE DEF w
    <3>5. Head(<<y>> \o w) = y
      BY <3>1, <3>3 DEF w
    <3> QED
      BY <3>3, <3>4, <3>5 DEF w
  <2> HIDE DEF w
  <2>4. /\ All(ReadOf, M \o U) # <<>>
        /\ Head(All(ReadOf, M \o U)) = <<y[1], Len(Chunk(y))>>
        /\ Tail(All(ReadOf, M \o U)) = All(ReadOf, w)
    <3>1. /\ All(ReadOf, <<y>> \o w) # <<>>
          /\ Head(All(ReadOf, <<y>> \o w)) = <<y[1], Len(Chunk(y))>>
          /\ Tail(All(ReadOf, <<y>> \o w)) = All(ReadOf, w)
      BY <2>2, <2>3, PlanUnfolds
    <3> QED
      BY <2>3, <3>1
  <2>5. All(Written, M \o U) = Chunk(y) \o All(Written, w)
    <3>1. Below(y) = <<>>
      BY <2>2 DEF Below, Counted
    <3>2. Written[y] = Chunk(y)
      BY <2>2, <3>1, NothingBelow
    <3>3. All(Written, <<y>> \o w) = Written[y] \o All(Written, w)
      BY <2>2, <2>3, AllFirst, ItemFunctions
    <3> QED
      BY <2>3, <3>2, <3>3
  <2>6. /\ next.reads = <<>> /\ Fillable(next.values, rest)
        /\ Filled(next.values, rest) = Filled(values, M)
    BY <1>1, <1>3, <2>2, <2>3, MemberRead DEF y, rest
  <2> HIDE DEF next, x
  <2>7. next.reads \o Tail(All(ReadOf, M \o U)) = All(ReadOf, w)
    <3>1. All(ReadOf, w) \in Seq(Reads)
      BY <2>3, AllType, ItemFunctions
    <3> QED
      BY <2>4, <2>6, <3>1, ConcatEmptySeq
  <2>8. /\ next.reads \o Tail(All(ReadOf, M \o U)) = All(ReadOf, rest \o U)
        /\ All(Written, M \o U) = Chunk(x) \o All(Written, rest \o U)
        /\ Fillable(next.values, rest)
        /\ Filled(next.values, rest) \o All(Heard, U) = Filled(values, M) \o All(Heard, U)
    BY <2>3, <2>5, <2>6, <2>7 DEF w
  <2>9. ReadsOn(M, U, values, rest, U)
    BY <2>1, <2>8 DEF ReadsOn, next, x
  <2> QED
    BY <2>2, <2>3, <2>4, <2>9 DEF x
<1>4. CASE M = <<>>
  <2> DEFINE y == Head(U)
             rest == Tail(U)
  <2>1. M \o U = U /\ Filled(values, M) = values /\ U # <<>> /\ x = y
    <3>1. M \o U = U
      BY <1>2, <1>4, ConcatEmptySeq
    <3> QED
      BY <1>4, <3>1 DEF Filled
  <2>2. y \in Plain /\ rest \in Seq(Plain) /\ U = <<y>> \o rest
    BY <2>1
  <2>3. y \in Items /\ rest \in Seq(Items)
    BY <2>2, MembersAndPlain DEF Plain
  <2> HIDE DEF y, rest
  <2>4. /\ All(ReadOf, U) # <<>>
        /\ Head(All(ReadOf, U)) = <<y[1], Len(Chunk(y))>>
        /\ Tail(All(ReadOf, U)) = All(ReadOf, rest)
    BY <2>2, <2>3, PlanUnfolds
  <2>5. All(Written, U) = Written[y] \o All(Written, rest)
    BY <2>2, <2>3, AllFirst, ItemFunctions
  <2> DEFINE then == AfterRead(y[1], Chunk(y), values)
  <2>6. PICK M2 \in Seq(MemberSet), U2 \in Seq(Plain) :
            /\ then.reads \o All(ReadOf, rest) = All(ReadOf, M2 \o U2)
            /\ Written[y] \o All(Written, rest) = Chunk(y) \o All(Written, M2 \o U2)
            /\ Fillable(then.values, M2)
            /\ Filled(then.values, M2) \o All(Heard, U2) = values \o All(Heard, <<y>> \o rest)
    BY <1>2, <2>2, PlainRead
  <2>7. then = next
    BY <1>1, <2>1
  <2> HIDE DEF then, next, x
  <2>8. /\ next.reads \o Tail(All(ReadOf, M \o U)) = All(ReadOf, M2 \o U2)
        /\ All(Written, M \o U) = Chunk(x) \o All(Written, M2 \o U2)
        /\ Fillable(next.values, M2)
        /\ Filled(next.values, M2) \o All(Heard, U2) = Filled(values, M) \o All(Heard, U)
    BY <2>1, <2>2, <2>4, <2>5, <2>6, <2>7
  <2>9. ReadsOn(M, U, values, M2, U2)
    BY <2>6, <2>8 DEF ReadsOn, next, x
  <2> QED
    BY <2>1, <2>3, <2>4, <2>9 DEF x
<1> QED
  BY <1>3, <1>4

-----------------------------------------------------------------------------
(* Bytes.                                                                  *)

\* Equal beginnings of equal sequences leave equal ends.
LEMMA SplitUnique ==
    ASSUME NEW q, NEW r, NEW s, NEW t,
           q \in Seq(Byte), r \in Seq(Byte), s \in Seq(Byte), t \in Seq(Byte),
           q \o r = s \o t, Len(q) = Len(s)
    PROVE  q = s /\ r = t
<1>1. Len(q) \in Nat /\ Len(r) \in Nat /\ Len(t) \in Nat
  BY LenProperties
<1>2. Len(r) = Len(t)
  <2>1. Len(q \o r) = Len(q) + Len(r) /\ Len(s \o t) = Len(s) + Len(t)
    BY ConcatProperties
  <2> QED
    BY <1>1, <2>1
<1>3. \A i \in 1..Len(q) : q[i] = s[i]
  <2> TAKE i \in 1..Len(q)
  <2>1. (q \o r)[i] = q[i] /\ (s \o t)[i] = s[i]
    BY <1>1, ConcatProperties
  <2> QED
    BY <2>1
<1>4. \A i \in 1..Len(r) : r[i] = t[i]
  <2> TAKE i \in 1..Len(r)
  <2> DEFINE j == Len(q) + i
  <2>1. j \in 1..(Len(q) + Len(r)) /\ ~(j <= Len(q)) /\ j - Len(q) = i
    BY <1>1
  <2>2. (q \o r)[j] = r[i] /\ (s \o t)[j] = t[i]
    BY <1>1, <1>2, <2>1, ConcatProperties
  <2> QED
    BY <2>2
<1> QED
  BY <1>2, <1>3, <1>4, SeqEqual

\* What follows the bytes that were read.
LEMMA ReadBytes ==
    ASSUME NEW c, NEW all, NEW left, NEW more,
           c \in Seq(Byte) /\ all \in Seq(Byte) /\ left \in Seq(Byte) /\ more \in Seq(Byte)
    PROVE  c \o more = (c \o all) \o left => more = all \o left
<1>1. (c \o all) \o left = c \o (all \o left)
  BY Regroup
<1>2. all \o left \in Seq(Byte)
  BY ConcatProperties
<1>3. Len(c) = Len(c)
  OBVIOUS
<1> QED
  BY <1>1, <1>2, <1>3, SplitUnique

\* What Read takes, and what it leaves.
LEMMA Cut ==
    ASSUME NEW p, p \in Seq(Byte), NEW n \in 0..Len(p)
    PROVE  LET a == SubSeq(p, 1, n)
               b == SubSeq(p, n + 1, Len(p))
           IN  a \in Seq(Byte) /\ b \in Seq(Byte) /\ Len(a) = n /\ a \o b = p
<1>1. Len(p) \in Nat /\ \A i \in 1..Len(p) : p[i] \in Byte
  BY LenProperties, ElementOfSeq
<1>2. SubSeq(p, 1, n) \in Seq(Byte) /\ Len(SubSeq(p, 1, n)) = n
  BY <1>1, SubSeqProperties
<1>3. SubSeq(p, n + 1, Len(p)) \in Seq(Byte)
  BY <1>1, SubSeqProperties
<1>4. SubSeq(p, 1, n) \o SubSeq(p, n + 1, Len(p)) = SubSeq(p, 1, Len(p))
  <2>1. /\ 1 \in 1..(Len(p) + 1) /\ n \in (1 - 1)..Len(p) /\ Len(p) \in n..Len(p)
    BY <1>1
  <2> QED
    BY <2>1, ConcatAdjacentSubSeq
<1> QED
  BY <1>2, <1>3, <1>4, SubSeqFull
-----------------------------------------------------------------------------
(* The inductive invariant.                                                *)

\* The bytes of the messages after the first n of s.
Bytes == [m \in Messages |-> WriteMessage(m)]
Left(s, n) == All(Bytes, SubSeq(s, n + 1, Len(s)))

\* How many messages the reader has begun to read.
Begun == IF plan = <<>> THEN Len(heard) ELSE Len(heard) + 1

Typed ==
    /\ written \in Seq(Messages)
    /\ outgoing \in Seq(Byte) /\ pipe \in Seq(Byte) /\ buf \in Seq(Byte)
    /\ ended \in BOOLEAN /\ cut \in BOOLEAN
    /\ plan \in Seq(Reads) /\ tokens \in Seq(Values) /\ heard \in Seq(Seq(Values))
    /\ ended => outgoing = <<>>
    /\ cut => ended
    /\ plan # <<>> => Len(buf) < Head(plan)[2]
    /\ plan = <<>> => buf = <<>> /\ tokens = <<>>
    /\ reader \in {"reading", "closed"}

\* The reader is where the writer has been: M and U are what it still has to read
\* of its message, unsent is what the writer has not sent.
Reading(M, U, unsent) ==
    /\ plan = All(ReadOf, M \o U)
    /\ Fillable(tokens, M)
    /\ Begun <= Len(written)
    /\ plan # <<>> => Filled(tokens, M) \o All(Heard, U) = HeardMessage(written[Begun])
    /\ buf \o (pipe \o unsent) = All(Written, M \o U) \o Left(written, Begun)
    /\ \A i \in 1..Len(heard) : heard[i] = HeardMessage(written[i])
    /\ ~cut => unsent = outgoing
    /\ Len(unsent) <= IF written = <<>> THEN 0 ELSE Len(WriteMessage(written[Len(written)]))
InStep ==
    \E M \in Seq(MemberSet), U \in Seq(Plain), unsent \in Seq(Byte) : Reading(M, U, unsent)

\* The reader took the end of the stream for a boolean: what it makes of the last
\* message is no longer what the writer meant, and there is nothing more to read.
Astray ==
    /\ cut /\ pipe = <<>> /\ buf = <<>>
    /\ Begun = Len(written)
    /\ \A i \in 1..Len(heard) : i < Len(written) => heard[i] = HeardMessage(written[i])

Inv == Typed /\ (InStep \/ Astray)

\* A message is at least one byte.
LEMMA BytesType ==
    /\ Bytes \in [Messages -> Seq(Byte)] /\ GivesSequences(Bytes, Messages)
    /\ \A m \in Messages : Bytes[m] = WriteMessage(m) /\ Len(WriteMessage(m)) \in Nat \ {0}
<1>1. ASSUME NEW m \in Messages
      PROVE  WriteMessage(m) \in Seq(Byte) /\ Len(WriteMessage(m)) \in Nat \ {0}
  <2> DEFINE rest == All(Written, ItemsOf(m))
  <2>1. WriteMessage(m) = <<m.type>> \o rest /\ m.type \in Byte /\ ItemsOf(m) \in Seq(Items)
    BY MessageItems
  <2>2. rest \in Seq(Byte)
    BY <2>1, AllType, ItemFunctions
  <2>3. <<m.type>> \in Seq(Byte) /\ Len(<<m.type>>) = 1
    BY <2>1
  <2> HIDE DEF rest
  <2>4. WriteMessage(m) \in Seq(Byte) /\ Len(WriteMessage(m)) = 1 + Len(rest)
    BY <2>1, <2>2, <2>3, ConcatProperties
  <2>5. Len(rest) \in Nat
    BY <2>2, LenProperties
  <2> QED
    BY <2>4, <2>5
<1> QED
  BY <1>1 DEF Bytes, GivesSequences

\* A part of what was written.
LEMMA MessagePart ==
    ASSUME NEW s, s \in Seq(Messages), NEW i \in Nat, NEW j \in Int, j <= Len(s)
    PROVE  SubSeq(s, i + 1, j) \in Seq(Messages)
<1>1. \A k \in (i + 1)..j : s[k] \in Messages
  BY LenProperties, ElementOfSeq
<1> QED
  BY <1>1, SubSeqProperties

LEMMA LeftType ==
    ASSUME NEW s, s \in Seq(Messages), NEW n \in Nat
    PROVE  Left(s, n) \in Seq(Byte)
<1>1. SubSeq(s, n + 1, Len(s)) \in Seq(Messages)
  BY LenProperties, MessagePart
<1> QED
  BY <1>1, AllType, BytesType DEF Left

LEMMA LeftNone ==
    ASSUME NEW s, s \in Seq(Messages), NEW n, n = Len(s)
    PROVE  Left(s, n) = <<>>
<1>1. SubSeq(s, n + 1, Len(s)) = <<>>
  BY LenProperties, SubSeqEmpty
<1> QED
  BY <1>1, AllEmpty DEF Left

\* The bytes left begin with those of the next message.
LEMMA LeftFirst ==
    ASSUME NEW s, s \in Seq(Messages), NEW n \in Nat, n < Len(s)
    PROVE  Left(s, n) = WriteMessage(s[n + 1]) \o Left(s, n + 1)
<1>1. n + 1 \in 1..Len(s) /\ Len(s) \in (n + 1)..Len(s) /\ s[n + 1] \in Messages
  BY LenProperties, ElementOfSeq
<1> DEFINE rest == SubSeq(s, n + 1 + 1, Len(s))
<1>2. SubSeq(s, n + 1, Len(s)) = <<s[n + 1]>> \o rest
  BY <1>1, SubSeqRecursiveFirst
<1>3. rest \in Seq(Messages)
  BY LenProperties, MessagePart
<1> HIDE DEF rest
<1>4. All(Bytes, <<s[n + 1]>> \o rest) = Bytes[s[n + 1]] \o All(Bytes, rest)
  BY <1>1, <1>3, AllFirst, BytesType
<1> QED
  BY <1>1, <1>2, <1>4, BytesType DEF Left, rest

\* A message that is written is written after all others.
LEMMA LeftLonger ==
    ASSUME NEW s, s \in Seq(Messages), NEW n \in Nat, n <= Len(s), NEW m \in Messages
    PROVE  Left(Append(s, m), n) = Left(s, n) \o WriteMessage(m)
<1> DEFINE t == Append(s, m)
           part == SubSeq(s, n + 1, Len(s))
           longer == SubSeq(t, n + 1, Len(t))
<1>1. t \in Seq(Messages) /\ Len(t) = Len(s) + 1 /\ Len(s) \in Nat
  BY AppendProperties, LenProperties
<1>2. part \in Seq(Messages) /\ longer \in Seq(Messages)
  BY <1>1, MessagePart
<1>3. Len(part) = Len(s) - n /\ \A i \in 1..Len(part) : part[i] = s[n + i]
  BY <1>1, SubSeqProperties
<1>4. Len(longer) = Len(s) - n + 1 /\ \A i \in 1..Len(longer) : longer[i] = t[n + i]
  BY <1>1, SubSeqProperties
<1>5. t[Len(s) + 1] = m /\ \A i \in 1..Len(s) : t[i] = s[i]
  BY AppendProperties
<1> HIDE DEF t, part, longer
<1>6. /\ Append(part, m) \in Seq(Messages) /\ Len(Append(part, m)) = Len(part) + 1
      /\ \A i \in 1..Len(part) : Append(part, m)[i] = part[i]
      /\ Append(part, m)[Len(part) + 1] = m
  BY <1>2, AppendProperties
<1>7. \A i \in 1..Len(longer) : longer[i] = Append(part, m)[i]
  <2> SUFFICES ASSUME NEW i \in 1..Len(longer) PROVE longer[i] = Append(part, m)[i]
    OBVIOUS
  <2>1. CASE i <= Len(part)
    <3>1. i \in 1..Len(part) /\ n + i \in 1..Len(s)
      BY <1>1, <1>3, <1>4, <2>1
    <3>2. longer[i] = t[n + i]
      BY <1>4
    <3>3. Append(part, m)[i] = part[i]
      BY <1>6, <3>1
    <3>4. part[i] = s[n + i]
      BY <1>3, <3>1
    <3>5. t[n + i] = s[n + i]
      BY <1>5, <3>1
    <3> QED
      BY <3>2, <3>3, <3>4, <3>5
  <2>2. CASE ~(i <= Len(part))
    <3>1. i = Len(part) + 1 /\ n + i = Len(s) + 1
      BY <1>1, <1>3, <1>4, <2>2
    <3> QED
      BY <1>4, <1>6, <1>5, <3>1
  <2> QED
    BY <2>1, <2>2
<1>8. longer = Append(part, m)
  BY <1>1, <1>2, <1>3, <1>4, <1>6, <1>7, SeqEqual
<1>9. All(Bytes, Append(part, m)) = All(Bytes, part) \o Bytes[m]
  BY <1>2, AllAppend, BytesType
<1> QED
  BY <1>8, <1>9, BytesType DEF Left, t, part, longer

\* As long as a message is left, the last one is.
LEMMA LeftLast ==
    ASSUME NEW s, s \in Seq(Messages), NEW n \in Nat, n < Len(s)
    PROVE  s # <<>> /\ Len(WriteMessage(s[Len(s)])) <= Len(Left(s, n))
<1> DEFINE m == s[Len(s)]
           part == SubSeq(s, n + 1, Len(s) - 1)
<1>1. /\ n + 1 \in 1..Len(s) /\ Len(s) \in (n + 1)..Len(s) /\ m \in Messages
      /\ Len(s) \in 1..Len(s) /\ Len(s) - 1 \in Int
  BY LenProperties, ElementOfSeq
<1>2. SubSeq(s, n + 1, Len(s)) = part \o <<m>>
  BY <1>1, SubSeqRecursiveSecond
<1>3. part \in Seq(Messages)
  BY <1>1, MessagePart
<1>4. <<m>> \in Seq(Messages)
  BY <1>1
<1> HIDE DEF m, part
<1>5. All(Bytes, part \o <<m>>) = All(Bytes, part) \o All(Bytes, <<m>>)
  BY <1>3, <1>4, AllConcat, BytesType
<1>6. All(Bytes, <<m>>) = WriteMessage(m)
  BY <1>1, AllOne, BytesType
<1>7. All(Bytes, part) \in Seq(Byte) /\ WriteMessage(m) \in Seq(Byte)
  BY <1>1, <1>3, AllType, BytesType
<1> DEFINE a == All(Bytes, part)
           b == WriteMessage(m)
<1>8. Left(s, n) = a \o b
  BY <1>2, <1>5, <1>6 DEF Left
<1> HIDE DEF a, b
<1>9. Len(a \o b) = Len(a) + Len(b) /\ Len(a) \in Nat /\ Len(b) \in Nat
  BY <1>7, ConcatProperties, LenProperties DEF a, b
<1>10. s # <<>>
  BY <1>1, EmptySeq
<1> QED
  BY <1>8, <1>9, <1>10 DEF b, m
-----------------------------------------------------------------------------
(* The writer's steps.                                                     *)

\* Lengths are numbers.
LEMMA LastLength ==
    ASSUME Typed
    PROVE  /\ Len(written) \in Nat /\ Len(heard) \in Nat /\ Begun \in Nat
           /\ Len(heard) <= Begun
BY LenProperties DEF Typed, Begun

\* A message is handed to the writer when the one before it has been sent.
LEMMA WriteKeeps ==
    ASSUME Inv, NEW m \in Messages, Write(m)
    PROVE  Inv'
<1>1. /\ Typed /\ ~ended /\ outgoing = <<>>
      /\ written' = Append(written, m) /\ outgoing' = WriteMessage(m)
      /\ UNCHANGED <<ended, cut, pipe, plan, tokens, buf, heard, reader>>
  BY DEF Inv, Write
<1>2. WriteMessage(m) \in Seq(Byte)
  BY BytesType
<1>3. written' \in Seq(Messages)
  BY <1>1, AppendProperties DEF Typed
<1>4. Typed'
  BY <1>1, <1>2, <1>3 DEF Typed
<1>5. ~cut /\ InStep
  BY <1>1 DEF Inv, Typed, Astray
<1>6. (buf \o pipe) \o WriteMessage(m) = buf \o (pipe \o WriteMessage(m))
  <2>1. buf \in Seq(Byte) /\ pipe \in Seq(Byte) /\ WriteMessage(m) \in Seq(Byte)
    BY <1>1, <1>2 DEF Typed
  <2> QED
    BY <2>1, Regroup
<1>7. PICK M, U, unsent :
        /\ M \in Seq(MemberSet) /\ U \in Seq(Plain) /\ unsent \in Seq(Byte)
        /\ Reading(M, U, unsent)
  BY <1>5 DEF InStep
<1>8. unsent = <<>>
  BY <1>1, <1>5, <1>7 DEF Reading
<1> DEFINE more == WriteMessage(m)
           all == All(Written, M \o U)
           left == Left(written, Begun)
           now == written'
<1>9. /\ written \in Seq(Messages) /\ Begun \in Nat /\ Begun <= Len(written)
      /\ Len(written) \in Nat /\ Len(heard) \in Nat /\ Len(heard) <= Begun
  BY <1>1, <1>7, LastLength DEF Typed, Reading
<1>10. Left(now, Begun) = left \o more /\ left \in Seq(Byte)
  BY <1>1, <1>9, LeftLonger, LeftType
<1>11. all \in Seq(Byte)
  <2>1. M \o U \in Seq(Items)
    BY <1>7, MembersAndPlain, ConcatProperties
  <2> QED
    BY <2>1, AllType, ItemFunctions
<1>12. Begun' = Begun
  BY <1>1 DEF Begun
<1>13. /\ Len(now) = Len(written) + 1 /\ now[Len(now)] = m /\ now # <<>>
       /\ \A i \in 1..Len(written) : now[i] = written[i]
  BY <1>1, <1>9, AppendProperties
<1>14. buf \o (pipe \o more) = all \o Left(now, Begun)
  <2>1. buf \o (pipe \o <<>>) = all \o left /\ pipe \in Seq(Byte) /\ buf \in Seq(Byte)
    BY <1>1, <1>7, <1>8 DEF Reading, Typed
  <2> HIDE DEF more, all, left, now
  <2>2. pipe \o <<>> = pipe
    BY <2>1, ConcatEmptySeq
  <2>3. more \in Seq(Byte)
    BY <1>2 DEF more
  <2>4. (buf \o pipe) \o more = buf \o (pipe \o more)
    BY <1>6 DEF more
  <2>5. (all \o left) \o more = all \o (left \o more)
    <3>1. all \in Seq(Byte) /\ left \in Seq(Byte) /\ more \in Seq(Byte)
      BY <1>10, <1>11, <2>3
    <3> QED
      BY <3>1, Regroup
  <2> QED
    BY <1>10, <2>1, <2>2, <2>4, <2>5
<1>15. /\ plan' = All(ReadOf, M \o U) /\ Fillable(tokens', M) /\ Begun' <= Len(written')
       /\ ~cut' => more = outgoing'
  BY <1>1, <1>7, <1>9, <1>12, <1>13 DEF Reading
<1>16. plan' # <<>> =>
            Filled(tokens', M) \o All(Heard, U) = HeardMessage(written'[Begun'])
  <2> SUFFICES ASSUME plan # <<>>
               PROVE  Filled(tokens, M) \o All(Heard, U) = HeardMessage(now[Begun])
    BY <1>1, <1>12
  <2>1. Begun \in 1..Len(written)
    BY <1>9 DEF Begun
  <2> QED
    BY <1>7, <1>13, <2>1 DEF Reading
<1>17. buf' \o (pipe' \o more) = All(Written, M \o U) \o Left(written', Begun')
  BY <1>1, <1>12, <1>14
<1>18. \A i \in 1..Len(heard') : heard'[i] = HeardMessage(written'[i])
  <2> SUFFICES ASSUME NEW i \in 1..Len(heard) PROVE heard[i] = HeardMessage(now[i])
    BY <1>1
  <2>1. i \in 1..Len(written)
    BY <1>9
  <2> QED
    BY <1>7, <1>13, <2>1 DEF Reading
<1>19. Len(more) <= IF written' = <<>> THEN 0 ELSE Len(WriteMessage(written'[Len(written')]))
  BY <1>13, BytesType
<1>20. Reading(M, U, more)'
  BY <1>15, <1>16, <1>17, <1>18, <1>19 DEF Reading
<1>21. InStep'
  BY <1>2, <1>7, <1>20 DEF InStep
<1> QED
  BY <1>4, <1>21 DEF Inv

\* A byte moves from one end to the other.
LEMMA TransmitKeeps ==
    ASSUME Inv, Transmit
    PROVE  Inv'
<1>1. /\ Typed /\ outgoing # <<>>
      /\ pipe' = Append(pipe, Head(outgoing)) /\ outgoing' = Tail(outgoing)
      /\ UNCHANGED <<written, ended, cut, plan, tokens, buf, heard, reader>>
  BY DEF Inv, Transmit
<1>2. PICK e \in Byte, rest \in Seq(Byte) :
        /\ e = Head(outgoing) /\ rest = Tail(outgoing) /\ outgoing = <<e>> \o rest
        /\ Len(rest) = Len(outgoing) - 1 /\ Len(outgoing) \in Nat
  <2>1. outgoing \in Seq(Byte) /\ outgoing # <<>>
    BY <1>1 DEF Typed
  <2>2. /\ Head(outgoing) \in Byte /\ Tail(outgoing) \in Seq(Byte)
        /\ outgoing = <<Head(outgoing)>> \o Tail(outgoing)
        /\ Len(Tail(outgoing)) = Len(outgoing) - 1 /\ Len(outgoing) \in Nat
    BY <2>1
  <2> QED
    BY <2>2
<1>3. pipe' \in Seq(Byte) /\ pipe \in Seq(Byte) /\ buf \in Seq(Byte)
  <2>1. pipe \in Seq(Byte) /\ buf \in Seq(Byte)
    BY <1>1 DEF Typed
  <2>2. Append(pipe, e) \in Seq(Byte)
    BY <1>2, <2>1, AppendProperties
  <2> QED
    BY <1>1, <1>2, <2>1, <2>2
<1>4. ~ended /\ ~cut /\ InStep
  BY <1>1 DEF Inv, Typed, Astray
<1>5. Typed'
  BY <1>1, <1>2, <1>3, <1>4 DEF Typed
<1>6. PICK M, U, unsent :
        /\ M \in Seq(MemberSet) /\ U \in Seq(Plain) /\ unsent \in Seq(Byte)
        /\ Reading(M, U, unsent)
  BY <1>4 DEF InStep
<1>7. unsent = <<e>> \o rest
  BY <1>2, <1>4, <1>6 DEF Reading
<1>8. Append(pipe, e) \o rest = pipe \o (<<e>> \o rest)
  <2>1. Append(pipe, e) = pipe \o <<e>> /\ <<e>> \in Seq(Byte)
    BY <1>2, <1>3, AppendIsConcat
  <2>2. pipe \in Seq(Byte) /\ <<e>> \in Seq(Byte) /\ rest \in Seq(Byte)
    BY <1>3, <2>1
  <2>3. (pipe \o <<e>>) \o rest = pipe \o (<<e>> \o rest)
    BY <2>2, Regroup
  <2> QED
    BY <2>1, <2>3
<1>9. buf' \o (pipe' \o rest) = buf \o (pipe \o unsent)
  BY <1>1, <1>2, <1>7, <1>8
<1>10. Begun' = Begun
  BY <1>1 DEF Begun
<1>11. Len(rest) <= Len(unsent)
  BY <1>2, <1>7
<1>12. Len(rest) <= IF written' = <<>> THEN 0 ELSE Len(WriteMessage(written'[Len(written')]))
  <2>1. Len(unsent) <= IF written = <<>> THEN 0 ELSE Len(WriteMessage(written[Len(written)]))
    BY <1>6 DEF Reading
  <2>2. written # <<>> => Len(WriteMessage(written[Len(written)])) \in Nat
    <3> SUFFICES ASSUME written # <<>>
                 PROVE  Len(WriteMessage(written[Len(written)])) \in Nat
      OBVIOUS
    <3>1. written \in Seq(Messages)
      BY <1>1 DEF Typed
    <3>2. Len(written) \in 1..Len(written)
      BY <3>1, EmptySeq
    <3>3. written[Len(written)] \in Messages
      BY <3>1, <3>2, ElementOfSeq
    <3> QED
      BY <3>3, BytesType
  <2>3. Len(rest) \in Nat /\ Len(unsent) \in Nat /\ written' = written
    BY <1>1, <1>2, <1>6, LenProperties
  <2>4. CASE written = <<>>
    BY <1>11, <2>1, <2>3, <2>4
  <2>5. CASE written # <<>>
    BY <1>11, <2>1, <2>2, <2>3, <2>5
  <2> QED
    BY <2>4, <2>5
<1>13. Reading(M, U, rest)'
  BY <1>1, <1>2, <1>6, <1>9, <1>10, <1>12 DEF Reading
<1>14. InStep'
  BY <1>2, <1>6, <1>13 DEF InStep
<1> QED
  BY <1>5, <1>14 DEF Inv

\* The bytes that are lost are still the ones the reader would have had to read.
LEMMA CloseKeeps ==
    ASSUME Inv, Close
    PROVE  Inv'
<1>1. /\ Typed /\ ~ended /\ ended' = TRUE /\ cut' = (outgoing # <<>>) /\ outgoing' = <<>>
      /\ UNCHANGED <<written, pipe, plan, tokens, buf, heard, reader>>
  BY DEF Inv, Close
<1>2. Typed'
  <2>1. <<>> \in Seq(Byte) /\ cut' \in BOOLEAN
    BY <1>1
  <2> QED
    BY <1>1, <2>1 DEF Typed
<1>3. ~cut /\ InStep
  BY <1>1 DEF Inv, Typed, Astray
<1>4. PICK M, U, unsent :
        /\ M \in Seq(MemberSet) /\ U \in Seq(Plain) /\ unsent \in Seq(Byte)
        /\ Reading(M, U, unsent)
  BY <1>3 DEF InStep
<1>5. unsent = outgoing
  BY <1>3, <1>4 DEF Reading
<1>6. Begun' = Begun
  BY <1>1 DEF Begun
<1>7. ~cut' => unsent = outgoing'
  BY <1>1, <1>5
<1>8. Reading(M, U, unsent)'
  BY <1>1, <1>4, <1>6, <1>7 DEF Reading
<1> QED
  BY <1>2, <1>4, <1>8 DEF Inv, InStep

-----------------------------------------------------------------------------
(* The reader's steps.                                                     *)

\* The first byte of a message is its type.
LEMMA ReadHeaderKeeps ==
    ASSUME Inv, ReadHeader
    PROVE  Inv'
<1>1. Typed /\ plan = <<>> /\ UNCHANGED <<sender, buf, heard>>
  BY DEF Inv, ReadHeader
<1>2. CASE pipe = <<>>
  <2>1. reader' = "closed" /\ UNCHANGED <<plan, tokens, pipe>>
    BY <1>2 DEF ReadHeader
  <2>2. Typed'
    BY <1>1, <2>1 DEF Typed, sender
  <2>3. InStep => InStep'
    BY <1>1, <2>1 DEF InStep, Reading, Begun, sender
  <2>4. Astray => Astray'
    BY <1>1, <2>1 DEF Astray, Begun, sender
  <2> QED
    BY <2>2, <2>3, <2>4 DEF Inv
<1>3. CASE pipe # <<>>
  <2>1. /\ plan' = [i \in DOMAIN Fields[Head(pipe)] |-> ReadField(Fields[Head(pipe)][i])]
        /\ tokens' = <<Head(pipe)>> /\ pipe' = Tail(pipe) /\ UNCHANGED reader
    BY <1>3 DEF ReadHeader
  <2>2. InStep
    BY <1>3 DEF Inv, Astray
  <2>3. PICK M, U, unsent :
        /\ M \in Seq(MemberSet) /\ U \in Seq(Plain) /\ unsent \in Seq(Byte)
        /\ Reading(M, U, unsent)
    BY <2>2 DEF InStep
  <2>4. M \o U = <<>>
    <3>1. Fillable(tokens, M) /\ plan = All(ReadOf, M \o U)
      BY <2>3 DEF Reading
    <3>2. M \o U # <<>> => All(ReadOf, M \o U) # <<>>
      BY <2>3, <3>1, ItemRead
    <3> QED
      BY <1>1, <3>1, <3>2
  <2>5. PICK n \in Nat : n = Len(heard)
    BY <1>1, LastLength
  <2>6. Begun = n /\ n <= Len(written) /\ Len(written) \in Nat /\ buf = <<>>
    BY <1>1, <2>3, <2>5, LastLength DEF Begun, Reading, Typed
  <2> DEFINE left == Left(written, n + 1)
             e == Head(pipe)
             rest == Tail(pipe)
  <2>7. written \in Seq(Messages) /\ pipe \in Seq(Byte)
    BY <1>1 DEF Typed
  <2>8. e \in Byte /\ rest \in Seq(Byte) /\ pipe = <<e>> \o rest
    BY <1>3, <2>7
  <2>9. <<e>> \in Seq(Byte) /\ <<e>> \o (rest \o unsent) = Left(written, n)
    <3>1. <<>> \o (pipe \o unsent) = <<>> \o Left(written, n)
      BY <2>3, <2>4, <2>5, <2>6, AllEmpty DEF Reading
    <3>2. pipe \o unsent \in Seq(Byte) /\ Left(written, n) \in Seq(Byte)
      BY <2>3, <2>5, <2>7, LeftType, ConcatProperties
    <3>3. pipe \o unsent = Left(written, n)
      BY <3>1, <3>2, ConcatEmptySeq
    <3> HIDE DEF e, rest
    <3>4. <<e>> \in Seq(Byte)
      BY <2>8
    <3>5. (<<e>> \o rest) \o unsent = <<e>> \o (rest \o unsent)
      BY <2>3, <2>8, <3>4, Regroup
    <3> QED
      BY <2>8, <3>3, <3>4, <3>5
  <2>10. n < Len(written)
    <3> SUFFICES ASSUME ~(n < Len(written)) PROVE FALSE
      OBVIOUS
    <3>1. Left(written, n) = <<>>
      BY <2>5, <2>6, <2>7, LeftNone
    <3> HIDE DEF e, rest
    <3>2. rest \o unsent \in Seq(Byte)
      BY <2>3, <2>8, ConcatProperties
    <3>3. Len(<<e>> \o (rest \o unsent)) = 1 + Len(rest \o unsent) /\ Len(rest \o unsent) \in Nat
      BY <2>9, <3>2, ConcatProperties, LenProperties
    <3> QED
      BY <2>9, <3>1, <3>3
  <2>11. PICK m \in Messages : m = written[n + 1]
    <3>1. n + 1 \in 1..Len(written)
      BY <2>5, <2>6, <2>10
    <3> QED
      BY <2>7, <3>1, ElementOfSeq
  <2> DEFINE w == ItemsOf(m)
             all == All(Written, w)
  <2>12. /\ m.type \in Byte /\ m.type \in Values /\ w \in Seq(Items) /\ w # <<>>
         /\ \A i \in 1..Len(w) : w[i][1] # "member"
         /\ WriteMessage(m) = <<m.type>> \o all
         /\ HeardMessage(m) = <<m.type>> \o All(Heard, w)
         /\ [i \in DOMAIN Fields[m.type] |-> ReadField(Fields[m.type][i])] = All(ReadOf, w)
    BY <2>11, MessageItems
  <2>13. w \in Seq(Plain)
    <3> HIDE DEF w
    <3>1. Len(w) \in Nat /\ \A i \in 1..Len(w) : w[i] \in Plain
      BY <2>12, LenProperties, ElementOfSeq DEF Plain
    <3>2. w \in [1..Len(w) -> Plain]
      BY <2>12, <3>1, LenProperties
    <3> QED
      BY <3>1, <3>2, IsSequence
  <2>14. all \in Seq(Byte) /\ left \in Seq(Byte)
    <3>1. n + 1 \in Nat
      BY <2>5
    <3>2. left \in Seq(Byte)
      BY <2>7, <3>1, LeftType
    <3>3. all \in Seq(Byte)
      BY <2>12, AllType, ItemFunctions
    <3> QED
      BY <3>2, <3>3
  <2>15. e = m.type /\ rest \o unsent = all \o left
    <3>1. Left(written, n) = (<<m.type>> \o all) \o left
      BY <2>5, <2>6, <2>7, <2>10, <2>11, <2>12, LeftFirst
    <3> DEFINE t == m.type
    <3>2. t \in Byte
      BY <2>12
    <3> HIDE DEF e, rest, all, left, t
    <3>3. <<t>> \in Seq(Byte) /\ Len(<<t>>) = 1 /\ Len(<<e>>) = 1 /\ <<e>>[1] = e /\ <<t>>[1] = t
      BY <3>2
    <3>4. (<<t>> \o all) \o left = <<t>> \o (all \o left)
      BY <2>14, <3>3, Regroup
    <3>5. rest \o unsent \in Seq(Byte) /\ all \o left \in Seq(Byte)
      BY <2>3, <2>8, <2>14, ConcatProperties
    <3>6. <<e>> = <<t>> /\ rest \o unsent = all \o left
      <4>1. <<e>> \o (rest \o unsent) = <<t>> \o (all \o left)
        BY <2>9, <3>1, <3>4 DEF t
      <4> QED
        BY <2>9, <3>3, <3>5, <4>1, SplitUnique
    <3> QED
      BY <3>3, <3>6 DEF t
  <2>16. plan' = All(ReadOf, w) /\ plan' \in Seq(Reads) /\ tokens' = <<m.type>>
    <3>1. plan' = All(ReadOf, w) /\ tokens' = <<m.type>>
      BY <2>1, <2>12, <2>15
    <3> QED
      BY <2>12, <3>1, AllType, ItemFunctions
  <2>17. tokens' \in Seq(Values) /\ <<>> \in Seq(MemberSet) /\ Fillable(tokens', <<>>)
         /\ Filled(tokens', <<>>) = tokens' /\ <<>> \o w = w
    <3>1. tokens' \in Seq(Values)
      <4>1. m.type \in Values
        BY <2>12
      <4> QED
        BY <2>16, <4>1
    <3>2. <<>> \in Seq(MemberSet)
      BY EmptySeq
    <3> HIDE DEF w
    <3>3. <<>> \o w = w
      BY <2>12, ConcatEmptySeq
    <3> QED
      BY <3>1, <3>2, <3>3 DEF Fillable, Filled
  <2>18. plan' # <<>>
    <3> HIDE DEF w
    <3>1. <<>> \o w # <<>>
      BY <2>12, <2>17
    <3>2. All(ReadOf, <<>> \o w) # <<>>
      BY <2>13, <2>17, <3>1, ItemRead
    <3> QED
      BY <2>16, <2>17, <3>2
  <2>19. Len(buf') < Head(plan')[2]
    <3>1. Head(plan') \in Reads
      BY <2>16, <2>18, HeadTailProperties
    <3>2. Head(plan')[2] \in Nat \ {0}
      BY <3>1 DEF Reads
    <3>3. Len(buf') = 0
      BY <1>1, <2>5, <2>6
    <3> QED
      BY <3>2, <3>3
  <2>20. Typed'
    <3>1. pipe' \in Seq(Byte)
      BY <2>1, <2>8
    <3>2. UNCHANGED reader
      BY <2>1
    <3> HIDE DEF e, rest, all, left, w
    <3> QED
      BY <1>1, <2>16, <2>17, <2>18, <2>19, <3>1, <3>2 DEF Typed, sender
  <2>21. Begun' = n + 1
    BY <1>1, <2>5, <2>18 DEF Begun
  <2>22. buf' \o (pipe' \o unsent) = all \o left
    <3>1. all \o left \in Seq(Byte)
      BY <2>14, ConcatProperties
    <3>2. buf' = <<>> /\ pipe' = rest
      BY <1>1, <2>1, <2>5, <2>6
    <3> HIDE DEF all, left, rest
    <3> QED
      BY <2>15, <3>1, <3>2, ConcatEmptySeq
  <2>23. UNCHANGED <<written, outgoing, ended, cut, heard>>
    BY <1>1 DEF sender
  <2>24. Reading(<<>>, w, unsent)'
    <3>1. plan' = All(ReadOf, <<>> \o w) /\ Fillable(tokens', <<>>)
      BY <2>16, <2>17
    <3>2. Begun' <= Len(written')
      BY <2>5, <2>6, <2>10, <2>21, <2>23
    <3>3. Filled(tokens', <<>>) \o All(Heard, w) = HeardMessage(written'[Begun'])
      BY <2>11, <2>12, <2>16, <2>17, <2>21, <2>23
    <3>4. buf' \o (pipe' \o unsent) = All(Written, <<>> \o w) \o Left(written', Begun')
      BY <2>17, <2>21, <2>22, <2>23
    <3>5. \A i \in 1..Len(heard') : heard'[i] = HeardMessage(written'[i])
      BY <2>3, <2>23 DEF Reading
    <3>6. /\ ~cut' => unsent = outgoing'
          /\ Len(unsent) <=
                IF written' = <<>> THEN 0 ELSE Len(WriteMessage(written'[Len(written')]))
      BY <2>3, <2>23 DEF Reading
    <3> HIDE DEF e, rest, all, left, w
    <3> QED
      BY <2>18, <3>1, <3>2, <3>3, <3>4, <3>5, <3>6 DEF Reading
  <2>25. InStep'
    <3> HIDE DEF w
    <3> QED
      BY <2>3, <2>13, <2>17, <2>24 DEF InStep
  <2> QED
    BY <2>20, <2>25 DEF Inv
<1> QED
  BY <1>2, <1>3

\* The read at hand is that of the first item.
LEMMA PlanHead ==
    ASSUME NEW M, NEW U, NEW unsent,
           M \in Seq(MemberSet) /\ U \in Seq(Plain) /\ Reading(M, U, unsent), plan # <<>>
    PROVE  /\ M \o U # <<>> /\ Head(M \o U) \in Items
           /\ Head(plan)[1] = Head(M \o U)[1] /\ Head(plan)[2] = Len(Chunk(Head(M \o U)))
<1>1. Fillable(tokens, M) /\ plan = All(ReadOf, M \o U)
  BY DEF Reading
<1>2. M \o U # <<>>
  BY <1>1, AllEmpty
<1> DEFINE x == Head(M \o U)
<1>3. x \in Items /\ Head(plan) = <<x[1], Len(Chunk(x))>>
  BY <1>1, <1>2, ItemRead
<1> HIDE DEF x
<1> QED
  BY <1>2, <1>3 DEF x

\* A read that has got its bytes, x being the first item to be read.
Completes(M, U, unsent, x) ==
    /\ M \in Seq(MemberSet) /\ U \in Seq(Plain) /\ unsent \in Seq(Byte)
    /\ Reading(M, U, unsent) /\ plan # <<>> /\ x = Head(M \o U)
    /\ Complete(x[1], Chunk(x)) /\ UNCHANGED <<sender, reader>> /\ pipe' \in Seq(Byte)
    /\ buf \o (pipe \o unsent) = Chunk(x) \o (pipe' \o unsent)

\* A read that is complete.
LEMMA CompleteKeeps ==
    ASSUME Typed, NEW M, NEW U, NEW unsent, NEW x, Completes(M, U, unsent, x)
    PROVE  Typed' /\ InStep'
<1>1. M \in Seq(MemberSet) /\ U \in Seq(Plain) /\ unsent \in Seq(Byte)
  BY DEF Completes
<1>2. /\ Reading(M, U, unsent) /\ plan # <<>> /\ x = Head(M \o U)
       /\ Complete(x[1], Chunk(x)) /\ UNCHANGED <<sender, reader>> /\ pipe' \in Seq(Byte)
  BY DEF Completes
<1>3. M \o U # <<>> /\ x \in Items
  BY <1>1, <1>2, PlanHead
<1>4. Fillable(tokens, M) /\ plan = All(ReadOf, M \o U)
  BY <1>2 DEF Reading
<1> DEFINE next == FirstRead(M, U, tokens)
<1>5. PICK M2, U2 : ReadsOn(M, U, tokens, M2, U2)
  BY <1>1, <1>3, <1>4, ItemRead
<1>6. /\ M2 \in Seq(MemberSet) /\ U2 \in Seq(Plain)
      /\ next.reads \o Tail(All(ReadOf, M \o U)) = All(ReadOf, M2 \o U2)
      /\ All(Written, M \o U) = Chunk(x) \o All(Written, M2 \o U2)
      /\ Fillable(next.values, M2)
      /\ Filled(next.values, M2) \o All(Heard, U2) = Filled(tokens, M) \o All(Heard, U)
  BY <1>5, <1>2 DEF ReadsOn
<1>7. next = AfterRead(x[1], Chunk(x), tokens)
  BY <1>2 DEF FirstRead
<1> HIDE DEF next
<1>8. M2 \o U2 \in Seq(Items)
  BY <1>6, MembersAndPlain, ConcatProperties
<1>9. /\ plan' = All(ReadOf, M2 \o U2) /\ plan' \in Seq(Reads) /\ buf' = <<>>
      /\ IF plan' = <<>>
         THEN heard' = Append(heard, next.values) /\ tokens' = <<>>
         ELSE tokens' = next.values /\ UNCHANGED heard
  <2>1. plan' = All(ReadOf, M2 \o U2)
    BY <1>4, <1>6, <1>7, <1>2 DEF Complete
  <2>2. plan' \in Seq(Reads)
    BY <1>8, <2>1, AllType, ItemFunctions
  <2>3. /\ buf' = <<>>
        /\ IF plan' = <<>>
           THEN heard' = Append(heard, next.values) /\ tokens' = <<>>
           ELSE tokens' = next.values /\ UNCHANGED heard
    BY <1>7, <1>2 DEF Complete
  <2> QED
    BY <2>1, <2>2, <2>3
<1>10. PICK values : values = next.values
  OBVIOUS
<1>11. values \in Seq(Values)
  BY <1>6, <1>10 DEF Fillable
<1>12. UNCHANGED <<written, outgoing, ended, cut>> /\ UNCHANGED reader
  BY <1>2 DEF sender
<1>13. heard \in Seq(Seq(Values)) /\ Len(heard) \in Nat
  BY LenProperties DEF Typed
<1>14. tokens' \in Seq(Values) /\ heard' \in Seq(Seq(Values))
  <2>1. CASE plan' = <<>>
    <3>1. heard' = Append(heard, values) /\ tokens' = <<>>
      BY <1>9, <1>10, <2>1
    <3>2. Append(heard, values) \in Seq(Seq(Values))
      BY <1>11, <1>13, AppendProperties
    <3> QED
      BY <3>1, <3>2, EmptySeq
  <2>2. CASE plan' # <<>>
    BY <1>9, <1>10, <1>11, <1>13, <2>2
  <2> QED
    BY <2>1, <2>2
<1>15. plan' # <<>> => Len(buf') < Head(plan')[2]
  <2> SUFFICES ASSUME plan' # <<>> PROVE Len(buf') < Head(plan')[2]
    OBVIOUS
  <2>1. Head(plan') \in Reads
    BY <1>9, HeadTailProperties
  <2>2. Head(plan')[2] \in Nat \ {0}
    BY <2>1 DEF Reads
  <2>3. Len(buf') = 0
    BY <1>9
  <2> QED
    BY <2>2, <2>3
<1>16. Typed'
  <2>1. buf' \in Seq(Byte) /\ pipe' \in Seq(Byte)
    BY <1>9, <1>2, EmptySeq
  <2>2. plan' = <<>> => buf' = <<>> /\ tokens' = <<>>
    BY <1>9
  <2> QED
    BY <1>9, <1>12, <1>14, <1>15, <2>1, <2>2 DEF Typed
<1>17. Begun' = Begun /\ Begun = Len(heard) + 1
  <2>1. Begun = Len(heard) + 1
    BY <1>2 DEF Begun
  <2>2. CASE plan' = <<>>
    <3>1. heard' = Append(heard, values)
      BY <1>9, <1>10, <2>2
    <3>2. Len(heard') = Len(heard) + 1
      BY <1>11, <1>13, <3>1, AppendProperties
    <3> QED
      BY <2>1, <2>2, <3>2 DEF Begun
  <2>3. CASE plan' # <<>>
    BY <1>9, <2>1, <2>3 DEF Begun
  <2> QED
    BY <2>1, <2>2, <2>3
<1>18. Filled(values, M2) \o All(Heard, U2) = HeardMessage(written[Begun])
  BY <1>6, <1>10, <1>2 DEF Reading
<1>19. Fillable(tokens', M2) /\ (plan' = <<>> => M2 = <<>> /\ U2 = <<>>)
  <2>1. CASE plan' = <<>>
    <3>1. M2 \o U2 = <<>>
      <4>1. M2 \o U2 # <<>> => All(ReadOf, M2 \o U2) # <<>>
        BY <1>6, ItemRead
      <4> QED
        BY <1>9, <2>1, <4>1
    <3>2. M2 \in Seq(Items) /\ U2 \in Seq(Items)
      BY <1>6, MembersAndPlain
    <3>3. M2 = <<>> /\ U2 = <<>>
      BY <3>1, <3>2, ConcatEqualIffEmpty
    <3>4. tokens' = <<>>
      BY <1>9, <2>1
    <3> QED
      BY <1>14, <3>3, <3>4, EmptySeq DEF Fillable
  <2>2. CASE plan' # <<>>
    BY <1>6, <1>9, <2>2
  <2> QED
    BY <2>1, <2>2
<1>20. plan' # <<>> => Filled(tokens', M2) \o All(Heard, U2) = HeardMessage(written'[Begun'])
  BY <1>9, <1>10, <1>12, <1>17, <1>18
<1>21. buf' \o (pipe' \o unsent) = All(Written, M2 \o U2) \o Left(written', Begun')
  <2> DEFINE all == All(Written, M2 \o U2)
             left == Left(written, Begun)
             more == pipe' \o unsent
  <2>1. Chunk(x) \in Seq(Byte) /\ all \in Seq(Byte) /\ left \in Seq(Byte) /\ more \in Seq(Byte)
    <3>1. Chunk(x) \in Seq(Byte)
      BY <1>3, ChunkType
    <3>2. all \in Seq(Byte)
      BY <1>8, AllType, ItemFunctions
    <3>3. left \in Seq(Byte)
      BY <1>13, <1>17, LeftType DEF Typed
    <3>4. more \in Seq(Byte)
      BY <1>1, <1>2, ConcatProperties
    <3> QED
      BY <3>1, <3>2, <3>3, <3>4
  <2>2. Chunk(x) \o more = (Chunk(x) \o all) \o left
    BY <1>6, <1>2 DEF Reading, Completes
  <2> HIDE DEF all, left, more
  <2>3. Chunk(x) \o more = (Chunk(x) \o all) \o left => more = all \o left
    BY <2>1, ReadBytes
  <2>4. buf' \o more = more
    BY <1>9, <2>1, ConcatEmptySeq
  <2> QED
    BY <1>12, <1>17, <2>2, <2>3, <2>4 DEF all, left, more
<1>22. \A i \in 1..Len(heard') : heard'[i] = HeardMessage(written'[i])
  <2>1. \A i \in 1..Len(heard) : heard[i] = HeardMessage(written[i])
    BY <1>2 DEF Reading
  <2>2. CASE plan' # <<>>
    BY <1>9, <1>12, <2>1, <2>2
  <2>3. CASE plan' = <<>>
    <3>1. heard' = Append(heard, values)
      BY <1>9, <1>10, <2>3
    <3>2. values = HeardMessage(written[Begun])
      <4>1. M2 = <<>> /\ U2 = <<>>
        BY <1>19, <2>3
      <4>2. All(Heard, U2) = <<>> /\ Filled(values, M2) = values
        BY <4>1, AllEmpty DEF Filled
      <4>3. values \o <<>> = values
        BY <1>11, ConcatEmptySeq
      <4> QED
        BY <1>18, <4>2, <4>3
    <3>3. /\ Len(heard') = Len(heard) + 1 /\ heard'[Len(heard) + 1] = values
          /\ \A i \in 1..Len(heard) : heard'[i] = heard[i]
      BY <1>11, <1>13, <3>1, AppendProperties
    <3> SUFFICES ASSUME NEW i \in 1..Len(heard') PROVE heard'[i] = HeardMessage(written[i])
      BY <1>12
    <3>4. CASE i = Len(heard) + 1
      BY <1>17, <3>2, <3>3, <3>4
    <3>5. CASE i # Len(heard) + 1
      <4>1. i \in 1..Len(heard)
        BY <1>13, <3>3, <3>5
      <4>2. heard'[i] = heard[i]
        BY <3>3, <4>1
      <4> QED
        BY <2>1, <4>1, <4>2
    <3> QED
      BY <3>4, <3>5
  <2> QED
    BY <2>2, <2>3
<1>23. /\ Begun' <= Len(written')
       /\ ~cut' => unsent = outgoing'
       /\ Len(unsent) <= IF written' = <<>> THEN 0 ELSE Len(WriteMessage(written'[Len(written')]))
  BY <1>12, <1>17, <1>2 DEF Reading
<1>24. Reading(M2, U2, unsent)'
  <2>1. plan' = All(ReadOf, M2 \o U2) /\ Fillable(tokens', M2)
    BY <1>9, <1>19
  <2> QED
    BY <1>20, <1>21, <1>22, <1>23, <2>1 DEF Reading
<1>25. InStep'
  BY <1>1, <1>6, <1>24 DEF InStep
<1> QED
  BY <1>16, <1>25

\* ReadFully takes what has arrived of the bytes it waits for, and no more.
LEMMA ReadFullyKeeps ==
    ASSUME Inv, ReadFully
    PROVE  Inv'
<1>1. Typed /\ plan # <<>> /\ pipe # <<>> /\ UNCHANGED <<sender, reader>>
  BY DEF Inv, ReadFully
<1>2. InStep
  BY <1>1 DEF Inv, Astray
<1>3. PICK M, U, unsent :
        /\ M \in Seq(MemberSet) /\ U \in Seq(Plain) /\ unsent \in Seq(Byte)
        /\ Reading(M, U, unsent)
  BY <1>2 DEF InStep
<1>4. PICK x : x = Head(M \o U)
  OBVIOUS
<1>5. /\ M \o U # <<>> /\ x \in Items
      /\ Head(plan)[1] = x[1] /\ Head(plan)[2] = Len(Chunk(x))
  BY <1>1, <1>3, <1>4, PlanHead
<1>6. Chunk(x) \in Seq(Byte) /\ Len(Chunk(x)) \in Nat
  BY <1>5, ChunkType
<1> DEFINE size == Len(Chunk(x)) - Len(buf)
           count == IF Len(pipe) < size THEN Len(pipe) ELSE size
           taken == SubSeq(pipe, 1, count)
           rest == SubSeq(pipe, count + 1, Len(pipe))
<1>7. /\ pipe' = rest
      /\ IF count = size
         THEN Complete(x[1], buf \o taken)
         ELSE buf' = buf \o taken /\ UNCHANGED <<plan, tokens, heard>>
  <2> DEFINE size2 == Head(plan)[2] - Len(buf)
             count2 == IF Len(pipe) < size2 THEN Len(pipe) ELSE size2
             taken2 == SubSeq(pipe, 1, count2)
  <2>1. /\ pipe' = SubSeq(pipe, count2 + 1, Len(pipe))
        /\ IF count2 = size2
           THEN Complete(Head(plan)[1], buf \o taken2)
           ELSE buf' = buf \o taken2 /\ UNCHANGED <<plan, tokens, heard>>
    BY Zenon DEF ReadFully
  <2>2. size2 = size /\ Head(plan)[1] = x[1]
    BY <1>5
  <2> HIDE DEF size2, size
  <2>3. count2 = count
    BY <2>2
  <2> HIDE DEF count2, count
  <2> QED
    BY <2>1, <2>2, <2>3
<1>8. /\ buf \in Seq(Byte) /\ pipe \in Seq(Byte) /\ Len(buf) \in Nat /\ Len(pipe) \in Nat
      /\ Len(buf) < Len(Chunk(x))
  BY <1>1, <1>5, LenProperties DEF Typed
<1>9. count \in 0..Len(pipe) /\ count <= size /\ size \in Nat
  BY <1>6, <1>8
<1> HIDE DEF size, count
<1>10. taken \in Seq(Byte) /\ rest \in Seq(Byte) /\ Len(taken) = count /\ taken \o rest = pipe
  BY <1>8, <1>9, Cut
<1> HIDE DEF taken, rest
<1> DEFINE bytes == buf \o taken
<1>11. bytes \in Seq(Byte) /\ Len(bytes) = Len(buf) + count
  BY <1>8, <1>10, ConcatProperties
<1>12. buf \o (pipe \o unsent) = bytes \o (rest \o unsent)
  <2>1. (taken \o rest) \o unsent = taken \o (rest \o unsent)
    <3>1. taken \in Seq(Byte) /\ rest \in Seq(Byte) /\ unsent \in Seq(Byte)
      BY <1>3, <1>10
    <3> QED
      BY <3>1, Regroup
  <2>2. rest \o unsent \in Seq(Byte)
    BY <1>3, <1>10, ConcatProperties
  <2> DEFINE more == rest \o unsent
  <2> HIDE DEF more
  <2>3. (buf \o taken) \o more = buf \o (taken \o more)
    <3>1. buf \in Seq(Byte) /\ taken \in Seq(Byte) /\ more \in Seq(Byte)
      BY <1>8, <1>10, <2>2 DEF more
    <3> QED
      BY <3>1, Regroup
  <2> QED
    BY <1>10, <2>1, <2>3 DEF more
<1> HIDE DEF bytes
<1>13. CASE count = size
  <2>1. bytes = Chunk(x)
    <3>1. Len(bytes) = Len(Chunk(x))
      BY <1>6, <1>8, <1>11, <1>13 DEF size
    <3> DEFINE all == All(Written, M \o U)
               left == Left(written, Begun)
               more == rest \o unsent
    <3>2. PICK deep : deep \in Seq(Byte) /\ all = Chunk(x) \o deep
      <4>1. Fillable(tokens, M)
        BY <1>3 DEF Reading
      <4>2. PICK M2, U2 : ReadsOn(M, U, tokens, M2, U2)
        BY <1>3, <1>5, <4>1, ItemRead
      <4>3. /\ M2 \in Seq(MemberSet) /\ U2 \in Seq(Plain)
            /\ all = Chunk(x) \o All(Written, M2 \o U2)
        BY <1>4, <4>2 DEF ReadsOn
      <4>4. M2 \o U2 \in Seq(Items)
        BY <4>3, MembersAndPlain, ConcatProperties
      <4>5. All(Written, M2 \o U2) \in Seq(Byte)
        BY <4>4, AllType, ItemFunctions
      <4> QED
        BY <4>3, <4>5
    <3>3. left \in Seq(Byte)
      BY <1>1, LastLength, LeftType DEF Typed
    <3>4. bytes \o more = all \o left
      BY <1>3, <1>12 DEF Reading
    <3>5. more \in Seq(Byte)
      BY <1>3, <1>10, ConcatProperties
    <3> HIDE DEF all, left, more
    <3>6. (Chunk(x) \o deep) \o left = Chunk(x) \o (deep \o left)
      BY <1>6, <3>2, <3>3, Regroup
    <3>7. deep \o left \in Seq(Byte)
      BY <3>2, <3>3, ConcatProperties
    <3>8. bytes \o more = Chunk(x) \o (deep \o left)
      BY <3>2, <3>4, <3>6
    <3> QED
      BY <1>6, <1>11, <3>1, <3>5, <3>7, <3>8, SplitUnique
  <2>2. Complete(x[1], Chunk(x))
    BY <1>7, <1>13, <2>1 DEF bytes
  <2>3. pipe' \in Seq(Byte) /\ buf \o (pipe \o unsent) = Chunk(x) \o (pipe' \o unsent)
    BY <1>7, <1>10, <1>12, <2>1
  <2>4. Typed' /\ InStep'
    <3>1. Completes(M, U, unsent, x)
      BY <1>1, <1>3, <1>4, <2>2, <2>3 DEF Completes
    <3> QED
      BY <1>1, <3>1, CompleteKeeps
  <2> QED
    BY <2>4 DEF Inv
<1>14. CASE count # size
  <2>1. /\ pipe' = rest /\ buf' = bytes
        /\ UNCHANGED <<written, outgoing, ended, cut, plan, tokens, heard, reader>>
    BY <1>1, <1>7, <1>14 DEF bytes, sender
  <2>2. Len(bytes) < Len(Chunk(x))
    BY <1>6, <1>8, <1>9, <1>11, <1>14 DEF size
  <2>3. Typed'
    BY <1>1, <1>5, <1>10, <1>11, <2>1, <2>2 DEF Typed
  <2>4. Begun' = Begun
    BY <2>1 DEF Begun
  <2>5. buf' \o (pipe' \o unsent) = buf \o (pipe \o unsent)
    BY <1>12, <2>1
  <2>6. Reading(M, U, unsent)'
    BY <1>3, <2>1, <2>4, <2>5 DEF Reading
  <2>7. InStep'
    BY <1>3, <2>6 DEF InStep
  <2> QED
    BY <2>3, <2>7 DEF Inv
<1> QED
  BY <1>13, <1>14

\* ReadBoolean reads a byte, or goes astray at the end of the stream: the last
\* message has not been sent whole then, and none is read after it.
LEMMA ReadBooleanKeeps ==
    ASSUME Inv, ReadBoolean
    PROVE  Inv'
<1>1. Typed /\ plan # <<>> /\ Head(plan)[1] = "boolean" /\ UNCHANGED <<sender, reader>>
  BY DEF Inv, ReadBoolean
<1>2. ASSUME NEW M, NEW U, NEW unsent,
             M \in Seq(MemberSet) /\ U \in Seq(Plain) /\ Reading(M, U, unsent)
      PROVE  LET x == Head(M \o U)
             IN  /\ x \in Items /\ x[1] = "boolean" /\ buf = <<>>
                 /\ Chunk(x) \in Seq(Byte) /\ Len(Chunk(x)) = 1
  <2> DEFINE x == Head(M \o U)
  <2>1. x \in Items /\ x[1] = "boolean" /\ Head(plan)[2] = Len(Chunk(x))
    BY <1>1, <1>2, PlanHead
  <2> HIDE DEF x
  <2>2. Chunk(x) \in Seq(Byte) /\ Len(Chunk(x)) = 1
    <3>1. Chunk(x) = <<IF x[2] THEN 1 ELSE 0>>
      BY <2>1 DEF Chunk
    <3> QED
      BY <2>1, <3>1, ChunkType
  <2>3. buf = <<>>
    <3>1. buf \in Seq(Byte) /\ Len(buf) < 1
      BY <1>1, <2>1, <2>2 DEF Typed
    <3> QED
      BY <3>1, EmptySeq
  <2> QED
    BY <2>1, <2>2, <2>3 DEF x
<1>3. CASE pipe # <<>>
  <2>1. Complete("boolean", <<Head(pipe)>>) /\ pipe' = Tail(pipe)
    BY <1>3 DEF ReadBoolean
  <2>2. InStep
    BY <1>3 DEF Inv, Astray
  <2>3. PICK M, U, unsent :
          /\ M \in Seq(MemberSet) /\ U \in Seq(Plain) /\ unsent \in Seq(Byte)
          /\ Reading(M, U, unsent)
    BY <2>2 DEF InStep
  <2>4. PICK x : x = Head(M \o U)
    OBVIOUS
  <2>5. /\ x \in Items /\ x[1] = "boolean" /\ buf = <<>>
        /\ Chunk(x) \in Seq(Byte) /\ Len(Chunk(x)) = 1
    BY <1>2, <2>3, <2>4
  <2> DEFINE e == Head(pipe)
             rest == Tail(pipe)
  <2>6. e \in Byte /\ rest \in Seq(Byte) /\ pipe = <<e>> \o rest
    <3>1. pipe \in Seq(Byte)
      BY <1>1 DEF Typed
    <3> QED
      BY <1>3, <3>1
  <2> HIDE DEF e, rest
  <2>7. <<e>> \in Seq(Byte) /\ Len(<<e>>) = 1
    BY <2>6
  <2>8. pipe \o unsent = <<e>> \o (rest \o unsent)
    <3>1. <<e>> \in Seq(Byte) /\ rest \in Seq(Byte) /\ unsent \in Seq(Byte)
      BY <2>3, <2>6, <2>7
    <3>2. (<<e>> \o rest) \o unsent = <<e>> \o (rest \o unsent)
      BY <3>1, Regroup
    <3> QED
      BY <2>6, <3>2
  <2>9. M \o U # <<>>
    BY <1>1, <2>3, PlanHead
  <2>10. Fillable(tokens, M)
    BY <2>3 DEF Reading
  <2>11. PICK deep : deep \in Seq(Byte) /\ All(Written, M \o U) = Chunk(x) \o deep
    <3>1. PICK M2, U2 : ReadsOn(M, U, tokens, M2, U2)
      BY <2>3, <2>9, <2>10, ItemRead
    <3>2. /\ M2 \in Seq(MemberSet) /\ U2 \in Seq(Plain)
          /\ All(Written, M \o U) = Chunk(x) \o All(Written, M2 \o U2)
      BY <2>4, <3>1 DEF ReadsOn
    <3>3. M2 \o U2 \in Seq(Items)
      BY <3>2, MembersAndPlain, ConcatProperties
    <3>4. All(Written, M2 \o U2) \in Seq(Byte)
      BY <3>3, AllType, ItemFunctions
    <3> QED
      BY <3>2, <3>4
  <2> DEFINE left == Left(written, Begun)
             more == rest \o unsent
  <2>12. left \in Seq(Byte)
    BY <1>1, LastLength, LeftType DEF Typed
  <2>13. more \in Seq(Byte)
    BY <2>3, <2>6, ConcatProperties
  <2>14. <<e>> \o more = (Chunk(x) \o deep) \o left
    <3>1. buf \o (pipe \o unsent) = (Chunk(x) \o deep) \o left
      BY <2>3, <2>11 DEF Reading
    <3>2. pipe \o unsent \in Seq(Byte)
      BY <1>1, <2>3, ConcatProperties DEF Typed
    <3>3. buf \o (pipe \o unsent) = pipe \o unsent
      BY <2>5, <3>2, ConcatEmptySeq
    <3> QED
      BY <2>8, <3>1, <3>3
  <2> HIDE DEF left, more
  <2>15. (Chunk(x) \o deep) \o left = Chunk(x) \o (deep \o left)
    <3>1. Chunk(x) \in Seq(Byte) /\ deep \in Seq(Byte) /\ left \in Seq(Byte)
      BY <2>5, <2>11, <2>12
    <3> QED
      BY <3>1, Regroup
  <2>16. deep \o left \in Seq(Byte)
    BY <2>11, <2>12, ConcatProperties
  <2>17. <<e>> \o more = Chunk(x) \o (deep \o left)
    BY <2>14, <2>15
  <2>18. <<e>> = Chunk(x)
    BY <2>5, <2>7, <2>13, <2>16, <2>17, SplitUnique
  <2>19. Complete(x[1], Chunk(x))
    BY <2>1, <2>5, <2>18 DEF e
  <2>20. pipe' \in Seq(Byte)
    BY <2>1, <2>6 DEF rest
  <2>21. buf \o (pipe \o unsent) = Chunk(x) \o (pipe' \o unsent)
    <3>1. pipe \o unsent \in Seq(Byte)
      BY <1>1, <2>3, ConcatProperties DEF Typed
    <3>2. buf \o (pipe \o unsent) = pipe \o unsent
      BY <2>5, <3>1, ConcatEmptySeq
    <3> QED
      BY <2>1, <2>8, <2>18, <3>2 DEF rest
  <2>22. Completes(M, U, unsent, x)
    BY <1>1, <2>3, <2>4, <2>19, <2>20, <2>21 DEF Completes
  <2> QED
    BY <1>1, <2>22, CompleteKeeps DEF Inv
<1>4. CASE pipe = <<>>
  <2>1. ended /\ Complete("boolean", <<-1>>) /\ UNCHANGED pipe
    BY <1>4 DEF ReadBoolean
  <2>2. Astray
    <3> SUFFICES ASSUME InStep PROVE Astray
      BY DEF Inv
    <3>1. PICK M, U, unsent :
            /\ M \in Seq(MemberSet) /\ U \in Seq(Plain) /\ unsent \in Seq(Byte)
            /\ Reading(M, U, unsent)
      BY DEF InStep
    <3>2. PICK x : x = Head(M \o U)
      OBVIOUS
    <3>3. /\ x \in Items /\ x[1] = "boolean" /\ buf = <<>>
          /\ Chunk(x) \in Seq(Byte) /\ Len(Chunk(x)) = 1
      BY <1>2, <3>1, <3>2
    <3>4. Fillable(tokens, M) /\ M \o U # <<>>
      BY <1>1, <3>1, PlanHead DEF Reading
    <3>5. PICK M2, U2 : ReadsOn(M, U, tokens, M2, U2)
      BY <3>1, <3>4, ItemRead
    <3> DEFINE deep == All(Written, M2 \o U2)
               left == Left(written, Begun)
    <3>6. deep \in Seq(Byte) /\ All(Written, M \o U) = Chunk(x) \o deep
      <4>1. /\ M2 \in Seq(MemberSet) /\ U2 \in Seq(Plain)
            /\ All(Written, M \o U) = Chunk(x) \o deep
        BY <3>2, <3>5 DEF ReadsOn
      <4>2. M2 \o U2 \in Seq(Items)
        BY <4>1, MembersAndPlain, ConcatProperties
      <4> QED
        BY <4>1, <4>2, AllType, ItemFunctions
    <3>7. left \in Seq(Byte) /\ Begun \in Nat /\ written \in Seq(Messages)
      BY <1>1, LastLength, LeftType DEF Typed
    <3>8. unsent = (Chunk(x) \o deep) \o left
      <4>1. <<>> \o (<<>> \o unsent) = (Chunk(x) \o deep) \o left
        BY <1>4, <3>1, <3>3, <3>6 DEF Reading
      <4>2. <<>> \o unsent = unsent
        BY <3>1, ConcatEmptySeq
      <4> QED
        BY <4>1, <4>2
    <3> HIDE DEF deep, left
    <3>9. Len(unsent) = 1 + Len(deep) + Len(left) /\ Len(deep) \in Nat /\ Len(left) \in Nat
      <4>1. Chunk(x) \o deep \in Seq(Byte) /\ Len(Chunk(x) \o deep) = 1 + Len(deep)
        <5> DEFINE c == Chunk(x)
        <5>1. c \in Seq(Byte) /\ Len(c) = 1 /\ deep \in Seq(Byte)
          BY <3>3, <3>6
        <5> HIDE DEF c
        <5>2. c \o deep \in Seq(Byte) /\ Len(c \o deep) = Len(c) + Len(deep)
          BY <5>1, ConcatProperties
        <5> QED
          BY <5>1, <5>2 DEF c
      <4>2. Len((Chunk(x) \o deep) \o left) = Len(Chunk(x) \o deep) + Len(left)
        BY <3>7, <4>1, ConcatProperties
      <4> QED
        BY <3>6, <3>7, <3>8, <4>1, <4>2, LenProperties
    <3>10. cut
      <4> SUFFICES ASSUME ~cut PROVE FALSE
        OBVIOUS
      <4>1. unsent = <<>>
        BY <1>1, <2>1, <3>1 DEF Reading, Typed
      <4> QED
        BY <3>9, <4>1, SMT
    <3>11. Begun <= Len(written) /\ \A i \in 1..Len(heard) : heard[i] = HeardMessage(written[i])
      BY <3>1 DEF Reading
    <3>12. Begun = Len(written)
      <4> SUFFICES ASSUME Begun < Len(written) PROVE FALSE
        BY <1>1, <3>7, <3>11, LenProperties
      <4>1. written # <<>> /\ Len(WriteMessage(written[Len(written)])) <= Len(left)
        BY <3>7, LeftLast DEF left
      <4>2. Len(unsent) <= Len(WriteMessage(written[Len(written)]))
        BY <3>1, <4>1 DEF Reading
      <4>3. Len(WriteMessage(written[Len(written)])) \in Nat
        <5>1. Len(written) \in 1..Len(written)
          BY <3>7, <4>1, EmptySeq
        <5>2. written[Len(written)] \in Messages
          BY <3>7, <5>1, ElementOfSeq
        <5> QED
          BY <5>2, BytesType
      <4> QED
        BY <3>9, <4>1, <4>2, <4>3
    <3> QED
      BY <1>4, <3>3, <3>10, <3>11, <3>12 DEF Astray
  <2> DEFINE values == Append(tokens, -1 # 0)
             rest == Tail(plan)
  <2>3. AfterRead("boolean", <<-1>>, tokens) = [reads |-> <<>>, values |-> values]
    BY DEF AfterRead
  <2>4. values \in Seq(Values) /\ rest \in Seq(Reads)
    <3>1. tokens \in Seq(Values) /\ plan \in Seq(Reads)
      BY <1>1 DEF Typed
    <3>2. (-1 # 0) \in BOOLEAN
      OBVIOUS
    <3>3. \A v \in BOOLEAN : v \in Values
      BY ValuesOfKinds
    <3>4. (-1 # 0) \in Values
      BY <3>2, <3>3
    <3>5. rest \in Seq(Reads)
      BY <1>1, <3>1, HeadTailProperties
    <3> QED
      BY <3>1, <3>4, <3>5, AppendProperties
  <2> HIDE DEF values
  <2>5. /\ buf' = <<>> /\ plan' = rest
        /\ IF plan' = <<>>
           THEN heard' = Append(heard, values) /\ tokens' = <<>>
           ELSE tokens' = values /\ UNCHANGED heard
    <3>1. <<>> \o rest = rest
      BY <2>4, ConcatEmptySeq
    <3> DEFINE next == AfterRead("boolean", <<-1>>, tokens)
    <3>2. next.reads = <<>> /\ next.values = values
      BY <2>3
    <3> HIDE DEF next
    <3> QED
      BY <2>1, <3>1, <3>2 DEF Complete, next
  <2>6. heard \in Seq(Seq(Values)) /\ Len(heard) \in Nat
    BY <1>1, LenProperties DEF Typed
  <2>7. UNCHANGED <<written, outgoing, ended, cut>> /\ UNCHANGED reader
    BY <1>1 DEF sender
  <2>8. /\ heard' \in Seq(Seq(Values)) /\ tokens' \in Seq(Values)
        /\ Begun' = Begun /\ Begun = Len(heard) + 1
        /\ \A i \in 1..Len(heard) : heard'[i] = heard[i]
        /\ Len(heard') <= Len(heard) + 1
    <3>1. Begun = Len(heard) + 1
      BY <1>1 DEF Begun
    <3>2. CASE plan' = <<>>
      <4>1. heard' = Append(heard, values) /\ tokens' = <<>>
        BY <2>5, <3>2
      <4>2. /\ heard' \in Seq(Seq(Values)) /\ Len(heard') = Len(heard) + 1
            /\ \A i \in 1..Len(heard) : heard'[i] = heard[i]
        BY <2>4, <2>6, <4>1, AppendProperties
      <4>3. Begun' = Len(heard')
        BY <3>2 DEF Begun
      <4>4. tokens' \in Seq(Values)
        BY <4>1, EmptySeq
      <4> QED
        BY <2>6, <3>1, <4>2, <4>3, <4>4
    <3>3. CASE plan' # <<>>
      <4>1. heard' = heard /\ tokens' = values
        BY <2>5, <3>3
      <4>2. Begun' = Len(heard) + 1
        BY <3>3, <4>1 DEF Begun
      <4> QED
        BY <2>4, <2>6, <3>1, <4>1, <4>2
    <3> QED
      BY <3>2, <3>3
  <2>9. plan' # <<>> => Len(buf') < Head(plan')[2]
    <3> SUFFICES ASSUME plan' # <<>> PROVE Len(buf') < Head(plan')[2]
      OBVIOUS
    <3>1. Head(plan') \in Reads
      BY <2>4, <2>5, HeadTailProperties
    <3>2. Head(plan')[2] \in Nat \ {0}
      BY <3>1 DEF Reads
    <3>3. Len(buf') = 0
      BY <2>5
    <3> QED
      BY <3>2, <3>3
  <2>10. Typed'
    <3>1. buf' \in Seq(Byte) /\ pipe' \in Seq(Byte) /\ plan' \in Seq(Reads)
      BY <1>1, <2>1, <2>4, <2>5, EmptySeq DEF Typed
    <3>2. plan' = <<>> => buf' = <<>> /\ tokens' = <<>>
      BY <2>5
    <3> QED
      BY <1>1, <2>7, <2>8, <2>9, <3>1, <3>2 DEF Typed
  <2>11. \A i \in 1..Len(heard') : i < Len(written) => heard'[i] = HeardMessage(written[i])
    <3> SUFFICES ASSUME NEW i \in 1..Len(heard'), i < Len(written)
                 PROVE  heard'[i] = HeardMessage(written[i])
      OBVIOUS
    <3>1. i < Len(heard) + 1
      BY <2>2, <2>8 DEF Astray
    <3>2. i \in 1..Len(heard)
      BY <2>6, <3>1
    <3> QED
      BY <2>2, <2>8, <3>2 DEF Astray
  <2>12. Astray'
    BY <1>4, <2>1, <2>2, <2>5, <2>7, <2>8, <2>11 DEF Astray
  <2> QED
    BY <2>10, <2>12 DEF Inv
<1> QED
  BY <1>3, <1>4
-----------------------------------------------------------------------------
(* The theorems.                                                           *)

\* Nothing is written, and nothing read.
LEMMA InitInv == Init => Inv
<1> SUFFICES ASSUME Init PROVE Inv
  OBVIOUS
<1>1. /\ written = <<>> /\ outgoing = <<>> /\ pipe = <<>> /\ ended = FALSE /\ cut = FALSE
      /\ plan = <<>> /\ tokens = <<>> /\ buf = <<>> /\ heard = <<>> /\ reader = "reading"
  BY DEF Init
<1>2. \A S : <<>> \in Seq(S)
  BY EmptySeq
<1>3. Typed
  BY <1>1, <1>2 DEF Typed
<1>4. <<>> \o <<>> = <<>>
  BY <1>2, ConcatEmptySeq
<1>5. All(ReadOf, <<>>) = <<>> /\ All(Written, <<>>) = <<>>
  BY AllEmpty
<1>6. Begun = 0 /\ Len(written) = 0 /\ Len(heard) = 0
  BY <1>1 DEF Begun
<1>7. Left(written, Begun) = <<>>
  BY <1>1, <1>2, <1>6, LeftNone
<1>8. Fillable(tokens, <<>>)
  BY <1>1, <1>2 DEF Fillable
<1>9. buf \o (pipe \o <<>>) = All(Written, <<>> \o <<>>) \o Left(written, Begun)
  BY <1>1, <1>4, <1>5, <1>7
<1>10. Reading(<<>>, <<>>, <<>>)
  BY <1>1, <1>4, <1>5, <1>6, <1>8, <1>9 DEF Reading
<1>11. InStep
  BY <1>2, <1>10 DEF InStep
<1> QED
  BY <1>3, <1>11 DEF Inv

\* Every step keeps the invariant.
LEMMA NextInv == Inv /\ [Next]_vars => Inv'
<1> SUFFICES ASSUME Inv, [Next]_vars PROVE Inv'
  OBVIOUS
<1>1. CASE \E m \in Messages : Write(m)
  BY <1>1, WriteKeeps
<1>2. CASE Transmit
  BY <1>2, TransmitKeeps
<1>3. CASE Close
  BY <1>3, CloseKeeps
<1>4. CASE ReadHeader
  BY <1>4, ReadHeaderKeeps
<1>5. CASE ReadBoolean
  BY <1>5, ReadBooleanKeeps
<1>6. CASE ReadFully
  BY <1>6, ReadFullyKeeps
<1>7. CASE UNCHANGED vars
  <2>1. UNCHANGED <<written, outgoing, ended, cut, pipe, plan, tokens, buf, heard, reader>>
    BY <1>7 DEF vars, sender
  <2>2. Typed'
    BY <2>1 DEF Inv, Typed
  <2>3. Begun' = Begun
    BY <2>1 DEF Begun
  <2>4. InStep => InStep'
    BY <2>1, <2>3 DEF InStep, Reading
  <2>5. Astray => Astray'
    BY <2>1, <2>3 DEF Astray
  <2> QED
    BY <2>2, <2>4, <2>5 DEF Inv
<1> QED
  BY <1>1, <1>2, <1>3, <1>4, <1>5, <1>6, <1>7 DEF Next, Read

\* The inductive invariant: the bytes on their way are those of the items the reader
\* still expects, unless it took the end of the stream for a boolean.
THEOREM Invariance == Spec => []Inv
<1>1. Init => Inv
  BY InitInv
<1>2. Inv /\ [Next]_vars => Inv'
  BY NextInv
<1> QED
  BY <1>1, <1>2, PTL DEF Spec

\* Every reachable state is well typed, and the reader always waits for at least one
\* byte more than it has.
THEOREM TypeCorrect == Spec => []TypeOK
<1>1. Inv => TypeOK
  BY DEF Inv, Typed, TypeOK
<1> QED
  BY <1>1, Invariance, PTL

\* Message.Read gives what Message.Write was given, whatever the pieces in which the
\* bytes arrive, for every message that was sent whole.
THEOREM ReadIsWrittenHolds == Spec => []ReadIsWritten
<1>1. Inv => ReadIsWritten
  <2> SUFFICES ASSUME Inv PROVE ReadIsWritten
    OBVIOUS
  <2>1. Typed
    BY DEF Inv
  <2>2. /\ Len(written) \in Nat /\ Len(heard) \in Nat /\ Begun \in Nat /\ Len(heard) <= Begun
    BY <2>1, LastLength
  <2>3. CASE InStep
    <3>1. PICK M, U, unsent : Reading(M, U, unsent)
      BY <2>3 DEF InStep
    <3>2. Begun <= Len(written) /\ \A i \in 1..Len(heard) : heard[i] = HeardMessage(written[i])
      BY <3>1 DEF Reading
    <3> QED
      BY <2>2, <3>2 DEF ReadIsWritten
  <2>4. CASE Astray
    <3>1. /\ cut /\ Begun = Len(written)
          /\ \A i \in 1..Len(heard) : i < Len(written) => heard[i] = HeardMessage(written[i])
      BY <2>4 DEF Astray
    <3>2. Whole = Len(written) - 1
      BY <3>1 DEF Whole
    <3> QED
      BY <2>2, <3>1, <3>2 DEF ReadIsWritten
  <2> QED
    BY <2>3, <2>4 DEF Inv
<1> QED
  BY <1>1, Invariance, PTL
=============================================================================
