------------------------- MODULE EpcParameterProofs -------------------------
(***************************************************************************)
(* What writing and reading parameters rests on: how many bytes a text     *)
(* has, what cutting it leaves, the order in which parameters are visited, *)
(* and that no buffer gets more than it holds.                             *)
(***************************************************************************)
EXTENDS EpcParameters, EpcSelectionProofs, SequenceTheorems

Text == Seq(Char)

-----------------------------------------------------------------------------
(* Texts.                                                                  *)
LEMMA Joined ==
  ASSUME NEW s \in Text, NEW t \in Text
  PROVE  /\ s \o t \in Text /\ Len(s) \in Nat /\ Len(t) \in Nat
         /\ Len(s \o t) = Len(s) + Len(t)
         /\ \A k \in 1 .. Len(s) : (s \o t)[k] = s[k]
         /\ \A k \in 1 .. Len(t) : (s \o t)[Len(s) + k] = t[k]
<1>1. Len(s) \in Nat /\ Len(t) \in Nat
  BY DEF Text
<1>2. s \o t \in Text
  BY ConcatProperties DEF Text
<1>3. Len(s \o t) = Len(s) + Len(t)
  BY ConcatProperties DEF Text
<1>4. \A k \in 1 .. Len(s) + Len(t) :
        (s \o t)[k] = IF k <= Len(s) THEN s[k] ELSE t[k - Len(s)]
  BY ConcatProperties DEF Text
<1>5. ASSUME NEW k \in 1 .. Len(s) PROVE (s \o t)[k] = s[k]
  BY <1>1, <1>4
<1>6. ASSUME NEW k \in 1 .. Len(t) PROVE (s \o t)[Len(s) + k] = t[k]
  <2>1. Len(s) + k \in 1 .. Len(s) + Len(t) /\ ~(Len(s) + k <= Len(s)) /\ Len(s) + k - Len(s) = k
    BY <1>1
  <2>2. QED
    BY <1>4, <2>1
<1>7. QED
  BY <1>1, <1>2, <1>3, <1>5, <1>6

LEMMA First ==
  ASSUME NEW s \in Text, NEW t \in Text, NEW u, u = s \o t, NEW k \in 1 .. Len(s)
  PROVE  u[k] = s[k]
BY Joined

LEMMA Second ==
  ASSUME NEW s \in Text, NEW t \in Text, NEW u, u = s \o t, NEW k \in 1 .. Len(t)
  PROVE  u[Len(s) + k] = t[k]
BY Joined

LEMMA JoinedAgain ==
  ASSUME NEW s \in Text, NEW t \in Text, NEW u \in Text
  PROVE  (s \o t) \o u = s \o (t \o u)
BY ConcatAssociative DEF Text

LEMMA JoinedToNothing ==
  ASSUME NEW s \in Text
  PROVE  <<>> \in Text /\ <<>> \o s = s /\ s \o <<>> = s
BY ConcatEmptySeq DEF Text

\* A text that begins with another goes on with the rest.
LEMMA Split ==
  ASSUME NEW s \in Text, NEW n \in 0 .. Len(s)
  PROVE  /\ SubSeq(s, 1, n) \in Text /\ Len(SubSeq(s, 1, n)) = n
         /\ SubSeq(s, n + 1, Len(s)) \in Text /\ Len(SubSeq(s, n + 1, Len(s))) = Len(s) - n
         /\ s = SubSeq(s, 1, n) \o SubSeq(s, n + 1, Len(s))
<1>1. Len(s) \in Nat /\ s \in Seq(Char)
  BY DEF Text
<1>2. \A i \in 1 .. n : s[i] \in Char
  BY <1>1
<1>3. \A i \in n + 1 .. Len(s) : s[i] \in Char
  BY <1>1
<1>4. SubSeq(s, 1, n) \in Text
  BY <1>1, <1>2, SubSeqProperties DEF Text
<1>5. Len(SubSeq(s, 1, n)) = n
  <2>1. Len(SubSeq(s, 1, n)) = IF 1 <= n THEN n - 1 + 1 ELSE 0
    BY <1>1, <1>2, SubSeqProperties
  <2>2. QED
    BY <1>1, <2>1
<1>6. SubSeq(s, n + 1, Len(s)) \in Text
  BY <1>1, <1>3, SubSeqProperties DEF Text
<1>7. Len(SubSeq(s, n + 1, Len(s))) = Len(s) - n
  <2>1. Len(SubSeq(s, n + 1, Len(s))) = IF n + 1 <= Len(s) THEN Len(s) - (n + 1) + 1 ELSE 0
    BY <1>1, <1>3, SubSeqProperties
  <2>2. QED
    BY <1>1, <2>1
<1>8. s = SubSeq(s, 1, n) \o SubSeq(s, n + 1, Len(s))
  <2>1. 1 \in 1 .. Len(s) + 1 /\ n \in 1 - 1 .. Len(s) /\ Len(s) \in n .. Len(s)
    BY <1>1
  <2>2. SubSeq(s, 1, n) \o SubSeq(s, n + 1, Len(s)) = SubSeq(s, 1, Len(s))
    BY <1>1, <2>1, ConcatAdjacentSubSeq
  <2>3. QED
    BY <1>1, <2>2, SubSeqFull
<1>9. QED
  BY <1>4, <1>5, <1>6, <1>7, <1>8

LEMMA SplitInTwo ==
  ASSUME NEW s \in Text, NEW n \in 0 .. Len(s)
  PROVE  \E a \in Text, b \in Text :
           /\ a = SubSeq(s, 1, n) /\ Len(a) = n
           /\ b = SubSeq(s, n + 1, Len(s)) /\ Len(b) = Len(s) - n
           /\ s = a \o b
BY Split, ZenonT(40)

-----------------------------------------------------------------------------
(* Bytes.                                                                  *)
Twos(text) == {k \in 1 .. Len(text) : text[k] \in TwoBytes}

LEMMA BytesCount ==
  ASSUME NEW text
  PROVE  Bytes(text) = Len(text) + Cardinality(Twos(text))
BY Zenon DEF Bytes, Twos

LEMMA TwosAreFinite ==
  ASSUME NEW text \in Text
  PROVE  IsFiniteSet(Twos(text)) /\ Cardinality(Twos(text)) \in Nat
<1>1. IsFiniteSet(1 .. Len(text))
  BY FS_Interval DEF Text
<1>2. Twos(text) \in SUBSET (1 .. Len(text))
  BY DEF Twos
<1>3. IsFiniteSet(Twos(text))
  BY <1>1, <1>2, FS_Subset
<1>4. QED
  BY <1>3, FS_CardinalityType

LEMMA BytesType ==
  ASSUME NEW text \in Text
  PROVE  Bytes(text) \in Nat /\ Len(text) \in Nat /\ Bytes(text) >= Len(text)
BY BytesCount, TwosAreFinite DEF Text

LEMMA CharacterIsText ==
  ASSUME NEW c \in Char
  PROVE  <<c>> \in Text /\ Len(<<c>>) = 1 /\ Bytes(<<c>>) \in 1 .. 2
<1>0. <<c>> \in Text /\ Len(<<c>>) = 1
  BY DEF Text
<1>1. PICK text \in Text : text = <<c>> /\ Len(text) = 1 /\ text[1] = c
  BY <1>0
<1>2. Twos(text) \in SUBSET (1 .. 1)
  BY <1>1 DEF Twos
<1>3. Cardinality(Twos(text)) \in 0 .. 1
  <2>1. IsFiniteSet(1 .. 1) /\ Cardinality(1 .. 1) = 1
    <3>1. 1 .. 1 = {1}
      OBVIOUS
    <3>2. QED
      BY <3>1, FS_Singleton
  <2>2. Cardinality(Twos(text)) <= 1
    BY <1>2, <2>1, FS_Subset
  <2>3. QED
    BY <2>2, TwosAreFinite
<1>4. Bytes(text) = 1 + Cardinality(Twos(text))
  BY <1>1, BytesCount
<1>5. QED
  BY <1>1, <1>3, <1>4

LEMMA BytesOfNothing == <<>> \in Text /\ Bytes(<<>>) = 0
<1>1. Twos(<<>>) = {}
  BY DEF Twos
<1>2. QED
  BY <1>1, FS_EmptySet DEF Bytes, Twos, Text

\* The bytes of two texts add up.
LEMMA BytesAddUp ==
  ASSUME NEW s \in Text, NEW t \in Text
  PROVE  Bytes(s \o t) = Bytes(s) + Bytes(t)
<1> DEFINE Moved == {Len(s) + k : k \in Twos(t)}
           move == [k \in Twos(t) |-> Len(s) + k]
<1>1. Len(s) \in Nat /\ Len(t) \in Nat
  BY DEF Text
<1>2. move \in Bijection(Twos(t), Moved)
  <2>1. move \in [Twos(t) -> Moved]
    OBVIOUS
  <2>2. \A a, b \in Twos(t) : move[a] = move[b] => a = b
    BY <1>1 DEF Twos
  <2>3. \A m \in Moved : \E k \in Twos(t) : move[k] = m
    OBVIOUS
  <2>4. QED
    BY <2>1, <2>2, <2>3 DEF Bijection, Injection, IsInjective, Surjection
<1>3. IsFiniteSet(Moved) /\ Cardinality(Moved) = Cardinality(Twos(t))
  <2>1. ExistsBijection(Twos(t), Moved)
    BY <1>2 DEF ExistsBijection
  <2>2. IsFiniteSet(Twos(t))
    BY TwosAreFinite
  <2> HIDE DEF Moved
  <2>3. QED
    BY <2>1, <2>2, FS_Bijection
<1>4. Twos(s \o t) = Twos(s) \cup Moved
  <2>1. ASSUME NEW k \in Twos(s \o t) PROVE k \in Twos(s) \cup Moved
    <3>1. k \in 1 .. Len(s) + Len(t) /\ (s \o t)[k] \in TwoBytes
      BY Joined DEF Twos
    <3>2. CASE k <= Len(s)
      BY <1>1, <3>1, <3>2, Joined DEF Twos
    <3>3. CASE ~(k <= Len(s))
      <4>1. k - Len(s) \in 1 .. Len(t) /\ Len(s) + (k - Len(s)) = k
        BY <1>1, <3>1, <3>3
      <4>2. t[k - Len(s)] \in TwoBytes
        BY <3>1, <4>1, Joined
      <4>3. QED
        BY <4>1, <4>2 DEF Twos
    <3>4. QED
      BY <3>2, <3>3
  <2>2. ASSUME NEW k \in Twos(s) PROVE k \in Twos(s \o t)
    BY <1>1, Joined DEF Twos
  <2>3. ASSUME NEW k \in Twos(t) PROVE Len(s) + k \in Twos(s \o t)
    <3>1. k \in 1 .. Len(t) /\ t[k] \in TwoBytes /\ Len(s) + k \in 1 .. Len(s) + Len(t)
      BY <1>1 DEF Twos
    <3>2. (s \o t)[Len(s) + k] = t[k] /\ Len(s \o t) = Len(s) + Len(t)
      BY <3>1, Joined
    <3>3. QED
      BY <3>1, <3>2 DEF Twos
  <2>4. QED
    BY <2>1, <2>2, <2>3
<1>5. Twos(s) \cap Moved = {}
  BY <1>1 DEF Twos
<1> HIDE DEF Moved
<1>6. Cardinality(Twos(s \o t)) = Cardinality(Twos(s)) + Cardinality(Twos(t))
  BY <1>3, <1>4, <1>5, TwosAreFinite, FS_EmptySet, FS_Union
<1>7. QED
  <2>1. /\ Bytes(s \o t) = Len(s \o t) + Cardinality(Twos(s \o t))
        /\ Bytes(s) = Len(s) + Cardinality(Twos(s))
        /\ Bytes(t) = Len(t) + Cardinality(Twos(t))
    BY BytesCount
  <2>2. Len(s \o t) = Len(s) + Len(t)
    BY Joined
  <2>3. QED
    BY <1>1, <1>6, <2>1, <2>2, TwosAreFinite

\* Each character has a byte at least.
LEMMA LongerHasMore ==
  ASSUME NEW s \in Text, NEW t \in Text, t # <<>>
  PROVE  Bytes(s \o t) > Bytes(s)
<1>1. Len(t) # 0 /\ Len(t) \in Nat
  BY DEF Text
<1>2. QED
  BY <1>1, BytesAddUp, BytesType

-----------------------------------------------------------------------------
(* Cutting.                                                                *)

\* Which texts are the beginning and the end of joined ones.
LEMMA JoinedParts ==
  ASSUME NEW s \in Text, NEW t \in Text
  PROVE  /\ SubSeq(s \o t, 1, Len(s)) = s
         /\ SubSeq(s \o t, Len(s) + 1, Len(s \o t)) = t
<1> DEFINE u == s \o t
<1>1. /\ u \in Text /\ Len(s) \in Nat /\ Len(t) \in Nat /\ Len(u) = Len(s) + Len(t)
      /\ \A k \in 1 .. Len(s) : u[k] = s[k]
      /\ \A k \in 1 .. Len(t) : u[Len(s) + k] = t[k]
  BY Joined
<1> HIDE DEF u
<1>2. Len(s) \in 0 .. Len(u)
  BY <1>1
<1>3. PICK a \in Text, b \in Text :
        /\ a = SubSeq(u, 1, Len(s)) /\ Len(a) = Len(s)
        /\ b = SubSeq(u, Len(s) + 1, Len(u)) /\ Len(b) = Len(u) - Len(s)
        /\ u = a \o b
  BY <1>1, <1>2, SplitInTwo, Zenon
<1>4. Len(a) = Len(s) /\ Len(b) = Len(t) /\ u = a \o b
  <2>1. Len(a) = Len(s) /\ Len(b) = Len(u) - Len(s) /\ u = a \o b
    BY <1>3, Zenon
  <2>2. Len(u) - Len(s) = Len(t)
    BY <1>1
  <2>3. QED
    BY <2>1, <2>2, Zenon
<1>5. \A k \in 1 .. Len(s) : a[k] = s[k]
  <2> TAKE k \in 1 .. Len(s)
  <2>0. k \in 1 .. Len(a)
    BY <1>4
  <2>1. u[k] = a[k]
    BY <1>4, <2>0, First
  <2>2. QED
    BY <1>1, <2>1
<1>6. \A k \in 1 .. Len(t) : b[k] = t[k]
  <2> TAKE k \in 1 .. Len(t)
  <2>0. k \in 1 .. Len(b)
    BY <1>4
  <2>1. u[Len(a) + k] = b[k]
    BY <1>4, <2>0, Second
  <2>2. u[Len(s) + k] = t[k]
    BY <1>1
  <2>3. QED
    BY <1>4, <2>1, <2>2
<1>7. a = s /\ b = t
  BY <1>4, <1>5, <1>6, SeqEqual DEF Text
<1>8. QED
  BY <1>3, <1>7 DEF u

Short(text, n) == {k \in 0 .. Len(text) : Bytes(SubSeq(text, 1, k)) <= n}

LEMMA CutIsLongest ==
  ASSUME NEW text \in Text, NEW n \in Nat
  PROVE  /\ Cut(text, n) = SubSeq(text, 1, Max(Short(text, n)))
         /\ Max(Short(text, n)) \in Short(text, n)
         /\ \A k \in Short(text, n) : Max(Short(text, n)) >= k
<1>1. Cut(text, n) = SubSeq(text, 1, Max(Short(text, n)))
  BY Zenon DEF Cut, Short
<1>2. Len(text) \in Nat /\ Short(text, n) \in SUBSET (0 .. Len(text))
  BY DEF Short, Text
<1>3. 0 \in Short(text, n)
  <2>1. SubSeq(text, 1, 0) = <<>>
    BY SubSeqEmpty
  <2>2. 0 \in 0 .. Len(text) /\ Bytes(SubSeq(text, 1, 0)) <= n
    <3>1. Bytes(SubSeq(text, 1, 0)) = 0
      BY <2>1, BytesOfNothing, Zenon
    <3>2. QED
      BY <1>2, <3>1
  <2>3. QED
    BY <2>2, Zenon DEF Short
<1>4. QED
  BY <1>1, <1>2, <1>3, MaximumExists

\* Cutting a text leaves its beginning, which fits.
LEMMA CutFits ==
  ASSUME NEW text \in Text, NEW n \in Nat
  PROVE  /\ Cut(text, n) \in Text /\ Bytes(Cut(text, n)) <= n
         /\ \E rest \in Text : text = Cut(text, n) \o rest
<1>1. PICK k \in Short(text, n) : Cut(text, n) = SubSeq(text, 1, k)
  BY CutIsLongest
<1>2. k \in 0 .. Len(text) /\ Bytes(SubSeq(text, 1, k)) <= n
  BY DEF Short
<1>3. PICK a \in Text, b \in Text : a = SubSeq(text, 1, k) /\ text = a \o b
  BY <1>2, SplitInTwo, ZenonT(40)
<1>4. QED
  BY <1>1, <1>2, <1>3

\* As many bytes as a text has are that text, whatever follows.
LEMMA CutOfJoined ==
  ASSUME NEW s \in Text, NEW t \in Text
  PROVE  Cut(s \o t, Bytes(s)) = s
<1> DEFINE u == s \o t
<1>1. u \in Text /\ Len(s) \in Nat /\ Len(u) = Len(s) + Len(t) /\ Len(t) \in Nat /\ Bytes(s) \in Nat
  BY Joined, BytesType
<1>2. SubSeq(u, 1, Len(s)) = s
  BY JoinedParts
<1>u. \A k \in 1 .. Len(s) : u[k] = s[k]
  BY Joined
<1> HIDE DEF u
<1>3. Len(s) \in Short(u, Bytes(s))
  <2>1. Len(s) \in 0 .. Len(u) /\ Bytes(s) <= Bytes(s)
    BY <1>1
  <2>2. QED
    BY <1>2, <2>1 DEF Short
<1>4. ASSUME NEW k \in Short(u, Bytes(s)) PROVE ~(k > Len(s))
  <2> SUFFICES ASSUME k > Len(s) PROVE FALSE
    OBVIOUS
  <2>1. k \in 0 .. Len(u)
    BY DEF Short
  <2>2. PICK a \in Text, b \in Text : a = SubSeq(u, 1, k) /\ Len(a) = k /\ u = a \o b
    BY <1>1, <2>1, SplitInTwo, ZenonT(40)
  <2>3. Len(s) \in 0 .. Len(a) /\ Len(a) \in Nat
    BY <1>1, <2>1, <2>2
  <2>4. PICK c \in Text, d \in Text : Len(c) = Len(s) /\ Len(d) = Len(a) - Len(s) /\ a = c \o d
    <3>1. PICK w : w = Len(s)
      OBVIOUS
    <3>2. w \in 0 .. Len(a)
      BY <2>3, <3>1
    <3>3. \E c \in Text, d \in Text :
            /\ c = SubSeq(a, 1, w) /\ Len(c) = w
            /\ d = SubSeq(a, w + 1, Len(a)) /\ Len(d) = Len(a) - w
            /\ a = c \o d
      BY <3>2, SplitInTwo, Zenon
    <3>4. QED
      BY <3>1, <3>3, Zenon
  <2>5. \A i \in 1 .. Len(s) : c[i] = s[i]
    <3> TAKE i \in 1 .. Len(s)
    <3>1. c[i] = a[i]
      BY <2>4, First
    <3>2. i \in 1 .. Len(a)
      BY <1>1, <2>3
    <3>3. a[i] = u[i]
      <4>1. u = a \o b
        BY <2>2
      <4>2. QED
        BY <3>2, <4>1, First
    <3>4. QED
      BY <1>u, <3>1, <3>3
  <2>6. c = s
    BY <2>4, <2>5, SeqEqual DEF Text
  <2>7. d # <<>>
    BY <1>1, <2>1, <2>2, <2>4
  <2>8. Bytes(a) > Bytes(s)
    BY <2>4, <2>6, <2>7, LongerHasMore
  <2>9. Bytes(a) <= Bytes(s) /\ Bytes(a) \in Nat
    BY <2>2, BytesType DEF Short
  <2>10. QED
    BY <1>1, <2>8, <2>9
<1>5. Max(Short(u, Bytes(s))) = Len(s)
  <2>1. /\ Max(Short(u, Bytes(s))) \in Short(u, Bytes(s))
        /\ Max(Short(u, Bytes(s))) >= Len(s)
    BY <1>1, <1>3, CutIsLongest
  <2>2. ~(Max(Short(u, Bytes(s))) > Len(s)) /\ Max(Short(u, Bytes(s))) \in Nat
    BY <1>1, <1>4, <2>1 DEF Short
  <2>3. QED
    BY <1>1, <2>1, <2>2
<1>6. QED
  BY <1>1, <1>2, <1>5, CutIsLongest DEF u

\* A text that fits is not cut.
LEMMA CutOfShort ==
  ASSUME NEW text \in Text, NEW n \in Nat, Bytes(text) <= n
  PROVE  Cut(text, n) = text
<1>1. PICK rest \in Text : text = Cut(text, n) \o rest
  BY CutFits, Zenon
<1>2. Len(text) \in Nat /\ SubSeq(text, 1, Len(text)) = text
  BY SubSeqFull DEF Text
<1>3. Len(text) \in Short(text, n)
  <2>1. Len(text) \in 0 .. Len(text)
    BY <1>2
  <2>2. Bytes(SubSeq(text, 1, Len(text))) <= n
    BY <1>2, Zenon
  <2>3. QED
    BY <2>1, <2>2, Zenon DEF Short
<1>4. /\ Max(Short(text, n)) \in Short(text, n)
      /\ Max(Short(text, n)) >= Len(text)
  BY <1>3, CutIsLongest
<1>5. Max(Short(text, n)) = Len(text)
  BY <1>2, <1>4 DEF Short
<1>6. QED
  BY <1>2, <1>5, CutIsLongest

-----------------------------------------------------------------------------
(* The parameters of a function in their order.                            *)

InSet(f) == {i \in Index(f) : Params[f][i].mode # "OUT"}
OutSet(f) == {i \in Index(f) : Params[f][i].mode # "IN"}

\* The parameters that travel are parameters, each once.
LEMMA Travelling ==
  ASSUME NEW f \in Function
  PROVE  /\ In(f) = Ascending(InSet(f)) /\ Out(f) = Ascending(OutSet(f))
         /\ Len(Params[f]) \in Nat /\ InSet(f) \in SUBSET Index(f) /\ OutSet(f) \in SUBSET Index(f)
BY ParametersAssumption DEF In, Out, InSet, OutSet, Index

\* Every one of them travels, in their order.
LEMMA ArgumentIs ==
  ASSUME NEW f \in Function
  PROVE  /\ Len(In(f)) \in Nat
         /\ \A k \in 1 .. Len(In(f)) :
              In(f)[k] \in Index(f) /\ Params[f][In(f)[k]].type \in Type \ {"VOID"}
         /\ \A k, l \in 1 .. Len(In(f)) : k # l => In(f)[k] # In(f)[l]
<1>1. /\ Len(In(f)) \in Nat
      /\ \A k \in 1 .. Len(In(f)) : In(f)[k] \in InSet(f)
      /\ \A k, l \in 1 .. Len(In(f)) : k # l => In(f)[k] # In(f)[l]
  <2>1. Len(Params[f]) \in Nat /\ InSet(f) \in SUBSET (1 .. Len(Params[f]))
    BY Travelling DEF Index
  <2>2. In(f) = Ascending(InSet(f))
    BY Travelling
  <2>3. QED
    BY <2>1, <2>2, Visited
<1>2. \A i \in InSet(f) : i \in Index(f) /\ Params[f][i].type \in Type \ {"VOID"}
  BY ParametersAssumption DEF InSet, Index
<1>3. QED
  BY <1>1, <1>2

ResultSet(f) == {i \in Index(f) : Params[f][i].mode # "IN" /\ Params[f][i].type # "VOID"}

LEMMA ResultIs ==
  ASSUME NEW f \in Function
  PROVE  /\ Len(Results(f)) \in Nat /\ Results(f) \in Seq(Index(f))
         /\ \A k \in 1 .. Len(Results(f)) :
              Results(f)[k] \in Index(f) /\ Params[f][Results(f)[k]].type \in Type \ {"VOID"}
         /\ \A k, l \in 1 .. Len(Results(f)) : k # l => Results(f)[k] # Results(f)[l]
<1>1. Results(f) = Ascending(ResultSet(f))
  BY Zenon DEF Results, ResultSet
<1>2. /\ Len(Results(f)) \in Nat /\ Results(f) \in Seq(ResultSet(f))
      /\ \A k \in 1 .. Len(Results(f)) : Results(f)[k] \in ResultSet(f)
      /\ \A k, l \in 1 .. Len(Results(f)) : k # l => Results(f)[k] # Results(f)[l]
  <2>1. Len(Params[f]) \in Nat /\ ResultSet(f) \in SUBSET (1 .. Len(Params[f]))
    BY Travelling DEF Index, ResultSet
  <2>2. QED
    BY <1>1, <2>1, Visited
<1>3. \A i \in ResultSet(f) : i \in Index(f) /\ Params[f][i].type \in Type \ {"VOID"}
  BY ParametersAssumption DEF ResultSet, Index
<1>4. ResultSet(f) \subseteq Index(f)
  BY DEF ResultSet
<1>5. QED
  BY <1>2, <1>3, <1>4, SeqMonotonic

-----------------------------------------------------------------------------
(* Buffers.                                                                *)

\* What a buffer may hold: a text with room for a zero, or a number.
Holds(p, data) ==
  /\ p.type \in Texts => data \in Text /\ Bytes(data) < p.size
  /\ p.type = "INT" => data \in IntMin .. IntMax
  /\ p.type = "LONG" => data \in Number
  /\ p.type = "VOID" => data \in Int

LEMMA Narrowed ==
  ASSUME NEW n \in Int
  PROVE  ToInt(n) \in IntMin .. IntMax
<1>1. PICK w \in Nat : w = IntMax - IntMin + 1 /\ w > 0
  BY ParametersAssumption
<1>2. (n - IntMin) % w \in 0 .. w - 1
  BY <1>1, ParametersAssumption
<1>3. QED
  BY <1>1, <1>2, ParametersAssumption DEF ToInt

LEMMA NumeralIsText ==
  ASSUME NEW n \in Number
  PROVE  Numeral(n) \in Text /\ Len(Numeral(n)) = 1 /\ Bytes(Numeral(n)) \in 1 .. 2
<1>1. Decimal[n] \in Char
  BY ParametersAssumption
<1>2. QED
  BY <1>1, CharacterIsText DEF Numeral

\* A number that was written is read back.
LEMMA NumeralIsRead ==
  ASSUME NEW n \in Number
  PROVE  Strtol(Numeral(n)) = n
<1>1. \A m \in Number : Numeral(m) = Numeral(n) => m = n
  BY ParametersAssumption DEF Numeral, IsInjective
<1>2. QED
  BY <1>1 DEF Strtol

LEMMA NumberIsRead ==
  ASSUME NEW text
  PROVE  Strtol(text) \in Number /\ Strtol(text) \in Int
BY ParametersAssumption DEF Strtol

LEMMA NothingIsHeld ==
  ASSUME NEW p, p.type \in Texts => p.size \in Nat /\ p.size > 0
  PROVE  Holds(p, NoData(p)) /\ Holds(p, Junk(p))
<1>1. 0 \in IntMin .. IntMax /\ IntMax \in IntMin .. IntMax
  BY ParametersAssumption
<1>2. 0 \in Number /\ IntMax \in Number /\ IntMax \in Int
  BY <1>1, ParametersAssumption
<1>3. CASE p.type \in Texts
  <2>1. <<"?">> \in Text /\ p.size \in Nat /\ p.size - 1 \in Nat
    <3>1. <<"?">> \in Text
      BY CharacterIsText, ParametersAssumption
    <3>2. p.size \in Nat /\ p.size > 0
      BY <1>3
    <3>3. QED
      BY <3>1, <3>2
  <2>2. Junk(p) \in Text /\ Bytes(Junk(p)) <= p.size - 1 /\ Bytes(Junk(p)) \in Nat
    BY <1>3, <2>1, CutFits, BytesType DEF Junk
  <2>3. NoData(p) \in Text /\ Bytes(NoData(p)) = 0
    BY <1>3, BytesOfNothing DEF NoData
  <2>4. QED
    BY <1>3, <2>1, <2>2, <2>3 DEF Holds, Texts
<1>4. CASE p.type \notin Texts
  BY <1>1, <1>2, <1>4 DEF Holds, NoData, Junk
<1>5. QED
  BY <1>3, <1>4

\* Whatever text arrives for a parameter, its buffer holds what is stored.
THEOREM BufferHolds ==
  ASSUME NEW f \in Function, NEW i \in Index(f), Params[f][i].type # "VOID",
         NEW data, Holds(Params[f][i], data), NEW piece \in Text
  PROVE  Holds(Params[f][i], SetParameter(Params[f][i], data, piece).data)
<1>1. PICK p : p = Params[f][i]
  OBVIOUS
<1>2. p.type \in Type /\ p.size \in Nat /\ p.type # "VOID" /\ Holds(p, data)
  BY <1>1, ParametersAssumption DEF Index
<1>3. CASE p.type = "XML"
  <2>1. data \in Text /\ Bytes(data) < p.size
    BY <1>2, <1>3 DEF Holds, Texts
  <2>2. piece \o data \in Text /\ Bytes(data \o piece) = Bytes(piece) + Bytes(data)
        /\ data \o piece \in Text
    BY <2>1, Joined, BytesAddUp, BytesType
  <2>3. QED
    BY <1>1, <1>3, <2>1, <2>2 DEF SetParameter, Stored, Holds, Texts
<1>4. CASE p.type \in {"STRING", "DATE"}
  BY <1>1, <1>2, <1>4 DEF SetParameter, Stored, Holds, Texts
<1>5. CASE p.type = "INT"
  BY <1>1, <1>5, NumberIsRead, Narrowed DEF SetParameter, Stored, Holds, Texts
<1>6. CASE p.type = "LONG"
  BY <1>1, <1>6, NumberIsRead DEF SetParameter, Stored, Holds, Texts
<1>7. QED
  BY <1>2, <1>3, <1>4, <1>5, <1>6 DEF Type

=============================================================================
