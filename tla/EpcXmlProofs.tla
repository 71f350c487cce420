---------------------------- MODULE EpcXmlProofs ----------------------------
(***************************************************************************)
(* For every table of functions, all arguments and all markup, a listener  *)
(* that parses the document a stub wrote stores each argument where it     *)
(* belongs and is not ended by it.                                         *)
(*                                                                         *)
(* The callbacks know a level and an index only.  The invariant says where *)
(* in the document the parser is for them (Place), and what of it is in    *)
(* the buffers there: the arguments before the one that is open, as much   *)
(* of that one as was reported (Partial), and nothing of those behind it.  *)
(* One lemma per kind of place shows that the next callback leads to a     *)
(* place again, or to an error that ends the parser (Onward).              *)
(***************************************************************************)
EXTENDS EpcXml, EpcParameterProofs

-----------------------------------------------------------------------------
(* Events.                                                                 *)

\* The depth changes by one with each tag.
LEMMA CountIs ==
  ASSUME NEW events, NEW ev, NEW j \in Nat
  PROVE  /\ Count(events, 0, ev) = 0
         /\ Count(events, j, ev) \in Nat
         /\ Count(events, j + 1, ev) = Count(events, j, ev) + (IF events[j + 1].ev = ev THEN 1 ELSE 0)
<1> DEFINE At(n) == {i \in 1 .. n : events[i].ev = ev}
<1>1. At(0) = {}
  OBVIOUS
<1>2. IsFiniteSet(At(j))
  <2>1. IsFiniteSet(1 .. j) /\ At(j) \in SUBSET (1 .. j)
    BY FS_Interval
  <2>2. QED
    BY <2>1, FS_Subset
<1>3. At(j + 1) = IF events[j + 1].ev = ev THEN At(j) \cup {j + 1} ELSE At(j)
  OBVIOUS
<1>4. j + 1 \notin At(j)
  OBVIOUS
<1>5. Cardinality(At(j)) \in Nat
  BY <1>2, FS_CardinalityType
<1>6. Cardinality(At(j + 1)) = Cardinality(At(j)) + (IF events[j + 1].ev = ev THEN 1 ELSE 0)
  <2> HIDE DEF At
  <2>1. CASE events[j + 1].ev = ev
    <3>1. Cardinality(At(j) \cup {j + 1}) = Cardinality(At(j)) + 1
      BY <1>2, <1>4, FS_AddElement
    <3>2. QED
      BY <1>3, <2>1, <3>1
  <2>2. CASE events[j + 1].ev # ev
    BY <1>3, <1>5, <2>2
  <2>3. QED
    BY <2>1, <2>2
<1>7. \A n : Count(events, n, ev) = Cardinality(At(n))
  BY DEF Count
<1> HIDE DEF At
<1>8. Cardinality(At(0)) = 0
  BY <1>1, FS_EmptySet
<1>9. QED
  BY <1>5, <1>6, <1>7, <1>8

\* The empty beginning has no depth, and a tag changes it by one.
LEMMA DepthIs ==
  ASSUME NEW events, NEW j \in Nat
  PROVE  /\ Depth(events, 0) = 0
         /\ Depth(events, j) \in Int
         /\ events[j + 1].ev = "start" => Depth(events, j + 1) = Depth(events, j) + 1
         /\ events[j + 1].ev = "end" => Depth(events, j + 1) = Depth(events, j) - 1
         /\ events[j + 1].ev \notin {"start", "end"} => Depth(events, j + 1) = Depth(events, j)
BY CountIs DEF Depth

\* What an event of each kind carries.
LEMMA EventIs ==
  ASSUME NEW event \in EventSet
  PROVE  /\ event.ev \in {"start", "text", "end", "error"}
         /\ event.ev = "start" => event.name \in Char /\ event.text \in Seq(Char \X Char)
         /\ event.ev = "text" => event.text \in Text
         /\ event.ev = "end" => event.name \in Char
         /\ event.ev = "error" <=> event = Malformed
<1>0. Malformed.ev = "error"
  BY DEF Malformed
<1>1. CASE event \in [ev : {"start"}, name : Char, text : Seq(Char \X Char)]
  <2>1. event.ev = "start" /\ event.name \in Char /\ event.text \in Seq(Char \X Char)
    BY <1>1
  <2>2. QED
    BY <1>0, <2>1
<1>2. CASE event \in [ev : {"text"}, name : {""}, text : Seq(Char)]
  <2>1. event.ev = "text" /\ event.text \in Text
    BY <1>2 DEF Text
  <2>2. QED
    BY <1>0, <2>1
<1>3. CASE event \in [ev : {"end"}, name : Char, text : {<<>>}]
  <2>1. event.ev = "end" /\ event.name \in Char
    BY <1>3
  <2>2. QED
    BY <1>0, <2>1
<1>4. CASE event = Malformed
  BY <1>4 DEF Malformed
<1>5. QED
  BY <1>1, <1>2, <1>3, <1>4 DEF EventSet

-----------------------------------------------------------------------------
(* What is written back.                                                   *)
\* Characters are a text.
LEMMA CharactersAreText ==
  ASSUME NEW a \in Char, NEW b \in Char, NEW c \in Char, NEW d \in Char
  PROVE  /\ <<a, b>> \in Text /\ <<a, b, c, d>> \in Text
         /\ \A r \in 1 .. 4 : <<a, b, c, d>>[r] \in Char
BY DEF Text

\* So is a start tag with its attributes.
LEMMA StartTagIsText ==
  ASSUME NEW e, e.name \in Char, e.text \in Seq(Char \X Char)
  PROVE  StartTag(e) \in Text
<1>1. PICK attrs \in Seq(Char \X Char) : attrs = e.text
  OBVIOUS
<1>2. PICK n \in Nat : n = Len(attrs)
  OBVIOUS
<1>3. " " \in Char /\ "=" \in Char /\ "<" \in Char /\ ">" \in Char
  BY XmlAssumption
<1>4. ASSUME NEW i \in 1 .. 4 * n
      PROVE  <<" ", attrs[(i + 3) \div 4][1], "=", attrs[(i + 3) \div 4][2]>>[1 + ((i + 3) % 4)] \in Char
  <2>1. PICK k \in 1 .. n : k = (i + 3) \div 4
    OBVIOUS
  <2>2. attrs[k] \in Char \X Char
    BY <1>2
  <2>3. PICK r \in 1 .. 4 : r = 1 + ((i + 3) % 4)
    OBVIOUS
  <2>4. attrs[k][1] \in Char /\ attrs[k][2] \in Char
    BY <2>2
  <2>6. <<" ", attrs[k][1], "=", attrs[k][2]>>[r] \in Char
    BY <1>3, <2>4, CharactersAreText
  <2>5. QED
    BY <2>1, <2>3, <2>6
<1>5. Attributes(e.text) \in [1 .. 4 * n -> Char]
  BY <1>1, <1>2, <1>4 DEF Attributes
<1>6. Attributes(e.text) \in Text
  BY <1>5 DEF Text
<1>7. <<"<", e.name>> \in Text /\ <<">">> \in Text
  BY <1>3, CharactersAreText, CharacterIsText
<1>8. QED
  BY <1>6, <1>7, Joined DEF StartTag

\* What is written back for an event is a text.
LEMMA WrittenIsText ==
  ASSUME NEW e \in EventSet
  PROVE  /\ Written(e) \in Text
         /\ e.ev = "start" => Written(e) = StartTag(e)
         /\ e.ev = "text" => Written(e) = e.text
         /\ e.ev = "end" => Written(e) = EndTag(e)
<1>1. <<>> \in Text
  BY DEF Text
<1>2. e.ev = "end" => EndTag(e) \in Text
  <2>1. e.ev = "end" => e.name \in Char
    BY EventIs
  <2>2. {"<", "/", ">"} \subseteq Char
    BY XmlAssumption
  <2>3. QED
    BY <2>1, <2>2, CharactersAreText DEF EndTag
<1>3. QED
  BY <1>1, <1>2, EventIs, StartTagIsText DEF Written

\* The text that is written back for the first events, one after the other.
Writing(events) ==
  CHOOSE g : g = [j \in 0 .. Len(events) |-> IF j = 0 THEN <<>> ELSE g[j - 1] \o Written(events[j])]

\* What is written back for the first events of an argument.
LEMMA WritingIs ==
  ASSUME NEW events \in Seq(EventSet)
  PROVE  /\ WrittenBack(events) = Writing(events)[Len(events)]
         /\ Writing(events)[0] = <<>>
         /\ \A j \in 1 .. Len(events) : Writing(events)[j] = Writing(events)[j - 1] \o Written(events[j])
         /\ \A j \in 0 .. Len(events) : Writing(events)[j] \in Text
<1>0. PICK n \in Nat : n = Len(events)
  OBVIOUS
<1> DEFINE next == [p \in (1 .. n) \X Text |-> p[2] \o Written(events[p[1]])]
           Body(g) == [j \in 0 .. Len(events) |-> IF j = 0 THEN <<>> ELSE g[j - 1] \o Written(events[j])]
<1>1. <<>> \in Text
  BY DEF Text
<1>2. \A j \in 1 .. n : Written(events[j]) \in Text
  <2>1. \A j \in 1 .. n : events[j] \in EventSet
    BY <1>0
  <2>2. QED
    BY <2>1, WrittenIsText
<1>3. /\ next \in [(1 .. n) \X Text -> Text]
      /\ \A j \in 1 .. n, t \in Text : next[<<j, t>>] = t \o Written(events[j])
  <2>1. \A j \in 1 .. n, t \in Text : t \o Written(events[j]) \in Text
    BY <1>2, Joined
  <2>2. \A p \in (1 .. n) \X Text : p[2] \o Written(events[p[1]]) \in Text
    BY <2>1
  <2>3. next \in [(1 .. n) \X Text -> Text]
    BY <2>2
  <2>4. \A j \in 1 .. n, t \in Text : next[<<j, t>>] = t \o Written(events[j])
    OBVIOUS
  <2>5. QED
    BY <2>3, <2>4, Zenon
<1> HIDE DEF next
<1>4. PICK g \in [0 .. n -> Text] : Follow(g, n, <<>>, next)
  BY <1>1, <1>3, Recursion
<1>5. g = Body(g)
  <2>1. ASSUME NEW j \in 0 .. n, j # 0
        PROVE  g[j] = g[j - 1] \o Written(events[j])
    <3>1. j \in 1 .. n /\ j - 1 \in 0 .. n
      BY <2>1
    <3>2. g[j] = next[<<j, g[j - 1]>>] /\ g[j - 1] \in Text
      BY <1>4, <3>1 DEF Follow
    <3>3. QED
      BY <1>3, <3>1, <3>2
  <2>2. g[0] = <<>>
    BY <1>4 DEF Follow
  <2>3. QED
    BY <1>0, <2>1, <2>2
<1>6. PICK W : W = (CHOOSE V : V = Body(V)) /\ W = Body(W)
  <2>1. \E V : V = Body(V)
    BY <1>5
  <2> HIDE DEF Body
  <2>2. QED
    BY <2>1, Zenon
<1>7. WrittenBack(events) = W[Len(events)] /\ Writing(events) = W
  BY <1>6, Zenon DEF WrittenBack, Writing
<1>8. /\ W[0] = <<>>
      /\ \A j \in 1 .. n : W[j] = W[j - 1] \o Written(events[j])
  <2>1. \A j \in 0 .. n :
          Body(W)[j] = IF j = 0 THEN <<>> ELSE W[j - 1] \o Written(events[j])
    BY <1>0
  <2> HIDE DEF Body
  <2>2. \A j \in 0 .. n : W[j] = IF j = 0 THEN <<>> ELSE W[j - 1] \o Written(events[j])
    BY <1>6, <2>1
  <2>3. 0 \in 0 .. n /\ \A j \in 1 .. n : j \in 0 .. n /\ j # 0
    OBVIOUS
  <2>4. QED
    BY <2>2, <2>3, Zenon
<1>9. \A j \in 0 .. n : W[j] \in Text
  <2> DEFINE Reached == {j \in Nat : j <= n => W[j] \in Text}
  <2>1. 0 \in Reached
    BY <1>1, <1>8
  <2>2. ASSUME NEW j \in Nat, j \in Reached PROVE j + 1 \in Reached
    <3> SUFFICES ASSUME j + 1 <= n PROVE W[j + 1] \in Text
      OBVIOUS
    <3>1. PICK l \in 1 .. n : l = j + 1 /\ l - 1 = j
      OBVIOUS
    <3>2. W[j] \in Text
      BY <2>2
    <3>3. W[l] = W[j] \o Written(events[l])
      BY <1>8, <3>1
    <3>4. QED
      BY <1>2, <3>1, <3>2, <3>3, Joined
  <2>3. Nat \subseteq Reached
    <3> HIDE DEF Reached
    <3>1. QED
      BY <2>1, <2>2, Induction
  <2>4. QED
    BY <2>3
<1>10. QED
  BY <1>0, <1>7, <1>8, <1>9

\* It is no shorter than any beginning of it.
LEMMA WritingFits ==
  ASSUME NEW events \in Seq(EventSet), NEW j \in 0 .. Len(events)
  PROVE  Bytes(Writing(events)[j]) <= Bytes(WrittenBack(events))
<1>0. PICK n \in Nat : n = Len(events)
  OBVIOUS
<1>1. PICK W : W = Writing(events)
  OBVIOUS
<1>2. /\ WrittenBack(events) = W[n]
      /\ \A i \in 1 .. n : W[i] = W[i - 1] \o Written(events[i])
      /\ \A i \in 0 .. n : W[i] \in Text
  BY <1>0, <1>1, WritingIs
<1>3. \A i \in 0 .. n : Bytes(W[i]) \in Nat
  BY <1>2, BytesType
<1>4. ASSUME NEW i \in 1 .. n PROVE Bytes(W[i - 1]) <= Bytes(W[i])
  <2>1. events[i] \in EventSet
    BY <1>0
  <2>2. Written(events[i]) \in Text
    BY <2>1, WrittenIsText
  <2>3. PICK l \in 0 .. n : l = i - 1
    OBVIOUS
  <2>4. Bytes(W[l] \o Written(events[i])) = Bytes(W[l]) + Bytes(Written(events[i]))
    BY <1>2, <2>2, BytesAddUp
  <2>5. W[i] = W[l] \o Written(events[i])
    BY <1>2, <2>3
  <2>6. QED
    BY <1>3, <2>2, <2>3, <2>4, <2>5, BytesType
<1> DEFINE Back == {m \in Nat : m <= n => Bytes(W[n - m]) <= Bytes(W[n])}
<1>5. 0 \in Back
  BY <1>3
<1>6. ASSUME NEW m \in Nat, m \in Back PROVE m + 1 \in Back
  <2> SUFFICES ASSUME m + 1 <= n PROVE Bytes(W[n - (m + 1)]) <= Bytes(W[n])
    OBVIOUS
  <2>1. PICK i \in 1 .. n : i = n - m /\ i - 1 = n - (m + 1)
    OBVIOUS
  <2>2. Bytes(W[i]) <= Bytes(W[n])
    BY <1>6, <2>1
  <2>3. Bytes(W[i - 1]) <= Bytes(W[i]) /\ i - 1 \in 0 .. n /\ i \in 0 .. n /\ n \in 0 .. n
    BY <1>4
  <2>4. QED
    BY <1>3, <2>1, <2>2, <2>3
<1>7. Nat \subseteq Back
  <2> HIDE DEF Back
  <2>1. QED
    BY <1>5, <1>6, Induction
<1>8. PICK m \in Nat : m <= n /\ n - m = j
  <2>1. n - j \in Nat /\ n - j <= n /\ n - (n - j) = j
    BY <1>0
  <2>2. QED
    BY <2>1
<1>9. Bytes(W[n - m]) <= Bytes(W[n])
  BY <1>7, <1>8
<1>10. QED
  BY <1>1, <1>2, <1>8, <1>9

-----------------------------------------------------------------------------
(* Documents.                                                              *)
\* A set of numbers that is not empty has a smallest element.
LEMMA MinimumExists ==
  ASSUME NEW n \in Nat, NEW S \in SUBSET (1 .. n), S # {}
  PROVE  Min(S) \in S /\ \A m \in S : Min(S) <= m
<1> DEFINE Mirror == {n - m : m \in S}
<1>1. Mirror \in SUBSET (0 .. n) /\ Mirror # {}
  <2>1. \A m \in S : m \in 1 .. n /\ n - m \in 0 .. n
    OBVIOUS
  <2>2. QED
    BY <2>1
<1>2. Max(Mirror) \in Mirror /\ \A m \in Mirror : Max(Mirror) >= m
  <2> HIDE DEF Mirror
  <2>1. QED
    BY <1>1, MaximumExists
<1>3. PICK x \in S : Max(Mirror) = n - x
  BY <1>2
<1>4. \A m \in S : x <= m
  <2> SUFFICES ASSUME NEW m \in S PROVE x <= m
    OBVIOUS
  <2>1. n - m \in Mirror
    OBVIOUS
  <2>2. n - x >= n - m
    BY <1>2, <1>3, <2>1
  <2>3. x \in 1 .. n /\ m \in 1 .. n
    OBVIOUS
  <2>4. QED
    BY <2>2, <2>3
<1>5. QED
  BY <1>4 DEF Min

\* An event that reports characters.
LEMMA CharactersAre ==
  ASSUME NEW w
  PROVE  /\ Characters(w).ev = "text" /\ Characters(w).text = w /\ Characters(w) # Malformed
         /\ w \in Text => Characters(w) \in EventSet
         /\ Malformed.ev = "error" /\ Malformed \in EventSet
BY DEF Characters, Malformed, EventSet, Text

\* c reports a text, in pieces.
ArePieces(text, c) ==
  /\ c \in Seq(EventSet) /\ Len(c) > 0
  /\ \A j \in 1 .. Len(c) : c[j].ev = "text"
  /\ Len(c) = 1 => c[1].text = text
  /\ WrittenBack(c) = text

\* A piece is a text, and follows what is in front of it.
LEMMA PieceFollows ==
  ASSUME NEW text \in Text, NEW a \in 0 .. Len(text), NEW b \in 0 .. Len(text), a <= b
  PROVE  /\ SubSeq(text, a + 1, b) \in Text
         /\ SubSeq(text, 1, a) \o SubSeq(text, a + 1, b) = SubSeq(text, 1, b)
<1>1. PICK n \in Nat : n = Len(text)
  BY DEF Text
<1>2. PICK u \in Text : u = SubSeq(text, 1, b) /\ Len(u) = b
  BY Split
<1>3. \A i \in 1 .. n : text[i] \in Char
  BY <1>1 DEF Text
<1>4. \A i \in 1 .. b : u[i] = text[i]
  BY <1>1, <1>2
<1>5. a \in 0 .. Len(u)
  BY <1>2
<1>6. u = SubSeq(u, 1, a) \o SubSeq(u, a + 1, b) /\ SubSeq(u, a + 1, b) \in Text
  BY <1>2, <1>5, Split
<1>7. SubSeq(u, 1, a) = SubSeq(text, 1, a)
  BY <1>1, <1>2, <1>4 DEF Text
<1>8. SubSeq(u, a + 1, b) = SubSeq(text, a + 1, b)
  BY <1>1, <1>2, <1>4 DEF Text
<1>9. QED
  BY <1>2, <1>6, <1>7, <1>8

\* Where the pieces of a text end.
EndOf(ends, k) == IF k = 0 THEN 0 ELSE ends[k]
AreEnds(ends, m, n) ==
  /\ m \in Nat /\ m > 0 /\ DOMAIN ends = 1 .. m /\ Len(ends) = m
  /\ \A k \in 1 .. m : ends[k] \in 1 .. n /\ EndOf(ends, k - 1) <= ends[k] /\ EndOf(ends, k - 1) \in 0 .. n
  /\ ends[m] = n

\* They ascend up to the end of the text.
LEMMA EndsAre ==
  ASSUME NEW n \in Nat, n > 0, NEW cuts \in SUBSET (1 .. n - 1), NEW ends, ends = Ascending(cuts \cup {n})
  PROVE  \E m \in Nat : AreEnds(ends, m, n)
<1>1. PICK S \in SUBSET (1 .. n) : S = cuts \cup {n}
  <2>1. cuts \cup {n} \in SUBSET (1 .. n)
    OBVIOUS
  <2>2. QED
    BY <2>1
<1>2. Visits(ends, S) /\ Ascends(ends, S)
  BY <1>1, VisitsAll, AscendingAscends
<1>3. PICK m \in Nat : m = Len(ends)
  BY <1>2 DEF Visits
<1>4. DOMAIN ends = 1 .. m /\ \A k \in 1 .. m : ends[k] \in S /\ ends[k] \in 1 .. n
  <2>1. ends \in Seq(S) /\ \A k \in 1 .. m : ends[k] \in S
    BY <1>2, <1>3 DEF Visits
  <2>2. DOMAIN ends = 1 .. m
    BY <1>3, <2>1
  <2>3. \A i \in S : i \in 1 .. n
    BY <1>1
  <2>4. QED
    BY <2>1, <2>2, <2>3, Zenon
<1>5. Cardinality(S) = m
  <2>1. IsFiniteSet(S)
    BY PartIsFinite
  <2>2. PICK c \in Nat : c = Cardinality(S)
    BY <2>1, FS_CardinalityType
  <2>3. DOMAIN ends = 1 .. c
    BY <1>2, <2>2 DEF Ascends
  <2>4. QED
    BY <1>4, <2>2, <2>3
<1>6. \A k, l \in 1 .. m : k < l => ends[k] < ends[l]
  BY <1>2, <1>5 DEF Ascends
<1>7. PICK x \in 1 .. m : ends[x] = n
  BY <1>1, <1>2, <1>3 DEF Visits
<1>8. m > 0 /\ ends[m] = n
  <2>1. m \in 1 .. m
    BY <1>7
  <2>2. x = m \/ x < m
    OBVIOUS
  <2>3. x < m => n < ends[m]
    BY <1>6, <1>7, <2>1
  <2>4. PICK last \in 1 .. n : last = ends[m]
    BY <1>4, <2>1
  <2>5. ~(n < last)
    OBVIOUS
  <2>6. x = m
    BY <2>2, <2>3, <2>4, <2>5
  <2>7. QED
    BY <1>7, <2>1, <2>6
<1>9. ASSUME NEW k \in 1 .. m PROVE EndOf(ends, k - 1) <= ends[k] /\ EndOf(ends, k - 1) \in 0 .. n
  <2>1. CASE k = 1
    <3>1. PICK end \in 1 .. n : end = ends[k]
      BY <1>4
    <3>2. EndOf(ends, k - 1) = 0 /\ 0 <= end
      BY <2>1 DEF EndOf
    <3>3. QED
      BY <3>1, <3>2
  <2>2. CASE k # 1
    <3>1. PICK l \in 1 .. m : l = k - 1 /\ l < k /\ l # 0
      BY <2>2
    <3>2. ends[l] < ends[k] /\ EndOf(ends, k - 1) = ends[l]
      BY <1>6, <3>1 DEF EndOf
    <3>3. ends[l] \in 1 .. n /\ ends[k] \in 1 .. n
      BY <1>4
    <3>4. QED
      BY <3>2, <3>3
  <2>3. QED
    BY <2>1, <2>2
<1>10. QED
  BY <1>3, <1>4, <1>8, <1>9 DEF AreEnds

\* The pieces of a text are texts, and put together they are the text.
LEMMA PiecesAre ==
  ASSUME NEW text \in Text, text # <<>>, NEW c \in Pieces(text)
  PROVE  ArePieces(text, c)
<1>1. PICK n \in Nat : n = Len(text) /\ n > 0
  BY DEF Text
<1>2. PICK ends :
        /\ \E cuts \in SUBSET (1 .. n - 1) : ends = Ascending(cuts \cup {n})
        /\ c = [k \in 1 .. Len(ends) |->
                  Characters(SubSeq(text, IF k = 1 THEN 1 ELSE ends[k - 1] + 1, ends[k]))]
  BY <1>1 DEF Pieces
<1>3. PICK m \in Nat : AreEnds(ends, m, n)
  BY <1>1, <1>2, EndsAre
<1>4. m > 0 /\ Len(ends) = m
  BY <1>3 DEF AreEnds
<1> DEFINE from(k) == EndOf(ends, k - 1)
<1>5. ASSUME NEW k \in 1 .. m
      PROVE  /\ from(k) \in 0 .. n /\ ends[k] \in 0 .. n /\ from(k) <= ends[k]
             /\ c[k] = Characters(SubSeq(text, from(k) + 1, ends[k]))
  <2>1. from(k) \in 0 .. n /\ ends[k] \in 0 .. n /\ from(k) <= ends[k]
    BY <1>3 DEF AreEnds
  <2>2. (IF k = 1 THEN 1 ELSE ends[k - 1] + 1) = from(k) + 1
    BY DEF EndOf
  <2>3. c[k] = Characters(SubSeq(text, IF k = 1 THEN 1 ELSE ends[k - 1] + 1, ends[k]))
    BY <1>2, <1>4
  <2>4. QED
    BY <2>1, <2>2, <2>3
<1> HIDE DEF from
<1>6. ASSUME NEW k \in 1 .. m
      PROVE  /\ SubSeq(text, from(k) + 1, ends[k]) \in Text
             /\ SubSeq(text, 1, from(k)) \o SubSeq(text, from(k) + 1, ends[k]) = SubSeq(text, 1, ends[k])
  BY <1>1, <1>5, PieceFollows
<1>7. ASSUME NEW k \in 1 .. m
      PROVE  /\ c[k] \in EventSet /\ c[k].ev = "text"
             /\ c[k].text = SubSeq(text, from(k) + 1, ends[k])
  <2>1. PICK piece \in Text : piece = SubSeq(text, from(k) + 1, ends[k])
    BY <1>6
  <2>2. c[k] = Characters(piece)
    BY <1>5, <2>1
  <2>3. QED
    BY <2>1, <2>2, CharactersAre
<1>8. c \in Seq(EventSet) /\ Len(c) = m
  <2>1. DOMAIN c = 1 .. m /\ c = [k \in 1 .. m |-> c[k]]
    BY <1>2, <1>4
  <2>2. QED
    BY <1>7, <2>1
<1>9. PICK W : W = Writing(c)
  OBVIOUS
<1>10. /\ WrittenBack(c) = W[m] /\ W[0] = <<>>
       /\ \A j \in 1 .. m : W[j] = W[j - 1] \o Written(c[j])
  BY <1>8, <1>9, WritingIs
<1>11. \A k \in 1 .. m : Written(c[k]) = SubSeq(text, from(k) + 1, ends[k])
  BY <1>7, WrittenIsText
<1> DEFINE Together == {j \in Nat : j <= m => W[j] = SubSeq(text, 1, EndOf(ends, j))}
<1>12. 0 \in Together
  <2>1. SubSeq(text, 1, 0) = <<>>
    BY DEF Text
  <2>2. QED
    BY <1>10, <2>1 DEF EndOf
<1>13. ASSUME NEW j \in Nat, j \in Together PROVE j + 1 \in Together
  <2> SUFFICES ASSUME j + 1 <= m PROVE W[j + 1] = SubSeq(text, 1, EndOf(ends, j + 1))
    OBVIOUS
  <2>1. PICK k \in 1 .. m : k = j + 1 /\ k - 1 = j /\ k # 0
    OBVIOUS
  <2>2. W[j] = SubSeq(text, 1, from(k))
    BY <1>13, <2>1 DEF from
  <2>3. W[k] = W[j] \o SubSeq(text, from(k) + 1, ends[k])
    BY <1>10, <1>11, <2>1
  <2>4. W[k] = SubSeq(text, 1, ends[k])
    BY <1>6, <2>2, <2>3
  <2>5. QED
    BY <2>1, <2>4 DEF EndOf
<1>14. Nat \subseteq Together
  <2> HIDE DEF Together
  <2>1. QED
    BY <1>12, <1>13, Induction
<1>15. ends[m] = n /\ EndOf(ends, m) = n
  BY <1>3, <1>4 DEF AreEnds, EndOf
<1>16. SubSeq(text, 1, n) = text
  BY <1>1, SubSeqFull DEF Text
<1>17. WrittenBack(c) = text
  <2>1. m \in Together /\ m <= m
    BY <1>14
  <2>2. W[m] = SubSeq(text, 1, EndOf(ends, m))
    BY <2>1
  <2>3. QED
    BY <1>10, <1>15, <1>16, <2>2
<1>18. m = 1 => c[1].text = text
  <2> SUFFICES ASSUME m = 1 PROVE c[1].text = text
    OBVIOUS
  <2>1. from(1) = 0 /\ 1 \in 1 .. m /\ ends[1] = n
    BY <1>15 DEF from, EndOf
  <2>2. c[1].text = SubSeq(text, from(1) + 1, ends[1])
    BY <1>7, <2>1
  <2>3. c[1].text = SubSeq(text, 0 + 1, n)
    BY <2>1, <2>2
  <2>4. QED
    BY <1>16, <2>3
<1>19. QED
  BY <1>4, <1>7, <1>8, <1>17, <1>18 DEF ArePieces

\* Contents that are not markup: the pieces of an argument, or of what is left
\* of it before an error.
IsPlain(p, arg, c) ==
  /\ c \in Seq(EventSet) /\ Len(c) > 0
  /\ \A j \in 1 .. Len(c) : c[j].ev = "text" \/ (c[j] = Malformed /\ j = Len(c))
  /\ c[Len(c)] # Malformed =>
       /\ p.type \in Texts => WrittenBack(c) = arg
       /\ Len(c) = 1 => c[1].text = IF p.type \in Texts THEN arg ELSE Numeral(arg)

\* They are markup without tags.
LEMMA PlainIsMarkup ==
  ASSUME NEW p, NEW arg, NEW c, IsPlain(p, arg, c)
  PROVE  IsMarkup(c)
<1>1. PICK n \in Nat : n = Len(c)
  BY DEF IsPlain
<1>2. \A j \in 1 .. n : c[j].ev \notin {"start", "end"}
  BY <1>1, CharactersAre DEF IsPlain
<1> DEFINE Flat == {j \in Nat : j <= n => Depth(c, j) = 0}
<1>3. 0 \in Flat
  BY DepthIs
<1>4. ASSUME NEW j \in Nat, j \in Flat PROVE j + 1 \in Flat
  <2> SUFFICES ASSUME j + 1 <= n PROVE Depth(c, j + 1) = 0
    OBVIOUS
  <2>1. j + 1 \in 1 .. n /\ Depth(c, j) = 0
    BY <1>4
  <2>2. QED
    BY <1>2, <2>1, DepthIs
<1>5. Nat \subseteq Flat
  <2> HIDE DEF Flat
  <2>1. QED
    BY <1>3, <1>4, Induction
<1>6. \A j \in 0 .. n : Depth(c, j) = 0
  BY <1>5
<1>7. \A j \in 1 .. n : c[j] = Malformed => j = n
  BY <1>1, CharactersAre DEF IsPlain
<1>8. QED
  BY <1>1, <1>6, <1>7 DEF IsMarkup, IsPlain

\* The text a client writes in a CDATA section.
LEMMA CdataIs ==
  ASSUME NEW v \in Text, v # <<>>, NEW c \in Cdata(v)
  PROVE  \/ ArePieces(v, c)
         \/ c = <<Malformed>>
         \/ \E w \in Text : \E d : ArePieces(w, d) /\ c = Append(d, Malformed)
<1> DEFINE ends == {k \in 1 .. Len(v) : v[k] = "]]>"}
<1>1. CASE ends = {}
  BY <1>1, PiecesAre DEF Cdata
<1>2. CASE ends # {} /\ Min(ends) = 1
  BY <1>2 DEF Cdata
<1>3. CASE ends # {} /\ Min(ends) # 1
  <2>1. PICK m : m = Min(ends)
    OBVIOUS
  <2>2. m \in 1 .. Len(v)
    <3>1. ends \in SUBSET (1 .. Len(v)) /\ Len(v) \in Nat
      BY DEF Text
    <3> HIDE DEF ends
    <3>2. PICK n \in Nat : n = Len(v)
      BY <3>1
    <3>3. Min(ends) \in ends
      BY <1>3, <3>1, <3>2, MinimumExists
    <3>4. QED
      BY <2>1, <3>1, <3>3
  <2>3. PICK l \in 0 .. Len(v) : l = m - 1 /\ l # 0
    <3>1. m # 1 /\ Len(v) \in Nat
      BY <1>3, <2>1 DEF Text
    <3> HIDE DEF ends
    <3>2. QED
      BY <2>2, <3>1
  <2>4. PICK w \in Text : w = SubSeq(v, 1, l) /\ Len(w) = l
    BY Split
  <2>5. w # <<>>
    BY <2>3, <2>4
  <2>6. c \in {Append(events, Malformed) : events \in Pieces(w)}
    BY <1>3, <2>1, <2>3, <2>4 DEF Cdata
  <2>7. PICK d \in Pieces(w) : c = Append(d, Malformed)
    BY <2>6
  <2>8. ArePieces(w, d)
    BY <2>5, PiecesAre
  <2>9. QED
    BY <2>7, <2>8
<1>4. QED
  BY <1>1, <1>2, <1>3

\* Pieces are plain contents, before an error too.
LEMMA PiecesArePlain ==
  ASSUME NEW p, p.type \in Texts, NEW arg \in Text, NEW c,
         \/ ArePieces(arg, c)
         \/ c = <<Malformed>>
         \/ \E w \in Text : \E d : ArePieces(w, d) /\ c = Append(d, Malformed)
  PROVE  IsPlain(p, arg, c)
<1>1. Malformed \in EventSet
  BY CharactersAre
<1>2. CASE ArePieces(arg, c)
  BY <1>2 DEF ArePieces, IsPlain
<1>3. CASE c = <<Malformed>>
  <2>1. c \in Seq(EventSet) /\ Len(c) = 1 /\ c[1] = Malformed
    BY <1>1, <1>3
  <2>2. QED
    BY <2>1 DEF IsPlain
<1>4. CASE \E w \in Text : \E d : ArePieces(w, d) /\ c = Append(d, Malformed)
  <2>1. PICK d : (\E w \in Text : ArePieces(w, d)) /\ c = Append(d, Malformed)
    BY <1>4
  <2>2. PICK n \in Nat : n = Len(d) /\ d \in Seq(EventSet) /\ \A j \in 1 .. n : d[j].ev = "text"
    BY <2>1 DEF ArePieces
  <2>3. /\ c \in Seq(EventSet) /\ Len(c) = n + 1 /\ c[n + 1] = Malformed
        /\ \A j \in 1 .. n : c[j] = d[j]
    BY <1>1, <2>1, <2>2
  <2>4. QED
    BY <2>2, <2>3 DEF IsPlain
<1>5. QED
  BY <1>2, <1>3, <1>4

\* The pieces of a numeral.
LEMMA NumeralIsPlain ==
  ASSUME NEW p, p.type \notin Texts, NEW arg \in Number, IsDivided(Digits[arg], Seq(Char)),
         NEW texts \in {<<Numeral(arg)>>} \cup Digits[arg]
  PROVE  IsPlain(p, arg, InPieces(texts))
<1>1. /\ texts \in Seq(Text) /\ Len(texts) > 0
      /\ Len(texts) = 1 => texts[1] = Numeral(arg)
  <2>1. CASE texts = <<Numeral(arg)>>
    BY <2>1, NumeralIsText
  <2>2. CASE texts \in Digits[arg]
    <3>1. texts \in Seq(Text) /\ Len(texts) > 1
      BY <2>2 DEF IsDivided, Text
    <3>2. PICK l \in Nat : l = Len(texts) /\ l > 0 /\ l # 1
      BY <3>1
    <3>3. QED
      BY <3>1, <3>2
  <2>3. QED
    BY <2>1, <2>2
<1>2. PICK c : c = InPieces(texts)
  OBVIOUS
<1>3. PICK n \in Nat : n = Len(texts)
  BY <1>1
<1>4. c = [k \in 1 .. n |-> Characters(texts[k])]
  BY <1>2, <1>3 DEF InPieces
<1>5. \A k \in 1 .. n : texts[k] \in Text /\ c[k] = Characters(texts[k])
  BY <1>1, <1>3, <1>4
<1>6. \A k \in 1 .. n : c[k] \in EventSet /\ c[k].ev = "text" /\ c[k].text = texts[k]
  BY <1>5, CharactersAre
<1>7. c \in Seq(EventSet) /\ Len(c) = n
  BY <1>4, <1>6
<1>8. QED
  BY <1>1, <1>2, <1>3, <1>6, <1>7 DEF IsPlain

\* What a parser may find in an argument is markup, and for one that is not XML in
\* SOAP the text of the argument in pieces.
LEMMA ContentIs ==
  ASSUME NEW protocol \in Protocol, NEW p, p.type \in Type \ {"VOID"}, NEW arg \in Passed(p.type),
         p.type = "XML" => \A events \in Markup[arg] : IsMarkup(events),
         p.type \notin Texts => IsDivided(Digits[arg], Seq(Char)),
         p.type \in Texts => arg # <<>>,
         NEW c \in Content(protocol, p, arg)
  PROVE  /\ IsMarkup(c)
         /\ (p.type = "XML" /\ protocol = "SOAP") \/ IsPlain(p, arg, c)
<1>1. CASE p.type = "XML" /\ protocol = "SOAP"
  BY <1>1 DEF Content, Texts
<1>2. CASE ~(p.type = "XML" /\ protocol = "SOAP")
  <2>1. IsPlain(p, arg, c)
    <3>1. CASE p.type \in {"INT", "LONG"}
      <4>1. arg \in Number
        BY <3>1 DEF Passed, ValueOf, Texts
      <4>2. c \in {InPieces(texts) : texts \in {<<Numeral(arg)>>} \cup Digits[arg]}
        BY <3>1 DEF Content
      <4>3. p.type \notin Texts
        BY <3>1 DEF Texts
      <4>4. QED
        BY <4>1, <4>2, <4>3, NumeralIsPlain
    <3>2. CASE p.type \in Texts
      <4>1. arg \in Text
        BY <3>2 DEF Passed, ValueOf, Texts, Text
      <4>2. c \in Pieces(arg) \/ c \in Cdata(arg)
        BY <1>2, <3>2 DEF Content, Texts, Protocol
      <4>3. QED
        BY <3>2, <4>1, <4>2, CdataIs, PiecesAre, PiecesArePlain
    <3>3. QED
      BY <3>1, <3>2 DEF Type, Texts
  <2>2. QED
    BY <1>2, <2>1, PlainIsMarkup
<1>3. QED
  BY <1>1, <1>2

\* The tags around an argument, and the level of the first of them.
Tags(protocol) == IF protocol = "SOAP" THEN 1 ELSE 3
Base(protocol) == IF protocol = "SOAP" THEN 3 ELSE 2

\* Each protocol has its number of tags around an argument.
LEMMA TagIs ==
  ASSUME NEW protocol \in Protocol, NEW p
  PROVE  /\ Tags(protocol) \in 1 .. 3 /\ Base(protocol) \in 2 .. 3
         /\ Len(Before(protocol, p)) = Tags(protocol) /\ Len(Behind(protocol, p)) = Tags(protocol)
         /\ \A e \in 1 .. Tags(protocol) :
              Before(protocol, p)[e].ev = "start" /\ Behind(protocol, p)[e].ev = "end"
         /\ protocol = "SOAP" => Before(protocol, p)[1].name = p.name
         /\ protocol = "XMLRPC" => Before(protocol, p)[3].name = XmlrpcType[p.type]
<1>1. CASE protocol = "SOAP"
  BY <1>1 DEF Tags, Base, Before, Behind, Start, End
<1>2. CASE protocol = "XMLRPC"
  BY <1>2 DEF Tags, Base, Before, Behind, Start, End
<1>3. QED
  BY <1>1, <1>2 DEF Protocol

\* Where the events of an argument are.
LEMMA ArgumentEvents ==
  ASSUME NEW protocol \in Protocol, NEW p, NEW c \in Seq(EventSet)
  PROVE  /\ Len(Argument(protocol, p, c)) = 2 * Tags(protocol) + Len(c)
         /\ \A e \in 1 .. Tags(protocol) : Argument(protocol, p, c)[e] = Before(protocol, p)[e]
         /\ \A j \in 1 .. Len(c) : Argument(protocol, p, c)[Tags(protocol) + j] = c[j]
         /\ \A e \in 1 .. Tags(protocol) :
              Argument(protocol, p, c)[Tags(protocol) + Len(c) + e] = Behind(protocol, p)[e]
<1>1. PICK b : b = Before(protocol, p)
  OBVIOUS
<1>2. PICK d : d = Behind(protocol, p)
  OBVIOUS
<1>3. PICK t \in 1 .. 3 : t = Tags(protocol)
  BY TagIs
<1> DEFINE S == EventSet \cup {b[1], b[2], b[3], d[1], d[2], d[3]}
<1>4. b \in Seq(S) /\ d \in Seq(S) /\ c \in Seq(S) /\ Len(b) = t /\ Len(d) = t
  <2>1. CASE protocol = "SOAP"
    BY <1>1, <1>2, <1>3, <2>1 DEF Before, Behind, Tags
  <2>2. CASE protocol = "XMLRPC"
    BY <1>1, <1>2, <1>3, <2>2 DEF Before, Behind, Tags
  <2>3. QED
    BY <2>1, <2>2 DEF Protocol
<1> HIDE DEF S
<1>5. PICK u : u = b \o c
  OBVIOUS
<1>6. /\ u \in Seq(S) /\ Len(u) = t + Len(c) /\ Len(c) \in Nat
      /\ \A i \in 1 .. t + Len(c) : u[i] = IF i <= t THEN b[i] ELSE c[i - t]
  BY <1>4, <1>5, ConcatProperties
<1>7. PICK a : a = u \o d
  OBVIOUS
<1>8. /\ Len(a) = 2 * t + Len(c)
      /\ \A i \in 1 .. 2 * t + Len(c) : a[i] = IF i <= t + Len(c) THEN u[i] ELSE d[i - (t + Len(c))]
  BY <1>4, <1>6, <1>7, ConcatProperties
<1>9. Argument(protocol, p, c) = a
  BY <1>1, <1>2, <1>5, <1>7, Zenon DEF Argument
<1>10. PICK n \in Nat : n = Len(c)
  BY <1>6
<1>11. ASSUME NEW e \in 1 .. t PROVE a[e] = b[e] /\ a[t + n + e] = d[e]
  <2>1. e \in 1 .. 2 * t + n /\ e \in 1 .. t + n /\ e <= t + n /\ e <= t
    OBVIOUS
  <2>2. PICK i \in 1 .. 2 * t + n : i = t + n + e /\ ~(i <= t + n) /\ i - (t + n) = e
    OBVIOUS
  <2>3. QED
    BY <1>6, <1>8, <1>10, <2>1, <2>2
<1>12. ASSUME NEW j \in 1 .. n PROVE a[t + j] = c[j]
  <2>1. PICK i \in 1 .. t + n : i = t + j /\ ~(i <= t) /\ i - t = j /\ i <= t + n /\ i \in 1 .. 2 * t + n
    OBVIOUS
  <2>2. QED
    BY <1>6, <1>8, <1>10, <2>1
<1>13. QED
  BY <1>1, <1>2, <1>3, <1>8, <1>9, <1>10, <1>11, <1>12

HasParts(d, r) ==
  /\ DOMAIN d = 1 .. Len(In(r.function)) + 2
  /\ d[1] = Opening(r)
  /\ d[Len(In(r.function)) + 2] = Closing(r)
  /\ \A k \in 1 .. Len(In(r.function)) :
       d[k + 1] = Argument(r.protocol, ArgumentOf(r.function, k), r.contents[k])

\* The parts of a document.
LEMMA DocumentParts ==
  ASSUME NEW r, r.function \in Function
  PROVE  HasParts(Document(r), r)
<1>0. PICK n \in Nat : n = Len(In(r.function))
  BY ArgumentIs
<1>1. Document(r) =
        [part \in 1 .. Len(In(r.function)) + 2 |->
         CASE part = 1 -> Opening(r)
           [] part = Len(In(r.function)) + 2 -> Closing(r)
           [] OTHER -> Argument(r.protocol, ArgumentOf(r.function, part - 1), r.contents[part - 1])]
  BY DEF Document
<1>2. ASSUME NEW k \in 1 .. n
      PROVE  Document(r)[k + 1] = Argument(r.protocol, ArgumentOf(r.function, k), r.contents[k])
  <2>1. PICK i \in 1 .. n + 2 : i = k + 1 /\ i # 1 /\ i # n + 2 /\ i - 1 = k
    OBVIOUS
  <2>2. QED
    BY <1>0, <1>1, <2>1
<1>3. QED
  BY <1>0, <1>1, <1>2 DEF HasParts

\* Contents has for each argument one of its contents.
LEMMA FoundIs ==
  ASSUME NEW protocol, NEW f, NEW args, NEW contents \in Contents(protocol, f, args), NEW k \in 1 .. Len(In(f))
  PROVE  contents[k] \in Content(protocol, ArgumentOf(f, k), args[k])
BY DEF Contents

-----------------------------------------------------------------------------
(* The table of a function.                                                *)

\* num after k arguments were found.
Pointer(f, k) == IF k = 0 THEN 0 ELSE In(f)[k]

\* Behind argument k - 1 the next one a callback finds is argument k.
LEMMA NextIs ==
  ASSUME NEW f \in Function, NEW k \in 1 .. Len(In(f)), NEW n, n = Pointer(f, k - 1)
  PROVE  /\ {i \in ToSet(In(f)) : i > n} # {}
         /\ Min({i \in ToSet(In(f)) : i > n}) = In(f)[k]
<1>1. PICK s : s = In(f)
  OBVIOUS
<1>2. PICK c \in Nat : c = Len(s)
  BY <1>1, ArgumentIs
<1>3. Len(Params[f]) \in Nat /\ InSet(f) \in SUBSET (1 .. Len(Params[f])) /\ s = Ascending(InSet(f))
  BY <1>1, Travelling DEF Index
<1>4. Ascends(s, InSet(f))
  BY <1>3, AscendingAscends
<1>5. s \in [1 .. Cardinality(InSet(f)) -> InSet(f)] /\ Cardinality(InSet(f)) = c
  <2>1. IsFiniteSet(InSet(f))
    BY <1>3, PartIsFinite
  <2>2. Cardinality(InSet(f)) \in Nat
    BY <2>1, FS_CardinalityType
  <2>3. QED
    BY <1>2, <1>4, <2>2 DEF Ascends
<1>6. /\ \A a, b \in 1 .. c : a < b => s[a] < s[b]
      /\ \A a \in 1 .. c : s[a] \in Nat /\ s[a] > 0
      /\ DOMAIN s = 1 .. c
  <2>1. \A i \in InSet(f) : i \in Nat /\ i > 0
    BY <1>3
  <2>2. QED
    BY <1>4, <1>5, <2>1 DEF Ascends
<1>7. PICK l \in 1 .. c : l = k
  BY <1>1, <1>2
<1>8. n = IF l = 1 THEN 0 ELSE s[l - 1]
  BY <1>1, <1>7 DEF Pointer
<1> DEFINE left == {i \in ToSet(s) : i > n}
<1>9. s[l] \in left
  <2>1. s[l] \in ToSet(s)
    BY <1>6 DEF ToSet
  <2>2. s[l] > n
    <3>1. CASE l = 1
      BY <1>6, <1>8, <3>1
    <3>2. CASE l # 1
      <4>1. PICK m \in 1 .. c : m = l - 1 /\ m < l
        BY <3>2
      <4>2. s[m] < s[l] /\ n = s[m]
        BY <1>6, <1>8, <3>2, <4>1
      <4>3. QED
        BY <1>6, <4>2
    <3>3. QED
      BY <3>1, <3>2
  <2>3. QED
    BY <2>1, <2>2
<1>10. \A i \in left : s[l] <= i /\ i \in Nat
  <2> SUFFICES ASSUME NEW i \in ToSet(s), i > n PROVE s[l] <= i /\ i \in Nat
    OBVIOUS
  <2>1. PICK m \in 1 .. c : s[m] = i
    BY <1>6 DEF ToSet
  <2>2. ~(m < l)
    <3> SUFFICES ASSUME m < l PROVE FALSE
      OBVIOUS
    <3>1. PICK q \in 1 .. c : q = l - 1 /\ l # 1
      OBVIOUS
    <3>2. s[m] <= s[q]
      BY <1>6, <3>1
    <3>3. QED
      BY <1>6, <1>8, <2>1, <3>1, <3>2
  <2>3. m = l \/ l < m
    BY <2>2
  <2>4. QED
    BY <1>6, <2>1, <2>3
<1>11. Min(left) = s[l]
  <2> HIDE DEF left
  <2>1. ASSUME NEW x \in left, \A y \in left : x <= y PROVE x = s[l]
    <3>1. x <= s[l] /\ s[l] <= x /\ x \in Nat /\ s[l] \in Nat
      BY <1>9, <1>10, <2>1
    <3>2. QED
      BY <3>1
  <2>2. s[l] \in left /\ \A y \in left : s[l] <= y
    BY <1>9, <1>10
  <2>3. QED
    BY <2>1, <2>2 DEF Min
<1>12. QED
  BY <1>1, <1>7, <1>9, <1>11

-----------------------------------------------------------------------------
(* Calls.                                                                  *)

IsCall(r) ==
  /\ r.protocol \in Protocol /\ r.function \in Function
  /\ r.name \in Names(r.protocol, r.function)
  /\ r.args \in Calls[r.function]
  /\ r.contents \in Contents(r.protocol, r.function, r.args)
  /\ \A k \in DOMAIN r.args : ~Raises(r.protocol, ArgumentOf(r.function, k), r.args[k])

\* The callbacks can find the function: the listener knows it, and its name is
\* reported in one piece.
Findable(r) == r.function \in Registered /\ ~(Len(r.name) > 1)

\* The name of a function is one piece, or the last one is no function.
IsName(r) ==
  /\ Len(r.name) \in Nat /\ Len(r.name) > 0
  /\ Len(r.name) = 1 => r.name[1] = r.function
  /\ Len(r.name) # 1 => r.protocol = "XMLRPC" /\ r.name[Len(r.name)] \notin Registered

\* So it is in every call.
LEMMA NameIs ==
  ASSUME NEW r, IsCall(r)
  PROVE  IsName(r)
<1>1. PICK f \in Function : f = r.function
  BY DEF IsCall
<1>2. PICK name : name = r.name
  OBVIOUS
<1>3. name = <<f>> \/ (r.protocol = "XMLRPC" /\ name \in NamePieces[f])
  BY <1>1, <1>2 DEF IsCall, Names
<1>4. CASE name = <<f>>
  <2>1. Len(name) = 1 /\ name[1] = f
    BY <1>4
  <2>2. QED
    BY <1>1, <1>2, <2>1 DEF IsName
<1>5. CASE r.protocol = "XMLRPC" /\ name \in NamePieces[f]
  <2>1. name \in Seq(Char) /\ Len(name) > 1 /\ name[Len(name)] \notin Registered
    BY <1>5, XmlAssumption DEF IsDivided, Last
  <2>2. PICK n \in Nat : n = Len(name)
    BY <2>1
  <2>3. n > 0 /\ n # 1
    BY <2>1, <2>2
  <2>4. QED
    BY <1>2, <1>5, <2>1, <2>2, <2>3 DEF IsName
<1>6. QED
  BY <1>3, <1>4, <1>5

\* Arguments of a call have the types of their parameters, and contents theirs.
LEMMA CallIs ==
  ASSUME NEW r, IsCall(r), NEW k \in 1 .. Len(In(r.function))
  PROVE  /\ ArgumentOf(r.function, k).type \in Type \ {"VOID"}
         /\ r.args[k] \in Passed(ArgumentOf(r.function, k).type)
         /\ ~Raises(r.protocol, ArgumentOf(r.function, k), r.args[k])
         /\ IsMarkup(r.contents[k])
         /\ \/ ArgumentOf(r.function, k).type = "XML" /\ r.protocol = "SOAP"
            \/ IsPlain(ArgumentOf(r.function, k), r.args[k], r.contents[k])
<1>1. PICK f \in Function : f = r.function
  BY DEF IsCall
<1>2. PICK args \in Calls[f] : args = r.args
  BY <1>1 DEF IsCall
<1>3. In(f)[k] \in Index(f) /\ ArgumentOf(f, k).type \in Type \ {"VOID"}
  BY <1>1, ArgumentIs DEF ArgumentOf
<1>4. DOMAIN In(f) = 1 .. Len(In(f))
  <2>1. Len(Params[f]) \in Nat /\ InSet(f) \in SUBSET (1 .. Len(Params[f])) /\ In(f) = Ascending(InSet(f))
    BY Travelling DEF Index
  <2>2. In(f) \in Seq(InSet(f))
    BY <2>1, Visited
  <2>3. QED
    BY <2>2
<1>5. k \in DOMAIN args /\ DOMAIN args = DOMAIN In(f)
  BY <1>1, <1>2, <1>4, XmlAssumption
<1>6. /\ args[k] \in Passed(ArgumentOf(f, k).type)
      /\ ArgumentOf(f, k).type = "XML" => \A events \in Markup[args[k]] : IsMarkup(events)
      /\ ArgumentOf(f, k).type \notin Texts => IsDivided(Digits[args[k]], Seq(Char))
  BY <1>5, XmlAssumption
<1>7. PICK contents \in Contents(r.protocol, f, args) : contents = r.contents
  BY <1>1, <1>2 DEF IsCall
<1>8. contents[k] \in Content(r.protocol, ArgumentOf(f, k), args[k])
  BY <1>1, FoundIs
<1>9. r.protocol \in Protocol /\ ~Raises(r.protocol, ArgumentOf(f, k), args[k])
  BY <1>1, <1>2, <1>5 DEF IsCall
<1>10. ArgumentOf(f, k).type \in Texts => args[k] # <<>>
  BY <1>9 DEF Raises
<1>11. /\ IsMarkup(contents[k])
       /\ \/ ArgumentOf(f, k).type = "XML" /\ r.protocol = "SOAP"
          \/ IsPlain(ArgumentOf(f, k), args[k], contents[k])
  BY <1>3, <1>6, <1>8, <1>9, <1>10, ContentIs
<1>12. QED
  BY <1>1, <1>2, <1>3, <1>6, <1>7, <1>9, <1>11

\* What is left of an argument after the first j events of its content: of an
\* XML text as much as was written back, if all of it fits, of another one the
\* last piece.
Partial(p, c, j, value) ==
  IF p.type = "XML"
  THEN Bytes(WrittenBack(c)) < p.size => value = Writing(c)[j]
  ELSE value = IF j = 0 THEN NoData(p) ELSE Read(p, c[j].text)

\* An argument whose buffer was nullified has arrived as far as no event.
LEMMA PartialBegins ==
  ASSUME NEW p, NEW c, IsMarkup(c)
  PROVE  Partial(p, c, 0, NoData(p))
<1>1. Writing(c)[0] = <<>>
  BY WritingIs DEF IsMarkup
<1>2. QED
  BY <1>1 DEF Partial, NoData, Texts

\* After its last event an argument has arrived.
LEMMA PartialEnds ==
  ASSUME NEW protocol \in Protocol, NEW p, p.type \in Type \ {"VOID"}, p.size \in Nat,
         NEW arg \in Passed(p.type), ~Raises(protocol, p, arg),
         NEW c, IsMarkup(c), Len(c) > 0 => c[Len(c)] # Malformed,
         (p.type = "XML" /\ protocol = "SOAP") \/ IsPlain(p, arg, c),
         NEW value, Partial(p, c, Len(c), value)
  PROVE  Arrives(protocol, p, arg, c, value)
<1>1. CASE p.type = "XML"
  <2>1. Bytes(WrittenBack(c)) < p.size => value = WrittenBack(c)
    <3>1. WrittenBack(c) = Writing(c)[Len(c)]
      BY WritingIs DEF IsMarkup
    <3>2. QED
      BY <1>1, <3>1 DEF Partial
  <2>2. ASSUME protocol = "XMLRPC" PROVE value = arg
    <3>1. IsPlain(p, arg, c) /\ p.type \in Texts
      BY <1>1, <2>2 DEF Texts
    <3>2. WrittenBack(c) = arg
      BY <3>1 DEF IsPlain
    <3>3. PICK argument \in Text : argument = arg
      BY <1>1 DEF Passed, ValueOf, Texts, Text
    <3>4. ~(Bytes(argument) > p.size - 1)
      BY <1>1, <3>3 DEF Raises
    <3>5. Bytes(argument) < p.size
      BY <3>4, BytesType
    <3>6. QED
      BY <2>1, <3>2, <3>3, <3>5
  <2>3. QED
    BY <1>1, <2>1, <2>2 DEF Arrives
<1>2. CASE p.type # "XML"
  <2>1. IsPlain(p, arg, c) /\ Len(c) \in Nat /\ Len(c) > 0
    BY <1>2 DEF IsPlain
  <2>2. value = Read(p, c[Len(c)].text) /\ Last(c) = c[Len(c)]
    BY <1>2, <2>1 DEF Partial, Last
  <2>3. ASSUME Len(c) = 1 PROVE value = IF p.type = "INT" THEN ToInt(arg) ELSE arg
    <3>1. c[1].text = (IF p.type \in Texts THEN arg ELSE Numeral(arg)) /\ value = Read(p, c[1].text)
      BY <2>1, <2>2, <2>3 DEF IsPlain
    <3>2. CASE p.type \in Texts
      <4>1. value = arg /\ p.type # "INT"
        BY <3>1, <3>2 DEF Texts, Read
      <4>2. QED
        BY <4>1
    <3>3. CASE p.type \in {"INT", "LONG"}
      <4>1. arg \in Number /\ p.type \notin Texts
        BY <3>3 DEF Passed, ValueOf, Texts
      <4>2. Strtol(Numeral(arg)) = arg
        BY <4>1, NumeralIsRead
      <4>3. value = Read(p, Numeral(arg))
        BY <3>1, <4>1
      <4>4. QED
        BY <3>3, <4>2, <4>3 DEF Read
    <3>4. QED
      BY <3>2, <3>3 DEF Type, Texts
  <2>4. QED
    BY <1>2, <2>2, <2>3 DEF Arrives
<1>3. QED
  BY <1>1, <1>2

\* A tag or characters of an XML argument follow what was written back.
LEMMA AppendGoesOn ==
  ASSUME NEW p, p.type = "XML", p.size \in Nat, NEW c, IsMarkup(c), NEW j \in 1 .. Len(c),
         NEW value, Holds(p, value), Partial(p, c, j - 1, value),
         NEW next, \/ next = Snprintf(p, value, Written(c[j]))
                   \/ next = value \o Written(c[j])
  PROVE  Partial(p, c, j, next)
<1> SUFFICES ASSUME Bytes(WrittenBack(c)) < p.size PROVE next = Writing(c)[j]
  BY DEF Partial
<1>1. c \in Seq(EventSet) /\ c[j] \in EventSet /\ Len(c) \in Nat
  BY DEF IsMarkup
<1>2. PICK w \in Text : w = Written(c[j])
  BY <1>1, WrittenIsText
<1>3. value = Writing(c)[j - 1] /\ value \in Text
  BY DEF Partial, Holds, Texts
<1>4. Writing(c)[j] = value \o w
  BY <1>1, <1>2, <1>3, WritingIs
<1>5. Bytes(value \o w) = Bytes(value) + Bytes(w) /\ Bytes(value) \in Nat /\ Bytes(w) \in Nat
  BY <1>2, <1>3, BytesAddUp, BytesType
<1>6. Bytes(value \o w) < p.size
  <2>1. j \in 0 .. Len(c)
    BY <1>1
  <2>2. Bytes(Writing(c)[j]) <= Bytes(WrittenBack(c))
    BY <1>1, <2>1, WritingFits
  <2>3. PICK all \in Text : all = WrittenBack(c)
    <3>1. PICK n \in Nat : n = Len(c) /\ n \in 0 .. n
      BY <1>1
    <3>2. WrittenBack(c) = Writing(c)[n] /\ Writing(c)[n] \in Text
      BY <1>1, <3>1, WritingIs
    <3>3. QED
      BY <3>2
  <2>4. Bytes(all) \in Nat
    BY BytesType
  <2>5. QED
    BY <1>4, <1>5, <2>2, <2>3, <2>4
<1>7. PICK room \in Nat : room = p.size - 1 - Bytes(value) /\ Bytes(w) <= room
  BY <1>5, <1>6
<1>8. Cut(w, room) = w
  BY <1>7, CutOfShort
<1>9. QED
  BY <1>2, <1>4, <1>7, <1>8 DEF Snprintf

\* Characters replace what was stored of an argument that is no XML text.
LEMMA StoreArrives ==
  ASSUME NEW p, p.type \in Type \ {"VOID", "XML"}, NEW c, NEW j \in 1 .. Len(c), NEW value,
         SetParameter(p, value, c[j].text).error = "OK"
  PROVE  Partial(p, c, j, SetParameter(p, value, c[j].text).data)
<1>1. PICK stored : stored = SetParameter(p, value, c[j].text)
  OBVIOUS
<1>2. stored.error = "OK" /\ j # 0 /\ p.type # "XML"
  BY <1>1
<1>3. CASE p.type \in {"STRING", "DATE"}
  <2>1. stored.data = c[j].text
    BY <1>1, <1>2, <1>3 DEF SetParameter, Stored
  <2>2. QED
    BY <1>1, <1>2, <1>3, <2>1 DEF Partial, Read
<1>4. CASE p.type = "INT"
  BY <1>1, <1>2, <1>4 DEF SetParameter, Stored, Partial, Read
<1>5. CASE p.type = "LONG"
  BY <1>1, <1>2, <1>5 DEF SetParameter, Stored, Partial, Read
<1>6. QED
  BY <1>3, <1>4, <1>5 DEF Type

-----------------------------------------------------------------------------
(* Buffers.                                                                *)

Buffers(d) ==
  /\ d = [f \in Registered |-> [i \in Index(f) |-> d[f][i]]]
  /\ \A f \in Registered : \A i \in Index(f) : Holds(Params[f][i], d[f][i])

BufferOf(f, b) ==
  /\ b = [i \in Index(f) |-> b[i]]
  /\ \A i \in Index(f) : Holds(Params[f][i], b[i])
IsFilled(e, d, f, b) == e = [d EXCEPT ![f] = b]

\* All buffers of a function are replaced by others that fit.
LEMMA BuffersFilled ==
  ASSUME NEW d, Buffers(d), NEW f \in Registered, NEW b, BufferOf(f, b), NEW e, IsFilled(e, d, f, b)
  PROVE  Buffers(e) /\ e[f] = b
<1>1. DOMAIN d = Registered /\ DOMAIN e = Registered
  BY DEF Buffers, IsFilled
<1>2. e[f] = b /\ \A g \in Registered : g # f => e[g] = d[g]
  BY <1>1 DEF IsFilled
<1>3. \A g \in Registered : e[g] = [i \in Index(g) |-> e[g][i]]
  <2> SUFFICES ASSUME NEW g \in Registered PROVE e[g] = [i \in Index(g) |-> e[g][i]]
    OBVIOUS
  <2>1. CASE g = f
    BY <1>2, <2>1 DEF BufferOf
  <2>2. CASE g # f
    <3>1. d[g] = [i \in Index(g) |-> d[g][i]]
      BY DEF Buffers
    <3>2. e[g] = d[g]
      BY <1>2, <2>2
    <3>3. QED
      BY <3>1, <3>2
  <2>3. QED
    BY <2>1, <2>2
<1>4. e = [g \in Registered |-> e[g]]
  BY <1>1 DEF IsFilled
<1>5. e = [g \in Registered |-> [i \in Index(g) |-> e[g][i]]]
  BY <1>3, <1>4
<1>6. \A g \in Registered : \A i \in Index(g) : Holds(Params[g][i], e[g][i])
  BY <1>2 DEF Buffers, BufferOf
<1>7. QED
  BY <1>2, <1>5, <1>6 DEF Buffers

IsStored(e, d, f, i, v) == e = [d EXCEPT ![f][i] = v]

\* One buffer is replaced.
LEMMA BufferStored ==
  ASSUME NEW d, Buffers(d), NEW f \in Registered, NEW i \in Index(f), NEW v, Holds(Params[f][i], v),
         NEW e, IsStored(e, d, f, i, v)
  PROVE  /\ Buffers(e) /\ e[f][i] = v
         /\ \A j \in Index(f) : j # i => e[f][j] = d[f][j]
<1>1. DOMAIN d = Registered /\ d[f] = [j \in Index(f) |-> d[f][j]]
  BY DEF Buffers
<1>2. PICK b : b = [d[f] EXCEPT ![i] = v]
  OBVIOUS
<1>3. IsFilled(e, d, f, b)
  BY <1>2 DEF IsFilled, IsStored
<1>4. DOMAIN d[f] = Index(f)
  BY <1>1
<1>5. b = [j \in Index(f) |-> b[j]] /\ b[i] = v /\ \A j \in Index(f) : j # i => b[j] = d[f][j]
  BY <1>2, <1>4
<1>6. BufferOf(f, b)
  BY <1>5 DEF Buffers, BufferOf
<1>7. Buffers(e) /\ e[f] = b
  BY <1>3, <1>6, BuffersFilled
<1>8. QED
  BY <1>5, <1>7

\* The parameters of a function have a type and a size.
LEMMA ParameterIs ==
  ASSUME NEW f \in Function, NEW i \in Index(f)
  PROVE  /\ Params[f][i].type \in Type /\ Params[f][i].size \in Nat
         /\ Params[f][i].type \in Texts => Params[f][i].size > 0
         /\ Holds(Params[f][i], NoData(Params[f][i])) /\ Holds(Params[f][i], Junk(Params[f][i]))
BY ParametersAssumption, XmlAssumption, NothingIsHeld DEF Index

\* Appending with snprintf stays within the buffer.
LEMMA SnprintfHolds ==
  ASSUME NEW p, p.type = "XML", p.size \in Nat, NEW value, Holds(p, value), NEW w \in Text
  PROVE  Holds(p, Snprintf(p, value, w))
<1>1. value \in Text /\ Bytes(value) < p.size
  BY DEF Holds, Texts
<1>2. Bytes(value) \in Nat
  BY <1>1, BytesType
<1>3. PICK room \in Nat : room = p.size - 1 - Bytes(value)
  BY <1>1, <1>2
<1>4. Cut(w, room) \in Text /\ Bytes(Cut(w, room)) <= room
  BY CutFits
<1>5. value \o Cut(w, room) \in Text /\ Bytes(value \o Cut(w, room)) = Bytes(value) + Bytes(Cut(w, room))
  BY <1>1, <1>4, Joined, BytesAddUp
<1>6. Bytes(Cut(w, room)) \in Nat
  BY <1>4, BytesType
<1>7. Bytes(value \o Cut(w, room)) < p.size
  BY <1>2, <1>3, <1>4, <1>5, <1>6
<1>8. QED
  BY <1>3, <1>5, <1>7 DEF Holds, Snprintf

-----------------------------------------------------------------------------
(* Places in a document.                                                   *)

Known(r) == IF Findable(r) THEN r.function ELSE "none"

\* Of the arguments of r the first k have arrived and those after m have not.
Collected(r, buffers, k, m) ==
  /\ \A i \in 1 .. Len(In(r.function)) :
       /\ i <= k => Arrives(r.protocol, ArgumentOf(r.function, i), r.args[i], r.contents[i],
                          buffers[In(r.function)[i]])
       /\ i > m => buffers[In(r.function)[i]] = NoData(ArgumentOf(r.function, i))
  /\ \A i \in Index(r.function) :
       Params[r.function][i].mode = "OUT" => buffers[i] = NoData(Params[r.function][i])

\* s is the state of the parser and its callbacks.  The method was looked up
\* and k arguments were found.
Parser == [at |-> at, level |-> level, num |-> num, function |-> function, error |-> error, data |-> data]

Looked(r, s, k) ==
  /\ s.function = Known(r) /\ s.num = Pointer(r.function, k)
  /\ Findable(r) => s.error = "OK" /\ Collected(r, s.data[r.function], k, k)

OpeningLength(r) == IF r.protocol = "SOAP" THEN 3 ELSE Len(r.name) + 4
OpeningLevel(r, j) ==
  IF r.protocol = "SOAP" \/ j < 3 THEN j - 1 ELSE IF j <= Len(r.name) + 3 THEN 2 ELSE 1
AtOpening(r, s, j) ==
  /\ s.at = [part |-> 1, event |-> j]
  /\ s.level = OpeningLevel(r, j)
  /\ IF j <= 3 THEN s.function = "none" /\ s.num = 0 /\ s.error = "OK"
     ELSE IF j <= Len(r.name) + 2 THEN ~Findable(r) /\ s.num = 0
     ELSE Looked(r, s, 0)

AtBefore(r, s, k, e) ==
  /\ s.at = [part |-> k + 1, event |-> e]
  /\ s.level = Base(r.protocol) + e - 1
  /\ Looked(r, s, k - 1)

AtContent(r, c, s, k, j) ==
  /\ Findable(r)
  /\ s.at = [part |-> k + 1, event |-> Tags(r.protocol) + j]
  /\ s.level = Base(r.protocol) + Tags(r.protocol) + Depth(c, j - 1)
  /\ s.function = r.function /\ s.num = In(r.function)[k] /\ s.error = "OK"
  /\ Collected(r, s.data[r.function], k - 1, k)
  /\ Partial(ArgumentOf(r.function, k), c, j - 1, s.data[r.function][In(r.function)[k]])

AtBehind(r, c, s, k, e) ==
  /\ Findable(r)
  /\ s.at = [part |-> k + 1, event |-> Tags(r.protocol) + Len(c) + e]
  /\ s.level = Base(r.protocol) + Tags(r.protocol) + 1 - e
  /\ Looked(r, s, k)

AtClosing(r, s, j) ==
  /\ s.at = [part |-> Len(In(r.function)) + 2, event |-> j]
  /\ s.level = Base(r.protocol) + 1 - j
  /\ Looked(r, s, Len(In(r.function)))

AtEnd(r, s) ==
  /\ s.at = [part |-> Len(In(r.function)) + 3, event |-> 1]
  /\ s.level = 0
  /\ Looked(r, s, Len(In(r.function)))

Place(r, s) ==
  \/ \E j \in 1 .. OpeningLength(r) : AtOpening(r, s, j)
  \/ \E k \in 1 .. Len(In(r.function)) : \E e \in 1 .. Tags(r.protocol) : AtBefore(r, s, k, e)
  \/ \E k \in 1 .. Len(In(r.function)) : \E j \in 1 .. Len(r.contents[k]) : AtContent(r, r.contents[k], s, k, j)
  \/ \E k \in 1 .. Len(In(r.function)) : \E e \in 1 .. Tags(r.protocol) : AtBehind(r, r.contents[k], s, k, e)
  \/ \E j \in 1 .. Base(r.protocol) : AtClosing(r, s, j)
  \/ AtEnd(r, s)

\* Where a part begins, its first tag.
LEMMA PartBegins ==
  ASSUME NEW r, IsCall(r), NEW s, NEW k \in 0 .. Len(In(r.function)),
         s.at = [part |-> k + 2, event |-> 1], s.level = Base(r.protocol), Looked(r, s, k)
  PROVE  Place(r, s)
<1>1. PICK n \in Nat : n = Len(In(r.function))
  BY ArgumentIs DEF IsCall
<1>2. Tags(r.protocol) \in 1 .. 3 /\ Base(r.protocol) \in 2 .. 3
  BY TagIs DEF IsCall
<1>3. CASE k = n
  <2>1. AtClosing(r, s, 1) /\ 1 \in 1 .. Base(r.protocol)
    BY <1>1, <1>2, <1>3 DEF AtClosing
  <2>2. QED
    BY <2>1 DEF Place
<1>4. CASE k # n
  <2>1. PICK l \in 1 .. n : l = k + 1 /\ l - 1 = k /\ l + 1 = k + 2
    BY <1>1, <1>4
  <2>2. AtBefore(r, s, l, 1) /\ 1 \in 1 .. Tags(r.protocol)
    BY <1>2, <2>1 DEF AtBefore
  <2>3. QED
    BY <1>1, <2>1, <2>2 DEF Place
<1>5. QED
  BY <1>3, <1>4

\* After j events of the content of argument k comes the next, or a tag.
LEMMA ContentFollows ==
  ASSUME NEW r, IsCall(r), NEW s,
         Findable(r), NEW k \in 1 .. Len(In(r.function)),
         NEW j \in 0 .. Len(r.contents[k]), j > 0 => r.contents[k][j] # Malformed,
         s.at = [part |-> k + 1, event |-> Tags(r.protocol) + j + 1],
         s.level = Base(r.protocol) + Tags(r.protocol) + Depth(r.contents[k], j),
         s.function = r.function, s.num = In(r.function)[k], s.error = "OK",
         Collected(r, s.data[r.function], k - 1, k),
         Partial(ArgumentOf(r.function, k), r.contents[k], j,
                 s.data[r.function][In(r.function)[k]])
  PROVE  Place(r, s)
<1>1. PICK n \in Nat : n = Len(In(r.function))
  BY ArgumentIs DEF IsCall
<1>2. Tags(r.protocol) \in 1 .. 3 /\ Base(r.protocol) \in 2 .. 3
  BY TagIs DEF IsCall
<1>3. PICK c : c = r.contents[k]
  OBVIOUS
<1>4. /\ IsMarkup(c)
      /\ \/ ArgumentOf(r.function, k).type = "XML" /\ r.protocol = "SOAP"
         \/ IsPlain(ArgumentOf(r.function, k), r.args[k], c)
  BY <1>3, CallIs
<1>5. PICK m \in Nat : m = Len(c)
  BY <1>4 DEF IsMarkup
<1>6. CASE j = m
  <2>1. Depth(c, m) = 0
    <3>1. CASE m = 0
      BY <3>1, DepthIs
    <3>2. CASE m # 0
      <4>1. /\ \A i \in 1 .. m : c[i] = Malformed => i = m
            /\ Depth(c, m) = 0 \/ Malformed \in ToSet(c)
        BY <1>4, <1>5 DEF IsMarkup
      <4>2. Malformed \notin ToSet(c)
        <5>1. c[m] # Malformed
          BY <1>3, <1>6, <3>2
        <5>2. DOMAIN c = 1 .. m
          BY <1>4, <1>5 DEF IsMarkup
        <5>3. QED
          BY <4>1, <5>1, <5>2 DEF ToSet
      <4>3. QED
        BY <4>1, <4>2
    <3>3. QED
      BY <3>1, <3>2
  <2>2. Arrives(r.protocol, ArgumentOf(r.function, k), r.args[k], c, s.data[r.function][In(r.function)[k]])
    <3>1. PICK value : value = s.data[r.function][In(r.function)[k]]
      OBVIOUS
    <3>2. PICK p : p = ArgumentOf(r.function, k)
      OBVIOUS
    <3>3. /\ p.type \in Type \ {"VOID"} /\ r.args[k] \in Passed(p.type)
          /\ ~Raises(r.protocol, p, r.args[k])
      BY <3>2, CallIs
    <3>4. p.size \in Nat
      BY <3>2, ArgumentIs, ParameterIs DEF IsCall, ArgumentOf
    <3>5. Partial(p, c, Len(c), value) /\ (Len(c) > 0 => c[Len(c)] # Malformed)
      BY <1>3, <1>5, <1>6, <3>1, <3>2
    <3>6. r.protocol \in Protocol
      BY DEF IsCall
    <3>7. Arrives(r.protocol, p, r.args[k], c, value)
      BY <1>4, <3>2, <3>3, <3>4, <3>5, <3>6, PartialEnds
    <3>8. QED
      BY <3>1, <3>2, <3>7
  <2>3. Collected(r, s.data[r.function], k, k)
    <3>1. \A i \in 1 .. n : i <= k => i <= k - 1 \/ i = k
      BY <1>1
    <3>2. QED
      BY <1>1, <1>3, <2>2, <3>1 DEF Collected
  <2>4. Looked(r, s, k)
    BY <1>1, <2>3 DEF Looked, Known, Pointer
  <2>5. AtBehind(r, c, s, k, 1) /\ 1 \in 1 .. Tags(r.protocol)
    BY <1>2, <1>3, <1>5, <1>6, <2>1, <2>4 DEF AtBehind
  <2>6. QED
    BY <1>3, <2>5 DEF Place
<1>7. CASE j # m
  <2>1. PICK l \in 1 .. m : l = j + 1 /\ l - 1 = j
    BY <1>3, <1>5, <1>7
  <2>2. Tags(r.protocol) + j + 1 = Tags(r.protocol) + l
    BY <1>2, <2>1
  <2>3. AtContent(r, c, s, k, l)
    BY <1>3, <2>1, <2>2 DEF AtContent
  <2>4. QED
    BY <1>3, <1>5, <2>3 DEF Place
<1>8. QED
  BY <1>6, <1>7

-----------------------------------------------------------------------------
(* What the next event of a document calls.                                *)
\* The event and the protocol choose the callback.
LEMMA NextCallback ==
  ASSUME Callback, proc = "parsing"
  PROVE  /\ AtEvent /\ request.protocol = "SOAP" /\ Event.ev = "start" =>
              SoapEnvelope \/ SoapMethod \/ SoapArgument \/ SoapNested
         /\ AtEvent /\ request.protocol = "XMLRPC" /\ Event.ev = "start" =>
              XmlrpcElement \/ XmlrpcArgument
         /\ AtEvent /\ request.protocol = "SOAP" /\ Event.ev = "text" => SoapContent
         /\ AtEvent /\ request.protocol = "XMLRPC" /\ Event.ev = "text" => XmlrpcMethodName \/ XmlrpcContent
         /\ AtEvent /\ request.protocol = "SOAP" /\ Event.ev = "end" => SoapEnd
         /\ AtEvent /\ request.protocol = "XMLRPC" /\ Event.ev = "end" => XmlrpcEnd
         /\ AtEvent /\ Event.ev = "error" => ReportError
         /\ ~AtEvent => EndDocument
<1>1. /\ SoapEnvelope \/ SoapMethod \/ SoapArgument \/ SoapNested => Reports("SOAP", "start")
      /\ SoapContent => Reports("SOAP", "text")
      /\ SoapEnd => Reports("SOAP", "end")
  BY DEF SoapEnvelope, SoapMethod, SoapArgument, SoapNested, SoapContent, SoapEnd
<1>2. /\ XmlrpcElement \/ XmlrpcArgument => Reports("XMLRPC", "start")
      /\ XmlrpcMethodName \/ XmlrpcContent => Reports("XMLRPC", "text")
      /\ XmlrpcEnd => Reports("XMLRPC", "end")
  BY DEF XmlrpcElement, XmlrpcArgument, XmlrpcMethodName, XmlrpcContent, XmlrpcEnd
<1>3. /\ ReportError => AtEvent /\ Event.ev = "error"
      /\ EndDocument => ~AtEvent
      /\ ~StartDocument
  BY CharactersAre DEF ReportError, EndDocument, StartDocument
<1>4. \A protocol, ev : Reports(protocol, ev) => AtEvent /\ request.protocol = protocol /\ Event.ev = ev
  BY DEF Reports
<1>5. \/ SoapEnvelope \/ SoapMethod \/ SoapArgument \/ SoapNested \/ SoapContent \/ SoapEnd
      \/ XmlrpcElement \/ XmlrpcArgument \/ XmlrpcMethodName \/ XmlrpcContent \/ XmlrpcEnd
      \/ ReportError \/ EndDocument
  BY <1>3 DEF Callback
<1>6. ~AtEvent => EndDocument
  BY <1>1, <1>2, <1>3, <1>4, <1>5
<1>7. AtEvent /\ Event.ev = "error" => ReportError
  BY <1>1, <1>2, <1>3, <1>4, <1>5
<1>8. AtEvent /\ request.protocol = "SOAP" =>
        /\ Event.ev = "start" => SoapEnvelope \/ SoapMethod \/ SoapArgument \/ SoapNested
        /\ Event.ev = "text" => SoapContent
        /\ Event.ev = "end" => SoapEnd
  BY <1>1, <1>2, <1>3, <1>4, <1>5
<1>9. AtEvent /\ request.protocol = "XMLRPC" =>
        /\ Event.ev = "start" => XmlrpcElement \/ XmlrpcArgument
        /\ Event.ev = "text" => XmlrpcMethodName \/ XmlrpcContent
        /\ Event.ev = "end" => XmlrpcEnd
  BY <1>1, <1>2, <1>3, <1>4, <1>5
<1>10. QED
  BY <1>6, <1>7, <1>8, <1>9

\* The parser goes on.
IsAt(p, e) == at = [part |-> p, event |-> e]

\* The place behind an event.
LEMMA Proceeds ==
  ASSUME Reported, NEW p \in Nat, NEW e \in Nat, IsAt(p, e)
  PROVE  /\ e < Len(document[p]) => at' = [part |-> p, event |-> e + 1]
         /\ ~(e < Len(document[p])) => at' = [part |-> p + 1, event |-> 1]
         /\ proc' = proc /\ document' = document
BY DEF Reported, IsAt

Parsing(r) ==
  /\ proc = "parsing" /\ request = r /\ IsCall(r)
  /\ document = Document(r) /\ ~ecode /\ Buffers(data)

\* The parser goes on, meets an error, or the process ends because it does not
\* know the function.
Onward(r) ==
  \/ /\ proc' = "parsing" /\ document' = document /\ ecode' = ecode
     /\ Place(r, Parser') /\ Buffers(data')
  \/ proc' = "aborted" /\ ~Findable(r) /\ data' = data /\ level' = level /\ num' = num
  \/ proc' = "parsed" /\ ecode' = TRUE /\ Buffers(data') /\ level' = level /\ num' = num

\* What is known while a request is parsed.
LEMMA ParsingIs ==
  ASSUME NEW r, Parsing(r)
  PROVE  /\ proc = "parsing" /\ request = r /\ IsCall(r) /\ r.protocol \in Protocol /\ r.function \in Function
         /\ Len(In(r.function)) \in Nat
         /\ DOMAIN document = 1 .. Len(In(r.function)) + 2
         /\ document[1] = Opening(r)
         /\ document[Len(In(r.function)) + 2] = Closing(r)
         /\ \A k \in 1 .. Len(In(r.function)) :
              document[k + 1] = Argument(r.protocol, ArgumentOf(r.function, k), r.contents[k])
         /\ Buffers(data)
<1>1. r.function \in Function
  BY DEF Parsing, IsCall
<1>2. PICK n \in Nat : n = Len(In(r.function))
  BY <1>1, ArgumentIs
<1>3. document = Document(r)
  BY DEF Parsing
<1>4. HasParts(document, r)
  BY <1>1, <1>3, DocumentParts
<1>5. QED
  BY <1>1, <1>2, <1>4 DEF Parsing, IsCall, HasParts

\* The buffers of a function are nullified.
LEMMA Nullified ==
  ASSUME Buffers(data), NEW f \in Registered, data' = Nullify(f)
  PROVE  /\ Buffers(data')
         /\ \A i \in Index(f) : data'[f][i] = NoData(Params[f][i])
<1>1. PICK b : b = [i \in Index(f) |-> NoData(Params[f][i])]
  OBVIOUS
<1>2. BufferOf(f, b)
  BY <1>1, ParameterIs, XmlAssumption DEF BufferOf
<1>3. IsFilled(data', data, f, b)
  BY <1>1 DEF IsFilled, Nullify
<1>4. Buffers(data') /\ data'[f] = b
  BY <1>2, <1>3, BuffersFilled
<1>5. QED
  BY <1>1, <1>4

\* An assertion that fails where the function cannot be found.
LEMMA AbortIs ==
  ASSUME NEW r, ~Findable(r), Abort
  PROVE  Onward(r)
BY DEF Abort, Onward, ctx

\* The method is looked up.
LEMMA MethodLooked ==
  ASSUME NEW r, Parsing(r), ~(Len(r.name) > 1),
         LookupMethod(r.function), num = 0, num' = 0, error = "OK"
  PROVE  Looked(r, Parser', 0) /\ Buffers(data') /\ ecode' = ecode
<1>1. r.function \in Function /\ Buffers(data)
  BY ParsingIs
<1>2. PICK f \in Function : f = r.function
  BY <1>1
<1>3. CASE f \notin Registered
  <2>1. function' = "none" /\ data' = data /\ ecode' = ecode
    BY <1>2, <1>3 DEF LookupMethod
  <2>2. QED
    BY <1>1, <1>2, <1>3, <2>1 DEF Looked, Parser, Known, Findable, Pointer
<1>4. CASE f \in Registered
  <2>1. function' = f /\ data' = Nullify(f) /\ ecode' = ecode /\ error' = "OK"
    BY <1>2, <1>4 DEF LookupMethod
  <2>2. Buffers(data') /\ \A i \in Index(f) : data'[f][i] = NoData(Params[f][i])
    BY <1>1, <1>4, <2>1, Nullified
  <2>3. PICK b : b = data'[f]
    OBVIOUS
  <2>4. Collected(r, b, 0, 0)
    <3>1. \A k \in 1 .. Len(In(f)) : In(f)[k] \in Index(f) /\ ~(k <= 0)
      BY ArgumentIs
    <3>2. QED
      BY <1>2, <2>2, <2>3, <3>1 DEF Collected, ArgumentOf
  <2>5. QED
    BY <1>2, <1>4, <2>1, <2>2, <2>3, <2>4 DEF Looked, Parser, Known, Findable, Pointer
<1>5. QED
  BY <1>3, <1>4

-----------------------------------------------------------------------------
(* The tags before the arguments.                                          *)
\* Envelope, body and method of a SOAP request.
LEMMA OpeningSoap ==
  ASSUME NEW r, Parsing(r), r.protocol = "SOAP",
         NEW j \in 1 .. 3, AtOpening(r, Parser, j), Callback
  PROVE  Onward(r)
<1>0. IsAt(1, j)
  BY DEF AtOpening, Parser, IsAt
<1>1. /\ at = [part |-> 1, event |-> j] /\ level = j - 1
      /\ function = "none" /\ num = 0 /\ error = "OK"
  BY DEF AtOpening, Parser, OpeningLevel
<1>9. ~(Len(r.name) > 1) /\ OpeningLength(r) = 3
  <2>1. IsName(r)
    BY ParsingIs, NameIs
  <2>2. QED
    <3>1. Len(r.name) = 1 /\ ~(1 > 1)
      BY <2>1 DEF IsName
    <3>2. QED
      BY <3>1 DEF OpeningLength
<1>2. document[1] = <<Start("SOAP-ENV:Envelope", <<>>), Start("SOAP-ENV:Body", <<>>), Start(r.function, <<>>)>>
  BY ParsingIs DEF Opening
<1>3. /\ Len(document[1]) = 3 /\ document[1][1].name = "SOAP-ENV:Envelope"
      /\ document[1][2].name = "SOAP-ENV:Body" /\ document[1][3].name = r.function
      /\ document[1][1].ev = "start" /\ document[1][2].ev = "start" /\ document[1][3].ev = "start"
  BY <1>2 DEF Start
<1>4. Event = document[1][j] /\ Event.ev = "start" /\ AtEvent /\ request.protocol = "SOAP" /\ request = r
  BY <1>1, <1>3, ParsingIs DEF Event, AtEvent
<1>5. SoapEnvelope \/ SoapMethod \/ SoapArgument \/ SoapNested
  BY <1>4, ParsingIs, NextCallback
<1>6. CASE j # 3
  <2>1. SoapEnvelope
    BY <1>1, <1>5, <1>6 DEF SoapMethod, SoapArgument, SoapNested
  <2>2. Event.name \in {"SOAP-ENV:Envelope", "SOAP-ENV:Body"}
    BY <1>3, <1>4, <1>6
  <2>3. Reported /\ level' = level + 1 /\ UNCHANGED <<num, call, data>>
    BY <2>1, <2>2 DEF SoapEnvelope, Asserted
  <2>4. PICK l \in 1 .. 3 : l = j + 1
    BY <1>6
  <2>5. at' = [part |-> 1, event |-> l] /\ proc' = proc /\ document' = document
    BY <1>0, <1>3, <1>6, <2>3, <2>4, Proceeds
  <2>6. AtOpening(r, Parser', l)
    BY <1>1, <2>3, <2>4, <2>5 DEF AtOpening, Parser, OpeningLevel, call
  <2>7. Place(r, Parser')
    BY <1>9, <2>6 DEF Place
  <2>8. QED
    BY <2>3, <2>5, <2>7, ParsingIs DEF Onward, call
<1>7. CASE j = 3
  <2>1. SoapMethod
    BY <1>1, <1>5, <1>7 DEF SoapEnvelope, SoapArgument, SoapNested
  <2>2. Reported /\ level' = 3 /\ num' = num /\ LookupMethod(r.function)
    BY <1>1, <1>3, <1>4, <1>7, <2>1 DEF SoapMethod, Asserted
  <2>3. at' = [part |-> 2, event |-> 1] /\ proc' = proc /\ document' = document
    <3>1. Len(document[1]) = 3 /\ IsAt(1, 3) /\ ~(3 < 3)
      BY <1>0, <1>3, <1>7
    <3>2. at' = [part |-> 1 + 1, event |-> 1] /\ proc' = proc /\ document' = document
      BY <2>2, <3>1, Proceeds
    <3>3. QED
      BY <3>2
  <2>4. Looked(r, Parser', 0) /\ Buffers(data') /\ ecode' = ecode
    BY <1>1, <1>9, <2>2, MethodLooked
  <2>5. Parser'.at = [part |-> 0 + 2, event |-> 1] /\ Parser'.level = Base(r.protocol)
    BY <2>2, <2>3 DEF Parser, Base
  <2>6. 0 \in 0 .. Len(In(r.function)) /\ IsCall(r)
    BY ParsingIs
  <2>7. Place(r, Parser')
    BY <2>4, <2>5, <2>6, PartBegins
  <2>8. QED
    BY <2>3, <2>4, <2>7, ParsingIs DEF Onward
<1>8. QED
  BY <1>6, <1>7

\* The tags of an XML-RPC request up to its parameters, and its method.
HasMethod(o, name) ==
  /\ Len(name) \in Nat /\ Len(name) > 0 /\ Len(o) = Len(name) + 4
  /\ o[1].ev = "start" /\ o[2].ev = "start"
  /\ \A i \in 1 .. Len(name) : o[i + 2].ev = "text" /\ o[i + 2].text[1] = name[i]
  /\ o[Len(name) + 3].ev = "end" /\ o[Len(name) + 4].ev = "start"

\* A stub writes them.
LEMMA OpeningHasMethod ==
  ASSUME NEW r, IsCall(r), r.protocol = "XMLRPC"
  PROVE  HasMethod(Opening(r), r.name)
<1>1. PICK n \in Nat : n = Len(r.name) /\ n > 0
  BY NameIs DEF IsName
<1>2. PICK texts : texts = [k \in 1 .. n |-> <<r.name[k]>>]
  OBVIOUS
<1>3. Len(texts) = n
  BY <1>2
<1>4. PICK b : b = [k \in 1 .. n |-> Characters(texts[k])]
  OBVIOUS
<1>5. InPieces(texts) = b
  BY <1>3, <1>4 DEF InPieces
<1>6. PICK T : T = {b[k] : k \in 1 .. n}
  OBVIOUS
<1>7. b \in Seq(T) /\ Len(b) = n
  BY <1>4, <1>6
<1>8. PICK a, c : /\ a = <<Start("methodCall", <<>>), Start("methodName", <<>>)>>
                  /\ c = <<End("methodName"), Start("params", <<>>)>>
  OBVIOUS
<1>9. Opening(r) = a \o b \o c
  BY <1>1, <1>2, <1>5, <1>8 DEF Opening
<1>10. /\ Len(a) = 2 /\ a[1].ev = "start" /\ a[2].ev = "start"
       /\ Len(c) = 2 /\ c[1].ev = "end" /\ c[2].ev = "start"
  BY <1>8 DEF Start, End
<1>11. \A k \in 1 .. n : b[k].ev = "text" /\ b[k].text[1] = r.name[k]
  <2> SUFFICES ASSUME NEW k \in 1 .. n PROVE b[k].ev = "text" /\ b[k].text[1] = r.name[k]
    OBVIOUS
  <2>1. b[k] = Characters(texts[k]) /\ texts[k] = <<r.name[k]>>
    BY <1>2, <1>4
  <2>2. QED
    BY <2>1, CharactersAre
<1>12. PICK U : U = T \cup {a[1], a[2], c[1], c[2]}
  OBVIOUS
<1>13. a \in Seq(U) /\ b \in Seq(U) /\ c \in Seq(U) /\ Len(a) = 2 /\ Len(b) = n /\ Len(c) = 2
  BY <1>7, <1>8, <1>10, <1>12
<1>14. PICK ab : ab = a \o b
  OBVIOUS
<1>15. /\ ab \in Seq(U) /\ Len(ab) = n + 2
       /\ \A i \in 1 .. n + 2 : ab[i] = IF i <= 2 THEN a[i] ELSE b[i - 2]
  <2>1. a \in Seq(U) /\ b \in Seq(U)
    BY <1>13
  <2>2. /\ ab \in Seq(U) /\ Len(ab) = Len(a) + Len(b)
        /\ \A i \in 1 .. Len(a) + Len(b) : ab[i] = IF i <= Len(a) THEN a[i] ELSE b[i - Len(a)]
    BY <1>14, <2>1, ConcatProperties
  <2>3. Len(a) + Len(b) = n + 2 /\ Len(a) = 2
    BY <1>13
  <2>4. QED
    BY <2>2, <2>3
<1>16. PICK o : o = ab \o c
  OBVIOUS
<1>17. /\ Len(o) = n + 4
       /\ \A i \in 1 .. n + 4 : o[i] = IF i <= n + 2 THEN ab[i] ELSE c[i - (n + 2)]
  <2>1. ab \in Seq(U) /\ c \in Seq(U)
    BY <1>13, <1>15
  <2>2. /\ Len(o) = Len(ab) + Len(c)
        /\ \A i \in 1 .. Len(ab) + Len(c) : o[i] = IF i <= Len(ab) THEN ab[i] ELSE c[i - Len(ab)]
    BY <1>16, <2>1, ConcatProperties
  <2>3. Len(ab) + Len(c) = n + 4 /\ Len(ab) = n + 2
    BY <1>13, <1>15
  <2>4. QED
    BY <2>2, <2>3
<1>18. o[1] = a[1] /\ o[2] = a[2]
  <2>1. /\ 1 \in 1 .. n + 2 /\ 1 \in 1 .. n + 4 /\ 1 <= n + 2 /\ 1 <= 2
        /\ 2 \in 1 .. n + 2 /\ 2 \in 1 .. n + 4 /\ 2 <= n + 2 /\ 2 <= 2
    OBVIOUS
  <2>2. QED
    BY <1>15, <1>17, <2>1
<1>19. ASSUME NEW k \in 1 .. n PROVE o[k + 2] = b[k]
  <2>1. PICK i \in 1 .. n + 2 : i = k + 2 /\ ~(i <= 2) /\ i - 2 = k /\ i \in 1 .. n + 4 /\ i <= n + 2
    OBVIOUS
  <2>2. QED
    BY <1>15, <1>17, <2>1
<1>20. o[n + 3] = c[1] /\ o[n + 4] = c[2]
  <2>1. PICK i \in 1 .. n + 4 : i = n + 3 /\ ~(i <= n + 2) /\ i - (n + 2) = 1
    OBVIOUS
  <2>2. PICK l \in 1 .. n + 4 : l = n + 4 /\ ~(l <= n + 2) /\ l - (n + 2) = 2
    OBVIOUS
  <2>3. QED
    BY <1>17, <2>1, <2>2
<1>21. QED
  <2>1. Opening(r) = o
    BY <1>9, <1>14, <1>16
  <2>2. HasMethod(o, r.name)
    BY SMTT(30), <1>1, <1>10, <1>11, <1>17, <1>18, <1>19, <1>20 DEF HasMethod
  <2>3. QED
    BY <2>1, <2>2

\* What is known there.
LEMMA InOpening ==
  ASSUME NEW r, Parsing(r), r.protocol = "XMLRPC",
         NEW j \in 1 .. Len(r.name) + 4, AtOpening(r, Parser, j)
  PROVE  /\ HasMethod(document[1], r.name) /\ IsAt(1, j)
         /\ Event = document[1][j] /\ AtEvent /\ request.protocol = "XMLRPC"
         /\ request = r /\ proc = "parsing" /\ Buffers(data)
         /\ level = OpeningLevel(r, j) /\ OpeningLength(r) = Len(r.name) + 4
<1>1. HasMethod(document[1], r.name)
  BY ParsingIs, OpeningHasMethod
<1>2. at = [part |-> 1, event |-> j] /\ level = OpeningLevel(r, j)
  BY DEF AtOpening, Parser
<1>3. QED
  BY <1>1, <1>2, ParsingIs DEF IsAt, Event, AtEvent, OpeningLength

\* The next tag or piece is reported.
LEMMA OpeningGoesOn ==
  ASSUME NEW r, Parsing(r), r.protocol = "XMLRPC",
         NEW j \in 1 .. Len(r.name) + 3, AtOpening(r, Parser, j), Reported
  PROVE  /\ at' = [part |-> 1, event |-> j + 1] /\ proc' = "parsing" /\ document' = document
         /\ AtOpening(r, Parser', j + 1) => Place(r, Parser')
<1>1. PICK n \in Nat : n = Len(r.name) /\ n > 0
  BY ParsingIs, NameIs DEF IsName
<1>2. j \in 1 .. n + 4 /\ j \in Nat /\ j + 1 \in 1 .. n + 4
  BY <1>1
<1>3. IsAt(1, j) /\ Len(document[1]) = n + 4 /\ proc = "parsing" /\ OpeningLength(r) = n + 4
  BY <1>1, <1>2, InOpening DEF HasMethod
<1>4. j < n + 4
  BY <1>1
<1>5. QED
  BY <1>2, <1>3, <1>4, Proceeds DEF Place

\* There is one of something, or there are more.
LEMMA OneOrMore ==
  ASSUME NEW n \in Nat, n > 0
  PROVE  n = 1 \/ n > 1
OBVIOUS

\* A piece of the name of the method.
LEMMA MethodNamed ==
  ASSUME NEW r, Parsing(r), r.protocol = "XMLRPC",
         NEW i \in 1 .. Len(r.name), AtOpening(r, Parser, i + 2), Callback
  PROVE  Onward(r)
<1>1. PICK n \in Nat : n = Len(r.name) /\ n > 0
  BY ParsingIs, NameIs DEF IsName
<1>2. PICK j \in 1 .. n + 3 : j = i + 2 /\ j \in 1 .. n + 4 /\ j > 2 /\ j <= n + 2
  BY <1>1
<1>3. AtOpening(r, Parser, j)
  BY <1>2
<1>4. /\ HasMethod(document[1], r.name) /\ Event = document[1][j] /\ AtEvent
      /\ request.protocol = "XMLRPC" /\ proc = "parsing" /\ Buffers(data)
      /\ level = OpeningLevel(r, j)
  BY <1>1, <1>2, <1>3, InOpening
<1>5. Event.ev = "text" /\ Event.text[1] = r.name[i] /\ level = 2
  BY <1>1, <1>2, <1>4 DEF HasMethod, OpeningLevel
<1>6. XmlrpcMethodName
  BY <1>4, <1>5, NextCallback DEF XmlrpcContent
<1>7. /\ num = 0
      /\ j = 3 => function = "none" /\ error = "OK"
      /\ j # 3 => ~Findable(r)
  BY <1>1, <1>2, <1>3 DEF AtOpening, Parser
<1>8. CASE function # "none"
  <2>1. Abort /\ ~Findable(r)
    BY <1>2, <1>6, <1>7, <1>8 DEF XmlrpcMethodName, Asserted
  <2>2. QED
    BY <2>1, AbortIs
<1>9. CASE function = "none"
  <2>1. Reported /\ LookupMethod(r.name[i]) /\ num' = 0 /\ level' = 2
    BY <1>5, <1>6, <1>7, <1>9 DEF XmlrpcMethodName, Asserted, ctx
  <2>2. /\ at' = [part |-> 1, event |-> j + 1] /\ proc' = "parsing" /\ document' = document
        /\ AtOpening(r, Parser', j + 1) => Place(r, Parser')
    BY <1>1, <1>3, <2>1, OpeningGoesOn
  <2>3. level' = OpeningLevel(r, j + 1)
    BY <1>1, <1>2, <2>1 DEF OpeningLevel
  <2>4. ecode' = ecode /\ Buffers(data')
    <3>1. CASE r.name[i] \in Registered
      BY <1>4, <2>1, <3>1, Nullified DEF LookupMethod
    <3>2. CASE r.name[i] \notin Registered
      BY <1>4, <2>1, <3>2 DEF LookupMethod
    <3>3. QED
      BY <3>1, <3>2
  <2>5. n = 1 \/ n > 1
    BY <1>1, OneOrMore
  <2>6. AtOpening(r, Parser', j + 1)
    <3>1. CASE n = 1
      <4>1. i = 1 /\ j = 3
        BY <1>1, <1>2, <3>1
      <4>2. r.name[i] = r.function
        BY <1>1, <3>1, <4>1, ParsingIs, NameIs DEF IsName
      <4>3. Looked(r, Parser', 0)
        <5>1. ~(Len(r.name) > 1) /\ LookupMethod(r.function) /\ num = 0 /\ num' = 0 /\ error = "OK"
          BY <1>1, <1>7, <2>1, <3>1, <4>1, <4>2
        <5>2. QED
          BY <5>1, MethodLooked
      <4>4. QED
        BY <1>1, <2>2, <2>3, <3>1, <4>1, <4>3 DEF AtOpening, Parser
    <3>2. CASE n # 1 /\ i # n
      <4>1. ~Findable(r) /\ j + 1 > 3 /\ j + 1 <= n + 2
        BY <1>1, <1>2, <3>2 DEF Findable
      <4>2. QED
        BY <1>1, <2>1, <2>2, <2>3, <4>1 DEF AtOpening, Parser
    <3>3. CASE n # 1 /\ i = n
      <4>1. ~Findable(r) /\ j + 1 > 3 /\ ~(j + 1 <= n + 2)
        <5>1. n > 1 /\ j = n + 2
          <6>1. n > 1
            BY <2>5, <3>3
          <6>2. j = n + 2
            BY <1>2, <3>3
          <6>3. QED
            BY <6>1, <6>2
        <5>2. ~Findable(r)
          BY <1>1, <5>1 DEF Findable
        <5>3. QED
          BY <5>1, <5>2
      <4>2. r.name[i] \notin Registered
        BY <1>1, <3>3, ParsingIs, NameIs DEF IsName
      <4>3. function' = "none"
        BY <2>1, <4>2 DEF LookupMethod
      <4>4. Looked(r, Parser', 0)
        BY <2>1, <4>1, <4>3 DEF Looked, Parser, Known, Pointer
      <4>5. QED
        BY <1>1, <2>2, <2>3, <4>1, <4>4 DEF AtOpening, Parser
    <3>4. QED
      BY <3>1, <3>2, <3>3
  <2>7. QED
    BY <2>2, <2>4, <2>6 DEF Onward
<1>10. QED
  BY <1>8, <1>9

\* The beginning of an XML-RPC request.
LEMMA OpeningXmlrpc ==
  ASSUME NEW r, Parsing(r), r.protocol = "XMLRPC",
         NEW j \in 1 .. Len(r.name) + 4, AtOpening(r, Parser, j), Callback
  PROVE  Onward(r)
<1>1. PICK n \in Nat : n = Len(r.name) /\ n > 0
  BY ParsingIs, NameIs DEF IsName
<1>2. /\ HasMethod(document[1], r.name) /\ Event = document[1][j] /\ AtEvent /\ IsAt(1, j)
      /\ request.protocol = "XMLRPC" /\ proc = "parsing" /\ Buffers(data)
      /\ level = OpeningLevel(r, j)
  BY InOpening
<1>3. CASE j \in {1, 2}
  <2>1. Event.ev = "start" /\ level # 4 /\ level = j - 1
    BY <1>2, <1>3 DEF HasMethod, OpeningLevel
  <2>2. XmlrpcElement \/ XmlrpcArgument
    BY <1>2, <2>1, NextCallback
  <2>3. Reported /\ level' = j /\ UNCHANGED <<num, call, data>>
    <3>1. XmlrpcElement
      BY <2>1, <2>2 DEF XmlrpcArgument
    <3>2. level + 1 = j
      BY <2>1
    <3>3. QED
      BY <3>1, <3>2 DEF XmlrpcElement
  <2>4. j \in 1 .. Len(r.name) + 3
    BY <1>1, <1>3
  <2>5. /\ at' = [part |-> 1, event |-> j + 1] /\ proc' = "parsing" /\ document' = document
        /\ AtOpening(r, Parser', j + 1) => Place(r, Parser')
    BY <2>3, <2>4, OpeningGoesOn
  <2>6. level' = OpeningLevel(r, j + 1)
    BY <1>1, <1>3, <2>3 DEF OpeningLevel
  <2>7. AtOpening(r, Parser', j + 1)
    BY <1>3, <2>3, <2>5, <2>6 DEF AtOpening, Parser, call
  <2>8. QED
    BY <1>2, <2>3, <2>5, <2>7 DEF Onward, call
<1>4. CASE j \in 3 .. n + 2
  <2>1. PICK i \in 1 .. n : j = i + 2
    BY <1>1, <1>4
  <2>2. QED
    BY <1>1, <2>1, MethodNamed
<1>5. CASE j = n + 3
  <2>1. Event.ev = "end" /\ level = 2
    BY <1>1, <1>2, <1>5 DEF HasMethod, OpeningLevel
  <2>2. XmlrpcEnd
    BY <1>2, <2>1, NextCallback
  <2>3. Reported /\ level' = 1 /\ UNCHANGED <<num, call, data>>
    BY <2>1, <2>2 DEF XmlrpcEnd
  <2>4. /\ at' = [part |-> 1, event |-> j + 1] /\ proc' = "parsing" /\ document' = document
        /\ AtOpening(r, Parser', j + 1) => Place(r, Parser')
    <3>1. j \in 1 .. Len(r.name) + 3
      BY <1>1, <1>5
    <3>2. QED
      BY <2>3, <3>1, OpeningGoesOn
  <2>5. Looked(r, Parser', 0)
    BY <1>1, <1>5, <2>3 DEF AtOpening, Looked, Parser, call
  <2>6. AtOpening(r, Parser', j + 1)
    BY <1>1, <1>5, <2>3, <2>4, <2>5 DEF AtOpening, OpeningLevel, Parser
  <2>7. QED
    BY <1>2, <2>3, <2>4, <2>6 DEF Onward, call
<1>6. CASE j = n + 4
  <2>1. Event.ev = "start" /\ level = 1 /\ Looked(r, Parser, 0)
    BY <1>1, <1>2, <1>6 DEF HasMethod, OpeningLevel, AtOpening
  <2>2. XmlrpcElement \/ XmlrpcArgument
    BY <1>2, <2>1, NextCallback
  <2>3. Reported /\ level' = 2 /\ UNCHANGED <<num, call, data>>
    BY <2>1, <2>2 DEF XmlrpcElement, XmlrpcArgument
  <2>4. at' = [part |-> 2, event |-> 1] /\ proc' = proc /\ document' = document
    <3>1. Len(document[1]) = j /\ j \in Nat /\ ~(j < j)
      BY <1>1, <1>2, <1>6 DEF HasMethod
    <3>2. at' = [part |-> 1 + 1, event |-> 1] /\ proc' = proc /\ document' = document
      BY <1>2, <2>3, <3>1, Proceeds
    <3>3. QED
      BY <3>2
  <2>5. Looked(r, Parser', 0)
    BY <2>1, <2>3 DEF Looked, Parser, call
  <2>6. Parser'.at = [part |-> 0 + 2, event |-> 1] /\ Parser'.level = Base(r.protocol)
    BY <2>3, <2>4 DEF Parser, Base
  <2>7. 0 \in 0 .. Len(In(r.function)) /\ IsCall(r)
    BY ParsingIs
  <2>8. Place(r, Parser')
    BY <2>5, <2>6, <2>7, PartBegins
  <2>9. QED
    BY <1>2, <2>3, <2>4, <2>8 DEF Onward, call
<1>7. QED
  BY <1>1, <1>3, <1>4, <1>5, <1>6

\* The events of an argument.
HasEvents(a, protocol, p, c) ==
  /\ Len(a) = 2 * Tags(protocol) + Len(c)
  /\ \A e \in 1 .. Tags(protocol) : a[e] = Before(protocol, p)[e]
  /\ \A j \in 1 .. Len(c) : a[Tags(protocol) + j] = c[j]
  /\ \A e \in 1 .. Tags(protocol) : a[Tags(protocol) + Len(c) + e] = Behind(protocol, p)[e]

\* The events a stub writes for an argument.
LEMMA ArgumentHasEvents ==
  ASSUME NEW protocol \in Protocol, NEW p, NEW c \in Seq(EventSet)
  PROVE  HasEvents(Argument(protocol, p, c), protocol, p, c)
  BY ArgumentEvents, ZenonT(30) DEF HasEvents

\* The events of the part of an argument.
LEMMA ArgumentPart ==
  ASSUME NEW r, Parsing(r), NEW k \in 1 .. Len(In(r.function))
  PROVE  /\ HasEvents(document[k + 1], r.protocol, ArgumentOf(r.function, k), r.contents[k])
         /\ IsMarkup(r.contents[k]) /\ r.contents[k] \in Seq(EventSet) /\ Len(r.contents[k]) \in Nat
         /\ k + 1 \in DOMAIN document
<1>1. IsMarkup(r.contents[k])
  BY ParsingIs, CallIs
<1>2. r.contents[k] \in Seq(EventSet) /\ Len(r.contents[k]) \in Nat
  BY <1>1 DEF IsMarkup
<1>3. document[k + 1] = Argument(r.protocol, ArgumentOf(r.function, k), r.contents[k])
  BY ParsingIs
<1>4. r.protocol \in Protocol
  BY ParsingIs
<1>5. HasEvents(Argument(r.protocol, ArgumentOf(r.function, k), r.contents[k]),
                r.protocol, ArgumentOf(r.function, k), r.contents[k])
  BY <1>2, <1>4, ArgumentHasEvents, ZenonT(30)
<1>6. Len(In(r.function)) \in Nat /\ DOMAIN document = 1 .. Len(In(r.function)) + 2
  BY ParsingIs
<1>7. k + 1 \in DOMAIN document
  BY <1>6
<1>8. QED
  BY <1>1, <1>2, <1>3, <1>5, <1>7

\* The next event is a tag before an argument.
LEMMA BeforeIs ==
  ASSUME NEW r, Parsing(r), NEW k \in 1 .. Len(In(r.function)),
         NEW e \in 1 .. Tags(r.protocol), IsAt(k + 1, e)
  PROVE  /\ Event = Before(r.protocol, ArgumentOf(r.function, k))[e] /\ Event.ev = "start" /\ AtEvent
         /\ Len(document[k + 1]) = 2 * Tags(r.protocol) + Len(r.contents[k]) /\ Len(r.contents[k]) \in Nat
         /\ e < Len(document[k + 1])
<1>1. /\ HasEvents(document[k + 1], r.protocol, ArgumentOf(r.function, k), r.contents[k])
      /\ Len(r.contents[k]) \in Nat /\ k + 1 \in DOMAIN document
  BY ArgumentPart
<1>2. Tags(r.protocol) \in 1 .. 3
  BY ParsingIs, TagIs
<1>3. Event = document[k + 1][e] /\ AtEvent
  BY <1>1, ParsingIs DEF IsAt, Event, AtEvent
<1>4. Event = Before(r.protocol, ArgumentOf(r.function, k))[e]
  BY <1>1, <1>3 DEF HasEvents
<1>5. Event.ev = "start"
  BY <1>4, ParsingIs, TagIs
<1>6. QED
  BY SMTT(30), <1>1, <1>2, <1>3, <1>4, <1>5 DEF HasEvents

\* The first tag of an argument in SOAP, and the tag for the type in XML-RPC.
LEMMA ArgumentFound ==
  ASSUME NEW r, Parsing(r), Findable(r),
         NEW k \in 1 .. Len(In(r.function)), Looked(r, Parser, k - 1)
  PROVE  /\ function = r.function /\ function # "none" /\ error = "OK"
         /\ NextArgument = In(r.function)[k] /\ NextArgument # 0
         /\ Params[function][NextArgument] = ArgumentOf(r.function, k)
<1>1. PICK f \in Function : f = r.function /\ f \in Registered
  BY ParsingIs DEF Findable
<1>2. function = f /\ num = Pointer(f, k - 1) /\ error = "OK"
  BY <1>1 DEF Looked, Parser, Known
<1>3. f # "none"
  BY XmlAssumption
<1>4. /\ {i \in ToSet(In(f)) : i > num} # {}
      /\ Min({i \in ToSet(In(f)) : i > num}) = In(f)[k]
  BY <1>1, <1>2, NextIs
<1>5. NextArgument = In(f)[k]
  BY <1>2, <1>4 DEF NextArgument
<1>6. In(f)[k] # 0
  BY <1>1, ArgumentIs DEF Index
<1>7. QED
  BY <1>1, <1>2, <1>3, <1>5, <1>6 DEF ArgumentOf

\* Inside an argument.
LEMMA ArgumentEntered ==
  ASSUME NEW r, Parsing(r), Findable(r),
         NEW k \in 1 .. Len(In(r.function)), Looked(r, Parser, k - 1),
         at' = [part |-> k + 1, event |-> Tags(r.protocol) + 1],
         level' = Base(r.protocol) + Tags(r.protocol), num' = In(r.function)[k],
         function' = function, error' = error, data' = data
  PROVE  Place(r, Parser')
<1>0. PICK f \in Function : f = r.function /\ f \in Registered
  BY ParsingIs DEF Findable
<1>1. /\ function = f /\ error = "OK" /\ Collected(r, data[f], k - 1, k - 1)
  BY <1>0 DEF Looked, Parser, Known
<1>2. PICK n \in Nat : n = Len(In(f))
  BY ArgumentIs
<1>3. Collected(r, data[f], k - 1, k)
  <2>1. \A i \in 1 .. n : i > k => i > k - 1
    BY <1>0, <1>2
  <2>2. QED
    BY <1>0, <1>1, <1>2, <2>1 DEF Collected
<1>4. data[f][In(f)[k]] = NoData(ArgumentOf(f, k))
  <2>1. k > k - 1
    BY <1>0, <1>2
  <2>2. QED
    BY <1>0, <1>1, <2>1 DEF Collected
<1>5. IsCall(r)
  BY ParsingIs
<1>6. IsMarkup(r.contents[k])
  BY <1>5, CallIs
<1>7. Partial(ArgumentOf(f, k), r.contents[k], 0, data[f][In(f)[k]])
  BY <1>4, <1>6, PartialBegins
<1>8. 0 \in 0 .. Len(r.contents[k]) /\ Depth(r.contents[k], 0) = 0
  BY ArgumentPart, DepthIs
<1>9. Tags(r.protocol) \in 1 .. 3 /\ Base(r.protocol) \in 2 .. 3
  BY ParsingIs, TagIs
<1>10. PICK s : s = Parser'
  OBVIOUS
<1>11. /\ s.at = [part |-> k + 1, event |-> Tags(r.protocol) + 0 + 1]
       /\ s.level = Base(r.protocol) + Tags(r.protocol) + Depth(r.contents[k], 0)
       /\ s.function = r.function /\ s.num = In(r.function)[k] /\ s.error = "OK"
       /\ s.data = data
  BY <1>0, <1>1, <1>8, <1>9, <1>10 DEF Parser
<1>12. Place(r, s)
  <2>1. /\ Collected(r, s.data[r.function], k - 1, k)
        /\ Partial(ArgumentOf(r.function, k), r.contents[k], 0, s.data[r.function][In(r.function)[k]])
    BY <1>0, <1>3, <1>7, <1>11
  <2>2. ~(0 > 0)
    OBVIOUS
  <2>3. QED
    BY ZenonT(60), <1>5, <1>8, <1>11, <2>1, <2>2, ContentFollows
<1>13. QED
  BY <1>10, <1>12

\* The tag before an argument in SOAP.
LEMMA BeforeSoap ==
  ASSUME NEW r, Parsing(r), r.protocol = "SOAP",
         NEW k \in 1 .. Len(In(r.function)), NEW e \in 1 .. Tags(r.protocol), AtBefore(r, Parser, k, e), Callback
  PROVE  Onward(r)
<1>1. e = 1 /\ Tags(r.protocol) = 1 /\ Base(r.protocol) = 3
  BY DEF Tags, Base
<1>2. IsAt(k + 1, e) /\ level = 3 /\ Looked(r, Parser, k - 1)
  BY <1>1 DEF AtBefore, Parser, IsAt
<1>3. /\ Event = Before(r.protocol, ArgumentOf(r.function, k))[1] /\ Event.ev = "start" /\ AtEvent
      /\ e < Len(document[k + 1])
  BY <1>1, <1>2, BeforeIs
<1>4. /\ request = r /\ proc = "parsing" /\ Buffers(data) /\ r.function \in Function /\ k \in Nat
      /\ r.protocol \in Protocol
  BY ParsingIs
<1>5. SoapArgument
  BY <1>2, <1>3, <1>4, NextCallback DEF SoapEnvelope, SoapMethod, SoapNested
<1>6. CASE ~Findable(r)
  <2>1. function = "none"
    BY <1>2, <1>6 DEF Looked, Parser, Known
  <2>2. Abort
    BY <1>5, <2>1 DEF SoapArgument, Asserted
  <2>3. QED
    BY <1>6, <2>2, AbortIs
<1>7. CASE Findable(r)
  <2>1. /\ function # "none" /\ NextArgument = In(r.function)[k] /\ NextArgument # 0
        /\ Params[function][NextArgument] = ArgumentOf(r.function, k)
    BY <1>2, <1>7, ArgumentFound
  <2>2. Event.name = ArgumentOf(r.function, k).name
    BY <1>3, <1>4, TagIs
  <2>3. Reported /\ level' = 4 /\ num' = In(r.function)[k] /\ UNCHANGED <<call, data>>
    BY <1>5, <2>1, <2>2 DEF SoapArgument, Asserted
  <2>4. /\ at' = [part |-> k + 1, event |-> Tags(r.protocol) + 1]
        /\ proc' = proc /\ document' = document
    BY <1>1, <1>2, <1>3, <1>4, <2>3, Proceeds
  <2>5. level' = Base(r.protocol) + Tags(r.protocol)
    BY <1>1, <2>3
  <2>6. Place(r, Parser')
    BY <1>2, <1>7, <2>3, <2>4, <2>5, ArgumentEntered DEF call
  <2>7. QED
    BY <1>4, <2>3, <2>4, <2>6 DEF Onward, call
<1>8. QED
  BY <1>6, <1>7

\* The tags before an argument in XML-RPC.
LEMMA BeforeXmlrpc ==
  ASSUME NEW r, Parsing(r), r.protocol = "XMLRPC",
         NEW k \in 1 .. Len(In(r.function)), NEW e \in 1 .. Tags(r.protocol), AtBefore(r, Parser, k, e), Callback
  PROVE  Onward(r)
<1>1. e \in 1 .. 3 /\ Tags(r.protocol) = 3 /\ Base(r.protocol) = 2
  BY DEF Tags, Base
<1>2. IsAt(k + 1, e) /\ level = 1 + e /\ Looked(r, Parser, k - 1)
  BY <1>1 DEF AtBefore, Parser, IsAt
<1>3. /\ Event = Before(r.protocol, ArgumentOf(r.function, k))[e] /\ Event.ev = "start" /\ AtEvent
      /\ e < Len(document[k + 1])
  BY <1>1, <1>2, BeforeIs
<1>4. /\ request = r /\ proc = "parsing" /\ Buffers(data) /\ r.function \in Function /\ k \in Nat
      /\ r.protocol \in Protocol
  BY ParsingIs
<1>5. XmlrpcElement \/ XmlrpcArgument
  BY <1>2, <1>3, <1>4, NextCallback
<1>6. CASE e # 3
  <2>1. Reported /\ level' = level + 1 /\ UNCHANGED <<num, call, data>>
    <3>1. level # 4
      BY <1>1, <1>2, <1>6
    <3>2. XmlrpcElement
      BY <1>5, <3>1 DEF XmlrpcArgument
    <3>3. QED
      BY <3>2 DEF XmlrpcElement
  <2>2. PICK d \in 1 .. 3 : d = e + 1
    BY <1>1, <1>6
  <2>3. at' = [part |-> k + 1, event |-> d] /\ proc' = proc /\ document' = document
    BY <1>1, <1>2, <1>3, <1>4, <2>1, <2>2, Proceeds
  <2>4. Looked(r, Parser', k - 1)
    BY <1>2, <2>1 DEF Looked, Parser, call
  <2>5. AtBefore(r, Parser', k, d)
    BY <1>1, <1>2, <2>1, <2>2, <2>3, <2>4 DEF AtBefore, Parser
  <2>6. Place(r, Parser')
    BY <1>1, <2>5 DEF Place
  <2>7. QED
    BY <1>4, <2>1, <2>3, <2>6 DEF Onward, call
<1>7. CASE e = 3
  <2>1. XmlrpcArgument
    BY <1>2, <1>5, <1>7 DEF XmlrpcElement
  <2>2. CASE ~Findable(r)
    <3>1. function = "none"
      BY <1>2, <2>2 DEF Looked, Parser, Known
    <3>2. Abort
      BY <2>1, <3>1 DEF XmlrpcArgument, Asserted
    <3>3. QED
      BY <2>2, <3>2, AbortIs
  <2>3. CASE Findable(r)
    <3>1. /\ function # "none" /\ NextArgument = In(r.function)[k] /\ NextArgument # 0
          /\ Params[function][NextArgument] = ArgumentOf(r.function, k)
      BY <1>2, <2>3, ArgumentFound
    <3>2. Event.name = XmlrpcType[ArgumentOf(r.function, k).type]
      BY <1>3, <1>4, <1>7, TagIs
    <3>3. Reported /\ level' = 5 /\ num' = In(r.function)[k] /\ UNCHANGED <<call, data>>
      BY <2>1, <3>1, <3>2 DEF XmlrpcArgument, Asserted, call
    <3>4. /\ at' = [part |-> k + 1, event |-> Tags(r.protocol) + 1]
          /\ proc' = proc /\ document' = document
      BY <1>1, <1>2, <1>3, <1>4, <1>7, <3>3, Proceeds
    <3>5. level' = Base(r.protocol) + Tags(r.protocol)
      BY <1>1, <3>3
    <3>6. Place(r, Parser')
      BY <1>2, <2>3, <3>3, <3>4, <3>5, ArgumentEntered DEF call
    <3>7. QED
      BY <1>4, <3>3, <3>4, <3>6 DEF Onward, call
  <2>4. QED
    BY <2>2, <2>3
<1>8. QED
  BY <1>6, <1>7

-----------------------------------------------------------------------------
(* The tags behind an argument, and at the end.                            *)
\* A tag behind an argument.
LEMMA BehindStep ==
  ASSUME NEW r, Parsing(r),
         NEW k \in 1 .. Len(In(r.function)), NEW e \in 1 .. Tags(r.protocol),
         AtBehind(r, r.contents[k], Parser, k, e), Callback
  PROVE  Onward(r)
<1>0. PICK t \in 1 .. 3 : t = Tags(r.protocol)
  BY ParsingIs, TagIs
<1>1. PICK m \in Nat : m = Len(r.contents[k])
  BY ArgumentPart
<1>2. PICK d \in Nat : d = t + m + e
  BY <1>0, <1>1
<1>3. IsAt(k + 1, d) /\ level = Base(r.protocol) + t + 1 - e /\ Looked(r, Parser, k)
  BY <1>0, <1>1, <1>2 DEF AtBehind, Parser, IsAt
<1>4. /\ request = r /\ proc = "parsing" /\ Buffers(data) /\ k \in Nat /\ r.protocol \in Protocol
      /\ \/ r.protocol = "SOAP" /\ t = 1 /\ e = 1 /\ Base(r.protocol) = 3
         \/ r.protocol = "XMLRPC" /\ t = 3 /\ e \in 1 .. 3 /\ Base(r.protocol) = 2
  <2>1. request = r /\ proc = "parsing" /\ Buffers(data) /\ k \in Nat /\ r.protocol \in Protocol
    BY ParsingIs
  <2>2. CASE r.protocol = "SOAP"
    BY <1>0, <2>1, <2>2 DEF Tags, Base
  <2>3. CASE r.protocol = "XMLRPC"
    BY <1>0, <2>1, <2>3 DEF Tags, Base
  <2>4. QED
    BY <2>1, <2>2, <2>3 DEF Protocol
<1>5. /\ HasEvents(document[k + 1], r.protocol, ArgumentOf(r.function, k), r.contents[k])
      /\ k + 1 \in DOMAIN document
  BY ArgumentPart
<1>6. Len(document[k + 1]) = 2 * t + m
  BY <1>0, <1>1, <1>5 DEF HasEvents
<1>7. Event = document[k + 1][d] /\ AtEvent
  BY <1>3, <1>4, <1>5 DEF IsAt, Event, AtEvent
<1>8. Event.ev = "end"
  <2>1. PICK p : p = ArgumentOf(r.function, k)
    OBVIOUS
  <2>2. Event = Behind(r.protocol, p)[e]
    BY <1>0, <1>1, <1>2, <1>5, <1>7, <2>1 DEF HasEvents
  <2>3. r.protocol \in Protocol
    BY <1>4
  <2>4. Behind(r.protocol, p)[e].ev = "end"
    BY <2>3, TagIs
  <2>5. QED
    BY <2>2, <2>4
<1>9. SoapEnd \/ XmlrpcEnd
  BY <1>4, <1>7, <1>8, NextCallback
<1>10. Reported /\ level' = level - 1 /\ UNCHANGED <<num, call, data>>
  BY <1>3, <1>4, <1>9 DEF SoapEnd, XmlrpcEnd, Reports
<1>11. Looked(r, Parser', k)
  BY <1>3, <1>10 DEF Looked, Parser, call
<1>12. CASE e = t
  <2>1. /\ at' = [part |-> k + 1 + 1, event |-> 1]
        /\ proc' = proc /\ document' = document
    BY <1>2, <1>3, <1>4, <1>6, <1>10, <1>12, Proceeds
  <2>2. Parser'.at = [part |-> k + 2, event |-> 1] /\ Parser'.level = Base(r.protocol)
    BY <1>3, <1>4, <1>10, <1>12, <2>1 DEF Parser
  <2>3. k \in 0 .. Len(In(r.function)) /\ IsCall(r)
    BY ParsingIs
  <2>4. Place(r, Parser')
    BY <1>11, <2>2, <2>3, PartBegins
  <2>5. QED
    BY <1>4, <1>10, <2>1, <2>4 DEF Onward, call
<1>13. CASE e # t
  <2>1. PICK g \in 1 .. t : g = e + 1 /\ d + 1 = t + m + g
    BY <1>0, <1>2, <1>13
  <2>2. d < 2 * t + m
    BY <1>0, <1>2, <1>13
  <2>3. /\ at' = [part |-> k + 1, event |-> t + m + g]
        /\ proc' = proc /\ document' = document
    BY SMTT(30), <1>3, <1>4, <1>6, <1>10, <2>1, <2>2, Proceeds
  <2>4. level' = Base(r.protocol) + t + 1 - g
    BY SMTT(30), <1>3, <1>4, <1>10, <2>1
  <2>5. AtBehind(r, r.contents[k], Parser', k, g)
    BY <1>0, <1>1, <1>11, <2>3, <2>4 DEF AtBehind, Parser
  <2>6. Place(r, Parser')
    BY <1>0, <2>1, <2>5 DEF Place
  <2>7. QED
    BY <1>4, <1>10, <2>3, <2>6 DEF Onward, call
<1>14. QED
  BY <1>12, <1>13

\* A tag behind the last argument.
LEMMA ClosingStep ==
  ASSUME NEW r, Parsing(r),
         NEW j \in 1 .. Base(r.protocol), AtClosing(r, Parser, j), Callback
  PROVE  Onward(r)
<1>0. PICK n \in Nat : n = Len(In(r.function))
  BY ParsingIs
<1>1. /\ request = r /\ proc = "parsing" /\ Buffers(data) /\ r.protocol \in Protocol
      /\ document[n + 2] = Closing(r) /\ n + 2 \in DOMAIN document
  BY <1>0, ParsingIs
<1>2. PICK b \in 2 .. 3 : b = Base(r.protocol)
  BY <1>1, TagIs
<1>3. /\ Len(document[n + 2]) = b /\ document[n + 2][j].ev = "end"
      /\ r.protocol = "SOAP" \/ r.protocol = "XMLRPC"
  <2>1. CASE r.protocol = "SOAP"
    <3>1. document[n + 2] = <<End(r.function), End("SOAP-ENV:Body"), End("SOAP-ENV:Envelope")>> /\ b = 3
      BY <1>1, <1>2, <2>1 DEF Closing, Base
    <3>2. QED
      BY <1>2, <2>1, <3>1 DEF End
  <2>2. CASE r.protocol = "XMLRPC"
    <3>1. document[n + 2] = <<End("params"), End("methodCall")>> /\ b = 2
      BY <1>1, <1>2, <2>2 DEF Closing, Base
    <3>2. QED
      BY <1>2, <2>2, <3>1 DEF End
  <2>3. QED
    BY <1>1, <2>1, <2>2 DEF Protocol
<1>4. IsAt(n + 2, j) /\ level = b + 1 - j /\ Looked(r, Parser, n)
  BY <1>0, <1>2 DEF AtClosing, Parser, IsAt
<1>5. Event = document[n + 2][j] /\ AtEvent /\ Event.ev = "end"
  BY <1>1, <1>3, <1>4 DEF IsAt, Event, AtEvent
<1>6. SoapEnd \/ XmlrpcEnd
  BY <1>1, <1>3, <1>5, NextCallback
<1>7. Reported /\ level' = level - 1 /\ UNCHANGED <<num, call, data>>
  BY <1>2, <1>4, <1>6 DEF SoapEnd, XmlrpcEnd
<1>8. Looked(r, Parser', n)
  BY <1>4, <1>7 DEF Looked, Parser, call
<1>9. Place(r, Parser') /\ proc' = proc /\ document' = document
  <2>1. CASE j < b
    <3>1. PICK l \in 1 .. b : l = j + 1
      BY <1>2, <2>1
    <3>2. at' = [part |-> n + 2, event |-> l] /\ proc' = proc /\ document' = document
      BY <1>2, <1>3, <1>4, <1>7, <2>1, <3>1, Proceeds
    <3>3. AtClosing(r, Parser', l)
      BY <1>0, <1>2, <1>4, <1>7, <1>8, <3>1, <3>2 DEF AtClosing, Parser
    <3>4. QED
      BY <1>2, <3>1, <3>2, <3>3 DEF Place
  <2>2. CASE ~(j < b)
    <3>1. j = b
      BY <1>2, <2>2
    <3>2. at' = [part |-> n + 2 + 1, event |-> 1] /\ proc' = proc /\ document' = document
      BY <1>2, <1>3, <1>4, <1>7, <2>2, Proceeds
    <3>3. AtEnd(r, Parser')
      BY <1>0, <1>2, <1>4, <1>7, <1>8, <3>1, <3>2 DEF AtEnd, Parser
    <3>4. QED
      BY <3>2, <3>3 DEF Place
  <2>3. QED
    BY <2>1, <2>2
<1>10. QED
  BY <1>1, <1>7, <1>9 DEF Onward, call

-----------------------------------------------------------------------------
(* The content of an argument.                                             *)
\* Pieces have no tags.
LEMMA PlainEvents ==
  ASSUME NEW p, NEW arg, NEW c, IsPlain(p, arg, c), NEW j \in 1 .. Len(c)
  PROVE  c[j].ev \in {"text", "error"}
BY CharactersAre DEF IsPlain

\* What is known inside argument k.
InsideArgument(r, c, k, j) ==
  /\ Findable(r) /\ r.function \in Function /\ r.function # "none"
  /\ In(r.function)[k] \in Index(r.function) /\ In(r.function)[k] # 0
  /\ Params[r.function][In(r.function)[k]] = ArgumentOf(r.function, k)
  /\ ArgumentOf(r.function, k).type \in Type \ {"VOID"} /\ ArgumentOf(r.function, k).size \in Nat
  /\ ArgumentOf(r.function, k).mode # "OUT"
  /\ function = r.function /\ num = In(r.function)[k] /\ error = "OK"
  /\ IsAt(k + 1, Tags(r.protocol) + j)
  /\ level = Base(r.protocol) + Tags(r.protocol) + Depth(c, j - 1)
  /\ Event = c[j] /\ AtEvent /\ c[j] \in EventSet
  /\ Len(document[k + 1]) = 2 * Tags(r.protocol) + Len(c)
  /\ Holds(ArgumentOf(r.function, k), data[r.function][In(r.function)[k]])
  /\ Partial(ArgumentOf(r.function, k), c, j - 1, data[r.function][In(r.function)[k]])
  /\ Collected(r, data[r.function], k - 1, k)

\* An argument travels in the request.
LEMMA PointerOfArgument ==
  ASSUME NEW f \in Function, NEW k \in 1 .. Len(In(f))
  PROVE  In(f)[k] # 0 /\ Params[f][In(f)[k]].mode # "OUT"
<1>1. In(f)[k] \in Index(f)
  BY ArgumentIs
<1>2. In(f)[k] \in InSet(f)
  BY Travelling, Visited DEF Index
<1>3. QED
  BY <1>1, <1>2 DEF Index, InSet

\* What is known inside an argument.
LEMMA InContent ==
  ASSUME NEW r, Parsing(r),
         NEW k \in 1 .. Len(In(r.function)), NEW j \in 1 .. Len(r.contents[k]),
         AtContent(r, r.contents[k], Parser, k, j)
  PROVE  InsideArgument(r, r.contents[k], k, j)
<1>1. Findable(r) /\ r.function \in Function /\ r.function # "none"
  BY ParsingIs, XmlAssumption DEF AtContent, Findable
<1>2. /\ In(r.function)[k] \in Index(r.function) /\ In(r.function)[k] # 0
      /\ ArgumentOf(r.function, k).type \in Type \ {"VOID"}
  BY <1>1, ArgumentIs DEF ArgumentOf, Index
<1>3. ArgumentOf(r.function, k).mode # "OUT"
  BY <1>1, PointerOfArgument DEF ArgumentOf
<1>4. ArgumentOf(r.function, k).size \in Nat
  BY <1>1, <1>2, ParameterIs DEF ArgumentOf
<1>5. /\ function = r.function /\ num = In(r.function)[k] /\ error = "OK"
      /\ IsAt(k + 1, Tags(r.protocol) + j)
      /\ level = Base(r.protocol) + Tags(r.protocol) + Depth(r.contents[k], j - 1)
      /\ Partial(ArgumentOf(r.function, k), r.contents[k], j - 1,
                 data[r.function][In(r.function)[k]])
      /\ Collected(r, data[r.function], k - 1, k)
  BY DEF AtContent, Parser, IsAt
<1>6. /\ HasEvents(document[k + 1], r.protocol, ArgumentOf(r.function, k), r.contents[k])
      /\ r.contents[k] \in Seq(EventSet) /\ k + 1 \in DOMAIN document
  BY ArgumentPart
<1>7. Event = r.contents[k][j] /\ AtEvent
  BY <1>5, <1>6, ParsingIs DEF IsAt, Event, AtEvent, HasEvents
<1>8. Holds(ArgumentOf(r.function, k), data[r.function][In(r.function)[k]])
  BY <1>1, <1>2, ParsingIs DEF Buffers, ArgumentOf, Findable
<1>9. r.contents[k][j] \in EventSet /\ Len(document[k + 1]) = 2 * Tags(r.protocol) + Len(r.contents[k])
  BY <1>6 DEF HasEvents
<1>10. QED
  BY <1>1, <1>2, <1>3, <1>4, <1>5, <1>7, <1>8, <1>9 DEF InsideArgument, ArgumentOf

\* A callback has stored an event of an argument.
LEMMA ContentGoesOn ==
  ASSUME NEW r, Parsing(r),
         NEW k \in 1 .. Len(In(r.function)), NEW j \in 1 .. Len(r.contents[k]),
         InsideArgument(r, r.contents[k], k, j), r.contents[k][j].ev # "error",
         Reported, level' = Base(r.protocol) + Tags(r.protocol) + Depth(r.contents[k], j), UNCHANGED <<num, call>>,
         NEW next, IsStored(data', data, r.function, In(r.function)[k], next),
         Holds(ArgumentOf(r.function, k), next),
         Partial(ArgumentOf(r.function, k), r.contents[k], j, next)
  PROVE  Onward(r)
<1>0. PICK f \in Registered : f = r.function /\ f \in Function
  BY DEF InsideArgument, Findable
<1>1. PICK i \in Index(f) : i = In(f)[k] /\ Params[f][i] = ArgumentOf(f, k)
  BY <1>0 DEF InsideArgument
<1>2. Buffers(data)
  BY ParsingIs
<1>3. /\ Buffers(data') /\ data'[f][i] = next
      /\ \A l \in Index(f) : l # i => data'[f][l] = data[f][l]
  <2>1. IsStored(data', data, f, i, next) /\ Holds(Params[f][i], next)
    BY <1>0, <1>1
  <2>2. QED
    BY <1>2, <2>1, BufferStored
<1>4. Collected(r, data'[f], k - 1, k)
  <2>1. Collected(r, data[f], k - 1, k)
    BY <1>0 DEF InsideArgument
  <2>2. \A l \in 1 .. Len(In(f)) : l # k => In(f)[l] \in Index(f) /\ In(f)[l] # i
    BY <1>0, <1>1, ArgumentIs
  <2>3. \A l \in 1 .. Len(In(f)) : (l <= k - 1 \/ l > k) => l # k
    BY ParsingIs
  <2>4. i # In(f)[k] \/ Params[f][i].mode # "OUT"
    BY <1>0, <1>1 DEF InsideArgument
  <2>5. QED
    BY <1>0, <1>1, <1>3, <2>1, <2>2, <2>3, <2>4 DEF Collected
<1>5. IsAt(k + 1, Tags(r.protocol) + j) /\ Len(document[k + 1]) = 2 * Tags(r.protocol) + Len(r.contents[k])
  BY DEF InsideArgument
<1>6. PICK t \in 1 .. 3 : t = Tags(r.protocol)
  BY ParsingIs, TagIs
<1>7. Len(r.contents[k]) \in Nat /\ k \in Nat /\ j \in Nat
  BY ArgumentPart, ParsingIs
<1>8. t + j < 2 * t + Len(r.contents[k])
  BY <1>6, <1>7
<1>9. /\ at' = [part |-> k + 1, event |-> Tags(r.protocol) + j + 1]
      /\ proc' = proc /\ document' = document
  <2>1. PICK d \in Nat : d = t + j
    BY <1>6, <1>7
  <2>2. IsAt(k + 1, d) /\ d < Len(document[k + 1])
    BY <1>5, <1>6, <1>8, <2>1
  <2>3. at' = [part |-> k + 1, event |-> d + 1] /\ proc' = proc /\ document' = document
    BY <1>7, <2>2, Proceeds
  <2>4. QED
    BY <1>6, <2>1, <2>3
<1>10. PICK s : s = Parser'
  OBVIOUS
<1>11. /\ s.at = [part |-> k + 1, event |-> Tags(r.protocol) + j + 1]
       /\ s.level = Base(r.protocol) + Tags(r.protocol) + Depth(r.contents[k], j)
       /\ s.function = r.function /\ s.num = In(r.function)[k] /\ s.error = "OK"
       /\ s.data = data'
  BY <1>9, <1>10 DEF Parser, InsideArgument, call
<1>12. r.contents[k][j] # Malformed /\ j \in 0 .. Len(r.contents[k])
  BY <1>7, CharactersAre
<1>13. IsCall(r) /\ Findable(r)
  BY ParsingIs DEF InsideArgument
<1>14. Place(r, s)
  BY <1>0, <1>1, <1>3, <1>4, <1>11, <1>12, <1>13, ContentFollows
<1>15. QED
  BY <1>3, <1>9, <1>10, <1>14, ParsingIs DEF Onward, call

\* An event of the content of an argument.
LEMMA ContentStep ==
  ASSUME NEW r, Parsing(r),
         NEW k \in 1 .. Len(In(r.function)), NEW j \in 1 .. Len(r.contents[k]),
         AtContent(r, r.contents[k], Parser, k, j), Callback
  PROVE  Onward(r)
<1>0. InsideArgument(r, r.contents[k], k, j)
  BY InContent
<1>1. PICK c : c = r.contents[k]
  OBVIOUS
<1>2. PICK e \in EventSet : e = c[j]
  BY <1>0, <1>1 DEF InsideArgument
<1>3. PICK f \in Registered : f = r.function /\ f \in Function
  BY <1>0 DEF InsideArgument, Findable
<1>4. PICK i \in Index(f) : i = In(f)[k]
  BY <1>0, <1>3 DEF InsideArgument
<1>5. PICK p : p = ArgumentOf(f, k)
  OBVIOUS
<1>6. PICK value : value = data[f][i]
  OBVIOUS
<1>7. /\ function = f /\ num = i /\ Params[f][i] = p /\ p.type \in Type \ {"VOID"} /\ p.size \in Nat
      /\ function # "none" /\ num # 0 /\ p.mode # "OUT"
      /\ level = Base(r.protocol) + Tags(r.protocol) + Depth(c, j - 1)
      /\ Event = e /\ AtEvent /\ Holds(p, value)
      /\ Partial(p, c, j - 1, value)
  BY <1>0, <1>1, <1>2, <1>3, <1>4, <1>5, <1>6 DEF InsideArgument
<1>8. IsArgument
  BY <1>7 DEF IsArgument
<1>9. /\ request = r /\ proc = "parsing" /\ Buffers(data)
      /\ r.protocol \in Protocol
  BY ParsingIs
<1>10. /\ r.args[k] \in Passed(p.type) /\ IsMarkup(c)
       /\ (p.type = "XML" /\ r.protocol = "SOAP") \/ IsPlain(p, r.args[k], c)
  BY <1>1, <1>3, <1>5, ParsingIs, CallIs
<1>11. /\ j \in Nat \ {0} /\ j - 1 \in Nat /\ j \in 1 .. Len(c)
       /\ c \in Seq(EventSet) /\ Depth(c, j) \in Nat
  BY <1>1, <1>10 DEF IsMarkup
<1>12. /\ Depth(c, 0) = 0 /\ Depth(c, j - 1) \in Int
       /\ e.ev = "start" => Depth(c, j) = Depth(c, j - 1) + 1
       /\ e.ev = "end" => Depth(c, j) = Depth(c, j - 1) - 1
       /\ e.ev \notin {"start", "end"} => Depth(c, j) = Depth(c, j - 1)
  <2>1. PICK m \in Nat : m = j - 1 /\ m + 1 = j
    BY <1>11
  <2>2. QED
    BY <1>2, <2>1, DepthIs
<1>13. Depth(c, j - 1) \in Nat
  <2>1. CASE j = 1
    BY <1>12, <2>1
  <2>2. CASE j # 1
    <3>1. j - 1 \in 1 .. Len(c)
      BY <1>11, <2>2
    <3>2. QED
      BY <1>10, <3>1 DEF IsMarkup
  <2>3. QED
    BY <2>1, <2>2
<1>14. /\ Tags("SOAP") = 1 /\ Base("SOAP") = 3 /\ Tags("XMLRPC") = 3 /\ Base("XMLRPC") = 2
  BY DEF Tags, Base
<1>15. ASSUME p.type = "XML", Reported, UNCHANGED <<num, call>>,
              level' = Base(r.protocol) + Tags(r.protocol) + Depth(c, j), e.ev # "error",
              NEW next, data' = [data EXCEPT ![function][num] = next],
              Holds(p, next), next = Snprintf(p, value, Written(e)) \/ next = value \o Written(e)
       PROVE  Onward(r)
  <2>1. Partial(p, c, j, next)
    BY <1>2, <1>7, <1>10, <1>11, <1>15, AppendGoesOn
  <2>2. IsStored(data', data, r.function, In(r.function)[k], next)
    BY <1>3, <1>4, <1>7, <1>15 DEF IsStored
  <2>3. level' = Base(r.protocol) + Tags(r.protocol) + Depth(r.contents[k], j)
    BY <1>1, <1>15
  <2>4. QED
    BY <1>0, <1>1, <1>2, <1>3, <1>5, <1>15, <2>1, <2>2, <2>3, ContentGoesOn
<1>16. ASSUME e.ev \in {"start", "end"} PROVE p.type = "XML" /\ r.protocol = "SOAP"
  BY <1>2, <1>10, <1>11, <1>16, PlainEvents
<1>17. CASE e.ev = "error"
  <2>1. ReportError
    BY <1>7, <1>9, <1>17, NextCallback
  <2>2. proc' = "parsed" /\ ecode' = TRUE /\ UNCHANGED <<ctx, data>>
    BY <2>1 DEF ReportError, Parsed
  <2>3. QED
    BY <1>9, <2>2 DEF Onward, ctx
<1>18. CASE e.ev = "start"
  <2>1. p.type = "XML" /\ r.protocol = "SOAP" /\ level = 4 + Depth(c, j - 1)
    BY <1>7, <1>14, <1>16, <1>18
  <2>2. SoapEnvelope \/ SoapMethod \/ SoapArgument \/ SoapNested
    BY <1>7, <1>9, <1>18, <2>1, NextCallback
  <2>3. SoapNested
    BY <1>13, <2>1, <2>2 DEF SoapEnvelope, SoapMethod, SoapArgument
  <2>4. Reported /\ level' = level + 1 /\ AppendTag(StartTag(e)) /\ UNCHANGED <<num, call>>
    BY <1>7, <1>8, <2>1, <2>3 DEF SoapNested, Asserted
  <2>5. Written(e) = StartTag(e) /\ Written(e) \in Text
    BY <1>18, WrittenIsText
  <2>6. PICK next : next = Snprintf(p, value, Written(e))
    OBVIOUS
  <2>7. data' = [data EXCEPT ![function][num] = next]
    BY <1>3, <1>4, <1>6, <1>7, <2>4, <2>5, <2>6 DEF AppendTag
  <2>8. Holds(p, next)
    BY <1>7, <2>1, <2>5, <2>6, SnprintfHolds
  <2>9. level' = Base(r.protocol) + Tags(r.protocol) + Depth(c, j) /\ e.ev # "error"
    BY <1>12, <1>14, <1>18, <2>1, <2>4
  <2>10. QED
    BY <1>15, <2>1, <2>4, <2>6, <2>7, <2>8, <2>9
<1>19. CASE e.ev = "end"
  <2>1. p.type = "XML" /\ r.protocol = "SOAP" /\ level = 4 + Depth(c, j - 1) /\ level > 4
    BY <1>7, <1>11, <1>12, <1>14, <1>16, <1>19
  <2>2. SoapEnd
    BY <1>7, <1>9, <1>19, <2>1, NextCallback
  <2>3. Reported /\ level' = level - 1 /\ AppendTag(EndTag(e)) /\ UNCHANGED <<num, call>>
    BY <1>7, <2>1, <2>2 DEF SoapEnd
  <2>4. Written(e) = EndTag(e) /\ Written(e) \in Text
    BY <1>19, WrittenIsText
  <2>5. PICK next : next = Snprintf(p, value, Written(e))
    OBVIOUS
  <2>6. data' = [data EXCEPT ![function][num] = next]
    BY <1>3, <1>4, <1>6, <1>7, <2>3, <2>4, <2>5 DEF AppendTag
  <2>7. Holds(p, next)
    BY <1>7, <2>1, <2>4, <2>5, SnprintfHolds
  <2>8. level' = Base(r.protocol) + Tags(r.protocol) + Depth(c, j) /\ e.ev # "error"
    BY <1>12, <1>14, <1>19, <2>1, <2>3
  <2>9. QED
    BY <1>15, <2>1, <2>3, <2>5, <2>6, <2>7, <2>8
<1>20. CASE e.ev = "text"
  <2>1. e.text \in Text /\ Written(e) = e.text
    BY <1>20, EventIs, WrittenIsText
  <2>2. StoreContent
    <3>1. CASE r.protocol = "SOAP"
      <4>1. SoapContent
        BY <1>7, <1>9, <1>20, <3>1, NextCallback
      <4>2. QED
        BY <1>8, <4>1 DEF SoapContent, Asserted
    <3>2. CASE r.protocol = "XMLRPC"
      <4>1. XmlrpcMethodName \/ XmlrpcContent
        BY <1>7, <1>9, <1>20, <3>2, NextCallback
      <4>2. level # 2
        BY <1>7, <1>13, <1>14, <3>2
      <4>3. XmlrpcContent
        BY <4>1, <4>2 DEF XmlrpcMethodName
      <4>4. QED
        BY <1>8, <4>3 DEF XmlrpcContent, Asserted
    <3>3. QED
      BY <1>9, <3>1, <3>2 DEF Protocol
  <2>3. PICK stored : stored = SetParameter(p, value, e.text)
    OBVIOUS
  <2>4. Holds(p, stored.data)
    BY <1>3, <1>7, <2>1, <2>3, BufferHolds
  <2>5. data' = [data EXCEPT ![function][num] = stored.data] /\ UNCHANGED ctx
    BY <1>3, <1>4, <1>6, <1>7, <2>2, <2>3 DEF StoreContent
  <2>6. CASE stored.error = "OK"
    <3>1. Reported /\ UNCHANGED call
      BY <1>3, <1>4, <1>6, <1>7, <2>2, <2>3, <2>6 DEF StoreContent
    <3>2. level' = Base(r.protocol) + Tags(r.protocol) + Depth(r.contents[k], j) /\ UNCHANGED <<num, call>>
      BY <1>1, <1>7, <1>12, <1>20, <2>5, <3>1 DEF ctx
    <3>3. CASE p.type = "XML"
      <4>1. stored.data = value \o Written(e)
        BY <2>1, <2>3, <2>6, <3>3 DEF SetParameter, Stored
      <4>2. level' = Base(r.protocol) + Tags(r.protocol) + Depth(c, j)
        BY <1>1, <3>2
      <4>3. QED
        BY <1>15, <1>20, <2>4, <2>5, <3>1, <3>2, <3>3, <4>1, <4>2
    <3>4. CASE p.type # "XML"
      <4>1. Partial(p, c, j, stored.data)
        BY <1>2, <1>7, <1>11, <2>3, <2>6, <3>4, StoreArrives
      <4>2. IsStored(data', data, r.function, In(r.function)[k], stored.data)
        BY <1>3, <1>4, <1>7, <2>5 DEF IsStored
      <4>3. QED
        BY <1>0, <1>1, <1>2, <1>3, <1>5, <1>20, <2>4, <3>1, <3>2, <4>1, <4>2, ContentGoesOn
    <3>5. QED
      BY <3>3, <3>4
  <2>7. CASE stored.error # "OK"
    <3>1. proc' = "parsed" /\ ecode' = TRUE
      BY <1>3, <1>4, <1>6, <1>7, <2>2, <2>3, <2>7 DEF StoreContent, Parsed
    <3>2. IsStored(data', data, f, i, stored.data) /\ Holds(Params[f][i], stored.data)
      BY <1>7, <2>4, <2>5 DEF IsStored
    <3>3. Buffers(data')
      BY <1>9, <3>2, BufferStored
    <3>4. QED
      BY <2>5, <3>1, <3>3 DEF Onward, ctx
  <2>8. QED
    BY <2>6, <2>7
<1>21. QED
  BY <1>17, <1>18, <1>19, <1>20, EventIs

-----------------------------------------------------------------------------
(* The end of a document, and every place in it.                           *)
\* The document is read.
LEMMA EndStep ==
  ASSUME NEW r, Parsing(r), AtEnd(r, Parser), Callback
  PROVE  /\ proc' = "parsed" /\ UNCHANGED <<ctx, call, data>>
         /\ Looked(r, Parser, Len(In(r.function)))
<1>1. PICK n \in Nat : n = Len(In(r.function))
  BY ParsingIs
<1>2. DOMAIN document = 1 .. n + 2 /\ proc = "parsing"
  BY <1>1, ParsingIs
<1>3. at.part = n + 3 /\ Looked(r, Parser, n)
  BY <1>1 DEF AtEnd, Parser
<1>4. ~AtEvent
  BY <1>2, <1>3 DEF AtEvent
<1>5. EndDocument
  BY <1>2, <1>4, NextCallback
<1>6. QED
  BY <1>1, <1>3, <1>5 DEF EndDocument, Parsed

\* Wherever the parser is, the next callback leads to a place again or ends it.
LEMMA PlaceStep ==
  ASSUME NEW r, Parsing(r), Place(r, Parser), Callback
  PROVE  \/ Onward(r)
         \/ /\ proc' = "parsed" /\ UNCHANGED <<ctx, call, data>>
            /\ Looked(r, Parser, Len(In(r.function)))
<1>1. r.protocol = "SOAP" \/ r.protocol = "XMLRPC"
  BY ParsingIs DEF Protocol
<1>2. ASSUME NEW j \in 1 .. OpeningLength(r), AtOpening(r, Parser, j)
      PROVE  Onward(r)
  BY <1>1, <1>2, OpeningSoap, OpeningXmlrpc DEF OpeningLength
<1>3. ASSUME NEW k \in 1 .. Len(In(r.function)), NEW e \in 1 .. Tags(r.protocol), AtBefore(r, Parser, k, e)
      PROVE  Onward(r)
  BY <1>1, <1>3, BeforeSoap, BeforeXmlrpc
<1>4. ASSUME NEW k \in 1 .. Len(In(r.function)), NEW j \in 1 .. Len(r.contents[k]),
             AtContent(r, r.contents[k], Parser, k, j)
      PROVE  Onward(r)
  BY <1>4, ContentStep
<1>5. ASSUME NEW k \in 1 .. Len(In(r.function)), NEW e \in 1 .. Tags(r.protocol),
             AtBehind(r, r.contents[k], Parser, k, e)
      PROVE  Onward(r)
  BY <1>5, BehindStep
<1>6. ASSUME NEW j \in 1 .. Base(r.protocol), AtClosing(r, Parser, j)
      PROVE  Onward(r)
  BY <1>6, ClosingStep
<1>7. QED
  BY <1>2, <1>3, <1>4, <1>5, <1>6, EndStep DEF Place

\* The index of an argument is a number.
LEMMA PointerIsNat ==
  ASSUME NEW f \in Function, NEW k \in 0 .. Len(In(f))
  PROVE  Pointer(f, k) \in Nat
<1>1. k # 0 => In(f)[k] \in Index(f)
  BY ArgumentIs
<1>2. QED
  BY <1>1 DEF Pointer, Index

\* So are level and index at every place.
LEMMA PlaceIsNat ==
  ASSUME NEW r, IsCall(r),
         NEW s, Place(r, s)
  PROVE  s.level \in Nat /\ s.num \in Nat
<1>1. PICK f \in Function : f = r.function
  BY DEF IsCall
<1>2. PICK n \in Nat : n = Len(In(f))
  BY ArgumentIs
<1>3. PICK t \in 1 .. 3 : t = Tags(r.protocol)
  BY TagIs DEF IsCall
<1>4. PICK b \in 2 .. 3 : b = Base(r.protocol)
  BY TagIs DEF IsCall
<1>5. ASSUME NEW k \in 0 .. n, Looked(r, s, k) PROVE s.num \in Nat
  BY <1>1, <1>2, <1>5, PointerIsNat DEF Looked
<1>6. ASSUME NEW j \in 1 .. OpeningLength(r), AtOpening(r, s, j)
      PROVE  s.level \in Nat /\ s.num \in Nat
  <2>1. s.num \in Nat
    BY <1>2, <1>5, <1>6 DEF AtOpening
  <2>2. OpeningLevel(r, j) \in Nat
    <3>1. j \in Nat /\ j > 0
      OBVIOUS
    <3>2. QED
      BY <3>1 DEF OpeningLevel
  <2>3. QED
    BY <1>6, <2>1, <2>2 DEF AtOpening
<1>7. ASSUME NEW k \in 1 .. n, NEW e \in 1 .. t, AtBefore(r, s, k, e)
      PROVE  s.level \in Nat /\ s.num \in Nat
  <2>1. PICK l \in 0 .. n : l = k - 1
    BY <1>2
  <2>2. Looked(r, s, l) /\ s.level = b + e - 1
    BY <1>4, <1>7, <2>1 DEF AtBefore
  <2>3. QED
    BY <1>5, <2>2
<1>8. ASSUME NEW k \in 1 .. n, NEW j \in 1 .. Len(r.contents[k]), AtContent(r, r.contents[k], s, k, j)
      PROVE  s.level \in Nat /\ s.num \in Nat
  <2>1. IsMarkup(r.contents[k])
    BY <1>1, <1>2, CallIs
  <2>2. Len(r.contents[k]) \in Nat
    BY <2>1 DEF IsMarkup
  <2>3. Depth(r.contents[k], j - 1) \in Nat
    <3>1. CASE j = 1
      BY <3>1, DepthIs
    <3>2. CASE j # 1
      <4>1. j - 1 \in 1 .. Len(r.contents[k])
        BY <2>2, <3>2
      <4>2. QED
        BY <2>1, <4>1 DEF IsMarkup
    <3>3. QED
      BY <3>1, <3>2
  <2>4. In(f)[k] \in Index(f)
    BY <1>2, ArgumentIs
  <2>5. PICK d \in Nat : d = Depth(r.contents[k], j - 1)
    BY <2>3
  <2>6. s.level = b + t + d /\ s.num = In(f)[k]
    BY <1>1, <1>3, <1>4, <1>8, <2>5 DEF AtContent
  <2>7. QED
    BY <2>4, <2>6 DEF Index
<1>9. ASSUME NEW k \in 1 .. n, NEW e \in 1 .. t, AtBehind(r, r.contents[k], s, k, e)
      PROVE  s.level \in Nat /\ s.num \in Nat
  BY <1>2, <1>3, <1>4, <1>5, <1>9 DEF AtBehind
<1>10. ASSUME NEW j \in 1 .. b, AtClosing(r, s, j) PROVE s.level \in Nat /\ s.num \in Nat
  <2>1. Looked(r, s, n) /\ s.level = b + 1 - j
    BY <1>1, <1>2, <1>4, <1>10 DEF AtClosing
  <2>2. QED
    BY <1>2, <1>5, <2>1
<1>11. ASSUME AtEnd(r, s) PROVE s.level \in Nat /\ s.num \in Nat
  BY <1>1, <1>2, <1>5, <1>11 DEF AtEnd
<1>12. QED
  BY <1>1, <1>2, <1>3, <1>4, <1>6, <1>7, <1>8, <1>9, <1>10, <1>11 DEF Place

-----------------------------------------------------------------------------
(* What no callback changes, and the values those variables keep.          *)
Kind == {"none", "fault", "result"}
Errors == Expected \cup {"OK", "DATATYPE_UNKNOWN"}
CallTyped ==
  /\ function \in Registered \cup {"none"} /\ error \in Errors
  /\ ecode \in BOOLEAN /\ response.kind \in Kind

\* An assertion that fails changes no part of a call.
LEMMA AbortKeeps ==
  ASSUME CallTyped, Abort
  PROVE  UNCHANGED <<request, history>> /\ CallTyped'
BY DEF Abort, history, call, CallTyped

\* Looking up the method keeps the types.
LEMMA LookupKeeps ==
  ASSUME CallTyped, NEW f, LookupMethod(f)
  PROVE  CallTyped'
BY DEF LookupMethod, CallTyped, Fault, Kind, Errors, Expected

\* So does storing an argument.
LEMMA StoreKeeps ==
  ASSUME CallTyped, StoreContent
  PROVE  UNCHANGED <<request, history>> /\ CallTyped'
<1>1. CASE Reported /\ UNCHANGED call
  BY <1>1 DEF Reported, history, call, CallTyped
<1>2. CASE /\ ecode' = TRUE
           /\ ErrorHandler \/ UNCHANGED <<error, response>>
           /\ UNCHANGED <<request, function, history>>
  BY <1>2 DEF ErrorHandler, CallTyped, history, Fault, Kind, Errors, Expected
<1>3. QED
  BY <1>1, <1>2 DEF StoreContent

\* No callback changes the request or the history.
LEMMA CallbackKeeps ==
  ASSUME CallTyped, Callback
  PROVE  UNCHANGED <<request, history>> /\ CallTyped'
<1>1. CASE StartDocument
  BY <1>1 DEF StartDocument, history, CallTyped, Errors
<1>2. CASE EndDocument
  BY <1>2 DEF EndDocument, history, call, CallTyped
<1>3. CASE ReportError
  BY <1>3 DEF ReportError, ErrorHandler, history, CallTyped, Fault, Kind, Errors, Expected
<1>4. CASE SoapEnvelope
  <2>1. Abort \/ (Reported /\ UNCHANGED call)
    BY <1>4 DEF SoapEnvelope, Asserted
  <2>2. QED
    BY <2>1, AbortKeeps DEF Reported, history, call, CallTyped
<1>5. CASE SoapMethod
  <2>1. Abort \/ (Reported /\ LookupMethod(Event.name))
    BY <1>5 DEF SoapMethod, Asserted
  <2>2. QED
    BY <2>1, AbortKeeps, LookupKeeps DEF Reported, history
<1>6. CASE SoapArgument
  <2>1. Abort \/ (Reported /\ UNCHANGED call)
    BY <1>6 DEF SoapArgument, Asserted
  <2>2. QED
    BY <2>1, AbortKeeps DEF Reported, history, call, CallTyped
<1>7. CASE SoapNested
  <2>1. Abort \/ (Reported /\ UNCHANGED call)
    BY <1>7 DEF SoapNested, Asserted
  <2>2. QED
    BY <2>1, AbortKeeps DEF Reported, history, call, CallTyped
<1>8. CASE SoapContent \/ XmlrpcContent
  <2>1. Abort \/ StoreContent
    BY <1>8 DEF SoapContent, XmlrpcContent, Asserted
  <2>2. QED
    BY <2>1, AbortKeeps, StoreKeeps
<1>9. CASE SoapEnd \/ XmlrpcElement \/ XmlrpcEnd
  BY <1>9 DEF SoapEnd, XmlrpcElement, XmlrpcEnd, Reported, history, call, CallTyped
<1>10. CASE XmlrpcArgument
  <2>1. Abort \/ /\ Reported /\ UNCHANGED <<function, ecode, response>>
                 /\ error' \in {error, "DATATYPE_UNKNOWN"}
    BY <1>10 DEF XmlrpcArgument, Asserted
  <2>2. QED
    BY <2>1, AbortKeeps DEF Reported, history, CallTyped, Errors
<1>11. CASE XmlrpcMethodName
  <2>1. Abort \/ (Reported /\ LookupMethod(Event.text[1]))
    BY <1>11 DEF XmlrpcMethodName, Asserted
  <2>2. QED
    BY <2>1, AbortKeeps, LookupKeeps DEF Reported, history
<1>12. QED
  BY <1>1, <1>2, <1>3, <1>4, <1>5, <1>6, <1>7, <1>8, <1>9, <1>10, <1>11 DEF Callback

-----------------------------------------------------------------------------
(* The inductive invariant.                                                *)
Process == {"idle", "received", "parsing", "parsed", "called", "ended", "aborted"}
Typed ==
  /\ proc \in Process
  /\ request.protocol \in Protocol /\ request.function \in Function \cup {"none"}
  /\ level \in Nat /\ num \in Nat
  /\ CallTyped /\ answer.kind \in Kind
  /\ Buffers(data)

\* The document is one a stub wrote for the request.
Sent ==
  /\ document = Document(request)
  /\ IF proc = "received" THEN at = Beginning ELSE Place(request, Parser)

\* The callbacks have found the function and all of its arguments.
Found ==
  /\ function = Known(request)
  /\ Findable(request) =>
       /\ error = "OK"
       /\ Collected(request, data[request.function], Len(In(request.function)), Len(In(request.function)))

\* The function was run with the arguments of the request.
Run ==
  /\ proc \in {"called", "idle"} /\ IsCall(request)
  /\ Findable(request) /\ function = request.function /\ error = "OK"
  /\ Collected(request, seen, Len(In(request.function)), Len(In(request.function)))

XmlInv ==
  /\ Typed
  /\ proc \in {"received", "parsing", "parsed"} => IsCall(request)
  /\ proc \in {"received", "parsing"} => ~ecode /\ Sent
  /\ proc = "parsed" /\ ~ecode => Found
  /\ proc = "called" /\ ~ecode /\ Findable(request) =>
       function = request.function /\ error = "OK"
  /\ StubRequestsAreServed
  /\ seen # <<>> => Run

\* New buffers fit, whatever malloc left in them.
LEMMA FreshHolds ==
  ASSUME NEW junk \in BOOLEAN
  PROVE  Buffers(Fresh(junk))
<1>1. \A f \in Registered : \A i \in Index(f) :
        Fresh(junk)[f][i] = IF junk THEN Junk(Params[f][i]) ELSE NoData(Params[f][i])
  BY DEF Fresh
<1>2. \A f \in Registered : \A i \in Index(f) : Holds(Params[f][i], Fresh(junk)[f][i])
  BY <1>1, ParameterIs, XmlAssumption
<1>3. Fresh(junk) = [f \in Registered |-> [i \in Index(f) |-> Fresh(junk)[f][i]]]
  BY DEF Fresh
<1>4. QED
  BY <1>2, <1>3 DEF Buffers

\* Buffers a function has stored its results in fit.
LEMMA FilledHolds ==
  ASSUME NEW d, Buffers(d), NEW f \in Registered, NEW values \in Result[f],
         \A k \in DOMAIN values : Fits(Params[f][Results(f)[k]], values[k])
  PROVE  BufferOf(f, Filled(f, d[f], values))
<1>1. f \in Function
  BY XmlAssumption
<1>2. PICK s \in Seq(Index(f)) : s = Results(f) /\ DOMAIN s = 1 .. Len(s)
  BY <1>1, ResultIs
<1>3. /\ DOMAIN values = DOMAIN s
      /\ \A k \in DOMAIN values : values[k] \in ValueOf(Params[f][s[k]].type)
  BY <1>2, XmlAssumption
<1>4. PICK b : b = Filled(f, d[f], values)
  OBVIOUS
<1>5. \A i \in Index(f) :
        b[i] = IF \E k \in DOMAIN values : s[k] = i
               THEN values[CHOOSE k \in DOMAIN values : s[k] = i] ELSE d[f][i]
  BY <1>2, <1>4 DEF Filled
<1>6. \A i \in Index(f) : Holds(Params[f][i], d[f][i])
  BY DEF Buffers
<1>7. ASSUME NEW k \in DOMAIN values PROVE Holds(Params[f][s[k]], values[k])
  <2>1. PICK p : p = Params[f][s[k]]
    OBVIOUS
  <2>2. PICK v : v = values[k]
    OBVIOUS
  <2>3. v \in ValueOf(p.type) /\ Fits(p, v) /\ p.type \in Type \ {"VOID"}
    BY <1>1, <1>2, <1>3, <2>1, <2>2, ResultIs
  <2>4. Holds(p, v)
    BY <2>3 DEF Holds, ValueOf, Fits, Type, Texts, Text
  <2>5. QED
    BY <2>1, <2>2, <2>4
<1>8. ASSUME NEW i \in Index(f) PROVE Holds(Params[f][i], b[i])
  <2>1. CASE \E k \in DOMAIN values : s[k] = i
    <3>1. PICK k \in DOMAIN values : k = CHOOSE l \in DOMAIN values : s[l] = i
      BY <2>1
    <3>2. s[k] = i
      BY <2>1, <3>1
    <3>3. b[i] = values[k]
      BY <1>5, <2>1, <3>1
    <3>4. QED
      BY <1>7, <3>2, <3>3
  <2>2. CASE ~\E k \in DOMAIN values : s[k] = i
    BY <1>5, <1>6, <2>2
  <2>3. QED
    BY <2>1, <2>2
<1>9. b = [i \in Index(f) |-> b[i]]
  BY <1>4 DEF Filled
<1>10. QED
  BY <1>4, <1>8, <1>9 DEF BufferOf

\* The listener starts.
LEMMA XmlInvInit ==
  ASSUME Init
  PROVE  XmlInv
<1>1. /\ proc = "idle" /\ request.protocol = "SOAP" /\ request.function = "none"
      /\ level = 0 /\ num = 0 /\ function = "none" /\ error = "OK" /\ ecode = FALSE
      /\ response.kind = "none" /\ answer.kind = "none" /\ seen = <<>>
      /\ \E junk \in BOOLEAN : data = Fresh(junk)
  BY DEF Init, Nothing
<1>2. Buffers(data)
  BY <1>1, FreshHolds
<1>3. QED
  BY <1>1, <1>2 DEF XmlInv, Typed, CallTyped, Process, Protocol, Kind, Errors, StubRequestsAreServed

\* A request is received.
LEMMA XmlInvReceives ==
  ASSUME XmlInv, NEW protocol \in Protocol, NEW f \in Function, NEW args \in Calls[f],
         NEW name \in Names(protocol, f), NEW contents \in Contents(protocol, f, args),
         ReceiveRequest([protocol |-> protocol, function |-> f, name |-> name,
                         args |-> args, contents |-> contents])
  PROVE  XmlInv'
<1>1. /\ request'.protocol = protocol /\ request'.function = f /\ request'.name = name
      /\ request'.args = args /\ request'.contents = contents
      /\ proc' = "received" /\ document' = Document(request') /\ at' = Beginning
      /\ function' = "none" /\ error' = "OK" /\ ecode' = FALSE /\ response' = response
      /\ seen' = <<>> /\ answer'.kind = "none" /\ level' = level /\ num' = num /\ data' = data
  BY DEF ReceiveRequest, Nothing, ctx
<1>2. IsCall(request')
  BY <1>1 DEF IsCall, ReceiveRequest
<1>3. Sent'
  BY <1>1 DEF Sent
<1>4. Typed'
  BY <1>1 DEF XmlInv, Typed, CallTyped, Process, Kind, Errors
<1>5. QED
  BY <1>1, <1>2, <1>3, <1>4 DEF XmlInv, StubRequestsAreServed

\* The parser starts.
LEMMA XmlInvStarts ==
  ASSUME XmlInv, StartDocument
  PROVE  XmlInv'
<1>1. /\ proc = "received" /\ proc' = "parsing" /\ function' = "none" /\ error' = "OK"
      /\ ecode' = ecode /\ response' = response /\ num' = 0 /\ level' = 0
      /\ request' = request /\ document' = document /\ at' = at /\ data' = data
      /\ seen' = seen /\ answer' = answer
  BY DEF StartDocument, history
<1>2. IsCall(request) /\ ~ecode /\ Sent /\ Typed
  BY <1>1 DEF XmlInv
<1>3. document = Document(request) /\ at = Beginning
  BY <1>1, <1>2 DEF Sent
<1>4. OpeningLevel(request, 1) = 0 /\ 1 \in 1 .. OpeningLength(request)
  <2>1. Len(request.name) \in Nat
    BY <1>2, NameIs
  <2>2. QED
    BY <2>1 DEF OpeningLevel, OpeningLength
<1>5. AtOpening(request, Parser', 1)
  BY <1>1, <1>3, <1>4 DEF AtOpening, Parser, Beginning
<1>6. Place(request, Parser')
  BY <1>4, <1>5 DEF Place
<1>7. Sent'
  BY <1>1, <1>3, <1>6 DEF Sent
<1>8. Typed'
  BY <1>1, <1>2 DEF Typed, CallTyped, Process, Errors
<1>9. seen = <<>>
  BY <1>1 DEF XmlInv, Run
<1>10. QED
  BY <1>1, <1>2, <1>7, <1>8, <1>9 DEF XmlInv, StubRequestsAreServed

\* The parser calls back.
LEMMA XmlInvParses ==
  ASSUME XmlInv, Callback, proc = "parsing"
  PROVE  XmlInv'
<1>1. PICK r : r = request
  OBVIOUS
<1>2. IsCall(r) /\ ~ecode /\ Sent /\ Typed /\ CallTyped /\ Buffers(data)
  BY <1>1 DEF XmlInv, Typed
<1>3. document = Document(r) /\ Place(r, Parser)
  BY <1>1, <1>2 DEF Sent
<1>4. Parsing(r)
  BY <1>1, <1>2, <1>3 DEF Parsing
<1>5. \/ Onward(r)
      \/ /\ proc' = "parsed" /\ UNCHANGED <<ctx, call, data>>
         /\ Looked(r, Parser, Len(In(r.function)))
  BY <1>3, <1>4, PlaceStep
<1>6. request' = r /\ seen' = seen /\ answer' = answer /\ CallTyped'
  BY <1>1, <1>2, CallbackKeeps DEF history
<1>7. seen' = <<>>
  BY <1>6 DEF XmlInv, Run
<1>8. ASSUME proc' \in Process, level' \in Nat, num' \in Nat, Buffers(data') PROVE Typed'
  BY <1>1, <1>2, <1>6, <1>8 DEF Typed
<1>9. CASE /\ proc' = "parsing" /\ document' = document /\ ecode' = ecode
           /\ Place(r, Parser') /\ Buffers(data')
  <2>1. Parser'.level \in Nat /\ Parser'.num \in Nat
    BY <1>2, <1>9, PlaceIsNat
  <2>2. level' \in Nat /\ num' \in Nat
    BY <2>1 DEF Parser
  <2>3. Sent'
    BY <1>3, <1>6, <1>9 DEF Sent
  <2>4. Typed'
    BY <1>8, <1>9, <2>2 DEF Process
  <2>5. QED
    BY <1>2, <1>6, <1>7, <1>9, <2>3, <2>4 DEF XmlInv, StubRequestsAreServed
<1>10. CASE proc' = "aborted" /\ ~Findable(r) /\ data' = data /\ level' = level /\ num' = num
  <2>1. Typed'
    BY <1>2, <1>8, <1>10 DEF Typed, Process
  <2>2. QED
    BY <1>6, <1>7, <1>10, <2>1 DEF XmlInv, StubRequestsAreServed, Findable
<1>11. CASE proc' = "parsed" /\ ecode' = TRUE /\ Buffers(data') /\ level' = level /\ num' = num
  <2>1. Typed'
    BY <1>2, <1>8, <1>11 DEF Typed, Process
  <2>2. QED
    BY <1>2, <1>6, <1>7, <1>11, <2>1 DEF XmlInv, StubRequestsAreServed
<1>12. CASE /\ proc' = "parsed" /\ UNCHANGED <<ctx, call, data>>
            /\ Looked(r, Parser, Len(In(r.function)))
  <2>1. level' = level /\ num' = num /\ function' = function /\ error' = error /\ data' = data
    BY <1>12 DEF ctx, call
  <2>2. Typed'
    BY <1>2, <1>8, <1>12, <2>1 DEF Typed, Process
  <2>3. /\ function = Known(r)
        /\ Findable(r) =>
             /\ error = "OK"
             /\ Collected(r, data[r.function], Len(In(r.function)), Len(In(r.function)))
    BY <1>12 DEF Looked, Parser
  <2>4. Found'
    BY <1>6, <2>1, <2>3 DEF Found
  <2>5. QED
    BY <1>2, <1>6, <1>7, <1>12, <2>2, <2>4 DEF XmlInv, StubRequestsAreServed
<1>13. QED
  BY <1>5, <1>9, <1>10, <1>11, <1>12 DEF Onward

\* The function is run.
LEMMA XmlInvExecutes ==
  ASSUME XmlInv, ExecCall
  PROVE  XmlInv'
<1>1. proc = "parsed" /\ IsCall(request) /\ Typed /\ seen = <<>>
  BY DEF ExecCall, XmlInv, Run
<1>2. ~ecode => Found
  BY <1>1 DEF XmlInv
<1>3. CASE Abort
  <2>1. /\ proc' = "aborted" /\ request' = request /\ ecode' = ecode /\ seen' = seen
        /\ level' = level /\ num' = num /\ function' = function /\ error' = error
        /\ response' = response /\ data' = data /\ answer' = answer
    BY <1>3 DEF Abort, ctx, call, history
  <2>2. ecode \/ ~Findable(request)
    <3> SUFFICES ASSUME ~ecode, Findable(request) PROVE FALSE
      OBVIOUS
    <3>1. error = "OK" /\ function = request.function
      BY <1>2 DEF Found, Known
    <3>2. function # "none"
      BY <3>1, XmlAssumption DEF Findable
    <3>3. proc' = "called"
      BY <3>1, <3>2 DEF ExecCall, Asserted
    <3>4. QED
      BY <2>1, <3>3
  <2>3. Typed'
    BY <1>1, <2>1 DEF Typed, CallTyped, Process
  <2>4. QED
    BY <1>1, <2>1, <2>2, <2>3 DEF XmlInv, StubRequestsAreServed, Findable
<1>4. CASE /\ ecode \/ error # "OK"
           /\ proc' = "called" /\ UNCHANGED <<request, document, at, ctx, call, data, history>>
  <2>1. /\ proc' = "called" /\ request' = request /\ ecode' = ecode /\ seen' = seen
        /\ level' = level /\ num' = num /\ function' = function /\ error' = error
        /\ response' = response /\ data' = data /\ answer' = answer
    BY <1>4 DEF ctx, call, history
  <2>2. ~ecode /\ Findable(request) => FALSE
    BY <1>2, <1>4 DEF Found
  <2>3. Typed'
    BY <1>1, <2>1 DEF Typed, CallTyped, Process
  <2>4. QED
    BY <1>1, <2>1, <2>2, <2>3 DEF XmlInv, StubRequestsAreServed
<1>5. CASE /\ ~ecode /\ error = "OK" /\ function # "none" /\ proc' = "called"
           /\ seen' = data[function]
           /\ \E values \in Result[function] :
                /\ \A k \in DOMAIN values : Fits(Params[function][Results(function)[k]], values[k])
                /\ data' = [data EXCEPT ![function] = Filled(function, @, values)]
           /\ UNCHANGED <<request, document, at, ctx, call, answer>>
  <2>1. PICK f \in Registered : f = function /\ f = request.function /\ Findable(request)
    BY <1>2, <1>5 DEF Found, Known, Findable
  <2>2. PICK values \in Result[f] :
          /\ \A k \in DOMAIN values : Fits(Params[f][Results(f)[k]], values[k])
          /\ data' = [data EXCEPT ![f] = Filled(f, data[f], values)]
    BY <1>5, <2>1
  <2>3. Buffers(data)
    BY <1>1 DEF Typed
  <2>4. PICK b : b = Filled(f, data[f], values)
    OBVIOUS
  <2>5. BufferOf(f, b) /\ IsFilled(data', data, f, b)
    BY <2>2, <2>3, <2>4, FilledHolds DEF IsFilled
  <2>6. Buffers(data')
    BY <2>3, <2>5, BuffersFilled
  <2>7. /\ request' = request /\ ecode' = ecode /\ level' = level /\ num' = num
        /\ function' = function /\ error' = error /\ response' = response /\ answer' = answer
        /\ proc' = "called" /\ seen' = data[f]
    BY <1>5, <2>1 DEF ctx, call
  <2>8. Typed'
    BY <1>1, <2>6, <2>7 DEF Typed, CallTyped, Process
  <2>9. Collected(request, data[f], Len(In(request.function)), Len(In(request.function)))
    BY <1>2, <1>5, <2>1 DEF Found
  <2>10. Run'
    BY <1>1, <1>5, <2>1, <2>7, <2>9 DEF Run
  <2>11. QED
    BY <1>5, <2>1, <2>7, <2>8, <2>10 DEF XmlInv, StubRequestsAreServed
<1>6. QED
  BY <1>3, <1>4, <1>5 DEF ExecCall, Asserted

\* The response is sent.
LEMMA XmlInvResponds ==
  ASSUME XmlInv, Respond
  PROVE  XmlInv'
<1>1. proc = "called" /\ Typed
  BY DEF Respond, XmlInv
<1>2. ~ecode /\ Findable(request) => function = request.function /\ error = "OK"
  BY <1>1 DEF XmlInv
<1>3. "none" \notin Registered
  BY XmlAssumption
<1>4. CASE /\ proc' = IF error = "OK" THEN "idle" ELSE "ended"
           /\ UNCHANGED <<request, document, at, ctx, call, data, history>>
  <2>1. /\ request' = request /\ ecode' = ecode /\ seen' = seen
        /\ level' = level /\ num' = num /\ function' = function /\ error' = error
        /\ response' = response /\ data' = data /\ answer' = answer
    BY <1>4 DEF ctx, call, history
  <2>2. proc' \in {"idle", "ended"} /\ (error = "OK" => proc' = "idle")
    BY <1>4
  <2>3. Typed'
    BY <1>1, <2>1, <2>2 DEF Typed, CallTyped, Process
  <2>4. seen # <<>> => Run'
    BY <2>1, <2>2 DEF XmlInv, Run
  <2>5. QED
    BY <2>1, <2>2, <2>3, <2>4 DEF XmlInv, StubRequestsAreServed
<1>5. CASE function # "none" /\ proc' = "idle" /\ error' = "OK" /\ response' = Response /\ answer' = Response
           /\ UNCHANGED <<request, document, at, ctx, function, ecode, data, seen>>
  <2>1. /\ request' = request /\ ecode' = ecode /\ seen' = seen
        /\ level' = level /\ num' = num /\ function' = function /\ data' = data
    BY <1>5 DEF ctx
  <2>2. response'.kind = "result" /\ answer'.kind = "result"
    BY <1>5 DEF Response
  <2>3. Typed'
    BY <1>1, <1>5, <2>1, <2>2 DEF Typed, CallTyped, Process, Kind, Errors
  <2>4. seen # <<>> => Run'
    BY <1>5, <2>1 DEF XmlInv, Run
  <2>5. QED
    BY <1>5, <2>1, <2>3, <2>4 DEF XmlInv, StubRequestsAreServed
<1>6. CASE function = "none" /\ Abort
  <2>1. /\ request' = request /\ ecode' = ecode /\ seen' = seen
        /\ level' = level /\ num' = num /\ function' = function /\ error' = error
        /\ response' = response /\ data' = data /\ answer' = answer /\ proc' = "aborted"
    BY <1>6 DEF Abort, ctx, call, history
  <2>2. Typed'
    BY <1>1, <2>1 DEF Typed, CallTyped, Process
  <2>3. ecode \/ ~Findable(request)
    BY <1>2, <1>3, <1>6 DEF Findable
  <2>4. seen = <<>>
    BY <1>3, <1>6 DEF XmlInv, Run, Findable
  <2>5. QED
    BY <2>1, <2>2, <2>3, <2>4 DEF XmlInv, StubRequestsAreServed, Findable
<1>7. QED
  BY <1>4, <1>5, <1>6 DEF Respond, Asserted

\* epcdaemon starts the listener again.
LEMMA XmlInvRestarts ==
  ASSUME XmlInv, Restart
  PROVE  XmlInv'
<1>1. /\ proc \in {"aborted", "ended"} /\ proc' = "idle" /\ request' = request /\ seen' = seen
      /\ level' = 0 /\ num' = 0 /\ function' = "none" /\ error' = "OK" /\ ecode' = FALSE
      /\ response'.kind = "none" /\ answer' = answer
  BY DEF Restart, history, Nothing
<1>2. PICK junk \in BOOLEAN : data' = Fresh(junk)
  BY DEF Restart
<1>3. Buffers(data')
  BY <1>2, FreshHolds
<1>4. Typed'
  BY <1>1, <1>3 DEF XmlInv, Typed, CallTyped, Process, Kind, Errors
<1>5. seen = <<>>
  BY <1>1 DEF XmlInv, Run
<1>6. QED
  BY <1>1, <1>4, <1>5 DEF XmlInv, StubRequestsAreServed

\* Nothing changes.
LEMMA XmlInvStutters ==
  ASSUME XmlInv, UNCHANGED vars
  PROVE  XmlInv'
<1>1. /\ request' = request /\ ecode' = ecode /\ seen' = seen /\ document' = document /\ at' = at
      /\ level' = level /\ num' = num /\ function' = function /\ error' = error
      /\ response' = response /\ data' = data /\ answer' = answer /\ proc' = proc
  BY DEF vars, ctx, call, history
<1>2. Parser' = Parser
  BY <1>1 DEF Parser
<1>3. Sent' = Sent /\ Found' = Found /\ Run' = Run /\ Typed' = Typed
  BY <1>1, <1>2 DEF Sent, Found, Run, Typed, CallTyped
<1>4. QED
  BY <1>1, <1>3 DEF XmlInv, StubRequestsAreServed

\* The invariant holds in every state.
LEMMA XmlInvHolds == Spec => []XmlInv
<1>1. Init => XmlInv
  BY XmlInvInit
<1>2. XmlInv /\ [Next]_vars => XmlInv'
  <2> SUFFICES ASSUME XmlInv, [Next]_vars PROVE XmlInv'
    OBVIOUS
  <2>1. CASE Callback
    <3>1. proc = "parsing" \/ StartDocument
      BY <2>1 DEF Callback, EndDocument, ReportError, SoapEnvelope, SoapMethod, SoapArgument, SoapNested,
                  SoapContent, SoapEnd, XmlrpcElement, XmlrpcArgument, XmlrpcMethodName, XmlrpcContent,
                  XmlrpcEnd, Reports, AtEvent
    <3>2. QED
      BY <2>1, <3>1, XmlInvParses, XmlInvStarts
  <2>2. QED
    BY <2>1, XmlInvReceives, XmlInvExecutes, XmlInvResponds, XmlInvRestarts, XmlInvStutters DEF Next
<1>3. QED
  BY <1>1, <1>2, PTL DEF Spec

\* Every variable keeps the type the code declares for it.
THEOREM XmlTypes == Spec => []TypeOK
<1>1. XmlInv => TypeOK
  <2> SUFFICES ASSUME XmlInv PROVE TypeOK
    OBVIOUS
  <2>1. Typed /\ CallTyped /\ Buffers(data)
    BY DEF XmlInv, Typed
  <2>2. ASSUME NEW f \in Registered, NEW i \in Index(f)
        PROVE  LET p == Params[f][i]
               IN  CASE p.type \in Texts -> Bytes(data[f][i]) < p.size
                     [] p.type = "INT" -> data[f][i] \in IntMin .. IntMax
                     [] OTHER -> data[f][i] \in Int
    <3>1. PICK p : p = Params[f][i]
      OBVIOUS
    <3>2. Holds(p, data[f][i]) /\ p.type \in Type
      BY <2>1, <3>1, ParameterIs, XmlAssumption DEF Buffers
    <3>3. Number \subseteq Int
      BY ParametersAssumption
    <3>4. /\ p.type \in Texts => Bytes(data[f][i]) < p.size
          /\ p.type = "INT" => data[f][i] \in IntMin .. IntMax
          /\ p.type \notin Texts /\ p.type # "INT" => data[f][i] \in Int
      BY <3>2, <3>3 DEF Holds, Type, Texts
    <3>5. p.type \in Texts => p.type # "INT"
      BY DEF Texts
    <3>6. QED
      BY <3>1, <3>4, <3>5
  <2>3. QED
    BY <2>1, <2>2 DEF TypeOK, Typed, CallTyped, Process, Kind, Errors
<1>2. QED
  BY <1>1, XmlInvHolds, PTL

\* No request that a stub makes for a registered function ends the listener,
\* unless the parser gave up on it or reported the name of the method in pieces.
THEOREM XmlRequestsAreServed == Spec => []StubRequestsAreServed
<1>1. XmlInv => StubRequestsAreServed
  BY DEF XmlInv
<1>2. QED
  BY <1>1, XmlInvHolds, PTL

\* A function that is run is the one the stub named, and finds in its buffers the
\* arguments of the stub: XML put together from its pieces, any other argument
\* if it was reported in one piece, and else the last piece of it.
THEOREM FunctionsFindTheArguments == Spec => []ArgumentsAreTheDocument
<1>1. XmlInv => ArgumentsAreTheDocument
  <2> SUFFICES ASSUME XmlInv, seen # <<>> PROVE ArgumentsAreTheDocument
    BY DEF ArgumentsAreTheDocument
  <2>1. Run
    BY DEF XmlInv
  <2>2. PICK f \in Function : f = request.function /\ function = f /\ IsCall(request)
    BY <2>1 DEF Run, IsCall
  <2>3. PICK n \in Nat : n = Len(In(f))
    BY ArgumentIs
  <2>4. DOMAIN request.args = 1 .. n
    <3>1. In(f) \in Seq(InSet(f))
      BY Travelling, Visited DEF Index
    <3>2. DOMAIN In(f) = 1 .. n
      BY <2>3, <3>1
    <3>3. PICK args \in Calls[f] : args = request.args
      BY <2>2 DEF IsCall
    <3>4. DOMAIN args = DOMAIN In(f)
      BY XmlAssumption
    <3>5. QED
      BY <3>2, <3>3, <3>4
  <2>5. /\ \A k \in 1 .. n : Arrives(request.protocol, ArgumentOf(f, k), request.args[k], request.contents[k],
                                  seen[In(f)[k]])
        /\ \A i \in Index(f) : Params[f][i].mode = "OUT" => seen[i] = NoData(Params[f][i])
    BY <2>1, <2>2, <2>3 DEF Run, Collected
  <2>6. QED
    BY <2>2, <2>4, <2>5 DEF ArgumentsAreTheDocument
<1>2. QED
  BY <1>1, XmlInvHolds, PTL

\* While the parser is inside an argument, the index of the last argument found
\* is the parameter that the stub wrote this argument for.
THEOREM PointerFollowsTheDocument == Spec => []PointerIsOpenArgument
<1>1. XmlInv => PointerIsOpenArgument
  <2> DEFINE depth == IF request.protocol = "SOAP" THEN 4 ELSE 5
  <2> SUFFICES ASSUME XmlInv, AtEvent, level >= depth
               PROVE  IsArgument /\ num = In(function)[at.part - 1]
    BY DEF PointerIsOpenArgument
  <2>1. PICK r : r = request
    OBVIOUS
  <2>2. proc = "parsing" /\ IsCall(r) /\ ~ecode /\ Sent /\ Buffers(data)
    BY <2>1 DEF AtEvent, XmlInv, Typed
  <2>3. document = Document(r) /\ Place(r, Parser)
    BY <2>1, <2>2 DEF Sent
  <2>4. Parsing(r)
    BY <2>1, <2>2, <2>3 DEF Parsing
  <2>5. PICK f \in Function : f = r.function
    BY <2>4, ParsingIs
  <2>6. PICK n \in Nat : n = Len(In(f))
    BY ArgumentIs
  <2>7. \/ r.protocol = "SOAP" /\ level >= 4 /\ Tags(r.protocol) = 1 /\ Base(r.protocol) = 3
        \/ r.protocol = "XMLRPC" /\ level >= 5 /\ Tags(r.protocol) = 3 /\ Base(r.protocol) = 2
    BY <2>1, <2>4, ParsingIs DEF Protocol, Tags, Base
  <2>8. ASSUME NEW j \in 1 .. OpeningLength(r), AtOpening(r, Parser, j) PROVE FALSE
    <3>1. level = OpeningLevel(r, j)
      BY <2>8 DEF AtOpening, Parser
    <3>2. OpeningLevel(r, j) \in 0 .. 2
      BY <2>7, <2>8 DEF OpeningLevel, OpeningLength
    <3>3. QED
      BY <2>7, <3>1, <3>2
  <2>9. ASSUME NEW k \in 1 .. n, NEW e \in 1 .. Tags(r.protocol), AtBefore(r, Parser, k, e) PROVE FALSE
    BY <2>7, <2>9 DEF AtBefore, Parser
  <2>10. ASSUME NEW j \in 1 .. Base(r.protocol), AtClosing(r, Parser, j) PROVE FALSE
    BY <2>7, <2>10 DEF AtClosing, Parser
  <2>11. ASSUME AtEnd(r, Parser) PROVE FALSE
    BY <2>7, <2>11 DEF AtEnd, Parser
  <2>12. ASSUME NEW k \in 1 .. n, function = f, num = In(f)[k], at.part = k + 1
         PROVE  IsArgument /\ num = In(function)[at.part - 1]
    <3>1. In(f)[k] # 0 /\ Params[f][In(f)[k]].mode # "OUT"
      BY <2>6, PointerOfArgument
    <3>2. f # "none"
      BY XmlAssumption
    <3>3. QED
      BY <2>12, <3>1, <3>2 DEF IsArgument
  <2>13. ASSUME NEW k \in 1 .. n, NEW j \in 1 .. Len(r.contents[k]), AtContent(r, r.contents[k], Parser, k, j)
         PROVE  function = f /\ num = In(f)[k] /\ at.part = k + 1
    BY <2>5, <2>13 DEF AtContent, Parser
  <2>14. ASSUME NEW k \in 1 .. n, NEW e \in 1 .. Tags(r.protocol), AtBehind(r, r.contents[k], Parser, k, e)
         PROVE  function = f /\ num = In(f)[k] /\ at.part = k + 1
    BY <2>5, <2>14 DEF AtBehind, Parser, Looked, Known, Pointer, Findable
  <2>15. QED
    BY <2>3, <2>5, <2>6, <2>8, <2>9, <2>10, <2>11, <2>12, <2>13, <2>14 DEF Place
<1>2. QED
  BY <1>1, XmlInvHolds, PTL

=============================================================================
