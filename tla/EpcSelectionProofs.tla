------------------------- MODULE EpcSelectionProofs -------------------------
(***************************************************************************)
(* Induction over numbers, and the order in which a loop visits a set of   *)
(* them.                                                                   *)
(***************************************************************************)
EXTENDS EpcSelection, FiniteSetTheorems, SequenceTheorems, TLAPS

\* Induction: a set with zero that has the successor of its elements.
LEMMA Induction ==
  ASSUME NEW S, 0 \in S, \A n \in Nat : n \in S => n + 1 \in S
  PROVE  Nat \subseteq S
<1> DEFINE Left == Nat \ S
           Less == {ss \in Nat \X Nat : ss[1] < ss[2]}
<1>1. SUFFICES ASSUME Left # {} PROVE FALSE
  OBVIOUS
<1>2. PICK n \in Left : \A m \in Left : ~(<<m, n>> \in Less)
  <2>1. Left \subseteq Nat
    OBVIOUS
  <2>2. IsWellFoundedOn(Less, Nat)
    BY NatLessThanWellFounded DEF OpToRel
  <2> HIDE DEF Left, Less
  <2>3. QED
    BY <1>1, <2>1, <2>2, WFMin
<1>3. \A m \in Left : ~(m < n)
  BY <1>2
<1>4. n \in Nat /\ n # 0 /\ n - 1 \in Nat /\ n - 1 < n
  OBVIOUS
<1>5. n - 1 \in S /\ n - 1 + 1 = n /\ n \notin S
  BY <1>3, <1>4
<1>6. QED
  BY <1>4, <1>5

\* A recursive function on the numbers up to n has values where the step from
\* one to the next has.
Follow(g, n, start, next) ==
  g[0] = start /\ \A k \in 1 .. n : g[k] = next[<<k, g[k - 1]>>]

LEMMA Recursion ==
  ASSUME NEW n \in Nat, NEW A, NEW start \in A, NEW next \in [(1 .. n) \X A -> A]
  PROVE  \E g \in [0 .. n -> A] : Follow(g, n, start, next)
<1> DEFINE Reached == {m \in Nat : m <= n => \E g \in [0 .. m -> A] : Follow(g, m, start, next)}
<1>1. 0 \in Reached
  <2> DEFINE g == [k \in 0 .. 0 |-> start]
  <2>1. g \in [0 .. 0 -> A] /\ Follow(g, 0, start, next)
    BY DEF Follow
  <2>2. QED
    BY <2>1
<1>2. ASSUME NEW m \in Nat, m \in Reached PROVE m + 1 \in Reached
  <2> SUFFICES ASSUME m + 1 <= n
               PROVE  \E g \in [0 .. m + 1 -> A] : Follow(g, m + 1, start, next)
    OBVIOUS
  <2>1. PICK f \in [0 .. m -> A] : Follow(f, m, start, next)
    BY <1>2
  <2> DEFINE g == [k \in 0 .. m + 1 |-> IF k <= m THEN f[k] ELSE next[<<m + 1, f[m]>>]]
  <2>2. next[<<m + 1, f[m]>>] \in A
    OBVIOUS
  <2>3. /\ g \in [0 .. m + 1 -> A] /\ g[m + 1] = next[<<m + 1, f[m]>>]
        /\ \A k \in 0 .. m : g[k] = f[k]
    BY <2>2
  <2> HIDE DEF g
  <2>4. ASSUME NEW k \in 1 .. m + 1 PROVE g[k] = next[<<k, g[k - 1]>>]
    <3>1. CASE k = m + 1
      <4>1. k - 1 = m /\ m \in 0 .. m
        BY <3>1
      <4>2. QED
        BY <2>3, <3>1, <4>1
    <3>2. CASE k \in 1 .. m
      <4>1. k \in 0 .. m /\ k - 1 \in 0 .. m
        BY <3>2
      <4>2. f[k] = next[<<k, f[k - 1]>>]
        BY <2>1, <3>2 DEF Follow
      <4>3. QED
        BY <2>3, <4>1, <4>2
    <3>3. QED
      BY <3>1, <3>2
  <2>5. g[0] = start
    BY <2>1, <2>3 DEF Follow
  <2>6. QED
    BY <2>3, <2>4, <2>5 DEF Follow
<1>3. n \in Reached
  <2> HIDE DEF Reached
  <2>1. QED
    BY <1>1, <1>2, Induction
<1>4. QED
  BY <1>3

\* A set of numbers that are not larger than another has a maximum.
LEMMA MaximumExists ==
  ASSUME NEW n \in Nat, NEW S \in SUBSET (0 .. n), S # {}
  PROVE  Max(S) \in S /\ \A m \in S : Max(S) >= m
<1> DEFINE Bounding == {m \in Nat : \A U \in SUBSET (0 .. m) :
                                U # {} => \E x \in U : \A y \in U : x >= y}
<1>1. 0 \in Bounding
  <2> SUFFICES ASSUME NEW U \in SUBSET (0 .. 0), U # {}
               PROVE  \E x \in U : \A y \in U : x >= y
    OBVIOUS
  <2>1. PICK x \in U : TRUE
    OBVIOUS
  <2>2. \A y \in U : y = 0
    OBVIOUS
  <2>3. QED
    BY <2>1, <2>2
<1>2. ASSUME NEW m \in Nat, m \in Bounding PROVE m + 1 \in Bounding
  <2> SUFFICES ASSUME NEW U \in SUBSET (0 .. m + 1), U # {}
               PROVE  \E x \in U : \A y \in U : x >= y
    OBVIOUS
  <2>1. CASE m + 1 \in U
    BY <2>1
  <2>2. CASE m + 1 \notin U
    <3>1. U \in SUBSET (0 .. m)
      BY <2>2
    <3>2. QED
      BY <1>2, <3>1
  <2>3. QED
    BY <2>1, <2>2
<1>3. n \in Bounding
  <2> HIDE DEF Bounding
  <2>1. QED
    BY <1>1, <1>2, Induction
<1>4. \E x \in S : \A y \in S : x >= y
  BY <1>3
<1>5. QED
  BY <1>4 DEF Max

-----------------------------------------------------------------------------
(* Loops.                                                                  *)

Ascends(s, S) ==
  /\ s \in [1 .. Cardinality(S) -> S]
  /\ \A k, l \in 1 .. Cardinality(S) : k < l => s[k] < s[l]

LEMMA PartIsFinite ==
  ASSUME NEW n \in Nat, NEW S \in SUBSET (1 .. n)
  PROVE  IsFiniteSet(S)
<1>1. IsFiniteSet(1 .. n)
  BY FS_Interval
<1>2. QED
  BY <1>1, FS_Subset

LEMMA AscendingExists ==
  ASSUME NEW n \in Nat, NEW S \in SUBSET (1 .. n)
  PROVE  \E s : Ascends(s, S)
<1> DEFINE Sorted == {m \in Nat : \A U \in SUBSET (1 .. m) : \E s : Ascends(s, U)}
<1>1. 0 \in Sorted
  <2> SUFFICES ASSUME NEW U \in SUBSET (1 .. 0) PROVE \E s : Ascends(s, U)
    OBVIOUS
  <2>1. U = {} /\ Cardinality(U) = 0
    <3>1. U = {}
      OBVIOUS
    <3>2. QED
      BY <3>1, FS_EmptySet, Zenon
  <2>2. Ascends([k \in 1 .. 0 |-> k], U)
    BY <2>1 DEF Ascends
  <2>3. QED
    BY <2>2
<1>2. ASSUME NEW m \in Nat, m \in Sorted PROVE m + 1 \in Sorted
  <2> SUFFICES ASSUME NEW U \in SUBSET (1 .. m + 1) PROVE \E s : Ascends(s, U)
    OBVIOUS
  <2>1. CASE m + 1 \notin U
    <3>1. U \in SUBSET (1 .. m)
      BY <2>1
    <3>2. QED
      BY <1>2, <3>1
  <2>2. CASE m + 1 \in U
    <3> DEFINE R == U \ {m + 1}
    <3>1. R \in SUBSET (1 .. m)
      OBVIOUS
    <3>2. PICK r : Ascends(r, R)
      BY <1>2, <3>1
    <3>3. IsFiniteSet(R)
      BY <3>1, PartIsFinite
    <3>4. U = R \cup {m + 1} /\ m + 1 \notin R
      BY <2>2
    <3>5. Cardinality(R) \in Nat /\ Cardinality(U) = Cardinality(R) + 1
      BY <3>3, <3>4, FS_AddElement, FS_CardinalityType
    <3>6. PICK c \in Nat : c = Cardinality(R) /\ Cardinality(U) = c + 1
      BY <3>5
    <3> DEFINE s == [k \in 1 .. c + 1 |-> IF k <= c THEN r[k] ELSE m + 1]
    <3>7. /\ \A k \in 1 .. c : r[k] \in R /\ r[k] \in 1 .. m
          /\ \A k, l \in 1 .. c : k < l => r[k] < r[l]
      BY <3>1, <3>2, <3>6 DEF Ascends
    <3>8. s \in [1 .. c + 1 -> U]
      BY <3>4, <3>7
    <3>9. ASSUME NEW k \in 1 .. c + 1, NEW l \in 1 .. c + 1, k < l PROVE s[k] < s[l]
      <4>1. k \in 1 .. c /\ s[k] = r[k] /\ s[k] \in 1 .. m
        BY <3>7, <3>9
      <4>2. CASE l <= c
        BY <3>7, <3>9, <4>1, <4>2
      <4>3. CASE ~(l <= c)
        BY <4>1, <4>3
      <4>4. QED
        BY <4>2, <4>3
    <3> HIDE DEF s
    <3>10. Ascends(s, U)
      BY <3>6, <3>8, <3>9 DEF Ascends
    <3>11. QED
      BY <3>10
  <2>3. QED
    BY <2>1, <2>2
<1>3. n \in Sorted
  <2> HIDE DEF Sorted
  <2>1. QED
    BY <1>1, <1>2, Induction
<1>4. QED
  BY <1>3

LEMMA AscendingAscends ==
  ASSUME NEW n \in Nat, NEW S \in SUBSET (1 .. n)
  PROVE  Ascends(Ascending(S), S)
<1>1. \E s \in [1 .. Cardinality(S) -> S] :
        \A k, l \in 1 .. Cardinality(S) : k < l => s[k] < s[l]
  BY AscendingExists DEF Ascends
<1>2. QED
  BY <1>1 DEF Ascending, Ascends

\* Every element is visited once.
Visits(s, S) ==
  /\ s \in Seq(S) /\ Len(s) \in Nat
  /\ \A k \in 1 .. Len(s) : s[k] \in S
  /\ \A k, l \in 1 .. Len(s) : k # l => s[k] # s[l]
  /\ \A i \in S : \E k \in 1 .. Len(s) : s[k] = i

LEMMA VisitsAll ==
  ASSUME NEW n \in Nat, NEW S \in SUBSET (1 .. n), NEW s, s = Ascending(S)
  PROVE  Visits(s, S)
<1>1. Ascends(Ascending(S), S)
  BY AscendingAscends
<1>2. Ascends(s, S)
  BY <1>1
<1>3. IsFiniteSet(S)
  BY PartIsFinite
<1>4. PICK c \in Nat : c = Cardinality(S)
  BY <1>3, FS_CardinalityType
<1>5. s \in [1 .. c -> S] /\ \A k, l \in 1 .. c : k < l => s[k] < s[l]
  BY <1>2, <1>4 DEF Ascends
<1>6. s \in Seq(S) /\ Len(s) = c
  BY <1>5
<1>7. ASSUME NEW k \in 1 .. c, NEW l \in 1 .. c, k # l PROVE s[k] # s[l]
  <2>1. s[k] \in S /\ s[l] \in S
    BY <1>5
  <2>2. s[k] \in Int /\ s[l] \in Int
    <3>1. \A i \in S : i \in Int
      OBVIOUS
    <3>2. QED
      BY <2>1, <3>1, Zenon
  <2>3. CASE k < l
    <3>1. s[k] < s[l]
      BY <1>5, <2>3
    <3>2. QED
      BY <2>2, <3>1
  <2>4. CASE l < k
    <3>1. s[l] < s[k]
      BY <1>5, <2>4
    <3>2. QED
      BY <2>2, <3>1
  <2>5. QED
    BY <1>7, <2>3, <2>4
<1>8. s \in Injection(1 .. c, S)
  BY <1>5, <1>7 DEF Injection, IsInjective
<1>9. s \in Surjection(1 .. c, S)
  <2>1. Cardinality(1 .. c) = c
    BY FS_Interval
  <2>2. QED
    BY <1>3, <1>4, <1>8, <2>1, FS_Injection
<1>10. \A i \in S : \E k \in 1 .. c : s[k] = i
  BY <1>9 DEF Surjection
<1>11. \A k \in 1 .. c : s[k] \in S
  BY <1>5
<1>12. QED
  BY <1>6, <1>7, <1>10, <1>11 DEF Visits

LEMMA Visited ==
  ASSUME NEW n \in Nat, NEW S \in SUBSET (1 .. n), NEW s, s = Ascending(S)
  PROVE  /\ s \in Seq(S) /\ Len(s) \in Nat
         /\ \A k \in 1 .. Len(s) : s[k] \in S
         /\ \A k, l \in 1 .. Len(s) : k # l => s[k] # s[l]
         /\ \A i \in S : \E k \in 1 .. Len(s) : s[k] = i
<1>1. Visits(s, S)
  BY VisitsAll
<1>2. QED
  BY <1>1 DEF Visits

\* There is one such sequence.
LEMMA AscendingIsOne ==
  ASSUME NEW n \in Nat, NEW S \in SUBSET (1 .. n),
         NEW s, Ascends(s, S), NEW t, Ascends(t, S)
  PROVE  s = t
<1> DEFINE One == {m \in Nat : \A U \in SUBSET (1 .. m) :
                       \A a, b : Ascends(a, U) /\ Ascends(b, U) => a = b}
<1>1. 0 \in One
  <2> SUFFICES ASSUME NEW U \in SUBSET (1 .. 0), NEW a, NEW b, Ascends(a, U), Ascends(b, U)
               PROVE  a = b
    OBVIOUS
  <2>1. U = {}
    OBVIOUS
  <2>2. Cardinality(U) = 0
    BY <2>1, FS_EmptySet, Zenon
  <2>3. a \in [1 .. 0 -> U] /\ b \in [1 .. 0 -> U]
    BY <2>2 DEF Ascends
  <2>4. QED
    BY <2>3
<1>2. ASSUME NEW m \in Nat, m \in One PROVE m + 1 \in One
  <2> SUFFICES ASSUME NEW U \in SUBSET (1 .. m + 1), NEW a, NEW b, Ascends(a, U), Ascends(b, U)
               PROVE  a = b
    OBVIOUS
  <2>1. CASE m + 1 \notin U
    <3>1. U \in SUBSET (1 .. m)
      BY <2>1
    <3>2. QED
      BY <1>2, <3>1
  <2>2. CASE m + 1 \in U
    <3>1. PICK R \in SUBSET (1 .. m) : U = R \cup {m + 1} /\ m + 1 \notin R
      <4>1. U \ {m + 1} \in SUBSET (1 .. m)
        OBVIOUS
      <4>2. QED
        BY <2>2, <4>1
    <3>2. PICK c \in Nat : c = Cardinality(R) /\ Cardinality(U) = c + 1
      <4>1. IsFiniteSet(R)
        BY PartIsFinite
      <4>2. Cardinality(R) \in Nat /\ Cardinality(U) = Cardinality(R) + 1
        BY <3>1, <4>1, FS_AddElement, FS_CardinalityType
      <4>3. QED
        BY <4>2
    <3>3. ASSUME NEW x, Ascends(x, U)
          PROVE  /\ x \in [1 .. c + 1 -> U] /\ x[c + 1] = m + 1
                 /\ Ascends([k \in 1 .. c |-> x[k]], R)
      <4>1. x \in [1 .. c + 1 -> U] /\ \A k, l \in 1 .. c + 1 : k < l => x[k] < x[l]
        BY <3>2, <3>3 DEF Ascends
      <4>2. \E k \in 1 .. c + 1 : x[k] = m + 1
        <5>1. x \in Injection(1 .. c + 1, U)
          <6>1. \A k \in 1 .. c + 1 : x[k] \in Int
            <7>1. \A i \in U : i \in Int
              OBVIOUS
            <7>2. QED
              BY <4>1, <7>1
          <6>2. \A k, l \in 1 .. c + 1 : x[k] = x[l] => k = l
            BY <4>1, <6>1
          <6>3. QED
            BY <4>1, <6>2 DEF Injection, IsInjective
        <5>2. Cardinality(1 .. c + 1) = c + 1
          BY FS_Interval
        <5>3. IsFiniteSet(U)
          BY PartIsFinite
        <5>4. x \in Surjection(1 .. c + 1, U)
          BY <3>2, <5>1, <5>2, <5>3, FS_Injection
        <5>5. QED
          BY <2>2, <5>4 DEF Surjection
      <4>3. \A k \in 1 .. c + 1 : x[k] \in 1 .. m + 1
        BY <4>1
      <4>4. x[c + 1] = m + 1
        BY <4>1, <4>2, <4>3
      <4>5. \A k \in 1 .. c : x[k] \in R
        BY <3>1, <4>1, <4>3, <4>4
      <4>6. QED
        BY <3>2, <4>1, <4>4, <4>5 DEF Ascends
    <3>4. [k \in 1 .. c |-> a[k]] = [k \in 1 .. c |-> b[k]]
      <4>1. Ascends([k \in 1 .. c |-> a[k]], R) /\ Ascends([k \in 1 .. c |-> b[k]], R)
        BY <3>3
      <4>2. \A x, y : Ascends(x, R) /\ Ascends(y, R) => x = y
        BY <1>2
      <4>3. QED
        BY <4>1, <4>2, Zenon
    <3>5. \A k \in 1 .. c : a[k] = b[k]
      BY <3>4
    <3>6. /\ a \in [1 .. c + 1 -> U] /\ a[c + 1] = m + 1
          /\ b \in [1 .. c + 1 -> U] /\ b[c + 1] = m + 1
      BY <3>3, Zenon
    <3>7. \A k \in 1 .. c + 1 : a[k] = b[k]
      BY <3>5, <3>6
    <3>8. QED
      BY <3>6, <3>7
  <2>3. QED
    BY <2>1, <2>2
<1>3. n \in One
  <2> HIDE DEF One
  <2>1. QED
    BY <1>1, <1>2, Induction
<1>4. QED
  BY <1>3

\* A loop that goes one further visits what it visited and the last one.
LEMMA AscendingWithLast ==
  ASSUME NEW n \in Nat, NEW S \in SUBSET (1 .. n)
  PROVE  Ascending(S \cup {n + 1}) = Append(Ascending(S), n + 1)
<1>1. Ascends(Ascending(S), S)
  BY AscendingAscends
<1>2. Ascends(Ascending(S \cup {n + 1}), S \cup {n + 1})
  BY AscendingAscends
<1>3. PICK c \in Nat : c = Cardinality(S) /\ Cardinality(S \cup {n + 1}) = c + 1
  <2>1. IsFiniteSet(S)
    BY PartIsFinite
  <2>2. n + 1 \notin S
    OBVIOUS
  <2>3. Cardinality(S) \in Nat /\ Cardinality(S \cup {n + 1}) = Cardinality(S) + 1
    BY <2>1, <2>2, FS_AddElement, FS_CardinalityType
  <2>4. QED
    BY <2>3
<1>4. PICK s : s = Ascending(S)
  OBVIOUS
<1>5. s \in [1 .. c -> S] /\ \A k, l \in 1 .. c : k < l => s[k] < s[l]
  BY <1>1, <1>3, <1>4 DEF Ascends
<1>6. s \in Seq(S) /\ Len(s) = c
  BY <1>5
<1>7. PICK t : t = Append(s, n + 1)
  OBVIOUS
<1>8. /\ t \in [1 .. c + 1 -> S \cup {n + 1}] /\ t[c + 1] = n + 1
      /\ \A k \in 1 .. c : t[k] = s[k]
  <2>1. s \in Seq(S \cup {n + 1})
    BY <1>6
  <2>2. /\ t \in Seq(S \cup {n + 1}) /\ Len(t) = c + 1 /\ t[c + 1] = n + 1
        /\ \A k \in 1 .. c : t[k] = s[k]
    BY <1>6, <1>7, <2>1, AppendProperties
  <2>3. QED
    BY <2>2
<1>9. \A k, l \in 1 .. c + 1 : k < l => t[k] < t[l]
  <2> TAKE k, l \in 1 .. c + 1
  <2> HAVE k < l
  <2>1. k \in 1 .. c /\ t[k] = s[k] /\ s[k] \in 1 .. n
    <3>1. k \in 1 .. c
      OBVIOUS
    <3>2. s[k] \in S
      BY <1>5, <3>1
    <3>3. QED
      BY <1>8, <3>1, <3>2
  <2>2. CASE l \in 1 .. c
    BY <1>5, <1>8, <2>1, <2>2
  <2>3. CASE l = c + 1
    BY <1>8, <2>1, <2>3
  <2>4. l \in 1 .. c \/ l = c + 1
    OBVIOUS
  <2>5. QED
    BY <2>2, <2>3, <2>4
<1>10. Ascends(t, S \cup {n + 1})
  BY <1>3, <1>8, <1>9 DEF Ascends
<1>11. S \cup {n + 1} \in SUBSET (1 .. n + 1) /\ n + 1 \in Nat
  OBVIOUS
<1>12. Ascending(S \cup {n + 1}) = t
  BY <1>2, <1>10, <1>11, AscendingIsOne, Zenon
<1>13. QED
  BY <1>4, <1>7, <1>12, Zenon

=============================================================================
