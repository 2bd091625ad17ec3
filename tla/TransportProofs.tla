---------------------------- MODULE TransportProofs ----------------------------
(***************************************************************************)
(* What package transport brings in from the indexer, for every value of   *)
(* the constants: the frames of an event stream are those its server       *)
(* completed, and a balance read is complete, in order, and of amounts     *)
(* that were held.  Both rest on how a set of positions is listed in order *)
(* (module InOrder), so their proofs are kept together.                    *)
(***************************************************************************)
EXTENDS Balances, Framing, FiniteSetTheorems, WellFoundedInduction, TLAPS

-----------------------------------------------------------------------------
(* Sets of positions, and their enumeration in order.                       *)

LEMMA SmallestOf ==
    ASSUME NEW T \in SUBSET Nat, T # {}
    PROVE  \E x \in T : \A y \in T : x <= y
<1>1. PICK x \in T : \A y \in T : ~ (<<y, x>> \in OpToRel(<, Nat))
  BY WFMin, NatLessThanWellFounded
<1>2. ASSUME NEW y \in T PROVE x <= y
  <2>1. ~ (y < x)
    BY <1>1 DEF OpToRel
  <2>2. QED
    BY <2>1
<1>3. QED
  BY <1>2

\* at lists the elements of set, each once, in ascending order.
Lists(at, set) == at \in [1..Cardinality(set) -> set] /\ Range(at) = set /\ Ascending(at)

\* The smallest of a set in front of a list of the others.
LEMMA ListsOneMore ==
    ASSUME NEW set \in SUBSET Nat, IsFiniteSet(set), NEW m \in set, \A y \in set : m <= y,
           NEW rest, Lists(rest, set \ {m})
    PROVE  \E at : Lists(at, set)
<1>. DEFINE n == Cardinality(set)
            at == [i \in 1..n |-> IF i = 1 THEN m ELSE rest[i - 1]]
<1>1. n \in Nat \ {0} /\ Cardinality(set \ {m}) = n - 1
  BY FS_RemoveElement, FS_CardinalityType, FS_EmptySet
<1>. HIDE DEF n
<1>2. /\ DOMAIN rest = 1..n-1
      /\ \A i \in 1..n-1 : rest[i] \in set /\ rest[i] # m
      /\ \A x \in set \ {m} : \E i \in 1..n-1 : rest[i] = x
      /\ \A i, j \in 1..n-1 : i < j => rest[i] < rest[j]
  BY <1>1 DEF Lists, Range, Ascending
<1>3. at[1] = m /\ \A i \in 2..n : at[i] = rest[i - 1] /\ i - 1 \in 1..n-1
  BY <1>1
<1>4. at \in [1..n -> set]
  BY <1>1, <1>2
<1>. HIDE DEF at
<1>5. Range(at) = set
  <2>1. ASSUME NEW x \in set PROVE \E i \in 1..n : at[i] = x
    <3>1. CASE x = m
      BY <3>1, <1>1, <1>3
    <3>2. CASE x # m
      <4>1. PICK i \in 1..n-1 : rest[i] = x
        BY <3>2, <1>2
      <4>2. i + 1 \in 2..n /\ (i + 1) - 1 = i
        BY <1>1
      <4>3. at[i + 1] = x
        BY <4>1, <4>2, <1>3
      <4>4. QED
        BY <4>2, <4>3, <1>1
    <3>3. QED
      BY <3>1, <3>2
  <2>2. DOMAIN at = 1..n /\ \A i \in 1..n : at[i] \in set
    BY <1>4
  <2>3. QED
    BY <2>1, <2>2 DEF Range
<1>6. Ascending(at)
  <2>1. ASSUME NEW i \in 1..n, NEW j \in 1..n, i < j PROVE at[i] < at[j]
    <3>1. at[j] = rest[j - 1] /\ j - 1 \in 1..n-1
      BY <2>1, <1>1, <1>3
    <3>2. CASE i = 1
      <4>1. rest[j - 1] \in set /\ rest[j - 1] # m
        BY <3>1, <1>2
      <4>2. QED
        BY <3>1, <3>2, <4>1, <1>3, m \in Nat, rest[j - 1] \in Nat
    <3>3. CASE i # 1
      BY <2>1, <3>1, <3>3, <1>1, <1>2, <1>3
    <3>4. QED
      BY <3>2, <3>3
  <2>2. QED
    BY <2>1, <1>4 DEF Ascending
<1>7. QED
  <2>1. Lists(at, set)
    BY <1>4, <1>5, <1>6 DEF Lists, n
  <2>2. QED
    BY <2>1

\* Every finite set of positions can be listed: no smallest counterexample exists.
LEMMA ListExists ==
    ASSUME NEW set \in SUBSET Nat, IsFiniteSet(set)
    PROVE  \E at : Lists(at, set)
<1>. DEFINE Unlisted == {k \in Nat : \E S \in SUBSET Nat :
                            IsFiniteSet(S) /\ Cardinality(S) = k /\ ~ \E at : Lists(at, S)}
<1>1. SUFFICES ASSUME Unlisted # {} PROVE FALSE
  BY FS_CardinalityType
<1>2. PICK k \in Unlisted : \A l \in Unlisted : k <= l
  BY <1>1, SmallestOf
<1>3. PICK S \in SUBSET Nat : IsFiniteSet(S) /\ Cardinality(S) = k /\ ~ \E at : Lists(at, S)
  BY <1>2
<1>4. S # {}
  <2>1. ASSUME S = {} PROVE Lists(<<>>, S)
    BY <2>1, FS_EmptySet DEF Lists, Range, Ascending
  <2>2. QED
    BY <2>1, <1>3
<1>5. PICK m \in S : \A y \in S : m <= y
  BY <1>4, SmallestOf
<1>6. IsFiniteSet(S \ {m}) /\ Cardinality(S \ {m}) = k - 1 /\ k - 1 \in Nat
  <2>1. IsFiniteSet(S \ {m}) /\ Cardinality(S \ {m}) = k - 1
    BY <1>3, <1>5, FS_RemoveElement
  <2>2. k # 0
    BY <1>3, <1>4, FS_EmptySet
  <2>3. QED
    BY <2>1, <2>2
<1>7. k - 1 \notin Unlisted
  BY <1>2, <1>6
<1>8. \E at : Lists(at, S \ {m})
  BY <1>6, <1>7
<1>9. QED
  BY <1>3, <1>5, <1>8, ListsOneMore

LEMMA InOrderLists ==
    ASSUME NEW n \in Nat, NEW set \in SUBSET (1..n)
    PROVE  Lists(InOrder(set), set) /\ Cardinality(set) \in 0..n /\ IsFiniteSet(set)
<1>1. IsFiniteSet(1..n) /\ Cardinality(1..n) = n
  BY FS_Interval
<1>2. IsFiniteSet(set) /\ Cardinality(set) \in 0..n
  <2>1. IsFiniteSet(set) /\ Cardinality(set) <= n
    BY <1>1, FS_Subset
  <2>2. Cardinality(set) \in Nat
    BY <2>1, FS_CardinalityType
  <2>3. QED
    BY <2>1, <2>2
<1>3. \E at : Lists(at, set)
  BY <1>2, ListExists
<1>4. QED
  BY <1>2, <1>3 DEF Lists, InOrder


\* The list of an initial part of a set is an initial part of its list: no smallest place at which
\* they differ exists.
LEMMA ListsAgree ==
    ASSUME NEW S \in SUBSET Nat, NEW T \in SUBSET S, IsFiniteSet(S),
           \A x \in S : \A y \in T : x < y => x \in T,
           NEW s, Lists(s, S), NEW t, Lists(t, T)
    PROVE  /\ Cardinality(S) \in Nat /\ Cardinality(T) \in 0..Cardinality(S)
           /\ \A i \in 1..Cardinality(T) : t[i] = s[i]
<1>1. PICK n, m : n = Cardinality(S) /\ m = Cardinality(T)
  OBVIOUS
<1>2. n \in Nat /\ m \in 0..n
  <2>1. IsFiniteSet(T) /\ m <= n
    BY <1>1, FS_Subset
  <2>2. m \in Nat /\ n \in Nat
    BY <2>1, <1>1, FS_CardinalityType
  <2>3. QED
    BY <2>1, <2>2
<1>3. /\ \A i \in 1..n : s[i] \in S
      /\ \A x \in S : \E i \in 1..n : s[i] = x
      /\ \A i, j \in 1..n : i < j => s[i] < s[j]
  BY <1>1 DEF Lists, Range, Ascending
<1>4. /\ \A i \in 1..m : t[i] \in T
      /\ \A x \in T : \E i \in 1..m : t[i] = x
      /\ \A i, j \in 1..m : i < j => t[i] < t[j]
  BY <1>1 DEF Lists, Range, Ascending
<1>. DEFINE Differ == {i \in 1..m : t[i] # s[i]}
<1>5. SUFFICES ASSUME Differ # {} PROVE FALSE
  BY <1>1, <1>2
<1>6. PICK i \in Differ : \A j \in Differ : i <= j
  <2>1. Differ \in SUBSET Nat
    BY <1>2
  <2>2. QED
    BY <2>1, <1>5, SmallestOf
<1>7. i \in 1..m /\ i \in 1..n /\ t[i] # s[i] /\ \A j \in 1..m : j < i => t[j] = s[j]
  BY <1>2, <1>6
<1>. HIDE DEF Differ
<1>8. s[i] \in Nat /\ t[i] \in Nat /\ s[i] \in S /\ t[i] \in T
  BY <1>3, <1>4, <1>7
<1>9. CASE s[i] < t[i]
  <2>1. PICK j \in 1..m : t[j] = s[i]
    BY <1>4, <1>8, <1>9
  <2>2. CASE j < i
    BY <2>1, <2>2, <1>2, <1>3, <1>7, <1>8
  <2>3. CASE i <= j
    <3>1. i = j \/ t[i] < t[j]
      BY <2>3, <1>2, <1>4, <1>7
    <3>2. QED
      BY <3>1, <2>1, <1>8, <1>9
  <2>4. QED
    BY <2>2, <2>3, <1>2, <1>7
<1>10. CASE t[i] < s[i]
  <2>1. PICK j \in 1..n : s[j] = t[i]
    BY <1>3, <1>8
  <2>2. CASE j < i
    BY <2>1, <2>2, <1>2, <1>4, <1>7, <1>8
  <2>3. CASE i <= j
    <3>1. i = j \/ s[i] < s[j]
      BY <2>3, <1>2, <1>3, <1>7
    <3>2. QED
      BY <3>1, <2>1, <1>8, <1>10
  <2>4. QED
    BY <2>2, <2>3, <1>2, <1>7
<1>11. QED
  BY <1>7, <1>8, <1>9, <1>10

\* The list of a set is the only one.
LEMMA ListIsInOrder ==
    ASSUME NEW n \in Nat, NEW S \in SUBSET (1..n), NEW s, Lists(s, S)
    PROVE  InOrder(S) = s
<1>1. PICK t, m : t = InOrder(S) /\ m = Cardinality(S)
  OBVIOUS
<1>2. Lists(t, S) /\ IsFiniteSet(S)
  BY <1>1, InOrderLists
<1>3. m \in Nat /\ \A i \in 1..m : t[i] = s[i]
  BY <1>1, <1>2, ListsAgree
<1>4. t \in [1..m -> S] /\ s \in [1..m -> S]
  BY <1>1, <1>2 DEF Lists
<1>5. t = s
  BY <1>3, <1>4
<1>6. QED
  BY <1>1, <1>5

\* One more position behind a set, the first one taken from it, and its initial part.
LEMMA InOrderMore ==
    ASSUME NEW n \in Nat, NEW S \in SUBSET (1..n)
    PROVE  InOrder(S \cup {n + 1}) = Append(InOrder(S), n + 1)
<1>1. PICK s, m : s = InOrder(S) /\ m = Cardinality(S)
  OBVIOUS
<1>2. Lists(s, S) /\ m \in 0..n
  BY <1>1, InOrderLists
<1>3. PICK t : t = Append(s, n + 1)
  OBVIOUS
<1>4. s \in Seq(S) /\ Len(s) = m /\ \A i \in 1..m : s[i] \in S
  BY <1>1, <1>2 DEF Lists
<1>5. /\ t \in [1..m + 1 -> S \cup {n + 1}]
      /\ t[m + 1] = n + 1 /\ \A i \in 1..m : t[i] = s[i]
  <2>1. t \in Seq(S \cup {n + 1}) /\ Len(t) = m + 1
    BY <1>2, <1>3, <1>4
  <2>2. t[m + 1] = n + 1 /\ \A i \in 1..m : t[i] = s[i]
    BY <1>2, <1>3, <1>4
  <2>3. QED
    BY <2>1, <2>2
<1>6. Cardinality(S \cup {n + 1}) = m + 1
  <2>1. IsFiniteSet(S) /\ n + 1 \notin S
    BY InOrderLists
  <2>2. QED
    BY <2>1, <1>1, FS_AddElement
<1>7. Range(t) = S \cup {n + 1}
  <2>1. \A x \in S : \E i \in 1..m : s[i] = x
    BY <1>1, <1>2 DEF Lists, Range
  <2>2. ASSUME NEW x \in S \cup {n + 1} PROVE \E i \in 1..m + 1 : t[i] = x
    BY <2>1, <1>2, <1>5
  <2>3. \A i \in 1..m + 1 : t[i] \in S \cup {n + 1}
    BY <1>5
  <2>4. QED
    BY <2>2, <2>3, <1>5 DEF Range
<1>8. Ascending(t)
  <2>1. \A i, j \in 1..m : i < j => s[i] < s[j]
    BY <1>1, <1>2 DEF Lists, Ascending
  <2>2. ASSUME NEW i \in 1..m PROVE s[i] < n + 1
    <3>1. s[i] \in 1..n
      BY <1>4
    <3>2. QED
      BY <3>1
  <2>3. ASSUME NEW i \in 1..m + 1, NEW j \in 1..m + 1, i < j PROVE t[i] < t[j]
    <3>1. i \in 1..m /\ (j \in 1..m \/ j = m + 1)
      BY <2>3, <1>2
    <3>2. QED
      BY <3>1, <2>1, <2>2, <2>3, <1>5
  <2>4. QED
    BY <2>3, <1>5 DEF Ascending
<1>9. Lists(t, S \cup {n + 1})
  BY <1>5, <1>6, <1>7, <1>8 DEF Lists
<1>10. n + 1 \in Nat /\ S \cup {n + 1} \in SUBSET (1..n + 1)
  OBVIOUS
<1>11. QED
  BY <1>1, <1>3, <1>9, <1>10, ListIsInOrder

LEMMA InOrderRest ==
    ASSUME NEW n \in Nat, NEW S \in SUBSET (1..n), NEW x \in S, \A y \in S : x <= y
    PROVE  /\ InOrder(S) \in Seq(Nat) /\ InOrder(S) # <<>>
           /\ Head(InOrder(S)) = x /\ Tail(InOrder(S)) = InOrder(S \ {x})
<1>1. PICK s, m : s = InOrder(S) /\ m = Cardinality(S)
  OBVIOUS
<1>2. Lists(s, S) /\ m \in Nat /\ S \subseteq Nat /\ x \in Nat
  <2>1. Lists(s, S) /\ m \in 0..n
    BY <1>1, InOrderLists
  <2>2. S \subseteq Nat
    OBVIOUS
  <2>3. QED
    BY <2>1, <2>2
<1>3. /\ s \in [1..m -> S]
      /\ \A y \in S : \E i \in 1..m : s[i] = y
      /\ \A i, j \in 1..m : i < j => s[i] < s[j]
  BY <1>1, <1>2 DEF Lists, Range, Ascending
<1>4. m - 1 \in Nat /\ s[1] = x /\ 1 \in 1..m
  <2>1. PICK i \in 1..m : s[i] = x
    BY <1>3
  <2>2. 1 \in 1..m /\ m - 1 \in Nat
    BY <2>1, <1>2
  <2>3. s[1] \in S /\ s[1] \in Nat /\ x <= s[1]
    <3>1. s[1] \in S
      BY <2>2, <1>3
    <3>2. QED
      BY <3>1, <1>2
  <2>4. i = 1 \/ s[1] < x
    BY <2>1, <2>2, <1>3
  <2>5. QED
    BY <2>1, <2>2, <2>3, <2>4
<1>5. s \in Seq(S) /\ s \in Seq(Nat) /\ Len(s) = m /\ s # <<>>
  <2>1. s \in [1..m -> S] /\ s \in [1..m -> Nat] /\ m \in Nat
    <3>1. \A i \in 1..m : s[i] \in Nat
      BY <1>2, <1>3
    <3>2. QED
      BY <3>1, <1>2, <1>3
  <2>2. s \in Seq(S) /\ s \in Seq(Nat) /\ Len(s) = m
    BY <2>1
  <2>3. QED
    BY <2>2, <1>4
<1>6. PICK t : t = Tail(s)
  OBVIOUS
<1>7. t \in [1..m - 1 -> S] /\ \A i \in 1..m - 1 : t[i] = s[i + 1] /\ i + 1 \in 2..m
  <2>1. t \in Seq(S) /\ Len(t) = m - 1 /\ \A i \in 1..m - 1 : t[i] = s[i + 1]
    BY <1>4, <1>5, <1>6
  <2>2. \A i \in 1..m - 1 : i + 1 \in 2..m
    BY <1>2, <1>4
  <2>3. QED
    BY <2>1, <2>2
<1>8. Cardinality(S \ {x}) = m - 1
  <2>1. IsFiniteSet(S)
    BY InOrderLists
  <2>2. QED
    BY <2>1, <1>1, FS_RemoveElement
<1>9. \A i \in 2..m : s[i] \in S \ {x}
  <2>1. ASSUME NEW i \in 2..m PROVE s[1] < s[i] /\ s[i] \in S
    BY <1>3, <1>4
  <2>2. QED
    <3>1. ASSUME NEW i \in 2..m PROVE s[i] \in S /\ s[i] # x
      BY <2>1, <1>4, x \in Nat
    <3>2. QED
      BY <3>1
<1>10. t \in [1..m - 1 -> S \ {x}]
  BY <1>7, <1>9
<1>11. Range(t) = S \ {x}
  <2>1. ASSUME NEW y \in S \ {x} PROVE \E i \in 1..m - 1 : t[i] = y
    <3>1. PICK i \in 1..m : s[i] = y
      BY <1>3
    <3>2. i # 1
      BY <3>1, <1>4
    <3>3. i - 1 \in 1..m - 1 /\ (i - 1) + 1 = i
      BY <3>2, <1>2, <1>4
    <3>4. QED
      BY <3>1, <3>3, <1>7
  <2>2. QED
    BY <2>1, <1>10 DEF Range
<1>12. Ascending(t)
  <2>1. ASSUME NEW i \in 1..m - 1, NEW j \in 1..m - 1, i < j PROVE t[i] < t[j]
    <3>1. i + 1 \in 1..m /\ j + 1 \in 1..m /\ i + 1 < j + 1
      BY <2>1, <1>2, <1>4
    <3>2. s[i + 1] < s[j + 1]
      BY <3>1, <1>3
    <3>3. QED
      BY <3>2, <1>7
  <2>2. QED
    BY <2>1, <1>10 DEF Ascending
<1>13. t = InOrder(S \ {x})
  <2>1. Lists(t, S \ {x})
    BY <1>8, <1>10, <1>11, <1>12 DEF Lists
  <2>2. S \ {x} \in SUBSET (1..n)
    OBVIOUS
  <2>3. QED
    BY <2>1, <2>2, ListIsInOrder
<1>14. QED
  <2>1. Head(s) = x
    BY <1>4, <1>5
  <2>2. QED
    BY <2>1, <1>1, <1>5, <1>6, <1>13

LEMMA InOrderPart ==
    ASSUME NEW n \in Nat, NEW S \in SUBSET (1..n), NEW T \in SUBSET S,
           \A x \in S : \A y \in T : x < y => x \in T
    PROVE  /\ Len(InOrder(T)) \in 0..Len(InOrder(S))
           /\ InOrder(T) = SubSeq(InOrder(S), 1, Len(InOrder(T)))
<1>1. PICK s, t : s = InOrder(S) /\ t = InOrder(T)
  OBVIOUS
<1>2. PICK l, m : l = Cardinality(S) /\ m = Cardinality(T)
  OBVIOUS
<1>3. Lists(s, S) /\ Lists(t, T) /\ IsFiniteSet(S)
  <2>1. T \in SUBSET (1..n)
    OBVIOUS
  <2>2. QED
    BY <1>1, <2>1, InOrderLists
<1>4. l \in Nat /\ m \in 0..l /\ \A i \in 1..m : t[i] = s[i]
  BY <1>2, <1>3, ListsAgree
<1>5. s \in [1..l -> S] /\ t \in [1..m -> T]
  BY <1>2, <1>3 DEF Lists
<1>6. s \in Seq(S) /\ t \in Seq(T) /\ Len(s) = l /\ Len(t) = m
  BY <1>4, <1>5
<1>7. PICK u : u = SubSeq(s, 1, m)
  OBVIOUS
<1>8. u \in [1..m -> S] /\ \A i \in 1..m : u[i] = s[i]
  <2>1. m \in Nat /\ m <= Len(s)
    BY <1>4, <1>6
  <2>2. u \in Seq(S) /\ Len(u) = m /\ \A i \in 1..m : u[i] = s[i]
    BY <2>1, <1>6, <1>7
  <2>3. QED
    BY <2>2
<1>9. t = u
  BY <1>4, <1>5, <1>8
<1>10. QED
  BY <1>1, <1>4, <1>6, <1>7, <1>9

-----------------------------------------------------------------------------
(* Frames: what the lines of a layout amount to.                             *)

LEMMA LayoutIs ==
    ASSUME NEW l \in Layouts
    PROVE  /\ l.head \in Seq(HeadFields) /\ Len(l.head) \in Nat /\ l.data \in Nat
           /\ Size(l) \in Nat \ {0} /\ Size(l) = Len(l.head) + l.data + 1
BY LayoutAssumption DEF Size

LEMMA FieldIs ==
    ASSUME NEW l \in Layouts, NEW k \in 1..Size(l)
    PROVE  /\ k <= Len(l.head) => FieldAt(l, k) = l.head[k] /\ FieldAt(l, k) \in HeadFields
           /\ k > Len(l.head) /\ k < Size(l) => FieldAt(l, k) = "data"
           /\ k = Size(l) => FieldAt(l, k) = "blank"
BY LayoutIs DEF FieldAt

LEMMA AccumulatedIs ==
    ASSUME NEW e, NEW i, NEW d, NEW field, NEW value
    PROVE  Accumulated([event |-> e, id |-> i, data |-> d], field, value) =
               [event |-> IF field = "event" THEN value ELSE e,
                id    |-> IF field = "id" THEN value ELSE i,
                data  |-> IF field = "data" THEN Append(d, value) ELSE d]
<1>1. CASE field = "event"
  BY <1>1 DEF Accumulated
<1>2. CASE field = "id"
  BY <1>2 DEF Accumulated
<1>3. CASE field = "data"
  BY <1>3 DEF Accumulated
<1>4. CASE field \notin {"event", "id", "data"}
  BY <1>4 DEF Accumulated
<1>5. QED
  BY <1>1, <1>2, <1>3, <1>4

\* The name of a frame, once the line that gives it is among the first k.
Named(l, n, k, field) == IF \E j \in 1..k : FieldAt(l, j) = field THEN n ELSE Empty
\* m lines of data of frame n.
Lined(n, m) == [i \in 1..m |-> n]

LEMMA UpToIs ==
    ASSUME NEW l, NEW n, NEW k
    PROVE  UpTo(l, n, k) = [event |-> Named(l, n, k, "event"), id |-> Named(l, n, k, "id"),
                            data |-> Lined(n, DataLines(l, k))]
BY DEF UpTo, Named, Lined

LEMMA LinedIs ==
    ASSUME NEW n, NEW m \in Nat
    PROVE  /\ Lined(n, m) \in Seq({n}) /\ Len(Lined(n, m)) = m
           /\ Append(Lined(n, m), n) = Lined(n, m + 1)
           /\ \A k \in 0..m : SubSeq(Lined(n, m), 1, k) = Lined(n, k)
           /\ Lined(n, m) = <<>> <=> m = 0
<1>1. PICK s : s = Lined(n, m)
  OBVIOUS
<1>2. s \in Seq({n}) /\ Len(s) = m /\ \A i \in 1..m : s[i] = n
  BY <1>1 DEF Lined
<1>3. Append(s, n) = Lined(n, m + 1)
  <2>1. PICK t : t = Append(s, n)
    OBVIOUS
  <2>2. t \in Seq({n}) /\ Len(t) = m + 1 /\ \A i \in 1..m + 1 : t[i] = n
    BY <1>2, <2>1
  <2>3. t = Lined(n, m + 1)
    BY <2>2 DEF Lined
  <2>4. QED
    BY <2>1, <2>3
<1>4. ASSUME NEW k \in 0..m PROVE SubSeq(s, 1, k) = Lined(n, k)
  <2>1. PICK t : t = SubSeq(s, 1, k)
    OBVIOUS
  <2>2. t \in Seq({n}) /\ Len(t) = k /\ \A i \in 1..k : t[i] = s[i]
    BY <1>2, <2>1
  <2>3. \A i \in 1..k : t[i] = n
    BY <1>2, <2>2
  <2>4. t = Lined(n, k)
    BY <2>2, <2>3 DEF Lined
  <2>5. QED
    BY <2>1, <2>4
<1>5. QED
  BY <1>1, <1>2, <1>3, <1>4

LEMMA UpToStart ==
    ASSUME NEW l \in Layouts, NEW n
    PROVE  UpTo(l, n, 0) = Blanked
<1>1. DataLines(l, 0) = 0
  BY LayoutIs DEF DataLines
<1>2. Lined(n, 0) = <<>>
  BY LinedIs
<1>3. Named(l, n, 0, "event") = Empty /\ Named(l, n, 0, "id") = Empty
  BY DEF Named
<1>4. QED
  BY <1>1, <1>2, <1>3, UpToIs DEF Blanked

LEMMA NamedNext ==
    ASSUME NEW l, NEW n, NEW k \in Nat, NEW field
    PROVE  Named(l, n, k + 1, field) =
               IF FieldAt(l, k + 1) = field THEN n ELSE Named(l, n, k, field)
<1>1. 1..k + 1 = (1..k) \cup {k + 1}
  OBVIOUS
<1>2. QED
  BY <1>1 DEF Named

LEMMA UpToNext ==
    ASSUME NEW l \in Layouts, NEW n, NEW k \in Nat, k + 1 < Size(l)
    PROVE  UpTo(l, n, k + 1) = Accumulated(UpTo(l, n, k), FieldAt(l, k + 1), n)
<1>1. PICK f : f = FieldAt(l, k + 1)
  OBVIOUS
<1>2. PICK h : h = Len(l.head)
  OBVIOUS
<1>3. h \in Nat /\ l.data \in Nat /\ Size(l) = h + l.data + 1
  BY <1>2, LayoutIs
<1>4. Lined(n, DataLines(l, k + 1)) =
          IF f = "data" THEN Append(Lined(n, DataLines(l, k)), n) ELSE Lined(n, DataLines(l, k))
  <2>1. CASE k + 1 <= h
    <3>1. f # "data"
      BY <2>1, <1>1, <1>2, <1>3, FieldIs DEF HeadFields
    <3>2. DataLines(l, k + 1) = 0 /\ DataLines(l, k) = 0
      BY <2>1, <1>2, <1>3 DEF DataLines
    <3>3. QED
      BY <3>1, <3>2
  <2>2. CASE k + 1 > h
    <3>1. f = "data"
      BY <2>2, <1>1, <1>2, <1>3, FieldIs
    <3>2. DataLines(l, k + 1) = DataLines(l, k) + 1 /\ DataLines(l, k) \in Nat
      <4>1. DataLines(l, k + 1) = (k + 1) - h
        <5>1. ~ (k + 1 <= Len(l.head)) /\ k + 1 < Size(l)
          BY <2>2, <1>2, <1>3
        <5>2. DataLines(l, k + 1) = (k + 1) - Len(l.head)
          BY <5>1 DEF DataLines
        <5>3. QED
          BY <5>2, <1>2
      <4>2. DataLines(l, k) = k - h
        <5>1. CASE k = h
          BY <5>1, <1>2, <1>3 DEF DataLines
        <5>2. CASE k > h
          BY <5>2, <1>2, <1>3 DEF DataLines
        <5>3. QED
          BY <5>1, <5>2, <2>2, <1>3
      <4>3. QED
        BY <4>1, <4>2, <2>2, <1>3
    <3>3. QED
      BY <3>1, <3>2, LinedIs
  <2>3. QED
    BY <2>1, <2>2, <1>3
<1>5. Named(l, n, k + 1, "event") = IF f = "event" THEN n ELSE Named(l, n, k, "event")
  BY <1>1, NamedNext
<1>6. Named(l, n, k + 1, "id") = IF f = "id" THEN n ELSE Named(l, n, k, "id")
  BY <1>1, NamedNext
<1>7. QED
  <2>1. PICK e, i, d : e = Named(l, n, k, "event") /\ i = Named(l, n, k, "id")
                       /\ d = Lined(n, DataLines(l, k))
    OBVIOUS
  <2>2. UpTo(l, n, k) = [event |-> e, id |-> i, data |-> d]
    BY <2>1, UpToIs
  <2>3. UpTo(l, n, k + 1) = [event |-> IF f = "event" THEN n ELSE e,
                             id    |-> IF f = "id" THEN n ELSE i,
                             data  |-> IF f = "data" THEN Append(d, n) ELSE d]
    BY <2>1, <1>4, <1>5, <1>6, UpToIs
  <2>4. QED
    BY <2>2, <2>3, <1>1, AccumulatedIs

\* Behind its first lines a frame has all the names it will have.
LEMMA NamedAll ==
    ASSUME NEW l \in Layouts, NEW n, NEW k \in Len(l.head)..Size(l), NEW field \in {"event", "id"}
    PROVE  Named(l, n, k, field) = IF field \in ToSet(l.head) THEN n ELSE Empty
<1>1. PICK h : h = Len(l.head)
  OBVIOUS
<1>2. h \in Nat /\ l.data \in Nat /\ Size(l) = h + l.data + 1 /\ l.head \in Seq(HeadFields)
      /\ k \in Nat /\ h <= k /\ k <= Size(l)
  BY <1>1, LayoutIs
<1>3. ASSUME NEW j \in 1..k, FieldAt(l, j) = field PROVE field \in ToSet(l.head)
  <2>1. j \in 1..Size(l)
    BY <1>2
  <2>2. j <= h
    <3>1. FieldAt(l, j) # "data" /\ FieldAt(l, j) # "blank"
      BY <1>3
    <3>2. ~ (j > Len(l.head))
      BY <3>1 DEF FieldAt
    <3>3. QED
      BY <3>2, <2>1, <1>1, <1>2
  <2>3. FieldAt(l, j) = l.head[j]
    <3>1. j <= Len(l.head)
      BY <2>2, <1>1
    <3>2. QED
      BY <3>1 DEF FieldAt
  <2>4. j \in DOMAIN l.head
    BY <2>1, <2>2, <1>1, <1>2
  <2>5. QED
    BY <2>3, <2>4, <1>3 DEF ToSet
<1>4. ASSUME field \in ToSet(l.head) PROVE \E j \in 1..k : FieldAt(l, j) = field
  <2>1. PICK j \in DOMAIN l.head : l.head[j] = field
    BY <1>4 DEF ToSet
  <2>2. j \in 1..h
    BY <1>1, <1>2
  <2>3. j \in 1..k /\ j \in 1..Size(l) /\ j <= h
    BY <2>2, <1>2
  <2>4. j <= Len(l.head)
    BY <2>3, <1>1
  <2>5. FieldAt(l, j) = l.head[j]
    BY <2>4 DEF FieldAt
  <2>6. QED
    BY <2>1, <2>3, <2>5
<1>5. QED
  BY <1>3, <1>4 DEF Named

\* What stands of a frame behind its first lines: the whole of it but for the data.
LEMMA UpToData ==
    ASSUME NEW l \in Layouts, NEW n, NEW k \in Len(l.head)..Size(l)
    PROVE  UpTo(l, n, k) = [Whole(l, n) EXCEPT !.data = Lined(n, DataLines(l, k))]
<1>1. PICK e, i : /\ e = IF "event" \in ToSet(l.head) THEN n ELSE Empty
                  /\ i = IF "id" \in ToSet(l.head) THEN n ELSE Empty
  OBVIOUS
<1>2. Named(l, n, k, "event") = e /\ Named(l, n, k, "id") = i
  BY <1>1, NamedAll
<1>3. UpTo(l, n, k) = [event |-> e, id |-> i, data |-> Lined(n, DataLines(l, k))]
  BY <1>2, UpToIs
<1>4. Whole(l, n) = [event |-> e, id |-> i, data |-> Lined(n, l.data)]
  BY <1>1 DEF Whole, Lined
<1>5. QED
  BY <1>3, <1>4

\* When all lines of data are read, with the blank line or without, the frame is whole.
LEMMA UpToWhole ==
    ASSUME NEW l \in Layouts, NEW n, NEW k \in {Size(l) - 1, Size(l)}
    PROVE  UpTo(l, n, k) = Whole(l, n)
<1>1. PICK h : h = Len(l.head)
  OBVIOUS
<1>2. h \in Nat /\ l.data \in Nat /\ Size(l) = h + l.data + 1
  BY <1>1, LayoutIs
<1>3. DataLines(l, k) = l.data /\ k \in h..Size(l)
  BY <1>1, <1>2 DEF DataLines
<1>4. UpTo(l, n, k) = [Whole(l, n) EXCEPT !.data = Lined(n, l.data)]
  BY <1>1, <1>3, UpToData
<1>5. QED
  BY <1>4 DEF Whole, Lined

LEMMA WholeIs ==
    ASSUME NEW l \in Layouts, NEW n
    PROVE  Whole(l, n).data = Lined(n, l.data) /\ (Whole(l, n).data = <<>> <=> l.data = 0)
BY LayoutIs, LinedIs DEF Whole, Lined

\* What the end of a body leaves of line k of a frame that is cut in it.
CutAt(l, n, k, c) ==
    Accumulated(UpTo(l, n, k - 1), IF c = "name" THEN "unknown" ELSE FieldAt(l, k), Cut)

\* Short data makes a cut frame.
LEMMA ShortIs ==
    ASSUME NEW l \in Layouts, NEW n \in Numbers, l.data > 0, NEW m \in 0..l.data - 1
    PROVE  /\ m > 0 => [Whole(l, n) EXCEPT !.data = Lined(n, m)] \in CutFrames
           /\ [Whole(l, n) EXCEPT !.data = Append(Lined(n, m), Cut)] \in CutFrames
<1>1. PICK d : d = Lined(n, l.data)
  OBVIOUS
<1>2. l.data \in Nat /\ Whole(l, n).data = d /\ Len(d) = l.data /\ SubSeq(d, 1, m) = Lined(n, m)
  <2>1. l.data \in Nat /\ m \in 0..l.data /\ Whole(l, n).data = d
    BY <1>1, LayoutIs, WholeIs
  <2>2. PICK q : q = l.data
    OBVIOUS
  <2>3. q \in Nat /\ m \in 0..q /\ d = Lined(n, q)
    BY <2>1, <2>2, <1>1
  <2>4. Len(Lined(n, q)) = q /\ SubSeq(Lined(n, q), 1, m) = Lined(n, m)
    BY <2>3, LinedIs
  <2>5. QED
    BY <2>1, <2>2, <2>3, <2>4
<1>3. Whole(l, n) \in WholeFrames
  BY DEF WholeFrames, WithData
<1>4. m > 0 => Lined(n, m) \in ShortData(d)
  <2>1. ASSUME m > 0 PROVE m \in 1..Len(d) - 1
    BY <1>2, <2>1
  <2>2. QED
    BY <2>1, <1>2 DEF ShortData
<1>5. Append(Lined(n, m), Cut) \in ShortData(d)
  <2>1. m \in 0..Len(d) - 1
    BY <1>2
  <2>2. QED
    BY <2>1, <1>2 DEF ShortData
<1>6. \A x \in ShortData(d) : [Whole(l, n) EXCEPT !.data = x] \in CutFrames
  <2>1. PICK f : f = Whole(l, n)
    OBVIOUS
  <2>2. f \in WholeFrames /\ f.data = d
    BY <2>1, <1>2, <1>3
  <2>3. ASSUME NEW x \in ShortData(f.data) PROVE [f EXCEPT !.data = x] \in CutFrames
    <3>1. PICK y : y = [f EXCEPT !.data = x]
      OBVIOUS
    <3>2. y \in {[f EXCEPT !.data = z] : z \in ShortData(f.data)}
      BY <3>1
    <3>3. {[f EXCEPT !.data = z] : z \in ShortData(f.data)}
              \in {{[g EXCEPT !.data = z] : z \in ShortData(g.data)} : g \in WholeFrames}
      BY <2>2, Zenon
    <3>4. y \in CutFrames
      BY <3>2, <3>3, Zenon DEF CutFrames
    <3>5. QED
      BY <3>1, <3>4
  <2>4. QED
    BY <2>1, <2>2, <2>3
<1>7. QED
  BY <1>4, <1>5, <1>6

LEMMA PartIs ==
    ASSUME NEW l \in Layouts, NEW n \in Numbers, NEW k \in Nat, k + 1 < Size(l)
    PROVE  UpTo(l, n, k).data = <<>> \/ (l.data > 0 /\ UpTo(l, n, k) \in CutFrames)
<1>1. PICK h : h = Len(l.head)
  OBVIOUS
<1>2. h \in Nat /\ l.data \in Nat /\ Size(l) = h + l.data + 1
  BY <1>1, LayoutIs
<1>3. CASE k <= h
  <2>1. DataLines(l, k) = 0
    BY <1>1, <1>3 DEF DataLines
  <2>2. Lined(n, 0) = <<>>
    BY LinedIs
  <2>3. QED
    BY <2>1, <2>2, UpToIs
<1>4. CASE k > h
  <2>1. DataLines(l, k) = k - h
    <3>1. ~ (k <= Len(l.head)) /\ k < Size(l)
      BY <1>1, <1>2, <1>4
    <3>2. QED
      BY <3>1, <1>1 DEF DataLines
  <2>2. PICK m : m = k - h
    OBVIOUS
  <2>3. m \in 0..l.data - 1 /\ m > 0 /\ l.data > 0 /\ k \in h..Size(l)
    BY <2>2, <1>2, <1>4
  <2>4. UpTo(l, n, k) = [Whole(l, n) EXCEPT !.data = Lined(n, m)]
    BY <2>1, <2>2, <2>3, <1>1, UpToData
  <2>5. QED
    BY <2>3, <2>4, ShortIs
<1>5. QED
  BY <1>2, <1>3, <1>4

LEMMA CutIs ==
    ASSUME NEW l \in Layouts, NEW n \in Numbers, NEW k \in 1..Size(l) - 1, NEW c
    PROVE  CutAt(l, n, k, c).data = <<>> \/ (l.data > 0 /\ CutAt(l, n, k, c) \in CutFrames)
<1>1. PICK h, u, f : /\ h = Len(l.head) /\ u = UpTo(l, n, k - 1)
                     /\ f = IF c = "name" THEN "unknown" ELSE FieldAt(l, k)
  OBVIOUS
<1>2. h \in Nat /\ l.data \in Nat /\ Size(l) = h + l.data + 1 /\ k - 1 \in Nat /\ k \in 1..Size(l)
  BY <1>1, LayoutIs
<1>3. PICK e, i, d : /\ u = [event |-> e, id |-> i, data |-> d] /\ d = Lined(n, DataLines(l, k - 1))
  BY <1>1, UpToIs
<1>4. CutAt(l, n, k, c) = [event |-> IF f = "event" THEN Cut ELSE e,
                           id    |-> IF f = "id" THEN Cut ELSE i,
                           data  |-> IF f = "data" THEN Append(d, Cut) ELSE d]
  BY <1>1, <1>3, AccumulatedIs DEF CutAt
<1>5. CASE k <= h
  <2>1. DataLines(l, k - 1) = 0
    BY <1>1, <1>2, <1>5 DEF DataLines
  <2>2. d = <<>>
    BY <2>1, <1>3, LinedIs
  <2>3. f # "data"
    BY <1>1, <1>2, <1>5, FieldIs DEF HeadFields
  <2>4. QED
    BY <2>2, <2>3, <1>4
<1>6. CASE k > h
  <2>1. PICK m : m = (k - 1) - h
    OBVIOUS
  <2>2. m \in 0..l.data - 1 /\ l.data > 0 /\ k - 1 \in h..Size(l) /\ m \in Nat
    BY <2>1, <1>2, <1>6
  <2>3. DataLines(l, k - 1) = m
    <3>1. CASE k - 1 = h
      <4>1. k - 1 <= Len(l.head) /\ m = 0
        BY <3>1, <2>1, <1>1, <1>2
      <4>2. QED
        BY <4>1 DEF DataLines
    <3>2. CASE k - 1 # h
      <4>1. ~ (k - 1 <= Len(l.head)) /\ k - 1 < Size(l)
        BY <3>2, <1>1, <1>2, <1>6
      <4>2. QED
        BY <4>1, <2>1, <1>1 DEF DataLines
    <3>3. QED
      BY <3>1, <3>2
  <2>4. d = Lined(n, m) /\ u = [Whole(l, n) EXCEPT !.data = Lined(n, m)]
    BY <2>2, <2>3, <1>1, <1>3, UpToData
  <2>5. CASE f = "data"
    <3>1. CutAt(l, n, k, c) = [u EXCEPT !.data = Append(d, Cut)]
      <4>1. PICK x : x = Append(d, Cut)
        OBVIOUS
      <4>2. CutAt(l, n, k, c) = [event |-> e, id |-> i, data |-> x]
        BY <4>1, <2>5, <1>4
      <4>3. [u EXCEPT !.data = x] = [event |-> e, id |-> i, data |-> x]
        BY <1>3
      <4>4. QED
        BY <4>1, <4>2, <4>3
    <3>2. CutAt(l, n, k, c) = [Whole(l, n) EXCEPT !.data = Append(Lined(n, m), Cut)]
      BY <3>1, <2>4 DEF Whole
    <3>3. QED
      BY <3>2, <2>2, ShortIs
  <2>6. CASE f # "data"
    <3>1. f = "unknown"
      <4>1. FieldAt(l, k) = "data"
        BY <1>1, <1>2, <1>6, FieldIs
      <4>2. QED
        BY <4>1, <2>6, <1>1
    <3>2. CutAt(l, n, k, c) = u
      BY <3>1, <1>3, <1>4
    <3>3. m = 0 => d = <<>>
      BY <2>4, LinedIs
    <3>4. QED
      <4>1. u.data = d
        BY <1>3
      <4>2. m > 0 => u \in CutFrames
        BY <2>2, <2>4, ShortIs
      <4>3. QED
        BY <4>1, <4>2, <3>2, <3>3, <2>2
  <2>7. QED
    BY <2>5, <2>6
<1>7. QED
  BY <1>2, <1>5, <1>6

-----------------------------------------------------------------------------
(* The invariant of the line machine.                                       *)

\* Nothing has happened before the stream is open.
AtFirst ==
    reader = "none" =>
        /\ begun = 0 /\ wireEnd = "open" /\ frame = 1 /\ acc = Blanked
        /\ ~outClosed => serrs = [val |-> NoErr, closed |-> FALSE]

\* A cut line is the last one of a body that ended, and not a blank one; while the body is open
\* the reader is behind the last frame only when its blank line was read.
OfBody ==
    /\ begun = 0 => sent = 0 /\ cut = "none"
    /\ cut # "none" => wireEnd # "open" /\ begun > 0 /\ sent \in 1..Size(layouts[begun]) - 1
    /\ reader \in {"reading", "sending"} /\ wireEnd = "open" /\ frame > begun /\ begun > 0 =>
           sent = Size(layouts[begun])
    /\ frame > begun => pos = 0

\* The accumulators hold what the lines read so far amount to, whatever was read before.
Gathered ==
    reader = "reading" => acc = IF frame <= begun THEN Amounts(frame, pos) ELSE Blanked

\* A frame is on offer exactly while the reader is blocked on it.
Offered ==
    /\ IF reader \in {"sending", "flushing"}
       THEN held = acc /\ pos = 0 /\ held.data # <<>>
       ELSE held = NoFrame
    /\ reader \in {"flushing", "failing"} => frame = begun + 1 /\ wireEnd # "open"

FramingInv == FramesOK /\ AtFirst /\ OfBody /\ Gathered /\ Offered

LEMMA FrameIs ==
    ASSUME FramesOK, NEW n \in 1..begun
    PROVE  /\ begun \in Nat /\ n \in Numbers /\ layouts[n] \in Layouts
           /\ Lines(n) \in 0..Size(layouts[n])
           /\ n < begun => Lines(n) = Size(layouts[n])
           /\ n = begun => Lines(n) = sent
<1>1. begun \in Nat /\ begun <= MaxFrames /\ sent \in Nat
  BY DEF FramesOK, begun
<1>2. layouts[n] \in Layouts
  BY DEF FramesOK, begun
<1>3. Size(layouts[n]) \in Nat
  BY <1>2, LayoutIs
<1>4. n = begun => sent <= Size(layouts[n])
  BY <1>1 DEF FramesOK
<1>5. QED
  BY <1>1, <1>2, <1>3, <1>4, BoundAssumption DEF Lines, Numbers

\* A line that was not cut says what the layout says.
LEMMA Uncut ==
    ASSUME FramesOK, OfBody, NEW n \in 1..begun, NEW k \in Nat,
           k < Lines(n) \/ k = Size(layouts[n]) \/ cut = "none"
    PROVE  /\ Amounts(n, k) = UpTo(layouts[n], n, k)
           /\ Value(n, k) = n /\ Field(n, k) = FieldAt(layouts[n], k)
<1>1. ~ IsCut(n, k)
  <2>1. SUFFICES ASSUME IsCut(n, k) PROVE FALSE
    OBVIOUS
  <2>2. cut # "none" /\ n = begun /\ k = sent /\ sent \in 1..Size(layouts[n]) - 1
    BY <2>1 DEF IsCut, OfBody
  <2>3. Lines(n) = sent /\ Size(layouts[n]) \in Nat
    BY <2>2, FrameIs, LayoutIs
  <2>4. QED
    BY <2>2, <2>3
<1>2. QED
  BY <1>1 DEF Amounts, Value, Field

LEMMA AmountsNext ==
    ASSUME FramesOK, OfBody, NEW n \in 1..begun, NEW k \in Nat, k < Lines(n),
           k + 1 < Size(layouts[n])
    PROVE  Amounts(n, k + 1) = Accumulated(Amounts(n, k), Field(n, k + 1), Value(n, k + 1))
<1>1. Amounts(n, k) = UpTo(layouts[n], n, k)
  BY Uncut
<1>2. CASE IsCut(n, k + 1)
  <2>1. (k + 1) - 1 = k
    OBVIOUS
  <2>2. QED
    BY <2>1, <1>1, <1>2 DEF Amounts
<1>3. CASE ~ IsCut(n, k + 1)
  <2>1. layouts[n] \in Layouts
    BY FrameIs
  <2>2. Amounts(n, k + 1) = UpTo(layouts[n], n, k + 1)
        /\ Field(n, k + 1) = FieldAt(layouts[n], k + 1) /\ Value(n, k + 1) = n
    BY <1>3 DEF Amounts, Field, Value
  <2>3. QED
    BY <1>1, <2>1, <2>2, UpToNext
<1>4. QED
  BY <1>2, <1>3

LEMMA BlankLine ==
    ASSUME FramesOK, OfBody, NEW n \in 1..begun, NEW k \in 1..Lines(n)
    PROVE  Field(n, k) = "blank" <=> k = Size(layouts[n])
<1>1. layouts[n] \in Layouts /\ Lines(n) \in 0..Size(layouts[n]) /\ Size(layouts[n]) \in Nat
  BY FrameIs, LayoutIs
<1>2. k \in 1..Size(layouts[n]) /\ k \in Nat
  BY <1>1
<1>3. FieldAt(layouts[n], k) = "blank" <=> k = Size(layouts[n])
  <2>1. CASE k <= Len(layouts[n].head)
    <3>1. FieldAt(layouts[n], k) # "blank"
      BY <2>1, <1>1, <1>2, FieldIs DEF HeadFields
    <3>2. k # Size(layouts[n])
      BY <2>1, <1>1, <1>2, LayoutIs
    <3>3. QED
      BY <3>1, <3>2
  <2>2. CASE k > Len(layouts[n].head) /\ k < Size(layouts[n])
    BY <2>2, <1>1, <1>2, FieldIs
  <2>3. CASE k = Size(layouts[n])
    BY <2>3, <1>1, <1>2, FieldIs
  <2>4. QED
    BY <2>1, <2>2, <2>3, <1>1, <1>2, LayoutIs
<1>4. CASE IsCut(n, k) /\ cut = "name"
  <2>1. k # Size(layouts[n])
    BY <1>4, <1>1, <1>2 DEF IsCut, OfBody
  <2>2. Field(n, k) = "unknown"
    BY <1>4 DEF Field
  <2>3. QED
    BY <2>1, <2>2
<1>5. CASE ~ (IsCut(n, k) /\ cut = "name")
  BY <1>3, <1>5 DEF Field
<1>6. QED
  BY <1>4, <1>5

LEMMA AccumulatedType ==
    ASSUME NEW a \in Frames, NEW field, NEW value \in Values
    PROVE  Accumulated(a, field, value) \in Frames
<1>1. PICK e \in Values, i \in Values, d \in Seq(Values) : a = [event |-> e, id |-> i, data |-> d]
  BY DEF Frames
<1>2. Append(d, value) \in Seq(Values)
  OBVIOUS
<1>3. Accumulated(a, field, value) =
          [event |-> IF field = "event" THEN value ELSE e,
           id    |-> IF field = "id" THEN value ELSE i,
           data  |-> IF field = "data" THEN Append(d, value) ELSE d]
  BY <1>1, AccumulatedIs
<1>4. QED
  BY <1>2, <1>3 DEF Frames

LEMMA BlankedIs == Blanked \in Frames /\ Blanked.data = <<>>
BY DEF Blanked, Frames, Values

-----------------------------------------------------------------------------
(* Every step keeps it.                                                     *)

LEMMA FramingInitInv == FramingInit => FramingInv
<1>. SUFFICES ASSUME FramingInit PROVE FramingInv
  OBVIOUS
<1>1. begun = 0 /\ layouts \in Seq(Layouts) /\ taken \in Seq(Frames)
  <2>1. PICK none : none = <<>>
    OBVIOUS
  <2>2. none \in Seq(Layouts) /\ none \in Seq(Frames) /\ Len(none) = 0
    BY <2>1
  <2>3. QED
    BY <2>1, <2>2 DEF FramingInit, begun
<1>2. FramesOK
  <2>1. serrs \in [val : {NoErr, "http", "cancelled", "eof", "broken"}, closed : BOOLEAN]
        /\ outClosed \in BOOLEAN /\ cancelled \in BOOLEAN
    BY DEF FramingInit
  <2>2. /\ frame \in 1..begun + 1 /\ ~ (frame <= begun) /\ begun <= MaxFrames /\ ~ (begun > 0)
        /\ sent \in Nat /\ pos \in Nat /\ cut = "none" /\ wireEnd = "open" /\ reader = "none"
        /\ held = NoFrame
    BY <1>1, BoundAssumption DEF FramingInit
  <2>3. acc \in Frames
    BY BlankedIs DEF FramingInit
  <2>4. QED
    BY <1>1, <2>1, <2>2, <2>3 DEF FramesOK
<1>3. QED
  BY <1>1, <1>2 DEF FramingInit, FramingInv, AtFirst, OfBody, Gathered, Offered

\* What the body amounts to depends on the body alone.
LEMMA SameBody ==
    ASSUME UNCHANGED server
    PROVE  /\ begun' = begun
           /\ \A n : Lines(n)' = Lines(n)
           /\ \A n, k : Amounts(n, k)' = Amounts(n, k)
<1>1. layouts' = layouts /\ sent' = sent /\ cut' = cut /\ wireEnd' = wireEnd
  BY DEF server
<1>2. QED
  BY <1>1 DEF begun, Lines, Amounts, IsCut, Field, Value

\* The steps of the reader that leave the body and its place in it alone.
LEMMA Steady ==
    ASSUME FramingInv, UNCHANGED <<server, read>>,
           acc' \in Frames,
           reader' \in {"none", "reading", "sending", "flushing", "failing", "closing_errs",
                        "closing_out", "exited"},
           serrs' \in [val : {NoErr, "http", "cancelled", "eof", "broken"}, closed : BOOLEAN],
           held' = NoFrame \/ (held' \in Frames /\ held'.data # <<>>),
           outClosed' \in BOOLEAN, cancelled' \in BOOLEAN, taken' \in Seq(Frames),
           AtFirst', Gathered', Offered',
           reader' \in {"reading", "sending"} => reader \in {"none", "reading", "sending"}
    PROVE  FramingInv'
<1>1. /\ layouts' = layouts /\ sent' = sent /\ cut' = cut /\ wireEnd' = wireEnd
      /\ frame' = frame /\ pos' = pos /\ begun' = begun /\ \A n : Lines(n)' = Lines(n)
  BY SameBody DEF server, read
<1>2. FramesOK'
  BY <1>1 DEF FramingInv, FramesOK
<1>3. OfBody'
  BY <1>1 DEF FramingInv, OfBody, AtFirst
<1>4. QED
  BY <1>2, <1>3 DEF FramingInv

LEMMA OpenKeeps == ASSUME FramingInv, Open PROVE FramingInv'
<1>1. /\ UNCHANGED <<server, read>> /\ acc' = acc /\ held' = held /\ cancelled' = cancelled
      /\ taken' = taken /\ reader = "none" /\ frame' = frame /\ begun' = begun /\ wireEnd' = wireEnd
  BY SameBody DEF Open, read, server
<1>2. FramesOK /\ begun = 0 /\ wireEnd = "open" /\ frame = 1 /\ acc = Blanked /\ held = NoFrame
  BY <1>1 DEF FramingInv, AtFirst, Offered
<1>3. CASE reader' = "reading" /\ UNCHANGED <<serrs, outClosed>>
  <2>1. AtFirst' /\ Gathered' /\ Offered'
    BY <1>1, <1>2, <1>3 DEF AtFirst, Gathered, Offered
  <2>2. QED
    BY <1>1, <1>2, <1>3, <2>1, Steady DEF FramesOK
<1>4. CASE /\ serrs' \in {[val |-> "http", closed |-> TRUE], [val |-> "cancelled", closed |-> TRUE]}
           /\ outClosed' = TRUE /\ reader' = reader
  <2>1. AtFirst' /\ Gathered' /\ Offered'
    BY <1>1, <1>2, <1>4 DEF AtFirst, Gathered, Offered
  <2>2. serrs' \in [val : {NoErr, "http", "cancelled", "eof", "broken"}, closed : BOOLEAN]
    <3>1. serrs' = [val |-> "http", closed |-> TRUE] \/ serrs' = [val |-> "cancelled", closed |-> TRUE]
      BY <1>4
    <3>2. CASE serrs' = [val |-> "http", closed |-> TRUE]
      BY <3>2
    <3>3. CASE serrs' = [val |-> "cancelled", closed |-> TRUE]
      BY <3>3
    <3>4. QED
      BY <3>1, <3>2, <3>3
  <2>3. outClosed' \in BOOLEAN
    BY <1>4
  <2>4. QED
    BY <1>1, <1>2, <1>4, <2>1, <2>2, <2>3, Steady DEF FramesOK
<1>5. QED
  BY <1>3, <1>4 DEF Open

LEMMA ReadLineKeeps == ASSUME FramingInv, ReadLine PROVE FramingInv'
<1>1. /\ UNCHANGED <<server, channels>> /\ frame' = frame /\ pos' = pos + 1 /\ reader' = reader
      /\ reader = "reading" /\ cancelled' = cancelled /\ taken' = taken
      /\ frame <= begun /\ pos # Lines(frame) /\ Field(frame, pos + 1) # "blank"
      /\ acc' = Accumulated(acc, Field(frame, pos + 1), Value(frame, pos + 1))
  BY DEF ReadLine, Ended, FramingInv, FramesOK, begun
<1>2. PICK n : n = frame
  OBVIOUS
<1>3. PICK k : k = pos
  OBVIOUS
<1>4. n \in 1..begun /\ k \in Nat /\ k < Lines(n) /\ k < Size(layouts[n])
      /\ layouts[n] \in Layouts /\ n \in Numbers /\ Lines(n) \in 0..Size(layouts[n])
      /\ Size(layouts[n]) \in Nat
  <2>1. n \in 1..begun /\ begun \in Nat /\ k \in Nat /\ k <= Lines(n) /\ k < Size(layouts[n])
    BY <1>1, <1>2, <1>3 DEF FramingInv, FramesOK, begun
  <2>2. layouts[n] \in Layouts /\ n \in Numbers /\ Lines(n) \in 0..Size(layouts[n])
    BY <2>1, FrameIs DEF FramingInv
  <2>3. Size(layouts[n]) \in Nat
    BY <2>2, LayoutIs
  <2>4. k < Lines(n)
    BY <2>1, <2>2, <2>3, <1>1, <1>2, <1>3
  <2>5. QED
    BY <2>1, <2>2, <2>3, <2>4
<1>5. k + 1 < Size(layouts[n])
  <2>1. k + 1 \in 1..Lines(n)
    BY <1>4
  <2>2. k + 1 # Size(layouts[n])
    BY <2>1, <1>1, <1>2, <1>3, <1>4, BlankLine DEF FramingInv
  <2>3. QED
    BY <2>2, <1>4
<1>6. acc = Amounts(n, k) /\ acc' = Amounts(n, k + 1) /\ acc' \in Frames
  <2>1. acc = Amounts(n, k)
    BY <1>1, <1>2, <1>3 DEF FramingInv, Gathered
  <2>2. acc' = Amounts(n, k + 1)
    BY <2>1, <1>1, <1>2, <1>3, <1>4, <1>5, AmountsNext DEF FramingInv
  <2>3. Value(n, k + 1) \in Values
    BY <1>4 DEF Value, Values
  <2>4. acc' \in Frames
    BY <2>3, <1>1, <1>2, <1>3, AccumulatedType DEF FramingInv, FramesOK
  <2>5. QED
    BY <2>1, <2>2, <2>4
<1>7. /\ begun' = begun /\ Lines(n)' = Lines(n) /\ Amounts(n, k + 1)' = Amounts(n, k + 1)
      /\ layouts' = layouts /\ sent' = sent /\ cut' = cut /\ wireEnd' = wireEnd
      /\ held' = held /\ serrs' = serrs /\ outClosed' = outClosed
  BY <1>1, SameBody DEF server, channels
<1>8. frame' = n /\ pos' = k + 1
  BY <1>1, <1>2, <1>3
<1>9. Gathered'
  <2>1. acc' = Amounts(n, k + 1)' /\ frame' <= begun'
    BY <1>1, <1>6, <1>7
  <2>2. QED
    BY <2>1, <1>8 DEF Gathered
<1>10. Lines(frame)' = Lines(n)
  BY <1>7, <1>8
<1>11. FramesOK'
  <2>1. pos' \in Nat /\ pos' <= Lines(frame)' /\ pos' < Size(layouts'[frame'])
    BY <1>4, <1>5, <1>7, <1>8, <1>10
  <2>2. QED
    BY <2>1, <1>1, <1>6, <1>7 DEF FramingInv, FramesOK
<1>12. AtFirst' /\ OfBody' /\ Offered'
  <2>1. AtFirst' /\ Offered'
    BY <1>1, <1>7 DEF FramingInv, AtFirst, Offered
  <2>2. ~ (frame' > begun') /\ n \in Nat /\ begun \in Nat
    BY <1>4, <1>7, <1>8, FrameIs DEF FramingInv, Numbers
  <2>3. OfBody'
    BY <2>2, <1>7 DEF FramingInv, OfBody
  <2>4. QED
    BY <2>1, <2>3
<1>13. QED
  BY <1>9, <1>11, <1>12 DEF FramingInv

LEMMA AmountsStart ==
    ASSUME FramesOK, OfBody, NEW n \in 1..begun
    PROVE  Amounts(n, 0) = Blanked
<1>1. layouts[n] \in Layouts /\ Lines(n) \in 0..Size(layouts[n]) /\ Size(layouts[n]) \in Nat \ {0}
  BY FrameIs, LayoutIs
<1>2. 0 < Lines(n) \/ cut = "none"
  BY <1>1, FrameIs DEF OfBody
<1>3. Amounts(n, 0) = UpTo(layouts[n], n, 0)
  BY <1>2, Uncut
<1>4. QED
  BY <1>1, <1>3, UpToStart

\* The reader goes on behind a frame, with its accumulators reset or the frame on offer.
LEMMA NextFrame ==
    ASSUME FramingInv, UNCHANGED <<server, serrs, outClosed, cancelled, taken>>,
           reader = "reading", pos' = 0, NEW f \in 1..begun, frame' = f + 1,
           wireEnd = "open" /\ f = begun => sent = Size(layouts[begun]),
           \/ reader' = "sending" /\ acc.data # <<>> /\ held' = acc /\ acc' = acc
           \/ reader' = "reading" /\ held' = held /\ acc' = Blanked
    PROVE  FramingInv'
<1>1. /\ layouts' = layouts /\ sent' = sent /\ cut' = cut /\ wireEnd' = wireEnd
      /\ begun' = begun /\ (\A n : Lines(n)' = Lines(n)) /\ (\A n, k : Amounts(n, k)' = Amounts(n, k))
      /\ serrs' = serrs /\ outClosed' = outClosed /\ cancelled' = cancelled /\ taken' = taken
  BY SameBody DEF server
<1>2. begun \in Nat /\ f \in Nat /\ f + 1 \in 1..begun + 1
  BY FrameIs DEF FramingInv, Numbers
<1>3. f + 1 <= begun => Size(layouts[f + 1]) \in Nat \ {0} /\ Lines(f + 1) \in Nat
                        /\ Amounts(f + 1, 0) = Blanked
  <2>1. ASSUME f + 1 \in 1..begun PROVE Size(layouts[f + 1]) \in Nat \ {0} /\ Lines(f + 1) \in Nat
    BY <2>1, FrameIs, LayoutIs DEF FramingInv
  <2>2. ASSUME f + 1 \in 1..begun PROVE Amounts(f + 1, 0) = Blanked
    BY <2>2, AmountsStart DEF FramingInv
  <2>3. QED
    BY <2>1, <2>2, <1>2
<1>4. /\ (Lines(frame))' = Lines(f + 1) /\ (Amounts(frame, pos))' = Amounts(f + 1, 0)
      /\ acc \in Frames /\ held = NoFrame /\ acc' \in Frames
  <2>1. \A n : Lines(n)' = Lines(n) /\ \A k : Amounts(n, k)' = Amounts(n, k)
    BY <1>1
  <2>2. PICK g : g = f + 1
    OBVIOUS
  <2>3. Lines(g)' = Lines(g) /\ Amounts(g, 0)' = Amounts(g, 0)
    BY <2>1
  <2>4. frame' = g /\ pos' = 0
    BY <2>2
  <2>5. acc \in Frames /\ held = NoFrame /\ acc' \in Frames
    BY BlankedIs DEF FramingInv, FramesOK, Offered
  <2>6. QED
    BY <2>2, <2>3, <2>4, <2>5
<1>5. FramesOK'
  <2>1. frame' \in 1..begun' + 1
    BY <1>1, <1>2
  <2>2. frame' <= begun' => pos' <= (Lines(frame))' /\ pos' < Size(layouts'[frame'])
    BY <1>1, <1>3, <1>4
  <2>3. held' # NoFrame => held' \in Frames /\ held'.data # <<>>
    BY <1>4
  <2>4. reader' \in {"sending", "reading"}
    OBVIOUS
  <2>5. QED
    BY <2>1, <2>2, <2>3, <2>4, <1>1, <1>4 DEF FramingInv, FramesOK
<1>6. OfBody'
  <2>1. wireEnd' = "open" /\ frame' > begun' => sent' = Size(layouts'[begun'])
    BY <1>1, <1>2
  <2>2. QED
    BY <2>1, <1>1 DEF FramingInv, OfBody
<1>7. AtFirst' /\ Offered'
  BY <1>1, <1>4 DEF AtFirst, Offered
<1>8. Gathered'
  <2>1. CASE reader' = "reading"
    <3>1. acc' = Blanked
      BY <2>1
    <3>2. frame' <= begun' => (Amounts(frame, pos))' = Blanked
      BY <1>1, <1>3, <1>4
    <3>3. QED
      BY <3>1, <3>2 DEF Gathered
  <2>2. CASE reader' = "sending"
    BY <2>2 DEF Gathered
  <2>3. QED
    BY <2>1, <2>2
<1>9. QED
  BY <1>5, <1>6, <1>7, <1>8 DEF FramingInv

LEMMA ReadBlankKeeps == ASSUME FramingInv, ReadBlank PROVE FramingInv'
<1>1. PICK f : f = frame
  OBVIOUS
<1>2. /\ UNCHANGED <<server, serrs, outClosed, cancelled, taken>>
      /\ reader = "reading" /\ frame' = f + 1 /\ pos' = 0
      /\ f <= begun /\ pos # Lines(f) /\ Field(f, pos + 1) = "blank"
      /\ \/ reader' = "sending" /\ acc.data # <<>> /\ held' = acc /\ acc' = acc
         \/ reader' = "reading" /\ held' = held /\ acc' = Blanked
  BY <1>1 DEF ReadBlank, Ended, Dispatch, hasData, Reset, FramingInv, FramesOK, begun
<1>3. f \in 1..begun /\ pos \in Nat /\ pos <= Lines(f) /\ pos < Size(layouts[f])
      /\ Lines(f) \in 0..Size(layouts[f]) /\ Size(layouts[f]) \in Nat
  <2>1. f \in 1..begun /\ pos \in Nat /\ pos <= Lines(f) /\ pos < Size(layouts[f])
    BY <1>1, <1>2 DEF FramingInv, FramesOK, begun
  <2>2. QED
    BY <2>1, FrameIs, LayoutIs DEF FramingInv
<1>4. pos + 1 = Size(layouts[f]) /\ Lines(f) = Size(layouts[f])
  <2>1. pos + 1 \in 1..Lines(f)
    BY <1>2, <1>3
  <2>2. pos + 1 = Size(layouts[f])
    BY <2>1, <1>2, <1>3, BlankLine DEF FramingInv
  <2>3. QED
    BY <2>1, <2>2, <1>3
<1>5. f = begun => sent = Size(layouts[begun])
  BY <1>3, <1>4, FrameIs DEF FramingInv
<1>6. QED
  BY <1>2, <1>3, <1>5, NextFrame

LEMMA SendCancelledKeeps == ASSUME FramingInv, SendCancelled PROVE FramingInv'
<1>1. /\ UNCHANGED <<server, read>> /\ acc' = acc /\ held' = NoFrame /\ cancelled' = cancelled
      /\ taken' = taken /\ serrs' = serrs /\ outClosed' = outClosed /\ reader' = "closing_errs"
  BY DEF SendCancelled
<1>2. AtFirst' /\ Gathered' /\ Offered'
  BY <1>1 DEF AtFirst, Gathered, Offered
<1>3. QED
  BY <1>1, <1>2, Steady DEF FramingInv, FramesOK

LEMMA ReadCancelledKeeps == ASSUME FramingInv, ReadCancelled PROVE FramingInv'
<1>1. /\ UNCHANGED <<server, read>> /\ acc' = acc /\ held' = held /\ cancelled' = cancelled
      /\ taken' = taken /\ serrs' = serrs /\ outClosed' = outClosed
      /\ reader = "reading" /\ reader' = "closing_errs"
  BY DEF ReadCancelled, channels
<1>2. AtFirst' /\ Gathered' /\ Offered'
  BY <1>1 DEF FramingInv, AtFirst, Gathered, Offered
<1>3. QED
  BY <1>1, <1>2, Steady DEF FramingInv, FramesOK

LEMMA PushErrorKeeps == ASSUME FramingInv, PushError PROVE FramingInv'
<1>1. /\ UNCHANGED <<server, read>> /\ acc' = acc /\ held' = held /\ cancelled' = cancelled
      /\ taken' = taken /\ outClosed' = outClosed /\ serrs' = [serrs EXCEPT !.val = wireEnd]
      /\ reader = "failing" /\ reader' = "closing_errs"
  BY DEF PushError
<1>2. AtFirst' /\ Gathered' /\ Offered'
  BY <1>1 DEF FramingInv, AtFirst, Gathered, Offered
<1>3. serrs' \in [val : {NoErr, "http", "cancelled", "eof", "broken"}, closed : BOOLEAN]
  <2>1. wireEnd \in {"eof", "broken"}
    BY <1>1 DEF FramingInv, FramesOK, Offered
  <2>2. QED
    BY <2>1, <1>1 DEF FramingInv, FramesOK
<1>4. QED
  BY <1>1, <1>2, <1>3, Steady DEF FramingInv, FramesOK

LEMMA CloseErrsKeeps == ASSUME FramingInv, CloseErrs PROVE FramingInv'
<1>1. /\ UNCHANGED <<server, read>> /\ acc' = acc /\ held' = held /\ cancelled' = cancelled
      /\ taken' = taken /\ outClosed' = outClosed /\ serrs' = [serrs EXCEPT !.closed = TRUE]
      /\ reader = "closing_errs" /\ reader' = "closing_out"
  BY DEF CloseErrs
<1>2. AtFirst' /\ Gathered' /\ Offered'
  BY <1>1 DEF FramingInv, AtFirst, Gathered, Offered
<1>3. serrs' \in [val : {NoErr, "http", "cancelled", "eof", "broken"}, closed : BOOLEAN]
  BY <1>1 DEF FramingInv, FramesOK
<1>4. QED
  BY <1>1, <1>2, <1>3, Steady DEF FramingInv, FramesOK

LEMMA CloseOutKeeps == ASSUME FramingInv, CloseOut PROVE FramingInv'
<1>1. /\ UNCHANGED <<server, read>> /\ acc' = acc /\ held' = held /\ cancelled' = cancelled
      /\ taken' = taken /\ outClosed' = TRUE /\ serrs' = serrs
      /\ reader = "closing_out" /\ reader' = "exited"
  BY DEF CloseOut
<1>2. AtFirst' /\ Gathered' /\ Offered'
  BY <1>1 DEF FramingInv, AtFirst, Gathered, Offered
<1>3. outClosed' \in BOOLEAN
  BY <1>1
<1>4. QED
  BY <1>1, <1>2, <1>3, Steady DEF FramingInv, FramesOK

LEMMA TakeKeeps == ASSUME FramingInv, Take PROVE FramingInv'
<1>1. /\ UNCHANGED <<server, read>> /\ acc' = Blanked /\ held' = NoFrame /\ cancelled' = cancelled
      /\ taken' = Append(taken, held) /\ outClosed' = outClosed /\ serrs' = serrs
      /\ frame' = frame /\ pos' = pos /\ wireEnd' = wireEnd /\ begun' = begun
      /\ reader \in {"sending", "flushing"}
      /\ reader' = IF reader = "sending" THEN "reading" ELSE "failing"
  BY SameBody DEF Take, Reset, read, server
<1>2. held \in Frames /\ taken \in Seq(Frames) /\ pos = 0 /\ frame \in 1..begun + 1 /\ begun \in Nat
      /\ held.data # <<>>
  <2>1. held = acc /\ pos = 0 /\ held.data # <<>>
    BY <1>1 DEF FramingInv, Offered
  <2>2. QED
    BY <2>1 DEF FramingInv, FramesOK, begun
<1>3. taken' \in Seq(Frames)
  BY <1>1, <1>2
<1>4. Gathered'
  <2>1. PICK f : f = frame
    OBVIOUS
  <2>2. ASSUME f <= begun PROVE Amounts(f, 0)' = Blanked
    BY <1>1, <1>2, <2>1, <2>2, SameBody, AmountsStart DEF FramingInv
  <2>3. QED
    BY <1>1, <1>2, <2>1, <2>2 DEF Gathered
<1>5. AtFirst' /\ Offered'
  BY <1>1 DEF FramingInv, AtFirst, Offered
<1>6. QED
  BY <1>1, <1>3, <1>4, <1>5, BlankedIs, Steady DEF FramingInv, FramesOK

LEMMA TakeErrKeeps == ASSUME FramingInv, TakeErr PROVE FramingInv'
<1>1. /\ UNCHANGED <<server, read>> /\ acc' = acc /\ held' = held /\ cancelled' = cancelled
      /\ taken' = taken /\ outClosed' = outClosed /\ serrs' = [serrs EXCEPT !.val = NoErr]
      /\ serrs.val # NoErr /\ reader' = reader
      /\ frame' = frame /\ pos' = pos /\ wireEnd' = wireEnd /\ begun' = begun
  BY SameBody DEF TakeErr, read, server
<1>2. PICK a : a = Amounts(frame, pos) /\ a = (Amounts(frame, pos))'
  BY <1>1, SameBody DEF server, read, Amounts, IsCut, Field, Value, begun
<1>3. AtFirst' /\ Gathered' /\ Offered'
  BY <1>1, <1>2 DEF FramingInv, AtFirst, Gathered, Offered
<1>4. serrs' \in [val : {NoErr, "http", "cancelled", "eof", "broken"}, closed : BOOLEAN]
  BY <1>1 DEF FramingInv, FramesOK
<1>5. QED
  BY <1>1, <1>3, <1>4, Steady DEF FramingInv, FramesOK

LEMMA CancelKeeps == ASSUME FramingInv, Cancel PROVE FramingInv'
<1>1. /\ UNCHANGED <<server, read>> /\ acc' = acc /\ held' = held /\ cancelled' = TRUE
      /\ taken' = taken /\ outClosed' = outClosed /\ serrs' = serrs /\ reader' = reader
      /\ frame' = frame /\ pos' = pos /\ wireEnd' = wireEnd /\ begun' = begun
  BY SameBody DEF Cancel, channels, read, server
<1>2. PICK a : a = Amounts(frame, pos) /\ a = (Amounts(frame, pos))'
  BY <1>1, SameBody DEF server, read, Amounts, IsCut, Field, Value, begun
<1>3. AtFirst' /\ Gathered' /\ Offered'
  BY <1>1, <1>2 DEF FramingInv, AtFirst, Gathered, Offered
<1>4. cancelled' \in BOOLEAN
  BY <1>1
<1>5. QED
  BY <1>1, <1>3, <1>4, Steady DEF FramingInv, FramesOK

LEMMA ReadEndKeeps == ASSUME FramingInv, ReadEnd PROVE FramingInv'
<1>1. /\ layouts' = layouts /\ sent' = sent /\ cut' = cut /\ wireEnd' = wireEnd
      /\ begun' = begun /\ serrs' = serrs /\ outClosed' = outClosed /\ cancelled' = cancelled
      /\ taken' = taken /\ reader = "reading" /\ wireEnd # "open"
      /\ frame' = begun + 1 /\ pos' = 0
  BY SameBody DEF ReadEnd, server
<1>2. \/ reader' = "flushing" /\ acc.data # <<>> /\ held' = acc /\ acc' = acc
      \/ reader' = "failing" /\ held' = held /\ acc' \in {acc, Blanked}
  BY DEF ReadEnd, Dispatch, hasData, Reset
<1>3. begun \in Nat /\ acc \in Frames /\ acc' \in Frames /\ held = NoFrame
  BY <1>1, <1>2, BlankedIs DEF FramingInv, FramesOK, Offered, begun
<1>4. FramesOK'
  <2>1. frame' \in 1..begun' + 1 /\ ~ (frame' <= begun') /\ pos' \in Nat
    BY <1>1, <1>3
  <2>2. held' # NoFrame => held' \in Frames /\ held'.data # <<>>
    BY <1>2, <1>3
  <2>3. reader' \in {"flushing", "failing"}
    BY <1>2
  <2>4. QED
    BY <2>1, <2>2, <2>3, <1>1, <1>3 DEF FramingInv, FramesOK
<1>5. AtFirst' /\ OfBody' /\ Gathered'
  BY <1>1, <1>2 DEF FramingInv, AtFirst, OfBody, Gathered
<1>6. Offered'
  BY <1>1, <1>2, <1>3 DEF Offered
<1>7. QED
  BY <1>4, <1>5, <1>6 DEF FramingInv

\* What a body that has not been cut amounts to.
LEMMA OpenBody ==
    ASSUME cut = "none", NEW n, NEW k
    PROVE  Amounts(n, k) = UpTo(layouts[n], n, k)
BY DEF Amounts, IsCut

\* A step of the server leaves the reader where it is, in a body that has not lost what was read.
ServerStep ==
    /\ UNCHANGED <<read, reader, acc, channels, cancelled, taken>>
    /\ reader \in {"reading", "sending"}
    /\ layouts' \in Seq(Layouts) /\ begun' <= MaxFrames
    /\ sent' \in Nat /\ (begun' > 0 => sent' <= Size(layouts'[begun']))
    /\ cut' \in {"none", "value", "name"} /\ wireEnd' \in {"open", "eof", "broken"}
    /\ frame \in 1..begun' + 1
    /\ frame \in 1..begun' => /\ pos <= (Lines(frame))' /\ pos < Size(layouts'[frame])
                              /\ reader = "reading" => acc = (Amounts(frame, pos))'
    /\ frame = begun' + 1 =>
          /\ pos = 0 /\ (reader = "reading" => acc = Blanked)
          /\ wireEnd' = "open" /\ begun' > 0 => sent' = Size(layouts'[begun'])
    /\ begun' = 0 => sent' = 0 /\ cut' = "none"
    /\ cut' # "none" => /\ wireEnd' # "open" /\ begun' > 0
                        /\ sent' \in 1..Size(layouts'[begun']) - 1

LEMMA ServerKeeps == ASSUME FramingInv, ServerStep PROVE FramingInv'
<1>1. /\ frame' = frame /\ pos' = pos /\ reader' = reader /\ acc' = acc /\ held' = held
      /\ serrs' = serrs /\ outClosed' = outClosed /\ cancelled' = cancelled /\ taken' = taken
      /\ reader \in {"reading", "sending"} /\ layouts' \in Seq(Layouts)
  BY DEF ServerStep, read, channels
<1>2. begun' \in Nat
  BY <1>1 DEF begun
<1>3. frame' \in 1..begun' + 1 /\ (frame' <= begun' => frame' \in 1..begun')
      /\ (frame' > begun' => frame' = begun' + 1) /\ (~ (frame' <= begun') => frame' = begun' + 1)
  <2>1. PICK f, b : f = frame /\ b = begun'
    OBVIOUS
  <2>2. f \in 1..b + 1 /\ b \in Nat
    BY <2>1, <1>2 DEF ServerStep
  <2>3. (f <= b => f \in 1..b) /\ (f > b => f = b + 1) /\ (~ (f <= b) => f = b + 1)
    BY <2>2
  <2>4. frame' = f /\ begun' = b
    BY <2>1, <1>1
  <2>5. QED
    BY <2>2, <2>3, <2>4
<1>4. FramesOK'
  <2>1. pos' \in Nat
    BY <1>1 DEF FramingInv, FramesOK
  <2>2. frame' <= begun' => pos' <= (Lines(frame))' /\ pos' < Size(layouts'[frame'])
    BY <1>1, <1>3 DEF ServerStep
  <2>3. /\ reader' \in {"reading", "sending"} /\ acc' \in Frames /\ taken' \in Seq(Frames)
        /\ held' # NoFrame => held' \in Frames /\ held'.data # <<>>
        /\ serrs' \in [val : {NoErr, "http", "cancelled", "eof", "broken"}, closed : BOOLEAN]
        /\ outClosed' \in BOOLEAN /\ cancelled' \in BOOLEAN
    BY <1>1 DEF FramingInv, FramesOK
  <2>4. QED
    BY <2>1, <2>2, <2>3, <1>1, <1>3 DEF FramesOK, ServerStep
<1>5. OfBody'
  <2>1. frame' > begun' => pos' = 0
    BY <1>1, <1>3 DEF ServerStep
  <2>2. wireEnd' = "open" /\ frame' > begun' /\ begun' > 0 => sent' = Size(layouts'[begun'])
    BY <1>1, <1>3 DEF ServerStep
  <2>3. QED
    BY <2>1, <2>2 DEF OfBody, ServerStep
<1>6. AtFirst' /\ Offered'
  BY <1>1 DEF FramingInv, AtFirst, Offered
<1>7. Gathered'
  <2>1. reader' = "reading" /\ frame' <= begun' => acc' = (Amounts(frame, pos))'
    BY <1>1, <1>3 DEF ServerStep
  <2>2. reader' = "reading" /\ ~ (frame' <= begun') => acc' = Blanked
    BY <1>1, <1>2, <1>3 DEF ServerStep
  <2>3. QED
    BY <2>1, <2>2 DEF Gathered
<1>8. QED
  BY <1>4, <1>5, <1>6, <1>7 DEF FramingInv

LEMMA BeginFrameKeeps == ASSUME FramingInv, BeginFrame PROVE FramingInv'
<1>1. /\ UNCHANGED <<read, reader, acc, channels, cancelled, taken>>
      /\ cut' = cut /\ wireEnd' = "open" /\ sent' = 0 /\ reader \in {"reading", "sending"}
      /\ wireEnd = "open" /\ cut = "none" /\ begun < MaxFrames
      /\ begun > 0 => sent = Size(layouts[begun])
  BY DEF BeginFrame, Connected, FramingInv, OfBody
<1>2. PICK layout \in Layouts : layouts' = Append(layouts, layout)
  BY DEF BeginFrame
<1>3. PICK s, b : s = layouts /\ b = begun
  OBVIOUS
<1>4. s \in Seq(Layouts) /\ Len(s) = b /\ b \in Nat
  BY <1>3 DEF FramingInv, FramesOK, begun
<1>5. PICK t : t = Append(s, layout)
  OBVIOUS
<1>6. t \in Seq(Layouts) /\ Len(t) = b + 1 /\ t[b + 1] = layout /\ \A n \in 1..b : t[n] = s[n]
  BY <1>4, <1>5
<1>7. layouts' = t /\ begun' = b + 1
  BY <1>2, <1>3, <1>5, <1>6 DEF begun
<1>8. Size(layout) \in Nat \ {0} /\ UpTo(layout, b + 1, 0) = Blanked
  BY LayoutIs, UpToStart
<1>9. PICK f, p : f = frame /\ p = pos
  OBVIOUS
<1>10. f \in 1..b + 1 /\ p \in Nat /\ (f <= b => p < Size(s[f]) /\ p <= Lines(f))
       /\ frame' = f /\ pos' = p
  BY <1>1, <1>3, <1>9 DEF FramingInv, FramesOK, read
<1>11. ASSUME NEW n \in 1..b PROVE Lines(n)' = Size(s[n]) /\ Size(s[n]) \in Nat
                                   /\ \A k : Amounts(n, k)' = Amounts(n, k)
  <2>1. s[n] \in Layouts
    BY <1>4
  <2>2. Lines(n)' = Size(t[n])
    BY <1>4, <1>7 DEF Lines
  <2>3. \A k : Amounts(n, k)' = UpTo(t[n], n, k) /\ Amounts(n, k) = UpTo(s[n], n, k)
    BY <1>1, <1>3, <1>7 DEF Amounts, IsCut
  <2>4. QED
    BY <2>1, <2>2, <2>3, <1>6, LayoutIs
<1>12. CASE f <= b
  <2>1. (Lines(frame))' = Size(s[f]) /\ (Amounts(frame, pos))' = Amounts(f, p) /\ Size(s[f]) \in Nat
    <3>1. Lines(f)' = Size(s[f]) /\ Amounts(f, p)' = Amounts(f, p) /\ Size(s[f]) \in Nat
      BY <1>10, <1>11, <1>12
    <3>2. QED
      BY <3>1, <1>10
  <2>2. p <= Size(s[f]) /\ p < Size(t[f])
    BY <2>1, <1>6, <1>10, <1>12
  <2>3. reader = "reading" => acc = Amounts(f, p)
    BY <1>3, <1>9, <1>12 DEF FramingInv, Gathered
  <2>4. frame \in 1..begun' /\ frame \in 1..begun' + 1 /\ frame # begun' + 1 /\ begun' > 0
    BY <1>4, <1>7, <1>9, <1>10, <1>12
  <2>5. QED
    <3>1. layouts' \in Seq(Layouts) /\ begun' <= MaxFrames /\ sent' \in Nat
          /\ sent' <= Size(layouts'[begun'])
      BY <1>1, <1>3, <1>4, <1>6, <1>7, <1>8, BoundAssumption
    <3>2. ServerStep
      BY <2>1, <2>2, <2>3, <2>4, <3>1, <1>1, <1>7, <1>9 DEF ServerStep
    <3>3. QED
      BY <3>2, ServerKeeps
<1>13. CASE f = b + 1
  <2>1. p = 0 /\ (reader = "reading" => acc = Blanked)
    BY <1>3, <1>4, <1>9, <1>13 DEF FramingInv, OfBody, Gathered
  <2>2. (Amounts(frame, pos))' = Blanked /\ (Lines(frame))' = 0
    <3>1. (Amounts(frame, pos))' = UpTo(t[b + 1], b + 1, 0)
      BY <2>1, <1>1, <1>7, <1>10, <1>13 DEF Amounts, IsCut
    <3>2. (Lines(frame))' = 0
      BY <1>1, <1>4, <1>7, <1>10, <1>13 DEF Lines
    <3>3. QED
      BY <3>1, <3>2, <1>6, <1>8
  <2>3. frame \in 1..begun' /\ frame \in 1..begun' + 1 /\ frame # begun' + 1 /\ begun' > 0 /\ pos < Size(layouts'[frame])
    BY <2>1, <1>4, <1>6, <1>7, <1>8, <1>9, <1>13
  <2>4. QED
    <3>1. layouts' \in Seq(Layouts) /\ begun' <= MaxFrames /\ sent' \in Nat
          /\ sent' <= Size(layouts'[begun'])
      BY <1>1, <1>3, <1>4, <1>6, <1>7, <1>8, BoundAssumption
    <3>2. ServerStep
      BY <2>1, <2>2, <2>3, <3>1, <1>1, <1>7, <1>9 DEF ServerStep
    <3>3. QED
      BY <3>2, ServerKeeps
<1>14. QED
  BY <1>4, <1>10, <1>12, <1>13

LEMMA WriteLineKeeps == ASSUME FramingInv, WriteLine PROVE FramingInv'
<1>1. /\ UNCHANGED <<read, reader, acc, channels, cancelled, taken>>
      /\ layouts' = layouts /\ cut' = cut /\ wireEnd' = wireEnd /\ sent' = sent + 1
      /\ reader \in {"reading", "sending"} /\ wireEnd = "open" /\ cut = "none"
      /\ begun > 0 /\ sent < Size(layouts[begun]) /\ begun' = begun
  BY DEF WriteLine, Connected, FramingInv, OfBody, begun
<1>2. PICK f, p : f = frame /\ p = pos
  OBVIOUS
<1>3. f \in 1..begun /\ begun \in Nat /\ p \in Nat /\ p < Size(layouts[f]) /\ p <= Lines(f)
  <2>1. f \in 1..begun + 1 /\ begun \in Nat /\ sent \in Nat
    BY <1>2 DEF FramingInv, FramesOK, begun
  <2>2. begun \in 1..begun /\ Size(layouts[begun]) \in Nat
    BY <2>1, <1>1, FrameIs, LayoutIs DEF FramingInv
  <2>3. ~ (f > begun)
    BY <2>1, <2>2, <1>1, <1>2 DEF FramingInv, OfBody
  <2>4. QED
    BY <2>1, <2>3, <1>2 DEF FramingInv, FramesOK
<1>4. Lines(f) \in Nat /\ Lines(f)' \in Nat /\ Lines(f) <= Lines(f)' /\ sent \in Nat
      /\ Size(layouts[f]) \in Nat /\ Size(layouts[begun]) \in Nat
  <2>1. f < begun => Lines(f)' = Lines(f)
    BY <1>1 DEF Lines
  <2>2. f = begun => Lines(f) = sent /\ Lines(f)' = sent + 1
    BY <1>1, <1>3 DEF Lines
  <2>3. sent \in Nat /\ Lines(f) \in Nat /\ Size(layouts[f]) \in Nat /\ begun \in 1..begun
    BY <1>3, FrameIs, LayoutIs DEF FramingInv, FramesOK
  <2>4. Size(layouts[begun]) \in Nat
    BY <2>3, FrameIs, LayoutIs DEF FramingInv
  <2>5. QED
    BY <2>1, <2>2, <2>3, <2>4, <1>3
<1>5. (Lines(frame))' = Lines(f)' /\ (Amounts(frame, pos))' = Amounts(f, p)
  <2>1. frame' = f /\ pos' = p
    BY <1>1, <1>2 DEF read
  <2>2. Amounts(f, p)' = Amounts(f, p)
    BY <1>1 DEF Amounts, IsCut
  <2>3. QED
    BY <2>1, <2>2
<1>6. reader = "reading" => acc = Amounts(f, p)
  BY <1>2, <1>3 DEF FramingInv, Gathered
<1>7. frame \in 1..begun' /\ frame \in 1..begun' + 1 /\ frame # begun' + 1 /\ begun' > 0 /\ pos <= (Lines(frame))'
      /\ pos < Size(layouts'[frame])
  BY <1>1, <1>2, <1>3, <1>4, <1>5
<1>8. sent' \in Nat /\ sent' <= Size(layouts'[begun'])
  BY <1>1, <1>4
<1>9. QED
  <2>1. layouts' \in Seq(Layouts) /\ begun' <= MaxFrames
    BY <1>1 DEF FramingInv, FramesOK
  <2>2. ServerStep
    BY <1>1, <1>2, <1>5, <1>6, <1>7, <1>8, <2>1 DEF ServerStep
  <2>3. QED
    BY <2>2, ServerKeeps

\* The body ends in frame n, behind its line k and perhaps a part of the next one.
EndsAt(n, k) ==
    /\ n \in 1..begun /\ k \in 0..Lines(n) /\ Unread(n, k)
    /\ begun' = n /\ layouts' \in Seq(Layouts) /\ \A m \in 1..n : layouts'[m] = layouts[m]
    /\ \/ sent' = k /\ cut' = "none"
       \/ k + 1 < Size(layouts[n]) /\ sent' = k + 1 /\ cut' \in {"value", "name"}

LEMMA BodyEndsAt ==
    ASSUME FramingInv, BodyEnds
    PROVE  /\ UNCHANGED <<read, reader, acc, channels, cancelled, taken>>
           /\ reader \in {"reading", "sending"} /\ wireEnd = "open" /\ cut = "none"
           /\ wireEnd' \in {"eof", "broken"}
           /\ \/ begun = 0 /\ UNCHANGED <<layouts, sent, cut>>
              \/ \E n, k : EndsAt(n, k)
<1>1. /\ UNCHANGED <<read, reader, acc, channels, cancelled, taken>>
      /\ reader \in {"reading", "sending"} /\ wireEnd = "open" /\ cut = "none"
      /\ wireEnd' \in {"eof", "broken"}
  BY DEF BodyEnds, Connected, FramingInv, OfBody
<1>2. CASE begun = 0 /\ UNCHANGED <<layouts, sent, cut>>
  BY <1>1, <1>2
<1>3. ASSUME NEW n \in 1..begun, NEW k \in 0..Lines(n), Unread(n, k),
             layouts' = SubSeq(layouts, 1, n),
             \/ sent' = k /\ cut' = "none"
             \/ k + 1 < Size(layouts[n]) /\ sent' = k + 1 /\ cut' \in {"value", "name"}
      PROVE  EndsAt(n, k)
  <2>1. PICK s : s = layouts
    OBVIOUS
  <2>2. s \in Seq(Layouts) /\ begun = Len(s) /\ n \in 1..Len(s)
    BY <2>1 DEF FramingInv, FramesOK, begun
  <2>3. PICK t : t = SubSeq(s, 1, n)
    OBVIOUS
  <2>4. t \in Seq(Layouts) /\ Len(t) = n /\ \A m \in 1..n : t[m] = s[m]
    BY <2>2, <2>3
  <2>5. layouts' = t
    BY <1>3, <2>1, <2>3
  <2>6. begun' = n
    BY <2>4, <2>5 DEF begun
  <2>7. QED
    BY <1>3, <2>1, <2>4, <2>5, <2>6 DEF EndsAt
<1>4. QED
  BY <1>1, <1>2, <1>3 DEF BodyEnds

LEMMA BodyEndsKeeps == ASSUME FramingInv, BodyEnds PROVE FramingInv'
<1>1. /\ UNCHANGED <<read, reader, acc, channels, cancelled, taken>>
      /\ reader \in {"reading", "sending"} /\ wireEnd = "open" /\ cut = "none"
      /\ wireEnd' \in {"eof", "broken"}
  BY BodyEndsAt
<1>2. PICK f, p : f = frame /\ p = pos
  OBVIOUS
<1>3. /\ f \in 1..begun + 1 /\ begun \in Nat /\ begun <= MaxFrames /\ p \in Nat
      /\ f <= begun => p <= Lines(f) /\ p < Size(layouts[f])
      /\ f > begun => p = 0
      /\ reader = "reading" => acc = IF f <= begun THEN Amounts(f, p) ELSE Blanked
      /\ frame' = f /\ pos' = p
  BY <1>1, <1>2 DEF FramingInv, FramesOK, OfBody, Gathered, begun, read
<1>4. CASE begun = 0 /\ UNCHANGED <<layouts, sent, cut>>
  <2>1. begun' = 0 /\ layouts' \in Seq(Layouts) /\ sent' = 0 /\ cut' = "none"
    BY <1>4 DEF begun, FramingInv, FramesOK, OfBody
  <2>2. f = 1 /\ p = 0 /\ (reader = "reading" => acc = Blanked) /\ 0 <= MaxFrames
    BY <1>3, <1>4
  <2>3. frame \in 1..begun' + 1 /\ frame \notin 1..begun' /\ ~ (begun' > 0) /\ begun' <= MaxFrames
    BY <1>2, <2>1, <2>2
  <2>4. ServerStep
    BY <1>1, <1>2, <2>1, <2>2, <2>3 DEF ServerStep
  <2>5. QED
    BY <2>4, ServerKeeps
<1>5. ASSUME NEW n, NEW k, EndsAt(n, k) PROVE FramingInv'
  <2>1. /\ n \in 1..begun /\ n \in Nat \ {0} /\ n <= MaxFrames /\ k \in 0..Lines(n) /\ Unread(n, k)
        /\ begun' = n /\ layouts' \in Seq(Layouts) /\ \A m \in 1..n : layouts'[m] = layouts[m]
    BY <1>3, <1>5, BoundAssumption DEF EndsAt
  <2>2. /\ \A m \in 1..n : Size(layouts[m]) \in Nat
        /\ Lines(n) \in 0..Size(layouts[n]) /\ k \in Nat /\ k <= Size(layouts[n])
    <3>1. ASSUME NEW m \in 1..n PROVE Size(layouts[m]) \in Nat
      BY <1>3, <2>1, FrameIs, LayoutIs DEF FramingInv
    <3>2. Lines(n) \in 0..Size(layouts[n])
      BY <2>1, FrameIs DEF FramingInv
    <3>3. QED
      BY <2>1, <3>1, <3>2
  <2>3. /\ sent' \in Nat /\ sent' <= Size(layouts'[n]) /\ k <= sent' /\ cut' \in {"none", "value", "name"}
        /\ cut' # "none" => sent' = k + 1 /\ sent' \in 1..Size(layouts'[n]) - 1
    <3>1. layouts'[n] = layouts[n] /\ n \in 1..n
      BY <2>1
    <3>2. CASE sent' = k /\ cut' = "none"
      BY <3>1, <3>2, <2>2
    <3>3. CASE k + 1 < Size(layouts[n]) /\ sent' = k + 1 /\ cut' \in {"value", "name"}
      BY <3>1, <3>3, <2>2
    <3>4. QED
      BY <3>2, <3>3, <1>5 DEF EndsAt
  <2>4. CASE f \in 1..n
    <3>1. f < n \/ (f = n /\ p <= k)
      <4>1. f < n \/ (f = n /\ p <= k) \/ f = n + 1
        BY <2>1, <1>2 DEF Unread
      <4>2. QED
        BY <4>1, <2>4, <2>1
    <3>2. Lines(f)' \in Nat /\ p <= Lines(f)' /\ p < Size(layouts'[f])
      <4>1. p < Size(layouts[f]) /\ layouts'[f] = layouts[f] /\ Size(layouts[f]) \in Nat
        BY <1>3, <2>1, <2>2, <2>4
      <4>2. f < n => Lines(f)' = Size(layouts'[f])
        BY <2>1 DEF Lines
      <4>3. f = n => Lines(f)' = sent'
        BY <2>1 DEF Lines
      <4>4. QED
        BY <4>1, <4>2, <4>3, <3>1, <2>2, <2>3, <1>3
    <3>3. Amounts(f, p)' = Amounts(f, p)
      <4>1. ~ IsCut(f, p)'
        BY <2>1, <2>2, <2>3, <3>1, <1>3 DEF IsCut
      <4>2. Amounts(f, p)' = UpTo(layouts'[f], f, p)
        BY <4>1 DEF Amounts
      <4>3. Amounts(f, p) = UpTo(layouts[f], f, p)
        BY <1>1, OpenBody
      <4>4. QED
        BY <4>2, <4>3, <2>1, <2>4
    <3>4. (Lines(frame))' = Lines(f)' /\ (Amounts(frame, pos))' = Amounts(f, p)'
      BY <1>3
    <3>5. reader = "reading" => acc = Amounts(f, p)
      BY <1>3, <2>1, <2>4
    <3>6. frame \in 1..begun' /\ frame \in 1..begun' + 1 /\ frame # begun' + 1 /\ begun' > 0
          /\ begun' # 0 /\ begun' <= MaxFrames
      BY <1>2, <2>1, <2>4
    <3>7. ServerStep
      BY <1>1, <1>2, <2>1, <2>3, <3>2, <3>3, <3>4, <3>5, <3>6 DEF ServerStep
    <3>8. QED
      BY <3>7, ServerKeeps
  <2>5. CASE f \notin 1..n
    <3>1. f = n + 1 /\ p = 0
      BY <1>2, <1>3, <2>1, <2>5 DEF Unread
    <3>2. reader = "reading" => acc = Blanked
      <4>1. CASE f <= begun
        <5>1. f \in 1..begun
          BY <4>1, <1>3
        <5>2. Amounts(f, 0) = Blanked
          BY <5>1, AmountsStart DEF FramingInv
        <5>3. QED
          BY <4>1, <5>2, <3>1, <1>3
      <4>2. CASE ~ (f <= begun)
        BY <4>2, <1>3
      <4>3. QED
        BY <4>1, <4>2
    <3>3. frame \notin 1..begun' /\ frame \in 1..begun' + 1 /\ begun' > 0
          /\ begun' # 0 /\ begun' <= MaxFrames
      BY <1>2, <2>1, <2>5, <3>1
    <3>4. ServerStep
      BY <1>1, <1>2, <2>1, <2>3, <3>1, <3>2, <3>3 DEF ServerStep
    <3>5. QED
      BY <3>4, ServerKeeps
  <2>6. QED
    BY <2>4, <2>5
<1>6. QED
  BY <1>4, <1>5, BodyEndsAt

LEMMA FramingStays == ASSUME FramingInv, [FramingNext]_framing PROVE FramingInv'
<1>1. CASE UNCHANGED framing
  <2>1. UNCHANGED <<server, read, reader, acc, held, serrs, outClosed, cancelled, taken>>
    BY <1>1 DEF framing, channels
  <2>2. PICK a : a = Amounts(frame, pos) /\ a = (Amounts(frame, pos))' /\ begun' = begun
                 /\ frame' = frame /\ pos' = pos /\ wireEnd' = wireEnd
    BY <2>1 DEF server, read, Amounts, IsCut, Field, Value, begun
  <2>3. AtFirst' /\ Gathered' /\ Offered'
    BY <2>1, <2>2 DEF FramingInv, AtFirst, Gathered, Offered
  <2>4. QED
    BY <2>1, <2>3, Steady DEF FramingInv, FramesOK
<1>2. CASE Reader
  BY <1>2, ReadLineKeeps, ReadBlankKeeps, SendCancelledKeeps, ReadCancelledKeeps, ReadEndKeeps,
     PushErrorKeeps, CloseErrsKeeps, CloseOutKeeps DEF Reader
<1>3. CASE Environment
  BY <1>3, TakeKeeps, TakeErrKeeps, CancelKeeps, BeginFrameKeeps, WriteLineKeeps, BodyEndsKeeps
     DEF Environment
<1>4. QED
  BY <1>1, <1>2, <1>3, OpenKeeps DEF FramingNext

LEMMA FramingInvariance == FramingSpec => []FramingInv
<1>1. FramingInv /\ [FramingNext]_framing => FramingInv'
  BY FramingStays
<1>2. QED
  BY FramingInitInv, <1>1, PTL DEF FramingSpec

\* What the line machine keeps is well formed: every frame on offer carries data, and the reader
\* never reads more of a frame than was written.
THEOREM FramesCorrect == FramingSpec => []FramesOK
<1>1. FramingInv => FramesOK
  BY DEF FramingInv
<1>2. QED
  BY FramingInvariance, <1>1, PTL

-----------------------------------------------------------------------------
(* The frames ahead of the reader, in order.                                *)

\* What w gives for the elements of a set of positions, and the same in order.
Given(S, w) == {w[k] : k \in S}
Mapped(S, w) == LET at == InOrder(S) IN [i \in DOMAIN at |-> w[at[i]]]

\* s gives, place by place, what w gives for the elements of S, which at lists.
Maps(S, w, at, s) ==
    /\ at \in Seq(S) /\ Len(at) \in Nat /\ \A i \in 1..Len(at) : at[i] \in S
    /\ s \in Seq(Given(S, w)) /\ Len(s) = Len(at) /\ \A i \in 1..Len(at) : s[i] = w[at[i]]

LEMMA MappedIs ==
    ASSUME NEW n \in Nat, NEW S \in SUBSET (1..n), NEW w
    PROVE  Maps(S, w, InOrder(S), Mapped(S, w))
<1>1. PICK m, at : m = Cardinality(S) /\ at = InOrder(S)
  OBVIOUS
<1>2. Lists(at, S) /\ m \in 0..n
  BY <1>1, InOrderLists
<1>3. at \in [1..m -> S] /\ m \in Nat
  BY <1>1, <1>2 DEF Lists
<1>4. at \in Seq(S) /\ Len(at) = m /\ DOMAIN at = 1..m
  BY <1>3
<1>5. PICK t : t = [i \in 1..m |-> w[at[i]]]
  OBVIOUS
<1>6. Mapped(S, w) = t
  BY <1>1, <1>4, <1>5 DEF Mapped
<1>7. t \in Seq(Given(S, w)) /\ Len(t) = m /\ \A i \in 1..m : t[i] = w[at[i]]
  <2>1. \A i \in 1..m : w[at[i]] \in Given(S, w)
    BY <1>3 DEF Given
  <2>2. QED
    BY <2>1, <1>3, <1>5
<1>8. Maps(S, w, at, t)
  BY <1>3, <1>4, <1>7 DEF Maps
<1>9. QED
  BY <1>1, <1>6, <1>8

LEMMA SameSequence ==
    ASSUME NEW P, NEW s \in Seq(P), NEW Q, NEW t \in Seq(Q), Len(s) = Len(t),
           \A i \in 1..Len(s) : s[i] = t[i]
    PROVE  s = t
<1>1. PICK m : m = Len(s)
  OBVIOUS
<1>2. m \in Nat /\ s = [i \in 1..m |-> s[i]] /\ t = [i \in 1..m |-> t[i]]
  BY <1>1
<1>3. \A i \in 1..m : s[i] = t[i]
  BY <1>1
<1>4. QED
  BY <1>2, <1>3

LEMMA MappedAgree ==
    ASSUME NEW n \in Nat, NEW S \in SUBSET (1..n), NEW v, NEW w, \A k \in S : v[k] = w[k]
    PROVE  Mapped(S, v) = Mapped(S, w)
<1>1. PICK s, t : s = Mapped(S, v) /\ t = Mapped(S, w)
  OBVIOUS
<1>2. PICK at : at = InOrder(S)
  OBVIOUS
<1>3. Maps(S, v, at, s) /\ Maps(S, w, at, t)
  BY <1>1, <1>2, MappedIs
<1>4. /\ \A i \in 1..Len(at) : at[i] \in S
      /\ s \in Seq(Given(S, v)) /\ Len(s) = Len(at) /\ \A i \in 1..Len(at) : s[i] = v[at[i]]
  BY <1>3 DEF Maps
<1>5. t \in Seq(Given(S, w)) /\ Len(t) = Len(at) /\ \A i \in 1..Len(at) : t[i] = w[at[i]]
  BY <1>3 DEF Maps
<1>6. \A i \in 1..Len(s) : s[i] = t[i]
  BY <1>4, <1>5
<1>7. s = t
  BY <1>4, <1>5, <1>6, SameSequence
<1>8. QED
  BY <1>1, <1>7

LEMMA MappedMore ==
    ASSUME NEW n \in Nat, NEW S \in SUBSET (1..n), NEW w
    PROVE  Mapped(S \cup {n + 1}, w) = Append(Mapped(S, w), w[n + 1])
<1>1. PICK at, s : at = InOrder(S) /\ s = Mapped(S, w)
  OBVIOUS
<1>2. PICK m : m = Len(at)
  OBVIOUS
<1>3. /\ at \in Seq(S) /\ m \in Nat
      /\ s \in Seq(Given(S, w)) /\ Len(s) = m /\ \A i \in 1..m : s[i] = w[at[i]]
  <2>1. Maps(S, w, at, s)
    BY <1>1, MappedIs
  <2>2. QED
    BY <2>1, <1>2 DEF Maps
<1>4. PICK more : more = Append(at, n + 1)
  OBVIOUS
<1>5. InOrder(S \cup {n + 1}) = more
  BY <1>1, <1>4, InOrderMore
<1>6. Len(more) = m + 1 /\ more[m + 1] = n + 1 /\ \A i \in 1..m : more[i] = at[i]
  BY <1>2, <1>3, <1>4
<1>7. PICK T : T = S \cup {n + 1}
  OBVIOUS
<1>8. PICK t : t = Mapped(T, w)
  OBVIOUS
<1>9. t \in Seq(Given(T, w)) /\ Len(t) = m + 1 /\ \A i \in 1..m + 1 : t[i] = w[more[i]]
  <2>1. n + 1 \in Nat /\ T \in SUBSET (1..n + 1) /\ more = InOrder(T)
    BY <1>5, <1>7
  <2>2. t \in Seq(Given(T, w)) /\ Len(t) = Len(more) /\ \A i \in 1..Len(more) : t[i] = w[more[i]]
    <3>1. Maps(T, w, more, t)
      BY <2>1, <1>8, MappedIs
    <3>2. QED
      BY <3>1 DEF Maps
  <2>3. QED
    BY <2>2, <1>6
<1>10. PICK u : u = Append(s, w[n + 1])
  OBVIOUS
<1>11. u \in Seq(Given(S, w) \cup {w[n + 1]}) /\ Len(u) = m + 1
       /\ u[m + 1] = w[n + 1] /\ \A i \in 1..m : u[i] = s[i]
  BY <1>3, <1>10
<1>12. ASSUME NEW i \in 1..m + 1 PROVE t[i] = u[i]
  <2>1. t[i] = w[more[i]]
    BY <1>9
  <2>2. CASE i = m + 1
    BY <2>1, <2>2, <1>6, <1>11
  <2>3. CASE i \in 1..m
    BY <2>1, <2>3, <1>3, <1>6, <1>11
  <2>4. QED
    BY <2>2, <2>3, <1>3
<1>13. t = u
  BY <1>9, <1>11, <1>12, SameSequence
<1>14. QED
  BY <1>1, <1>7, <1>8, <1>10, <1>13

LEMMA MappedRest ==
    ASSUME NEW n \in Nat, NEW S \in SUBSET (1..n), NEW x \in S, \A y \in S : x <= y, NEW w
    PROVE  /\ Mapped(S, w) # <<>> /\ Head(Mapped(S, w)) = w[x]
           /\ Tail(Mapped(S, w)) = Mapped(S \ {x}, w)
<1>1. PICK at, s : at = InOrder(S) /\ s = Mapped(S, w)
  OBVIOUS
<1>2. PICK m : m = Len(at)
  OBVIOUS
<1>3. /\ at \in Seq(S) /\ m \in Nat
      /\ s \in Seq(Given(S, w)) /\ Len(s) = m /\ \A i \in 1..m : s[i] = w[at[i]]
  <2>1. Maps(S, w, at, s)
    BY <1>1, MappedIs
  <2>2. QED
    BY <2>1, <1>2 DEF Maps
<1>4. at # <<>> /\ Head(at) = x /\ Tail(at) = InOrder(S \ {x})
  BY <1>1, InOrderRest
<1>5. PICK rest : rest = Tail(at)
  OBVIOUS
<1>6. m - 1 \in Nat /\ at[1] = x /\ Len(rest) = m - 1 /\ \A i \in 1..m - 1 : rest[i] = at[i + 1]
  BY <1>2, <1>3, <1>4, <1>5
<1>7. s # <<>> /\ Head(s) = w[x]
  BY <1>3, <1>6
<1>8. PICK t : t = Tail(s)
  OBVIOUS
<1>9. t \in Seq(Given(S, w)) /\ Len(t) = m - 1 /\ \A i \in 1..m - 1 : t[i] = s[i + 1]
  BY <1>3, <1>7, <1>8
<1>10. PICK T : T = S \ {x}
  OBVIOUS
<1>11. PICK u : u = Mapped(T, w)
  OBVIOUS
<1>12. u \in Seq(Given(T, w)) /\ Len(u) = m - 1 /\ \A i \in 1..m - 1 : u[i] = w[rest[i]]
  <2>1. T \in SUBSET (1..n) /\ rest = InOrder(T)
    BY <1>4, <1>5, <1>10
  <2>2. u \in Seq(Given(T, w)) /\ Len(u) = Len(rest) /\ \A i \in 1..Len(rest) : u[i] = w[rest[i]]
    <3>1. Maps(T, w, rest, u)
      BY <2>1, <1>11, MappedIs
    <3>2. QED
      BY <3>1 DEF Maps
  <2>3. QED
    BY <2>2, <1>6
<1>13. ASSUME NEW i \in 1..m - 1 PROVE t[i] = u[i]
  <2>1. i + 1 \in 1..m
    BY <1>3
  <2>2. s[i + 1] = w[at[i + 1]]
    BY <2>1, <1>3
  <2>3. QED
    BY <2>2, <1>6, <1>9, <1>12
<1>14. t = u
  BY <1>9, <1>12, <1>13, SameSequence
<1>15. QED
  BY <1>1, <1>7, <1>8, <1>10, <1>11, <1>14

\* T holds the first elements of S, and t is the first part of s.
Leading(T, S) == T \in SUBSET S /\ \A x \in S : \A y \in T : x < y => x \in T
Starts(t, s) == \E m \in 0..Len(s) : t = SubSeq(s, 1, m)

LEMMA MappedPart ==
    ASSUME NEW n \in Nat, NEW S \in SUBSET (1..n), NEW T, Leading(T, S), NEW w
    PROVE  Starts(Mapped(T, w), Mapped(S, w))
<1>1. PICK at, part : at = InOrder(S) /\ part = InOrder(T)
  OBVIOUS
<1>2. PICK s, t : s = Mapped(S, w) /\ t = Mapped(T, w)
  OBVIOUS
<1>3. PICK l, m : l = Len(at) /\ m = Len(part)
  OBVIOUS
<1>4. /\ at \in Seq(S) /\ l \in Nat
      /\ s \in Seq(Given(S, w)) /\ Len(s) = l /\ \A i \in 1..l : s[i] = w[at[i]]
  <2>1. Maps(S, w, at, s)
    BY <1>1, <1>2, MappedIs
  <2>2. QED
    BY <2>1, <1>3 DEF Maps
<1>5. t \in Seq(Given(T, w)) /\ Len(t) = m /\ \A i \in 1..m : t[i] = w[part[i]]
  <2>1. T \in SUBSET (1..n)
    BY DEF Leading
  <2>2. QED
    <3>1. Maps(T, w, part, t)
      BY <2>1, <1>1, <1>2, MappedIs
    <3>2. QED
      BY <3>1, <1>3 DEF Maps
<1>6. m \in 0..l /\ part = SubSeq(at, 1, m)
  BY <1>1, <1>3, InOrderPart DEF Leading
<1>7. \A i \in 1..m : part[i] = at[i]
  BY <1>3, <1>4, <1>6
<1>8. PICK u : u = SubSeq(s, 1, m)
  OBVIOUS
<1>9. u \in Seq(Given(S, w)) /\ Len(u) = m /\ \A i \in 1..m : u[i] = s[i]
  BY <1>4, <1>6, <1>8
<1>10. ASSUME NEW i \in 1..m PROVE t[i] = u[i]
  <2>1. i \in 1..l
    BY <1>4, <1>6
  <2>2. QED
    BY <2>1, <1>4, <1>5, <1>7, <1>9
<1>11. t = u
  BY <1>5, <1>9, <1>10, SameSequence
<1>12. QED
  BY <1>2, <1>4, <1>6, <1>8, <1>11 DEF Starts

LEMMA AwaitedIs ==
    ASSUME FramesOK
    PROVE  Awaited \in SUBSET (1..begun) /\ begun \in Nat
<1>1. frame \in 1..begun + 1 /\ begun \in Nat
  BY DEF FramesOK, begun
<1>2. frame..begun \in SUBSET (1..begun)
  BY <1>1
<1>3. QED
  BY <1>1, <1>2 DEF Awaited

LEMMA AheadIs ==
    ASSUME NEW n \in Nat, Awaited \in SUBSET (1..n), NEW w, \A k \in Awaited : w[k] = Written(k)
    PROVE  Ahead = Mapped(Awaited, w)
<1>1. PICK S, at, s : S = Awaited /\ at = InOrder(S) /\ s = Mapped(S, w)
  OBVIOUS
<1>2. S \in SUBSET (1..n) /\ Maps(S, w, at, s)
  BY <1>1, MappedIs
<1>3. Len(at) \in Nat /\ DOMAIN at = 1..Len(at) /\ (\A i \in 1..Len(at) : at[i] \in S)
      /\ s \in Seq(Given(S, w)) /\ Len(s) = Len(at) /\ \A i \in 1..Len(at) : s[i] = w[at[i]]
  BY <1>2 DEF Maps
<1>4. Ahead = [i \in 1..Len(at) |-> Written(at[i])]
  BY <1>1, <1>3 DEF Ahead
<1>5. \A i \in 1..Len(at) : s[i] = Written(at[i])
  BY <1>1, <1>3
<1>6. s = [i \in 1..Len(at) |-> s[i]]
  BY <1>3
<1>7. QED
  BY <1>1, <1>4, <1>5, <1>6

LEMMA AheadWillBe ==
    ASSUME NEW n \in Nat, NEW S \in SUBSET (1..n), Awaited' = S, NEW w,
           \A k \in S : w[k] = Written(k)'
    PROVE  Ahead' = Mapped(S, w)
<1>1. PICK at, s : at = InOrder(S) /\ s = Mapped(S, w)
  OBVIOUS
<1>2. Maps(S, w, at, s)
  BY <1>1, MappedIs
<1>3. Len(at) \in Nat /\ DOMAIN at = 1..Len(at) /\ (\A i \in 1..Len(at) : at[i] \in S)
      /\ s \in Seq(Given(S, w)) /\ Len(s) = Len(at) /\ \A i \in 1..Len(at) : s[i] = w[at[i]]
  BY <1>2 DEF Maps
<1>4. Ahead' = [i \in 1..Len(at) |-> Written(at[i])']
  BY <1>1, <1>3 DEF Ahead
<1>5. \A i \in 1..Len(at) : s[i] = Written(at[i])'
  BY <1>3
<1>6. s = [i \in 1..Len(at) |-> s[i]]
  BY <1>3
<1>7. QED
  BY <1>1, <1>4, <1>5, <1>6

\* The frame in front is read, or one is written behind the others.
LEMMA AheadRest ==
    ASSUME FramesOK, NEW x \in Awaited, \A y \in Awaited : x <= y,
           Awaited' = Awaited \ {x}, \A n \in Awaited : Written(n)' = Written(n)
    PROVE  Ahead # <<>> /\ Head(Ahead) = Written(x) /\ Ahead' = Tail(Ahead)
<1>1. PICK S, b : S = Awaited /\ b = begun
  OBVIOUS
<1>2. S \in SUBSET (1..b) /\ b \in Nat
  BY <1>1, AwaitedIs
<1>3. PICK w : w = [n \in S |-> Written(n)]
  OBVIOUS
<1>4. \A k \in S : w[k] = Written(k)
  BY <1>3
<1>5. Ahead = Mapped(S, w)
  BY <1>1, <1>2, <1>4, AheadIs
<1>6. Ahead' = Mapped(S \ {x}, w)
  <2>1. S \ {x} \in SUBSET (1..b) /\ Awaited' = S \ {x}
    BY <1>1, <1>2
  <2>2. \A k \in S \ {x} : w[k] = Written(k)'
    BY <1>1, <1>4
  <2>3. QED
    BY <2>1, <2>2, <1>2, AheadWillBe
<1>7. Mapped(S, w) # <<>> /\ Head(Mapped(S, w)) = w[x] /\ Tail(Mapped(S, w)) = Mapped(S \ {x}, w)
  <2>1. x \in S /\ \A y \in S : x <= y
    BY <1>1
  <2>2. QED
    BY <2>1, <1>2, MappedRest
<1>8. QED
  BY <1>1, <1>4, <1>5, <1>6, <1>7

LEMMA AheadMore ==
    ASSUME FramesOK, NEW b \in Nat, Awaited \in SUBSET (1..b), Awaited' = Awaited \cup {b + 1},
           \A n \in Awaited : Written(n)' = Written(n)
    PROVE  Ahead' = Append(Ahead, Written(b + 1)')
<1>1. PICK S : S = Awaited
  OBVIOUS
<1>2. PICK f : f = Written(b + 1)'
  OBVIOUS
<1>3. PICK w : w = [n \in S \cup {b + 1} |-> IF n = b + 1 THEN f ELSE Written(n)]
  OBVIOUS
<1>4. (\A k \in S : w[k] = Written(k)) /\ w[b + 1] = f
  <2>1. \A k \in S : k # b + 1
    BY <1>1
  <2>2. QED
    BY <2>1, <1>3
<1>5. Ahead = Mapped(S, w)
  BY <1>1, <1>4, AheadIs
<1>6. Ahead' = Mapped(S \cup {b + 1}, w)
  <2>1. b + 1 \in Nat /\ S \cup {b + 1} \in SUBSET (1..b + 1) /\ Awaited' = S \cup {b + 1}
    BY <1>1
  <2>2. \A k \in S \cup {b + 1} : w[k] = Written(k)'
    BY <1>1, <1>2, <1>4
  <2>3. QED
    BY <2>1, <2>2, AheadWillBe
<1>7. Mapped(S \cup {b + 1}, w) = Append(Mapped(S, w), w[b + 1])
  BY <1>1, MappedMore
<1>8. QED
  BY <1>2, <1>4, <1>5, <1>6, <1>7

LEMMA AheadStays ==
    ASSUME FramesOK, Awaited' = Awaited, \A n \in Awaited : Written(n)' = Written(n)
    PROVE  Ahead' = Ahead
<1>1. PICK S, b : S = Awaited /\ b = begun
  OBVIOUS
<1>2. S \in SUBSET (1..b) /\ b \in Nat
  BY <1>1, AwaitedIs
<1>3. PICK w : w = [n \in S |-> Written(n)]
  OBVIOUS
<1>4. \A k \in S : w[k] = Written(k)
  BY <1>3
<1>5. Ahead = Mapped(S, w)
  BY <1>1, <1>2, <1>4, AheadIs
<1>6. Ahead' = Mapped(S, w)
  BY <1>1, <1>2, <1>4, AheadWillBe
<1>7. QED
  BY <1>5, <1>6

LEMMA AheadNone ==
    /\ Awaited = {} => Ahead = <<>>
    /\ Awaited' = {} => Ahead' = <<>>
<1>1. InOrder({}) = <<>>
  <2>1. Lists(<<>>, {})
    BY FS_EmptySet DEF Lists, Range, Ascending
  <2>2. {} \in SUBSET (1..0) /\ 0 \in Nat
    OBVIOUS
  <2>3. QED
    BY <2>1, <2>2, ListIsInOrder
<1>2. PICK none : none = <<>>
  OBVIOUS
<1>3. DOMAIN none = {} /\ none = [i \in {} |-> i]
  BY <1>2
<1>4. ASSUME Awaited = {} PROVE Ahead = <<>>
  <2>1. Ahead = [i \in {} |-> Written(none[i])]
    BY <1>1, <1>2, <1>3, <1>4 DEF Ahead
  <2>2. QED
    BY <2>1, <1>2, <1>3
<1>5. ASSUME Awaited' = {} PROVE Ahead' = <<>>
  <2>1. Ahead' = [i \in {} |-> Written(none[i])']
    BY <1>1, <1>2, <1>3, <1>5 DEF Ahead
  <2>2. QED
    BY <2>1, <1>2, <1>3
<1>6. QED
  BY <1>4, <1>5

\* The body ends: the frames in front of the end stay, and what the end left of the next one
\* may follow.
LEMMA AheadEnds ==
    ASSUME FramesOK, NEW b \in Nat, NEW T \in SUBSET Awaited, T \in SUBSET (1..b),
           \A x \in Awaited : \A y \in T : x < y => x \in T,
           \A n \in T : Written(n)' = Written(n),
           Awaited' \in {T, T \cup {b + 1}}
    PROVE  \E m \in 0..Len(Ahead) :
               IF Awaited' = T THEN Ahead' = SubSeq(Ahead, 1, m)
                               ELSE Ahead' = Append(SubSeq(Ahead, 1, m), Written(b + 1)')
<1>1. PICK S, c : S = Awaited /\ c = begun
  OBVIOUS
<1>2. S \in SUBSET (1..c) /\ c \in Nat
  BY <1>1, AwaitedIs
<1>3. PICK v : v = [n \in S |-> Written(n)]
  OBVIOUS
<1>4. Ahead = Mapped(S, v)
  BY <1>1, <1>2, <1>3, AheadIs
<1>5. Starts(Mapped(T, v), Mapped(S, v))
  <2>1. Leading(T, S)
    BY <1>1 DEF Leading
  <2>2. QED
    BY <2>1, <1>2, MappedPart
<1>6. \A k \in T : v[k] = Written(k)'
  BY <1>1, <1>3
<1>7. CASE Awaited' = T
  <2>1. Ahead' = Mapped(T, v)
    BY <1>6, <1>7, AheadWillBe
  <2>2. QED
    BY <2>1, <1>4, <1>5, <1>7 DEF Starts
<1>8. CASE Awaited' # T
  <2>1. PICK f : f = Written(b + 1)'
    OBVIOUS
  <2>2. PICK w : w = [n \in T \cup {b + 1} |-> IF n = b + 1 THEN f ELSE v[n]]
    OBVIOUS
  <2>3. (\A k \in T : w[k] = v[k]) /\ w[b + 1] = f
    <3>1. \A k \in T : k # b + 1
      OBVIOUS
    <3>2. QED
      BY <3>1, <2>2
  <2>4. b + 1 \in Nat /\ T \cup {b + 1} \in SUBSET (1..b + 1) /\ Awaited' = T \cup {b + 1}
    BY <1>8
  <2>5. \A k \in T \cup {b + 1} : w[k] = Written(k)'
    BY <2>1, <2>3, <1>6
  <2>6. Ahead' = Mapped(T \cup {b + 1}, w)
    BY <2>4, <2>5, AheadWillBe
  <2>7. Mapped(T \cup {b + 1}, w) = Append(Mapped(T, w), w[b + 1])
    BY MappedMore
  <2>8. Mapped(T, w) = Mapped(T, v)
    BY <2>3, MappedAgree
  <2>9. QED
    BY <2>1, <2>3, <2>6, <2>7, <2>8, <1>4, <1>5, <1>8 DEF Starts
<1>9. QED
  BY <1>7, <1>8

-----------------------------------------------------------------------------
(* Each step of the line machine is a step of SSEStream, or none.           *)

StreamStep == Stream!StreamNext(WholeFrames, CutFrames) \/ UNCHANGED Stream!stream

LEMMA SameAhead ==
    ASSUME UNCHANGED server, frame' = frame
    PROVE  Ahead' = Ahead
<1>1. layouts' = layouts /\ sent' = sent /\ cut' = cut /\ wireEnd' = wireEnd
  BY DEF server
<1>2. begun' = begun /\ \A n : Written(n)' = Written(n)
  BY <1>1 DEF begun, Written, Lines, Amounts, IsCut, Field, Value
<1>3. LastDue' = LastDue
  BY <1>1, <1>2 DEF LastDue
<1>4. Awaited' = Awaited
  BY <1>1, <1>2, <1>3 DEF Awaited
<1>5. QED
  BY <1>2, <1>4 DEF Ahead

\* The steps that read nothing keep the place in SSEStream's wire.
LEMMA SamePlace ==
    ASSUME UNCHANGED <<server, read>>
    PROVE  Ahead' = Ahead /\ wireEnd' = wireEnd
BY SameAhead DEF server, read

LEMMA OpenStep == ASSUME FramingInv, Open PROVE StreamStep
<1>1. /\ Ahead' = Ahead /\ wireEnd' = wireEnd /\ held' = held /\ cancelled' = cancelled
      /\ reader = "none" /\ ~ outClosed
  BY SamePlace DEF Open
<1>2. /\ begun = 0 /\ wireEnd = "open" /\ held = NoFrame
      /\ serrs = [val |-> NoErr, closed |-> FALSE] /\ outClosed = FALSE
  BY <1>1 DEF FramingInv, AtFirst, Offered, FramesOK
<1>3. Ahead = <<>>
  <2>1. Awaited \in SUBSET (1..0)
    BY <1>2, AwaitedIs DEF FramingInv
  <2>2. Awaited = {}
    BY <2>1
  <2>3. QED
    BY <2>2, AheadNone
<1>4. CASE reader' = "reading" /\ UNCHANGED <<serrs, outClosed>>
  <2>1. Stream!Opened(<<>>)
    BY <1>1, <1>2, <1>3, <1>4 DEF Stream!Opened, AbstractReader
  <2>2. QED
    BY <2>1, <1>1 DEF StreamStep, Stream!StreamNext, Stream!StreamOpens, AbstractReader
<1>5. CASE /\ \/ serrs' = [val |-> "http", closed |-> TRUE]
              \/ cancelled /\ serrs' = [val |-> "cancelled", closed |-> TRUE]
           /\ outClosed' = TRUE /\ reader' = reader
  <2>1. Stream!OpenFailed("http") \/ (cancelled /\ Stream!OpenFailed("cancelled"))
    BY <1>1, <1>2, <1>3, <1>5 DEF Stream!OpenFailed, AbstractReader
  <2>2. QED
    BY <2>1, <1>1 DEF StreamStep, Stream!StreamNext, Stream!StreamOpens, AbstractReader
<1>6. QED
  BY <1>4, <1>5 DEF Open

LEMMA ReadLineStep == ASSUME FramingInv, ReadLine PROVE StreamStep
<1>1. UNCHANGED server /\ frame' = frame /\ UNCHANGED <<reader, held, serrs, outClosed, cancelled>>
  BY DEF ReadLine, channels
<1>2. Ahead' = Ahead /\ wireEnd' = wireEnd
  BY <1>1, SameAhead DEF server
<1>3. QED
  BY <1>1, <1>2 DEF StreamStep, Stream!stream, AbstractReader

LEMMA SendCancelledStep == ASSUME FramingInv, SendCancelled PROVE StreamStep
<1>1. Ahead' = Ahead /\ wireEnd' = wireEnd
  BY SamePlace DEF SendCancelled
<1>2. Stream!SendCancelled
  BY <1>1 DEF SendCancelled, Stream!SendCancelled, AbstractReader
<1>3. QED
  BY <1>2 DEF StreamStep, Stream!StreamNext, Stream!ReaderStep

LEMMA ReadCancelledStep == ASSUME FramingInv, ReadCancelled PROVE StreamStep
<1>1. Ahead' = Ahead /\ wireEnd' = wireEnd
  BY SamePlace DEF ReadCancelled
<1>2. Stream!ReadEnds
  BY <1>1 DEF ReadCancelled, channels, Stream!ReadEnds, AbstractReader
<1>3. QED
  BY <1>2 DEF StreamStep, Stream!StreamNext, Stream!ReaderStep

LEMMA PushErrorStep == ASSUME FramingInv, PushError PROVE StreamStep
<1>1. Ahead' = Ahead /\ wireEnd' = wireEnd
  BY SamePlace DEF PushError
<1>2. frame = begun + 1 /\ wireEnd # "open" /\ begun \in Nat
  BY DEF PushError, FramingInv, Offered, FramesOK, begun
<1>3. Ahead = <<>>
  <2>1. frame..begun = {}
    BY <1>2
  <2>2. Awaited = {}
    BY <2>1 DEF Awaited
  <2>3. QED
    BY <2>2, AheadNone
<1>4. Stream!ReadEnds
  BY <1>1, <1>2, <1>3 DEF PushError, Stream!ReadEnds, AbstractReader
<1>5. QED
  BY <1>4 DEF StreamStep, Stream!StreamNext, Stream!ReaderStep

LEMMA CloseErrsStep == ASSUME FramingInv, CloseErrs PROVE StreamStep
<1>1. Ahead' = Ahead /\ wireEnd' = wireEnd
  BY SamePlace DEF CloseErrs
<1>2. Stream!CloseErrs
  BY <1>1 DEF CloseErrs, Stream!CloseErrs, AbstractReader
<1>3. QED
  BY <1>2 DEF StreamStep, Stream!StreamNext, Stream!ReaderStep

LEMMA CloseOutStep == ASSUME FramingInv, CloseOut PROVE StreamStep
<1>1. Ahead' = Ahead /\ wireEnd' = wireEnd
  BY SamePlace DEF CloseOut
<1>2. Stream!CloseOut
  BY <1>1 DEF CloseOut, Stream!CloseOut, AbstractReader
<1>3. QED
  BY <1>2 DEF StreamStep, Stream!StreamNext, Stream!ReaderStep

LEMMA TakeStep == ASSUME FramingInv, Take PROVE StreamStep
<1>1. Ahead' = Ahead /\ wireEnd' = wireEnd
  BY SamePlace DEF Take
<1>2. Stream!TakeFrame /\ UNCHANGED cancelled
  BY <1>1 DEF Take, Stream!TakeFrame, AbstractReader
<1>3. QED
  BY <1>2 DEF StreamStep, Stream!StreamNext

LEMMA TakeErrStep == ASSUME FramingInv, TakeErr PROVE StreamStep
<1>1. Ahead' = Ahead /\ wireEnd' = wireEnd
  BY SamePlace DEF TakeErr
<1>2. Stream!TakeErr /\ UNCHANGED cancelled
  BY <1>1 DEF TakeErr, Stream!TakeErr, Stream!ErrsReady, AbstractReader
<1>3. QED
  BY <1>2 DEF StreamStep, Stream!StreamNext

LEMMA CancelStep == ASSUME FramingInv, Cancel PROVE StreamStep
<1>1. Ahead' = Ahead /\ wireEnd' = wireEnd
  BY SamePlace DEF Cancel
<1>2. Stream!StreamCancelled
  BY <1>1 DEF Cancel, channels, Stream!StreamCancelled, Stream!channels, AbstractReader
<1>3. QED
  BY <1>2 DEF StreamStep, Stream!StreamNext

\* What there is of a frame: the whole of it, or what a cut may leave, when it has data at all.
LEMMA WrittenIs ==
    ASSUME FramesOK, OfBody, NEW n \in 1..begun
    PROVE  /\ Written(n).data # <<>> => layouts[n].data > 0
           /\ Lines(n) = Size(layouts[n]) \/ (cut = "none" /\ Lines(n) + 1 = Size(layouts[n])) =>
                  Written(n) = Whole(layouts[n], n)
<1>1. PICK l, k : l = layouts[n] /\ k = Lines(n)
  OBVIOUS
<1>2. l \in Layouts /\ n \in Numbers /\ k \in 0..Size(l) /\ Size(l) \in Nat \ {0}
  BY <1>1, FrameIs, LayoutIs
<1>3. Written(n) = Amounts(n, k)
  BY <1>1 DEF Written
<1>4. CASE IsCut(n, k)
  <2>1. cut # "none" /\ k \in 1..Size(l) - 1
    BY <1>1, <1>4 DEF IsCut, OfBody
  <2>2. Written(n) = CutAt(l, n, k, cut)
    BY <1>1, <1>3, <1>4 DEF Amounts, CutAt, Field, Value
  <2>3. Written(n).data # <<>> => l.data > 0
    BY <2>1, <2>2, <1>2, CutIs
  <2>4. k # Size(l)
    BY <2>1, <1>2
  <2>5. QED
    BY <2>1, <2>3, <2>4, <1>1
<1>5. CASE ~ IsCut(n, k)
  <2>1. Written(n) = UpTo(l, n, k)
    BY <1>1, <1>3, <1>5 DEF Amounts
  <2>2. CASE k + 1 < Size(l)
    <3>1. k \in Nat /\ k # Size(l) /\ k + 1 # Size(l)
      BY <2>2, <1>2
    <3>2. UpTo(l, n, k).data # <<>> => l.data > 0
      BY <3>1, <2>2, <1>2, PartIs
    <3>3. QED
      BY <3>1, <3>2, <2>1, <1>1
  <2>3. CASE ~ (k + 1 < Size(l))
    <3>1. k \in {Size(l) - 1, Size(l)}
      BY <2>3, <1>2
    <3>2. Written(n) = Whole(l, n)
      BY <3>1, <2>1, <1>2, UpToWhole
    <3>3. l.data \in Nat /\ (Whole(l, n).data = <<>> <=> l.data = 0)
      BY <1>2, LayoutIs, WholeIs
    <3>4. QED
      BY <3>2, <3>3, <1>1
  <2>4. QED
    BY <2>2, <2>3
<1>6. QED
  BY <1>4, <1>5

LEMMA SameWritten ==
    ASSUME UNCHANGED server
    PROVE  begun' = begun /\ wireEnd' = wireEnd /\ LastDue' = LastDue /\ layouts' = layouts
           /\ \A n : Written(n)' = Written(n)
<1>1. layouts' = layouts /\ sent' = sent /\ cut' = cut /\ wireEnd' = wireEnd
  BY DEF server
<1>2. begun' = begun /\ \A n : Written(n)' = Written(n)
  BY <1>1 DEF begun, Written, Lines, Amounts, IsCut, Field, Value
<1>3. LastDue' = LastDue
  BY <1>1, <1>2 DEF LastDue
<1>4. QED
  BY <1>1, <1>2, <1>3

LEMMA ReadBlankStep == ASSUME FramingInv, ReadBlank PROVE StreamStep
<1>1. PICK f, l : f = frame /\ l = layouts[f]
  OBVIOUS
<1>2. /\ UNCHANGED <<server, serrs, outClosed, cancelled>>
      /\ reader = "reading" /\ frame' = f + 1
      /\ f <= begun /\ pos # Lines(f) /\ Field(f, pos + 1) = "blank"
      /\ \/ reader' = "sending" /\ acc.data # <<>> /\ held' = acc
         \/ reader' = "reading" /\ acc.data = <<>> /\ held' = held
  BY <1>1 DEF ReadBlank, Ended, Dispatch, hasData, FramingInv, FramesOK, begun
<1>3. f \in 1..begun /\ pos \in Nat /\ pos <= Lines(f) /\ l \in Layouts /\ begun \in Nat
      /\ Lines(f) \in 0..Size(l) /\ Size(l) \in Nat
  <2>1. f \in 1..begun /\ pos \in Nat /\ pos <= Lines(f) /\ begun \in Nat
    BY <1>1, <1>2 DEF FramingInv, FramesOK, begun
  <2>2. QED
    BY <2>1, <1>1, FrameIs, LayoutIs DEF FramingInv
<1>4. pos + 1 = Size(l) /\ Lines(f) = Size(l)
  <2>1. pos + 1 \in 1..Lines(f)
    BY <1>2, <1>3
  <2>2. pos + 1 = Size(l)
    BY <2>1, <1>1, <1>2, <1>3, BlankLine DEF FramingInv
  <2>3. QED
    BY <2>1, <2>2, <1>3
<1>5. Written(f) = Whole(l, f) /\ acc = Whole(l, f)
  <2>1. Written(f) = Whole(l, f)
    BY <1>1, <1>3, <1>4, WrittenIs DEF FramingInv
  <2>2. acc = Amounts(f, pos)
    BY <1>1, <1>2 DEF FramingInv, Gathered
  <2>3. pos < Lines(f)
    BY <1>3, <1>4
  <2>4. Amounts(f, pos) = UpTo(l, f, pos)
    BY <2>3, <1>1, <1>3, Uncut DEF FramingInv
  <2>5. pos \in {Size(l) - 1, Size(l)}
    BY <1>3, <1>4
  <2>6. UpTo(l, f, pos) = Whole(l, f)
    BY <2>5, <1>3, UpToWhole
  <2>7. QED
    BY <2>1, <2>2, <2>4, <2>6
<1>6. l.data \in Nat /\ (acc.data = <<>> <=> l.data = 0)
  BY <1>3, <1>5, LayoutIs, WholeIs
<1>7. f \in Awaited <=> l.data > 0
  <2>1. f \in frame..begun
    BY <1>1, <1>3
  <2>2. f \in Awaited <=> l.data > 0 /\ (f < begun \/ LastDue)
    BY <2>1, <1>1 DEF Awaited
  <2>3. ASSUME l.data > 0, ~ (f < begun) PROVE LastDue
    <3>1. f = begun /\ sent = Size(l) /\ layouts[begun] = l
      BY <2>3, <1>1, <1>3, <1>4, FrameIs DEF FramingInv
    <3>2. sent + 1 >= Size(layouts[begun]) /\ sent = Size(layouts[begun])
      BY <3>1, <1>3
    <3>3. Written(begun).data # <<>>
      BY <3>1, <2>3, <1>5, <1>6
    <3>4. wireEnd \in {"open", "eof", "broken"}
      BY DEF FramingInv, FramesOK
    <3>5. QED
      BY <3>2, <3>3, <3>4 DEF LastDue
  <2>4. QED
    BY <2>2, <2>3
<1>8. Awaited' = Awaited \ {f} /\ \A y \in Awaited : f <= y
  <2>1. f + 1..begun = (f..begun) \ {f}
    BY <1>3
  <2>2. Awaited' = {n \in f + 1..begun : layouts[n].data > 0 /\ (n < begun \/ LastDue)}
    BY <1>2, SameWritten DEF Awaited
  <2>3. Awaited = {n \in f..begun : layouts[n].data > 0 /\ (n < begun \/ LastDue)}
    BY <1>1 DEF Awaited
  <2>4. QED
    BY <2>1, <2>2, <2>3, <1>3
<1>9. wireEnd' = wireEnd /\ \A n : Written(n)' = Written(n)
  BY <1>2, SameWritten
<1>10. CASE l.data > 0
  <2>1. reader' = "sending" /\ held' = acc
    BY <1>2, <1>6, <1>10
  <2>2. f \in Awaited
    BY <1>7, <1>10
  <2>3. Ahead # <<>> /\ Head(Ahead) = acc /\ Ahead' = Tail(Ahead)
    BY <2>2, <1>5, <1>8, <1>9, AheadRest DEF FramingInv
  <2>4. Stream!ReadFrame
    BY <2>1, <2>3, <1>2, <1>9 DEF Stream!ReadFrame, AbstractReader
  <2>5. QED
    BY <2>4 DEF StreamStep, Stream!StreamNext, Stream!ReaderStep
<1>11. CASE ~ (l.data > 0)
  <2>1. reader' = "reading" /\ held' = held
    BY <1>2, <1>6, <1>11
  <2>2. Awaited' = Awaited
    BY <1>7, <1>8, <1>11
  <2>3. Ahead' = Ahead
    BY <2>2, <1>9, AheadStays DEF FramingInv
  <2>4. QED
    BY <2>1, <2>3, <1>2, <1>9 DEF StreamStep, Stream!stream, AbstractReader
<1>12. QED
  BY <1>10, <1>11

LEMMA ReadEndStep == ASSUME FramingInv, ReadEnd PROVE StreamStep
<1>1. /\ UNCHANGED <<server, serrs, outClosed, cancelled>>
      /\ reader = "reading" /\ wireEnd # "open" /\ frame' = begun + 1
      /\ frame > begun \/ pos = Lines(frame)
      /\ IF wireEnd = "eof" /\ acc.data # <<>>
         THEN reader' = "flushing" /\ held' = acc
         ELSE reader' = "failing" /\ held' = held
  BY DEF ReadEnd, Ended, Flushes, Dispatch, hasData
<1>2. /\ frame \in 1..begun + 1 /\ begun \in Nat /\ wireEnd \in {"eof", "broken"} /\ pos \in Nat
      /\ frame <= begun => pos < Size(layouts[frame])
  BY <1>1 DEF FramingInv, FramesOK, begun
<1>3. Ahead' = <<>>
  <2>1. begun' = begun
    BY <1>1, SameWritten
  <2>2. (frame..begun)' = {}
    BY <2>1, <1>1, <1>2
  <2>3. Awaited' = {}
    BY <2>2 DEF Awaited
  <2>4. QED
    BY <2>3, AheadNone
<1>4. wireEnd' = wireEnd /\ \A n : Written(n)' = Written(n)
  BY <1>1, SameWritten
<1>5. frame > begun \/ (frame = begun /\ pos = sent /\ acc = Written(begun) /\ sent # Size(layouts[begun]))
  <2>1. SUFFICES ASSUME ~ (frame > begun)
                 PROVE  frame = begun /\ pos = sent /\ acc = Written(begun) /\ sent # Size(layouts[begun])
    OBVIOUS
  <2>2. PICK f : f = frame
    OBVIOUS
  <2>3. f \in 1..begun /\ pos = Lines(f) /\ pos < Size(layouts[f])
    BY <2>1, <2>2, <1>1, <1>2
  <2>4. Lines(f) # Size(layouts[f]) /\ f = begun /\ Lines(f) = sent
    <3>1. layouts[f] \in Layouts /\ (f < begun => Lines(f) = Size(layouts[f])) /\ (f = begun => Lines(f) = sent)
      BY <2>3, FrameIs DEF FramingInv
    <3>2. Size(layouts[f]) \in Nat
      BY <3>1, LayoutIs
    <3>3. QED
      BY <3>1, <3>2, <2>3, <1>2
  <2>5. acc = Amounts(f, pos)
    BY <2>2, <2>3, <1>1, <1>2 DEF FramingInv, Gathered
  <2>6. QED
    BY <2>2, <2>3, <2>4, <2>5 DEF Written
<1>6. CASE wireEnd = "eof" /\ acc.data # <<>>
  <2>1. frame = begun /\ acc = Written(begun)
    <3>1. ~ (frame > begun)
      <4>1. SUFFICES ASSUME frame > begun PROVE FALSE
        OBVIOUS
      <4>2. acc = Blanked
        BY <4>1, <1>1, <1>2 DEF FramingInv, Gathered
      <4>3. QED
        BY <4>2, <1>6, BlankedIs
    <3>2. QED
      BY <3>1, <1>5
  <2>2. PICK b : b = begun
    OBVIOUS
  <2>3. b \in 1..begun /\ layouts[b].data > 0
    <3>1. b \in 1..begun
      BY <2>1, <2>2, <1>2
    <3>2. QED
      BY <3>1, <2>1, <2>2, <1>6, WrittenIs DEF FramingInv
  <2>4. Awaited = {b}
    <3>1. LastDue
      BY <2>1, <1>6 DEF LastDue
    <3>2. frame..begun = {b}
      BY <2>1, <2>2, <1>2
    <3>3. QED
      BY <3>1, <3>2, <2>2, <2>3 DEF Awaited
  <2>5. Awaited' = {}
    <3>1. (frame..begun)' = {}
      BY <1>1, <1>2, SameWritten
    <3>2. QED
      BY <3>1 DEF Awaited
  <2>6. Ahead # <<>> /\ Head(Ahead) = acc /\ Ahead' = Tail(Ahead)
    <3>1. b \in Awaited /\ (\A y \in Awaited : b <= y) /\ Awaited' = Awaited \ {b}
      BY <2>2, <2>4, <2>5, <1>2
    <3>2. Ahead # <<>> /\ Head(Ahead) = Written(b) /\ Ahead' = Tail(Ahead)
      BY <3>1, <1>4, AheadRest DEF FramingInv
    <3>3. QED
      BY <3>2, <2>1, <2>2
  <2>7. reader' = "flushing" /\ held' = acc
    BY <1>1, <1>6
  <2>8. Stream!ReadFrame
    BY <2>6, <2>7, <1>1, <1>4 DEF Stream!ReadFrame, AbstractReader
  <2>9. QED
    BY <2>8 DEF StreamStep, Stream!StreamNext, Stream!ReaderStep
<1>7. CASE ~ (wireEnd = "eof" /\ acc.data # <<>>)
  <2>1. Awaited = {}
    <3>1. CASE frame > begun
      <4>1. frame..begun = {}
        BY <3>1, <1>2
      <4>2. QED
        BY <4>1 DEF Awaited
    <3>2. CASE ~ (frame > begun)
      <4>1. frame = begun /\ acc = Written(begun) /\ sent # Size(layouts[begun])
        BY <3>2, <1>5
      <4>2. ~ LastDue
        BY <4>1, <1>2, <1>7 DEF LastDue
      <4>3. \A n \in frame..begun : ~ (n < begun)
        BY <4>1, <1>2
      <4>4. QED
        BY <4>2, <4>3 DEF Awaited
    <3>3. QED
      BY <3>1, <3>2
  <2>2. Ahead' = Ahead
    BY <2>1, <1>3, AheadNone
  <2>3. reader' = "failing" /\ held' = held
    BY <1>1, <1>7
  <2>4. QED
    BY <2>2, <2>3, <1>1, <1>4 DEF StreamStep, Stream!stream, AbstractReader
<1>8. QED
  BY <1>6, <1>7

\* While the body is open, the frames in front of the last one are all there.
LEMMA OpenAwaited ==
    ASSUME wireEnd = "open"
    PROVE  \A n : n \in Awaited <=>
               /\ n \in frame..begun /\ layouts[n].data > 0
               /\ n < begun \/ sent + 1 >= Size(layouts[begun])
BY DEF Awaited, LastDue

LEMMA BeginFrameStep == ASSUME FramingInv, BeginFrame PROVE StreamStep
<1>1. /\ UNCHANGED <<read, reader, acc, channels, cancelled, taken>>
      /\ cut' = cut /\ wireEnd' = wireEnd /\ sent' = 0 /\ wireEnd = "open" /\ cut = "none"
      /\ begun > 0 => sent = Size(layouts[begun])
  BY DEF BeginFrame, Connected, FramingInv, OfBody
<1>2. PICK layout \in Layouts : layouts' = Append(layouts, layout)
  BY DEF BeginFrame
<1>3. PICK s, b, f : s = layouts /\ b = begun /\ f = frame
  OBVIOUS
<1>4. s \in Seq(Layouts) /\ Len(s) = b /\ b \in Nat /\ f \in 1..b + 1 /\ sent \in Nat
  BY <1>3 DEF FramingInv, FramesOK, begun
<1>5. PICK t : t = Append(s, layout)
  OBVIOUS
<1>6. Len(t) = b + 1 /\ t[b + 1] = layout /\ \A n \in 1..b : t[n] = s[n]
  BY <1>4, <1>5
<1>7. layouts' = t /\ begun' = b + 1 /\ frame' = f
  BY <1>1, <1>2, <1>3, <1>5, <1>6 DEF begun, read
<1>8. ASSUME NEW n \in 1..b PROVE Written(n)' = Written(n)
  <2>1. Lines(n) = Size(s[n])
    <3>1. n < b => Lines(n) = Size(s[n])
      BY <1>3 DEF Lines
    <3>2. n = b => Lines(n) = Size(s[n])
      BY <1>1, <1>3, <1>8 DEF Lines
    <3>3. QED
      BY <3>1, <3>2, <1>4
  <2>2. Lines(n)' = Size(t[n])
    BY <1>4, <1>7 DEF Lines
  <2>3. PICK k : k = Size(s[n])
    OBVIOUS
  <2>4. Amounts(n, k)' = UpTo(t[n], n, k) /\ Amounts(n, k) = UpTo(s[n], n, k)
    BY <1>1, <1>3, <1>7 DEF Amounts, IsCut
  <2>5. Lines(n) = k /\ Lines(n)' = k
    BY <2>1, <2>2, <2>3, <1>6
  <2>6. QED
    BY <2>4, <2>5, <1>6 DEF Written
<1>9. Awaited' = Awaited
  <2>1. layout.data \in Nat /\ Size(layout) \in Nat /\ (layout.data > 0 => Size(layout) > 1)
    <3>1. layout.data \in Nat /\ Len(layout.head) \in Nat /\ Size(layout) = Len(layout.head) + layout.data + 1
      BY LayoutIs
    <3>2. QED
      BY <3>1
  <2>2. ASSUME NEW n
        PROVE  n \in Awaited' <=> n \in f..b + 1 /\ t[n].data > 0 /\ (n < b + 1 \/ 1 >= Size(layout))
    <3>1. wireEnd' = "open"
      BY <1>1
    <3>2. n \in Awaited' <=> /\ n \in frame'..begun' /\ layouts'[n].data > 0
                             /\ n < begun' \/ sent' + 1 >= Size(layouts'[begun'])
      BY <3>1 DEF Awaited, LastDue
    <3>3. 0 + 1 = 1
      OBVIOUS
    <3>4. QED
      BY <3>2, <3>3, <1>1, <1>6, <1>7
  <2>3. ASSUME NEW n
        PROVE  n \in Awaited <=> n \in f..b /\ s[n].data > 0 /\ (n < b \/ sent + 1 >= Size(s[b]))
    BY <1>1, <1>3, OpenAwaited
  <2>4. ASSUME NEW n \in Awaited' PROVE n \in Awaited
    <3>1. n \in f..b + 1 /\ t[n].data > 0 /\ (n < b + 1 \/ 1 >= Size(layout))
      BY <2>2
    <3>2. n # b + 1
      BY <3>1, <2>1, <1>6, <1>4
    <3>3. n \in f..b /\ n \in 1..b /\ b > 0
      BY <3>1, <3>2, <1>4
    <3>4. n < b \/ sent + 1 >= Size(s[b])
      <4>1. sent = Size(s[b])
        BY <3>3, <1>1, <1>3
      <4>2. QED
        BY <4>1, <1>4
    <3>5. QED
      BY <3>1, <3>3, <3>4, <2>3, <1>6
  <2>5. ASSUME NEW n \in Awaited PROVE n \in Awaited'
    <3>1. n \in f..b /\ s[n].data > 0
      BY <2>3
    <3>2. n \in 1..b /\ n \in f..b + 1 /\ n < b + 1
      BY <3>1, <1>4
    <3>3. QED
      BY <3>1, <3>2, <2>2, <1>6
  <2>6. QED
    BY <2>4, <2>5
<1>10. \A n \in Awaited : Written(n)' = Written(n)
  BY <1>3, <1>8, AwaitedIs DEF FramingInv
<1>11. Ahead' = Ahead
  BY <1>9, <1>10, AheadStays DEF FramingInv
<1>12. QED
  BY <1>1, <1>11 DEF StreamStep, Stream!stream, AbstractReader, channels

LEMMA WriteLineStep == ASSUME FramingInv, WriteLine PROVE StreamStep
<1>1. /\ UNCHANGED <<read, reader, acc, channels, cancelled, taken>>
      /\ layouts' = layouts /\ cut' = cut /\ wireEnd' = wireEnd /\ sent' = sent + 1
      /\ reader \in {"reading", "sending"} /\ wireEnd = "open" /\ cut = "none"
      /\ begun > 0 /\ sent < Size(layouts[begun]) /\ begun' = begun /\ frame' = frame
  BY DEF WriteLine, Connected, FramingInv, OfBody, begun, read
<1>2. PICK b, f, l : b = begun /\ f = frame /\ l = layouts[begun]
  OBVIOUS
<1>3. /\ b \in 1..begun /\ b \in Nat \ {0} /\ f \in 1..b + 1 /\ sent \in Nat /\ l \in Layouts
      /\ Size(l) \in Nat /\ Lines(b) = sent /\ b \in Numbers
  <2>1. b \in 1..begun /\ b \in Nat \ {0} /\ f \in 1..b + 1 /\ sent \in Nat
    BY <1>1, <1>2 DEF FramingInv, FramesOK, begun
  <2>2. l \in Layouts /\ Lines(b) = sent /\ b \in Numbers
    BY <2>1, <1>2, FrameIs DEF FramingInv
  <2>3. QED
    BY <2>1, <2>2, LayoutIs
<1>4. f \in 1..b
  <2>1. ~ (f > b)
    BY <1>1, <1>2, <1>3 DEF FramingInv, OfBody
  <2>2. QED
    BY <2>1, <1>3
<1>5. ASSUME NEW n \in 1..b - 1 PROVE Written(n)' = Written(n)
  <2>1. PICK k : k = Size(layouts[n])
    OBVIOUS
  <2>2. Lines(n) = k /\ Lines(n)' = k
    BY <2>1, <1>1, <1>2, <1>3 DEF Lines
  <2>3. Amounts(n, k)' = Amounts(n, k)
    BY <1>1 DEF Amounts, IsCut
  <2>4. QED
    BY <2>2, <2>3 DEF Written
<1>6. /\ Written(b) = UpTo(l, b, sent)
      /\ Written(b)' = UpTo(l, b, sent + 1)
  <2>1. Lines(b)' = sent + 1
    BY <1>1, <1>2, <1>3 DEF Lines
  <2>2. PICK k : k = sent + 1
    OBVIOUS
  <2>3. Amounts(b, k)' = UpTo(l, b, k) /\ Amounts(b, sent) = UpTo(l, b, sent)
    BY <1>1, <1>2 DEF Amounts, IsCut
  <2>4. QED
    BY <2>1, <2>2, <2>3, <1>3 DEF Written
<1>7. ASSUME NEW n
      PROVE  /\ n \in Awaited <=> n \in f..b /\ layouts[n].data > 0 /\ (n < b \/ sent + 1 >= Size(l))
             /\ n \in Awaited' <=> n \in f..b /\ layouts[n].data > 0 /\ (n < b \/ sent + 2 >= Size(l))
  <2>1. wireEnd' = "open" /\ (sent + 1) + 1 = sent + 2
    BY <1>1, <1>3
  <2>2. n \in Awaited' <=> /\ n \in frame'..begun' /\ layouts'[n].data > 0
                           /\ n < begun' \/ sent' + 1 >= Size(layouts'[begun'])
    BY <2>1 DEF Awaited, LastDue
  <2>3. n \in Awaited' <=> n \in f..b /\ layouts[n].data > 0 /\ (n < b \/ sent + 2 >= Size(l))
    BY <2>1, <2>2, <1>1, <1>2
  <2>4. QED
    BY <2>3, <1>1, <1>2, OpenAwaited
<1>8. Awaited \in SUBSET (1..b)
  BY <1>2, AwaitedIs DEF FramingInv
<1>9. CASE sent + 2 = Size(l) /\ l.data > 0
  <2>1. Awaited' = Awaited \cup {b} /\ Awaited \in SUBSET (1..b - 1)
    <3>1. ~ (sent + 1 >= Size(l)) /\ sent + 2 >= Size(l)
      BY <1>3, <1>9
    <3>2. b \in f..b /\ layouts[b].data > 0
      BY <1>2, <1>3, <1>4, <1>9
    <3>3. \A n \in f..b : n < b \/ n = b
      BY <1>3, <1>4
    <3>4. \A n \in Awaited : n < b
      BY <3>1, <1>7
    <3>5. Awaited' = Awaited \cup {b}
      BY <3>1, <3>2, <3>3, <1>7
    <3>6. Awaited \in SUBSET (1..b - 1)
      BY <3>4, <1>3, <1>8
    <3>7. QED
      BY <3>5, <3>6
  <2>2. PICK c : c = b - 1
    OBVIOUS
  <2>3. c \in Nat /\ c + 1 = b
    BY <2>2, <1>3
  <2>4. \A n \in Awaited : Written(n)' = Written(n)
    BY <2>1, <1>5
  <2>5. Awaited \in SUBSET (1..c) /\ Awaited' = Awaited \cup {c + 1}
    BY <2>1, <2>2, <2>3
  <2>6. Ahead' = Append(Ahead, Written(c + 1)')
    BY <2>3, <2>4, <2>5, AheadMore DEF FramingInv
  <2>7. Written(b)' = Whole(l, b)
    <3>1. sent + 1 \in {Size(l) - 1, Size(l)}
      BY <1>3, <1>9
    <3>2. QED
      BY <3>1, <1>3, <1>6, UpToWhole
  <2>8. Whole(l, b) \in WholeFrames
    BY <1>3, <1>9 DEF WholeFrames, WithData
  <2>9. PICK w : w = Whole(l, b)
    OBVIOUS
  <2>10. w \in WholeFrames /\ Ahead' = Append(Ahead, w)
    BY <2>3, <2>6, <2>7, <2>8, <2>9
  <2>11. Stream!ServerWrites(w)
    BY <2>10, <1>1 DEF Stream!ServerWrites, Stream!Connected, Stream!channels, channels, AbstractReader
  <2>12. QED
    BY <2>10, <2>11 DEF StreamStep, Stream!StreamNext
<1>10. CASE ~ (sent + 2 = Size(l) /\ l.data > 0)
  <2>1. Awaited' = Awaited
    <3>1. ASSUME NEW n PROVE n \in Awaited' <=> n \in Awaited
      <4>1. CASE n \in f..b /\ layouts[n].data > 0 /\ ~ (n < b)
        <5>1. layouts[n] = l /\ l.data > 0
          BY <4>1, <1>2, <1>3, <1>4
        <5>2. sent + 2 >= Size(l) <=> sent + 1 >= Size(l)
          BY <5>1, <1>3, <1>10
        <5>3. QED
          BY <5>2, <1>7
      <4>2. CASE ~ (n \in f..b /\ layouts[n].data > 0 /\ ~ (n < b))
        BY <4>2, <1>7
      <4>3. QED
        BY <4>1, <4>2
    <3>2. QED
      BY <3>1
  <2>2. ASSUME NEW n \in Awaited PROVE Written(n)' = Written(n)
    <3>1. n \in 1..b /\ (n < b \/ sent + 1 >= Size(l))
      BY <1>7, <1>8
    <3>2. CASE n < b
      BY <3>1, <3>2, <1>3, <1>5
    <3>3. CASE ~ (n < b)
      <4>1. n = b /\ sent + 1 = Size(l)
        BY <3>1, <3>3, <1>1, <1>2, <1>3
      <4>2. sent \in {Size(l) - 1, Size(l)} /\ sent + 1 \in {Size(l) - 1, Size(l)}
        BY <4>1, <1>3
      <4>3. UpTo(l, b, sent) = Whole(l, b) /\ UpTo(l, b, sent + 1) = Whole(l, b)
        BY <4>2, <1>3, UpToWhole
      <4>4. QED
        BY <4>1, <4>3, <1>6
    <3>4. QED
      BY <3>2, <3>3
  <2>3. Ahead' = Ahead
    BY <2>1, <2>2, AheadStays DEF FramingInv
  <2>4. QED
    BY <2>3, <1>1 DEF StreamStep, Stream!stream, AbstractReader, channels
<1>11. QED
  BY <1>9, <1>10

\* What the end of the body leaves of the frames ahead of the reader.
Remains ==
    \E m \in 0..Len(Ahead) :
        \/ Ahead' = SubSeq(Ahead, 1, m)
        \/ wireEnd' = "eof" /\ \E c \in CutFrames : Ahead' = Append(SubSeq(Ahead, 1, m), c)

\* The frame a body ends in is as whole as it was before, or short.
Kept(n) == Written(n)' = Written(n) /\ (n < begun \/ sent + 1 >= Size(layouts[begun]))

LEMMA EndsIn ==
    ASSUME FramingInv, cut = "none", NEW n, NEW k, EndsAt(n, k)
    PROVE  /\ Written(n)'.data = <<>> \/ Written(n)' \in CutFrames \/ Kept(n)
           /\ sent' = Size(layouts[n]) => Kept(n)
<1>1. /\ n \in 1..begun /\ begun \in Nat /\ k \in 0..Lines(n) /\ begun' = n /\ layouts'[n] = layouts[n]
      /\ n \in 1..n
  <2>1. n \in 1..begun /\ begun \in Nat /\ k \in 0..Lines(n) /\ begun' = n
        /\ \A m \in 1..n : layouts'[m] = layouts[m]
    BY DEF EndsAt, FramingInv, FramesOK, begun
  <2>2. n \in 1..n
    BY <2>1
  <2>3. QED
    BY <2>1, <2>2
<1>2. PICK l : l = layouts[n]
  OBVIOUS
<1>3. /\ l \in Layouts /\ n \in Numbers /\ Lines(n) \in 0..Size(l) /\ Size(l) \in Nat
      /\ (n < begun => Lines(n) = Size(l)) /\ (n = begun => Lines(n) = sent) /\ k \in 0..Size(l)
  <2>1. /\ l \in Layouts /\ n \in Numbers /\ Lines(n) \in 0..Size(l) /\ Size(l) \in Nat
        /\ (n < begun => Lines(n) = Size(l)) /\ (n = begun => Lines(n) = sent)
    BY <1>1, <1>2, FrameIs, LayoutIs DEF FramingInv
  <2>2. QED
    BY <2>1, <1>1
<1>4. Lines(n)' = sent' /\ layouts'[n] = l
  BY <1>1, <1>2 DEF Lines
<1>5. CASE sent' = k /\ cut' = "none"
  <2>1. Written(n)' = UpTo(l, n, k)
    <3>1. Amounts(n, k)' = UpTo(l, n, k)
      BY <1>4, <1>5 DEF Amounts, IsCut
    <3>2. QED
      BY <3>1, <1>4, <1>5 DEF Written
  <2>2. CASE k + 1 < Size(l)
    <3>1. k \in Nat /\ sent' # Size(l)
      BY <2>2, <1>3, <1>5
    <3>2. UpTo(l, n, k).data = <<>> \/ UpTo(l, n, k) \in CutFrames
      BY <3>1, <2>2, <1>3, PartIs
    <3>3. QED
      BY <3>1, <3>2, <2>1, <1>2
  <2>3. CASE ~ (k + 1 < Size(l))
    <3>1. k \in {Size(l) - 1, Size(l)}
      BY <2>3, <1>3
    <3>2. Lines(n) = Size(l) \/ Lines(n) + 1 = Size(l)
      BY <2>3, <1>1, <1>3
    <3>3. Written(n) = Whole(l, n) /\ UpTo(l, n, k) = Whole(l, n)
      BY <3>1, <3>2, <1>1, <1>2, <1>3, WrittenIs, UpToWhole DEF FramingInv
    <3>4. n < begun \/ sent + 1 >= Size(layouts[begun])
      BY <3>2, <1>1, <1>2, <1>3
    <3>5. QED
      BY <3>3, <3>4, <2>1 DEF Kept
  <2>4. QED
    BY <2>2, <2>3
<1>6. CASE k + 1 < Size(l) /\ sent' = k + 1 /\ cut' \in {"value", "name"}
  <2>1. PICK j, c : j = k + 1 /\ c = cut'
    OBVIOUS
  <2>2. j \in 1..Size(l) - 1
    BY <2>1, <1>3, <1>6
  <2>3. Written(n)' = CutAt(l, n, j, c)
    <3>1. IsCut(n, j)'
      BY <2>1, <1>1, <1>6 DEF IsCut
    <3>2. Amounts(n, j)' = CutAt(l, n, j, c)
      BY <3>1, <2>1, <1>4 DEF Amounts, CutAt, Field, Value
    <3>3. Lines(n)' = j
      BY <2>1, <1>4, <1>6
    <3>4. QED
      BY <3>2, <3>3 DEF Written
  <2>4. CutAt(l, n, j, c).data = <<>> \/ CutAt(l, n, j, c) \in CutFrames
    BY <2>2, <1>3, CutIs
  <2>5. sent' # Size(l)
    BY <1>3, <1>6
  <2>6. QED
    BY <2>3, <2>4, <2>5, <1>2
<1>7. QED
  BY <1>2, <1>5, <1>6 DEF EndsAt

LEMMA EndsRemains ==
    ASSUME FramingInv, BodyEnds, NEW n, NEW k, EndsAt(n, k)
    PROVE  Remains
<1>1. /\ UNCHANGED <<read, reader, acc, channels, cancelled, taken>>
      /\ wireEnd = "open" /\ cut = "none" /\ wireEnd' \in {"eof", "broken"} /\ frame' = frame
  BY BodyEndsAt DEF read
<1>2. PICK b, f, e : b = begun /\ f = frame /\ e = n - 1
  OBVIOUS
<1>3. /\ n \in 1..b /\ b \in Nat /\ e \in Nat /\ e + 1 = n /\ f \in Nat \ {0}
      /\ begun' = n /\ \A m \in 1..n : layouts'[m] = layouts[m]
  <2>1. n \in 1..b /\ b \in Nat /\ f \in Nat \ {0} /\ begun' = n /\ \A m \in 1..n : layouts'[m] = layouts[m]
    BY <1>2 DEF EndsAt, FramingInv, FramesOK, begun
  <2>2. QED
    BY <2>1, <1>2
<1>4. ASSUME NEW m \in 1..e PROVE Written(m)' = Written(m) /\ m < b /\ m < n /\ m # n
  <2>1. m < b /\ m < n /\ m # n
    BY <1>3
  <2>2. PICK j : j = Size(layouts[m])
    OBVIOUS
  <2>3. Lines(m) = j /\ Lines(m)' = j
    BY <2>1, <2>2, <1>2, <1>3 DEF Lines
  <2>4. ~ IsCut(m, j) /\ ~ IsCut(m, j)'
    BY <2>1, <1>1, <1>3 DEF IsCut
  <2>5. Amounts(m, j)' = Amounts(m, j)
    BY <2>4, <2>1, <1>3 DEF Amounts
  <2>6. QED
    BY <2>1, <2>3, <2>5 DEF Written
<1>5. ASSUME NEW m
      PROVE  /\ m \in Awaited <=>
                    m \in f..b /\ layouts[m].data > 0 /\ (m < b \/ sent + 1 >= Size(layouts[b]))
             /\ m \in Awaited' <=> m \in f..n /\ layouts[m].data > 0 /\ (m < n \/ LastDue')
  <2>1. m \in Awaited' <=> m \in f..n /\ layouts'[m].data > 0 /\ (m < n \/ LastDue')
    BY <1>1, <1>2, <1>3 DEF Awaited
  <2>2. m \in f..n => layouts'[m] = layouts[m]
    BY <1>3
  <2>3. QED
    BY <2>1, <2>2, <1>1, <1>2, OpenAwaited
<1>6. Awaited \in SUBSET (1..b)
  BY <1>2, AwaitedIs DEF FramingInv
<1>7. PICK T : T = Awaited \cap (1..e)
  OBVIOUS
<1>8. /\ T \in SUBSET Awaited /\ T \in SUBSET (1..e)
      /\ \A x \in Awaited : \A y \in T : x < y => x \in T
      /\ \A m \in T : Written(m)' = Written(m)
  <2>1. T \in SUBSET Awaited /\ T \in SUBSET (1..e) /\ \A m \in T : Written(m)' = Written(m)
    BY <1>4, <1>7
  <2>2. ASSUME NEW x \in Awaited, NEW y \in T, x < y PROVE x \in T
    <3>1. y \in 1..e /\ x \in 1..b
      BY <2>1, <1>6
    <3>2. x \in 1..e
      BY <3>1, <2>2, <1>3
    <3>3. QED
      BY <3>2, <1>7
  <2>3. QED
    BY <2>1, <2>2
<1>9. ASSUME NEW m, m # n PROVE m \in Awaited' <=> m \in T
  <2>1. CASE m \in 1..e
    <3>1. m < n /\ m < b /\ (m \in f..n <=> m \in f..b)
      BY <2>1, <1>3
    <3>2. QED
      BY <3>1, <2>1, <1>5, <1>7
  <2>2. CASE m \notin 1..e
    <3>1. m \notin f..n
      BY <2>2, <1>3, <1>9
    <3>2. QED
      BY <3>1, <2>2, <1>5, <1>7
  <2>3. QED
    BY <2>1, <2>2
<1>10. n \notin T
  BY <1>3, <1>7
<1>11. CASE n \notin Awaited'
  <2>1. Awaited' = T
    BY <1>9, <1>10, <1>11
  <2>2. \E m \in 0..Len(Ahead) :
            IF Awaited' = T THEN Ahead' = SubSeq(Ahead, 1, m)
                            ELSE Ahead' = Append(SubSeq(Ahead, 1, m), Written(e + 1)')
    BY <2>1, <1>3, <1>8, AheadEnds DEF FramingInv
  <2>3. QED
    BY <2>1, <2>2 DEF Remains
<1>12. CASE n \in Awaited'
  <2>1. Awaited' = T \cup {n} /\ n \in f..n /\ layouts[n].data > 0 /\ LastDue'
    <3>1. n \in f..n /\ layouts[n].data > 0 /\ (n < n \/ LastDue')
      BY <1>5, <1>12
    <3>2. ~ (n < n)
      BY <1>3
    <3>3. Awaited' = T \cup {n}
      BY <1>9, <1>12
    <3>4. QED
      BY <3>1, <3>2, <3>3
  <2>2. CASE Kept(n)
    <3>1. n \in Awaited
      BY <2>1, <2>2, <1>2, <1>3, <1>5 DEF Kept
    <3>2. PICK U : U = T \cup {n}
      OBVIOUS
    <3>3. /\ U \in SUBSET Awaited /\ U \in SUBSET (1..n) /\ n \in Nat
          /\ \A m \in U : Written(m)' = Written(m)
      BY <3>1, <3>2, <2>2, <1>3, <1>8 DEF Kept
    <3>4. ASSUME NEW x \in Awaited, NEW y \in U, x < y PROVE x \in U
      <4>1. x \in 1..b /\ (y \in T \/ y = n)
        BY <3>2, <1>6
      <4>2. CASE y \in T
        BY <4>2, <3>2, <3>4, <1>8
      <4>3. CASE y = n
        <5>1. x \in 1..e
          BY <4>1, <4>3, <3>4, <1>3
        <5>2. QED
          BY <5>1, <3>2, <1>7
      <4>4. QED
        BY <4>1, <4>2, <4>3
    <3>5. Awaited' = U
      BY <2>1, <3>2
    <3>6. \E m \in 0..Len(Ahead) :
              IF Awaited' = U THEN Ahead' = SubSeq(Ahead, 1, m)
                              ELSE Ahead' = Append(SubSeq(Ahead, 1, m), Written(n + 1)')
      BY <3>3, <3>4, <3>5, AheadEnds DEF FramingInv
    <3>7. QED
      BY <3>5, <3>6 DEF Remains
  <2>3. CASE ~ Kept(n)
    <3>1. sent' # Size(layouts[n])
      BY <2>3, <1>1, EndsIn
    <3>2. layouts'[begun'] = layouts[n]
      <4>1. n \in 1..n
        BY <1>3
      <4>2. QED
        BY <4>1, <1>3
    <3>3. wireEnd' = "eof" /\ Written(n)'.data # <<>>
      <4>1. wireEnd' = "eof"
        BY <3>1, <3>2, <2>1, <1>1 DEF LastDue
      <4>2. QED
        BY <4>1, <2>1, <1>3 DEF LastDue
    <3>4. Written(n)' \in CutFrames
      BY <3>3, <2>3, <1>1, EndsIn
    <3>5. Awaited' = T \cup {e + 1} /\ Awaited' # T
      BY <2>1, <1>3, <1>10
    <3>6. \E m \in 0..Len(Ahead) :
              IF Awaited' = T THEN Ahead' = SubSeq(Ahead, 1, m)
                              ELSE Ahead' = Append(SubSeq(Ahead, 1, m), Written(e + 1)')
      BY <3>5, <1>3, <1>8, AheadEnds DEF FramingInv
    <3>7. QED
      BY <3>3, <3>4, <3>5, <3>6, <1>3 DEF Remains
  <2>4. QED
    BY <2>2, <2>3
<1>13. QED
  BY <1>11, <1>12

LEMMA BodyEndsStep == ASSUME FramingInv, BodyEnds PROVE StreamStep
<1>1. /\ UNCHANGED <<read, reader, acc, channels, cancelled, taken>>
      /\ reader \in {"reading", "sending"} /\ wireEnd = "open" /\ wireEnd' \in {"eof", "broken"}
  BY BodyEndsAt
<1>2. ASSUME begun = 0, UNCHANGED <<layouts, sent, cut>> PROVE Remains
  <2>1. begun' = 0 /\ Awaited \in SUBSET (1..0) /\ frame' = frame /\ frame \in Nat \ {0}
    BY <1>1, <1>2, AwaitedIs DEF begun, read, FramingInv, FramesOK
  <2>2. Awaited = {} /\ Awaited' = {}
    <3>1. frame'..begun' = {}
      BY <2>1
    <3>2. QED
      BY <3>1, <2>1 DEF Awaited
  <2>3. Ahead = <<>> /\ Ahead' = <<>>
    BY <2>2, AheadNone
  <2>4. PICK none : none = <<>>
    OBVIOUS
  <2>5. Len(none) = 0 /\ SubSeq(none, 1, 0) = none /\ 0 \in 0..0
    BY <2>4
  <2>6. QED
    BY <2>3, <2>4, <2>5 DEF Remains
<1>3. Remains
  BY <1>2, BodyEndsAt, EndsRemains
<1>4. Stream!ServerEnds(CutFrames)
  BY <1>1, <1>3 DEF Remains, Stream!ServerEnds, Stream!Connected, Stream!channels, channels, AbstractReader
<1>5. QED
  BY <1>4 DEF StreamStep, Stream!StreamNext

LEMMA FramingStep == ASSUME FramingInv, [FramingNext]_framing PROVE StreamStep
<1>1. CASE UNCHANGED framing
  <2>1. UNCHANGED <<server, read, reader, held, serrs, outClosed, cancelled>>
    BY <1>1 DEF framing, channels
  <2>2. Ahead' = Ahead /\ wireEnd' = wireEnd
    BY <2>1, SamePlace
  <2>3. QED
    BY <2>1, <2>2 DEF StreamStep, Stream!stream, AbstractReader
<1>2. CASE Reader
  BY <1>2, ReadLineStep, ReadBlankStep, SendCancelledStep, ReadCancelledStep, ReadEndStep,
     PushErrorStep, CloseErrsStep, CloseOutStep DEF Reader
<1>3. CASE Environment
  BY <1>3, TakeStep, TakeErrStep, CancelStep, BeginFrameStep, WriteLineStep, BodyEndsStep
     DEF Environment
<1>4. QED
  BY <1>1, <1>2, <1>3, OpenStep DEF FramingNext

\* Whatever the lines are cut into, the line machine offers the frames of module SSEStream: each
\* frame the server completed once, in order, with its own event, id and data, and after a clean end
\* perhaps one that is short of data (sse.go 194-254).
THEOREM ImplementsStream == FramingSpec => IsStream
<1>1. FramingInit => Stream!StreamInit
  <2>1. SUFFICES ASSUME FramingInit PROVE Stream!StreamInit
    OBVIOUS
  <2>2. FramingInv /\ begun = 0
    BY <2>1, FramingInitInv DEF FramingInv, AtFirst, FramingInit
  <2>3. Awaited = {}
    <3>1. Awaited \in SUBSET (1..0)
      BY <2>2, AwaitedIs DEF FramingInv
    <3>2. QED
      BY <3>1
  <2>4. Ahead = <<>>
    BY <2>3, AheadNone
  <2>5. QED
    BY <2>1, <2>4 DEF FramingInit, Stream!StreamInit, AbstractReader
<1>2. FramingInv /\ [FramingNext]_framing => [Stream!StreamNext(WholeFrames, CutFrames)]_(Stream!stream)
  BY FramingStep DEF StreamStep
<1>3. QED
  BY FramingInvariance, <1>1, <1>2, PTL DEF FramingSpec, IsStream

-----------------------------------------------------------------------------
(* Balance reads: lists of vaults, and what one response adds to what is    *)
(* collected.                                                               *)

LEMMA EmptySum ==
    ASSUME NEW f, DOMAIN f = {}
    PROVE  SumFunction(f) = 0
BY DEF SumFunction, SumFunctionOnSet, FoldFunctionOnSet, MapThenFoldSet

LEMMA VaultList ==
    ASSUME NEW s
    PROVE  s \in VaultLists <=> s \in Seq(Vaults) /\ IsInjective(s) /\ Len(s) <= Cardinality(Vaults)
<1>1. Cardinality(Vaults) \in Nat
  BY VaultsAssumption, FS_CardinalityType
<1>2. ASSUME s \in VaultLists
      PROVE  s \in Seq(Vaults) /\ IsInjective(s) /\ Len(s) <= Cardinality(Vaults)
  <2>1. PICK m \in 0..Cardinality(Vaults) : s \in [1..m -> Vaults]
    BY <1>2 DEF VaultLists, SeqOf
  <2>2. QED
    BY <1>1, <1>2, <2>1 DEF VaultLists
<1>3. ASSUME s \in Seq(Vaults), IsInjective(s), Len(s) <= Cardinality(Vaults)
      PROVE  s \in VaultLists
  <2>1. Len(s) \in 0..Cardinality(Vaults) /\ s \in [1..Len(s) -> Vaults]
    BY <1>1, <1>3
  <2>2. QED
    BY <1>3, <2>1 DEF VaultLists, SeqOf
<1>4. QED
  BY <1>2, <1>3

\* An injective list of vaults is no longer than there are vaults.
LEMMA InjectiveFits ==
    ASSUME NEW s \in Seq(Vaults), IsInjective(s)
    PROVE  s \in VaultLists
<1>1. Len(s) \in Nat /\ s \in [1..Len(s) -> Vaults]
  OBVIOUS
<1>2. s \in Injection(1..Len(s), Vaults)
  BY <1>1 DEF Injection
<1>3. Cardinality(1..Len(s)) <= Cardinality(Vaults)
  BY <1>2, FS_Injection, VaultsAssumption
<1>4. Cardinality(1..Len(s)) = Len(s)
  BY <1>1, FS_Interval
<1>5. QED
  BY <1>3, <1>4, VaultList

\* m is what the ids asked for and found give, in the order asked for.
Merges(m, asked, served) ==
    /\ m \in Seq(Substates) /\ Len(m) <= Len(asked)
    /\ \A i \in 1..Len(m) : m[i].id \in served /\ m[i].amount = ledger[m[i].id]
    /\ \A i \in 1..Len(m) : \E k \in 1..Len(asked) : asked[k] = m[i].id
    /\ \A i, j \in 1..Len(m) : i < j =>
           \E k, l \in 1..Len(asked) : k < l /\ asked[k] = m[i].id /\ asked[l] = m[j].id
    /\ \A k \in 1..Len(asked) : asked[k] \in served => \E i \in 1..Len(m) : m[i].id = asked[k]

LEMMA MergeMerges ==
    ASSUME NEW asked \in Seq(Vaults), NEW served, ledger \in [Vaults -> 0..MaxAmount]
    PROVE  Merges(Merge(asked, served), asked, served)
<1>. DEFINE set == Found(asked, served)
            n == Cardinality(set)
<1>1. Len(asked) \in Nat /\ set \in SUBSET (1..Len(asked)) /\ \A k \in set : asked[k] \in served
  BY DEF Found
<1>2. Lists(InOrder(set), set) /\ n \in 0..Len(asked)
  BY <1>1, InOrderLists
<1>3. PICK at : at = InOrder(set)
  OBVIOUS
<1>4. PICK m : m = Merge(asked, served)
  OBVIOUS
<1>. HIDE DEF set, n
<1>5. /\ at \in [1..n -> set] /\ \A k \in set : \E i \in 1..n : at[i] = k
      /\ \A i, j \in 1..n : i < j => at[i] < at[j]
  BY <1>2, <1>3 DEF Lists, Range, Ascending, n
<1>6. \A i \in 1..n : at[i] \in 1..Len(asked) /\ asked[at[i]] \in Vaults /\ asked[at[i]] \in served
  <2>1. \A k \in 1..Len(asked) : asked[k] \in Vaults
    OBVIOUS
  <2>2. ASSUME NEW i \in 1..n PROVE at[i] \in set
    BY <1>5
  <2>3. QED
    BY <1>1, <2>1, <2>2
<1>7. m = [i \in 1..n |-> [id |-> asked[at[i]], amount |-> ledger[asked[at[i]]]]]
  BY <1>3, <1>4, <1>5 DEF Merge, Taken, set
<1>8. \A i \in 1..n : m[i].id = asked[at[i]] /\ m[i].amount = ledger[asked[at[i]]] /\ m[i] \in Substates
  BY <1>6, <1>7 DEF Substates
<1>9. m \in Seq(Substates) /\ Len(m) = n
  BY <1>2, <1>7, <1>8
<1>10. \A k \in 1..Len(asked) : asked[k] \in served => k \in set
  BY DEF Found, set
<1>11. Merges(m, asked, served)
  <2>1. m \in Seq(Substates) /\ Len(m) <= Len(asked)
    BY <1>1, <1>2, <1>9
  <2>2. \A i \in 1..Len(m) : m[i].id \in served /\ m[i].amount = ledger[m[i].id]
    BY <1>6, <1>8, <1>9
  <2>3. \A i \in 1..Len(m) : \E k \in 1..Len(asked) : asked[k] = m[i].id
    BY <1>6, <1>8, <1>9
  <2>4. ASSUME NEW i \in 1..Len(m), NEW j \in 1..Len(m), i < j
        PROVE  \E k, l \in 1..Len(asked) : k < l /\ asked[k] = m[i].id /\ asked[l] = m[j].id
    <3>1. at[i] < at[j] /\ at[i] \in 1..Len(asked) /\ at[j] \in 1..Len(asked)
      BY <1>5, <1>6, <1>9, <2>4
    <3>2. QED
      BY <1>8, <1>9, <3>1
  <2>5. ASSUME NEW k \in 1..Len(asked), asked[k] \in served
        PROVE  \E i \in 1..Len(m) : m[i].id = asked[k]
    <3>1. PICK i \in 1..n : at[i] = k
      BY <1>5, <1>10, <2>5
    <3>2. QED
      BY <1>8, <1>9, <3>1
  <2>6. QED
    BY <2>1, <2>2, <2>3, <2>4, <2>5 DEF Merges
<1>12. QED
  BY <1>4, <1>11

-----------------------------------------------------------------------------
(* The invariant.                                                           *)

\* The ids asked for so far are those in the first `start` places.
Asked == {k \in 1..Len(ids) : k <= start}

\* What is collected: each substate is one that was asked for, with an amount its vault has held,
\* in the order of the ids; an omission leaves a hole, and nothing else does.
Collected ==
    fetched # Nil =>
        /\ Len(fetched) <= start /\ Len(fetched) <= Len(ids)
        /\ \A i \in 1..Len(fetched) : \E k \in Asked : ids[k] = fetched[i].id
        /\ KeepsOrder
        /\ \A i \in 1..Len(fetched) : fetched[i].amount \in witnessed[fetched[i].id]
        /\ IF omitted THEN \E k \in Asked : \A i \in 1..Len(fetched) : fetched[i].id # ids[k]
                      ELSE \A k \in Asked : \E i \in 1..Len(fetched) : fetched[i].id = ids[k]

\* What has happened by each statement of the call.
Progress ==
    /\ pc = "account" => ids = <<>>
    /\ pc \in {"account", "wants"} => start = 0 /\ fetched = Nil /\ ~omitted
    /\ pc = "vaults" => start < Len(ids) /\ fetched # Nil
    /\ pc = "sum" => IF fetched = Nil THEN ids = <<>> ELSE Len(ids) <= start

\* Amounts are remembered, and without a change there is only what is held now.
History ==
    /\ \A v \in Vaults : ledger[v] \in witnessed[v]
    /\ changes = 0 => /\ \A v \in Vaults : witnessed[v] = {ledger[v]}
                      /\ ids # <<>> => ids = vaults

BalancesInv == TypeOK /\ Collected /\ Progress /\ History /\ Exact

USE VaultsAssumption, ResourceAssumption, ChunkAssumption, LedgerBounds

\* The collected substates are a sequence, as long as they are not nil, and never nil again.
LEMMA Reads ==
    ASSUME NEW f
    PROVE  /\ f \in VaultReads => f \in Seq(Substates) /\ f # Nil
           /\ f \in Seq(Substates) /\ Len(f) <= Cardinality(Vaults) => f \in VaultReads
<1>1. Cardinality(Vaults) \in Nat
  BY FS_CardinalityType
<1>2. ASSUME f \in VaultReads PROVE f \in Seq(Substates) /\ f # Nil
  <2>1. PICK m \in 0..Cardinality(Vaults) : f \in [1..m -> Substates]
    BY <1>2 DEF VaultReads, SeqOf
  <2>2. QED
    BY <1>1, <1>2, <2>1, NilAssumption
<1>3. ASSUME f \in Seq(Substates), Len(f) <= Cardinality(Vaults) PROVE f \in VaultReads
  <2>1. Len(f) \in 0..Cardinality(Vaults) /\ f \in [1..Len(f) -> Substates]
    BY <1>1, <1>3
  <2>2. QED
    BY <2>1 DEF VaultReads, SeqOf
<1>4. QED
  BY <1>2, <1>3

\* The chunk in hand is the stretch of ids that start points at, and it ends where the asked ones
\* will end.
LEMMA ChunkIs ==
    ASSUME ids \in Seq(Vaults), start \in Nat, start < Len(ids)
    PROVE  /\ Chunk \in Seq(Vaults) /\ Len(Chunk) \in 1..fetchChunk
           /\ start + Len(Chunk) <= Len(ids)
           /\ start + Len(Chunk) = Len(ids) \/ Len(Chunk) = fetchChunk
           /\ \A k \in 1..Len(Chunk) : Chunk[k] = ids[start + k]
<1>1. ChunkEnd \in Nat /\ start < ChunkEnd /\ ChunkEnd <= Len(ids)
      /\ (ChunkEnd = start + fetchChunk \/ (ChunkEnd = Len(ids) /\ ChunkEnd < start + fetchChunk))
  BY DEF ChunkEnd
<1>2. Len(Chunk) = ChunkEnd - start
  BY <1>1 DEF Chunk
<1>3. Chunk \in Seq(Vaults) /\ \A k \in 1..Len(Chunk) : Chunk[k] = ids[start + k]
  BY <1>1, <1>2 DEF Chunk
<1>4. QED
  BY <1>1, <1>2, <1>3

LEMMA ChunkCollected ==
    ASSUME TypeOK, Collected, Progress, History, FetchChunk
    PROVE  Collected' /\ fetched' \in VaultReads
<1>1. PICK served \in SUBSET ToSet(Chunk) :
          /\ fetched' = fetched \o Merge(Chunk, served)
          /\ omitted' = (omitted \/ served # ToSet(Chunk))
  BY DEF FetchChunk
<1>2. PICK m : m = Merge(Chunk, served)
  OBVIOUS
<1>3. PICK f : f = fetched
  OBVIOUS
<1>4. PICK g : g = f \o m
  OBVIOUS
<1>5. PICK c : c = Chunk
  OBVIOUS
<1>6. /\ start' = start + fetchChunk /\ ids' = ids /\ witnessed' = witnessed /\ ledger' = ledger
      /\ fetched' = g /\ omitted' = (omitted \/ served # ToSet(c))
  BY <1>1, <1>2, <1>3, <1>4, <1>5 DEF FetchChunk, chain
<1>7. /\ ids \in Seq(Vaults) /\ IsInjective(ids) /\ Len(ids) \in Nat /\ Len(ids) <= Cardinality(Vaults)
      /\ start \in Nat /\ start < Len(ids)
      /\ ledger \in [Vaults -> 0..MaxAmount]
      /\ f # Nil /\ f \in Seq(Substates)
  <2>1. ids \in VaultLists /\ start \in Nat
    BY FS_CardinalityType DEF TypeOK
  <2>2. pc = "vaults"
    BY DEF FetchChunk
  <2>3. f # Nil /\ start < Len(ids) /\ f \in VaultReads
    BY <2>2, <1>3 DEF Progress, TypeOK
  <2>4. QED
    BY <2>1, <2>3, VaultList, Reads DEF TypeOK
<1>8. /\ c \in Seq(Vaults) /\ Len(c) \in 1..fetchChunk /\ start + Len(c) <= Len(ids)
      /\ start + Len(c) = Len(ids) \/ Len(c) = fetchChunk
      /\ \A k \in 1..Len(c) : c[k] = ids[start + k]
  BY <1>5, <1>7, ChunkIs
<1>9. Merges(m, c, served)
  BY <1>2, <1>5, <1>7, <1>8, MergeMerges
<1>10. /\ m \in Seq(Substates) /\ Len(m) <= Len(c)
       /\ \A i \in 1..Len(m) : m[i].id \in served /\ m[i].amount = ledger[m[i].id]
       /\ \A i \in 1..Len(m) : \E k \in 1..Len(c) : c[k] = m[i].id
       /\ \A i, j \in 1..Len(m) : i < j =>
              \E k, l \in 1..Len(c) : k < l /\ c[k] = m[i].id /\ c[l] = m[j].id
       /\ \A k \in 1..Len(c) : c[k] \in served => \E i \in 1..Len(m) : m[i].id = c[k]
       /\ \A i \in 1..Len(m) : m[i] \in Substates
  <2>1. m \in Seq(Substates)
    BY <1>9 DEF Merges
  <2>2. \A i \in 1..Len(m) : m[i] \in Substates
    BY <2>1
  <2>3. QED
    BY <1>9, <2>2 DEF Merges
<1>11. /\ Len(f) <= start /\ Len(f) <= Len(ids)
       /\ \A i \in 1..Len(f) : \E k \in 1..Len(ids) : k <= start /\ ids[k] = f[i].id
       /\ \A i, j \in 1..Len(f) : i < j =>
              \E k, l \in 1..Len(ids) : k < l /\ ids[k] = f[i].id /\ ids[l] = f[j].id
       /\ \A i \in 1..Len(f) : f[i].amount \in witnessed[f[i].id]
       /\ omitted => \E k \in 1..Len(ids) : k <= start /\ \A i \in 1..Len(f) : f[i].id # ids[k]
       /\ ~omitted => \A k \in 1..Len(ids) : k <= start => \E i \in 1..Len(f) : f[i].id = ids[k]
  BY <1>3, <1>7 DEF Collected, KeepsOrder, Asked
<1>12. /\ g \in Seq(Substates) /\ Len(g) = Len(f) + Len(m)
       /\ \A i \in 1..Len(f) : g[i] = f[i]
       /\ \A i \in 1..Len(m) : g[Len(f) + i] = m[i]
  BY <1>4, <1>7, <1>10
<1>13. PICK n, nf, nm, nc : n = Len(ids) /\ nf = Len(f) /\ nm = Len(m) /\ nc = Len(c)
  OBVIOUS
<1>14. /\ n \in Nat /\ nf \in Nat /\ nm \in Nat /\ nc \in 1..fetchChunk /\ start \in Nat
       /\ nm <= nc /\ nf <= start /\ nf <= n /\ start + nc <= n
       /\ start + nc = n \/ nc = fetchChunk
       /\ Len(g) = nf + nm
  <2>1. n \in Nat /\ nf \in Nat /\ nm \in Nat /\ start \in Nat
    BY <1>7, <1>10, <1>13
  <2>2. nc \in 1..fetchChunk /\ start + nc <= n /\ (start + nc = n \/ nc = fetchChunk)
    BY <1>8, <1>13
  <2>3. nm <= nc /\ nf <= start /\ nf <= n
    BY <1>10, <1>11, <1>13
  <2>4. QED
    BY <2>1, <2>2, <2>3, <1>12, <1>13
\* The new stretch.
<1>15. \A k \in 1..nc : /\ start + k \in 1..n /\ start + k > start /\ start + k <= start + fetchChunk
                        /\ c[k] = ids[start + k]
  <2>1. \A k \in 1..nc : c[k] = ids[start + k]
    BY <1>8, <1>13
  <2>2. QED
    BY <2>1, <1>14
<1>16. \A k, l \in 1..n : ids[k] = ids[l] => k = l
  <2>1. DOMAIN ids = 1..n
    BY <1>7, <1>13
  <2>2. QED
    BY <2>1, <1>7 DEF IsInjective
\* A substate of g is one of f or one of m; each comes with its place among the ids.
<1>17. ASSUME NEW i \in 1..nf
       PROVE  /\ i \in 1..(nf + nm) /\ g[i] = f[i]
              /\ f[i].amount \in witnessed[f[i].id]
              /\ \E k \in 1..n : k <= start /\ ids[k] = f[i].id
  BY <1>11, <1>12, <1>13, <1>14
<1>18. ASSUME NEW i \in 1..nm
       PROVE  /\ nf + i \in 1..(nf + nm) /\ g[nf + i] = m[i]
              /\ m[i].amount \in witnessed[m[i].id] /\ m[i].id \in served
              /\ \E k \in 1..n : k > start /\ k <= start + fetchChunk /\ ids[k] = m[i].id
  <2>1. nf + i \in 1..(nf + nm) /\ g[nf + i] = m[i]
    BY <1>12, <1>13, <1>14
  <2>2. m[i].id \in Vaults /\ m[i].amount = ledger[m[i].id] /\ m[i].id \in served
    <3>1. i \in 1..Len(m)
      BY <1>13
    <3>2. m[i] \in Substates /\ m[i].amount = ledger[m[i].id] /\ m[i].id \in served
      BY <3>1, <1>10
    <3>3. QED
      BY <3>2 DEF Substates
  <2>3. m[i].amount \in witnessed[m[i].id]
    BY <2>2 DEF History
  <2>4. PICK k \in 1..nc : c[k] = m[i].id
    BY <1>10, <1>13
  <2>5. QED
    BY <2>1, <2>2, <2>3, <2>4, <1>15
<1>19. ASSUME NEW i \in 1..(nf + nm)
       PROVE  i \in 1..nf \/ \E j \in 1..nm : i = nf + j
  <2>1. i \notin 1..nf => i - nf \in 1..nm /\ i = nf + (i - nf)
    BY <1>14
  <2>2. QED
    BY <2>1
<1>20. ASSUME NEW i \in 1..(nf + nm)
       PROVE  /\ \E k \in 1..n : k <= start + fetchChunk /\ ids[k] = g[i].id
              /\ g[i].amount \in witnessed[g[i].id]
  <2>1. CASE i \in 1..nf
    <3>1. PICK k \in 1..n : k <= start /\ ids[k] = f[i].id
      BY <2>1, <1>17
    <3>2. k <= start + fetchChunk
      BY <3>1, <1>14
    <3>3. QED
      BY <2>1, <3>1, <3>2, <1>17
  <2>2. CASE \E j \in 1..nm : i = nf + j
    BY <2>2, <1>18
  <2>3. QED
    BY <2>1, <2>2, <1>19
<1>21. ASSUME NEW i \in 1..(nf + nm), NEW j \in 1..(nf + nm), i < j
       PROVE  \E k, l \in 1..n : k < l /\ ids[k] = g[i].id /\ ids[l] = g[j].id
  <2>1. CASE j \in 1..nf
    <3>1. i \in 1..nf /\ g[i] = f[i] /\ g[j] = f[j]
      <4>1. i \in 1..nf
        BY <2>1, <1>14, <1>21
      <4>2. QED
        BY <4>1, <2>1, <1>17
    <3>2. \E k, l \in 1..Len(ids) : k < l /\ ids[k] = f[i].id /\ ids[l] = f[j].id
      <4>1. i \in 1..Len(f) /\ j \in 1..Len(f)
        BY <2>1, <3>1, <1>13
      <4>2. QED
        BY <4>1, <1>11, <1>21
    <3>3. QED
      BY <3>1, <3>2, <1>13
  <2>2. ASSUME i \in 1..nf, NEW b \in 1..nm, j = nf + b
        PROVE  \E k, l \in 1..n : k < l /\ ids[k] = g[i].id /\ ids[l] = g[j].id
    <3>1. PICK k \in 1..n : k <= start /\ ids[k] = g[i].id
      BY <2>2, <1>17
    <3>2. PICK l \in 1..n : l > start /\ ids[l] = g[j].id
      BY <2>2, <1>18
    <3>3. k < l
      BY <3>1, <3>2, <1>14
    <3>4. QED
      BY <3>1, <3>2, <3>3
  <2>3. ASSUME NEW a \in 1..nm, i = nf + a, NEW b \in 1..nm, j = nf + b
        PROVE  \E k, l \in 1..n : k < l /\ ids[k] = g[i].id /\ ids[l] = g[j].id
    <3>1. a < b /\ g[i] = m[a] /\ g[j] = m[b]
      BY <2>3, <1>14, <1>18, <1>21
    <3>2. PICK k \in 1..nc, l \in 1..nc : k < l /\ c[k] = m[a].id /\ c[l] = m[b].id
      <4>1. a \in 1..Len(m) /\ b \in 1..Len(m)
        BY <2>3, <1>13
      <4>2. \E k, l \in 1..Len(c) : k < l /\ c[k] = m[a].id /\ c[l] = m[b].id
        BY <3>1, <4>1, <1>10
      <4>3. QED
        BY <4>2, <1>13
    <3>3. start + k < start + l
      BY <3>2, <1>14
    <3>4. QED
      BY <3>1, <3>2, <3>3, <1>15
  <2>4. j \in 1..nf \/ i \in 1..nf \/ \E a \in 1..nm : i = nf + a
    BY <1>19
  <2>5. QED
    BY <2>1, <2>2, <2>3, <2>4, <1>19
<1>22. ASSUME omitted \/ served # ToSet(c)
       PROVE  \E k \in 1..n : k <= start + fetchChunk /\ \A i \in 1..(nf + nm) : g[i].id # ids[k]
  <2>1. CASE omitted
    <3>1. PICK k \in 1..n : k <= start /\ \A i \in 1..nf : f[i].id # ids[k]
      BY <2>1, <1>11, <1>13
    <3>2. ASSUME NEW j \in 1..nm PROVE m[j].id # ids[k]
      <4>1. PICK l \in 1..n : l > start /\ ids[l] = m[j].id
        BY <1>18
      <4>2. l # k
        BY <3>1, <4>1, <1>14
      <4>3. QED
        BY <4>1, <4>2, <1>16
    <3>3. ASSUME NEW i \in 1..(nf + nm) PROVE g[i].id # ids[k]
      BY <3>1, <3>2, <1>17, <1>18, <1>19
    <3>4. k <= start + fetchChunk
      BY <3>1, <1>14
    <3>5. QED
      BY <3>3, <3>4
  <2>2. CASE served # ToSet(c)
    <3>1. PICK p \in 1..nc : c[p] \notin served
      BY <2>2, <1>1, <1>5, <1>8, <1>13 DEF ToSet
    <3>2. PICK k \in 1..n : k > start /\ k <= start + fetchChunk /\ ids[k] = c[p]
      BY <1>15
    <3>3. ASSUME NEW j \in 1..nf PROVE f[j].id # ids[k]
      <4>1. PICK l \in 1..n : l <= start /\ ids[l] = f[j].id
        BY <1>17
      <4>2. l # k
        BY <3>2, <4>1, <1>14
      <4>3. QED
        BY <4>1, <4>2, <1>16
    <3>4. ASSUME NEW j \in 1..nm PROVE m[j].id # ids[k]
      BY <3>1, <3>2, <1>18
    <3>5. ASSUME NEW i \in 1..(nf + nm) PROVE g[i].id # ids[k]
      BY <3>3, <3>4, <1>17, <1>18, <1>19
    <3>6. QED
      BY <3>2, <3>5
  <2>3. QED
    BY <2>1, <2>2, <1>22
<1>23. ASSUME ~omitted, served = ToSet(c), NEW k \in 1..n, k <= start + fetchChunk
       PROVE  \E i \in 1..(nf + nm) : g[i].id = ids[k]
  <2>1. CASE k <= start
    <3>1. k \in 1..Len(ids)
      BY <1>13
    <3>2. PICK i \in 1..Len(f) : f[i].id = ids[k]
      BY <2>1, <3>1, <1>11, <1>23
    <3>3. i \in 1..nf
      BY <3>2, <1>13
    <3>4. QED
      BY <3>2, <3>3, <1>17
  <2>2. CASE k > start
    <3>1. PICK p : p = k - start
      OBVIOUS
    <3>2. p \in 1..nc /\ start + p = k
      BY <2>2, <3>1, <1>14, <1>23
    <3>3. c[p] = ids[k] /\ c[p] \in served
      BY <3>2, <1>8, <1>13, <1>15, <1>23 DEF ToSet
    <3>4. PICK i \in 1..nm : m[i].id = ids[k]
      <4>1. p \in 1..Len(c)
        BY <3>2, <1>13
      <4>2. \E i \in 1..Len(m) : m[i].id = c[p]
        BY <3>3, <4>1, <1>10
      <4>3. QED
        BY <3>3, <4>2, <1>13
    <3>5. QED
      BY <3>4, <1>18
  <2>3. QED
    BY <2>1, <2>2, <1>14
<1>24. Collected'
  <2>1. Len(g) = nf + nm /\ nf + nm <= start + fetchChunk /\ nf + nm <= n
    BY <1>14
  <2>2. KeepsOrder'
    <3>1. ASSUME NEW i \in 1..Len(g), NEW j \in 1..Len(g), i < j
          PROVE  \E k, l \in 1..Len(ids) : k < l /\ ids[k] = g[i].id /\ ids[l] = g[j].id
      <4>1. \E k, l \in 1..n : k < l /\ ids[k] = g[i].id /\ ids[l] = g[j].id
        BY <2>1, <3>1, <1>21
      <4>2. QED
        BY <4>1, <1>13
    <3>2. fetched' = g /\ ids' = ids
      BY <1>6
    <3>3. QED
      BY <3>1, <3>2 DEF KeepsOrder
  <2>3. \A i \in 1..Len(g) : (\E k \in Asked' : ids[k] = g[i].id) /\ g[i].amount \in witnessed[g[i].id]
    BY <2>1, <1>6, <1>13, <1>20 DEF Asked
  <2>4. IF omitted' THEN \E k \in Asked' : \A i \in 1..Len(g) : g[i].id # ids[k]
                    ELSE \A k \in Asked' : \E i \in 1..Len(g) : g[i].id = ids[k]
    BY <2>1, <1>6, <1>13, <1>22, <1>23 DEF Asked
  <2>5. QED
    BY <2>1, <2>2, <2>3, <2>4, <1>6, <1>13 DEF Collected
<1>25. g \in VaultReads
  BY <1>7, <1>12, <1>13, <1>14, Reads, FS_CardinalityType
<1>26. QED
  BY <1>6, <1>24, <1>25

\* What is read of a resource after the sums are made, for any amounts that agree with the
\* collected ones.
LEMMA SumsRead ==
    ASSUME ids \in Seq(Vaults), NEW amount,
           \A v \in ToSet(ids) : Amount(v) = amount[v],
           balances' = [r \in {ResourceOf[v] : v \in ToSet(ids)} |->
                           SumFunction([v \in VaultsOf(r, ToSet(ids)) |-> Amount(v)])]
    PROVE  \A r \in Resources :
               AccountBalance(r)' = SumFunction([v \in VaultsOf(r, ToSet(ids)) |-> amount[v]])
<1>. DEFINE S == ToSet(ids)
<1>1. SUFFICES ASSUME NEW r \in Resources
               PROVE  AccountBalance(r)' = SumFunction([v \in VaultsOf(r, S) |-> amount[v]])
  OBVIOUS
<1>2. [v \in VaultsOf(r, S) |-> Amount(v)] = [v \in VaultsOf(r, S) |-> amount[v]]
  BY DEF VaultsOf
<1>. HIDE DEF S
<1>3. CASE r \in {ResourceOf[v] : v \in S}
  <2>1. balances'[r] = SumFunction([v \in VaultsOf(r, S) |-> Amount(v)]) /\ r \in DOMAIN balances'
    BY <1>3 DEF S
  <2>2. QED
    BY <2>1, <1>2 DEF AccountBalance
<1>4. CASE r \notin {ResourceOf[v] : v \in S}
  <2>1. VaultsOf(r, S) = {}
    BY <1>4 DEF VaultsOf
  <2>2. SumFunction([v \in VaultsOf(r, S) |-> amount[v]]) = 0
    BY <2>1, EmptySum
  <2>3. r \notin DOMAIN balances'
    BY <1>4 DEF S
  <2>4. QED
    BY <2>2, <2>3 DEF AccountBalance
<1>5. QED
  BY <1>3, <1>4

LEMMA SumExact ==
    ASSUME TypeOK, Collected, Progress, History, Sum
    PROVE  Exact'
<1>1. /\ ids' = ids /\ fetched' = fetched /\ omitted' = omitted /\ ledger' = ledger
      /\ vaults' = vaults /\ witnessed' = witnessed /\ changes' = changes /\ malformed' = malformed
  BY DEF Sum, chain
<1>2. SUFFICES ASSUME ids # <<>>, ~malformed
               PROVE  IF omitted THEN outcome' = "RESOLUTION"
                      ELSE /\ outcome' = "ok"
                           /\ \E seen \in Sightings : SumsTo(seen, ToSet(ids))'
                           /\ changes = 0 => SumsTo(ledger, ToSet(vaults))'
  BY <1>1 DEF Exact, Answered, Sightings
<1>3. fetched # Nil /\ Len(ids) <= start
  BY <1>2 DEF Sum, Progress
<1>4. /\ ids \in Seq(Vaults) /\ ledger \in [Vaults -> 0..MaxAmount]
      /\ witnessed \in [Vaults -> SUBSET (0..MaxAmount)]
  BY VaultList DEF TypeOK
<1>5. ToSet(ids) = {ids[k] : k \in Asked} /\ Asked = 1..Len(ids)
  <2>1. Asked = 1..Len(ids)
    BY <1>3, <1>4 DEF Asked, TypeOK
  <2>2. DOMAIN ids = 1..Len(ids)
    BY <1>4
  <2>3. QED
    BY <2>1, <2>2 DEF ToSet
<1>6. CASE omitted
  <2>1. PICK k \in Asked : \A i \in 1..Len(fetched) : fetched[i].id # ids[k]
    BY <1>3, <1>6 DEF Collected
  <2>2. ~ (ToSet(ids) \subseteq Supplied)
    BY <2>1, <1>5 DEF Supplied
  <2>3. QED
    <3>1. Refusals = {"RESOLUTION"}
      BY <2>2, <1>2 DEF Refusals
    <3>2. QED
      BY <3>1, <1>3, <1>6 DEF Sum, Return
<1>7. CASE ~omitted
  <2>1. ASSUME NEW v \in ToSet(ids)
        PROVE  v \in Vaults /\ v \in Supplied /\ Amount(v) \in witnessed[v]
    <3>1. PICK k \in Asked : ids[k] = v
      BY <1>5
    <3>2. v \in Vaults
      BY <3>1, <1>4, <1>5
    <3>3. \E i \in 1..Len(fetched) : fetched[i].id = v
      BY <3>1, <1>3, <1>7 DEF Collected
    <3>4. PICK i : i = CHOOSE j \in 1..Len(fetched) : fetched[j].id = v
      OBVIOUS
    <3>5. i \in 1..Len(fetched) /\ fetched[i].id = v
      BY <3>3, <3>4
    <3>6. fetched[i].amount \in witnessed[v]
      BY <3>5, <1>3 DEF Collected
    <3>7. QED
      BY <3>2, <3>3, <3>4, <3>6 DEF Supplied, Amount
  <2>2. /\ outcome' = "ok"
        /\ balances' = [r \in {ResourceOf[v] : v \in ToSet(ids)} |->
                           SumFunction([v \in VaultsOf(r, ToSet(ids)) |-> Amount(v)])]
    <3>1. Refusals = {}
      BY <2>1, <1>2 DEF Refusals
    <3>2. QED
      BY <3>1, <1>3 DEF Sum, Return
  <2>3. \E seen \in Sightings : SumsTo(seen, ToSet(ids))'
    <3>1. PICK seen : seen = [v \in Vaults |-> IF v \in ToSet(ids) THEN Amount(v) ELSE ledger[v]]
      OBVIOUS
    <3>2. \A v \in Vaults : seen[v] \in witnessed[v]
      BY <3>1, <2>1 DEF History
    <3>3. seen \in Sightings
      BY <3>1, <3>2, <1>4 DEF Sightings
    <3>4. \A v \in ToSet(ids) : Amount(v) = seen[v]
      BY <3>1, <2>1
    <3>5. \A r \in Resources :
              AccountBalance(r)' = SumFunction([v \in VaultsOf(r, ToSet(ids)) |-> seen[v]])
      BY <3>4, <2>2, <1>4, SumsRead
    <3>6. SumsTo(seen, ToSet(ids))'
      BY <3>5, <1>1 DEF SumsTo, VaultsOf
    <3>7. QED
      BY <3>3, <3>6
  <2>4. ASSUME changes = 0 PROVE SumsTo(ledger, ToSet(vaults))'
    <3>1. \A v \in ToSet(ids) : Amount(v) = ledger[v]
      BY <2>1, <2>4 DEF History
    <3>2. \A r \in Resources :
              AccountBalance(r)' = SumFunction([v \in VaultsOf(r, ToSet(ids)) |-> ledger[v]])
      BY <3>1, <2>2, <1>4, SumsRead
    <3>3. vaults = ids
      BY <2>4, <1>2 DEF History
    <3>4. QED
      BY <3>2, <3>3, <1>1 DEF SumsTo, VaultsOf
  <2>5. QED
    BY <2>2, <2>3, <2>4, <1>7
<1>8. QED
  BY <1>6, <1>7

-----------------------------------------------------------------------------
(* Every step keeps it.                                                     *)

LEMMA InitInv == Init => BalancesInv
<1>. SUFFICES ASSUME Init PROVE BalancesInv
  OBVIOUS
<1>1. <<>> \in VaultLists /\ Cardinality(Vaults) \in Nat
  <2>1. <<>> \in Seq(Vaults) /\ IsInjective(<<>>) /\ Len(<<>>) = 0
    BY DEF IsInjective
  <2>2. QED
    BY <2>1, InjectiveFits, FS_CardinalityType
<1>2. TypeOK
  <2>1. witnessed \in [Vaults -> SUBSET (0..MaxAmount)]
    BY DEF Init
  <2>2. DOMAIN balances = {}
    BY DEF Init
  <2>3. start \in 0..Cardinality(Vaults) + fetchChunk - 1 /\ changes \in 0..MaxChanges
    BY <1>1 DEF Init
  <2>4. QED
    BY <1>1, <2>1, <2>2, <2>3 DEF Init, TypeOK, Outcomes
<1>3. QED
  BY <1>2 DEF Init, BalancesInv, Collected, Progress, History, Exact, Answered

\* The steps that leave what is collected alone.
LEMMA CollectedStays ==
    ASSUME Collected, UNCHANGED <<ids, start, fetched, omitted>>, TypeOK,
           \A v \in Vaults : witnessed[v] \subseteq witnessed'[v]
    PROVE  Collected'
<1>1. CASE fetched = Nil
  BY <1>1 DEF Collected
<1>2. CASE fetched # Nil
  <2>1. \A i \in 1..Len(fetched) : fetched[i] \in Substates
    BY <1>2, Reads DEF TypeOK
  <2>2. \A i \in 1..Len(fetched) : fetched[i].amount \in witnessed'[fetched[i].id]
    BY <1>2, <2>1 DEF Collected, Substates
  <2>3. KeepsOrder' /\ Asked' = Asked
    BY <1>2 DEF Collected, KeepsOrder, Asked
  <2>4. QED
    BY <1>2, <2>2, <2>3 DEF Collected
<1>3. QED
  BY <1>1, <1>2

LEMMA ReadAccountKeeps == ASSUME BalancesInv, ReadAccount PROVE BalancesInv'
<1>. USE DEF BalancesInv, ReadAccount, chain
<1>1. TypeOK'
  BY DEF TypeOK
<1>2. Collected' /\ Progress' /\ History'
  BY DEF Progress, History, Collected
<1>3. QED
  BY <1>1, <1>2 DEF Exact, Answered

LEMMA AccountUnreadKeeps == ASSUME BalancesInv, AccountUnread PROVE BalancesInv'
<1>. USE DEF BalancesInv, AccountUnread, Return, chain
<1>1. TypeOK'
  BY DEF TypeOK, Outcomes
<1>2. Collected' /\ Progress' /\ History' /\ ids' = <<>>
  BY DEF Progress, History, Collected
<1>3. QED
  BY <1>1, <1>2 DEF Exact

LEMMA WantKeeps == ASSUME BalancesInv, Want PROVE BalancesInv'
<1>. USE DEF BalancesInv, Want, Return, chain
<1>1. <<>> \in VaultReads /\ Len(<<>>) = 0 /\ <<>> # Nil
  <2>1. PICK none : none = <<>>
    OBVIOUS
  <2>2. none \in Seq(Substates) /\ Len(none) = 0 /\ Len(none) <= Cardinality(Vaults)
    BY <2>1, FS_CardinalityType
  <2>3. none \in VaultReads /\ none # Nil
    BY <2>2, Reads
  <2>4. QED
    BY <2>1, <2>2, <2>3
<1>2. TypeOK'
  BY <1>1 DEF TypeOK, Outcomes, Unreadable
<1>3. Collected'
  <2>1. CASE fetched' = fetched
    BY <2>1 DEF Progress, Collected
  <2>2. CASE fetched' = <<>>
    BY <1>1, <2>2 DEF Progress, Collected, KeepsOrder, Asked
  <2>3. QED
    BY <2>1, <2>2
<1>4. Progress' /\ History'
  <2>1. ids \in Seq(Vaults)
    BY VaultList DEF TypeOK
  <2>2. QED
    BY <1>1, <2>1 DEF Progress, History
<1>5. QED
  BY <1>2, <1>3, <1>4 DEF Exact, Answered

LEMMA FetchChunkKeeps == ASSUME BalancesInv, FetchChunk PROVE BalancesInv'
<1>1. Collected' /\ fetched' \in VaultReads /\ fetched' # Nil
  BY ChunkCollected, Reads DEF BalancesInv
<1>2. /\ pc = "vaults" /\ start < Len(ids) /\ ids \in Seq(Vaults)
      /\ start \in Nat /\ Len(ids) <= Cardinality(Vaults) /\ Cardinality(Vaults) \in Nat
  BY VaultList, FS_CardinalityType DEF BalancesInv, FetchChunk, Progress, TypeOK
<1>3. start' = start + fetchChunk /\ UNCHANGED <<chain, ids, outcome, balances>>
      /\ pc' = (IF start + fetchChunk < Len(ids) THEN "vaults" ELSE "sum")
      /\ omitted' \in BOOLEAN /\ malformed' \in BOOLEAN
  BY DEF FetchChunk, MoreChunks, BalancesInv, TypeOK
<1>4. start' \in 0..Cardinality(Vaults) + fetchChunk - 1
  BY <1>2, <1>3
<1>5. TypeOK'
  BY <1>1, <1>3, <1>4 DEF TypeOK, BalancesInv, chain
<1>6. Progress'
  BY <1>1, <1>2, <1>3 DEF Progress
<1>7. History'
  BY <1>3, <1>2 DEF History, BalancesInv, chain
<1>8. Exact'
  BY <1>3 DEF Exact, Answered
<1>9. QED
  BY <1>1, <1>5, <1>6, <1>7, <1>8 DEF BalancesInv

LEMMA FetchFailsKeeps == ASSUME BalancesInv, FetchFails PROVE BalancesInv'
<1>. USE DEF BalancesInv, FetchFails, Return, chain
<1>1. TypeOK'
  BY DEF TypeOK, Outcomes
<1>2. Collected'
  BY CollectedStays
<1>3. QED
  BY <1>1, <1>2 DEF Progress, History, Exact, Answered

LEMMA SumKeeps == ASSUME BalancesInv, Sum PROVE BalancesInv'
<1>. USE DEF BalancesInv, Sum, Return, chain
<1>1. ids \in Seq(Vaults)
  BY VaultList DEF TypeOK
<1>2. {ResourceOf[v] : v \in ToSet(ids)} \subseteq Resources
  BY <1>1 DEF ToSet
<1>3. DOMAIN balances' \subseteq Resources
  <2>1. balances' = balances \/ DOMAIN balances' = {ResourceOf[v] : v \in ToSet(ids)}
    OBVIOUS
  <2>2. QED
    BY <1>2, <2>1 DEF TypeOK
<1>4. TypeOK'
  BY <1>3 DEF TypeOK, Outcomes, Refusals, Unreadable
<1>5. Collected'
  BY CollectedStays
<1>6. Progress' /\ History'
  BY DEF Progress, History
<1>7. QED
  BY <1>4, <1>5, <1>6, SumExact

LEMMA PayKeeps == ASSUME BalancesInv, Pay PROVE BalancesInv'
<1>. USE DEF BalancesInv, Pay
<1>1. PICK v \in Vaults, amount \in 0..MaxAmount :
          /\ ledger' = [ledger EXCEPT ![v] = amount]
          /\ witnessed' = [witnessed EXCEPT ![v] = @ \cup {amount}]
  OBVIOUS
<1>2. /\ ledger' \in [Vaults -> 0..MaxAmount] /\ witnessed' \in [Vaults -> SUBSET (0..MaxAmount)]
      /\ \A u \in Vaults : witnessed[u] \subseteq witnessed'[u] /\ ledger'[u] \in witnessed'[u]
  BY <1>1 DEF TypeOK, History
<1>3. changes' \in 0..MaxChanges /\ changes' # 0
  BY DEF TypeOK
<1>4. TypeOK'
  BY <1>2, <1>3 DEF TypeOK
<1>5. Collected'
  BY <1>2, CollectedStays
<1>6. QED
  BY <1>2, <1>3, <1>4, <1>5 DEF Progress, History, Exact, Answered

LEMMA GainVaultKeeps == ASSUME BalancesInv, GainVault PROVE BalancesInv'
<1>. USE DEF BalancesInv, GainVault
<1>1. PICK v \in Vaults \ ToSet(vaults) : vaults' = Append(vaults, v)
  OBVIOUS
<1>2. PICK s : s = vaults
  OBVIOUS
<1>3. s \in Seq(Vaults) /\ IsInjective(s) /\ \A i \in 1..Len(s) : s[i] # v
  BY <1>1, <1>2, VaultList DEF TypeOK, ToSet
<1>4. PICK t : t = Append(s, v)
  OBVIOUS
<1>5. /\ t \in Seq(Vaults) /\ DOMAIN t = 1..Len(s) + 1 /\ t[Len(s) + 1] = v /\ DOMAIN s = 1..Len(s)
      /\ \A i \in 1..Len(s) : t[i] = s[i]
  BY <1>3, <1>4
<1>6. IsInjective(t)
  <2>1. ASSUME NEW i \in 1..Len(s) + 1, NEW j \in 1..Len(s) + 1, t[i] = t[j] PROVE i = j
    <3>1. (i \in 1..Len(s) \/ i = Len(s) + 1) /\ (j \in 1..Len(s) \/ j = Len(s) + 1)
      BY <1>3
    <3>2. QED
      BY <2>1, <3>1, <1>3, <1>5 DEF IsInjective
  <2>2. QED
    BY <2>1, <1>5 DEF IsInjective
<1>7. vaults' \in VaultLists
  BY <1>1, <1>2, <1>4, <1>5, <1>6, InjectiveFits
<1>8. changes' \in 0..MaxChanges /\ changes' # 0
  BY DEF TypeOK
<1>9. TypeOK'
  BY <1>7, <1>8 DEF TypeOK
<1>10. Collected'
  BY CollectedStays
<1>11. QED
  BY <1>8, <1>9, <1>10 DEF Progress, History, Exact, Answered

LEMMA NextInv == ASSUME BalancesInv, [Next]_vars PROVE BalancesInv'
<1>1. CASE UNCHANGED vars
  <2>1. UNCHANGED <<vaults, ledger, changes, witnessed, pc, ids, start, fetched, omitted, malformed,
                   outcome, balances>>
    BY <1>1 DEF vars, chain
  <2>2. TypeOK' /\ Progress' /\ History'
    BY <2>1 DEF BalancesInv, TypeOK, Progress, History
  <2>3. Collected'
    BY <2>1, CollectedStays DEF BalancesInv
  <2>4. Exact'
    BY <2>1 DEF BalancesInv, Exact, Answered, Sightings, SumsTo, AccountBalance, VaultsOf
  <2>5. QED
    BY <2>2, <2>3, <2>4 DEF BalancesInv
<1>2. CASE Terminated
  BY <1>1, <1>2 DEF Terminated
<1>3. CASE Call
  BY <1>3, ReadAccountKeeps, AccountUnreadKeeps, WantKeeps, FetchChunkKeeps, FetchFailsKeeps, SumKeeps
     DEF Call
<1>4. QED
  BY <1>1, <1>2, <1>3, PayKeeps, GainVaultKeeps DEF Next

LEMMA Invariance == Spec => []BalancesInv
<1>1. BalancesInv /\ [Next]_vars => BalancesInv'
  BY NextInv
<1>2. QED
  BY InitInv, <1>1, PTL DEF Spec

\* What the call keeps is well formed: no chunk begins behind the last id by more than one stride.
THEOREM TypeCorrect == Spec => []TypeOK
<1>1. BalancesInv => TypeOK
  BY DEF BalancesInv
<1>2. QED
  BY Invariance, <1>1, PTL

\* A balance read is complete or refused, and every amount it counts was held during the call.
THEOREM ReadsExact == Spec => []Exact
<1>1. BalancesInv => Exact
  BY DEF BalancesInv
<1>2. QED
  BY Invariance, <1>1, PTL

\* What FetchSubstates collects follows the order of the ids over all chunks, each id once.
THEOREM ReadsInOrder == Spec => []KeepsOrder
<1>1. BalancesInv => KeepsOrder
  BY DEF BalancesInv, Collected, KeepsOrder
<1>2. QED
  BY Invariance, <1>1, PTL

\* What is left of a balance read: the ids not asked for yet, and the statements around the loop.
ReadLeft ==
    CASE pc = "account" -> Cardinality(Vaults) + 3
      [] pc = "wants"   -> Len(ids) + 2
      [] pc = "vaults"  -> Len(ids) - start + 1
      [] pc = "sum"     -> 1
      [] pc = "done"    -> 0

LEMMA ReadFacts ==
    ASSUME BalancesInv
    PROVE  /\ ids \in Seq(Vaults) /\ Len(ids) \in 0..Cardinality(Vaults)
           /\ vaults \in Seq(Vaults) /\ Len(vaults) \in 0..Cardinality(Vaults)
           /\ start \in Nat /\ Cardinality(Vaults) \in Nat
           /\ pc = "vaults" => start < Len(ids)
           /\ ReadLeft \in 0..Cardinality(Vaults) + 3
<1>1. Cardinality(Vaults) \in Nat
  BY FS_CardinalityType
<1>2. /\ ids \in Seq(Vaults) /\ Len(ids) \in 0..Cardinality(Vaults)
      /\ vaults \in Seq(Vaults) /\ Len(vaults) \in 0..Cardinality(Vaults)
  BY <1>1, VaultList DEF BalancesInv, TypeOK
<1>3. start \in Nat /\ (pc = "vaults" => start < Len(ids))
  BY <1>1 DEF BalancesInv, TypeOK, Progress
<1>4. ReadLeft \in {Cardinality(Vaults) + 3, Len(ids) + 2, 1, 0} \/
      (pc = "vaults" /\ ReadLeft = Len(ids) - start + 1)
  BY DEF BalancesInv, TypeOK, ReadLeft
<1>5. QED
  BY <1>1, <1>2, <1>3, <1>4

\* Every statement of a balance read brings its end nearer and no change of the ledger puts it off: what
\* the account gains, or the indexer leaves out, while it is read adds no chunk to the loop.
THEOREM ReadEnds ==
    Spec => /\ [](ReadLeft \in 0..Cardinality(Vaults) + 3)
            /\ [][IF Call THEN ReadLeft' < ReadLeft ELSE ReadLeft' = ReadLeft]_vars
<1>1. ASSUME BalancesInv, Call PROVE ReadLeft' < ReadLeft
  <2>1. /\ Len(ids) \in Nat /\ start \in Nat /\ Cardinality(Vaults) \in Nat
        /\ Len(vaults) <= Cardinality(Vaults) /\ Len(vaults) \in Nat
        /\ pc = "vaults" => start < Len(ids)
    BY <1>1, ReadFacts
  <2>2. CASE ReadAccount
    <3>1. ReadLeft = Cardinality(Vaults) + 3 /\ ReadLeft' = Len(vaults) + 2
      BY <2>2 DEF ReadAccount, ReadLeft
    <3>2. QED
      BY <2>1, <3>1
  <2>3. CASE AccountUnread
    BY <2>1, <2>3 DEF AccountUnread, Return, ReadLeft
  <2>4. CASE Want
    <3>1. /\ pc = "wants" /\ ids' = ids /\ start' = start
          /\ pc' = "sum" \/ pc' = "vaults" \/ pc' = "done"
      BY <2>4 DEF Want, Return
    <3>2. ReadLeft = Len(ids) + 2 /\ ReadLeft' \in {Len(ids) - start + 1, 1, 0}
      BY <3>1 DEF ReadLeft
    <3>3. QED
      BY <2>1, <3>2
  <2>5. CASE FetchChunk
    <3>1. /\ pc = "vaults" /\ ids' = ids /\ start' = start + fetchChunk
          /\ pc' = (IF start + fetchChunk < Len(ids) THEN "vaults" ELSE "sum")
      BY <2>5 DEF FetchChunk, MoreChunks
    <3>2. ReadLeft = Len(ids) - start + 1
      BY <3>1 DEF ReadLeft
    <3>3. ReadLeft' = (IF start + fetchChunk < Len(ids) THEN Len(ids) - (start + fetchChunk) + 1 ELSE 1)
      BY <3>1 DEF ReadLeft
    <3>4. QED
      BY <2>1, <3>1, <3>2, <3>3
  <2>6. CASE FetchFails
    <3>1. pc = "vaults" /\ ReadLeft = Len(ids) - start + 1 /\ ReadLeft' = 0
      BY <2>6 DEF FetchFails, Return, ReadLeft
    <3>2. QED
      BY <2>1, <3>1
  <2>7. CASE Sum
    BY <2>7 DEF Sum, Return, ReadLeft
  <2>8. QED
    BY <1>1, <2>2, <2>3, <2>4, <2>5, <2>6, <2>7 DEF Call
<1>2. ASSUME [Next]_vars, ~Call PROVE UNCHANGED <<pc, ids, start>>
  BY <1>2 DEF Next, Pay, GainVault, Terminated, vars
<1>3. BalancesInv /\ [Next]_vars => [IF Call THEN ReadLeft' < ReadLeft ELSE ReadLeft' = ReadLeft]_vars
  BY <1>1, <1>2 DEF ReadLeft
<1>4. BalancesInv => ReadLeft \in 0..Cardinality(Vaults) + 3
  BY ReadFacts
<1>5. QED
  BY Invariance, <1>3, <1>4, PTL DEF Spec

=============================================================================
