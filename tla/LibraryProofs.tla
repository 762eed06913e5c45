---------------------------- MODULE LibraryProofs ----------------------------
(***************************************************************************)
(* Proofs about Library and its two parts, for every 7z.so, every value of *)
(* FUSE3_P7ZIP_FORMATS and every pair of word lists: what becomes of the   *)
(* list of formats, which one an archive is opened with, and what an item  *)
(* without a name is called.                                               *)
(***************************************************************************)
EXTENDS Library, SequenceTheorems, NumbersProofs

-----------------------------------------------------------------------------
(***************************************************************************)
(* Sequences without repetitions, and in an order: R is a set of pairs.    *)
(***************************************************************************)
Ascends(s, R) == \A i, j \in 1..Len(s) : i < j => <<s[i], s[j]>> \in R

\* The elements of a list are those at its places.
LEMMA ElementsOf ==
  ASSUME NEW T, NEW s \in Seq(T)
  PROVE  /\ Len(s) \in Nat /\ DOMAIN s = 1..Len(s)
         /\ \A i \in 1..Len(s) : s[i] \in T /\ s[i] \in ToSet(s)
         /\ \A x \in ToSet(s) : x \in T /\ \E i \in 1..Len(s) : x = s[i]
         /\ ToSet(s) \subseteq T
<1>1. Len(s) \in Nat /\ DOMAIN s = 1..Len(s) /\ \A i \in 1..Len(s) : s[i] \in T
  BY LenProperties, ElementOfSeq
<1> QED
  BY <1>1 DEF ToSet

\* One list behind another.
LEMMA Joined ==
  ASSUME NEW T, NEW s \in Seq(T), NEW t \in Seq(T)
  PROVE  /\ s \o t \in Seq(T)
         /\ ToSet(s \o t) = ToSet(s) \cup ToSet(t)
         /\ \A R : /\ Ascends(s, R) /\ Ascends(t, R)
                   /\ \A x \in ToSet(s), y \in ToSet(t) : <<x, y>> \in R
                   => Ascends(s \o t, R)
<1> DEFINE u == s \o t
<1>1. /\ u \in Seq(T) /\ Len(u) = Len(s) + Len(t)
      /\ \A i \in 1..(Len(s) + Len(t)) : u[i] = IF i <= Len(s) THEN s[i] ELSE t[i - Len(s)]
  BY ConcatProperties
<1>2. /\ Len(s) \in Nat /\ Len(t) \in Nat
      /\ \A i \in 1..Len(s) : s[i] \in ToSet(s)
      /\ \A i \in 1..Len(t) : t[i] \in ToSet(t)
      /\ \A x \in ToSet(s) : \E i \in 1..Len(s) : x = s[i]
      /\ \A x \in ToSet(t) : \E i \in 1..Len(t) : x = t[i]
  BY ElementsOf
<1> HIDE DEF u
<1>3. \A i \in 1..Len(u) :
        \/ i \in 1..Len(s) /\ u[i] = s[i]
        \/ i > Len(s) /\ i - Len(s) \in 1..Len(t) /\ u[i] = t[i - Len(s)]
  BY <1>1, <1>2
<1>4. ToSet(u) = ToSet(s) \cup ToSet(t)
  <2>1. ASSUME NEW x \in ToSet(u) PROVE x \in ToSet(s) \cup ToSet(t)
    <3>1. PICK i \in 1..Len(u) : x = u[i]
      BY <1>1, ElementsOf
    <3> QED
      BY <1>2, <1>3, <3>1
  <2>2. ASSUME NEW x \in ToSet(s) PROVE x \in ToSet(u)
    <3>1. PICK i \in 1..Len(s) : x = s[i]
      BY <1>2
    <3>2. i \in 1..Len(u) /\ u[i] = s[i]
      BY <1>1, <1>2
    <3> QED
      BY <1>1, <3>1, <3>2, ElementsOf
  <2>3. ASSUME NEW x \in ToSet(t) PROVE x \in ToSet(u)
    <3>1. PICK i \in 1..Len(t) : x = t[i]
      BY <1>2
    <3>2. i + Len(s) \in 1..Len(u) /\ u[i + Len(s)] = t[i]
      BY <1>1, <1>2
    <3> QED
      BY <1>1, <3>1, <3>2, ElementsOf
  <2> QED
    BY <2>1, <2>2, <2>3
<1>5. ASSUME NEW R, Ascends(s, R), Ascends(t, R),
             \A x \in ToSet(s), y \in ToSet(t) : <<x, y>> \in R,
             NEW i \in 1..Len(u), NEW j \in 1..Len(u), i < j
      PROVE  <<u[i], u[j]>> \in R
  <2>1. CASE j <= Len(s)
    <3>1. i \in 1..Len(s) /\ j \in 1..Len(s) /\ u[i] = s[i] /\ u[j] = s[j]
      BY <1>1, <1>2, <1>3, <1>5, <2>1
    <3> QED
      BY <1>5, <3>1 DEF Ascends
  <2>2. CASE i > Len(s)
    <3>1. /\ i - Len(s) \in 1..Len(t) /\ j - Len(s) \in 1..Len(t)
          /\ u[i] = t[i - Len(s)] /\ u[j] = t[j - Len(s)]
      BY <1>1, <1>2, <1>3, <1>5, <2>2
    <3>2. i - Len(s) < j - Len(s)
      BY <1>1, <1>2, <1>5
    <3> QED
      BY <1>5, <3>1, <3>2 DEF Ascends
  <2>3. CASE i <= Len(s) /\ j > Len(s)
    <3>1. u[i] \in ToSet(s)
      <4>1. i \in 1..Len(s) /\ u[i] = s[i]
        BY <1>2, <1>3, <2>3
      <4> QED
        BY <1>2, <4>1
    <3>2. u[j] \in ToSet(t)
      <4>1. j - Len(s) \in 1..Len(t) /\ u[j] = t[j - Len(s)]
        BY <1>2, <1>3, <2>3
      <4> QED
        BY <1>2, <4>1
    <3> QED
      BY <1>5, <3>1, <3>2
  <2> QED
    BY <1>1, <1>2, <2>1, <2>2, <2>3
<1>6. \A R : /\ Ascends(s, R) /\ Ascends(t, R)
             /\ \A x \in ToSet(s), y \in ToSet(t) : <<x, y>> \in R
             => Ascends(u, R)
  BY <1>5 DEF Ascends
<1> QED
  BY <1>1, <1>4, <1>6 DEF u

\* A list of one element.
LEMMA One ==
  ASSUME NEW T, NEW x \in T
  PROVE  <<x>> \in Seq(T) /\ ToSet(<<x>>) = {x} /\ \A R : Ascends(<<x>>, R)
<1>1. <<x>> \in Seq(T) /\ Len(<<x>>) = 1 /\ <<x>>[1] = x
  OBVIOUS
<1>2. \A i \in 1..1 : i = 1
  OBVIOUS
<1>3. ToSet(<<x>>) = {x}
  BY <1>1 DEF ToSet
<1> QED
  BY <1>1, <1>2, <1>3 DEF Ascends

\* One element behind a list.
LEMMA Appended ==
  ASSUME NEW T, NEW s \in Seq(T), NEW x \in T
  PROVE  /\ Append(s, x) \in Seq(T)
         /\ ToSet(Append(s, x)) = ToSet(s) \cup {x}
         /\ \A R : Ascends(s, R) /\ (\A y \in ToSet(s) : <<y, x>> \in R)
                   => Ascends(Append(s, x), R)
<1>1. Append(s, x) = s \o <<x>>
  BY AppendIsConcat
<1>2. <<x>> \in Seq(T) /\ ToSet(<<x>>) = {x} /\ \A R : Ascends(<<x>>, R)
  BY One
<1> DEFINE t == <<x>>
<1> HIDE DEF t
<1>3. /\ s \o t \in Seq(T)
      /\ ToSet(s \o t) = ToSet(s) \cup ToSet(t)
      /\ \A R : /\ Ascends(s, R) /\ Ascends(t, R)
                /\ \A y \in ToSet(s), z \in ToSet(t) : <<y, z>> \in R
                => Ascends(s \o t, R)
  BY <1>2, Joined DEF t
<1> QED
  BY <1>1, <1>2, <1>3 DEF t

\* A list with one element taken out.
LEMMA Erased ==
  ASSUME NEW T, NEW s \in Seq(T), NEW i \in 1..Len(s), NEW R, Ascends(s, R),
         \A x \in T : <<x, x>> \notin R
  PROVE  /\ Erase(s, i) \in Seq(T)
         /\ ToSet(Erase(s, i)) = ToSet(s) \ {s[i]}
         /\ Ascends(Erase(s, i), R)
<1> DEFINE a == SubSeq(s, 1, i - 1)
           b == SubSeq(s, i + 1, Len(s))
<1>1. /\ Len(s) \in Nat /\ \A k \in 1..Len(s) : s[k] \in T /\ s[k] \in ToSet(s)
      /\ \A x \in ToSet(s) : \E k \in 1..Len(s) : x = s[k]
  BY ElementsOf
<1>2. /\ a \in Seq(T) /\ Len(a) = i - 1 /\ \A k \in 1..(i - 1) : a[k] = s[k]
  <2>1. \A k \in 1..(i - 1) : s[k] \in T
    BY <1>1
  <2>2. /\ a \in Seq(T) /\ Len(a) = (IF 1 <= i - 1 THEN (i - 1) - 1 + 1 ELSE 0)
        /\ \A k \in 1..((i - 1) - 1 + 1) : a[k] = s[1 + k - 1]
    BY <1>1, <2>1, SubSeqProperties
  <2> QED
    BY <1>1, <2>2
<1>3. /\ b \in Seq(T) /\ Len(b) = Len(s) - i
      /\ \A k \in 1..(Len(s) - i) : b[k] = s[i + k]
  <2>1. \A k \in (i + 1)..Len(s) : s[k] \in T
    BY <1>1
  <2>2. /\ b \in Seq(T) /\ Len(b) = (IF i + 1 <= Len(s) THEN Len(s) - (i + 1) + 1 ELSE 0)
        /\ \A k \in 1..(Len(s) - (i + 1) + 1) : b[k] = s[(i + 1) + k - 1]
    BY <1>1, <2>1, SubSeqProperties
  <2> QED
    BY <1>1, <2>2
<1>4. Erase(s, i) = a \o b
  BY DEF Erase, RemoveAt
<1> HIDE DEF a, b
<1>5. \A k, l \in 1..Len(s) : k < l => <<s[k], s[l]>> \in R
  BY DEF Ascends
<1>6. ToSet(a) = {s[k] : k \in 1..(i - 1)}
  BY <1>2, LenProperties DEF ToSet
<1>7. ToSet(b) = {s[k] : k \in (i + 1)..Len(s)}
  <2>1. ToSet(b) = {b[k] : k \in 1..(Len(s) - i)}
    BY <1>3, LenProperties DEF ToSet
  <2>2. ASSUME NEW k \in (i + 1)..Len(s) PROVE s[k] \in ToSet(b)
    <3>1. k - i \in 1..(Len(s) - i) /\ i + (k - i) = k
      BY <1>1
    <3>2. b[k - i] = s[k]
      BY <1>3, <3>1
    <3> QED
      BY <2>1, <3>1, <3>2
  <2>3. \A k \in 1..(Len(s) - i) : i + k \in (i + 1)..Len(s) /\ b[k] = s[i + k]
    <3>1. i \in Nat /\ Len(s) \in Nat
      BY <1>1
    <3>2. \A k \in 1..(Len(s) - i) : i + k \in (i + 1)..Len(s)
      BY <3>1
    <3> QED
      BY <1>3, <3>2
  <2>4. ToSet(b) \subseteq {s[k] : k \in (i + 1)..Len(s)}
    BY <2>1, <2>3
  <2>5. {s[k] : k \in (i + 1)..Len(s)} \subseteq ToSet(b)
    BY <2>2
  <2> QED
    BY <2>4, <2>5
<1>8. ToSet(a) \cup ToSet(b) = ToSet(s) \ {s[i]}
  <2>1. ASSUME NEW k \in 1..Len(s), k # i PROVE s[k] # s[i]
    <3>1. k < i \/ i < k
      BY <1>1, <2>1
    <3>2. <<s[k], s[i]>> \in R \/ <<s[i], s[k]>> \in R
      BY <1>5, <3>1
    <3> QED
      BY <1>1, <3>2
  <2>2. \A k \in 1..Len(s) : k \in 1..(i - 1) \/ k = i \/ k \in (i + 1)..Len(s)
    BY <1>1
  <2>3. \A k \in 1..(i - 1) : k \in 1..Len(s) /\ k # i
    BY <1>1
  <2>4. \A k \in (i + 1)..Len(s) : k \in 1..Len(s) /\ k # i
    BY <1>1
  <2>5. ASSUME NEW x \in ToSet(s), x # s[i] PROVE x \in ToSet(a) \cup ToSet(b)
    <3>1. PICK k \in 1..Len(s) : x = s[k]
      BY <1>1
    <3> QED
      BY <1>6, <1>7, <2>2, <2>5, <3>1
  <2>6. ASSUME NEW x \in ToSet(a) PROVE x \in ToSet(s) \ {s[i]}
    <3>1. PICK k \in 1..(i - 1) : x = s[k]
      BY <1>6
    <3> QED
      BY <1>1, <2>1, <2>3, <3>1
  <2>7. ASSUME NEW x \in ToSet(b) PROVE x \in ToSet(s) \ {s[i]}
    <3>1. PICK k \in (i + 1)..Len(s) : x = s[k]
      BY <1>7
    <3> QED
      BY <1>1, <2>1, <2>4, <3>1
  <2> QED
    BY <2>5, <2>6, <2>7
<1>9. Ascends(a, R)
  <2>1. \A k, l \in 1..(i - 1) : k \in 1..Len(s) /\ l \in 1..Len(s)
    BY <1>1
  <2> QED
    BY <1>2, <1>5, <2>1 DEF Ascends
<1>10. Ascends(b, R)
  <2> SUFFICES ASSUME NEW k \in 1..(Len(s) - i), NEW l \in 1..(Len(s) - i), k < l
               PROVE  <<b[k], b[l]>> \in R
    BY <1>3 DEF Ascends
  <2>1. i + k \in 1..Len(s) /\ i + l \in 1..Len(s) /\ i + k < i + l
    BY <1>1
  <2> QED
    BY <1>3, <1>5, <2>1
<1>11. \A x \in ToSet(a), y \in ToSet(b) : <<x, y>> \in R
  <2>1. \A k \in 1..(i - 1), l \in (i + 1)..Len(s) :
          k \in 1..Len(s) /\ l \in 1..Len(s) /\ k < l
    BY <1>1
  <2> QED
    BY <1>5, <1>6, <1>7, <2>1
<1> QED
  BY <1>2, <1>3, <1>4, <1>8, <1>9, <1>10, <1>11, Joined

-----------------------------------------------------------------------------
(***************************************************************************)
(* How often x occurs among the first n of s.                              *)
(***************************************************************************)
Occ(s, x, n) == Cardinality({l \in 1..n : s[l] = x})

\* Occurrences can be counted.
LEMMA OccType ==
  ASSUME NEW s, NEW x, NEW n \in Nat
  PROVE  IsFiniteSet({l \in 1..n : s[l] = x}) /\ Occ(s, x, n) \in Nat
<1>1. IsFiniteSet(1..n)
  BY FS_Interval
<1>2. IsFiniteSet({l \in 1..n : s[l] = x})
  BY <1>1, FS_Subset
<1> QED
  BY <1>2, FS_CardinalityType DEF Occ

\* Nothing occurs before the first place.
LEMMA OccZero ==
  ASSUME NEW s, NEW x
  PROVE  Occ(s, x, 0) = 0
<1>1. {l \in 1..0 : s[l] = x} = {}
  OBVIOUS
<1> QED
  BY <1>1, FS_EmptySet DEF Occ

\* The count is one more at an occurrence than at the one before it, or at 0.
LEMMA OccNext ==
  ASSUME NEW s, NEW x, NEW m \in Nat, NEW n \in Nat, m < n, s[n] = x,
         \A l \in (m + 1)..(n - 1) : s[l] # x
  PROVE  Occ(s, x, n) = Occ(s, x, m) + 1
<1> DEFINE S == {l \in 1..m : s[l] = x}
<1>1. IsFiniteSet(S) /\ n \notin S
  <2>1. IsFiniteSet(S)
    BY OccType
  <2>2. n \notin 1..m
    OBVIOUS
  <2> QED
    BY <2>1, <2>2
<1>2. {l \in 1..n : s[l] = x} = S \cup {n}
  <2>1. \A l \in 1..n : l \in 1..m \/ l = n \/ l \in (m + 1)..(n - 1)
    OBVIOUS
  <2>2. \A l \in 1..m : l \in 1..n
    OBVIOUS
  <2>3. n \in 1..n
    OBVIOUS
  <2> QED
    BY <2>1, <2>2, <2>3
<1> HIDE DEF S
<1>3. Cardinality(S \cup {n}) = Cardinality(S) + 1
  BY <1>1, FS_AddElement
<1> QED
  BY <1>2, <1>3 DEF Occ, S

\* A place with something else does not count.
LEMMA OccSame ==
  ASSUME NEW s, NEW x, NEW n \in Nat, s[n + 1] # x
  PROVE  Occ(s, x, n + 1) = Occ(s, x, n)
<1>1. \A l \in 1..(n + 1) : l \in 1..n \/ l = n + 1
  OBVIOUS
<1>2. \A l \in 1..n : l \in 1..(n + 1)
  OBVIOUS
<1>3. {l \in 1..(n + 1) : s[l] = x} = {l \in 1..n : s[l] = x}
  BY <1>1, <1>2
<1> QED
  BY <1>3 DEF Occ

\* The count never falls from one place to a later one, ...
LEMMA OccGrows ==
  ASSUME NEW s, NEW x, NEW m \in Nat, NEW n \in Nat, m <= n
  PROVE  Occ(s, x, m) <= Occ(s, x, n)
<1> DEFINE S == {l \in 1..m : s[l] = x}
           U == {l \in 1..n : s[l] = x}
<1>1. IsFiniteSet(U) /\ S \subseteq U
  <2>1. \A l \in 1..m : l \in 1..n
    OBVIOUS
  <2> QED
    BY <2>1, OccType
<1> HIDE DEF S, U
<1>2. Cardinality(S) <= Cardinality(U)
  BY <1>1, FS_Subset
<1> QED
  BY <1>2 DEF Occ, S, U

\* ... and grows at an occurrence.
LEMMA OccStrict ==
  ASSUME NEW s, NEW x, NEW m \in Nat, NEW n \in Nat, m < n, s[n] = x
  PROVE  Occ(s, x, m) < Occ(s, x, n)
<1>1. n - 1 \in Nat /\ m <= n - 1 /\ n - 1 < n
  OBVIOUS
<1>2. Occ(s, x, n) = Occ(s, x, n - 1) + 1
  <2>1. \A l \in ((n - 1) + 1)..(n - 1) : s[l] # x
    BY <1>1
  <2> QED
    BY <1>1, <2>1, OccNext
<1>3. Occ(s, x, m) <= Occ(s, x, n - 1)
  BY <1>1, OccGrows
<1>4. Occ(s, x, m) \in Nat /\ Occ(s, x, n - 1) \in Nat
  BY <1>1, OccType
<1> QED
  BY <1>2, <1>3, <1>4

\* The occurrence before one, or 0.
LEMMA OccBefore ==
  ASSUME NEW s, NEW x, NEW n \in Nat \ {0}
  PROVE  \E m \in 0..(n - 1) : /\ m = 0 \/ s[m] = x
                               /\ \A l \in (m + 1)..(n - 1) : s[l] # x
<1> DEFINE S == {l \in 1..(n - 1) : s[l] = x}
<1>1. CASE S = {}
  <2>1. \A l \in (0 + 1)..(n - 1) : l \in 1..(n - 1)
    OBVIOUS
  <2>2. \A l \in (0 + 1)..(n - 1) : s[l] # x
    BY <1>1, <2>1
  <2>3. 0 \in 0..(n - 1)
    OBVIOUS
  <2> QED
    BY <2>2, <2>3
<1>2. CASE S # {}
  <2>1. n - 1 \in Nat /\ S \in SUBSET (1..(n - 1))
    OBVIOUS
  <2> DEFINE m == Max(S)
  <2>2. m \in S /\ \A k \in S : k <= m
    BY <1>2, <2>1, MaxOf
  <2> HIDE DEF m
  <2>3. m \in 0..(n - 1) /\ s[m] = x
    BY <2>2
  <2>4. ASSUME NEW l \in (m + 1)..(n - 1) PROVE s[l] # x
    <3>1. l \in 1..(n - 1) /\ ~(l <= m)
      BY <2>3
    <3> QED
      BY <2>2, <3>1
  <2> QED
    BY <2>3, <2>4
<1> QED
  BY <1>1, <1>2

-----------------------------------------------------------------------------
(***************************************************************************)
(* The place of a format among those of its name, and the words that have  *)
(* named it so far: the n-th word with a name places the n-th format of    *)
(* that name.                                                              *)
(***************************************************************************)
Rank(f) == Occ(library, library[f], f)

Count(f, n) == Occ(order, library[f], n)

\* First is the least element of a set of numbers, ...
LEMMA FirstOf ==
  ASSUME NEW S \in SUBSET Nat, S # {}
  PROVE  First(S) \in S /\ \A n \in S : First(S) <= n
<1>1. \E x \in S : \A y \in S : x <= y
  BY LeastExists
<1> QED
  BY <1>1, Zenon DEF First

\* ... and the only one.
LEMMA FirstIs ==
  ASSUME NEW S \in SUBSET Nat, NEW m \in S, \A n \in S : m <= n
  PROVE  First(S) = m
<1> DEFINE g == First(S)
<1>1. g \in S /\ g <= m /\ m <= g
  BY FirstOf
<1> HIDE DEF g
<1>2. g = m
  BY <1>1
<1> QED
  BY <1>2 DEF g

\* A format's mentions are those where the count reaches its rank.
LEMMA MentionsAre ==
  ASSUME NEW f
  PROVE  Mentions(f) = {m \in 1..Len(order) :
                          order[m] = library[f] /\ Count(f, m) = Rank(f)}
BY DEF Mentions, Count, Rank, Occ

\* Counts and ranks are numbers, and ranks start at 1.
LEMMA CountTypes ==
  ASSUME library \in Seq(Nat), NEW f \in Index, NEW n \in Nat
  PROVE  /\ Index \subseteq Nat /\ Index = 1..Len(library) /\ Len(library) \in Nat
         /\ library[f] \in Nat
         /\ Count(f, n) \in Nat /\ Count(f, 0) = 0
         /\ Rank(f) \in Nat /\ Rank(f) > 0
<1>1. Len(library) \in Nat /\ Index = 1..Len(library) /\ library[f] \in Nat
  BY LenProperties, ElementOfSeq DEF Index
<1>2. f \in Nat /\ 0 < f
  BY <1>1
<1>3. Count(f, n) \in Nat /\ Count(f, 0) = 0
  BY OccType, OccZero DEF Count
<1>4. Rank(f) \in Nat
  BY <1>2, OccType DEF Rank
<1>5. Occ(library, library[f], 0) < Occ(library, library[f], f)
  BY <1>2, OccStrict
<1>6. Rank(f) > 0
  BY <1>4, <1>5, OccZero DEF Rank
<1> QED
  BY <1>1, <1>3, <1>4, <1>6

\* Formats of one name differ in rank.
LEMMA RanksDiffer ==
  ASSUME library \in Seq(Nat), NEW f \in Index, NEW g \in Index, library[f] = library[g],
         f < g
  PROVE  Rank(f) < Rank(g)
<1>1. f \in Nat /\ g \in Nat
  BY CountTypes
<1> QED
  BY <1>1, OccStrict DEF Rank

\* A format that is still to be placed has not been named often enough, and one
\* that has been, has.
LEMMA MentionTells ==
  ASSUME library \in Seq(Nat), order \in Seq(Int), NEW f \in Index,
         NEW n \in 0..Len(order)
  PROVE  /\ Mentions(f) \in SUBSET Nat
         /\ Count(f, n) < Rank(f) => \A m \in Mentions(f) : n < m
         /\ \A m \in Mentions(f) : m <= n => Rank(f) <= Count(f, n)
<1>1. Len(order) \in Nat
  BY LenProperties
<1>2. Mentions(f) \in SUBSET Nat
  BY <1>1, MentionsAre
<1>3. ASSUME NEW m \in Mentions(f), m <= n PROVE Rank(f) <= Count(f, n)
  <2>1. m \in Nat /\ n \in Nat /\ Count(f, m) = Rank(f)
    BY <1>1, MentionsAre
  <2>2. Count(f, m) <= Count(f, n)
    BY <1>3, <2>1, OccGrows DEF Count
  <2> QED
    BY <2>1, <2>2
<1>4. Count(f, n) \in Nat /\ Rank(f) \in Nat
  BY <1>1, CountTypes
<1>5. ASSUME Count(f, n) < Rank(f), NEW m \in Mentions(f) PROVE n < m
  <2>1. ~(m <= n)
    BY <1>3, <1>4, <1>5
  <2>2. m \in Nat /\ n \in Nat
    BY <1>1, <1>2
  <2> QED
    BY <2>1, <2>2
<1> QED
  BY <1>2, <1>3, <1>5

\* The formats that n words of the wish have left in their places.
Left(n) == {f \in Index : Count(f, n) < Rank(f)}

\* A word places the first format of its name that is left: the one whose rank
\* the count reaches with this word.
LEMMA WordPlaces ==
  ASSUME library \in Seq(Nat), order \in Seq(Int), NEW n \in Nat, n < Len(order),
         NEW f \in Left(n), library[f] = order[n + 1],
         \A g \in Left(n) : library[g] = library[f] => f <= g
  PROVE  /\ Mentions(f) # {} /\ First(Mentions(f)) = n + 1
         /\ Left(n + 1) = Left(n) \ {f}
<1> DEFINE x == library[f]
<1>1. /\ Len(order) \in Nat /\ n \in 0..Len(order) /\ n + 1 \in 1..Len(order)
      /\ f \in Index /\ f \in Nat \ {0} /\ Count(f, n) < Rank(f)
  <2>1. Len(order) \in Nat
    BY LenProperties
  <2>2. f \in Index /\ Count(f, n) < Rank(f)
    BY DEF Left
  <2>3. f \in 1..Len(library) /\ Len(library) \in Nat
    BY <2>2, CountTypes
  <2> QED
    BY <2>1, <2>2, <2>3
<1>2. Count(f, n + 1) = Count(f, n) + 1
  <2>1. \A l \in (n + 1)..((n + 1) - 1) : order[l] # x
    OBVIOUS
  <2>2. n + 1 \in Nat /\ n < n + 1 /\ order[n + 1] = x
    OBVIOUS
  <2>3. Occ(order, x, n + 1) = Occ(order, x, n) + 1
    <3> HIDE DEF x
    <3> QED
      BY <2>1, <2>2, OccNext
  <2> QED
    BY <2>3 DEF Count
<1>3. Rank(f) <= Count(f, n) + 1
  <2>1. PICK g \in 0..(f - 1) : /\ g = 0 \/ library[g] = x
                                /\ \A l \in (g + 1)..(f - 1) : library[l] # x
    <3>1. f \in Nat \ {0}
      BY <1>1
    <3> HIDE DEF x
    <3> QED
      BY <3>1, OccBefore
  <2>2. Rank(f) = Occ(library, x, g) + 1
    <3>1. g \in Nat /\ f \in Nat /\ g < f
      BY <1>1, <2>1
    <3>2. library[f] = x
      OBVIOUS
    <3>3. Occ(library, x, f) = Occ(library, x, g) + 1
      <4> HIDE DEF x
      <4> QED
        BY <2>1, <3>1, <3>2, OccNext
    <3> QED
      BY <3>3 DEF Rank
  <2>3. CASE g = 0
    <3>1. Occ(library, x, 0) = 0
      BY OccZero
    <3>2. Count(f, n) \in Nat
      BY <1>1, CountTypes
    <3> QED
      BY <2>2, <2>3, <3>1, <3>2
  <2>4. CASE g # 0
    <3>1. g \in Index /\ library[g] = x /\ ~(f <= g)
      <4>1. f \in 1..Len(library) /\ Len(library) \in Nat /\ Index = 1..Len(library)
        BY <1>1, CountTypes
      <4>2. g \in 1..Len(library) /\ ~(f <= g)
        BY <2>1, <2>4, <4>1
      <4> QED
        BY <2>1, <2>4, <4>1, <4>2
    <3>2. ~(Count(g, n) < Rank(g))
      BY <3>1 DEF Left
    <3>3. Count(g, n) = Count(f, n) /\ Rank(g) = Occ(library, x, g)
      BY <3>1 DEF Count, Rank
    <3>4. Count(g, n) \in Nat /\ Rank(g) \in Nat
      BY <3>1, CountTypes
    <3> QED
      BY <2>2, <3>2, <3>3, <3>4
  <2> QED
    BY <2>3, <2>4
<1>4. Count(f, n) \in Nat /\ Rank(f) \in Nat
  BY <1>1, CountTypes
<1>5. Count(f, n + 1) = Rank(f) /\ Rank(f) = Count(f, n) + 1
  BY <1>1, <1>2, <1>3, <1>4
<1>6. n + 1 \in Mentions(f)
  BY <1>1, <1>5, MentionsAre
<1>7. Mentions(f) \in SUBSET Nat /\ \A m \in Mentions(f) : n < m
  BY <1>1, MentionTells
<1>8. First(Mentions(f)) = n + 1
  <2>1. \A m \in Mentions(f) : n + 1 <= m
    BY <1>7
  <2> QED
    BY <1>6, <1>7, <2>1, FirstIs
<1>9. ASSUME NEW g \in Index
      PROVE  Count(g, n + 1) < Rank(g) <=> Count(g, n) < Rank(g) /\ g # f
  <2>1. Count(g, n) \in Nat /\ Rank(g) \in Nat
    BY CountTypes
  <2>2. CASE library[g] # x
    <3>1. Count(g, n + 1) = Count(g, n)
      BY <2>2, OccSame DEF Count
    <3> QED
      BY <2>2, <3>1
  <2>3. CASE library[g] = x
    <3>1. Count(g, n + 1) = Count(f, n + 1) /\ Count(g, n) = Count(f, n)
      BY <2>3 DEF Count
    <3>2. g # f => Rank(g) # Rank(f)
      <4>1. g \in Nat /\ f \in Nat
        BY <1>1, CountTypes
      <4>2. g < f => Rank(g) < Rank(f)
        BY <1>1, <2>3, RanksDiffer
      <4>3. f < g => Rank(f) < Rank(g)
        BY <1>1, <2>3, RanksDiffer
      <4> QED
        BY <1>4, <2>1, <4>1, <4>2, <4>3
    <3> QED
      BY <1>4, <1>5, <2>1, <3>1, <3>2
  <2> QED
    BY <2>2, <2>3
<1>10. Left(n + 1) = Left(n) \ {f}
  BY <1>9 DEF Left
<1> QED
  BY <1>6, <1>8, <1>10

\* A word that names nothing that is left leaves everything.
LEMMA WordLeaves ==
  ASSUME library \in Seq(Nat), NEW n \in Nat,
         \A g \in Left(n) : library[g] # order[n + 1]
  PROVE  Left(n + 1) = Left(n)
<1>1. ASSUME NEW g \in Index
      PROVE  Count(g, n + 1) < Rank(g) <=> Count(g, n) < Rank(g)
  <2>1. Count(g, n) \in Nat /\ Count(g, n + 1) \in Nat /\ Rank(g) \in Nat
    <3>1. n + 1 \in Nat
      OBVIOUS
    <3> QED
      BY <3>1, CountTypes
  <2>2. CASE library[g] # order[n + 1]
    BY <2>2, OccSame DEF Count
  <2>3. CASE library[g] = order[n + 1]
    <3>1. ~(Count(g, n) < Rank(g))
      BY <2>3 DEF Left
    <3>2. Count(g, n) <= Count(g, n + 1)
      BY OccGrows DEF Count
    <3> QED
      BY <2>1, <3>1, <3>2
  <2> QED
    BY <2>2, <2>3
<1> QED
  BY <1>1 DEF Left

-----------------------------------------------------------------------------
(***************************************************************************)
(* The list of formats.                                                    *)
(***************************************************************************)
Less == {p \in Index \X Index : p[1] < p[2]}

ByMention == {p \in Index \X Index : First(Mentions(p[1])) < First(Mentions(p[2]))}

InOrder == {p \in Index \X Index : Precedes(p[1], p[2])}

Differ == {p \in Index \X Index : p[1] # p[2]}

\* What it is to be a pair of each of the four orders.
LEMMA Pairs ==
  \A f, g :
    /\ <<f, g>> \in Less <=> f \in Index /\ g \in Index /\ f < g
    /\ <<f, g>> \in ByMention <=>
         f \in Index /\ g \in Index /\ First(Mentions(f)) < First(Mentions(g))
    /\ <<f, g>> \in InOrder <=> f \in Index /\ g \in Index /\ Precedes(f, g)
    /\ <<f, g>> \in Differ <=> f \in Index /\ g \in Index /\ f # g
BY DEF Less, ByMention, InOrder, Differ

\* f has been placed by one of the first n words.
NamedBy(f, n) == Mentions(f) # {} /\ First(Mentions(f)) <= n

\* After n words: what is left stands in the order of the library, and what
\* was named before and after the star in the order of the wish.
PlacedBy(n, left, front, back, side) ==
  /\ order # Unset /\ n \in 0..Len(order)
  /\ ToSet(left) = Left(n) /\ Ascends(left, Less)
  /\ ToSet(front) \cup ToSet(left) \cup ToSet(back) = Index
  /\ Ascends(front, ByMention) /\ Ascends(back, ByMention)
  /\ \A f \in ToSet(front) : NamedBy(f, n) /\ First(Mentions(f)) < StarAt
  /\ \A f \in ToSet(back) : NamedBy(f, n) /\ ~(First(Mentions(f)) < StarAt)
  /\ side = "tail" <=> StarAt <= n

\* The finished list.
DoneWith(list) ==
  /\ ToSet(list) = Index /\ Ascends(list, Differ)
  /\ order # Unset => Ascends(list, InOrder)

FormatsInv ==
  /\ library \in Libraries /\ order \in Orders
  /\ TypeOK
  /\ pc = "list" =>
       /\ formats = [i \in 1..Len(formats) |-> i] /\ Len(formats) <= Len(library)
       /\ head = << >> /\ tail = << >> /\ pos = 0 /\ current = "head"
  /\ pc = "order" => PlacedBy(pos, formats, head, tail, current)
  /\ pc \in {"done", "open", "refused", "failed"} =>
       head = << >> /\ tail = << >> /\ DoneWith(formats)

\* What the assumption says of the library and the wish.
LEMMA Names ==
  ASSUME library \in Libraries, order \in Orders
  PROVE  /\ library \in Seq(Nat) /\ (order # Unset => order \in Seq(Int))
         /\ Index = 1..Len(library) /\ Len(library) \in Nat /\ Index \subseteq Nat
         /\ \A f \in Index : library[f] \in Nat /\ library[f] # Star
<1>1. library \in Seq(Nat) /\ (order # Unset => order \in Seq(Int)) /\ Star \notin Nat
  BY FormatsAssumption
<1>2. Index = 1..Len(library) /\ Len(library) \in Nat
  BY <1>1, LenProperties DEF Index
<1>3. \A f \in Index : library[f] \in Nat
  BY <1>1, <1>2, ElementOfSeq
<1> QED
  BY <1>1, <1>2, <1>3

\* The library's own order.
LEMMA Identity ==
  ASSUME NEW n \in Nat
  PROVE  LET s == [i \in 1..n |-> i]
         IN  /\ s \in Seq(Nat) /\ Len(s) = n /\ ToSet(s) = 1..n
             /\ \A i, j \in 1..n : i < j => s[i] < s[j]
<1> DEFINE s == [i \in 1..n |-> i]
<1>1. s \in [1..n -> Nat]
  OBVIOUS
<1>2. s \in Seq(Nat)
  BY <1>1, SeqDef
<1>3. Len(s) = n /\ DOMAIN s = 1..n
  BY <1>2, LenProperties
<1>4. ToSet(s) = 1..n
  BY <1>3 DEF ToSet
<1> QED
  BY <1>2, <1>3, <1>4

\* Nothing is said twice by a list in which the elements differ.
LEMMA DifferInject ==
  ASSUME library \in Libraries, order \in Orders, NEW s \in Seq(Index), Ascends(s, Differ)
  PROVE  IsInjective(s)
<1>1. Len(s) \in Nat /\ DOMAIN s = 1..Len(s)
  BY LenProperties
<1>2. ASSUME NEW i \in 1..Len(s), NEW j \in 1..Len(s), s[i] = s[j] PROVE i = j
  <2>1. \A f, g : <<f, g>> \in Differ => f # g
    BY DEF Differ
  <2>2. ~(i < j) /\ ~(j < i)
    BY <1>2, <2>1 DEF Ascends
  <2> QED
    BY <1>1, <2>2
<1> QED
  BY <1>1, <1>2 DEF IsInjective

\* All that the properties look at depends on the library and the wish.
LEMMA SameWish ==
  ASSUME library' = library, order' = order
  PROVE  /\ Index' = Index /\ Less' = Less /\ ByMention' = ByMention
         /\ InOrder' = InOrder /\ Differ' = Differ /\ StarAt' = StarAt
         /\ \A f : Mentions(f)' = Mentions(f) /\ Rank(f)' = Rank(f)
         /\ \A n : Left(n)' = Left(n)
         /\ \A f, g : Precedes(f, g)' <=> Precedes(f, g)
<1>1. Index' = Index
  BY DEF Index
<1>2. \A f : Mentions(f)' = Mentions(f) /\ Rank(f)' = Rank(f)
  BY DEF Mentions, Rank, Occ
<1>3. StarAt' = StarAt
  BY DEF StarAt, First
<1>4. \A n : Left(n)' = Left(n)
  BY <1>1 DEF Left, Count, Rank, Occ
<1>5. \A f : Group(f)' = Group(f)
  BY <1>2, <1>3 DEF Group, First
<1>6. \A f, g : Precedes(f, g)' <=> Precedes(f, g)
  BY <1>2, <1>5 DEF Precedes, First
<1>7. Less' = Less /\ Differ' = Differ
  BY <1>1 DEF Less, Differ
<1>8. ByMention' = ByMention
  BY <1>1, <1>2 DEF ByMention, First
<1>9. InOrder' = InOrder
  BY <1>1, <1>6 DEF InOrder
<1> QED
  BY <1>1, <1>2, <1>3, <1>4, <1>6, <1>7, <1>8, <1>9

\* StarAt is the place of the first star, or behind the wish.
LEMMA StarAtIs ==
  ASSUME order \in Seq(Int)
  PROVE  /\ Len(order) \in Nat /\ StarAt \in Nat /\ StarAt >= 1
         /\ \A m \in 1..Len(order) : order[m] = Star => StarAt <= m
         /\ StarAt <= Len(order) => order[StarAt] = Star
<1> DEFINE stars == {m \in 1..Len(order) : order[m] = Star}
<1>1. Len(order) \in Nat
  BY LenProperties
<1>2. CASE stars = {}
  <2>1. StarAt = Len(order) + 1
    BY <1>2 DEF StarAt
  <2>2. \A m \in 1..Len(order) : order[m] # Star
    BY <1>2
  <2> QED
    BY <1>1, <2>1, <2>2
<1>3. CASE stars # {}
  <2>1. StarAt = First(stars)
    BY <1>3 DEF StarAt
  <2>2. stars \in SUBSET Nat
    BY <1>1
  <2>3. First(stars) \in stars /\ \A m \in stars : First(stars) <= m
    BY <1>3, <2>2, FirstOf
  <2>4. /\ StarAt \in 1..Len(order) /\ order[StarAt] = Star
        /\ \A m \in 1..Len(order) : order[m] = Star => StarAt <= m
    BY <2>1, <2>3
  <2> QED
    BY <1>1, <2>4
<1> QED
  BY <1>2, <1>3

\* At first nothing has been placed.
LEMMA NothingPlaced ==
  ASSUME library \in Libraries, order \in Orders, order # Unset
  PROVE  PlacedBy(0, [i \in Index |-> i], << >>, << >>, "head")
<1> DEFINE s == [i \in Index |-> i]
<1>1. /\ library \in Seq(Nat) /\ order \in Seq(Int) /\ Index = 1..Len(library)
      /\ Len(library) \in Nat
  BY Names
<1>2. Len(s) = Len(library) /\ ToSet(s) = Index
  BY <1>1, Identity
<1>3. Left(0) = Index
  <2>1. \A f \in Index : Count(f, 0) < Rank(f)
    BY <1>1, CountTypes
  <2> QED
    BY <2>1 DEF Left
<1>4. Ascends(s, Less)
  BY <1>1, <1>2 DEF Ascends, Less
<1>5. ToSet(<< >>) = {} /\ \A R : Ascends(<< >>, R)
  BY DEF ToSet, Ascends
<1>6. 0 \in 0..Len(order) /\ ~(StarAt <= 0)
  BY <1>1, StarAtIs
<1> QED
  BY <1>2, <1>3, <1>4, <1>5, <1>6 DEF PlacedBy

\* A word that places nothing.
LEMMA PassedOver ==
  ASSUME library \in Libraries, order \in Orders, NEW n \in Nat, n < Len(order),
         NEW left, NEW front, NEW back, NEW side, NEW side2,
         PlacedBy(n, left, front, back, side),
         \A g \in Left(n) : library[g] # order[n + 1],
         side2 = IF order[n + 1] = Star THEN "tail" ELSE side
  PROVE  PlacedBy(n + 1, left, front, back, side2)
<1>1. library \in Seq(Nat) /\ order \in Seq(Int) /\ order # Unset
  BY Names DEF PlacedBy
<1>2. Left(n + 1) = Left(n)
  BY <1>1, WordLeaves
<1>3. /\ Len(order) \in Nat /\ StarAt \in Nat
      /\ order[n + 1] = Star => StarAt <= n + 1
      /\ StarAt = n + 1 => order[n + 1] = Star
  BY <1>1, StarAtIs
<1>4. side2 = "tail" <=> StarAt <= n + 1
  BY <1>3 DEF PlacedBy
<1>5. \A f \in Index : NamedBy(f, n) => NamedBy(f, n + 1)
  <2>1. ASSUME NEW f \in Index, NamedBy(f, n) PROVE First(Mentions(f)) <= n + 1
    <3>1. 0 \in 0..Len(order)
      BY <1>3
    <3>2. Mentions(f) \in SUBSET Nat
      BY <1>1, <3>1, MentionTells
    <3>3. First(Mentions(f)) \in Nat
      BY <2>1, <3>2, FirstOf DEF NamedBy
    <3> QED
      BY <2>1, <3>3 DEF NamedBy
  <2> QED
    BY <2>1 DEF NamedBy
<1>6. ToSet(front) \subseteq Index /\ ToSet(back) \subseteq Index
  BY DEF PlacedBy
<1>7. n + 1 \in 0..Len(order)
  BY <1>3
<1> QED
  BY <1>2, <1>4, <1>5, <1>6, <1>7 DEF PlacedBy

\* Where the mentions of a placed format are.
LEMMA NamedAt ==
  ASSUME library \in Seq(Nat), order \in Seq(Int), NEW f \in Index, NEW n, NamedBy(f, n)
  PROVE  First(Mentions(f)) \in Nat /\ First(Mentions(f)) \in Mentions(f)
<1>1. 0 \in 0..Len(order)
  BY LenProperties
<1>2. Mentions(f) \in SUBSET Nat /\ Mentions(f) # {}
  BY <1>1, MentionTells DEF NamedBy
<1> QED
  BY <1>2, FirstOf

\* A word that names what is left of its name first.
LEMMA PlacedNext ==
  ASSUME library \in Libraries, order \in Orders, NEW n \in Nat, n < Len(order),
         NEW left \in Seq(Index), NEW front \in Seq(Index), NEW back \in Seq(Index),
         NEW side \in {"head", "tail"}, PlacedBy(n, left, front, back, side),
         order[n + 1] # Star, NEW i \in 1..Len(left), library[left[i]] = order[n + 1],
         \A j \in 1..Len(left) : library[left[j]] = order[n + 1] => i <= j
  PROVE  PlacedBy(n + 1, Erase(left, i),
                  IF side = "head" THEN Append(front, left[i]) ELSE front,
                  IF side = "head" THEN back ELSE Append(back, left[i]), side)
<1> DEFINE f == left[i]
<1>1. /\ library \in Seq(Nat) /\ order \in Seq(Int) /\ order # Unset
      /\ Index \subseteq Nat
  BY Names DEF PlacedBy
<1>2. /\ Len(left) \in Nat /\ f \in Index /\ f \in ToSet(left)
      /\ \A g \in ToSet(left) : g \in Index /\ \E j \in 1..Len(left) : g = left[j]
  BY ElementsOf
<1>3. /\ ToSet(left) = Left(n) /\ Ascends(left, Less)
      /\ ToSet(front) \cup ToSet(left) \cup ToSet(back) = Index
      /\ Ascends(front, ByMention) /\ Ascends(back, ByMention)
      /\ \A g \in ToSet(front) : NamedBy(g, n) /\ First(Mentions(g)) < StarAt
      /\ \A g \in ToSet(back) : NamedBy(g, n) /\ ~(First(Mentions(g)) < StarAt)
      /\ side = "tail" <=> StarAt <= n
  BY DEF PlacedBy
<1>4. \A g \in Left(n) : library[g] = library[f] => f <= g
  <2> SUFFICES ASSUME NEW g \in Left(n), library[g] = library[f]
               PROVE  f <= g
    OBVIOUS
  <2>0. PICK j \in 1..Len(left) : g = left[j]
    BY <1>2, <1>3
  <2>1. i <= j
    BY <2>0
  <2>2. i < j => f < left[j]
    <3>1. i < j => <<left[i], left[j]>> \in Less
      BY <1>3 DEF Ascends
    <3> QED
      BY <3>1, Pairs
  <2>3. f \in Nat /\ left[j] \in Nat
    BY <1>1, <1>2, ElementsOf
  <2>4. i = j \/ i < j
    BY <1>2, <2>1
  <2> QED
    BY <2>0, <2>2, <2>3, <2>4
<1>5. /\ Mentions(f) # {} /\ First(Mentions(f)) = n + 1
      /\ Left(n + 1) = Left(n) \ {f}
  <2>1. f \in Left(n) /\ library[f] = order[n + 1]
    BY <1>2, <1>3
  <2> HIDE DEF f
  <2> QED
    BY <1>1, <1>4, <2>1, WordPlaces
<1>6. /\ Erase(left, i) \in Seq(Index) /\ ToSet(Erase(left, i)) = Left(n + 1)
      /\ Ascends(Erase(left, i), Less)
  <2>1. \A g \in Index : <<g, g>> \notin Less
    <3>1. \A g \in Index : ~(g < g)
      BY <1>1
    <3> QED
      BY <3>1, Pairs
  <2>2. /\ Erase(left, i) \in Seq(Index) /\ ToSet(Erase(left, i)) = ToSet(left) \ {left[i]}
        /\ Ascends(Erase(left, i), Less)
    BY <1>3, <2>1, Erased
  <2> QED
    BY <1>3, <1>5, <2>2
<1>7. /\ Len(order) \in Nat /\ StarAt \in Nat /\ StarAt # n + 1
      /\ n + 1 \in 0..Len(order)
  <2>1. /\ Len(order) \in Nat /\ StarAt \in Nat
        /\ StarAt <= Len(order) => order[StarAt] = Star
    BY <1>1, StarAtIs
  <2>2. n + 1 <= Len(order) /\ n + 1 \in 0..Len(order)
    BY <2>1
  <2> QED
    BY <2>1, <2>2
<1>8. \A g \in Index : NamedBy(g, n) => NamedBy(g, n + 1) /\ <<g, f>> \in ByMention
  <2> SUFFICES ASSUME NEW g \in Index, NamedBy(g, n)
               PROVE  NamedBy(g, n + 1) /\ <<g, f>> \in ByMention
    OBVIOUS
  <2>1. First(Mentions(g)) \in Nat /\ First(Mentions(g)) <= n /\ Mentions(g) # {}
    BY <1>1, NamedAt DEF NamedBy
  <2>2. First(Mentions(g)) < n + 1 /\ First(Mentions(g)) <= n + 1
    BY <2>1
  <2> QED
    BY <1>2, <1>5, <2>1, <2>2 DEF NamedBy, ByMention
<1>9. NamedBy(f, n + 1)
  BY <1>5 DEF NamedBy
<1>10. /\ side = "tail" <=> StarAt <= n + 1
       /\ side = "head" => n + 1 < StarAt
       /\ side = "tail" => ~(n + 1 < StarAt)
  BY <1>3, <1>7
<1>11. ToSet(front) \subseteq Index /\ ToSet(back) \subseteq Index
  BY <1>3
<1>12. /\ ToSet(Append(front, f)) = ToSet(front) \cup {f}
       /\ Ascends(Append(front, f), ByMention)
  BY <1>2, <1>3, <1>8, <1>11, Appended
<1>13. /\ ToSet(Append(back, f)) = ToSet(back) \cup {f}
       /\ Ascends(Append(back, f), ByMention)
  BY <1>2, <1>3, <1>8, <1>11, Appended
<1> HIDE DEF f
<1>14. CASE side = "head"
  <2>1. ToSet(Append(front, f)) \cup ToSet(Erase(left, i)) \cup ToSet(back) = Index
    BY <1>2, <1>3, <1>5, <1>6, <1>12
  <2>2. \A g \in ToSet(Append(front, f)) :
          NamedBy(g, n + 1) /\ First(Mentions(g)) < StarAt
    BY <1>3, <1>5, <1>8, <1>9, <1>10, <1>11, <1>12, <1>14
  <2>3. \A g \in ToSet(back) : NamedBy(g, n + 1) /\ ~(First(Mentions(g)) < StarAt)
    BY <1>3, <1>8, <1>11
  <2>4. PlacedBy(n + 1, Erase(left, i), Append(front, f), back, side)
    BY <1>1, <1>3, <1>6, <1>7, <1>10, <1>12, <2>1, <2>2, <2>3 DEF PlacedBy
  <2> QED
    BY <1>14, <2>4 DEF f
<1>15. CASE side = "tail"
  <2>1. ToSet(front) \cup ToSet(Erase(left, i)) \cup ToSet(Append(back, f)) = Index
    BY <1>2, <1>3, <1>5, <1>6, <1>13
  <2>2. \A g \in ToSet(Append(back, f)) :
          NamedBy(g, n + 1) /\ ~(First(Mentions(g)) < StarAt)
    BY <1>3, <1>5, <1>8, <1>9, <1>10, <1>11, <1>13, <1>15
  <2>3. \A g \in ToSet(front) : NamedBy(g, n + 1) /\ First(Mentions(g)) < StarAt
    BY <1>3, <1>8, <1>11
  <2>4. PlacedBy(n + 1, Erase(left, i), front, Append(back, f), side)
    BY <1>1, <1>3, <1>6, <1>7, <1>10, <1>13, <2>1, <2>2, <2>3 DEF PlacedBy
  <2> QED
    BY <1>15, <2>4 DEF f
<1> QED
  BY <1>14, <1>15

\* While the list is taken apart no format is in two places, and none is
\* missing; in the end it is as the wish asks.
LEMMA PlacedOnce ==
  ASSUME library \in Libraries, order \in Orders, NEW n \in Nat,
         NEW left \in Seq(Index), NEW front \in Seq(Index), NEW back \in Seq(Index),
         NEW side, PlacedBy(n, left, front, back, side)
  PROVE  /\ front \o left \o back \in Seq(Index)
         /\ ToSet(front \o left \o back) = Index
         /\ Ascends(front \o left \o back, Differ)
         /\ n = Len(order) => Ascends(front \o left \o back, InOrder)
<1>1. /\ library \in Seq(Nat) /\ order \in Seq(Int) /\ order # Unset
      /\ Index \subseteq Nat /\ n \in 0..Len(order)
  BY Names DEF PlacedBy
<1>2. /\ ToSet(left) = Left(n) /\ Ascends(left, Less)
      /\ ToSet(front) \cup ToSet(left) \cup ToSet(back) = Index
      /\ Ascends(front, ByMention) /\ Ascends(back, ByMention)
      /\ \A g \in ToSet(front) : NamedBy(g, n) /\ First(Mentions(g)) < StarAt
      /\ \A g \in ToSet(back) : NamedBy(g, n) /\ ~(First(Mentions(g)) < StarAt)
  BY DEF PlacedBy
<1>3. /\ ToSet(front) \subseteq Index /\ ToSet(left) \subseteq Index
      /\ ToSet(back) \subseteq Index
  BY <1>2
<1>4. \A g \in Index : NamedBy(g, n) => First(Mentions(g)) \in Nat /\ g \notin Left(n)
  <2> SUFFICES ASSUME NEW g \in Index, NamedBy(g, n)
               PROVE  First(Mentions(g)) \in Nat /\ g \notin Left(n)
    OBVIOUS
  <2>1. First(Mentions(g)) \in Nat /\ First(Mentions(g)) \in Mentions(g)
    BY <1>1, NamedAt
  <2>2. First(Mentions(g)) <= n
    BY DEF NamedBy
  <2>3. Rank(g) <= Count(g, n)
    BY <1>1, <2>1, <2>2, MentionTells
  <2>4. Rank(g) \in Nat /\ Count(g, n) \in Nat
    BY <1>1, CountTypes
  <2> QED
    BY <2>1, <2>3, <2>4 DEF Left
<1>5. ASSUME NEW R,
             \A g, h \in Index : g < h /\ g \in Left(n) /\ h \in Left(n) => <<g, h>> \in R,
             \A g, h \in ToSet(front) :
               First(Mentions(g)) < First(Mentions(h)) => <<g, h>> \in R,
             \A g, h \in ToSet(back) :
               First(Mentions(g)) < First(Mentions(h)) => <<g, h>> \in R,
             \A g \in ToSet(front), h \in Left(n) : <<g, h>> \in R,
             \A g \in ToSet(front), h \in ToSet(back) : <<g, h>> \in R,
             \A g \in Left(n), h \in ToSet(back) : <<g, h>> \in R
      PROVE  Ascends(front \o left \o back, R)
  <2>1. Ascends(left, R)
    <3>1. ASSUME NEW i \in 1..Len(left), NEW j \in 1..Len(left), i < j
          PROVE  <<left[i], left[j]>> \in R
      <4>1. <<left[i], left[j]>> \in Less
        BY <1>2, <3>1 DEF Ascends
      <4>2. left[i] \in Left(n) /\ left[j] \in Left(n)
        BY <1>2, ElementsOf
      <4> QED
        BY <1>5, <4>1, <4>2, Pairs
    <3> QED
      BY <3>1 DEF Ascends
  <2>2. Ascends(front, R)
    <3>1. ASSUME NEW i \in 1..Len(front), NEW j \in 1..Len(front), i < j
          PROVE  <<front[i], front[j]>> \in R
      <4>1. <<front[i], front[j]>> \in ByMention
        BY <1>2, <3>1 DEF Ascends
      <4>2. front[i] \in ToSet(front) /\ front[j] \in ToSet(front)
        BY ElementsOf
      <4> QED
        BY <1>5, <4>1, <4>2, Pairs
    <3> QED
      BY <3>1 DEF Ascends
  <2>3. Ascends(back, R)
    <3>1. ASSUME NEW i \in 1..Len(back), NEW j \in 1..Len(back), i < j
          PROVE  <<back[i], back[j]>> \in R
      <4>1. <<back[i], back[j]>> \in ByMention
        BY <1>2, <3>1 DEF Ascends
      <4>2. back[i] \in ToSet(back) /\ back[j] \in ToSet(back)
        BY ElementsOf
      <4> QED
        BY <1>5, <4>1, <4>2, Pairs
    <3> QED
      BY <3>1 DEF Ascends
  <2>4. /\ front \o left \in Seq(Index)
        /\ ToSet(front \o left) = ToSet(front) \cup Left(n)
        /\ Ascends(front \o left, R)
    BY <1>2, <1>5, <2>1, <2>2, Joined
  <2> DEFINE s == front \o left
  <2>5. \A g \in ToSet(s), h \in ToSet(back) : <<g, h>> \in R
    BY <1>5, <2>4
  <2> HIDE DEF s
  <2>6. Ascends(s \o back, R)
    BY <2>3, <2>4, <2>5, Joined DEF s
  <2> QED
    BY <2>6 DEF s
<1>6. /\ front \o left \o back \in Seq(Index)
      /\ ToSet(front \o left \o back) = Index
  <2>1. front \o left \in Seq(Index) /\ ToSet(front \o left) = ToSet(front) \cup ToSet(left)
    BY Joined
  <2> DEFINE s == front \o left
  <2>2. s \in Seq(Index) /\ ToSet(s) = ToSet(front) \cup ToSet(left)
    BY <2>1
  <2> HIDE DEF s
  <2>3. s \o back \in Seq(Index) /\ ToSet(s \o back) = ToSet(s) \cup ToSet(back)
    BY <2>2, Joined
  <2> QED
    BY <1>2, <2>2, <2>3 DEF s
<1>7. Ascends(front \o left \o back, Differ)
  <2>1. \A g, h \in Index : g < h => g # h
    BY <1>1
  <2>2. \A g \in ToSet(front), h \in ToSet(back) : g # h
    BY <1>2
  <2>3. \A g, h \in ToSet(front) : First(Mentions(g)) < First(Mentions(h)) => g # h
    BY <1>2, <1>3, <1>4
  <2>4. \A g, h \in ToSet(back) : First(Mentions(g)) < First(Mentions(h)) => g # h
    BY <1>2, <1>3, <1>4
  <2>5. \A g \in ToSet(front) \cup ToSet(back), h \in Left(n) : g # h
    BY <1>2, <1>3, <1>4
  <2> QED
    BY <1>2, <1>3, <1>5, <2>1, <2>2, <2>3, <2>4, <2>5, Pairs
<1>8. ASSUME n = Len(order)
      PROVE  Ascends(front \o left \o back, InOrder)
  <2>1. \A g \in Left(n) : Mentions(g) = {}
    <3> SUFFICES ASSUME NEW g \in Left(n), NEW m \in Mentions(g) PROVE FALSE
      OBVIOUS
    <3>1. g \in Index /\ Count(g, n) < Rank(g)
      BY DEF Left
    <3>2. n < m
      BY <1>1, <3>1, MentionTells
    <3>3. m \in 1..Len(order)
      BY MentionsAre
    <3> QED
      BY <1>1, <1>8, <3>2, <3>3
  <2>2. \A g \in Left(n) : Group(g) = 1
    BY <2>1 DEF Group
  <2>3. \A g \in ToSet(front) : Group(g) = 0
    BY <1>2 DEF Group, NamedBy
  <2>4. \A g \in ToSet(back) : Group(g) = 2
    BY <1>2 DEF Group, NamedBy
  <2>5. \A g, h \in Left(n) : g < h => Precedes(g, h)
    BY <2>2 DEF Precedes
  <2>6. \A g, h \in ToSet(front) : First(Mentions(g)) < First(Mentions(h)) => Precedes(g, h)
    BY <2>3 DEF Precedes
  <2>7. \A g, h \in ToSet(back) : First(Mentions(g)) < First(Mentions(h)) => Precedes(g, h)
    BY <2>4 DEF Precedes
  <2>8. /\ \A g \in ToSet(front), h \in Left(n) : Precedes(g, h)
        /\ \A g \in ToSet(front), h \in ToSet(back) : Precedes(g, h)
        /\ \A g \in Left(n), h \in ToSet(back) : Precedes(g, h)
    BY <2>2, <2>3, <2>4 DEF Precedes
  <2> QED
    BY <1>2, <1>3, <1>5, <2>5, <2>6, <2>7, <2>8, Pairs
<1> QED
  BY <1>6, <1>7, <1>8

\* The parts of the invariant speak of the library and the wish only.
LEMMA SamePlaced ==
  ASSUME library' = library, order' = order
  PROVE  /\ PlacedBy(pos, formats, head, tail, current)' <=>
              PlacedBy(pos', formats', head', tail', current')
         /\ DoneWith(formats)' <=> DoneWith(formats')
<1>1. /\ Index' = Index /\ Less' = Less /\ ByMention' = ByMention
      /\ InOrder' = InOrder /\ Differ' = Differ /\ StarAt' = StarAt
      /\ \A f : Mentions(f)' = Mentions(f)
      /\ \A n : Left(n)' = Left(n)
  BY SameWish
<1>2. \A f, n : NamedBy(f, n)' <=> NamedBy(f, n)
  BY <1>1 DEF NamedBy, First
<1>3. \A f : First(Mentions(f))' = First(Mentions(f))
  BY <1>1 DEF First
<1>4. DoneWith(formats)' <=> DoneWith(formats')
  BY <1>1 DEF DoneWith, ToSet, Ascends
<1>5. Left(pos)' = Left(pos')
  BY DEF Left, Count, Rank, Occ, Index
<1>6. \A f : NamedBy(f, pos)' <=> NamedBy(f, pos')
  BY <1>1 DEF NamedBy, First
<1> QED
  BY <1>1, <1>3, <1>4, <1>5, <1>6 DEF PlacedBy, ToSet, Ascends

\* The invariant of the list holds before the first format is listed.
LEMMA FormatsInit ==
  ASSUME Init
  PROVE  FormatsInv
<1>1. /\ library \in Libraries /\ order \in Orders
      /\ formats = << >> /\ head = << >> /\ tail = << >>
      /\ current = "head" /\ pos = 0 /\ pc = "list"
  BY DEF Init
<1>2. TypeOK
  BY <1>1, EmptySeq DEF TypeOK
<1>3. Len(<< >>) = 0 /\ << >> = [i \in 1..0 |-> i]
  BY EmptySeq
<1>4. Len(formats) <= Len(library)
  BY <1>1, <1>3, Names
<1> QED
  BY <1>1, <1>2, <1>3, <1>4 DEF FormatsInv

\* Where a named format is found.
LEMMA FoundFirst ==
  ASSUME FormatsInv, NEW word, Found(word) # {}
  PROVE  /\ First(Found(word)) \in 1..Len(formats)
         /\ library[formats[First(Found(word))]] = word
         /\ \A j \in 1..Len(formats) :
              library[formats[j]] = word => First(Found(word)) <= j
<1>1. Len(formats) \in Nat /\ DOMAIN formats = 1..Len(formats)
  BY LenProperties DEF FormatsInv, TypeOK
<1>2. Found(word) = {i \in 1..Len(formats) : library[formats[i]] = word}
  BY <1>1 DEF Found
<1>3. Found(word) \in SUBSET Nat
  BY <1>1, <1>2
<1>4. First(Found(word)) \in Found(word) /\ \A j \in Found(word) : First(Found(word)) <= j
  BY <1>3, FirstOf
<1> QED
  BY <1>2, <1>4

\* Every step of fill_formats keeps the invariant of the list.
LEMMA FormatsStep ==
  ASSUME FormatsInv, Next
  PROVE  FormatsInv'
<1>1. /\ library \in Libraries /\ order \in Orders
      /\ formats \in Seq(Index) /\ head \in Seq(Index) /\ tail \in Seq(Index)
      /\ current \in {"head", "tail"} /\ pos \in Nat
  BY DEF FormatsInv, TypeOK
<1>2. library' = library /\ order' = order
  BY DEF Next, List, Listed, StarWord, NamedWord, UnknownWord, Splice
<1>3. Index' = Index /\ Index = 1..Len(library) /\ Len(library) \in Nat
  BY <1>1, <1>2, Names, SameWish
<1>4. CASE List
  <2>1. /\ pc = "list" /\ Len(formats) < Len(library)
        /\ formats' = Append(formats, Len(formats) + 1)
        /\ UNCHANGED <<head, tail, current, pos, pc>>
    BY <1>4 DEF List
  <2>2. /\ formats = [i \in 1..Len(formats) |-> i] /\ Len(formats) <= Len(library)
        /\ head = << >> /\ tail = << >> /\ pos = 0 /\ current = "head"
    BY <2>1 DEF FormatsInv
  <2>3. Len(formats) \in Nat /\ Len(formats) + 1 \in Index
    BY <1>1, <1>3, <2>1, LenProperties
  <2>4. /\ formats' \in Seq(Index) /\ Len(formats') = Len(formats) + 1
        /\ \A i \in 1..Len(formats) : formats'[i] = formats[i]
        /\ formats'[Len(formats) + 1] = Len(formats) + 1
    BY <1>1, <2>1, <2>3, AppendProperties
  <2>5. formats' = [i \in 1..Len(formats') |-> i]
    <3>1. DOMAIN formats' = 1..Len(formats')
      BY <2>4, LenProperties
    <3>2. ASSUME NEW i \in 1..Len(formats') PROVE formats'[i] = i
      <4>1. i \in 1..Len(formats) \/ i = Len(formats) + 1
        BY <2>3, <2>4
      <4> QED
        BY <2>2, <2>4, <4>1
    <3>3. formats' \in [1..Len(formats') -> Index]
      BY <2>4, LenProperties
    <3> QED
      BY <3>2, <3>3
  <2>6. Len(formats') <= Len(library)
    BY <1>3, <2>1, <2>3, <2>4
  <2>7. TypeOK'
    BY <1>1, <1>3, <2>1, <2>2, <2>4 DEF TypeOK
  <2> QED
    BY <1>1, <1>2, <2>1, <2>2, <2>5, <2>6, <2>7 DEF FormatsInv
<1>5. CASE Listed
  <2>1. /\ pc = "list" /\ Len(formats) = Len(library)
        /\ pc' = IF order = Unset THEN "done" ELSE "order"
        /\ UNCHANGED <<formats, head, tail, current, pos>>
    BY <1>5 DEF Listed
  <2>2. /\ formats = [i \in Index |-> i]
        /\ head = << >> /\ tail = << >> /\ pos = 0 /\ current = "head"
    BY <1>3, <2>1 DEF FormatsInv
  <2>3. TypeOK'
    BY <1>1, <1>3, <2>1, <2>2 DEF TypeOK
  <2>4. CASE order = Unset
    <3>1. ToSet(formats) = Index /\ Len(formats) = Len(library)
      BY <1>3, <2>2, Identity
    <3>2. \A i, j \in Index : i < j => i # j
      BY <1>3
    <3>3. Ascends(formats, Differ)
      BY <1>3, <2>2, <3>1, <3>2, Pairs DEF Ascends
    <3>4. DoneWith(formats')
      BY <2>1, <2>2, <2>4, <3>1, <3>3 DEF DoneWith
    <3> QED
      BY <1>1, <1>2, <2>1, <2>2, <2>3, <2>4, <3>4, SamePlaced DEF FormatsInv
  <2>5. CASE order # Unset
    <3>1. PlacedBy(pos', formats', head', tail', current')
      BY <1>1, <2>1, <2>2, <2>5, NothingPlaced
    <3> QED
      BY <1>1, <1>2, <2>1, <2>2, <2>3, <2>5, <3>1, SamePlaced DEF FormatsInv
  <2> QED
    BY <2>4, <2>5
<1>6. ASSUME AtWord
      PROVE  /\ pc = "order" /\ pos < Len(order) /\ pos' = pos + 1 /\ pos' \in Nat
             /\ PlacedBy(pos, formats, head, tail, current)
             /\ order \in Seq(Int) /\ library \in Seq(Nat) /\ ToSet(formats) = Left(pos)
             /\ \A f \in Left(pos) : library[f] # Star
  <2>1. pc = "order" /\ pos < Len(order) /\ pos' = pos + 1
    BY <1>6 DEF AtWord
  <2>2. PlacedBy(pos, formats, head, tail, current)
    BY <2>1 DEF FormatsInv
  <2>3. pos' \in Nat
    BY <1>1, <2>1
  <2> QED
    BY <1>1, <2>1, <2>2, <2>3, Names DEF PlacedBy, Left
<1>7. ASSUME AtWord, pc' = pc, PlacedBy(pos', formats', head', tail', current'),
             formats' \in Seq(Index), head' \in Seq(Index), tail' \in Seq(Index),
             current' \in {"head", "tail"}
      PROVE  FormatsInv'
  <2>1. TypeOK'
    BY <1>3, <1>6, <1>7 DEF TypeOK
  <2> QED
    BY <1>1, <1>2, <1>6, <1>7, <2>1, SamePlaced DEF FormatsInv
<1>8. CASE StarWord
  <2>1. /\ AtWord /\ order[pos + 1] = Star /\ current' = "tail"
        /\ UNCHANGED <<formats, head, tail, pc>>
    BY <1>8 DEF StarWord, Word
  <2>2. PlacedBy(pos + 1, formats, head, tail, "tail")
    BY <1>1, <1>6, <2>1, PassedOver
  <2> QED
    BY <1>1, <1>6, <1>7, <2>1, <2>2
<1>9. CASE UnknownWord
  <2>1. /\ AtWord /\ order[pos + 1] # Star /\ Found(order[pos + 1]) = {}
        /\ UNCHANGED <<formats, head, tail, current, pc>>
    BY <1>9 DEF UnknownWord, Word
  <2>2. \A g \in Left(pos) : library[g] # order[pos + 1]
    <3> SUFFICES ASSUME NEW g \in Left(pos) PROVE library[g] # order[pos + 1]
      OBVIOUS
    <3>1. g \in ToSet(formats)
      BY <1>6, <2>1
    <3>2. PICK i \in DOMAIN formats : g = formats[i]
      BY <3>1 DEF ToSet
    <3>3. i \notin Found(order[pos + 1])
      BY <2>1
    <3> QED
      BY <3>2, <3>3 DEF Found
  <2>3. PlacedBy(pos + 1, formats, head, tail, current)
    BY <1>1, <1>6, <2>1, <2>2, PassedOver
  <2> QED
    BY <1>1, <1>6, <1>7, <2>1, <2>3
<1>10. CASE NamedWord
  <2> DEFINE i == First(Found(order[pos + 1]))
  <2>1. /\ AtWord /\ order[pos + 1] # Star /\ Found(order[pos + 1]) # {}
        /\ Place(formats[i]) /\ formats' = Erase(formats, i)
        /\ UNCHANGED <<current, pc>>
    BY <1>10 DEF NamedWord, Word
  <2>2. /\ i \in 1..Len(formats) /\ library[formats[i]] = order[pos + 1]
        /\ \A j \in 1..Len(formats) : library[formats[j]] = order[pos + 1] => i <= j
    BY <2>1, FoundFirst
  <2> HIDE DEF i
  <2>3. PlacedBy(pos + 1, Erase(formats, i),
                 IF current = "head" THEN Append(head, formats[i]) ELSE head,
                 IF current = "head" THEN tail ELSE Append(tail, formats[i]), current)
    BY <1>1, <1>6, <2>1, <2>2, PlacedNext
  <2>4. /\ head' = IF current = "head" THEN Append(head, formats[i]) ELSE head
        /\ tail' = IF current = "head" THEN tail ELSE Append(tail, formats[i])
    BY <1>1, <2>1 DEF Place
  <2>5. PlacedBy(pos', formats', head', tail', current')
    BY <1>6, <2>1, <2>3, <2>4
  <2>6. formats[i] \in Index
    BY <1>1, <2>2, ElementsOf
  <2>7. head' \in Seq(Index) /\ tail' \in Seq(Index)
    BY <1>1, <2>4, <2>6, AppendProperties
  <2>8. formats' \in Seq(Index)
    <3>1. Ascends(formats, Less)
      BY <1>6, <2>1 DEF PlacedBy
    <3>2. \A g \in Index : ~(g < g)
      BY <1>3
    <3>3. \A g \in Index : <<g, g>> \notin Less
      BY <3>2, Pairs
    <3> QED
      BY <1>1, <2>1, <2>2, <3>1, <3>3, Erased
  <2> QED
    BY <1>1, <1>7, <2>1, <2>5, <2>7, <2>8
<1>11. CASE Splice
  <2>1. /\ pc = "order" /\ pos = Len(order)
        /\ formats' = head \o formats \o tail
        /\ head' = << >> /\ tail' = << >> /\ pc' = "done"
        /\ UNCHANGED <<current, pos>>
    BY <1>11 DEF Splice
  <2>2. PlacedBy(pos, formats, head, tail, current)
    BY <2>1 DEF FormatsInv
  <2>3. /\ formats' \in Seq(Index) /\ ToSet(formats') = Index
        /\ Ascends(formats', Differ) /\ Ascends(formats', InOrder)
    BY <1>1, <2>1, <2>2, PlacedOnce
  <2>4. order # Unset
    BY <2>2 DEF PlacedBy
  <2>5. DoneWith(formats')
    BY <2>3, <2>4 DEF DoneWith
  <2>6. TypeOK'
    BY <1>1, <1>3, <2>1, <2>3, EmptySeq DEF TypeOK
  <2> QED
    BY <1>1, <1>2, <2>1, <2>5, <2>6, SamePlaced DEF FormatsInv
<1> QED
  BY <1>4, <1>5, <1>8, <1>9, <1>10, <1>11 DEF Next

-----------------------------------------------------------------------------
(***************************************************************************)
(* The format an archive is opened with.                                   *)
(***************************************************************************)
ChoiceInv ==
  /\ accepts \in SUBSET Nat
  /\ format \in Index \cup {0}
  /\ pc # "open" => format = 0
  /\ ChosenAsAsked

\* Of the accepting formats, the loop stops at the one the wish puts first.
LEMMA FirstSelected ==
  ASSUME library \in Libraries, order \in Orders, formats \in Seq(Index),
         DoneWith(formats), NEW s, NEW k \in Selected(s)
  PROVE  /\ formats[k] \in s /\ formats[k] \in Index
         /\ order # Unset =>
              \A g \in (s \cap Index) \ {formats[k]} : Precedes(formats[k], g)
<1>1. Index = 1..Len(library) /\ Len(library) \in Nat
  BY Names
<1>2. /\ Len(formats) \in Nat /\ DOMAIN formats = 1..Len(formats)
      /\ \A g \in ToSet(formats) : \E j \in 1..Len(formats) : g = formats[j]
  BY ElementsOf
<1>3. /\ k \in 1..Len(formats) /\ formats[k] \in s
      /\ \A j \in 1..(k - 1) : formats[j] \notin s
  BY <1>2 DEF Selected
<1>4. formats[k] \in Index
  BY <1>3, ElementsOf
<1>5. ASSUME order # Unset, NEW g \in (s \cap Index) \ {formats[k]}
      PROVE  Precedes(formats[k], g)
  <2>1. g \in ToSet(formats)
    BY DEF DoneWith
  <2>2. PICK j \in 1..Len(formats) : g = formats[j]
    BY <1>2, <2>1
  <2>3. k < j
    <3>1. j # k
      BY <2>2
    <3>2. j \notin 1..(k - 1)
      BY <1>3, <2>2
    <3> QED
      BY <1>2, <1>3, <3>1, <3>2
  <2>4. <<formats[k], formats[j]>> \in InOrder
    BY <1>3, <1>5, <2>3 DEF DoneWith, Ascends
  <2> QED
    BY <2>2, <2>4, Pairs
<1> QED
  BY <1>3, <1>4, <1>5

\* The loop stops somewhere if any format accepts.
LEMMA SomeSelected ==
  ASSUME formats \in Seq(Index), DoneWith(formats), NEW s, Selected(s) = {}
  PROVE  s \cap Index = {}
<1> SUFFICES ASSUME NEW f \in Index, f \in s PROVE FALSE
  OBVIOUS
<1>1. /\ Len(formats) \in Nat /\ DOMAIN formats = 1..Len(formats)
      /\ \A g \in ToSet(formats) : \E j \in 1..Len(formats) : g = formats[j]
  BY ElementsOf
<1> DEFINE K == {k \in 1..Len(formats) : formats[k] \in s}
<1>2. K # {} /\ K \in SUBSET Nat
  BY <1>1 DEF DoneWith
<1>3. PICK k \in K : \A j \in K : k <= j
  BY <1>2, LeastExists
<1>4. \A j \in 1..(k - 1) : j \notin K /\ j \in 1..Len(formats)
  BY <1>1, <1>3
<1>5. \A j \in 1..(k - 1) : formats[j] \notin s
  BY <1>4
<1> QED
  BY <1>1, <1>3, <1>5 DEF Selected

\* A step that chooses nothing keeps the invariant of the choice.
LEMMA SameChoice ==
  ASSUME ChoiceInv, UNCHANGED <<library, order, accepts, format>>,
         pc' # "open" => format = 0, pc' = "refused" => pc = "refused"
  PROVE  ChoiceInv'
<1>1. Index' = Index /\ \A f, g : Precedes(f, g)' <=> Precedes(f, g)
  BY SameWish
<1>2. ChosenAsAsked'
  <2>1. format # 0 /\ order # Unset =>
          \A g \in (accepts \cap Index) \ {format} : Precedes(format, g)
    BY DEF ChoiceInv, ChosenAsAsked
  <2>2. \A g : Precedes(format, g)' <=> Precedes(format, g)
    BY DEF Precedes, Group, Mentions, StarAt, First
  <2> QED
    BY <1>1, <2>1, <2>2 DEF ChoiceInv, ChosenAsAsked
<1> QED
  BY <1>1, <1>2 DEF ChoiceInv

-----------------------------------------------------------------------------
(***************************************************************************)
(* The proposed name.  The loop has passed no word that says anything.     *)
(***************************************************************************)
NameInv ==
  /\ N!TypeOK
  /\ namePc = "idle" => at = 1
  /\ namePc = "loop" => name = ext /\ \A n \in N!Says : at <= n
  /\ N!NameIsUnpacked

\* The types of the two lists and of the index.
LEMMA NameTypes ==
  ASSUME NameInv
  PROVE  /\ extDef \in Seq(Extension \cup {NoWord})
         /\ extAdd \in Seq(Extension \cup {NoWord, Star})
         /\ ext \in Extension \cup {NoWord, N!NoExtension}
         /\ at \in 1..(Len(extDef) + 1) /\ at \in Nat
         /\ Len(extDef) \in Nat /\ DOMAIN extDef = 1..Len(extDef)
         /\ Len(extAdd) \in Nat /\ DOMAIN extAdd = 1..Len(extAdd)
<1>1. /\ extDef \in Seq(Extension \cup {NoWord})
      /\ extAdd \in Seq(Extension \cup {NoWord, Star})
      /\ ext \in Extension \cup {NoWord, N!NoExtension}
      /\ at \in 1..(Len(extDef) + 1)
  BY DEF NameInv, N!TypeOK
<1>2. /\ Len(extDef) \in Nat /\ DOMAIN extDef = 1..Len(extDef)
      /\ Len(extAdd) \in Nat /\ DOMAIN extAdd = 1..Len(extAdd)
  BY <1>1, LenProperties
<1>3. at \in Nat
  BY <1>1, <1>2
<1> QED
  BY <1>1, <1>2, <1>3

\* The lists a name is asked for with.
LEMMA NameEnters ==
  ASSUME NameInv, library \in Libraries, order \in Orders,
         NEW words \in Lists(library, order),
         NEW e \in Extension \cup {NoWord, N!NoExtension}, N!Enter(words, e)
  PROVE  NameInv'
<1>1. /\ words.def \in Seq(Extension) /\ words.add \in Seq(Extension \cup {Star})
  BY ListsAssumption
<1>2. /\ namePc = "idle" /\ namePc' = "loop" /\ at' = at
      /\ extDef' = N!Split(words.def) /\ extAdd' = N!Split(words.add)
      /\ ext' = e /\ name' = e
  BY DEF N!Enter
<1>3. at = 1
  BY <1>2 DEF NameInv
<1>4. /\ words.def \in Seq(Extension \cup {NoWord})
      /\ words.add \in Seq(Extension \cup {NoWord, Star})
  <2>1. /\ Extension \subseteq Extension \cup {NoWord}
        /\ Extension \cup {Star} \subseteq Extension \cup {NoWord, Star}
    OBVIOUS
  <2> QED
    BY <1>1, <2>1, SeqMonotonic
<1>5. /\ <<NoWord>> \in Seq(Extension \cup {NoWord})
      /\ <<NoWord>> \in Seq(Extension \cup {NoWord, Star}) /\ Len(<<NoWord>>) = 1
  OBVIOUS
<1>6. /\ extDef' \in Seq(Extension \cup {NoWord})
      /\ extAdd' \in Seq(Extension \cup {NoWord, Star})
  BY <1>2, <1>4, <1>5 DEF N!Split
<1>7. Len(extDef') \in Nat
  BY <1>6, LenProperties
<1>9. at' \in 1..(Len(extDef') + 1)
  BY <1>2, <1>3, <1>7
<1>10. N!TypeOK'
  BY <1>2, <1>6, <1>9 DEF N!TypeOK, N!NoExtension
<1>11. \A n \in N!Says' : at' <= n
  <2>1. DOMAIN extDef' = 1..Len(extDef')
    BY <1>6, LenProperties
  <2>2. N!Says' \subseteq 1..Len(extDef')
    BY <2>1 DEF N!Says
  <2>3. \A n \in 1..Len(extDef') : 1 <= n
    BY <1>7
  <2> QED
    BY <1>2, <1>3, <2>2, <2>3
<1>12. N!NameIsUnpacked'
  BY <1>2 DEF N!NameIsUnpacked
<1> QED
  BY <1>2, <1>10, <1>11, <1>12 DEF NameInv

\* Every round of the loop of proposed_name keeps its invariant.
LEMMA NameStep ==
  ASSUME NameInv, N!Next
  PROVE  NameInv'
<1>1. /\ extDef \in Seq(Extension \cup {NoWord})
      /\ extAdd \in Seq(Extension \cup {NoWord, Star})
      /\ at \in 1..(Len(extDef) + 1) /\ at \in Nat
      /\ Len(extDef) \in Nat /\ DOMAIN extDef = 1..Len(extDef)
      /\ Len(extAdd) \in Nat /\ DOMAIN extAdd = 1..Len(extAdd)
  BY NameTypes
<1>2. /\ namePc = "loop" /\ UNCHANGED <<extDef, extAdd, ext>>
  BY DEF N!Next, N!Other, N!Stays, N!Replace, N!ReadBeyond, N!Finish, N!Matches, N!InLoop
<1>3. name = ext /\ \A n \in N!Says : at <= n
  BY <1>2 DEF NameInv
<1>4. N!Says' = N!Says
  BY <1>2 DEF N!Says
<1>5. N!Says = {n \in 1..Len(extDef) :
                  n \in 1..Len(extAdd) /\ extDef[n] = ext /\ extAdd[n] # Star}
  BY <1>1 DEF N!Says
<1>6. /\ extDef' \in Seq(Extension \cup {NoWord})
      /\ extAdd' \in Seq(Extension \cup {NoWord, Star})
      /\ ext' \in Extension \cup {NoWord, N!NoExtension}
      /\ name \in Extension \cup {NoWord, N!NoExtension}
  BY <1>2 DEF NameInv, N!TypeOK
<1>7. CASE N!Other \/ N!Stays
  <2>1. /\ at <= Len(extDef) /\ at' = at + 1 /\ UNCHANGED <<name, namePc>>
        /\ at \notin N!Says
    BY <1>5, <1>7 DEF N!Other, N!Stays, N!Matches, N!InLoop, N!Keeps
  <2>2. \A n \in N!Says : at' <= n
    <3> SUFFICES ASSUME NEW n \in N!Says PROVE at + 1 <= n
      BY <2>1
    <3>1. n \in 1..Len(extDef) /\ n # at /\ at <= n
      BY <1>3, <1>5, <2>1
    <3> QED
      BY <1>1, <3>1
  <2>3. at' \in 1..(Len(extDef') + 1)
    BY <1>1, <1>2, <2>1
  <2>4. N!TypeOK'
    BY <1>2, <1>6, <2>1, <2>3 DEF N!TypeOK
  <2>5. N!NameIsUnpacked'
    BY <1>2, <2>1 DEF N!NameIsUnpacked
  <2> QED
    BY <1>2, <1>3, <1>4, <2>1, <2>2, <2>4, <2>5 DEF NameInv
<1>8. CASE N!Replace
  <2>1. /\ at <= Len(extDef) /\ extDef[at] = ext
        /\ at <= Len(extAdd) /\ extAdd[at] # Star
        /\ name' = N!Replaced(extAdd[at]) /\ namePc' = "done" /\ at' = at
    BY <1>8 DEF N!Replace, N!Matches, N!InLoop, N!Keeps
  <2>2. at \in N!Says
    BY <1>1, <1>5, <2>1
  <2>3. N!Min(N!Says) = at
    <3>1. N!Min(N!Says) = Min(N!Says)
      BY DEF N!Min, Min
    <3>2. N!Says \in SUBSET Nat
      BY <1>1, <1>5
    <3> QED
      BY <1>3, <2>2, <3>1, <3>2, MinIs
  <2>4. name' \in Extension \cup {NoWord, N!NoExtension}
    <3>1. extAdd[at] \in Extension \cup {NoWord, Star}
      BY <1>1, <2>1, ElementOfSeq
    <3> QED
      BY <2>1, <3>1 DEF N!Replaced
  <2>5. N!TypeOK'
    BY <1>1, <1>2, <1>6, <2>1, <2>4 DEF N!TypeOK
  <2>6. N!NameIsUnpacked'
    <3>1. N!Min(N!Says)' = at
      BY <1>4, <2>3 DEF N!Min
    <3> QED
      BY <1>2, <1>4, <2>1, <2>2, <3>1 DEF N!NameIsUnpacked, N!Replaced, N!NoExtension
  <2> QED
    BY <1>2, <2>1, <2>5, <2>6 DEF NameInv
<1>9. CASE N!ReadBeyond
  <2>1. /\ at <= Len(extDef) /\ at > Len(extAdd)
        /\ namePc' = "beyond" /\ at' = at /\ name' = name
    BY <1>9 DEF N!ReadBeyond, N!Matches, N!InLoop
  <2>2. N!TypeOK'
    BY <1>1, <1>2, <1>6, <2>1 DEF N!TypeOK
  <2>3. N!NameIsUnpacked'
    BY <2>1 DEF N!NameIsUnpacked
  <2> QED
    BY <1>2, <2>1, <2>2, <2>3 DEF NameInv
<1>10. CASE N!Finish
  <2>1. at > Len(extDef) /\ namePc' = "done" /\ at' = at /\ name' = name
    BY <1>10 DEF N!Finish
  <2>2. N!Says = {}
    <3> SUFFICES ASSUME NEW n \in N!Says PROVE FALSE
      OBVIOUS
    <3>1. n \in 1..Len(extDef) /\ at <= n
      BY <1>3, <1>5
    <3> QED
      BY <1>1, <2>1, <3>1
  <2>3. N!TypeOK'
    BY <1>1, <1>2, <1>6, <2>1 DEF N!TypeOK
  <2>4. N!NameIsUnpacked'
    BY <1>2, <1>3, <1>4, <2>1, <2>2 DEF N!NameIsUnpacked
  <2> QED
    BY <1>2, <1>3, <2>1, <2>3, <2>4 DEF NameInv
<1> QED
  BY <1>7, <1>8, <1>9, <1>10 DEF N!Next

-----------------------------------------------------------------------------
(***************************************************************************)
(* Together.                                                               *)
(***************************************************************************)
LibInv == FormatsInv /\ ChoiceInv /\ NameInv

libVars == <<vars, nameVars, accepts, format>>

\* The invariant holds at the start.
LEMMA LibInvInit ==
  LibInit => LibInv
<1> SUFFICES ASSUME LibInit PROVE LibInv
  OBVIOUS
<1>1. /\ Init /\ accepts = {} /\ format = 0 /\ pc = "list"
      /\ extDef = << >> /\ extAdd = << >> /\ ext = N!NoExtension
      /\ at = 1 /\ name = N!NoExtension /\ namePc = "idle"
  BY DEF LibInit, Init, N!Init
<1>2. FormatsInv
  BY <1>1, FormatsInit
<1>3. ChoiceInv
  BY <1>1 DEF ChoiceInv, ChosenAsAsked
<1>4. NameInv
  <2>1. 1 \in 1..(Len(<< >>) + 1)
    OBVIOUS
  <2>2. N!TypeOK
    BY <1>1, <2>1, EmptySeq DEF N!TypeOK
  <2> QED
    BY <1>1, <2>2 DEF NameInv, N!NameIsUnpacked
<1> QED
  BY <1>2, <1>3, <1>4 DEF LibInv

\* The parts that a step does not touch.
LEMMA NameRests ==
  ASSUME NameInv, UNCHANGED nameVars
  PROVE  NameInv'
<1>1. /\ extDef' = extDef /\ extAdd' = extAdd /\ ext' = ext /\ at' = at
      /\ name' = name /\ namePc' = namePc
  BY DEF nameVars
<1>2. N!Says' = N!Says
  BY <1>1 DEF N!Says
<1>3. N!NameIsUnpacked' <=> N!NameIsUnpacked
  BY <1>1, <1>2 DEF N!NameIsUnpacked, N!Min, N!Replaced, N!NoExtension
<1> QED
  BY <1>1, <1>2, <1>3 DEF NameInv, N!TypeOK, N!NoExtension

\* Choosing a format leaves the finished list alone.
LEMMA FormatsRest ==
  ASSUME FormatsInv, UNCHANGED <<library, order, formats, head, tail, current, pos>>,
         pc' = pc \/ (pc = "done" /\ pc' \in {"open", "refused", "failed"})
  PROVE  FormatsInv'
<1>1. /\ PlacedBy(pos, formats, head, tail, current)' <=>
            PlacedBy(pos, formats, head, tail, current)
      /\ DoneWith(formats)' <=> DoneWith(formats)
  BY SamePlaced
<1>2. TypeOK'
  BY DEF FormatsInv, TypeOK, Index
<1>3. /\ library' \in Libraries /\ order' \in Orders
      /\ formats' = formats /\ head' = head /\ tail' = tail
      /\ current' = current /\ pos' = pos /\ library' = library
  BY DEF FormatsInv
<1>4. CASE pc' = pc
  <2>1. (pc = "list" =>
           /\ formats = [i \in 1..Len(formats) |-> i] /\ Len(formats) <= Len(library)
           /\ head = << >> /\ tail = << >> /\ pos = 0 /\ current = "head")'
    <3>1. pc = "list" =>
            /\ formats = [i \in 1..Len(formats) |-> i] /\ Len(formats) <= Len(library)
            /\ head = << >> /\ tail = << >> /\ pos = 0 /\ current = "head"
      BY DEF FormatsInv
    <3> QED
      BY <1>3, <1>4, <3>1
  <2>2. (pc = "order" => PlacedBy(pos, formats, head, tail, current))'
    <3>1. pc = "order" => PlacedBy(pos, formats, head, tail, current)
      BY DEF FormatsInv
    <3> QED
      BY <1>1, <1>4, <3>1
  <2>3. (pc \in {"done", "open", "refused", "failed"} =>
           head = << >> /\ tail = << >> /\ DoneWith(formats))'
    <3>1. pc \in {"done", "open", "refused", "failed"} =>
            head = << >> /\ tail = << >> /\ DoneWith(formats)
      BY DEF FormatsInv
    <3> QED
      BY <1>1, <1>3, <1>4, <3>1
  <2> QED
    BY <1>2, <1>3, <2>1, <2>2, <2>3 DEF FormatsInv
<1>5. CASE pc = "done" /\ pc' \in {"open", "refused", "failed"}
  <2>1. head = << >> /\ tail = << >> /\ DoneWith(formats)
    BY <1>5 DEF FormatsInv
  <2>2. pc' # "list" /\ pc' # "order"
    BY <1>5
  <2> QED
    BY <1>1, <1>2, <1>3, <2>1, <2>2 DEF FormatsInv
<1> QED
  BY <1>4, <1>5

\* Every step keeps the invariant.
LEMMA LibInvStep ==
  LibInv /\ [LibNext]_libVars => LibInv'
<1> SUFFICES ASSUME LibInv, [LibNext]_libVars PROVE LibInv'
  OBVIOUS
<1>1. FormatsInv /\ ChoiceInv /\ NameInv
  BY DEF LibInv
<1>2. /\ library \in Libraries /\ order \in Orders /\ formats \in Seq(Index)
      /\ pc = "done" => DoneWith(formats)
  BY <1>1 DEF FormatsInv, TypeOK
<1>3. ASSUME UNCHANGED vars, UNCHANGED <<accepts, format>>
      PROVE  FormatsInv' /\ ChoiceInv'
  <2>1. UNCHANGED <<library, order, formats, head, tail, current, pos, pc>>
    BY <1>3 DEF vars
  <2>2. FormatsInv'
    <3>1. /\ UNCHANGED <<library, order, formats, head, tail, current, pos>>
          /\ pc' = pc \/ (pc = "done" /\ pc' \in {"open", "refused", "failed"})
      BY <2>1
    <3> QED
      BY <1>1, <3>1, FormatsRest
  <2>3. pc # "open" => format = 0
    BY <1>1 DEF ChoiceInv
  <2>4. ChoiceInv'
    BY <1>1, <1>3, <2>1, <2>3, SameChoice
  <2> QED
    BY <2>2, <2>4
<1>4. CASE Fill
  <2>1. Next /\ UNCHANGED <<accepts, format>> /\ UNCHANGED nameVars
    BY <1>4 DEF Fill
  <2>2. /\ library' = library /\ order' = order
        /\ pc \in {"list", "order"} /\ pc' \in {"list", "order", "done"}
    BY <2>1 DEF Next, List, Listed, StarWord, NamedWord, UnknownWord, Splice, AtWord
  <2>3. format = 0
    BY <1>1, <2>2 DEF ChoiceInv
  <2>4. ChoiceInv'
    BY <1>1, <2>1, <2>2, <2>3, SameChoice
  <2> QED
    BY <1>1, <2>1, <2>4, FormatsStep, NameRests DEF LibInv
<1>5. CASE Open
  <2>1. /\ pc = "done" /\ pc' = "open"
        /\ UNCHANGED <<library, order, formats, head, tail, current, pos>>
        /\ UNCHANGED nameVars
    BY <1>5 DEF Open
  <2>2. PICK k \in Selected(accepts') : format' = formats[k]
    BY <1>5 DEF Open
  <2>3. accepts' \in SUBSET Nat
    BY <1>5, ListsAssumption DEF Open
  <2>4. /\ format' \in accepts' /\ format' \in Index
        /\ order # Unset =>
             \A g \in (accepts' \cap Index) \ {format'} : Precedes(format', g)
    BY <1>2, <2>1, <2>2, FirstSelected
  <2>5. Index' = Index /\ \A g : Precedes(format, g)' <=> Precedes(format', g)
    BY <2>1 DEF Index, Precedes, Group, Mentions, StarAt, First
  <2>6. ChoiceInv'
    BY <2>1, <2>3, <2>4, <2>5 DEF ChoiceInv, ChosenAsAsked
  <2> QED
    BY <1>1, <2>1, <2>6, FormatsRest, NameRests DEF LibInv
<1>6. CASE Refuse
  <2>1. /\ pc = "done" /\ pc' = "refused"
        /\ UNCHANGED <<library, order, formats, head, tail, current, pos, format>>
        /\ UNCHANGED nameVars
        /\ Selected(accepts') = {}
    BY <1>6 DEF Refuse
  <2>2. accepts' \in SUBSET Nat
    BY <1>6, ListsAssumption DEF Refuse
  <2>3. accepts' \cap Index = {}
    BY <1>2, <2>1, SomeSelected
  <2>4. format = 0
    BY <1>1, <2>1 DEF ChoiceInv
  <2>5. Index' = Index
    BY <2>1 DEF Index
  <2>6. ChoiceInv'
    BY <2>1, <2>2, <2>3, <2>4, <2>5 DEF ChoiceInv, ChosenAsAsked
  <2> QED
    BY <1>1, <2>1, <2>6, FormatsRest, NameRests DEF LibInv
<1>7. CASE CreateFails
  <2>1. /\ pc = "done" /\ pc' = "failed"
        /\ UNCHANGED <<library, order, formats, head, tail, current, pos>>
        /\ UNCHANGED <<accepts, format>> /\ UNCHANGED nameVars
    BY <1>7 DEF CreateFails
  <2>2. format = 0
    BY <1>1, <2>1 DEF ChoiceInv
  <2>3. ChoiceInv'
    BY <1>1, <2>1, <2>2, SameChoice
  <2> QED
    BY <1>1, <2>1, <2>3, FormatsRest, NameRests DEF LibInv
<1>8. CASE AskName
  <2>1. UNCHANGED vars /\ UNCHANGED <<accepts, format>>
    BY <1>8 DEF AskName
  <2>2. NameInv'
    BY <1>1, <1>2, <1>8, NameEnters DEF AskName
  <2> QED
    BY <1>3, <2>1, <2>2 DEF LibInv
<1>9. CASE MakeName
  <2>1. N!Next /\ UNCHANGED vars /\ UNCHANGED <<accepts, format>>
    BY <1>9 DEF MakeName
  <2> QED
    BY <1>1, <1>3, <2>1, NameStep DEF LibInv
<1>10. CASE UNCHANGED libVars
  <2>1. UNCHANGED vars /\ UNCHANGED nameVars /\ UNCHANGED <<accepts, format>>
    BY <1>10 DEF libVars
  <2> QED
    BY <1>1, <1>3, <2>1, NameRests DEF LibInv
<1> QED
  BY <1>4, <1>5, <1>6, <1>7, <1>8, <1>9, <1>10 DEF LibNext

\* What is on the three lists together.
LEMMA OnceEach ==
  LibInv => EveryFormatOnce
<1> SUFFICES ASSUME LibInv PROVE EveryFormatOnce
  OBVIOUS
<1>1. /\ library \in Libraries /\ order \in Orders
      /\ formats \in Seq(Index) /\ head \in Seq(Index) /\ tail \in Seq(Index)
      /\ pos \in Nat /\ pc \in {"list", "order", "done", "open", "refused", "failed"}
  BY DEF LibInv, FormatsInv, TypeOK
<1>2. ASSUME head = << >>, tail = << >> PROVE All = formats
  BY <1>1, <1>2, ConcatEmptySeq DEF All
<1>3. CASE pc = "list"
  <2>1. /\ formats = [i \in 1..Len(formats) |-> i] /\ Len(formats) \in Nat
        /\ All = formats
    BY <1>1, <1>2, <1>3, LenProperties DEF LibInv, FormatsInv
  <2>2. ToSet(formats) = 1..Len(formats)
    BY <2>1, Identity
  <2>3. IsInjective(formats)
    <3>1. DOMAIN formats = 1..Len(formats) /\ \A i \in 1..Len(formats) : formats[i] = i
      BY <2>1
    <3> QED
      BY <3>1 DEF IsInjective
  <2> QED
    BY <1>3, <2>1, <2>2, <2>3 DEF EveryFormatOnce
<1>4. CASE pc = "order"
  <2>1. PlacedBy(pos, formats, head, tail, current)
    BY <1>4 DEF LibInv, FormatsInv
  <2>2. All \in Seq(Index) /\ ToSet(All) = Index /\ Ascends(All, Differ)
    BY <1>1, <2>1, PlacedOnce DEF All
  <2>3. IsInjective(All)
    BY <1>1, <2>2, DifferInject
  <2> QED
    BY <1>4, <2>2, <2>3 DEF EveryFormatOnce
<1>5. CASE pc \in {"done", "open", "refused", "failed"}
  <2>1. All = formats /\ DoneWith(formats)
    BY <1>2, <1>5 DEF LibInv, FormatsInv
  <2>2. IsInjective(formats)
    BY <1>1, <2>1, DifferInject DEF DoneWith
  <2> QED
    BY <1>5, <2>1, <2>2 DEF EveryFormatOnce, DoneWith
<1> QED
  BY <1>1, <1>3, <1>4, <1>5

\* The finished list is in the order asked for.
LEMMA AsAsked ==
  LibInv => OrderIsAsAsked
<1> SUFFICES ASSUME LibInv, pc = "done", order # Unset
             PROVE  \A i, j \in Index : i < j => Precedes(formats[i], formats[j])
  BY DEF OrderIsAsAsked
<1>1. /\ library \in Libraries /\ order \in Orders /\ formats \in Seq(Index)
      /\ DoneWith(formats)
  BY DEF LibInv, FormatsInv, TypeOK
<1>2. Len(formats) = Len(library)
  <2>1. /\ Len(formats) \in Nat /\ DOMAIN formats = 1..Len(formats)
        /\ formats \in [1..Len(formats) -> Index]
    BY <1>1, LenProperties
  <2>2. IsInjective(formats)
    BY <1>1, DifferInject DEF DoneWith
  <2>3. \A f \in Index : \E i \in 1..Len(formats) : f = formats[i]
    BY <1>1, ElementsOf DEF DoneWith
  <2>4. Index = 1..Len(library) /\ Len(library) \in Nat
    BY <1>1, Names
  <2>9. ASSUME NEW n \in Nat PROVE Cardinality(1..n) = n /\ IsFiniteSet(1..n)
    BY FS_Interval
  <2>5. Cardinality(1..Len(formats)) = Len(formats) /\ IsFiniteSet(1..Len(formats))
    BY <2>1, <2>9
  <2>6. Cardinality(Index) = Len(library) /\ IsFiniteSet(Index)
    BY <2>4, <2>9
  <2>7. formats \in Bijection(1..Len(formats), Index)
    <3>1. formats \in Injection(1..Len(formats), Index)
      BY <2>1, <2>2 DEF Injection, IsInjective
    <3>2. formats \in Surjection(1..Len(formats), Index)
      <4>1. \A f \in Index : \E i \in 1..Len(formats) : formats[i] = f
        BY <2>3
      <4> QED
        BY <2>1, <4>1, Zenon DEF Surjection
    <3> QED
      BY <3>1, <3>2 DEF Bijection
  <2>8. ExistsBijection(1..Len(formats), Index)
    BY <2>7 DEF ExistsBijection
  <2> QED
    BY <2>5, <2>6, <2>8, FS_Bijection
<1>3. Index = 1..Len(formats)
  BY <1>2 DEF Index
<1>4. \A i, j \in 1..Len(formats) : i < j => <<formats[i], formats[j]>> \in InOrder
  BY <1>1 DEF DoneWith, Ascends
<1> QED
  BY <1>3, <1>4, Pairs

-----------------------------------------------------------------------------
(***************************************************************************)
(* Theorems.                                                               *)
(***************************************************************************)
\* What LibInv says of the list, the choice and the name holds throughout.
THEOREM Inductive == LibSpec => []LibInv
BY LibInvInit, LibInvStep, PTL DEF LibSpec, libVars

\* Everything keeps its type.
THEOREM TypeCorrect == LibSpec => []LibTypeOK
<1>1. LibInv => LibTypeOK
  BY DEF LibInv, FormatsInv, ChoiceInv, NameInv, LibTypeOK
<1> QED
  BY <1>1, Inductive, PTL

\* Whatever FUSE3_P7ZIP_FORMATS names, however often, and while the list is
\* being rearranged, no format is lost and none is there twice.
THEOREM NoFormatLost == LibSpec => []EveryFormatOnce
BY OnceEach, Inductive, PTL

\* When the variable is set, the list is in the order it asks for.
THEOREM OrderAsAsked == LibSpec => []OrderIsAsAsked
BY AsAsked, Inductive, PTL

\* The archive is opened with the accepting format that the variable puts
\* first, and is refused for its data only if there is none.
THEOREM FirstOfTheWish == LibSpec => []ChosenAsAsked
<1>1. LibInv => ChosenAsAsked
  BY DEF LibInv, ChoiceInv
<1> QED
  BY <1>1, Inductive, PTL

\* The proposed name is the one the format's two lists describe.
THEOREM NameAsDescribed == LibSpec => []NameIsUnpacked
<1>1. LibInv => NameIsUnpacked
  BY DEF LibInv, NameInv, NameIsUnpacked
<1> QED
  BY <1>1, Inductive, PTL
=============================================================================
