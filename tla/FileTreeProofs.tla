--------------------------- MODULE FileTreeProofs ---------------------------
(***************************************************************************)
(* Proofs about FileTree, for every archive: the map execute() builds is   *)
(* closed under taking parents, its files lead into the archive, and no    *)
(* item takes the place of the mount point; the loops implement the filing *)
(* of whole items, and the map is the one the archive defines.             *)
(***************************************************************************)
EXTENDS FileTree, SequenceTheorems, NumbersProofs

-----------------------------------------------------------------------------
(***************************************************************************)
(* Paths, their parents and their prefixes.                                *)
(***************************************************************************)
\* A beginning of a path is a path of the length one would think.
LEMMA BeginningOfPath ==
  ASSUME NEW q \in Path, NEW n \in 0..Len(q)
  PROVE  /\ SubSeq(q, 1, n) \in Path
         /\ Len(SubSeq(q, 1, n)) = n
         /\ \A k \in 1..n : SubSeq(q, 1, n)[k] = q[k]
<1>1. \A k \in 1..n : q[k] \in Name
  BY ElementOfSeq DEF Path
<1>2. n \in Nat
  BY LenProperties DEF Path
<1> QED
  BY <1>1, <1>2, SubSeqProperties DEF Path

\* parent_path shortens a path by one; a path is its own longest prefix.
LEMMA ParentOfPath ==
  ASSUME NEW q \in Path, q # Root
  PROVE  /\ ParentPath(q) \in Path
         /\ Len(ParentPath(q)) = Len(q) - 1
         /\ ParentPath(q) = SubSeq(q, 1, Len(q) - 1)
         /\ Len(q) - 1 \in 0..Len(q)
<1>1. Len(q) - 1 \in 0..Len(q)
  BY EmptySeq DEF Path, Root
<1> QED
  BY <1>1, BeginningOfPath DEF ParentPath, Front

\* A beginning of a beginning is a beginning.
LEMMA BeginningOfBeginning ==
  ASSUME NEW q \in Path, NEW n \in 0..Len(q), NEW k \in 0..n
  PROVE  SubSeq(SubSeq(q, 1, n), 1, k) = SubSeq(q, 1, k)
<1> DEFINE b == SubSeq(q, 1, n)
<1>1. Len(q) \in Nat
  BY LenProperties DEF Path
<1>2. b \in Path /\ Len(b) = n /\ \A j \in 1..n : b[j] = q[j]
  BY BeginningOfPath
<1>3. k \in 0..Len(q) /\ k \in 0..Len(b)
  BY <1>1, <1>2
<1>4. /\ SubSeq(b, 1, k) \in Path
      /\ Len(SubSeq(b, 1, k)) = k
      /\ \A j \in 1..k : SubSeq(b, 1, k)[j] = b[j]
  BY <1>2, <1>3, BeginningOfPath
<1>5. /\ SubSeq(q, 1, k) \in Path
      /\ Len(SubSeq(q, 1, k)) = k
      /\ \A j \in 1..k : SubSeq(q, 1, k)[j] = q[j]
  BY <1>3, BeginningOfPath
<1>6. \A j \in 1..k : SubSeq(b, 1, k)[j] = SubSeq(q, 1, k)[j]
  BY <1>1, <1>2, <1>4, <1>5
<1> QED
  BY <1>4, <1>5, <1>6, SeqEqual DEF Path

\* The prefixes of a path other than "/" are itself and its parent's.
LEMMA PrefixesOfPath ==
  ASSUME NEW q \in Path, q # Root
  PROVE  /\ Prefixes(q) = {q} \cup Prefixes(ParentPath(q))
         /\ q \notin Prefixes(ParentPath(q))
<1> DEFINE m == Len(q) - 1
<1>1. /\ ParentPath(q) = SubSeq(q, 1, m) /\ ParentPath(q) \in Path
      /\ Len(ParentPath(q)) = m /\ m \in 0..Len(q)
  BY ParentOfPath
<1>2. Len(q) \in Nat /\ 0..Len(q) = (0..m) \cup {Len(q)}
  BY <1>1, LenProperties DEF Path
<1>3. \A k \in 0..m : SubSeq(ParentPath(q), 1, k) = SubSeq(q, 1, k)
  BY <1>1, BeginningOfBeginning
<1>4. SubSeq(q, 1, Len(q)) = q
  BY SubSeqFull DEF Path
<1>5. Prefixes(q) = {q} \cup Prefixes(ParentPath(q))
  BY <1>1, <1>2, <1>3, <1>4 DEF Prefixes
<1>6. \A k \in 0..m : Len(SubSeq(ParentPath(q), 1, k)) = k
  BY <1>1, BeginningOfPath
<1>7. q \notin Prefixes(ParentPath(q))
  BY <1>1, <1>2, <1>6 DEF Prefixes
<1> QED
  BY <1>5, <1>7

\* "/" has no other prefix.
LEMMA PrefixesOfRoot == Prefixes(Root) = {Root}
<1>1. Len(Root) = 0 /\ 0..0 = {0}
  BY DEF Root
<1>2. SubSeq(Root, 1, 0) = Root
  BY SubSeqEmpty DEF Root
<1> QED
  BY <1>1, <1>2 DEF Prefixes

\* A path is one of its prefixes, and prefixes of prefixes are prefixes.
LEMMA PrefixesNest ==
  ASSUME NEW q \in Path
  PROVE  /\ q \in Prefixes(q)
         /\ \A r \in Prefixes(q) : r \in Path /\ Prefixes(r) \subseteq Prefixes(q)
<1>1. q \in Prefixes(q)
  BY SubSeqFull, LenProperties DEF Path, Prefixes
<1>2. ASSUME NEW r \in Prefixes(q)
      PROVE  r \in Path /\ Prefixes(r) \subseteq Prefixes(q)
  <2>1. PICK n \in 0..Len(q) : r = SubSeq(q, 1, n)
    BY DEF Prefixes
  <2>2. r \in Path /\ Len(r) = n
    BY <2>1, BeginningOfPath
  <2>3. \A k \in 0..n : SubSeq(r, 1, k) = SubSeq(q, 1, k)
    BY <2>1, BeginningOfBeginning
  <2>4. Len(q) \in Nat /\ 0..n \subseteq 0..Len(q)
    BY LenProperties DEF Path
  <2> QED
    BY <2>2, <2>3, <2>4 DEF Prefixes
<1> QED
  BY <1>1, <1>2

\* The path an item is filed under is never "/" itself.
LEMMA EntryPathNotRoot ==
  ASSUME NEW i \in Item
  PROVE  EntryPath(i) \in Path /\ EntryPath(i) # Root
<1> DEFINE base == IF i.path = Root /\ i.name = NoName THEN ProposedName ELSE i.name
           name == IF i.ext = NoExt THEN base ELSE Dotted(base, i.ext)
<1>1. i.path \in Path /\ base \in Stem \cup {NoName}
  BY NameAssumption DEF Item
<1>2. name \in Name \cup {NoName}
  BY <1>1, NameAssumption DEF Item
<1>3. CASE name = NoName
  <2>1. i.path # Root
    BY <1>1, <1>3, NameAssumption DEF Item
  <2> QED
    BY <1>1, <1>3, <2>1 DEF EntryPath
<1>4. CASE name # NoName
  <2>1. name \in Name /\ EntryPath(i) = Append(i.path, name)
    BY <1>2, <1>4 DEF EntryPath
  <2> HIDE DEF name
  <2> QED
    BY <1>1, <2>1, AppendProperties DEF Path, Root
<1> QED
  BY <1>3, <1>4

-----------------------------------------------------------------------------
(***************************************************************************)
(* The inductive invariant.  While the inner loop climbs, the paths filed  *)
(* in this round still lack ancestors: exactly those the climb has ahead   *)
(* of it, p and its prefixes.                                              *)
(***************************************************************************)
\* it stands on an item unless it is at the end, and points into the archive.
IteratorInv ==
  /\ it.bound
  /\ it.index <= Len(arc)
  /\ it.end <=> it.index = Len(arc)
  /\ pc = "climb" => it.index < Len(arc)

HasAncestors(q) == Prefixes(q) \subseteq DOMAIN tree

AncestorsAhead(q) ==
  /\ pc = "climb"
  /\ p \in Prefixes(q) \ {q}
  /\ Prefixes(q) \subseteq DOMAIN tree \cup Prefixes(p)

AncestorsInv == \A q \in DOMAIN tree : HasAncestors(q) \/ AncestorsAhead(q)

IInv == TypeOK /\ IteratorInv /\ RootIsDirectory /\ AncestorsInv /\ FilesAreExtractable

\* The item the iterator stands on.
LEMMA CurrentItem ==
  ASSUME TypeOK, IteratorInv, it.index < Len(arc)
  PROVE  Current \in Item
<1>1. it.index + 1 \in 1..Len(arc)
  BY LenProperties DEF TypeOK, Iterator
<1> QED
  BY <1>1, ElementOfSeq DEF TypeOK, Current

\* ++ keeps the iterator typed and at the end exactly behind the last item.
LEMMA Incremented ==
  ASSUME TypeOK, IteratorInv, it.index < Len(arc), NEW j, j = Increment(it, Len(arc))
  PROVE  /\ j \in Iterator /\ j.bound
         /\ j.index = it.index + 1
         /\ j.index <= Len(arc)
         /\ j.end <=> j.index = Len(arc)
<1>1. Len(arc) \in Nat /\ it.index \in Nat /\ it.end \in BOOLEAN /\ it.bound \in BOOLEAN
  BY LenProperties DEF TypeOK, Iterator
<1>2. j = [bound |-> it.bound, index |-> it.index + 1,
           end |-> it.end \/ it.index + 1 >= Len(arc)]
  BY DEF Increment, TypeOK, Iterator
<1>3. it.end <=> it.index = Len(arc)
  BY DEF IteratorInv
<1>4. it.bound = TRUE
  BY <1>1 DEF IteratorInv
<1> DEFINE atEnd == it.end \/ it.index + 1 >= Len(arc)
<1>5. atEnd \in BOOLEAN /\ (atEnd <=> it.index + 1 = Len(arc))
  BY <1>1, <1>3
<1>6. j = [bound |-> TRUE, index |-> it.index + 1, end |-> atEnd]
  BY <1>2, <1>4
<1> HIDE DEF atEnd
<1>7. j.bound = TRUE /\ j.index = it.index + 1 /\ j.end = atEnd
  BY <1>6
<1>8. j \in Iterator
  BY <1>1, <1>5, <1>6 DEF Iterator
<1>9. j.index <= Len(arc)
  BY <1>1, <1>7
<1>10. j.end <=> j.index = Len(arc)
  BY <1>5, <1>7
<1> QED
  BY <1>7, <1>8, <1>9, <1>10

\* The loop's end test asks whether the iterator is at the end.
LEMMA EndTest ==
  ASSUME TypeOK, IteratorInv
  PROVE  Same(it, End) <=> it.end
BY DEF Same, End, IteratorInv, TypeOK, Iterator

\* The conversion of a date makes a timespec.
LEMMA DateTyped ==
  ASSUME NEW ft \in 0..(Modulus - 1)
  PROVE  ToTime(ft) \in Time
<1> DEFINE date == (ft - Epoch) % Modulus
<1>1. Modulus \in Nat \ {0} /\ Tick \in Nat \ {0} /\ ft - Epoch \in Int
  BY TimeAssumption
<1>2. date \in Int
  BY <1>1
<1> HIDE DEF date
<1>3. date \div Tick \in Int
  BY <1>1, <1>2
<1>4. ToTime(ft) = [sec |-> date \div Tick, nsec |-> date]
  BY DEF ToTime, date
<1> QED
  BY <1>2, <1>3, <1>4 DEF Time

\* The entries the loops make are entries.
LEMMA EntriesTyped ==
  ASSUME NEW i \in Item, NEW pos \in Iterator
  PROVE  /\ ItemEntry(i, pos) \in Entry
         /\ ImpliedEntry(i) \in Entry
         /\ RootEntry \in Entry
<1>1. ItemSize(i) \in Nat
  BY DEF ItemSize, Item
<1>2. End \in Iterator
  BY DEF End, Iterator
<1>3. ItemTime(i) \in Time
  BY DateTyped DEF ItemTime, Item, Time
<1>4. FileStat(i) \in Stat
  BY <1>1, <1>3 DEF FileStat, Stat
<1> QED
  BY <1>2, <1>4, ArchivesAssumption DEF ItemEntry, ImpliedEntry, RootEntry, Entry

-----------------------------------------------------------------------------
LEMMA InitIInv == Init => IInv
<1> SUFFICES ASSUME Init PROVE IInv
  OBVIOUS
<1> USE DEF Init
<1>1. arc \in Seq(Item) /\ Len(arc) \in Nat
  BY ArchivesAssumption, LenProperties
<1>2. it = [bound |-> TRUE, index |-> 0, end |-> Len(arc) = 0]
  BY DEF Begin
<1>3. it \in Iterator
  BY <1>1, <1>2 DEF Iterator
<1>4. Root \in Path
  BY EmptySeq DEF Root, Path
<1>5. RootEntry \in Entry
  BY ArchivesAssumption DEF RootEntry, Entry, End, Iterator
<1>6. TypeOK
  BY <1>1, <1>3, <1>4, <1>5 DEF TypeOK
<1>7. IteratorInv
  <2> DEFINE atEnd == Len(arc) = 0
  <2>1. it = [bound |-> TRUE, index |-> 0, end |-> atEnd]
    BY <1>2
  <2>2. atEnd <=> 0 = Len(arc)
    BY <1>1
  <2> HIDE DEF atEnd
  <2>3. it.bound /\ it.index = 0 /\ it.end = atEnd
    BY <2>1
  <2>4. (it.end <=> it.index = Len(arc)) /\ it.index <= Len(arc)
    BY <1>1, <2>2, <2>3
  <2>5. pc # "climb"
    OBVIOUS
  <2> HIDE DEF Init
  <2> QED
    BY <2>3, <2>4, <2>5 DEF IteratorInv
<1>8. RootIsDirectory
  BY DEF RootIsDirectory
<1>9. Prefixes(Root) = {Root}
  BY PrefixesOfRoot
<1>10. AncestorsInv
  BY <1>9 DEF AncestorsInv, HasAncestors
<1>11. FilesAreExtractable
  BY DEF FilesAreExtractable, RootEntry
<1> QED
  BY <1>6, <1>7, <1>8, <1>10, <1>11 DEF IInv

LEMMA NextIInv == IInv /\ [Next]_vars => IInv'
<1> SUFFICES ASSUME IInv, [Next]_vars PROVE IInv'
  OBVIOUS
<1>0. /\ TypeOK /\ IteratorInv /\ RootIsDirectory /\ AncestorsInv
      /\ FilesAreExtractable
  BY DEF IInv
<1>t. /\ arc \in Seq(Item) /\ Len(arc) \in Nat /\ it \in Iterator
      /\ it.index \in Nat /\ p \in Path
      /\ \A q \in DOMAIN tree : q \in Path /\ tree[q] \in Entry
  BY <1>0, LenProperties DEF TypeOK, Iterator
<1>1. CASE FileItem
  <2> DEFINE path == EntryPath(Current)
             entry == ItemEntry(Current, it)
  <2>1. it.index < Len(arc)
    BY <1>0, <1>1, <1>t, EndTest DEF FileItem, IteratorInv
  <2>2. Current \in Item
    BY <1>0, <2>1, CurrentItem
  <2>3. path \in Path /\ path # Root
    BY <2>2, EntryPathNotRoot
  <2>4. entry \in Entry
    BY <2>2, <1>t, EntriesTyped
  <2>5. /\ DOMAIN tree' = DOMAIN tree \cup {path}
        /\ tree'[path] = entry
        /\ \A q \in DOMAIN tree \ {path} : tree'[q] = tree[q]
    BY <1>1 DEF FileItem, InsertOrAssign
  <2>6. p' = ParentPath(path) /\ p' \in Path
    BY <1>1, <2>3, ParentOfPath DEF FileItem
  <2>7. pc = "item" /\ pc' = "climb" /\ arc' = arc /\ it' = it
    BY <1>1 DEF FileItem
  <2> HIDE DEF path, entry
  <2>8. TypeOK'
    BY <1>t, <2>3, <2>4, <2>5, <2>6, <2>7 DEF TypeOK
  <2>9. IteratorInv'
    BY <1>0, <2>1, <2>7 DEF IteratorInv
  <2>10. RootIsDirectory'
    BY <1>0, <2>3, <2>5 DEF RootIsDirectory
  <2>11. AncestorsInv'
    <3> SUFFICES ASSUME NEW q \in DOMAIN tree'
                 PROVE  HasAncestors(q)' \/ AncestorsAhead(q)'
      BY DEF AncestorsInv
    <3>1. CASE q = path
      <4>1. Prefixes(path) = {path} \cup Prefixes(p')
        BY <2>3, <2>6, PrefixesOfPath
      <4>2. path \notin Prefixes(p')
        BY <2>3, <2>6, PrefixesOfPath
      <4>3. p' \in Prefixes(p')
        BY <2>6, PrefixesNest
      <4> QED
        BY <3>1, <4>1, <4>2, <4>3, <2>5, <2>7 DEF AncestorsAhead
    <3>2. CASE q \in DOMAIN tree
      <4>1. HasAncestors(q)
        BY <1>0, <2>7, <3>2 DEF AncestorsInv, AncestorsAhead
      <4> QED
        BY <4>1, <2>5 DEF HasAncestors
    <3> QED
      BY <3>1, <3>2, <2>5
  <2>12. FilesAreExtractable'
    <3> SUFFICES ASSUME NEW q \in DOMAIN tree', tree'[q].kind = "file"
                 PROVE  /\ tree'[q].it.bound
                        /\ tree'[q].it.index < Filed'
                        /\ EntryPath(arc'[tree'[q].it.index + 1]) = q
                        /\ ~arc'[tree'[q].it.index + 1].dir
      BY DEF FilesAreExtractable
    <3>1. Filed = it.index /\ Filed' = it.index + 1
      BY <2>7, <1>t DEF Filed
    <3>2. CASE q = path
      <4>1. entry.it = it /\ (entry.kind = "file" => ~Current.dir)
        BY DEF entry, ItemEntry
      <4>2. Current = arc[it.index + 1]
        BY DEF Current
      <4> QED
        BY <1>0, <1>t, <2>5, <2>7, <3>1, <3>2, <4>1, <4>2 DEF IteratorInv, path
    <3>3. CASE q # path
      <4>1. q \in DOMAIN tree /\ tree'[q] = tree[q]
        BY <2>5, <3>3
      <4>2. tree[q].it.index \in Nat
        BY <1>t, <4>1 DEF Entry, Iterator
      <4>3. /\ tree[q].it.bound
            /\ tree[q].it.index < Filed
            /\ EntryPath(arc[tree[q].it.index + 1]) = q
            /\ ~arc[tree[q].it.index + 1].dir
        BY <1>0, <4>1 DEF FilesAreExtractable
      <4> QED
        BY <1>t, <2>7, <3>1, <4>1, <4>2, <4>3
    <3> QED
      BY <3>2, <3>3
  <2> QED
    BY <2>8, <2>9, <2>10, <2>11, <2>12 DEF IInv
<1>2. CASE AddParent
  <2> DEFINE entry == ImpliedEntry(Current)
  <2>1. /\ pc = "climb" /\ pc' = "climb" /\ p # Root /\ p \notin DOMAIN tree
        /\ arc' = arc /\ it' = it
    BY <1>2 DEF AddParent, ClimbEnds
  <2>2. it.index < Len(arc) /\ Current \in Item
    BY <1>0, <2>1, CurrentItem DEF IteratorInv
  <2>3. entry \in Entry /\ entry.kind = "dir"
    BY <2>2, <1>t, EntriesTyped DEF ImpliedEntry
  <2>4. /\ DOMAIN tree' = DOMAIN tree \cup {p}
        /\ tree'[p] = entry
        /\ \A q \in DOMAIN tree : tree'[q] = tree[q]
    BY <1>2, <2>1 DEF AddParent, Emplace
  <2>5. p' = ParentPath(p) /\ p' \in Path
    BY <1>2, <1>t, <2>1, ParentOfPath DEF AddParent
  <2> HIDE DEF entry
  <2>6. TypeOK'
    BY <1>t, <2>1, <2>3, <2>4, <2>5 DEF TypeOK
  <2>7. IteratorInv'
    BY <1>0, <2>1 DEF IteratorInv
  <2>8. RootIsDirectory'
    BY <1>0, <2>1, <2>4 DEF RootIsDirectory
  <2>9. /\ Prefixes(p) = {p} \cup Prefixes(p')
        /\ p \notin Prefixes(p')
        /\ p' \in Prefixes(p')
    BY <1>t, <2>1, <2>5, PrefixesOfPath, PrefixesNest
  <2>10. AncestorsInv'
    <3> SUFFICES ASSUME NEW q \in DOMAIN tree'
                 PROVE  HasAncestors(q)' \/ AncestorsAhead(q)'
      BY DEF AncestorsInv
    <3>1. CASE q = p
      BY <2>1, <2>4, <2>9, <3>1 DEF AncestorsAhead
    <3>2. CASE q \in DOMAIN tree /\ HasAncestors(q)
      BY <2>4, <3>2 DEF HasAncestors
    <3>3. CASE q \in DOMAIN tree /\ AncestorsAhead(q)
      <4>1. /\ p \in Prefixes(q) /\ p # q
            /\ Prefixes(q) \subseteq DOMAIN tree \cup Prefixes(p)
        BY <3>3 DEF AncestorsAhead
      <4>2. Prefixes(p) \subseteq Prefixes(q)
        BY <1>t, <3>3, <4>1, PrefixesNest
      <4>3. p' # q
        <5>1. SUFFICES ASSUME p' = q PROVE FALSE
          OBVIOUS
        <5>2. p \in Prefixes(p')
          BY <4>1, <5>1
        <5> QED
          BY <5>2, <2>9
      <4> QED
        BY <2>1, <2>4, <2>9, <4>1, <4>2, <4>3 DEF AncestorsAhead
    <3> QED
      BY <1>0, <2>4, <3>1, <3>2, <3>3 DEF AncestorsInv
  <2>11. FilesAreExtractable'
    <3>1. Filed' = Filed
      BY <2>1 DEF Filed
    <3> QED
      BY <1>0, <2>1, <2>3, <2>4, <3>1 DEF FilesAreExtractable
  <2> QED
    BY <2>6, <2>7, <2>8, <2>10, <2>11 DEF IInv
<1>3. CASE NextItem
  <2>1. /\ pc = "climb" /\ pc' = "item" /\ ClimbEnds
        /\ arc' = arc /\ tree' = tree /\ p' = p
        /\ it' = Increment(it, Len(arc))
    BY <1>3 DEF NextItem
  <2>2. it.index < Len(arc)
    BY <1>0, <2>1 DEF IteratorInv
  <2>3. /\ it' \in Iterator /\ it'.bound /\ it'.index = it.index + 1
        /\ it'.index <= Len(arc) /\ (it'.end <=> it'.index = Len(arc))
    BY <1>0, <2>1, <2>2, Incremented
  <2>4. TypeOK'
    BY <1>t, <2>1, <2>3 DEF TypeOK
  <2>5. IteratorInv'
    BY <2>1, <2>3 DEF IteratorInv
  <2>6. RootIsDirectory'
    BY <1>0, <2>1 DEF RootIsDirectory
  <2>7. Prefixes(p) \subseteq DOMAIN tree
    <3>1. CASE p = Root
      <4>1. Prefixes(Root) = {Root}
        BY PrefixesOfRoot
      <4> QED
        BY <1>0, <3>1, <4>1 DEF RootIsDirectory
    <3>2. CASE p \in DOMAIN tree
      BY <1>0, <3>2 DEF AncestorsInv, HasAncestors, AncestorsAhead
    <3> QED
      BY <2>1, <3>1, <3>2 DEF ClimbEnds
  <2>8. AncestorsInv'
    BY <1>0, <2>1, <2>7 DEF AncestorsInv, HasAncestors, AncestorsAhead
  <2>9. FilesAreExtractable'
    <3>1. Filed' = Filed
      BY <1>t, <2>1, <2>3 DEF Filed
    <3> QED
      BY <1>0, <2>1, <3>1 DEF FilesAreExtractable
  <2> QED
    BY <2>4, <2>5, <2>6, <2>8, <2>9 DEF IInv
<1>4. CASE Finish \/ ItemThrows
  <2>1. /\ pc = "item" /\ pc' \in {"built", "thrown"}
        /\ arc' = arc /\ it' = it /\ tree' = tree /\ p' = p
    BY <1>4 DEF Finish, ItemThrows
  <2>2. Filed' = Filed
    BY <2>1 DEF Filed
  <2> QED
    BY <1>0, <2>1, <2>2 DEF IInv, TypeOK, IteratorInv, RootIsDirectory,
       AncestorsInv, HasAncestors, AncestorsAhead, FilesAreExtractable
<1>5. CASE UNCHANGED vars
  BY <1>0, <1>5 DEF vars, IInv, TypeOK, IteratorInv, RootIsDirectory,
     AncestorsInv, HasAncestors, AncestorsAhead, FilesAreExtractable, Filed
<1> QED
  BY <1>1, <1>2, <1>3, <1>4, <1>5 DEF Next

\* The inductive invariant holds throughout.
THEOREM Inductive == Spec => []IInv
BY InitIInv, NextIInv, PTL DEF Spec

-----------------------------------------------------------------------------
\* The map, the iterator and the loop variables keep their types.
THEOREM TypeCorrect == Spec => []TypeOK
<1>1. IInv => TypeOK
  BY DEF IInv
<1> QED
  BY <1>1, Inductive, PTL

\* Whatever the archive lists, the entry of "/" stays the directory that
\* execute() put there: nameless items get the proposed name instead.
THEOREM RootStays == Spec => []RootIsDirectory
<1>1. IInv => RootIsDirectory
  BY DEF IInv
<1> QED
  BY <1>1, Inductive, PTL

\* cb_open never follows the null archive pointer of an end iterator: every
\* path shown as a regular file leads to a file item filed under that path.
THEOREM FilesLeadIntoArchive == Spec => []FilesAreExtractable
<1>1. IInv => FilesAreExtractable
  BY DEF IInv
<1> QED
  BY <1>1, Inductive, PTL

\* Descending directory by directory from "/" finds every entry, although
\* each climb stops at the first path it knows.
THEOREM WalkIsComplete == Spec => []WalkFindsEveryEntry
<1>1. IInv => WalkFindsEveryEntry
  <2> SUFFICES ASSUME IInv, pc # "climb",
                      NEW q \in DOMAIN tree, NEW n \in 0..(Len(q) - 1)
               PROVE  /\ ~ReadDirRefused(SubSeq(q, 1, n))
                      /\ SubSeq(q, 1, n + 1) \in ReadDir(SubSeq(q, 1, n))
    BY DEF WalkFindsEveryEntry
  <2> DEFINE a == SubSeq(q, 1, n)
             c == SubSeq(q, 1, n + 1)
  <2>1. q \in Path /\ Prefixes(q) \subseteq DOMAIN tree
    BY DEF IInv, TypeOK, AncestorsInv, HasAncestors, AncestorsAhead
  <2>2. Len(q) \in Nat /\ n \in 0..Len(q) /\ n + 1 \in 0..Len(q)
        /\ n \in 0..(n + 1) /\ n + 1 \in Nat
    BY <2>1, LenProperties DEF Path
  <2>3. a \in DOMAIN tree /\ c \in DOMAIN tree
    BY <2>1, <2>2 DEF Prefixes
  <2>4. c \in Path /\ Len(c) = n + 1
    BY <2>1, <2>2, BeginningOfPath
  <2>5. c # Root
    BY <2>2, <2>4, EmptySeq DEF Root
  <2>6. ParentPath(c) = SubSeq(c, 1, n)
    BY <2>2, <2>4 DEF ParentPath, Front
  <2>7. SubSeq(c, 1, n) = a
    BY <2>1, <2>2, BeginningOfBeginning
  <2>8. FileName(c) \in Name
    <3>1. Len(c) \in 1..Len(c)
      BY <2>2, <2>4
    <3> QED
      BY <2>4, <2>5, <3>1, ElementOfSeq DEF FileName, Last, Path
  <2> QED
    BY <2>3, <2>6, <2>7, <2>8, NameAssumption DEF ReadDirRefused, ReadDir
<1> QED
  BY <1>1, Inductive, PTL

-----------------------------------------------------------------------------
(***************************************************************************)
(* The refinement.  FileItem is the abstract filing of the whole item: the *)
(* ancestors it still lacks are those the climb has ahead of it, which     *)
(* count as shown.  The climb then only makes true what counts already,    *)
(* and it may stop early because what it skips is in the map.              *)
(***************************************************************************)
Visible == [q \in DOMAIN tree \cup Pending |-> Shown(q)]

\* ArchiveView means the same paths.
LEMMA SamePaths ==
  /\ View!Root = Root /\ View!ImpliedDir = [dir |-> TRUE, item |-> 0]
  /\ View!Item = Item
  /\ \A i : View!EntryPath(i) = EntryPath(i)
  /\ \A q : View!Prefixes(q) = Prefixes(q)
BY DEF View!Root, Root, View!ImpliedDir, View!Item, Item, View!Path, Path,
       View!EntryPath, EntryPath, View!Prefixes, Prefixes

\* What an entry shows.
ShowsEntries ==
  /\ \A q \in DOMAIN tree : \A d \in BOOLEAN :
       /\ (tree[q].kind = "dir" <=> d) /\ tree[q].it.bound
            => Shown(q) = [dir |-> d, item |-> tree[q].it.index + 1]
       /\ (tree[q].kind = "dir" <=> d) /\ ~tree[q].it.bound
            => Shown(q) = [dir |-> d, item |-> 0]
  /\ \A q : q \notin DOMAIN tree => Shown(q) = [dir |-> TRUE, item |-> 0]

LEMMA ShownOf == ShowsEntries
<1>1. ASSUME NEW q \in DOMAIN tree, NEW d \in BOOLEAN, tree[q].kind = "dir" <=> d
      PROVE  /\ tree[q].it.bound
                  => Shown(q) = [dir |-> d, item |-> tree[q].it.index + 1]
             /\ ~tree[q].it.bound => Shown(q) = [dir |-> d, item |-> 0]
  <2> DEFINE k == tree[q].kind = "dir"
  <2>1. k = d
    BY <1>1, Zenon
  <2>2. Shown(q) = [dir |-> k, item |-> IF tree[q].it.bound THEN tree[q].it.index + 1 ELSE 0]
    BY Zenon DEF Shown
  <2> HIDE DEF k
  <2> QED
    BY <2>1, <2>2, Zenon
<1> QED
  BY <1>1, Zenon DEF ShowsEntries, Shown

LEMMA ShownOfNext == ShowsEntries'
BY ShownOf, PTL

LEMMA FileItemTakes ==
  ASSUME IInv, FileItem
  PROVE  View!TakeItem
<1> DEFINE path == EntryPath(Current)
           n == it.index + 1
<1>1. /\ pc = "item" /\ pc' = "climb" /\ arc' = arc /\ it' = it
      /\ tree' = InsertOrAssign(tree, path, ItemEntry(Current, it))
      /\ p' = ParentPath(path)
  BY DEF FileItem
<1>2. /\ it.index \in Nat /\ it.bound /\ it.index < Len(arc)
  BY EndTest, LenProperties DEF IInv, TypeOK, IteratorInv, Iterator, FileItem
<1>3. Current \in Item /\ Current = arc[n]
  BY <1>2, CurrentItem DEF IInv, Current
<1>4. path \in Path /\ path # Root
  BY <1>3, EntryPathNotRoot
<1>5. Filed = it.index /\ Filed' = Filed + 1 /\ n = Filed + 1
  BY <1>1, <1>2 DEF Filed
<1>6. Prefixes(path) = {path} \cup Prefixes(p')
  BY <1>1, <1>4, PrefixesOfPath
<1>7. Pending = {} /\ Pending' = Prefixes(p')
  BY <1>1 DEF Pending
<1>8. /\ DOMAIN tree' = DOMAIN tree \cup {path}
      /\ tree'[path] = ItemEntry(Current, it)
      /\ \A q \in DOMAIN tree \ {path} : tree'[q] = tree[q]
  BY <1>1 DEF InsertOrAssign
<1>9. DOMAIN tree' \cup Pending' = DOMAIN tree \cup Prefixes(path)
  BY <1>6, <1>7, <1>8
<1>10. ASSUME NEW q, q = path PROVE Shown(q)' = [dir |-> Current.dir, item |-> n]
  <2>1. Current.dir \in BOOLEAN
    BY <1>3 DEF Item
  <2>2. tree'[path].it = it /\ (tree'[path].kind = "dir" <=> Current.dir)
    BY <1>8, <2>1 DEF ItemEntry
  <2>3. path \in DOMAIN tree' /\ tree'[path].it.bound /\ tree'[path].it.index + 1 = n
    BY <1>2, <1>8, <2>2
  <2> HIDE DEF path, n
  <2> QED
    BY <1>10, <2>1, <2>2, <2>3, ShownOfNext DEF ShowsEntries
<1>11. ASSUME NEW q \in DOMAIN tree, q # path PROVE Shown(q)' = Visible[q]
  BY <1>8, <1>11 DEF Shown, Visible
<1>12. ASSUME NEW q, q \notin DOMAIN tree, q # path
       PROVE  Shown(q)' = [dir |-> TRUE, item |-> 0]
  BY <1>8, <1>12 DEF Shown
<1>13. DOMAIN Visible = DOMAIN tree
  BY <1>7 DEF Visible
<1>14. Visible' = [q \in DOMAIN Visible \cup Prefixes(path) |->
                    IF q = path THEN [dir |-> arc[n].dir, item |-> n]
                    ELSE IF q \in DOMAIN Visible THEN Visible[q]
                    ELSE [dir |-> TRUE, item |-> 0]]
  <2>1. Visible' = [q \in DOMAIN tree \cup Prefixes(path) |-> Shown(q)']
    BY <1>9 DEF Visible
  <2> HIDE DEF path, n
  <2> QED
    BY <1>3, <1>10, <1>11, <1>12, <1>13, <2>1
<1> QED
  BY <1>1, <1>2, <1>3, <1>5, <1>14, SamePaths DEF View!TakeItem, Visible

\* The climb adds what counts as shown.
LEMMA AddParentIsHidden ==
  ASSUME IInv, AddParent
  PROVE  Visible' = Visible
<1>1. /\ pc = "climb" /\ pc' = "climb" /\ p # Root /\ p \notin DOMAIN tree /\ p \in Path
      /\ tree' = Emplace(tree, p, ImpliedEntry(Current)) /\ p' = ParentPath(p)
  BY DEF AddParent, ClimbEnds, IInv, TypeOK
<1>2. Prefixes(p) = {p} \cup Prefixes(p')
  BY <1>1, PrefixesOfPath
<1>3. /\ DOMAIN tree' = DOMAIN tree \cup {p}
      /\ tree'[p] = ImpliedEntry(Current)
      /\ \A q \in DOMAIN tree : tree'[q] = tree[q]
  BY <1>1 DEF Emplace
<1>4. DOMAIN tree' \cup Pending' = DOMAIN tree \cup Pending
  BY <1>1, <1>2, <1>3 DEF Pending
<1>5. ASSUME NEW q, q = p PROVE Shown(q)' = [dir |-> TRUE, item |-> 0]
  <2>1. (tree'[q].kind = "dir" <=> TRUE) /\ ~tree'[q].it.bound /\ q \in DOMAIN tree'
    BY <1>3, <1>5 DEF ImpliedEntry, End
  <2> QED
    BY <2>1, TRUE \in BOOLEAN, ShownOfNext DEF ShowsEntries
<1>6. \A q : Shown(q)' = Shown(q)
  BY <1>1, <1>3, <1>5 DEF Shown
<1> QED
  BY <1>4, <1>6 DEF Visible

\* Where the climb stops, everything it had ahead of it is in the map.
LEMMA ClimbIsComplete ==
  ASSUME IInv, pc = "climb", ClimbEnds
  PROVE  Prefixes(p) \subseteq DOMAIN tree
<1>1. CASE p = Root
  BY <1>1, PrefixesOfRoot DEF IInv, RootIsDirectory
<1>2. CASE p \in DOMAIN tree
  BY <1>2 DEF IInv, AncestorsInv, HasAncestors, AncestorsAhead
<1> QED
  BY <1>1, <1>2 DEF ClimbEnds

LEMMA NextItemIsHidden ==
  ASSUME IInv, NextItem
  PROVE  Visible' = Visible /\ Filed' = Filed
<1>1. /\ pc = "climb" /\ pc' = "item" /\ tree' = tree
      /\ it' = Increment(it, Len(arc)) /\ it.index < Len(arc)
      /\ it.index \in Nat
  BY DEF NextItem, IInv, IteratorInv, TypeOK, Iterator
<1>2. Prefixes(p) \subseteq DOMAIN tree
  BY ClimbIsComplete DEF NextItem
<1>3. DOMAIN tree' \cup Pending' = DOMAIN tree \cup Pending
  BY <1>1, <1>2 DEF Pending
<1>4. \A q : Shown(q)' = Shown(q)
  BY <1>1 DEF Shown
<1>5. it'.index = it.index + 1
  BY <1>1, Incremented DEF IInv
<1> QED
  BY <1>1, <1>3, <1>4, <1>5 DEF Visible, Filed

\* Every step files one item of the view, or shows nothing new.
LEMMA StepRefines ==
  ASSUME IInv, [Next]_vars
  PROVE  View!TakeItem \/ UNCHANGED View!vars
<1>1. CASE FileItem
  BY <1>1, FileItemTakes
<1>2. CASE AddParent
  <2>1. arc' = arc /\ Filed' = Filed
    BY <1>2 DEF AddParent, Filed
  <2> QED
    BY <1>2, <2>1, AddParentIsHidden DEF View!vars, Visible
<1>3. CASE NextItem
  BY <1>3, NextItemIsHidden DEF View!vars, Visible, NextItem
<1>4. CASE Finish \/ ItemThrows \/ UNCHANGED vars
  <2>1. arc' = arc /\ it' = it /\ tree' = tree /\ Pending' = Pending /\ Filed' = Filed
    BY <1>4 DEF Finish, ItemThrows, vars, Pending, Filed
  <2>2. Visible' = Visible
    BY <2>1 DEF Visible, Shown
  <2> QED
    BY <2>1, <2>2 DEF View!vars, Visible
<1> QED
  BY <1>1, <1>2, <1>3, <1>4 DEF Next

LEMMA InitRefines == Init => View!Init
<1> SUFFICES ASSUME Init PROVE View!Init
  OBVIOUS
<1>1. arc \in Seq(Item) /\ Filed = 0 /\ Pending = {}
  BY ArchivesAssumption DEF Init, Begin, Filed, Pending
<1>2. DOMAIN tree = {Root} /\ tree[Root] = RootEntry
  BY DEF Init
<1>3. Shown(Root) = [dir |-> TRUE, item |-> 0]
  <2>1. (tree[Root].kind = "dir" <=> TRUE) /\ ~tree[Root].it.bound /\ Root \in DOMAIN tree
    BY <1>2 DEF RootEntry, End
  <2> QED
    BY <2>1, ShownOf, TRUE \in BOOLEAN DEF ShowsEntries
<1>4. Visible = [q \in {Root} |-> [dir |-> TRUE, item |-> 0]]
  BY <1>1, <1>2, <1>3 DEF Visible
<1> QED
  BY <1>1, <1>4, SamePaths DEF View!Init, Visible

\* The two loops of execute() file whole items, one after the other, each with
\* every directory on the way to it, for archives of any length and depth.
THEOREM LoopsFileItems == Spec => ImplementsView
<1>1. IInv /\ [Next]_vars => [View!Next]_View!vars
  BY StepRefines DEF View!Next
<1> QED
  BY <1>1, InitRefines, Inductive, PTL DEF Spec, ImplementsView, View!Spec

-----------------------------------------------------------------------------
(***************************************************************************)
(* The closed form of the view.  The last item filed at a path is the      *)
(* greatest of its writers; filing one more adds one writer to one path.   *)
(***************************************************************************)
Writers(a, t, q) == {n \in 1..t : EntryPath(a[n]) = q}

ViewPaths(a, t) == {Root} \cup UNION {Prefixes(EntryPath(a[n])) : n \in 1..t}

LastWriter(a, t, q) ==
  IF Writers(a, t, q) = {} THEN [dir |-> TRUE, item |-> 0]
  ELSE [dir |-> a[View!Max(Writers(a, t, q))].dir,
        item |-> View!Max(Writers(a, t, q))]

ClosedForm(a, t) == [q \in ViewPaths(a, t) |-> LastWriter(a, t, q)]

\* The greatest of a set is the only one that is not exceeded.
LEMMA GreatestOf ==
  ASSUME NEW S \in SUBSET Int, NEW m \in S, \A y \in S : m >= y
  PROVE  View!Max(S) = m
<1>1. \E x \in S : \A y \in S : x >= y
  OBVIOUS
<1>2. View!Max(S) \in S /\ \A y \in S : View!Max(S) >= y
  BY <1>1, Zenon DEF View!Max
<1> DEFINE g == View!Max(S)
<1>3. g \in S /\ g >= m
  BY <1>2
<1> HIDE DEF g
<1>4. g = m
  BY <1>3
<1> QED
  BY <1>4 DEF g

LEMMA OneMoreWriter ==
  ASSUME NEW a \in Seq(Item), NEW t \in Nat, t < Len(a),
         NEW path, path = EntryPath(a[t + 1])
  PROVE  /\ ViewPaths(a, t + 1) = ViewPaths(a, t) \cup Prefixes(path)
         /\ LastWriter(a, t + 1, path) = [dir |-> a[t + 1].dir, item |-> t + 1]
         /\ \A q : q # path => LastWriter(a, t + 1, q) = LastWriter(a, t, q)
         /\ \A q : q \notin ViewPaths(a, t) =>
              LastWriter(a, t, q) = [dir |-> TRUE, item |-> 0]
<1>1. 1..(t + 1) = (1..t) \cup {t + 1}
  OBVIOUS
<1>2. ViewPaths(a, t + 1) = ViewPaths(a, t) \cup Prefixes(path)
  BY <1>1 DEF ViewPaths
<1>3. LastWriter(a, t + 1, path) = [dir |-> a[t + 1].dir, item |-> t + 1]
  <2>1. t + 1 \in Writers(a, t + 1, path)
    BY <1>1 DEF Writers
  <2>2. /\ Writers(a, t + 1, path) \in SUBSET Int
        /\ \A y \in Writers(a, t + 1, path) : t + 1 >= y
    BY DEF Writers
  <2>3. View!Max(Writers(a, t + 1, path)) = t + 1
    BY <2>1, <2>2, GreatestOf
  <2> QED
    BY <2>1, <2>3 DEF LastWriter
<1>4. ASSUME NEW q, q # path
      PROVE  LastWriter(a, t + 1, q) = LastWriter(a, t, q)
  <2>1. Writers(a, t + 1, q) = Writers(a, t, q)
    BY <1>1, <1>4 DEF Writers
  <2> QED
    BY <2>1 DEF LastWriter
<1>5. ASSUME NEW q, q \notin ViewPaths(a, t)
      PROVE  LastWriter(a, t, q) = [dir |-> TRUE, item |-> 0]
  <2>1. ASSUME NEW n \in 1..t, EntryPath(a[n]) = q PROVE FALSE
    <3>1. a[n] \in Item
      BY ElementOfSeq, LenProperties
    <3>2. q \in Prefixes(EntryPath(a[n]))
      BY <2>1, <3>1, EntryPathNotRoot, PrefixesNest
    <3> QED
      BY <1>5, <3>2 DEF ViewPaths
  <2>2. Writers(a, t, q) = {}
    BY <2>1 DEF Writers
  <2> QED
    BY <2>2 DEF LastWriter
<1> QED
  BY <1>2, <1>3, <1>4, <1>5

\* The view with one more item, a directory or not.
WithItem(v, path, dir, item) ==
  [q \in DOMAIN v \cup Prefixes(path) |->
    IF q = path THEN [dir |-> dir, item |-> item]
    ELSE IF q \in DOMAIN v THEN v[q]
    ELSE [dir |-> TRUE, item |-> 0]]

\* The closed form grows the way an item is filed.
LEMMA ClosedFormGrows ==
  ASSUME NEW a \in Seq(Item), NEW t \in Nat, t < Len(a),
         NEW path, path = EntryPath(a[t + 1])
  PROVE  ClosedForm(a, t + 1) = WithItem(ClosedForm(a, t), path, a[t + 1].dir, t + 1)
<1>1. DOMAIN ClosedForm(a, t) = ViewPaths(a, t)
  BY DEF ClosedForm
<1>2. \A q \in ViewPaths(a, t) : ClosedForm(a, t)[q] = LastWriter(a, t, q)
  BY DEF ClosedForm
<1>3. ClosedForm(a, t + 1) = [q \in ViewPaths(a, t + 1) |-> LastWriter(a, t + 1, q)]
  BY DEF ClosedForm
<1>0. /\ ViewPaths(a, t + 1) = ViewPaths(a, t) \cup Prefixes(path)
      /\ LastWriter(a, t + 1, path) = [dir |-> a[t + 1].dir, item |-> t + 1]
      /\ \A q : q # path => LastWriter(a, t + 1, q) = LastWriter(a, t, q)
      /\ \A q : q \notin ViewPaths(a, t) =>
           LastWriter(a, t, q) = [dir |-> TRUE, item |-> 0]
  BY OneMoreWriter
<1>4. ASSUME NEW q \in ViewPaths(a, t + 1), q = path
      PROVE  LastWriter(a, t + 1, q) = [dir |-> a[t + 1].dir, item |-> t + 1]
  BY <1>0, <1>4, Zenon
<1>5. ASSUME NEW q \in ViewPaths(a, t + 1), q # path, q \in ViewPaths(a, t)
      PROVE  LastWriter(a, t + 1, q) = ClosedForm(a, t)[q]
  BY <1>0, <1>2, <1>5, Zenon
<1>6. ASSUME NEW q \in ViewPaths(a, t + 1), q # path, q \notin ViewPaths(a, t)
      PROVE  LastWriter(a, t + 1, q) = [dir |-> TRUE, item |-> 0]
  BY <1>0, <1>6, Zenon
<1> QED
  BY <1>0, <1>1, <1>3, <1>4, <1>5, <1>6 DEF WithItem

IsClosedForm == Visible = ClosedForm(arc, Filed)

LEMMA ReferenceIsClosedForm == TreeIsArchiveView <=> IsClosedForm
<1>1. View!Reference = ClosedForm(arc, Filed)
  BY SamePaths DEF View!Reference, ClosedForm, ViewPaths, LastWriter, Writers
<1> QED
  BY <1>1 DEF TreeIsArchiveView, View!ViewIsReference, Visible, IsClosedForm

LEMMA InitIsClosedForm == Init => IsClosedForm
<1> SUFFICES ASSUME Init PROVE IsClosedForm
  OBVIOUS
<1>1. Filed = 0 /\ Visible = [q \in {Root} |-> [dir |-> TRUE, item |-> 0]]
  BY InitRefines, SamePaths DEF View!Init, Visible
<1>2. ViewPaths(arc, 0) = {Root} /\ \A q : Writers(arc, 0, q) = {}
  BY DEF ViewPaths, Writers
<1>3. ClosedForm(arc, 0) = [q \in {Root} |-> [dir |-> TRUE, item |-> 0]]
  BY <1>2 DEF ClosedForm, LastWriter
<1> QED
  BY <1>1, <1>3 DEF IsClosedForm

LEMMA StepKeepsClosedForm ==
  ASSUME IInv, [Next]_vars, IsClosedForm
  PROVE  IsClosedForm'
<1>1. Visible = ClosedForm(arc, Filed)
  BY DEF IsClosedForm
<1>2. CASE View!TakeItem
  <2>0. PICK path : path = EntryPath(arc[Filed + 1])
    OBVIOUS
  <2>1. /\ Filed < Len(arc) /\ Filed' = Filed + 1 /\ arc' = arc
        /\ Visible' = WithItem(Visible, path, arc[Filed + 1].dir, Filed + 1)
    BY <1>2, <2>0, SamePaths DEF View!TakeItem, Visible, WithItem
  <2>2. arc \in Seq(Item) /\ Filed \in Nat
    BY DEF IInv, TypeOK, Iterator, Filed
  <2>3. ClosedForm(arc, Filed + 1)
          = WithItem(ClosedForm(arc, Filed), path, arc[Filed + 1].dir, Filed + 1)
    BY <2>0, <2>1, <2>2, ClosedFormGrows
  <2>4. Visible' = ClosedForm(arc, Filed + 1)
    BY <1>1, <2>1, <2>3
  <2> QED
    BY <2>1, <2>4 DEF IsClosedForm
<1>3. CASE UNCHANGED View!vars
  <2>1. Visible' = Visible /\ arc' = arc /\ Filed' = Filed
    BY <1>3 DEF View!vars, Visible
  <2> QED
    BY <1>1, <2>1 DEF IsClosedForm
<1> QED
  BY <1>2, <1>3, StepRefines

\* At every moment the map is the one the archive defines: a path shows the
\* last item filed there, and a directory where items only pass through.
THEOREM TreeIsTheArchives == Spec => []TreeIsArchiveView
<1>1. IInv /\ IsClosedForm /\ [Next]_vars => IsClosedForm'
  BY StepKeepsClosedForm
<1> QED
  BY <1>1, InitIsClosedForm, ReferenceIsClosedForm, Inductive, PTL DEF Spec

-----------------------------------------------------------------------------
(***************************************************************************)
(* Sizes and times.  A directory that only follows from others shows those *)
(* of the first item below it: the climb from that item is the one that    *)
(* added it, since everything that earlier items lead through is in the    *)
(* map (FiledInv), and no later climb replaces an entry.                   *)
(***************************************************************************)
Below(a, q, t) == {n \in 1..t : q \in Prefixes(ParentPath(EntryPath(a[n])))}

FiledInv == \A n \in 1..it.index : Prefixes(EntryPath(arc[n])) \subseteq DOMAIN tree

\* The climb is above the item it started from, with all between in the map.
ClimbInv ==
  pc = "climb" =>
    /\ p \in Prefixes(ParentPath(EntryPath(Current)))
    /\ Prefixes(EntryPath(Current)) \subseteq DOMAIN tree \cup Prefixes(p)

Told(q) ==
  /\ tree[q].it.bound => tree[q].it.index < Filed
  /\ ~tree[q].it.bound => Below(arc, q, Filed) # {}
  /\ tree[q].stat = FileStat(arc[Teller(q)])

StatInv == FiledInv /\ ClimbInv /\ \A q \in DOMAIN tree \ {Root} : Told(q)

\* The first item below a directory stays the first one.
LEMMA FirstBelowStays ==
  ASSUME NEW a, NEW q, NEW t \in Nat, Below(a, q, t) # {}
  PROVE  Min(Below(a, q, t + 1)) = Min(Below(a, q, t)) /\ Below(a, q, t + 1) # {}
<1>1. /\ Below(a, q, t) \in SUBSET Nat /\ Below(a, q, t + 1) \in SUBSET Nat
      /\ Below(a, q, t) \subseteq Below(a, q, t + 1)
      /\ Below(a, q, t) \subseteq 1..t
      /\ Below(a, q, t + 1) \subseteq Below(a, q, t) \cup {t + 1}
  BY DEF Below
<1> DEFINE m == Min(Below(a, q, t))
<1>2. m \in Below(a, q, t) /\ \A n \in Below(a, q, t) : m <= n
  BY <1>1, MinOf
<1> HIDE DEF m
<1>3. \A n \in Below(a, q, t + 1) : m <= n
  BY <1>1, <1>2
<1> QED
  BY <1>1, <1>2, <1>3, MinIs DEF m

\* An entry that stays as it is tells the same while items are added.
LEMMA ToldStays ==
  ASSUME IInv, NEW q \in DOMAIN tree, Told(q), Filed \in Nat,
         q \in DOMAIN tree', tree'[q] = tree[q], arc' = arc,
         Filed' = Filed \/ Filed' = Filed + 1
  PROVE  Told(q)'
<1>1. tree[q].it.index \in Nat /\ tree[q].it.bound \in BOOLEAN
  BY DEF IInv, TypeOK, Entry, Iterator
<1>2. CASE tree[q].it.bound
  BY <1>1, <1>2 DEF Told, Teller
<1>3. CASE ~tree[q].it.bound
  <2>1. /\ Below(arc, q, Filed') # {}
        /\ Min(Below(arc, q, Filed')) = Min(Below(arc, q, Filed))
    BY <1>3, FirstBelowStays DEF Told
  <2>2. Teller(q) = Min(Below(arc, q, Filed))
    BY <1>3 DEF Teller, Below
  <2>3. Teller(q)' = Min(Below(arc, q, Filed'))
    BY <1>3 DEF Teller, Below
  <2> QED
    BY <1>3, <2>1, <2>2, <2>3 DEF Told
<1> QED
  BY <1>2, <1>3

LEMMA InitStatInv == Init => StatInv
<1> SUFFICES ASSUME Init PROVE StatInv
  OBVIOUS
<1>1. it.index = 0 /\ pc = "item" /\ DOMAIN tree = {Root}
  BY DEF Init, Begin
<1> QED
  BY <1>1 DEF StatInv, FiledInv, ClimbInv

\* The loop stands on an item of the archive when it files and when it climbs.
LEMMA StandsOnItem ==
  ASSUME IInv, FileItem \/ pc = "climb"
  PROVE  /\ it.index \in Nat /\ it.index < Len(arc) /\ it.bound
         /\ Current \in Item /\ Current = arc[it.index + 1]
         /\ EntryPath(Current) \in Path /\ EntryPath(Current) # Root
<1>1. it.index \in Nat /\ it.bound /\ it.index < Len(arc)
  BY EndTest, LenProperties DEF IInv, TypeOK, IteratorInv, Iterator, FileItem
<1>2. Current \in Item /\ Current = arc[it.index + 1]
  BY <1>1, CurrentItem DEF IInv, Current
<1> QED
  BY <1>1, <1>2, EntryPathNotRoot

LEMMA FileItemTells ==
  ASSUME IInv, StatInv, FileItem
  PROVE  StatInv'
<1> DEFINE path == EntryPath(Current)
<1>1. /\ pc = "item" /\ pc' = "climb" /\ arc' = arc /\ it' = it
      /\ tree' = InsertOrAssign(tree, path, ItemEntry(Current, it))
      /\ p' = ParentPath(path)
  BY DEF FileItem
<1>2. /\ DOMAIN tree' = DOMAIN tree \cup {path}
      /\ tree'[path] = ItemEntry(Current, it)
      /\ \A q \in DOMAIN tree \ {path} : tree'[q] = tree[q]
  BY <1>1 DEF InsertOrAssign
<1>3. /\ it.index \in Nat /\ it.bound /\ Current = arc[it.index + 1]
      /\ path \in Path /\ path # Root
  BY StandsOnItem
<1>4. Filed = it.index /\ Filed' = Filed + 1
  BY <1>1, <1>3 DEF Filed
<1>5. FiledInv'
  BY <1>1, <1>2 DEF StatInv, FiledInv
<1>6. ClimbInv'
  <2>1. Current' = Current
    BY <1>1 DEF Current
  <2>2. p' \in Prefixes(p')
    BY <1>1, <1>3, ParentOfPath, PrefixesNest
  <2>3. Prefixes(path) = {path} \cup Prefixes(p')
    BY <1>1, <1>3, PrefixesOfPath
  <2> QED
    BY <1>1, <1>2, <2>1, <2>2, <2>3 DEF ClimbInv
<1>7. ASSUME NEW q, q = path PROVE Told(q)'
  <2>1. tree'[q].it = it /\ tree'[q].stat = FileStat(Current)
    BY <1>2, <1>7 DEF ItemEntry
  <2>2. Teller(q)' = it.index + 1
    BY <1>3, <2>1 DEF Teller
  <2> QED
    BY <1>1, <1>3, <1>4, <2>1, <2>2 DEF Told
<1>8. ASSUME NEW q \in DOMAIN tree \ {Root}, q # path PROVE Told(q)'
  BY <1>1, <1>2, <1>3, <1>4, <1>8, ToldStays DEF StatInv
<1> QED
  BY <1>2, <1>5, <1>6, <1>7, <1>8 DEF StatInv

LEMMA AddParentTells ==
  ASSUME IInv, StatInv, AddParent
  PROVE  StatInv'
<1> DEFINE path == EntryPath(Current)
<1>1. /\ pc = "climb" /\ pc' = "climb" /\ p # Root /\ p \notin DOMAIN tree /\ p \in Path
      /\ arc' = arc /\ it' = it
      /\ tree' = Emplace(tree, p, ImpliedEntry(Current)) /\ p' = ParentPath(p)
  BY DEF AddParent, ClimbEnds, IInv, TypeOK
<1>2. /\ DOMAIN tree' = DOMAIN tree \cup {p}
      /\ tree'[p] = ImpliedEntry(Current)
      /\ \A q \in DOMAIN tree : tree'[q] = tree[q]
  BY <1>1 DEF Emplace
<1>3. /\ it.index \in Nat /\ it.index < Len(arc) /\ Current = arc[it.index + 1]
      /\ path \in Path /\ path # Root
  BY <1>1, StandsOnItem
<1>4. Filed = it.index + 1 /\ Filed' = Filed
  BY <1>1 DEF Filed
<1>5. FiledInv'
  BY <1>1, <1>2 DEF StatInv, FiledInv
<1>6. /\ p \in Prefixes(ParentPath(path))
      /\ Prefixes(path) \subseteq DOMAIN tree \cup Prefixes(p)
  BY <1>1 DEF StatInv, ClimbInv
<1>7. ClimbInv'
  <2>1. Current' = Current
    BY <1>1 DEF Current
  <2>2. Prefixes(p) = {p} \cup Prefixes(p')
    BY <1>1, PrefixesOfPath
  <2>3. p' \in Prefixes(p')
    BY <1>1, ParentOfPath, PrefixesNest
  <2>4. Prefixes(p) \subseteq Prefixes(ParentPath(path))
    BY <1>3, <1>6, ParentOfPath, PrefixesNest
  <2> QED
    BY <1>2, <1>6, <2>1, <2>2, <2>3, <2>4 DEF ClimbInv
<1>8. ASSUME NEW n \in 1..it.index PROVE n \notin Below(arc, p, Filed)
  <2>1. arc[n] \in Item
    <3>1. n \in 1..Len(arc)
      BY <1>3, LenProperties DEF IInv, TypeOK
    <3> QED
      BY <3>1, ElementOfSeq DEF IInv, TypeOK
  <2>2. Prefixes(ParentPath(EntryPath(arc[n]))) \subseteq Prefixes(EntryPath(arc[n]))
    BY <2>1, EntryPathNotRoot, PrefixesOfPath
  <2>3. p \notin Prefixes(EntryPath(arc[n]))
    BY <1>1 DEF StatInv, FiledInv
  <2> QED
    BY <2>2, <2>3 DEF Below
<1>9. Filed \in Below(arc, p, Filed) /\ Below(arc, p, Filed) \subseteq 1..Filed
  BY <1>3, <1>4, <1>6 DEF Below
<1>10. Min(Below(arc, p, Filed)) = Filed
  <2>1. \A n \in Below(arc, p, Filed) : Filed <= n
    BY <1>3, <1>4, <1>8, <1>9
  <2> QED
    BY <1>9, <2>1, MinIs
<1>11. ASSUME NEW q, q = p PROVE Told(q)'
  <2>1. ~tree'[q].it.bound /\ tree'[q].stat = FileStat(Current)
    BY <1>2, <1>11 DEF ImpliedEntry, End
  <2>2. Teller(q)' = Min(Below(arc, q, Filed))
    BY <1>1, <1>4, <2>1 DEF Teller, Below
  <2> QED
    BY <1>1, <1>3, <1>4, <1>9, <1>10, <1>11, <2>1, <2>2 DEF Told
<1>12. ASSUME NEW q \in DOMAIN tree \ {Root} PROVE Told(q)'
  BY <1>1, <1>2, <1>3, <1>4, <1>12, ToldStays DEF StatInv
<1> QED
  BY <1>2, <1>5, <1>7, <1>11, <1>12 DEF StatInv

LEMMA StepStatInv ==
  ASSUME IInv, StatInv, [Next]_vars
  PROVE  StatInv'
<1>1. CASE FileItem
  BY <1>1, FileItemTells
<1>2. CASE AddParent
  BY <1>2, AddParentTells
<1>3. CASE NextItem
  <2>1. /\ pc = "climb" /\ pc' = "item" /\ tree' = tree /\ arc' = arc
        /\ it' = Increment(it, Len(arc))
    BY <1>3 DEF NextItem
  <2>2. /\ it.index \in Nat /\ it.index < Len(arc) /\ Current = arc[it.index + 1]
        /\ it'.index = it.index + 1
    BY <2>1, StandsOnItem, Incremented DEF IInv
  <2>3. Filed' = Filed /\ Filed \in Nat
    BY <2>1, <2>2 DEF Filed
  <2>4. Prefixes(EntryPath(Current)) \subseteq DOMAIN tree
    BY <1>3, <2>1, ClimbIsComplete DEF NextItem, StatInv, ClimbInv
  <2>5. FiledInv'
    <3>1. ASSUME NEW n \in 1..(it.index + 1) PROVE Prefixes(EntryPath(arc[n])) \subseteq DOMAIN tree
      <4>1. n \in 1..it.index \/ n = it.index + 1
        BY <2>2
      <4> QED
        BY <2>2, <2>4, <4>1 DEF StatInv, FiledInv
    <3> QED
      BY <2>1, <2>2, <3>1 DEF FiledInv
  <2>6. ASSUME NEW q \in DOMAIN tree \ {Root} PROVE Told(q)'
    BY <2>1, <2>3, ToldStays DEF StatInv
  <2> QED
    BY <2>1, <2>5, <2>6 DEF StatInv, ClimbInv
<1>4. CASE Finish \/ ItemThrows \/ UNCHANGED vars
  <2>1. /\ arc' = arc /\ it' = it /\ tree' = tree /\ Filed' = Filed
        /\ pc' = "climb" => pc = "climb" /\ p' = p
    BY <1>4 DEF Finish, ItemThrows, vars, Filed
  <2> QED
    BY <2>1 DEF StatInv, FiledInv, ClimbInv, Current, Told, Teller
<1> QED
  BY <1>1, <1>2, <1>3, <1>4 DEF Next

\* Dates from 1970 on come out as the seconds since then.
LEMMA DateSince1970 ==
  ASSUME NEW ft \in 0..(Modulus - 1), ft >= Epoch
  PROVE  ToTime(ft).sec = (ft - Epoch) \div Tick
<1>1. ft - Epoch \in 0..(Modulus - 1) /\ Modulus \in Nat \ {0}
  BY TimeAssumption
<1>2. (ft - Epoch) % Modulus = ft - Epoch
  BY <1>1
<1> QED
  BY <1>2 DEF ToTime

\* cb_getattr shows the size and the time of the item that a read of the path
\* extracts; a directory that only follows from others shows those of the
\* first item below it, whichever climb it was that stopped early.
THEOREM StatsAreRight == Spec => []StatsAreTheItems
<1>1. ASSUME IInv, StatInv PROVE StatsAreTheItems
  <2> SUFFICES ASSUME NEW q \in DOMAIN tree \ {Root}
               PROVE  /\ GetAttr(q).size = IF arc[Teller(q)].sized
                                           THEN arc[Teller(q)].size ELSE 0
                      /\ arc[Teller(q)].time = 0
                           => GetAttr(q).time = [sec |-> 0, nsec |-> 0]
                      /\ arc[Teller(q)].time >= Epoch
                           => GetAttr(q).time.sec
                                = (arc[Teller(q)].time - Epoch) \div Tick
    BY DEF StatsAreTheItems
  <2> DEFINE i == arc[Teller(q)]
  <2>1. GetAttr(q) = FileStat(i)
    BY <1>1 DEF GetAttr, StatInv, Told
  <2>2. it.index \in Nat /\ Filed \in Nat /\ Filed <= Len(arc) /\ Len(arc) \in Nat
    BY <1>1, LenProperties DEF IInv, TypeOK, Iterator, IteratorInv, Filed
  <2>3. Teller(q) \in 1..Filed
    <3>1. CASE tree[q].it.bound
      <4>1. tree[q].it.index \in Nat /\ tree[q].it.index < Filed
        BY <1>1, <3>1 DEF IInv, TypeOK, Entry, Iterator, StatInv, Told
      <4> QED
        BY <2>2, <3>1, <4>1 DEF Teller
    <3>2. CASE ~tree[q].it.bound
      <4>1. Below(arc, q, Filed) # {} /\ Below(arc, q, Filed) \subseteq 1..Filed
        BY <1>1, <3>2 DEF StatInv, Told, Below
      <4>2. Teller(q) = Min(Below(arc, q, Filed))
        BY <3>2 DEF Teller, Below
      <4> QED
        BY <2>2, <4>1, <4>2, MinOf
    <3> QED
      BY <3>1, <3>2
  <2>4. i \in Item
    <3>1. Teller(q) \in 1..Len(arc)
      BY <2>2, <2>3
    <3> QED
      BY <1>1, <3>1, ElementOfSeq DEF IInv, TypeOK
  <2>5. GetAttr(q).size = ItemSize(i) /\ GetAttr(q).time = ItemTime(i)
    BY <2>1 DEF FileStat
  <2>6. i.time >= Epoch /\ i.time # 0
          => ItemTime(i).sec = (i.time - Epoch) \div Tick
    BY <2>4, DateSince1970 DEF ItemTime, Item
  <2> HIDE DEF i
  <2>7. i.time = 0 /\ i.time >= Epoch
          => ItemTime(i).sec = (i.time - Epoch) \div Tick
    BY <2>4, TimeAssumption DEF ItemTime
  <2> QED
    BY <2>5, <2>6, <2>7 DEF ItemSize, ItemTime, i
<1>2. IInv /\ StatInv /\ [Next]_vars => StatInv'
  BY StepStatInv
<1> QED
  BY <1>1, <1>2, InitStatInv, Inductive, PTL DEF Spec
=============================================================================
