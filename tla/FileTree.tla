------------------------------ MODULE FileTree ------------------------------
(***************************************************************************)
(* Fuse::execute() before the mount: it walks the items of the archive and *)
(* files each one in a map from paths to (iterator, stat).  Directories    *)
(* that no item of the archive stands for are added by climbing from the   *)
(* item to the root; the climb stops at the first path the map already     *)
(* holds, which is sound only as long as every entry has its ancestors.    *)
(***************************************************************************)
EXTENDS ArchiveItems

CONSTANTS
  Archives,     \* the archives a run may mount: sequences of items
  ArchiveStat   \* what lstat says of the archive file itself

\* Of a struct stat: st_size, and one of the three times for all of them.
Stat == [size: Nat, time: Time]

ASSUME ArchivesAssumption == Archives \subseteq Seq(Item) /\ ArchiveStat \in Stat

VARIABLES
  arc,    \* the items of the mounted archive, in 7-Zip's order
  it,     \* the iterator of the loop over the items
  tree,   \* cache.tree: path -> entry
  p,      \* the path the inner loop looks at
  pc      \* "item" outer loop, "climb" inner loop, "built" after both,
          \* "thrown" after an exception out of them

vars == <<arc, it, tree, p, pc>>

\* A value of the map; the file type of the stat stands by itself.
Entry == [it: Iterator, kind: {"dir", "file"}, stat: Stat]

RootEntry == [it |-> End, kind |-> "dir", stat |-> ArchiveStat]

\* file_stat, which serves the item and then its implied directories.
FileStat(i) == [size |-> ItemSize(i), time |-> ItemTime(i)]

ItemEntry(i, pos) ==
  [it |-> pos, kind |-> IF i.dir THEN "dir" ELSE "file", stat |-> FileStat(i)]

\* Plausible slips in the loops below are kept as operators named Slip...:
\* each one must break the property stated for it.
SlipTypeKept(i) ==
  [it |-> End, kind |-> IF i.dir THEN "dir" ELSE "file", stat |-> FileStat(i)]

SlipItemIterator(i) == [it |-> it, kind |-> "dir", stat |-> FileStat(i)]

ImpliedEntry(i) == [it |-> End, kind |-> "dir", stat |-> FileStat(i)]

Current == arc[it.index + 1]

\* std::map::emplace leaves an entry that is already there alone ...
Emplace(m, q, e) ==
  [x \in DOMAIN m \cup {q} |-> IF x \in DOMAIN m THEN m[x] ELSE e]

SlipEmplaceItem(m, q, e) == Emplace(m, q, e)

\* ... and std::map::insert_or_assign replaces it.
InsertOrAssign(m, q, e) ==
  [x \in DOMAIN m \cup {q} |-> IF x = q THEN e ELSE m[x]]

-----------------------------------------------------------------------------
Init ==
  /\ arc \in Archives
  /\ it = Begin(Len(arc))
  /\ tree = [q \in {Root} |-> RootEntry]
  /\ p = Root
  /\ pc = "item"

\* One round of the outer loop up to the inner one.
FileItem ==
  /\ pc = "item"
  /\ ~Same(it, End)
  /\ Current.legible
  /\ LET path == EntryPath(Current)
     IN  /\ tree' = InsertOrAssign(tree, path, ItemEntry(Current, it))
         /\ p' = ParentPath(path)
  /\ pc' = "climb"
  /\ UNCHANGED <<arc, it>>

\* ... which throws out of execute() if iconv cannot convert a text of the item.
ItemThrows ==
  /\ pc = "item"
  /\ ~Same(it, End)
  /\ ~Current.legible
  /\ pc' = "thrown"
  /\ UNCHANGED <<arc, it, tree, p>>

SlipOneLevelHigh == p = Root \/ ParentPath(p) \in DOMAIN tree

SlipNeverEmpty == FALSE

\* The inner loop stops at "/" and at the first path the map holds.
ClimbEnds == p = Root \/ p \in DOMAIN tree

\* One round of the inner loop.
AddParent ==
  /\ pc = "climb"
  /\ ~ClimbEnds
  /\ tree' = Emplace(tree, p, ImpliedEntry(Current))
  /\ p' = ParentPath(p)
  /\ UNCHANGED <<arc, it, pc>>

NextItem ==
  /\ pc = "climb"
  /\ ClimbEnds
  /\ it' = Increment(it, Len(arc))
  /\ pc' = "item"
  /\ UNCHANGED <<arc, tree, p>>

Finish ==
  /\ pc = "item"
  /\ Same(it, End)
  /\ pc' = "built"
  /\ UNCHANGED <<arc, it, tree, p>>

Next == FileItem \/ ItemThrows \/ AddParent \/ NextItem \/ Finish

Spec == Init /\ [][Next]_vars

\* The loop is straight-line code of the only thread: it never just stops.
FairSpec == Spec /\ WF_vars(Next)

-----------------------------------------------------------------------------
(***************************************************************************)
(* cb_readdir: -ENOTDIR for a path the map does not hold, otherwise the    *)
(* entries right below it.  The entry of "/" has no file name and is never *)
(* listed, although "/" is its own parent.                                 *)
(***************************************************************************)
ReadDirRefused(q) == q # Root /\ q \notin DOMAIN tree

ReadDir(q) ==
  {x \in DOMAIN tree : ParentPath(x) = q /\ FileName(x) # NoName}

\* cb_getattr.
GetAttr(q) == IF q \in DOMAIN tree THEN tree[q].stat ELSE "ENOENT"

-----------------------------------------------------------------------------
(***************************************************************************)
(* Properties.  Filed counts the items whose entry is in the map.          *)
(***************************************************************************)
Filed == it.index + (IF pc = "climb" THEN 1 ELSE 0)

TypeOK ==
  /\ arc \in Seq(Item)
  /\ it \in Iterator
  /\ \A q \in DOMAIN tree : q \in Path /\ tree[q] \in Entry
  /\ p \in Path
  /\ pc \in {"item", "climb", "built", "thrown"}

\* Between two items, and once the map is complete, descending from "/" the
\* way the kernel does, one cb_readdir per directory, reaches every entry: no
\* directory on the way is refused, and each lists the next component.
WalkFindsEveryEntry ==
  pc # "climb" =>
    \A q \in DOMAIN tree : \A n \in 0..(Len(q) - 1) :
      /\ ~ReadDirRefused(SubSeq(q, 1, n))
      /\ SubSeq(q, 1, n + 1) \in ReadDir(SubSeq(q, 1, n))

\* The paths shown as regular files, the only ones the kernel sends an open
\* for, carry an iterator into the archive (extract() follows _seq without a
\* test), and the item it stands on is a file that belongs at that path.
FilesAreExtractable ==
  \A q \in DOMAIN tree : tree[q].kind = "file" =>
    /\ tree[q].it.bound
    /\ tree[q].it.index < Filed
    /\ EntryPath(arc[tree[q].it.index + 1]) = q
    /\ ~arc[tree[q].it.index + 1].dir

\* No item, nameless ones included, takes the place of the mount point.
RootIsDirectory == Root \in DOMAIN tree /\ tree[Root] = RootEntry

\* getattr tells of a path what the item filed there last reports, and of a
\* directory that only follows from others what the first item below it does:
\* one buffer serves an item and the climb after it, and a climb stops below
\* directories that are known.  Seconds are those since 1970 unless the date
\* is before.
Teller(q) ==
  IF tree[q].it.bound THEN tree[q].it.index + 1
  ELSE Min({n \in 1..Filed : q \in Prefixes(ParentPath(EntryPath(arc[n])))})

StatsAreTheItems ==
  \A q \in DOMAIN tree \ {Root} :
    LET i == arc[Teller(q)]
    IN  /\ GetAttr(q).size = IF i.sized THEN i.size ELSE 0
        /\ i.time = 0 => GetAttr(q).time = [sec |-> 0, nsec |-> 0]
        /\ i.time >= Epoch => GetAttr(q).time.sec = (i.time - Epoch) \div Tick

\* Both loops end, whatever the archive lists: with the map of all its items
\* if the texts of each of them can be converted, and else in an exception.
BuiltOrThrown ==
  <>(pc = IF \A n \in DOMAIN arc : arc[n].legible THEN "built" ELSE "thrown")

-----------------------------------------------------------------------------
(***************************************************************************)
(* What the mount promises: ArchiveView files an item and all its          *)
(* ancestors in one step.  While the inner loop climbs, the directories it *)
(* has yet to add count as added.                                          *)
(***************************************************************************)
Pending == IF pc = "climb" THEN Prefixes(p) ELSE {}

Shown(q) ==
  IF q \in DOMAIN tree
  THEN [dir |-> tree[q].kind = "dir",
        item |-> IF tree[q].it.bound THEN tree[q].it.index + 1 ELSE 0]
  ELSE [dir |-> TRUE, item |-> 0]

View == INSTANCE ArchiveView WITH
  taken <- Filed, view <- [q \in DOMAIN tree \cup Pending |-> Shown(q)]

\* The two loops implement the abstract filing of whole items.
ImplementsView == View!Spec

\* The map is the one the archive defines: each path shows the last item
\* filed there, and a directory where items only pass through.
TreeIsArchiveView == View!ViewIsReference
=============================================================================
