----------------------------- MODULE MCFileTree -----------------------------
(***************************************************************************)
(* FileTree on every archive of at most MaxItems items over two names with *)
(* paths up to MaxDepth - 1 long, of one item less and one level more, of  *)
(* items that carry kpidName or kpidExtension or no path, legible or not,  *)
(* and of items with every kind of date, on one branch of the tree.        *)
(***************************************************************************)
EXTENDS FileTree

CONSTANTS MaxItems, MaxDepth

MCName == Stem \cup {<<s, e>> : s \in Stem \cup {NoName}, e \in Ext}

MCDotted(n, e) == <<n, e>>

\* Items as most formats report them: a path, a type and a size.
PlainItems(depth) ==
  [path: BoundedSeq(Stem, depth) \ {Root}, name: {NoName}, ext: {NoExt},
   dir: BOOLEAN, sized: {TRUE}, size: {1}, time: {0}, legible: {TRUE}]

\* Streams without a path, and items that report a name or an extension.
OddItems ==
  [path: BoundedSeq(Stem, 1), name: Stem \cup {NoName},
   ext: Ext \cup {NoExt}, dir: {FALSE}, sized: BOOLEAN, size: {1}, time: {0},
   legible: BOOLEAN]

\* None, before 1970, in its first second, and some seconds later.
DatedItems ==
  [path: BoundedSeq({CHOOSE n \in Stem : TRUE}, MaxDepth) \ {Root}, name: {NoName},
   ext: {NoExt}, dir: BOOLEAN, sized: {TRUE}, size: {1, 2},
   time: {0, Epoch - 1, Epoch + 1, Modulus - 1}, legible: {TRUE}]

\* Three items meet in every way below two levels, two items below three.
MCArchives ==
  BoundedSeq(PlainItems(MaxDepth - 1), MaxItems)
    \cup BoundedSeq(PlainItems(MaxDepth), MaxItems - 1)
    \cup BoundedSeq(OddItems, MaxItems - 1)
    \cup BoundedSeq(DatedItems, MaxItems - 1)

MCArchiveStat == [size |-> 7, time |-> [sec |-> 5, nsec |-> 5]]
=============================================================================
