---------------------------- MODULE ArchiveItems ----------------------------
(***************************************************************************)
(* The items of an opened archive as ImplArchive shows them to the mount:  *)
(* the properties 7-Zip reports for an item, the forward iterator over the *)
(* items (begin, end, ++, ==), and the path under which execute() files an *)
(* item.  A path is the sequence of its components below "/"; "/" itself   *)
(* is the empty sequence.                                                  *)
(***************************************************************************)
EXTENDS Integers, SequencesExt

CONSTANTS
  Name,          \* components of paths
  Stem,          \* values of the item property kpidName, proposed names
  NoName,        \* the empty string where a component could stand
  Ext,           \* values of the item property kpidExtension
  NoExt,         \* an item without that property
  Dotted(_, _),  \* Dotted(n, e): the component n + "." + e, n may be NoName
  ProposedName,  \* ImplArchive::proposed_name() of the archive
  Modulus,       \* values of a 64-bit word
  Epoch,         \* 1970 as a FILETIME, which counts from 1601
  Tick           \* FILETIME units in a second

ASSUME NameAssumption ==
  /\ NoName \notin Name
  /\ NoExt \notin Ext
  /\ Stem \subseteq Name
  /\ ProposedName \in Stem
  /\ \A n \in Stem \cup {NoName}, e \in Ext : Dotted(n, e) \in Name

ASSUME TimeAssumption ==
  /\ Modulus \in Nat /\ Epoch \in Nat /\ Tick \in Nat \ {0}
  /\ Epoch < Modulus

Path == Seq(Name)
Root == << >>

\* What GetProperty answers for one item.  "sized" tells whether kpidSize
\* comes as a VT_UI8; 7-Zip leaves it empty when the size is not stored.
\* "time" is any of the three times, 0 for one that is missing or zero.
\* "legible" tells whether iconv can convert the texts among them; path(),
\* name() or extension() throws if not.
Item == [path: Path, name: Stem \cup {NoName}, ext: Ext \cup {NoExt},
         dir: BOOLEAN, sized: BOOLEAN, size: Nat, time: 0..(Modulus - 1),
         legible: BOOLEAN]

SlipUnknownSize(i) == IF i.sized THEN i.size ELSE -1

\* ci_iterator::size(): any other variant type counts as zero.
ItemSize(i) == IF i.sized THEN i.size ELSE 0

\* struct timespec.
Time == [sec: Int, nsec: Int]

SlipFrom1601(ft) == [sec |-> ft \div Tick, nsec |-> ft]

\* _to_time: the subtraction wraps around in a 64-bit word, and tv_nsec gets
\* the whole date.
ToTime(ft) ==
  LET date == (ft - Epoch) % Modulus
  IN  [sec |-> date \div Tick, nsec |-> date]

ItemTime(i) == IF i.time = 0 THEN [sec |-> 0, nsec |-> 0] ELSE ToTime(i.time)

(***************************************************************************)
(* std::filesystem::path::parent_path; the parent of "/" is "/".           *)
(***************************************************************************)
ParentPath(p) == Front(p)

FileName(p) == IF p = Root THEN NoName ELSE Last(p)

SlipNoProposedName(i) ==
  LET name == IF i.ext = NoExt THEN i.name ELSE Dotted(i.name, i.ext)
  IN  IF name = NoName THEN i.path ELSE Append(i.path, name)

\* The path execute() computes for an item before filing it.
EntryPath(i) ==
  LET base == IF i.path = Root /\ i.name = NoName THEN ProposedName ELSE i.name
      name == IF i.ext = NoExt THEN base ELSE Dotted(base, i.ext)
  IN  IF name = NoName THEN i.path ELSE Append(i.path, name)

-----------------------------------------------------------------------------
(***************************************************************************)
(* ci_iterator::Impl: bound is _seq # nullptr, index and end as in the     *)
(* code.  n is the number of items of the archive.                         *)
(***************************************************************************)
Iterator == [bound: BOOLEAN, index: Nat, end: BOOLEAN]

Begin(n) == [bound |-> TRUE, index |-> 0, end |-> n = 0]

End == [bound |-> FALSE, index |-> 0, end |-> TRUE]

Increment(it, n) == [it EXCEPT !.index = @ + 1,
                               !.end = @ \/ it.index + 1 >= n]

Same(a, b) == \/ a.end /\ b.end
              \/ a.bound = b.bound /\ a.index = b.index
=============================================================================
