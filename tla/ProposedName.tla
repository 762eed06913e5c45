---------------------------- MODULE ProposedName ----------------------------
(***************************************************************************)
(* ImplArchive::proposed_name: the name for an item that has none, such as *)
(* the one stream of a.gz, is the archive's with the extension that the    *)
(* format adds when it unpacks one.  7-Zip describes a format by two lists *)
(* of words, the extensions and, word by word, what stands for them:       *)
(* "gz gzip tgz" and "* * .tar".  A format may have extensions only.       *)
(***************************************************************************)
EXTENDS Integers, SequencesExt

CONSTANTS
  Word,      \* extensions
  NoWord,    \* the empty word
  Star       \* "*", in the list of what stands for an extension

VARIABLES
  extDef,   \* default_extension()
  extAdd,   \* additional_extension()
  ext,      \* path().extension() without its dot, NoExtension if there is none
  at,       \* the iterator over extDef
  name,     \* the extension of the proposed name
  pc        \* "idle"; "loop"; "done"; "beyond" after a read past the end of extAdd

vars == <<extDef, extAdd, ext, at, name, pc>>

\* A file name without a dot; NoWord is that of a name that ends in a dot.
NoExtension == "none"

\* split(" ", ...): the empty string, too, has a word.
Split(words) == IF words = << >> THEN <<NoWord>> ELSE words

\* No item has asked for a name yet.
Init ==
  /\ extDef = << >> /\ extAdd = << >>
  /\ ext = NoExtension
  /\ at = 1
  /\ name = NoExtension
  /\ pc = "idle"

\* The name is asked for: words is what the library says of the format, e the
\* extension of the archive.
Enter(words, e) ==
  /\ pc = "idle"
  /\ extDef' = Split(words.def)
  /\ extAdd' = Split(words.add)
  /\ ext' = e
  /\ name' = e
  /\ pc' = "loop"
  /\ UNCHANGED at

InLoop == pc = "loop" /\ at <= Len(extDef)

\* ext == ext_try; the dot is on both sides.
Matches == InLoop /\ extDef[at] = ext

Keeps(word) == word = Star

\* replace_extension with the empty word takes the extension and its dot away.
Replaced(word) == IF word = NoWord THEN NoExtension ELSE word

Other ==
  /\ InLoop
  /\ ~Matches
  /\ at' = at + 1
  /\ UNCHANGED <<extDef, extAdd, ext, name, pc>>

\* ext_new is "*": nothing is replaced, and the loop goes on.
Stays ==
  /\ Matches
  /\ at <= Len(extAdd) /\ Keeps(extAdd[at])
  /\ at' = at + 1
  /\ UNCHANGED <<extDef, extAdd, ext, name, pc>>

SlipNoBreak ==
  /\ Matches
  /\ at <= Len(extAdd) /\ ~Keeps(extAdd[at])
  /\ name' = Replaced(extAdd[at])
  /\ at' = at + 1
  /\ UNCHANGED <<extDef, extAdd, ext, pc>>

Replace ==
  /\ Matches
  /\ at <= Len(extAdd) /\ ~Keeps(extAdd[at])
  /\ name' = Replaced(extAdd[at])
  /\ pc' = "done"
  /\ UNCHANGED <<extDef, extAdd, ext, at>>

\* operator[] of a vector that has no such element: undefined.
ReadBeyond ==
  /\ Matches
  /\ at > Len(extAdd)
  /\ pc' = "beyond"
  /\ UNCHANGED <<extDef, extAdd, ext, at, name>>

Finish ==
  /\ pc = "loop"
  /\ at > Len(extDef)
  /\ pc' = "done"
  /\ UNCHANGED <<extDef, extAdd, ext, at, name>>

Next == Other \/ Stays \/ Replace \/ ReadBeyond \/ Finish

-----------------------------------------------------------------------------
(***************************************************************************)
(* Properties.                                                             *)
(***************************************************************************)
TypeOK ==
  /\ extDef \in Seq(Word \cup {NoWord})
  /\ extAdd \in Seq(Word \cup {NoWord, Star})
  /\ ext \in Word \cup {NoWord, NoExtension}
  /\ at \in 1..(Len(extDef) + 1)
  /\ name \in Word \cup {NoWord, NoExtension}
  /\ pc \in {"idle", "loop", "done", "beyond"}

\* What the format's words say: the first entry for the archive's extension
\* that is more than a "*" names the extension of what is inside.
Says ==
  {n \in DOMAIN extDef \cap DOMAIN extAdd : extDef[n] = ext /\ extAdd[n] # Star}

\* The proposed name is the one the two lists describe, if a list repeats an
\* extension too, and the archive's own where they have nothing to say.
NameIsUnpacked ==
  pc = "done" =>
    name = IF Says = {} THEN ext ELSE Replaced(extAdd[Min(Says)])

\* README: any archive that 7-Zip supports can be mounted.
EveryArchiveIsNamed == pc # "beyond"
=============================================================================
