------------------------------- MODULE Formats -------------------------------
(***************************************************************************)
(* ImplLib::fill_formats(): the list of archive formats, in the order in   *)
(* which an archive is tried with them.  It starts as the list 7z.so has   *)
(* and is rearranged by FUSE3_P7ZIP_FORMATS, "Iso:Udf:*:APM:GPT": formats  *)
(* named before "*" move to the front, those named after it to the end.    *)
(*                                                                         *)
(* Names are numbers in alphabetical order, Star included; a format is its *)
(* index in the library.                                                   *)
(***************************************************************************)
EXTENDS Integers, FiniteSets, SequencesExt

CONSTANTS
  Libraries,   \* the lists of names 7z.so may have
  Orders,      \* values of FUSE3_P7ZIP_FORMATS, split at ":"
  Star,        \* the word "*"
  Unset        \* the variable is not set

ASSUME FormatsAssumption ==
  /\ Libraries \subseteq Seq(Nat)
  /\ Orders \subseteq Seq(Int) \cup {Unset}
  /\ Star \in Int \ Nat

VARIABLES
  library,   \* the names in 7z.so
  order,     \* the environment's wish
  formats,   \* m_formats
  head, tail,
  current,   \* which of the two a named format goes to
  pos,       \* words of the wish done with
  pc

vars == <<library, order, formats, head, tail, current, pos, pc>>

Index == 1..Len(library)

\* std::find_if: the first format left that has the name.
Found(name) == {i \in DOMAIN formats : library[formats[i]] = name}

First(s) == CHOOSE i \in s : \A j \in s : i <= j

-----------------------------------------------------------------------------
Init ==
  /\ library \in Libraries
  /\ order \in Orders
  /\ formats = << >>
  /\ head = << >> /\ tail = << >>
  /\ current = "head"
  /\ pos = 0
  /\ pc = "list"

SlipOneTooMany ==
  /\ pc = "list"
  /\ Len(formats) <= Len(library)
  /\ formats' = Append(formats, Len(formats) + 1)
  /\ UNCHANGED <<library, order, head, tail, current, pos, pc>>

List ==
  /\ pc = "list"
  /\ Len(formats) < Len(library)
  /\ formats' = Append(formats, Len(formats) + 1)
  /\ UNCHANGED <<library, order, head, tail, current, pos, pc>>

Listed ==
  /\ pc = "list"
  /\ Len(formats) = Len(library)
  /\ pc' = IF order = Unset THEN "done" ELSE "order"
  /\ UNCHANGED <<library, order, formats, head, tail, current, pos>>

Word == order[pos + 1]

AtWord == pc = "order" /\ pos < Len(order) /\ pos' = pos + 1

StarWord ==
  /\ AtWord
  /\ Word = Star
  /\ current' = "tail"
  /\ UNCHANGED <<library, order, formats, head, tail, pc>>

SlipNotErased(s, i) == s

Erase(s, i) == RemoveAt(s, i)

SlipAlwaysFront(f) == head' = Append(head, f) /\ tail' = tail

Place(f) ==
  IF current = "head" THEN head' = Append(head, f) /\ tail' = tail
  ELSE tail' = Append(tail, f) /\ head' = head

NamedWord ==
  /\ AtWord
  /\ Word # Star
  /\ Found(Word) # {}
  /\ LET i == First(Found(Word))
     IN  /\ Place(formats[i])
         /\ formats' = Erase(formats, i)
  /\ UNCHANGED <<library, order, current, pc>>

\* No format has this name, or all of them have been placed before.
UnknownWord ==
  /\ AtWord
  /\ Word # Star
  /\ Found(Word) = {}
  /\ UNCHANGED <<library, order, formats, head, tail, current, pc>>

Splice ==
  /\ pc = "order"
  /\ pos = Len(order)
  /\ formats' = head \o formats \o tail
  /\ head' = << >> /\ tail' = << >>
  /\ pc' = "done"
  /\ UNCHANGED <<library, order, current, pos>>

Next == List \/ Listed \/ StarWord \/ NamedWord \/ UnknownWord \/ Splice

Spec == Init /\ [][Next]_vars

-----------------------------------------------------------------------------
(***************************************************************************)
(* Properties.                                                             *)
(***************************************************************************)
TypeOK ==
  /\ formats \in Seq(Index) /\ head \in Seq(Index) /\ tail \in Seq(Index)
  /\ current \in {"head", "tail"}
  /\ pos \in Nat
  /\ pc \in {"list", "order", "done", "open", "refused", "failed"}

All == head \o formats \o tail

\* Rearranging neither loses a format nor doubles one, whatever the variable
\* names, however often: every archive stays readable with every format.
EveryFormatOnce ==
  /\ ToSet(All) = (IF pc = "list" THEN 1..Len(formats) ELSE Index)
  /\ IsInjective(All)

\* The word that places format f: the n-th mention of its name, if f is the
\* n-th format of that name.
Mentions(f) ==
  {m \in 1..Len(order) :
     /\ order[m] = library[f]
     /\ Cardinality({l \in 1..m : order[l] = library[f]})
          = Cardinality({g \in 1..f : library[g] = library[f]})}

StarAt ==
  LET stars == {m \in 1..Len(order) : order[m] = Star}
  IN  IF stars = {} THEN Len(order) + 1 ELSE First(stars)

Group(f) ==
  IF Mentions(f) = {} THEN 1
  ELSE IF First(Mentions(f)) < StarAt THEN 0 ELSE 2

Precedes(f, g) ==
  \/ Group(f) < Group(g)
  \/ /\ Group(f) = Group(g)
     /\ IF Group(f) = 1 THEN f < g ELSE First(Mentions(f)) < First(Mentions(g))

\* When the variable is set, the formats named before "*" come first and those
\* named after it last, each group in the order of the variable; in between
\* stand the others as the library has them.
OrderIsAsAsked ==
  pc = "done" /\ order # Unset =>
    \A i, j \in Index : i < j => Precedes(formats[i], formats[j])

\* README: "When opening a file the application tries all formats in the
\* alphabetical order."  That is what happens if the variable is not set.
AlphabeticalByDefault ==
  pc = "done" /\ order = Unset =>
    \A i, j \in Index : i < j => library[formats[i]] <= library[formats[j]]
=============================================================================
