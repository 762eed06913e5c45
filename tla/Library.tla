------------------------------- MODULE Library -------------------------------
(***************************************************************************)
(* What 7z.so says of its formats decides twice in the life of a mount: an *)
(* archive gets the first format of the rearranged list that accepts it,   *)
(* and an item without a name gets one made of that format's two lists of  *)
(* words.  Formats has the list, ProposedName the name, and the step       *)
(* between them stands for ImplArchive::open_archive(); the steps of that  *)
(* loop, with its errors and its references, are those of OpenArchive.     *)
(***************************************************************************)
EXTENDS Formats

CONSTANTS
  Extension, NoWord,   \* words of the two lists
  Accepting,           \* sets of the formats that accept an archive
  Lists(_, _)          \* the two lists a format may have, in a library in an
                       \* order, when an item of the archive has no name;
                       \* they do not depend on the format chosen

ASSUME ListsAssumption ==
  /\ NoWord \notin Extension
  /\ Star \notin Extension \cup {NoWord}
  /\ Accepting \subseteq SUBSET Nat
  /\ \A l \in Libraries, o \in Orders : \A words \in Lists(l, o) :
       words.def \in Seq(Extension) /\ words.add \in Seq(Extension \cup {Star})

VARIABLES
  accepts,   \* the formats whose Open returns S_OK when their turn comes; a
             \* read error or a failed rewind before it may be why others do not
  format,    \* _format; 0 unless the archive is open
  extDef, extAdd, ext, at, name, namePc   \* of ProposedName

nameVars == <<extDef, extAdd, ext, at, name, namePc>>

N == INSTANCE ProposedName WITH Word <- Extension, pc <- namePc

-----------------------------------------------------------------------------
LibInit ==
  /\ Init
  /\ N!Init
  /\ accepts = {}
  /\ format = 0

\* ImplLib's constructor.
Fill ==
  /\ Next
  /\ UNCHANGED <<accepts, format>> /\ UNCHANGED nameVars

SlipLastAccepting(s) == {k \in DOMAIN formats : formats[k] \in s}

\* Where the loop over lib.formats() stops.
Selected(s) ==
  {k \in DOMAIN formats :
     formats[k] \in s /\ \A j \in 1..(k - 1) : formats[j] \notin s}

Open ==
  /\ pc = "done"
  /\ \E s \in Accepting : accepts' = s
  /\ \E k \in Selected(accepts') : format' = formats[k]
  /\ pc' = "open"
  /\ UNCHANGED <<library, order, formats, head, tail, current, pos>>
  /\ UNCHANGED nameVars

\* "ERROR_INVALID_DATA"
Refuse ==
  /\ pc = "done"
  /\ \E s \in Accepting : accepts' = s
  /\ Selected(accepts') = {}
  /\ pc' = "refused"
  /\ UNCHANGED <<library, order, formats, head, tail, current, pos, format>>
  /\ UNCHANGED nameVars

\* CreateObject fails for a format whose turn comes: CheckCom throws.
CreateFails ==
  /\ pc = "done"
  /\ formats # << >>
  /\ pc' = "failed"
  /\ UNCHANGED <<library, order, formats, head, tail, current, pos>>
  /\ UNCHANGED <<accepts, format>> /\ UNCHANGED nameVars

\* execute() asks for the name of an item that has none.
AskName ==
  /\ pc = "open"
  /\ \E words \in Lists(library, order), e \in Extension \cup {NoWord, N!NoExtension} :
       N!Enter(words, e)
  /\ UNCHANGED vars /\ UNCHANGED <<accepts, format>>

MakeName ==
  /\ N!Next
  /\ UNCHANGED vars /\ UNCHANGED <<accepts, format>>

LibNext == Fill \/ Open \/ Refuse \/ CreateFails \/ AskName \/ MakeName

LibSpec == LibInit /\ [][LibNext]_<<vars, nameVars, accepts, format>>

-----------------------------------------------------------------------------
(***************************************************************************)
(* Properties, with EveryFormatOnce, OrderIsAsAsked and, of the README,    *)
(* AlphabeticalByDefault of Formats.                                       *)
(***************************************************************************)
LibTypeOK ==
  /\ TypeOK
  /\ N!TypeOK
  /\ accepts \in SUBSET Nat
  /\ format \in Index \cup {0}

\* Of the formats whose Open succeeds when their turn comes, the archive is
\* opened with the one that the variable puts first, if it is set.  With
\* ERROR_INVALID_DATA it is refused only if there is none; a format that cannot
\* be created is another failure, and what keeps Open from succeeding, a read
\* error or a pipe that does not rewind, is in OpenArchive.
ChosenAsAsked ==
  /\ format # 0 =>
       /\ format \in accepts
       /\ order # Unset =>
            \A g \in (accepts \cap Index) \ {format} : Precedes(format, g)
  /\ pc = "refused" => accepts \cap Index = {}

\* The proposed name is the one the two lists of the format describe, and the
\* archive's own where they have nothing to say.
NameIsUnpacked == N!NameIsUnpacked

\* README: any archive that 7-Zip supports can be mounted.
EveryArchiveIsNamed == N!EveryArchiveIsNamed
=============================================================================
