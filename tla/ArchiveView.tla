----------------------------- MODULE ArchiveView -----------------------------
(***************************************************************************)
(* What a mounted archive looks like, as a specification: items are taken  *)
(* in order, and taking one files it together with every directory on the  *)
(* way to it, in one step.  FileTree is the program that does it with two  *)
(* loops.                                                                  *)
(***************************************************************************)
EXTENDS ArchiveItems

VARIABLES
  arc,    \* the items of the archive
  taken,  \* how many of them have been filed
  view    \* path -> what is shown there; item 0 stands for no item

vars == <<arc, taken, view>>

ImpliedDir == [dir |-> TRUE, item |-> 0]

Init ==
  /\ arc \in Seq(Item)
  /\ taken = 0
  /\ view = [q \in {Root} |-> ImpliedDir]

TakeItem ==
  /\ taken < Len(arc)
  /\ taken' = taken + 1
  /\ LET path == EntryPath(arc[taken + 1])
     IN  view' = [q \in DOMAIN view \cup Prefixes(path) |->
                   IF q = path THEN [dir |-> arc[taken + 1].dir, item |-> taken + 1]
                   ELSE IF q \in DOMAIN view THEN view[q] ELSE ImpliedDir]
  /\ UNCHANGED arc

Next == TakeItem

Spec == Init /\ [][Next]_vars

(***************************************************************************)
(* The view in closed form: the paths of the items taken and all their     *)
(* prefixes; the last item with a path decides what the path shows.        *)
(***************************************************************************)
Reference ==
  [q \in {Root} \cup UNION {Prefixes(EntryPath(arc[n])) : n \in 1..taken} |->
     LET writers == {n \in 1..taken : EntryPath(arc[n]) = q}
     IN  IF writers = {} THEN ImpliedDir
         ELSE [dir |-> arc[Max(writers)].dir, item |-> Max(writers)]]

\* Filing items one at a time ends up with the closed form.
ViewIsReference == view = Reference
=============================================================================
