------------------------------ MODULE MCLibrary ------------------------------
(***************************************************************************)
(* Library on every 7z.so of at most MaxFormats formats with two of them   *)
(* possibly of one name, and every wish of at most MaxOrder words, among   *)
(* them the name of no format, with archives that none, one or two formats *)
(* accept.  Names are made with every two lists of at most MaxWords words, *)
(* as long as each other unless the second one is empty, as those of 7-Zip *)
(* are, in libraries that nobody rearranges.                               *)
(***************************************************************************)
EXTENDS Library

CONSTANTS MaxFormats, MaxOrder, MaxWords, gz, tgz

MCExtension == {gz, tgz}

MCStar == -1

MCLibraries ==
  {l \in BoundedSeq(1..MaxFormats, MaxFormats) :
     \A n \in 1..MaxFormats : Cardinality({i \in DOMAIN l : l[i] = n}) <= 2}

MCOrders == BoundedSeq({MCStar, 0, 1, 2, 3}, MaxOrder) \cup {Unset}

MCAccepting == {s \in SUBSET (1..MaxFormats) : Cardinality(s) <= 2}

AllLists ==
  {words \in [def : BoundedSeq(MCExtension, MaxWords),
              add : BoundedSeq(MCExtension \cup {MCStar}, MaxWords)] :
     words.add # << >> => Len(words.add) = Len(words.def)}

MCLists(l, o) == IF l = <<1>> /\ o = Unset THEN AllLists ELSE {}
=============================================================================
