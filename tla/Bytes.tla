-------------------------------- MODULE Bytes --------------------------------
(***************************************************************************)
(* Files of bytes: what writing at a place, resizing, seeking and reading  *)
(* do to one.                                                              *)
(***************************************************************************)
EXTENDS Integers, SequencesExt

CONSTANTS
  Byte,     \* what a place in a file holds
  Zero      \* the byte of a place nobody wrote

\* f with d written over it from position at on; a gap becomes zeros.
Overlay(f, at, d) ==
  IF d = << >> THEN f
  ELSE [i \in 1..(IF at + Len(d) > Len(f) THEN at + Len(d) ELSE Len(f)) |->
          IF i > at /\ i <= at + Len(d) THEN d[i - at]
          ELSE IF i <= Len(f) THEN f[i] ELSE Zero]

\* f cut off at n, or filled up with zeros.
Resized(f, n) == [i \in 1..n |-> IF i <= Len(f) THEN f[i] ELSE Zero]

\* Where a seek leads, in a file of that size and from that position.
Whence == {"set", "cur", "end"}

Target(whence, offset, size, from) ==
  IF whence = "set" THEN offset
  ELSE offset + (IF whence = "cur" THEN from ELSE size)

\* The bytes from off on, n of them if there are as many.
Slice(f, off, n) ==
  SubSeq(f, off + 1, IF off + n < Len(f) THEN off + n ELSE Len(f))

\* An answer of the file; at: the position told; data: the bytes read.
Answer(op, status, at, data) ==
  [op |-> op, status |-> status, at |-> at, data |-> data]

Reply == [op : {"none", "Write", "Seek", "SetSize", "open", "read"},
          status : {"S_OK", "error"}, at : Nat, data : Seq(Byte)]
=============================================================================
