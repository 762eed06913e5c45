------------------------------- MODULE OutFile -------------------------------
(***************************************************************************)
(* What 7-Zip and the kernel may expect of the temporary file of an opened *)
(* item: an array of bytes with a position.  7-Zip writes, seeks and       *)
(* resizes; afterwards the bytes are fixed and the kernel reads slices of  *)
(* them.  Once the file is no longer sound, 7-Zip's calls may have any     *)
(* effect on it.  TmpStream is the program.                                *)
(***************************************************************************)
EXTENDS Bytes

CONSTANTS
  Chunk,    \* what a Write brings
  Offset,   \* arguments of Seek, and of the kernel's reads
  Length    \* arguments of SetSize, and lengths of the kernel's reads

VARIABLES
  content,
  pos,
  phase,    \* "writing"; "reading" once cb_open has answered; "gone"
  sound,    \* content is what the calls say
  reply     \* the last answer

vars == <<content, pos, phase, sound, reply>>

-----------------------------------------------------------------------------
Init ==
  /\ content = << >>
  /\ pos = 0
  /\ phase = "writing"
  /\ sound = TRUE
  /\ reply = Answer("none", "S_OK", 0, << >>)

Write(d) ==
  /\ phase = "writing"
  /\ content' = Overlay(content, pos, d)
  /\ pos' = pos + Len(d)
  /\ reply' = Answer("Write", "S_OK", 0, << >>)
  /\ UNCHANGED <<phase, sound>>

\* A seek before the beginning moves nothing, and is told so by its place.
Seek(whence, offset) ==
  /\ phase = "writing"
  /\ pos' = LET t == Target(whence, offset, Len(content), pos)
            IN  IF t >= 0 THEN t ELSE pos
  /\ reply' = Answer("Seek", "S_OK", pos', << >>)
  /\ UNCHANGED <<content, phase, sound>>

SetSize(n) ==
  /\ phase = "writing"
  /\ content' = Resized(content, n)
  /\ reply' = Answer("SetSize", "S_OK", 0, << >>)
  /\ UNCHANGED <<pos, phase, sound>>

\* The file system lets the file down, or has before.
Spoil ==
  /\ phase = "writing"
  /\ ~sound'
  /\ content' \in Seq(Byte) /\ pos' \in Nat
  /\ phase' \in {"writing", "reading"}
  /\ reply' \in Reply

HandOver ==
  /\ phase = "writing"
  /\ phase' = "reading"
  /\ pos' = 0
  /\ reply' = Answer("open", "S_OK", 0, << >>)
  /\ UNCHANGED <<content, sound>>

\* Fewer bytes than there are tell of an error, and only that.
Read(off, n) ==
  /\ phase = "reading"
  /\ pos' \in Nat
  /\ \E m \in 0..Len(Slice(content, off, n)) :
       reply' = Answer("read", "S_OK", 0, SubSeq(Slice(content, off, n), 1, m))
  /\ UNCHANGED <<content, phase, sound>>

Close ==
  /\ phase # "gone"
  /\ phase' = "gone"
  /\ UNCHANGED <<content, pos, sound, reply>>

Next ==
  \/ \E d \in Chunk : Write(d)
  \/ \E whence \in Whence, offset \in Offset : Seek(whence, offset)
  \/ \E n \in Length : SetSize(n)
  \/ Spoil
  \/ HandOver
  \/ \E off \in Offset \cap Nat, n \in Length : Read(off, n)
  \/ Close

Spec == Init /\ [][Next]_vars
=============================================================================
