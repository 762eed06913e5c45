------------------------------ MODULE ArchiveFS ------------------------------
(***************************************************************************)
(* What a user of the mount is promised, as a specification: a handle,     *)
(* once open, stands for the bytes of one file, fixed until it is closed;  *)
(* a read returns the bytes asked for, or the first of them, since an      *)
(* error of the disk shows only as a short answer.  The bytes are those of *)
(* the item whenever nothing went wrong while it was extracted.  Mount is  *)
(* the program.                                                            *)
(***************************************************************************)
EXTENDS Integers, SequencesExt

CONSTANTS
  File,          \* paths shown as regular files
  Absent,        \* paths the archive does not have
  Handle,        \* open files of the kernel
  Content(_),    \* Content(f): the blocks of the item behind f
  Refusal(_),    \* Refusal(f): "none", or the error an open of f ends with
  Block,         \* blocks of data
  Span,          \* offsets and lengths of reads, in blocks
  NoFile

VARIABLES
  up,      \* the process serves the mount
  opened,  \* handle -> what it stands for
  reply    \* the last answer given to the kernel

vars == <<up, opened, reply>>

Closed == [file |-> NoFile, data |-> << >>, intact |-> FALSE]

\* What a successful open of f may leave behind a handle.
Opened(f) ==
  {[file |-> f, data |-> Content(f), intact |-> TRUE]}
    \cup [file: {f}, data: Seq(Block), intact: {FALSE}]

\* asked: the handle, offset and length of a read.
Answer(op, asked, status, data) ==
  [op |-> op, asked |-> asked, status |-> status, data |-> data]

\* The blocks from off on, n of them if there are as many.
Slice(data, off, n) ==
  SubSeq(data, off + 1, IF off + n < Len(data) THEN off + n ELSE Len(data))

\* What a read may return: those blocks or the first of them.
Fread(data, off, n) ==
  LET there == Slice(data, off, n)
  IN  {SubSeq(there, 1, m) : m \in 0..Len(there)}

-----------------------------------------------------------------------------
Init ==
  /\ up = TRUE
  /\ opened = [h \in Handle |-> Closed]
  /\ reply = Answer("none", << >>, "ok", << >>)

Refuse(f) ==
  /\ up
  /\ Refusal(f) # "none"
  /\ reply' = Answer("open", << >>, Refusal(f), << >>)
  /\ UNCHANGED <<up, opened>>

Open(h, f) ==
  /\ up
  /\ Refusal(f) = "none"
  /\ opened[h] = Closed
  /\ opened'[h] \in Opened(f)
  /\ opened' = [opened EXCEPT ![h] = opened'[h]]
  /\ reply' = Answer("open", << >>, "ok", << >>)
  /\ UNCHANGED up

Read(h, off, n) ==
  /\ up
  /\ opened[h] # Closed
  /\ \E data \in Fread(opened[h].data, off, n) :
       reply' = Answer("read", <<h, off, n>>, "ok", data)
  /\ UNCHANGED <<up, opened>>

Close(h) ==
  /\ up
  /\ opened[h] # Closed
  /\ opened' = [opened EXCEPT ![h] = Closed]
  /\ reply' = Answer("release", << >>, "ok", << >>)
  /\ UNCHANGED up

\* Unmounted, or gone: nothing is answered any more.
Leave == up /\ up' = FALSE /\ UNCHANGED <<opened, reply>>

Next ==
  \/ \E f \in File \cup Absent : Refuse(f)
  \/ \E h \in Handle :
       \/ \E f \in File : Open(h, f)
       \/ \E off, n \in Span : Read(h, off, n)
       \/ Close(h)
  \/ Leave

Spec == Init /\ [][Next]_vars
=============================================================================
