------------------------------ MODULE TmpStream ------------------------------
(***************************************************************************)
(* FileWriteStream: an IOutStream for 7-Zip and an IFile for the kernel,   *)
(* on a FILE of the C library.  Written bytes wait in stdio's buffer, and  *)
(* what 7-Zip asks for next meets them there: Seek writes them out first,  *)
(* SetSize resizes the file behind the buffer's back.  Writing out may     *)
(* fail after any byte (no space, quota): stdio then drops the rest and    *)
(* raises ferror, the only error the stream reports.                       *)
(*                                                                         *)
(* 7-Zip is external and calls in any order; Mount has the decoders that   *)
(* only append.                                                            *)
(***************************************************************************)
EXTENDS Bytes

CONSTANTS
  Chunk,        \* what a Write brings
  Offset,       \* arguments of Seek, and of the kernel's reads
  Length,       \* arguments of SetSize, and lengths of the kernel's reads
  BufSize,      \* bytes the buffer holds
  MaxLen        \* bound: 7-Zip writes and seeks no further

ASSUME StreamAssumption ==
  /\ Zero \in Byte
  /\ Chunk \subseteq Seq(Byte)
  /\ Offset \subseteq Int
  /\ Length \subseteq Nat
  /\ BufSize \in Nat /\ MaxLen \in Nat

VARIABLES
  disk,    \* the temporary file
  buf,     \* bytes not yet written out, and where they go
  err,     \* ferror
  phase,   \* "writing"; "reading" once it is fi->fh; "gone"
  reply,   \* the last answer
  lost,    \* history: a byte was dropped
  cut      \* history: a SetSize cut off bytes that were in the buffer

vars == <<disk, buf, err, phase, reply, lost, cut>>

Pos == buf.at + Len(buf.data)

\* check_error, which looks at ferror.
Status(e) == IF e THEN "error" ELSE "S_OK"

-----------------------------------------------------------------------------
(***************************************************************************)
(* stdio, as the set of possible outcomes.                                 *)
(***************************************************************************)
\* The first k bytes of data reach file f at at; the others stay buffered.
Out(f, at, data, k) ==
  [disk |-> Overlay(f, at, SubSeq(data, 1, k)),
   buf |-> [at |-> at + k, data |-> SubSeq(data, k + 1, Len(data))], lost |-> FALSE]

Dropped(f, at, data, k) ==
  [Out(f, at, data, k) EXCEPT !.buf.data = << >>, !.lost = TRUE]

Failures(f, at, data) == {Dropped(f, at, data, k) : k \in 0..(Len(data) - 1)}

\* fwrite: whatever the library writes out, what it keeps fits the buffer.
Written(d) ==
  LET data == buf.data \o d
  IN  {Out(disk, buf.at, data, k) : k \in {k \in 0..Len(data) : Len(data) - k <= BufSize}}
        \cup Failures(disk, buf.at, data)

\* The whole buffer goes to f, which the file has become.
Flushed(f) ==
  {Out(f, buf.at, buf.data, Len(buf.data))} \cup Failures(f, buf.at, buf.data)

\* fseek writes the buffer out before it computes the target, and stays where
\* it is when that fails or the target is negative.
Sought(whence, offset) ==
  {LET t == Target(whence, offset, Len(o.disk), o.buf.at)
   IN  IF o.lost \/ t < 0 THEN o ELSE [o EXCEPT !.buf.at = t] : o \in Flushed(disk)}

SlipClearedAfterwards(o) == o.lost

\* Nothing clears ferror once it is set.
Raised(o) == err \/ o.lost

Becomes(o) ==
  /\ disk' = o.disk
  /\ buf' = o.buf
  /\ lost' = (lost \/ o.lost)

-----------------------------------------------------------------------------
(***************************************************************************)
(* 7-Zip's calls.                                                          *)
(***************************************************************************)
Write(d) ==
  /\ phase = "writing"
  /\ Pos + Len(d) <= MaxLen
  /\ \E o \in Written(d) : Becomes(o) /\ err' = Raised(o)
  /\ reply' = Answer("Write", Status(err'), 0, << >>)
  /\ UNCHANGED <<phase, cut>>

SlipToldOffset(o, offset) == offset

\* newPosition is what ftell says.
Told(o, offset) == o.buf.at

\* A target fseek refuses is no error either: only newPosition tells.
Seek(whence, offset) ==
  /\ phase = "writing"
  /\ \E o \in Sought(whence, offset) :
       /\ o.buf.at <= MaxLen
       /\ Becomes(o)
       /\ err' = Raised(o)
       /\ reply' = Answer("Seek", Status(err'), Told(o, offset), << >>)
  /\ UNCHANGED <<phase, cut>>

SlipRewound(o) == [o EXCEPT !.buf.at = 0]

\* fseek back to where ftell was.
Back(o) == IF o.lost THEN o ELSE [o EXCEPT !.buf.at = Pos]

\* ftruncate acts on the file below the buffer, whose bytes follow when the
\* position is restored.
SetSize(n) ==
  /\ phase = "writing"
  /\ \E o \in Flushed(Resized(disk, n)) : Becomes(Back(o)) /\ err' = Raised(o)
  /\ cut' = (cut \/ (buf.data # << >> /\ Pos > n))
  /\ reply' = Answer("SetSize", Status(err'), 0, << >>)
  /\ UNCHANGED phase

-----------------------------------------------------------------------------
(***************************************************************************)
(* The end of execute(), the kernel's calls, and the ends of the stream.   *)
(***************************************************************************)
\* seek(0): nobody looks at what it returns, nor at ferror.
Rewind ==
  /\ phase = "writing"
  /\ \E o \in Sought("set", 0) : Becomes(o) /\ err' = Raised(o)
  /\ phase' = "reading"
  /\ reply' = Answer("open", "S_OK", 0, << >>)
  /\ UNCHANGED cut

\* cb_read: a disk error ends fread early, and only the number of bytes is
\* passed on.
Read(off, n) ==
  /\ phase = "reading"
  /\ \E o \in Sought("set", off) :
       LET there == Slice(o.disk, off, n)
       IN  \E m \in 0..Len(there) :
             /\ Becomes([o EXCEPT !.buf.at = off + m])
             /\ err' = (Raised(o) \/ m < Len(there))
             /\ reply' = Answer("read", "S_OK", 0, SubSeq(there, 1, m))
  /\ UNCHANGED <<phase, cut>>

\* cb_release, or an exception while 7-Zip extracts: the destructor closes
\* the FILE and the file is gone.  So it is when ftruncate fails, which
\* throws out of a noexcept function.
Close ==
  /\ phase # "gone"
  /\ phase' = "gone"
  /\ UNCHANGED <<disk, buf, err, reply, lost, cut>>

-----------------------------------------------------------------------------
Init ==
  /\ disk = << >>
  /\ buf = [at |-> 0, data |-> << >>]
  /\ err = FALSE
  /\ phase = "writing"
  /\ reply = Answer("none", "S_OK", 0, << >>)
  /\ lost = FALSE /\ cut = FALSE

Next ==
  \/ \E d \in Chunk : Write(d)
  \/ \E whence \in Whence, offset \in Offset : Seek(whence, offset)
  \/ \E n \in Length : SetSize(n)
  \/ Rewind
  \/ \E off \in Offset \cap Nat, n \in Length : Read(off, n)
  \/ Close

Spec == Init /\ [][Next]_vars

-----------------------------------------------------------------------------
(***************************************************************************)
(* Properties.                                                             *)
(***************************************************************************)
TypeOK ==
  /\ disk \in Seq(Byte)
  /\ buf \in [at : Nat, data : Seq(Byte)]
  /\ Len(buf.data) <= BufSize
  /\ err \in BOOLEAN /\ lost \in BOOLEAN /\ cut \in BOOLEAN
  /\ phase \in {"writing", "reading", "gone"}
  /\ reply \in Reply

\* The file as the calls left it: what is in the buffer lies over the disk.
F == INSTANCE OutFile WITH
  content <- Overlay(disk, buf.at, buf.data), pos <- Pos, sound <- ~lost /\ ~cut

\* Buffer and disk together are one file of bytes: every Write lands where
\* the last Seek led, over what was there, and what is handed to the kernel
\* never changes again, unless bytes were lost or cut.
ImplementsOutFile == F!Spec

\* A 7-Zip that got S_OK for its last call has lost no byte in any of them,
\* buffered bytes of earlier calls included: ferror is never cleared.
SuccessMeansWritten ==
  phase = "writing" /\ reply.status = "S_OK" => ~lost
=============================================================================
