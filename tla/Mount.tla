-------------------------------- MODULE Mount --------------------------------
(***************************************************************************)
(* The mount at work: libfuse calls cb_open, cb_read and cb_release one    *)
(* after the other from its single loop.  An open extracts the whole item  *)
(* into a temporary file and hands that file to the kernel as fi->fh.      *)
(*                                                                         *)
(* While cb_open waits in IInArchive::Extract, 7-Zip calls back into the   *)
(* extractor and into the stream it was lent.  That stream has two lives:  *)
(* a COM object counted by 7-Zip, which deletes itself when the count is   *)
(* zero, and a C++ object owned by a unique_ptr and later by fi->fh, which *)
(* is deleted whatever the count is.                                       *)
(*                                                                         *)
(* The kernel, 7-Zip and the C library are external: they do anything that *)
(* their contracts allow.  Data comes in blocks <<file, number>>.          *)
(***************************************************************************)
EXTENDS Integers, SequencesExt

CONSTANTS
  File,          \* paths the map shows as regular files
  Absent,        \* paths it does not hold
  NoFile,
  Size(_),       \* Size(f): decoded length of the item behind f, in blocks
  Sized(_),      \* Sized(f): whether the archive reports that length
  Limit,         \* FUSE3_P7ZIP_MAX_OPEN_SIZE as strtoll reads it
  NoLimit,       \* ... when the variable is not set
  Stream,        \* addresses a FileWriteStream can have
  Handle,        \* open files of the kernel
  NoStream,
  BufSize,       \* blocks the C library buffers
  MaxHolds,      \* references 7-Zip takes at most
  Span           \* offsets and lengths the kernel reads with

ASSUME MountAssumption ==
  /\ File \cap Absent = {}
  /\ NoFile \notin File
  /\ NoStream \notin Stream
  /\ \A f \in File : Size(f) \in Nat /\ Sized(f) \in BOOLEAN
  /\ Limit = NoLimit \/ Limit \in Int
  /\ BufSize \in Nat
  /\ MaxHolds \in Nat \ {0}
  /\ Span \subseteq Nat

VARIABLES
  proc,    \* "serving"; "dead" after an uncaught exception; "ended"
  call,    \* the open that is under way
  refs,    \* stream -> _ref_counter, 0 for memory that holds no stream
  file,    \* stream -> its temporary file
  fh,      \* handle -> fi->fh, NoStream when closed
  arcErr,  \* ferror of the FILE the archive is read from
  reply    \* the last answer given to the kernel

vars == <<proc, call, refs, file, fh, arcErr, reply>>

Block == File \X Nat

\* Block 0 is what a decoder makes of damaged data or of a wrong password.
Junk(f) == <<f, 0>>

Content(f) == [n \in 1..Size(f) |-> <<f, n>>]

\* disk: written out; buf: in stdio's buffer; harmed: data were lost.
TmpFile == [item: File \cup {NoFile}, disk: Seq(Block), buf: Seq(Block),
            harmed: BOOLEAN]

NoTmpFile == [item |-> NoFile, disk |-> << >>, buf |-> << >>, harmed |-> FALSE]

\* asked: GetStream has lent the stream; holds: references 7-Zip has to give
\* back; next: blocks decoded; stopped: 7-Zip gave up on the item.
Call == [item: File \cup {NoFile}, stream: Stream \cup {NoStream},
         asked: BOOLEAN, holds: Nat, next: Nat, stopped: BOOLEAN]

NoCall == [item |-> NoFile, stream |-> NoStream, asked |-> FALSE, holds |-> 0,
           next |-> 0, stopped |-> FALSE]

\* asked: the handle, offset and length of a read.
Answer(op, asked, status, data) ==
  [op |-> op, asked |-> asked, status |-> status, data |-> data]

Reply == [op: {"none", "open", "read", "release"},
          asked: {<< >>} \cup (Handle \X Span \X Span),
          status: {"ok", "ENOENT", "E2BIG"}, data: Seq(Block)]

Idle == proc = "serving" /\ call = NoCall

Extracting == proc = "serving" /\ call # NoCall

-----------------------------------------------------------------------------
(***************************************************************************)
(* The temporary file as stdio drives it.  Writing the buffer out can fail *)
(* after any part of it (no space, quota): stdio drops the rest and sets   *)
(* the error flag.  Each operator gives the set of possible outcomes.      *)
(***************************************************************************)
SlipErrorCleared(t) ==
  {[t EXCEPT !.disk = @ \o SubSeq(t.buf, 1, k),
             !.buf = << >>] : k \in 0..Len(t.buf)}

Flushed(t) ==
  {[t EXCEPT !.disk = @ \o SubSeq(t.buf, 1, k),
             !.buf = << >>,
             !.harmed = @ \/ k < Len(t.buf)] : k \in 0..Len(t.buf)}

\* FileWriteStream::Write; it returns an error iff the result is harmed.
Written(t, blocks) ==
  LET u == [t EXCEPT !.buf = @ \o blocks]
  IN  IF Len(u.buf) <= BufSize THEN {u} ELSE Flushed(u)

SlipNoSeek(data, off, n) == SubSeq(data, 1, IF n < Len(data) THEN n ELSE Len(data))

\* FileWriteStream::seek: n blocks from off on, or what there is.
Slice(data, off, n) ==
  SubSeq(data, off + 1, IF off + n < Len(data) THEN off + n ELSE Len(data))

\* fread from there: all of it, or less if the disk cannot be read.
Fread(data, off, n) ==
  LET there == Slice(data, off, n)
  IN  {SubSeq(there, 1, m) : m \in 0..Len(there)}

-----------------------------------------------------------------------------
(***************************************************************************)
(* cb_open up to the extraction.                                           *)
(***************************************************************************)
\* stat.st_size of the entry: 0 when the archive does not report a size.
Shown(f) == IF Sized(f) THEN Size(f) ELSE 0

SlipNotDir(f) ==
  IF f \notin File THEN "ENOTDIR"
  ELSE IF Limit # NoLimit /\ Shown(f) > Limit THEN "E2BIG"
  ELSE "none"

Refusal(f) ==
  IF f \notin File THEN "ENOENT"
  ELSE IF Limit # NoLimit /\ Shown(f) > Limit THEN "E2BIG"
  ELSE "none"

OpenRefused(f) ==
  /\ Idle
  /\ Refusal(f) # "none"
  /\ reply' = Answer("open", << >>, Refusal(f), << >>)
  /\ UNCHANGED <<proc, call, refs, file, fh, arcErr>>

SlipNoAddRef == 1

\* The count starts at 1 and execute() adds one for the pointer GetStream
\* is going to lend without counting it.
InitialRefs == 2

\* extract() makes an extractor and execute() a stream on a tmpfile().
OpenStart(f, s) ==
  /\ Idle
  /\ Refusal(f) = "none"
  /\ \E h \in Handle : fh[h] = NoStream
  /\ refs[s] = 0
  /\ refs' = [refs EXCEPT ![s] = InitialRefs]
  /\ file' = [file EXCEPT ![s] = [NoTmpFile EXCEPT !.item = f]]
  /\ call' = [NoCall EXCEPT !.item = f, !.stream = s]
  /\ UNCHANGED <<proc, fh, arcErr, reply>>

\* tmpfile() fails: the constructor throws through cb_open and fuse_loop up
\* to main, which reports the error and returns.
OpenWithoutTmpFile(f) ==
  /\ Idle
  /\ Refusal(f) = "none"
  /\ \E h \in Handle : fh[h] = NoStream
  /\ proc' = "dead"
  /\ UNCHANGED <<call, refs, file, fh, arcErr, reply>>

-----------------------------------------------------------------------------
(***************************************************************************)
(* 7-Zip extracts.                                                         *)
(***************************************************************************)
\* 7-Zip has all blocks, or none that it could still get.
Decoded == call.stopped \/ (call.asked /\ call.next = Size(call.item))

\* GetStream in kExtract mode: file.get(), without AddRef.
GetStream ==
  /\ Extracting
  /\ ~call.asked /\ ~call.stopped
  /\ call' = [call EXCEPT !.asked = TRUE, !.holds = 1]
  /\ UNCHANGED <<proc, refs, file, fh, arcErr, reply>>

\* A decoded chunk goes through Write.  When Write reports an error, as
\* HRESULT 1, 7-Zip stops decoding.
Deliver ==
  /\ Extracting
  /\ call.holds > 0 /\ ~call.stopped /\ ~arcErr
  /\ \E m \in (call.next + 1)..Size(call.item) :
       \E t \in Written(file[call.stream], SubSeq(Content(call.item), call.next + 1, m)) :
         /\ file' = [file EXCEPT ![call.stream] = t]
         /\ call' = [call EXCEPT !.next = m, !.stopped = t.harmed]
  /\ UNCHANGED <<proc, refs, fh, arcErr, reply>>

\* The archive cannot be read.  ferror is never cleared, so FileReadStream
\* fails every later Read too, whatever became of the disk.
ReadFails ==
  /\ Extracting
  /\ ~call.stopped
  /\ call.next < Size(call.item)
  /\ arcErr' = TRUE
  /\ call' = [call EXCEPT !.stopped = TRUE]
  /\ file' = [file EXCEPT ![call.stream].harmed = TRUE]
  /\ UNCHANGED <<proc, refs, fh, reply>>

\* Damaged data, a wrong password, an unsupported method: some junk may get
\* written, and SetOperationResult drops the verdict.
DecodeFails ==
  /\ Extracting
  /\ ~call.stopped
  /\ \E blocks \in {<< >>} \cup (IF call.holds > 0 THEN {<<Junk(call.item)>>} ELSE {}) :
       \E t \in Written(file[call.stream], blocks) :
         file' = [file EXCEPT ![call.stream] = [t EXCEPT !.harmed = TRUE]]
  /\ call' = [call EXCEPT !.stopped = TRUE]
  /\ UNCHANGED <<proc, refs, fh, arcErr, reply>>

\* A component of 7-Zip keeps a pointer of its own.
AddRef ==
  /\ Extracting
  /\ call.holds > 0 /\ call.holds < MaxHolds /\ ~Decoded
  /\ refs' = [refs EXCEPT ![call.stream] = @ + 1]
  /\ call' = [call EXCEPT !.holds = @ + 1]
  /\ UNCHANGED <<proc, file, fh, arcErr, reply>>

\* UnknownImp::Release: the stream deletes itself at zero.
Release ==
  /\ Extracting
  /\ call.holds > 1 \/ (call.holds = 1 /\ Decoded)
  /\ refs' = [refs EXCEPT ![call.stream] = @ - 1]
  /\ file' = IF refs[call.stream] = 1
             THEN [file EXCEPT ![call.stream] = NoTmpFile] ELSE file
  /\ call' = [call EXCEPT !.holds = @ - 1]
  /\ UNCHANGED <<proc, fh, arcErr, reply>>

\* The callbacks are noexcept: a password that is not UTF-8, or an ftruncate
\* that fails in SetSize, throws out of one and ends in std::terminate.
CallbackThrows ==
  /\ Extracting
  /\ ~Decoded
  /\ proc' = "dead"
  /\ UNCHANGED <<call, refs, file, fh, arcErr, reply>>

\* By then 7-Zip's threads are out of the stream.
ExtractReturns == Extracting /\ Decoded /\ call.holds = 0

-----------------------------------------------------------------------------
(***************************************************************************)
(* The rest of cb_open, and the other callbacks.                           *)
(***************************************************************************)
\* CheckCom lets every HRESULT that is not negative pass: S_OK, and the 1 of
\* a failed Write or Read.  execute() rewinds, which writes the buffer out,
\* releases the stream from the unique_ptr, and cb_open stores it.
HandOver(h) ==
  /\ ExtractReturns
  /\ fh[h] = NoStream
  /\ \E t \in Flushed(file[call.stream]) :
       file' = [file EXCEPT ![call.stream] = t]
  /\ fh' = [fh EXCEPT ![h] = call.stream]
  /\ call' = NoCall
  /\ reply' = Answer("open", << >>, "ok", << >>)
  /\ UNCHANGED <<proc, refs, arcErr>>

\* A negative HRESULT: CheckCom throws, the extractor goes and its unique_ptr
\* deletes the stream; the exception leaves fuse_loop.
ExtractThrows ==
  /\ ExtractReturns
  /\ call.stopped
  /\ refs' = [refs EXCEPT ![call.stream] = 0]
  /\ file' = [file EXCEPT ![call.stream] = NoTmpFile]
  /\ proc' = "dead"
  /\ call' = NoCall
  /\ UNCHANGED <<fh, arcErr, reply>>

\* cb_read: the seek writes out what the buffer holds, and of a failing fread
\* only the number of bytes is passed on.
Read(h, off, n) ==
  /\ Idle
  /\ fh[h] # NoStream
  /\ \E t \in Flushed(file[fh[h]]) :
       /\ file' = [file EXCEPT ![fh[h]] = t]
       /\ \E data \in Fread(t.disk, off, n) :
            reply' = Answer("read", <<h, off, n>>, "ok", data)
  /\ UNCHANGED <<proc, call, refs, fh, arcErr>>

SlipKeepFile(h) ==
  /\ Idle
  /\ fh[h] # NoStream
  /\ fh' = [fh EXCEPT ![h] = NoStream]
  /\ reply' = Answer("release", << >>, "ok", << >>)
  /\ UNCHANGED <<proc, call, refs, file, arcErr>>

\* cb_release deletes the stream, and with it the temporary file.
ReleaseFile(h) ==
  /\ Idle
  /\ fh[h] # NoStream
  /\ refs' = [refs EXCEPT ![fh[h]] = 0]
  /\ file' = [file EXCEPT ![fh[h]] = NoTmpFile]
  /\ fh' = [fh EXCEPT ![h] = NoStream]
  /\ reply' = Answer("release", << >>, "ok", << >>)
  /\ UNCHANGED <<proc, call, arcErr>>

\* Unmounted or signalled: fuse_loop returns between two callbacks.
LoopEnds ==
  /\ Idle
  /\ proc' = "ended"
  /\ UNCHANGED <<call, refs, file, fh, arcErr, reply>>

-----------------------------------------------------------------------------
Init ==
  /\ proc = "serving"
  /\ call = NoCall
  /\ refs = [s \in Stream |-> 0]
  /\ file = [s \in Stream |-> NoTmpFile]
  /\ fh = [h \in Handle |-> NoStream]
  /\ arcErr \in BOOLEAN    \* a format can be chosen in spite of a read error
  /\ reply = Answer("none", << >>, "ok", << >>)

Next ==
  \/ \E f \in File \cup Absent : OpenRefused(f)
  \/ \E f \in File, s \in Stream : OpenStart(f, s)
  \/ \E f \in File : OpenWithoutTmpFile(f)
  \/ GetStream \/ Deliver \/ ReadFails \/ DecodeFails
  \/ AddRef \/ Release
  \/ CallbackThrows \/ ExtractThrows
  \/ \E h \in Handle : HandOver(h)
  \/ \E h \in Handle, off, n \in Span : Read(h, off, n)
  \/ \E h \in Handle : ReleaseFile(h)
  \/ LoopEnds

Spec == Init /\ [][Next]_vars

-----------------------------------------------------------------------------
(***************************************************************************)
(* Properties.                                                             *)
(***************************************************************************)
TypeOK ==
  /\ proc \in {"serving", "dead", "ended"}
  /\ call \in Call
  /\ refs \in [Stream -> 0..(MaxHolds + 1)]
  /\ file \in [Stream -> TmpFile]
  /\ fh \in [Handle -> Stream \cup {NoStream}]
  /\ arcErr \in BOOLEAN
  /\ reply \in Reply

\* The streams that have an owner: a handle, or the open under way.
Owned ==
  {fh[h] : h \in Handle} \cup {call.stream}

\* A stream exists as long as somebody owns it, and no longer, although
\* 7-Zip's Release may delete it behind the unique_ptr and cb_release deletes
\* it whatever the count says; two handles never share one; and the open
\* under way does not share one with a handle.
OneOwner ==
  /\ \A s \in Stream : refs[s] > 0 <=> s \in Owned
  /\ \A h1, h2 \in Handle : fh[h1] = fh[h2] /\ fh[h1] # NoStream => h1 = h2
  /\ call # NoCall => \A h \in Handle : fh[h] # call.stream

\* While 7-Zip holds a stream the count covers each of its references and the
\* extractor's own, so that none of its releases is the last.
CountCoversHolders ==
  call # NoCall =>
    IF call.asked THEN refs[call.stream] = call.holds + 1
    ELSE call.holds = 0 /\ refs[call.stream] = 2

\* Behind an open handle is the complete item, written out and in order,
\* unless the archive, the decoder or the disk failed while it was extracted.
UnharmedIsComplete ==
  \A h \in Handle :
    fh[h] # NoStream /\ ~file[fh[h]].harmed =>
      /\ file[fh[h]].buf = << >>
      /\ file[fh[h]].disk = Content(file[fh[h]].item)

-----------------------------------------------------------------------------
(***************************************************************************)
(* The promise to the user.                                                *)
(***************************************************************************)
Behind(h) ==
  IF fh[h] = NoStream
  THEN [file |-> NoFile, data |-> << >>, intact |-> FALSE]
  ELSE [file |-> file[fh[h]].item, data |-> file[fh[h]].disk,
        intact |-> ~file[fh[h]].harmed]

FS == INSTANCE ArchiveFS WITH
  up <- proc = "serving", opened <- [h \in Handle |-> Behind(h)]

\* However opens, reads, closes and failures follow each other, a handle
\* stands for one file, its bytes do not change while it is open, and a read
\* returns those that are asked for, or the first of them.
ImplementsArchiveFS == FS!Spec

-----------------------------------------------------------------------------
(***************************************************************************)
(* What the README says and the code does not do.                          *)
(***************************************************************************)
\* README, "have read only access to any file in this archive": what is open
\* for reading is the file.
OpenedFileIsComplete ==
  \A h \in Handle :
    fh[h] # NoStream => file[fh[h]].disk = Content(file[fh[h]].item)

\* README on FUSE3_P7ZIP_MAX_OPEN_SIZE: opening any file bigger than this
\* ends up in E2BIG.
OpenRespectsLimit ==
  \A h \in Handle :
    fh[h] # NoStream /\ Limit # NoLimit => Size(file[fh[h]].item) <= Limit
=============================================================================
