----------------------------- MODULE MountProofs -----------------------------
(***************************************************************************)
(* Proofs about Mount, for any files, any number of handles and streams    *)
(* and any references 7-Zip takes: the two lifetimes of a stream never     *)
(* clash, unharmed files are complete, and the mount implements ArchiveFS. *)
(***************************************************************************)
EXTENDS Mount, SequenceTheorems, TLAPS

-----------------------------------------------------------------------------
(***************************************************************************)
(* Contents and temporary files.                                           *)
(***************************************************************************)
\* The content of a file is a sequence of Size(f) blocks.
LEMMA ContentTyped ==
  ASSUME NEW f \in File
  PROVE  Content(f) \in Seq(Block) /\ Len(Content(f)) = Size(f) /\ Size(f) \in Nat
<1>1. Size(f) \in Nat
  BY MountAssumption
<1>2. \A n \in 1..Size(f) : <<f, n>> \in Block
  BY <1>1 DEF Block
<1>3. Content(f) \in Seq(Block)
  BY <1>1, <1>2 DEF Content
<1>4. Len(Content(f)) = Size(f)
  BY <1>1 DEF Content
<1> QED
  BY <1>1, <1>3, <1>4

\* A beginning of a sequence of blocks is one.
LEMMA BeginningTyped ==
  ASSUME NEW s \in Seq(Block), NEW n \in 0..Len(s)
  PROVE  SubSeq(s, 1, n) \in Seq(Block)
<1>1. \A k \in 1..n : s[k] \in Block
  BY ElementOfSeq
<1>2. n \in Nat
  BY LenProperties
<1> QED
  BY <1>1, <1>2, SubSeqProperties

\* There are blocks at every place.
LEMMA SliceTyped ==
  ASSUME NEW s \in Seq(Block), NEW off \in Nat, NEW n \in Nat
  PROVE  Slice(s, off, n) \in Seq(Block)
<1> DEFINE m == IF off + n < Len(s) THEN off + n ELSE Len(s)
<1>1. Len(s) \in Nat
  BY LenProperties
<1>2. m \in Nat /\ m <= Len(s) /\ off + 1 \in Int
  BY <1>1
<1>3. \A k \in (off + 1)..m : s[k] \in Block
  BY <1>1, <1>2, ElementOfSeq
<1> HIDE DEF m
<1>4. SubSeq(s, off + 1, m) \in Seq(Block)
  BY <1>2, <1>3, SubSeqProperties
<1> QED
  BY <1>4 DEF Slice, m

\* A read returns blocks, however many.
LEMMA FreadTyped ==
  ASSUME NEW s \in Seq(Block), NEW off \in Nat, NEW n \in Nat
  PROVE  Fread(s, off, n) \subseteq Seq(Block)
BY SliceTyped, BeginningTyped DEF Fread

\* Writing the buffer out empties it; unless data were lost, all of it has
\* reached the disk.
LEMMA FlushedFile ==
  ASSUME NEW t \in TmpFile, NEW u \in Flushed(t)
  PROVE  /\ u \in TmpFile
         /\ u.item = t.item
         /\ u.buf = << >>
         /\ t.harmed => u.harmed
         /\ ~u.harmed => u.disk = t.disk \o t.buf
         /\ t.buf = << >> => u = t
<1>1. PICK k \in 0..Len(t.buf) :
         u = [t EXCEPT !.disk = @ \o SubSeq(t.buf, 1, k),
                       !.buf = << >>,
                       !.harmed = @ \/ k < Len(t.buf)]
  BY DEF Flushed
<1>2. /\ t.disk \in Seq(Block) /\ t.buf \in Seq(Block)
      /\ t.item \in File \cup {NoFile} /\ t.harmed \in BOOLEAN
      /\ t = [item |-> t.item, disk |-> t.disk, buf |-> t.buf, harmed |-> t.harmed]
  BY DEF TmpFile
<1> DEFINE d == t.disk \o SubSeq(t.buf, 1, k)
           h == t.harmed \/ k < Len(t.buf)
<1>3. u = [item |-> t.item, disk |-> d, buf |-> << >>, harmed |-> h]
  BY <1>1, <1>2
<1>4. d \in Seq(Block)
  BY <1>2, BeginningTyped, ConcatProperties
<1>5. h \in BOOLEAN /\ (t.harmed => h)
  BY <1>2
<1>6. ASSUME ~h PROVE d = t.disk \o t.buf
  <2>1. k = Len(t.buf)
    BY <1>2, <1>6, LenProperties
  <2> QED
    BY <1>2, <2>1, SubSeqFull
<1>7. ASSUME t.buf = << >> PROVE h = t.harmed /\ d = t.disk
  <2>1. Len(t.buf) = 0 /\ k = 0
    BY <1>7
  <2>2. SubSeq(t.buf, 1, 0) = << >>
    BY SubSeqEmpty
  <2> QED
    BY <1>2, <2>1, <2>2, ConcatEmptySeq
<1> HIDE DEF d, h
<1>8. u.item = t.item /\ u.disk = d /\ u.buf = << >> /\ u.harmed = h
  BY <1>3
<1>9. u \in TmpFile
  BY <1>2, <1>3, <1>4, <1>5, EmptySeq DEF TmpFile
<1>10. t.buf = << >> => u = t
  BY <1>2, <1>3, <1>7
<1> QED
  BY <1>5, <1>6, <1>8, <1>9, <1>10

\* After a Write that reports no error, disk and buffer together hold what
\* they held before and the new blocks.
LEMMA WrittenFile ==
  ASSUME NEW t \in TmpFile, NEW b \in Seq(Block), NEW u \in Written(t, b)
  PROVE  /\ u \in TmpFile
         /\ u.item = t.item
         /\ t.harmed => u.harmed
         /\ ~u.harmed => u.disk \o u.buf = (t.disk \o t.buf) \o b
<1> DEFINE w == [t EXCEPT !.buf = @ \o b]
<1>1. /\ t.disk \in Seq(Block) /\ t.buf \in Seq(Block)
      /\ t.item \in File \cup {NoFile} /\ t.harmed \in BOOLEAN
      /\ t = [item |-> t.item, disk |-> t.disk, buf |-> t.buf, harmed |-> t.harmed]
  BY DEF TmpFile
<1>2. t.buf \o b \in Seq(Block)
  BY <1>1, ConcatProperties
<1>3. /\ w \in TmpFile /\ w.item = t.item /\ w.harmed = t.harmed
      /\ w.disk = t.disk /\ w.buf = t.buf \o b
  BY <1>1, <1>2 DEF TmpFile
<1>4. w.disk \o w.buf = (t.disk \o t.buf) \o b
  BY <1>1, <1>3, ConcatAssociative
<1>5. CASE u = w
  BY <1>3, <1>4, <1>5
<1>6. CASE u \in Flushed(w)
  <2> HIDE DEF w
  <2>1. /\ u \in TmpFile /\ u.item = w.item /\ u.buf = << >>
        /\ w.harmed => u.harmed
        /\ ~u.harmed => u.disk = w.disk \o w.buf
    BY <1>3, <1>6, FlushedFile
  <2>2. u.disk \o << >> = u.disk
    BY <2>1, ConcatEmptySeq DEF TmpFile
  <2> QED
    BY <1>3, <1>4, <2>1, <2>2
<1> QED
  BY <1>5, <1>6 DEF Written

-----------------------------------------------------------------------------
(***************************************************************************)
(* The inductive invariant.  It says of the open under way how far it got, *)
(* and of every handle that the file behind it is one of the archive's.    *)
(***************************************************************************)
CallInv ==
  call # NoCall =>
    /\ call.item \in File /\ call.stream \in Stream /\ Refusal(call.item) = "none"
    /\ call.next \in 0..Size(call.item) /\ call.holds <= MaxHolds
    /\ file[call.stream].item = call.item
    /\ call.stopped <=> file[call.stream].harmed
    /\ ~call.stopped =>
         file[call.stream].disk \o file[call.stream].buf
           = SubSeq(Content(call.item), 1, call.next)

HandleInv ==
  \A h \in Handle :
    fh[h] # NoStream => file[fh[h]].item \in File /\ file[fh[h]].buf = << >>

IInv ==
  /\ TypeOK /\ OneOwner /\ CountCoversHolders
  /\ CallInv /\ HandleInv /\ UnharmedIsComplete

\* The fields of a call.
LEMMA CallFields ==
  ASSUME NEW c \in Call
  PROVE  /\ c.item \in File \cup {NoFile} /\ c.stream \in Stream \cup {NoStream}
         /\ c.asked \in BOOLEAN /\ c.holds \in Nat
         /\ c.next \in Nat
         /\ c.stopped \in BOOLEAN
BY DEF Call

\* A call that is not the empty one has a stream, and the other way round.
LEMMA NoCallHasNoStream ==
  /\ NoCall \in Call /\ NoCall.stream = NoStream /\ NoCall.item = NoFile
  /\ NoCall.holds = 0
  /\ NoTmpFile \in TmpFile /\ ~NoTmpFile.harmed /\ NoTmpFile.buf = << >>
BY EmptySeq DEF NoCall, Call, NoTmpFile, TmpFile

LEMMA InitIInv == Init => IInv
<1> SUFFICES ASSUME Init PROVE IInv
  OBVIOUS
<1>1. TypeOK
  <2>1. reply \in Reply
    BY EmptySeq DEF Init, Answer, Reply
  <2>2. refs \in [Stream -> 0..(MaxHolds + 1)]
    BY MountAssumption DEF Init
  <2>3. call \in Call /\ file \in [Stream -> TmpFile]
    BY NoCallHasNoStream DEF Init
  <2> QED
    BY <2>1, <2>2, <2>3 DEF Init, TypeOK
<1>2. OneOwner
  BY NoCallHasNoStream, MountAssumption DEF Init, OneOwner, Owned
<1>3. CountCoversHolders /\ CallInv
  BY DEF Init, CountCoversHolders, CallInv
<1>4. HandleInv /\ UnharmedIsComplete
  BY DEF Init, HandleInv, UnharmedIsComplete
<1> QED
  BY <1>1, <1>2, <1>3, <1>4 DEF IInv

-----------------------------------------------------------------------------
(***************************************************************************)
(* The steps that change only the temporary file of the open under way,    *)
(* and the call itself.                                                    *)
(***************************************************************************)
LEMMA ExtractingStep ==
  ASSUME IInv, Extracting,
         NEW c \in Call, NEW t \in TmpFile, NEW r \in 0..(MaxHolds + 1),
         call' = c, file' = [file EXCEPT ![call.stream] = t],
         refs' = [refs EXCEPT ![call.stream] = r],
         UNCHANGED <<proc, fh, reply>>, arcErr' \in BOOLEAN,
         c.item = call.item, c.stream = call.stream,
         c.next \in 0..Size(call.item), c.holds <= MaxHolds,
         IF c.asked THEN r = c.holds + 1 ELSE c.holds = 0 /\ r = 2,
         t.item = call.item, c.stopped <=> t.harmed,
         ~c.stopped => t.disk \o t.buf = SubSeq(Content(call.item), 1, c.next)
  PROVE  IInv'
<1>0. /\ TypeOK /\ OneOwner /\ CountCoversHolders
      /\ CallInv /\ HandleInv /\ UnharmedIsComplete
  BY DEF IInv
<1>1. call # NoCall /\ call.item \in File /\ call.stream \in Stream
  BY <1>0 DEF Extracting, CallInv
<1>2. c # NoCall
  BY <1>1, NoCallHasNoStream, MountAssumption
<1>3. r > 0
  BY CallFields
<1>4. TypeOK'
  BY <1>0, <1>1 DEF TypeOK
<1>5. \A h \in Handle : fh[h] # call.stream
  BY <1>0, <1>1 DEF OneOwner
<1>6. /\ file'[call.stream] = t /\ refs'[call.stream] = r
      /\ \A s \in Stream : s # call.stream => file'[s] = file[s] /\ refs'[s] = refs[s]
  BY <1>0, <1>1 DEF TypeOK
<1>7. Owned' = Owned /\ call.stream \in Owned
  BY DEF Owned
<1>8. OneOwner'
  BY <1>0, <1>1, <1>3, <1>5, <1>6, <1>7 DEF OneOwner
<1>9. CountCoversHolders'
  BY <1>2, <1>6 DEF CountCoversHolders
<1>10. CallInv'
  BY <1>0, <1>1, <1>6 DEF CallInv, Refusal, Shown
<1>11. \A h \in Handle : fh[h] # NoStream => file'[fh[h]] = file[fh[h]]
  BY <1>0, <1>5, <1>6 DEF TypeOK
<1>12. HandleInv' /\ UnharmedIsComplete'
  BY <1>0, <1>11 DEF HandleInv, UnharmedIsComplete
<1> QED
  BY <1>4, <1>8, <1>9, <1>10, <1>12 DEF IInv

\* What is known while an open is under way.
LEMMA ExtractingFacts ==
  ASSUME IInv, Extracting
  PROVE  /\ call \in Call /\ call # NoCall
         /\ call.item \in File /\ call.stream \in Stream
         /\ Size(call.item) \in Nat
         /\ call.next \in 0..Size(call.item) /\ call.holds <= MaxHolds
         /\ file[call.stream] \in TmpFile /\ file[call.stream].item = call.item
         /\ call.stopped <=> file[call.stream].harmed
         /\ ~call.stopped =>
              file[call.stream].disk \o file[call.stream].buf
                = SubSeq(Content(call.item), 1, call.next)
         /\ IF call.asked THEN refs[call.stream] = call.holds + 1
            ELSE call.holds = 0 /\ refs[call.stream] = 2
         /\ refs[call.stream] \in 0..(MaxHolds + 1)
         /\ file = [file EXCEPT ![call.stream] = file[call.stream]]
         /\ refs = [refs EXCEPT ![call.stream] = refs[call.stream]]
         /\ arcErr \in BOOLEAN /\ MaxHolds \in Nat \ {0}
<1>1. TypeOK /\ CallInv /\ CountCoversHolders /\ call # NoCall
  BY DEF IInv, Extracting
<1>2. call.item \in File /\ call.stream \in Stream
  BY <1>1 DEF CallInv
<1>3. Size(call.item) \in Nat
  BY <1>2, MountAssumption
<1>4. /\ file[call.stream] \in TmpFile /\ refs[call.stream] \in 0..(MaxHolds + 1)
      /\ file = [file EXCEPT ![call.stream] = file[call.stream]]
      /\ refs = [refs EXCEPT ![call.stream] = refs[call.stream]]
  BY <1>1, <1>2 DEF TypeOK
<1> QED
  BY <1>1, <1>2, <1>3, <1>4, MountAssumption DEF TypeOK, CallInv, CountCoversHolders

LEMMA GetStreamKeepsIInv == ASSUME IInv, GetStream PROVE IInv'
<1>0. Extracting
  BY DEF GetStream
<1> DEFINE c == [call EXCEPT !.asked = TRUE, !.holds = 1]
<1>1. call \in Call /\ ~call.asked /\ ~call.stopped
  BY <1>0, ExtractingFacts DEF GetStream
<1>3. c \in Call
  BY <1>1 DEF Call
<1>4. /\ c.item = call.item /\ c.stream = call.stream /\ c.asked = TRUE
      /\ c.holds = 1 /\ c.next = call.next /\ c.stopped = call.stopped
  BY <1>1 DEF Call
<1>5. refs[call.stream] = 2 /\ MaxHolds >= 1
  BY <1>0, <1>1, ExtractingFacts
<1>6. call' = c /\ refs' = refs /\ file' = file /\ arcErr' = arcErr
      /\ UNCHANGED <<proc, fh, reply>>
  BY DEF GetStream
<1> HIDE DEF c
<1> DEFINE t == file[call.stream]
           r == refs[call.stream]
<1>7. /\ t \in TmpFile /\ r \in 0..(MaxHolds + 1)
      /\ file' = [file EXCEPT ![call.stream] = t]
      /\ refs' = [refs EXCEPT ![call.stream] = r]
      /\ arcErr' \in BOOLEAN
  BY <1>0, <1>6, ExtractingFacts
<1>8. /\ c.next \in 0..Size(call.item) /\ c.holds <= MaxHolds
      /\ t.item = call.item /\ (c.stopped <=> t.harmed)
      /\ ~c.stopped => t.disk \o t.buf = SubSeq(Content(call.item), 1, c.next)
  BY <1>0, <1>4, <1>5, ExtractingFacts
<1>9. IF c.asked THEN r = c.holds + 1 ELSE c.holds = 0 /\ r = 2
  BY <1>4, <1>5
<1> HIDE DEF t, r
<1> QED
  BY <1>0, <1>3, <1>4, <1>6, <1>7, <1>8, <1>9, ExtractingStep

LEMMA DeliverKeepsIInv == ASSUME IInv, Deliver PROVE IInv'
<1>0. Extracting
  BY DEF Deliver
<1> DEFINE C == Content(call.item)
<1>1. PICK m \in (call.next + 1)..Size(call.item) :
        \E t \in Written(file[call.stream], SubSeq(C, call.next + 1, m)) :
          /\ file' = [file EXCEPT ![call.stream] = t]
          /\ call' = [call EXCEPT !.next = m, !.stopped = t.harmed]
  BY DEF Deliver
<1>2. PICK t \in Written(file[call.stream], SubSeq(C, call.next + 1, m)) :
          /\ file' = [file EXCEPT ![call.stream] = t]
          /\ call' = [call EXCEPT !.next = m, !.stopped = t.harmed]
  BY <1>1
<1>3. /\ call \in Call /\ call.item \in File /\ Size(call.item) \in Nat
      /\ call.next \in 0..Size(call.item) /\ ~call.stopped
      /\ file[call.stream] \in TmpFile
  BY <1>0, ExtractingFacts DEF Deliver
<1>4. C \in Seq(Block) /\ Len(C) = Size(call.item)
  BY <1>3, ContentTyped
<1>5. m \in Nat /\ m <= Len(C) /\ m \in 0..Size(call.item)
  BY <1>3, <1>4
<1>6. SubSeq(C, call.next + 1, m) \in Seq(Block)
  <2>1. \A k \in (call.next + 1)..m : C[k] \in Block
    BY <1>3, <1>4, <1>5, ElementOfSeq
  <2> QED
    BY <1>3, <1>5, <2>1, SubSeqProperties
<1>7. SubSeq(C, 1, call.next) \o SubSeq(C, call.next + 1, m) = SubSeq(C, 1, m)
  <2>1. 1 \in 1..(Len(C) + 1) /\ call.next \in (1 - 1)..Len(C) /\ m \in call.next..Len(C)
    BY <1>3, <1>4, <1>5
  <2> HIDE DEF C
  <2> QED
    BY <1>4, <2>1, ConcatAdjacentSubSeq
<1>8. /\ t \in TmpFile /\ t.item = file[call.stream].item
      /\ ~t.harmed => t.disk \o t.buf
           = (file[call.stream].disk \o file[call.stream].buf)
               \o SubSeq(C, call.next + 1, m)
  <2> DEFINE b == SubSeq(C, call.next + 1, m)
  <2>1. b \in Seq(Block) /\ t \in Written(file[call.stream], b)
    BY <1>2, <1>6
  <2> HIDE DEF b
  <2>2. /\ t \in TmpFile /\ t.item = file[call.stream].item
        /\ ~t.harmed => t.disk \o t.buf
             = (file[call.stream].disk \o file[call.stream].buf) \o b
    BY <1>3, <2>1, WrittenFile
  <2> QED
    BY <2>2 DEF b
<1>9. ~t.harmed => t.disk \o t.buf = SubSeq(C, 1, m)
  BY <1>0, <1>3, <1>7, <1>8, ExtractingFacts
<1> DEFINE c == [call EXCEPT !.next = m, !.stopped = t.harmed]
<1>11. t.harmed \in BOOLEAN
  BY <1>8 DEF TmpFile
<1>12. c \in Call
  BY <1>3, <1>5, <1>11 DEF Call
<1>13. /\ c.item = call.item /\ c.stream = call.stream /\ c.asked = call.asked
       /\ c.holds = call.holds /\ c.next = m /\ c.stopped = t.harmed
  BY <1>3 DEF Call
<1>14. call' = c /\ refs' = refs /\ arcErr' = arcErr /\ UNCHANGED <<proc, fh, reply>>
  BY <1>2 DEF Deliver
<1> HIDE DEF c
<1> DEFINE r == refs[call.stream]
<1>15. /\ r \in 0..(MaxHolds + 1)
       /\ refs' = [refs EXCEPT ![call.stream] = r]
       /\ arcErr' \in BOOLEAN
  BY <1>0, <1>14, ExtractingFacts
<1>16. /\ c.next \in 0..Size(call.item) /\ c.holds <= MaxHolds
       /\ t.item = call.item /\ (c.stopped <=> t.harmed)
       /\ ~c.stopped => t.disk \o t.buf = SubSeq(Content(call.item), 1, c.next)
  BY <1>0, <1>5, <1>8, <1>9, <1>13, ExtractingFacts
<1>17. IF c.asked THEN r = c.holds + 1 ELSE c.holds = 0 /\ r = 2
  BY <1>0, <1>13, ExtractingFacts
<1> HIDE DEF r, C
<1> QED
  BY <1>0, <1>2, <1>8, <1>12, <1>13, <1>14, <1>15, <1>16, <1>17, ExtractingStep

\* The two ways to lose data that are not the disk's.
LEMMA StopKeepsIInv ==
  ASSUME IInv, Extracting, NEW t \in TmpFile, t.item = call.item, t.harmed,
         file' = [file EXCEPT ![call.stream] = t],
         call' = [call EXCEPT !.stopped = TRUE],
         refs' = refs, UNCHANGED <<proc, fh, reply>>, arcErr' \in BOOLEAN
  PROVE  IInv'
<1> DEFINE c == [call EXCEPT !.stopped = TRUE]
<1>1. call \in Call
  BY ExtractingFacts
<1>3. c \in Call
  BY <1>1 DEF Call
<1>4. /\ c.item = call.item /\ c.stream = call.stream /\ c.asked = call.asked
      /\ c.holds = call.holds /\ c.next = call.next /\ c.stopped = TRUE
  BY <1>1 DEF Call
<1>5. call' = c
  OBVIOUS
<1> HIDE DEF c
<1> DEFINE r == refs[call.stream]
<1>6. /\ r \in 0..(MaxHolds + 1)
      /\ refs' = [refs EXCEPT ![call.stream] = r]
  BY ExtractingFacts
<1>7. c.next \in 0..Size(call.item) /\ c.holds <= MaxHolds
  BY <1>4, ExtractingFacts
<1>8. (c.stopped <=> t.harmed) /\ c.stopped
  BY <1>4
<1>9. IF c.asked THEN r = c.holds + 1 ELSE c.holds = 0 /\ r = 2
  BY <1>4, ExtractingFacts
<1> HIDE DEF r
<1> QED
  BY <1>3, <1>4, <1>5, <1>6, <1>7, <1>8, <1>9, ExtractingStep

LEMMA ReadFailsKeepsIInv == ASSUME IInv, ReadFails PROVE IInv'
<1>0. Extracting
  BY DEF ReadFails
<1> DEFINE t == [file[call.stream] EXCEPT !.harmed = TRUE]
<1>1. file[call.stream] \in TmpFile /\ file[call.stream].item = call.item
      /\ file \in [Stream -> TmpFile] /\ call.stream \in Stream
  BY <1>0, ExtractingFacts DEF IInv, TypeOK
<1>2. t \in TmpFile /\ t.item = call.item /\ t.harmed
  BY <1>1 DEF TmpFile
<1>3. file' = [file EXCEPT ![call.stream] = t]
  BY <1>1 DEF ReadFails
<1>4. call' = [call EXCEPT !.stopped = TRUE] /\ arcErr' = TRUE /\ refs' = refs
      /\ UNCHANGED <<proc, fh, reply>>
  BY DEF ReadFails
<1> HIDE DEF t
<1> QED
  BY <1>0, <1>2, <1>3, <1>4, StopKeepsIInv

LEMMA DecodeFailsKeepsIInv == ASSUME IInv, DecodeFails PROVE IInv'
<1>0. Extracting
  BY DEF DecodeFails
<1>1. /\ file[call.stream] \in TmpFile /\ file[call.stream].item = call.item
      /\ call.item \in File /\ arcErr \in BOOLEAN
  BY <1>0, ExtractingFacts
<1>2. PICK b \in {<< >>} \cup (IF call.holds > 0 THEN {<<Junk(call.item)>>} ELSE {}) :
        \E t \in Written(file[call.stream], b) :
          file' = [file EXCEPT ![call.stream] = [t EXCEPT !.harmed = TRUE]]
  BY DEF DecodeFails
<1>3. PICK t \in Written(file[call.stream], b) :
        file' = [file EXCEPT ![call.stream] = [t EXCEPT !.harmed = TRUE]]
  BY <1>2
<1>4. b \in Seq(Block)
  <2>1. Junk(call.item) \in Block
    BY <1>1 DEF Junk, Block
  <2>2. CASE b = << >>
    BY <2>2, EmptySeq
  <2>3. CASE b = <<Junk(call.item)>>
    <3> DEFINE j == Junk(call.item)
    <3>1. j \in Block /\ b = <<j>>
      BY <2>1, <2>3
    <3> HIDE DEF j
    <3> QED
      BY <3>1
  <2> QED
    BY <1>2, <2>2, <2>3
<1>5. t \in TmpFile /\ t.item = call.item
  BY <1>1, <1>3, <1>4, WrittenFile
<1> DEFINE u == [t EXCEPT !.harmed = TRUE]
<1>6. u \in TmpFile /\ u.item = call.item /\ u.harmed
  BY <1>5 DEF TmpFile
<1>7. call' = [call EXCEPT !.stopped = TRUE] /\ arcErr' = arcErr /\ refs' = refs
      /\ UNCHANGED <<proc, fh, reply>>
  BY DEF DecodeFails
<1>8. file' = [file EXCEPT ![call.stream] = u]
  BY <1>3
<1> HIDE DEF u
<1> QED
  BY <1>0, <1>1, <1>6, <1>7, <1>8, StopKeepsIInv

\* A change of the number of references, the file staying as it is.
LEMMA CountKeepsIInv ==
  ASSUME IInv, Extracting, NEW d \in {-1, 1},
         call.asked, call.holds + d \in 0..MaxHolds,
         call' = [call EXCEPT !.holds = @ + d],
         refs' = [refs EXCEPT ![call.stream] = @ + d],
         file' = file, UNCHANGED <<proc, fh, reply>>, arcErr' = arcErr
  PROVE  IInv'
<1> DEFINE c == [call EXCEPT !.holds = @ + d]
           r == refs[call.stream] + d
           t == file[call.stream]
<1>1. call \in Call /\ MaxHolds \in Nat
  BY ExtractingFacts
<1>2. c \in Call
  <2>1. call.holds + d \in Nat
    OBVIOUS
  <2> QED
    BY <1>1, <2>1 DEF Call
<1>3. /\ c.item = call.item /\ c.stream = call.stream /\ c.asked = call.asked
      /\ c.holds = call.holds + d /\ c.next = call.next /\ c.stopped = call.stopped
  BY <1>1 DEF Call
<1>4. call' = c
  OBVIOUS
<1>5. refs[call.stream] = call.holds + 1
  BY ExtractingFacts
<1>6. r = c.holds + 1 /\ r \in 0..(MaxHolds + 1)
  BY <1>1, <1>3, <1>5, CallFields
<1>7. refs' = [refs EXCEPT ![call.stream] = r]
  BY DEF IInv, TypeOK
<1> HIDE DEF c, r
<1>8. /\ t \in TmpFile /\ file' = [file EXCEPT ![call.stream] = t]
      /\ arcErr' \in BOOLEAN
  BY ExtractingFacts
<1>9. /\ c.next \in 0..Size(call.item) /\ c.holds <= MaxHolds
      /\ t.item = call.item /\ (c.stopped <=> t.harmed)
      /\ ~c.stopped => t.disk \o t.buf = SubSeq(Content(call.item), 1, c.next)
  <2>1. call.next \in 0..Size(call.item) /\ t.item = call.item
    BY ExtractingFacts
  <2>2. c.holds <= MaxHolds
    BY <1>1, <1>3
  <2>3. call.stopped <=> t.harmed
    BY ExtractingFacts
  <2>4. ~call.stopped => t.disk \o t.buf = SubSeq(Content(call.item), 1, call.next)
    BY ExtractingFacts
  <2> HIDE DEF t
  <2> QED
    BY <1>3, <2>1, <2>2, <2>3, <2>4, Zenon
<1>10. IF c.asked THEN r = c.holds + 1 ELSE c.holds = 0 /\ r = 2
  BY <1>3, <1>6
<1> HIDE DEF t
<1> QED
  BY <1>2, <1>3, <1>4, <1>6, <1>7, <1>8, <1>9, <1>10, ExtractingStep

LEMMA AddRefKeepsIInv == ASSUME IInv, AddRef PROVE IInv'
<1>1. /\ Extracting /\ call.holds > 0 /\ call.holds < MaxHolds
      /\ refs' = [refs EXCEPT ![call.stream] = @ + 1]
      /\ call' = [call EXCEPT !.holds = @ + 1]
      /\ file' = file /\ UNCHANGED <<proc, fh, reply>> /\ arcErr' = arcErr
  BY DEF AddRef
<1>2. call.holds \in Nat /\ MaxHolds \in Nat
  BY <1>1, ExtractingFacts, CallFields
<1>3. call.asked /\ call.holds + 1 \in 0..MaxHolds
  BY <1>1, <1>2, ExtractingFacts
<1> QED
  BY <1>1, <1>3, CountKeepsIInv

\* None of 7-Zip's releases is the last: the stream does not delete itself.
LEMMA ReleaseKeepsIInv == ASSUME IInv, Release PROVE IInv'
<1>1. /\ Extracting /\ call.holds \in Nat /\ call.holds >= 1
      /\ refs' = [refs EXCEPT ![call.stream] = @ - 1]
      /\ UNCHANGED <<proc, fh, reply>> /\ arcErr' = arcErr
  BY ExtractingFacts, CallFields DEF Release
<1>2. call.asked /\ refs[call.stream] = call.holds + 1 /\ call.holds <= MaxHolds
  BY <1>1, ExtractingFacts
<1>3. refs[call.stream] # 1
  BY <1>1, <1>2
<1>4. file' = file /\ call' = [call EXCEPT !.holds = @ - 1]
  BY <1>3 DEF Release
<1>5. /\ refs' = [refs EXCEPT ![call.stream] = @ + (-1)]
      /\ call' = [call EXCEPT !.holds = @ + (-1)]
  <2>1. refs[call.stream] - 1 = refs[call.stream] + (-1)
        /\ call.holds - 1 = call.holds + (-1)
    BY <1>1, <1>2
  <2> QED
    BY <1>1, <1>4, <2>1
<1>6. call.holds + (-1) \in 0..MaxHolds /\ -1 \in {-1, 1}
  BY <1>1, <1>2, MountAssumption
<1> QED
  BY <1>1, <1>2, <1>4, <1>5, <1>6, CountKeepsIInv

-----------------------------------------------------------------------------
(***************************************************************************)
(* The steps of cb_open before and after the extraction, and the other     *)
(* callbacks.                                                              *)
(***************************************************************************)
\* No stream is the value that stands for none.
LEMMA IdleOwned ==
  ASSUME IInv, call = NoCall
  PROVE  \A s \in Stream : s \in Owned <=> \E h \in Handle : fh[h] = s
BY NoCallHasNoStream, MountAssumption DEF Owned

LEMMA QuietKeepsIInv ==
  ASSUME IInv, UNCHANGED <<call, refs, file, fh, arcErr>>,
         proc' \in {"serving", "dead", "ended"},
         reply' \in Reply
  PROVE  IInv'
BY ZenonT(40) DEF IInv, TypeOK, OneOwner, Owned, CountCoversHolders, CallInv,
   HandleInv, UnharmedIsComplete

LEMMA OpenStartKeepsIInv ==
  ASSUME IInv, NEW f \in File, NEW s \in Stream, OpenStart(f, s)
  PROVE  IInv'
<1> DEFINE t == [NoTmpFile EXCEPT !.item = f]
           c == [NoCall EXCEPT !.item = f, !.stream = s]
<1>1. /\ call = NoCall /\ refs[s] = 0
      /\ refs' = [refs EXCEPT ![s] = 2]
      /\ file' = [file EXCEPT ![s] = t]
      /\ call' = c
      /\ UNCHANGED <<proc, fh, arcErr, reply>>
  BY DEF OpenStart, Idle, InitialRefs
<1>2. /\ TypeOK /\ OneOwner /\ HandleInv /\ UnharmedIsComplete
  BY DEF IInv
<1>3. /\ t \in TmpFile /\ t.item = f /\ t.disk = << >> /\ t.buf = << >>
      /\ t.harmed = FALSE
  BY EmptySeq DEF NoTmpFile, TmpFile
<1>4. /\ c \in Call /\ c.item = f /\ c.stream = s /\ c.asked = FALSE
      /\ c.holds = 0 /\ c.next = 0 /\ c.stopped = FALSE
  BY DEF NoCall, Call
<1> HIDE DEF t, c
<1>5. c # NoCall
  BY <1>4, NoCallHasNoStream, MountAssumption
<1>6. MaxHolds \in Nat \ {0} /\ Size(f) \in Nat
  BY MountAssumption
<1>7. TypeOK'
  BY <1>1, <1>2, <1>3, <1>4, <1>6 DEF TypeOK
<1>8. \A h \in Handle : fh[h] # s
  BY <1>1, <1>2, IdleOwned DEF OneOwner
<1>9. /\ file'[s] = t /\ refs'[s] = 2
      /\ \A r \in Stream : r # s => file'[r] = file[r] /\ refs'[r] = refs[r]
  BY <1>1, <1>2 DEF TypeOK
<1>10. OneOwner'
  <2>1. Owned' = {fh[h] : h \in Handle} \cup {s}
    BY <1>1, <1>4 DEF Owned
  <2>2. \A r \in Stream : refs'[r] > 0 <=> r \in Owned'
    <3> SUFFICES ASSUME NEW r \in Stream PROVE refs'[r] > 0 <=> r \in Owned'
      OBVIOUS
    <3>1. CASE r = s
      BY <1>9, <2>1, <3>1
    <3>2. CASE r # s
      <4>1. r \in Owned' <=> r \in Owned
        BY <1>1, <2>1, <3>2, IdleOwned
      <4> QED
        BY <1>2, <1>9, <3>2, <4>1 DEF OneOwner
    <3> QED
      BY <3>1, <3>2
  <2> QED
    BY <1>1, <1>2, <1>4, <1>8, <2>2 DEF OneOwner
<1>11. CountCoversHolders'
  BY <1>1, <1>4, <1>9 DEF CountCoversHolders
<1>12. CallInv'
  <2>1. << >> \o << >> = SubSeq(Content(f), 1, 0)
    BY SubSeqEmpty, ConcatEmptySeq, EmptySeq
  <2>2. call' = c /\ file'[call'.stream] = t
    BY <1>1, <1>4, <1>9
  <2>3. c.next \in 0..Size(c.item) /\ c.holds <= MaxHolds
    BY <1>4, <1>6
  <2>4. t.disk \o t.buf = SubSeq(Content(c.item), 1, c.next)
    BY <1>3, <1>4, <2>1
  <2>5. c.stopped <=> t.harmed
    BY <1>3, <1>4
  <2>6. (Refusal(call.item) = "none")'
    BY <1>1, <1>4 DEF OpenStart, Refusal, Shown
  <2> QED
    BY <1>3, <1>4, <2>2, <2>3, <2>4, <2>5, <2>6, Zenon DEF CallInv
<1>13. \A h \in Handle : fh[h] # NoStream => file'[fh[h]] = file[fh[h]]
  BY <1>2, <1>8, <1>9 DEF TypeOK
<1>14. HandleInv' /\ UnharmedIsComplete'
  BY <1>1, <1>2, <1>13 DEF HandleInv, UnharmedIsComplete
<1> QED
  BY <1>7, <1>10, <1>11, <1>12, <1>14 DEF IInv

\* The stream of the open goes to the handle as it is, except for the buffer.
LEMMA HandOverKeepsIInv ==
  ASSUME IInv, NEW h \in Handle, HandOver(h)
  PROVE  IInv'
<1> DEFINE s == call.stream
<1>0. Extracting /\ Decoded /\ call.holds = 0 /\ fh[h] = NoStream
  BY DEF HandOver, ExtractReturns
<1>1. PICK t \in Flushed(file[s]) : file' = [file EXCEPT ![s] = t]
  BY DEF HandOver
<1>2. /\ fh' = [fh EXCEPT ![h] = s] /\ call' = NoCall
      /\ reply' = Answer("open", << >>, "ok", << >>)
      /\ UNCHANGED <<proc, refs, arcErr>>
  BY DEF HandOver
<1>3. /\ TypeOK /\ OneOwner /\ HandleInv /\ UnharmedIsComplete
  BY DEF IInv
<1>4. /\ s \in Stream /\ call.item \in File /\ file[s] \in TmpFile
      /\ file[s].item = call.item /\ call \in Call /\ call # NoCall
  BY <1>0, ExtractingFacts
<1>5. /\ t \in TmpFile /\ t.item = call.item /\ t.buf = << >>
      /\ file[s].harmed => t.harmed
      /\ ~t.harmed => t.disk = file[s].disk \o file[s].buf
  <2> DEFINE u == file[s]
  <2>1. u \in TmpFile /\ t \in Flushed(u) /\ u.item = call.item
    BY <1>1, <1>4
  <2> HIDE DEF u, s
  <2>2. /\ t \in TmpFile /\ t.item = u.item /\ t.buf = << >>
        /\ u.harmed => t.harmed
        /\ ~t.harmed => t.disk = u.disk \o u.buf
    BY <2>1, FlushedFile
  <2> QED
    BY <2>1, <2>2 DEF u
<1>6. ~t.harmed => t.disk = Content(call.item)
  <2> SUFFICES ASSUME ~t.harmed PROVE t.disk = Content(call.item)
    OBVIOUS
  <2>1. ~call.stopped /\ call.next = Size(call.item)
    BY <1>0, <1>5, ExtractingFacts DEF Decoded
  <2>2. t.disk = SubSeq(Content(call.item), 1, Size(call.item))
    BY <1>0, <1>5, <2>1, ExtractingFacts
  <2> QED
    BY <1>4, <2>2, ContentTyped, SubSeqFull
<1>7. TypeOK'
  <2>1. reply' \in Reply
    BY <1>2, EmptySeq DEF Answer, Reply
  <2> QED
    BY <1>1, <1>2, <1>3, <1>4, <1>5, <2>1, NoCallHasNoStream DEF TypeOK
<1>8. /\ file'[s] = t
      /\ \A r \in Stream : r # s => file'[r] = file[r]
      /\ fh'[h] = s
      /\ \A g \in Handle : g # h => fh'[g] = fh[g]
  BY <1>1, <1>2, <1>3, <1>4 DEF TypeOK
<1>9. \A g \in Handle : fh[g] # s
  BY <1>3, <1>4 DEF OneOwner
<1>10. OneOwner'
  <2>1. \A r \in Stream : r \in Owned' <=> r \in Owned
    BY <1>0, <1>2, <1>4, <1>8, NoCallHasNoStream, MountAssumption DEF Owned
  <2>2. \A g1, g2 \in Handle : fh'[g1] = fh'[g2] /\ fh'[g1] # NoStream => g1 = g2
    BY <1>3, <1>8, <1>9 DEF OneOwner
  <2> QED
    BY <1>2, <1>3, <2>1, <2>2 DEF OneOwner
<1>11. CountCoversHolders' /\ CallInv'
  BY <1>2 DEF CountCoversHolders, CallInv
<1>12. \A g \in Handle : g # h /\ fh'[g] # NoStream =>
         fh'[g] = fh[g] /\ file'[fh'[g]] = file[fh[g]]
  BY <1>3, <1>8, <1>9 DEF TypeOK
<1>13. HandleInv'
  BY <1>3, <1>4, <1>5, <1>8, <1>12 DEF HandleInv
<1>14. UnharmedIsComplete'
  BY <1>3, <1>5, <1>6, <1>8, <1>12 DEF UnharmedIsComplete
<1> QED
  BY <1>7, <1>10, <1>11, <1>13, <1>14 DEF IInv

\* Deleting the stream of the failed open.
LEMMA ExtractThrowsKeepsIInv == ASSUME IInv, ExtractThrows PROVE IInv'
<1> DEFINE s == call.stream
<1>1. /\ Extracting
      /\ refs' = [refs EXCEPT ![s] = 0]
      /\ file' = [file EXCEPT ![s] = NoTmpFile]
      /\ proc' = "dead" /\ call' = NoCall
      /\ UNCHANGED <<fh, arcErr, reply>>
  BY DEF ExtractThrows, ExtractReturns
<1>2. /\ TypeOK /\ OneOwner /\ HandleInv /\ UnharmedIsComplete
  BY DEF IInv
<1>3. s \in Stream /\ call # NoCall
  BY <1>1, ExtractingFacts
<1>4. TypeOK'
  BY <1>1, <1>2, <1>3, NoCallHasNoStream, MountAssumption DEF TypeOK
<1>5. /\ refs'[s] = 0
      /\ \A r \in Stream : r # s => file'[r] = file[r] /\ refs'[r] = refs[r]
  BY <1>1, <1>2, <1>3 DEF TypeOK
<1>6. \A g \in Handle : fh[g] # s
  BY <1>2, <1>3 DEF OneOwner
<1>7. OneOwner'
  <2>1. \A r \in Stream : r \in Owned' <=> r \in Owned /\ r # s
    BY <1>1, <1>6, NoCallHasNoStream, MountAssumption DEF Owned
  <2> QED
    BY <1>1, <1>2, <1>5, <2>1 DEF OneOwner
<1>8. \A g \in Handle : fh[g] # NoStream => file'[fh[g]] = file[fh[g]]
  BY <1>2, <1>5, <1>6 DEF TypeOK
<1>9. HandleInv' /\ UnharmedIsComplete'
  BY <1>1, <1>2, <1>8 DEF HandleInv, UnharmedIsComplete
<1>10. CountCoversHolders' /\ CallInv'
  BY <1>1 DEF CountCoversHolders, CallInv
<1> QED
  BY <1>4, <1>7, <1>9, <1>10 DEF IInv

\* A handle's buffer is empty or its file is harmed already; either way a
\* seek leaves the file as it is or harmed.
LEMMA ReadKeepsIInv ==
  ASSUME IInv, NEW h \in Handle, NEW off \in Span, NEW n \in Span, Read(h, off, n)
  PROVE  IInv'
<1> DEFINE s == fh[h]
<1>1. PICK t \in Flushed(file[s]) :
        /\ file' = [file EXCEPT ![s] = t]
        /\ \E data \in Fread(t.disk, off, n) :
             reply' = Answer("read", <<h, off, n>>, "ok", data)
  BY DEF Read
<1>2. /\ s # NoStream /\ call = NoCall
      /\ UNCHANGED <<proc, call, refs, fh, arcErr>>
  BY DEF Read, Idle
<1>3. /\ TypeOK /\ OneOwner /\ HandleInv /\ UnharmedIsComplete
  BY DEF IInv
<1>4. s \in Stream /\ file[s] \in TmpFile /\ off \in Nat /\ n \in Nat
  BY <1>2, <1>3, MountAssumption DEF TypeOK
<1>5. /\ t \in TmpFile /\ t.item = file[s].item /\ t.buf = << >>
      /\ file[s].harmed => t.harmed
      /\ file[s].buf = << >> => t = file[s]
  BY <1>1, <1>4, FlushedFile
<1>6. TypeOK'
  <2>1. Fread(t.disk, off, n) \subseteq Seq(Block)
    BY <1>4, <1>5, FreadTyped DEF TmpFile
  <2>2. reply' \in Reply
    BY <1>1, <2>1 DEF Answer, Reply
  <2> QED
    BY <1>1, <1>2, <1>3, <1>4, <1>5, <2>2 DEF TypeOK
<1>7. /\ file'[s] = t
      /\ \A r \in Stream : r # s => file'[r] = file[r]
  BY <1>1, <1>3, <1>4 DEF TypeOK
<1>8. OneOwner'
  BY <1>2, <1>3 DEF OneOwner, Owned
<1>9. CountCoversHolders' /\ CallInv'
  BY <1>2 DEF CountCoversHolders, CallInv
<1>10. HandleInv'
  BY <1>2, <1>3, <1>5, <1>7 DEF HandleInv, TypeOK
<1>11. UnharmedIsComplete'
  BY <1>2, <1>3, <1>5, <1>7 DEF UnharmedIsComplete, TypeOK
<1> QED
  BY <1>6, <1>8, <1>9, <1>10, <1>11 DEF IInv

LEMMA ReleaseFileKeepsIInv ==
  ASSUME IInv, NEW h \in Handle, ReleaseFile(h)
  PROVE  IInv'
<1> DEFINE s == fh[h]
<1>1. /\ s # NoStream /\ call = NoCall
      /\ refs' = [refs EXCEPT ![s] = 0]
      /\ file' = [file EXCEPT ![s] = NoTmpFile]
      /\ fh' = [fh EXCEPT ![h] = NoStream]
      /\ reply' = Answer("release", << >>, "ok", << >>)
      /\ UNCHANGED <<proc, call, arcErr>>
  BY DEF ReleaseFile, Idle
<1>2. /\ TypeOK /\ OneOwner /\ HandleInv /\ UnharmedIsComplete
  BY DEF IInv
<1>3. s \in Stream
  BY <1>1, <1>2 DEF TypeOK
<1>4. TypeOK'
  <2>1. reply' \in Reply
    BY <1>1, EmptySeq DEF Answer, Reply
  <2> QED
    BY <1>1, <1>2, <1>3, <2>1, NoCallHasNoStream, MountAssumption DEF TypeOK
<1>5. /\ refs'[s] = 0 /\ fh'[h] = NoStream
      /\ \A r \in Stream : r # s => file'[r] = file[r] /\ refs'[r] = refs[r]
      /\ \A g \in Handle : g # h => fh'[g] = fh[g]
  BY <1>1, <1>2, <1>3 DEF TypeOK
<1>6. \A g \in Handle : g # h => fh[g] # s
  BY <1>1, <1>2 DEF OneOwner
<1>7. OneOwner'
  <2>1. \A r \in Stream : r \in Owned' <=> r \in Owned /\ r # s
    BY <1>1, <1>5, <1>6, NoCallHasNoStream, MountAssumption DEF Owned
  <2>2. \A g1, g2 \in Handle : fh'[g1] = fh'[g2] /\ fh'[g1] # NoStream => g1 = g2
    BY <1>2, <1>5 DEF OneOwner
  <2> QED
    BY <1>1, <1>2, <1>5, <2>1, <2>2 DEF OneOwner
<1>8. \A g \in Handle : fh'[g] # NoStream =>
        fh'[g] = fh[g] /\ file'[fh'[g]] = file[fh[g]]
  BY <1>2, <1>5, <1>6 DEF TypeOK
<1>9. HandleInv' /\ UnharmedIsComplete'
  BY <1>2, <1>8 DEF HandleInv, UnharmedIsComplete
<1>10. CountCoversHolders' /\ CallInv'
  BY <1>1 DEF CountCoversHolders, CallInv
<1> QED
  BY <1>4, <1>7, <1>9, <1>10 DEF IInv

LEMMA NextIInv == IInv /\ [Next]_vars => IInv'
<1> SUFFICES ASSUME IInv, [Next]_vars PROVE IInv'
  OBVIOUS
<1>1. ASSUME NEW f \in File \cup Absent, OpenRefused(f) PROVE IInv'
  <2>1. Refusal(f) \in {"ENOENT", "E2BIG"}
    BY <1>1 DEF OpenRefused, Refusal
  <2>2. reply' \in Reply
    BY <1>1, <2>1, EmptySeq DEF OpenRefused, Answer, Reply
  <2> QED
    BY <1>1, <2>2, QuietKeepsIInv DEF OpenRefused, IInv, TypeOK
<1>2. ASSUME NEW f \in File, NEW s \in Stream, OpenStart(f, s) PROVE IInv'
  BY <1>2, OpenStartKeepsIInv
<1>3. ASSUME NEW f \in File, OpenWithoutTmpFile(f) PROVE IInv'
  BY <1>3, QuietKeepsIInv DEF OpenWithoutTmpFile, IInv, TypeOK
<1>4. CASE GetStream
  BY <1>4, GetStreamKeepsIInv
<1>5. CASE Deliver
  BY <1>5, DeliverKeepsIInv
<1>6. CASE ReadFails
  BY <1>6, ReadFailsKeepsIInv
<1>7. CASE DecodeFails
  BY <1>7, DecodeFailsKeepsIInv
<1>8. CASE AddRef
  BY <1>8, AddRefKeepsIInv
<1>9. CASE Release
  BY <1>9, ReleaseKeepsIInv
<1>10. CASE ExtractThrows
  BY <1>10, ExtractThrowsKeepsIInv
<1>11. ASSUME NEW h \in Handle, HandOver(h) PROVE IInv'
  BY <1>11, HandOverKeepsIInv
<1>12. ASSUME NEW h \in Handle, NEW off \in Span, NEW n \in Span, Read(h, off, n)
       PROVE  IInv'
  BY <1>12, ReadKeepsIInv
<1>13. ASSUME NEW h \in Handle, ReleaseFile(h) PROVE IInv'
  BY <1>13, ReleaseFileKeepsIInv
<1>14. CASE LoopEnds
  BY <1>14, QuietKeepsIInv DEF LoopEnds, IInv, TypeOK
<1>15. CASE CallbackThrows
  BY <1>15, QuietKeepsIInv DEF CallbackThrows, IInv, TypeOK
<1>16. CASE UNCHANGED vars
  BY <1>16, QuietKeepsIInv DEF vars, IInv, TypeOK
<1> QED
  BY <1>1, <1>2, <1>3, <1>4, <1>5, <1>6, <1>7, <1>8, <1>9, <1>10, <1>11, <1>12,
     <1>13, <1>14, <1>15, <1>16 DEF Next

\* The inductive invariant holds throughout.
THEOREM Inductive == Spec => []IInv
BY InitIInv, NextIInv, PTL DEF Spec

-----------------------------------------------------------------------------
\* The variables keep their types, and a stream's count stays within one of
\* the references 7-Zip takes.
THEOREM TypeCorrect == Spec => []TypeOK
<1>1. IInv => TypeOK
  BY DEF IInv
<1> QED
  BY <1>1, Inductive, PTL

\* FileWriteStream's two ways to die, delete-at-zero and delete by the owner,
\* never meet: no handle dangles, none shares its file, no stream leaks.
THEOREM StreamsHaveOneOwner == Spec => []OneOwner
<1>1. IInv => OneOwner
  BY DEF IInv
<1> QED
  BY <1>1, Inductive, PTL

\* execute()'s AddRef pays for the pointer GetStream lends uncounted.
THEOREM CountsAreRight == Spec => []CountCoversHolders
<1>1. IInv => CountCoversHolders
  BY DEF IInv
<1> QED
  BY <1>1, Inductive, PTL

\* What is open and unharmed is the complete item.
THEOREM UnharmedFilesAreComplete == Spec => []UnharmedIsComplete
<1>1. IInv => UnharmedIsComplete
  BY DEF IInv
<1> QED
  BY <1>1, Inductive, PTL

-----------------------------------------------------------------------------
(***************************************************************************)
(* The refinement.  An open is the abstract one at the moment execute()    *)
(* hands the stream over; what 7-Zip does before is invisible behind the   *)
(* handles, because no handle has its stream.                              *)
(***************************************************************************)
Handles == [h \in Handle |-> Behind(h)]

\* ArchiveFS means the same answers and the same reads.
LEMMA SameOperations ==
  /\ \A op, asked, s, d : FS!Answer(op, asked, s, d) = Answer(op, asked, s, d)
  /\ \A d, off, n : FS!Fread(d, off, n) = Fread(d, off, n)
  /\ \A h \in Handle : fh[h] = NoStream => Handles[h] = FS!Closed
BY DEF FS!Answer, Answer, FS!Fread, Fread, FS!Slice, Slice, FS!Closed, Handles, Behind

\* What is behind a handle depends on its own stream only.
LEMMA SameHandles ==
  ASSUME fh' = fh, \A h \in Handle : fh[h] # NoStream => file'[fh[h]] = file[fh[h]]
  PROVE  Handles' = Handles
<1>1. \A h \in Handle : Behind(h)' = Behind(h)
  BY DEF Behind
<1> QED
  BY <1>1 DEF Handles

\* What is open is not closed.
LEMMA OpenHandle ==
  ASSUME IInv, NEW h \in Handle, fh[h] # NoStream
  PROVE  /\ Handles[h] # FS!Closed
         /\ Handles[h].data = file[fh[h]].disk
<1>1. file[fh[h]].item \in File
  BY DEF IInv, HandleInv
<1>2. Handles[h] = [file |-> file[fh[h]].item, data |-> file[fh[h]].disk,
                    intact |-> ~file[fh[h]].harmed]
  BY DEF Handles, Behind
<1>3. Handles[h].file \in File /\ Handles[h].data = file[fh[h]].disk
  BY <1>1, <1>2
<1>4. FS!Closed.file = NoFile
  BY DEF FS!Closed
<1> QED
  BY <1>3, <1>4, MountAssumption

\* The steps that work on the stream of the open under way.
LEMMA ExtractionIsHidden ==
  ASSUME IInv, Extracting, UNCHANGED <<fh, reply>>,
         \E t : file' = [file EXCEPT ![call.stream] = t]
  PROVE  Handles' = Handles
<1>1. PICK t : file' = [file EXCEPT ![call.stream] = t]
  OBVIOUS
<1>2. \A h \in Handle : fh[h] # call.stream
  BY DEF IInv, OneOwner, Extracting
<1>3. \A h \in Handle : fh[h] # NoStream => file'[fh[h]] = file[fh[h]]
  BY <1>1, <1>2 DEF IInv, TypeOK
<1> QED
  BY <1>3, SameHandles

LEMMA StartIsHidden ==
  ASSUME IInv, NEW f \in File, NEW s \in Stream, OpenStart(f, s)
  PROVE  Handles' = Handles
<1>1. refs[s] = 0 /\ fh' = fh
  BY DEF OpenStart
<1>2. \A h \in Handle : fh[h] # s
  BY <1>1 DEF IInv, OneOwner, Owned
<1>3. \A h \in Handle : fh[h] # NoStream => file'[fh[h]] = file[fh[h]]
  BY <1>2 DEF IInv, TypeOK, OpenStart
<1> QED
  BY <1>1, <1>3, SameHandles

LEMMA HandOverRefines ==
  ASSUME IInv, IInv', NEW h \in Handle, HandOver(h)
  PROVE  FS!Open(h, call.item)
<1> DEFINE f == call.item
           s == call.stream
<1>1. Extracting /\ fh[h] = NoStream /\ call # NoCall /\ f \in File /\ s \in Stream
      /\ Refusal(f) = "none"
  BY DEF HandOver, ExtractReturns, Extracting, IInv, CallInv
<1>2. /\ proc = "serving" /\ proc' = proc /\ reply' = Answer("open", << >>, "ok", << >>)
      /\ fh' = [fh EXCEPT ![h] = s]
  BY DEF HandOver, ExtractReturns, Extracting
<1>3. PICK t \in Flushed(file[s]) : file' = [file EXCEPT ![s] = t]
  BY DEF HandOver
<1>4. t \in TmpFile /\ t.item = f
  BY <1>1, <1>3, ExtractingFacts, FlushedFile
<1>5. file'[s] = t /\ fh'[h] = s /\ s # NoStream
  BY <1>1, <1>2, <1>3, MountAssumption DEF IInv, TypeOK
<1>6. Handles'[h] = [file |-> f, data |-> t.disk, intact |-> ~t.harmed]
  BY <1>4, <1>5 DEF Handles, Behind
<1>7. \A g \in Handle : g # h => Handles'[g] = Handles[g]
  <2> SUFFICES ASSUME NEW g \in Handle, g # h PROVE Handles'[g] = Handles[g]
    OBVIOUS
  <2>1. fh'[g] = fh[g] /\ fh[g] # s
    BY <1>1, <1>2 DEF IInv, TypeOK, OneOwner
  <2>2. fh[g] # NoStream => file'[fh[g]] = file[fh[g]]
    BY <1>3, <2>1 DEF IInv, TypeOK
  <2> QED
    BY <2>1, <2>2 DEF Handles, Behind
<1>8. Handles' = [Handles EXCEPT ![h] = Handles'[h]]
  BY <1>7 DEF Handles
<1>9. Handles'[h] \in FS!Opened(f)
  <2>1. CASE t.harmed
    <3>1. t.disk \in Seq(Block)
      BY <1>4 DEF TmpFile
    <3>2. Handles'[h] = [file |-> f, data |-> t.disk, intact |-> FALSE]
      BY <1>4, <1>6, <2>1 DEF TmpFile
    <3> QED
      BY <3>1, <3>2 DEF FS!Opened
  <2>2. CASE ~t.harmed
    <3>1. t.disk = Content(f)
      BY <1>4, <1>5, <2>2 DEF IInv, UnharmedIsComplete
    <3> QED
      BY <1>6, <2>2, <3>1 DEF FS!Opened
  <2> QED
    BY <2>1, <2>2
<1>10. Handles[h] = FS!Closed
  BY <1>1, SameOperations
<1> QED
  BY <1>1, <1>2, <1>8, <1>9, <1>10, SameOperations DEF FS!Open, Handles

LEMMA ReadRefines ==
  ASSUME IInv, NEW h \in Handle, NEW off \in Span, NEW n \in Span, Read(h, off, n)
  PROVE  FS!Read(h, off, n)
<1>1. proc = "serving" /\ proc' = proc /\ fh' = fh /\ fh[h] # NoStream
  BY DEF Read, Idle
<1>2. PICK t \in Flushed(file[fh[h]]) :
        /\ file' = [file EXCEPT ![fh[h]] = t]
        /\ \E data \in Fread(t.disk, off, n) :
             reply' = Answer("read", <<h, off, n>>, "ok", data)
  BY DEF Read
<1>3. fh[h] \in Stream /\ file[fh[h]] \in TmpFile /\ file[fh[h]].buf = << >>
  BY <1>1 DEF IInv, TypeOK, HandleInv
<1>4. t = file[fh[h]]
  BY <1>2, <1>3, FlushedFile
<1>5. file' = file
  BY <1>2, <1>3, <1>4 DEF IInv, TypeOK
<1>6. Handles' = Handles
  BY <1>1, <1>5, SameHandles
<1>7. Handles[h] # FS!Closed /\ Handles[h].data = t.disk
  BY <1>1, <1>4, OpenHandle
<1> QED
  BY <1>1, <1>2, <1>6, <1>7, SameOperations DEF FS!Read, Handles

LEMMA ReleaseFileRefines ==
  ASSUME IInv, NEW h \in Handle, ReleaseFile(h)
  PROVE  FS!Close(h)
<1>1. /\ proc = "serving" /\ proc' = proc /\ fh[h] # NoStream
      /\ fh' = [fh EXCEPT ![h] = NoStream]
      /\ file' = [file EXCEPT ![fh[h]] = NoTmpFile]
      /\ reply' = Answer("release", << >>, "ok", << >>)
  BY DEF ReleaseFile, Idle
<1>2. fh'[h] = NoStream
  BY <1>1 DEF IInv, TypeOK
<1>3. Handles'[h] = FS!Closed
  BY <1>2 DEF Handles, Behind, FS!Closed
<1>4. \A g \in Handle : g # h => Handles'[g] = Handles[g]
  <2> SUFFICES ASSUME NEW g \in Handle, g # h PROVE Handles'[g] = Handles[g]
    OBVIOUS
  <2>1. fh'[g] = fh[g] /\ (fh[g] # NoStream => fh[g] # fh[h])
    BY <1>1 DEF IInv, TypeOK, OneOwner
  <2>2. fh[g] # NoStream => file'[fh[g]] = file[fh[g]]
    BY <1>1, <2>1 DEF IInv, TypeOK
  <2> QED
    BY <2>1, <2>2 DEF Handles, Behind
<1>5. Handles' = [Handles EXCEPT ![h] = FS!Closed]
  BY <1>3, <1>4 DEF Handles
<1>6. Handles[h] # FS!Closed
  BY <1>1, OpenHandle
<1> QED
  BY <1>1, <1>5, <1>6, SameOperations DEF FS!Close, Handles

\* Every step is one of the specification, or none.
LEMMA StepRefines == IInv /\ IInv' /\ [Next]_vars => [FS!Next]_FS!vars
<1> SUFFICES ASSUME IInv, IInv', [Next]_vars PROVE [FS!Next]_FS!vars
  OBVIOUS
<1>1. ASSUME UNCHANGED <<proc, reply>>, Handles' = Handles PROVE UNCHANGED FS!vars
  BY <1>1 DEF FS!vars, Handles
<1>2. ASSUME proc = "serving", proc' # "serving", reply' = reply, Handles' = Handles
      PROVE  FS!Next
  BY <1>2 DEF FS!Next, FS!Leave, Handles
<1>3. ASSUME UNCHANGED <<fh, file>> PROVE Handles' = Handles
  BY <1>3, SameHandles
<1>4. ASSUME NEW f \in File \cup Absent, OpenRefused(f) PROVE FS!Next
  <2>1. FS!Refuse(f)
    BY <1>3, <1>4, SameOperations DEF OpenRefused, Idle, FS!Refuse, Handles
  <2> QED
    BY <2>1 DEF FS!Next
<1>5. ASSUME NEW f \in File, NEW s \in Stream, OpenStart(f, s) PROVE UNCHANGED FS!vars
  BY <1>1, <1>5, StartIsHidden DEF OpenStart
<1>6. ASSUME NEW f \in File, OpenWithoutTmpFile(f) PROVE FS!Next
  BY <1>2, <1>3, <1>6 DEF OpenWithoutTmpFile, Idle
<1>7. CASE GetStream \/ AddRef
  BY <1>1, <1>3, <1>7 DEF GetStream, AddRef
<1>8. CASE Deliver \/ ReadFails \/ DecodeFails \/ Release
  <2>1. Extracting /\ UNCHANGED <<proc, fh, reply>>
    BY <1>8 DEF Deliver, ReadFails, DecodeFails, Release
  <2>2. \E t : file' = [file EXCEPT ![call.stream] = t]
    BY <1>8, <2>1, ExtractingFacts DEF Deliver, ReadFails, DecodeFails, Release
  <2> QED
    BY <1>1, <2>1, <2>2, ExtractionIsHidden
<1>9. CASE ExtractThrows
  <2>1. /\ Extracting /\ proc = "serving" /\ proc' # "serving" /\ UNCHANGED <<fh, reply>>
        /\ \E t : file' = [file EXCEPT ![call.stream] = t]
    BY <1>9 DEF ExtractThrows, ExtractReturns, Extracting
  <2> QED
    BY <1>2, <2>1, ExtractionIsHidden
<1>10. CASE CallbackThrows \/ LoopEnds
  BY <1>2, <1>3, <1>10 DEF CallbackThrows, LoopEnds, Extracting, Idle
<1>11. ASSUME NEW h \in Handle, HandOver(h) PROVE FS!Next
  <2>1. call.item \in File
    BY <1>11 DEF HandOver, ExtractReturns, Extracting, IInv, CallInv
  <2> QED
    BY <1>11, <2>1, HandOverRefines DEF FS!Next
<1>12. ASSUME NEW h \in Handle, NEW off \in Span, NEW n \in Span, Read(h, off, n)
       PROVE  FS!Next
  BY <1>12, ReadRefines DEF FS!Next
<1>13. ASSUME NEW h \in Handle, ReleaseFile(h) PROVE FS!Next
  BY <1>13, ReleaseFileRefines DEF FS!Next
<1>14. CASE UNCHANGED vars
  BY <1>1, <1>3, <1>14 DEF vars
<1> QED
  BY <1>4, <1>5, <1>6, <1>7, <1>8, <1>9, <1>10, <1>11, <1>12, <1>13, <1>14 DEF Next

\* cb_open, cb_read and cb_release with everything that 7-Zip does in between
\* are a read-only file system: a handle stands for one file, whose bytes are
\* fixed while it is open, and are the item's unless something failed.
THEOREM MountIsFileSystem == Spec => ImplementsArchiveFS
<1>1. Init => FS!Init
  BY SameOperations DEF Init, FS!Init, Behind, FS!Closed
<1>2. IInv /\ IInv' /\ [Next]_vars => [FS!Next]_FS!vars
  BY StepRefines
<1> QED
  BY <1>1, <1>2, Inductive, PTL DEF Spec, ImplementsArchiveFS, FS!Spec
=============================================================================
