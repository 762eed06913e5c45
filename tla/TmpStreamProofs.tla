--------------------------- MODULE TmpStreamProofs ---------------------------
(***************************************************************************)
(* Proofs about TmpStream, for every buffer size and every sequence of     *)
(* calls: buffer and disk together are the file of bytes that OutFile      *)
(* describes, and a lost byte is reported by every later call of 7-Zip.    *)
(***************************************************************************)
EXTENDS TmpStream, SequenceTheorems, TLAPS

-----------------------------------------------------------------------------
(***************************************************************************)
(* What overlaying and resizing do to a file, for files of any length.     *)
(***************************************************************************)
\* The place furthest to the end of a file and of what is written over it.
Reach(f, at, d) == IF at + Len(d) > Len(f) THEN at + Len(d) ELSE Len(f)

\* The byte at a place of a file with d written over it.
Over(f, at, d, i) ==
  IF i > at /\ i <= at + Len(d) THEN d[i - at]
  ELSE IF i <= Len(f) THEN f[i] ELSE Zero

\* A file with something written over it is a file, as long as it has to be.
LEMMA OverlayProperties ==
  ASSUME Zero \in Byte, NEW f \in Seq(Byte), NEW at \in Nat, NEW d \in Seq(Byte), d # << >>
  PROVE  /\ Overlay(f, at, d) \in Seq(Byte)
         /\ Len(Overlay(f, at, d)) = Reach(f, at, d)
         /\ \A i \in 1..Reach(f, at, d) : Overlay(f, at, d)[i] = Over(f, at, d, i)
<1> DEFINE n == Reach(f, at, d)
           g == [i \in 1..n |-> Over(f, at, d, i)]
<1>1. Len(f) \in Nat /\ Len(d) \in Nat \ {0}
  BY LenProperties, EmptySeq
<1>2. n \in Nat
  BY <1>1 DEF Reach
<1>3. ASSUME NEW i \in 1..n PROVE Over(f, at, d, i) \in Byte
  <2>1. CASE i > at /\ i <= at + Len(d)
    <3>1. i - at \in 1..Len(d)
      BY <1>1, <1>2, <2>1
    <3> QED
      BY <2>1, <3>1, ElementOfSeq DEF Over
  <2>2. CASE ~(i > at /\ i <= at + Len(d)) /\ i <= Len(f)
    <3>1. i \in 1..Len(f)
      BY <1>1, <1>2, <2>2
    <3> QED
      BY <2>2, <3>1, ElementOfSeq DEF Over
  <2>3. CASE ~(i > at /\ i <= at + Len(d)) /\ ~(i <= Len(f))
    BY <2>3 DEF Over
  <2> QED
    BY <2>1, <2>2, <2>3
<1>4. Overlay(f, at, d) = g
  BY DEF Overlay, Over, Reach
<1> HIDE DEF n
<1>5. g \in [1..n -> Byte]
  BY <1>3
<1>6. g \in Seq(Byte)
  BY <1>2, <1>5, SeqDef
<1>7. Len(g) = n
  BY <1>2, <1>5, <1>6, LenProperties
<1> QED
  BY <1>4, <1>6, <1>7 DEF n

\* ... and so is one with nothing written over it.
LEMMA OverlayTyped ==
  ASSUME Zero \in Byte, NEW f \in Seq(Byte), NEW at \in Nat, NEW d \in Seq(Byte)
  PROVE  Overlay(f, at, d) \in Seq(Byte)
<1>1. CASE d = << >>
  BY <1>1 DEF Overlay
<1>2. CASE d # << >>
  BY <1>2, OverlayProperties
<1> QED
  BY <1>1, <1>2

\* Resizing leaves a file of the size asked for.
LEMMA ResizedProperties ==
  ASSUME Zero \in Byte, NEW f \in Seq(Byte), NEW n \in Nat
  PROVE  /\ Resized(f, n) \in Seq(Byte)
         /\ Len(Resized(f, n)) = n
         /\ \A i \in 1..n : Resized(f, n)[i] = IF i <= Len(f) THEN f[i] ELSE Zero
<1> DEFINE g == [i \in 1..n |-> IF i <= Len(f) THEN f[i] ELSE Zero]
<1>1. Len(f) \in Nat
  BY LenProperties
<1>2. ASSUME NEW i \in 1..n PROVE (IF i <= Len(f) THEN f[i] ELSE Zero) \in Byte
  <2>1. CASE i <= Len(f)
    <3>1. i \in 1..Len(f)
      BY <1>1, <2>1
    <3> QED
      BY <2>1, <3>1, ElementOfSeq
  <2> QED
    BY <2>1
<1>3. g \in [1..n -> Byte]
  BY <1>2
<1>4. g \in Seq(Byte)
  BY <1>3, SeqDef
<1>5. Len(g) = n
  BY <1>3, <1>4, LenProperties
<1> QED
  BY <1>4, <1>5 DEF Resized

-----------------------------------------------------------------------------
(***************************************************************************)
(* The two facts the write stream rests on: it does not matter in how many *)
(* pieces bytes get written, nor, unless the new size cuts into them,      *)
(* whether they are written before a file is resized or after.             *)
(***************************************************************************)
\* Writing b right behind a is writing both at once.
LEMMA OverlayTwice ==
  ASSUME Zero \in Byte, NEW f \in Seq(Byte), NEW at \in Nat,
         NEW a \in Seq(Byte), NEW b \in Seq(Byte)
  PROVE  Overlay(Overlay(f, at, a), at + Len(a), b) = Overlay(f, at, a \o b)
<1> DEFINE g == Overlay(f, at, a)
           ab == a \o b
           left == Overlay(g, at + Len(a), b)
           right == Overlay(f, at, ab)
<1>1. /\ Len(f) \in Nat /\ Len(a) \in Nat /\ Len(b) \in Nat
      /\ a # << >> => Len(a) > 0
      /\ b # << >> => Len(b) > 0
  BY LenProperties, EmptySeq
<1>2. CASE a = << >>
  <2>1. Len(a) = 0 /\ g = f /\ ab = b
    BY <1>2, EmptySeq, ConcatEmptySeq DEF Overlay
  <2> QED
    BY <2>1
<1>3. CASE b = << >>
  <2>1. ab = a /\ left = g
    BY <1>3, ConcatEmptySeq DEF Overlay
  <2> QED
    BY <2>1
<1>4. CASE a # << >> /\ b # << >>
  <2>1. /\ ab \in Seq(Byte) /\ Len(ab) = Len(a) + Len(b)
        /\ \A i \in 1..(Len(a) + Len(b)) : ab[i] = IF i <= Len(a) THEN a[i] ELSE b[i - Len(a)]
    BY ConcatProperties
  <2>2. ab # << >>
    BY <1>1, <1>4, <2>1, EmptySeq
  <2>3. /\ g \in Seq(Byte) /\ Len(g) = Reach(f, at, a)
        /\ \A i \in 1..Reach(f, at, a) : g[i] = Over(f, at, a, i)
    BY <1>4, OverlayProperties
  <2> HIDE DEF ab, g
  <2>4. /\ right \in Seq(Byte) /\ Len(right) = Reach(f, at, ab)
        /\ \A i \in 1..Reach(f, at, ab) : right[i] = Over(f, at, ab, i)
    BY <2>1, <2>2, OverlayProperties
  <2>5. at + Len(a) \in Nat
    BY <1>1
  <2>6. /\ left \in Seq(Byte) /\ Len(left) = Reach(g, at + Len(a), b)
        /\ \A i \in 1..Reach(g, at + Len(a), b) : left[i] = Over(g, at + Len(a), b, i)
    BY <1>4, <2>3, <2>5, OverlayProperties
  <2> HIDE DEF left, right
  <2>7. Reach(g, at + Len(a), b) = Reach(f, at, ab) /\ Reach(f, at, ab) \in Nat
    <3>1. Len(g) = IF at + Len(a) > Len(f) THEN at + Len(a) ELSE Len(f)
      BY <2>3 DEF Reach
    <3>2. Reach(f, at, ab) = IF at + Len(a) + Len(b) > Len(f) THEN at + Len(a) + Len(b) ELSE Len(f)
      BY <1>1, <2>1 DEF Reach
    <3>3. Reach(g, at + Len(a), b)
            = IF at + Len(a) + Len(b) > Len(g) THEN at + Len(a) + Len(b) ELSE Len(g)
      BY DEF Reach
    <3>4. CASE at + Len(a) > Len(f)
      <4>1. Len(g) = at + Len(a) /\ at + Len(a) + Len(b) > Len(f)
        BY <1>1, <3>1, <3>4
      <4>2. at + Len(a) + Len(b) > Len(g) \/ at + Len(a) + Len(b) = Len(g)
        BY <1>1, <4>1
      <4> QED
        BY <1>1, <3>2, <3>3, <4>1, <4>2
    <3>5. CASE ~(at + Len(a) > Len(f))
      <4>1. Len(g) = Len(f)
        BY <3>1, <3>5
      <4> QED
        BY <1>1, <3>2, <3>3, <4>1
    <3> QED
      BY <3>4, <3>5
  <2>8. ASSUME NEW i \in 1..Len(left) PROVE left[i] = right[i]
    <3>1. /\ i \in Nat \ {0}
          /\ left[i] = Over(g, at + Len(a), b, i)
          /\ right[i] = Over(f, at, ab, i)
      BY <2>4, <2>6, <2>7, <2>8
    <3>2. CASE i > at + Len(a) /\ i <= at + Len(a) + Len(b)
      <4>1. /\ i - at \in 1..(Len(a) + Len(b)) /\ ~(i - at <= Len(a))
            /\ i - at - Len(a) = i - (at + Len(a))
            /\ i > at /\ i <= at + Len(ab)
        BY <1>1, <2>1, <3>1, <3>2
      <4>2. ab[i - at] = b[i - at - Len(a)]
        BY <2>1, <4>1
      <4> QED
        BY <3>1, <3>2, <4>1, <4>2 DEF Over
    <3>3. CASE i > at /\ i <= at + Len(a)
      <4>1. /\ i - at \in 1..(Len(a) + Len(b)) /\ i - at <= Len(a)
            /\ i <= at + Len(ab) /\ ~(i > at + Len(a))
            /\ i \in 1..Reach(f, at, a) /\ i <= Len(g)
        BY <1>1, <2>1, <2>3, <3>1, <3>3 DEF Reach
      <4>2. ab[i - at] = a[i - at] /\ g[i] = a[i - at]
        BY <2>1, <2>3, <3>3, <4>1 DEF Over
      <4> QED
        BY <3>1, <3>3, <4>1, <4>2 DEF Over
    <3>4. CASE ~(i > at) \/ i > at + Len(a) + Len(b)
      <4>1. /\ ~(i > at /\ i <= at + Len(ab))
            /\ ~(i > at + Len(a) /\ i <= at + Len(a) + Len(b))
            /\ ~(i > at /\ i <= at + Len(a))
        BY <1>1, <2>1, <3>1, <3>4
      <4>2. i <= Len(g) => g[i] = (IF i <= Len(f) THEN f[i] ELSE Zero)
        BY <2>3, <3>1, <4>1 DEF Over
      <4>3. ~(i <= Len(g)) => ~(i <= Len(f))
        BY <1>1, <2>3, <3>1 DEF Reach
      <4> QED
        BY <3>1, <4>1, <4>2, <4>3 DEF Over
    <3> QED
      BY <1>1, <3>1, <3>2, <3>3, <3>4
  <2>9. Len(left) = Len(right)
    BY <2>4, <2>6, <2>7
  <2>10. left = right
    BY <2>4, <2>6, <2>8, <2>9, SeqEqual
  <2> QED
    BY <2>10 DEF left, right, g, ab
<1> QED
  BY <1>2, <1>3, <1>4

\* Nor does it matter where the bytes are split.
LEMMA OverlaySplit ==
  ASSUME Zero \in Byte, NEW f \in Seq(Byte), NEW at \in Nat, NEW d \in Seq(Byte),
         NEW k \in 0..Len(d)
  PROVE  Overlay(Overlay(f, at, SubSeq(d, 1, k)), at + k, SubSeq(d, k + 1, Len(d)))
           = Overlay(f, at, d)
<1> DEFINE a == SubSeq(d, 1, k)
           b == SubSeq(d, k + 1, Len(d))
<1>1. Len(d) \in Nat /\ k \in Nat /\ \A i \in 1..Len(d) : d[i] \in Byte
  BY LenProperties, ElementOfSeq
<1>2. a \in Seq(Byte) /\ Len(a) = k
  BY <1>1, SubSeqProperties
<1>3. b \in Seq(Byte)
  BY <1>1, SubSeqProperties
<1>4. a \o b = SubSeq(d, 1, Len(d))
  <2>1. 1 \in 1..(Len(d) + 1) /\ k \in (1 - 1)..Len(d) /\ Len(d) \in k..Len(d)
    BY <1>1
  <2> QED
    BY <2>1, ConcatAdjacentSubSeq
<1>5. a \o b = d
  BY <1>4, SubSeqFull
<1> HIDE DEF a, b
<1>6. Overlay(Overlay(f, at, a), at + Len(a), b) = Overlay(f, at, a \o b)
  BY <1>2, <1>3, OverlayTwice, ZenonT(40)
<1>7. Overlay(Overlay(f, at, a), at + k, b) = Overlay(f, at, d)
  BY <1>2, <1>5, <1>6, Zenon
<1> QED
  BY <1>7 DEF a, b

\* Bytes below the new size may be written after the file is resized.
LEMMA OverlayResized ==
  ASSUME Zero \in Byte, NEW f \in Seq(Byte), NEW at \in Nat, NEW d \in Seq(Byte),
         NEW n \in Nat, d = << >> \/ at + Len(d) <= n
  PROVE  Overlay(Resized(f, n), at, d) = Resized(Overlay(f, at, d), n)
<1> DEFINE r == Resized(f, n)
           g == Overlay(f, at, d)
           left == Overlay(r, at, d)
           right == Resized(g, n)
<1>1. CASE d = << >>
  BY <1>1 DEF Overlay
<1>2. CASE d # << >>
  <2>1. Len(f) \in Nat /\ Len(d) \in Nat /\ Len(d) > 0 /\ at + Len(d) <= n
    BY <1>2, LenProperties, EmptySeq
  <2>2. /\ r \in Seq(Byte) /\ Len(r) = n
        /\ \A i \in 1..n : r[i] = IF i <= Len(f) THEN f[i] ELSE Zero
    BY ResizedProperties
  <2>3. /\ g \in Seq(Byte) /\ Len(g) = Reach(f, at, d)
        /\ \A i \in 1..Reach(f, at, d) : g[i] = Over(f, at, d, i)
    BY <1>2, OverlayProperties
  <2> HIDE DEF r, g
  <2>4. /\ left \in Seq(Byte) /\ Len(left) = Reach(r, at, d)
        /\ \A i \in 1..Reach(r, at, d) : left[i] = Over(r, at, d, i)
    BY <1>2, <2>2, OverlayProperties
  <2>5. /\ right \in Seq(Byte) /\ Len(right) = n
        /\ \A i \in 1..n : right[i] = IF i <= Len(g) THEN g[i] ELSE Zero
    BY <2>3, ResizedProperties
  <2> HIDE DEF left, right
  <2>6. Reach(r, at, d) = n
    BY <2>1, <2>2 DEF Reach
  <2>7. ASSUME NEW i \in 1..Len(left) PROVE left[i] = right[i]
    <3>1. /\ i \in 1..n /\ i <= Len(r)
          /\ left[i] = Over(r, at, d, i)
          /\ right[i] = IF i <= Len(g) THEN g[i] ELSE Zero
          /\ r[i] = IF i <= Len(f) THEN f[i] ELSE Zero
      BY <2>2, <2>4, <2>5, <2>6, <2>7
    <3>2. i <= Len(g) => g[i] = Over(f, at, d, i)
      BY <2>1, <2>3, <3>1 DEF Reach
    <3>3. ~(i <= Len(g)) => ~(i <= Len(f)) /\ ~(i <= at + Len(d))
      BY <2>1, <2>3, <3>1 DEF Reach
    <3> QED
      BY <3>1, <3>2, <3>3 DEF Over
  <2>8. left = right
    BY <2>4, <2>5, <2>6, <2>7, SeqEqual
  <2> QED
    BY <2>8 DEF left, right, r, g
<1> QED
  BY <1>1, <1>2

-----------------------------------------------------------------------------
(***************************************************************************)
(* Buffer, disk and the file they make.                                    *)
(***************************************************************************)
Buffer == [at : Nat, data : Seq(Byte)]

Outcome == [disk : Seq(Byte), buf : Buffer, lost : BOOLEAN]

\* The file as the calls left it.
Whole == Overlay(disk, buf.at, buf.data)

-----------------------------------------------------------------------------
(***************************************************************************)
(* The outcomes of stdio's functions.                                      *)
(***************************************************************************)
\* Writing out k bytes moves them to the file and keeps the others.
LEMMA OutProperties ==
  ASSUME NEW f \in Seq(Byte), NEW at \in Nat, NEW data \in Seq(Byte),
         NEW k \in 0..Len(data)
  PROVE  /\ Out(f, at, data, k) \in Outcome
         /\ ~Out(f, at, data, k).lost
         /\ Out(f, at, data, k).buf.at = at + k
         /\ Len(Out(f, at, data, k).buf.data) = Len(data) - k
         /\ Overlay(Out(f, at, data, k).disk, at + k, Out(f, at, data, k).buf.data)
              = Overlay(f, at, data)
<1> DEFINE a == SubSeq(data, 1, k)
           b == SubSeq(data, k + 1, Len(data))
<1>1. Len(data) \in Nat /\ k \in Nat /\ \A i \in 1..Len(data) : data[i] \in Byte
  BY LenProperties, ElementOfSeq
<1>2. a \in Seq(Byte)
  BY <1>1, SubSeqProperties
<1>3. b \in Seq(Byte) /\ Len(b) = Len(data) - k
  BY <1>1, SubSeqProperties
<1>4. Overlay(f, at, a) \in Seq(Byte)
  BY <1>2, StreamAssumption, OverlayTyped
<1>5. Overlay(Overlay(f, at, a), at + k, b) = Overlay(f, at, data)
  BY StreamAssumption, OverlaySplit
<1>6. Out(f, at, data, k)
        = [disk |-> Overlay(f, at, a), buf |-> [at |-> at + k, data |-> b], lost |-> FALSE]
  BY DEF Out
<1> HIDE DEF a, b
<1> QED
  BY <1>1, <1>3, <1>4, <1>5, <1>6 DEF Outcome, Buffer

\* A failure leaves a typed file and an empty buffer.
LEMMA FailureProperties ==
  ASSUME NEW f \in Seq(Byte), NEW at \in Nat, NEW data \in Seq(Byte),
         NEW o \in Failures(f, at, data)
  PROVE  o \in Outcome /\ o.lost /\ o.buf.data = << >> /\ data # << >>
<1>1. PICK k \in 0..(Len(data) - 1) : o = Dropped(f, at, data, k)
  BY DEF Failures
<1>2. k \in 0..Len(data) /\ Len(data) # 0
  BY <1>1, LenProperties
<1> DEFINE out == Out(f, at, data, k)
<1>3. out \in Outcome
  BY <1>2, OutProperties
<1>4. o = [out EXCEPT !.buf.data = << >>, !.lost = TRUE]
  BY <1>1 DEF Dropped
<1> HIDE DEF out
<1>5. << >> \in Seq(Byte) /\ data # << >>
  BY <1>2, EmptySeq
<1> QED
  BY <1>3, <1>4, <1>5 DEF Outcome, Buffer

\* fwrite adds its bytes behind those that wait, or loses some.
LEMMA WrittenProperties ==
  ASSUME TypeOK, NEW d \in Seq(Byte), NEW o \in Written(d)
  PROVE  /\ o \in Outcome
         /\ Len(o.buf.data) <= BufSize
         /\ ~o.lost => /\ Overlay(o.disk, o.buf.at, o.buf.data) = Overlay(Whole, Pos, d)
                       /\ o.buf.at + Len(o.buf.data) = Pos + Len(d)
<1> DEFINE data == buf.data \o d
<1>1. /\ disk \in Seq(Byte) /\ buf.at \in Nat /\ buf.data \in Seq(Byte)
      /\ Len(buf.data) \in Nat /\ Len(d) \in Nat
  BY LenProperties DEF TypeOK
<1>2. data \in Seq(Byte) /\ Len(data) = Len(buf.data) + Len(d)
  BY <1>1, ConcatProperties
<1>3. Overlay(disk, buf.at, data) = Overlay(Whole, Pos, d)
  <2>1. Overlay(Overlay(disk, buf.at, buf.data), buf.at + Len(buf.data), d)
          = Overlay(disk, buf.at, buf.data \o d)
    BY <1>1, StreamAssumption, OverlayTwice, ZenonT(40)
  <2> QED
    BY <2>1, Zenon DEF Whole, Pos
<1> HIDE DEF data
<1>4. CASE \E k \in 0..Len(data) : Len(data) - k <= BufSize /\ o = Out(disk, buf.at, data, k)
  <2>1. PICK k \in 0..Len(data) : Len(data) - k <= BufSize /\ o = Out(disk, buf.at, data, k)
    BY <1>4
  <2>2. /\ o \in Outcome /\ o.buf.at = buf.at + k /\ Len(o.buf.data) = Len(data) - k
        /\ Overlay(o.disk, buf.at + k, o.buf.data) = Overlay(disk, buf.at, data)
    <3> DEFINE out == Out(disk, buf.at, data, k)
    <3>1. /\ out \in Outcome /\ out.buf.at = buf.at + k
          /\ Len(out.buf.data) = Len(data) - k
          /\ Overlay(out.disk, buf.at + k, out.buf.data) = Overlay(disk, buf.at, data)
      <4>1. data \in Seq(Byte) /\ k \in 0..Len(data)
        BY <1>2, <2>1
      <4>2. disk \in Seq(Byte) /\ buf.at \in Nat
        BY <1>1
      <4> QED
        BY <4>1, <4>2, OutProperties, ZenonT(60)
    <3> QED
      BY <2>1, <3>1
  <2>3. o.buf.at + Len(o.buf.data) = Pos + Len(d)
    BY <1>1, <1>2, <2>1, <2>2 DEF Pos
  <2> QED
    BY <1>3, <2>1, <2>2, <2>3
<1>5. CASE o \in Failures(disk, buf.at, data)
  <2>1. o \in Outcome /\ o.lost /\ o.buf.data = << >>
    BY <1>1, <1>2, <1>5, FailureProperties
  <2> QED
    BY <2>1, EmptySeq, StreamAssumption
<1> QED
  BY <1>4, <1>5 DEF Written, data

\* Writing the buffer out leaves the file that buffer and f made together.
LEMMA FlushedProperties ==
  ASSUME TypeOK, NEW f \in Seq(Byte), NEW o \in Flushed(f)
  PROVE  /\ o \in Outcome
         /\ o.buf.data = << >>
         /\ ~o.lost => o.disk = Overlay(f, buf.at, buf.data) /\ o.buf.at = Pos
         /\ buf.data = << >> => ~o.lost
<1>1. buf.at \in Nat /\ buf.data \in Seq(Byte) /\ Len(buf.data) \in Nat
  BY LenProperties DEF TypeOK
<1>2. CASE o = Out(f, buf.at, buf.data, Len(buf.data))
  <2>1. /\ o \in Outcome /\ ~o.lost /\ o.buf.at = buf.at + Len(buf.data)
        /\ Len(o.buf.data) = Len(buf.data) - Len(buf.data)
        /\ Overlay(o.disk, o.buf.at, o.buf.data) = Overlay(f, buf.at, buf.data)
    <3> DEFINE n == Len(buf.data)
               out == Out(f, buf.at, buf.data, n)
    <3>1. n \in 0..Len(buf.data)
      BY <1>1
    <3>2. /\ out \in Outcome /\ ~out.lost /\ out.buf.at = buf.at + n
          /\ Len(out.buf.data) = Len(buf.data) - n
          /\ Overlay(out.disk, buf.at + n, out.buf.data) = Overlay(f, buf.at, buf.data)
      BY <1>1, <3>1, OutProperties, ZenonT(40)
    <3> HIDE DEF out
    <3>3. o = out
      BY <1>2 DEF out
    <3> QED
      BY <3>2, <3>3
  <2>2. o.buf.data \in Seq(Byte) /\ Len(o.buf.data) = 0
    BY <1>1, <2>1 DEF Outcome, Buffer
  <2>3. o.buf.data = << >>
    BY <2>2, EmptySeq
  <2> QED
    BY <2>1, <2>3 DEF Overlay, Pos
<1>3. CASE o \in Failures(f, buf.at, buf.data)
  BY <1>1, <1>3, FailureProperties
<1> QED
  BY <1>2, <1>3 DEF Flushed

\* A seek leaves an empty buffer and, unless bytes were lost, leads to where
\* the file as the calls left it says.
LEMMA SoughtProperties ==
  ASSUME TypeOK, NEW whence \in Whence, NEW offset \in Int, NEW o \in Sought(whence, offset)
  PROVE  /\ o \in Outcome
         /\ o.buf.data = << >>
         /\ ~o.lost =>
              /\ o.disk = Whole
              /\ o.buf.at = LET t == Target(whence, offset, Len(Whole), Pos)
                            IN  IF t >= 0 THEN t ELSE Pos
         /\ buf.data = << >> => ~o.lost
<1>1. PICK u \in Flushed(disk) :
        o = LET t == Target(whence, offset, Len(u.disk), u.buf.at)
            IN  IF u.lost \/ t < 0 THEN u ELSE [u EXCEPT !.buf.at = t]
  BY DEF Sought
<1>2. disk \in Seq(Byte)
  BY DEF TypeOK
<1>3. /\ u \in Outcome /\ u.buf.data = << >>
      /\ ~u.lost => u.disk = Whole /\ u.buf.at = Pos
      /\ buf.data = << >> => ~u.lost
  <2>1. /\ u \in Outcome /\ u.buf.data = << >>
        /\ ~u.lost => /\ u.disk = Overlay(disk, buf.at, buf.data)
                      /\ u.buf.at = Pos
        /\ buf.data = << >> => ~u.lost
    BY <1>2, FlushedProperties
  <2> QED
    BY <2>1 DEF Whole
<1> DEFINE t == Target(whence, offset, Len(u.disk), u.buf.at)
<1>4. t \in Int
  <2>1. Len(u.disk) \in Nat /\ u.buf.at \in Nat
    BY <1>3, LenProperties DEF Outcome, Buffer
  <2> QED
    BY <2>1, SMTT(30) DEF Target
<1> HIDE DEF t
<1>5. CASE u.lost \/ t < 0
  <2>1. o = u
    BY <1>1, <1>5 DEF t
  <2> QED
    BY <1>3, <1>4, <1>5, <2>1 DEF t
<1>6. CASE ~u.lost /\ ~(t < 0)
  <2>1. o = [u EXCEPT !.buf.at = t] /\ t \in Nat
    BY <1>1, <1>4, <1>6 DEF t
  <2>2. o \in Outcome /\ o.buf.data = << >> /\ o.lost = u.lost /\ o.disk = u.disk /\ o.buf.at = t
    BY <1>3, <2>1 DEF Outcome, Buffer
  <2> QED
    BY <1>3, <1>4, <1>6, <2>2 DEF t
<1> QED
  BY <1>5, <1>6

-----------------------------------------------------------------------------
(***************************************************************************)
(* The inductive invariant.  Until the hand-over ferror is up exactly if a *)
(* byte was lost, and the last answer says so; afterwards the buffer stays *)
(* empty, so that nothing the kernel reads can still change.               *)
(***************************************************************************)
ErrorInv == phase = "writing" => (err <=> lost) /\ reply.status = Status(err)

BufferInv == phase = "reading" => buf.data = << >>

IInv == TypeOK /\ ErrorInv /\ BufferInv

\* An answer made of typed parts is an answer.
LEMMA AnswerTyped ==
  ASSUME NEW op \in {"none", "Write", "Seek", "SetSize", "open", "read"},
         NEW e \in BOOLEAN, NEW at \in Nat
  PROVE  /\ Answer(op, Status(e), at, << >>) \in Reply
         /\ Answer(op, Status(e), at, << >>).status = Status(e)
<1>1. << >> \in Seq(Byte)
  BY EmptySeq
<1>2. Status(e) \in {"S_OK", "error"}
  BY DEF Status
<1> QED
  BY <1>1, <1>2 DEF Answer, Reply

\* What one of 7-Zip's calls does to the invariant, whichever it is.
LEMMA CallKeepsIInv ==
  ASSUME IInv, phase = "writing", phase' = "writing",
         NEW o \in Outcome, Becomes(o), Len(o.buf.data) <= BufSize,
         err' = Raised(o), cut' \in BOOLEAN,
         NEW op \in {"Write", "Seek", "SetSize"}, NEW at \in Nat,
         reply' = Answer(op, Status(err'), at, << >>)
  PROVE  IInv'
<1>1. err \in BOOLEAN /\ lost \in BOOLEAN /\ (err <=> lost)
  BY DEF IInv, TypeOK, ErrorInv
<1>2. o.lost \in BOOLEAN /\ o.disk \in Seq(Byte) /\ o.buf \in Buffer
  BY DEF Outcome
<1>3. disk' = o.disk /\ buf' = o.buf /\ lost' = (lost \/ o.lost)
  BY DEF Becomes
<1>4. err' \in BOOLEAN /\ lost' \in BOOLEAN /\ (err' <=> lost')
  BY <1>1, <1>2, <1>3 DEF Raised
<1>5. reply' \in Reply /\ reply'.status = Status(err')
  BY <1>4, AnswerTyped
<1>6. TypeOK'
  BY <1>2, <1>3, <1>4, <1>5 DEF TypeOK, Buffer
<1>7. ErrorInv'
  BY <1>4, <1>5 DEF ErrorInv, Status
<1> QED
  BY <1>6, <1>7 DEF IInv, BufferInv

LEMMA InitIInv == Init => IInv
<1> SUFFICES ASSUME Init PROVE IInv
  OBVIOUS
<1> USE DEF Init
<1>1. << >> \in Seq(Byte) /\ Len(<< >>) = 0
  BY EmptySeq
<1>2. reply \in Reply /\ reply.status = "S_OK"
  BY <1>1 DEF Answer, Reply
<1>3. buf \in Buffer /\ buf.data = << >>
  BY <1>1 DEF Buffer
<1>4. Len(buf.data) <= BufSize
  BY <1>1, <1>3, StreamAssumption
<1>5. TypeOK
  BY <1>1, <1>2, <1>3, <1>4 DEF TypeOK, Buffer
<1> QED
  BY <1>2, <1>5 DEF IInv, ErrorInv, BufferInv, Status

LEMMA WriteIInv ==
  ASSUME IInv, NEW d \in Chunk, Write(d)
  PROVE  IInv'
<1>1. d \in Seq(Byte) /\ TypeOK
  BY StreamAssumption DEF IInv
<1>2. PICK o \in Written(d) : Becomes(o) /\ err' = Raised(o)
  BY DEF Write
<1>3. o \in Outcome /\ Len(o.buf.data) <= BufSize
  BY <1>1, <1>2, WrittenProperties
<1>4. /\ phase = "writing" /\ phase' = "writing" /\ cut' \in BOOLEAN
      /\ reply' = Answer("Write", Status(err'), 0, << >>)
  BY <1>1 DEF Write, TypeOK
<1> QED
  BY <1>2, <1>3, <1>4, CallKeepsIInv

LEMMA SeekIInv ==
  ASSUME IInv, NEW whence \in Whence, NEW offset \in Offset, Seek(whence, offset)
  PROVE  IInv'
<1>1. offset \in Int /\ TypeOK
  BY StreamAssumption DEF IInv
<1>2. PICK o \in Sought(whence, offset) :
        /\ Becomes(o) /\ err' = Raised(o)
        /\ reply' = Answer("Seek", Status(err'), Told(o, offset), << >>)
  BY DEF Seek
<1>3. o \in Outcome /\ o.buf.data = << >>
  BY <1>1, <1>2, SoughtProperties
<1>4. Len(o.buf.data) <= BufSize
  BY <1>3, EmptySeq, StreamAssumption
<1>5. Told(o, offset) \in Nat
  BY <1>3 DEF Told, Outcome, Buffer
<1>6. phase = "writing" /\ phase' = "writing" /\ cut' \in BOOLEAN
  BY <1>1 DEF Seek, TypeOK
<1> QED
  BY <1>2, <1>3, <1>4, <1>5, <1>6, CallKeepsIInv

\* What a call of SetSize becomes.
LEMMA SetSizeOutcome ==
  ASSUME TypeOK, NEW n \in Length, SetSize(n)
  PROVE  \E o \in Outcome :
           /\ Becomes(o) /\ err' = Raised(o)
           /\ o.buf.data = << >>
           /\ ~o.lost => /\ o.disk = Overlay(Resized(disk, n), buf.at, buf.data)
                         /\ o.buf.at = Pos
<1>1. PICK u \in Flushed(Resized(disk, n)) : Becomes(Back(u)) /\ err' = Raised(u)
  BY DEF SetSize
<1>2. n \in Nat /\ disk \in Seq(Byte) /\ buf \in Buffer
  BY StreamAssumption DEF TypeOK, Buffer
<1>3. Resized(disk, n) \in Seq(Byte)
  BY <1>2, StreamAssumption, ResizedProperties
<1>4. /\ u \in Outcome /\ u.buf.data = << >>
      /\ ~u.lost => /\ u.disk = Overlay(Resized(disk, n), buf.at, buf.data)
                    /\ u.buf.at = Pos
  BY <1>1, <1>3, FlushedProperties
<1>5. Pos \in Nat
  BY <1>2, LenProperties DEF Pos, Buffer
<1>6. /\ Back(u) \in Outcome /\ Back(u).lost = u.lost /\ Back(u).disk = u.disk
      /\ Back(u).buf.data = << >>
      /\ ~u.lost => Back(u).buf.at = Pos
  BY <1>4, <1>5 DEF Back, Outcome, Buffer
<1>7. err' = Raised(Back(u))
  BY <1>1, <1>6 DEF Raised
<1> QED
  BY <1>1, <1>4, <1>6, <1>7

LEMMA SetSizeIInv ==
  ASSUME IInv, NEW n \in Length, SetSize(n)
  PROVE  IInv'
<1>1. TypeOK
  BY DEF IInv
<1>2. PICK o \in Outcome : Becomes(o) /\ err' = Raised(o) /\ o.buf.data = << >>
  BY <1>1, SetSizeOutcome
<1>3. Len(o.buf.data) <= BufSize
  BY <1>2, EmptySeq, StreamAssumption
<1>4. /\ phase = "writing" /\ phase' = "writing" /\ cut' \in BOOLEAN
      /\ reply' = Answer("SetSize", Status(err'), 0, << >>)
  BY <1>1 DEF SetSize, TypeOK
<1> QED
  BY <1>2, <1>3, <1>4, CallKeepsIInv

LEMMA RewindIInv == IInv /\ Rewind => IInv'
<1> SUFFICES ASSUME IInv, Rewind PROVE IInv'
  OBVIOUS
<1>1. TypeOK /\ err \in BOOLEAN /\ lost \in BOOLEAN
  BY DEF IInv, TypeOK
<1>2. PICK o \in Sought("set", 0) : Becomes(o) /\ err' = Raised(o)
  BY DEF Rewind
<1>3. o \in Outcome /\ o.buf.data = << >>
  BY <1>1, <1>2, SoughtProperties DEF Whence
<1>4. /\ disk' \in Seq(Byte) /\ buf' \in Buffer /\ buf'.data = << >>
      /\ lost' \in BOOLEAN /\ err' \in BOOLEAN
  BY <1>1, <1>2, <1>3 DEF Becomes, Raised, Outcome
<1>5. Len(buf'.data) <= BufSize
  BY <1>4, EmptySeq, StreamAssumption
<1>6. phase' = "reading" /\ cut' \in BOOLEAN /\ reply' \in Reply
  <2>1. Answer("open", Status(FALSE), 0, << >>) \in Reply /\ Status(FALSE) = "S_OK"
    BY AnswerTyped DEF Status
  <2> QED
    BY <1>1, <2>1 DEF Rewind, TypeOK
<1> QED
  BY <1>4, <1>5, <1>6 DEF IInv, TypeOK, ErrorInv, BufferInv, Buffer

\* What a read of the kernel does: it moves the position, and answers with a
\* beginning of the bytes that are there.
LEMMA ReadOutcome ==
  ASSUME IInv, NEW off \in Offset \cap Nat, NEW n \in Length, Read(off, n)
  PROVE  /\ disk' = disk /\ lost' = lost
         /\ buf' \in Buffer /\ buf'.data = << >>
         /\ err' \in BOOLEAN
         /\ \E m \in 0..Len(Slice(disk, off, n)) :
              reply' = Answer("read", "S_OK", 0, SubSeq(Slice(disk, off, n), 1, m))
         /\ Slice(disk, off, n) \in Seq(Byte)
<1> DEFINE there == Slice(disk, off, n)
<1>1. /\ TypeOK /\ buf.data = << >> /\ disk \in Seq(Byte) /\ Len(disk) \in Nat
      /\ err \in BOOLEAN /\ lost \in BOOLEAN /\ off \in Int
  BY LenProperties DEF IInv, BufferInv, Read, TypeOK
<1>a. PICK o \in Sought("set", off) : \E m \in 0..Len(Slice(o.disk, off, n)) :
        /\ Becomes([o EXCEPT !.buf.at = off + m])
        /\ err' = (Raised(o) \/ m < Len(Slice(o.disk, off, n)))
        /\ reply' = Answer("read", "S_OK", 0, SubSeq(Slice(o.disk, off, n), 1, m))
  BY DEF Read
<1>2. PICK m \in 0..Len(Slice(o.disk, off, n)) :
        /\ Becomes([o EXCEPT !.buf.at = off + m])
        /\ err' = (Raised(o) \/ m < Len(Slice(o.disk, off, n)))
        /\ reply' = Answer("read", "S_OK", 0, SubSeq(Slice(o.disk, off, n), 1, m))
  BY <1>a
<1>3. o \in Outcome /\ o.buf.data = << >> /\ ~o.lost /\ o.disk = disk
  <2>1. Whole = disk
    BY <1>1 DEF Whole, Overlay
  <2> QED
    BY <1>1, <1>2, <2>1, SoughtProperties DEF Whence
<1>4. there \in Seq(Byte)
  <2> DEFINE last == IF off + n < Len(disk) THEN off + n ELSE Len(disk)
  <2>1. n \in Nat /\ off \in Nat
    BY StreamAssumption
  <2>2. last \in Int /\ last <= Len(disk)
    BY <1>1, <2>1
  <2>3. \A i \in (off + 1)..last : i \in 1..Len(disk)
    BY <1>1, <2>1, <2>2
  <2>4. \A i \in (off + 1)..last : disk[i] \in Byte
    BY <1>1, <2>3, ElementOfSeq
  <2> HIDE DEF last
  <2>5. SubSeq(disk, off + 1, last) \in Seq(Byte)
    BY <2>1, <2>2, <2>4, SubSeqProperties
  <2> QED
    BY <2>5 DEF Slice, last
<1>5. m \in 0..Len(there) /\ off + m \in Nat
  BY <1>2, <1>3, <1>4, LenProperties
<1>6. /\ disk' = disk /\ lost' = lost
      /\ buf' = [o.buf EXCEPT !.at = off + m]
  BY <1>1, <1>2, <1>3 DEF Becomes, Outcome
<1>7. buf' \in Buffer /\ buf'.data = << >>
  BY <1>3, <1>5, <1>6 DEF Outcome, Buffer
<1>8. err' \in BOOLEAN
  BY <1>1, <1>2, <1>3 DEF Raised
<1>9. reply' = Answer("read", "S_OK", 0, SubSeq(there, 1, m))
  BY <1>2, <1>3
<1> QED
  BY <1>4, <1>5, <1>6, <1>7, <1>8, <1>9

LEMMA ReadIInv ==
  ASSUME IInv, NEW off \in Offset \cap Nat, NEW n \in Length, Read(off, n)
  PROVE  IInv'
<1> DEFINE there == Slice(disk, off, n)
<1>1. /\ disk' = disk /\ lost' = lost /\ buf' \in Buffer /\ buf'.data = << >>
      /\ err' \in BOOLEAN /\ there \in Seq(Byte)
  BY ReadOutcome
<1>2. PICK m \in 0..Len(there) : reply' = Answer("read", "S_OK", 0, SubSeq(there, 1, m))
  BY ReadOutcome
<1> HIDE DEF there
<1>3. SubSeq(there, 1, m) \in Seq(Byte)
  <2>1. \A i \in 1..m : i \in 1..Len(there)
    BY <1>1, <1>2, LenProperties
  <2>2. \A i \in 1..m : there[i] \in Byte
    BY <1>1, <2>1, ElementOfSeq
  <2> QED
    BY <1>2, <2>2, SubSeqProperties
<1>4. reply' \in Reply
  BY <1>2, <1>3 DEF Answer, Reply
<1>5. Len(buf'.data) <= BufSize
  BY <1>1, EmptySeq, StreamAssumption
<1>6. phase' = "reading" /\ cut' = cut
  BY DEF Read
<1> QED
  BY <1>1, <1>4, <1>5, <1>6 DEF IInv, TypeOK, ErrorInv, BufferInv, Buffer

LEMMA NextIInv == IInv /\ [Next]_vars => IInv'
<1> SUFFICES ASSUME IInv, [Next]_vars PROVE IInv'
  OBVIOUS
<1>1. ASSUME NEW d \in Chunk, Write(d) PROVE IInv'
  BY <1>1, WriteIInv
<1>2. ASSUME NEW whence \in Whence, NEW offset \in Offset, Seek(whence, offset) PROVE IInv'
  BY <1>2, SeekIInv
<1>3. ASSUME NEW n \in Length, SetSize(n) PROVE IInv'
  BY <1>3, SetSizeIInv
<1>4. CASE Rewind
  BY <1>4, RewindIInv
<1>5. ASSUME NEW off \in Offset \cap Nat, NEW n \in Length, Read(off, n) PROVE IInv'
  BY <1>5, ReadIInv
<1>6. CASE Close
  BY <1>6 DEF Close, IInv, TypeOK, ErrorInv, BufferInv
<1>7. CASE UNCHANGED vars
  BY <1>7 DEF vars, IInv, TypeOK, ErrorInv, BufferInv
<1> QED
  BY <1>1, <1>2, <1>3, <1>4, <1>5, <1>6, <1>7 DEF Next

\* The invariant holds throughout.
LEMMA Invariance == Spec => []IInv
BY InitIInv, NextIInv, PTL DEF Spec
-----------------------------------------------------------------------------
\* The variables of the stream keep their types, the position among them,
\* whatever 7-Zip seeks and however the file system fails.
THEOREM TypeCorrect == Spec => []TypeOK
<1>1. IInv => TypeOK
  BY DEF IInv
<1> QED
  BY <1>1, Invariance, PTL

\* check_error and a flag nobody clears are enough: as long as 7-Zip is told
\* S_OK, no byte of this call or of an earlier one is lost.
THEOREM LossIsReported == Spec => []SuccessMeansWritten
<1>1. IInv => SuccessMeansWritten
  <2> SUFFICES ASSUME IInv, phase = "writing", reply.status = "S_OK" PROVE ~lost
    BY DEF SuccessMeansWritten
  <2>1. (err <=> lost) /\ "S_OK" = Status(err)
    BY DEF IInv, ErrorInv
  <2> QED
    BY <2>1 DEF Status
<1> QED
  BY <1>1, Invariance, PTL

-----------------------------------------------------------------------------
(***************************************************************************)
(* The refinement.  A call that keeps the file sound found it sound and    *)
(* ferror down, so it answers S_OK; every other call of 7-Zip is one that  *)
(* the specification lets spoil the file.                                  *)
(***************************************************************************)
\* OutFile means the same operations on files.
LEMMA SameOperations ==
  /\ \A f, at, d : F!Overlay(f, at, d) = Overlay(f, at, d)
  /\ \A f, n : F!Resized(f, n) = Resized(f, n)
  /\ \A w, o, s, p : F!Target(w, o, s, p) = Target(w, o, s, p)
  /\ \A f, off, n : F!Slice(f, off, n) = Slice(f, off, n)
  /\ \A op, s, at, d : F!Answer(op, s, at, d) = Answer(op, s, at, d)
  /\ F!Reply = Reply
  /\ F!Whence = Whence
BY DEF F!Overlay, Overlay, F!Resized, Resized, F!Target, Target, F!Slice, Slice,
       F!Answer, Answer, F!Reply, Reply, F!Whence, Whence

LEMMA WholeTyped == TypeOK => Whole \in Seq(Byte) /\ Pos \in Nat
<1> SUFFICES ASSUME TypeOK PROVE Whole \in Seq(Byte) /\ Pos \in Nat
  OBVIOUS
<1>1. /\ disk \in Seq(Byte) /\ buf.at \in Nat /\ buf.data \in Seq(Byte)
      /\ Len(buf.data) \in Nat
  BY LenProperties DEF TypeOK
<1> QED
  BY <1>1, StreamAssumption, OverlayTyped DEF Whole, Pos

LEMMA WholeTypedNext == TypeOK' => (Whole \in Seq(Byte) /\ Pos \in Nat)'
BY WholeTyped, PTL

\* A step of 7-Zip's that leaves the file unsound.
LEMMA Spoils ==
  ASSUME IInv', phase = "writing", phase' \in {"writing", "reading"}, lost' \/ cut'
  PROVE  F!Spoil
<1>1. Whole' \in Seq(Byte) /\ Pos' \in Nat /\ reply' \in Reply
  <2>1. TypeOK'
    BY DEF IInv
  <2>2. Whole' \in Seq(Byte) /\ Pos' \in Nat
    BY <2>1, WholeTypedNext
  <2> QED
    BY <2>1, <2>2 DEF TypeOK
<1> QED
  BY <1>1, SameOperations DEF F!Spoil, Whole

\* A call that loses nothing raises no error.
LEMMA SoundCall ==
  ASSUME IInv, phase = "writing", NEW o \in Outcome, Becomes(o), err' = Raised(o), ~lost'
  PROVE  ~o.lost /\ ~lost /\ Status(err') = "S_OK"
<1>1. (err <=> lost) /\ lost' = (lost \/ o.lost)
  BY DEF IInv, ErrorInv, Becomes
<1> QED
  BY <1>1 DEF Raised, Status

LEMMA WriteRefines ==
  ASSUME IInv, NEW d \in Chunk, Write(d), ~lost', ~cut'
  PROVE  F!Write(d)
<1>1. d \in Seq(Byte) /\ TypeOK /\ phase = "writing"
  BY StreamAssumption DEF IInv, Write
<1>2. PICK o \in Written(d) : Becomes(o) /\ err' = Raised(o)
  BY DEF Write
<1>3. /\ o \in Outcome
      /\ ~o.lost => /\ Overlay(o.disk, o.buf.at, o.buf.data) = Overlay(Whole, Pos, d)
                    /\ o.buf.at + Len(o.buf.data) = Pos + Len(d)
  BY <1>1, <1>2, WrittenProperties
<1>4. ~o.lost /\ ~lost /\ Status(err') = "S_OK"
  BY <1>1, <1>2, <1>3, SoundCall
<1>5. Whole' = Overlay(Whole, Pos, d) /\ Pos' = Pos + Len(d)
  BY <1>2, <1>3, <1>4 DEF Becomes, Whole, Pos
<1>6. /\ phase' = phase /\ cut' = cut
      /\ reply' = Answer("Write", "S_OK", 0, << >>)
  BY <1>4 DEF Write
<1> QED
  BY <1>1, <1>4, <1>5, <1>6, SameOperations DEF F!Write, Whole

LEMMA SeekRefines ==
  ASSUME IInv, NEW whence \in Whence, NEW offset \in Offset, Seek(whence, offset),
         ~lost', ~cut'
  PROVE  F!Seek(whence, offset)
<1>1. offset \in Int /\ TypeOK /\ phase = "writing"
  BY StreamAssumption DEF IInv, Seek
<1>2. PICK o \in Sought(whence, offset) :
        /\ Becomes(o) /\ err' = Raised(o)
        /\ reply' = Answer("Seek", Status(err'), Told(o, offset), << >>)
  BY DEF Seek
<1> DEFINE to == LET t == Target(whence, offset, Len(Whole), Pos)
                 IN  IF t >= 0 THEN t ELSE Pos
<1>3. /\ o \in Outcome /\ o.buf.data = << >>
      /\ ~o.lost => o.disk = Whole /\ o.buf.at = to
  BY <1>1, <1>2, SoughtProperties
<1>4. ~o.lost /\ ~lost /\ Status(err') = "S_OK"
  BY <1>1, <1>2, <1>3, SoundCall
<1>5. Whole' = Whole
  BY <1>2, <1>3, <1>4 DEF Becomes, Whole, Overlay
<1>6. to \in Nat
  BY <1>3, <1>4 DEF Outcome, Buffer
<1> HIDE DEF to
<1>7. Pos' = to
  <2>1. buf' = o.buf /\ Len(o.buf.data) = 0
    BY <1>2, <1>3, EmptySeq DEF Becomes
  <2> QED
    BY <1>3, <1>4, <1>6, <2>1 DEF Pos
<1>8. /\ phase' = phase /\ cut' = cut
      /\ reply' = Answer("Seek", "S_OK", to, << >>)
  BY <1>2, <1>3, <1>4 DEF Seek, Told
<1>9. to = LET t == Target(whence, offset, Len(Whole), Pos) IN IF t >= 0 THEN t ELSE Pos
  BY DEF to
<1> QED
  BY <1>1, <1>4, <1>5, <1>7, <1>8, <1>9, SameOperations DEF F!Seek, Whole

LEMMA SetSizeRefines ==
  ASSUME IInv, NEW n \in Length, SetSize(n), ~lost', ~cut'
  PROVE  F!SetSize(n)
<1>1. /\ n \in Nat /\ TypeOK /\ phase = "writing"
      /\ disk \in Seq(Byte) /\ buf \in Buffer
  BY StreamAssumption DEF IInv, SetSize, TypeOK, Buffer
<1>2. PICK o \in Outcome :
        /\ Becomes(o) /\ err' = Raised(o)
        /\ o.buf.data = << >>
        /\ ~o.lost => /\ o.disk = Overlay(Resized(disk, n), buf.at, buf.data)
                      /\ o.buf.at = Pos
  BY <1>1, SetSizeOutcome
<1>3. ~o.lost /\ ~lost /\ Status(err') = "S_OK"
  BY <1>1, <1>2, SoundCall
<1>4. ~cut /\ (buf.data = << >> \/ ~(Pos > n))
  BY DEF SetSize
<1>5. Overlay(Resized(disk, n), buf.at, buf.data) = Resized(Whole, n)
  <2>1. Pos \in Nat /\ Pos = buf.at + Len(buf.data)
    BY <1>1, WholeTyped DEF Pos
  <2>2. buf.data = << >> \/ buf.at + Len(buf.data) <= n
    BY <1>1, <1>4, <2>1
  <2> QED
    BY <1>1, <2>2, StreamAssumption, OverlayResized DEF Whole, Buffer
<1>6. Whole' = Resized(Whole, n)
  BY <1>2, <1>3, <1>5 DEF Becomes, Whole, Overlay
<1>7. Pos' = Pos
  <2>1. buf' = o.buf /\ Len(o.buf.data) = 0 /\ Pos \in Nat
    BY <1>1, <1>2, EmptySeq, WholeTyped DEF Becomes
  <2> QED
    BY <1>2, <1>3, <2>1 DEF Pos
<1>8. phase' = phase /\ reply' = Answer("SetSize", "S_OK", 0, << >>)
  BY <1>3 DEF SetSize
<1> QED
  BY <1>1, <1>3, <1>4, <1>6, <1>7, <1>8, SameOperations DEF F!SetSize, Whole

LEMMA RewindRefines ==
  ASSUME IInv, Rewind, ~lost', ~cut'
  PROVE  F!HandOver
<1>1. TypeOK /\ phase = "writing" /\ phase' = "reading" /\ cut' = cut
  BY DEF IInv, Rewind
<1>2. PICK o \in Sought("set", 0) : Becomes(o)
  BY DEF Rewind
<1>3. ~o.lost /\ ~lost
  BY <1>2 DEF Becomes
<1>4. o.disk = Whole /\ o.buf.data = << >> /\ o.buf.at = 0
  BY <1>1, <1>2, <1>3, SoughtProperties DEF Whence, Target
<1>5. Whole' = Whole
  BY <1>2, <1>4 DEF Becomes, Whole, Overlay
<1>6. Pos' = 0
  <2>1. buf' = o.buf /\ Len(o.buf.data) = 0
    BY <1>2, <1>4, EmptySeq DEF Becomes
  <2> QED
    BY <1>4, <2>1 DEF Pos
<1>7. reply' = Answer("open", "S_OK", 0, << >>)
  BY DEF Rewind
<1> QED
  BY <1>1, <1>3, <1>5, <1>6, <1>7, SameOperations DEF F!HandOver, Whole

LEMMA ReadRefines ==
  ASSUME IInv, NEW off \in Offset \cap Nat, NEW n \in Length, Read(off, n)
  PROVE  F!Read(off, n)
<1>1. /\ phase = "reading" /\ phase' = phase /\ cut' = cut /\ buf.data = << >>
  BY DEF IInv, BufferInv, Read
<1>2. /\ disk' = disk /\ lost' = lost /\ buf' \in Buffer /\ buf'.data = << >>
      /\ \E m \in 0..Len(Slice(disk, off, n)) :
           reply' = Answer("read", "S_OK", 0, SubSeq(Slice(disk, off, n), 1, m))
  BY ReadOutcome
<1>3. Whole = disk /\ Whole' = Whole
  BY <1>1, <1>2 DEF Whole, Overlay
<1>4. Pos' \in Nat
  BY <1>2, LenProperties DEF Pos, Buffer
<1> QED
  BY <1>1, <1>2, <1>3, <1>4, SameOperations DEF F!Read, Whole

\* Every step is one of the specification, or none.
LEMMA StepRefines == IInv /\ IInv' /\ [Next]_vars => [F!Next]_F!vars
<1> SUFFICES ASSUME IInv, IInv', [Next]_vars PROVE [F!Next]_F!vars
  OBVIOUS
<1> USE DEF F!Next
<1>1. ASSUME NEW d \in Chunk, Write(d) PROVE F!Next
  <2>1. phase = "writing" /\ phase' = "writing"
    BY <1>1 DEF Write
  <2> QED
    BY <1>1, <2>1, WriteRefines, Spoils
<1>2. ASSUME NEW whence \in Whence, NEW offset \in Offset, Seek(whence, offset) PROVE F!Next
  <2>1. phase = "writing" /\ phase' = "writing"
    BY <1>2 DEF Seek
  <2> QED
    BY <1>2, <2>1, SeekRefines, Spoils, SameOperations
<1>3. ASSUME NEW n \in Length, SetSize(n) PROVE F!Next
  <2>1. phase = "writing" /\ phase' = "writing"
    BY <1>3 DEF SetSize
  <2> QED
    BY <1>3, <2>1, SetSizeRefines, Spoils
<1>4. CASE Rewind
  <2>1. phase = "writing" /\ phase' = "reading"
    BY <1>4 DEF Rewind
  <2> QED
    BY <1>4, <2>1, RewindRefines, Spoils
<1>5. ASSUME NEW off \in Offset \cap Nat, NEW n \in Length, Read(off, n) PROVE F!Next
  BY <1>5, ReadRefines
<1>6. CASE Close
  BY <1>6 DEF Close, F!Close, Pos
<1>7. CASE UNCHANGED vars
  BY <1>7 DEF vars, F!vars, Pos
<1> QED
  BY <1>1, <1>2, <1>3, <1>4, <1>5, <1>6, <1>7 DEF Next

\* Buffer and file together are the array of bytes that OutFile specifies,
\* for every buffer size: writes land where the last seek led, holes are zero,
\* a resize keeps its promise unless it cuts into waiting bytes, and what the
\* kernel reads never changes.
THEOREM StreamIsFile == Spec => ImplementsOutFile
<1>1. Init => F!Init
  BY EmptySeq, SameOperations DEF Init, F!Init, Pos, Overlay
<1>2. IInv /\ IInv' /\ [Next]_vars => [F!Next]_F!vars
  BY StepRefines
<1> QED
  BY <1>1, <1>2, Invariance, PTL DEF Spec, ImplementsOutFile, F!Spec
=============================================================================
