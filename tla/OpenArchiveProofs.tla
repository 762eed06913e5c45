-------------------------- MODULE OpenArchiveProofs --------------------------
(***************************************************************************)
(* Proofs about OpenArchive, for any number of formats and of references a *)
(* handler takes: the counts are right at every step, and the archive is   *)
(* opened with the first format that accepts it.                           *)
(***************************************************************************)
EXTENDS OpenArchive, TLAPS

\* Which handler _arc has, at each place of the constructor and destructor.
PhaseInv ==
  /\ pc \in {"create", "created", "open", "props", "mounted"} => k \in Format
  /\ pc = "created" => arc = NoHandler
  /\ pc \in {"open", "props", "mounted"} => arc = k
  /\ pc \in {"release stream", "gone"} => arc = NoHandler

\* Each handler gets the stream at its start.
RewoundInv ==
  seekable =>
    /\ pc \in {"create", "created"} => pos = 0
    /\ pc = "open" => start = 0

IInv ==
  /\ TypeOK
  /\ PhaseInv
  /\ RewoundInv
  /\ FirstFormatWins
  /\ CountsMatchHolders

-----------------------------------------------------------------------------
\* What a handler can be, spelled out.
LEMMA GoneIsHandler == Gone \in Handler /\ Gone.kept = 0 /\ Gone.asks = 0 /\ Gone.alive = FALSE
BY OpenArchiveAssumption DEF Gone, Handler

LEMMA BareIsHandler == Bare \in Handler /\ Bare.kept = 0 /\ Bare.asks = 0 /\ Bare.alive = TRUE
BY OpenArchiveAssumption DEF Bare, Handler

LEMMA HandlerFields ==
  ASSUME NEW h \in Handler
  PROVE  h.alive \in BOOLEAN /\ h.kept \in 0..MaxKept /\ h.kept \in Nat
         /\ h.asks \in 0..1 /\ h.asks \in Nat
BY OpenArchiveAssumption DEF Handler

\* A handler that takes a reference is another record like it.
LEMMA TakesStream ==
  ASSUME NEW h \in Handler, h.kept < MaxKept, NEW g, g = [h EXCEPT !.kept = @ + 1]
  PROVE  g \in Handler /\ g.alive = h.alive /\ g.kept = h.kept + 1 /\ g.asks = h.asks
BY OpenArchiveAssumption DEF Handler

LEMMA TakesCallback ==
  ASSUME NEW h \in Handler, NEW g, g = [h EXCEPT !.asks = 1]
  PROVE  g \in Handler /\ g.alive = h.alive /\ g.kept = h.kept /\ g.asks = 1
BY OpenArchiveAssumption DEF Handler

LEMMA NotAFormat == NoHandler \notin Format
BY OpenArchiveAssumption DEF Format

\* While there is a handler: it is that of a format, and the counts are its.
LEMMA LiveHandler ==
  ASSUME TypeOK, CountsMatchHolders, arc # NoHandler
  PROVE  /\ arc \in Format /\ handler[arc] \in Handler
         /\ handler[arc].kept \in Nat /\ handler[arc].asks \in Nat
         /\ refs = (IF pc = "gone" THEN 0 ELSE 1) + handler[arc].kept
         /\ self = 1 + handler[arc].asks
<1>1. arc \in Format /\ handler \in [Format -> Handler]
  BY DEF TypeOK
<1>2. handler[arc] \in Handler
  BY <1>1
<1>3. handler[arc].kept \in Nat /\ handler[arc].asks \in Nat
  BY <1>2, HandlerFields
<1>4. /\ refs = (IF pc = "gone" THEN 0 ELSE 1) + handler[arc].kept
      /\ self = 1 + handler[arc].asks
  BY DEF CountsMatchHolders
<1> QED
  BY <1>1, <1>2, <1>3, <1>4

LEMMA InitIInv == Init => IInv
<1> SUFFICES ASSUME Init PROVE IInv
  OBVIOUS
<1>1. TypeOK
  <2>1. handler \in [Format -> Handler]
    BY GoneIsHandler DEF Init
  <2>2. k \in 1..(NumFormats + 1)
    BY OpenArchiveAssumption DEF Init
  <2>3. accepts \subseteq Format /\ arc \in Format \cup {NoHandler}
    BY DEF Init
  <2>4. legible \in BOOLEAN /\ seekable \in BOOLEAN /\ err \in BOOLEAN
    BY DEF Init
  <2>5. refs \in Nat /\ self \in Nat /\ pos \in 0..1 /\ start \in 0..1
    BY DEF Init
  <2>6. pc = "seek"
    BY DEF Init
  <2> QED
    BY <2>1, <2>2, <2>3, <2>4, <2>5, <2>6 DEF TypeOK
<1>2. PhaseInv /\ RewoundInv
  BY DEF Init, PhaseInv, RewoundInv
<1>3. FirstFormatWins
  BY DEF Init, FirstFormatWins, Accepted
<1>4. CountsMatchHolders
  BY GoneIsHandler, OpenArchiveAssumption DEF Init, CountsMatchHolders, Format
<1> QED
  BY <1>1, <1>2, <1>3, <1>4 DEF IInv

\* Releasing _arc leaves no handler, and the stream and the archive with the
\* references of their owners only.
LEMMA OldReleasedClean ==
  ASSUME IInv, OldReleased
  PROVE  /\ handler' \in [Format -> Handler]
         /\ \A h \in Format : handler'[h] = Gone
         /\ refs' = IF pc = "gone" THEN 0 ELSE 1
         /\ self' = 1
<1>1. TypeOK /\ CountsMatchHolders
  BY DEF IInv
<1>2. CASE arc = NoHandler
  <2>1. UNCHANGED <<handler, refs, self>>
    BY <1>2 DEF OldReleased
  <2>2. handler \in [Format -> Handler] /\ \A h \in Format : handler[h] = Gone
    BY <1>1, <1>2, NotAFormat DEF TypeOK, CountsMatchHolders
  <2>3. refs = (IF pc = "gone" THEN 0 ELSE 1) + 0 /\ self = 1 + 0
    BY <1>1, <1>2 DEF CountsMatchHolders
  <2>4. refs = (IF pc = "gone" THEN 0 ELSE 1) /\ self = 1
    BY <2>3
  <2> QED
    BY <2>1, <2>2, <2>4
<1>3. CASE arc # NoHandler
  <2>1. /\ arc \in Format
        /\ handler' = [handler EXCEPT ![arc] = Gone]
        /\ refs' = refs - handler[arc].kept
        /\ self' = self - handler[arc].asks
    BY <1>1, <1>3 DEF OldReleased, Dies, TypeOK
  <2>2. /\ handler[arc].kept \in Nat /\ handler[arc].asks \in Nat
        /\ refs = (IF pc = "gone" THEN 0 ELSE 1) + handler[arc].kept
        /\ self = 1 + handler[arc].asks
    BY <1>1, <1>3, LiveHandler
  <2>4. /\ refs' = IF pc = "gone" THEN 0 ELSE 1
        /\ self' = 1
    BY <2>1, <2>2
  <2>5. handler' \in [Format -> Handler]
    BY <1>1, <2>1, GoneIsHandler DEF TypeOK
  <2>6. \A h \in Format : handler'[h] = Gone
    BY <1>1, <2>1 DEF TypeOK, CountsMatchHolders
  <2> QED
    BY <2>4, <2>5, <2>6
<1> QED
  BY <1>2, <1>3

\* The counts after a step that leaves no handler.
LEMMA CleanCounts ==
  ASSUME arc' = NoHandler, \A h \in Format : handler'[h] = Gone,
         refs' = IF pc' = "gone" THEN 0 ELSE 1, self' = 1
  PROVE  CountsMatchHolders'
<1>1. NoHandler \notin Format
  BY OpenArchiveAssumption DEF Format
<1> QED
  BY <1>1, GoneIsHandler DEF CountsMatchHolders

-----------------------------------------------------------------------------
(***************************************************************************)
(* The steps of the loop.                                                  *)
(***************************************************************************)
\* Steps that touch neither handlers nor counts.
LEMMA CountsUntouched ==
  ASSUME CountsMatchHolders, UNCHANGED <<arc, handler, refs, self>>,
         (pc' = "gone") <=> (pc = "gone")
  PROVE  CountsMatchHolders'
BY DEF CountsMatchHolders

LEMMA SeekKeepsIInv == ASSUME IInv, Seek PROVE IInv'
<1>1. TypeOK'
  BY DEF IInv, TypeOK, Seek, Rewound, archive
<1>2. PhaseInv' /\ RewoundInv'
  BY DEF IInv, PhaseInv, RewoundInv, Seek, Rewound, archive
<1>3. FirstFormatWins'
  BY DEF IInv, FirstFormatWins, Accepted, Seek, archive
<1>4. CountsMatchHolders'
  BY CountsUntouched DEF IInv, Seek
<1> QED
  BY <1>1, <1>2, <1>3, <1>4 DEF IInv

LEMMA ReleaseRefusedKeepsIInv == ASSUME IInv, ReleaseRefused PROVE IInv'
<1>1. /\ handler' \in [Format -> Handler]
      /\ \A h \in Format : handler'[h] = Gone
      /\ refs' = 1 /\ self' = 1
  BY OldReleasedClean DEF ReleaseRefused
<1>2. TypeOK'
  BY <1>1 DEF IInv, TypeOK, ReleaseRefused, archive
<1>3. PhaseInv' /\ RewoundInv'
  BY DEF IInv, PhaseInv, RewoundInv, ReleaseRefused, archive
<1>4. FirstFormatWins'
  BY DEF IInv, FirstFormatWins, Accepted, ReleaseRefused, archive
<1>5. CountsMatchHolders'
  BY <1>1, CleanCounts DEF ReleaseRefused
<1> QED
  BY <1>2, <1>3, <1>4, <1>5 DEF IInv

LEMMA OpenKeepsIInv == ASSUME IInv, Open PROVE IInv'
<1>2. /\ k \in Format /\ arc = NoHandler /\ NoHandler \notin Format
      /\ pc = "created" /\ pc' = "open" /\ arc' = k
      /\ handler' = [handler EXCEPT ![k] = Bare]
      /\ UNCHANGED <<accepts, legible, seekable, k, refs, self, pos, err>>
      /\ start' = pos
  BY OpenArchiveAssumption DEF IInv, PhaseInv, Open, Format, archive
<1>3. TypeOK'
  BY BareIsHandler, <1>2 DEF IInv, TypeOK
<1>4. PhaseInv' /\ RewoundInv'
  BY <1>2 DEF IInv, PhaseInv, RewoundInv, Format
<1>5. FirstFormatWins'
  BY <1>2 DEF IInv, FirstFormatWins, Accepted
<1>6. CountsMatchHolders'
  <2>1. handler'[k] = Bare /\ \A h \in Format : h # k => handler'[h] = handler[h]
    BY <1>2 DEF IInv, TypeOK
  <2>2. \A h \in Format : handler[h] = Gone
    BY <1>2 DEF IInv, CountsMatchHolders
  <2>3. refs = 1 /\ self = 1
    BY <1>2 DEF IInv, CountsMatchHolders
  <2>4. \A h \in Format : handler'[h].alive <=> h = k
    BY BareIsHandler, <2>1, <2>2, GoneIsHandler
  <2>5. k # NoHandler
    BY <1>2
  <2> QED
    BY BareIsHandler, <1>2, <2>1, <2>2, <2>3, <2>4, <2>5 DEF CountsMatchHolders
<1> QED
  BY <1>3, <1>4, <1>5, <1>6 DEF IInv

\* A handler takes one more reference to the stream or to the callback.
LEMMA HandlerKeepsStreamKeepsIInv == ASSUME IInv, HandlerKeepsStream PROVE IInv'
<1> DEFINE new == [handler[k] EXCEPT !.kept = @ + 1]
<1>1. /\ k \in Format /\ arc = k /\ pc = "open" /\ k # NoHandler
      /\ handler[k] \in Handler
  BY OpenArchiveAssumption DEF IInv, PhaseInv, TypeOK, HandlerKeepsStream, Format
<1>2. /\ new \in Handler /\ new.alive = handler[k].alive
      /\ new.kept = handler[k].kept + 1 /\ new.asks = handler[k].asks
  BY <1>1, TakesStream DEF HandlerKeepsStream
<1>3. /\ handler' = [handler EXCEPT ![k] = new] /\ refs' = refs + 1
      /\ UNCHANGED <<accepts, legible, seekable, pc, k, arc, self, pos, start, err>>
  BY DEF HandlerKeepsStream, archive
<1> HIDE DEF new
<1>4. TypeOK'
  <2>1. handler' \in [Format -> Handler]
    BY <1>2, <1>3 DEF IInv, TypeOK
  <2>2. refs' \in Nat
    <3>1. refs \in Nat
      BY DEF IInv, TypeOK
    <3>2. refs' = refs + 1
      BY DEF HandlerKeepsStream
    <3> QED
      BY <3>1, <3>2
  <2> QED
    BY <1>3, <2>1, <2>2 DEF IInv, TypeOK
<1>5. PhaseInv' /\ RewoundInv' /\ FirstFormatWins'
  BY <1>3 DEF IInv, PhaseInv, RewoundInv, FirstFormatWins, Accepted, Format
<1>6. CountsMatchHolders'
  <2>1. handler'[k] = new /\ \A h \in Format : h # k => handler'[h] = handler[h]
    BY <1>1, <1>3 DEF IInv, TypeOK
  <2>2. \A h \in Format : handler'[h].alive <=> h = arc'
    BY <1>1, <1>2, <1>3, <2>1 DEF IInv, CountsMatchHolders
  <2>3. refs = 1 + handler[k].kept /\ self = 1 + handler[k].asks
    BY <1>1 DEF IInv, CountsMatchHolders
  <2>4. handler[k].kept \in Nat
    BY <1>1, HandlerFields
  <2>5. refs' = 1 + new.kept /\ self' = 1 + new.asks
    BY <1>2, <1>3, <2>3, <2>4
  <2>6. \A h \in Format : h # arc' => handler'[h] = Gone
    BY <1>1, <1>3, <2>1 DEF IInv, CountsMatchHolders
  <2> QED
    BY <1>1, <1>3, <2>1, <2>2, <2>5, <2>6 DEF CountsMatchHolders
<1> QED
  BY <1>4, <1>5, <1>6 DEF IInv

LEMMA HandlerKeepsCallbackKeepsIInv == ASSUME IInv, HandlerKeepsCallback PROVE IInv'
<1> DEFINE new == [handler[k] EXCEPT !.asks = 1]
<1>1. /\ k \in Format /\ arc = k /\ pc = "open" /\ k # NoHandler
      /\ handler[k] \in Handler /\ handler[k].asks = 0
  BY OpenArchiveAssumption DEF IInv, PhaseInv, TypeOK, HandlerKeepsCallback, Format
<1>2. /\ new \in Handler /\ new.alive = handler[k].alive
      /\ new.kept = handler[k].kept /\ new.asks = 1
  BY <1>1, OpenArchiveAssumption DEF Handler
<1>3. /\ handler' = [handler EXCEPT ![k] = new] /\ self' = self + 1
      /\ UNCHANGED <<accepts, legible, seekable, pc, k, arc, refs, pos, start, err>>
  BY DEF HandlerKeepsCallback, archive
<1> HIDE DEF new
<1>4. TypeOK'
  <2>1. handler' \in [Format -> Handler]
    BY <1>2, <1>3 DEF IInv, TypeOK
  <2>2. self' \in Nat
    <3>1. self \in Nat
      BY DEF IInv, TypeOK
    <3>2. self' = self + 1
      BY DEF HandlerKeepsCallback
    <3> QED
      BY <3>1, <3>2
  <2> QED
    BY <1>3, <2>1, <2>2 DEF IInv, TypeOK
<1>5. PhaseInv' /\ RewoundInv' /\ FirstFormatWins'
  BY <1>3 DEF IInv, PhaseInv, RewoundInv, FirstFormatWins, Accepted, Format
<1>6. CountsMatchHolders'
  <2>1. handler'[k] = new /\ \A h \in Format : h # k => handler'[h] = handler[h]
    BY <1>1, <1>3 DEF IInv, TypeOK
  <2>2. \A h \in Format : handler'[h].alive <=> h = arc'
    BY <1>1, <1>2, <1>3, <2>1 DEF IInv, CountsMatchHolders
  <2>3. refs = 1 + handler[k].kept /\ self = 1 + handler[k].asks
    BY <1>1 DEF IInv, CountsMatchHolders
  <2>4. refs' = 1 + new.kept /\ self' = 1 + new.asks
    BY <1>1, <1>2, <1>3, <2>3
  <2>5. \A h \in Format : h # arc' => handler'[h] = Gone
    BY <1>1, <1>3, <2>1 DEF IInv, CountsMatchHolders
  <2> QED
    BY <1>1, <1>3, <2>1, <2>2, <2>4, <2>5 DEF CountsMatchHolders
<1> QED
  BY <1>4, <1>5, <1>6 DEF IInv

\* The handler accepts, refuses, reads, or 7-Zip's call throws.
LEMMA VerdictKeepsIInv ==
  ASSUME IInv, \/ HandlerReads \/ ReadFails \/ PasswordIllegible \/ Accept
               \/ Refuse \/ NoneAccepts \/ CreateFails \/ InitProps \/ Extract
  PROVE  IInv'
<1>1. UNCHANGED <<accepts, legible, seekable, arc, handler, refs, self, start>>
  BY DEF HandlerReads, ReadFails, PasswordIllegible, Accept, Refuse, NoneAccepts,
         CreateFails, InitProps, Extract, archive
<1>2. pc # "gone" /\ pc' # "gone"
  BY DEF HandlerReads, ReadFails, PasswordIllegible, Accept, Refuse, NoneAccepts,
         CreateFails, InitProps, Extract
<1>3. CountsMatchHolders'
  BY <1>1, <1>2, CountsUntouched DEF IInv
<1>4. k' \in 1..(NumFormats + 1) /\ err' \in BOOLEAN /\ pos' \in 0..1
  <2>1. k \in 1..(NumFormats + 1) /\ err \in BOOLEAN /\ pos \in 0..1
    BY DEF IInv, TypeOK
  <2>2. pc = "open" => k + 1 \in 1..(NumFormats + 1)
    BY OpenArchiveAssumption DEF IInv, PhaseInv, Format
  <2>3. k' = k \/ (pc = "open" /\ k' = k + 1)
    BY DEF HandlerReads, ReadFails, PasswordIllegible, Accept, Refuse, NoneAccepts,
           CreateFails, InitProps, Extract
  <2>4. err' = err \/ err' = TRUE
    BY DEF HandlerReads, ReadFails, PasswordIllegible, Accept, Refuse, NoneAccepts,
           CreateFails, InitProps, Extract
  <2>5. pos' = pos \/ pos' \in 0..1
    BY DEF HandlerReads, ReadFails, PasswordIllegible, Accept, Refuse, NoneAccepts,
           CreateFails, InitProps, Extract
  <2> QED
    BY <2>1, <2>2, <2>3, <2>4, <2>5
<1>5. pc' \in {"seek", "create", "created", "open", "props", "mounted",
               "release arc", "release stream", "gone", "terminated"}
  BY DEF HandlerReads, ReadFails, PasswordIllegible, Accept, Refuse, NoneAccepts,
         CreateFails, InitProps, Extract
<1>6. TypeOK'
  BY <1>1, <1>4, <1>5 DEF IInv, TypeOK
<1>7. PhaseInv'
  BY <1>1 DEF IInv, PhaseInv, Format, HandlerReads, ReadFails, PasswordIllegible,
         Accept, Refuse, NoneAccepts, CreateFails, InitProps, Extract
<1>8. RewoundInv'
  BY <1>1 DEF IInv, RewoundInv, HandlerReads, ReadFails, PasswordIllegible,
         Accept, Refuse, NoneAccepts, CreateFails, InitProps, Extract
<1>9. FirstFormatWins'
  <2> SUFFICES ASSUME seekable'
               PROVE  /\ Accepted' => k' \in accepts'
                      /\ ~err' => \A f \in 1..(k' - 1) : f \notin accepts'
    BY DEF FirstFormatWins
  <2>1. /\ seekable /\ (pc = "open" => start = 0)
        /\ Accepted => k \in accepts
        /\ ~err => \A f \in 1..(k - 1) : f \notin accepts
    BY <1>1 DEF IInv, RewoundInv, FirstFormatWins
  <2>2. k \in Int
    <3>1. k \in 1..(NumFormats + 1)
      BY DEF IInv, TypeOK
    <3> QED
      BY <3>1, OpenArchiveAssumption
  <2>3. CASE Refuse
    <3>1. k' = k + 1 /\ err' = err /\ pc' = "seek" /\ (k \in accepts => err)
      BY <2>1, <2>3 DEF Refuse
    <3>2. \A f \in 1..(k' - 1) : f \in 1..(k - 1) \/ f = k
      BY <2>2, <3>1
    <3> QED
      BY <1>1, <2>1, <3>1, <3>2 DEF Accepted
  <2>4. CASE Accept
    BY <1>1, <2>1, <2>4 DEF Accept, Accepted
  <2>5. CASE ~Refuse /\ ~Accept
    <3>1. k' = k /\ (err => err') /\ (Accepted' => Accepted)
      BY <2>5 DEF Accepted, HandlerReads, ReadFails, PasswordIllegible,
            NoneAccepts, CreateFails, InitProps, Extract, IInv, TypeOK
    <3> QED
      BY <1>1, <2>1, <3>1
  <2> QED
    BY <2>3, <2>4, <2>5
<1> QED
  BY <1>3, <1>6, <1>7, <1>8, <1>9 DEF IInv

-----------------------------------------------------------------------------
(***************************************************************************)
(* The end of the archive.                                                 *)
(***************************************************************************)
LEMMA CloseKeepsIInv == ASSUME IInv, Close PROVE IInv'
<1>1. /\ k \in Format /\ arc = k /\ pc = "mounted" /\ k # NoHandler
      /\ TypeOK /\ CountsMatchHolders
  BY NotAFormat DEF IInv, PhaseInv, Close
<1>2. /\ handler[k] \in Handler
      /\ handler[k].kept \in Nat /\ handler[k].asks \in Nat
      /\ refs = 1 + handler[k].kept /\ self = 1 + handler[k].asks
  BY <1>1, LiveHandler
<1>3. refs' = refs - handler[k].kept /\ self' = self - handler[k].asks
  BY <1>1 DEF Close
<1>4. refs' = 1 /\ self' = 1
  BY <1>2, <1>3
<1>5. /\ handler' = [handler EXCEPT ![k] = Bare] /\ pc' = "release arc"
      /\ UNCHANGED <<accepts, legible, seekable, k, arc, pos, start, err>>
  BY <1>1 DEF Close, archive
<1>6. TypeOK'
  <2>1. handler' \in [Format -> Handler] /\ refs' \in Nat /\ self' \in Nat
    BY <1>1, <1>4, <1>5, BareIsHandler DEF TypeOK
  <2> QED
    BY <1>1, <1>5, <2>1 DEF TypeOK
<1>7. PhaseInv' /\ RewoundInv' /\ FirstFormatWins'
  BY <1>5 DEF IInv, PhaseInv, RewoundInv, FirstFormatWins, Accepted, Format
<1>8. CountsMatchHolders'
  <2>1. handler'[k] = Bare /\ \A h \in Format : h # k => handler'[h] = handler[h]
    BY <1>1, <1>5 DEF TypeOK
  <2>2. \A h \in Format : handler'[h].alive <=> h = arc'
    BY <1>1, <1>5, BareIsHandler, <2>1 DEF CountsMatchHolders
  <2>3. \A h \in Format : h # arc' => handler'[h] = Gone
    BY <1>1, <1>5, <2>1 DEF CountsMatchHolders
  <2>4. /\ refs' = (IF pc' = "gone" THEN 0 ELSE 1)
                   + (IF arc' = NoHandler THEN 0 ELSE handler'[arc'].kept)
        /\ self' = 1 + (IF arc' = NoHandler THEN 0 ELSE handler'[arc'].asks)
    <3>1. pc' # "gone" /\ arc' # NoHandler /\ handler'[arc'] = Bare
      BY <1>1, <1>5, <2>1
    <3>2. 1 = 1 + Bare.kept /\ 1 = 1 + Bare.asks
      BY BareIsHandler
    <3> QED
      BY <1>4, <3>1, <3>2
  <2> QED
    BY <2>2, <2>3, <2>4 DEF CountsMatchHolders
<1> QED
  BY <1>7, <1>8, <1>6 DEF IInv

LEMMA ReleaseArcKeepsIInv == ASSUME IInv, ReleaseArc PROVE IInv'
<1>1. /\ handler' \in [Format -> Handler]
      /\ \A h \in Format : handler'[h] = Gone
      /\ refs' = 1 /\ self' = 1
  BY OldReleasedClean DEF ReleaseArc
<1>2. TypeOK'
  BY <1>1 DEF IInv, TypeOK, ReleaseArc, archive
<1>3. PhaseInv' /\ RewoundInv' /\ FirstFormatWins'
  BY DEF IInv, PhaseInv, RewoundInv, FirstFormatWins, Accepted, ReleaseArc, archive
<1>4. CountsMatchHolders'
  BY <1>1, CleanCounts DEF ReleaseArc
<1> QED
  BY <1>2, <1>3, <1>4 DEF IInv

LEMMA ReleaseStreamKeepsIInv == ASSUME IInv, ReleaseStream PROVE IInv'
<1>1. arc = NoHandler /\ TypeOK /\ CountsMatchHolders
  BY DEF IInv, PhaseInv, ReleaseStream
<1>2. \A h \in Format : handler[h] = Gone
  BY <1>1, NotAFormat DEF CountsMatchHolders
<1>3. refs = 1 + 0 /\ self = 1 + 0
  BY <1>1 DEF CountsMatchHolders, ReleaseStream
<1>4. /\ refs' = 0 /\ self' = 1 /\ pc' = "gone" /\ arc' = NoHandler
      /\ handler' = handler
      /\ UNCHANGED <<accepts, legible, seekable, k, pos, start, err>>
  <2>1. refs' = refs - 1
    BY DEF ReleaseStream
  <2>2. refs' = 0 /\ self = 1
    BY <1>3, <2>1
  <2> QED
    BY <1>1, <2>2 DEF ReleaseStream, archive
<1>5. TypeOK'
  BY <1>1, <1>4 DEF TypeOK
<1>6. PhaseInv' /\ RewoundInv' /\ FirstFormatWins'
  BY <1>4 DEF IInv, PhaseInv, RewoundInv, FirstFormatWins, Accepted
<1>7. CountsMatchHolders'
  BY <1>2, <1>4, CleanCounts
<1> QED
  BY <1>5, <1>6, <1>7 DEF IInv

LEMMA NextIInv == IInv /\ [Next]_vars => IInv'
<1> SUFFICES ASSUME IInv, [Next]_vars PROVE IInv'
  OBVIOUS
<1>1. CASE Seek
  BY <1>1, SeekKeepsIInv
<1>2. CASE ReleaseRefused
  BY <1>2, ReleaseRefusedKeepsIInv
<1>3. CASE Open
  BY <1>3, OpenKeepsIInv
<1>4. CASE HandlerKeepsStream
  BY <1>4, HandlerKeepsStreamKeepsIInv
<1>5. CASE HandlerKeepsCallback
  BY <1>5, HandlerKeepsCallbackKeepsIInv
<1>6. CASE \/ HandlerReads \/ ReadFails \/ PasswordIllegible \/ Accept
           \/ Refuse \/ NoneAccepts \/ CreateFails \/ InitProps \/ Extract
  BY <1>6, VerdictKeepsIInv
<1>7. CASE Close
  BY <1>7, CloseKeepsIInv
<1>8. CASE ReleaseArc
  BY <1>8, ReleaseArcKeepsIInv
<1>9. CASE ReleaseStream
  BY <1>9, ReleaseStreamKeepsIInv
<1>10. CASE UNCHANGED vars
  BY <1>10 DEF vars, IInv, TypeOK, PhaseInv, RewoundInv, FirstFormatWins, Accepted,
               CountsMatchHolders
<1> QED
  BY <1>1, <1>2, <1>3, <1>4, <1>5, <1>6, <1>7, <1>8, <1>9, <1>10 DEF Next

-----------------------------------------------------------------------------
(***************************************************************************)
(* Theorems.                                                               *)
(***************************************************************************)
\* IInv is inductive.
THEOREM Inductive == Spec => []IInv
BY InitIInv, NextIInv, PTL DEF Spec

\* The variables keep their types; the counts in particular never fall below 0.
THEOREM TypeCorrect == Spec => []TypeOK
<1>1. IInv => TypeOK
  BY DEF IInv
<1> QED
  BY <1>1, Inductive, PTL

\* open_archive's loop finds the first format that accepts the archive,
\* because it rewinds the shared stream before each one.
THEOREM FirstAcceptingFormat == Spec => []FirstFormatWins
<1>1. IInv => FirstFormatWins
  BY DEF IInv
<1> QED
  BY <1>1, Inductive, PTL

\* com::Object and UnknownImp balance on every way out of the constructor and
\* the destructor: no handler leaks, no stream dies under one.
THEOREM ReferencesBalance == Spec => []CountsMatchHolders
<1>1. IInv => CountsMatchHolders
  BY DEF IInv
<1> QED
  BY <1>1, Inductive, PTL
=============================================================================
