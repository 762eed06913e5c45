--------------------------- MODULE LifecycleProofs ---------------------------
(***************************************************************************)
(* Proofs about Lifecycle, for any number of signals: nothing is used      *)
(* after it is gone, an orderly end leaves nothing behind, and the shell   *)
(* is not told of a mount that is not there.                               *)
(***************************************************************************)
EXTENDS Lifecycle, SequenceTheorems, TLAPS

-----------------------------------------------------------------------------
(***************************************************************************)
(* The inductive invariant.  main's locals are at any time the first ones  *)
(* of one list, and how many there are follows from where main is.         *)
(***************************************************************************)
Codecs == IF rar THEN 1 ELSE 0

Nth(i) ==
  IF i = Codecs + 1 THEN "lib" ELSE IF i = Codecs + 2 THEN "fuse"
  ELSE IF i = Codecs + 3 THEN "arc" ELSE "codec"

LocalsInv ==
  /\ Len(locals) <= Codecs + 3
  /\ \A i \in 1..Len(locals) : locals[i] = Nth(i)

Executing == {"cache", "tree", "new", "mount", "daemonize", "handlers", "loop",
              "remove handlers", "unmount"}

PhaseInv ==
  /\ pc = "codec" => Len(locals) = 0
  /\ pc = "library" => Len(locals) = Codecs
  /\ pc = "arguments" => Len(locals) = Codecs + 1
  /\ pc = "archive" => Len(locals) = Codecs + 2
  /\ pc \in Executing => Len(locals) = Codecs + 3

\* The cache, the session and the mount point are there when they are used.
ServingInv ==
  /\ pc \in Executing \ {"cache"} => cache
  /\ pc \in {"daemonize", "handlers", "loop", "remove handlers", "unmount"} =>
       session = "made"
  /\ handlers /\ ~thrown =>
       pc \in {"loop", "remove handlers", "ended"} /\ session = "made"
  /\ pc = "daemonize" => mount = "mounted" \/ asked

\* What is done, step by step, once the loop has ended in order.
EndInv ==
  status = "loop" =>
    /\ pc \in {"remove handlers", "unmount", "unwind", "statics", "ended"}
    /\ pc # "remove handlers" => ~handlers
    /\ pc \in {"unwind", "statics", "ended"} => mount = "none"
    /\ pc = "unwind" =>
         session = IF Len(locals) >= Codecs + 2 THEN "made" ELSE "destroyed"
    /\ pc \in {"statics", "ended"} => locals = << >> /\ session = "destroyed"
    /\ pc = "ended" => ~cache

IInv == TypeOK /\ LocalsInv /\ PhaseInv /\ ServingInv /\ EndInv

-----------------------------------------------------------------------------
(***************************************************************************)
(* The list of locals.                                                     *)
(***************************************************************************)
\* How many locals there are, and the last of them.
LEMMA LocalsFacts ==
  ASSUME IInv
  PROVE  /\ Len(locals) \in 0..4 /\ Codecs \in 0..1
         /\ locals = << >> <=> Len(locals) = 0
         /\ locals # << >> => Last(locals) = Nth(Len(locals))
<1>1. locals \in Seq(Local) /\ Len(locals) <= 4
  BY DEF IInv, TypeOK
<1>2. Len(locals) \in Nat /\ (locals = << >> <=> Len(locals) = 0)
  BY <1>1, LenProperties, EmptySeq
<1>3. locals # << >> => Len(locals) \in 1..Len(locals)
  BY <1>2
<1>4. locals # << >> => Last(locals) = Nth(Len(locals))
  BY <1>3 DEF IInv, LocalsInv, Last
<1>5. Codecs \in 0..1
  BY DEF Codecs
<1>6. Len(locals) \in 0..4
  <2> DEFINE n == Len(locals)
  <2>1. n \in Nat /\ n <= 4
    BY <1>1, <1>2
  <2> HIDE DEF n
  <2>2. n \in 0..4
    BY <2>1
  <2> QED
    BY <2>2 DEF n
<1> QED
  BY <1>2, <1>4, <1>5, <1>6

LEMMA AppendKeepsLocals ==
  ASSUME IInv, NEW l \in Local, locals' = Append(locals, l), rar' = rar,
         Len(locals) < Codecs + 3, l = Nth(Len(locals) + 1)
  PROVE  /\ locals' \in Seq(Local) /\ Len(locals') = Len(locals) + 1
         /\ LocalsInv' /\ Codecs' = Codecs /\ locals' # << >>
<1>1. locals \in Seq(Local) /\ Len(locals) \in 0..4 /\ Codecs \in 0..1
  BY LocalsFacts DEF IInv, TypeOK
<1>2. /\ locals' \in Seq(Local) /\ Len(locals') = Len(locals) + 1
      /\ \A i \in 1..Len(locals) : locals'[i] = locals[i]
      /\ locals'[Len(locals) + 1] = l /\ locals' # << >>
  BY <1>1, AppendProperties
<1>3. Codecs' = Codecs /\ \A i : Nth(i)' = Nth(i)
  BY DEF Codecs, Nth
<1>4. Len(locals') <= Codecs' + 3
  BY <1>1, <1>2, <1>3
<1>5. ASSUME NEW i \in 1..Len(locals') PROVE locals'[i] = Nth(i)'
  <2>1. CASE i = Len(locals) + 1
    BY <1>2, <1>3, <2>1
  <2>2. CASE i # Len(locals) + 1
    <3>1. i \in 1..Len(locals)
      BY <1>1, <1>2, <2>2
    <3> QED
      BY <1>2, <1>3, <3>1 DEF IInv, LocalsInv
  <2> QED
    BY <2>1, <2>2
<1> QED
  BY <1>2, <1>3, <1>4, <1>5 DEF LocalsInv

LEMMA RemainingKeepsLocals ==
  ASSUME IInv, locals # << >>, locals' = Remaining, rar' = rar
  PROVE  /\ locals' \in Seq(Local) /\ Len(locals') = Len(locals) - 1
         /\ LocalsInv' /\ Codecs' = Codecs
<1> DEFINE n == Len(locals)
<1>1. locals \in Seq(Local) /\ n \in 1..4 /\ Codecs \in 0..1
  <2>1. n \in 0..4 /\ n # 0 /\ Codecs \in 0..1 /\ locals \in Seq(Local)
    BY LocalsFacts DEF IInv, TypeOK
  <2> HIDE DEF n
  <2> QED
    BY <2>1
<1>2. locals' = SubSeq(locals, 1, n - 1)
  BY DEF Remaining, Front
<1>3. \A i \in 1..(n - 1) : locals[i] \in Local
  BY <1>1, ElementOfSeq
<1>4. /\ locals' \in Seq(Local) /\ Len(locals') = n - 1
      /\ \A i \in 1..(n - 1) : locals'[i] = locals[i]
  <2>1. /\ SubSeq(locals, 1, n - 1) \in Seq(Local)
        /\ Len(SubSeq(locals, 1, n - 1)) = IF 1 <= n - 1 THEN n - 1 - 1 + 1 ELSE 0
        /\ \A i \in 1..(n - 1 - 1 + 1) : SubSeq(locals, 1, n - 1)[i] = locals[1 + i - 1]
    BY <1>1, <1>3, SubSeqProperties
  <2> HIDE DEF n
  <2> QED
    BY <1>1, <1>2, <2>1
<1>5. Codecs' = Codecs /\ \A i : Nth(i)' = Nth(i)
  BY DEF Codecs, Nth
<1>6. Len(locals') <= Codecs' + 3
  BY <1>1, <1>4, <1>5 DEF IInv, LocalsInv
<1>7. ASSUME NEW i \in 1..Len(locals') PROVE locals'[i] = Nth(i)'
  <2>1. i \in 1..(n - 1) /\ i \in 1..n
    BY <1>1, <1>4
  <2> QED
    BY <1>4, <1>5, <2>1 DEF IInv, LocalsInv
<1> QED
  BY <1>4, <1>5, <1>6, <1>7 DEF LocalsInv

\* The steps that leave main's locals alone.
LEMMA SameLocals ==
  ASSUME IInv, UNCHANGED <<locals, options>>
  PROVE  /\ locals' \in Seq(Local) /\ Len(locals') = Len(locals) /\ Len(locals') <= 4
         /\ LocalsInv' /\ Codecs' = Codecs
BY DEF IInv, TypeOK, LocalsInv, Codecs, Nth, options

-----------------------------------------------------------------------------
(***************************************************************************)
(* The steps.                                                              *)
(***************************************************************************)
LEMMA InitIInv == Init => IInv
<1> SUFFICES ASSUME Init PROVE IInv
  OBVIOUS
<1>1. locals \in Seq(Local) /\ Len(locals) = 0
  BY EmptySeq DEF Init
<1>2. TypeOK
  <2>1. 0 \in 0..MaxSignals /\ Len(locals) <= 4
    BY <1>1, LifecycleAssumption
  <2> QED
    BY <1>1, <2>1, Zenon DEF Init, TypeOK
<1>3. LocalsInv /\ PhaseInv
  BY <1>1 DEF Init, LocalsInv, PhaseInv, Executing, Codecs
<1>4. ServingInv /\ EndInv
  BY DEF Init, ServingInv, EndInv, Executing
<1> QED
  BY <1>2, <1>3, <1>4 DEF IInv

\* main completes a local.
LEMMA ConstructedKeepsIInv ==
  ASSUME IInv, NEW l \in Local, NEW next, Constructed(l, next),
         Len(locals) < Codecs + 3, l = Nth(Len(locals) + 1),
         \/ pc = "codec" /\ next = "library" /\ rar
         \/ pc = "library" /\ next = "arguments"
         \/ pc = "arguments" /\ next = "archive"
         \/ pc = "archive" /\ next = "cache"
  PROVE  IInv'
<1>1. /\ locals' = Append(locals, l) /\ pc' = next
      /\ UNCHANGED <<foreground, rar, cache, session, mount, handlers, status, told,
                     signals, asked, thrown>>
  BY DEF Constructed, options, outside, news
<1>2. /\ locals' \in Seq(Local) /\ Len(locals') = Len(locals) + 1
      /\ LocalsInv' /\ Codecs' = Codecs
  BY <1>1, AppendKeepsLocals
<1>3. Len(locals) \in 0..4 /\ Codecs \in 0..1
  BY LocalsFacts
<1>4. TypeOK'
  <2>1. Len(locals') <= 4
    BY <1>2, <1>3
  <2>2. pc' \in {"library", "arguments", "archive", "cache"}
    BY <1>1
  <2>3. TypeOK
    BY DEF IInv
  <2>4. /\ foreground' \in BOOLEAN /\ rar' \in BOOLEAN /\ cache' \in BOOLEAN
        /\ handlers' \in BOOLEAN /\ asked' \in BOOLEAN /\ thrown' \in BOOLEAN
    BY ONLY <1>1, <2>3, Zenon DEF TypeOK
  <2>5. /\ session' \in {"none", "made", "null", "destroyed"}
        /\ mount' \in {"none", "mounted", "stale"}
        /\ status' \in {"success", "failure", "loop", "killed"}
        /\ told' \in {"nothing", "success", "failure", "loop", "killed"}
        /\ signals' \in 0..MaxSignals
    BY ONLY <1>1, <2>3 DEF TypeOK
  <2> QED
    BY ONLY <1>2, <2>1, <2>2, <2>4, <2>5 DEF TypeOK
<1>5. PhaseInv'
  <2> DEFINE n == Len(locals)
             m == Len(locals')
  <2>1. /\ pc = "codec" => n = 0 /\ (rar => Codecs = 1)
        /\ pc = "library" => n = Codecs
        /\ pc = "arguments" => n = Codecs + 1
        /\ pc = "archive" => n = Codecs + 2
    BY DEF IInv, PhaseInv, Codecs
  <2>2. n \in Nat /\ Codecs \in Nat /\ m = n + 1
    BY <1>2, <1>3
  <2> HIDE DEF n, m
  <2>3. /\ pc' \in {"library", "arguments", "archive", "cache"}
        /\ pc' = "library" => m = Codecs
        /\ pc' = "arguments" => m = Codecs + 1
        /\ pc' = "archive" => m = Codecs + 2
        /\ pc' = "cache" => m = Codecs + 3
    BY <1>1, <2>1, <2>2
  <2> QED
    BY <1>2, <2>3 DEF PhaseInv, Executing, m
<1>6. ServingInv' /\ EndInv'
  BY <1>1 DEF IInv, ServingInv, EndInv, Executing
<1> QED
  BY <1>2, <1>4, <1>5, <1>6 DEF IInv

\* What TypeOK says of the variables that are not about the locals.
Flags ==
  /\ cache \in BOOLEAN /\ handlers \in BOOLEAN /\ asked \in BOOLEAN /\ thrown \in BOOLEAN

Names ==
  /\ pc \in {"codec", "library", "arguments", "archive", "cache", "tree", "new",
             "mount", "daemonize", "handlers", "loop", "remove handlers",
             "unmount", "unwind", "statics", "ended"}
  /\ session \in {"none", "made", "null", "destroyed"}
  /\ mount \in {"none", "mounted", "stale"}
  /\ status \in {"success", "failure", "loop", "killed"}
  /\ told \in {"nothing", "success", "failure", "loop", "killed"}
  /\ signals \in 0..MaxSignals

Others == Flags /\ Names

LEMMA TypeParts ==
  TypeOK <=> /\ foreground \in BOOLEAN /\ rar \in BOOLEAN
             /\ locals \in Seq(Local) /\ Len(locals) <= 4
             /\ Others
BY Zenon DEF TypeOK, Others, Flags, Names

\* A step that loses no local.
LEMMA QuietKeepsIInv ==
  ASSUME IInv, UNCHANGED <<locals, options>>,
         Others', ServingInv', EndInv',
         \/ pc' \in Executing /\ pc \in Executing
         \/ pc' = "library" /\ pc = "codec" /\ ~rar
         \/ pc' \in {"unwind", "statics", "ended"}
         \/ pc' = pc
  PROVE  IInv'
<1>1. /\ locals' \in Seq(Local) /\ Len(locals') = Len(locals) /\ Len(locals') <= 4
      /\ LocalsInv' /\ Codecs' = Codecs
  BY SameLocals
<1>2. TypeOK'
  <2>1. foreground' \in BOOLEAN /\ rar' \in BOOLEAN
    BY Zenon DEF IInv, TypeOK, options
  <2> QED
    BY <1>1, <2>1, Zenon DEF TypeOK, Others, Flags, Names
<1>3. PhaseInv'
  BY <1>1 DEF IInv, PhaseInv, Executing, Codecs, Others
<1> QED
  BY <1>1, <1>2, <1>3 DEF IInv

\* The ways to end before the loop has.
LEMMA ThrowsKeepsIInv ==
  ASSUME IInv, Throws, thrown' \in BOOLEAN,
         thrown' \/ ~handlers \/ (thrown /\ thrown' = thrown)
  PROVE  IInv'
<1>1. /\ pc' = "unwind" /\ status' = "failure"
      /\ UNCHANGED <<locals, options>>
      /\ UNCHANGED <<cache, session, mount, handlers, told, signals, asked>>
  BY DEF Throws, outside, news
<1>2. Others'
  <2>1. Flags'
    BY <1>1, TypeParts, Zenon DEF IInv, Others, Flags
  <2>2. Names'
    BY <1>1, TypeParts DEF IInv, Others, Names
  <2> QED
    BY <2>1, <2>2 DEF Others
<1>3. ServingInv' /\ EndInv'
  BY <1>1 DEF ServingInv, EndInv, Executing
<1> QED
  BY <1>1, <1>2, <1>3, QuietKeepsIInv

LEMMA ExitsKeepsIInv ==
  ASSUME IInv, NEW r \in {"success", "failure"}, Exits(r), thrown \/ ~handlers
  PROVE  IInv'
<1>1. /\ pc' = "statics" /\ status' = r
      /\ UNCHANGED <<locals, options>>
      /\ UNCHANGED <<cache, session, mount, handlers, told, signals, asked, thrown>>
  BY DEF Exits, outside, news
<1>2. Others'
  <2>1. Flags'
    BY <1>1, TypeParts, Zenon DEF IInv, Others, Flags
  <2>2. Names'
    BY <1>1, TypeParts DEF IInv, Others, Names
  <2> QED
    BY <2>1, <2>2 DEF Others
<1>3. ServingInv' /\ EndInv'
  BY <1>1 DEF ServingInv, EndInv, Executing
<1> QED
  BY <1>1, <1>2, <1>3, QuietKeepsIInv

LEMMA DiesKeepsIInv ==
  ASSUME IInv, Dies, signals' \in 0..MaxSignals
  PROVE  IInv'
<1>1. /\ pc' = "ended" /\ status' = "killed" /\ mount' = Abandoned /\ told' = Seen("killed")
      /\ UNCHANGED <<locals, options>>
      /\ UNCHANGED <<cache, session, handlers, asked, thrown>>
  BY DEF Dies
<1>2. Others'
  <2>1. Flags'
    BY <1>1, TypeParts, Zenon DEF IInv, Others, Flags, Abandoned, Seen
  <2>2. Names'
    BY <1>1, TypeParts DEF IInv, Others, Names, Abandoned, Seen
  <2> QED
    BY <2>1, <2>2 DEF Others
<1>3. ServingInv' /\ EndInv'
  BY <1>1 DEF IInv, ServingInv, EndInv, Executing
<1> QED
  BY <1>1, <1>2, <1>3, QuietKeepsIInv

\* The steps that go on with what main has.
LEMMA GoesOnKeepsIInv ==
  ASSUME IInv,
         \/ (LoadCodec /\ ~rar) \/ MakeCache \/ BuildTree \/ FuseNew \/ FuseMount
         \/ Daemonize \/ SetSignalHandlers
         \/ LeaveLoop \/ RemoveSignalHandlers \/ FuseUnmount
         \/ Return \/ DestroyStatics
  PROVE  IInv'
<1> USE DEF GoesOn, options, outside, news
<1>1. CASE LoadCodec /\ ~rar
  <2>1. Others' /\ UNCHANGED <<locals, options>>
    <3>1. Flags' /\ UNCHANGED <<locals, options>>
      BY <1>1, TypeParts, Zenon DEF IInv, Others, Flags, LoadCodec
    <3>2. Names'
      BY <1>1, TypeParts DEF IInv, Others, Names, LoadCodec
    <3> QED
      BY <3>1, <3>2 DEF Others
  <2>2. ServingInv' /\ EndInv'
    <3>1. /\ pc = "codec" /\ pc' = "library"
          /\ UNCHANGED <<cache, session, mount, handlers, status, asked, thrown>>
      BY <1>1, Zenon DEF LoadCodec
    <3> QED
      BY <3>1 DEF IInv, ServingInv, EndInv, Executing
  <2> QED
    BY <1>1, <2>1, <2>2, QuietKeepsIInv DEF LoadCodec
<1>2. CASE MakeCache
  <2>1. Others' /\ UNCHANGED <<locals, options>>
    <3>1. Flags' /\ UNCHANGED <<locals, options>>
      BY <1>2, TypeParts, Zenon DEF IInv, Others, Flags, MakeCache
    <3>2. Names'
      BY <1>2, TypeParts DEF IInv, Others, Names, MakeCache
    <3> QED
      BY <3>1, <3>2 DEF Others
  <2>2. ServingInv' /\ EndInv'
    BY <1>2 DEF IInv, MakeCache, ServingInv, EndInv, Executing
  <2> QED
    BY <1>2, <2>1, <2>2, QuietKeepsIInv DEF MakeCache, Executing
<1>3. CASE BuildTree
  <2>1. Others' /\ UNCHANGED <<locals, options>>
    <3>1. Flags' /\ UNCHANGED <<locals, options>>
      BY <1>3, TypeParts, Zenon DEF IInv, Others, Flags, BuildTree
    <3>2. Names'
      BY <1>3, TypeParts DEF IInv, Others, Names, BuildTree
    <3> QED
      BY <3>1, <3>2 DEF Others
  <2>2. ServingInv' /\ EndInv'
    BY <1>3 DEF IInv, BuildTree, ServingInv, EndInv, Executing
  <2> QED
    BY <1>3, <2>1, <2>2, QuietKeepsIInv DEF BuildTree, Executing
<1>4. CASE FuseNew
  <2>1. Others' /\ UNCHANGED <<locals, options>>
    <3>1. Flags' /\ UNCHANGED <<locals, options>>
      BY <1>4, TypeParts, Zenon DEF IInv, Others, Flags, FuseNew
    <3>2. Names'
      BY <1>4, TypeParts DEF IInv, Others, Names, FuseNew
    <3> QED
      BY <3>1, <3>2 DEF Others
  <2>2. ServingInv' /\ EndInv'
    BY <1>4 DEF IInv, FuseNew, ServingInv, EndInv, Executing
  <2> QED
    BY <1>4, <2>1, <2>2, QuietKeepsIInv DEF FuseNew, Executing
<1>5. CASE FuseMount
  <2>1. Others' /\ UNCHANGED <<locals, options>>
    <3>1. Flags' /\ UNCHANGED <<locals, options>>
      BY <1>5, TypeParts, Zenon DEF IInv, Others, Flags, FuseMount
    <3>2. Names'
      BY <1>5, TypeParts DEF IInv, Others, Names, FuseMount
    <3> QED
      BY <3>1, <3>2 DEF Others
  <2>2. ServingInv' /\ EndInv'
    BY <1>5 DEF IInv, FuseMount, ServingInv, EndInv, Executing
  <2> QED
    BY <1>5, <2>1, <2>2, QuietKeepsIInv DEF FuseMount, Executing
<1>6. CASE Daemonize
  <2>1. Others' /\ UNCHANGED <<locals, options>>
    <3>1. Flags' /\ UNCHANGED <<locals, options>>
      BY <1>6, TypeParts, Zenon DEF IInv, Others, Flags, Daemonize, Seen
    <3>2. Names'
      BY <1>6, TypeParts DEF IInv, Others, Names, Daemonize, Seen
    <3> QED
      BY <3>1, <3>2 DEF Others
  <2>2. ServingInv' /\ EndInv'
    BY <1>6 DEF IInv, Daemonize, ServingInv, EndInv, Executing
  <2> QED
    BY <1>6, <2>1, <2>2, QuietKeepsIInv DEF Daemonize, Executing
<1>7. CASE SetSignalHandlers
  <2>1. Others' /\ UNCHANGED <<locals, options>>
    <3>1. Flags' /\ UNCHANGED <<locals, options>>
      BY <1>7, TypeParts, Zenon DEF IInv, Others, Flags, SetSignalHandlers
    <3>2. Names'
      BY <1>7, TypeParts DEF IInv, Others, Names, SetSignalHandlers
    <3> QED
      BY <3>1, <3>2 DEF Others
  <2>2. ServingInv' /\ EndInv'
    BY <1>7 DEF IInv, SetSignalHandlers, ServingInv, EndInv, Executing
  <2> QED
    BY <1>7, <2>1, <2>2, QuietKeepsIInv DEF SetSignalHandlers, Executing
<1>8. CASE LeaveLoop
  <2>1. Others' /\ UNCHANGED <<locals, options>>
    <3>1. Flags' /\ UNCHANGED <<locals, options>>
      BY <1>8, TypeParts, Zenon DEF IInv, Others, Flags, LeaveLoop
    <3>2. Names'
      BY <1>8, TypeParts DEF IInv, Others, Names, LeaveLoop
    <3> QED
      BY <3>1, <3>2 DEF Others
  <2>2. ServingInv' /\ EndInv'
    BY <1>8 DEF IInv, LeaveLoop, ServingInv, EndInv, Executing
  <2> QED
    BY <1>8, <2>1, <2>2, QuietKeepsIInv DEF LeaveLoop, Executing
<1>9. CASE RemoveSignalHandlers
  <2>1. Others' /\ UNCHANGED <<locals, options>>
    <3>1. Flags' /\ UNCHANGED <<locals, options>>
      BY <1>9, TypeParts, Zenon DEF IInv, Others, Flags, RemoveSignalHandlers
    <3>2. Names'
      BY <1>9, TypeParts DEF IInv, Others, Names, RemoveSignalHandlers
    <3> QED
      BY <3>1, <3>2 DEF Others
  <2>2. ServingInv' /\ EndInv'
    BY <1>9 DEF IInv, RemoveSignalHandlers, ServingInv, EndInv, Executing
  <2> QED
    BY <1>9, <2>1, <2>2, QuietKeepsIInv DEF RemoveSignalHandlers, Executing
<1>10. CASE FuseUnmount
  <2>1. Others' /\ UNCHANGED <<locals, options>>
    <3>1. Flags' /\ UNCHANGED <<locals, options>>
      BY <1>10, TypeParts, Zenon DEF IInv, Others, Flags, FuseUnmount
    <3>2. Names'
      BY <1>10, TypeParts DEF IInv, Others, Names, FuseUnmount
    <3> QED
      BY <3>1, <3>2 DEF Others
  <2>2. Len(locals') = Codecs' + 3 /\ Codecs' \in 0..1
    BY <1>10, LocalsFacts, SameLocals DEF FuseUnmount, IInv, PhaseInv, Executing
  <2>3. ServingInv'
    BY <1>10 DEF IInv, FuseUnmount, ServingInv, Executing
  <2>4. Len(locals') >= Codecs' + 2
    <3> DEFINE n == Len(locals')
               c == Codecs'
    <3>1. n = c + 3 /\ c \in 0..1
      BY <2>2
    <3> HIDE DEF n, c
    <3>2. n >= c + 2
      BY <3>1
    <3> QED
      BY <3>2 DEF n, c
  <2>5. EndInv'
    BY <1>10, <2>4 DEF IInv, FuseUnmount, ServingInv, EndInv, Executing
  <2> QED
    BY <1>10, <2>1, <2>3, <2>5, QuietKeepsIInv DEF FuseUnmount, Executing
<1>11. CASE Return
  <2>1. Others' /\ UNCHANGED <<locals, options>>
    <3>1. Flags' /\ UNCHANGED <<locals, options>>
      BY <1>11, TypeParts, Zenon DEF IInv, Others, Flags, Return
    <3>2. Names'
      BY <1>11, TypeParts DEF IInv, Others, Names, Return
    <3> QED
      BY <3>1, <3>2 DEF Others
  <2>2. ~(Len(locals) >= Codecs + 2)
    BY <1>11, LocalsFacts DEF Return
  <2>3. ServingInv'
    BY <1>11 DEF IInv, Return, ServingInv, Executing
  <2>4. EndInv'
    BY <1>11, <2>2 DEF IInv, Return, EndInv
  <2> QED
    BY <1>11, <2>1, <2>3, <2>4, QuietKeepsIInv DEF Return, Executing
<1>12. CASE DestroyStatics
  <2>1. Others' /\ UNCHANGED <<locals, options>>
    <3>1. Flags' /\ UNCHANGED <<locals, options>>
      BY <1>12, TypeParts, Zenon DEF IInv, Others, Flags, DestroyStatics, Abandoned, Seen
    <3>2. Names'
      BY <1>12, TypeParts DEF IInv, Others, Names, DestroyStatics, Abandoned, Seen
    <3> QED
      BY <3>1, <3>2 DEF Others
  <2>2. ServingInv' /\ EndInv'
    BY <1>12 DEF IInv, DestroyStatics, ServingInv, EndInv, Executing, Abandoned
  <2> QED
    BY <1>12, <2>1, <2>2, QuietKeepsIInv DEF DestroyStatics, Executing
<1> QED
  BY <1>1, <1>2, <1>3, <1>4, <1>5, <1>6, <1>7, <1>8, <1>9, <1>10, <1>11, <1>12

LEMMA ConstructorsKeepIInv ==
  ASSUME IInv, (LoadCodec /\ rar) \/ LoadLibrary \/ ParseArguments \/ OpenArchive
  PROVE  IInv'
<1> DEFINE n == Len(locals)
<1>1. /\ n \in 0..4 /\ Codecs \in 0..1 /\ (rar => Codecs = 1)
      /\ pc = "codec" => n = 0
      /\ pc = "library" => n = Codecs
      /\ pc = "arguments" => n = Codecs + 1
      /\ pc = "archive" => n = Codecs + 2
  BY LocalsFacts DEF IInv, PhaseInv, Codecs
<1>2. {"codec", "lib", "fuse", "arc"} = Local
  BY DEF Local
<1> HIDE DEF n
<1>3. CASE LoadCodec /\ rar
  <2>1. pc = "codec" /\ Constructed("codec", "library")
    BY <1>3, Zenon DEF LoadCodec
  <2>2. n < Codecs + 3 /\ "codec" = Nth(n + 1)
    BY <1>1, <1>3, <2>1 DEF Nth
  <2> QED
    BY <1>2, <1>3, <2>1, <2>2, ConstructedKeepsIInv DEF n
<1>4. CASE LoadLibrary
  <2>1. n < Codecs + 3 /\ "lib" = Nth(n + 1)
    BY <1>1, <1>4 DEF Nth, LoadLibrary
  <2> QED
    BY <1>2, <1>4, <2>1, ConstructedKeepsIInv DEF n, LoadLibrary
<1>5. CASE ParseArguments
  <2>1. n < Codecs + 3 /\ "fuse" = Nth(n + 1)
    BY <1>1, <1>5 DEF Nth, ParseArguments
  <2> QED
    BY <1>2, <1>5, <2>1, ConstructedKeepsIInv DEF n, ParseArguments
<1>6. CASE OpenArchive
  <2>1. n < Codecs + 3 /\ "arc" = Nth(n + 1)
    BY <1>1, <1>6 DEF Nth, OpenArchive
  <2> QED
    BY <1>2, <1>6, <2>1, ConstructedKeepsIInv DEF n, OpenArchive
<1> QED
  BY <1>3, <1>4, <1>5, <1>6

\* The process is asked to end, or loses its mount point.
LEMMA SameLocalsEnd ==
  ASSUME IInv, asked', mount' \in {mount, "none"}, UNCHANGED <<locals, options>>,
         UNCHANGED <<pc, cache, session, handlers, status, thrown>>
  PROVE  ServingInv' /\ EndInv'
<1>1. Len(locals') = Len(locals) /\ Codecs' = Codecs
  BY SameLocals
<1>2. ServingInv'
  BY DEF IInv, ServingInv, Executing
<1>3. EndInv'
  BY <1>1 DEF IInv, EndInv
<1> QED
  BY <1>2, <1>3

LEMMA FailuresKeepIInv ==
  ASSUME IInv, Failure \/ MountNothing \/ Unmounted \/ Signal
  PROVE  IInv'
<1>1. thrown \in BOOLEAN /\ signals \in 0..MaxSignals
  BY Zenon DEF IInv, TypeOK
<1>2. pc \notin {"loop", "remove handlers", "ended"} => thrown \/ ~handlers
  BY DEF IInv, ServingInv
<1>3. CASE StartFails
  BY <1>1, <1>2, <1>3, ThrowsKeepsIInv DEF StartFails
<1>4. CASE BuildTreeFails
  BY <1>1, <1>2, <1>4, ThrowsKeepsIInv DEF BuildTreeFails
<1>5. CASE CallbackThrows
  BY <1>5, ThrowsKeepsIInv DEF CallbackThrows
<1>6. CASE ShowUsage
  BY <1>2, <1>6, ExitsKeepsIInv DEF ShowUsage
<1>7. CASE ExecuteFails
  BY <1>2, <1>7, ExitsKeepsIInv DEF ExecuteFails
<1>8. CASE MountNothing
  BY <1>1, <1>8, DiesKeepsIInv DEF MountNothing
<1>9. CASE Terminate
  BY <1>1, <1>9, DiesKeepsIInv DEF Terminate
<1>10. CASE Unmounted
  <2>1. /\ mount' = "none" /\ asked' = TRUE /\ UNCHANGED <<locals, options>>
        /\ UNCHANGED <<pc, cache, session, handlers, status, told, signals, thrown>>
    BY <1>10 DEF Unmounted, GoesOn
  <2>2. Others'
    <3>1. Flags'
      BY <2>1, TypeParts, Zenon DEF IInv, Others, Flags
    <3>2. Names'
      BY <2>1, TypeParts DEF IInv, Others, Names
    <3> QED
      BY <3>1, <3>2 DEF Others
  <2> QED
    BY <2>1, <2>2, SameLocalsEnd, QuietKeepsIInv
<1>11. CASE Signal
  <2>1. signals' \in 0..MaxSignals
    BY <1>1, <1>11, LifecycleAssumption DEF Signal
  <2>2. CASE ~handlers /\ Dies
    BY <2>1, <2>2, DiesKeepsIInv
  <2>3. CASE handlers /\ asked' = TRUE /\ GoesOn(pc) /\ UNCHANGED <<outside, told>>
    <3>1. /\ asked' = TRUE /\ UNCHANGED <<locals, options>>
          /\ UNCHANGED <<pc, cache, session, mount, handlers, status, told, thrown>>
      BY <2>3 DEF GoesOn, outside
    <3>2. Others'
      <4>1. Flags'
        BY <2>1, <3>1, TypeParts, Zenon DEF IInv, Others, Flags
      <4>2. Names'
        BY <2>1, <3>1, TypeParts, ZenonT(40) DEF IInv, Others, Names
      <4> QED
        BY <4>1, <4>2 DEF Others
    <3> QED
      BY <3>1, <3>2, SameLocalsEnd, QuietKeepsIInv
  <2> QED
    BY <1>11, <2>2, <2>3 DEF Signal
<1>12. CASE LoopFails
  BY <1>12, GoesOnKeepsIInv DEF LoopFails
<1> QED
  BY <1>3, <1>4, <1>5, <1>6, <1>7, <1>8, <1>9, <1>10, <1>11, <1>12 DEF Failure

LEMMA UnwindKeepsIInv ==
  ASSUME IInv, Unwind
  PROVE  IInv'
<1>1. /\ pc = "unwind" /\ locals # << >> /\ locals' = Remaining
      /\ UNCHANGED <<foreground, rar, pc, cache, handlers, status, told, signals,
                     asked, thrown>>
  BY DEF Unwind, options, news
<1>2. \/ Last(locals) = "fuse" /\ session = "made" /\ session' = "destroyed" /\ mount' = Abandoned
      \/ ~(Last(locals) = "fuse" /\ session = "made") /\ UNCHANGED <<session, mount>>
  BY DEF Unwind
<1>3. /\ locals' \in Seq(Local) /\ Len(locals') = Len(locals) - 1
      /\ LocalsInv' /\ Codecs' = Codecs
  BY <1>1, RemainingKeepsLocals
<1> DEFINE n == Len(locals)
<1>4. /\ n \in 1..4 /\ Codecs \in 0..1
      /\ Last(locals) = Nth(n)
  <2>1. n \in 0..4 /\ n # 0 /\ Codecs \in 0..1 /\ Last(locals) = Nth(n)
    BY <1>1, LocalsFacts
  <2> HIDE DEF n
  <2> QED
    BY <2>1
<1> HIDE DEF n
<1>5. TypeOK'
  <2>1. /\ foreground' \in BOOLEAN /\ rar' \in BOOLEAN
    BY <1>1, Zenon DEF IInv, TypeOK
  <2>2. Others'
    <3>1. Flags'
      BY <1>1, <1>2, TypeParts, Zenon DEF IInv, Others, Flags
    <3>2. Names'
      BY <1>1, <1>2, TypeParts DEF IInv, Others, Names, Abandoned
    <3> QED
      BY <3>1, <3>2 DEF Others
  <2>3. n - 1 <= 4
    BY <1>4
  <2> QED
    BY <1>3, <2>1, <2>2, <2>3, TypeParts, Zenon DEF TypeOK, Others, Flags, Names, n
<1>6. PhaseInv'
  BY <1>1 DEF PhaseInv, Executing
<1>7. ServingInv'
  BY <1>1 DEF IInv, ServingInv, Executing
<1>8. EndInv'
  <2> SUFFICES ASSUME status = "loop" PROVE EndInv'
    BY <1>1 DEF EndInv
  <2>1. /\ ~handlers /\ mount = "none"
        /\ session = IF n >= Codecs + 2 THEN "made" ELSE "destroyed"
    BY <1>1 DEF IInv, EndInv, n
  <2>2. Last(locals) = "fuse" <=> n = Codecs + 2
    BY <1>4 DEF Nth
  <2>3. session' = IF n - 1 >= Codecs + 2 THEN "made" ELSE "destroyed"
    BY <1>2, <1>4, <2>1, <2>2
  <2>4. mount' = "none"
    BY <1>2, <2>1 DEF Abandoned
  <2> QED
    BY <1>1, <1>3, <2>1, <2>3, <2>4 DEF EndInv, n
<1> QED
  BY <1>3, <1>5, <1>6, <1>7, <1>8 DEF IInv

LEMMA NextIInv == IInv /\ [Next]_vars => IInv'
<1> SUFFICES ASSUME IInv, [Next]_vars PROVE IInv'
  OBVIOUS
<1>1. CASE Step
  <2>1. CASE LoadCodec
    BY <2>1, ConstructorsKeepIInv, GoesOnKeepsIInv DEF LoadCodec
  <2>2. CASE LoadLibrary \/ ParseArguments \/ OpenArchive
    BY <2>2, ConstructorsKeepIInv
  <2>3. CASE MountNothing
    BY <2>3, FailuresKeepIInv
  <2>4. CASE Unwind
    BY <2>4, UnwindKeepsIInv
  <2>5. CASE \/ MakeCache \/ BuildTree \/ FuseNew \/ FuseMount
             \/ Daemonize \/ SetSignalHandlers
             \/ LoopEnds \/ RemoveSignalHandlers \/ FuseUnmount
             \/ Return \/ DestroyStatics
    BY <2>5, GoesOnKeepsIInv DEF LoopEnds
  <2> QED
    BY <1>1, <2>1, <2>2, <2>3, <2>4, <2>5 DEF Step
<1>2. CASE Failure \/ Unmounted \/ Signal
  BY <1>2, FailuresKeepIInv
<1>3. CASE UNCHANGED vars
  <2>1. /\ UNCHANGED <<locals, options>>
        /\ UNCHANGED <<pc, cache, session, mount, handlers, status, told, signals,
                       asked, thrown>>
    BY <1>3 DEF vars, options
  <2>2. Others'
    <3>1. Flags'
      BY <2>1, TypeParts, Zenon DEF IInv, Others, Flags
    <3>2. Names'
      BY <2>1, TypeParts, ZenonT(40) DEF IInv, Others, Names
    <3> QED
      BY <3>1, <3>2 DEF Others
  <2>3. Len(locals') = Len(locals) /\ Codecs' = Codecs
    BY <2>1, SameLocals
  <2>4. ServingInv'
    BY <2>1 DEF IInv, ServingInv, Executing
  <2>5. EndInv'
    BY <2>1, <2>3 DEF IInv, EndInv
  <2> QED
    BY <2>1, <2>2, <2>4, <2>5, QuietKeepsIInv
<1> QED
  BY <1>1, <1>2, <1>3 DEF Next

-----------------------------------------------------------------------------
(***************************************************************************)
(* The theorems.                                                           *)
(***************************************************************************)
LEMMA Invariance == Spec => []IInv
<1>1. Init => IInv
  BY InitIInv
<1>2. IInv /\ [Next]_vars => IInv'
  BY NextIInv
<1> QED
  BY <1>1, <1>2, PTL DEF Spec

\* The types, and main's locals are never more than four.
THEOREM TypeCorrect == Spec => []TypeOK
<1>1. IInv => TypeOK
  BY DEF IInv
<1> QED
  BY <1>1, Invariance, PTL

\* Whatever step of main or execute fails: an archive never outlives the
\* library and the session it uses, the library never outlives the codec, and
\* libfuse calls back only while the tree, the archive and the session exist.
THEOREM NoDangling == Spec => []NothingDangles
<1>1. IInv => NothingDangles
  <2> SUFFICES ASSUME IInv PROVE NothingDangles
    OBVIOUS
  <2> DEFINE n == Len(locals)
  <2>1. n \in 0..4 /\ Codecs \in 0..1 /\ locals \in Seq(Local)
    BY LocalsFacts DEF IInv, TypeOK
  <2>2. \A i \in 1..n : locals[i] = Nth(i)
    BY DEF IInv, LocalsInv
  <2>3. \A x : x \in ToSet(locals) <=> \E i \in 1..n : x = Nth(i)
    <3>1. ToSet(locals) = {locals[i] : i \in 1..n}
      BY <2>1, LenProperties DEF ToSet
    <3> QED
      BY <2>2, <3>1
  <2>4. n <= Codecs + 3 /\ (rar => Codecs = 1) /\ (~rar => Codecs = 0)
    BY DEF IInv, LocalsInv, Codecs
  <2>5. pc = "loop" => n = Codecs + 3
    BY DEF IInv, PhaseInv, Executing
  <2> HIDE DEF n
  <2>6. \A i \in 1..n : /\ Nth(i) = "lib" <=> i = Codecs + 1
                        /\ Nth(i) = "fuse" <=> i = Codecs + 2
                        /\ Nth(i) = "arc" <=> i = Codecs + 3
                        /\ rar => Nth(1) = "codec"
    BY <2>1, <2>4 DEF Nth
  <2>7. "arc" \in ToSet(locals) <=> n = Codecs + 3
    BY <2>1, <2>3, <2>4, <2>6
  <2>8. "fuse" \in ToSet(locals) <=> n >= Codecs + 2
    BY <2>1, <2>3, <2>4, <2>6
  <2>9. "lib" \in ToSet(locals) <=> n >= Codecs + 1
    BY <2>1, <2>3, <2>4, <2>6
  <2>10. "lib" \in ToSet(locals) /\ rar => "codec" \in ToSet(locals)
    BY <2>1, <2>3, <2>4, <2>6, <2>9
  <2>11. pc = "loop" => cache /\ session = "made"
    BY DEF IInv, ServingInv, Executing
  <2>12. handlers /\ ~thrown => session = "made"
    BY DEF IInv, ServingInv
  <2> QED
    BY <2>1, <2>5, <2>7, <2>8, <2>9, <2>10, <2>11, <2>12 DEF NothingDangles
<1> QED
  BY <1>1, Invariance, PTL

\* A loop that ended in order and no second signal: the mount point, the
\* session, the handlers, the locals and the cache are all given back.
THEOREM CleanEnd == Spec => []StopCleansUp
<1>1. IInv => StopCleansUp
  BY DEF IInv, EndInv, StopCleansUp
<1> QED
  BY <1>1, Invariance, PTL

\* The shell's prompt comes back with success only if the file system is
\* mounted, or somebody has already unmounted it again.
THEOREM SuccessIsMounted == Spec => SuccessMeansMounted
<1> DEFINE A == told = "nothing" /\ told' = "success" /\ pc' # "ended"
                  => mount' = "mounted" \/ asked
<1>1. IInv /\ [Next]_vars => [A]_vars
  <2> SUFFICES ASSUME IInv, Next, told # told', told' = "success", pc' # "ended"
               PROVE  mount' = "mounted" \/ asked
    BY DEF vars
  <2>1. Daemonize
    BY DEF Next, Step, Failure, LoadCodec, LoadLibrary, ParseArguments, OpenArchive,
           MakeCache, BuildTree, FuseNew, FuseMount, MountNothing, SetSignalHandlers,
           LoopEnds, LoopFails, LeaveLoop, RemoveSignalHandlers, FuseUnmount,
           Unwind, Return, DestroyStatics,
           ShowUsage, StartFails, BuildTreeFails, ExecuteFails, CallbackThrows,
           Terminate, Unmounted, Signal, Constructed, Throws, Exits, Dies, news
  <2>2. mount' = mount /\ (mount = "mounted" \/ asked)
    BY <2>1 DEF Daemonize, outside, IInv, ServingInv
  <2> QED
    BY <2>2
<1> QED
  BY <1>1, Invariance, PTL DEF Spec, SuccessMeansMounted
=============================================================================
