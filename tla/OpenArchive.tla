----------------------------- MODULE OpenArchive -----------------------------
(***************************************************************************)
(* An archive's life in the process: ImplArchive's constructor tries the   *)
(* formats one after the other on one FileReadStream until a handler of    *)
(* 7-Zip accepts it, and its destruction gives everything back.  Handlers  *)
(* count their references to the stream and to the archive, which is their *)
(* open callback.                                                          *)
(*                                                                         *)
(* The handlers are external: within Open they read, take references, ask  *)
(* for the password and return what they like; a refused one may keep its  *)
(* references until it is released, a closed one keeps none.               *)
(***************************************************************************)
EXTENDS Integers

CONSTANTS
  NumFormats,   \* formats the library has, tried as 1, 2, ...
  MaxKept,      \* references to the stream that a handler takes at most
  NoHandler

ASSUME OpenArchiveAssumption ==
  NumFormats \in Nat /\ MaxKept \in Nat \ {0} /\ NoHandler \notin Nat

VARIABLES
  accepts,   \* formats whose handler accepts what it reads from the start
  legible,   \* the password, if 7-Zip asks for it, is UTF-8
  seekable,  \* the archive is no pipe
  pc,        \* where the constructor or destructor is
  k,         \* the format the loop is at
  arc,       \* _arc
  handler,   \* format -> whether its handler lives, what it refers to
  refs,      \* count of the FileReadStream, 0 once deleted
  self,      \* count of the ImplArchive
  pos,       \* where the stream stands: 0, or 1 for anywhere else
  start,     \* where it stood when Open was called
  err        \* ferror of the stream, never cleared

vars ==
  <<accepts, legible, seekable, pc, k, arc, handler, refs, self, pos, start, err>>

archive == <<accepts, legible, seekable>>

Format == 1..NumFormats

\* kept: references to the stream; asks: references to the open callback.
Handler == [alive: BOOLEAN, kept: 0..MaxKept, asks: 0..1]

Gone == [alive |-> FALSE, kept |-> 0, asks |-> 0]

\* A handler that refers to nothing: just created, or closed.
Bare == [alive |-> TRUE, kept |-> 0, asks |-> 0]

\* The last reference to handler h is given up: it dies and gives back its own.
Dies(h, hs) ==
  /\ handler' = [hs EXCEPT ![h] = Gone]
  /\ refs' = refs - handler[h].kept
  /\ self' = self - handler[h].asks

-----------------------------------------------------------------------------
(***************************************************************************)
(* ImplArchive::open_archive.                                              *)
(***************************************************************************)
Init ==
  /\ accepts \in SUBSET Format
  /\ legible \in BOOLEAN
  /\ seekable \in BOOLEAN
  /\ pc = "seek"
  /\ k = 1
  /\ arc = NoHandler
  /\ handler = [h \in Format |-> Gone]
  /\ refs = 1
  /\ self = 1
  /\ pos = 0
  /\ start = 0
  /\ err = FALSE

SlipNotRewound == pos

\* A pipe stays where it is, and Seek returns S_OK: a failed fseek is not an
\* error of the stream to check_error.  Nor would its 1 be one to CheckCom.
Rewound == IF seekable THEN 0 ELSE pos

SlipOnePastEnd ==
  /\ pc = "seek"
  /\ pos' = Rewound
  /\ pc' = "create"
  /\ UNCHANGED <<archive, k, arc, handler, refs, self, start, err>>

Seek ==
  /\ pc = "seek"
  /\ k \in Format
  /\ pos' = Rewound
  /\ pc' = "create"
  /\ UNCHANGED <<archive, k, arc, handler, refs, self, start, err>>

SlipOldKept == UNCHANGED <<handler, refs, self>>

\* The operator& of _arc releases the handler that refused the archive.
OldReleased ==
  IF arc = NoHandler THEN UNCHANGED <<handler, refs, self>>
  ELSE Dies(arc, handler)

ReleaseRefused ==
  /\ pc = "create"
  /\ OldReleased
  /\ arc' = NoHandler
  /\ pc' = "created"
  /\ UNCHANGED <<archive, k, pos, start, err>>

\* CreateObject has stored the handler in _arc, and Open is called on it.
Open ==
  /\ pc = "created"
  /\ arc' = k
  /\ handler' = [handler EXCEPT ![k] = Bare]
  /\ start' = pos
  /\ pc' = "open"
  /\ UNCHANGED <<archive, k, refs, self, pos, err>>

\* A negative HRESULT: CheckCom throws out of the constructor.
CreateFails ==
  /\ pc = "created"
  /\ pc' = "release arc"
  /\ UNCHANGED <<archive, k, arc, handler, refs, self, pos, start, err>>

\* Seek in and Read from the stream.
HandlerReads ==
  /\ pc = "open"
  /\ pos' \in 0..1
  /\ UNCHANGED <<archive, pc, k, arc, handler, refs, self, start, err>>

\* FileReadStream::Read returns 1, now and from now on.
ReadFails ==
  /\ pc = "open"
  /\ err' = TRUE
  /\ UNCHANGED <<archive, pc, k, arc, handler, refs, self, pos, start>>

\* CComPtr and QueryInterface in the handler.
HandlerKeepsStream ==
  /\ pc = "open"
  /\ handler[k].kept < MaxKept
  /\ handler' = [handler EXCEPT ![k].kept = @ + 1]
  /\ refs' = refs + 1
  /\ UNCHANGED <<archive, pc, k, arc, self, pos, start, err>>

HandlerKeepsCallback ==
  /\ pc = "open"
  /\ handler[k].asks = 0
  /\ handler' = [handler EXCEPT ![k].asks = 1]
  /\ self' = self + 1
  /\ UNCHANGED <<archive, pc, k, arc, refs, pos, start, err>>

\* CryptoGetTextPassword is noexcept, and wide_str throws on a password that
\* iconv rejects: std::terminate.  Any other password changes nothing here.
PasswordIllegible ==
  /\ pc = "open"
  /\ handler[k].asks = 1
  /\ ~legible
  /\ pc' = "terminated"
  /\ UNCHANGED <<archive, k, arc, handler, refs, self, pos, start, err>>

\* What 7-Zip makes of a stream it did not get at its start is anybody's guess.
Accept ==
  /\ pc = "open"
  /\ start = 0 => k \in accepts
  /\ pc' = "props"
  /\ UNCHANGED <<archive, k, arc, handler, refs, self, pos, start, err>>

\* Any result but S_OK, 1 for a read error included: the next format.
Refuse ==
  /\ pc = "open"
  /\ k \in accepts /\ start = 0 => err
  /\ k' = k + 1
  /\ pc' = "seek"
  /\ UNCHANGED <<archive, arc, handler, refs, self, pos, start, err>>

\* After the last format: ERROR_INVALID_DATA leaves the constructor.  Only
\* the members are destroyed, ~ImplArchive is not run.
NoneAccepts ==
  /\ pc = "seek"
  /\ k \notin Format
  /\ pc' = "release arc"
  /\ UNCHANGED <<archive, k, arc, handler, refs, self, pos, start, err>>

-----------------------------------------------------------------------------
(***************************************************************************)
(* init_props, and the end of the archive.                                 *)
(***************************************************************************)
InitProps ==
  /\ pc = "props"
  /\ pc' \in {"mounted", "release arc"}
  /\ UNCHANGED <<archive, k, arc, handler, refs, self, pos, start, err>>

\* Extractions read the archive; a read error stays.
Extract ==
  /\ pc = "mounted"
  /\ pos' \in 0..1
  /\ err' \in {err, TRUE}
  /\ UNCHANGED <<archive, pc, k, arc, handler, refs, self, start>>

\* ~ImplArchive.
Close ==
  /\ pc = "mounted"
  /\ handler' = [handler EXCEPT ![arc] = Bare]
  /\ refs' = refs - handler[arc].kept
  /\ self' = self - handler[arc].asks
  /\ pc' = "release arc"
  /\ UNCHANGED <<archive, k, arc, pos, start, err>>

\* The members go in the reverse order of their declaration.
ReleaseArc ==
  /\ pc = "release arc"
  /\ OldReleased
  /\ arc' = NoHandler
  /\ pc' = "release stream"
  /\ UNCHANGED <<archive, k, pos, start, err>>

ReleaseStream ==
  /\ pc = "release stream"
  /\ refs' = refs - 1
  /\ pc' = "gone"
  /\ UNCHANGED <<archive, k, arc, handler, self, pos, start, err>>

-----------------------------------------------------------------------------
Next ==
  \/ Seek \/ NoneAccepts \/ ReleaseRefused \/ CreateFails \/ Open
  \/ HandlerReads \/ ReadFails \/ HandlerKeepsStream \/ HandlerKeepsCallback
  \/ PasswordIllegible \/ Accept \/ Refuse
  \/ InitProps \/ Extract \/ Close \/ ReleaseArc \/ ReleaseStream

Spec == Init /\ [][Next]_vars

-----------------------------------------------------------------------------
(***************************************************************************)
(* Properties.                                                             *)
(***************************************************************************)
TypeOK ==
  /\ accepts \subseteq Format /\ legible \in BOOLEAN /\ seekable \in BOOLEAN
  /\ pc \in {"seek", "create", "created", "open", "props", "mounted",
             "release arc", "release stream", "gone", "terminated"}
  /\ k \in 1..(NumFormats + 1)
  /\ arc \in Format \cup {NoHandler}
  /\ handler \in [Format -> Handler]
  /\ refs \in Nat /\ self \in Nat
  /\ pos \in 0..1 /\ start \in 0..1
  /\ err \in BOOLEAN

Accepted == pc \in {"props", "mounted"}

\* The archive is opened with the first format that accepts it, and refused
\* only if none does, whatever the formats tried before have done to the one
\* stream they share.  A read error, even a passing one, spoils that.
FirstFormatWins ==
  seekable =>
    /\ Accepted => k \in accepts
    /\ ~err => \A f \in 1..(k - 1) : f \notin accepts

\* One handler at a time, and the counts are those of its references and of
\* the owners: no handler is left behind by the loop, and neither the stream
\* nor the archive can be deleted under a handler that refers to it.
CountsMatchHolders ==
  /\ \A h \in Format : handler[h].alive <=> h = arc
  /\ \A h \in Format : h # arc => handler[h] = Gone
  /\ refs = (IF pc = "gone" THEN 0 ELSE 1)
             + (IF arc = NoHandler THEN 0 ELSE handler[arc].kept)
  /\ self = 1 + (IF arc = NoHandler THEN 0 ELSE handler[arc].asks)
=============================================================================
