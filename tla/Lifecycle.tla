------------------------------ MODULE Lifecycle ------------------------------
(***************************************************************************)
(* The process from main to its end: the libraries are loaded, the archive *)
(* is opened, the file system is built, mounted, put into the background   *)
(* and served, and everything is given back.  Each step can fail, in one   *)
(* of three ways that leave different things behind: an exception unwinds  *)
(* main's locals, exit() only destroys the statics, and a signal without a *)
(* handler, std::terminate or a null session ends the process at once.     *)
(*                                                                         *)
(* libfuse, the kernel and the shell that waits for the process are        *)
(* external.                                                               *)
(***************************************************************************)
EXTENDS Integers, SequencesExt

CONSTANTS
  MaxSignals   \* bound: signals the process gets

ASSUME LifecycleAssumption == MaxSignals \in Nat

VARIABLES
  foreground,   \* option -f
  rar,          \* there is a Codecs/Rar.so
  pc,           \* the step main or execute is about to make
  locals,       \* main's locals, in the order of their construction
  cache,        \* the static Cache of execute exists
  session,      \* Fuse::fuse
  mount,        \* the kernel's side of the mount point
  handlers,     \* libfuse's signal handlers are installed
  status,       \* the exit status to be; "loop" for what fuse_loop returned
  told,         \* what the shell that started it has seen of it
  signals,      \* signals it has got
  asked,        \* the loop has been asked to end
  thrown        \* an exception left the loop

vars == <<foreground, rar, pc, locals, cache, session, mount, handlers, status,
          told, signals, asked, thrown>>

options == <<foreground, rar>>

\* What the kernel and libfuse know of the process.
outside == <<session, mount, handlers>>

news == <<told, signals, asked>>

Local == {"codec", "lib", "fuse", "arc"}

-----------------------------------------------------------------------------
(***************************************************************************)
(* Ways to go on and ways to end.                                          *)
(***************************************************************************)
\* A local is complete, the next statement follows.
Constructed(local, next) ==
  /\ locals' = Append(locals, local)
  /\ pc' = next
  /\ UNCHANGED <<options, cache, outside, status, news, thrown>>

GoesOn(next) ==
  /\ pc' = next
  /\ UNCHANGED <<options, locals, cache, status, thrown>>

\* main catches the exception after its locals are gone, and returns 1.
Throws ==
  /\ pc' = "unwind"
  /\ status' = "failure"
  /\ UNCHANGED <<options, locals, cache, outside, news>>

Exits(result) ==
  /\ pc' = "statics"
  /\ status' = result
  /\ UNCHANGED <<options, locals, cache, outside, news, thrown>>

\* The kernel closes /dev/fuse, but fusermount has not been run.
Abandoned == IF mount = "mounted" THEN "stale" ELSE mount

Seen(result) == IF told = "nothing" THEN result ELSE told

Dies ==
  /\ pc' = "ended"
  /\ mount' = Abandoned
  /\ status' = "killed"
  /\ told' = Seen("killed")
  /\ UNCHANGED <<options, locals, cache, session, handlers, asked, thrown>>

-----------------------------------------------------------------------------
(***************************************************************************)
(* main up to execute.                                                     *)
(***************************************************************************)
Init ==
  /\ foreground \in BOOLEAN
  /\ rar \in BOOLEAN
  /\ pc = "codec"
  /\ locals = << >>
  /\ cache = FALSE
  /\ session = "none"
  /\ mount = "none"
  /\ handlers = FALSE
  /\ status = "success"
  /\ told = "nothing"
  /\ signals = 0
  /\ asked = FALSE
  /\ thrown = FALSE

SlipCodecAgain == pc = "codec" /\ rar /\ Constructed("codec", "codec")

LoadCodec ==
  /\ pc = "codec"
  /\ \/ rar /\ Constructed("codec", "library")
     \/ ~rar /\ GoesOn("library") /\ UNCHANGED <<outside, news>>

LoadLibrary == pc = "library" /\ Constructed("lib", "arguments")

ParseArguments == pc = "arguments" /\ Constructed("fuse", "archive")

\* Help, version, or an argument is missing.
ShowUsage == pc = "arguments" /\ Exits("success")

OpenArchive == pc = "archive" /\ Constructed("arc", "cache")

\* dlopen and dlsym, the two parsers of options, and the archive; a Fuse or
\* an ImplLib whose constructor throws is no local yet.
StartFails ==
  /\ pc \in {"library", "arguments", "archive"} \/ (pc = "codec" /\ rar)
  /\ Throws
  /\ UNCHANGED thrown

-----------------------------------------------------------------------------
(***************************************************************************)
(* Fuse::execute.                                                          *)
(***************************************************************************)
MakeCache ==
  /\ pc = "cache"
  /\ cache' = TRUE
  /\ pc' = "tree"
  /\ UNCHANGED <<options, locals, outside, status, news, thrown>>

BuildTree == pc = "tree" /\ GoesOn("new") /\ UNCHANGED <<outside, news>>

\* One path that iconv cannot convert is enough.
BuildTreeFails ==
  /\ pc = "tree"
  /\ Throws
  /\ UNCHANGED thrown

SlipDaemonizeFirst ==
  /\ pc = "new"
  /\ session' \in {"made", "null"}
  /\ GoesOn("daemonize")
  /\ UNCHANGED <<mount, handlers, news>>

\* No memory, or an option that libfuse does not know: null.
FuseNew ==
  /\ pc = "new"
  /\ session' \in {"made", "null"}
  /\ GoesOn("mount")
  /\ UNCHANGED <<mount, handlers, news>>

FuseMount ==
  /\ pc = "mount"
  /\ session = "made"
  /\ mount' = "mounted"
  /\ GoesOn("daemonize")
  /\ UNCHANGED <<session, handlers, news>>

\* fuse_mount reads the session it is given.
MountNothing ==
  /\ pc = "mount"
  /\ session = "null"
  /\ Dies
  /\ UNCHANGED signals

SlipNeverInBackground == FALSE

Background == ~foreground

\* The shell's child ends with _exit(0), its fork goes on.
Daemonize ==
  /\ pc = "daemonize"
  /\ told' = IF Background THEN Seen("success") ELSE told
  /\ GoesOn("handlers")
  /\ UNCHANGED <<outside, signals, asked>>

SetSignalHandlers ==
  /\ pc = "handlers"
  /\ handlers' = TRUE
  /\ GoesOn("loop")
  /\ UNCHANGED <<session, mount, news>>

\* exit(1): nothing unmounts what is mounted.
ExecuteFails ==
  /\ \/ pc = "mount" /\ session = "made"
     \/ pc = "daemonize" /\ Background
     \/ pc = "handlers"
  /\ Exits("failure")

\* fuse_loop returns between two callbacks, with the result of the program.
LeaveLoop ==
  /\ pc = "loop"
  /\ pc' = "remove handlers"
  /\ status' = "loop"
  /\ UNCHANGED <<options, locals, cache, outside, news, thrown>>

LoopEnds == asked /\ LeaveLoop

\* /dev/fuse cannot be read or polled any more.
LoopFails == LeaveLoop

\* cb_open has no temporary file, or the extraction fails.
CallbackThrows ==
  /\ pc = "loop"
  /\ Throws
  /\ thrown' = TRUE

SlipNotUnmounted ==
  /\ pc = "remove handlers"
  /\ handlers' = FALSE
  /\ GoesOn("unwind")
  /\ UNCHANGED <<session, mount, news>>

RemoveSignalHandlers ==
  /\ pc = "remove handlers"
  /\ handlers' = FALSE
  /\ GoesOn("unmount")
  /\ UNCHANGED <<session, mount, news>>

FuseUnmount ==
  /\ pc = "unmount"
  /\ mount' = "none"
  /\ GoesOn("unwind")
  /\ UNCHANGED <<session, handlers, news>>

-----------------------------------------------------------------------------
(***************************************************************************)
(* The end.                                                                *)
(***************************************************************************)
SlipFirstFirst == Tail(locals)

\* Locals are destroyed in the reverse order of their construction.
Remaining == Front(locals)

\* ~Fuse destroys the session, which closes the device.
Unwind ==
  /\ pc = "unwind"
  /\ locals # << >>
  /\ locals' = Remaining
  /\ IF Last(locals) = "fuse" /\ session = "made"
     THEN session' = "destroyed" /\ mount' = Abandoned
     ELSE UNCHANGED <<session, mount>>
  /\ UNCHANGED <<options, pc, cache, handlers, status, news, thrown>>

Return == pc = "unwind" /\ locals = << >> /\ GoesOn("statics") /\ UNCHANGED <<outside, news>>

\* The static Cache is destroyed, with the iterators of its tree, which hold
\* the address of the archive but do not use it.
DestroyStatics ==
  /\ pc = "statics"
  /\ cache' = FALSE
  /\ pc' = "ended"
  /\ mount' = Abandoned
  /\ told' = Seen(status)
  /\ UNCHANGED <<options, locals, session, handlers, status, signals, asked, thrown>>

\* An exception in a noexcept callback of 7-Zip's, in IPassword::get, or in the
\* name of a format that FUSE3_P7ZIP_FORMATS is compared with.
Terminate ==
  /\ pc \in {"library", "archive", "cache", "loop"}
  /\ Dies
  /\ UNCHANGED signals

\* Somebody runs fusermount -u.
Unmounted ==
  /\ pc # "ended"
  /\ mount = "mounted"
  /\ mount' = "none"
  /\ asked' = TRUE
  /\ GoesOn(pc)
  /\ UNCHANGED <<session, handlers, told, signals>>

\* SIGINT, SIGTERM or SIGHUP kill the process as long as nothing handles them.
Signal ==
  /\ pc # "ended"
  /\ signals < MaxSignals
  /\ signals' = signals + 1
  /\ \/ ~handlers /\ Dies
     \/ handlers /\ asked' = TRUE /\ GoesOn(pc) /\ UNCHANGED <<outside, told>>

Step ==
  \/ LoadCodec \/ LoadLibrary \/ ParseArguments \/ OpenArchive
  \/ MakeCache \/ BuildTree \/ FuseNew \/ FuseMount \/ MountNothing
  \/ Daemonize \/ SetSignalHandlers
  \/ LoopEnds \/ RemoveSignalHandlers \/ FuseUnmount
  \/ Unwind \/ Return \/ DestroyStatics

Failure ==
  \/ ShowUsage \/ StartFails \/ BuildTreeFails \/ ExecuteFails
  \/ LoopFails \/ CallbackThrows \/ Terminate

Next == Step \/ Failure \/ Unmounted \/ Signal

\* One thread, and calls that return, those of 7-Zip, of the password program
\* and of standard input among them: it goes on unless something fails.
Spec == Init /\ [][Next]_vars /\ WF_vars(Step)

-----------------------------------------------------------------------------
(***************************************************************************)
(* Properties.                                                             *)
(***************************************************************************)
TypeOK ==
  /\ foreground \in BOOLEAN /\ rar \in BOOLEAN
  /\ pc \in {"codec", "library", "arguments", "archive", "cache", "tree", "new",
             "mount", "daemonize", "handlers", "loop", "remove handlers",
             "unmount", "unwind", "statics", "ended"}
  /\ locals \in Seq(Local) /\ Len(locals) <= 4
  /\ cache \in BOOLEAN
  /\ session \in {"none", "made", "null", "destroyed"}
  /\ mount \in {"none", "mounted", "stale"}
  /\ handlers \in BOOLEAN
  /\ status \in {"success", "failure", "loop", "killed"}
  /\ told \in {"nothing", "success", "failure", "loop", "killed"}
  /\ signals \in 0..MaxSignals
  /\ asked \in BOOLEAN
  /\ thrown \in BOOLEAN

\* Whatever step fails: no code of 7z.so or Rar.so is left to run once the
\* library is closed, the callbacks have the tree, the archive and the session
\* they read, and libfuse's handlers have a session to stop.  (A handler that
\* an exception out of the loop has left installed does outlive its session.)
NothingDangles ==
  /\ "arc" \in ToSet(locals) => {"lib", "fuse"} \subseteq ToSet(locals)
  /\ "lib" \in ToSet(locals) /\ rar => "codec" \in ToSet(locals)
  /\ pc = "loop" => cache /\ session = "made" /\ {"arc", "fuse"} \subseteq ToSet(locals)
  /\ handlers /\ ~thrown => session = "made"

\* A process whose loop has ended, by a signal, by fusermount or by an error of
\* the device, and that no further signal kills on its way out leaves nothing
\* behind.
StopCleansUp ==
  pc = "ended" /\ status = "loop" =>
    /\ mount = "none"
    /\ session = "destroyed" /\ ~handlers
    /\ locals = << >> /\ ~cache

\* The shell is told of success before the end only when the mount is there.
SuccessMeansMounted ==
  [][told = "nothing" /\ told' = "success" /\ pc' # "ended"
       => mount' = "mounted" \/ asked]_vars

\* Without -f the shell gets its prompt back, whatever fails.
ShellReturns == ~foreground ~> told # "nothing"
=============================================================================
