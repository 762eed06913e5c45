------------------------------- MODULE Params -------------------------------
(***************************************************************************)
(* Fuse::Params and what comes of it: CommandLine reads the words, and if  *)
(* the constructor goes on, Password picks the source of the password and  *)
(* asks it for the opening and for the extractions.  The two share         *)
(* cmd_params.                                                             *)
(***************************************************************************)
EXTENDS Integers, SequencesExt

CONSTANTS CommandLines, Existing, Says, File, Worlds(_), Unset

VARIABLES
  argv, pos, literal, cliArgs, kept, mountOpts, allowOther, password, passfile,
  outcome, envPassword, envPassfile, stdin, file, source, opened, extracts,
  reads, pc

parser == <<pos, literal, cliArgs, kept, mountOpts, allowOther, outcome>>

asked == <<envPassword, envPassfile, stdin, file, source, opened, extracts,
           reads, pc>>

vars == <<argv, password, passfile, parser, asked>>

CL == INSTANCE CommandLine

PW == INSTANCE Password

ASSUME ParamsAssumption ==
  /\ \A a \in CommandLines :
       /\ a \in Seq(ToSet(a))
       /\ \A i \in DOMAIN a : a[i].kind \in CL!Kind /\ a[i].says # Unset
       /\ Worlds(a) \subseteq PW!World
  /\ "" \in Says
  /\ Unset \notin File /\ "-" \notin File

-----------------------------------------------------------------------------
Init == CL!Init /\ PW!Init

Parse == CL!Next /\ UNCHANGED asked

\* Every other outcome ends the process before it needs a password.
Use ==
  /\ outcome = "serve"
  /\ PW!Next
  /\ UNCHANGED parser

Next == Parse \/ Use

Spec == Init /\ [][Next]_vars

-----------------------------------------------------------------------------
(***************************************************************************)
(* Properties.                                                             *)
(***************************************************************************)
TypeOK == CL!TypeOK /\ PW!TypeOK

\* Fuse::path() reads cli_args[0] without a test: whoever gets past the
\* constructor has an archive, not an empty one, and one mount point.
ServesWithBoth == CL!ServesWithBoth

\* With no option of FUSE before it, the archive is the first path, and each
\* word of the command line reaches its place.
ArchiveFirstIsParsed == CL!ArchiveFirstIsParsed

\* The usage text: FUSE's options may stand before the archive.
UsageWorks == CL!UsageWorks

\* The archive is opened with one password, and extracted with the same one.
OnePassword == PW!OnePassword

\* The archive is opened with the password that the command line gives last,
\* in either form, whatever other words, files and variables say.
LastPasswordWins ==
  LET places == {i \in DOMAIN argv : CL!Role[i] = "password"}
  IN  opened # Unset /\ places # {} => opened = <<argv[Max(places)].says, 0>>
=============================================================================
