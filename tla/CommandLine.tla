----------------------------- MODULE CommandLine -----------------------------
(***************************************************************************)
(* From argv to an archive and a mount point: Fuse::Params' constructor    *)
(* runs fuse_opt_parse, which takes out the program's own options and      *)
(* calls process_arg for the other words, and then fuse_parse_cmdline on   *)
(* the words that were kept.  The two parsers are libfuse's.               *)
(*                                                                         *)
(* A word is a kind and what it says: "password" and "passfile" with the   *)
(* value for --password=x and --passfile=x, "-p" and "-o" whose value is   *)
(* the next word, "flag" for anything else with a dash, "plain" for        *)
(* anything without.                                                       *)
(***************************************************************************)
EXTENDS Integers, FiniteSets, SequencesExt

CONSTANTS
  CommandLines,   \* argv without the program's name
  Existing,       \* paths that exist
  Unset           \* an option that is not given

Kind == {"password", "passfile", "-p", "-o", "--", "flag", "plain"}

\* An empty argument.
Empty == [kind |-> "plain", says |-> ""]

VARIABLES
  argv,
  pos,          \* words parsed
  literal,      \* "--" has been seen
  cliArgs,      \* cmd_params.cli_args
  kept,         \* the arguments left for FUSE, those of -o apart, with the "--"
                \* that fuse_opt drops if nothing follows it
  mountOpts,    \* the options left for FUSE's -o
  allowOther,   \* cmd_params.allow_other
  password,     \* cmd_params.password
  passfile,     \* cmd_params.passfile
  outcome       \* "parsing", then how the constructor ends

vars == <<argv, pos, literal, cliArgs, kept, mountOpts, allowOther, password,
          passfile, outcome>>

given == <<password, passfile>>

Word == argv[pos + 1]

Ours == {"password", "passfile", "-p"}

-----------------------------------------------------------------------------
(***************************************************************************)
(* fuse_opt_parse.                                                         *)
(***************************************************************************)
Init ==
  /\ argv \in CommandLines
  /\ pos = 0
  /\ literal = FALSE
  /\ cliArgs = << >> /\ kept = << >> /\ mountOpts = << >>
  /\ allowOther = FALSE
  /\ password = Unset /\ passfile = Unset
  /\ outcome = "parsing"

Parsing == outcome = "parsing" /\ pos < Len(argv)

IsOption(w) == w.kind \notin {"plain", "--"} /\ ~literal

SlipAllowOtherFallsToo(w, iso) == FALSE

\* process_arg keeps allow_other out of cli_args.  Every other word goes in,
\* options too: the case for options falls through to the one for the rest.
NotForUs(w, iso) == iso /\ w.says = "allow_other"

\* process_arg, and what fuse_opt does with a word that is to be kept; iso
\* marks an option of -o.  The first word of cli_args, the archive, is not.
\* print_usage() is called through the address of cmd_params, which is not a
\* Params: it may reach its exit(0) or not.
ProcessArg(w, iso) ==
  LET discard == ~NotForUs(w, iso) /\ cliArgs = << >>
  IN  /\ cliArgs' = IF NotForUs(w, iso) THEN cliArgs ELSE Append(cliArgs, w)
      /\ allowOther' = (allowOther \/ NotForUs(w, iso))
      /\ kept' = IF discard \/ iso THEN kept ELSE Append(kept, w)
      /\ mountOpts' = IF discard \/ ~iso THEN mountOpts ELSE Append(mountOpts, w)
      /\ outcome' \in IF w = Empty THEN {"usage", "crash"} ELSE {outcome}

SlipFirstStays(old, value) == IF old = Unset THEN value ELSE old

\* Each occurrence of an option replaces the value of the one before.
Stored(old, value) == value

\* --password=x and --passfile=x, which are not shown to process_arg ...
OwnOption ==
  /\ Parsing /\ IsOption(Word)
  /\ \/ Word.kind = "password"
        /\ password' = Stored(password, Word.says) /\ passfile' = passfile
     \/ Word.kind = "passfile"
        /\ passfile' = Stored(passfile, Word.says) /\ password' = password
  /\ pos' = pos + 1
  /\ UNCHANGED <<argv, literal, cliArgs, kept, mountOpts, allowOther, outcome>>

SlipValuePastEnd ==
  /\ Parsing /\ IsOption(Word)
  /\ Word.kind = "-p"
  /\ pos' = pos + 2
  /\ UNCHANGED <<argv, literal, cliArgs, kept, mountOpts, allowOther, given, outcome>>

\* ... and -p x.
OwnSeparate ==
  /\ Parsing /\ IsOption(Word)
  /\ Word.kind = "-p"
  /\ pos + 2 <= Len(argv)
  /\ password' = Stored(password, argv[pos + 2].says)
  /\ pos' = pos + 2
  /\ UNCHANGED <<argv, literal, cliArgs, kept, mountOpts, allowOther, passfile, outcome>>

MountOption ==
  /\ Parsing /\ IsOption(Word)
  /\ Word.kind = "-o"
  /\ pos + 2 <= Len(argv)
  /\ ProcessArg(argv[pos + 2], TRUE)
  /\ pos' = pos + 2
  /\ UNCHANGED <<argv, literal, given>>

\* -p or -o at the end: fuse_opt_parse fails, CheckResult throws.
ValueMissing ==
  /\ Parsing /\ IsOption(Word)
  /\ Word.kind \in {"-p", "-o"}
  /\ pos + 2 > Len(argv)
  /\ outcome' = "error"
  /\ UNCHANGED <<argv, pos, literal, cliArgs, kept, mountOpts, allowOther, given>>

Flag ==
  /\ Parsing /\ IsOption(Word)
  /\ Word.kind = "flag"
  /\ ProcessArg(Word, FALSE)
  /\ pos' = pos + 1
  /\ UNCHANGED <<argv, literal, given>>

DashDash ==
  /\ Parsing
  /\ Word.kind = "--" /\ ~literal
  /\ literal' = TRUE
  /\ kept' = Append(kept, Word)
  /\ pos' = pos + 1
  /\ UNCHANGED <<argv, cliArgs, mountOpts, allowOther, given, outcome>>

NonOption ==
  /\ Parsing
  /\ Word.kind = "plain" \/ literal
  /\ ProcessArg(Word, FALSE)
  /\ pos' = pos + 1
  /\ UNCHANGED <<argv, literal, given>>

-----------------------------------------------------------------------------
(***************************************************************************)
(* fuse_parse_cmdline, and the checks after it.                            *)
(***************************************************************************)
\* Up to here flags are flags.
Marker(s) ==
  LET marks == {i \in DOMAIN s : s[i].kind = "--"}
  IN  IF marks = {} THEN Len(s) + 1 ELSE Min(marks)

Positional(s) == {i \in DOMAIN s : i > Marker(s) \/ s[i].kind = "plain"}

Shows(flag) == \E i \in 1..(Marker(kept) - 1) : kept[i] = flag

Help == [kind |-> "flag", says |-> "-h"]

Version == [kind |-> "flag", says |-> "-V"]

\* More than one path, or one that does not exist: fuse_parse_cmdline fails.
MountPointIsBad ==
  \/ Cardinality(Positional(kept)) > 1
  \/ \E i \in Positional(kept) : kept[i].says \notin Existing

SlipMountPointNotMissed ==
  IF MountPointIsBad THEN "error"
  ELSE IF Shows(Version) THEN "version"
  ELSE IF Shows(Help) THEN "usage"
  ELSE IF cliArgs = << >> THEN "no archive"
  ELSE "serve"

\* The constructor throws, exits, or goes on.
Verdict ==
  IF MountPointIsBad THEN "error"
  ELSE IF Shows(Version) THEN "version"
  ELSE IF Shows(Help) THEN "usage"
  ELSE IF cliArgs = << >> THEN "no archive"
  ELSE IF Positional(kept) = {} THEN "no mountpoint"
  ELSE "serve"

Finish ==
  /\ outcome = "parsing"
  /\ pos = Len(argv)
  /\ outcome' = Verdict
  /\ UNCHANGED <<argv, pos, literal, cliArgs, kept, mountOpts, allowOther, given>>

Next ==
  \/ OwnOption \/ OwnSeparate \/ MountOption \/ ValueMissing
  \/ Flag \/ DashDash \/ NonOption \/ Finish

Spec == Init /\ [][Next]_vars

-----------------------------------------------------------------------------
(***************************************************************************)
(* Properties.                                                             *)
(***************************************************************************)
Archive == cliArgs[1].says

MountPoint == {kept[i].says : i \in Positional(kept)}

TypeOK ==
  /\ pos \in 0..Len(argv)
  /\ literal \in BOOLEAN /\ allowOther \in BOOLEAN
  /\ cliArgs \in Seq(ToSet(argv)) /\ kept \in Seq(ToSet(argv))
  /\ mountOpts \in Seq(ToSet(argv))
  /\ {password, passfile} \subseteq {Unset} \cup {argv[i].says : i \in DOMAIN argv}
  /\ outcome \in {"parsing", "error", "crash", "version", "usage", "no archive",
                   "no mountpoint", "serve"}

\* Fuse::path() reads cli_args[0] without a test: whoever gets past the
\* constructor has an archive, not an empty one, and one mount point.
ServesWithBoth ==
  outcome = "serve" =>
    /\ cliArgs # << >> /\ cliArgs[1] # Empty
    /\ Cardinality(MountPoint) = 1 /\ MountPoint \subseteq Existing

\* What each word is, read off the command line as a whole.
Role ==
  LET role[i \in DOMAIN argv] ==
        IF i > 1 /\ role[i - 1] \in {"-p", "-o"}
        THEN IF role[i - 1] = "-p" THEN "password" ELSE "option"
        ELSE IF \E j \in 1..(i - 1) : role[j] = "--" THEN "plain"
        ELSE argv[i].kind
  IN  role

\* The words that are the program's own, wherever they stand.
OwnWords ==
  {i \in DOMAIN argv :
     \/ Role[i] \in Ours
     \/ Role[i] = "option" /\ argv[i].says = "allow_other"
     \/ Role[i] \in {"-o", "--"}}

\* s has the words at the places of the set, in their order.
HasWordsAt(s, places) ==
  /\ Len(s) = Cardinality(places)
  /\ \A i \in places : s[Cardinality({j \in places : j <= i})] = argv[i]

\* With no option of FUSE before it, the archive is the first path of the
\* command line, wherever the program's own options stand, and FUSE gets
\* every other word, in order: no option is lost, none is taken for a path.
ArchiveFirstIsParsed ==
  LET others == DOMAIN argv \ OwnWords
      first  == Min(others)
      words  == {i \in DOMAIN argv : Role[i] \in {"flag", "plain", "--"}}
      opts   == {i \in DOMAIN argv : Role[i] = "option"}
  IN  /\ outcome \notin {"parsing", "error"}
      /\ others # {} /\ Role[first] = "plain"
      /\ \A i \in others : argv[i] # Empty
      => /\ cliArgs[1] = argv[first]
         /\ HasWordsAt(kept, words \ {first})
         /\ HasWordsAt(mountOpts, opts)

-----------------------------------------------------------------------------
(***************************************************************************)
(* What print_usage() says and the code does not do.                       *)
(***************************************************************************)
ArchiveAndMountPoint(n) ==
  /\ Len(argv) = n + 2
  /\ \A i \in (n + 1)..(n + 2) : argv[i].kind = "plain" /\ argv[i] # Empty
  /\ argv[n + 2].says \in Existing

Understood(n) ==
  outcome # "parsing" =>
    /\ outcome = "serve"
    /\ Archive = argv[n + 1].says
    /\ MountPoint = {argv[n + 2].says}

\* "usage: fuse3-7z [options] <archive> <mountpoint>", with FUSE's options
\* listed below it, "-f" among them.
UsageWorks ==
  ArchiveAndMountPoint(1) /\ argv[1] = [kind |-> "flag", says |-> "-f"]
    => Understood(1)
=============================================================================
