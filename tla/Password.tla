------------------------------ MODULE Password ------------------------------
(***************************************************************************)
(* Where the password comes from.  Once the command line is read, Params'  *)
(* constructor picks one IPassword; main asks it when it opens the         *)
(* archive, and execute() asks again for the extractions.  A password file *)
(* may change in between, and a program run as one may answer differently  *)
(* each time, or nothing.                                                  *)
(*                                                                         *)
(* A text is a pair: what it says, and the newlines it ends with.          *)
(***************************************************************************)
EXTENDS Integers

CONSTANTS
  Says,        \* what files, programs and standard input can say
  File,        \* paths of password files
  Worlds(_),   \* Worlds(argv): what can surround the command line argv
  Unset        \* an option or variable that is not given, a file that is not there

Text == Says \X (0..1)

EmptyText == <<"", 0>>

VARIABLES
  argv,                       \* the command line
  password, passfile,         \* cmd_params
  envPassword, envPassfile,   \* FUSE3_P7ZIP_PASSWORD, FUSE3_P7ZIP_PASSFILE
  stdin,                      \* what there is to read
  file,                       \* path -> what reading or running it yields now
  source,                     \* *cmd_password
  opened,                     \* the password given to OpenCallback
  extracts,                   \* the one given to ExtractCallback
  reads,                      \* times the file has been read or run
  pc

vars == <<argv, password, passfile, envPassword, envPassfile, stdin, file,
          source, opened, extracts, reads, pc>>

given == <<argv, password, passfile, envPassword, envPassfile, stdin>>

World == [envPassword: Says \cup {Unset}, envPassfile: File \cup {"-", Unset},
          stdin: Text, file: [File -> Text \cup {Unset}]]

\* chomp drops the newlines, unless there is nothing else.
Chomp(t) == IF t[1] = "" THEN t ELSE <<t[1], 0>>

StringText(t) == [kind |-> "string", path |-> Unset, text |-> t]

\* An option or a variable is taken as it is.
String(says) == StringText(<<says, 0>>)

PassFile(f) == [kind |-> "file", path |-> f, text |-> EmptyText]

Regular(f) == f \in File /\ file[f] # Unset

-----------------------------------------------------------------------------
Init ==
  /\ \E w \in Worlds(argv) :
       /\ envPassword = w.envPassword /\ envPassfile = w.envPassfile
       /\ stdin = w.stdin /\ file = w.file
  /\ source = StringText(EmptyText)
  /\ opened = Unset /\ extracts = Unset
  /\ reads = 0
  /\ pc = "choose"

\* Params::Params: the first that is given; a file has to exist.
Chosen ==
  IF password # Unset THEN String(password)
  ELSE IF passfile = "-" THEN StringText(Chomp(stdin))
  ELSE IF Regular(passfile) THEN PassFile(passfile)
  ELSE IF envPassword # Unset THEN String(envPassword)
  ELSE IF Regular(envPassfile) THEN PassFile(envPassfile)
  ELSE source

Choose ==
  /\ pc = "choose"
  /\ source' = Chosen
  /\ pc' = "open"
  /\ UNCHANGED <<given, file, opened, extracts, reads>>

\* A path is given and the file system does not say what is there: exists,
\* is_regular_file or absolute throws.
LookFails ==
  /\ pc = "choose"
  /\ password = Unset /\ passfile # "-"
  /\ passfile # Unset \/ (envPassword = Unset /\ envPassfile # Unset)
  /\ pc' = "thrown"
  /\ UNCHANGED <<given, file, source, opened, extracts, reads>>

SlipAlwaysRead == source.kind = "file"

\* PasswordFromFile::get keeps what it once got, unless that was nothing.
Reads == source.kind = "file" /\ source.text = EmptyText

\* A file that has gone reads as empty.
Content(f) == IF file[f] = Unset THEN EmptyText ELSE file[f]

Gotten == IF Reads THEN Chomp(Content(source.path)) ELSE source.text

Get ==
  /\ source' = [source EXCEPT !.text = Gotten]
  /\ reads' = reads + (IF Reads THEN 1 ELSE 0)

\* main: lib->open(..., OpenCallback(loop.password())).
Open ==
  /\ pc = "open"
  /\ Get
  /\ opened' = Gotten
  /\ pc' \in {"execute", "failed"}
  /\ UNCHANGED <<given, file, extracts>>

\* Fuse::execute: ExtractCallback(password()).
Execute ==
  /\ pc = "execute"
  /\ Get
  /\ extracts' = Gotten
  /\ pc' = "serve"
  /\ UNCHANGED <<given, file, opened>>

\* popen fails: exec throws through get, which is noexcept.
CannotRun ==
  /\ pc \in {"open", "execute"}
  /\ Reads
  /\ pc' = "terminated"
  /\ UNCHANGED <<given, file, source, opened, extracts, reads>>

\* Somebody else writes or removes the file, or the program's answer changes.
\* A change that comes before the choice is one of the worlds, and a change
\* of a file that is not the source is seen by nobody.
FileChanges ==
  /\ source.kind = "file"
  /\ \E t \in Text \cup {Unset} : file' = [file EXCEPT ![source.path] = t]
  /\ UNCHANGED <<given, source, opened, extracts, reads, pc>>

Next == Choose \/ LookFails \/ Open \/ Execute \/ CannotRun \/ FileChanges

-----------------------------------------------------------------------------
(***************************************************************************)
(* Properties.                                                             *)
(***************************************************************************)
TypeOK ==
  /\ source.kind \in {"string", "file"}
  /\ source.path \in File \cup {Unset}
  /\ source.kind = "file" => source.path \in File
  /\ source.kind = "file" => source.text \in Text
  /\ pc \in {"choose", "thrown", "open", "execute", "serve", "failed", "terminated"}
  /\ reads \in 0..2

\* An archive whose header could be read with the password is extracted with
\* the same one, although the file is not asked at the same time and may have
\* changed; and no password program is run again after it has answered.
OnePassword ==
  /\ pc = "serve" /\ opened # EmptyText => extracts = opened
  /\ reads > 1 => opened = EmptyText
=============================================================================
