---------------------------- MODULE ParamsProofs ----------------------------
(***************************************************************************)
(* Proofs about Params and its two parts, for any command lines, files and *)
(* surroundings: what the parser makes of the words, that whoever goes on  *)
(* has an archive and a mount point, and which password is used.           *)
(***************************************************************************)
EXTENDS Params, SequenceTheorems, NumbersProofs

-----------------------------------------------------------------------------
(***************************************************************************)
(* The role of a word is defined by recursion over the command line.       *)
(***************************************************************************)
RoleOf(f, i) ==
  IF i > 1 /\ f[i - 1] \in {"-p", "-o"}
  THEN IF f[i - 1] = "-p" THEN "password" ELSE "option"
  ELSE IF \E j \in 1..(i - 1) : f[j] = "--" THEN "plain"
  ELSE argv[i].kind

\* The recursion has a solution for every beginning of a command line.
LEMMA RolesExist ==
  \A n \in Nat : \E f : f = [i \in 1..n |-> RoleOf(f, i)]
<1> DEFINE S == {n \in Nat : \E f : f = [i \in 1..n |-> RoleOf(f, i)]}
<1>1. 0 \in S
  <2> DEFINE g == [i \in 1..0 |-> 0]
  <2>1. g = [i \in 1..0 |-> RoleOf(g, i)]
    OBVIOUS
  <2> HIDE DEF g
  <2> QED
    BY <2>1
<1>2. ASSUME NEW n \in S PROVE n + 1 \in S
  <2>1. PICK f : f = [i \in 1..n |-> RoleOf(f, i)]
    OBVIOUS
  <2> DEFINE g == [i \in 1..(n + 1) |-> IF i \in 1..n THEN f[i] ELSE RoleOf(f, i)]
  <2>2. \A i \in 1..n : g[i] = f[i]
    OBVIOUS
  <2>3. ASSUME NEW i \in 1..(n + 1) PROVE RoleOf(g, i) = RoleOf(f, i)
    <3>1. \A j \in 1..(i - 1) : g[j] = f[j]
      BY <2>2
    <3>2. i > 1 => g[i - 1] = f[i - 1]
      BY <3>1
    <3> HIDE DEF g
    <3> QED
      BY <3>1, <3>2 DEF RoleOf
  <2>4. ASSUME NEW i \in 1..n PROVE f[i] = RoleOf(f, i)
    BY <2>1
  <2>5. ASSUME NEW i \in 1..(n + 1) PROVE g[i] = RoleOf(g, i)
    BY <2>3, <2>4
  <2>6. g = [i \in 1..(n + 1) |-> RoleOf(g, i)]
    BY <2>5
  <2> HIDE DEF g
  <2> QED
    BY <2>6
<1> HIDE DEF S
<1>3. S = Nat
  BY <1>1, <1>2, Induction DEF S
<1> QED
  BY <1>3 DEF S

\* The recursion of Role, solved: a word's role follows from that of the word before.
LEMMA RoleIs ==
  ASSUME NEW T, argv \in Seq(T), NEW i \in 1..Len(argv)
  PROVE  CL!Role[i] = RoleOf(CL!Role, i)
<1>1. Len(argv) \in Nat /\ DOMAIN argv = 1..Len(argv)
  BY LenProperties
<1>2. PICK f : f = [k \in DOMAIN argv |-> RoleOf(f, k)]
  BY <1>1, RolesExist
<1>3. CL!Role = [k \in DOMAIN argv |-> RoleOf(CL!Role, k)]
  BY <1>2 DEF CL!Role, RoleOf
<1> QED
  BY <1>1, <1>3

\* Roles depend on the command line only.
LEMMA SameRoles ==
  ASSUME argv' = argv
  PROVE  CL!Role' = CL!Role
BY DEF CL!Role

-----------------------------------------------------------------------------
(***************************************************************************)
(* The parser.  It never stands between an option and its value, and it    *)
(* knows whether "--" is behind it; so the role of the next word is what   *)
(* the parser takes it for.                                                *)
(***************************************************************************)
Types == argv \in CommandLines /\ CL!TypeOK

ParserInv ==
  /\ pos > 0 => CL!Role[pos] \notin {"-p", "-o"}
  /\ literal <=> \E j \in 1..pos : CL!Role[j] = "--"
  /\ outcome \in {"parsing", "serve"} =>
       \A i \in DOMAIN cliArgs : cliArgs[i] # CL!Empty
  /\ outcome = "serve" =>
       /\ pos = Len(argv)
       /\ cliArgs # << >> /\ ~CL!MountPointIsBad /\ CL!Positional(kept) # {}

\* A command line is a sequence of words, each with something to say.
LEMMA Words ==
  ASSUME Types
  PROVE  /\ argv \in Seq(CL!ToSet(argv)) /\ Len(argv) \in Nat
         /\ DOMAIN argv = 1..Len(argv)
         /\ pos \in 0..Len(argv)
         /\ \A i \in 1..Len(argv) :
              argv[i] \in CL!ToSet(argv) /\ argv[i].says # Unset
<1>1. argv \in Seq(CL!ToSet(argv)) /\ \A i \in DOMAIN argv : argv[i].says # Unset
  BY ParamsAssumption DEF Types, ToSet, CL!ToSet
<1>2. Len(argv) \in Nat /\ DOMAIN argv = 1..Len(argv)
  BY <1>1, LenProperties
<1> QED
  BY <1>1, <1>2 DEF CL!ToSet, Types, CL!TypeOK

\* The roles of the words the parser takes in its next step.
LEMMA RolesAhead ==
  ASSUME Types, ParserInv, pos < Len(argv)
  PROVE  /\ CL!Role[pos + 1] = IF literal THEN "plain" ELSE argv[pos + 1].kind
         /\ CL!Role[pos + 1] \in {"-p", "-o"} /\ pos + 2 <= Len(argv) =>
              CL!Role[pos + 2] = IF CL!Role[pos + 1] = "-p" THEN "password" ELSE "option"
<1>1. argv \in Seq(CL!ToSet(argv)) /\ Len(argv) \in Nat /\ pos \in 0..Len(argv)
  BY Words
<1>2. CL!Role[pos + 1] = RoleOf(CL!Role, pos + 1)
  BY <1>1, RoleIs
<1>3. CL!Role[pos + 1] = IF literal THEN "plain" ELSE argv[pos + 1].kind
  <2>1. ~(pos + 1 > 1 /\ CL!Role[(pos + 1) - 1] \in {"-p", "-o"})
    BY <1>1 DEF ParserInv
  <2>2. (pos + 1) - 1 = pos
    BY <1>1
  <2> QED
    BY <1>2, <2>1, <2>2 DEF RoleOf, ParserInv
<1>4. ASSUME pos + 2 <= Len(argv) PROVE CL!Role[pos + 2] = RoleOf(CL!Role, pos + 2)
  BY <1>1, <1>4, RoleIs
<1>5. (pos + 2) - 1 = pos + 1 /\ pos + 2 > 1
  BY <1>1
<1> QED
  BY <1>3, <1>4, <1>5 DEF RoleOf

\* What each step of the parser takes, by the roles of the words.
LEMMA Taken ==
  ASSUME Types, ParserInv
  PROVE  /\ CL!OwnOption =>
              /\ pos < Len(argv)
              /\ CL!Role[pos + 1] = argv[pos + 1].kind
              /\ CL!Role[pos + 1] \in {"password", "passfile"}
         /\ CL!OwnSeparate =>
              /\ pos + 2 <= Len(argv)
              /\ CL!Role[pos + 1] = "-p" /\ CL!Role[pos + 2] = "password"
         /\ CL!MountOption =>
              /\ pos + 2 <= Len(argv)
              /\ CL!Role[pos + 1] = "-o" /\ CL!Role[pos + 2] = "option"
         /\ CL!Flag => pos < Len(argv) /\ CL!Role[pos + 1] = "flag"
         /\ CL!DashDash => pos < Len(argv) /\ CL!Role[pos + 1] = "--"
         /\ CL!NonOption => pos < Len(argv) /\ CL!Role[pos + 1] = "plain"
<1>1. CL!Parsing => pos < Len(argv)
  BY DEF CL!Parsing
<1>2. \A w : CL!IsOption(w) => ~literal
  BY DEF CL!IsOption
<1>3. CL!Word = argv[pos + 1]
  BY DEF CL!Word
<1>4. CL!OwnOption =>
        /\ CL!Parsing /\ ~literal
        /\ argv[pos + 1].kind \in {"password", "passfile"}
  BY <1>2, <1>3 DEF CL!OwnOption
<1>5. CL!OwnSeparate =>
        CL!Parsing /\ ~literal /\ argv[pos + 1].kind = "-p" /\ pos + 2 <= Len(argv)
  BY <1>2, <1>3 DEF CL!OwnSeparate
<1>6. CL!MountOption =>
        CL!Parsing /\ ~literal /\ argv[pos + 1].kind = "-o" /\ pos + 2 <= Len(argv)
  BY <1>2, <1>3 DEF CL!MountOption
<1>7. CL!Flag => CL!Parsing /\ ~literal /\ argv[pos + 1].kind = "flag"
  BY <1>2, <1>3 DEF CL!Flag
<1>8. CL!DashDash => CL!Parsing /\ ~literal /\ argv[pos + 1].kind = "--"
  BY <1>3 DEF CL!DashDash
<1>9. CL!NonOption => CL!Parsing /\ (literal \/ argv[pos + 1].kind = "plain")
  BY <1>3 DEF CL!NonOption
<1> QED
  BY <1>1, <1>4, <1>5, <1>6, <1>7, <1>8, <1>9, RolesAhead

\* Every step leaves the command line alone and moves on by what it takes.
LEMMA Moves ==
  ASSUME CL!Next
  PROVE  /\ argv' = argv /\ outcome = "parsing"
         /\ CL!OwnOption \/ CL!Flag \/ CL!DashDash \/ CL!NonOption => pos' = pos + 1
         /\ CL!OwnSeparate \/ CL!MountOption => pos' = pos + 2
         /\ CL!ValueMissing \/ CL!Finish => pos' = pos
BY DEF CL!Next, CL!OwnOption, CL!Flag, CL!DashDash, CL!NonOption, CL!OwnSeparate,
       CL!MountOption, CL!ValueMissing, CL!Finish, CL!Parsing

\* process_arg keeps the types, and no empty word unless it stops.
LEMMA ArgProcessed ==
  ASSUME Types, NEW w \in CL!ToSet(argv), NEW iso \in BOOLEAN, CL!ProcessArg(w, iso),
         outcome = "parsing", argv' = argv
  PROVE  /\ cliArgs' \in Seq(CL!ToSet(argv)) /\ kept' \in Seq(CL!ToSet(argv))
         /\ mountOpts' \in Seq(CL!ToSet(argv)) /\ allowOther' \in BOOLEAN
         /\ outcome' \in {"parsing", "usage", "crash"}
         /\ (\A i \in DOMAIN cliArgs : cliArgs[i] # CL!Empty) /\ outcome' = "parsing"
              => \A i \in DOMAIN cliArgs' : cliArgs'[i] # CL!Empty
<1>1. /\ cliArgs \in Seq(CL!ToSet(argv)) /\ kept \in Seq(CL!ToSet(argv))
      /\ mountOpts \in Seq(CL!ToSet(argv)) /\ allowOther \in BOOLEAN
  BY DEF Types, CL!TypeOK
<1>2. /\ cliArgs' = cliArgs \/ cliArgs' = Append(cliArgs, w)
      /\ kept' = kept \/ kept' = Append(kept, w)
      /\ mountOpts' = mountOpts \/ mountOpts' = Append(mountOpts, w)
      /\ outcome' \in IF w = CL!Empty THEN {"usage", "crash"} ELSE {outcome}
  BY DEF CL!ProcessArg
<1>3. allowOther' \in BOOLEAN
  <2>1. allowOther' = (allowOther \/ CL!NotForUs(w, iso))
    BY DEF CL!ProcessArg
  <2>2. CL!NotForUs(w, iso) \in BOOLEAN
    BY DEF CL!NotForUs
  <2> QED
    BY <1>1, <2>1, <2>2
<1>4. /\ cliArgs' \in Seq(CL!ToSet(argv)) /\ kept' \in Seq(CL!ToSet(argv))
      /\ mountOpts' \in Seq(CL!ToSet(argv))
  <2>1. \A q \in Seq(CL!ToSet(argv)) : Append(q, w) \in Seq(CL!ToSet(argv))
    BY AppendProperties
  <2> QED
    BY <1>1, <1>2, <2>1
<1>5. ASSUME \A i \in DOMAIN cliArgs : cliArgs[i] # CL!Empty, outcome' = "parsing",
             NEW i \in DOMAIN cliArgs'
      PROVE  cliArgs'[i] # CL!Empty
  <2>1. w # CL!Empty
    BY <1>2, <1>5
  <2>2. CASE cliArgs' = cliArgs
    BY <1>5, <2>2
  <2>3. CASE cliArgs' = Append(cliArgs, w)
    <3>1. /\ Len(cliArgs) \in Nat /\ DOMAIN cliArgs = 1..Len(cliArgs)
          /\ DOMAIN cliArgs' = 1..(Len(cliArgs) + 1)
      BY <1>1, <1>4, <2>3, LenProperties, AppendProperties
    <3>2. cliArgs'[i] = IF i <= Len(cliArgs) THEN cliArgs[i] ELSE w
      BY <1>1, <2>3, <3>1, <1>5, AppendProperties
    <3> QED
      BY <1>5, <2>1, <3>1, <3>2
  <2> QED
    BY <1>2, <2>2, <2>3
<1> QED
  BY <1>2, <1>3, <1>4, <1>5

\* fuse_parse_cmdline, and who goes on.
LEMMA VerdictServes ==
  CL!Verdict = "serve" =>
    cliArgs # << >> /\ ~CL!MountPointIsBad /\ CL!Positional(kept) # {}
BY DEF CL!Verdict

\* Every step of the parser keeps its variables' types.
LEMMA ParserTyped ==
  ASSUME Types, ParserInv, CL!Next
  PROVE  Types'
<1>1. /\ argv \in Seq(CL!ToSet(argv)) /\ Len(argv) \in Nat /\ DOMAIN argv = 1..Len(argv)
      /\ pos \in 0..Len(argv)
      /\ \A i \in 1..Len(argv) : argv[i] \in CL!ToSet(argv)
  BY Words
<1>2. argv' = argv /\ outcome = "parsing"
  BY Moves
<1>3. /\ literal \in BOOLEAN /\ allowOther \in BOOLEAN
      /\ cliArgs \in Seq(CL!ToSet(argv)) /\ kept \in Seq(CL!ToSet(argv))
      /\ mountOpts \in Seq(CL!ToSet(argv))
      /\ {password, passfile} \subseteq {Unset} \cup {argv[i].says : i \in DOMAIN argv}
  BY DEF Types, CL!TypeOK
<1>4. SUFFICES CL!TypeOK'
  BY <1>2 DEF Types
<1>5. CASE CL!OwnOption
  <2>1. pos' = pos + 1 /\ pos < Len(argv)
    BY <1>5, Moves, Taken
  <2>2. {password', passfile'} \subseteq {Unset} \cup {argv[i].says : i \in DOMAIN argv}
    <3>1. CL!Word.says \in {argv[i].says : i \in DOMAIN argv}
      BY <1>1, <2>1 DEF CL!Word
    <3> QED
      BY <1>3, <1>5, <3>1 DEF CL!OwnOption, CL!Stored
  <2> QED
    BY <1>1, <1>2, <1>3, <1>5, <2>1, <2>2 DEF CL!TypeOK, CL!OwnOption
<1>6. CASE CL!OwnSeparate
  <2>1. pos' = pos + 2 /\ pos + 2 <= Len(argv)
    BY <1>6, Moves, Taken
  <2>2. {password', passfile'} \subseteq {Unset} \cup {argv[i].says : i \in DOMAIN argv}
    <3>1. argv[pos + 2].says \in {argv[i].says : i \in DOMAIN argv}
      BY <1>1, <2>1
    <3> QED
      BY <1>3, <1>6, <3>1 DEF CL!OwnSeparate, CL!Stored
  <2> QED
    BY <1>1, <1>2, <1>3, <1>6, <2>1, <2>2 DEF CL!TypeOK, CL!OwnSeparate
<1>7. CASE CL!MountOption
  <2>1. pos' = pos + 2 /\ pos + 2 <= Len(argv)
    BY <1>7, Moves, Taken
  <2>2. argv[pos + 2] \in CL!ToSet(argv)
    BY <1>1, <2>1
  <2>3. CL!ProcessArg(argv[pos + 2], TRUE) /\ UNCHANGED <<literal, password, passfile>>
    BY <1>7 DEF CL!MountOption, CL!given
  <2>4. /\ cliArgs' \in Seq(CL!ToSet(argv)) /\ kept' \in Seq(CL!ToSet(argv))
        /\ mountOpts' \in Seq(CL!ToSet(argv)) /\ allowOther' \in BOOLEAN
        /\ outcome' \in {"parsing", "usage", "crash"}
    BY <1>2, <2>2, <2>3, ArgProcessed
  <2>5. pos' \in 0..Len(argv)
    BY <1>1, <2>1
  <2>6. literal' = literal /\ password' = password /\ passfile' = passfile
    BY <2>3
  <2> QED
    BY <1>2, <1>3, <2>4, <2>5, <2>6 DEF CL!TypeOK
<1>8. CASE CL!Flag \/ CL!NonOption
  <2>1. pos' = pos + 1 /\ pos < Len(argv)
    BY <1>8, Moves, Taken
  <2>2. CL!Word \in CL!ToSet(argv)
    BY <1>1, <2>1 DEF CL!Word
  <2>3. CL!ProcessArg(CL!Word, FALSE) /\ UNCHANGED <<literal, password, passfile>>
    BY <1>8 DEF CL!Flag, CL!NonOption, CL!given
  <2>4. /\ cliArgs' \in Seq(CL!ToSet(argv)) /\ kept' \in Seq(CL!ToSet(argv))
        /\ mountOpts' \in Seq(CL!ToSet(argv)) /\ allowOther' \in BOOLEAN
        /\ outcome' \in {"parsing", "usage", "crash"}
    BY <1>2, <2>2, <2>3, ArgProcessed
  <2>5. pos' \in 0..Len(argv)
    BY <1>1, <2>1
  <2>6. literal' = literal /\ password' = password /\ passfile' = passfile
    BY <2>3
  <2> QED
    BY <1>2, <1>3, <2>4, <2>5, <2>6 DEF CL!TypeOK
<1>9. CASE CL!DashDash
  <2>1. pos' = pos + 1 /\ pos < Len(argv)
    BY <1>9, Moves, Taken
  <2>2. CL!Word \in CL!ToSet(argv)
    BY <1>1, <2>1 DEF CL!Word
  <2>3. kept' \in Seq(CL!ToSet(argv))
    BY <1>3, <1>9, <2>2, AppendProperties DEF CL!DashDash
  <2> QED
    BY <1>1, <1>2, <1>3, <1>9, <2>1, <2>3 DEF CL!TypeOK, CL!DashDash, CL!given
<1>10. CASE CL!ValueMissing
  BY <1>1, <1>2, <1>3, <1>10 DEF CL!TypeOK, CL!ValueMissing, CL!given
<1>11. CASE CL!Finish
  <2>1. outcome' \in {"error", "version", "usage", "no archive", "no mountpoint", "serve"}
    BY <1>11 DEF CL!Finish, CL!Verdict
  <2> QED
    BY <1>1, <1>2, <1>3, <1>11, <2>1 DEF CL!TypeOK, CL!Finish, CL!given
<1> QED
  BY <1>5, <1>6, <1>7, <1>8, <1>9, <1>10, <1>11 DEF CL!Next

\* The words behind the parser, after a step.
LEMMA ParserStep ==
  ASSUME Types, ParserInv, CL!Next
  PROVE  ParserInv'
<1>1. /\ argv \in Seq(CL!ToSet(argv)) /\ Len(argv) \in Nat /\ DOMAIN argv = 1..Len(argv)
      /\ pos \in 0..Len(argv) /\ pos \in Nat
      /\ \A i \in 1..Len(argv) : argv[i] \in CL!ToSet(argv)
  BY Words
<1>2. argv' = argv /\ outcome = "parsing" /\ CL!Role' = CL!Role
  BY Moves, SameRoles
<1>3. \A i \in DOMAIN cliArgs : cliArgs[i] # CL!Empty
  BY <1>2 DEF ParserInv
<1>4. CASE CL!OwnOption \/ CL!Flag \/ CL!NonOption
  <2>1. pos' = pos + 1 /\ pos < Len(argv) /\ CL!Role[pos + 1] \notin {"-p", "-o", "--"}
    BY <1>4, Moves, Taken
  <2>2. literal' = literal
    BY <1>4 DEF CL!OwnOption, CL!Flag, CL!NonOption
  <2>3. literal' <=> \E j \in 1..pos' : CL!Role[j] = "--"
    <3>1. (\E j \in 1..(pos + 1) : CL!Role[j] = "--") <=> \E j \in 1..pos : CL!Role[j] = "--"
      BY <1>1, <2>1
    <3> QED
      BY <2>1, <2>2, <3>1, Zenon DEF ParserInv
  <2>4. outcome' # "serve" /\ (outcome' = "parsing" =>
          \A i \in DOMAIN cliArgs' : cliArgs'[i] # CL!Empty)
    <3>1. CASE CL!OwnOption
      BY <1>2, <1>3, <3>1 DEF CL!OwnOption
    <3>2. CASE CL!Flag \/ CL!NonOption
      <4>1. CL!Word \in CL!ToSet(argv)
        BY <1>1, <2>1 DEF CL!Word
      <4>2. CL!ProcessArg(CL!Word, FALSE)
        BY <3>2 DEF CL!Flag, CL!NonOption
      <4> QED
        BY <1>2, <1>3, <4>1, <4>2, ArgProcessed
    <3> QED
      BY <1>4, <3>1, <3>2
  <2> QED
    BY <1>2, <2>1, <2>3, <2>4 DEF ParserInv
<1>5. CASE CL!OwnSeparate \/ CL!MountOption
  <2>1. /\ pos' = pos + 2 /\ pos + 2 <= Len(argv)
        /\ CL!Role[pos + 1] # "--" /\ CL!Role[pos + 2] \notin {"-p", "-o", "--"}
    BY <1>5, Moves, Taken
  <2>2. literal' = literal
    BY <1>5 DEF CL!OwnSeparate, CL!MountOption
  <2>3. literal' <=> \E j \in 1..pos' : CL!Role[j] = "--"
    <3>1. \A j \in 1..(pos + 2) : j \in 1..pos \/ j = pos + 1 \/ j = pos + 2
      BY <1>1
    <3>2. (\E j \in 1..(pos + 2) : CL!Role[j] = "--") <=> \E j \in 1..pos : CL!Role[j] = "--"
      BY <1>1, <2>1, <3>1
    <3> QED
      BY <2>1, <2>2, <3>2, Zenon DEF ParserInv
  <2>4. outcome' # "serve" /\ (outcome' = "parsing" =>
          \A i \in DOMAIN cliArgs' : cliArgs'[i] # CL!Empty)
    <3>1. CASE CL!OwnSeparate
      BY <1>2, <1>3, <3>1 DEF CL!OwnSeparate
    <3>2. CASE CL!MountOption
      <4>1. argv[pos + 2] \in CL!ToSet(argv)
        BY <1>1, <2>1
      <4>2. CL!ProcessArg(argv[pos + 2], TRUE)
        BY <3>2 DEF CL!MountOption
      <4> QED
        BY <1>2, <1>3, <4>1, <4>2, ArgProcessed
    <3> QED
      BY <1>5, <3>1, <3>2
  <2> QED
    BY <1>2, <2>1, <2>3, <2>4 DEF ParserInv
<1>6. CASE CL!DashDash
  <2>1. pos' = pos + 1 /\ pos < Len(argv) /\ CL!Role[pos + 1] = "--"
    BY <1>6, Moves, Taken
  <2>2. /\ literal' = TRUE /\ cliArgs' = cliArgs /\ outcome' = outcome
    BY <1>6 DEF CL!DashDash
  <2>3. pos + 1 \in 1..pos'
    BY <1>1, <2>1
  <2> QED
    BY <1>1, <1>2, <1>3, <2>1, <2>2, <2>3 DEF ParserInv
<1>7. CASE CL!ValueMissing
  BY <1>2, <1>7 DEF ParserInv, CL!ValueMissing
<1>8. CASE CL!Finish
  <2>1. /\ outcome' = CL!Verdict
        /\ pos = Len(argv)
        /\ UNCHANGED <<pos, literal, cliArgs, kept>>
    BY <1>8 DEF CL!Finish
  <2>2. CL!MountPointIsBad' = CL!MountPointIsBad /\ CL!Positional(kept)' = CL!Positional(kept)
    BY <2>1 DEF CL!MountPointIsBad, CL!Positional, CL!Marker
  <2> QED
    BY <1>2, <1>3, <2>1, <2>2, VerdictServes DEF ParserInv
<1> QED
  BY <1>4, <1>5, <1>6, <1>7, <1>8 DEF CL!Next

-----------------------------------------------------------------------------
(***************************************************************************)
(* What the parser has made of the words behind it.                        *)
(***************************************************************************)
Before(S, n) == {i \in S : i <= n}

\* The places of the words of one kind.
Passwords == {i \in DOMAIN argv : CL!Role[i] = "password"}

Others == DOMAIN argv \ CL!OwnWords

KeptAt ==
  {i \in DOMAIN argv : CL!Role[i] \in {"flag", "plain", "--"}} \ {Min(Others)}

OptsAt == {i \in DOMAIN argv : CL!Role[i] = "option"}

\* The password is the last one so far.
PasswordInv ==
  password = IF Before(Passwords, pos) = {} THEN Unset
             ELSE argv[Max(Before(Passwords, pos))].says

\* The archive comes before the options of FUSE.
ArchiveFirst ==
  /\ Others # {} /\ CL!Role[Min(Others)] = "plain"
  /\ \A i \in Others : argv[i] # CL!Empty

\* Then the first of the others has become the archive, and the rest of what
\* is behind the parser is kept, in order.
ArchiveInv ==
  ArchiveFirst =>
    /\ outcome \notin {"parsing", "error"} => pos = Len(argv)
    /\ pos < Min(Others) => cliArgs = << >>
    /\ Min(Others) <= pos => cliArgs # << >> /\ cliArgs[1] = argv[Min(Others)]
    /\ CL!HasWordsAt(kept, Before(KeptAt, pos))
    /\ CL!HasWordsAt(mountOpts, Before(OptsAt, pos))

\* Between two places of the parser no word of a set, ...
LEMMA NoneTaken ==
  ASSUME NEW S \in SUBSET Nat, NEW n \in Nat, NEW m \in Nat, n <= m,
         \A i \in (n + 1)..m : i \notin S
  PROVE  Before(S, m) = Before(S, n)
<1>1. \A i \in S : i <= m <=> i <= n
  OBVIOUS
<1> QED
  BY <1>1, Zenon DEF Before

\* ... or only the last one.
LEMMA OneTaken ==
  ASSUME NEW S \in SUBSET Nat, NEW n \in Nat, NEW m \in S, n < m,
         \A i \in (n + 1)..(m - 1) : i \notin S
  PROVE  Before(S, m) = Before(S, n) \cup {m}
<1>1. \A i \in S : i <= m <=> i <= n \/ i = m
  OBVIOUS
<1> QED
  BY <1>1 DEF Before

\* CommandLine counts as this module does.
LEMMA SameCount ==
  \A S : CL!Cardinality(S) = Cardinality(S)
BY DEF CL!Cardinality, Cardinality

\* One word more, behind the others.
LEMMA WordAppended ==
  ASSUME NEW T, NEW s \in Seq(T), NEW n \in Nat, NEW P \in SUBSET (1..n),
         NEW m \in Nat, n < m, argv[m] \in T, CL!HasWordsAt(s, P)
  PROVE  CL!HasWordsAt(Append(s, argv[m]), P \cup {m})
<1>1. IsFiniteSet(P)
  <2>1. IsFiniteSet(1..n)
    BY FS_Interval
  <2> QED
    BY <2>1, FS_Subset
<1>0. P \subseteq Nat /\ m \notin P /\ \A j \in P : j < m
  OBVIOUS
<1>2. Cardinality(P) \in Nat /\ Cardinality(P \cup {m}) = Cardinality(P) + 1
  BY <1>0, <1>1, FS_AddElement, FS_CardinalityType
<1>3. Len(s) = Cardinality(P) /\ \A i \in P : s[Cardinality({j \in P : j <= i})] = argv[i]
  BY SameCount DEF CL!HasWordsAt
<1>4. /\ Len(Append(s, argv[m])) = Len(s) + 1
      /\ Append(s, argv[m])[Len(s) + 1] = argv[m]
      /\ \A k \in 1..Len(s) : Append(s, argv[m])[k] = s[k]
  BY AppendProperties
<1>5. ASSUME NEW i \in P
      PROVE  Append(s, argv[m])[Cardinality({j \in P \cup {m} : j <= i})] = argv[i]
  <2>1. {j \in P \cup {m} : j <= i} = {j \in P : j <= i}
    BY <1>0
  <2> DEFINE R == {j \in P : j <= i}
  <2>2. R \in SUBSET P /\ R # {}
    OBVIOUS
  <2>3. Cardinality(R) \in 1..Cardinality(P)
    <3>1. IsFiniteSet(R) /\ Cardinality(R) <= Cardinality(P)
      BY <1>1, <2>2, FS_Subset
    <3>2. Cardinality(R) \in Nat /\ Cardinality(R) # 0
      BY <2>2, <3>1, FS_CardinalityType, FS_EmptySet
    <3> QED
      BY <1>2, <3>1, <3>2
  <2>4. s[Cardinality(R)] = argv[i]
    BY <1>3
  <2> HIDE DEF R
  <2>5. Append(s, argv[m])[Cardinality(R)] = argv[i]
    BY <1>3, <1>4, <2>3, <2>4
  <2> QED
    BY <2>1, <2>5 DEF R
<1>6. {j \in P \cup {m} : j <= m} = P \cup {m}
  <2>1. \A j \in P \cup {m} : j <= m
    BY <1>0
  <2> QED
    BY <2>1
<1>7. Append(s, argv[m])[Cardinality({j \in P \cup {m} : j <= m})] = argv[m]
  BY <1>2, <1>3, <1>4, <1>6
<1> QED
  BY <1>2, <1>3, <1>4, <1>5, <1>7, SameCount DEF CL!HasWordsAt

\* What the role of a word tells about its place.
LEMMA PlacesOf ==
  ASSUME Types, ArchiveFirst, NEW i \in 1..Len(argv)
  PROVE  /\ Min(Others) \in Others /\ \A j \in Others : Min(Others) <= j
         /\ Min(Others) \in 1..Len(argv)
         /\ CL!Role[i] \in {"password", "passfile", "-p", "-o"} =>
              i \notin Others /\ i \notin KeptAt /\ i \notin OptsAt
         /\ CL!Role[i] = "--" => i \notin Others /\ i \in KeptAt /\ i \notin OptsAt
         /\ CL!Role[i] = "option" =>
              /\ i \in OptsAt /\ i \notin KeptAt /\ i # Min(Others)
              /\ i \in Others <=> argv[i].says # "allow_other"
         /\ CL!Role[i] \in {"flag", "plain"} =>
              /\ i \in Others /\ i \notin OptsAt
              /\ i \in KeptAt <=> i # Min(Others)
         /\ CL!Role[i] = "flag" => i # Min(Others)
<1>1. DOMAIN argv = 1..Len(argv) /\ Len(argv) \in Nat
  BY Words
<1>2. Others \in SUBSET Nat /\ Others # {} /\ Others \subseteq 1..Len(argv)
  BY <1>1 DEF Others, ArchiveFirst
<1>3. Min(Others) \in Others /\ \A j \in Others : Min(Others) <= j
  BY <1>2, MinOf
<1>4. i \in Others <=> ~(\/ CL!Role[i] \in {"password", "passfile", "-p"}
                         \/ CL!Role[i] = "option" /\ argv[i].says = "allow_other"
                         \/ CL!Role[i] \in {"-o", "--"})
  BY <1>1 DEF Others, CL!OwnWords, CL!Ours
<1>5. CL!Role[Min(Others)] = "plain"
  BY DEF ArchiveFirst
<1>6. i \in KeptAt <=> CL!Role[i] \in {"flag", "plain", "--"} /\ i # Min(Others)
  BY <1>1 DEF KeptAt
<1>7. i \in OptsAt <=> CL!Role[i] = "option"
  BY <1>1 DEF OptsAt
<1>8. CL!Role[i] = "--" => i # Min(Others)
  BY <1>5
<1> QED
  BY <1>2, <1>3, <1>4, <1>5, <1>6, <1>7, <1>8

\* The sets of places depend on the command line only.
LEMMA SamePlaces ==
  ASSUME argv' = argv
  PROVE  /\ Passwords' = Passwords /\ Others' = Others
         /\ KeptAt' = KeptAt /\ OptsAt' = OptsAt
         /\ ArchiveFirst' = ArchiveFirst
BY SameRoles DEF Passwords, Others, KeptAt, OptsAt, ArchiveFirst, CL!OwnWords, CL!Ours,
                 CL!Empty

\* A password taken at m is the last so far.
LEMMA PasswordTaken ==
  ASSUME Types, NEW n \in Nat, NEW m \in Passwords, n < m,
         \A i \in (n + 1)..(m - 1) : i \notin Passwords
  PROVE  Before(Passwords, m) # {} /\ Max(Before(Passwords, m)) = m
<1>1. Passwords \in SUBSET Nat
  BY Words DEF Passwords
<1>2. Before(Passwords, m) \in SUBSET Nat /\ m \in Before(Passwords, m)
  <2>1. m <= m
    BY <1>1
  <2> QED
    BY <1>1, <2>1 DEF Before
<1>3. \A i \in Before(Passwords, m) : i <= m
  BY DEF Before
<1> QED
  BY <1>2, <1>3, MaxIs

\* The password stays the last one so far.
LEMMA PasswordStep ==
  ASSUME Types, ParserInv, PasswordInv, CL!Next
  PROVE  PasswordInv'
<1>1. /\ Len(argv) \in Nat /\ DOMAIN argv = 1..Len(argv)
      /\ pos \in 0..Len(argv) /\ pos \in Nat
  BY Words
<1>2. argv' = argv /\ Passwords' = Passwords
  BY Moves, SamePlaces
<1>3. Passwords \in SUBSET Nat
  BY <1>1 DEF Passwords
<1>4. \A i \in 1..Len(argv) : i \in Passwords <=> CL!Role[i] = "password"
  BY <1>1 DEF Passwords
<1>5. SUFFICES password' = IF Before(Passwords, pos') = {} THEN Unset
                           ELSE argv[Max(Before(Passwords, pos'))].says
  BY <1>2 DEF PasswordInv, Before
<1>6. ASSUME Before(Passwords, pos') = Before(Passwords, pos), password' = password
      PROVE  password' = IF Before(Passwords, pos') = {} THEN Unset
                         ELSE argv[Max(Before(Passwords, pos'))].says
  BY <1>6 DEF PasswordInv
<1>7. CASE CL!OwnOption
  <2>1. pos' = pos + 1 /\ pos < Len(argv) /\ CL!Role[pos + 1] = argv[pos + 1].kind
    BY <1>7, Moves, Taken
  <2>2. \/ argv[pos + 1].kind = "password" /\ password' = argv[pos + 1].says
        \/ argv[pos + 1].kind = "passfile" /\ password' = password
    BY <1>7 DEF CL!OwnOption, CL!Stored, CL!Word
  <2>3. CASE argv[pos + 1].kind = "password"
    <3>1. pos + 1 \in Passwords
      BY <1>1, <1>4, <2>1, <2>3
    <3>2. Before(Passwords, pos + 1) # {} /\ Max(Before(Passwords, pos + 1)) = pos + 1
      BY <1>1, <3>1, PasswordTaken
    <3> QED
      BY <2>1, <2>2, <2>3, <3>2
  <2>4. CASE argv[pos + 1].kind = "passfile"
    <3>1. pos + 1 \notin Passwords
      BY <1>1, <1>4, <2>1, <2>4
    <3>2. Before(Passwords, pos + 1) = Before(Passwords, pos)
      BY <1>1, <1>3, <3>1, NoneTaken
    <3> QED
      BY <1>6, <2>1, <2>2, <2>4, <3>2
  <2> QED
    BY <2>2, <2>3, <2>4
<1>8. CASE CL!OwnSeparate
  <2>1. /\ pos' = pos + 2 /\ pos + 2 <= Len(argv)
        /\ CL!Role[pos + 1] = "-p" /\ CL!Role[pos + 2] = "password"
    BY <1>8, Moves, Taken
  <2>2. password' = argv[pos + 2].says
    BY <1>8 DEF CL!OwnSeparate, CL!Stored
  <2>3. pos + 2 \in Passwords /\ pos + 1 \notin Passwords
    BY <1>1, <1>4, <2>1
  <2>4. Before(Passwords, pos + 2) # {} /\ Max(Before(Passwords, pos + 2)) = pos + 2
    BY <1>1, <2>3, PasswordTaken
  <2> QED
    BY <2>1, <2>2, <2>4
<1>9. CASE CL!MountOption
  <2>1. /\ pos' = pos + 2 /\ pos + 2 <= Len(argv)
        /\ CL!Role[pos + 1] = "-o" /\ CL!Role[pos + 2] = "option"
    BY <1>9, Moves, Taken
  <2>2. pos + 2 \notin Passwords /\ pos + 1 \notin Passwords
    BY <1>1, <1>4, <2>1
  <2>3. Before(Passwords, pos + 2) = Before(Passwords, pos)
    BY <1>1, <1>3, <2>2, NoneTaken
  <2>4. password' = password
    BY <1>9 DEF CL!MountOption, CL!given
  <2> QED
    BY <1>6, <2>1, <2>3, <2>4
<1>10. CASE CL!Flag \/ CL!DashDash \/ CL!NonOption
  <2>1. /\ pos' = pos + 1 /\ pos < Len(argv) /\ CL!Role[pos + 1] # "password"
    BY <1>10, Moves, Taken
  <2>2. pos + 1 \notin Passwords
    BY <1>1, <1>4, <2>1
  <2>3. Before(Passwords, pos + 1) = Before(Passwords, pos)
    BY <1>1, <1>3, <2>2, NoneTaken
  <2>4. password' = password
    BY <1>10 DEF CL!Flag, CL!DashDash, CL!NonOption, CL!given
  <2> QED
    BY <1>6, <2>1, <2>3, <2>4
<1>11. CASE CL!ValueMissing \/ CL!Finish
  <2>1. pos' = pos /\ password' = password
    BY <1>11 DEF CL!ValueMissing, CL!Finish, CL!given
  <2> QED
    BY <1>6, <2>1
<1> QED
  BY <1>7, <1>8, <1>9, <1>10, <1>11 DEF CL!Next

\* A word that reaches its place behind the words of the set before it.
LEMMA PlaceReached ==
  ASSUME Types, NEW s \in Seq(CL!ToSet(argv)), NEW n \in Nat, NEW S \in SUBSET Nat,
         NEW m \in S, n < m, m <= Len(argv),
         \A i \in (n + 1)..(m - 1) : i \notin S, 0 \notin S,
         CL!HasWordsAt(s, Before(S, n))
  PROVE  CL!HasWordsAt(Append(s, argv[m]), Before(S, m))
<1>1. Before(S, m) = Before(S, n) \cup {m}
  BY OneTaken
<1>2. Before(S, n) \in SUBSET (1..n)
  <2>1. \A i \in S : i <= n => i \in 1..n
    OBVIOUS
  <2> QED
    BY <2>1 DEF Before
<1>3. argv[m] \in CL!ToSet(argv) /\ m \in Nat
  BY Words
<1> DEFINE P == Before(S, n)
           T == CL!ToSet(argv)
<1>4. P \in SUBSET (1..n) /\ s \in Seq(T) /\ argv[m] \in T /\ CL!HasWordsAt(s, P)
  BY <1>2, <1>3
<1> HIDE DEF P, T
<1>5. CL!HasWordsAt(Append(s, argv[m]), P \cup {m})
  BY <1>3, <1>4, WordAppended
<1> QED
  BY <1>1, <1>5 DEF P

\* What process_arg does with the word at m, the first behind n that counts.
LEMMA ArgPlaced ==
  ASSUME Types, ArchiveFirst, NEW n \in Nat, NEW m \in 1..Len(argv), n < m,
         NEW iso \in BOOLEAN, CL!ProcessArg(argv[m], iso), outcome = "parsing",
         CL!Role[m] \in {"option", "flag", "plain"}, iso <=> CL!Role[m] = "option",
         \A i \in (n + 1)..(m - 1) : i \notin Others /\ i \notin KeptAt /\ i \notin OptsAt,
         n < Min(Others) => cliArgs = << >>,
         Min(Others) <= n => cliArgs # << >> /\ cliArgs[1] = argv[Min(Others)],
         CL!HasWordsAt(kept, Before(KeptAt, n)),
         CL!HasWordsAt(mountOpts, Before(OptsAt, n))
  PROVE  /\ outcome' = "parsing"
         /\ m < Min(Others) => cliArgs' = << >>
         /\ Min(Others) <= m => cliArgs' # << >> /\ cliArgs'[1] = argv[Min(Others)]
         /\ CL!HasWordsAt(kept', Before(KeptAt, m))
         /\ CL!HasWordsAt(mountOpts', Before(OptsAt, m))
<1> DEFINE first == Min(Others)
           w == argv[m]
<1>1. /\ Len(argv) \in Nat /\ DOMAIN argv = 1..Len(argv)
      /\ w \in CL!ToSet(argv)
      /\ cliArgs \in Seq(CL!ToSet(argv)) /\ kept \in Seq(CL!ToSet(argv))
      /\ mountOpts \in Seq(CL!ToSet(argv))
  BY Words DEF Types, CL!TypeOK
<1>2. /\ KeptAt \in SUBSET Nat /\ OptsAt \in SUBSET Nat
      /\ 0 \notin KeptAt /\ 0 \notin OptsAt
  BY <1>1 DEF KeptAt, OptsAt
<1>3. /\ first \in Others /\ first \in 1..Len(argv)
      /\ \A j \in Others : first <= j
      /\ CL!Role[m] = "option" =>
           /\ m \in OptsAt /\ m \notin KeptAt /\ m # first
           /\ m \in Others <=> w.says # "allow_other"
      /\ CL!Role[m] \in {"flag", "plain"} =>
           m \in Others /\ m \notin OptsAt /\ (m \in KeptAt <=> m # first)
      /\ CL!Role[m] = "flag" => m # first
  BY PlacesOf
<1>4. first <= n \/ first >= m
  BY <1>3
<1>5. m \in Others <=> ~CL!NotForUs(w, iso)
  BY <1>3 DEF CL!NotForUs
<1>6. w # CL!Empty
  <2>1. m \in Others => w # CL!Empty
    BY DEF ArchiveFirst
  <2>2. CL!NotForUs(w, iso) => w # CL!Empty
    <3>1. "" # "allow_other" /\ CL!Empty.says = ""
      BY DEF CL!Empty
    <3>2. CL!NotForUs(w, iso) => w.says = "allow_other"
      BY DEF CL!NotForUs
    <3> HIDE DEF w
    <3> QED
      BY <3>1, <3>2
  <2> QED
    BY <1>5, <2>1, <2>2
<1>7. outcome' = "parsing"
  BY <1>6 DEF CL!ProcessArg
<1>8. cliArgs' = IF CL!NotForUs(w, iso) THEN cliArgs ELSE Append(cliArgs, w)
  BY DEF CL!ProcessArg
<1>9. /\ kept' = IF (~CL!NotForUs(w, iso) /\ cliArgs = << >>) \/ iso THEN kept
                 ELSE Append(kept, w)
      /\ mountOpts' = IF (~CL!NotForUs(w, iso) /\ cliArgs = << >>) \/ ~iso THEN mountOpts
                      ELSE Append(mountOpts, w)
  BY DEF CL!ProcessArg
<1>10. m \notin KeptAt => Before(KeptAt, m) = Before(KeptAt, n)
  <2> SUFFICES ASSUME m \notin KeptAt PROVE Before(KeptAt, m) = Before(KeptAt, n)
    OBVIOUS
  <2>1. \A i \in (n + 1)..m : i \notin KeptAt
    OBVIOUS
  <2> QED
    BY <1>2, <2>1, NoneTaken
<1>11. m \notin OptsAt => Before(OptsAt, m) = Before(OptsAt, n)
  <2> SUFFICES ASSUME m \notin OptsAt PROVE Before(OptsAt, m) = Before(OptsAt, n)
    OBVIOUS
  <2>1. \A i \in (n + 1)..m : i \notin OptsAt
    OBVIOUS
  <2> QED
    BY <1>2, <2>1, NoneTaken
<1>12. m \in KeptAt => CL!HasWordsAt(Append(kept, w), Before(KeptAt, m))
  <2>1. \A i \in (n + 1)..(m - 1) : i \notin KeptAt
    OBVIOUS
  <2>2. m <= Len(argv)
    BY <1>1
  <2> SUFFICES ASSUME m \in KeptAt PROVE CL!HasWordsAt(Append(kept, argv[m]), Before(KeptAt, m))
    OBVIOUS
  <2> QED
    BY <1>1, <1>2, <2>1, <2>2, PlaceReached
<1>13. m \in OptsAt => CL!HasWordsAt(Append(mountOpts, w), Before(OptsAt, m))
  <2>1. \A i \in (n + 1)..(m - 1) : i \notin OptsAt
    OBVIOUS
  <2>2. m <= Len(argv)
    BY <1>1
  <2> SUFFICES ASSUME m \in OptsAt PROVE CL!HasWordsAt(Append(mountOpts, argv[m]), Before(OptsAt, m))
    OBVIOUS
  <2> QED
    BY <1>1, <1>2, <2>1, <2>2, PlaceReached
<1> HIDE DEF first, w
<1>14. n < first => cliArgs = << >>
  BY DEF first
<1>15. first <= n => cliArgs # << >> /\ cliArgs[1] = argv[first]
  BY DEF first
<1>16. CASE CL!NotForUs(w, iso)
  <2>1. iso /\ m \notin Others
    BY <1>5, <1>16 DEF CL!NotForUs
  <2>2. first # m
    BY <1>3, <2>1
  <2>3. cliArgs' = cliArgs /\ kept' = kept /\ mountOpts' = Append(mountOpts, w)
    BY <1>8, <1>9, <1>16, <2>1
  <2>4. m < first => n < first
    BY <1>3
  <2>5. first <= m => first <= n
    BY <1>3, <1>4, <2>2
  <2>6. (m < first => cliArgs' = << >>) /\ (first <= m => cliArgs' # << >> /\ cliArgs'[1] = argv[first])
    BY <1>14, <1>15, <2>3, <2>4, <2>5, Zenon
  <2>7. CL!HasWordsAt(kept', Before(KeptAt, m)) /\ CL!HasWordsAt(mountOpts', Before(OptsAt, m))
    BY <1>3, <1>10, <1>13, <2>1, <2>3
  <2> QED
    BY <1>7, <2>6, <2>7 DEF first
<1>17. CASE ~CL!NotForUs(w, iso) /\ cliArgs = << >>
  <2>1. m = first
    <3>1. ~(first <= n)
      BY <1>15, <1>17
    <3>2. first <= m
      BY <1>3, <1>5, <1>17
    <3> QED
      BY <1>3, <1>4, <3>1, <3>2
  <2>2. CL!Role[m] = "plain" /\ m \notin KeptAt /\ m \notin OptsAt
    BY <1>3, <2>1
  <2>3. kept' = kept /\ mountOpts' = mountOpts
    BY <1>9, <1>17
  <2>4. cliArgs' = Append(<< >>, w)
    BY <1>8, <1>17
  <2>5. cliArgs' # << >> /\ cliArgs'[1] = argv[first]
    BY <2>1, <2>4 DEF w
  <2>6. CL!HasWordsAt(kept', Before(KeptAt, m)) /\ CL!HasWordsAt(mountOpts', Before(OptsAt, m))
    BY <1>10, <1>11, <2>2, <2>3
  <2>7. ~(m < first)
    BY <1>3, <2>1
  <2> QED
    BY <1>7, <2>5, <2>6, <2>7 DEF first
<1>18. CASE ~CL!NotForUs(w, iso) /\ cliArgs # << >>
  <2>1. first <= n /\ m # first /\ ~(m < first)
    BY <1>3, <1>14, <1>18
  <2>2. cliArgs' = Append(cliArgs, w)
    BY <1>8, <1>18
  <2>3. cliArgs # << >> /\ cliArgs[1] = argv[first]
    BY <1>15, <2>1
  <2>4. cliArgs' # << >> /\ cliArgs'[1] = argv[first]
    <3>1. Len(cliArgs) \in Nat /\ Len(cliArgs) # 0
      BY <1>1, <2>3, LenProperties, EmptySeq
    <3>2. cliArgs'[1] = cliArgs[1] /\ Len(cliArgs') = Len(cliArgs) + 1
      BY <1>1, <2>2, <3>1, AppendProperties
    <3>3. cliArgs' # << >>
      BY <3>1, <3>2, EmptySeq
    <3> QED
      BY <2>3, <3>2, <3>3
  <2>5. CL!HasWordsAt(kept', Before(KeptAt, m)) /\ CL!HasWordsAt(mountOpts', Before(OptsAt, m))
    <3>1. CASE iso
      BY <1>3, <1>9, <1>10, <1>13, <1>18, <3>1
    <3>2. CASE ~iso
      <4>1. CL!Role[m] \in {"flag", "plain"} /\ m \in KeptAt /\ m \notin OptsAt
        BY <1>3, <2>1, <3>2
      <4>2. kept' = Append(kept, w) /\ mountOpts' = mountOpts
        BY <1>9, <1>18, <3>2
      <4> QED
        BY <1>11, <1>12, <4>1, <4>2
    <3> QED
      BY <3>1, <3>2
  <2> QED
    BY <1>7, <2>1, <2>4, <2>5 DEF first
<1> QED
  BY <1>16, <1>17, <1>18

\* The lists of words kept are compared with the command line only.
LEMMA SameWords ==
  ASSUME argv' = argv, KeptAt' = KeptAt, OptsAt' = OptsAt
  PROVE  /\ CL!HasWordsAt(kept, Before(KeptAt, pos))' <=>
              CL!HasWordsAt(kept', Before(KeptAt, pos'))
         /\ CL!HasWordsAt(mountOpts, Before(OptsAt, pos))' <=>
              CL!HasWordsAt(mountOpts', Before(OptsAt, pos'))
<1>1. /\ Before(KeptAt, pos)' = Before(KeptAt, pos')
      /\ Before(OptsAt, pos)' = Before(OptsAt, pos')
  BY DEF Before
<1> QED
  BY <1>1, Zenon DEF CL!HasWordsAt

\* Every word reaches its place behind the archive.
LEMMA ArchiveStep ==
  ASSUME Types, ParserInv, ArchiveInv, CL!Next
  PROVE  ArchiveInv'
<1> DEFINE first == Min(Others)
           Placed(out, p, args, k, o) ==
             /\ out \notin {"parsing", "error"} => p = Len(argv)
             /\ p < first => args = << >>
             /\ first <= p => args # << >> /\ args[1] = argv[first]
             /\ CL!HasWordsAt(k, Before(KeptAt, p))
             /\ CL!HasWordsAt(o, Before(OptsAt, p))
<1>1. /\ Len(argv) \in Nat /\ DOMAIN argv = 1..Len(argv)
      /\ pos \in 0..Len(argv) /\ pos \in Nat
      /\ \A i \in 1..Len(argv) : argv[i] \in CL!ToSet(argv)
      /\ kept \in Seq(CL!ToSet(argv))
  <2>1. kept \in Seq(CL!ToSet(argv))
    BY DEF Types, CL!TypeOK
  <2> QED
    BY <2>1, Words
<1>2. /\ argv' = argv /\ outcome = "parsing"
      /\ Others' = Others /\ KeptAt' = KeptAt /\ OptsAt' = OptsAt
      /\ ArchiveFirst' = ArchiveFirst
  BY Moves, SamePlaces
<1>3. SUFFICES ASSUME ArchiveFirst
               PROVE  Placed(outcome', pos', cliArgs', kept', mountOpts')
  <2>1. /\ argv' = argv /\ Min(Others)' = first
        /\ CL!HasWordsAt(kept, Before(KeptAt, pos))' <=>
             CL!HasWordsAt(kept', Before(KeptAt, pos'))
        /\ CL!HasWordsAt(mountOpts, Before(OptsAt, pos))' <=>
             CL!HasWordsAt(mountOpts', Before(OptsAt, pos'))
    BY <1>2, SameWords
  <2> QED
    BY <1>2, <2>1 DEF ArchiveInv
<1>4. Placed(outcome, pos, cliArgs, kept, mountOpts)
  BY <1>3 DEF ArchiveInv
<1>5. /\ KeptAt \in SUBSET Nat /\ OptsAt \in SUBSET Nat
      /\ 0 \notin KeptAt /\ 0 \notin OptsAt
  BY <1>1 DEF KeptAt, OptsAt
<1>6. first \in Nat /\ first \in Others
  <2>1. Others \in SUBSET Nat /\ Others # {}
    BY <1>1, <1>3 DEF Others, ArchiveFirst
  <2> QED
    BY <2>1, MinOf
<1> HIDE DEF first
<1>7. ASSUME NEW p \in Nat, pos <= p, p <= Len(argv), outcome' \in {"parsing", "error"},
             UNCHANGED <<cliArgs, kept, mountOpts>>, pos' = p,
             \A i \in (pos + 1)..p :
               CL!Role[i] \in {"password", "passfile", "-p", "-o"}
      PROVE  Placed(outcome', pos', cliArgs', kept', mountOpts')
  <2>1. \A i \in (pos + 1)..p : i \in 1..Len(argv)
    BY <1>1, <1>7
  <2>2. \A i \in (pos + 1)..p : i \notin Others /\ i \notin KeptAt /\ i \notin OptsAt
    BY <1>3, <1>7, <2>1, PlacesOf
  <2>3. Before(KeptAt, p) = Before(KeptAt, pos) /\ Before(OptsAt, p) = Before(OptsAt, pos)
    BY <1>1, <1>5, <1>7, <2>2, NoneTaken
  <2>4. (p < first => pos < first) /\ (first <= p => first <= pos)
    <3>1. first \notin (pos + 1)..p
      BY <1>6, <2>2
    <3> QED
      BY <1>1, <1>6, <1>7, <3>1
  <2> QED
    BY <1>4, <1>7, <2>3, <2>4
<1>8. CASE CL!OwnOption
  <2>1. /\ pos' = pos + 1 /\ pos < Len(argv)
        /\ CL!Role[pos + 1] \in {"password", "passfile"}
    BY <1>8, Moves, Taken
  <2>2. UNCHANGED <<cliArgs, kept, mountOpts, outcome>>
    BY <1>8 DEF CL!OwnOption
  <2>3. \A i \in (pos + 1)..(pos + 1) : i = pos + 1
    BY <1>1
  <2> HIDE DEF Placed
  <2> QED
    BY <1>1, <1>2, <1>7, <2>1, <2>2, <2>3
<1>9. CASE CL!OwnSeparate
  <2>1. /\ pos' = pos + 2 /\ pos + 2 <= Len(argv)
        /\ CL!Role[pos + 1] = "-p" /\ CL!Role[pos + 2] = "password"
    BY <1>9, Moves, Taken
  <2>2. UNCHANGED <<cliArgs, kept, mountOpts, outcome>>
    BY <1>9 DEF CL!OwnSeparate
  <2>3. \A i \in (pos + 1)..(pos + 2) : i = pos + 1 \/ i = pos + 2
    BY <1>1
  <2> HIDE DEF Placed
  <2> QED
    BY <1>1, <1>2, <1>7, <2>1, <2>2, <2>3
<1>10. CASE CL!MountOption
  <2>1. /\ pos' = pos + 2 /\ pos + 2 <= Len(argv) /\ pos + 2 \in 1..Len(argv)
        /\ CL!Role[pos + 1] = "-o" /\ CL!Role[pos + 2] = "option"
    BY <1>1, <1>10, Moves, Taken
  <2>2. CL!ProcessArg(argv[pos + 2], TRUE)
    BY <1>10 DEF CL!MountOption
  <2>3. pos + 1 \notin Others /\ pos + 1 \notin KeptAt /\ pos + 1 \notin OptsAt
    <3>1. pos + 1 \in 1..Len(argv)
      BY <1>1, <2>1
    <3> QED
      BY <1>3, <2>1, <3>1, PlacesOf
  <2>4. \A i \in (pos + 1)..((pos + 2) - 1) : i = pos + 1
    BY <1>1
  <2>5. /\ outcome' = "parsing"
        /\ pos + 2 < first => cliArgs' = << >>
        /\ first <= pos + 2 => cliArgs' # << >> /\ cliArgs'[1] = argv[first]
        /\ CL!HasWordsAt(kept', Before(KeptAt, pos + 2))
        /\ CL!HasWordsAt(mountOpts', Before(OptsAt, pos + 2))
    <3> DEFINE m == pos + 2
    <3>0. pos < m
      BY <1>1
    <3>1. m \in 1..Len(argv) /\ CL!ProcessArg(argv[m], TRUE) /\ CL!Role[m] = "option"
      BY <2>1, <2>2, Zenon
    <3>2. \A i \in (pos + 1)..(m - 1) : i \notin Others /\ i \notin KeptAt /\ i \notin OptsAt
      BY <2>3, <2>4
    <3> HIDE DEF m
    <3>3. /\ outcome' = "parsing"
          /\ m < first => cliArgs' = << >>
          /\ first <= m => cliArgs' # << >> /\ cliArgs'[1] = argv[first]
          /\ CL!HasWordsAt(kept', Before(KeptAt, m))
          /\ CL!HasWordsAt(mountOpts', Before(OptsAt, m))
      BY <1>1, <1>2, <1>3, <1>4, <3>0, <3>1, <3>2, ArgPlaced DEF first
    <3> QED
      BY <3>3 DEF m
  <2> QED
    BY <2>1, <2>5
<1>11. CASE CL!Flag \/ CL!NonOption
  <2>1. /\ pos' = pos + 1 /\ pos < Len(argv) /\ pos + 1 \in 1..Len(argv)
        /\ CL!Role[pos + 1] \in {"flag", "plain"}
    BY <1>1, <1>11, Moves, Taken
  <2>2. CL!ProcessArg(argv[pos + 1], FALSE)
    BY <1>11 DEF CL!Flag, CL!NonOption, CL!Word
  <2>3. \A i \in (pos + 1)..((pos + 1) - 1) : FALSE
    BY <1>1
  <2>4. /\ outcome' = "parsing"
        /\ pos + 1 < first => cliArgs' = << >>
        /\ first <= pos + 1 => cliArgs' # << >> /\ cliArgs'[1] = argv[first]
        /\ CL!HasWordsAt(kept', Before(KeptAt, pos + 1))
        /\ CL!HasWordsAt(mountOpts', Before(OptsAt, pos + 1))
    <3> DEFINE m == pos + 1
    <3>0. pos < m
      BY <1>1
    <3>1. /\ m \in 1..Len(argv) /\ CL!ProcessArg(argv[m], FALSE)
          /\ CL!Role[m] \in {"flag", "plain"}
      BY <2>1, <2>2, Zenon
    <3>2. \A i \in (pos + 1)..(m - 1) : i \notin Others /\ i \notin KeptAt /\ i \notin OptsAt
      BY <2>3
    <3> HIDE DEF m
    <3>3. /\ outcome' = "parsing"
          /\ m < first => cliArgs' = << >>
          /\ first <= m => cliArgs' # << >> /\ cliArgs'[1] = argv[first]
          /\ CL!HasWordsAt(kept', Before(KeptAt, m))
          /\ CL!HasWordsAt(mountOpts', Before(OptsAt, m))
      BY <1>1, <1>2, <1>3, <1>4, <3>0, <3>1, <3>2, ArgPlaced DEF first
    <3> QED
      BY <3>3 DEF m
  <2> QED
    BY <2>1, <2>4
<1>12. CASE CL!DashDash
  <2>1. /\ pos' = pos + 1 /\ pos < Len(argv) /\ pos + 1 \in 1..Len(argv)
        /\ CL!Role[pos + 1] = "--"
    BY <1>1, <1>12, Moves, Taken
  <2>2. /\ kept' = Append(kept, argv[pos + 1])
        /\ UNCHANGED <<cliArgs, mountOpts, outcome>>
    BY <1>12 DEF CL!DashDash, CL!Word
  <2>3. pos + 1 \notin Others /\ pos + 1 \in KeptAt /\ pos + 1 \notin OptsAt
    BY <1>3, <2>1, PlacesOf
  <2>4. CL!HasWordsAt(kept', Before(KeptAt, pos + 1))
    <3>1. \A i \in (pos + 1)..((pos + 1) - 1) : i \notin KeptAt
      BY <1>1
    <3> DEFINE m == pos + 1
    <3>2. m \in KeptAt /\ pos < m /\ m <= Len(argv)
      BY <1>1, <2>1, <2>3
    <3>3. \A i \in (pos + 1)..(m - 1) : i \notin KeptAt
      BY <3>1
    <3> HIDE DEF m
    <3>4. CL!HasWordsAt(Append(kept, argv[m]), Before(KeptAt, m))
      BY <1>1, <1>4, <1>5, <3>2, <3>3, PlaceReached
    <3> QED
      BY <2>2, <3>4 DEF m
  <2>5. Before(OptsAt, pos + 1) = Before(OptsAt, pos)
    <3>1. \A i \in (pos + 1)..(pos + 1) : i \notin OptsAt
      BY <1>1, <2>3
    <3> QED
      BY <1>1, <1>5, <3>1, NoneTaken
  <2>6. (pos + 1 < first => pos < first) /\ (first <= pos + 1 => first <= pos)
    <3>1. first # pos + 1
      BY <1>6, <2>3
    <3> QED
      BY <1>1, <1>6, <3>1
  <2> QED
    BY <1>2, <1>4, <2>1, <2>2, <2>4, <2>5, <2>6
<1>13. CASE CL!ValueMissing
  BY <1>4, <1>13 DEF CL!ValueMissing
<1>14. CASE CL!Finish
  BY <1>4, <1>14 DEF CL!Finish
<1> QED
  BY <1>8, <1>9, <1>10, <1>11, <1>12, <1>13, <1>14 DEF CL!Next

-----------------------------------------------------------------------------
(***************************************************************************)
(* The source of the password.                                             *)
(***************************************************************************)
FileTyped == file \in [File -> PW!Text \cup {Unset}]

\* What is known of the source, stage by stage.  Until it is asked for the
\* opening, a file has not been read; from then to the extractions, what the
\* archive was opened with is what the source holds.
SourceInv ==
  /\ source = [kind |-> source.kind, path |-> source.path, text |-> source.text]
  /\ pc # "choose" => outcome = "serve"
  /\ pc = "choose" => source = PW!StringText(PW!EmptyText)
  /\ pc \in {"choose", "thrown", "open"} =>
       /\ opened = Unset /\ reads = 0
       /\ source.kind = "file" => source.text = PW!EmptyText
  /\ pc \in {"execute", "failed"} => opened = source.text /\ reads \in 0..1
  /\ pc = "terminated" => reads \in 0..1
  /\ source.kind = "string" /\ opened # Unset => opened = source.text
  /\ password # Unset /\ pc # "choose" =>
       source.kind = "string" /\ source.text = <<password, 0>>

SourceOK == PW!TypeOK /\ FileTyped /\ SourceInv /\ PW!OnePassword

\* No source is chosen before the command line is read.
LEMMA SourceInit ==
  ASSUME argv \in CommandLines, PW!Init
  PROVE  SourceOK
<1>1. PICK w \in Worlds(argv) : file = w.file
  BY DEF PW!Init
<1>2. w \in PW!World
  BY <1>1, ParamsAssumption
<1>3. FileTyped
  BY <1>1, <1>2 DEF FileTyped, PW!World
<1>4. /\ source = [kind |-> "string", path |-> Unset, text |-> PW!EmptyText]
      /\ opened = Unset /\ reads = 0 /\ pc = "choose"
  BY DEF PW!Init, PW!StringText
<1>5. PW!TypeOK /\ PW!OnePassword
  BY <1>4 DEF PW!TypeOK, PW!OnePassword
<1>6. SourceInv
  BY <1>4 DEF SourceInv, PW!StringText
<1> QED
  BY <1>3, <1>5, <1>6 DEF SourceOK

\* The empty password is a text.
LEMMA EmptyIsText ==
  PW!EmptyText \in PW!Text
<1>1. "" \in Says
  BY ParamsAssumption, Zenon
<1>2. 0 \in 0..1
  OBVIOUS
<1> QED
  BY <1>1, <1>2 DEF PW!EmptyText, PW!Text

\* What a file yields is a text.
LEMMA Answer ==
  ASSUME SourceOK, source.kind = "file"
  PROVE  PW!Gotten \in PW!Text
<1>1. source.path \in File /\ source.text \in PW!Text
  BY DEF SourceOK, PW!TypeOK
<1>2. PW!EmptyText \in PW!Text
  BY EmptyIsText
<1>3. PW!Content(source.path) \in PW!Text
  BY <1>1, <1>2 DEF SourceOK, FileTyped, PW!Content
<1>4. \A t \in PW!Text : PW!Chomp(t) \in PW!Text
  <2>1. ASSUME NEW t \in Says \X (0..1) PROVE <<t[1], 0>> \in Says \X (0..1)
    <3>1. 0 \in 0..1
      OBVIOUS
    <3> QED
      BY <3>1
  <2> QED
    BY <2>1 DEF PW!Chomp, PW!Text
<1> QED
  BY <1>1, <1>3, <1>4 DEF PW!Gotten

\* Asking the source changes its text alone.
LEMMA Asked ==
  ASSUME SourceOK, PW!Get
  PROVE  /\ source' = [kind |-> source.kind, path |-> source.path, text |-> PW!Gotten]
         /\ reads' = IF PW!Reads THEN reads + 1 ELSE reads
         /\ PW!Reads => source.kind = "file" /\ source.text = PW!EmptyText
         /\ ~PW!Reads => PW!Gotten = source.text
<1>1. /\ source = [kind |-> source.kind, path |-> source.path, text |-> source.text]
      /\ reads \in 0..2
  BY DEF SourceOK, SourceInv, PW!TypeOK
<1>2. source' = [source EXCEPT !.text = PW!Gotten]
  BY DEF PW!Get
<1>3. source' = [kind |-> source.kind, path |-> source.path, text |-> PW!Gotten]
  BY <1>1, <1>2
<1>4. reads' = reads + (IF PW!Reads THEN 1 ELSE 0)
  BY DEF PW!Get
<1>5. reads' = IF PW!Reads THEN reads + 1 ELSE reads
  BY <1>1, <1>4
<1> QED
  BY <1>3, <1>5 DEF PW!Reads, PW!Gotten

\* The five ways in which the choice ends.
LEMMA ChoiceOf ==
  ASSUME SourceOK, pc = "choose"
  PROVE  /\ PW!Chosen = [kind |-> PW!Chosen.kind, path |-> PW!Chosen.path, text |-> PW!Chosen.text]
         /\ \/ PW!Chosen.kind = "string" /\ PW!Chosen.path = Unset
            \/ /\ PW!Chosen.kind = "file" /\ PW!Chosen.path \in File
               /\ PW!Chosen.text = PW!EmptyText /\ password = Unset
         /\ password # Unset =>
              PW!Chosen.kind = "string" /\ PW!Chosen.text = <<password, 0>>
<1>1. source = [kind |-> "string", path |-> Unset, text |-> PW!EmptyText]
  BY DEF SourceOK, SourceInv, PW!StringText
<1>2. CASE password # Unset
  BY <1>2 DEF PW!Chosen, PW!String, PW!StringText
<1>3. CASE password = Unset /\ passfile = "-"
  BY <1>3 DEF PW!Chosen, PW!StringText
<1>4. CASE password = Unset /\ passfile # "-" /\ PW!Regular(passfile)
  <2>1. passfile \in File
    BY <1>4 DEF PW!Regular
  <2>2. PW!Chosen = PW!PassFile(passfile)
    BY <1>4 DEF PW!Chosen
  <2> QED
    BY <1>4, <2>1, <2>2 DEF PW!PassFile
<1>5. CASE password = Unset /\ passfile # "-" /\ ~PW!Regular(passfile)
  <2>1. CASE envPassword # Unset
    <3>1. PW!Chosen = PW!String(envPassword)
      BY <1>5, <2>1 DEF PW!Chosen
    <3> QED
      BY <1>5, <3>1 DEF PW!String, PW!StringText
  <2>2. CASE envPassword = Unset /\ PW!Regular(envPassfile)
    <3>1. envPassfile \in File
      BY <2>2 DEF PW!Regular
    <3>2. PW!Chosen = PW!PassFile(envPassfile)
      BY <1>5, <2>2 DEF PW!Chosen
    <3> QED
      BY <1>5, <3>1, <3>2 DEF PW!PassFile
  <2>3. CASE envPassword = Unset /\ ~PW!Regular(envPassfile)
    <3>1. PW!Chosen = source
      BY <1>5, <2>3 DEF PW!Chosen
    <3> QED
      BY <1>1, <1>5, <3>1
  <2> QED
    BY <2>1, <2>2, <2>3
<1> QED
  BY <1>2, <1>3, <1>4, <1>5

\* Every step of the password source keeps its invariant.
LEMMA SourceStep ==
  ASSUME SourceOK, outcome = "serve", outcome' = "serve", PW!Next
  PROVE  SourceOK'
<1>1. /\ source = [kind |-> source.kind, path |-> source.path, text |-> source.text]
      /\ source.kind \in {"string", "file"}
      /\ source.path \in File \cup {Unset}
      /\ source.kind = "file" => source.path \in File /\ source.text \in PW!Text
      /\ reads \in 0..2 /\ FileTyped
  BY DEF SourceOK, PW!TypeOK, SourceInv
<1>2. UNCHANGED password /\ (PW!Choose \/ PW!LookFails \/ PW!Open \/ PW!Execute \/ PW!CannotRun
                              => file' = file)
  BY DEF PW!Next, PW!Choose, PW!LookFails, PW!Open, PW!Execute, PW!CannotRun,
         PW!FileChanges, PW!given
<1>3. PW!EmptyText \in PW!Text
  BY EmptyIsText
<1>4. PW!Text' = PW!Text /\ PW!EmptyText' = PW!EmptyText
  BY DEF PW!Text, PW!EmptyText
<1>5. CASE PW!Choose
  <2>1. /\ pc = "choose" /\ pc' = "open" /\ source' = PW!Chosen
        /\ UNCHANGED <<opened, extracts, reads>>
    BY <1>5 DEF PW!Choose
  <2>2. opened = Unset /\ reads = 0
    BY <2>1 DEF SourceOK, SourceInv
  <2> DEFINE c == PW!Chosen
  <2>3. /\ c = [kind |-> c.kind, path |-> c.path, text |-> c.text]
        /\ \/ c.kind = "string" /\ c.path = Unset
           \/ /\ c.kind = "file" /\ c.path \in File
              /\ c.text = PW!EmptyText /\ password = Unset
        /\ password # Unset => c.kind = "string" /\ c.text = <<password, 0>>
    BY <2>1, ChoiceOf
  <2>4. source' = c
    BY <2>1
  <2> HIDE DEF c
  <2>5. PW!TypeOK'
    BY <1>3, <2>1, <2>2, <2>3, <2>4 DEF PW!TypeOK
  <2>6. SourceInv'
    BY <1>2, <1>4, <2>1, <2>2, <2>3, <2>4 DEF SourceInv
  <2>7. PW!OnePassword'
    BY <2>1, <2>2 DEF PW!OnePassword
  <2> QED
    BY <1>1, <1>2, <1>5, <2>5, <2>6, <2>7 DEF SourceOK, FileTyped
<1>6. ASSUME PW!Get
      PROVE  /\ source'.kind = source.kind /\ source'.path = source.path
             /\ source'.text = PW!Gotten
             /\ source' = [kind |-> source'.kind, path |-> source'.path, text |-> source'.text]
             /\ source.kind = "file" => source'.text \in PW!Text
             /\ reads' = IF PW!Reads THEN reads + 1 ELSE reads
             /\ PW!Reads => source.kind = "file" /\ source.text = PW!EmptyText
             /\ ~PW!Reads => source'.text = source.text
  BY <1>6, Asked, Answer
<1>7. CASE PW!Open
  <2>1. /\ pc = "open" /\ PW!Get /\ opened' = PW!Gotten
        /\ pc' \in {"execute", "failed"} /\ UNCHANGED extracts
    BY <1>7 DEF PW!Open
  <2>2. reads = 0
    BY <2>1 DEF SourceOK, SourceInv
  <2>3. password # Unset => source.kind = "string" /\ source.text = <<password, 0>>
    BY <2>1 DEF SourceOK, SourceInv
  <2>4. reads' \in 0..1
    BY <1>6, <2>1, <2>2
  <2>5. PW!TypeOK'
    BY <1>1, <1>6, <2>1, <2>4 DEF PW!TypeOK
  <2>6. SourceInv'
    BY <1>1, <1>2, <1>6, <2>1, <2>3, <2>4 DEF SourceInv
  <2>7. PW!OnePassword'
    BY <2>1, <2>4 DEF PW!OnePassword
  <2> QED
    BY <1>1, <1>2, <1>7, <2>5, <2>6, <2>7 DEF SourceOK, FileTyped
<1>8. CASE PW!Execute
  <2>1. /\ pc = "execute" /\ PW!Get /\ extracts' = PW!Gotten
        /\ pc' = "serve" /\ UNCHANGED opened
    BY <1>8 DEF PW!Execute
  <2>2. opened = source.text /\ reads \in 0..1
    BY <2>1 DEF SourceOK, SourceInv
  <2>3. password # Unset => source.kind = "string" /\ source.text = <<password, 0>>
    BY <2>1 DEF SourceOK, SourceInv
  <2>4. reads' \in 0..2 /\ (reads' > 1 => PW!Reads)
    BY <1>6, <2>1, <2>2
  <2>5. PW!TypeOK'
    BY <1>1, <1>6, <2>1, <2>4 DEF PW!TypeOK
  <2>6. SourceInv'
    BY <1>1, <1>2, <1>6, <2>1, <2>2, <2>3, <2>4 DEF SourceInv
  <2>7. PW!OnePassword'
    BY <1>4, <1>6, <2>1, <2>2, <2>4 DEF PW!OnePassword
  <2> QED
    BY <1>1, <1>2, <1>8, <2>5, <2>6, <2>7 DEF SourceOK, FileTyped
<1>9. CASE PW!CannotRun
  <2>1. /\ pc \in {"open", "execute"} /\ pc' = "terminated"
        /\ UNCHANGED <<source, opened, extracts, reads>>
    BY <1>9 DEF PW!CannotRun
  <2>2. reads \in 0..1
    BY <2>1 DEF SourceOK, SourceInv
  <2>3. PW!TypeOK'
    BY <1>1, <2>1 DEF PW!TypeOK
  <2>4. SourceInv'
    <3>1. source.kind = "string" /\ opened # Unset => opened = source.text
      BY DEF SourceOK, SourceInv
    <3>2. password # Unset => source.kind = "string" /\ source.text = <<password, 0>>
      BY <2>1 DEF SourceOK, SourceInv
    <3> QED
      BY <1>1, <1>2, <2>1, <2>2, <3>1, <3>2 DEF SourceInv
  <2>5. PW!OnePassword'
    BY <2>1, <2>2 DEF PW!OnePassword
  <2> QED
    BY <1>1, <1>2, <1>9, <2>3, <2>4, <2>5 DEF SourceOK, FileTyped
<1>10. CASE PW!LookFails
  <2>1. /\ pc = "choose" /\ pc' = "thrown" /\ password = Unset
        /\ UNCHANGED <<source, opened, extracts, reads>>
    BY <1>10 DEF PW!LookFails
  <2>2. /\ opened = Unset /\ reads = 0
        /\ source = PW!StringText(PW!EmptyText)
    BY <2>1 DEF SourceOK, SourceInv
  <2>3. PW!TypeOK'
    BY <1>1, <2>1 DEF PW!TypeOK
  <2>4. SourceInv'
    BY <1>1, <1>2, <2>1, <2>2 DEF SourceInv, PW!StringText
  <2>5. PW!OnePassword'
    BY <2>1, <2>2 DEF PW!OnePassword
  <2> QED
    BY <1>1, <1>2, <1>10, <2>3, <2>4, <2>5 DEF SourceOK, FileTyped
<1>11. CASE PW!FileChanges
  <2>1. /\ \E t \in PW!Text \cup {Unset} : file' = [file EXCEPT ![source.path] = t]
        /\ UNCHANGED <<source, opened, extracts, reads, pc>>
    BY <1>11 DEF PW!FileChanges
  <2>2. FileTyped'
    BY <1>1, <1>4, <2>1 DEF FileTyped
  <2>3. PW!TypeOK' /\ PW!OnePassword'
    BY <2>1 DEF SourceOK, PW!TypeOK, PW!OnePassword
  <2>4. SourceInv'
    <3>1. SourceInv
      BY DEF SourceOK
    <3> QED
      BY <1>2, <2>1, <3>1 DEF SourceInv
  <2> QED
    BY <2>2, <2>3, <2>4 DEF SourceOK
<1> QED
  BY <1>5, <1>7, <1>8, <1>9, <1>10, <1>11 DEF PW!Next

-----------------------------------------------------------------------------
(***************************************************************************)
(* Together.                                                               *)
(***************************************************************************)
ParamsInv == Types /\ ParserInv /\ PasswordInv /\ ArchiveInv /\ SourceOK

\* The invariant holds at the start.
LEMMA ParamsInit ==
  Init => ParamsInv
<1> SUFFICES ASSUME Init PROVE ParamsInv
  OBVIOUS
<1>1. CL!Init /\ PW!Init /\ argv \in CommandLines
  BY DEF Init, CL!Init
<1>2. /\ pos = 0 /\ literal = FALSE /\ allowOther = FALSE
      /\ cliArgs = << >> /\ kept = << >> /\ mountOpts = << >>
      /\ password = Unset /\ passfile = Unset /\ outcome = "parsing"
  BY <1>1 DEF CL!Init
<1>3. /\ argv \in Seq(CL!ToSet(argv)) /\ Len(argv) \in Nat
      /\ DOMAIN argv = 1..Len(argv)
  <2>1. argv \in Seq(CL!ToSet(argv))
    BY <1>1, ParamsAssumption DEF ToSet, CL!ToSet
  <2> QED
    BY <2>1, LenProperties
<1>4. Types
  <2>1. pos \in 0..Len(argv)
    BY <1>2, <1>3
  <2>2. /\ cliArgs \in Seq(CL!ToSet(argv)) /\ kept \in Seq(CL!ToSet(argv))
        /\ mountOpts \in Seq(CL!ToSet(argv))
    BY <1>2, EmptySeq
  <2>3. {password, passfile} \subseteq {Unset} \cup {argv[i].says : i \in DOMAIN argv}
    BY <1>2
  <2> QED
    BY <1>1, <1>2, <2>1, <2>2, <2>3 DEF Types, CL!TypeOK
<1>5. ParserInv
  BY <1>2 DEF ParserInv
<1>6. PasswordInv
  <2>1. \A i \in 1..Len(argv) : ~(i <= 0)
    BY <1>3
  <2>2. Before(Passwords, 0) = {}
    BY <1>3, <2>1 DEF Before, Passwords
  <2> QED
    BY <1>2, <2>2 DEF PasswordInv
<1>7. ArchiveInv
  <2> SUFFICES ASSUME ArchiveFirst PROVE ArchiveInv
    BY DEF ArchiveInv
  <2>1. \A i \in 1..Len(argv) : ~(i <= 0)
    BY <1>3
  <2>2. Before(KeptAt, 0) = {} /\ Before(OptsAt, 0) = {}
    BY <1>3, <2>1 DEF Before, KeptAt, OptsAt
  <2>3. CL!HasWordsAt(<< >>, {})
    BY SameCount, FS_EmptySet DEF CL!HasWordsAt
  <2>4. ~(Min(Others) <= 0)
    <3>1. Others \in SUBSET Nat /\ Others # {} /\ Others \subseteq 1..Len(argv)
      BY <1>3 DEF Others, ArchiveFirst
    <3>2. Min(Others) \in Others
      BY <3>1, MinOf
    <3> QED
      BY <2>1, <3>1, <3>2
  <2> QED
    BY <1>2, <2>2, <2>3, <2>4 DEF ArchiveInv
<1> QED
  BY <1>1, <1>4, <1>5, <1>6, <1>7, SourceInit DEF ParamsInv

\* The process asks for a password only when it has been told to go on, and
\* then it has done with the command line.
LEMMA ParamsStep ==
  ParamsInv /\ [Next]_vars => ParamsInv'
<1> SUFFICES ASSUME ParamsInv, [Next]_vars PROVE ParamsInv'
  OBVIOUS
<1>1. Types /\ ParserInv /\ PasswordInv /\ ArchiveInv /\ SourceOK
  BY DEF ParamsInv
<1>2. ASSUME UNCHANGED <<argv, password, passfile, parser>>
      PROVE  Types' /\ ParserInv' /\ PasswordInv' /\ ArchiveInv'
  <2>1. /\ argv' = argv /\ pos' = pos /\ literal' = literal /\ cliArgs' = cliArgs
        /\ kept' = kept /\ mountOpts' = mountOpts /\ allowOther' = allowOther
        /\ outcome' = outcome /\ password' = password /\ passfile' = passfile
    BY <1>2 DEF parser
  <2>2. CL!Role' = CL!Role
    BY <2>1, SameRoles
  <2>3. /\ Passwords' = Passwords /\ Others' = Others /\ KeptAt' = KeptAt
        /\ OptsAt' = OptsAt /\ ArchiveFirst' = ArchiveFirst
    BY <2>1, SamePlaces
  <2>4. Types'
    BY <1>1, <2>1 DEF Types, CL!TypeOK
  <2>5. ParserInv'
    <3>1. CL!MountPointIsBad' = CL!MountPointIsBad
          /\ CL!Positional(kept)' = CL!Positional(kept)
      BY <2>1 DEF CL!MountPointIsBad, CL!Positional, CL!Marker
    <3> QED
      BY <1>1, <2>1, <2>2, <3>1 DEF ParserInv, CL!Empty
  <2>6. PasswordInv'
    BY <1>1, <2>1, <2>3 DEF PasswordInv, Before
  <2>7. ArchiveInv'
    <3>1. /\ CL!HasWordsAt(kept, Before(KeptAt, pos))' <=>
               CL!HasWordsAt(kept, Before(KeptAt, pos))
          /\ CL!HasWordsAt(mountOpts, Before(OptsAt, pos))' <=>
               CL!HasWordsAt(mountOpts, Before(OptsAt, pos))
      BY <2>1, <2>3, SameWords
    <3> QED
      BY <1>1, <2>1, <2>3, <3>1 DEF ArchiveInv
  <2> QED
    BY <2>4, <2>5, <2>6, <2>7
<1>3. ASSUME UNCHANGED asked, UNCHANGED <<password, passfile, outcome>> \/ pc = "choose"
      PROVE  SourceOK'
  <2>1. /\ envPassword' = envPassword /\ envPassfile' = envPassfile /\ stdin' = stdin
        /\ file' = file /\ source' = source /\ opened' = opened
        /\ extracts' = extracts /\ reads' = reads /\ pc' = pc
    BY <1>3 DEF asked
  <2>2. PW!TypeOK' /\ PW!OnePassword' /\ FileTyped'
    BY <1>1, <2>1 DEF SourceOK, PW!TypeOK, PW!OnePassword, FileTyped, PW!Text,
                      PW!EmptyText
  <2>3. PW!StringText(PW!EmptyText)' = PW!StringText(PW!EmptyText)
        /\ PW!EmptyText' = PW!EmptyText
    BY DEF PW!StringText, PW!EmptyText
  <2>4. SourceInv'
    <3>1. SourceInv
      BY <1>1 DEF SourceOK
    <3> QED
      BY <1>3, <2>1, <2>3, <3>1 DEF SourceInv
  <2> QED
    BY <2>2, <2>4 DEF SourceOK
<1>4. CASE Parse
  <2>1. CL!Next /\ UNCHANGED asked
    BY <1>4 DEF Parse
  <2>2. outcome = "parsing"
    BY <2>1, Moves
  <2>3. pc = "choose"
    BY <1>1, <2>2 DEF SourceOK, SourceInv
  <2>4. SourceOK'
    BY <1>3, <2>1, <2>3
  <2> QED
    BY <1>1, <2>1, <2>4, ParserTyped, ParserStep, PasswordStep, ArchiveStep DEF ParamsInv
<1>5. CASE Use
  <2>1. outcome = "serve" /\ PW!Next /\ UNCHANGED parser
    BY <1>5 DEF Use
  <2>2. UNCHANGED <<argv, password, passfile>>
    BY <2>1 DEF PW!Next, PW!Choose, PW!LookFails, PW!Open, PW!Execute, PW!CannotRun,
                PW!FileChanges, PW!given
  <2>3. outcome' = "serve"
    BY <2>1 DEF parser
  <2> QED
    BY <1>1, <1>2, <2>1, <2>2, <2>3, SourceStep DEF ParamsInv
<1>6. CASE UNCHANGED vars
  <2>1. UNCHANGED <<argv, password, passfile, parser>> /\ UNCHANGED asked
    BY <1>6 DEF vars
  <2>2. UNCHANGED <<password, passfile, outcome>>
    BY <2>1 DEF parser
  <2> QED
    BY <1>2, <1>3, <2>1, <2>2 DEF ParamsInv
<1> QED
  BY <1>4, <1>5, <1>6 DEF Next

\* Whoever is served has both paths.
LEMMA Serves ==
  ParamsInv => ServesWithBoth
<1> SUFFICES ASSUME ParamsInv, outcome = "serve"
             PROVE  /\ cliArgs # << >> /\ cliArgs[1] # CL!Empty
                    /\ CL!Cardinality(CL!MountPoint) = 1 /\ CL!MountPoint \subseteq Existing
  BY DEF ServesWithBoth, CL!ServesWithBoth
<1> DEFINE P == CL!Positional(kept)
<1>1. /\ cliArgs # << >> /\ ~CL!MountPointIsBad /\ P # {}
      /\ \A i \in DOMAIN cliArgs : cliArgs[i] # CL!Empty
      /\ cliArgs \in Seq(CL!ToSet(argv)) /\ kept \in Seq(CL!ToSet(argv))
  BY DEF ParamsInv, ParserInv, Types, CL!TypeOK
<1>2. cliArgs[1] # CL!Empty
  <2>1. 1 \in DOMAIN cliArgs
    BY <1>1, LenProperties, EmptySeq
  <2> QED
    BY <1>1, <2>1
<1>3. ~(Cardinality(P) > 1) /\ \A i \in P : kept[i].says \in Existing
  BY <1>1, SameCount DEF CL!MountPointIsBad
<1>4. IsFiniteSet(P)
  <2>1. P \subseteq 1..Len(kept) /\ Len(kept) \in Nat
    BY <1>1, LenProperties DEF CL!Positional
  <2>2. IsFiniteSet(1..Len(kept))
    BY <2>1, FS_Interval
  <2> QED
    BY <2>1, <2>2, FS_Subset
<1>5. CL!MountPoint = {kept[i].says : i \in P}
  BY DEF CL!MountPoint
<1> HIDE DEF P
<1>6. PICK p : P = {p}
  <2>1. Cardinality(P) \in Nat /\ Cardinality(P) # 0
    BY <1>1, <1>4, FS_CardinalityType, FS_EmptySet
  <2>2. Cardinality(P) = 1
    BY <1>3, <2>1
  <2> QED
    BY <1>4, <2>2, FS_Singleton
<1>7. CL!MountPoint = {kept[p].says}
  BY <1>5, <1>6
<1>8. Cardinality({kept[p].says}) = 1
  BY FS_Singleton
<1> QED
  BY <1>1, <1>2, <1>3, <1>6, <1>7, <1>8, SameCount

\* When the parser is through, every word has its place.
LEMMA ArchiveParsed ==
  ParamsInv => ArchiveFirstIsParsed
<1> SUFFICES ASSUME ParamsInv, ArchiveFirst, outcome \notin {"parsing", "error"}
             PROVE  /\ cliArgs[1] = argv[Min(Others)]
                    /\ CL!HasWordsAt(kept, KeptAt) /\ CL!HasWordsAt(mountOpts, OptsAt)
  <2>1. CL!Min(Others) = Min(Others)
    BY DEF CL!Min, Min
  <2> QED
    BY <2>1 DEF ArchiveFirstIsParsed, CL!ArchiveFirstIsParsed, ArchiveFirst, Others,
                KeptAt, OptsAt
<1>1. Types /\ ArchiveInv
  BY DEF ParamsInv
<1>2. Len(argv) \in Nat /\ DOMAIN argv = 1..Len(argv)
  BY <1>1, Words
<1>3. Before(KeptAt, Len(argv)) = KeptAt /\ Before(OptsAt, Len(argv)) = OptsAt
  <2>1. \A i \in 1..Len(argv) : i <= Len(argv)
    BY <1>2
  <2> QED
    BY <1>2, <2>1 DEF Before, KeptAt, OptsAt
<1>4. Min(Others) <= Len(argv)
  <2>1. Others \in SUBSET Nat /\ Others # {} /\ Others \subseteq 1..Len(argv)
    BY <1>2 DEF Others, ArchiveFirst
  <2>2. Min(Others) \in Others
    BY <2>1, MinOf
  <2>3. Min(Others) \in 1..Len(argv)
    BY <2>1, <2>2, Zenon
  <2>4. \A i \in 1..Len(argv) : i <= Len(argv)
    BY <1>2
  <2> QED
    BY <2>3, <2>4, Zenon
<1> QED
  BY <1>1, <1>3, <1>4 DEF ArchiveInv

\* What the archive was opened with is the last password.
LEMMA LastWins ==
  ParamsInv => LastPasswordWins
<1> SUFFICES ASSUME ParamsInv, opened # Unset, Passwords # {}
             PROVE  opened = <<argv[Max(Passwords)].says, 0>>
  BY DEF LastPasswordWins, Passwords
<1>1. Types /\ PasswordInv /\ SourceInv /\ ParserInv
  BY DEF ParamsInv, SourceOK
<1>2. /\ Len(argv) \in Nat /\ DOMAIN argv = 1..Len(argv)
      /\ \A i \in 1..Len(argv) : argv[i].says # Unset
  BY <1>1, Words
<1>3. pc # "choose" /\ outcome = "serve"
  BY <1>1 DEF SourceInv
<1>4. pos = Len(argv)
  BY <1>1, <1>3 DEF ParserInv
<1>5. Before(Passwords, Len(argv)) = Passwords
  <2>1. \A i \in 1..Len(argv) : i <= Len(argv)
    BY <1>2
  <2> QED
    BY <1>2, <2>1 DEF Before, Passwords
<1>6. password = argv[Max(Passwords)].says
  BY <1>1, <1>4, <1>5 DEF PasswordInv
<1>7. Max(Passwords) \in DOMAIN argv
  <2>1. Passwords \in SUBSET (1..Len(argv)) /\ Passwords # {}
    BY <1>2 DEF Passwords
  <2>2. Max(Passwords) \in Passwords
    BY <1>2, <2>1, MaxOf
  <2> QED
    BY <2>2 DEF Passwords
<1>8. password # Unset
  BY <1>2, <1>6, <1>7
<1> QED
  BY <1>1, <1>3, <1>6, <1>8 DEF SourceInv

-----------------------------------------------------------------------------
(***************************************************************************)
(* Theorems.                                                               *)
(***************************************************************************)
\* What ParamsInv says of the parser and the password source holds throughout.
THEOREM Inductive == Spec => []ParamsInv
BY ParamsInit, ParamsStep, PTL DEF Spec

\* Everything keeps its type.
THEOREM TypeCorrect == Spec => []TypeOK
<1>1. ParamsInv => TypeOK
  BY DEF ParamsInv, Types, SourceOK, TypeOK
<1> QED
  BY <1>1, Inductive, PTL

\* Whoever gets past the constructor has an archive, not an empty one, and one
\* mount point, which exists.
THEOREM ServingHasBoth == Spec => []ServesWithBoth
BY Serves, Inductive, PTL

\* With no option of FUSE before it, the first path is the archive, and every
\* other word of the command line reaches its place in order, however the
\* program's own options are mixed with it.
THEOREM ArchiveBeforeOptions == Spec => []ArchiveFirstIsParsed
BY ArchiveParsed, Inductive, PTL

\* A header that could be read with a password is extracted with the same one,
\* whatever happens to the file, and a program that has answered is not run
\* again.
THEOREM SamePassword == Spec => []OnePassword
<1>1. ParamsInv => OnePassword
  BY DEF ParamsInv, SourceOK, OnePassword
<1> QED
  BY <1>1, Inductive, PTL

\* The archive is opened with the last password of the command line.
THEOREM LastPassword == Spec => []LastPasswordWins
BY LastWins, Inductive, PTL
=============================================================================
