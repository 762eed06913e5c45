------------------------------ MODULE MCParams ------------------------------
(***************************************************************************)
(* Params on every command line of at most MaxWords words in a bare        *)
(* environment, and on those of at most MaxOptions of the program's own    *)
(* options, the archive and the mount point in every environment.          *)
(***************************************************************************)
EXTENDS Params

CONSTANTS MaxWords, MaxOptions

MCOwn ==
  {[kind |-> "password", says |-> s] : s \in {"", "old"}}
    \cup {[kind |-> "passfile", says |-> s] : s \in {"key", "-"}}

MCWords ==
  {[kind |-> "password", says |-> "old"], [kind |-> "passfile", says |-> "key"]}
    \cup {[kind |-> k, says |-> k] : k \in {"-p", "-o", "--"}}
    \cup [kind: {"flag"}, says: {"-f", "-h", "-V"}]
    \cup [kind: {"plain"}, says: {"arc.zip", "mnt", "allow_other"}]

MCEmpty == [kind |-> "plain", says |-> ""]

MCPaths ==
  <<[kind |-> "plain", says |-> "arc.zip"], [kind |-> "plain", says |-> "mnt"]>>

MCOptions == {o \o MCPaths : o \in BoundedSeq(MCOwn, MaxOptions)}

MCCommandLines ==
  BoundedSeq(MCWords, MaxWords) \cup BoundedSeq({MCEmpty} \cup MCWords, 2)
    \cup MCOptions

MCTexts == {<<"", 0>>, <<"", 1>>, <<"old", 1>>, <<"new", 0>>}

MCBare ==
  [envPassword |-> Unset, envPassfile |-> Unset, stdin |-> <<"", 0>>,
   file |-> [f \in File |-> Unset]]

MCWorlds(a) ==
  IF a \in MCOptions
  THEN [envPassword: {"new", Unset}, envPassfile: File \cup {Unset},
        stdin: IF [kind |-> "passfile", says |-> "-"] \in ToSet(a)
               THEN MCTexts ELSE {<<"", 0>>},
        file: [File -> MCTexts \cup {Unset}]]
  ELSE {MCBare}
=============================================================================
