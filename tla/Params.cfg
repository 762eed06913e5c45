SPECIFICATION Spec
CONSTANTS
  MaxWords = 4
  MaxOptions = 2
  CommandLines <- MCCommandLines
  Existing = {"arc.zip", "mnt"}
  Says = {"", "old", "new"}
  File = {"key", "pin"}
  Worlds <- MCWorlds
  Unset = Unset
INVARIANTS
  TypeOK
  ServesWithBoth
  ArchiveFirstIsParsed
  OnePassword
  LastPasswordWins
CHECK_DEADLOCK FALSE
