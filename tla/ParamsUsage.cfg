SPECIFICATION Spec
CONSTANTS
  MaxWords = 3
  MaxOptions = 0
  CommandLines <- MCCommandLines
  Existing = {"arc.zip", "mnt"}
  Says = {"", "old", "new"}
  File = {"key", "pin"}
  Worlds <- MCWorlds
  Unset = Unset
INVARIANT
  UsageWorks
CHECK_DEADLOCK FALSE
