SPECIFICATION Spec
CONSTANTS
  Zero = 0
  MaxLen = 4
  BufSize = 2
  Byte <- MCByte
  Chunk <- MCChunk
  Offset <- MCOffset
  Length <- MCLength
INVARIANTS
  TypeOK
  SuccessMeansWritten
PROPERTIES
  ImplementsOutFile
CHECK_DEADLOCK FALSE
