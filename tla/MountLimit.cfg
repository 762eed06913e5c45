SPECIFICATION Spec
CONSTANTS
  File = {small, plain, huge}
  Absent = {gone}
  NoFile = NoFile
  small = small
  plain = plain
  huge = huge
  Size <- MCSize
  Sized <- MCSized
  Limit = 2
  NoLimit = NoLimit
  Stream = {s1, s2}
  Handle = {h1, h2}
  NoStream = NoStream
  BufSize = 1
  MaxHolds = 2
  Span = {0, 1, 2}
INVARIANT
  OpenRespectsLimit
CHECK_DEADLOCK FALSE
