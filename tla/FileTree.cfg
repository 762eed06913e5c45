SPECIFICATION FairSpec
CONSTANTS
  Stem = {a, b}
  NoName = NoName
  Ext = {txt}
  NoExt = NoExt
  ProposedName = a
  Modulus = 32
  Epoch = 8
  Tick = 4
  ArchiveStat <- MCArchiveStat
  MaxItems = 3
  MaxDepth = 3
  Name <- MCName
  Dotted <- MCDotted
  Archives <- MCArchives
INVARIANTS
  TypeOK
  WalkFindsEveryEntry
  FilesAreExtractable
  RootIsDirectory
  TreeIsArchiveView
  StatsAreTheItems
PROPERTIES
  ImplementsView
  BuiltOrThrown
CHECK_DEADLOCK FALSE
