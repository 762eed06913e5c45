SPECIFICATION LibSpec
CONSTANTS
  MaxFormats = 3
  MaxOrder = 4
  MaxWords = 3
  gz = gz
  tgz = tgz
  NoWord = NoWord
  Unset = Unset
  Star <- MCStar
  Libraries <- MCLibraries
  Orders <- MCOrders
  Extension <- MCExtension
  Accepting <- MCAccepting
  Lists <- MCLists
INVARIANT
  AlphabeticalByDefault
CHECK_DEADLOCK FALSE
