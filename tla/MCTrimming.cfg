CONSTANTS
  A = A
  B = B
  Ids <- MCIds
  Trees <- MCTrees
  MinTrees <- MCMinTrees
  NoTree = NoTree
  SIZE_T = 256
  MaxNodes = 5
SPECIFICATION Spec
INVARIANTS
  TypeOK
  TrimHasWork
  ProgressCountsLists
  NoNodeTriedTwice
  NoEdgeTriedTwice
  FileIsCurrent
PROPERTIES
  FileWrittenAtEnd
  ImplementsContract
