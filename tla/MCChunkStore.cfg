CONSTANTS
  A = A
  A1 = A1
  A2 = A2
  X = X
  Terminal = Terminal
  Labels <- MCLabels
  IdOf <- MCIdOf
  Trees <- MCTrees
  MaxAdds = 2
  MaxNodes = 5
  MaxDamaged = 4
SPECIFICATION Spec
INVARIANTS NoDangling OwnedOnce OffersSubtrees
PROPERTY ChunkKept
