CONSTANTS
  g = g
  a1 = a1
  a2 = a2
  b1 = b1
  b2 = b2
  c2 = c2
  b3 = b3
  d1 = d1
  NoBlock = NoBlock
  Blocks <- SmallBlocks
  Genesis = g
  Parent <- SmallParent
  Work <- SmallWork
  MaxRestarts = 0
  MaxInvalidations = 2
SPECIFICATION SpecFailure
INVARIANT ChainStateKept
