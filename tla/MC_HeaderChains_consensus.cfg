CONSTANTS
  g = g
  a1 = a1
  a2 = a2
  b1 = b1
  b2 = b2
  c2 = c2
  b3 = b3
  d1 = d1
  NoBlock = NoBlock
  Blocks <- MCBlocks
  Genesis = g
  Parent <- MCParent
  Work <- MCWork
  MaxRestarts = 0
  MaxInvalidations = 2
SPECIFICATION SpecConsensus
INVARIANTS
  TipsAreLeaves
PROPERTIES
  ReturnReportsChange
  ChainSetRefined
