CONSTANTS
  SlLog2 = 2
  FirstBlock = 4
  PoolBytes = 112
  NaiveBegin = 80
  Sizes = {10, 18, 36}
  Alignments = {8, 32}
  Careful = TRUE
SPECIFICATION AllocSpec
INVARIANTS
  TypeOK
  PhysicallySound
  ListsSound
  TlsfNothingLost
  GoodFit
 
