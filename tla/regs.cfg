CONSTANTS
  Half <- MCHalf
  Low <- MCLow
  Data <- MCData
  Lazy <- MCLazy
  TableWord <- MCTableWord
  Ack <- MCAck
  Code <- MCCode
  Programs <- MCPrograms
  Boots <- MCBoots
  SvcVector <- SvcEntry
  IrqVector <- IrqEntry
  AbtVector <- AbtEntry
SPECIFICATION Spec
INVARIANTS TypeOK VectorFollowsMode
PROPERTIES BanksKept ImplementsArmMachine
