SPECIFICATION Spec
CONSTANTS
  LaneBits = 1
  WordCount = 256
  Byte = {0, 1}
  Reg = {0, 1, 2}
  LineCount = 2
  Alu <- RtlAlu
  BranchTaken <- RtlBranchTaken
  StoreStrobe <- RtlStoreStrobe
  AlignStore <- RtlAlignStore
  ExtendLoad <- RtlExtendLoad
  U = U
  V = V
  R = R
  Dest = {R, U, V}
  NullPtr = NullPtr
  MaxWait = 2
  Accesses <- MCAccesses
  Values <- MCValues
  Sizes = {2, 4}
  ArenaSize = 6
  MaxOngoing = 2
INVARIANTS UnitsAgree QueueOnBus WrapperAgrees CellsDisjoint
CHECK_DEADLOCK FALSE
PROPERTIES ImplementsMemory CellsAreVariables CallsReturn
