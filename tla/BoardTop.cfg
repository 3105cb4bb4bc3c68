SPECIFICATION MCSpec
CONSTANTS
  LaneBits = 1
  BRAM_DELAY = 2
  WordCount = 256
  Byte = {0, 1}
  Reg = {0, 1, 2}
  LineCount = 4
  PCINIT = 0
  CharBits = 2
  BIT_TMR_MAX = 2
  Ratio = 4
  Chars <- MCChars
  Greeting <- MCGreeting
  Programs <- MCMixedPrograms
  RamImages <- MCRamImages
  TextLine <- MCTextLine
  Alu <- RtlAlu
  BranchTaken <- RtlBranchTaken
  StoreStrobe <- RtlStoreStrobe
  AlignStore <- RtlAlignStore
  ExtendLoad <- RtlExtendLoad
INVARIANT WrittenIsHeard
PROPERTIES BusSteady AccessAnswered
