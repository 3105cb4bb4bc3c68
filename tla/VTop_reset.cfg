SPECIFICATION FairSpec
CONSTANTS
  LaneBits = 1
  WordCount = 256
  Byte = {0, 1}
  Reg = {0, 1, 2}
  LineCount = 4
  NUM_INPUTS = 2
  PCINIT = 0
  AllowReset = TRUE
  Programs <- MCMixedPrograms
  RamImages <- MCRamImages
  WriteAnswers <- MCWriteAnswers
  TextLine <- MCTextLine
  Alu <- RtlAlu
  BranchTaken <- RtlBranchTaken
  StoreStrobe <- RtlStoreStrobe
  AlignStore <- RtlAlignStore
  ExtendLoad <- RtlExtendLoad
INVARIANT IInv
PROPERTIES ImplementsIsa KeepsCommitting CommitsInTime
