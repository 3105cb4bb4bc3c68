SPECIFICATION FairSocSpec
CONSTANTS
  LaneBits = 1
  BRAM_DELAY = 2
  WordCount = 256
  Byte = {0, 1}
  Reg = {0, 1, 2}
  LineCount = 4
  NUM_INPUTS = 2
  PCINIT = 0
  AllowReset = TRUE
  Programs <- MCMemoryPrograms
  RamImages <- MCRamImages
  WriteAnswers <- MCAnyAnswer
  TextLine <- MCTextLine
  Alu <- RtlAlu
  BranchTaken <- RtlBranchTaken
  StoreStrobe <- RtlStoreStrobe
  AlignStore <- RtlAlignStore
  ExtendLoad <- RtlExtendLoad
INVARIANT AnswerIsCurrent
PROPERTIES ImplementsVTop SocKeepsCommitting
