SPECIFICATION FairSpec
CONSTANTS
  Base = 4
  TimerSize = 2
  MaxTyped = 2
  MemSize = 2
  Span = 32
  BootBase = 8
  BootSize = 8
  ConBase = 16
  ConSize = 16
  Register <- MCRegister
  Programs <- MCPrograms
INVARIANTS FetchHasChar CompletedInOrder
PROPERTIES ImplementsPeripherals TypedIsOffered
