CONSTANTS
  ByteBits = 2
  NTasks = 2
  ScratchCap = 14
  Align = 2
  MaxSyscalls = 1
  MaxUserWrites = 1
  MaxIO = 2
  MaxReentries = 0
  MaxRestarts = 0
  Families <- MCFamilies
  KernelMayFail = FALSE
  NegativeCounts = FALSE
  PipeReads = FALSE
  StructWrites = FALSE
INIT Init
NEXT Next
INVARIANTS TypeOK Transparency ReplayFaithful NoInternalError
PROPERTIES KernelSeesEntryArgs
