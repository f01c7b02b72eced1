CONSTANTS
  ByteBits = 2
  NTasks = 2
  ScratchCap = 14
  Align = 2
  MaxSyscalls = 1
  MaxUserWrites = 1
  MaxIO = 2
  MaxReentries = 0
  MaxRestarts = 0
  Families <- MCRecvmsgFamilies
  KernelMayFail = FALSE
  NegativeCounts = FALSE
  PipeReads = FALSE
  StructWrites = TRUE
INIT Init
NEXT Next
INVARIANT Transparency
