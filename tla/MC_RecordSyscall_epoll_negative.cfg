CONSTANTS
  ByteBits = 2
  NTasks = 1
  ScratchCap = 14
  Align = 2
  MaxSyscalls = 1
  MaxUserWrites = 0
  MaxIO = 2
  MaxReentries = 0
  MaxRestarts = 0
  Families <- MCEpollFamilies
  KernelMayFail = FALSE
  NegativeCounts = TRUE
  PipeReads = FALSE
  StructWrites = FALSE
INIT Init
NEXT Next
INVARIANT NoInternalError
