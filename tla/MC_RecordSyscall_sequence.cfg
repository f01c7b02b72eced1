CONSTANTS
  ByteBits = 2
  NTasks = 1
  ScratchCap = 14
  Align = 2
  MaxSyscalls = 2
  MaxUserWrites = 0
  MaxIO = 2
  MaxReentries = 0
  MaxRestarts = 0
  Families <- MCSequenceFamilies
  KernelMayFail = FALSE
  NegativeCounts = FALSE
  PipeReads = FALSE
  StructWrites = FALSE
INIT Init
NEXT Next
INVARIANTS Transparency NoInternalError
