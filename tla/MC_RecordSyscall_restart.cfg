CONSTANTS
  ByteBits = 2
  NTasks = 2
  ScratchCap = 14
  Align = 2
  MaxSyscalls = 1
  MaxUserWrites = 1
  MaxIO = 2
  MaxReentries = 1
  MaxRestarts = 2
  Families <- MCRestartFamilies
  KernelMayFail = FALSE
  NegativeCounts = FALSE
  PipeReads = FALSE
  StructWrites = FALSE
INIT Init
NEXT Next
INVARIANTS Transparency
PROPERTIES Idempotence
