CONSTANTS
  ByteBits = 2
  NTasks = 1
  ScratchCap = 14
  Align = 2
  MaxSyscalls = 1
  MaxUserWrites = 0
  MaxIO = 2
  MaxReentries = 1
  MaxRestarts = 0
  Families <- MCReadvFamilies
  KernelMayFail = FALSE
  NegativeCounts = FALSE
  PipeReads = FALSE
  StructWrites = FALSE
INIT Init
NEXT Next
PROPERTIES Idempotence
