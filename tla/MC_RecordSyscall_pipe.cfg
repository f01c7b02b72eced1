CONSTANTS
  ByteBits = 2
  NTasks = 2
  ScratchCap = 2
  Align = 2
  MaxSyscalls = 1
  MaxUserWrites = 0
  MaxIO = 2
  MaxReentries = 1
  MaxRestarts = 0
  Families <- MCPipeFamilies
  KernelMayFail = FALSE
  NegativeCounts = FALSE
  PipeReads = TRUE
  StructWrites = FALSE
SPECIFICATION FairSpec
PROPERTY Termination
CHECK_DEADLOCK FALSE
