CONSTANTS
  Arch = "x64"
  Build32 = FALSE
  MaxExecs = 2
  MaxReentries = 1
  MaxEnv = 1
INIT Init
NEXT Next
INVARIANTS ExecTraced
