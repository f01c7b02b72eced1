CONSTANTS
  Arch = "x86"
  Build32 = TRUE
  MaxExecs = 2
  MaxReentries = 1
  MaxEnv = 1
INIT Init
NEXT Next
INVARIANTS TypeOK Arg1Restored ExecTraced
PROPERTIES RecordingSpec
