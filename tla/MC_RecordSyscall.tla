------------------------- MODULE MC_RecordSyscall -------------------------
(* Small instances of RecordSyscall for TLC.                               *)
EXTENDS RecordSyscall

(* Two tasks, each issuing one syscall of any family; scratch of 14      *)
(* cells, so that socketcall's recvmsg with a peer-address buffer (16     *)
(* cells after alignment) overflows it and is degraded to PREVENT_SWITCH, *)
(* while every other layout fits.                                          *)
MCFamilies ==
  {"read", "readv", "accept", "getsockname", "recvmsg", "futex", "socketcall",
   "nanosleep"}

(* A task issuing one readv, re-entered.                                   *)
MCReadvFamilies == {"readv"}

(* Tasks issuing syscalls whose restart needs nothing restored: nanosleep *)
(* (finalized by the restart hook), a futex wait (its word is never moved  *)
(* to scratch) and getsockname (never moved to scratch, never blocks).    *)
MCRestartFamilies == {"nanosleep", "futex", "getsockname"}

(* A task issuing one read, interrupted and restarted.                    *)
MCRestartReadFamilies == {"read"}

(* A task issuing one epoll_wait.                                         *)
MCEpollFamilies == {"epoll_wait"}

(* Tasks talking over a pipe: each reads from it or writes to it, or     *)
(* writes to stdout.                                                       *)
MCPipeFamilies == {"read", "write"}

(* Tasks issuing recvmsg, while another task's code writes its msghdr.   *)
MCRecvmsgFamilies == {"recvmsg"}

(* Tasks issuing two syscalls each, one after the other, in the same     *)
(* scratch: reads, and socketcall, whose call number 0 goes through the    *)
(* expect_errno exit path.                                                 *)
MCSequenceFamilies == {"read", "socketcall"}

(* A task issuing one read that may fail with EAGAIN.                     *)
MCFailFamilies == {"read"}
====
