--------------------------- MODULE RecordSyscall ---------------------------
(***************************************************************************)
(* Recording of syscalls by several tasks (threads sharing one address    *)
(* space), as done by rec_prepare_syscall / rec_process_syscall in        *)
(* src/src/record_syscall.cc.                                             *)
(*                                                                         *)
(* Each task cycles through: its own code sets up a syscall's arguments   *)
(* (Setup); the tracer, at the syscall-entry trap, runs the per-syscall   *)
(* preparer and done_preparing (Enter); the kernel executes the syscall   *)
(* (Kernel); the tracer, at the syscall-exit trap, writes back and        *)
(* records the results (Exit).  A task in a syscall that was made          *)
(* PREVENT_SWITCH keeps the tracer to itself until its exit; while a task *)
(* is in an ALLOW_SWITCH syscall the others run, and its kernel step may  *)
(* happen at any moment.  Other tasks' code may write the buffers of a    *)
(* task's syscall meanwhile (UserWrite).                                  *)
(*                                                                         *)
(* Three ghost variables give the properties their reference:             *)
(*   native  - the tracee memory of the same run without the tracer: the  *)
(*             kernel works on the original buffers, and a syscall whose  *)
(*             outputs went to scratch is linearised at its exit;          *)
(*   nregs   - the registers the task would have without the tracer;      *)
(*   replay  - the memory a replay rebuilds: the tracee's own writes,     *)
(*             replayed, and the records of the trace applied in order.   *)
(***************************************************************************)
EXTENDS TaskSyscallState

CONSTANTS
  NTasks,         \* number of tasks (threads of one address space)
  ScratchCap,     \* t->scratch_size, in cells
  Align,          \* align_scratch's alignment, in cells
  MaxSyscalls,    \* bound: syscalls per task
  MaxUserWrites,  \* bound: concurrent writes by tracee code to buffers
  MaxIO,          \* bound: bytes a read-like syscall transfers
  MaxReentries,   \* bound: re-entries into the preparer of a resumed syscall
  MaxRestarts,    \* bound: syscalls interrupted by a signal and restarted
  Families,       \* the syscalls the tasks may issue
  KernelMayFail,  \* whether read-like syscalls may fail (EAGAIN); a
                  \* nanosleep may always be interrupted (EINTR)
  NegativeCounts, \* whether task code may pass epoll_wait a negative
                  \* maxevents
  PipeReads,      \* whether reads take their data from a pipe the tasks
                  \* write to, and so block while it is empty
  StructWrites    \* whether other tasks' code may also write a field of
                  \* a blocked recvmsg's msghdr that the kernel leaves alone

AllFamilies ==
  {"read", "readv", "accept", "getsockname", "recvmsg", "futex", "socketcall",
   "nanosleep", "epoll_wait", "write"}

(* The syscalls whose preparers read tracee memory only through the      *)
(* registers, never through a pointer handed back by reg_parameter or     *)
(* mem_ptr_parameter.                                                      *)
DirectFamilies ==
  {"read", "accept", "getsockname", "futex", "nanosleep", "epoll_wait"}

ASSUME NTasksAssumption == NTasks \in Nat \ {0}
ASSUME ScratchCapAssumption == ScratchCap \in Nat
ASSUME AlignAssumption == Align \in Nat \ {0}
ASSUME BoundsAssumption ==
  /\ MaxSyscalls \in Nat /\ MaxUserWrites \in Nat /\ MaxIO \in Nat
  /\ MaxReentries \in Nat /\ MaxRestarts \in Nat
ASSUME FamiliesAssumption == Families \subseteq AllFamilies
ASSUME KernelMayFailAssumption == KernelMayFail \in BOOLEAN
ASSUME NegativeCountsAssumption == NegativeCounts \in BOOLEAN
ASSUME PipeReadsAssumption == PipeReads \in BOOLEAN
ASSUME StructWritesAssumption == StructWrites \in BOOLEAN

----------------------------------------------------------------------------
(* Address space: a user region per task, then a scratch region per task *)
(* (init_scratch_memory's mapping; scratch_ptr and scratch_size).          *)
URegion == 16
Tasks == 1 .. NTasks
UBase(t) == (t - 1) * URegion + 1
UserAddr == 1 .. NTasks * URegion
(* scratch_ptr is the start of a fresh mapping, hence aligned.            *)
ScratchPtr(t) ==
  AlignUp(NTasks * URegion + 1, Align) + (t - 1) * AlignUp(ScratchCap, Align)
Addr == 1 .. ScratchPtr(NTasks) + ScratchCap - 1

(* Cell values: 0 (fresh scratch, null), old buffer contents, what a     *)
(* task's code writes, and the data the kernel delivers to task t.        *)
OldVal == 50
UVal == 70
KVal(t) == 60 + t

(* Structure sizes and field offsets, in cells (the Arch structures).    *)
SOCKLEN == 1
INT == 1
IOVEC == 2
IOV_BASE == 0
IOV_LEN == 1
MSGHDR == 6
MSG_NAME == 0
MSG_NAMELEN == 1
MSG_IOV == 2
MSG_IOVLEN == 3
MSG_CONTROL == 4
MSG_CONTROLLEN == 5
(* sizeof the integer a dynamic size is read as, in bytes.               *)
SIZE_T_SIZE == 8
SOCKLEN_T_SIZE == 4
MSG_DONTWAIT == 64
FUTEX_WAIT == 0
FUTEX_CMD_BITS == 128
EAGAIN == 11
EINVAL == 22
EINTR == 4
ERESTARTSYS == 512
ERESTART_RESTARTBLOCK == 516
TIMESPEC == 2
EPOLL_EVENT == 2   \* cells of a struct epoll_event
(* File descriptors: the tasks' stdout and stderr are rr's own (what       *)
(* is_stdio_fd finds with kcmp); reads are on fd 3, the read end of the   *)
(* pipe when PipeReads holds, whose write end is fd 4.                    *)
STDOUT_FILENO == 1
STDERR_FILENO == 2
PIPE_RD == 3
PIPE_WR == 4

(* The call numbers of socketcall (linux/net.h); 0 is no call.           *)
SYS_SOCKET == 1
SYS_BIND == 2
SYS_CONNECT == 3
SYS_LISTEN == 4
SYS_ACCEPT == 5
SYS_GETSOCKNAME == 6
SYS_GETPEERNAME == 7
SYS_SOCKETPAIR == 8
SYS_SEND == 9
SYS_RECV == 10
SYS_SENDTO == 11
SYS_RECVFROM == 12
SYS_SHUTDOWN == 13
SYS_SETSOCKOPT == 14
SYS_GETSOCKOPT == 15
SYS_SENDMSG == 16
SYS_RECVMSG == 17
SYS_ACCEPT4 == 18
SYS_RECVMMSG == 19
SYS_SENDMMSG == 20
(* The calls that register nothing and keep the tracer.                  *)
NoParamCalls == {SYS_SOCKET, SYS_CONNECT, SYS_BIND, SYS_LISTEN, SYS_SEND,
                 SYS_SENDTO, SYS_SETSOCKOPT, SYS_SHUTDOWN}

(* Argument registers of a syscall: result register 0, then arg1..arg3.  *)
Regs3(a1, a2, a3) ==
  [k \in 0 .. 6 |-> IF k \in 1 .. 3 THEN <<a1, a2, a3>>[k] ELSE 0]

NoSyscall == "none"

VARIABLES
  mem,      \* tracee memory, shared by all tasks
  regs,     \* regs[t]: task t's registers
  phase,    \* "user" | "kernel" (in the syscall) | "exit" (at the exit trap)
  fam,      \* the syscall task t set up or is in (t->ev().Syscall().number)
  sst,      \* sst[t]: syscall_state_property of task t
  nsys,     \* syscalls task t has issued
  nuw,      \* concurrent writes done so far
  nre,      \* re-entries into the preparer so far
  nrs,      \* interruptions for a restart so far
  pipe,     \* bytes written to the pipe and not yet read
  fatal,    \* an ASSERT of the tracer failed: the recording aborts
  native, nregs, nout, replay   \* ghosts, see above

vars == <<mem, regs, phase, fam, sst, nsys, nuw, nre, nrs, pipe, fatal,
          native, nregs, nout, replay>>

----------------------------------------------------------------------------
(* A set of writes <<address, value>> applied to a memory.                *)
Apply(m, w) ==
  [a \in DOMAIN m |->
     IF \E p \in w : p[1] = a THEN (CHOOSE p \in w : p[1] = a)[2] ELSE m[a]]

(* k cells from a set to v.                                               *)
Fill(a, k, v) == {<<a + i, v>> : i \in 0 .. k - 1}

(* The trace records applied to the replay memory in order: a cell takes *)
(* its value from the last record that covers it.                          *)
ApplyRecords(rm, recs) ==
  LET off(i, a) == a - recs[i].addr + 1
      cov(a) == {i \in 1 .. Len(recs) : off(i, a) \in DOMAIN recs[i].data}
  IN  [a \in DOMAIN rm |->
         IF cov(a) = {} THEN rm[a]
         ELSE recs[LastOf(cov(a))].data[off(LastOf(cov(a)), a)]]

----------------------------------------------------------------------------
(* What each syscall's arguments look like when the task's code issues   *)
(* it: the registers, and the cells written before the syscall.           *)
(* Choices c:                                                             *)
(*   read:   count;                                                       *)
(*   readv:  <<iovcnt, len0, len1>>, buffers at U+4 and U+6;              *)
(*   accept, getsockname: *addrlen (0: null addr and addrlen);            *)
(*   recvmsg: [name: msg_name set, dontwait: MSG_DONTWAIT in flags];      *)
(*   futex:  whether the word still holds the expected value;             *)
(*   socketcall: <<call, variant>>, the variant of recvmsg being as above *)
(*           (1: msg_name set, 2: MSG_DONTWAIT), of sendmsg MSG_DONTWAIT; *)
(*   nanosleep: whether rem is set;                                       *)
(*   epoll_wait: maxevents;                                               *)
(*   write:  <<fd, count>>.                                               *)
SetupChoices(f) ==
  CASE f = "read" -> {1, 2}
    [] f = "readv" -> {<<1, 2, 1>>, <<2, 1, 1>>, <<2, 2, 1>>}
    [] f \in {"accept", "getsockname"} -> {0, 1, 2}
    [] f = "recvmsg" -> [name : BOOLEAN, dontwait : BOOLEAN]
    [] f = "futex" -> BOOLEAN
    [] f = "socketcall" ->
         {<<SYS_SEND, 0>>, <<SYS_GETSOCKOPT, 0>>, <<SYS_SOCKETPAIR, 0>>,
          <<SYS_GETSOCKNAME, 0>>, <<SYS_RECV, 0>>, <<SYS_ACCEPT, 0>>,
          <<SYS_RECVFROM, 0>>, <<SYS_RECVMSG, 0>>, <<SYS_RECVMSG, 1>>,
          <<SYS_RECVMSG, 2>>, <<SYS_SENDMSG, 0>>, <<SYS_SENDMSG, 2>>, <<0, 0>>}
    [] f = "nanosleep" -> BOOLEAN
    [] f = "epoll_wait" -> {1, 2} \cup (IF NegativeCounts THEN {-1} ELSE {})
    [] f = "write" -> {<<STDOUT_FILENO, 1>>, <<PIPE_WR, 1>>, <<PIPE_WR, 2>>}

(* A msghdr at msg with one iovec at iov over data, and name (or null).   *)
MsghdrCells(msg, name, iov, data) ==
  {<<msg + MSG_NAME, name>>, <<msg + MSG_NAMELEN, 1>>, <<msg + MSG_IOV, iov>>,
   <<msg + MSG_IOVLEN, 1>>, <<msg + MSG_CONTROL, 0>>,
   <<msg + MSG_CONTROLLEN, 0>>, <<iov + IOV_BASE, data>>, <<iov + IOV_LEN, 1>>}

(* socketcall's argument block a[] at U, the buffers it points to after   *)
(* it: a data buffer at U+6, an address at U+8 with its length at U+9, a  *)
(* msghdr at U+3 with its iovec at U+9, name at U+11 and data at U+12.    *)
SocketcallCells(U, c) ==
  LET call == c[1]
      flags == IF c[2] = 2 THEN MSG_DONTWAIT ELSE 0
      block(s) == {<<U + i - 1, s[i]>> : i \in 1 .. Len(s)}
  IN
  CASE call = SYS_SEND -> block(<<3, U + 6, 1, 0>>)
    [] call = SYS_GETSOCKOPT -> block(<<3, 1, 2, U + 8, U + 9>>) \cup {<<U + 9, 1>>}
    [] call = SYS_SOCKETPAIR -> block(<<1, 1, 0, U + 6>>)
    [] call \in {SYS_GETSOCKNAME, SYS_ACCEPT} ->
         block(<<3, U + 8, U + 9>>) \cup {<<U + 9, 1>>}
    [] call = SYS_RECV -> block(<<3, U + 6, 2, 0>>)
    [] call = SYS_RECVFROM ->
         block(<<3, U + 6, 1, 0, U + 8, U + 9>>) \cup {<<U + 9, 1>>}
    [] call = SYS_RECVMSG ->
         block(<<3, U + 3, flags>>)
           \cup MsghdrCells(U + 3, IF c[2] = 1 THEN U + 11 ELSE 0, U + 9, U + 12)
    [] call = SYS_SENDMSG -> block(<<3, U + 3, flags>>)
    [] OTHER -> {}

Layout(f, t, c) ==
  LET U == UBase(t) IN
  CASE f = "read" -> [regs |-> Regs3(PIPE_RD, U, c), cells |-> {}]
    [] f = "readv" ->
         [regs |-> Regs3(3, U, c[1]),
          cells |-> {<<U, U + 4>>, <<U + 1, c[2]>>,
                     <<U + 2, U + 6>>, <<U + 3, c[3]>>}]
    [] f \in {"accept", "getsockname"} ->
         IF c = 0 THEN [regs |-> Regs3(3, 0, 0), cells |-> {}]
         ELSE [regs |-> Regs3(3, U + 1, U), cells |-> {<<U, c>>}]
    [] f = "recvmsg" ->
         [regs |-> Regs3(3, U, IF c.dontwait THEN MSG_DONTWAIT ELSE 0),
          cells |-> MsghdrCells(U, IF c.name THEN U + 8 ELSE 0, U + 6, U + 9)]
    [] f = "futex" ->
         [regs |-> Regs3(U, FUTEX_WAIT, IF c THEN 5 ELSE 6),
          cells |-> {<<U, 5>>}]
    [] f = "socketcall" ->
         [regs |-> Regs3(c[1], U, 0), cells |-> SocketcallCells(U, c)]
    [] f = "nanosleep" ->
         [regs |-> Regs3(U, IF c THEN U + 2 ELSE 0, 0),
          cells |-> {<<U, 1>>, <<U + 1, 0>>}]
    [] f = "epoll_wait" -> [regs |-> Regs3(3, U, c), cells |-> {}]
    [] f = "write" -> [regs |-> Regs3(c[1], U, c[2]), cells |-> {}]

(* The cells of task t's output buffers, which other tasks' code may     *)
(* write while t is in its syscall, and with StructWrites msg_control of  *)
(* recvmsg's msghdr (null, so the kernel neither follows nor sets it).     *)
DataCells(t) ==
  LET U == UBase(t) IN
  CASE fam[t] = "read" -> {U, U + 1}
    [] fam[t] = "readv" -> U + 4 .. U + 7
    [] fam[t] \in {"accept", "getsockname"} -> {U + 1, U + 2}
    [] fam[t] = "recvmsg" ->
         {U + 8, U + 9} \cup (IF StructWrites THEN {U + MSG_CONTROL} ELSE {})
    [] fam[t] = "futex" -> {U}
    [] fam[t] = "socketcall" ->
         CASE nregs[t][1] \in {SYS_RECV, SYS_SOCKETPAIR} -> {U + 6, U + 7}
           [] nregs[t][1] \in {SYS_GETSOCKOPT, SYS_GETSOCKNAME, SYS_ACCEPT} -> {U + 8}
           [] nregs[t][1] = SYS_RECVFROM -> {U + 6, U + 8}
           [] nregs[t][1] = SYS_RECVMSG -> {U + 11, U + 12}
           [] OTHER -> {}
    [] fam[t] = "nanosleep" -> {U + 2, U + 3}
    [] fam[t] = "epoll_wait" -> U .. U + 2 * EPOLL_EVENT - 1
    [] OTHER -> {}

----------------------------------------------------------------------------
(* The kernel's side of each syscall, from the registers r and memory m  *)
(* it is handed.  n: bytes available to read, alen: length of the peer   *)
(* address, fail: the call fails with EAGAIN.  Returns the writes and    *)
(* the result register.                                                   *)

(* The data a readv-like call spreads over cnt iovecs at iov: buffer i    *)
(* takes up to its length of what the earlier buffers left.               *)
IovWrites(m, iov, cnt, n, v) ==
  LET len(i) == m[iov + (i - 1) * IOVEC + IOV_LEN]
      base(i) == m[iov + (i - 1) * IOVEC + IOV_BASE]
      total == MinOf(n, MapThenSumSet(len, 1 .. cnt))
      before(i) == MapThenSumSet(len, 1 .. i - 1)
      got(i) == MinOf(len(i), total - MinOf(total, before(i)))
  IN  [w |-> UNION {Fill(base(i), got(i), v) : i \in 1 .. cnt}, n |-> total]

(* move_addr_to_user: at most *lenp bytes of the address, and the full   *)
(* length alen stored to *lenp.                                            *)
AddrWrites(m, addr, lenp, alen, v) ==
  Fill(addr, MinOf(m[lenp], alen), v) \cup {<<lenp, alen>>}

(* recvmsg on the msghdr at msg: the data, the name and its length, and  *)
(* no control data (msg_controllen set to 0).                              *)
RecvmsgEffect(t, msg, m, n, alen) ==
  LET io == IovWrites(m, m[msg + MSG_IOV], m[msg + MSG_IOVLEN], n, KVal(t))
      name == IF m[msg + MSG_NAME] = 0 THEN {}
              ELSE AddrWrites(m, m[msg + MSG_NAME], msg + MSG_NAMELEN,
                              alen, KVal(t))
  IN  [w |-> io.w \cup name \cup {<<msg + MSG_CONTROLLEN, 0>>}, res |-> io.n]

(* sys_socketcall: the call on the argument block a[] at r[2]; a call    *)
(* number out of range fails with EINVAL.                                  *)
SocketcallEffect(t, r, m, n, alen, fail) ==
  LET call == r[1]
      a(i) == m[r[2] + i]
      K == KVal(t)
  IN
  CASE fail /\ call \in {SYS_RECV, SYS_RECVFROM, SYS_ACCEPT, SYS_RECVMSG} ->
         [w |-> {}, res |-> -EAGAIN]
    [] call = SYS_SEND -> [w |-> {}, res |-> a(2)]
    [] call = SYS_GETSOCKOPT ->
         LET len == MinOf(m[a(4)], alen)
         IN  [w |-> Fill(a(3), len, K) \cup {<<a(4), len>>}, res |-> 0]
    [] call = SYS_SOCKETPAIR -> [w |-> Fill(a(3), 2, K), res |-> 0]
    [] call \in {SYS_GETSOCKNAME, SYS_ACCEPT} ->
         [w |-> AddrWrites(m, a(1), a(2), alen, K),
          res |-> IF call = SYS_ACCEPT THEN 4 ELSE 0]
    [] call = SYS_RECV ->
         [w |-> Fill(a(1), MinOf(n, a(2)), K), res |-> MinOf(n, a(2))]
    [] call = SYS_RECVFROM ->
         [w |-> Fill(a(1), MinOf(n, a(2)), K) \cup AddrWrites(m, a(4), a(5), alen, K),
          res |-> MinOf(n, a(2))]
    [] call = SYS_RECVMSG -> RecvmsgEffect(t, a(1), m, n, alen)
    [] call = SYS_SENDMSG -> [w |-> {}, res |-> 0]
    [] OTHER -> [w |-> {}, res |-> -EINVAL]

KernelEffect(f, t, r, m, n, alen, fail) ==
  CASE fail /\ f \in {"read", "readv", "accept", "recvmsg"} ->
         [w |-> {}, res |-> -EAGAIN]
    [] f = "read" ->
         [w |-> Fill(r[2], MinOf(n, r[3]), KVal(t)), res |-> MinOf(n, r[3])]
    [] f = "readv" ->
         LET io == IovWrites(m, r[2], r[3], n, KVal(t))
         IN  [w |-> io.w, res |-> io.n]
    [] f \in {"accept", "getsockname"} ->
         [w |-> IF r[2] = 0 THEN {} ELSE AddrWrites(m, r[2], r[3], alen, KVal(t)),
          res |-> IF f = "accept" THEN 4 ELSE 0]
    [] f = "recvmsg" -> RecvmsgEffect(t, r[2], m, n, alen)
    [] f = "futex" ->
         [w |-> {}, res |-> IF m[r[1]] = r[3] THEN 0 ELSE -EAGAIN]
    [] f = "socketcall" -> SocketcallEffect(t, r, m, n, alen, fail)
    [] f = "nanosleep" ->
         IF fail THEN [w |-> IF r[2] = 0 THEN {} ELSE Fill(r[2], TIMESPEC, KVal(t)),
                       res |-> -EINTR]
         ELSE [w |-> {}, res |-> 0]
    [] f = "epoll_wait" ->
         IF r[3] <= 0 THEN [w |-> {}, res |-> -EINVAL]
         ELSE [w |-> Fill(r[2], MinOf(n, r[3]) * EPOLL_EVENT, KVal(t)),
               res |-> MinOf(n, r[3])]
    [] f = "write" -> [w |-> {}, res |-> r[3]]

(* What the kernel reads of a syscall's inputs: lengths, counts, the      *)
(* futex word and its address, socketcall's call number.                  *)
KernelView(f, r, m) ==
  LET lens(iov, cnt) == [i \in 1 .. cnt |-> m[iov + (i - 1) * IOVEC + IOV_LEN]]
      msgView(msg) == <<m[msg + MSG_NAME] = 0, m[msg + MSG_NAMELEN],
                        lens(m[msg + MSG_IOV], m[msg + MSG_IOVLEN])>>
      a(i) == m[r[2] + i]
  IN
  CASE f = "read" -> <<r[3]>>
    [] f = "readv" -> <<r[3], lens(r[2], r[3])>>
    [] f \in {"accept", "getsockname"} ->
         <<r[2] = 0, IF r[2] = 0 THEN 0 ELSE m[r[3]]>>
    [] f = "recvmsg" -> msgView(r[2])
    [] f = "futex" -> <<r[1], m[r[1]], r[3]>>
    [] f = "socketcall" ->
         <<r[1], CASE r[1] \in {SYS_SEND, SYS_RECV} -> <<a(2)>>
                   [] r[1] = SYS_GETSOCKOPT -> <<m[a(4)]>>
                   [] r[1] \in {SYS_GETSOCKNAME, SYS_ACCEPT} -> <<m[a(2)]>>
                   [] r[1] = SYS_RECVFROM -> <<a(2), m[a(5)]>>
                   [] r[1] = SYS_RECVMSG -> msgView(a(1))
                   [] OTHER -> <<>> >>
    [] f = "nanosleep" -> <<r[2] = 0>>
    [] f = "epoll_wait" -> <<r[3]>>
    [] f = "write" -> <<r[1], r[3]>>

----------------------------------------------------------------------------
(* The preparers of rec_prepare_syscall_arch, up to done_preparing.       *)

(* The loop that registers each iovec's buffer, sized by io_size limited  *)
(* to the iovec's length (readv, prepare_recvmsg).  Once preparation is   *)
(* done every mem_ptr_parameter of the loop returns at once, so the loop   *)
(* leaves the state as it is.                                              *)
RegisterIovecs(st, m, iovecsp, cnt, ioSize) ==
  LET f[i \in 0 .. cnt] ==
        IF i = 0 THEN st
        ELSE LET e == iovecsp + (i - 1) * IOVEC
             IN  MemPtrParameter(f[i - 1], m, e + IOV_BASE,
                                 LimitSize(ioSize, m[e + IOV_LEN]), ARG_OUT, Align)
  IN  IF st.preparationDone THEN st ELSE f[cnt]

(* prepare_recvmsg.                                                       *)
PrepareRecvmsg(st, m, msgp, ioSize) ==
  LET st1 == MemPtrParameter(st, m, msgp + MSG_NAME,
               FromInitializedMem(m, msgp + MSG_NAMELEN, SOCKLEN_T_SIZE),
               ARG_OUT, Align)
      iovlen == m[msgp + MSG_IOVLEN]
      st2 == MemPtrParameter(st1, m, msgp + MSG_IOV,
               ParamSizeOf(IOVEC * iovlen), ARG_IN, Align)
      iovecsp == MemPtrParameterResult(st1, m, msgp + MSG_IOV)
      st3 == RegisterIovecs(st2, m, iovecsp, iovlen, ioSize)
  IN  MemPtrParameter(st3, m, msgp + MSG_CONTROL,
        FromInitializedMem(m, msgp + MSG_CONTROLLEN, SIZE_T_SIZE),
        ARG_OUT, Align)

(* The case of rec_prepare_syscall_arch for each syscall: the params it  *)
(* registers and the switchability it passes to done_preparing.           *)
PrepareRead(st, r, m) ==
  [st |-> RegParameter(st, r, 2, FromSyscallResult(SIZE_T_SIZE, r[3]),
                       ARG_OUT, Align),
   sw |-> ALLOW_SWITCH]

PrepareReadv(st, r, m) ==
  LET st1 == RegParameter(st, r, 2, ParamSizeOf(IOVEC * r[3]), ARG_IN, Align)
  IN  [st |-> RegisterIovecs(st1, m, RegParameterResult(st, r, 2), r[3],
                             FromSyscallResult(SIZE_T_SIZE, SizeMax)),
       sw |-> ALLOW_SWITCH]

(* accept and getsockname register the same params; getsockname does not *)
(* block and keeps the tracer.                                             *)
PrepareAccept(st, r, m) ==
  LET st1 == RegParameter(st, r, 3, ParamSizeOf(SOCKLEN), ARG_IN_OUT, Align)
      lenp == RegParameterResult(st, r, 3)
  IN  [st |-> RegParameter(st1, r, 2,
                FromInitializedMem(m, lenp, SOCKLEN_T_SIZE), ARG_OUT, Align),
       sw |-> ALLOW_SWITCH]

PrepareGetsockname(st, r, m) ==
  [PrepareAccept(st, r, m) EXCEPT !.sw = PREVENT_SWITCH]

PrepareRecvmsgCall(st, r, m) ==
  LET st1 == RegParameter(st, r, 2, ParamSizeOf(MSGHDR), ARG_IN_OUT, Align)
  IN  [st |-> PrepareRecvmsg(st1, m, RegParameterResult(st, r, 2),
                FromSyscallResult(SIZE_T_SIZE, SizeMax)),
       sw |-> IF (r[3] \div MSG_DONTWAIT) % 2 = 0 THEN ALLOW_SWITCH
              ELSE PREVENT_SWITCH]

(* futex: the word is IN_OUT but must stay where it is.  Only FUTEX_WAIT  *)
(* is issued by the tasks of the model.                                    *)
PrepareFutex(st, r, m) ==
  [st |-> IF r[2] % FUTEX_CMD_BITS = FUTEX_WAIT
            THEN RegParameter(st, r, 1, ParamSizeOf(INT),
                              ARG_IN_OUT_NO_SCRATCH, Align)
            ELSE st,
   sw |-> ALLOW_SWITCH]

(* prepare_socketcall: the argument block a[] at arg 2 is an IN param,    *)
(* and the buffers are mem_ptr params whose pointers sit in it, so that  *)
(* done_preparing relocates them inside the scratch copy of the block.    *)
(* mem_ptr_parameter_inferred sizes a param by its referent.               *)
PrepareSocketcall(st, r, m) ==
  LET call == r[1]
      args(size) == RegParameter(st, r, 2, ParamSizeOf(size), ARG_IN, Align)
      argsp == RegParameterResult(st, r, 2)
      (* a socklen_t* at a[lenField] (IN_OUT), and the buffer at          *)
      (* a[bufField] sized by the socklen_t it points to.                 *)
      lenAndBuf(s0, lenField, bufField) ==
        LET s1 == MemPtrParameter(s0, m, argsp + lenField, ParamSizeOf(SOCKLEN),
                                  ARG_IN_OUT, Align)
            lenp == MemPtrParameterResult(s0, m, argsp + lenField)
        IN  MemPtrParameter(s1, m, argsp + bufField,
              FromInitializedMem(m, lenp, SOCKLEN_T_SIZE), ARG_OUT, Align)
      (* a buffer at a[1] sized by the result, at most a[2].              *)
      recvBuf(s0) ==
        MemPtrParameter(s0, m, argsp + 1,
          FromSyscallResult(SIZE_T_SIZE, m[argsp + 2]), ARG_OUT, Align)
      dontwait == (m[r[2] + 2] \div MSG_DONTWAIT) % 2 = 1
  IN
  CASE call \in NoParamCalls -> [st |-> st, sw |-> PREVENT_SWITCH]
    [] call = SYS_GETSOCKOPT -> [st |-> lenAndBuf(args(5), 4, 3), sw |-> PREVENT_SWITCH]
    [] call = SYS_SOCKETPAIR ->
         [st |-> MemPtrParameter(args(4), m, argsp + 3, ParamSizeOf(2 * INT),
                                 ARG_OUT, Align),
          sw |-> PREVENT_SWITCH]
    [] call \in {SYS_GETPEERNAME, SYS_GETSOCKNAME} ->
         [st |-> lenAndBuf(args(3), 2, 1), sw |-> PREVENT_SWITCH]
    [] call = SYS_RECV -> [st |-> recvBuf(args(4)), sw |-> ALLOW_SWITCH]
    [] call = SYS_ACCEPT -> [st |-> lenAndBuf(args(3), 2, 1), sw |-> ALLOW_SWITCH]
    [] call = SYS_ACCEPT4 -> [st |-> lenAndBuf(args(4), 2, 1), sw |-> ALLOW_SWITCH]
    [] call = SYS_RECVFROM ->
         [st |-> lenAndBuf(recvBuf(args(6)), 5, 4), sw |-> ALLOW_SWITCH]
    [] call = SYS_RECVMSG ->
         LET s1 == MemPtrParameter(args(3), m, argsp + 1, ParamSizeOf(MSGHDR),
                                   ARG_IN_OUT, Align)
             msgp == MemPtrParameterResult(args(3), m, argsp + 1)
         IN  [st |-> PrepareRecvmsg(s1, m, msgp,
                       FromSyscallResult(SIZE_T_SIZE, SizeMax)),
              sw |-> IF dontwait THEN PREVENT_SWITCH ELSE ALLOW_SWITCH]
    [] call = SYS_SENDMSG ->
         [st |-> st, sw |-> IF dontwait THEN PREVENT_SWITCH ELSE ALLOW_SWITCH]
    [] call \notin {SYS_RECVMMSG, SYS_SENDMMSG} ->
         [st |-> [st EXCEPT !.expectErrno = EINVAL], sw |-> PREVENT_SWITCH]

(* nanosleep: rem (arg 2) is an OUT param; the sleep may block.           *)
PrepareNanosleep(st, r, m) ==
  [st |-> RegParameter(st, r, 2, ParamSizeOf(TIMESPEC), ARG_OUT, Align),
   sw |-> ALLOW_SWITCH]

(* epoll_wait: the events array, maxevents structures; the product is     *)
(* taken as a size_t.                                                      *)
PrepareEpollWait(st, r, m) ==
  [st |-> RegParameter(st, r, 2, ParamSizeOf(UnsignedOf(EPOLL_EVENT * r[3], SIZE_T_SIZE)),
                       ARG_OUT, Align),
   sw |-> ALLOW_SWITCH]

(* write and writev register nothing and return their switchability     *)
(* without done_preparing: a write to rr's own stdout or stderr keeps the *)
(* tracer, so that echoed writes are replayed in the order they were made. *)
PrepareWrite(st, r, m) ==
  [st |-> st,
   sw |-> IF r[1] \in {STDOUT_FILENO, STDERR_FILENO} THEN PREVENT_SWITCH
          ELSE ALLOW_SWITCH]

(* The preparers read tracee memory through the pointers the registration *)
(* calls hand back (t->read_mem).  On a state already prepared those      *)
(* pointers are null, and a read at null of a non-empty range aborts the  *)
(* recording.  prepare_recvmsg reads the msghdr, then its iovec array.    *)
RecvmsgReadsOk(st, m, msgp) ==
  /\ msgp # 0
  /\ MemPtrParameterResult(st, m, msgp + MSG_IOV) # 0 \/ m[msgp + MSG_IOVLEN] = 0

(* socketcall's RECV and RECVFROM read the argument block; RECVMSG reads  *)
(* the msghdr through the pointer in it, then the block.                   *)
SocketcallReadsOk(st, r, m) ==
  LET argsp == RegParameterResult(st, r, 2)
  IN  CASE r[1] \in {SYS_RECV, SYS_RECVFROM} -> argsp # 0
        [] r[1] = SYS_RECVMSG ->
             /\ RecvmsgReadsOk(st, m, IF argsp = 0 THEN 0
                                      ELSE MemPtrParameterResult(st, m, argsp + 1))
             /\ argsp # 0
        [] OTHER -> TRUE

(* The reads each syscall's case makes: readv reads iovcnt iovecs at the  *)
(* pointer reg_parameter returned.                                         *)
ReadsOk(f, st, r, m) ==
  CASE f = "readv" -> RegParameterResult(st, r, 2) # 0 \/ r[3] = 0
    [] f = "recvmsg" -> RecvmsgReadsOk(st, m, RegParameterResult(st, r, 2))
    [] f = "socketcall" -> SocketcallReadsOk(st, r, m)
    [] OTHER -> TRUE

Preparer(f, st, r, m) ==
  CASE f = "read" -> PrepareRead(st, r, m)
    [] f = "readv" -> PrepareReadv(st, r, m)
    [] f = "accept" -> PrepareAccept(st, r, m)
    [] f = "getsockname" -> PrepareGetsockname(st, r, m)
    [] f = "recvmsg" -> PrepareRecvmsgCall(st, r, m)
    [] f = "futex" -> PrepareFutex(st, r, m)
    [] f = "socketcall" -> PrepareSocketcall(st, r, m)
    [] f = "nanosleep" -> PrepareNanosleep(st, r, m)
    [] f = "epoll_wait" -> PrepareEpollWait(st, r, m)
    [] f = "write" -> PrepareWrite(st, r, m)

(* rec_prepare_syscall_arch for task t: init, the syscall's case, then    *)
(* done_preparing with the task's scratch_ptr and scratch_size, except    *)
(* for write, whose case returns before it.                                *)
Prepare(f, t, st, r, m) ==
  LET pp == Preparer(f, st, r, m)
      dp == DonePreparing(pp.st, pp.sw, m, r, ScratchPtr(t), ScratchCap)
  IN  IF f = "write" THEN [st |-> pp.st, mem |-> m, regs |-> r, ok |-> TRUE]
      ELSE [st |-> dp.st, mem |-> dp.mem, regs |-> dp.regs,
            ok |-> ReadsOk(f, st, r, m) /\ dp.ok]

----------------------------------------------------------------------------
Init ==
  /\ mem = [a \in Addr |-> IF a \in UserAddr THEN OldVal ELSE 0]
  /\ regs = [t \in Tasks |-> Regs3(0, 0, 0)]
  /\ phase = [t \in Tasks |-> "user"]
  /\ fam = [t \in Tasks |-> NoSyscall]
  /\ sst = [t \in Tasks |-> NewSyscallState(ScratchPtr(t))]
  /\ nsys = [t \in Tasks |-> 0]
  /\ nuw = 0
  /\ nre = 0
  /\ nrs = 0
  /\ pipe = 0
  /\ fatal = FALSE
  /\ native = [a \in UserAddr |-> OldVal]
  /\ nregs = regs
  /\ nout = [t \in Tasks |-> {}]
  /\ replay = native

(* The switchability rec_prepare_syscall returned for u's syscall: the    *)
(* one done_preparing decided, or write's own.                             *)
SwitchableOf(u) ==
  IF fam[u] = "write" THEN PrepareWrite(sst[u], regs[u], mem).sw
  ELSE sst[u].switchable

(* Task u holds the tracer: it is inside a PREVENT_SWITCH syscall.        *)
Holding(u) == phase[u] # "user" /\ SwitchableOf(u) = PREVENT_SWITCH

(* The tracer schedules t: no other task holds it, and it has not died.   *)
Scheduled(t) == ~fatal /\ \A u \in Tasks \ {t} : ~Holding(u)

(* Task t's code fills in a syscall's arguments.                          *)
Setup(t, f, c) ==
  /\ Scheduled(t)
  /\ phase[t] = "user" /\ fam[t] = NoSyscall /\ nsys[t] < MaxSyscalls
  /\ LET lay == Layout(f, t, c) IN
     /\ mem' = Apply(mem, lay.cells)
     /\ native' = Apply(native, lay.cells)
     /\ replay' = Apply(replay, lay.cells)
     /\ regs' = [regs EXCEPT ![t] = lay.regs]
     /\ nregs' = [nregs EXCEPT ![t] = lay.regs]
  /\ fam' = [fam EXCEPT ![t] = f]
  /\ UNCHANGED <<phase, sst, nsys, nuw, nre, nrs, pipe, fatal, nout>>

(* The syscall-entry trap: rec_prepare_syscall.                            *)
Enter(t) ==
  /\ Scheduled(t)
  /\ phase[t] = "user" /\ fam[t] # NoSyscall
  /\ LET p == Prepare(fam[t], t, sst[t], regs[t], mem) IN
     /\ sst' = [sst EXCEPT ![t] = p.st]
     /\ mem' = p.mem
     /\ regs' = [regs EXCEPT ![t] = p.regs]
     /\ fatal' = ~p.ok
  /\ phase' = [phase EXCEPT ![t] = "kernel"]
  /\ UNCHANGED <<fam, nsys, nuw, nre, nrs, pipe, native, nregs, nout, replay>>

(* The tracer meets the entry of t's syscall again before the kernel has  *)
(* completed it (a resumed syscall): rec_prepare_syscall runs on the      *)
(* state that is still there, whose preparation_done makes init,          *)
(* reg_parameter, mem_ptr_parameter and done_preparing return early.      *)
Reenter(t) ==
  /\ Scheduled(t)
  /\ phase[t] = "kernel" /\ nre < MaxReentries
  /\ LET p == Prepare(fam[t], t, sst[t], regs[t], mem) IN
     /\ sst' = [sst EXCEPT ![t] = p.st]
     /\ mem' = p.mem
     /\ regs' = [regs EXCEPT ![t] = p.regs]
     /\ fatal' = ~p.ok
  /\ nre' = nre + 1
  /\ UNCHANGED <<phase, fam, nsys, nuw, nrs, pipe, native, nregs, nout, replay>>

(* The bytes a syscall that completes moves through the pipe: a read     *)
(* takes the n it returns, a write to the write end adds its count.        *)
PipeFlow(f, r, n, fail) ==
  CASE fail -> 0
    [] f = "read" /\ PipeReads -> -n
    [] f = "write" /\ r[1] = PIPE_WR -> r[3]
    [] OTHER -> 0

(* The kernel runs t's syscall on the registers and memory the tracer    *)
(* handed it; the native run makes the same choice on the original       *)
(* arguments.  Outputs to scratch are only visible to the native run's    *)
(* tracee when the tracer writes them back, so there they are applied at *)
(* the exit.  A read on the pipe blocks while it is empty, then returns   *)
(* what is there, up to its count.                                         *)
Kernel(t, n, alen, fail) ==
  /\ ~fatal
  /\ phase[t] = "kernel"
  /\ fail => KernelMayFail \/ fam[t] = "nanosleep"
  /\ PipeReads /\ fam[t] = "read" /\ ~fail =>
       pipe > 0 /\ n = MinOf(pipe, nregs[t][3])
  /\ pipe' = pipe + PipeFlow(fam[t], nregs[t], n, fail)
  /\ LET e == KernelEffect(fam[t], t, regs[t], mem, n, alen, fail)
         ne == KernelEffect(fam[t], t, nregs[t], native, n, alen, fail)
     IN  /\ mem' = Apply(mem, e.w)
         /\ regs' = [regs EXCEPT ![t][0] = e.res]
         /\ nregs' = [nregs EXCEPT ![t][0] = ne.res]
         /\ IF sst[t].scratchEnabled
              THEN /\ nout' = [nout EXCEPT ![t] = ne.w]
                   /\ UNCHANGED native
              ELSE /\ native' = Apply(native, ne.w)
                   /\ UNCHANGED nout
  /\ phase' = [phase EXCEPT ![t] = "exit"]
  /\ UNCHANGED <<fam, sst, nsys, nuw, nre, nrs, fatal, replay>>

(* The syscalls that block, and so may be interrupted by a signal to be   *)
(* restarted; the kernel then returns -ERESTARTSYS, or                     *)
(* -ERESTART_RESTARTBLOCK for nanosleep, which has first stored the time  *)
(* remaining in rem.                                                       *)
InterruptibleFamilies ==
  {"read", "readv", "accept", "recvmsg", "futex", "nanosleep", "epoll_wait"}

RestartErrno(f) == IF f = "nanosleep" THEN ERESTART_RESTARTBLOCK ELSE ERESTARTSYS

InterruptEffect(f, t, r) ==
  IF f = "nanosleep" /\ r[2] # 0 THEN Fill(r[2], TIMESPEC, KVal(t)) ELSE {}

(* The kernel step of a blocked syscall that a signal interrupts; the    *)
(* native run is interrupted at the same point.                           *)
Interrupt(t) ==
  /\ ~fatal
  /\ phase[t] = "kernel" /\ fam[t] \in InterruptibleFamilies
  /\ nrs < MaxRestarts
  /\ LET e == InterruptEffect(fam[t], t, regs[t])
         ne == InterruptEffect(fam[t], t, nregs[t])
     IN  /\ mem' = Apply(mem, e)
         /\ regs' = [regs EXCEPT ![t][0] = -RestartErrno(fam[t])]
         /\ nregs' = [nregs EXCEPT ![t][0] = -RestartErrno(fam[t])]
         /\ IF sst[t].scratchEnabled
              THEN /\ nout' = [nout EXCEPT ![t] = ne]
                   /\ UNCHANGED native
              ELSE /\ native' = Apply(native, ne)
                   /\ UNCHANGED nout
  /\ phase' = [phase EXCEPT ![t] = "exit"]
  /\ nrs' = nrs + 1
  /\ UNCHANGED <<fam, sst, nsys, nuw, nre, pipe, fatal, replay>>

(* At the exit trap, the tracer tells a syscall to be restarted by its    *)
(* result.                                                                 *)
RestartPending(t) == regs[t][0] \in {-ERESTARTSYS, -ERESTART_RESTARTBLOCK}

(* nanosleep's case: a completed sleep (result 0) leaves rem alone, so    *)
(* nothing is written back or recorded.                                    *)
FinalizeNanosleep(st, m, r) ==
  ProcessSyscallResults(st, IF r[0] # 0 THEN WRITE_BACK ELSE NO_WRITE_BACK, m, r)

(* The case of rec_process_syscall_arch for the modelled syscalls: all but *)
(* nanosleep are in its list of syscalls finalized by                      *)
(* process_syscall_results().                                              *)
Finalize(f, st, m, r) ==
  CASE f \in {"accept", "epoll_wait", "futex", "getsockname", "read", "readv",
              "recvmsg", "socketcall"} ->
         ProcessSyscallResults(st, WRITE_BACK, m, r)
    [] f = "nanosleep" -> FinalizeNanosleep(st, m, r)
    [] f = "write" -> [mem |-> m, regs |-> r, ok |-> TRUE, records |-> <<>>]

(* The ASSERT of rec_process_syscall_arch's expect_errno path: the kernel *)
(* failed the call with the errno the preparer expected.                   *)
ExpectedErrnoOk(st, r) == r[0] = -st.expectErrno

(* A mutant of ExitExpectErrno: the path returns without removing the    *)
(* syscall state.                                                          *)
ExitExpectErrnoKeepingState(t) ==
  /\ Scheduled(t)
  /\ phase[t] = "exit" /\ ~RestartPending(t)
  /\ sst[t].expectErrno # 0
  /\ fatal' = ~ExpectedErrnoOk(sst[t], regs[t])
  /\ native' = Apply(native, nout[t])
  /\ nout' = [nout EXCEPT ![t] = {}]
  /\ phase' = [phase EXCEPT ![t] = "user"]
  /\ fam' = [fam EXCEPT ![t] = NoSyscall]
  /\ nsys' = [nsys EXCEPT ![t] = @ + 1]
  /\ UNCHANGED <<mem, regs, replay, sst, nuw, nre, nrs, pipe, nregs>>

(* The syscall-exit trap of a syscall prepared with expect_errno set      *)
(* (socketcall with no call): rec_process_syscall_arch asserts that the   *)
(* kernel failed it with that errno, records nothing, removes the syscall *)
(* state and returns.                                                      *)
ExitExpectErrno(t) ==
  /\ Scheduled(t)
  /\ phase[t] = "exit" /\ ~RestartPending(t)
  /\ sst[t].expectErrno # 0
  /\ fatal' = ~ExpectedErrnoOk(sst[t], regs[t])
  /\ native' = Apply(native, nout[t])
  /\ nout' = [nout EXCEPT ![t] = {}]
  /\ phase' = [phase EXCEPT ![t] = "user"]
  /\ fam' = [fam EXCEPT ![t] = NoSyscall]
  /\ sst' = [sst EXCEPT ![t] = NewSyscallState(ScratchPtr(t))]
  /\ nsys' = [nsys EXCEPT ![t] = @ + 1]
  /\ UNCHANGED <<mem, regs, replay, nuw, nre, nrs, pipe, nregs>>

(* A mutant of Exit: the syscall event is not retired, so the task       *)
(* resumes the same syscall instead of returning to its code.              *)
ExitKeepsEvent(t) ==
  /\ Scheduled(t)
  /\ phase[t] = "exit" /\ ~RestartPending(t)
  /\ sst[t].expectErrno = 0
  /\ LET x == Finalize(fam[t], sst[t], mem, regs[t]) IN
     /\ mem' = x.mem
     /\ regs' = [regs EXCEPT ![t] = x.regs]
     /\ replay' = ApplyRecords(replay, x.records)
     /\ fatal' = ~x.ok
  /\ native' = Apply(native, nout[t])
  /\ nout' = [nout EXCEPT ![t] = {}]
  /\ phase' = [phase EXCEPT ![t] = "user"]
  /\ sst' = [sst EXCEPT ![t] = NewSyscallState(ScratchPtr(t))]
  /\ nsys' = [nsys EXCEPT ![t] = @ + 1]
  /\ UNCHANGED <<nuw, nre, nrs, pipe, nregs, fam>>

(* A mutant of Exit: the syscall state is kept after the exit.          *)
ExitKeepsState(t) ==
  /\ Scheduled(t)
  /\ phase[t] = "exit" /\ ~RestartPending(t)
  /\ sst[t].expectErrno = 0
  /\ LET x == Finalize(fam[t], sst[t], mem, regs[t]) IN
     /\ mem' = x.mem
     /\ regs' = [regs EXCEPT ![t] = x.regs]
     /\ replay' = ApplyRecords(replay, x.records)
     /\ fatal' = ~x.ok
  /\ native' = Apply(native, nout[t])
  /\ nout' = [nout EXCEPT ![t] = {}]
  /\ phase' = [phase EXCEPT ![t] = "user"]
  /\ fam' = [fam EXCEPT ![t] = NoSyscall]
  /\ nsys' = [nsys EXCEPT ![t] = @ + 1]
  /\ UNCHANGED <<nuw, nre, nrs, pipe, nregs, sst>>

(* The syscall-exit trap of any other syscall: rec_process_syscall_arch's *)
(* case for it (process_syscall_results() for these syscalls), then the   *)
(* removal of the syscall state after the switch.                          *)
Exit(t) ==
  /\ Scheduled(t)
  /\ phase[t] = "exit" /\ ~RestartPending(t)
  /\ sst[t].expectErrno = 0
  /\ LET x == Finalize(fam[t], sst[t], mem, regs[t]) IN
     /\ mem' = x.mem
     /\ regs' = [regs EXCEPT ![t] = x.regs]
     /\ replay' = ApplyRecords(replay, x.records)
     /\ fatal' = ~x.ok
  /\ native' = Apply(native, nout[t])
  /\ nout' = [nout EXCEPT ![t] = {}]
  /\ phase' = [phase EXCEPT ![t] = "user"]
  /\ fam' = [fam EXCEPT ![t] = NoSyscall]
  /\ sst' = [sst EXCEPT ![t] = NewSyscallState(ScratchPtr(t))]
  /\ nsys' = [nsys EXCEPT ![t] = @ + 1]
  /\ UNCHANGED <<nuw, nre, nrs, pipe, nregs>>

(* A mutant of Restart: nanosleep is not finalized, so the remaining    *)
(* time the kernel stored in scratch is never written back to rem.         *)
RestartSkipsNanosleep(t) ==
  /\ Scheduled(t)
  /\ phase[t] = "exit" /\ RestartPending(t)
  /\ UNCHANGED <<mem, regs, replay, fatal>>
  /\ native' = Apply(native, nout[t])
  /\ nout' = [nout EXCEPT ![t] = {}]
  /\ phase' = [phase EXCEPT ![t] = "user"]
  /\ sst' = [sst EXCEPT ![t] = NewSyscallState(ScratchPtr(t))]
  /\ UNCHANGED <<fam, nsys, nuw, nre, nrs, pipe, nregs>>

(* A mutant of Restart: the syscall state is not removed.                *)
RestartKeepsState(t) ==
  /\ Scheduled(t)
  /\ phase[t] = "exit" /\ RestartPending(t)
  /\ IF fam[t] = "nanosleep"
       THEN LET x == ProcessSyscallResults(sst[t], WRITE_BACK, mem, regs[t]) IN
            /\ mem' = x.mem
            /\ regs' = [regs EXCEPT ![t] = x.regs]
            /\ replay' = ApplyRecords(replay, x.records)
            /\ fatal' = ~x.ok
       ELSE UNCHANGED <<mem, regs, replay, fatal>>
  /\ native' = Apply(native, nout[t])
  /\ nout' = [nout EXCEPT ![t] = {}]
  /\ phase' = [phase EXCEPT ![t] = "user"]
  /\ UNCHANGED <<sst, fam, nsys, nuw, nre, nrs, pipe, nregs>>

(* The exit trap of a syscall to be restarted: rec_prepare_restart_syscall *)
(* finalizes a nanosleep with process_syscall_results(), so that rem is   *)
(* written back and recorded, and removes the syscall state of every      *)
(* syscall.  The task then runs from the restart point (a signal handler  *)
(* may run first) with the syscall still set up, and the restarted        *)
(* syscall comes back through Enter.  Nothing else is restored.            *)
Restart(t) ==
  /\ Scheduled(t)
  /\ phase[t] = "exit" /\ RestartPending(t)
  /\ IF fam[t] = "nanosleep"
       THEN LET x == ProcessSyscallResults(sst[t], WRITE_BACK, mem, regs[t]) IN
            /\ mem' = x.mem
            /\ regs' = [regs EXCEPT ![t] = x.regs]
            /\ replay' = ApplyRecords(replay, x.records)
            /\ fatal' = ~x.ok
       ELSE UNCHANGED <<mem, regs, replay, fatal>>
  /\ native' = Apply(native, nout[t])
  /\ nout' = [nout EXCEPT ![t] = {}]
  /\ phase' = [phase EXCEPT ![t] = "user"]
  /\ sst' = [sst EXCEPT ![t] = NewSyscallState(ScratchPtr(t))]
  /\ UNCHANGED <<fam, nsys, nuw, nre, nrs, pipe, nregs>>

(* Task t's code writes a cell of another task's syscall buffer.         *)
UserWrite(t, a) ==
  /\ Scheduled(t)
  /\ phase[t] = "user" /\ nuw < MaxUserWrites
  /\ \E u \in Tasks \ {t} : a \in DataCells(u)
  /\ mem' = [mem EXCEPT ![a] = UVal]
  /\ native' = [native EXCEPT ![a] = UVal]
  /\ replay' = [replay EXCEPT ![a] = UVal]
  /\ nuw' = nuw + 1
  /\ UNCHANGED <<regs, phase, fam, sst, nsys, nre, nrs, pipe, fatal, nregs, nout>>

(* Every task has issued its syscalls: the run is over.                   *)
Finished ==
  /\ \A t \in Tasks : phase[t] = "user" /\ fam[t] = NoSyscall
                      /\ nsys[t] = MaxSyscalls
  /\ UNCHANGED vars

KernelChoices == [n : 0 .. MaxIO, alen : 1 .. 2, fail : BOOLEAN]

Next ==
  \/ \E t \in Tasks, f \in Families :
       \E c \in SetupChoices(f) : Setup(t, f, c)
  \/ \E t \in Tasks : Enter(t)
  \/ \E t \in Tasks : Reenter(t)
  \/ \E t \in Tasks, k \in KernelChoices : Kernel(t, k.n, k.alen, k.fail)
  \/ \E t \in Tasks : Interrupt(t)
  \/ \E t \in Tasks : ExitExpectErrno(t)
  \/ \E t \in Tasks : Exit(t)
  \/ \E t \in Tasks : Restart(t)
  \/ \E t \in Tasks, a \in UserAddr : UserWrite(t, a)
  \/ Finished

Spec == Init /\ [][Next]_vars

(* The steps of task t's own progress: its code goes on to its next       *)
(* syscall, the tracer handles its entry and exit traps, the kernel       *)
(* completes its syscall.  At most one of them is enabled at a time.       *)
TaskStep(t) ==
  \/ \E f \in Families : \E c \in SetupChoices(f) : Setup(t, f, c)
  \/ Enter(t)
  \/ \E k \in KernelChoices : Kernel(t, k.n, k.alen, k.fail)
  \/ ExitExpectErrno(t)
  \/ Exit(t)
  \/ Restart(t)

(* The scheduler of the record session, outside this file, keeps running *)
(* every task it is allowed to (none holds the tracer), and the kernel    *)
(* completes a syscall that can complete.  Nothing is assumed of          *)
(* interruptions, re-entries and other tasks' writes.                     *)
Fairness == \A t \in Tasks : WF_vars(TaskStep(t))

FairSpec == Spec /\ Fairness

----------------------------------------------------------------------------
(* Properties.                                                            *)

(* Type correctness: the control state of every task, and the shape of   *)
(* memory and registers (their cells' values are the tracee's data and   *)
(* are not constrained).                                                  *)
TypeOK ==
  /\ DOMAIN mem = Addr /\ DOMAIN native = UserAddr /\ DOMAIN replay = UserAddr
  /\ DOMAIN regs = Tasks /\ \A t \in Tasks : DOMAIN regs[t] = 0 .. 6
  /\ DOMAIN nregs = Tasks /\ \A t \in Tasks : DOMAIN nregs[t] = 0 .. 6
  /\ DOMAIN sst = Tasks /\ DOMAIN nout = Tasks
  /\ phase \in [Tasks -> {"user", "kernel", "exit"}]
  /\ fam \in [Tasks -> Families \cup {NoSyscall}]
  /\ nsys \in [Tasks -> 0 .. MaxSyscalls] /\ nuw \in 0 .. MaxUserWrites
  /\ nre \in 0 .. MaxReentries /\ nrs \in 0 .. MaxRestarts
  /\ fatal \in BOOLEAN

(* Recording is transparent: the tracee's memory is always what it would *)
(* be without the tracer (the scratch redirection of done_preparing and  *)
(* the write-back of process_syscall_results never show through), and a  *)
(* task running its own code sees the registers it would natively.        *)
Transparency ==
  /\ \A a \in UserAddr : mem[a] = native[a]
  /\ \A t \in Tasks : phase[t] = "user" => regs[t] = nregs[t]

(* The trace is complete: replaying the tracee's writes and the records   *)
(* process_syscall_results wrote rebuilds the tracee memory, whenever no *)
(* syscall without scratch has results not yet recorded.                  *)
ReplayFaithful ==
  (\A t \in Tasks : phase[t] = "exit" => sst[t].scratchEnabled)
    => \A a \in UserAddr : replay[a] = mem[a]

(* No ASSERT of the tracer fails: relocate_pointer_to_scratch finds       *)
(* exactly one param for every pointer it moves, the scratch cursor never *)
(* goes below scratch_ptr, and eval's sizes stay consistent.             *)
NoInternalError == ~fatal

(* The kernel sees the arguments the task passed: the lengths, counts,    *)
(* futex word and futex address it reads through the relocated registers *)
(* and scratch copies equal those of the native call.                     *)
KernelSeesEntryArgs ==
  [][\A t \in Tasks :
       phase[t] = "kernel" /\ phase'[t] = "exit" =>
         KernelView(fam[t], regs[t], mem) = KernelView(fam[t], nregs[t], native)
    ]_vars

(* Re-entry into the preparer is a no-op (spec 8.5): when the tracer runs *)
(* rec_prepare_syscall again on a syscall already prepared, the params,   *)
(* scratch cursor and switchability stay as they are, tracee memory and   *)
(* registers are not touched again, and the recording does not abort.     *)
Idempotence ==
  [][\A t \in Tasks :
       Reenter(t) => sst'[t] = sst[t] /\ mem' = mem /\ regs'[t] = regs[t] /\ ~fatal'
    ]_vars

(* Task t has issued all its syscalls.                                    *)
Done(t) == phase[t] = "user" /\ fam[t] = NoSyscall /\ nsys[t] = MaxSyscalls

(* Task t waits in a read on the empty pipe, as it would without rr.      *)
BlockedOnPipe(t) == phase[t] = "kernel" /\ fam[t] = "read" /\ pipe = 0

(* Recording adds no deadlock: every task eventually issues all its       *)
(* syscalls or waits on the empty pipe with every other unfinished task,  *)
(* where the tasks would stop without rr too.  It fails when a read that *)
(* blocks keeps the tracer (done_preparing degrading to PREVENT_SWITCH an  *)
(* ALLOW_SWITCH syscall whose scratch does not fit) while the task that    *)
(* would fill the pipe cannot run.                                         *)
Termination == <>(\A t \in Tasks : Done(t) \/ BlockedOnPipe(t))

=============================================================================
