------------------------------- MODULE Execve -------------------------------
(* One task's execve under the recorder (src/src/record_syscall.cc).      *)
(* At the entry trap the execve case of rec_prepare_syscall_arch saves    *)
(* the entry registers, captures the file name and argv into a pending    *)
(* task event and, on an i386 build asked to run a 64-bit image, points   *)
(* arg1 at the NUL that ends the name so that the kernel fails with       *)
(* ENOENT.  It never calls done_preparing, so a re-entry runs it again.   *)
(* At the exit trap process_execve restores a clobbered arg1 when the     *)
(* exec failed; when it succeeded it writes the event, then walks the new *)
(* image's initial stack (argc, argv, NULL, envp, NULL, auxv), checks the *)
(* auxv keys against elf_auxv_ordering<Arch> and records the 16 bytes     *)
(* that AT_RANDOM points to.  The kernel is the environment: it fails the *)
(* exec or replaces the whole memory by the new image, laid out as Linux  *)
(* lays out the initial stack.                                            *)
(*                                                                        *)
(* Memory is a function from word addresses to words.  Strings are       *)
(* sequences of non-zero words ended by a 0 word.                         *)
EXTENDS Integers, Sequences

CONSTANTS
  Arch,          \* "x86" or "x64": the tracee's architecture (Arch)
  Build32,       \* rr itself is built for i386 (__i386__)
  MaxExecs,      \* bound: execve calls the task makes
  MaxReentries,  \* bound: re-entries of the preparer
  MaxEnv         \* bound: environment strings of a new image

ASSUME ArchAssumption == Arch \in {"x86", "x64"}
ASSUME Build32Assumption == Build32 \in BOOLEAN
ASSUME BoundsAssumption ==
  MaxExecs \in Nat /\ MaxReentries \in Nat /\ MaxEnv \in Nat

(* Auxiliary-vector keys, with their values in <elf.h>.                   *)
AT_NULL == 0
AT_PHDR == 3
AT_PHENT == 4
AT_PHNUM == 5
AT_PAGESZ == 6
AT_BASE == 7
AT_FLAGS == 8
AT_ENTRY == 9
AT_UID == 11
AT_EUID == 12
AT_GID == 13
AT_EGID == 14
AT_HWCAP == 16
AT_CLKTCK == 17
AT_SECURE == 23
AT_RANDOM == 25
AT_SYSINFO == 32
AT_SYSINFO_EHDR == 33

ENOENT == 2
EACCES == 13

(* A mutant: the x86 ordering used for both architectures.              *)
AuxvKeysX86 ==
  <<AT_SYSINFO, AT_SYSINFO_EHDR, AT_HWCAP, AT_PAGESZ, AT_CLKTCK, AT_PHDR,
    AT_PHENT, AT_PHNUM, AT_BASE, AT_FLAGS, AT_ENTRY, AT_UID, AT_EUID, AT_GID,
    AT_EGID, AT_SECURE>>

(* elf_auxv_ordering<Arch>::keys: the keys rr expects before AT_RANDOM.   *)
AuxvKeys ==
  IF Arch = "x86"
    THEN <<AT_SYSINFO, AT_SYSINFO_EHDR, AT_HWCAP, AT_PAGESZ, AT_CLKTCK,
           AT_PHDR, AT_PHENT, AT_PHNUM, AT_BASE, AT_FLAGS, AT_ENTRY, AT_UID,
           AT_EUID, AT_GID, AT_EGID, AT_SECURE>>
    ELSE <<AT_SYSINFO_EHDR, AT_HWCAP, AT_PAGESZ, AT_CLKTCK, AT_PHDR,
           AT_PHENT, AT_PHNUM, AT_BASE, AT_FLAGS, AT_ENTRY, AT_UID, AT_EUID,
           AT_GID, AT_EGID, AT_SECURE>>

(* The task's memory.  Its code writes a file name into one of the two    *)
(* buffers Names, the argv array at ARGV and one argument string at       *)
(* ARGSTR; a new image's initial stack starts at STACK.  CHAR and ARGCHAR *)
(* are non-zero characters; STRPTR, ENVPTR and AUXVAL stand for the       *)
(* pointers and values of the new stack, RAND_BYTES for the address of    *)
(* its 16 random bytes.                                                   *)
Names == {1, 4}
ARGV == 7
ARGSTR == 10
STACK == 12
CHAR == 65
ARGCHAR == 97
STRPTR == 200
ENVPTR == 300
AUXVAL == 400
RAND_BYTES == 500
MaxStack == 1 + 2 + 1 + MaxEnv + 1 + 2 * 16 + 4
TOP == STACK + MaxStack - 1
Addr == 1 .. TOP
Unmapped == -1

(* A read of one word; outside the mapped range it yields Unmapped.      *)
Word(m, a) == IF a \in DOMAIN m THEN m[a] ELSE Unmapped

(* The address of the first 0 word at or after p, or of the first        *)
(* unmapped one; a scan from p stops at TOP + 1 at the latest.            *)
Stops(m, a) == Word(m, a) \in {0, Unmapped}

ScanEnd(p) == IF p <= TOP + 1 THEN TOP + 1 ELSE p

FirstZero(m, p) ==
  CHOOSE q \in p .. ScanEnd(p) :
    Stops(m, q) /\ \A j \in p .. q - 1 : ~Stops(m, j)

(* Task::read_c_str: the characters from a up to the terminating NUL.    *)
CStr(m, a) == [k \in 1 .. FirstZero(m, a) - a |-> m[a + k - 1]]

(* The argv walk of the preparer: strings pointed to until a null word.  *)
CmdLine(m, argv) ==
  [k \in 1 .. FirstZero(m, argv) - argv |-> CStr(m, m[argv + k - 1])]

NoRegs == [arg1 |-> -1, arg2 |-> -1, res |-> 0, sp |-> 0]
NoEvent == [file |-> <<>>, argv |-> <<>>]

(* Registers::syscall_failed.                                              *)
Failed(res) == res \in -4095 .. -1

(* exec_file_supported: an i386 build rejects 64-bit ELF images; an        *)
(* x86-64 build supports both classes.                                     *)
ExecFileSupported(is64) == ~(Build32 /\ is64)

VARIABLES
  mem,       \* the task's memory
  regs,      \* the task's registers
  phase,     \* "user", "entry" (at the execve), "kernel", "exit"
  is64,      \* the image the task asks for is ELFCLASS64
  entry,     \* syscall_entry_registers, or NoRegs
  event,     \* exec_saved_event, or NoEvent
  trace,     \* what the recorder wrote: task events and recorded ranges
  fatal,     \* an ASSERT (or a debug build's assert) fired
  nexec,     \* execve calls made
  nre,       \* re-entries made
  passed,    \* history: the arg1 the task's code passed to this execve
  expected   \* history: the event and AT_RANDOM range of each exec
             \* the kernel carried out

vars == <<mem, regs, phase, is64, entry, event, trace, fatal, nexec, nre,
          passed, expected>>

(* Linux's initial stack of a new image (create_elf_tables): argc, the    *)
(* argv pointers, NULL, the envp pointers, NULL, then the auxv pairs: the *)
(* architecture's entries (ARCH_DLINFO), the generic ones, AT_RANDOM and  *)
(* finally AT_NULL.  KernelAuxvKeys are the keys before AT_RANDOM.        *)
KernelAuxvKeys ==
  IF Arch = "x86"
    THEN <<AT_SYSINFO, AT_SYSINFO_EHDR, AT_HWCAP, AT_PAGESZ, AT_CLKTCK,
           AT_PHDR, AT_PHENT, AT_PHNUM, AT_BASE, AT_FLAGS, AT_ENTRY, AT_UID,
           AT_EUID, AT_GID, AT_EGID, AT_SECURE>>
    ELSE <<AT_SYSINFO_EHDR, AT_HWCAP, AT_PAGESZ, AT_CLKTCK, AT_PHDR,
           AT_PHENT, AT_PHNUM, AT_BASE, AT_FLAGS, AT_ENTRY, AT_UID, AT_EUID,
           AT_GID, AT_EGID, AT_SECURE>>

(* The memory of a new image with argc arguments and envc environment     *)
(* strings: the stack at STACK, every other word 0.                       *)
NewImage(argc, envc) ==
  LET envp == STACK + argc + 2
      auxv == envp + envc + 1
      K == Len(KernelAuxvKeys)
  IN  [a \in Addr |->
         CASE a = STACK -> argc
           [] a \in STACK + 1 .. STACK + argc -> STRPTR
           [] a \in envp .. envp + envc - 1 -> ENVPTR
           [] a \in auxv .. auxv + 2 * K - 1 ->
                IF (a - auxv) % 2 = 0 THEN KernelAuxvKeys[(a - auxv) \div 2 + 1]
                                      ELSE AUXVAL
           [] a = auxv + 2 * K -> AT_RANDOM
           [] a = auxv + 2 * K + 1 -> RAND_BYTES
           [] OTHER -> 0]

(* A range recorded with record_remote.                                    *)
Rec(addr, len) == [addr |-> addr, len |-> len]

Init ==
  /\ mem = [a \in Addr |-> 0]
  /\ regs = [arg1 |-> 0, arg2 |-> 0, res |-> 0, sp |-> STACK]
  /\ phase = "user"
  /\ is64 = FALSE
  /\ entry = NoRegs
  /\ event = NoEvent
  /\ trace = <<>>
  /\ fatal = FALSE
  /\ nexec = 0
  /\ nre = 0
  /\ passed = 0
  /\ expected = <<>>
----------------------------------------------------------------------------
(* The task's code.                                                        *)

(* The argv arrays the task's code may build around a name at p.          *)
ArgvChoices(p) == {<<>>, <<p>>, <<p, ARGSTR>>}

(* The classes of image the task may ask for: an x86-64 build is only     *)
(* asked for images of the task's own architecture.                       *)
ClassChoices == IF Build32 THEN BOOLEAN ELSE {Arch = "x64"}

(* The task's code writes a name of n characters at p, an argv array and *)
(* its argument string, and traps into execve(p, ARGV, ...).              *)
Setup(p, n, args, big) ==
  /\ ~fatal /\ phase = "user" /\ nexec < MaxExecs
  /\ mem' = [a \in Addr |->
               CASE a \in p .. p + 2 -> IF a - p < n THEN CHAR ELSE 0
                 [] a \in ARGV .. ARGV + 2 ->
                      IF a - ARGV < Len(args) THEN args[a - ARGV + 1] ELSE 0
                 [] a = ARGSTR -> ARGCHAR
                 [] a = ARGSTR + 1 -> 0
                 [] OTHER -> mem[a]]
  /\ regs' = [regs EXCEPT !.arg1 = p, !.arg2 = ARGV]
  /\ is64' = big
  /\ passed' = p
  /\ phase' = "entry"
  /\ UNCHANGED <<entry, event, trace, fatal, nexec, nre, expected>>

----------------------------------------------------------------------------
(* The recorder.                                                           *)

(* A mutant: the entry registers saved on every pass, as the clone and   *)
(* sched_setaffinity cases do.                                            *)
PrepareExecveSavingAlways(st, r, m, big) ==
  LET raw == CStr(m, r.arg1)
      rr == IF ExecFileSupported(big) THEN r
                                      ELSE [r EXCEPT !.arg1 = r.arg1 + Len(raw)]
  IN  [entry |-> r, regs |-> rr,
       event |-> [file |-> raw, argv |-> CmdLine(m, rr.arg2)]]

(* The execve case of rec_prepare_syscall_arch on syscall state st (the   *)
(* saved entry registers), registers r, memory m and an image of class   *)
(* big: the entry registers are saved only when none are, the name and    *)
(* argv are read, arg1 is moved to the name's NUL when the image is not   *)
(* supported.                                                             *)
PrepareExecve(st, r, m, big) ==
  LET raw == CStr(m, r.arg1)
      rr == IF ExecFileSupported(big) THEN r
                                      ELSE [r EXCEPT !.arg1 = r.arg1 + Len(raw)]
  IN  [entry |-> IF st = NoRegs THEN r ELSE st,
       regs |-> rr,
       event |-> [file |-> raw, argv |-> CmdLine(m, rr.arg2)]]

(* The syscall-entry trap.                                                 *)
Enter ==
  /\ ~fatal /\ phase = "entry"
  /\ LET p == PrepareExecve(entry, regs, mem, is64) IN
     /\ entry' = p.entry
     /\ regs' = p.regs
     /\ event' = p.event
  /\ phase' = "kernel"
  /\ UNCHANGED <<mem, is64, trace, fatal, nexec, nre, passed, expected>>

(* The tracer meets the entry of the execve again before the kernel has  *)
(* run it; preparation_done was never set, so the whole case runs again  *)
(* on the registers as it left them.                                      *)
Reenter ==
  /\ ~fatal /\ phase = "kernel" /\ nre < MaxReentries
  /\ LET p == PrepareExecve(entry, regs, mem, is64) IN
     /\ entry' = p.entry
     /\ regs' = p.regs
     /\ event' = p.event
  /\ nre' = nre + 1
  /\ UNCHANGED <<mem, phase, is64, trace, fatal, nexec, passed, expected>>

(* The kernel runs execve on the registers it is handed: an empty name    *)
(* fails with ENOENT; another may fail for any other reason, or the exec  *)
(* succeeds, replacing the memory by the new image with envc environment  *)
(* strings and zeroing the registers but sp.                              *)
Kernel(envc, ok) ==
  /\ ~fatal /\ phase = "kernel"
  /\ LET file == CStr(mem, regs.arg1)
         argv == CmdLine(mem, regs.arg2)
     IN  IF file = <<>> \/ ~ok
           THEN /\ regs' = [regs EXCEPT !.res = IF file = <<>> THEN -ENOENT
                                                                ELSE -EACCES]
                /\ UNCHANGED <<mem, expected>>
           ELSE /\ mem' = NewImage(Len(argv), envc)
                /\ regs' = [arg1 |-> 0, arg2 |-> 0, res |-> 0, sp |-> STACK]
                /\ expected' = expected \o
                     <<[file |-> file, argv |-> argv], Rec(RAND_BYTES, 16)>>
  /\ phase' = "exit"
  /\ UNCHANGED <<is64, entry, event, trace, fatal, nexec, nre, passed>>

(* A mutant: argc counted without the NULL that ends argv.              *)
ExecveStackWalkArgcOff(m, sp) ==
  LET argc == Word(m, sp)
      nullp == sp + argc
      auxv == FirstZero(m, nullp + 1) + 1
      randp == auxv + 2 * Len(AuxvKeys)
  IN  [nullOk |-> Word(m, nullp) = 0,
       keysOk |-> \A i \in 1 .. Len(AuxvKeys) :
                    Word(m, auxv + 2 * (i - 1)) = AuxvKeys[i],
       randOk |-> Word(m, randp) = AT_RANDOM,
       rand |-> Word(m, randp + 1)]

(* The walk of process_execve over the initial stack at sp: skip argc and *)
(* the argv pointers, check the NULL after them (assert), skip envp up to *)
(* its NULL, compare the auxv keys with AuxvKeys (ASSERT), check that the *)
(* next key is AT_RANDOM (ASSERT) and read its value.                     *)
ExecveStackWalk(m, sp) ==
  LET argc == Word(m, sp)
      nullp == sp + argc + 1
      auxv == FirstZero(m, nullp + 1) + 1
      randp == auxv + 2 * Len(AuxvKeys)
  IN  [nullOk |-> Word(m, nullp) = 0,
       keysOk |-> \A i \in 1 .. Len(AuxvKeys) :
                    Word(m, auxv + 2 * (i - 1)) = AuxvKeys[i],
       randOk |-> Word(m, randp) = AT_RANDOM,
       rand |-> Word(m, randp + 1)]

(* A mutant: the pending event written whatever the exec's outcome.     *)
ProcessExecveEventAlways(st, ev, r, m, abort) ==
  LET w == ExecveStackWalk(m, r.sp)
      ok == (w.nullOk \/ ~abort) /\ w.keysOk /\ w.randOk
  IN  IF Failed(r.res)
        THEN [regs |-> IF r.arg1 # st.arg1 THEN [r EXCEPT !.arg1 = st.arg1]
                                          ELSE r,
              out |-> <<ev>>, ok |-> TRUE]
      ELSE IF r.arg1 # 0 THEN [regs |-> r, out |-> <<ev>>, ok |-> TRUE]
      ELSE [regs |-> r,
            out |-> <<ev>> \o (IF ok THEN <<Rec(w.rand, 16)>> ELSE <<>>),
            ok |-> ok]

(* process_execve on saved entry registers st, saved event ev, registers *)
(* r and memory m.  A failed exec gets its clobbered arg1 back; an exec   *)
(* whose arg1 is not 0 is left alone; otherwise the event is written and  *)
(* the stack walked.  The C assert on the argv NULL aborts only a debug   *)
(* build (abort); the ASSERTs abort every build.                          *)
ProcessExecve(st, ev, r, m, abort) ==
  LET w == ExecveStackWalk(m, r.sp)
      ok == (w.nullOk \/ ~abort) /\ w.keysOk /\ w.randOk
  IN  IF Failed(r.res)
        THEN [regs |-> IF r.arg1 # st.arg1 THEN [r EXCEPT !.arg1 = st.arg1]
                                          ELSE r,
              out |-> <<>>, ok |-> TRUE]
      ELSE IF r.arg1 # 0 THEN [regs |-> r, out |-> <<>>, ok |-> TRUE]
      ELSE [regs |-> r,
            out |-> <<ev>> \o (IF ok THEN <<Rec(w.rand, 16)>> ELSE <<>>),
            ok |-> ok]

(* A mutant: the syscall state left in place after the exit.            *)
ExitKeepsState(abort) ==
  /\ ~fatal /\ phase = "exit"
  /\ LET p == ProcessExecve(entry, event, regs, mem, abort) IN
     /\ regs' = p.regs
     /\ trace' = trace \o p.out
     /\ fatal' = ~p.ok
  /\ phase' = "user"
  /\ nexec' = nexec + 1
  /\ UNCHANGED <<mem, is64, entry, event, nre, passed, expected>>

(* The syscall-exit trap: process_execve, then the syscall state is       *)
(* removed.                                                                *)
Exit(abort) ==
  /\ ~fatal /\ phase = "exit"
  /\ LET p == ProcessExecve(entry, event, regs, mem, abort) IN
     /\ regs' = p.regs
     /\ trace' = trace \o p.out
     /\ fatal' = ~p.ok
  /\ entry' = NoRegs
  /\ event' = NoEvent
  /\ phase' = "user"
  /\ nexec' = nexec + 1
  /\ UNCHANGED <<mem, is64, nre, passed, expected>>

(* The task has made all its execve calls.                                 *)
Finished ==
  /\ phase = "user" /\ nexec = MaxExecs
  /\ UNCHANGED vars

Next ==
  \/ \E p \in Names, n \in 0 .. 2, big \in ClassChoices :
       \E args \in ArgvChoices(p) : Setup(p, n, args, big)
  \/ Enter
  \/ Reenter
  \/ \E envc \in 0 .. MaxEnv, ok \in BOOLEAN : Kernel(envc, ok)
  \/ \E abort \in BOOLEAN : Exit(abort)
  \/ Finished

Spec == Init /\ [][Next]_vars

----------------------------------------------------------------------------
(* Properties.                                                            *)

(* Type correctness, with the removal of the syscall state: outside an    *)
(* execve there are no saved entry registers and no pending event.        *)
TypeOK ==
  /\ mem \in [Addr -> Int]
  /\ regs \in [arg1 : Int, arg2 : Int, res : Int, sp : Int]
  /\ phase \in {"user", "entry", "kernel", "exit"}
  /\ is64 \in BOOLEAN /\ fatal \in BOOLEAN
  /\ nexec \in 0 .. MaxExecs /\ nre \in 0 .. MaxReentries
  /\ passed \in Names \cup {0}
  /\ phase \in {"user", "entry"} => entry = NoRegs /\ event = NoEvent

(* A failed execve hands the task back the file-name pointer its code     *)
(* passed, whatever arg1 the preparer made the kernel see: the save-once  *)
(* of syscall_entry_registers must survive a re-entry after the clobber   *)
(* and must not carry over from an earlier execve.                        *)
Arg1Restored ==
  phase = "user" /\ Failed(regs.res) => regs.arg1 = passed

(* The trace holds, in order, the task event and the AT_RANDOM bytes of   *)
(* exactly the execs the kernel carried out, with the name and argv the   *)
(* task passed, and the walk of the new stack never trips an assertion.   *)
ExecTraced ==
  phase = "user" => trace = expected /\ ~fatal

----------------------------------------------------------------------------
(* Refinement of ExecveRecording.                                          *)

(* The exec the task's code asked for: the name at the pointer it passed  *)
(* and the argv array, as memory holds them until the kernel replaces it; *)
(* after a successful exec, the pending event.                            *)
Request ==
  IF phase = "exit" /\ ~Failed(regs.res) THEN event
  ELSE IF phase \in {"entry", "kernel", "exit"}
         THEN [file |-> CStr(mem, passed), argv |-> CmdLine(mem, ARGV)]
         ELSE NoEvent

Recording ==
  INSTANCE ExecveRecording
    WITH phase <- IF phase = "user" THEN "user" ELSE "exec",
         req <- Request,
         trace <- trace,
         NoReq <- NoEvent,
         RandomBytes <- Rec(RAND_BYTES, 16)

(* The recorder implements ExecveRecording: an execve call, through its   *)
(* entry trap, re-entries, the arg1 clobber and the exit's stack walk,    *)
(* adds nothing to the trace when it fails, and when it succeeds adds the *)
(* event with the name and argv the task's code passed, then the          *)
(* AT_RANDOM record (rec_prepare_syscall_arch, process_execve).           *)
RecordingSpec == Recording!Spec
====
