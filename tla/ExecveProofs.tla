---------------------------- MODULE ExecveProofs ----------------------------
(***************************************************************************)
(* Proof, for every architecture, build and bound, that a failed execve    *)
(* hands the task back the file-name pointer it passed.                    *)
(***************************************************************************)
EXTENDS Execve, TLAPS

RegsType == [arg1 : Int, arg2 : Int, res : Int, sp : Int]
RegNames == {"arg1", "arg2", "res", "sp"}

(* The inductive invariant.  Arg1Restored alone is not inductive: the     *)
(* exit restores arg1 from the saved entry registers, so those must hold  *)
(* the pointer passed whenever the task is inside the execve, and must be *)
(* absent when it enters one (else the save-once guard keeps a stale      *)
(* copy); and at the entry trap arg1 must still be the pointer passed.    *)
IInv ==
  /\ DOMAIN regs = RegNames
  /\ phase \in {"user", "entry", "kernel", "exit"}
  /\ passed \in Nat
  /\ phase \in {"user", "entry"} => entry = NoRegs
  /\ phase \in {"kernel", "exit"} => entry # NoRegs /\ entry.arg1 = passed
  /\ phase = "entry" => regs.arg1 = passed
  /\ Arg1Restored

----------------------------------------------------------------------------
(* Lemmas about the preparer and the exit.                                *)

(* The preparer hands back registers with the same names.                *)
LEMMA PrepareExecveRegs ==
  ASSUME NEW st, NEW r, NEW m, NEW big, DOMAIN r = RegNames
  PROVE  DOMAIN PrepareExecve(st, r, m, big).regs = RegNames
BY DEF PrepareExecve

(* The preparer saves the registers only when none are saved.           *)
LEMMA PrepareExecveEntry ==
  ASSUME NEW st, NEW r, NEW m, NEW big
  PROVE  PrepareExecve(st, r, m, big).entry = IF st = NoRegs THEN r ELSE st
BY DEF PrepareExecve

(* process_execve keeps the result and restores arg1 of a failed exec.   *)
LEMMA ProcessExecveRegs ==
  ASSUME NEW st, NEW ev, NEW r, NEW m, NEW abort, DOMAIN r = RegNames
  PROVE  LET p == ProcessExecve(st, ev, r, m, abort) IN
         /\ DOMAIN p.regs = RegNames
         /\ p.regs.res = r.res
         /\ Failed(r.res) => p.regs.arg1 = st.arg1
<1>1. CASE Failed(r.res)
  BY <1>1 DEF ProcessExecve, RegNames
<1>2. CASE ~Failed(r.res) /\ r.arg1 # 0
  BY <1>2 DEF ProcessExecve
<1>3. CASE ~Failed(r.res) /\ r.arg1 = 0
  BY <1>3 DEF ProcessExecve
<1>. QED
  BY <1>1, <1>2, <1>3

----------------------------------------------------------------------------

(* The initial state satisfies the inductive invariant.                  *)
LEMMA InitIInv == Init => IInv
BY DEF Init, IInv, RegNames, Arg1Restored, Failed

(* Every step, one per action of Next, keeps the inductive invariant.     *)
LEMMA NextIInv == IInv /\ [Next]_vars => IInv'
<1> SUFFICES ASSUME IInv, [Next]_vars PROVE IInv'
  OBVIOUS
<1>1. ASSUME NEW p \in Names, NEW n \in 0 .. 2, NEW big \in ClassChoices,
             NEW args \in ArgvChoices(p), Setup(p, n, args, big)
      PROVE  IInv'
  BY <1>1 DEF Setup, IInv, Names, RegNames, Arg1Restored
<1>2. CASE Enter
  <2>1. regs # NoRegs
    BY <1>2 DEF Enter, IInv, NoRegs
  <2>2. entry' = regs
    BY <1>2, PrepareExecveEntry DEF Enter, IInv
  <2>3. DOMAIN regs' = RegNames
    BY <1>2, PrepareExecveRegs DEF Enter, IInv
  <2>. QED
    BY <1>2, <2>1, <2>2, <2>3 DEF Enter, IInv, Arg1Restored
<1>3. CASE Reenter
  <2>1. entry' = entry
    BY <1>3, PrepareExecveEntry DEF Reenter, IInv
  <2>2. DOMAIN regs' = RegNames
    BY <1>3, PrepareExecveRegs DEF Reenter, IInv
  <2>. QED
    BY <1>3, <2>1, <2>2 DEF Reenter, IInv, Arg1Restored
<1>4. ASSUME NEW envc \in 0 .. MaxEnv, NEW ok \in BOOLEAN, Kernel(envc, ok)
      PROVE  IInv'
  BY <1>4 DEF Kernel, IInv, RegNames, Arg1Restored
<1>5. ASSUME NEW abort \in BOOLEAN, Exit(abort)
      PROVE  IInv'
  <2> DEFINE p == ProcessExecve(entry, event, regs, mem, abort)
  <2>1. regs' = p.regs /\ phase' = "user" /\ entry' = NoRegs
        /\ passed' = passed
    BY <1>5 DEF Exit
  <2>2. /\ DOMAIN p.regs = RegNames
        /\ p.regs.res = regs.res
        /\ Failed(regs.res) => p.regs.arg1 = entry.arg1
    BY ProcessExecveRegs DEF IInv
  <2>3. entry.arg1 = passed
    BY <1>5 DEF Exit, IInv
  <2>. QED
    BY <2>1, <2>2, <2>3 DEF IInv, Arg1Restored
<1>6. CASE Finished
  BY <1>6 DEF Finished, vars, IInv, Arg1Restored
<1>7. CASE UNCHANGED vars
  BY <1>7 DEF vars, IInv, Arg1Restored
<1>. QED
  BY <1>1, <1>2, <1>3, <1>4, <1>5, <1>6, <1>7 DEF Next

(* For every architecture, build and bound: whenever the task's execve    *)
(* has failed and it runs its own code again, arg1 holds the file-name    *)
(* pointer its code passed, although the preparer may have moved it to    *)
(* the name's NUL, been re-entered after doing so, and met earlier        *)
(* execve calls (process_execve with the save-once guard of the execve    *)
(* case of rec_prepare_syscall_arch and the removal of the state).        *)
THEOREM Arg1RestoredInvariant == Spec => []Arg1Restored
<1>1. IInv => Arg1Restored
  BY DEF IInv
<1>. QED
  BY InitIInv, NextIInv, <1>1, PTL DEF Spec
----------------------------------------------------------------------------
(* The trace.                                                              *)

(* The task's code has written a name of n characters at p.               *)
NameAt(m, p, n) == (\A i \in 0 .. n - 1 : m[p + i] = CHAR) /\ m[p + n] = 0

(* The task's code has written the argv array args at ARGV.               *)
ArgvAt(m, args) ==
  (\A i \in 0 .. Len(args) - 1 : m[ARGV + i] = args[i + 1])
  /\ m[ARGV + Len(args)] = 0

(* What Setup leaves in memory for the execve in progress.               *)
Layout(m) ==
  \E n \in 0 .. 2, args \in ArgvChoices(passed) :
    NameAt(m, passed, n) /\ ArgvAt(m, args)

(* The inductive invariant of ExecTraced.  Besides IInv and TypeOK, it     *)
(* says that until the kernel runs, memory holds what Setup wrote and the *)
(* trace is what it should be; that in the kernel a supported exec's      *)
(* pending event is what the kernel reads, and a rejected exec's arg1     *)
(* points at a NUL; and that after a successful exec memory is a new      *)
(* image whose walk the exit has still to do, its event and AT_RANDOM     *)
(* range the only things the trace lacks.                                 *)
TInv ==
  /\ TypeOK
  /\ IInv
  /\ ~fatal
  /\ phase # "user" => nexec < MaxExecs
  /\ phase \in {"entry", "kernel"} =>
       regs.arg2 = ARGV /\ passed \in Names /\ Layout(mem)
  /\ phase \in {"user", "entry", "kernel"} => trace = expected
  /\ phase = "kernel" /\ ExecFileSupported(is64) =>
       /\ regs.arg1 = passed
       /\ event = [file |-> CStr(mem, regs.arg1), argv |-> CmdLine(mem, regs.arg2)]
  /\ phase = "kernel" /\ ~ExecFileSupported(is64) =>
       regs.arg1 \in Addr /\ mem[regs.arg1] = 0
  /\ phase = "exit" /\ Failed(regs.res) => trace = expected
  /\ phase = "exit" /\ ~Failed(regs.res) =>
       /\ regs.arg1 = 0 /\ regs.sp = STACK
       /\ \E argc \in 0 .. 2, envc \in 0 .. MaxEnv : mem = NewImage(argc, envc)
       /\ expected = trace \o <<event, Rec(RAND_BYTES, 16)>>
       /\ event.file # <<>>

(* A scan from p stops at q when q is the first word from p on that is 0  *)
(* or unmapped: the stopping point is unique.                              *)
LEMMA FirstZeroIs ==
  ASSUME NEW m, NEW p \in Int, NEW q \in Int, p <= q, q <= ScanEnd(p),
         Stops(m, q), \A j \in p .. q - 1 : ~Stops(m, j)
  PROVE  FirstZero(m, p) = q
<1>1. q \in p .. ScanEnd(p)
  BY DEF ScanEnd
<1>2. ASSUME NEW q2 \in p .. ScanEnd(p), Stops(m, q2),
             \A j \in p .. q2 - 1 : ~Stops(m, j)
      PROVE  q2 = q
  <2>1. ~(q2 < q)
    BY <1>2
  <2>2. ~(q < q2)
    BY <1>2
  <2>. QED
    BY <2>1, <2>2 DEF ScanEnd
<1>. QED
  BY <1>1, <1>2 DEF FirstZero

(* The string read from p up to such a q has q - p characters.            *)
LEMMA CStrLen ==
  ASSUME NEW m, NEW p \in Int, NEW q \in Int, p <= q, q <= ScanEnd(p),
         Stops(m, q), \A j \in p .. q - 1 : ~Stops(m, j)
  PROVE  /\ CStr(m, p) = [k \in 1 .. q - p |-> m[p + k - 1]]
         /\ Len(CStr(m, p)) = q - p
<1>1. FirstZero(m, p) = q
  BY FirstZeroIs
<1>2. CStr(m, p) = [k \in 1 .. q - p |-> m[p + k - 1]]
  BY <1>1 DEF CStr
<1>. QED
  BY <1>2

(* The kernel's keys before AT_RANDOM are the ones rr expects.            *)
LEMMA KernelKeysAreAuxvKeys ==
  /\ KernelAuxvKeys = AuxvKeys
  /\ Len(AuxvKeys) \in {15, 16}
  /\ \A i \in 1 .. Len(AuxvKeys) : AuxvKeys[i] \in Nat \ {AT_NULL}
BY ArchAssumption DEF KernelAuxvKeys, AuxvKeys, AT_NULL, AT_PHDR, AT_PHENT,
   AT_PHNUM, AT_PAGESZ, AT_BASE, AT_FLAGS, AT_ENTRY, AT_UID, AT_EUID, AT_GID,
   AT_EGID, AT_HWCAP, AT_CLKTCK, AT_SECURE, AT_SYSINFO, AT_SYSINFO_EHDR

(* The auxv vector the walk expects has 15 or 16 keys, whatever the     *)
(* architecture: the bound the stack layout is sized for.                *)
LEMMA AuxvKeysLen == Len(AuxvKeys) \in Nat /\ 15 <= Len(AuxvKeys) /\ Len(AuxvKeys) <= 16
<1>1. CASE Arch = "x86"
  BY <1>1 DEF AuxvKeys
<1>2. CASE Arch # "x86"
  BY <1>2 DEF AuxvKeys
<1>. QED
  BY <1>1, <1>2

(* The walk of process_execve over the initial stack of any new image     *)
(* with at most two arguments finds argv's NULL, the auxv keys in the     *)
(* order elf_auxv_ordering<Arch> expects, and AT_RANDOM with the address  *)
(* of the random bytes: the walk agrees with the kernel's layout.         *)
LEMMA WalkNewImage ==
  ASSUME NEW argc \in 0 .. 2, NEW envc \in 0 .. MaxEnv
  PROVE  LET w == ExecveStackWalk(NewImage(argc, envc), STACK) IN
         w.nullOk /\ w.keysOk /\ w.randOk /\ w.rand = RAND_BYTES
<1> DEFINE m == NewImage(argc, envc)
           envp == STACK + argc + 2
           auxv == envp + envc + 1
           K == Len(AuxvKeys)
<1>1. /\ MaxEnv \in Nat
      /\ K \in Nat /\ 15 <= K /\ K <= 16
      /\ KernelAuxvKeys = AuxvKeys
      /\ STACK = 12
      /\ TOP = MaxEnv + 52
      /\ auxv + 2 * K + 1 <= TOP
  <2>1. MaxEnv \in Nat /\ STACK = 12
    BY BoundsAssumption DEF STACK
  <2>2. K \in Nat /\ 15 <= K /\ K <= 16
    BY AuxvKeysLen
  <2>3. TOP = MaxEnv + 52
    BY <2>1 DEF TOP, MaxStack
  <2>. QED
    BY <2>1, <2>2, <2>3, KernelKeysAreAuxvKeys
<1>2. DOMAIN m = Addr
  BY DEF NewImage
<1>3. Word(m, STACK) = argc
  BY <1>1, <1>2 DEF Word, NewImage, Addr
<1>4. Word(m, STACK + argc + 1) = 0
  BY <1>1, <1>2 DEF Word, NewImage, Addr
<1>5. \A j \in envp .. envp + envc - 1 : ~Stops(m, j)
  <2>1. SUFFICES ASSUME NEW j \in envp .. envp + envc - 1
                 PROVE  ~Stops(m, j)
    OBVIOUS
  <2>2. /\ j \in Addr /\ j # STACK /\ j \notin STACK + 1 .. STACK + argc
        /\ j \notin auxv .. auxv + 2 * K - 1
        /\ j # auxv + 2 * K /\ j # auxv + 2 * K + 1
    BY <1>1 DEF Addr
  <2>3. m[j] = ENVPTR
    BY <1>1, <2>2 DEF NewImage
  <2>. QED
    BY <1>2, <2>2, <2>3 DEF Stops, Word, ENVPTR, Unmapped
<1>6. Stops(m, envp + envc)
  <2>1. /\ envp + envc \in Addr /\ envp + envc # STACK
        /\ envp + envc \notin STACK + 1 .. STACK + argc
        /\ envp + envc \notin envp .. envp + envc - 1
        /\ envp + envc \notin auxv .. auxv + 2 * K - 1
        /\ envp + envc # auxv + 2 * K
        /\ envp + envc # auxv + 2 * K + 1
    BY <1>1 DEF Addr
  <2>2. m[envp + envc] = 0
    BY <1>1, <2>1 DEF NewImage
  <2>. QED
    BY <1>2, <2>1, <2>2 DEF Stops, Word
<1>7. FirstZero(m, STACK + argc + 1 + 1) = envp + envc
  BY <1>1, <1>5, <1>6, FirstZeroIs DEF ScanEnd
<1>8. ASSUME NEW i \in 1 .. K
      PROVE  Word(m, auxv + 2 * (i - 1)) = AuxvKeys[i]
  <2>1. /\ auxv + 2 * (i - 1) \in Addr
        /\ auxv + 2 * (i - 1) # STACK
        /\ auxv + 2 * (i - 1) \notin STACK + 1 .. STACK + argc
        /\ auxv + 2 * (i - 1) \notin envp .. envp + envc - 1
        /\ auxv + 2 * (i - 1) \in auxv .. auxv + 2 * K - 1
        /\ (auxv + 2 * (i - 1) - auxv) % 2 = 0
        /\ (auxv + 2 * (i - 1) - auxv) \div 2 + 1 = i
        /\ auxv + 2 * (i - 1) # auxv + 2 * K
        /\ auxv + 2 * (i - 1) # auxv + 2 * K + 1
    BY <1>1 DEF Addr
  <2>2. Len(KernelAuxvKeys) = K
    BY <1>1
  <2> DEFINE x == auxv + 2 * (i - 1)
              KK == Len(KernelAuxvKeys)
              Cell(a) ==
                CASE a = STACK -> argc
                  [] a \in STACK + 1 .. STACK + argc -> STRPTR
                  [] a \in envp .. envp + envc - 1 -> ENVPTR
                  [] a \in auxv .. auxv + 2 * KK - 1 ->
                       IF (a - auxv) % 2 = 0 THEN KernelAuxvKeys[(a - auxv) \div 2 + 1] ELSE AUXVAL
                  [] a = auxv + 2 * KK -> AT_RANDOM
                  [] a = auxv + 2 * KK + 1 -> RAND_BYTES
                  [] OTHER -> 0
  <2>3. m[x] = Cell(x)
    BY <2>1 DEF NewImage
  <2>5. /\ ~(x = STACK) /\ ~(x \in STACK + 1 .. STACK + argc)
        /\ ~(x \in envp .. envp + envc - 1) /\ x \in auxv .. auxv + 2 * KK - 1
        /\ ~(x = auxv + 2 * KK) /\ ~(x = auxv + 2 * KK + 1)
    BY <2>1, <2>2
  <2>6. Cell(x) = IF (x - auxv) % 2 = 0 THEN KernelAuxvKeys[(x - auxv) \div 2 + 1] ELSE AUXVAL
    BY <2>5, Zenon
  <2>7. (x - auxv) % 2 = 0 /\ (x - auxv) \div 2 + 1 = i
    BY <1>1, <2>1
  <2>8. Cell(x) = KernelAuxvKeys[i]
    BY <2>6, <2>7, Zenon
  <2>4. m[auxv + 2 * (i - 1)] = KernelAuxvKeys[i]
    BY <2>3, <2>8
  <2>. QED
    BY <1>1, <1>2, <2>1, <2>4 DEF Word
<1>9. /\ Word(m, auxv + 2 * K) = AT_RANDOM
      /\ Word(m, auxv + 2 * K + 1) = RAND_BYTES
  BY <1>1, <1>2 DEF Word, NewImage, Addr
<1>. QED
  BY <1>1, <1>3, <1>4, <1>7, <1>8, <1>9 DEF ExecveStackWalk
(* Registers with arg1, or arg1 and arg2, replaced by integers are still  *)
(* registers.                                                             *)
LEMMA RegsExcept ==
  ASSUME NEW r \in RegsType, NEW a \in Int, NEW b \in Int
  PROVE  [r EXCEPT !.arg1 = a] \in RegsType
         /\ [r EXCEPT !.arg1 = a, !.arg2 = b] \in RegsType
BY DEF RegsType

(* The memory is at least the 52 words the fixed buffers and the largest *)
(* initial stack take.                                                    *)
LEMMA TopBound == TOP \in Nat /\ TOP = MaxEnv + 52 /\ TOP >= 52
BY BoundsAssumption DEF TOP, MaxStack, STACK

(* A string read at a NUL is empty.                                        *)
LEMMA NulCStr ==
  ASSUME NEW m \in [Addr -> Int], NEW a \in Addr, m[a] = 0
  PROVE  CStr(m, a) = <<>>
<1>1. a \in Int /\ a <= ScanEnd(a) /\ Stops(m, a)
  BY TopBound DEF Addr, ScanEnd, Stops, Word
<1>2. CStr(m, a) = [k \in 1 .. a - a |-> m[a + k - 1]]
  BY <1>1, CStrLen
<1>3. 1 .. a - a = {}
  BY <1>1
<1>. QED
  BY <1>2, <1>3

(* The name Setup wrote at p has n characters and ends at a NUL inside   *)
(* the memory.                                                            *)
LEMMA NameScan ==
  ASSUME NEW m \in [Addr -> Int], NEW p \in Names, NEW n \in 0 .. 2,
         NameAt(m, p, n)
  PROVE  p + n \in Addr /\ m[p + n] = 0 /\ Len(CStr(m, p)) = n
<1>1. p + n \in Addr /\ p .. p + n \subseteq Addr
  BY TopBound DEF Names, Addr
<1>2. Stops(m, p + n) /\ m[p + n] = 0
  BY <1>1 DEF NameAt, Stops, Word
<1>3. \A j \in p .. p + n - 1 : ~Stops(m, j)
  <2>1. SUFFICES ASSUME NEW j \in p .. p + n - 1 PROVE ~Stops(m, j)
    OBVIOUS
  <2>2. j - p \in 0 .. n - 1 /\ j = p + (j - p) /\ j \in Addr
    BY <1>1 DEF Names
  <2>3. m[j] = CHAR
    BY <2>2 DEF NameAt
  <2>. QED
    BY <2>2, <2>3 DEF Stops, Word, CHAR, Unmapped
<1>4. p \in Int /\ p + n \in Int /\ p <= p + n /\ p + n <= ScanEnd(p)
  BY <1>1, TopBound DEF Names, Addr, ScanEnd
<1>. QED
  BY <1>1, <1>2, <1>3, <1>4, CStrLen

(* The argv arrays the task may build have at most two non-null entries. *)
LEMMA ArgvChoicesFacts ==
  ASSUME NEW p \in Names, NEW args \in ArgvChoices(p)
  PROVE  /\ Len(args) \in 0 .. 2 /\ args \in Seq(Int)
         /\ \A i \in 1 .. Len(args) : args[i] \in Nat \ {0}
<1>1. CASE args = <<>>
  BY <1>1
<1>2. CASE args = <<p>>
  BY <1>2 DEF Names
<1>3. CASE args = <<p, ARGSTR>>
  BY <1>3 DEF Names, ARGSTR
<1>. QED
  BY <1>1, <1>2, <1>3 DEF ArgvChoices

(* The argv walk over what Setup wrote finds at most two arguments.       *)
LEMMA ArgvScan ==
  ASSUME NEW m \in [Addr -> Int], NEW p \in Names,
         NEW args \in ArgvChoices(p), ArgvAt(m, args)
  PROVE  Len(CmdLine(m, ARGV)) \in 0 .. 2
<1> DEFINE q == ARGV + Len(args)
<1>1. Len(args) \in 0 .. 2 /\ \A i \in 1 .. Len(args) : args[i] \in Nat \ {0}
  BY ArgvChoicesFacts
<1>2. ARGV .. q \subseteq Addr /\ ARGV \in Int /\ q \in Int /\ ARGV <= q
      /\ q <= ScanEnd(ARGV)
  BY <1>1, TopBound DEF Addr, ARGV, ScanEnd
<1>3. Stops(m, q)
  BY <1>2 DEF ArgvAt, Stops, Word
<1>4. \A j \in ARGV .. q - 1 : ~Stops(m, j)
  <2>1. SUFFICES ASSUME NEW j \in ARGV .. q - 1 PROVE ~Stops(m, j)
    OBVIOUS
  <2>2. j - ARGV \in 0 .. Len(args) - 1 /\ j = ARGV + (j - ARGV) /\ j \in Addr
    BY <1>1, <1>2 DEF ARGV
  <2>3. m[j] = args[j - ARGV + 1]
    BY <2>2 DEF ArgvAt
  <2>4. args[j - ARGV + 1] \in Nat \ {0}
    BY <1>1, <2>2
  <2>. QED
    BY <2>2, <2>3, <2>4 DEF Stops, Word, Unmapped
<1>5. FirstZero(m, ARGV) = q
  BY <1>2, <1>3, <1>4, FirstZeroIs
<1>6. CmdLine(m, ARGV) = [k \in 1 .. q - ARGV |-> CStr(m, m[ARGV + k - 1])]
  BY <1>5 DEF CmdLine
<1>. QED
  BY <1>1, <1>2, <1>6
(* What Setup writes: a name of n characters at p, the argv array args   *)
(* at ARGV, and the argument string at ARGSTR, every word an integer.     *)
LEMMA SetupMem ==
  ASSUME NEW p \in Names, NEW n \in 0 .. 2, NEW args \in ArgvChoices(p),
         NEW big, TypeOK, Setup(p, n, args, big)
  PROVE  mem' \in [Addr -> Int] /\ NameAt(mem', p, n) /\ ArgvAt(mem', args)
<1> DEFINE Cell(a) ==
             CASE a \in p .. p + 2 -> IF a - p < n THEN CHAR ELSE 0
               [] a \in ARGV .. ARGV + 2 ->
                    IF a - ARGV < Len(args) THEN args[a - ARGV + 1] ELSE 0
               [] a = ARGSTR -> ARGCHAR
               [] a = ARGSTR + 1 -> 0
               [] OTHER -> mem[a]
<1>1. mem' = [a \in Addr |-> Cell(a)]
  BY DEF Setup
<1>2. /\ Len(args) \in 0 .. 2 /\ args \in Seq(Int)
      /\ \A i \in 1 .. Len(args) : args[i] \in Nat \ {0}
  BY ArgvChoicesFacts
<1>3. p \in {1, 4} /\ 1 .. 11 \subseteq Addr
  BY TopBound DEF Names, Addr
<1>4. \A a \in Addr : Cell(a) \in Int
  <2>1. SUFFICES ASSUME NEW a \in Addr PROVE Cell(a) \in Int
    OBVIOUS
  <2>2. CASE a \in p .. p + 2
    <3>1. ~(a \in ARGV .. ARGV + 2) /\ a # ARGSTR /\ a # ARGSTR + 1
      BY <1>3, <2>2 DEF ARGV, ARGSTR
    <3>2. Cell(a) = IF a - p < n THEN CHAR ELSE 0
      BY <2>2, <3>1, Zenon
    <3>. QED
      BY <3>2 DEF CHAR
  <2>3. CASE a \in ARGV .. ARGV + 2
    <3>1. ~(a \in p .. p + 2) /\ a # ARGSTR /\ a # ARGSTR + 1
      BY <1>3, <2>3 DEF ARGV, ARGSTR
    <3>2. a - ARGV < Len(args) => args[a - ARGV + 1] \in Int
      BY <1>2, <2>3 DEF ARGV
    <3>3. Cell(a) = IF a - ARGV < Len(args) THEN args[a - ARGV + 1] ELSE 0
      BY <2>3, <3>1, Zenon
    <3>. QED
      BY <3>2, <3>3
  <2>4. CASE ~(a \in p .. p + 2) /\ ~(a \in ARGV .. ARGV + 2)
    <3>1. mem[a] \in Int /\ ARGSTR # ARGSTR + 1 /\ ARGCHAR \in Int
      BY DEF TypeOK, ARGSTR, ARGCHAR
    <3>2. CASE a = ARGSTR
      <4>1. Cell(a) = ARGCHAR
        BY <2>4, <3>1, <3>2, Zenon
      <4>. QED
        BY <3>1, <4>1
    <3>3. CASE a # ARGSTR
      <4>1. Cell(a) = IF a = ARGSTR + 1 THEN 0 ELSE mem[a]
        BY <2>4, <3>3, Zenon
      <4>. QED
        BY <3>1, <4>1
    <3>. QED
      BY <3>2, <3>3
  <2>. QED
    BY <2>2, <2>3, <2>4
<1>5. ASSUME NEW i \in 0 .. n
      PROVE  mem'[p + i] = IF i < n THEN CHAR ELSE 0
  <2>1. /\ p + i \in Addr /\ p + i \in p .. p + 2 /\ (p + i) - p = i
        /\ ~(p + i \in ARGV .. ARGV + 2) /\ p + i # ARGSTR /\ p + i # ARGSTR + 1
    BY <1>3 DEF ARGV, ARGSTR
  <2>2. Cell(p + i) = IF (p + i) - p < n THEN CHAR ELSE 0
    BY <2>1, Zenon
  <2>. QED
    BY <1>1, <2>1, <2>2
<1>6. ASSUME NEW i \in 0 .. Len(args)
      PROVE  mem'[ARGV + i] = IF i < Len(args) THEN args[i + 1] ELSE 0
  <2>0. i \in 0 .. 2
    BY <1>2
  <2>1. /\ ARGV + i \in Addr /\ ARGV + i \in ARGV .. ARGV + 2
        /\ (ARGV + i) - ARGV = i /\ ~(ARGV + i \in p .. p + 2)
        /\ ARGV + i # ARGSTR /\ ARGV + i # ARGSTR + 1
    BY <1>3, <2>0 DEF ARGV, ARGSTR
  <2>2. Cell(ARGV + i) =
          IF (ARGV + i) - ARGV < Len(args) THEN args[(ARGV + i) - ARGV + 1] ELSE 0
    BY <2>1, Zenon
  <2>. QED
    BY <1>1, <2>1, <2>2
<1>7. NameAt(mem', p, n)
  BY <1>5 DEF NameAt
<1>8. ArgvAt(mem', args)
  BY <1>2, <1>6 DEF ArgvAt
<1>. QED
  BY <1>1, <1>4, <1>7, <1>8
(* Every word of a new image is an integer.                               *)
LEMMA NewImageType ==
  ASSUME NEW argc \in 0 .. 2, NEW envc \in 0 .. MaxEnv
  PROVE  NewImage(argc, envc) \in [Addr -> Int]
<1> DEFINE envp == STACK + argc + 2
           auxv == envp + envc + 1
           K == Len(KernelAuxvKeys)
           Key(a) == IF (a - auxv) % 2 = 0 THEN KernelAuxvKeys[(a - auxv) \div 2 + 1]
                                            ELSE AUXVAL
           Cell(a) ==
             CASE a = STACK -> argc
               [] a \in STACK + 1 .. STACK + argc -> STRPTR
               [] a \in envp .. envp + envc - 1 -> ENVPTR
               [] a \in auxv .. auxv + 2 * K - 1 -> Key(a)
               [] a = auxv + 2 * K -> AT_RANDOM
               [] a = auxv + 2 * K + 1 -> RAND_BYTES
               [] OTHER -> 0
<1>1. NewImage(argc, envc) = [a \in Addr |-> Cell(a)]
  BY DEF NewImage
<1>2. ASSUME NEW a \in Addr, a \in auxv .. auxv + 2 * K - 1
      PROVE  Key(a) \in Int
  <2>1. K \in Nat /\ KernelAuxvKeys = AuxvKeys
        /\ \A i \in 1 .. K : KernelAuxvKeys[i] \in Nat
    BY AuxvKeysLen, KernelKeysAreAuxvKeys
  <2>2. auxv \in Int /\ (a - auxv) \div 2 + 1 \in 1 .. K
    BY <1>2, <2>1 DEF STACK
  <2>. QED
    BY <2>1, <2>2 DEF AUXVAL
<1>3. argc \in Int /\ STRPTR \in Int /\ ENVPTR \in Int /\ AT_RANDOM \in Int
      /\ RAND_BYTES \in Int /\ 0 \in Int
  BY DEF STRPTR, ENVPTR, AT_RANDOM, RAND_BYTES
<1>4. \A a \in Addr : Cell(a) \in Int
  BY <1>2, <1>3, Zenon
<1>. QED
  BY <1>1, <1>4
----------------------------------------------------------------------------
(* TInv holds initially and is kept by every action.                      *)

(* The initial state satisfies TInv.                                       *)
LEMMA InitTInv == Init => TInv
<1> SUFFICES ASSUME Init PROVE TInv
  OBVIOUS
<1>1. IInv
  BY InitIInv
<1>2. TypeOK
  <2>1. mem \in [Addr -> Int]
    BY DEF Init
  <2>2. regs \in [arg1 : Int, arg2 : Int, res : Int, sp : Int]
    BY DEF Init, STACK
  <2>3. nexec \in 0 .. MaxExecs /\ nre \in 0 .. MaxReentries
    BY BoundsAssumption DEF Init
  <2>. QED
    BY <2>1, <2>2, <2>3 DEF Init, TypeOK, Names
<1>. QED
  BY <1>1, <1>2 DEF Init, TInv

(* The task's code writing a name and argv and trapping keeps TInv.       *)
LEMMA SetupTInv ==
  ASSUME TInv, NEW p \in Names, NEW n \in 0 .. 2, NEW big \in ClassChoices,
         NEW args \in ArgvChoices(p), Setup(p, n, args, big)
  PROVE  TInv'
<1>1. IInv'
  BY NextIInv DEF Next, TInv
<1>2. mem' \in [Addr -> Int] /\ NameAt(mem', p, n) /\ ArgvAt(mem', args)
  BY SetupMem DEF TInv
<1>3. big \in BOOLEAN
  BY Build32Assumption DEF ClassChoices
<1>4. TypeOK'
  <2>1. regs' \in RegsType
    <3>1. regs \in RegsType
      BY DEF TInv, TypeOK, RegsType
    <3>2. p \in Int /\ ARGV \in Int
      BY DEF Names, ARGV
    <3>3. regs' = [regs EXCEPT !.arg1 = p, !.arg2 = ARGV]
      BY DEF Setup
    <3>. QED
      BY <3>1, <3>2, <3>3, RegsExcept
  <2>2. entry' = NoRegs /\ event' = NoEvent
    BY DEF Setup, TInv, TypeOK
  <2>. QED
    BY <1>2, <1>3, <2>1, <2>2 DEF Setup, TInv, TypeOK, Names, RegsType
<1>5. \E nn \in 0 .. 2, aa \in ArgvChoices(passed') :
        NameAt(mem', passed', nn) /\ ArgvAt(mem', aa)
  BY <1>2 DEF Setup
<1>. QED
  BY <1>1, <1>4, <1>5 DEF Setup, TInv, Layout, ARGV
(* The entry trap keeps TInv: a supported exec's event is what the kernel *)
(* will read; a rejected exec's arg1 now points at the name's NUL.        *)
LEMMA EnterTInv ==
  ASSUME TInv, Enter
  PROVE  TInv'
<1> DEFINE P == PrepareExecve(entry, regs, mem, is64)
           raw == CStr(mem, regs.arg1)
<1>1. IInv'
  BY NextIInv DEF Next, TInv
<1>2. /\ phase = "entry" /\ phase' = "kernel" /\ regs' = P.regs /\ event' = P.event
      /\ entry' = P.entry
      /\ UNCHANGED <<mem, is64, trace, fatal, nexec, nre, passed, expected>>
  BY DEF Enter
<1>3. /\ regs \in RegsType /\ mem \in [Addr -> Int] /\ regs.arg1 = passed
      /\ regs.arg2 = ARGV /\ passed \in Names /\ Layout(mem)
      /\ trace = expected /\ ~fatal /\ nexec < MaxExecs
      /\ nexec \in 0 .. MaxExecs /\ nre \in 0 .. MaxReentries
      /\ is64 \in BOOLEAN /\ fatal \in BOOLEAN /\ passed \in Names \cup {0}
  BY <1>2 DEF TInv, TypeOK, IInv, RegsType
<1>4. PICK n \in 0 .. 2 : NameAt(mem, passed, n)
  BY <1>3 DEF Layout
<1>5. passed + n \in Addr /\ mem[passed + n] = 0 /\ Len(raw) = n
  BY <1>3, <1>4, NameScan
<1>6. Layout(mem)'
  BY <1>2, <1>3 DEF Layout
<1>7. ASSUME regs' \in RegsType PROVE TypeOK'
  BY <1>2, <1>3, <1>7 DEF TypeOK, RegsType
<1>8. CASE ExecFileSupported(is64)
  <2>1. regs' = regs /\ event' = [file |-> raw, argv |-> CmdLine(mem, regs.arg2)]
    BY <1>2, <1>8 DEF PrepareExecve
  <2>2. TypeOK'
    BY <1>3, <1>7, <2>1
  <2>3. ExecFileSupported(is64)'
    BY <1>2, <1>8 DEF ExecFileSupported
  <2>. QED
    BY <1>1, <1>2, <1>3, <1>6, <2>1, <2>2, <2>3 DEF TInv
<1>9. CASE ~ExecFileSupported(is64)
  <2>1. regs' = [regs EXCEPT !.arg1 = regs.arg1 + Len(raw)]
    BY <1>2, <1>9 DEF PrepareExecve
  <2>2. regs.arg1 + Len(raw) = passed + n /\ passed + n \in Int
    BY <1>3, <1>5 DEF Addr
  <2>3. regs' \in RegsType
    BY <1>3, <2>1, <2>2, RegsExcept
  <2>4. regs'.arg1 = passed + n /\ regs'.arg2 = ARGV
    BY <1>3, <2>1, <2>2 DEF RegsType
  <2>5. TypeOK'
    BY <1>7, <2>3
  <2>6. ~ExecFileSupported(is64)'
    BY <1>2, <1>9 DEF ExecFileSupported
  <2>. QED
    BY <1>1, <1>2, <1>3, <1>5, <1>6, <2>4, <2>5, <2>6 DEF TInv
<1>. QED
  BY <1>8, <1>9
(* A re-entry keeps TInv: on a supported exec it reads the same name and  *)
(* argv again; on a rejected one it reads the empty name at the NUL and   *)
(* leaves arg1 where it is.                                               *)
LEMMA ReenterTInv ==
  ASSUME TInv, Reenter
  PROVE  TInv'
<1> DEFINE P == PrepareExecve(entry, regs, mem, is64)
           raw == CStr(mem, regs.arg1)
<1>1. IInv'
  BY NextIInv DEF Next, TInv
<1>2. /\ phase = "kernel" /\ regs' = P.regs /\ event' = P.event
      /\ entry' = P.entry /\ nre < MaxReentries /\ nre' = nre + 1
      /\ UNCHANGED <<mem, phase, is64, trace, fatal, nexec, passed, expected>>
  BY DEF Reenter
<1>3. /\ regs \in RegsType /\ mem \in [Addr -> Int]
      /\ regs.arg2 = ARGV /\ passed \in Names /\ Layout(mem)
      /\ trace = expected /\ ~fatal /\ nexec < MaxExecs
      /\ nexec \in 0 .. MaxExecs /\ nre \in 0 .. MaxReentries
      /\ is64 \in BOOLEAN /\ fatal \in BOOLEAN /\ passed \in Names \cup {0}
      /\ ExecFileSupported(is64) =>
           regs.arg1 = passed /\ event = [file |-> raw, argv |-> CmdLine(mem, regs.arg2)]
      /\ ~ExecFileSupported(is64) => regs.arg1 \in Addr /\ mem[regs.arg1] = 0
  BY <1>2 DEF TInv, TypeOK, RegsType
<1>4. Layout(mem)'
  BY <1>2, <1>3 DEF Layout
<1>5. ASSUME regs' \in RegsType PROVE TypeOK'
  <2>1. nre' \in 0 .. MaxReentries
    BY <1>2, <1>3, BoundsAssumption
  <2>. QED
    BY <1>2, <1>3, <1>5, <2>1 DEF TypeOK, RegsType
<1>6. CASE ExecFileSupported(is64)
  <2>1. regs' = regs /\ event' = [file |-> raw, argv |-> CmdLine(mem, regs.arg2)]
    BY <1>2, <1>6 DEF PrepareExecve
  <2>2. TypeOK'
    BY <1>3, <1>5, <2>1
  <2>3. ExecFileSupported(is64)'
    BY <1>2, <1>6 DEF ExecFileSupported
  <2>. QED
    BY <1>1, <1>2, <1>3, <1>4, <2>1, <2>2, <2>3 DEF TInv
<1>7. CASE ~ExecFileSupported(is64)
  <2>1. regs' = [regs EXCEPT !.arg1 = regs.arg1 + Len(raw)]
    BY <1>2, <1>7 DEF PrepareExecve
  <2>2. raw = <<>>
    BY <1>3, <1>7, NulCStr
  <2>3. regs' = regs
    BY <1>3, <2>1, <2>2 DEF RegsType
  <2>4. TypeOK'
    BY <1>3, <1>5, <2>3
  <2>5. ~ExecFileSupported(is64)'
    BY <1>2, <1>7 DEF ExecFileSupported
  <2>. QED
    BY <1>1, <1>2, <1>3, <1>4, <1>7, <2>3, <2>4, <2>5 DEF TInv
<1>. QED
  BY <1>6, <1>7
(* The kernel's execve keeps TInv: a failure leaves the trace complete; a  *)
(* success can only be of a supported exec (a rejected one's name is      *)
(* empty), so the event the exit will write is the one the kernel ran,    *)
(* and the new image has at most two arguments.                           *)
LEMMA KernelTInv ==
  ASSUME TInv, NEW envc \in 0 .. MaxEnv, NEW ok \in BOOLEAN, Kernel(envc, ok)
  PROVE  TInv'
<1> DEFINE file == CStr(mem, regs.arg1)
           argv == CmdLine(mem, regs.arg2)
<1>1. IInv'
  BY NextIInv DEF Next, TInv
<1>2. /\ phase = "kernel" /\ phase' = "exit"
      /\ UNCHANGED <<is64, entry, event, trace, fatal, nexec, nre, passed>>
  BY DEF Kernel
<1>3. /\ regs \in RegsType /\ mem \in [Addr -> Int]
      /\ regs.arg2 = ARGV /\ passed \in Names /\ Layout(mem)
      /\ trace = expected /\ ~fatal /\ nexec < MaxExecs
      /\ nexec \in 0 .. MaxExecs /\ nre \in 0 .. MaxReentries
      /\ is64 \in BOOLEAN /\ fatal \in BOOLEAN /\ passed \in Names \cup {0}
      /\ ExecFileSupported(is64) => event = [file |-> file, argv |-> argv]
      /\ ~ExecFileSupported(is64) => regs.arg1 \in Addr /\ mem[regs.arg1] = 0
  BY <1>2 DEF TInv, TypeOK, RegsType
<1>4. ASSUME mem' \in [Addr -> Int], regs' \in RegsType PROVE TypeOK'
  BY <1>2, <1>3, <1>4 DEF TypeOK, RegsType
<1>5. CASE file = <<>> \/ ~ok
  <2>1. /\ regs' = [regs EXCEPT !.res = IF file = <<>> THEN -ENOENT ELSE -EACCES]
        /\ UNCHANGED <<mem, expected>>
    BY <1>5 DEF Kernel
  <2>2. regs' \in RegsType /\ Failed(regs'.res)
    BY <1>3, <2>1 DEF RegsType, Failed, ENOENT, EACCES
  <2>. QED
    BY <1>1, <1>2, <1>3, <1>4, <2>1, <2>2 DEF TInv
<1>6. CASE ~(file = <<>> \/ ~ok)
  <2>1. /\ mem' = NewImage(Len(argv), envc)
        /\ regs' = [arg1 |-> 0, arg2 |-> 0, res |-> 0, sp |-> STACK]
        /\ expected' = expected \o <<[file |-> file, argv |-> argv], Rec(RAND_BYTES, 16)>>
    BY <1>6 DEF Kernel
  <2>2. ExecFileSupported(is64)
    <3>1. SUFFICES ASSUME ~ExecFileSupported(is64) PROVE FALSE
      OBVIOUS
    <3>2. file = <<>>
      BY <1>3, <3>1, NulCStr
    <3>. QED
      BY <1>6, <3>2
  <2>3. Len(argv) \in 0 .. 2
    <3>1. PICK n \in 0 .. 2, args \in ArgvChoices(passed) :
            NameAt(mem, passed, n) /\ ArgvAt(mem, args)
      BY <1>3 DEF Layout
    <3>. QED
      BY <1>3, <3>1, ArgvScan
  <2>4. mem' \in [Addr -> Int]
    BY <2>1, <2>3, NewImageType
  <2>5. regs' \in RegsType /\ ~Failed(regs'.res) /\ regs'.arg1 = 0 /\ regs'.sp = STACK
    BY <2>1 DEF RegsType, Failed, STACK
  <2>6. \E argc \in 0 .. 2, e \in 0 .. MaxEnv : mem' = NewImage(argc, e)
    BY <2>1, <2>3
  <2>7. expected' = trace' \o <<event', Rec(RAND_BYTES, 16)>>
    BY <1>2, <1>3, <2>1, <2>2
  <2>8. event'.file # <<>>
    BY <1>2, <1>3, <1>6, <2>2
  <2>. QED
    BY <1>1, <1>2, <1>3, <1>4, <2>4, <2>5, <2>6, <2>7, <2>8 DEF TInv
<1>. QED
  BY <1>5, <1>6
(* The exit trap keeps TInv: a failed exec writes nothing, and the walk   *)
(* of a new image passes every check, so the exit writes exactly the      *)
(* event and AT_RANDOM range the trace lacked and never aborts.           *)
LEMMA ExitTInv ==
  ASSUME TInv, NEW abort \in BOOLEAN, Exit(abort)
  PROVE  TInv'
<1> DEFINE P == ProcessExecve(entry, event, regs, mem, abort)
           w == ExecveStackWalk(mem, regs.sp)
<1>1. IInv'
  BY NextIInv DEF Next, TInv
<1>2. /\ phase = "exit" /\ phase' = "user"
      /\ regs' = P.regs /\ trace' = trace \o P.out /\ fatal' = ~P.ok
      /\ entry' = NoRegs /\ event' = NoEvent /\ nexec' = nexec + 1
      /\ UNCHANGED <<mem, is64, nre, passed, expected>>
  BY DEF Exit
<1>3. /\ regs \in RegsType /\ mem \in [Addr -> Int]
      /\ nexec < MaxExecs /\ nexec \in 0 .. MaxExecs /\ nre \in 0 .. MaxReentries
      /\ is64 \in BOOLEAN /\ passed \in Names \cup {0}
      /\ entry.arg1 = passed
      /\ Failed(regs.res) => trace = expected
      /\ ~Failed(regs.res) =>
           /\ regs.arg1 = 0 /\ regs.sp = STACK
           /\ \E argc \in 0 .. 2, envc \in 0 .. MaxEnv : mem = NewImage(argc, envc)
           /\ expected = trace \o <<event, Rec(RAND_BYTES, 16)>>
  BY <1>2 DEF TInv, TypeOK, IInv, RegsType
<1>4. ASSUME regs' \in RegsType, ~fatal' PROVE TypeOK'
  <2>1. nexec' \in 0 .. MaxExecs
    BY <1>2, <1>3, BoundsAssumption
  <2>. QED
    BY <1>2, <1>3, <1>4, <2>1 DEF TypeOK, RegsType
<1>5. CASE Failed(regs.res)
  <2>1. /\ P.regs = (IF regs.arg1 # entry.arg1
                           THEN [regs EXCEPT !.arg1 = entry.arg1] ELSE regs)
        /\ P.out = <<>> /\ P.ok = TRUE
    BY <1>5, Zenon DEF ProcessExecve
  <2>2. passed \in Int
    BY <1>3 DEF Names
  <2>3. regs' \in RegsType
    BY <1>2, <1>3, <2>1, <2>2, RegsExcept
  <2>4. trace' = expected'
    BY <1>2, <1>3, <1>5, <2>1
  <2>5. ~fatal'
    BY <1>2, <2>1, Zenon
  <2>. QED
    BY <1>1, <1>2, <1>4, <2>3, <2>4, <2>5 DEF TInv
<1>6. CASE ~Failed(regs.res)
  <2>1. PICK argc \in 0 .. 2, envc \in 0 .. MaxEnv : mem = NewImage(argc, envc)
    BY <1>3, <1>6
  <2>2. w.nullOk /\ w.keysOk /\ w.randOk /\ w.rand = RAND_BYTES
    BY <1>3, <1>6, <2>1, WalkNewImage
  <2>3. regs.arg1 = 0 /\ ~(regs.arg1 # 0)
    BY <1>3, <1>6
  <2>4. P.regs = regs /\ P.ok = TRUE /\ P.out = <<event>> \o <<Rec(w.rand, 16)>>
    BY <1>6, <2>2, <2>3, Zenon DEF ProcessExecve
  <2>5. trace' = expected'
    BY <1>2, <1>3, <1>6, <2>2, <2>4
  <2>6. ~fatal'
    BY <1>2, <2>4, Zenon
  <2>. QED
    BY <1>1, <1>2, <1>3, <1>4, <2>4, <2>5, <2>6 DEF TInv
<1>. QED
  BY <1>5, <1>6
(* Every step, one per action of Next, keeps TInv.                        *)
LEMMA NextTInv == TInv /\ [Next]_vars => TInv'
<1> SUFFICES ASSUME TInv, [Next]_vars PROVE TInv'
  OBVIOUS
<1>1. ASSUME NEW p \in Names, NEW n \in 0 .. 2, NEW big \in ClassChoices,
             NEW args \in ArgvChoices(p), Setup(p, n, args, big)
      PROVE  TInv'
  BY <1>1, SetupTInv
<1>2. CASE Enter
  BY <1>2, EnterTInv
<1>3. CASE Reenter
  BY <1>3, ReenterTInv
<1>4. ASSUME NEW envc \in 0 .. MaxEnv, NEW ok \in BOOLEAN, Kernel(envc, ok)
      PROVE  TInv'
  BY <1>4, KernelTInv
<1>5. ASSUME NEW abort \in BOOLEAN, Exit(abort)
      PROVE  TInv'
  BY <1>5, ExitTInv
<1>6. CASE Finished \/ UNCHANGED vars
  <2>1. UNCHANGED vars
    BY <1>6 DEF Finished
  <2>. QED
    BY <2>1 DEF vars, TInv, TypeOK, IInv, Arg1Restored, Layout, NameAt, ArgvAt,
       ExecFileSupported
<1>. QED
  BY <1>1, <1>2, <1>3, <1>4, <1>5, <1>6 DEF Next

(* For every architecture, build and bound: whenever the task runs its    *)
(* own code, the trace holds, in order, the task event (with the name and *)
(* argv the task passed) and the AT_RANDOM range of exactly the execs the *)
(* kernel carried out, and no assertion of process_execve's stack walk   *)
(* has fired, through re-entries of the preparer, the arg1 clobber of an  *)
(* i386 build and failed execs (rec_prepare_syscall_arch, process_execve). *)
THEOREM ExecTracedInvariant == Spec => []ExecTraced
<1>1. TInv => ExecTraced
  BY DEF TInv, ExecTraced
<1>. QED
  BY InitTInv, NextTInv, <1>1, PTL DEF Spec

(* For every architecture, build and bound: the state keeps its types,    *)
(* and the syscall state of an execve is removed at its exit, so the next *)
(* execve starts with no saved entry registers and no pending event.      *)
THEOREM TypeCorrect == Spec => []TypeOK
<1>1. TInv => TypeOK
  BY DEF TInv
<1>. QED
  BY InitTInv, NextTInv, <1>1, PTL DEF Spec
----------------------------------------------------------------------------
(* Refinement of ExecveRecording.                                          *)

(* The initial state maps to the abstract initial state.                  *)
LEMMA RecordingInit == Init => Recording!Init
BY DEF Init, Recording!Init, Request

(* Every step maps to an abstract step or a stutter: the task's trap is  *)
(* the call, the exit is the failure or the success, the rest stutters.   *)
LEMMA RecordingStep ==
  TInv /\ TInv' /\ [Next]_vars => [Recording!Next]_Recording!vars
<1> SUFFICES ASSUME TInv, TInv', [Next]_vars
             PROVE  [Recording!Next]_Recording!vars
  OBVIOUS
<1> DEFINE MemReq == [file |-> CStr(mem, passed), argv |-> CmdLine(mem, ARGV)]
<1>1. ASSUME NEW p \in Names, NEW n \in 0 .. 2, NEW big \in ClassChoices,
             NEW args \in ArgvChoices(p), Setup(p, n, args, big)
      PROVE  Recording!Call
  BY <1>1 DEF Setup, Recording!Call
<1>2. CASE Enter \/ Reenter
  <2>1. /\ phase \in {"entry", "kernel"} /\ phase' \in {"entry", "kernel"}
        /\ UNCHANGED <<mem, passed, trace>>
    BY <1>2 DEF Enter, Reenter
  <2>2. Request = MemReq /\ Request' = MemReq
    BY <2>1 DEF Request
  <2>. QED
    BY <2>1, <2>2 DEF Recording!vars
<1>3. ASSUME NEW envc \in 0 .. MaxEnv, NEW ok \in BOOLEAN, Kernel(envc, ok)
      PROVE  UNCHANGED Recording!vars
  <2>1. /\ phase = "kernel" /\ phase' = "exit"
        /\ UNCHANGED <<is64, event, trace, passed>>
    BY <1>3 DEF Kernel
  <2>2. Request = MemReq
    BY <2>1 DEF Request
  <2>3. CASE Failed(regs'.res)
    <3>1. mem' = mem
      <4>1. ~(CStr(mem, regs.arg1) = <<>> \/ ~ok) =>
              regs' = [arg1 |-> 0, arg2 |-> 0, res |-> 0, sp |-> STACK]
        BY <1>3 DEF Kernel
      <4>2. ~(CStr(mem, regs.arg1) = <<>> \/ ~ok) => regs'.res = 0
        BY <4>1
      <4>3. ~Failed(0)
        BY DEF Failed
      <4>. QED
        BY <1>3, <2>3, <4>2, <4>3 DEF Kernel
    <3>. QED
      BY <2>1, <2>2, <2>3, <3>1 DEF Request, Recording!vars
  <2>4. CASE ~Failed(regs'.res)
    <3>1. ExecFileSupported(is64)
      <4>1. SUFFICES ASSUME ~ExecFileSupported(is64) PROVE FALSE
        OBVIOUS
      <4>2. mem \in [Addr -> Int] /\ regs.arg1 \in Addr /\ mem[regs.arg1] = 0
        BY <2>1, <4>1 DEF TInv, TypeOK
      <4>3. CStr(mem, regs.arg1) = <<>>
        BY <4>2, NulCStr
      <4>4. regs' = [regs EXCEPT !.res = -ENOENT]
        BY <1>3, <4>3 DEF Kernel
      <4>5. regs \in RegsType
        BY DEF TInv, TypeOK, RegsType
      <4>6. Failed(regs'.res)
        BY <4>4, <4>5 DEF RegsType, Failed, ENOENT
      <4>. QED
        BY <2>4, <4>6
    <3>2. event = MemReq
      BY <2>1, <3>1 DEF TInv
    <3>. QED
      BY <2>1, <2>2, <2>4, <3>2 DEF Request, Recording!vars
  <2>. QED
    BY <2>3, <2>4
<1>4. ASSUME NEW abort \in BOOLEAN, Exit(abort)
      PROVE  Recording!Fail \/ Recording!Succeed
  <2>1. /\ phase = "exit" /\ phase' = "user"
    BY <1>4 DEF Exit
  <2>2. Request' = NoEvent
    BY <2>1 DEF Request
  <2>3. trace' = expected' /\ expected' = expected
    BY <1>4, <2>1 DEF Exit, TInv
  <2>4. CASE Failed(regs.res)
    <3>1. trace' = trace
      BY <2>1, <2>3, <2>4 DEF TInv
    <3>. QED
      BY <2>1, <2>2, <3>1 DEF Recording!Fail
  <2>5. CASE ~Failed(regs.res)
    <3>1. trace' = trace \o <<event, Rec(RAND_BYTES, 16)>> /\ event.file # <<>>
      BY <2>1, <2>3, <2>5 DEF TInv
    <3>2. Request = event
      BY <2>1, <2>5 DEF Request
    <3>. QED
      BY <2>1, <2>2, <3>1, <3>2 DEF Recording!Succeed
  <2>. QED
    BY <2>4, <2>5
<1>5. CASE Finished \/ UNCHANGED vars
  BY <1>5 DEF Finished, vars, Recording!vars, Request
<1>. QED
  BY <1>1, <1>2, <1>3, <1>4, <1>5 DEF Next, Recording!Next

(* For every architecture, build and bound, the recorder's handling of    *)
(* execve implements ExecveRecording: each call adds to the trace nothing *)
(* if the exec fails and, if it succeeds, the event with the name and     *)
(* argv the task's code passed followed by the AT_RANDOM record, through  *)
(* re-entries, the arg1 clobber of an i386 build and the stack walk       *)
(* (rec_prepare_syscall_arch, process_execve).                            *)
THEOREM RecordingRefinement == Spec => RecordingSpec
<1>1. Spec => []TInv
  BY InitTInv, NextTInv, PTL DEF Spec
<1>. QED
  BY <1>1, RecordingInit, RecordingStep, PTL DEF Spec, RecordingSpec, Recording!Spec
====
