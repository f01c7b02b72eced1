------------------------ MODULE RecordSyscallProofs ------------------------
(***************************************************************************)
(* Proofs about RecordSyscall for every value of its constants: type      *)
(* correctness, and that re-entering the preparer is a no-op for the      *)
(* syscalls that read no memory through a returned pointer.               *)
(***************************************************************************)
EXTENDS RecordSyscall, TLAPS

(* A task running its own code has a fresh syscall state: both exit paths *)
(* and the restart hook remove it (syscall_state_property.remove).        *)
StateDiscarded ==
  \A t \in Tasks : phase[t] = "user" => sst[t] = NewSyscallState(ScratchPtr(t))

(* The inductive invariant: TypeOK, StateDiscarded, and the bookkeeping   *)
(* that makes the syscall count stay within its bound: a task inside a    *)
(* syscall has one set up, and a task with a syscall set up has issued     *)
(* fewer than MaxSyscalls.                                                 *)
IInv ==
  /\ TypeOK
  /\ StateDiscarded
  /\ \A t \in Tasks : phase[t] # "user" => fam[t] # NoSyscall
  /\ \A t \in Tasks : fam[t] # NoSyscall => nsys[t] < MaxSyscalls

----------------------------------------------------------------------------
(* Lemmas: the operators that build new memories and registers keep      *)
(* their domains.                                                          *)

LEMMA ApplyDomain ==
  ASSUME NEW m, NEW w
  PROVE  DOMAIN Apply(m, w) = DOMAIN m
BY DEF Apply

LEMMA ApplyRecordsDomain ==
  ASSUME NEW rm, NEW recs
  PROVE  DOMAIN ApplyRecords(rm, recs) = DOMAIN rm
BY DEF ApplyRecords

LEMMA Regs3Domain ==
  ASSUME NEW a1, NEW a2, NEW a3
  PROVE  DOMAIN Regs3(a1, a2, a3) = 0 .. 6
BY DEF Regs3

(* Every syscall layout a task's code sets up fills all seven registers.  *)
LEMMA LayoutRegsDomain ==
  ASSUME NEW f \in AllFamilies, NEW t, NEW c
  PROVE  DOMAIN Layout(f, t, c).regs = 0 .. 6
<1>1. CASE f = "read"
  BY <1>1, Regs3Domain DEF Layout
<1>2. CASE f = "readv"
  BY <1>2, Regs3Domain DEF Layout
<1>3. CASE f \in {"accept", "getsockname"}
  BY <1>3, Regs3Domain DEF Layout
<1>4. CASE f = "recvmsg"
  BY <1>4, Regs3Domain DEF Layout
<1>5. CASE f = "futex"
  BY <1>5, Regs3Domain DEF Layout
<1>6. CASE f = "socketcall"
  BY <1>6, Regs3Domain DEF Layout
<1>7. CASE f = "nanosleep"
  BY <1>7, Regs3Domain DEF Layout
<1>8. CASE f = "epoll_wait"
  BY <1>8, Regs3Domain DEF Layout
<1>9. CASE f = "write"
  BY <1>9, Regs3Domain DEF Layout
<1>. QED
  BY <1>1, <1>2, <1>3, <1>4, <1>5, <1>6, <1>7, <1>8, <1>9 DEF AllFamilies

(* done_preparing leaves the shape of memory and registers alone.         *)
LEMMA DonePreparingDomains ==
  ASSUME NEW st, NEW sw, NEW m, NEW r, NEW base, NEW cap
  PROVE  /\ DOMAIN DonePreparing(st, sw, m, r, base, cap).mem = DOMAIN m
         /\ DOMAIN DonePreparing(st, sw, m, r, base, cap).regs = DOMAIN r
<1>1. DOMAIN CopyToScratch(st.params, m) = DOMAIN m
  BY DEF CopyToScratch
<1>2. DOMAIN SetPtrSlots(st.params, CopyToScratch(st.params, m),
        [i \in 1 .. Len(st.params) |->
           RelocatePointerToScratch(st.params, st.params[i].ptrInMemory)],
        "scratch") = DOMAIN CopyToScratch(st.params, m)
  BY DEF SetPtrSlots
<1>3. DOMAIN SetPtrRegs(st.params, r, "scratch") = DOMAIN r
  BY DEF SetPtrRegs
<1>. QED
  BY <1>1, <1>2, <1>3 DEF DonePreparing

(* process_syscall_results leaves the shape of memory and registers alone. *)
LEMMA ProcessSyscallResultsDomains ==
  ASSUME NEW st, NEW wb, NEW m, NEW r
  PROVE  /\ DOMAIN ProcessSyscallResults(st, wb, m, r).mem = DOMAIN m
         /\ DOMAIN ProcessSyscallResults(st, wb, m, r).regs = DOMAIN r
<1> DEFINE ps == st.params
           sizes == ActualSizes(SizesOf(ps), m, r[0])
           wbIdx(a) == {i \in 1 .. Len(ps) :
                          /\ wb = WRITE_BACK /\ ps[i].mode \in {ARG_IN_OUT, ARG_OUT}
                          /\ ps[i].dest <= a /\ a < ps[i].dest + sizes[i]}
           m1 == [a \in DOMAIN m |->
                    IF wbIdx(a) = {} THEN m[a]
                    ELSE m[ps[LastOf(wbIdx(a))].scratch + (a - ps[LastOf(wbIdx(a))].dest)]]
<1>1. DOMAIN SetPtrSlots(ps, m1, [i \in 1 .. Len(ps) |-> ps[i].ptrInMemory], "dest")
        = DOMAIN m
  BY DEF SetPtrSlots
<1>2. DOMAIN SetPtrRegs(st.params, r, "dest") = DOMAIN r
  BY DEF SetPtrRegs
<1>. QED
  BY <1>1, <1>2 DEF ProcessSyscallResults

----------------------------------------------------------------------------
USE NTasksAssumption, BoundsAssumption, FamiliesAssumption

LEMMA InitIInv == Init => IInv
<1> SUFFICES ASSUME Init PROVE IInv
  OBVIOUS
<1>1. TypeOK
  <2>1. \A t \in Tasks : DOMAIN regs[t] = 0 .. 6 /\ DOMAIN nregs[t] = 0 .. 6
    BY Regs3Domain DEF Init
  <2>2. /\ nsys \in [Tasks -> 0 .. MaxSyscalls] /\ nuw \in 0 .. MaxUserWrites
        /\ nre \in 0 .. MaxReentries /\ nrs \in 0 .. MaxRestarts
    BY DEF Init
  <2>. QED
    BY <2>1, <2>2 DEF Init, TypeOK
<1>2. StateDiscarded
  BY DEF Init, StateDiscarded
<1>. QED
  BY <1>1, <1>2 DEF Init, IInv

(* The inductive step, one step per action.                               *)
LEMMA NextIInv == IInv /\ [Next]_vars => IInv'
<1> SUFFICES ASSUME IInv, [Next]_vars PROVE IInv'
  OBVIOUS
<1>1. ASSUME NEW t \in Tasks, NEW f \in Families, NEW c \in SetupChoices(f),
             Setup(t, f, c)
      PROVE  IInv'
  <2>1. DOMAIN Layout(f, t, c).regs = 0 .. 6
    BY LayoutRegsDomain
  <2>. QED
    BY <1>1, <2>1, ApplyDomain DEF Setup, IInv, TypeOK, StateDiscarded
<1>2. ASSUME NEW t \in Tasks, Enter(t)
      PROVE  IInv'
  <2> DEFINE p == Prepare(fam[t], t, sst[t], regs[t], mem)
  <2>1. DOMAIN p.mem = DOMAIN mem /\ DOMAIN p.regs = DOMAIN regs[t]
    BY DonePreparingDomains DEF Prepare
  <2>. QED
    BY <1>2, <2>1 DEF Enter, IInv, TypeOK, StateDiscarded
<1>3. ASSUME NEW t \in Tasks, NEW k \in KernelChoices,
             Kernel(t, k.n, k.alen, k.fail)
      PROVE  IInv'
  BY <1>3, ApplyDomain DEF Kernel, IInv, TypeOK, StateDiscarded
<1>4. ASSUME NEW t \in Tasks, Exit(t)
      PROVE  IInv'
  <2> DEFINE y == Finalize(fam[t], sst[t], mem, regs[t])
  <2>0. fam[t] \in AllFamilies
    BY <1>4 DEF Exit, IInv, TypeOK
  <2>1. DOMAIN y.mem = DOMAIN mem /\ DOMAIN y.regs = DOMAIN regs[t]
    <3>1. CASE fam[t] = "nanosleep"
      BY <3>1, ProcessSyscallResultsDomains DEF Finalize, FinalizeNanosleep
    <3>2. CASE fam[t] # "nanosleep"
      BY <2>0, <3>2, ProcessSyscallResultsDomains DEF Finalize, AllFamilies
    <3>. QED
      BY <3>1, <3>2
  <2>3. nsys[t] + 1 \in 0 .. MaxSyscalls
    BY <1>4 DEF Exit, IInv, TypeOK
  <2>. QED
    BY <1>4, <2>1, <2>3, ApplyDomain, ApplyRecordsDomain
    DEF Exit, IInv, TypeOK, StateDiscarded
<1>11. ASSUME NEW t \in Tasks, ExitExpectErrno(t)
       PROVE  IInv'
  <2>1. nsys[t] + 1 \in 0 .. MaxSyscalls
    BY <1>11 DEF ExitExpectErrno, IInv, TypeOK
  <2>. QED
    BY <1>11, <2>1, ApplyDomain DEF ExitExpectErrno, IInv, TypeOK, StateDiscarded
<1>5. ASSUME NEW t \in Tasks, NEW a \in UserAddr, UserWrite(t, a)
      PROVE  IInv'
  BY <1>5 DEF UserWrite, IInv, TypeOK, StateDiscarded
<1>6. ASSUME NEW t \in Tasks, Reenter(t)
      PROVE  IInv'
  <2> DEFINE p == Prepare(fam[t], t, sst[t], regs[t], mem)
  <2>1. DOMAIN p.mem = DOMAIN mem /\ DOMAIN p.regs = DOMAIN regs[t]
    BY DonePreparingDomains DEF Prepare
  <2>2. nre + 1 \in 0 .. MaxReentries
    BY <1>6 DEF Reenter, IInv, TypeOK
  <2>. QED
    BY <1>6, <2>1, <2>2 DEF Reenter, IInv, TypeOK, StateDiscarded
<1>7. CASE Finished
  BY <1>7 DEF Finished, vars, IInv, TypeOK, StateDiscarded
<1>8. CASE UNCHANGED vars
  BY <1>8 DEF vars, IInv, TypeOK, StateDiscarded
<1>9. ASSUME NEW t \in Tasks, Interrupt(t)
      PROVE  IInv'
  <2>1. nrs + 1 \in 0 .. MaxRestarts
    BY <1>9 DEF Interrupt, IInv, TypeOK
  <2>. QED
    BY <1>9, <2>1, ApplyDomain DEF Interrupt, IInv, TypeOK, StateDiscarded
<1>10. ASSUME NEW t \in Tasks, Restart(t)
       PROVE  IInv'
  <2> DEFINE x == ProcessSyscallResults(sst[t], WRITE_BACK, mem, regs[t])
  <2>1. DOMAIN mem' = DOMAIN mem /\ DOMAIN regs'[t] = DOMAIN regs[t]
        /\ DOMAIN replay' = DOMAIN replay /\ DOMAIN regs' = DOMAIN regs
    <3>1. CASE fam[t] = "nanosleep"
      BY <1>10, <3>1, ProcessSyscallResultsDomains, ApplyRecordsDomain
      DEF Restart, IInv, TypeOK
    <3>2. CASE fam[t] # "nanosleep"
      BY <1>10, <3>2 DEF Restart
    <3>. QED
      BY <3>1, <3>2
  <2>2. fatal' \in BOOLEAN
    BY <1>10 DEF Restart, IInv, TypeOK
  <2>. QED
    BY <1>10, <2>1, <2>2, ApplyDomain DEF Restart, IInv, TypeOK, StateDiscarded
<1>. QED
  BY <1>1, <1>2, <1>3, <1>4, <1>5, <1>6, <1>7, <1>8, <1>9, <1>10, <1>11 DEF Next

(* Type correctness of the recording: every reachable state has the      *)
(* control state and memory/register shapes TypeOK gives (the per-task   *)
(* phase, syscall and counters kept by rec_prepare_syscall and            *)
(* rec_process_syscall).                                                   *)
THEOREM TypeCorrect == Spec => []TypeOK
<1>1. IInv => TypeOK
  BY DEF IInv
<1>. QED
  BY InitIInv, NextIInv, <1>1, PTL DEF Spec

----------------------------------------------------------------------------
(* Re-entry into the preparer.  A task inside a syscall has a prepared    *)
(* state: done_preparing sets preparation_done on every path.  For the    *)
(* syscalls of DirectFamilies, whose preparers read no memory through a   *)
(* pointer handed back by the registration calls, running the preparer    *)
(* again is then a no-op.                                                 *)

PreparedInv ==
  \A t \in Tasks : phase[t] # "user" => sst[t].preparationDone = TRUE

IInvPrepared == IInv /\ PreparedInv

(* reg_parameter keeps the fields of the syscall state.                   *)
LEMMA RegParameterDomain ==
  ASSUME NEW st, NEW r, NEW arg, NEW size, NEW mode, NEW align
  PROVE  DOMAIN RegParameter(st, r, arg, size, mode, align) = DOMAIN st
BY DEF RegParameter, AddParam

(* reg_parameter on a prepared state registers nothing.                   *)
LEMMA RegParameterPrepared ==
  ASSUME NEW st, NEW r, NEW arg, NEW size, NEW mode, NEW align,
         st.preparationDone = TRUE
  PROVE  RegParameter(st, r, arg, size, mode, align) = st
BY DEF RegParameter

(* The preparers of DirectFamilies keep the fields of the state, and      *)
(* leave a prepared state as it is.                                        *)
LEMMA DirectPreparer ==
  ASSUME NEW f \in DirectFamilies, NEW st, NEW r, NEW m
  PROVE  /\ DOMAIN Preparer(f, st, r, m).st = DOMAIN st
         /\ st.preparationDone = TRUE => Preparer(f, st, r, m).st = st
<1>1. CASE f = "read"
  <2>1. Preparer(f, st, r, m) = PrepareRead(st, r, m)
    BY <1>1 DEF Preparer
  <2>2. PrepareRead(st, r, m).st
          = RegParameter(st, r, 2, FromSyscallResult(SIZE_T_SIZE, r[3]), ARG_OUT, Align)
    BY DEF PrepareRead
  <2>3. DOMAIN RegParameter(st, r, 2, FromSyscallResult(SIZE_T_SIZE, r[3]), ARG_OUT, Align)
          = DOMAIN st
    BY RegParameterDomain
  <2>4. st.preparationDone = TRUE =>
          RegParameter(st, r, 2, FromSyscallResult(SIZE_T_SIZE, r[3]), ARG_OUT, Align) = st
    BY RegParameterPrepared, Zenon
  <2>. QED
    BY <2>1, <2>2, <2>3, <2>4
<1>2. CASE f = "accept"
  <2> DEFINE s1 == RegParameter(st, r, 3, ParamSizeOf(SOCKLEN), ARG_IN_OUT, Align)
             addr(s) == RegParameter(s, r, 2,
                          FromInitializedMem(m, RegParameterResult(st, r, 3), SOCKLEN_T_SIZE),
                          ARG_OUT, Align)
  <2>1. Preparer(f, st, r, m) = PrepareAccept(st, r, m)
    BY <1>2 DEF Preparer
  <2>2. PrepareAccept(st, r, m).st = addr(s1)
    BY DEF PrepareAccept
  <2>3. DOMAIN s1 = DOMAIN st
    BY RegParameterDomain
  <2>4. st.preparationDone = TRUE => s1 = st
    BY RegParameterPrepared, Zenon
  <2>5. DOMAIN addr(s1) = DOMAIN s1
    BY RegParameterDomain
  <2>6. st.preparationDone = TRUE => addr(st) = st
    BY RegParameterPrepared, Zenon
  <2>. QED
    BY <2>1, <2>2, <2>3, <2>4, <2>5, <2>6
<1>3. CASE f = "getsockname"
  <2> DEFINE s1 == RegParameter(st, r, 3, ParamSizeOf(SOCKLEN), ARG_IN_OUT, Align)
             addr(s) == RegParameter(s, r, 2,
                          FromInitializedMem(m, RegParameterResult(st, r, 3), SOCKLEN_T_SIZE),
                          ARG_OUT, Align)
  <2>1. Preparer(f, st, r, m) = PrepareGetsockname(st, r, m)
    BY <1>3 DEF Preparer
  <2>2. PrepareGetsockname(st, r, m).st = addr(s1)
    BY DEF PrepareGetsockname, PrepareAccept
  <2>3. DOMAIN s1 = DOMAIN st
    BY RegParameterDomain
  <2>4. st.preparationDone = TRUE => s1 = st
    BY RegParameterPrepared, Zenon
  <2>5. DOMAIN addr(s1) = DOMAIN s1
    BY RegParameterDomain
  <2>6. st.preparationDone = TRUE => addr(st) = st
    BY RegParameterPrepared, Zenon
  <2>. QED
    BY <2>1, <2>2, <2>3, <2>4, <2>5, <2>6
<1>4. CASE f = "futex"
  <2>1. Preparer(f, st, r, m) = PrepareFutex(st, r, m)
    BY <1>4 DEF Preparer
  <2>2. PrepareFutex(st, r, m).st
          = IF r[2] % FUTEX_CMD_BITS = FUTEX_WAIT
              THEN RegParameter(st, r, 1, ParamSizeOf(INT), ARG_IN_OUT_NO_SCRATCH, Align)
              ELSE st
    BY DEF PrepareFutex
  <2>3. DOMAIN RegParameter(st, r, 1, ParamSizeOf(INT), ARG_IN_OUT_NO_SCRATCH, Align) = DOMAIN st
    BY RegParameterDomain
  <2>4. st.preparationDone = TRUE => RegParameter(st, r, 1, ParamSizeOf(INT), ARG_IN_OUT_NO_SCRATCH, Align) = st
    BY RegParameterPrepared, Zenon
  <2>. QED
    BY <2>1, <2>2, <2>3, <2>4
<1>5. CASE f = "nanosleep"
  <2>1. Preparer(f, st, r, m) = PrepareNanosleep(st, r, m)
    BY <1>5 DEF Preparer
  <2>2. PrepareNanosleep(st, r, m).st
          = RegParameter(st, r, 2, ParamSizeOf(TIMESPEC), ARG_OUT, Align)
    BY DEF PrepareNanosleep
  <2>3. DOMAIN RegParameter(st, r, 2, ParamSizeOf(TIMESPEC), ARG_OUT, Align) = DOMAIN st
    BY RegParameterDomain
  <2>4. st.preparationDone = TRUE => RegParameter(st, r, 2, ParamSizeOf(TIMESPEC), ARG_OUT, Align) = st
    BY RegParameterPrepared, Zenon
  <2>. QED
    BY <2>1, <2>2, <2>3, <2>4
<1>6. CASE f = "epoll_wait"
  <2> DEFINE sz == ParamSizeOf(UnsignedOf(EPOLL_EVENT * r[3], SIZE_T_SIZE))
  <2>1. Preparer(f, st, r, m) = PrepareEpollWait(st, r, m)
    BY <1>6 DEF Preparer
  <2>2. PrepareEpollWait(st, r, m).st = RegParameter(st, r, 2, sz, ARG_OUT, Align)
    BY DEF PrepareEpollWait
  <2>3. DOMAIN RegParameter(st, r, 2, sz, ARG_OUT, Align) = DOMAIN st
    BY RegParameterDomain
  <2>4. st.preparationDone = TRUE => RegParameter(st, r, 2, sz, ARG_OUT, Align) = st
    BY RegParameterPrepared, Zenon
  <2>. QED
    BY <2>1, <2>2, <2>3, <2>4
<1>. QED
  BY <1>1, <1>2, <1>3, <1>4, <1>5, <1>6 DEF DirectFamilies

LEMMA DirectPreparerDomain ==
  ASSUME NEW f \in DirectFamilies, NEW st, NEW r, NEW m
  PROVE  DOMAIN Preparer(f, st, r, m).st = DOMAIN st
<1>1. /\ DOMAIN Preparer(f, st, r, m).st = DOMAIN st
      /\ st.preparationDone = TRUE => Preparer(f, st, r, m).st = st
  BY DirectPreparer
<1>. QED
  BY ONLY <1>1

LEMMA DirectPreparerPrepared ==
  ASSUME NEW f \in DirectFamilies, NEW st, NEW r, NEW m,
         st.preparationDone = TRUE
  PROVE  Preparer(f, st, r, m).st = st
BY DirectPreparer

(* done_preparing returns a state with preparation_done set.              *)
LEMMA DonePreparingMarksDone ==
  ASSUME NEW st, NEW sw, NEW m, NEW r, NEW base, NEW cap,
         "preparationDone" \in DOMAIN st
  PROVE  DonePreparing(st, sw, m, r, base, cap).st.preparationDone = TRUE
BY DEF DonePreparing

(* done_preparing on a prepared state changes nothing and cannot fail.    *)
LEMMA DonePreparingPrepared ==
  ASSUME NEW st, NEW sw, NEW m, NEW r, NEW base, NEW cap,
         st.preparationDone = TRUE
  PROVE  DonePreparing(st, sw, m, r, base, cap)
           = [st |-> st, mem |-> m, regs |-> r, ok |-> TRUE]
BY DEF DonePreparing

(* The preparer's own reads are safe for DirectFamilies.                  *)
LEMMA DirectReadsOk ==
  ASSUME NEW f \in DirectFamilies, NEW st, NEW r, NEW m
  PROVE  ReadsOk(f, st, r, m) = TRUE
<1>1. f \notin {"readv", "recvmsg", "socketcall"}
  BY DEF DirectFamilies
<1>. QED
  BY <1>1 DEF ReadsOk

(* Running the preparer again on the syscall a task is in leaves its     *)
(* state, memory and registers as they are, and cannot fail.              *)
LEMMA ReenterNoop ==
  ASSUME Families \subseteq DirectFamilies, IInvPrepared,
         NEW t \in Tasks, phase[t] = "kernel"
  PROVE  Prepare(fam[t], t, sst[t], regs[t], mem)
           = [st |-> sst[t], mem |-> mem, regs |-> regs[t], ok |-> TRUE]
<1>1. fam[t] \in DirectFamilies
  BY DEF IInvPrepared, IInv, TypeOK
<1>2. sst[t].preparationDone = TRUE
  BY DEF IInvPrepared, PreparedInv
<1>3. Preparer(fam[t], sst[t], regs[t], mem).st = sst[t]
  BY ONLY <1>1, <1>2, DirectPreparerPrepared
<1> DEFINE pp == Preparer(fam[t], sst[t], regs[t], mem)
          dp == DonePreparing(pp.st, pp.sw, mem, regs[t], ScratchPtr(t), ScratchCap)
<1>4. DonePreparing(sst[t], pp.sw, mem, regs[t], ScratchPtr(t), ScratchCap)
        = [st |-> sst[t], mem |-> mem, regs |-> regs[t], ok |-> TRUE]
  BY <1>2 DEF DonePreparing
<1>5. dp = [st |-> sst[t], mem |-> mem, regs |-> regs[t], ok |-> TRUE]
  BY ONLY <1>3, <1>4
<1>6. ReadsOk(fam[t], sst[t], regs[t], mem) = TRUE
  BY ONLY <1>1, DirectReadsOk
<1>10. fam[t] # "write"
  BY <1>1 DEF DirectFamilies
<1>7. Prepare(fam[t], t, sst[t], regs[t], mem)
        = [st |-> dp.st, mem |-> dp.mem, regs |-> dp.regs,
           ok |-> ReadsOk(fam[t], sst[t], regs[t], mem) /\ dp.ok]
  BY <1>10 DEF Prepare
<1>8. dp.ok = TRUE /\ dp.st = sst[t] /\ dp.mem = mem /\ dp.regs = regs[t]
  BY ONLY <1>5
<1>9. (ReadsOk(fam[t], sst[t], regs[t], mem) /\ dp.ok) = TRUE
  BY ONLY <1>6, <1>8, Zenon
<1>. QED
  BY ONLY <1>7, <1>8, <1>9

LEMMA InitPrepared == Init => PreparedInv
BY DEF Init, PreparedInv

(* Every step keeps tasks inside a syscall prepared.                      *)
LEMMA NextPrepared ==
  ASSUME Families \subseteq DirectFamilies
  PROVE  IInvPrepared /\ [Next]_vars => PreparedInv'
<1> SUFFICES ASSUME IInvPrepared, [Next]_vars PROVE PreparedInv'
  OBVIOUS
<1>1. ASSUME NEW t \in Tasks, NEW f \in Families, NEW c \in SetupChoices(f),
             Setup(t, f, c)
      PROVE  PreparedInv'
  BY <1>1 DEF Setup, IInvPrepared, PreparedInv
<1>2. ASSUME NEW t \in Tasks, Enter(t)
      PROVE  PreparedInv'
  <2> DEFINE pp == Preparer(fam[t], sst[t], regs[t], mem)
             dp == DonePreparing(pp.st, pp.sw, mem, regs[t], ScratchPtr(t), ScratchCap)
  <2>1. fam[t] \in DirectFamilies
    BY <1>2 DEF Enter, IInvPrepared, IInv, TypeOK
  <2>2. sst[t] = NewSyscallState(ScratchPtr(t))
    BY <1>2 DEF Enter, IInvPrepared, IInv, StateDiscarded
  <2>7. "preparationDone" \in DOMAIN sst[t]
    BY <2>2 DEF NewSyscallState
  <2>3. "preparationDone" \in DOMAIN pp.st
    BY ONLY <2>1, <2>7, DirectPreparerDomain
  <2>4. dp.st.preparationDone = TRUE
    BY ONLY <2>3, DonePreparingMarksDone
  <2>8. fam[t] # "write"
    BY <2>1 DEF DirectFamilies
  <2>5. sst' = [sst EXCEPT ![t] = dp.st]
    BY <1>2, <2>8 DEF Enter, Prepare
  <2>6. /\ DOMAIN sst = Tasks
        /\ \A u \in Tasks \ {t} : phase'[u] = phase[u]
    BY <1>2 DEF Enter, IInvPrepared, IInv, TypeOK
  <2>. QED
    BY <2>4, <2>5, <2>6 DEF IInvPrepared, PreparedInv
<1>3. ASSUME NEW t \in Tasks, NEW k \in KernelChoices,
             Kernel(t, k.n, k.alen, k.fail)
      PROVE  PreparedInv'
  BY <1>3 DEF Kernel, IInvPrepared, PreparedInv, IInv, TypeOK
<1>4. ASSUME NEW t \in Tasks, Exit(t)
      PROVE  PreparedInv'
  BY <1>4 DEF Exit, IInvPrepared, PreparedInv, IInv, TypeOK
<1>11. ASSUME NEW t \in Tasks, ExitExpectErrno(t)
       PROVE  PreparedInv'
  BY <1>11 DEF ExitExpectErrno, IInvPrepared, PreparedInv, IInv, TypeOK
<1>5. ASSUME NEW t \in Tasks, NEW a \in UserAddr, UserWrite(t, a)
      PROVE  PreparedInv'
  BY <1>5 DEF UserWrite, IInvPrepared, PreparedInv
<1>6. ASSUME NEW t \in Tasks, Reenter(t)
      PROVE  PreparedInv'
  <2>1. phase[t] = "kernel"
    BY <1>6 DEF Reenter
  <2>2. Prepare(fam[t], t, sst[t], regs[t], mem)
          = [st |-> sst[t], mem |-> mem, regs |-> regs[t], ok |-> TRUE]
    BY <2>1, ReenterNoop
  <2>3. sst' = [sst EXCEPT ![t] = Prepare(fam[t], t, sst[t], regs[t], mem).st]
        /\ phase' = phase
    BY <1>6 DEF Reenter
  <2>. QED
    BY <2>2, <2>3 DEF IInvPrepared, PreparedInv
<1>9. ASSUME NEW t \in Tasks, Interrupt(t)
      PROVE  PreparedInv'
  BY <1>9 DEF Interrupt, IInvPrepared, PreparedInv
<1>10. ASSUME NEW t \in Tasks, Restart(t)
       PROVE  PreparedInv'
  BY <1>10 DEF Restart, IInvPrepared, PreparedInv, IInv, TypeOK
<1>7. CASE Finished
  BY <1>7 DEF Finished, vars, IInvPrepared, PreparedInv
<1>8. CASE UNCHANGED vars
  BY <1>8 DEF vars, IInvPrepared, PreparedInv
<1>. QED
  BY <1>1, <1>2, <1>3, <1>4, <1>5, <1>6, <1>7, <1>8, <1>9, <1>10, <1>11 DEF Next

(* Re-entry into the preparer is a no-op (Idempotence) whenever the tasks *)
(* issue only syscalls whose preparers read no memory through a pointer   *)
(* handed back by reg_parameter or mem_ptr_parameter: the early returns   *)
(* of reg_parameter and done_preparing on preparation_done make the       *)
(* second rec_prepare_syscall change nothing.                             *)
THEOREM ReentryIdempotent ==
  ASSUME Families \subseteq DirectFamilies
  PROVE  Spec => Idempotence
<1>1. Init => IInvPrepared
  BY InitIInv, InitPrepared DEF IInvPrepared
<1>2. IInvPrepared /\ [Next]_vars => IInvPrepared'
  BY NextIInv, NextPrepared DEF IInvPrepared
<1>3. IInvPrepared =>
        \A t \in Tasks :
          Reenter(t) => sst'[t] = sst[t] /\ mem' = mem /\ regs'[t] = regs[t] /\ ~fatal'
  <2> SUFFICES ASSUME IInvPrepared, NEW t \in Tasks, Reenter(t)
               PROVE  sst'[t] = sst[t] /\ mem' = mem /\ regs'[t] = regs[t] /\ ~fatal'
    OBVIOUS
  <2> DEFINE p == Prepare(fam[t], t, sst[t], regs[t], mem)
  <2>1. phase[t] = "kernel"
    BY DEF Reenter
  <2>2. p = [st |-> sst[t], mem |-> mem, regs |-> regs[t], ok |-> TRUE]
    BY <2>1, ReenterNoop
  <2>3. /\ sst' = [sst EXCEPT ![t] = p.st] /\ mem' = p.mem
        /\ regs' = [regs EXCEPT ![t] = p.regs] /\ fatal' = ~p.ok
    BY DEF Reenter
  <2>4. DOMAIN sst = Tasks /\ DOMAIN regs = Tasks
    BY DEF IInvPrepared, IInv, TypeOK
  <2>5. sst'[t] = sst[t]
    BY ONLY <2>2, <2>3, <2>4, t \in Tasks
  <2>6. regs'[t] = regs[t]
    BY ONLY <2>2, <2>3, <2>4, t \in Tasks
  <2>8. p.ok = TRUE /\ p.mem = mem
    BY ONLY <2>2
  <2>7. mem' = mem /\ ~fatal'
    BY ONLY <2>3, <2>8, Zenon
  <2>. QED
    BY ONLY <2>5, <2>6, <2>7
<1>. QED
  BY <1>1, <1>2, <1>3, PTL DEF Spec, Idempotence

====
