-------------------------- MODULE TaskSyscallState --------------------------
(***************************************************************************)
(* struct TaskSyscallState of src/src/record_syscall.cc: the record of    *)
(* one in-flight syscall of one task, and its methods.                    *)
(*                                                                         *)
(* Every method is an operator from the record, the tracee's memory m      *)
(* (a function from addresses to cell values, 0 being the null pointer)   *)
(* and its registers r (a function from 0..6 to integers: 0 is the        *)
(* syscall result register, 1..6 the argument registers) to their new    *)
(* values.  The modules that compose tasks call them from their actions.  *)
(*                                                                         *)
(* A loop of the code over param_list whose iterations touch disjoint     *)
(* cells is written as one function update; where two iterations may      *)
(* write the same cell, the later iteration (higher index) wins.          *)
(***************************************************************************)
EXTENDS ParamSize

(* enum ArgMode. *)
ARG_IN == "IN"
ARG_OUT == "OUT"
ARG_IN_OUT == "IN_OUT"
ARG_IN_OUT_NO_SCRATCH == "IN_OUT_NO_SCRATCH"
ArgModes == {ARG_IN, ARG_OUT, ARG_IN_OUT, ARG_IN_OUT_NO_SCRATCH}

(* enum Switchable. *)
ALLOW_SWITCH == "ALLOW_SWITCH"
PREVENT_SWITCH == "PREVENT_SWITCH"

(* enum WriteBack. *)
WRITE_BACK == "WRITE_BACK"
NO_WRITE_BACK == "NO_WRITE_BACK"

(* The TaskSyscallState constructor followed by init(t): scratch starts   *)
(* at the task's scratch_ptr.  switchable is only read once               *)
(* preparation_done is set.                                                *)
NewSyscallState(scratchPtr) ==
  [params |-> <<>>, scratch |-> scratchPtr, preparationDone |-> FALSE,
   scratchEnabled |-> FALSE, switchable |-> PREVENT_SWITCH,
   expectErrno |-> 0]

(* Tracee pointers (remote_ptr, uintptr_t) are 8 bytes wide.             *)
UINTPTR_SIZE == 8

(* align_scratch: round up to a multiple of Align (a power of two), in    *)
(* uintptr_t arithmetic.                                                   *)
AlignUp(x, align) == UnsignedOf(((x + align - 1) \div align) * align, UINTPTR_SIZE)

(* Reinterpret a word as a signed integer of rs bytes (ssize_t).          *)
SignedOf(v, rs) ==
  LET u == UnsignedOf(v, rs)
  IN  IF u >= 2^(rs * ByteBits - 1) THEN u - 2^(rs * ByteBits) ELSE u

(* The MemoryParam that reg_parameter / mem_ptr_parameter append, and the *)
(* cursor bump that goes with it.                                          *)
AddParam(st, dest, size, mode, reg, memSlot, align) ==
  LET scr == mode # ARG_IN_OUT_NO_SCRATCH
      p == [dest |-> dest, scratch |-> IF scr THEN st.scratch ELSE 0,
            size |-> size, mode |-> mode,
            ptrInReg |-> IF scr THEN reg ELSE 0,
            ptrInMemory |-> IF scr THEN memSlot ELSE 0]
  IN  [st EXCEPT !.params = Append(@, p),
                 !.scratch = IF scr THEN AlignUp(UnsignedOf(@ + size.max, UINTPTR_SIZE), align)
                                ELSE @]

(* A mutant of RegParameter: a param is registered even once preparation *)
(* is done.                                                                *)
RegParameterIgnoringDone(st, r, arg, size, mode, align) ==
  IF r[arg] = 0 THEN st ELSE AddParam(st, r[arg], size, mode, arg, 0, align)

(* TaskSyscallState::reg_parameter: the buffer whose address is in        *)
(* argument register arg.  Nothing is registered once preparation is done *)
(* or when the pointer is null.                                            *)
RegParameter(st, r, arg, size, mode, align) ==
  IF st.preparationDone \/ r[arg] = 0 THEN st
  ELSE AddParam(st, r[arg], size, mode, arg, 0, align)

(* The pointer reg_parameter returns.                                      *)
RegParameterResult(st, r, arg) ==
  IF st.preparationDone THEN 0 ELSE r[arg]

(* TaskSyscallState::mem_ptr_parameter: the buffer whose address is       *)
(* stored in tracee memory at addrOfPtr (read with get_remote_ptr).        *)
MemPtrParameter(st, m, addrOfPtr, size, mode, align) ==
  IF st.preparationDone \/ m[addrOfPtr] = 0 THEN st
  ELSE AddParam(st, m[addrOfPtr], size, mode, 0, addrOfPtr, align)

MemPtrParameterResult(st, m, addrOfPtr) ==
  IF st.preparationDone THEN 0 ELSE m[addrOfPtr]

(* A mutant of Holders: the end of the buffer counted as inside it.      *)
HoldersInclusive(ps, ptr) ==
  {i \in 1 .. Len(ps) : ps[i].dest <= ptr /\ ptr <= ps[i].dest + ps[i].size.max}

(* The params whose registered buffer [dest, dest + max_size) holds ptr.  *)
Holders(ps, ptr) ==
  {i \in 1 .. Len(ps) : ps[i].dest <= ptr /\ ptr < ps[i].dest + ps[i].size.max}

(* TaskSyscallState::relocate_pointer_to_scratch: the scratch-side        *)
(* address of ptr.  The loop keeps the last match.                         *)
RelocatePointerToScratch(ps, ptr) ==
  LET h == Holders(ps, ptr)
      i == CHOOSE i \in h : \A j \in h : j <= i
  IN  IF h = {} THEN 0 ELSE ps[i].scratch + (ptr - ps[i].dest)

(* Its two asserts: exactly one param holds ptr.                           *)
RelocateOk(ps, ptr) ==
  \E i \in Holders(ps, ptr) : Holders(ps, ptr) = {i}

(* The last param (highest index) among those satisfying a predicate.      *)
LastOf(S) == CHOOSE i \in S : \A j \in S : j <= i

(* A mutant of CopyToScratch: the inputs are not copied to scratch.      *)
CopyToScratchSkipped(ps, m) == m

(* Step 1 of done_preparing: every IN / IN_OUT param's max_size bytes   *)
(* copied from dest to its scratch area (remote_memcpy).                   *)
CopyToScratch(ps, m) ==
  LET src(a) == {i \in 1 .. Len(ps) :
                   /\ ps[i].mode \in {ARG_IN, ARG_IN_OUT}
                   /\ ps[i].scratch <= a
                   /\ a < ps[i].scratch + ps[i].size.max}
  IN  [a \in DOMAIN m |->
         IF src(a) = {} THEN m[a]
         ELSE LET i == LastOf(src(a))
              IN  m[ps[i].dest + (a - ps[i].scratch)]]

(* Registers with every ptr_in_reg argument set to the given address of   *)
(* its param (scratch in done_preparing, dest in process_syscall_results). *)
SetPtrRegs(ps, r, field) ==
  [k \in DOMAIN r |->
     LET s == {i \in 1 .. Len(ps) : ps[i].ptrInReg = k /\ k # 0}
     IN  IF s = {} THEN r[k] ELSE ps[LastOf(s)][field]]

(* Memory with every pointer slot slot[i] (for the params with            *)
(* ptr_in_memory set) overwritten by the param's address 'field'           *)
(* (set_remote_ptr).                                                       *)
SetPtrSlots(ps, m, slot, field) ==
  [a \in DOMAIN m |->
     LET s == {i \in 1 .. Len(ps) : ps[i].ptrInMemory # 0 /\ slot[i] = a}
     IN  IF s = {} THEN m[a] ELSE ps[LastOf(s)][field]]

(* A mutant of ScratchFits: a request that fills the scratch area        *)
(* exactly is taken as not fitting.                                         *)
ScratchFitsStrict(n, cap) == n < cap

(* done_preparing's test that the n bytes of scratch the params need fit  *)
(* in the task's scratch_size.                                              *)
ScratchFits(n, cap) == n <= cap

(* TaskSyscallState::done_preparing(sw) on a state not yet prepared:      *)
(* the switchability decision, then, when scratch is used, the copy of    *)
(* the inputs to scratch and the redirection of every pointer (registers, *)
(* pointers in memory, and the mem_ptr of sizes) to scratch.  cap is the  *)
(* task's scratch_size, base its scratch_ptr.  Returns the new record,    *)
(* memory and registers, and whether the code's asserts held.             *)
DonePreparing(st, sw, m, r, base, cap) ==
  LET n == SignedOf(st.scratch - base, UINTPTR_SIZE)
      swc == IF sw = ALLOW_SWITCH /\ ~ScratchFits(n, cap) THEN PREVENT_SWITCH ELSE sw
      st1 == [st EXCEPT !.preparationDone = TRUE, !.switchable = swc]
      ps == st.params
      m1 == CopyToScratch(ps, m)
      m2 == SetPtrSlots(ps, m1,
              [i \in 1 .. Len(ps) |-> RelocatePointerToScratch(ps, ps[i].ptrInMemory)],
              "scratch")
      ps2 == [i \in 1 .. Len(ps) |->
                IF ps[i].size.memPtr = 0 THEN ps[i]
                ELSE [ps[i] EXCEPT !.size.memPtr =
                        RelocatePointerToScratch(ps, @)]]
      ok == /\ n >= 0
            /\ \A i \in 1 .. Len(ps) :
                 /\ ps[i].size.max < SizeMax
                 /\ ps[i].ptrInMemory # 0 => RelocateOk(ps, ps[i].ptrInMemory)
                 /\ ps[i].size.memPtr # 0 => RelocateOk(ps, ps[i].size.memPtr)
  IN  IF st.preparationDone
        THEN [st |-> st, mem |-> m, regs |-> r, ok |-> TRUE]
      ELSE IF swc = PREVENT_SWITCH \/ ps = <<>>
        THEN [st |-> st1, mem |-> m, regs |-> r, ok |-> n >= 0]
      ELSE [st |-> [st1 EXCEPT !.scratchEnabled = TRUE, !.params = ps2],
            mem |-> m2, regs |-> SetPtrRegs(ps, r, "scratch"), ok |-> ok]

(* The ParamSize of each param, in order.                                  *)
SizesOf(ps) == [i \in 1 .. Len(ps) |-> ps[i].size]

(* A record written to the trace: cells addr .. addr + Len(data) - 1.      *)
Rec(addr, data) == [addr |-> addr, data |-> data]

(* The n cells of m starting at a (record_remote, read_mem).               *)
CellsAt(m, a, n) == [k \in 1 .. n |-> m[a + k - 1]]

(* A mutant of MemoryCleanedUp: the flag is never set, so outputs are   *)
(* always recorded from the snapshot taken before pointers are restored.  *)
MemoryCleanedUpNever(ps) == FALSE

(* memory_cleaned_up: step 2 of process_syscall_results restored a        *)
(* pointer stored in tracee memory.                                        *)
MemoryCleanedUp(ps) == \E i \in 1 .. Len(ps) : ps[i].ptrInMemory # 0

(* TaskSyscallState::process_syscall_results(wb).  With scratch: the      *)
(* scratch bytes are snapshotted, the actual sizes evaluated, OUT and     *)
(* IN_OUT results written back to their destinations, registers and  *)
(* pointers in memory restored, and the outputs recorded -- from tracee   *)
(* memory when a pointer in memory was restored (memory_cleaned_up),      *)
(* from the snapshot otherwise.  Without scratch every param's actual     *)
(* size is recorded from its destination.  Returns the new memory and     *)
(* registers, the trace records in order, and whether the asserts held.   *)
ProcessSyscallResults(st, wb, m, r) ==
  LET ps == st.params
      res == r[0]
      sizes == ActualSizes(SizesOf(ps), m, res)
      data == m
      out(i) == ps[i].mode \in {ARG_IN_OUT, ARG_OUT}
      wbIdx(a) == {i \in 1 .. Len(ps) :
                     /\ wb = WRITE_BACK /\ out(i)
                     /\ ps[i].dest <= a /\ a < ps[i].dest + sizes[i]}
      m1 == [a \in DOMAIN m |->
               IF wbIdx(a) = {} THEN m[a]
               ELSE LET i == LastOf(wbIdx(a))
                    IN  data[ps[i].scratch + (a - ps[i].dest)]]
      m2 == SetPtrSlots(ps, m1, [i \in 1 .. Len(ps) |-> ps[i].ptrInMemory], "dest")
      cleaned == MemoryCleanedUp(ps)
      recOf(i) ==
        IF ps[i].mode = ARG_IN_OUT_NO_SCRATCH \/ cleaned
          THEN Rec(ps[i].dest, CellsAt(m2, ps[i].dest, sizes[i]))
          ELSE Rec(ps[i].dest, CellsAt(data, ps[i].scratch, sizes[i]))
      recIdx == SelectSeq([i \in 1 .. Len(ps) |-> i],
                  LAMBDA i : ps[i].mode # ARG_IN)
      ok == SizesOk(SizesOf(ps), m, res)
  IN  IF st.scratchEnabled
        THEN [mem |-> m2, regs |-> SetPtrRegs(ps, r, "dest"), ok |-> ok,
              records |-> IF wb = WRITE_BACK
                            THEN [k \in 1 .. Len(recIdx) |-> recOf(recIdx[k])]
                            ELSE <<>>]
        ELSE [mem |-> m, regs |-> r, ok |-> ok,
              records |-> [i \in 1 .. Len(ps) |->
                             Rec(ps[i].dest, CellsAt(m, ps[i].dest, sizes[i]))]]

=============================================================================
