----------------------- MODULE TaskSyscallStateProofs -----------------------
(***************************************************************************)
(* Proofs about the methods of TaskSyscallState (src/src/record_syscall.cc) *)
(* for every tracee memory, register file and word width.                  *)
(*                                                                         *)
(* The scratch layout: reg_parameter / mem_ptr_parameter hand out scratch *)
(* areas in order and without overlap (AddParamLaidOut), and done_preparing *)
(* only enables scratch when all of them fit in the task's scratch buffer *)
(* (DonePreparingConfinesScratch).  The redirection: the copy puts every   *)
(* input in its scratch area (CopyToScratchCopiesInputs), pointers into a  *)
(* registered buffer move to the same offset of its scratch area           *)
(* (RelocateIntoScratch), and the argument registers come back as they    *)
(* were, with the kernel's result (RegsRoundTrip).                          *)
(*                                                                         *)
(* The provers cannot reason about 2^(8 * ByteBits), so the uintptr_t and  *)
(* ssize_t conversions are taken through hypotheses that the computation  *)
(* does not wrap (NoWrap), which is what the code relies on.              *)
(***************************************************************************)
EXTENDS TaskSyscallState, TLAPS

(* The uintptr_t computation of v does not wrap around.                   *)
NoWrap(v) == UnsignedOf(v, UINTPTR_SIZE) = v

(* align_scratch before the cast to uintptr_t.                           *)
AlignRaw(x, align) == ((x + align - 1) \div align) * align

SizeType == [max : Int, memPtr : Int, readSize : Int, fromSyscall : BOOLEAN]
ParamType ==
  [dest : Int, scratch : Int, size : SizeType, mode : ArgModes,
   ptrInReg : Int, ptrInMemory : Int]
StateType ==
  [params : Seq(ParamType), scratch : Int, preparationDone : BOOLEAN,
   scratchEnabled : BOOLEAN, switchable : {ALLOW_SWITCH, PREVENT_SWITCH},
   expectErrno : Int]

HasScratch(p) == p.mode # ARG_IN_OUT_NO_SCRATCH

(* The scratch areas of the params ps lie in order, without overlap,     *)
(* between base and cursor.                                               *)
ScratchLaidOut(ps, base, cursor) ==
  /\ base <= cursor
  /\ \A i \in 1 .. Len(ps) : HasScratch(ps[i]) =>
       /\ 0 <= ps[i].size.max
       /\ base <= ps[i].scratch
       /\ ps[i].scratch + ps[i].size.max <= cursor
  /\ \A i, j \in 1 .. Len(ps) :
       i < j /\ HasScratch(ps[i]) /\ HasScratch(ps[j]) =>
         ps[i].scratch + ps[i].size.max <= ps[j].scratch

(* align_scratch rounds x up to the next multiple of align, by less than  *)
(* align, when the uintptr_t result does not wrap.                         *)
LEMMA AlignUpBounds ==
  ASSUME NEW x \in Nat, NEW a \in Nat \ {0}, NoWrap(AlignRaw(x, a))
  PROVE  /\ AlignUp(x, a) \in Nat
         /\ x <= AlignUp(x, a) /\ AlignUp(x, a) < x + a
<1> DEFINE q == (x + a - 1) \div a
<1>1. q \in Nat /\ q * a <= x + a - 1 /\ x <= q * a
  <2>1. (x + a - 1) = q * a + ((x + a - 1) % a) /\ (x + a - 1) % a \in 0 .. a - 1
    BY SMT
  <2>. QED
    BY <2>1, SMT
<1>2. AlignUp(x, a) = q * a
  BY DEF NoWrap, AlignRaw, AlignUp
<1>. QED
  BY <1>1, <1>2

(* A fresh TaskSyscallState has no params and its cursor at scratch_ptr.  *)
LEMMA NewStateType ==
  ASSUME NEW b \in Int
  PROVE  /\ NewSyscallState(b) \in StateType
         /\ ScratchLaidOut(NewSyscallState(b).params, b, NewSyscallState(b).scratch)
BY DEF NewSyscallState, StateType, ScratchLaidOut

(* Appending a param whose scratch area starts at the cursor and ends     *)
(* before the new cursor keeps the layout.                                 *)
LEMMA AppendLaidOut ==
  ASSUME NEW ps \in Seq(ParamType), NEW base \in Int, NEW cur \in Int,
         NEW c2 \in Int, ScratchLaidOut(ps, base, cur),
         NEW p \in ParamType, cur <= c2,
         HasScratch(p) => /\ p.scratch = cur /\ 0 <= p.size.max
                          /\ cur + p.size.max <= c2
  PROVE  ScratchLaidOut(Append(ps, p), base, c2)
<1> DEFINE ps2 == Append(ps, p)
<1>1. ps2 \in Seq(ParamType) /\ Len(ps2) = Len(ps) + 1
      /\ \A i \in 1 .. Len(ps) : ps2[i] = ps[i]
      /\ ps2[Len(ps) + 1] = p
  OBVIOUS
<1>2. base <= c2
  BY DEF ScratchLaidOut
<1>3. ASSUME NEW i \in 1 .. Len(ps2), HasScratch(ps2[i])
      PROVE  /\ 0 <= ps2[i].size.max
             /\ base <= ps2[i].scratch
             /\ ps2[i].scratch + ps2[i].size.max <= c2
  <2>1. CASE i \in 1 .. Len(ps)
    <3>1. ps2[i] = ps[i] /\ HasScratch(ps[i]) /\ ps[i] \in ParamType
      BY <2>1, <1>3, <1>1
    <3>2. /\ 0 <= ps[i].size.max /\ base <= ps[i].scratch
          /\ ps[i].scratch + ps[i].size.max <= cur
      BY <2>1, <3>1 DEF ScratchLaidOut
    <3>3. ps[i].scratch \in Int /\ ps[i].size.max \in Int
      BY <3>1 DEF ParamType, SizeType
    <3>4. ps[i].scratch + ps[i].size.max <= c2
      BY <3>2, <3>3
    <3>. QED
      BY <3>1, <3>2, <3>4
  <2>2. CASE i = Len(ps) + 1
    <3>1. ps2[i] = p /\ HasScratch(p)
      BY <2>2, <1>3, <1>1
    <3>. QED
      BY <3>1 DEF ScratchLaidOut
  <2>. QED
    BY <2>1, <2>2, <1>1
<1>4. ASSUME NEW i \in 1 .. Len(ps2), NEW j \in 1 .. Len(ps2), i < j,
             HasScratch(ps2[i]), HasScratch(ps2[j])
      PROVE  ps2[i].scratch + ps2[i].size.max <= ps2[j].scratch
  <2>1. CASE j \in 1 .. Len(ps)
    <3>1. i \in 1 .. Len(ps) /\ ps2[i] = ps[i] /\ ps2[j] = ps[j]
      BY <2>1, <1>4, <1>1
    <3>. QED
      BY <2>1, <3>1, <1>4 DEF ScratchLaidOut
  <2>2. CASE j = Len(ps) + 1
    <3>1. HasScratch(p) /\ ps2[j] = p /\ i \in 1 .. Len(ps) /\ ps2[i] = ps[i]
          /\ ps[i] \in ParamType
      BY <2>2, <1>4, <1>1
    <3>2. ps[i].scratch + ps[i].size.max <= cur
      BY <3>1, <1>4 DEF ScratchLaidOut
    <3>. QED
      BY <3>1, <3>2 DEF ParamType, SizeType
  <2>. QED
    BY <2>1, <2>2, <1>1
<1>. QED
  BY <1>2, <1>3, <1>4 DEF ScratchLaidOut

(* reg_parameter and mem_ptr_parameter give a param the scratch area at  *)
(* the cursor and bump the cursor past it, aligned: when the uintptr_t     *)
(* arithmetic does not wrap, the areas stay in order and disjoint.         *)
THEOREM AddParamLaidOut ==
  ASSUME NEW st \in StateType, NEW base \in Nat,
         ScratchLaidOut(st.params, base, st.scratch),
         NEW dest \in Int, NEW size \in SizeType, size.max \in Nat,
         NEW mode \in ArgModes, NEW reg \in Int, NEW slot \in Int,
         NEW align \in Nat \ {0},
         NoWrap(st.scratch + size.max),
         NoWrap(AlignRaw(st.scratch + size.max, align))
  PROVE  LET s2 == AddParam(st, dest, size, mode, reg, slot, align)
         IN  /\ s2 \in StateType
             /\ ScratchLaidOut(s2.params, base, s2.scratch)
             /\ st.scratch <= s2.scratch
<1> DEFINE scr == mode # ARG_IN_OUT_NO_SCRATCH
           p == [dest |-> dest, scratch |-> IF scr THEN st.scratch ELSE 0,
                 size |-> size, mode |-> mode,
                 ptrInReg |-> IF scr THEN reg ELSE 0,
                 ptrInMemory |-> IF scr THEN slot ELSE 0]
           c2 == IF scr THEN AlignUp(UnsignedOf(st.scratch + size.max, UINTPTR_SIZE), align)
                 ELSE st.scratch
           s2 == AddParam(st, dest, size, mode, reg, slot, align)
<1>0. st = [params |-> st.params, scratch |-> st.scratch,
            preparationDone |-> st.preparationDone,
            scratchEnabled |-> st.scratchEnabled,
            switchable |-> st.switchable, expectErrno |-> st.expectErrno]
  BY DEF StateType
<1>8. s2 = [st EXCEPT !.params = Append(st.params, p), !.scratch = c2]
  BY DEF AddParam
<1>1. /\ s2.params = Append(st.params, p)
      /\ s2.scratch = c2
      /\ s2 = [params |-> Append(st.params, p), scratch |-> c2,
               preparationDone |-> st.preparationDone,
               scratchEnabled |-> st.scratchEnabled,
               switchable |-> st.switchable, expectErrno |-> st.expectErrno]
  BY <1>0, <1>8
<1>2. base <= st.scratch /\ st.scratch \in Int
  BY DEF ScratchLaidOut, StateType
<1>3. c2 \in Int /\ st.scratch <= c2 /\ (scr => st.scratch + size.max <= c2)
  <2>1. CASE scr
    <3>1. UnsignedOf(st.scratch + size.max, UINTPTR_SIZE) = st.scratch + size.max
      BY DEF NoWrap
    <3>2. st.scratch + size.max \in Nat
      BY <1>2
    <3>3. /\ AlignUp(st.scratch + size.max, align) \in Nat
          /\ st.scratch + size.max <= AlignUp(st.scratch + size.max, align)
      BY <3>2, AlignUpBounds
    <3>. QED
      BY <2>1, <3>1, <3>3, <1>2
  <2>2. CASE ~scr
    BY <2>2, <1>2
  <2>. QED
    BY <2>1, <2>2
<1>4. p \in ParamType
  BY <1>2 DEF ParamType, ArgModes
<1>5. HasScratch(p) => /\ p.scratch = st.scratch /\ 0 <= p.size.max
                       /\ st.scratch + p.size.max <= c2
  BY <1>3 DEF HasScratch
<1>6. ScratchLaidOut(Append(st.params, p), base, c2)
  BY <1>2, <1>3, <1>4, <1>5, AppendLaidOut DEF StateType
<1>7. Append(st.params, p) \in Seq(ParamType)
  BY <1>4 DEF StateType
<1>. QED
  BY <1>1, <1>3, <1>6, <1>7 DEF StateType

(* A layout within a cursor is within any later cursor.                   *)
LEMMA LaidOutWiden ==
  ASSUME NEW ps \in Seq(ParamType), NEW base \in Int, NEW cur \in Int,
         NEW c2 \in Int, ScratchLaidOut(ps, base, cur), cur <= c2
  PROVE  ScratchLaidOut(ps, base, c2)
<1>1. ASSUME NEW i \in 1 .. Len(ps), HasScratch(ps[i])
      PROVE  ps[i].scratch + ps[i].size.max <= c2
  <2>0. ps[i] \in ParamType
    OBVIOUS
  <2>1. ps[i].scratch \in Int /\ ps[i].size.max \in Int
    BY <2>0 DEF ParamType, SizeType
  <2>2. ps[i].scratch + ps[i].size.max <= cur
    BY <1>1 DEF ScratchLaidOut
  <2>. QED
    BY <2>1, <2>2
<1>. QED
  BY <1>1 DEF ScratchLaidOut

(* done_preparing's relocation of sizes' mem_ptr leaves every param's     *)
(* destination, scratch area and mode as they were.                       *)
LEMMA RelocatedSizesKeepAreas ==
  ASSUME NEW ps \in Seq(ParamType)
  PROVE  LET ps2 == [i \in 1 .. Len(ps) |->
                       IF ps[i].size.memPtr = 0 THEN ps[i]
                       ELSE [ps[i] EXCEPT !.size.memPtr =
                               RelocatePointerToScratch(ps, @)]]
         IN  /\ DOMAIN ps2 = 1 .. Len(ps)
             /\ \A i \in 1 .. Len(ps) :
                  /\ ps2[i].dest = ps[i].dest
                  /\ ps2[i].scratch = ps[i].scratch
                  /\ ps2[i].size.max = ps[i].size.max
                  /\ ps2[i].mode = ps[i].mode
<1> DEFINE ps2 == [i \in 1 .. Len(ps) |->
                     IF ps[i].size.memPtr = 0 THEN ps[i]
                     ELSE [ps[i] EXCEPT !.size.memPtr =
                             RelocatePointerToScratch(ps, @)]]
<1>1. ASSUME NEW i \in 1 .. Len(ps)
      PROVE  /\ ps2[i].dest = ps[i].dest
             /\ ps2[i].scratch = ps[i].scratch
             /\ ps2[i].size.max = ps[i].size.max
             /\ ps2[i].mode = ps[i].mode
  <2>1. ps[i] \in ParamType
    OBVIOUS
  <2>2. CASE ps[i].size.memPtr = 0
    BY <2>2
  <2>3. CASE ps[i].size.memPtr # 0
    <3> DEFINE q == ps[i]
               q2 == [q EXCEPT !.size.memPtr = RelocatePointerToScratch(ps, @)]
    <3>1. ps2[i] = q2
      BY <2>3
    <3>2. q = [dest |-> q.dest, scratch |-> q.scratch,
               size |-> [max |-> q.size.max, memPtr |-> q.size.memPtr,
                         readSize |-> q.size.readSize,
                         fromSyscall |-> q.size.fromSyscall],
               mode |-> q.mode, ptrInReg |-> q.ptrInReg,
               ptrInMemory |-> q.ptrInMemory]
      BY <2>1 DEF ParamType, SizeType
    <3>4. q2 = [q EXCEPT !.size = [q.size EXCEPT !.memPtr =
                                      RelocatePointerToScratch(ps, q.size.memPtr)]]
      OBVIOUS
    <3>5. q2.dest = q.dest
      BY <3>2, <3>4, Zenon
    <3>6. q2.scratch = q.scratch
      BY <3>2, <3>4, Zenon
    <3>7. q2.mode = q.mode
      BY <3>2, <3>4, Zenon
    <3>9. q2.size = [q.size EXCEPT !.memPtr = RelocatePointerToScratch(ps, q.size.memPtr)]
      BY <3>2, <3>4, Zenon
    <3>10. q.size = [max |-> q.size.max, memPtr |-> q.size.memPtr,
                     readSize |-> q.size.readSize, fromSyscall |-> q.size.fromSyscall]
      BY <2>1 DEF ParamType, SizeType
    <3>8. q2.size.max = q.size.max
      BY <3>9, <3>10, Zenon
    <3>3. q2.dest = q.dest /\ q2.scratch = q.scratch /\ q2.size.max = q.size.max
          /\ q2.mode = q.mode
      BY <3>5, <3>6, <3>7, <3>8
    <3>. QED
      BY <3>1, <3>3
  <2>. QED
    BY <2>2, <2>3
<1>. QED
  BY <1>1

(* done_preparing only moves a syscall to scratch when its scratch fits: *)
(* on a state not yet prepared whose params were laid out from base      *)
(* (scratch_ptr), if it enables scratch then every scratch area lies      *)
(* within [base, base + cap] (scratch_size), disjoint from the others,     *)
(* and the params keep their areas.  It is the ALLOW_SWITCH test           *)
(* scratch_num_bytes > scratch_size that gives this; the cursor distance  *)
(* must be read back as the ssize_t it is.                                 *)
THEOREM DonePreparingConfinesScratch ==
  ASSUME NEW st \in StateType, NEW base \in Int,
         ScratchLaidOut(st.params, base, st.scratch),
         st.preparationDone = FALSE, st.scratchEnabled = FALSE,
         NEW sw \in {ALLOW_SWITCH, PREVENT_SWITCH}, NEW m, NEW r, NEW cap \in Int,
         SignedOf(st.scratch - base, UINTPTR_SIZE) = st.scratch - base
  PROVE  LET dp == DonePreparing(st, sw, m, r, base, cap)
         IN  dp.st.scratchEnabled = TRUE =>
               /\ ScratchLaidOut(st.params, base, base + cap)
               /\ DOMAIN dp.st.params = 1 .. Len(st.params)
               /\ \A i \in 1 .. Len(st.params) :
                    /\ dp.st.params[i].dest = st.params[i].dest
                    /\ dp.st.params[i].scratch = st.params[i].scratch
                    /\ dp.st.params[i].size.max = st.params[i].size.max
                    /\ dp.st.params[i].mode = st.params[i].mode
<1> DEFINE n == SignedOf(st.scratch - base, UINTPTR_SIZE)
           swc == IF sw = ALLOW_SWITCH /\ ~ScratchFits(n, cap) THEN PREVENT_SWITCH ELSE sw
           ps == st.params
           st1 == [st EXCEPT !.preparationDone = TRUE, !.switchable = swc]
           ps2 == [i \in 1 .. Len(ps) |->
                     IF ps[i].size.memPtr = 0 THEN ps[i]
                     ELSE [ps[i] EXCEPT !.size.memPtr =
                             RelocatePointerToScratch(ps, @)]]
           dp == DonePreparing(st, sw, m, r, base, cap)
<1>0. st = [params |-> st.params, scratch |-> st.scratch,
            preparationDone |-> st.preparationDone,
            scratchEnabled |-> st.scratchEnabled,
            switchable |-> st.switchable, expectErrno |-> st.expectErrno]
  BY DEF StateType
<1>1. st1.scratchEnabled = FALSE
  BY <1>0, Zenon
<1>2. dp.st = IF swc = PREVENT_SWITCH \/ ps = <<>> THEN st1
              ELSE [st1 EXCEPT !.scratchEnabled = TRUE, !.params = ps2]
  BY DEF DonePreparing
<1> SUFFICES ASSUME dp.st.scratchEnabled = TRUE
             PROVE  /\ ScratchLaidOut(ps, base, base + cap)
                    /\ DOMAIN dp.st.params = 1 .. Len(ps)
                    /\ \A i \in 1 .. Len(ps) :
                         /\ dp.st.params[i].dest = ps[i].dest
                         /\ dp.st.params[i].scratch = ps[i].scratch
                         /\ dp.st.params[i].size.max = ps[i].size.max
                         /\ dp.st.params[i].mode = ps[i].mode
  OBVIOUS
<1>3. swc # PREVENT_SWITCH /\ ps # <<>>
  BY <1>1, <1>2
<1>4. dp.st.params = ps2
  <2>1. dp.st = [st1 EXCEPT !.scratchEnabled = TRUE, !.params = ps2]
    BY <1>2, <1>3
  <2>2. "params" \in DOMAIN st
    BY DEF StateType
  <2>3. "params" \in DOMAIN st1
    BY <2>2
  <2>4. "params" \in DOMAIN [st1 EXCEPT !.scratchEnabled = TRUE]
    BY <2>3
  <2>5. dp.st = [[st1 EXCEPT !.scratchEnabled = TRUE] EXCEPT !.params = ps2]
    BY <2>1
  <2>. QED
    BY <2>4, <2>5, Zenon
<1>5. n <= cap
  <2>0. ALLOW_SWITCH # PREVENT_SWITCH
    BY DEF ALLOW_SWITCH, PREVENT_SWITCH
  <2>1. sw = ALLOW_SWITCH => ScratchFits(n, cap)
    BY <1>3, <2>0, Zenon
  <2>2. sw = ALLOW_SWITCH
    BY <1>3, <2>0, Zenon
  <2>. QED
    BY <2>1, <2>2 DEF ScratchFits
<1>6. st.scratch \in Int /\ st.scratch <= base + cap
  BY <1>5 DEF StateType
<1>7. ScratchLaidOut(ps, base, base + cap)
  BY <1>6, LaidOutWiden DEF StateType
<1>. QED
  BY <1>4, <1>7, RelocatedSizesKeepAreas DEF StateType

(* The fields of a param that the layout arithmetic reads are integers. *)
LEMMA ParamFields ==
  ASSUME NEW p \in ParamType
  PROVE  /\ p.dest \in Int /\ p.scratch \in Int /\ p.size.max \in Int
         /\ p.size.memPtr \in Int /\ p.ptrInReg \in Int /\ p.ptrInMemory \in Int
BY DEF ParamType, SizeType

(* The last of a single param is that param.                              *)
LEMMA LastOfSingleton ==
  ASSUME NEW i \in Int
  PROVE  LastOf({i}) = i
BY DEF LastOf

(* The IN and IN_OUT modes have a scratch area.                           *)
LEMMA InputsHaveScratch ==
  ASSUME NEW p, p.mode \in {ARG_IN, ARG_IN_OUT}
  PROVE  HasScratch(p)
BY DEF HasScratch, ARG_IN, ARG_IN_OUT, ARG_IN_OUT_NO_SCRATCH

(* Step 1 of done_preparing: when the scratch areas are laid out, every   *)
(* cell of the scratch area of an IN or IN_OUT param holds, after the     *)
(* remote_memcpy, the matching cell of the param's registered buffer.     *)
THEOREM CopyToScratchCopiesInputs ==
  ASSUME NEW ps \in Seq(ParamType), NEW base \in Int, NEW cur \in Int,
         ScratchLaidOut(ps, base, cur), NEW m, NEW i \in 1 .. Len(ps),
         ps[i].mode \in {ARG_IN, ARG_IN_OUT},
         NEW k \in 0 .. ps[i].size.max - 1,
         ps[i].scratch + k \in DOMAIN m
  PROVE  CopyToScratch(ps, m)[ps[i].scratch + k] = m[ps[i].dest + k]
<1> DEFINE a == ps[i].scratch + k
           src == {j \in 1 .. Len(ps) :
                     /\ ps[j].mode \in {ARG_IN, ARG_IN_OUT}
                     /\ ps[j].scratch <= a
                     /\ a < ps[j].scratch + ps[j].size.max}
<1>1. ps[i] \in ParamType
  OBVIOUS
<1>0. ps[i].scratch \in Int /\ ps[i].size.max \in Int /\ ps[i].dest \in Int
  BY <1>1, ParamFields
<1>2. src = {i}
  <2>1. i \in src
    BY <1>0
  <2>2. ASSUME NEW j \in src PROVE j = i
    <3>1. ps[j] \in ParamType
      OBVIOUS
    <3>2. ps[j].scratch \in Int /\ ps[j].size.max \in Int
      BY <3>1, ParamFields
    <3>3. HasScratch(ps[i]) /\ HasScratch(ps[j])
      BY InputsHaveScratch
    <3>4. j < i => ps[j].scratch + ps[j].size.max <= ps[i].scratch
      BY <3>3 DEF ScratchLaidOut
    <3>5. i < j => ps[i].scratch + ps[i].size.max <= ps[j].scratch
      BY <3>3 DEF ScratchLaidOut
    <3>. QED
      BY <1>0, <3>2, <3>4, <3>5
  <2>. QED
    BY <2>1, <2>2
<1>3. CopyToScratch(ps, m)[a] =
        IF src = {} THEN m[a] ELSE m[ps[LastOf(src)].dest + (a - ps[LastOf(src)].scratch)]
  BY DEF CopyToScratch
<1>4. LastOf(src) = i
  BY <1>2, LastOfSingleton
<1>5. CopyToScratch(ps, m)[a] = m[ps[i].dest + (a - ps[i].scratch)]
  BY <1>2, <1>3, <1>4
<1>6. ps[i].dest + (a - ps[i].scratch) = ps[i].dest + k
  BY <1>0
<1>. QED
  BY <1>5, <1>6

(* A cell outside the scratch areas of the IN and IN_OUT params is left   *)
(* alone by the copy.                                                      *)
LEMMA CopyToScratchElsewhere ==
  ASSUME NEW ps, NEW m, NEW a \in DOMAIN m,
         \A j \in 1 .. Len(ps) : ps[j].mode \in {ARG_IN, ARG_IN_OUT} =>
            ~(ps[j].scratch <= a /\ a < ps[j].scratch + ps[j].size.max)
  PROVE  CopyToScratch(ps, m)[a] = m[a]
BY DEF CopyToScratch

(* relocate_pointer_to_scratch: when exactly one param holds ptr (the     *)
(* condition its two asserts check), the pointer is moved to the same      *)
(* offset inside that param's scratch area.                                 *)
LEMMA RelocateIntoScratch ==
  ASSUME NEW ps \in Seq(ParamType), NEW ptr \in Int, NEW i \in 1 .. Len(ps),
         Holders(ps, ptr) = {i}
  PROVE  /\ RelocatePointerToScratch(ps, ptr) = ps[i].scratch + (ptr - ps[i].dest)
         /\ ps[i].scratch <= RelocatePointerToScratch(ps, ptr)
         /\ RelocatePointerToScratch(ps, ptr) < ps[i].scratch + ps[i].size.max
<1>1. ps[i] \in ParamType
  OBVIOUS
<1>2. i \in Holders(ps, ptr)
  OBVIOUS
<1>3. ps[i].dest <= ptr /\ ptr < ps[i].dest + ps[i].size.max
  BY <1>2 DEF Holders
<1>4. RelocatePointerToScratch(ps, ptr) = ps[i].scratch + (ptr - ps[i].dest)
  <2>1. LastOf(Holders(ps, ptr)) = i
    BY LastOfSingleton
  <2>. QED
    BY <2>1 DEF RelocatePointerToScratch, LastOf
<1>5. ps[i].scratch \in Int /\ ps[i].size.max \in Int /\ ps[i].dest \in Int
  BY <1>1, ParamFields
<1>. QED
  BY <1>3, <1>4, <1>5

(* The registered buffers do not overlap.                                  *)
DestsDisjoint(ps) ==
  \A i, j \in 1 .. Len(ps) :
    i # j => \/ ps[i].dest + ps[i].size.max <= ps[j].dest
             \/ ps[j].dest + ps[j].size.max <= ps[i].dest

(* When the registered buffers do not overlap, the asserts of             *)
(* relocate_pointer_to_scratch hold for every pointer into one of them.   *)
LEMMA DisjointDestsRelocateOk ==
  ASSUME NEW ps \in Seq(ParamType), DestsDisjoint(ps),
         NEW ptr \in Int, NEW i \in 1 .. Len(ps),
         ps[i].dest <= ptr, ptr < ps[i].dest + ps[i].size.max
  PROVE  RelocateOk(ps, ptr)
<1>1. Holders(ps, ptr) = {i}
  <2>1. ASSUME NEW j \in Holders(ps, ptr) PROVE j = i
    <3>1. j \in 1 .. Len(ps) /\ ps[j].dest <= ptr /\ ptr < ps[j].dest + ps[j].size.max
      BY DEF Holders
    <3>2. ps[i].dest \in Int /\ ps[i].size.max \in Int
          /\ ps[j].dest \in Int /\ ps[j].size.max \in Int
      BY <3>1, ParamFields
    <3>3. i # j => \/ ps[i].dest + ps[i].size.max <= ps[j].dest
                   \/ ps[j].dest + ps[j].size.max <= ps[i].dest
      BY <3>1 DEF DestsDisjoint
    <3>. QED
      BY <3>1, <3>2, <3>3
  <2>. QED
    BY <2>1 DEF Holders
<1>. QED
  BY <1>1 DEF RelocateOk

(* No two params were registered from the same argument register.         *)
DistinctRegs(ps) ==
  \A i, j \in 1 .. Len(ps) :
    ps[i].ptrInReg # 0 /\ ps[i].ptrInReg = ps[j].ptrInReg => i = j

(* Every param registered from an argument register has that register's  *)
(* value as its destination (what reg_parameter records).                 *)
RegDestsMatch(ps, r) ==
  \A i \in 1 .. Len(ps) : ps[i].ptrInReg # 0 => ps[i].dest = r[ps[i].ptrInReg]

(* reg_parameter records r[arg] as the destination of a param registered  *)
(* from register arg, so registering keeps destinations and registers in *)
(* agreement.                                                               *)
LEMMA RegParameterMatches ==
  ASSUME NEW st \in StateType, NEW r \in [0 .. 6 -> Int], NEW arg \in 1 .. 6,
         NEW size \in SizeType, NEW mode \in ArgModes, NEW align,
         RegDestsMatch(st.params, r)
  PROVE  RegDestsMatch(RegParameter(st, r, arg, size, mode, align).params, r)
<1> DEFINE ps == st.params
           scr == mode # ARG_IN_OUT_NO_SCRATCH
           p == [dest |-> r[arg], scratch |-> IF scr THEN st.scratch ELSE 0,
                 size |-> size, mode |-> mode,
                 ptrInReg |-> IF scr THEN arg ELSE 0,
                 ptrInMemory |-> 0]
<1>0. st = [params |-> st.params, scratch |-> st.scratch,
            preparationDone |-> st.preparationDone,
            scratchEnabled |-> st.scratchEnabled,
            switchable |-> st.switchable, expectErrno |-> st.expectErrno]
  BY DEF StateType
<1>1. CASE st.preparationDone \/ r[arg] = 0
  BY <1>1 DEF RegParameter
<1>2. CASE ~(st.preparationDone \/ r[arg] = 0)
  <2>1. RegParameter(st, r, arg, size, mode, align).params = Append(ps, p)
    <3>1. RegParameter(st, r, arg, size, mode, align) = AddParam(st, r[arg], size, mode, arg, 0, align)
      BY <1>2 DEF RegParameter
    <3>2. "params" \in DOMAIN st /\ "scratch" \in DOMAIN st
      BY DEF StateType
    <3>. QED
      BY <3>1, <3>2 DEF AddParam
  <2>2. ps \in Seq(ParamType)
    BY DEF StateType
  <2>3. ASSUME NEW i \in 1 .. Len(Append(ps, p)), Append(ps, p)[i].ptrInReg # 0
        PROVE  Append(ps, p)[i].dest = r[Append(ps, p)[i].ptrInReg]
    <3>1. CASE i \in 1 .. Len(ps)
      BY <2>2, <2>3, <3>1 DEF RegDestsMatch
    <3>2. CASE i = Len(ps) + 1
      <4>1. Append(ps, p)[i] = p
        BY <2>2, <3>2
      <4>2. p.ptrInReg = arg
        BY <2>3, <4>1
      <4>3. p.dest = r[arg]
        OBVIOUS
      <4>. QED
        BY <4>1, <4>2, <4>3, Zenon
    <3>. QED
      BY <2>2, <3>1, <3>2
  <2>. QED
    BY <2>1, <2>3 DEF RegDestsMatch
<1>. QED
  BY <1>1, <1>2

(* Registers across one syscall with scratch: done_preparing points the   *)
(* argument registers at scratch, the kernel writes the result register,   *)
(* and process_syscall_results points them back at the destinations.  The *)
(* task ends with its own argument registers and the kernel's result.      *)
THEOREM RegsRoundTrip ==
  ASSUME NEW ps \in Seq(ParamType), NEW r, 0 \in DOMAIN r, NEW v,
         DistinctRegs(ps), RegDestsMatch(ps, r)
  PROVE  SetPtrRegs(ps, [SetPtrRegs(ps, r, "scratch") EXCEPT ![0] = v], "dest")
           = [r EXCEPT ![0] = v]
<1> DEFINE r1 == [SetPtrRegs(ps, r, "scratch") EXCEPT ![0] = v]
           s(k) == {i \in 1 .. Len(ps) : ps[i].ptrInReg = k /\ k # 0}
<1>0. DOMAIN SetPtrRegs(ps, r, "scratch") = DOMAIN r
  BY DEF SetPtrRegs
<1>1. DOMAIN r1 = DOMAIN r
  BY <1>0
<1>2. ASSUME NEW k \in DOMAIN r
      PROVE  SetPtrRegs(ps, r1, "dest")[k] = [r EXCEPT ![0] = v][k]
  <2>1. SetPtrRegs(ps, r1, "dest")[k] = IF s(k) = {} THEN r1[k] ELSE ps[LastOf(s(k))].dest
    BY <1>1 DEF SetPtrRegs
  <2>2. CASE s(k) = {} /\ k = 0
    BY <1>0, <2>1, <2>2
  <2>3. CASE s(k) = {} /\ k # 0
    <3>1. r1[k] = SetPtrRegs(ps, r, "scratch")[k]
      BY <2>3
    <3>2. SetPtrRegs(ps, r, "scratch")[k] = r[k]
      BY <2>3 DEF SetPtrRegs
    <3>. QED
      BY <2>1, <2>3, <3>1, <3>2
  <2>4. CASE s(k) # {}
    <3>1. PICK i \in s(k) : TRUE
      BY <2>4
    <3>2. s(k) = {i}
      BY <3>1 DEF DistinctRegs
    <3>3. LastOf(s(k)) = i
      BY <3>2, LastOfSingleton
    <3>4. ps[i].dest = r[k] /\ k # 0
      BY <3>1 DEF RegDestsMatch
    <3>. QED
      BY <2>1, <2>4, <3>3, <3>4
  <2>. QED
    BY <2>2, <2>3, <2>4
<1>. QED
  BY <1>1, <1>2 DEF SetPtrRegs
====
