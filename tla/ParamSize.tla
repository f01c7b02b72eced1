----------------------------- MODULE ParamSize -----------------------------
(***************************************************************************)
(* The ParamSize value type of src/src/record_syscall.cc: how many bytes  *)
(* of a syscall memory parameter to record.  A static max_size, known     *)
(* before the syscall (it sizes the scratch allocation), optionally       *)
(* clamped after the syscall by a dynamic size read from tracee memory    *)
(* (mem_ptr) or from the syscall result register (from_syscall).          *)
(*                                                                         *)
(* Sizes are counted in model cells; a cell stands for one field of a     *)
(* structure.  Unsigned conversions keep their width: a read of           *)
(* read_size bytes keeps the value modulo 2^(read_size * ByteBits), where *)
(* ByteBits is the width of a byte in the model (8 in the real program,   *)
(* smaller in TLC runs so that the word arithmetic stays in TLC's range). *)
(***************************************************************************)
EXTENDS Integers, Sequences, FiniteSetsExt

CONSTANT ByteBits

ASSUME ByteBitsAssumption == ByteBits \in Nat \ {0}

(* size_t(-1): the "no static bound" value of max_size.                    *)
SizeMax == 2^(8 * ByteBits) - 1

(* The two read sizes the code supports (sizeof(uint32_t), sizeof(uint64_t)). *)
ReadSizes == {4, 8}

(* read_size is left uninitialized by the plain constructor; it is only   *)
(* read when mem_ptr or from_syscall is set, so 0 stands for "unset".      *)
ParamSizeOf(max) ==
  [max |-> max, memPtr |-> 0, readSize |-> 0, fromSyscall |-> FALSE]

(* ParamSize::from_initialized_mem: max_size is the value now at p.       *)
FromInitializedMem(m, p, rs) ==
  [max |-> IF p = 0 THEN 0 ELSE m[p], memPtr |-> p,
   readSize |-> rs, fromSyscall |-> FALSE]

(* ParamSize::from_mem.                                                    *)
FromMem(p, rs) ==
  [max |-> SizeMax, memPtr |-> p, readSize |-> rs, fromSyscall |-> FALSE]

(* ParamSize::from_syscall_result.                                         *)
FromSyscallResult(rs, max) ==
  [max |-> max, memPtr |-> 0, readSize |-> rs, fromSyscall |-> TRUE]

(* ParamSize::limit_size.                                                  *)
LimitSize(ps, max) ==
  [ps EXCEPT !.max = IF @ < max THEN @ ELSE max]

(* ParamSize::is_same_source.                                              *)
IsSameSource(ps, other) ==
  /\ \/ ps.memPtr # 0 /\ other.memPtr = ps.memPtr
     \/ ps.fromSyscall /\ other.fromSyscall
  /\ ps.readSize = other.readSize

(* Reinterpret a word as an unsigned integer of rs bytes.                  *)
UnsignedOf(v, rs) == v % (2^(rs * ByteBits))

MinOf(a, b) == IF a < b THEN a ELSE b

(* The dynamic sizes eval reads: *mem_ptr and the result register.        *)
MemSize(ps, m) == UnsignedOf(m[ps.memPtr], ps.readSize)
SyscallSize(ps, result) == UnsignedOf(result, ps.readSize)

(* A mutant of Eval: the bytes consumed by earlier params are ignored.   *)
EvalIgnoringConsumed(ps, consumed, m, result) ==
  LET s1 == IF ps.memPtr # 0 THEN MinOf(ps.max, MemSize(ps, m)) ELSE ps.max
  IN  IF ps.fromSyscall THEN MinOf(s1, SyscallSize(ps, result)) ELSE s1

(* ParamSize::eval: the size to record once the syscall has run,           *)
(* 'consumed' bytes of the dynamic source being taken by earlier params.  *)
Eval(ps, consumed, m, result) ==
  LET s1 == IF ps.memPtr # 0
              THEN MinOf(ps.max, MemSize(ps, m) - consumed)
              ELSE ps.max
  IN  IF ps.fromSyscall
        THEN MinOf(s1, SyscallSize(ps, result) - consumed)
        ELSE s1

(* The ASSERTs of ParamSize::eval: read_size is 4 or 8, 'consumed' never  *)
(* exceeds a dynamic source, and the result is bounded.                    *)
EvalOk(ps, consumed, m, result) ==
  /\ (ps.memPtr # 0 \/ ps.fromSyscall) => ps.readSize \in ReadSizes
  /\ ps.memPtr # 0 => consumed <= MemSize(ps, m)
  /\ ps.fromSyscall => consumed <= SyscallSize(ps, result)
  /\ Eval(ps, consumed, m, result) < SizeMax

(* The bytes already consumed from param i's source by params 1..i-1,     *)
(* given their sizes: the loop of TaskSyscallState::eval_param_size.       *)
Consumed(sizes, i) ==
  MapThenSumSet(LAMBDA j : sizes[j][2],
    {j \in 1 .. i - 1 : IsSameSource(sizes[j][1], sizes[i][1])})

(* eval_param_size applied to params 1..Len(pss) in order: the actual     *)
(* sizes, each param taking its share of a source shared with earlier     *)
(* params.  Returns the sequence of sizes and whether every eval's ASSERTs *)
(* held.                                                                   *)
EvalParamSizes(pss, m, result) ==
  LET step[i \in 0 .. Len(pss)] ==
        IF i = 0 THEN <<>>
        ELSE LET prev == step[i - 1]
                 pairs == [j \in 1 .. i |->
                             <<pss[j], IF j < i THEN prev[j][1] ELSE 0>>]
                 c == Consumed(pairs, i)
             IN  Append(prev, <<Eval(pss[i], c, m, result),
                                EvalOk(pss[i], c, m, result)>>)
  IN  step[Len(pss)]

(* The actual sizes alone, and whether all the evals' ASSERTs held.        *)
ActualSizes(pss, m, result) ==
  LET e == EvalParamSizes(pss, m, result)
  IN  [i \in 1 .. Len(pss) |-> e[i][1]]

SizesOk(pss, m, result) ==
  LET e == EvalParamSizes(pss, m, result)
  IN  \A i \in 1 .. Len(pss) : e[i][2]

=============================================================================
