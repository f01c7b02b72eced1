# TLA+ models of rr's syscall recording core

This directory holds TLA+ models of `src/src/record_syscall.cc`, the part of
the rr record-and-replay tracer that prepares each tracee syscall for
recording and finalizes it afterwards. It contains TLC configurations that
model-check small instances and TLAPS proofs of invariants for all instances.

## The system

When a tracee thread (a *task*) enters a syscall, the tracer runs
`rec_prepare_syscall_arch`:

1. The case for the syscall registers every memory parameter with the task's
   `TaskSyscallState`. It calls `reg_parameter` when the buffer's address is
   in a register and `mem_ptr_parameter` when the address is stored in
   another buffer (an iovec, a msghdr field).
2. Each parameter gets a `ParamSize`: a static `max_size` plus an optional
   dynamic size read after the syscall from memory or the result register.
3. Each parameter also gets an `ArgMode` (IN, OUT, IN_OUT,
   IN_OUT_NO_SCRATCH) and a slice of the task's private *scratch* region.
   The slices come from a bump cursor aligned by `align_scratch`.
4. The case ends with `done_preparing(sw)`.
   - If the syscall may block (`ALLOW_SWITCH`) and its slices fit in
     `scratch_size`, the inputs are copied to scratch, and every pointer is
     redirected there: registers, pointers stored in the scratch copies of
     other parameters, and the `mem_ptr` of sizes. The kernel then works on
     scratch while other tasks run.
   - If the syscall does not fit, it is degraded to `PREVENT_SWITCH`.
   - With `PREVENT_SWITCH`, scratch is not used and no other task runs until
     the syscall exits.

At the syscall exit, `rec_process_syscall_arch` calls
`process_syscall_results`:

1. Each parameter's actual size is evaluated. `ParamSize::eval` and
   `eval_param_size` split a shared source, such as a syscall result over
   several iovecs, prefix-greedily.
2. OUT and IN_OUT results are written back from a snapshot of scratch.
3. Registers and stored pointers are restored.
4. The outputs are recorded into the trace. They are taken from tracee memory
   if a stored pointer was restored (`memory_cleaned_up`), and from the
   snapshot otherwise. Without scratch, every parameter is recorded from its
   destination.
5. Finally the state is discarded.

## Modules

| Module | Models | State and operations |
|---|---|---|
| `ParamSize` | `struct ParamSize`, `ParamSize::eval`, `eval_param_size` | A record `[max, memPtr, readSize, fromSyscall]`. Unsigned reads keep their width (`UnsignedOf`, modulo `2^(read_size*ByteBits)`). The asserts of `eval` are in `EvalOk`. The loop over earlier params is the recursive function in `EvalParamSizes`. |
| `TaskSyscallState` | `struct TaskSyscallState` and its methods | A record `[params, scratch, preparationDone, scratchEnabled, switchable, expectErrno]`. Memory is a function from addresses to cells (0 is null). Registers are a function from 0..6, where 0 is the result. Each method is an operator returning the new record, memory and registers, plus whether the code's asserts held. A loop whose iterations may write the same cell is written as a simultaneous update in which the last iteration wins (`LastOf`). The scratch cursor is a `uintptr_t` (`AlignUp` wraps modulo `2^(8*ByteBits)`), and `done_preparing` reads its distance from `scratch_ptr` as an `ssize_t` (`SignedOf`). |
| `TaskSyscallStateProofs` | | The TLAPS proofs about the scratch layout, the copy to scratch, pointer relocation and the register round trip. |
| `RecordSyscall` | `rec_prepare_syscall(_arch)` for ten syscalls, `prepare_recvmsg`, `prepare_socketcall`, `rec_process_syscall_arch` (its `expect_errno` check and its cases), `rec_prepare_restart_syscall`, per-task scratch from `init_scratch_memory` | The system: `NTasks` tasks sharing one memory, each with its own scratch region. Actions: `Setup` (task code writes a syscall's arguments), `Enter` (the entry trap: the syscall's preparer then `done_preparing`), `Reenter` (the tracer meets the entry of a syscall it has already prepared, as for a resumed syscall, and runs `rec_prepare_syscall` again on the state still there; at most `MaxReentries` times), `Kernel` (the kernel runs the syscall; with `PipeReads`, a read takes its data from a pipe the tasks write to and waits while it is empty), `ExitExpectErrno` (the exit trap of a syscall prepared with `expect_errno`: the errno assert, then removal of the state), `Exit` (the exit trap of any other syscall: its case, `process_syscall_results` for these syscalls, then removal of the state at line 2207), `Interrupt` (a signal interrupts a blocked syscall, which the kernel returns with -ERESTARTSYS, or -ERESTART_RESTARTBLOCK after writing `rem` for nanosleep; at most `MaxRestarts` times), `Restart` (the exit trap of such a syscall: `rec_prepare_restart_syscall`), `UserWrite` (another task writes a buffer of an in-flight syscall), `Finished`. |
| `MC_RecordSyscall` | | The constants of the TLC runs. |
| `RecordSyscallProofs` | | The TLAPS proofs. |
| `Execve` | the `execve` case of `rec_prepare_syscall_arch`, `exec_file_supported`, `process_execve`, `elf_auxv_ordering` | One task's execve. Memory is a function from word addresses to words, with two file-name buffers, an argv array, one argument string and the new image's stack. Actions: `Setup` (the task's code writes a name and argv and traps), `Enter` (the preparer saves the entry registers if none are saved, reads the name and argv into a pending event, and on an i386 build asked for a 64-bit image moves arg1 to the name's NUL), `Reenter` (the same preparer again: it never calls `done_preparing`), `Kernel` (ENOENT on an empty name, another failure, or success: memory replaced by a stack laid out as Linux lays it out, registers zeroed but `sp`), `Exit` (`process_execve`, then the state is removed), `Finished`. Ghost variables: `passed`, the arg1 the code passed, and `expected`, the event and AT_RANDOM range of each exec that happened. |
| `ExecveRecording` | spec 4.8 | The abstract promise for a task's execve calls: `Call`, then `Fail` (nothing written) or `Succeed` (the event with the requested name and argv, then the AT_RANDOM record; never for an empty name). `Execve` refines it. |
| `MC_Execve` | | The constants of the execve runs. |
| `ExecveProofs` | | The TLAPS proofs of `Arg1Restored`, `ExecTraced`, `TypeOK` and the refinement of `ExecveRecording`. |

The modelled syscalls, each with the registration of its case:

| Syscall | Registration | Switchability |
|---|---|---|
| `read` | reg 2, sized by the result, at most `count` | ALLOW |
| `readv` | the iovec array (IN) and each iovec's buffer, limited to its `iov_len` and sharing the result | ALLOW |
| `accept` | `addrlen` (IN_OUT), then `addr` sized by `*addrlen` | ALLOW |
| `getsockname` | same as `accept` | PREVENT |
| `recvmsg` | the msghdr (IN_OUT) and `prepare_recvmsg`: name sized by `msg_namelen`, the iovec array, the iovec buffers, control sized by `msg_controllen` | ALLOW, or PREVENT with `MSG_DONTWAIT` |
| `futex` | FUTEX_WAIT: the word, IN_OUT_NO_SCRATCH | ALLOW |
| `nanosleep` | `rem` (reg 2, OUT); at the exit it is written back and recorded only if the result is not 0 | ALLOW |
| `epoll_wait` | the events array (reg 2, OUT), `sizeof(epoll_event) * maxevents` taken as a `size_t`, not bounded by the result | ALLOW |
| `write` | nothing; the case returns before `done_preparing` | PREVENT to rr's stdout or stderr (fds 1 and 2, `is_stdio_fd`), ALLOW otherwise |
| `socketcall` | the argument block `a[]` (reg 2, IN), then each sub-call's buffers through the pointers stored in the block (`prepare_socketcall`) | per sub-call, see below |

`socketcall` multiplexes the socket calls through one argument block. Its
buffers are `mem_ptr_parameter`s whose pointers sit inside an IN param, so
`done_preparing` patches them in the scratch copy of the block. For RECVMSG,
which holds a msghdr holding an iovec holding the data, this happens at three
levels. The model issues these sub-calls:

- SEND, which registers nothing and keeps the tracer;
- GETSOCKOPT and GETSOCKNAME: a length IN_OUT and a buffer sized by it, PREVENT;
- SOCKETPAIR: `sv`, PREVENT;
- RECV: a buffer sized by the result, ALLOW;
- ACCEPT: as for GETSOCKNAME, but ALLOW;
- RECVFROM: a buffer and an address with its length, ALLOW;
- RECVMSG: with or without a name, with or without MSG_DONTWAIT;
- SENDMSG: registers nothing, ALLOW unless MSG_DONTWAIT;
- call number 0: the preparer sets `expect_errno = EINVAL`. At the exit,
  `rec_process_syscall_arch` asserts that the kernel failed the call with
  EINVAL, records nothing and discards the state (`ProcessSyscall`).

RECVMMSG and SENDMMSG are not issued (their `prepare_recvmmsg` is not
modelled).

The tracee program and the kernel are the environment; they are not code of
this repository.

- **`Layout`** places each syscall's structures in the task's user region,
  with the choices of `SetupChoices`: counts, lengths, null pointers and
  flags.
- **`KernelEffect`** is the Linux behaviour. `read` and `readv` spread up to
  `n` bytes over the buffers. `accept` and `getsockname` follow
  `move_addr_to_user`: they copy at most `*addrlen` bytes and store the full
  length. `recvmsg` writes the data, the name and its length, and sets
  `msg_controllen` to 0. A FUTEX_WAIT returns EAGAIN when the word differs.
  A `nanosleep` either completes (result 0, nothing written) or is
  interrupted by a signal (-EINTR, `rem` written). The kernel step may always
  choose the interruption, whatever `KernelMayFail` says. `socketcall`
  applies the matching call to the argument block, and returns EINVAL for
  call number 0. `write` returns its count. With `PipeReads`, fd 3 is the
  read end of a pipe and fd 4 its write end (`pipe` counts the bytes in it).
- **`Scheduled` / `Holding`** model the scheduler, which is not in this
  source. This part is marked spec_modelled. A task inside a syscall for which
  `rec_prepare_syscall` returned PREVENT_SWITCH (`SwitchableOf`: the value
  `done_preparing` decided, or the one `write` returns itself) keeps the
  tracer until its exit, and tasks in ALLOW_SWITCH syscalls
  let the others run. The kernel step of any task may happen at any time.

Three ghost variables give the properties something to compare against:

- `native` is the tracee memory without the tracer. The kernel works on the
  original buffers, and the writes of a syscall that used scratch become
  visible when rr would write them back, at its exit.
- `nregs` holds the registers without the tracer.
- `replay` is what a replayer rebuilds: the tracee's own writes, then the
  trace records applied in order.

## Runs

**`multitask_record`** (`MC_RecordSyscall.cfg`, expected to pass, about 177,000 distinct states, one minute)

- Instance: two tasks, one syscall each from eight of the nine syscalls (not `epoll_wait`, whose write-back breaks `Transparency`; see `epoll_partial`) (13 socketcall
  variants among them), one concurrent
  write by the other task, up to two bytes per transfer, and peer addresses
  of length 1 or 2.
- `ScratchCap = 14` cells, so every layout fits except socketcall's RECVMSG
  with a name buffer (16 cells after alignment). That one is degraded to
  PREVENT_SWITCH, so both paths of `done_preparing` run. Its variant without
  a name fills scratch exactly, and the three levels of relocation run.
- `Align = 2` makes the alignment padding matter for odd-sized parameters.
- `ByteBits = 2` keeps unsigned casts in TLC's integer range while keeping
  the 4-byte and 8-byte read widths distinct.

Properties checked:

- `TypeOK`: type correctness.
- `Transparency` (spec §8.2 and the tracee's view in §5): user memory always
  equals `native`, and a task running its own code has its native registers.
  This covers the scratch redirection, the write-back sizes, the same-source
  distribution, and the restoring of registers and pointers.
- `ReplayFaithful` (spec §8.3): once every syscall that wrote straight to
  user memory has been finalized, replaying the trace rebuilds user memory.
- `NoInternalError`: no assert of `relocate_pointer_to_scratch`,
  `done_preparing` or `eval` fails.
- `KernelSeesEntryArgs` (an action property, spec §8.1): at its kernel step,
  a syscall reads the same counts, lengths, futex word and futex address as
  the native call.

Each property has a mutant of the code it is about that TLC catches. The
mutants are listed in `PROJECT.json`:

- keeping the syscall event
- ignoring `already_consumed`
- never setting `memory_cleaned_up`
- an inclusive buffer end in the relocation lookup
- skipping the copy to scratch

**`syscall_sequence`** (`MC_RecordSyscall_sequence.cfg`, expected to pass, about 1,900 distinct states)

- Instance: one task issues two syscalls in turn, each a `read` or a
  socketcall (every variant, including call number 0), in the same scratch
  area.
- Why one task: the question here is what one syscall leaves behind for
  the next. Two tasks with two syscalls each are beyond five minutes of TLC.
- Call number 0 leaves through the expect_errno path of
  `rec_process_syscall_arch` (`ExitExpectErrno`). The others leave through
  their case and the removal after the switch (`Exit`, line 2207). Each
  path removes the syscall state itself.
- Properties: `Transparency` and `NoInternalError`.
- What they show: the second syscall is prepared afresh, and its scratch is
  rewritten before use, so nothing the first syscall left in scratch reaches
  the tracee.
- Mutant `ExitKeepsState` (`Exit` forgets the removal): the second read is
  not prepared. Its kernel writes the buffer directly, and the exit writes
  back the first read's stale scratch over it, which breaks `Transparency`.
- Mutant `ExitExpectErrnoKeepingState` (the expect_errno path forgets it):
  the next syscall inherits `expect_errno`, and the tracer's assert fails
  at its exit, which breaks `NoInternalError`.

**`failed_read_writeback`** (`MC_RecordSyscall_fail.cfg`, expected violation)

One task issues a `read` that may fail with EAGAIN, and TLC finds
`Transparency` violated:

1. The kernel writes nothing and returns -11.
2. `eval` takes the result as an unsigned 64-bit size, so
   `min(count, 2^64-11) = count`.
3. `process_syscall_results` writes `count` bytes of scratch back over the
   caller's buffer.
4. The buffer's old contents are replaced by whatever scratch held from
   before.

The code comment at line 1688 accepts recording failed syscalls "as if it
succeeded". The spec, however, promises that tracee-visible errors are
preserved transparently (§7a), and admits spurious records only for EFAULT
(§9). This is the finding in `PROJECT.json`.

**`readv_reentry`** (`MC_RecordSyscall_readv_reentry.cfg`, expected violation)

One task issues `readv` and is re-entered. On re-entry, `reg_parameter`
returns a null pointer, and the preparer passes it to
`t->read_mem(iovecsp, iovcnt)` (line 1377). That read of address 0 fails,
so re-entry is not a no-op. The same applies to `prepare_recvmsg`
(lines 532-537) and to socketcall's RECV, RECVFROM and RECVMSG. The model
records the failed read as a tracer error (`ReadsOk`). This is the second
finding in `PROJECT.json`.

**`restart`** (`MC_RecordSyscall_restart.cfg`, expected to pass, about 43,000 distinct states)

- Instance: two tasks issue `nanosleep`, a futex wait or `getsockname`.
- Up to two interruptions: a blocked syscall (nanosleep, futex) is
  interrupted by a signal, and the tracer calls `rec_prepare_restart_syscall`
  at its exit trap.
- The hook finalizes nanosleep with `process_syscall_results()`, so the
  remaining time the kernel stored in scratch reaches `rem` and the trace.
  It then removes the state, and the restarted syscall goes through `Enter`
  again. A re-entry may happen before the interruption.
- Properties: `Transparency`, and `Idempotence` (spec line 46 and §8.5).
  `Idempotence` says that a re-entry changes neither the task's syscall
  state, its registers nor memory, and that no assert fails. It holds
  because `init`, `reg_parameter` and `done_preparing` return early once
  `preparation_done` is set.
- These three syscalls are among those `ReentryIdempotent` proves the
  property for. The proof covers every such family, so this run is its
  check on a small instance.
- Mutants: a hook that skips nanosleep's finalization breaks
  `Transparency`. `RegParameterIgnoringDone`, which drops the early return
  of `reg_parameter`, breaks `Idempotence`.

The dispatch that calls the hook when the result is -ERESTART* lives in the
caller, outside this file. It is modelled from the spec (`RestartPending`).

**`restart_read`** (`MC_RecordSyscall_restart_read.cfg`, expected violation)

A `read` whose buffer register `done_preparing` moved to scratch is
interrupted. The hook removes the state without calling
`process_syscall_results`, the only code that restores registers. The task
is therefore left at its restart point with the scratch address in its
buffer register, and `Transparency` fails. The spec says only that the hook
discards the state (§5). Whoever restores the registers before the restart is
outside this file, so this is recorded as a spec gap in `PROJECT.json`.

**`epoll_partial`** (`MC_RecordSyscall_epoll_partial.cfg`, expected violation)

One task issues `epoll_wait` with `maxevents` 1 or 2, and TLC finds
`Transparency` violated:

1. The kernel reports fewer ready events than `maxevents` (0 on a timeout).
2. The events array was registered with the fixed size
   `sizeof(epoll_event) * maxevents` and no bound from the result.
3. `process_syscall_results` writes the whole array back from scratch.
4. The entries past the returned count are overwritten with stale scratch,
   although the kernel never wrote them.

This is a finding in `PROJECT.json`.

**`epoll_negative`** (`MC_RecordSyscall_epoll_negative.cfg`, expected violation)

With `NegativeCounts = TRUE`, the task may pass `maxevents = -1`, and TLC
finds `NoInternalError` violated:

1. The product `sizeof(epoll_event) * maxevents` is a `size_t` near `2^64`.
2. `reg_parameter` adds it to the scratch cursor, which wraps to below
   `scratch_ptr`.
3. `ASSERT(scratch_num_bytes >= 0)` in `done_preparing` (line 471) aborts
   the recording.

The kernel would have returned EINVAL. The spec keeps aborts for internal
bugs (§7c) and preserves tracee-visible errors (§7a), so this is a finding
too.

**`msghdr_revert`** (`MC_RecordSyscall_msghdr_revert.cfg`, expected violation)

Two tasks issue `recvmsg`. With `StructWrites = TRUE`, the other task's code
may also write `msg_control` of a blocked call's msghdr. That field is null,
so the kernel neither follows nor sets it. TLC finds `Transparency` violated:

1. The msghdr is registered IN_OUT with its full size, so `done_preparing`
   copies it to scratch.
2. The other task sets `msg_control` while the call is blocked.
3. At the exit, `process_syscall_results` (line 1705) writes the whole
   msghdr back from scratch.
4. `msg_control` returns to its value at entry, although the kernel never
   wrote it.

Spec §5 says the tracee's view of its argument buffers is undisturbed while
the kernel works on scratch, so this is a finding in `PROJECT.json`. The
same write-back applies to every IN_OUT structure, such as socketcall's
argument block and pollfd arrays.

**`pipe_progress`** (`MC_RecordSyscall_pipe.cfg`, expected to pass, about 600 distinct states)

- Instance: two tasks, each issuing one `read` (count 1 or 2) or one
  `write` (to the pipe, count 1 or 2, or to stdout). Reads wait while the
  pipe is empty (`PipeReads = TRUE`).
- `ScratchCap = 2` and `Align = 2`: every read's buffer fills the scratch
  area exactly, so `done_preparing`'s `scratch_num_bytes > scratch_size`
  test (line 472) is at its boundary.
- Specification `FairSpec`: `Spec` with weak fairness of each task's own
  steps (`TaskStep`: its code's next `Setup`, the tracer's `Enter`, `Exit`
  and `Restart` for it, and the kernel completing it). The scheduler of the
  record session keeps running every task that no PREVENT_SWITCH syscall
  holds off. The kernel completes a syscall that can complete, a read as
  soon as the pipe has data. Nothing is assumed of re-entries, interruptions
  or other tasks' writes.
- Property `Termination`: eventually every task has issued its syscalls or
  waits on the empty pipe with every other unfinished task. Those are the
  only states where the tasks would stop without rr. Deadlock checking is
  off for this run because such states do stop.
- Mutant: the off-by-one `n >= cap` (`ScratchFitsStrict`) degrades the
  exactly fitting read to PREVENT_SWITCH. The reader then blocks holding the
  tracer, the writer never runs, and TLC reports the stall.

With `ScratchCap = 1` the same run stalls with the code as written. A read
that does not fit is degraded and blocks holding the tracer. This is the
deadlock the warning at line 477 and spec §7 acknowledge, so it is not a
finding.

**`execve_i386`** (`MC_Execve.cfg`, expected to pass, 6,469 distinct states)

- Instance: an i386 build (`Build32`, `Arch = "x86"`), two execve calls,
  each with a name of 0 to 2 characters in either buffer, 0 to 2 arguments
  and a 32- or 64-bit image; one re-entry; new images with 0 or 1
  environment strings. This reaches a re-entry after the clobber, a second
  execve after a failed one, and walks over stacks with and without argv
  and envp entries.
- `TypeOK` includes that outside an execve there are no saved entry
  registers and no pending event. Mutant: `Exit` without the removal of the
  state (`ExitKeepsState`).
- `Arg1Restored`: a failed execve hands back the pointer the code passed.
  Mutant: the entry registers saved on every pass (`PrepareExecveSavingAlways`,
  as the clone case does). A re-entry then saves the clobbered arg1, and
  the exit "restores" it. `ExitKeepsState` breaks it too: the next
  execve's save-once guard keeps the previous call's registers.
- `ExecTraced`: the trace is the event and the AT_RANDOM range of exactly
  the execs the kernel carried out, and no assertion fires. Mutant: the
  walk skips `argc` pointers without the NULL after them
  (`ExecveStackWalkArgcOff`), which trips the auxv ASSERT.
- `RecordingSpec`: `Execve` implements `ExecveRecording` under the mapping
  `Recording` (its phase is "exec" from the trap to the exit; its request is
  the name at the pointer the code passed and the argv array while memory
  holds them, then the pending event). Unlike `ExecTraced`, it ties the
  written event to what the task's code asked for, not to what the kernel
  read. Mutant: the event written on a failed exec as well
  (`ProcessExecveEventAlways`).

**`execve_x64`** (`MC_Execve_x64.cfg`, expected to pass, 3,211 distinct
states): an x86-64 build tracing a 64-bit task, `ExecTraced` only. It checks
the X64 ordering of the auxv keys against the kernel's layout. Mutant: the
x86 table for both architectures (`AuxvKeysX86`).

The kernel's layout (`KernelAuxvKeys`, `NewImage`) is the environment. It
follows Linux's `create_elf_tables` for the keys before `AT_RANDOM`, which
are all that the walk reads. A kernel that inserts another key there would
abort every exec's recording at the ASSERT; the model does not include one.

## Proofs

`RecordSyscallProofs` proves two theorems for every value of the constants
(`NTasks >= 1`, the bounds in `Nat`, `Families` a subset of the ten):

- `TypeCorrect`: `Spec => []TypeOK`.
- `ReentryIdempotent`: `Spec => Idempotence` when `Families` contains only
  `read`, `accept`, `getsockname`, futex, `nanosleep` and `epoll_wait`.

The first follows from the inductive invariant `IInv`, which is `TypeOK`
plus three facts. The first is `StateDiscarded`: a task in its own code has
a fresh syscall state, because both exit paths and the restart hook remove
it. The other two are: a task inside a syscall has one set up, and a
task with a syscall set up has issued fewer than `MaxSyscalls`. The second
fact is what keeps `nsys` within its bound at `Exit`. The proof of
`IInv /\ [Next]_vars => IInv'` has one step per action. It rests on lemmas
saying that `Apply`, `ApplyRecords`, `done_preparing` and
`process_syscall_results` keep the domains of memory and registers.

`ReentryIdempotent` strengthens `IInv` with `PreparedInv`: every task
inside a syscall has `preparation_done` set. `Enter` establishes it, because
`done_preparing` sets the flag and the preparers keep the record's fields.
The lemma `DirectPreparer` then shows, case by case, that with the flag set
these six preparers return the state unchanged: their `reg_parameter` calls
return early. `DonePreparingPrepared` shows the same for `done_preparing`,
and `DirectReadsOk` shows that these preparers read no memory through a
returned pointer. Together they give `ReenterNoop`, and the action property
follows from `[]IInvPrepared`. The theorem does not hold for `readv`,
`recvmsg` or `socketcall`, as the `readv_reentry` run shows.

`ExecveProofs` proves `Arg1RestoredInvariant`: `Spec => []Arg1Restored`
for every architecture, build and bound. `Arg1Restored` is not inductive as
it stands, since the exit restores arg1 from the saved entry registers. The
inductive invariant `IInv` adds three facts:

- inside an execve, the saved registers hold the pointer passed;
- at the entry trap and in the task's code, no registers are saved, so the
  save-once guard takes the current ones;
- at the entry trap, arg1 is still the pointer passed.

Lemmas show that the preparer saves the registers only when none are, and
that `process_execve` keeps the result register and restores arg1 of a
failed exec.

`ExecveProofs` also proves `ExecTracedInvariant` (`Spec => []ExecTraced`)
and `TypeCorrect` (`Spec => []TypeOK`) for every architecture, build and
bound. Both follow from the inductive invariant `TInv`, which TLC checks on
both execve runs. It is `TypeOK /\ IInv` plus what each phase of an execve
must have in memory, registers and trace:

- before the kernel runs, memory holds the name and argv the task's code
  wrote (`Layout`), arg2 points at the argv array, and the trace is complete;
- in the kernel, a supported exec's pending event is exactly the name and
  argv the kernel reads, and a rejected exec's arg1 points at a NUL;
- after a failed exec the trace is complete; after a successful one memory
  is a new image with at most two arguments, arg1 is 0, `sp` is the stack,
  and the trace lacks exactly the event and the AT_RANDOM range;
- inside an execve, fewer than `MaxExecs` calls are done.

The proof has one lemma per action. Its core is `WalkNewImage`: the walk of
`process_execve` over any new image with at most two arguments and at most
`MaxEnv` environment strings finds the argv NULL, the auxv keys in the
expected order and AT_RANDOM with the random bytes' address. So the walk's
assertions never fire and the exit writes what the trace lacked. Lemmas
about the scans (`FirstZeroIs`, `CStrLen`, `NulCStr`, `NameScan`,
`ArgvScan`) give the strings the preparer and the kernel read. A rejected
exec's name is empty once arg1 points at its NUL, so only a supported exec
can succeed, and its event is the one the kernel ran.

`RecordingRefinement` proves `Spec => RecordingSpec`. The initial state
maps to the abstract one, and under `TInv` every step maps to an abstract
step or a stutter (`RecordingStep`). `Setup` is `Call`. `Enter`, `Reenter`
and `Kernel` stutter: the request stays the name and argv in memory, and
after a successful exec the pending event equals it, because a supported
exec keeps arg1 at the pointer passed. `Exit` is `Fail` or `Succeed`, by
the trace facts of `TInv`. For this, `TInv` also says that a supported exec
in the kernel still has arg1 equal to the pointer passed, and that a
successful exec's event has a non-empty name.

The string scan `FirstZero` is a bounded `CHOOSE` of the first stopping
word, not a recursive operator. The provers reason about it through its
uniqueness (`FirstZeroIs`) without induction. The kernel's auxv keys are
spelled out per architecture, so the walk lemma can compare them with
`elf_auxv_ordering` key by key.

`TaskSyscallStateProofs` proves facts about the methods of
`TaskSyscallState` for every memory, register file and `ByteBits`. These are
operator results rather than invariants of a run. They state what the
model's `Transparency` and `ReplayFaithful` rely on from one syscall's
scratch handling:

- `AddParamLaidOut`: `reg_parameter` and `mem_ptr_parameter` keep the scratch
  areas in order and disjoint, between `scratch_ptr` and the cursor
  (`ScratchLaidOut`). The argument is that the new area starts at the old
  cursor and that `align_scratch` moves the cursor up by less than the
  alignment (`AlignUpBounds`).
- `DonePreparingConfinesScratch`: `done_preparing` enables scratch only when
  every area lies inside `[scratch_ptr, scratch_ptr + scratch_size)`.
  Relocating the sizes' `mem_ptr` keeps every param's buffer, area and mode.
- `CopyToScratchCopiesInputs`: once the areas are laid out, each cell of an
  IN or IN_OUT param's area holds the matching cell of the tracee's buffer.
  Disjointness leaves exactly one source per cell, so the "last iteration
  wins" rule of the copy never matters. `CopyToScratchElsewhere` says the
  copy changes no other cell.
- `RelocateIntoScratch` and `DisjointDestsRelocateOk`:
  `relocate_pointer_to_scratch` moves a pointer held by exactly one buffer to
  the same offset inside that buffer's area. When the registered buffers do
  not overlap, its asserts hold.
- `RegsRoundTrip`: two `SetPtrRegs` calls bracket the kernel's write of the
  result register. The first points the registers at scratch and the second
  points them back. This restores the argument registers exactly, provided
  that:
  - every param's destination is its register's value, which is what
    `reg_parameter` records (`RegParameterMatches`);
  - no register holds two params.

The provers cannot evaluate `2^(8*ByteBits)`. So the `uintptr_t` and
`ssize_t` conversions enter these lemmas as hypotheses that the computation
does not wrap (`NoWrap`, and `SignedOf(...) = ...` for the scratch size).
These hypotheses are what the code assumes of a scratch buffer inside the
address space. Where several params could claim the same register or the
same cell, "the last one" (`LastOf`) is the maximum of a finite set. Proving
that it exists needs induction, which is out of reach. So the lemmas assume
the uniqueness that makes this set a singleton. The runs check the general
case.

Only TLC checks the following:

- **The values in `RecordSyscall`'s memory and registers.** `TypeOK` constrains their shape,
  not the cell values. Proving that every read stays inside the modelled
  address space would need invariants about where the buffers sit, which are
  planned.
- **`Transparency`, `ReplayFaithful`, `NoInternalError` and
  `KernelSeesEntryArgs`.** They depend on what the recursive loops compute
  (iovec registration, eval distribution). Induction over such loops is out
  of reach of the installed provers, because the induction theorems take an
  operator parameter.
- **Liveness.** `Termination` under `Fairness` is checked by TLC only. Its
  proof would need `ENABLED` and fairness reasoning, which are out of the
  prover's reach.

## What is not modelled

- The other syscall cases: ioctl, ipc, clone, mmap, sched_setaffinity, and
  socketcall's RECVMMSG and SENDMMSG.
- The desched and rejected-syscall (`syscallno < 0`) paths of
  `rec_process_syscall_arch`. No modelled syscall goes through the
  syscallbuf or is rejected, so these paths cannot be reached. Each of them
  removes the syscall state, as the two modelled paths do.
- Of execve: `t->pre_exec` and `t->post_exec_syscall` (address-space
  bookkeeping outside this file), the `init_scratch_memory` call after it,
  an exec that changes the task's architecture, and other tasks. While the
  preparer holds PREVENT_SWITCH, no other task runs, so none can change the
  name between the preparer's read and the kernel's.
- Blocking other than reads on the pipe: futex waits, nanosleep and accept
  complete at any moment. A write to stdout never blocks, so the deadlock the
  `write` comment mentions, with an external reader of rr's output, is not
  modelled.
- The desched and syscallbuf path.
- `record_page_below_stack_ptr`.

`PROJECT.json` lists them with what each needs. Every hazard listed there
now has a property that a run checks.
