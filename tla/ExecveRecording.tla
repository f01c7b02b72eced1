-------------------------- MODULE ExecveRecording --------------------------
(* What the recorder promises for a task's execve calls (spec 4.8 and the *)
(* exec_saved_event field of TaskSyscallState): the task asks for an exec *)
(* of some name and argv; when the call returns, the trace has gained     *)
(* nothing if the exec failed, and the event with exactly that name and   *)
(* argv followed by the record of the new image's AT_RANDOM bytes if it   *)
(* succeeded.  An exec of an empty name never succeeds.  Entry traps,     *)
(* re-entries, the arg1 clobber and the stack walk are invisible here.    *)
EXTENDS Sequences

CONSTANTS
  NoReq,         \* no exec in progress
  RandomBytes    \* the record of the 16 bytes AT_RANDOM points to

VARIABLES
  phase,   \* "user" or "exec"
  req,     \* the name and argv of the exec in progress
  trace    \* what the recorder has written

vars == <<phase, req, trace>>

Init == phase = "user" /\ req = NoReq /\ trace = <<>>

(* The task calls execve with some name and argv.                         *)
Call ==
  /\ phase = "user" /\ phase' = "exec"
  /\ UNCHANGED trace

(* The exec fails: nothing is written.                                     *)
Fail ==
  /\ phase = "exec" /\ phase' = "user"
  /\ req' = NoReq
  /\ UNCHANGED trace

(* The exec succeeds: its event, then the random bytes, are written.       *)
Succeed ==
  /\ phase = "exec" /\ req.file # <<>> /\ phase' = "user"
  /\ req' = NoReq
  /\ trace' = trace \o <<req, RandomBytes>>

Next == Call \/ Fail \/ Succeed

Spec == Init /\ [][Next]_vars
============================================================================
