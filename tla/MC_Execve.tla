------------------------------ MODULE MC_Execve ------------------------------
(* Small instances of Execve for TLC: one task making two execve calls,   *)
(* re-entered at most once, into images with at most one environment      *)
(* string; MC_Execve.cfg on an i386 build that rejects 64-bit images,     *)
(* MC_Execve_x64.cfg on an x86-64 build tracing a 64-bit task.            *)
EXTENDS Execve
====
