------------------------------- MODULE MCCpu -------------------------------
(***************************************************************************)
(* What a CPU does for tasks, for TLC: the scheduler picks and hands over  *)
(* tasks (RunQueue), and traps and switches save and load their registers  *)
(* (Context).  `part` says which of the two a behaviour is about; the      *)
(* variables of the other do not change.                                   *)
(***************************************************************************)
EXTENDS RunQueue, TLC

CONSTANTS d1, d2, u1, u2,   \* the CPUs and the user threads of Context
          Archs, NoStack

VARIABLES part, arch, load, cpu, ctx, top, uctx, st, mine, space

ContextCpus == {d1, d2}

(* What the user programs of one behaviour do.                             *)
Loads == {{"step", "fault", "fork"},
          {"float", "fork", "execve"},
          {"step", "settls", "vm", "exit"},
          {"arch_prctl", "fork"},
          {"thread", "execve", "exit"}}

X == INSTANCE Context WITH Cpus <- ContextCpus, Users <- {u1, u2}, First <- u1

contextVars == <<arch, load, cpu, ctx, top, uctx, st, mine, space>>

MCInit ==
  /\ Init
  /\ X!Init
  /\ \/ part = "scheduler" /\ arch = "x86_64" /\ load = {"arch_prctl", "fork"}
     \/ part = "context"

(* Programs may end; the scheduler must never stop.                        *)
MCNext ==
  /\ UNCHANGED part
  /\ \/ part = "scheduler" /\ Next /\ UNCHANGED contextVars
     \/ part = "context" /\ X!Next /\ UNCHANGED vars
     \/ part = "context" /\ UNCHANGED <<vars, contextVars>>

MCSpec == MCInit /\ [][MCNext]_<<part, vars, contextVars>>

(* Tasks other than main are interchangeable, and so are Context's CPUs.   *)
Symmetry == Permutations(Tasks \ {Main}) \cup Permutations(ContextCpus)

(* A program finds its own registers whenever it runs, floating-point ones *)
(* included, and the kernel its stack and the data of this CPU, whatever   *)
(* traps, switches, clones and moves came in between.                      *)
RegistersOwn == X!UserOwn /\ X!FloatOwn /\ X!KernelOwn

(* With CLONE_VM "The calling process and the child process run in the     *)
(* same memory space" (clone.rs:21-23).                                    *)
SameSpace == X!SameSpace
=============================================================================
