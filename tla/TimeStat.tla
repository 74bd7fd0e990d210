------------------------------ MODULE TimeStat ------------------------------
(***************************************************************************)
(* The time statistics of a thread (core/src/time.rs and the functions of  *)
(* core/src/task.rs that call it).  handle_syscall switches the statistics *)
(* into kernel mode when it begins and into user mode when it ends; execve *)
(* goes to user mode without the second.  No system call sets an interval  *)
(* timer, so timer_type stays NONE.                                        *)
(*                                                                         *)
(* since and real record when a thread entered its mode and the time it    *)
(* has really spent in user mode and in system calls that returned.        *)
(***************************************************************************)
EXTENDS Naturals

CONSTANTS Threads, MaxTime   \* bound on the clock

VARIABLES now,    \* monotonic_time_nanos
          mode,   \* mode[t]: "none", "user" or "kernel"
          stat,   \* stat[t]: TimeStat
          since, real

timeVars == <<now, mode, stat, since, real>>

new == [utime_ns |-> 0, stime_ns |-> 0, user_timestamp |-> 0, kernel_timestamp |-> 0]

TimeInit ==
  /\ now = 0
  /\ mode = [t \in Threads |-> "none"]
  /\ stat = [t \in Threads |-> new]
  /\ since = [t \in Threads |-> 0]
  /\ real = [t \in Threads |-> [user |-> 0, kernel |-> 0]]

(* Faulty variant: the timestamp is left alone.                            *)
switch_into_kernel_modeNoStamp(s, ts) ==
  [s EXCEPT !.utime_ns = @ + (ts - s.kernel_timestamp)]

switch_into_kernel_mode(s, ts) ==
  [s EXCEPT !.utime_ns = @ + (ts - s.kernel_timestamp), !.kernel_timestamp = ts]

switch_into_user_mode(s, ts) ==
  [s EXCEPT !.stime_ns = @ + (ts - s.kernel_timestamp), !.user_timestamp = ts]

Tick ==
  /\ now < MaxTime
  /\ now' = now + 1
  /\ UNCHANGED <<mode, stat, since, real>>

(* A new thread enters user space with TimeStat::new.                      *)
Start(t) ==
  /\ mode[t] = "none"
  /\ mode' = [mode EXCEPT ![t] = "user"]
  /\ since' = [since EXCEPT ![t] = now]
  /\ UNCHANGED <<now, stat, real>>

time_stat_from_user_to_kernel(t) ==
  /\ mode[t] = "user"
  /\ mode' = [mode EXCEPT ![t] = "kernel"]
  /\ stat' = [stat EXCEPT ![t] = switch_into_kernel_mode(@, now)]
  /\ since' = [since EXCEPT ![t] = now]
  /\ real' = [real EXCEPT ![t].user = @ + (now - since[t])]
  /\ UNCHANGED now

time_stat_from_kernel_to_user(t) ==
  /\ mode[t] = "kernel"
  /\ mode' = [mode EXCEPT ![t] = "user"]
  /\ stat' = [stat EXCEPT ![t] = switch_into_user_mode(@, now)]
  /\ since' = [since EXCEPT ![t] = now]
  /\ real' = [real EXCEPT ![t].kernel = @ + (now - since[t])]
  /\ UNCHANGED now

Execve(t) ==
  /\ mode[t] = "kernel"
  /\ mode' = [mode EXCEPT ![t] = "user"]
  /\ since' = [since EXCEPT ![t] = now]
  /\ UNCHANGED <<now, stat, real>>

TimeNext ==
  \/ Tick
  \/ \E t \in Threads : \/ Start(t) \/ Execve(t)
                        \/ time_stat_from_user_to_kernel(t) \/ time_stat_from_kernel_to_user(t)

(* The time sys_times reports for kernel mode is that of the thread's      *)
(* system calls that have returned, each from its entry to its end,        *)
(* whatever was executed or slept through in between.                      *)
KernelTime == \A t \in Threads : stat[t].stime_ns = real[t].kernel

(* What struct Tms says of tms_utime: the time executed in user mode, as   *)
(* sys_times, which runs in kernel mode, reports it.                       *)
UserTime == \A t \in Threads : mode[t] = "kernel" => stat[t].utime_ns = real[t].user
=============================================================================
