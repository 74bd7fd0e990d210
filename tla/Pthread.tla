------------------------------- MODULE Pthread -------------------------------
(***************************************************************************)
(* POSIX threads of the C library (arceos_posix_api, imp/pthread/mod.rs).  *)
(* A thread leaves its result in a packet that it shares with its Pthread; *)
(* TID_TO_PTHREAD finds the Pthread of the current task.  That a thread is *)
(* joined by more than one is left to the program, which must not do it.   *)
(***************************************************************************)
EXTENDS Naturals

CONSTANTS Threads, Main, NoThread, Results

VARIABLES at,      \* at[t]: where thread t is
          map,     \* TID_TO_PTHREAD
          boxed,   \* the threads whose Pthread has not been freed
          packet,  \* packet[t]: the result of t
          arg,     \* arg[t]: the thread t is creating or joining
          got,     \* got[t]: what the last join of t returned
          result,  \* result[t]: what t returned or gave to pthread_exit
          panicked

ptVars == <<at, map, boxed, packet, arg, got, result, panicked>>

Null == "null"

PtInit ==
  /\ at = [t \in Threads |-> IF t = Main THEN "run" ELSE "none"]
  /\ map = {Main}
  /\ boxed = {Main}
  /\ packet = [t \in Threads |-> Null]
  /\ arg = [t \in Threads |-> NoThread]
  /\ got = [t \in Threads |-> [of |-> NoThread, value |-> Null]]
  /\ result = [t \in Threads |-> Null]
  /\ panicked = FALSE

(* Pthread::create: the task is spawned, and may run, before the Pthread   *)
(* is made and inserted.                                                   *)
create(t) ==
  /\ at[t] = "run"
  /\ \E n \in Threads :
       /\ at[n] = "none"
       /\ at' = [at EXCEPT ![t] = "insert", ![n] = "run"]
       /\ arg' = [arg EXCEPT ![t] = n]
  /\ UNCHANGED <<map, boxed, packet, got, result, panicked>>

Insert(t) ==
  /\ at[t] = "insert"
  /\ at' = [at EXCEPT ![t] = "run"]
  /\ map' = map \cup {arg[t]}
  /\ boxed' = boxed \cup {arg[t]}
  /\ arg' = [arg EXCEPT ![t] = NoThread]
  /\ UNCHANGED <<packet, got, result, panicked>>

(* The start routine returns: the closure writes the packet, and the task  *)
(* exits.                                                                  *)
Finish(t) ==
  /\ at[t] = "run" /\ t # Main
  /\ \E v \in Results :
       /\ packet' = [packet EXCEPT ![t] = v]
       /\ result' = [result EXCEPT ![t] = v]
  /\ at' = [at EXCEPT ![t] = "exited"]
  /\ UNCHANGED <<map, boxed, arg, got, panicked>>

(* exit_current, and sys_pthread_self, need the Pthread to be in the map.  *)
exit_current(t) ==
  /\ at[t] = "run" /\ t # Main
  /\ IF t \in map
     THEN /\ \E v \in Results :
               /\ packet' = [packet EXCEPT ![t] = v]
               /\ result' = [result EXCEPT ![t] = v]
          /\ at' = [at EXCEPT ![t] = "exited"]
          /\ UNCHANGED panicked
     ELSE /\ panicked' = TRUE
          /\ UNCHANGED <<packet, result, at>>
  /\ UNCHANGED <<map, boxed, arg, got>>

(* join(n): EDEADLK for the thread itself.  The Pthread n points to is     *)
(* taken, so nobody else may be joining it.                                *)
join(t) ==
  /\ at[t] = "run"
  /\ \E n \in boxed \ {t, Main} :
       /\ \A o \in Threads : at[o] = "join" => arg[o] # n
       /\ arg' = [arg EXCEPT ![t] = n]
  /\ at' = [at EXCEPT ![t] = "join"]
  /\ UNCHANGED <<map, boxed, packet, got, result, panicked>>

(* Faulty variant: the result is read before the task has exited.          *)
JoinedEarly(t) ==
  /\ at[t] = "join"
  /\ got' = [got EXCEPT ![t] = [of |-> arg[t], value |-> packet[arg[t]]]]
  /\ map' = map \ {arg[t]}
  /\ boxed' = boxed \ {arg[t]}
  /\ at' = [at EXCEPT ![t] = "run"]
  /\ arg' = [arg EXCEPT ![t] = NoThread]
  /\ UNCHANGED <<packet, result, panicked>>

(* The task has exited: the packet is read, the Pthread removed and freed. *)
Joined(t) ==
  /\ at[t] = "join" /\ at[arg[t]] = "exited"
  /\ got' = [got EXCEPT ![t] = [of |-> arg[t], value |-> packet[arg[t]]]]
  /\ map' = map \ {arg[t]}
  /\ boxed' = boxed \ {arg[t]}
  /\ at' = [at EXCEPT ![t] = "run"]
  /\ arg' = [arg EXCEPT ![t] = NoThread]
  /\ UNCHANGED <<packet, result, panicked>>

PtNext == /\ ~panicked
          /\ \E t \in Threads : \/ create(t) \/ Insert(t) \/ Finish(t) \/ exit_current(t)
                                \/ join(t) \/ Joined(t)

(* pthread_join returns what the thread it waited for returned or gave to  *)
(* pthread_exit, and a thread that can still call pthread_self or          *)
(* pthread_exit never finds a Pthread that a joiner has freed.             *)
JoinValue ==
  /\ \A t \in Threads : got[t].of # NoThread => got[t].value = result[got[t].of]
                                                /\ at[got[t].of] = "exited"
  /\ map = boxed
=============================================================================
