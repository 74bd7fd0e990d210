------------------------------ MODULE Threads ------------------------------
(***************************************************************************)
(* The threads of axstd (ulib/axstd/src/thread/multi.rs) on the tasks of   *)
(* axtask, through arceos_api: spawn, the closure a new thread runs, and   *)
(* JoinHandle::join.  Join models the tasks underneath: how they end, are  *)
(* waited for and are freed.                                               *)
(*                                                                         *)
(* A thread and its JoinHandle share a packet, an Arc with the place for   *)
(* the value of the closure.  join takes the value out through             *)
(* Arc::get_mut(..).unwrap(), which panics while the thread still has its  *)
(* reference.  held[t] is the set of threads whose JoinHandle t has.       *)
(* A program may also use axtask itself, as the kernel does: then its      *)
(* tasks hold plain references to each other and have no packets.          *)
(***************************************************************************)
EXTENDS Join

CONSTANTS Main   \* the thread that exists at the start; it has no JoinHandle

None == "none"
Ret == "ret"

VARIABLES body,    \* body[t]: where t is in the closure given to ax_spawn
          packet,  \* packet[t]: the packet of t: its owners and the result
          taking,  \* taking[t]: the thread whose packet t opens in join
          panicked

packetVars == <<body, packet, taking, panicked>>

NoPacket == [owners |-> {}, result |-> None]

ThreadsInit ==
  /\ Init
  /\ \/ /\ held = [t \in Tasks |-> IF t = Main THEN {} ELSE Tasks \ {t}]
        /\ body = [t \in Tasks |-> "native"]
     \/ /\ held = [t \in Tasks |-> {}]
        /\ body = [t \in Tasks |-> IF t = Main THEN "f" ELSE "unborn"]
  /\ packet = [t \in Tasks |-> NoPacket]
  /\ taking = [t \in Tasks |-> NoTask]
  /\ panicked = FALSE

(* t executes its own code, or that of a caller of the thread functions.   *)
InClosure(t) == At(t, "out") /\ body[t] = "f" /\ taking[t] = NoTask

-----------------------------------------------------------------------------
(* Arc::new(Packet) for the handle, a clone of it for the closure.         *)
new_packet == [owners |-> {"handle", "thread"}, result |-> None]

(* TaskInner::new: a task in state Ready whose entry is the closure.       *)
TaskInner_new(u) == body[u] = "unborn" /\ body' = [body EXCEPT ![u] = "f"]

(* spawn_raw: the run queue gets one reference and the caller another.     *)
ax_spawn(t, u) == held' = [held EXCEPT ![t] = @ \cup {u}]

(* spawn: the packet, the task, and a JoinHandle with both.                *)
spawn(t, u) ==
  /\ InClosure(t)
  /\ TaskInner_new(u)
  /\ packet' = [packet EXCEPT ![u] = new_packet]
  /\ ax_spawn(t, u)
  /\ UNCHANGED <<wqVars, gcVars, pc, at, waking, exit_code, code, result, cpu,
                 taking, panicked>>

(* A JoinHandle is dropped: the thread is detached.                        *)
Detach(t, u) ==
  /\ InClosure(t)
  /\ Forget(t, u)
  /\ packet' = [packet EXCEPT ![u].owners = @ \ {"handle"}]
  /\ UNCHANGED <<body, taking, panicked>>

(* f() has returned and its value is stored in the packet.                 *)
StoreResult(t) ==
  /\ InClosure(t) /\ t # Main
  /\ held[t] = {}
  /\ body' = [body EXCEPT ![t] = "stored"]
  /\ packet' = [packet EXCEPT ![t].result = Ret]
  /\ UNCHANGED <<vars, taking, panicked>>

(* drop(their_packet), the last thing of the closure.                      *)
DropTheirs(t) ==
  /\ At(t, "out") /\ body[t] = "stored"
  /\ body' = [body EXCEPT ![t] = "over"]
  /\ packet' = [packet EXCEPT ![t].owners = @ \ {"thread"}]
  /\ UNCHANGED <<vars, taking, panicked>>

(* Faulty variant: the task exits from within the closure, before the drop. *)
task_entryBeforeDrop(t) ==
  /\ body[t] = "stored"
  /\ Exit(t, 0)
  /\ UNCHANGED packetVars

(* task_entry: the closure has returned; exit(0).                          *)
task_entry(t) ==
  /\ body[t] = "over"
  /\ Exit(t, 0)
  /\ UNCHANGED packetVars

(* thread::exit inside the closure: nothing on its stack is dropped, so    *)
(* the handles and the packet it owns are never released.                  *)
ax_exit(t, k) ==
  /\ InClosure(t) /\ t # Main
  /\ Exit(t, k)
  /\ body' = [body EXCEPT ![t] = "left"]
  /\ UNCHANGED <<packet, taking, panicked>>

-----------------------------------------------------------------------------
(* JoinHandle::join: ax_wait_for_exit consumes the reference to the task.  *)
join(t, u) ==
  /\ InClosure(t)
  /\ JoinCall(t, u)
  /\ UNCHANGED packetVars

ax_wait_for_exit(t) ==
  /\ body[t] = "f"
  /\ DropRef(t)
  /\ taking' = [taking EXCEPT ![t] = at[t]]
  /\ UNCHANGED <<body, packet, panicked>>

(* The only owner takes the value; with another owner unwrap() panics.     *)
get_mut(t) ==
  LET u == taking[t]
  IN /\ At(t, "out") /\ u # NoTask
     /\ panicked' = (packet[u].owners # {"handle"})
     /\ packet' = [packet EXCEPT ![u] = [owners |-> @.owners \ {"handle"}, result |-> None]]
     /\ taking' = [taking EXCEPT ![t] = NoTask]
     /\ UNCHANGED <<vars, body>>

(* The steps of the tasks underneath; a new task runs once it is spawned.  *)
Below(t) ==
  /\ \/ Lock(t) \/ CheckExited(t) \/ CheckAlive(t) \/ Push(t) \/ Cancel(t)
     \/ ReadCode(t) \/ StoreCode(t) \/ Pop(t) \/ Unblock(t) \/ Bury(t)
     \/ body[t] # "unborn" /\ Run(t)
  /\ UNCHANGED packetVars

(* Tasks without packets: join, drop references and exit as they like.     *)
Native(t) ==
  /\ body[t] = "native"
  /\ \/ \E u \in Tasks : JoinCall(t, u) \/ Forget(t, u)
     \/ \E k \in Codes : Exit(t, k)
  /\ UNCHANGED packetVars

(* The reference a native task joined through goes out of scope.           *)
NativeJoined(t) == body[t] = "native" /\ DropRef(t) /\ UNCHANGED packetVars

ThreadStep(t) ==
  /\ ~panicked
  /\ \/ DropTheirs(t) \/ task_entry(t) \/ ax_wait_for_exit(t) \/ get_mut(t) \/ Below(t)
     \/ NativeJoined(t)

GcStep(c) == ~panicked /\ Gc(c) /\ UNCHANGED packetVars

ThreadsNext ==
  \/ \E t \in Tasks :
       \/ /\ ~panicked
          /\ \/ \E u \in Tasks : spawn(t, u) \/ Detach(t, u) \/ join(t, u)
             \/ StoreResult(t) \/ Native(t)
             \/ \E k \in Codes : ax_exit(t, k)
       \/ ThreadStep(t)
  \/ \E c \in Cpus : GcStep(c)

threadsVars == <<vars, packetVars>>

ThreadsSpec == ThreadsInit /\ [][ThreadsNext]_threadsVars

(* A thread that exits or joins gets its turns, and the spin lock of a     *)
(* queue if it can again and again.                                        *)
ThreadsFairSpec == ThreadsSpec /\ \A t \in Tasks : SF_threadsVars(ThreadStep(t))

-----------------------------------------------------------------------------
(* A join that has waited finds itself the only owner of the packet, with  *)
(* the value of the closure in it, so get_mut().unwrap() does not panic,   *)
(* unless the thread left its closure through thread::exit.                *)
PacketReady ==
  \A t \in Tasks : taking[t] # NoTask =>
    \/ body[taking[t]] = "left"
    \/ packet[taking[t]] = [owners |-> {"handle"}, result |-> Ret]

(* Joining and freeing go together: joiners are woken, nothing reachable   *)
(* is freed, and the packet is ready when it is opened.                    *)
JoinSafe == JoinersWoken /\ DroppedUnreachable /\ PacketReady
=============================================================================
