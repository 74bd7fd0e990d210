----------------------------- MODULE MCBringup -----------------------------
(***************************************************************************)
(* Bringing the machine up and keeping it going, for TLC: the CPUs start   *)
(* (Boot), devices are found (Drivers), the timer interrupt comes back     *)
(* (Timer) and the scheduler runs what is Ready (RunQueue).  The four have *)
(* no state in common; `part` says which of them a behaviour is about, and *)
(* the variables of the others do not change.                              *)
(***************************************************************************)
EXTENDS Boot

CONSTANTS TimerPlatforms, PERIODIC_INTERVAL_NANOS, NANOS_PER_TICK,
          Buses, Features, RangeBase, RangeSize, Subsystems,
          SchedCpus, SchedTasks, Main, BootCpu, NoTask

VARIABLES part,
          tplat, next, deadline, timer, pending, tirqs, handler,
          build, fns, probe, i, b, d, current, enabled, owned, devs, taken,
          state, on_cpu, cpumask, life, saved, ready_queue, running, prev_task,
          next_task, rpc, waking, target, moving, exited

T == INSTANCE Timer WITH Platforms <- TimerPlatforms, plat <- tplat,
                         irqs <- tirqs, at <- handler
D == INSTANCE Drivers WITH at <- probe
R == INSTANCE RunQueue WITH Cpus <- SchedCpus, Tasks <- SchedTasks,
                            current <- running, pc <- rpc

tVars == <<tplat, next, deadline, timer, pending, tirqs, handler>>
dVars == <<build, fns, probe, i, b, d, current, enabled, owned, devs, taken>>
rVars == <<state, on_cpu, cpumask, life, saved, ready_queue, running, prev_task,
           next_task, rpc, waking, target, moving, exited>>
vars == <<part, bootVars, tVars, dVars, rVars>>

(* Three places on the bus, with functions some driver of the build claims *)
(* and some that none does.                                                *)
MCBuses ==
  {<<x, y, z>> : x \in {"net", "bridge", "vga"}, y \in {"blk", "ixgbe"},
                 z \in {"net", "blk", "gpu", "ixgbe_io"}}
MCFeatures == {{"virtio-net", "virtio-blk", "virtio-gpu"},
               {"virtio-net", "ixgbe", "virtio-blk", "ramdisk"},
               {"fxmac", "bcm2835-sdhci", "virtio-blk"}}

(* One platform and CPU stand for a Boot that does not happen.             *)
NoBoot == BootInit /\ primary = 0 /\ plat = "x86_pc"
NoTimer ==
  /\ tplat = "none" /\ next = 0 /\ deadline = 0 /\ timer = 0
  /\ pending = 0 /\ tirqs = 0 /\ handler = "none"
NoDrivers ==
  /\ build = 0 /\ fns = 0 /\ probe = 0 /\ i = 0 /\ b = 0 /\ d = 0
  /\ current = 0 /\ enabled = 0 /\ owned = 0 /\ devs = 0 /\ taken = 0

Init ==
  /\ R!Init
  /\ \/ part = "boot" /\ BootInit /\ NoTimer /\ NoDrivers
     \/ part = "timer" /\ NoBoot /\ T!TimerInit /\ NoDrivers
     \/ part = "drivers" /\ NoBoot /\ NoTimer /\ D!DriversInit
     \/ part = "scheduler" /\ NoBoot /\ NoTimer /\ NoDrivers

Next ==
  /\ UNCHANGED part
  /\ \/ part = "boot" /\ BootNext /\ UNCHANGED <<tVars, dVars, rVars>>
     \/ part = "timer" /\ T!TimerNext /\ UNCHANGED <<bootVars, dVars, rVars>>
     \/ part = "drivers" /\ D!DriversNext /\ UNCHANGED <<bootVars, tVars, rVars>>
     \/ part = "scheduler" /\ R!Next /\ UNCHANGED <<bootVars, tVars, dVars>>

(* A CPU that is not waiting goes on.  The clock does not stop, a handler  *)
(* goes on, and interrupts are turned on again and again, long enough for  *)
(* one that is pending to be accepted.  A CPU does not stop inside the     *)
(* scheduler; a running task leaves the CPU in the end, as cooperative     *)
(* scheduling requires of it, and exit_current and migrate_entry run to    *)
(* their end, whatever wake-ups are handled on that CPU in between.        *)
Fairness ==
  /\ \A c \in Cpus : WF_bootVars(part = "boot" /\ Step(c))
  /\ WF_tVars(part = "timer" /\ T!Tick)
  /\ WF_tVars(part = "timer" /\ T!Fire)
  /\ WF_tVars(part = "timer" /\ T!Handler)
  /\ WF_tVars(part = "timer" /\ T!enable_irqs)
  /\ SF_tVars(part = "timer" /\ T!handler_irq)
  /\ \A c \in SchedCpus :
       /\ WF_rVars(part = "scheduler" /\ R!Scheduler(c))
       /\ SF_rVars(part = "scheduler" /\ R!LeaveCpu(c))
       /\ SF_rVars(part = "scheduler"
                   /\ (R!ExitPush(c) \/ \E r \in SchedCpus : R!MigrateEntry(c, r)))

Spec == Init /\ [][Next]_vars /\ Fairness

(* Nothing is used before it is initialised, every secondary CPU has a     *)
(* boot stack of its own, and a timer that was started is set for at most  *)
(* one interval ahead.                                                     *)
BootSafe == /\ part = "boot" => ReadyWhenUsed /\ OwnBootStack
            /\ part = "timer" => T!Armed

(* All CPUs come up, unless the firmware refuses to start one.             *)
AllUp == part = "boot" => Booted

(* Timer interrupts never cease.                                           *)
TimerTicks == part = "timer" => T!Ticking

(* A Ready task gets to run, and a waker's spin ends.                      *)
ReadyRuns == part = "scheduler" => R!ReadyRuns

(* The BARs of enabled functions have disjoint addresses inside their      *)
(* window, and each subsystem has the device found first.                  *)
DevicesSound == part = "drivers" => D!BarsSound /\ D!TakesFirst
=============================================================================
