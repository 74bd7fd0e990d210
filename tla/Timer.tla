------------------------------- MODULE Timer -------------------------------
(***************************************************************************)
(* The periodic timer interrupt of one CPU: the handler init_interrupt     *)
(* registers (axruntime), the one-shot timers of the platforms and the way *)
(* each of them acknowledges an interrupt (axhal).                         *)
(*                                                                         *)
(* The clock counts hardware ticks, and software reads multiples of        *)
(* NANOS_PER_TICK.  Every deadline is kept relative to the clock, so that  *)
(* the model is finite: Later() is one tick on it, and a value that is     *)
(* only compared with the present stops at the bound where it is over.     *)
(***************************************************************************)
EXTENDS Integers

CONSTANTS Platforms,        \* of x86_pc, riscv64, aarch64, loongarch64
          PERIODIC_INTERVAL_NANOS, NANOS_PER_TICK

VARIABLES plat,      \* the platform; it never changes
          next,      \* NEXT_DEADLINE, in nanoseconds from now; 0 is over
          deadline,  \* the deadline update_timer has computed; -1 is over
          timer,     \* ticks until the timer fires, or Stopped
          pending,   \* the interrupt is latched (x86_pc, loongarch64)
          irqs,      \* the CPU accepts interrupts
          at         \* where the handler is

timerVars == <<plat, next, deadline, timer, pending, irqs, at>>

Stopped == -1

(* A tick is longer than the clock's unit: a deadline in nanoseconds is in *)
(* the tick nanos_to_ticks rounds down to.                                 *)
nanos_to_ticks(ns) == ns \div NANOS_PER_TICK
Later(ns, over) == IF ns - NANOS_PER_TICK < over THEN over ELSE ns - NANOS_PER_TICK

(* init_percpu: the first interrupt is due at once.                        *)
TimerInit ==
  /\ plat \in Platforms
  /\ next = 0 /\ deadline = 0
  /\ timer = 0 /\ pending = FALSE
  /\ irqs = FALSE /\ at = "idle"

(* x86_pc and loongarch64 latch the interrupt; the others keep it asserted *)
(* while the time of the timer has come.                                   *)
Latched == plat \in {"x86_pc", "loongarch64"}
Asserted == IF Latched THEN pending ELSE timer = 0

(* The clock goes on.                                                      *)
Tick ==
  /\ next' = Later(next, 0)
  /\ deadline' = IF at = "set" THEN Later(deadline, -1) ELSE deadline
  /\ timer' = IF timer > 0 THEN timer - 1 ELSE timer
  /\ ~ (Latched /\ timer = 0)
  /\ UNCHANGED <<plat, pending, irqs, at>>

(* The timer's time has come and the interrupt is latched.                 *)
Fire ==
  /\ Latched /\ timer = 0
  /\ pending' = TRUE /\ timer' = Stopped
  /\ UNCHANGED <<plat, next, deadline, irqs, at>>

(* Kernel code turns interrupts off and on.                                *)
enable_irqs ==
  /\ ~ irqs /\ at = "idle" /\ irqs' = TRUE
  /\ UNCHANGED <<plat, next, deadline, timer, pending, at>>
disable_irqs ==
  /\ irqs /\ at = "idle" /\ irqs' = FALSE
  /\ UNCHANGED <<plat, next, deadline, timer, pending, at>>

-----------------------------------------------------------------------------
(* dispatch_irq.  The latch of the local APIC is cleared as the CPU        *)
(* accepts the interrupt.                                                  *)
x86_dispatch_irq == plat = "x86_pc" /\ pending' = FALSE

(* clear_timer_interrupt comes before the handler.                         *)
loongarch64_dispatch_irq == plat = "loongarch64" /\ pending' = FALSE

gic_dispatch_irq == plat = "aarch64" /\ UNCHANGED pending
riscv64_dispatch_irq == plat = "riscv64" /\ UNCHANGED pending

handler_irq ==
  /\ irqs /\ Asserted /\ at = "idle"
  /\ x86_dispatch_irq \/ loongarch64_dispatch_irq \/ gic_dispatch_irq \/ riscv64_dispatch_irq
  /\ at' = "update" /\ irqs' = FALSE
  /\ UNCHANGED <<plat, next, deadline, timer>>

(* The next deadline, or one interval from now if that is over.            *)
NextDeadline == IF next <= 0 THEN PERIODIC_INTERVAL_NANOS ELSE next

(* update_timer up to the call of set_oneshot_timer.                       *)
update_timer ==
  /\ at = "update"
  /\ deadline' = NextDeadline
  /\ next' = NextDeadline + PERIODIC_INTERVAL_NANOS
  /\ at' = "set"
  /\ UNCHANGED <<plat, timer, pending, irqs>>

(* set_oneshot_timer, which reads the clock again.  The APIC counts        *)
(* nanoseconds, at least one; the others count ticks.                      *)
x86_set_oneshot_timer ==
  /\ plat = "x86_pc"
  /\ timer' = IF deadline > 0 THEN (deadline + NANOS_PER_TICK - 1) \div NANOS_PER_TICK ELSE 0

(* Faulty variant: a deadline that is over is not handled.                 *)
aarch64_set_oneshot_timerUnchecked ==
  /\ plat = "aarch64"
  /\ timer' = IF nanos_to_ticks(deadline) < 0 THEN Stopped ELSE nanos_to_ticks(deadline)

aarch64_set_oneshot_timer ==
  /\ plat = "aarch64"
  /\ timer' = IF nanos_to_ticks(deadline) > 0 THEN nanos_to_ticks(deadline) ELSE 0

riscv64_set_oneshot_timer ==
  /\ plat = "riscv64"
  /\ timer' = IF nanos_to_ticks(deadline) > 0 THEN nanos_to_ticks(deadline) ELSE 0

(* The difference is unsigned: a deadline that has just passed is a time   *)
(* that never comes.                                                       *)
loongarch64_set_oneshot_timer ==
  /\ plat = "loongarch64"
  /\ timer' = IF nanos_to_ticks(deadline) < 0 THEN Stopped ELSE nanos_to_ticks(deadline)

set_oneshot_timer ==
  /\ at = "set"
  /\ \/ x86_set_oneshot_timer \/ aarch64_set_oneshot_timer
     \/ riscv64_set_oneshot_timer \/ loongarch64_set_oneshot_timer
  /\ deadline' = 0
  /\ at' = "tick"
  /\ UNCHANGED <<plat, next, pending, irqs>>

(* on_timer_tick, the end of the interrupt, and the return to code that    *)
(* had interrupts on.                                                      *)
EndOfIrq ==
  /\ at = "tick"
  /\ at' = "idle" /\ irqs' = TRUE
  /\ UNCHANGED <<plat, next, deadline, timer, pending>>

Handler == update_timer \/ set_oneshot_timer \/ EndOfIrq

TimerNext == Tick \/ Fire \/ enable_irqs \/ disable_irqs \/ handler_irq \/ Handler

-----------------------------------------------------------------------------
(* The timer is never set further ahead than one interval and the rounding *)
(* of two conversions, however late interrupts are accepted: NEXT_DEADLINE *)
(* does not run away from the clock.                                       *)
Armed == timer <= nanos_to_ticks(PERIODIC_INTERVAL_NANOS) + 1

(* "A timer interrupt will be triggered at the specified monotonic time    *)
(* deadline": after set_oneshot_timer the timer runs or the interrupt is   *)
(* due.                                                                    *)
Triggered == at \in {"tick", "idle"} => timer # Stopped \/ pending

(* Timer interrupts never cease, where a deadline that has passed is       *)
(* handled (see Triggered).                                                *)
Ticking == plat # "loongarch64" => []<>(at = "update")
=============================================================================
