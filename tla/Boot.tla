-------------------------------- MODULE Boot --------------------------------
(***************************************************************************)
(* How the CPUs come up: the entry code of every platform, rust_main on    *)
(* the primary CPU, start_secondary_cpus, rust_main_secondary, and the two *)
(* counters by which the CPUs wait for each other (axruntime, axhal).      *)
(*                                                                         *)
(* up is the set of global things that have been initialised and has[c]    *)
(* those of CPU c.  What a step does inside a device is left out: it is    *)
(* the name of what can be used afterwards.  Memory is sequentially        *)
(* consistent.                                                             *)
(***************************************************************************)
EXTENDS Naturals, FiniteSets

CONSTANTS SMP,        \* the number of CPUs
          Platforms   \* of x86_pc, riscv64, aarch64, raspi, loongarch64

Cpus == 0..(SMP - 1)
NoStack == SMP

VARIABLES plat,      \* the platform; it never changes
          primary,   \* the CPU that boots first; it never changes
          at,        \* at[c]: the next step of CPU c
          up, has,
          irqs,      \* the CPUs that accept interrupts
          released,  \* the secondary CPUs that were told to start
          mailbox,   \* the stack a starting CPU reads from memory
          arg,       \* arg[c]: the stack the firmware passes to CPU c
          sp,        \* sp[c]: the boot stack of CPU c
          started,   \* logic_cpu_id of start_secondary_cpus
          ENTERED_CPUS, INITED_CPUS,
          failed     \* the firmware refused to start a CPU

bootVars == <<plat, primary, at, up, has, irqs, released, mailbox, arg, sp, started,
              ENTERED_CPUS, INITED_CPUS, failed>>

(* Every secondary CPU waits for the firmware, or for an entry in the spin *)
(* table of the Raspberry Pi.                                              *)
BootInit ==
  /\ plat \in Platforms
  /\ primary \in Cpus
  /\ at = [c \in Cpus |-> IF c = primary THEN "_start" ELSE "off"]
  /\ up = {} /\ has = [c \in Cpus |-> {}] /\ irqs = {}
  /\ released = {} /\ mailbox = NoStack
  /\ arg = [c \in Cpus |-> NoStack] /\ sp = [c \in Cpus |-> NoStack]
  /\ started = 0 /\ ENTERED_CPUS = 1 /\ INITED_CPUS = 0
  /\ failed = FALSE

Go(c, from, to) == at[c] = from /\ at' = [at EXCEPT ![c] = to]
Gains(c, things) == has' = [has EXCEPT ![c] = @ \cup things]
Same == UNCHANGED <<plat, primary>>
NotStarting == UNCHANGED <<released, mailbox, arg, sp, started, failed>>

-----------------------------------------------------------------------------
(* The entry code: privilege level, MMU with the boot page table, and the  *)
(* floating-point unit.  loongarch64 also sets the refill handler.         *)
x86_start == {"mmu", "fp"}
riscv64_start == {"mmu"}
switch_to_el1 == {"el1"}
aarch64_start == switch_to_el1 \cup {"mmu", "fp"}
init_tlb == {"tlb_refill"}
loongarch64_start == init_tlb \cup {"mmu"}
EntryCode ==
  CASE plat = "x86_pc" -> x86_start
    [] plat = "riscv64" -> riscv64_start
    [] plat \in {"aarch64", "raspi"} -> aarch64_start
    [] plat = "loongarch64" -> loongarch64_start

(* The primary CPU builds the boot page table.                             *)
Start(c) ==
  /\ Go(c, "_start", "rust_entry")
  /\ up' = up \cup {"boot_page_table"}
  /\ Gains(c, EntryCode)
  /\ Same /\ NotStarting /\ UNCHANGED <<irqs, ENTERED_CPUS, INITED_CPUS>>

(* cpu_init sets the trap vector.  On x86 that is the GDT of the CPU with  *)
(* its TSS, the IDT all CPUs share, and the registers of syscall.          *)
GdtStruct == {"gdt", "tss"}
init_gdt == GdtStruct
IdtStruct == {"trap_vector"}
init_idt == IdtStruct
init_syscall == {"syscall"}
x86_cpu_init == init_gdt \cup init_idt \cup init_syscall
riscv64_cpu_init == {"trap_vector"}
aarch64_cpu_init == {"trap_vector", "low_half_off"}
loongarch64_cpu_init == {"trap_vector", "fp"}
cpu_init ==
  CASE plat = "x86_pc" -> x86_cpu_init
    [] plat = "riscv64" -> riscv64_cpu_init
    [] plat \in {"aarch64", "raspi"} -> aarch64_cpu_init
    [] plat = "loongarch64" -> loongarch64_cpu_init

init_primary == {"percpu"} \cup cpu_init
init_secondary == {"percpu"} \cup cpu_init

(* set_enable lets the timer interrupt through: for the CPU that calls it, *)
(* where the controller has an enable bit for it.                          *)
gic_set_enable == {"timer_irq"}
loongarch64_set_enable == {"timer_irq"}

(* What the clock needs: its frequency and the offset of the wall time.    *)
x86_init_early == {"time"}
riscv64_init_early == {"time"}
generic_timer_init_early == {"time"}
loongarch64_time_init == {"time"}

(* What rust_entry sets up for all CPUs.                                   *)
x86_rust_entry == {"bss", "uart"} \cup x86_init_early
riscv64_rust_entry == {"bss"} \cup riscv64_init_early
aarch64_rust_entry == {"bss", "uart"} \cup generic_timer_init_early
raspi_rust_entry == {"bss", "uart"} \cup generic_timer_init_early
loongarch64_rust_entry == {"bss", "uart"} \cup loongarch64_time_init
EntryGlobal ==
  CASE plat = "x86_pc" -> x86_rust_entry
    [] plat = "riscv64" -> riscv64_rust_entry
    [] plat = "aarch64" -> aarch64_rust_entry
    [] plat = "raspi" -> raspi_rust_entry
    [] plat = "loongarch64" -> loongarch64_rust_entry

(* What both entry functions set up for their CPU: riscv64 allows the      *)
(* kernel to access user pages (SUM), loongarch64 starts the timer.        *)
set_sum == {"sum"}
loongarch64_init_percpu == {"irq_controller", "timer"} \cup loongarch64_set_enable
EntryLocal ==
  CASE plat = "riscv64" -> set_sum
    [] plat = "loongarch64" -> loongarch64_init_percpu
    [] OTHER -> {}

rust_entry(c) ==
  /\ Go(c, "rust_entry", "init_allocator")
  /\ up' = up \cup EntryGlobal
  /\ Gains(c, init_primary \cup EntryLocal)
  /\ Same /\ NotStarting /\ UNCHANGED <<irqs, ENTERED_CPUS, INITED_CPUS>>

init_allocator(c) ==
  /\ Go(c, "init_allocator", "init_memory_management")
  /\ up' = up \cup {"alloc"}
  /\ Same /\ NotStarting /\ UNCHANGED <<has, irqs, ENTERED_CPUS, INITED_CPUS>>

init_memory_management(c) ==
  /\ Go(c, "init_memory_management", "platform_init")
  /\ up' = up \cup {"KERNEL_ASPACE"}
  /\ Gains(c, {"kernel_root"})
  /\ Same /\ NotStarting /\ UNCHANGED <<irqs, ENTERED_CPUS, INITED_CPUS>>

(* The interrupt controller and the timer of this CPU.  LOCAL_APIC, the IO *)
(* APIC and the GIC distributor are set up once, by the primary.           *)
apic_init_primary == {"LOCAL_APIC", "IO_APIC"}
gic_init_primary == {"GICD"}
pl011_init == {"uart_irq"}
Controller ==
  CASE plat = "x86_pc" -> apic_init_primary
    [] plat \in {"aarch64", "raspi"} -> gic_init_primary \cup pl011_init
    [] OTHER -> {}

apic_init_secondary == {"irq_controller"}
gic_init_secondary == {"irq_controller"}
lapic_timer == {"timer", "timer_irq"}
riscv64_irq_init == {"irq_controller", "timer_irq"}
generic_timer_init_percpu == {"timer"} \cup gic_set_enable
x86_devices == apic_init_secondary \cup lapic_timer
riscv64_devices == riscv64_irq_init \cup {"timer"}
aarch64_devices == gic_init_secondary \cup generic_timer_init_percpu
raspi_devices == gic_init_secondary \cup generic_timer_init_percpu
Devices ==
  CASE plat = "x86_pc" -> x86_devices
    [] plat = "riscv64" -> riscv64_devices
    [] plat = "aarch64" -> aarch64_devices
    [] plat = "raspi" -> raspi_devices
    [] plat = "loongarch64" -> {}

platform_init(c) ==
  /\ Go(c, "platform_init", "init_scheduler")
  /\ up' = up \cup Controller
  /\ Gains(c, Devices)
  /\ Same /\ NotStarting /\ UNCHANGED <<irqs, ENTERED_CPUS, INITED_CPUS>>

(* run_queue::init and timers::init: the current task, the run queue in    *)
(* RUN_QUEUES and the timer list.                                          *)
Scheduler == {"current_task", "RUN_QUEUE", "TIMER_LIST"}

init_scheduler(c) ==
  /\ Go(c, "init_scheduler", "init_drivers")
  /\ Gains(c, Scheduler)
  /\ Same /\ NotStarting /\ UNCHANGED <<up, irqs, ENTERED_CPUS, INITED_CPUS>>

(* Drivers, file systems and the network.                                  *)
init_drivers(c) ==
  /\ Go(c, "init_drivers", "start_secondary_cpus")
  /\ up' = up \cup {"devices"}
  /\ Same /\ NotStarting /\ UNCHANGED <<has, irqs, ENTERED_CPUS, INITED_CPUS>>

-----------------------------------------------------------------------------
(* One start_secondary_cpu per platform, for CPU i with stack k.  x86 has  *)
(* the stack in the start page and sends INIT and two SIPIs; loongarch64   *)
(* has it in a variable and sends an interrupt.                            *)
x86_start_secondary_cpu(i, k) ==
  /\ plat = "x86_pc"
  /\ mailbox' = k /\ released' = released \cup {i}
  /\ UNCHANGED <<arg, failed>>

loongarch64_start_secondary_cpu(i, k) ==
  /\ plat = "loongarch64"
  /\ mailbox' = k /\ released' = released \cup {i}
  /\ UNCHANGED <<arg, failed>>

(* hart_start passes the stack.  Without the extension it warns, returns   *)
(* and nothing starts.                                                     *)
riscv64_start_secondary_cpu(i, k) ==
  /\ plat = "riscv64"
  /\ \/ /\ arg' = [arg EXCEPT ![i] = k] /\ released' = released \cup {i}
        /\ UNCHANGED failed
     \/ failed' = TRUE /\ UNCHANGED <<arg, released>>
  /\ UNCHANGED mailbox

(* cpu_on passes the stack; an error is only logged.                       *)
cpu_on(i, k) ==
  \/ /\ arg' = [arg EXCEPT ![i] = k] /\ released' = released \cup {i}
     /\ UNCHANGED failed
  \/ failed' = TRUE /\ UNCHANGED <<arg, released>>

aarch64_start_secondary_cpu(i, k) ==
  plat = "aarch64" /\ cpu_on(i, k) /\ UNCHANGED mailbox

(* The Raspberry Pi writes the spin table first and the stack afterwards.  *)
raspi_start_secondary_cpu(i, k) ==
  /\ plat = "raspi"
  /\ released' = released \cup {i}
  /\ UNCHANGED <<mailbox, arg, failed>>

(* The next CPU of the loop: the least one not started yet.                *)
Waiting == {i \in Cpus : i # primary /\ Cardinality({j \in 0..(i - 1) : j # primary}) = started}

start_secondary_cpus(c) ==
  /\ started < SMP - 1
  /\ Go(c, "start_secondary_cpus", IF plat = "raspi" THEN "set_stack" ELSE "wait_entered")
  /\ \E i \in Waiting :
       \/ x86_start_secondary_cpu(i, started)
       \/ loongarch64_start_secondary_cpu(i, started)
       \/ riscv64_start_secondary_cpu(i, started)
       \/ aarch64_start_secondary_cpu(i, started)
       \/ raspi_start_secondary_cpu(i, started)
  /\ started' = started + 1
  /\ Same /\ UNCHANGED <<up, has, irqs, sp, ENTERED_CPUS, INITED_CPUS>>

(* The second half on the Raspberry Pi, then the event.                    *)
SetStack(c) ==
  /\ Go(c, "set_stack", "wait_entered")
  /\ mailbox' = started - 1
  /\ Same /\ UNCHANGED <<up, has, irqs, released, arg, sp, started, ENTERED_CPUS,
                         INITED_CPUS, failed>>

(* Faulty variant: waits for all CPUs after the first.                     *)
AllEnteredAll == ENTERED_CPUS = SMP

(* The loop goes on when ENTERED_CPUS is above logic_cpu_id.               *)
AllEntered == ENTERED_CPUS > started

WaitEntered(c) ==
  /\ AllEntered
  /\ Go(c, "wait_entered", "start_secondary_cpus")
  /\ Same /\ NotStarting /\ UNCHANGED <<up, has, irqs, ENTERED_CPUS, INITED_CPUS>>

(* The handler goes into the table, or into TIMER_HANDLER of riscv64, if   *)
(* there is none, and the interrupt is enabled on this CPU.                *)
register_handler_common(c) ==
  /\ up' = up \cup {"timer_handler"}
  /\ Gains(c, {"timer_irq"})
riscv64_register_handler(c) ==
  /\ up' = up \cup {"timer_handler"}
  /\ UNCHANGED has
register_handler(c) ==
  IF plat = "riscv64" THEN riscv64_register_handler(c) ELSE register_handler_common(c)

(* The handler of the timer is registered, then interrupts are accepted.   *)
init_interrupt(c) ==
  /\ started = SMP - 1
  /\ Go(c, "start_secondary_cpus", "init_ok")
  /\ register_handler(c)
  /\ irqs' = irqs \cup {c}
  /\ Same /\ NotStarting /\ UNCHANGED <<ENTERED_CPUS, INITED_CPUS>>

-----------------------------------------------------------------------------
(* A secondary CPU starts with the stack it was passed or finds in memory. *)
(* On the Raspberry Pi it starts as soon as it sees its entry: the event   *)
(* it waits for may come early.                                            *)
StartSecondary(c) ==
  /\ c \in released
  /\ Go(c, "off", "rust_entry_secondary")
  /\ sp' = [sp EXCEPT ![c] = IF arg[c] # NoStack THEN arg[c] ELSE mailbox]
  /\ Gains(c, EntryCode)
  /\ Same /\ UNCHANGED <<up, irqs, released, mailbox, arg, started, ENTERED_CPUS,
                         INITED_CPUS, failed>>

rust_entry_secondary(c) ==
  /\ Go(c, "rust_entry_secondary", "rust_main_secondary")
  /\ Gains(c, init_secondary \cup EntryLocal)
  /\ Same /\ NotStarting /\ UNCHANGED <<up, irqs, ENTERED_CPUS, INITED_CPUS>>

rust_main_secondary(c) ==
  /\ Go(c, "rust_main_secondary", "init_memory_management_secondary")
  /\ ENTERED_CPUS' = ENTERED_CPUS + 1
  /\ Same /\ NotStarting /\ UNCHANGED <<up, has, irqs, INITED_CPUS>>

init_memory_management_secondary(c) ==
  /\ Go(c, "init_memory_management_secondary", "platform_init_secondary")
  /\ Gains(c, {"kernel_root"})
  /\ Same /\ NotStarting /\ UNCHANGED <<up, irqs, ENTERED_CPUS, INITED_CPUS>>

platform_init_secondary(c) ==
  /\ Go(c, "platform_init_secondary", "init_scheduler_secondary")
  /\ Gains(c, Devices)
  /\ Same /\ NotStarting /\ UNCHANGED <<up, irqs, ENTERED_CPUS, INITED_CPUS>>

init_scheduler_secondary(c) ==
  /\ Go(c, "init_scheduler_secondary", "init_ok")
  /\ Gains(c, Scheduler)
  /\ Same /\ NotStarting /\ UNCHANGED <<up, irqs, ENTERED_CPUS, INITED_CPUS>>

-----------------------------------------------------------------------------
InitOk(c) ==
  /\ Go(c, "init_ok", "spin")
  /\ INITED_CPUS' = INITED_CPUS + 1
  /\ Same /\ NotStarting /\ UNCHANGED <<up, has, irqs, ENTERED_CPUS>>

(* Faulty variant: a CPU does not count itself.                            *)
is_init_okOthers == INITED_CPUS >= SMP - 1

is_init_ok == INITED_CPUS = SMP

(* main, or enable_irqs and run_idle.                                      *)
Run(c) ==
  /\ is_init_ok
  /\ Go(c, "spin", IF c = primary THEN "main" ELSE "run_idle")
  /\ irqs' = irqs \cup {c}
  /\ Same /\ NotStarting /\ UNCHANGED <<up, has, ENTERED_CPUS, INITED_CPUS>>

Step(c) ==
  \/ Start(c) \/ rust_entry(c) \/ init_allocator(c) \/ init_memory_management(c)
  \/ platform_init(c) \/ init_scheduler(c) \/ init_drivers(c)
  \/ start_secondary_cpus(c) \/ SetStack(c) \/ WaitEntered(c) \/ init_interrupt(c)
  \/ StartSecondary(c) \/ rust_entry_secondary(c) \/ rust_main_secondary(c)
  \/ init_memory_management_secondary(c) \/ platform_init_secondary(c)
  \/ init_scheduler_secondary(c) \/ InitOk(c) \/ Run(c)

BootNext == \E c \in Cpus : Step(c)

-----------------------------------------------------------------------------
(* What a step of CPU c, and an interrupt it accepts, reads.               *)
Needs(c) ==
  CASE at[c] = "rust_entry" -> EntryCode \cup {"boot_page_table"}
    [] at[c] = "rust_entry_secondary" -> EntryCode \cup {"boot_page_table", "bss"}
    [] at[c] = "init_memory_management" -> {"alloc"}
    [] at[c] = "platform_init" -> {"KERNEL_ASPACE", "time"}
    [] at[c] = "init_scheduler" -> {"alloc", "percpu", "KERNEL_ASPACE"}
    [] at[c] = "init_memory_management_secondary" -> {"KERNEL_ASPACE"}
    [] at[c] = "platform_init_secondary" -> Controller \cup {"percpu", "kernel_root"}
    [] at[c] = "init_scheduler_secondary" -> {"alloc", "percpu", "kernel_root"}
    [] OTHER -> {}
NeedsIrq == {"trap_vector", "percpu", "irq_controller", "timer", "kernel_root",
             "timer_handler"} \cup Scheduler
(* What kernel code that may run on any CPU takes for granted there: a run *)
(* queue, timer interrupts (they end the wait of an idle CPU), and access  *)
(* to user pages.                                                          *)
NeedsTask == {"RUN_QUEUE", "timer_irq"} \cup (IF plat = "riscv64" THEN set_sum ELSE {})

(* Nothing is used before it is initialised.  A CPU that accepts           *)
(* interrupts has its vector, current task, run queue and timer list, and  *)
(* the timer's handler is registered (on riscv64 an early interrupt would  *)
(* call an empty TIMER_HANDLER).  Once main or an idle task runs, tasks    *)
(* may be put on any CPU, so all of them are ready for tasks, and the      *)
(* devices are there.                                                      *)
ReadyWhenUsed == \A c \in Cpus :
  /\ Needs(c) \subseteq up \cup has[c]
  /\ c \in irqs => NeedsIrq \subseteq up \cup has[c]
  /\ at[c] \in {"main", "run_idle"} =>
       "devices" \in up /\ \A d \in Cpus : NeedsTask \subseteq has[d]

(* Every secondary CPU boots on a stack of its own.                        *)
OwnStack == \A c \in Cpus \ {primary} :
  at[c] # "off" =>
    /\ sp[c] # NoStack
    /\ \A d \in Cpus \ {c} : sp[c] # sp[d]

(* The same where the stack is written before the CPU may start: the       *)
(* primary does not replace the stack in memory before the CPU it is for   *)
(* has entered.                                                            *)
OwnBootStack == plat # "raspi" => OwnStack

(* All CPUs come up, unless the firmware refuses to start one.             *)
Booted == [](~failed) => <>(\A c \in Cpus : at[c] \in {"main", "run_idle"})
=============================================================================
