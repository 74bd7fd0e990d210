------------------------------ MODULE Context ------------------------------
(***************************************************************************)
(* Traps, the way into user space, and the switch between tasks, on the    *)
(* four architectures of axhal (arch/<arch>/context.rs, trap.S, trap.rs,   *)
(* x86_64/syscall.S and tls.rs), with the clone and execve that prepare a  *)
(* user context.  The build is the default one: fp_simd, uspace and irq,   *)
(* but not tls.                                                            *)
(*                                                                         *)
(* A register holds a token <<owner, version>>.  The general registers are *)
(* one token, and so are the floating-point registers.  base is the        *)
(* register the kernel finds its per-CPU data with: the GS base, gp,       *)
(* tpidr_el1 or r21.  All but tpidr_el1 belong to the program while it     *)
(* runs; the kernel's value is then in alt (KERNEL_GS_BASE, KSAVE_R21) or  *)
(* on the kernel stack.  vec is where a trap finds the kernel stack: RSP0, *)
(* sscratch, sp_el1 or KSAVE_KSP.                                          *)
(*                                                                         *)
(* A trap from kernel mode pushes a frame and pops it again; no handler    *)
(* switches tasks in between without preemption, so it is not a step.      *)
(* mine and space record what every thread should find in its registers.   *)
(***************************************************************************)
EXTENDS Naturals, FiniteSets

CONSTANTS Cpus,    \* each also names the idle task of that CPU
          Users,   \* user threads
          First,   \* the thread run_user_app starts
          Archs,   \* the architectures to look at
          Loads,   \* what programs do: sets of the steps named by Doing
          NoStack

CtxTasks == Users \cup Cpus
Zero == <<"zero", 0>>
Any == <<"any", 0>>
KernelRoot == "kernel"
NoRoot == "none"

VARIABLES arch,  \* the architecture; it never changes
          load,  \* what the programs do; it never changes
          cpu,   \* cpu[c]: the registers
          ctx,   \* ctx[t]: TaskContext
          top,   \* top[t]: the trap frame at the top of t's kernel stack
          uctx,  \* uctx[t]: the UspaceContext a new thread starts with
          st,    \* st[t]: "none", "new", "live" or "dead"
          mine,  \* mine[t]: what t's user registers should hold
          space  \* space[t]: the process of t and the address space it should run in

vars == <<arch, load, cpu, ctx, top, uctx, st, mine, space>>

Swaps == arch \in {"x86_64", "riscv64", "loongarch64"}
TwoRoots == arch \in {"aarch64", "loongarch64"}

(* TaskContext::new and init.  A kernel task has no root where the user's  *)
(* table has a register of its own.                                        *)
x86_ctx(t) == [sp |-> t, base |-> Zero, root |-> KernelRoot, fp |-> Zero]
riscv_ctx(t) == [sp |-> t, root |-> KernelRoot, fp |-> Zero, fs |-> "Initial"]
aarch64_ctx(t) == [sp |-> t, root |-> NoRoot, fp |-> Zero]
loongarch_ctx(t) == [sp |-> t, root |-> NoRoot]

new_ctx(t) ==
  CASE arch = "x86_64" -> x86_ctx(t)
    [] arch = "riscv64" -> riscv_ctx(t)
    [] arch = "aarch64" -> aarch64_ctx(t)
    [] arch = "loongarch64" -> loongarch_ctx(t)

set_page_table_root(x, root) == [x EXCEPT !.root = root]

(* UspaceContext::new: the argument, entry point and stack are reg and pc. *)
x86_uctx(reg) == [reg |-> reg, pc |-> "before", tp |-> Zero, kind |-> "none"]
riscv_uctx(reg) == [reg |-> reg, pc |-> "before", tp |-> Zero, base |-> Zero, fs |-> "Initial",
                    kind |-> "none"]
aarch64_uctx(reg) == [reg |-> reg, pc |-> "before", tp |-> Zero, kind |-> "none"]
loongarch_uctx(reg) == [reg |-> reg, pc |-> "before", tp |-> Zero, base |-> Zero,
                        kind |-> "none"]

new_uctx(reg) ==
  CASE arch = "x86_64" -> x86_uctx(reg)
    [] arch = "riscv64" -> riscv_uctx(reg)
    [] arch = "aarch64" -> aarch64_uctx(reg)
    [] arch = "loongarch64" -> loongarch_uctx(reg)
NoFrame == new_uctx(Zero)

Initial(t) == [reg |-> <<t, 0>>, pc |-> "before", tp |-> Zero, base |-> Zero, fp |-> Zero]

Init ==
  /\ arch \in Archs
  /\ load \in Loads
  /\ cpu = [c \in Cpus |-> [cur |-> c, mode |-> "kernel", reg |-> Zero, pc |-> "before",
                            tp |-> Zero, base |-> <<c, 0>>, alt |-> Zero, fp |-> Zero,
                            fs |-> "Initial", root |-> new_ctx(c).root, sp |-> c,
                            vec |-> IF arch = "riscv64" THEN NoStack ELSE c]]
  /\ ctx = [t \in CtxTasks |-> IF t = First THEN set_page_table_root(new_ctx(t), First)
                             ELSE new_ctx(t)]
  /\ top = [t \in CtxTasks |-> NoFrame]
  /\ uctx = [t \in Users |-> new_uctx(<<t, 0>>)]
  /\ st = [t \in Users |-> IF t = First THEN "new" ELSE "none"]
  /\ mine = [t \in Users |-> Initial(t)]
  /\ space = [t \in Users |-> [proc |-> t, root |-> t]]

Doing(op) == op \in load
InUser(c, a) == arch = a /\ cpu[c].mode = "user"
InKernel(c, a) == arch = a /\ cpu[c].mode = "kernel"
Flip(x, t) == <<t, IF x = <<t, 0>> THEN 1 ELSE 0>>

-----------------------------------------------------------------------------
(* The program changes its registers.  The FS base and the GS base of      *)
(* x86_64 are changed by system calls, and tpidr_el1 is the kernel's.      *)
UserStep(c) ==
  /\ Doing("step")
  /\ cpu[c].mode = "user"
  /\ LET t == cpu[c].cur
         own == arch # "x86_64"
         gp == own /\ Swaps
     IN  /\ cpu' = [cpu EXCEPT ![c].reg = Flip(@, t),
                               ![c].tp = IF own THEN Flip(@, t) ELSE @,
                               ![c].base = IF gp THEN Flip(@, t) ELSE @]
         /\ mine' = [mine EXCEPT ![t].reg = Flip(@, t),
                                 ![t].tp = IF own THEN Flip(@, t) ELSE @,
                                 ![t].base = IF gp THEN Flip(@, t) ELSE @]
  /\ UNCHANGED <<arch, load, ctx, top, uctx, st, space>>

UserFloat(c) ==
  /\ Doing("float")
  /\ cpu[c].mode = "user"
  /\ LET t == cpu[c].cur
     IN  /\ cpu' = [cpu EXCEPT ![c].fp = Flip(@, t),
                               ![c].fs = IF arch = "riscv64" THEN "Dirty" ELSE @]
         /\ mine' = [mine EXCEPT ![t].fp = Flip(cpu[c].fp, t)]
  /\ UNCHANGED <<arch, load, ctx, top, uctx, st, space>>

-----------------------------------------------------------------------------
(* Where the program goes on: behind a system call, at the instruction     *)
(* after a fault or an interrupt.                                          *)
Resume(kind) == IF kind = "syscall" THEN "after" ELSE "before"

(* The address the hardware saves for a system call is that of the next    *)
(* instruction on x86_64 and aarch64.                                      *)
SavedPc(kind) == IF arch \in {"x86_64", "aarch64"} THEN Resume(kind) ELSE "before"

(* The general registers in a frame.                                       *)
Saved(r, kind) == [NoFrame EXCEPT !.reg = r.reg, !.pc = SavedPc(kind), !.kind = kind]

(* The part of the handlers that is about the context.  x86_64 saves the   *)
(* FS base; riscv64 and loongarch64 add 4 to the address of a system call, *)
(* before handle_syscall is called.                                        *)
switch_to_kernel_fs_base(f, r) == [f EXCEPT !.tp = r.tp]
riscv_trap_handler(f) == [f EXCEPT !.pc = Resume(f.kind)]
loongarch64_trap_handler(f) == [f EXCEPT !.pc = Resume(f.kind)]

Expected(c, kind) ==
  mine' = [mine EXCEPT ![cpu[c].cur].pc = Resume(kind)]

(* swapgs, then the frame on the stack RSP0 names (trap.S, syscall.S).     *)
x86_trap(c, kind) ==
  /\ InUser(c, "x86_64")
  /\ LET r == cpu[c]
     IN  /\ cpu' = [cpu EXCEPT ![c] = [r EXCEPT !.mode = "kernel", !.reg = Zero, !.pc = "before",
                                                !.base = r.alt, !.alt = r.base, !.sp = r.vec]]
         /\ top' = [top EXCEPT ![r.vec] = switch_to_kernel_fs_base(Saved(r, kind), r)]

(* SAVE_REGS: sscratch holds the stack and is zeroed, and gp and tp change *)
(* places with the kernel's in the frame.                                  *)
riscv_trap(c, kind) ==
  /\ InUser(c, "riscv64")
  /\ LET r == cpu[c]
         f == [Saved(r, kind) EXCEPT !.tp = r.tp, !.base = r.base, !.fs = r.fs]
     IN  /\ cpu' = [cpu EXCEPT ![c] = [r EXCEPT !.mode = "kernel", !.reg = Zero, !.pc = "before",
                                                !.base = top[r.vec].base, !.tp = top[r.vec].tp,
                                                !.vec = NoStack, !.sp = r.vec]]
         /\ top' = [top EXCEPT ![r.vec] = riscv_trap_handler(f)]

(* sp_el1 is the kernel stack pointer itself; the per-CPU register stays.  *)
aarch64_trap(c, kind) ==
  /\ InUser(c, "aarch64")
  /\ LET r == cpu[c]
     IN  /\ cpu' = [cpu EXCEPT ![c] = [r EXCEPT !.mode = "kernel", !.reg = Zero, !.pc = "before",
                                                !.tp = Zero, !.sp = r.vec]]
         /\ top' = [top EXCEPT ![r.vec] = [Saved(r, kind) EXCEPT !.tp = r.tp]]

(* KSAVE_KSP holds the stack and KSAVE_R21 the kernel's r21.               *)
loongarch_trap(c, kind) ==
  /\ InUser(c, "loongarch64")
  /\ LET r == cpu[c]
         f == [Saved(r, kind) EXCEPT !.tp = r.tp, !.base = r.base]
     IN  /\ cpu' = [cpu EXCEPT ![c] = [r EXCEPT !.mode = "kernel", !.reg = Zero, !.pc = "before",
                                                !.base = r.alt, !.tp = Zero, !.sp = r.vec]]
         /\ top' = [top EXCEPT ![r.vec] = loongarch64_trap_handler(f)]

Trap(c) ==
  /\ \E kind \in {"syscall", "fault"} :
       /\ kind = "fault" => Doing("fault")
       /\ \/ x86_trap(c, kind) \/ riscv_trap(c, kind)
          \/ aarch64_trap(c, kind) \/ loongarch_trap(c, kind)
       /\ Expected(c, kind)
  /\ UNCHANGED <<arch, load, ctx, uctx, st, space>>

-----------------------------------------------------------------------------
(* A return to the program loads a frame.  The result of a system call is  *)
(* one of the general registers and is left out.                           *)
Loaded(r, u) == [r EXCEPT !.mode = "user", !.reg = u.reg, !.pc = u.pc, !.tp = u.tp]

(* The frame is popped.                                                    *)
Popped(s) == top' = [top EXCEPT ![s] = NoFrame]

(* On riscv64 the kernel's gp and tp stay in its place.                    *)
Left(s, gp, tp) == top' = [top EXCEPT ![s] = [NoFrame EXCEPT !.base = gp, !.tp = tp]]

(* The pops, switch_to_user_fs_base, swapgs, and iretq or sysretq.         *)
x86_return(c) ==
  /\ InKernel(c, "x86_64")
  /\ LET r == cpu[c]
     IN  cpu' = [cpu EXCEPT ![c] = [Loaded(r, top[r.sp]) EXCEPT !.base = r.alt,
                                                                 !.alt = r.base]]
  /\ Popped(cpu[c].sp)

(* Faulty variant: the kernel's gp is not put into the frame.              *)
riscv_returnDropsGp(c) ==
  /\ InKernel(c, "riscv64")
  /\ LET r == cpu[c]
         u == top[r.sp]
     IN  cpu' = [cpu EXCEPT ![c] = [Loaded(r, u) EXCEPT !.base = u.base, !.vec = r.sp]]
  /\ Left(cpu[c].sp, top[cpu[c].sp].base, Zero)

(* gp and tp change places with the frame, sscratch gets the stack, and    *)
(* the floating-point status stays what it is.                             *)
riscv_return(c) ==
  /\ InKernel(c, "riscv64")
  /\ LET r == cpu[c]
         u == top[r.sp]
     IN  cpu' = [cpu EXCEPT ![c] = [Loaded(r, u) EXCEPT !.base = u.base, !.vec = r.sp]]
  /\ Left(cpu[c].sp, cpu[c].base, cpu[c].tp)

aarch64_return(c) ==
  /\ InKernel(c, "aarch64")
  /\ LET r == cpu[c]
     IN  cpu' = [cpu EXCEPT ![c] = [Loaded(r, top[r.sp]) EXCEPT !.vec = r.sp]]
  /\ Popped(cpu[c].sp)

loongarch_return(c) ==
  /\ InKernel(c, "loongarch64")
  /\ LET r == cpu[c]
         u == top[r.sp]
     IN  cpu' = [cpu EXCEPT ![c] = [Loaded(r, u) EXCEPT !.base = u.base, !.alt = r.base,
                                                        !.vec = r.sp]]
  /\ Popped(cpu[c].sp)

(* The handler returns to the program that trapped.                        *)
Return(c) ==
  /\ cpu[c].cur \in Users /\ top[cpu[c].sp].kind # "none"
  /\ x86_return(c) \/ riscv_return(c) \/ aarch64_return(c) \/ loongarch_return(c)
  /\ UNCHANGED <<arch, load, ctx, uctx, st, mine, space>>

-----------------------------------------------------------------------------
(* enter_uspace with context u and the kernel stack of the current task.   *)
x86_enter(c, u) ==
  /\ InKernel(c, "x86_64")
  /\ LET r == cpu[c]
     IN  cpu' = [cpu EXCEPT ![c] = [Loaded(r, u) EXCEPT !.base = r.alt, !.alt = r.base]]
  /\ Popped(cpu[c].cur)

(* gp goes where the next trap looks for it; the status comes from u.      *)
riscv_enter(c, u) ==
  /\ InKernel(c, "riscv64")
  /\ LET r == cpu[c]
     IN  cpu' = [cpu EXCEPT ![c] = [Loaded(r, u) EXCEPT !.base = u.base, !.vec = r.cur,
                                                        !.fs = u.fs]]
  /\ Left(cpu[c].cur, cpu[c].base, cpu[c].tp)

aarch64_enter(c, u) ==
  /\ InKernel(c, "aarch64")
  /\ cpu' = [cpu EXCEPT ![c] = [Loaded(@, u) EXCEPT !.vec = cpu[c].cur]]
  /\ Popped(cpu[c].cur)

loongarch_enter(c, u) ==
  /\ InKernel(c, "loongarch64")
  /\ LET r == cpu[c]
     IN  cpu' = [cpu EXCEPT ![c] = [Loaded(r, u) EXCEPT !.base = u.base, !.alt = r.base,
                                                        !.vec = r.cur]]
  /\ Popped(cpu[c].cur)

enter_uspace(c, u) ==
  x86_enter(c, u) \/ riscv_enter(c, u) \/ aarch64_enter(c, u) \/ loongarch_enter(c, u)

(* A new thread runs for the first time.                                   *)
EnterNew(c) ==
  /\ \E t \in Users :
       /\ cpu[c].cur = t /\ st[t] = "new"
       /\ enter_uspace(c, uctx[t])
       /\ st' = [st EXCEPT ![t] = "live"]
       /\ uctx' = [uctx EXCEPT ![t] = NoFrame]
  /\ UNCHANGED <<arch, load, ctx, mine, space>>

(* The system call the task at c is in.                                    *)
InSyscall(c) ==
  /\ cpu[c].mode = "kernel" /\ cpu[c].cur \in Users
  /\ top[cpu[c].sp].kind = "syscall"

(* execve in a process with one thread: the areas change, the root and the *)
(* floating-point registers stay.  Those registers have no value the new   *)
(* program may rely on.                                                    *)
sys_execve(c) ==
  /\ Doing("execve") /\ InSyscall(c)
  /\ \E t \in Users :
       /\ cpu[c].cur = t
       /\ \A o \in Users \ {t} : st[o] \in {"new", "live"} => space[o].proc # space[t].proc
       /\ enter_uspace(c, new_uctx(Flip(mine[t].reg, t)))
       /\ mine' = [mine EXCEPT ![t] =
                     [reg |-> Flip(@.reg, t), pc |-> "before", tp |-> Zero,
                      base |-> IF arch = "x86_64" THEN @.base ELSE Zero, fp |-> Any]]
  /\ UNCHANGED <<arch, load, ctx, uctx, st, space>>

(* arch_prctl of x86_64: the FS base in the frame, the GS base where       *)
(* swapgs will find it.                                                    *)
sys_arch_prctl(c) ==
  /\ Doing("arch_prctl") /\ arch = "x86_64" /\ InSyscall(c)
  /\ \E t \in Users :
       /\ cpu[c].cur = t
       /\ \/ /\ top' = [top EXCEPT ![cpu[c].sp].tp = Flip(@, t)]
             /\ mine' = [mine EXCEPT ![t].tp = Flip(@, t)]
             /\ UNCHANGED cpu
          \/ /\ cpu' = [cpu EXCEPT ![c].alt = Flip(@, t)]
             /\ mine' = [mine EXCEPT ![t].base = Flip(@, t)]
             /\ UNCHANGED top
  /\ UNCHANGED <<arch, load, ctx, uctx, st, space>>

(* read_page_table_root: the register of the kernel's table where there is *)
(* one of its own.                                                         *)
read_page_table_root(c) == IF TwoRoots THEN KernelRoot ELSE cpu[c].root

(* sys_clone: the child starts from the parent's frame, with its own stack *)
(* and result, perhaps with a new thread pointer.  CLONE_THREAD takes the  *)
(* root from the register, CLONE_VM from the address space, and without it *)
(* the child has a copy of the space.  Floating-point registers and the GS *)
(* base of the child are zero.                                             *)
sys_clone(c) ==
  /\ InSyscall(c)
  /\ \E t \in Users, n \in Users, kind \in {"thread", "vm", "fork"} \cap load,
          tls \in {FALSE} \cup {Doing("settls")} :
       LET f == top[cpu[c].sp]
           own == space[t]
           tp == IF tls THEN <<n, 0>> ELSE f.tp
       IN  /\ cpu[c].cur = t /\ st[n] = "none"
           /\ ctx' = [ctx EXCEPT ![n] = set_page_table_root(new_ctx(n),
                                   CASE kind = "thread" -> read_page_table_root(c)
                                     [] kind = "vm" -> own.root
                                     [] kind = "fork" -> n)]
           /\ uctx' = [uctx EXCEPT ![n] = [f EXCEPT !.reg = <<n, 0>>, !.tp = tp, !.kind = "none"]]
           /\ mine' = [mine EXCEPT ![n] = [reg |-> <<n, 0>>, pc |-> "after", tp |-> tp,
                                            base |-> IF arch \in {"riscv64", "loongarch64"} THEN f.base
                                                     ELSE Zero,
                                            fp |-> Zero]]
           /\ space' = [space EXCEPT ![n] = [proc |-> IF kind = "thread" THEN own.proc ELSE n,
                                              root |-> IF kind = "fork" THEN n ELSE own.root]]
           /\ st' = [st EXCEPT ![n] = "new"]
  /\ UNCHANGED <<arch, load, cpu, top>>

-----------------------------------------------------------------------------
(* The root is only written if it differs from the one of the task that    *)
(* leaves.                                                                 *)
NextRoot(c, n) ==
  IF ctx[n].root # ctx[cpu[c].cur].root THEN ctx[n].root ELSE cpu[c].root

(* TaskContext::switch_to, from the current task to n.  Floating-point     *)
(* registers, KERNEL_GS_BASE, RSP0, the root, and the stack pointer.       *)
x86_switch_to(c, n) ==
  /\ InKernel(c, "x86_64")
  /\ LET r == cpu[c]
     IN  /\ ctx' = [ctx EXCEPT ![r.cur] = [@ EXCEPT !.sp = r.sp, !.base = r.alt, !.fp = r.fp]]
         /\ cpu' = [cpu EXCEPT ![c] =
                      [r EXCEPT !.cur = n, !.sp = ctx[n].sp, !.vec = n, !.alt = ctx[n].base,
                                !.fp = ctx[n].fp, !.root = NextRoot(c, n)]]

(* Floating-point registers are saved if they are dirty, and loaded, or    *)
(* cleared for a task that never changed them.                             *)
riscv_switch_to(c, n) ==
  /\ InKernel(c, "riscv64")
  /\ LET r == cpu[c]
         dirty == r.fs = "Dirty"
     IN  /\ ctx' = [ctx EXCEPT ![r.cur] = [@ EXCEPT !.sp = r.sp,
                                             !.fp = IF dirty THEN r.fp ELSE @,
                                             !.fs = IF dirty THEN "Clean" ELSE @]]
         /\ cpu' = [cpu EXCEPT ![c] =
                      [r EXCEPT !.cur = n, !.sp = ctx[n].sp, !.root = NextRoot(c, n),
                                !.fp = IF ctx[n].fs = "Clean" THEN ctx[n].fp ELSE Zero,
                                !.fs = ctx[n].fs]]

(* sp is sp_el1, so the stack of the next trap changes with it.            *)
aarch64_switch_to(c, n) ==
  /\ InKernel(c, "aarch64")
  /\ LET r == cpu[c]
     IN  /\ ctx' = [ctx EXCEPT ![r.cur] = [@ EXCEPT !.sp = r.sp, !.fp = r.fp]]
         /\ cpu' = [cpu EXCEPT ![c] =
                      [r EXCEPT !.cur = n, !.sp = ctx[n].sp, !.vec = ctx[n].sp,
                                !.fp = ctx[n].fp, !.root = NextRoot(c, n)]]

(* No floating-point registers.                                            *)
loongarch_switch_to(c, n) ==
  /\ InKernel(c, "loongarch64")
  /\ LET r == cpu[c]
     IN  /\ ctx' = [ctx EXCEPT ![r.cur] = [@ EXCEPT !.sp = r.sp]]
         /\ cpu' = [cpu EXCEPT ![c] = [r EXCEPT !.cur = n, !.sp = ctx[n].sp,
                                                !.root = NextRoot(c, n)]]

switch_to(c, n) ==
  \/ x86_switch_to(c, n) \/ riscv_switch_to(c, n)
  \/ aarch64_switch_to(c, n) \/ loongarch_switch_to(c, n)

(* Nobody runs n, and it can run here.                                     *)
Runnable(c, n) ==
  /\ \A d \in Cpus : cpu[d].cur # n
  /\ n \in Users => st[n] \in {"new", "live"}
  /\ n \in Cpus => n = c

(* The scheduler switches from a task that yields or blocks in the kernel. *)
Switch(c) ==
  /\ cpu[c].cur \in Users => st[cpu[c].cur] = "live"
  /\ \E n \in CtxTasks : Runnable(c, n) /\ switch_to(c, n)
  /\ UNCHANGED <<arch, load, top, uctx, st, mine, space>>

(* The current task exits in a system call or after a fault.  Nothing of   *)
(* it is used again.                                                       *)
Exit(c) ==
  /\ Doing("exit") /\ cpu[c].cur \in Users /\ st[cpu[c].cur] = "live"
  /\ \E n \in CtxTasks : Runnable(c, n) /\ switch_to(c, n)
  /\ st' = [st EXCEPT ![cpu[c].cur] = "dead"]
  /\ top' = [top EXCEPT ![cpu[c].cur] = NoFrame]
  /\ mine' = [mine EXCEPT ![cpu[c].cur] = Initial(cpu[c].cur)]
  /\ UNCHANGED <<arch, load, uctx, space>>

Next == \E c \in Cpus :
  \/ UserStep(c) \/ UserFloat(c) \/ Trap(c) \/ Return(c) \/ EnterNew(c)
  \/ sys_execve(c) \/ sys_arch_prctl(c) \/ sys_clone(c) \/ Switch(c) \/ Exit(c)

Spec == Init /\ [][Next]_vars

-----------------------------------------------------------------------------
(* A program finds its own general registers, program counter, thread      *)
(* pointer and GS base (gp, r21) whenever it runs, whatever traps,         *)
(* switches, clones and moves to other CPUs came in between; the table     *)
(* loaded is the one of its address space (of its TaskContext where the    *)
(* kernel has a root register of its own, see SameSpace), and the next     *)
(* trap will find its kernel stack.                                        *)
UserOwn == \A c \in Cpus : cpu[c].mode = "user" =>
  LET r == cpu[c]
      m == mine[r.cur]
  IN  /\ r.reg = m.reg /\ r.pc = m.pc /\ r.tp = m.tp
      /\ Swaps => r.base = m.base
      /\ r.root = IF TwoRoots THEN ctx[r.cur].root ELSE space[r.cur].root
      /\ r.vec = r.cur

(* Where switch_to handles the floating-point registers, a program finds   *)
(* what it left in them, and zeros at its start.                           *)
FloatOwn == \A c \in Cpus :
  cpu[c].mode = "user" /\ arch # "loongarch64" =>
    mine[cpu[c].cur].fp \in {Any, cpu[c].fp}

(* The kernel runs on the stack of the current task and finds the per-CPU  *)
(* data of this CPU, even for a task that came from another one.  On       *)
(* riscv64 sscratch is zero, which is how a trap from the kernel is told   *)
(* apart; on x86_64 RSP0 is what enter_uspace asserts.  No task runs on    *)
(* two CPUs.                                                               *)
KernelOwn == \A c \in Cpus :
  /\ cpu[c].mode = "kernel" =>
       /\ cpu[c].sp = cpu[c].cur
       /\ cpu[c].base = <<c, 0>>
       /\ arch = "riscv64" => cpu[c].vec = NoStack
       /\ arch = "x86_64" => cpu[c].vec = cpu[c].cur
  /\ \A d \in Cpus : cpu[d].cur = cpu[c].cur => d = c

(* A thread runs in the address space it was cloned into: with CLONE_VM    *)
(* the caller's.                                                           *)
SameSpace == \A c \in Cpus :
  cpu[c].mode = "user" => cpu[c].root = space[cpu[c].cur].root

=============================================================================
