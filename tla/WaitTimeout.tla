---------------------------- MODULE WaitTimeout ----------------------------
(***************************************************************************)
(* The blocking operations of axtask's wait queues and of sleep_until, and *)
(* the timer list that ends the timed ones (wait_queue.rs, timers.rs and   *)
(* sleep_until in run_queue.rs), on several CPUs.                          *)
(*                                                                         *)
(* A timer event carries a ticket and is ignored when the task's ticket is *)
(* another by then.  It fires in the timer interrupt of the CPU on which   *)
(* the task set it.  Interrupts are off from the deadline test to the      *)
(* context switch, so an event cannot fire there while the task is on that *)
(* CPU; it can once the task has been switched out and may have been       *)
(* resumed on another CPU (moved).                                         *)
(***************************************************************************)
EXTENDS WaitQueue

CONSTANT MaxTicket   \* bound on the tickets handed out by set_alarm_wakeup

ASSUME MaxTicketAssumption == MaxTicket \in Nat

VARIABLES op,            \* op[t]: the operation t is in
          pc,            \* pc[t]: where t is in it
          at,            \* at[t]: the queue it works on
          waking,        \* waking[t]: the task t popped in notify_one
          cond,          \* cond[q]: what the condition closures of q evaluate to
          timer_ticket,  \* timer_ticket[t]: timer_ticket_id, 0 when expired
          ticket_id,     \* TIMER_TICKET_ID: the next ticket
          timers,        \* the events in the timer lists
          firing,        \* tasks whose event passed the ticket check
          due,           \* due[t]: the deadline t set has passed
          moved,         \* moved[t]: t was switched out since it set its alarm
          timeout        \* timeout[t]: the result of the last wait_timeout*

timeVars == <<timer_ticket, ticket_id, timers, firing, due, moved, timeout>>
callVars == <<op, pc, at, waking, cond>>
vars == <<wqVars, callVars, timeVars>>

Timed == {"wait_timeout", "wait_timeout_until", "sleep_until"}
Conditional == {"wait_until", "wait_timeout_until"}
AllOps == {"wait", "wait_until", "notify_one", "notify_all"} \cup Timed
PCs == {"out", "loop", "lock", "check", "push", "asleep", "woken", "cancel",
        "pop", "unblock"}

(* The types of the variables.                                             *)
TypeOK ==
  /\ WQTypeOK
  /\ op \in [Tasks -> AllOps]
  /\ pc \in [Tasks -> PCs]
  /\ at \in [Tasks -> Queues]
  /\ waking \in [Tasks -> Tasks \cup {NoTask}]
  /\ cond \in [Queues -> BOOLEAN]
  /\ timer_ticket \in [Tasks -> 0..MaxTicket]
  /\ ticket_id \in 1..MaxTicket + 1
  /\ timers \subseteq [ticket : 1..MaxTicket, task : Tasks]
  /\ firing \subseteq Tasks
  /\ due \in [Tasks -> BOOLEAN]
  /\ moved \in [Tasks -> BOOLEAN]
  /\ timeout \in [Tasks -> BOOLEAN]

Init ==
  /\ WQInit
  /\ op = [t \in Tasks |-> "notify_one"]
  /\ pc = [t \in Tasks |-> "out"]
  /\ at \in [Tasks -> Queues]
  /\ waking = [t \in Tasks |-> NoTask]
  /\ cond = [q \in Queues |-> FALSE]
  /\ timer_ticket = [t \in Tasks |-> 0]
  /\ ticket_id = 1
  /\ timers = {}
  /\ firing = {}
  /\ due = [t \in Tasks |-> FALSE]
  /\ moved = [t \in Tasks |-> FALSE]
  /\ timeout = [t \in Tasks |-> FALSE]

At(t, l) == state[t] = "Running" /\ pc[t] = l

Goto(t, l) == pc' = [pc EXCEPT ![t] = l]

-----------------------------------------------------------------------------
(* The task calls an operation.  A notifier first changes what the queue's *)
(* condition depends on.                                                   *)
Call(t, o, q) ==
  /\ At(t, "out")
  /\ op' = [op EXCEPT ![t] = o]
  /\ at' = [at EXCEPT ![t] = q]
  /\ timeout' = [timeout EXCEPT ![t] = FALSE]
  /\ UNCHANGED <<wqVars, waking, firing>>

CallWait(t, o, q) ==
  /\ o \in {"wait", "wait_until"}
  /\ Call(t, o, q)
  /\ Goto(t, "lock")
  /\ UNCHANGED <<cond, timer_ticket, ticket_id, timers, due, moved>>

CallNotify(t, o, q, c) ==
  /\ o \in {"notify_one", "notify_all"}
  /\ Call(t, o, q)
  /\ cond' = [cond EXCEPT ![q] = c]
  /\ Goto(t, "pop")
  /\ UNCHANGED <<timer_ticket, ticket_id, timers, due, moved>>

(* set_alarm_wakeup: take the next ticket, make it the task's, and add the *)
(* event to this CPU's timer list.                                         *)
set_alarm_wakeup(t) ==
  /\ ticket_id <= MaxTicket
  /\ ticket_id' = ticket_id + 1
  /\ timer_ticket' = [timer_ticket EXCEPT ![t] = ticket_id]
  /\ timers' = timers \cup {[ticket |-> ticket_id, task |-> t]}
  /\ due' = [due EXCEPT ![t] = FALSE]
  /\ moved' = [moved EXCEPT ![t] = FALSE]

CallTimed(t, o, q) ==
  /\ o \in {"wait_timeout", "wait_timeout_until"}
  /\ Call(t, o, q)
  /\ set_alarm_wakeup(t)
  /\ Goto(t, IF o = "wait_timeout" THEN "lock" ELSE "loop")
  /\ UNCHANGED cond

(* sleep_until with a deadline in the future: set the alarm and block,     *)
(* outside any wait queue.                                                 *)
CallSleep(t) ==
  /\ At(t, "out")
  /\ set_alarm_wakeup(t)
  /\ op' = [op EXCEPT ![t] = "sleep_until"]
  /\ state' = [state EXCEPT ![t] = "Blocked"]
  /\ Goto(t, "asleep")
  /\ UNCHANGED <<queue, guard, in_wait_queue, at, waking, cond, firing, timeout>>

(* sleep_until returns.                                                    *)
Wakeup(t) ==
  /\ At(t, "asleep")
  /\ Goto(t, "out")
  /\ UNCHANGED <<wqVars, op, at, waking, cond, timeVars>>

(* The loop of wait_timeout_until tests the deadline first; timeout is     *)
(* still true when it breaks here.                                         *)
TestDeadline(t) ==
  /\ At(t, "loop")
  /\ Goto(t, IF due[t] THEN "cancel" ELSE "lock")
  /\ timeout' = [timeout EXCEPT ![t] = due[t]]
  /\ UNCHANGED <<wqVars, op, at, waking, cond, timer_ticket, ticket_id, timers,
                 firing, due, moved>>

Lock(t) ==
  /\ At(t, "lock")
  /\ LockQueue(at[t], t)
  /\ Goto(t, IF op[t] \in Conditional THEN "check" ELSE "push")
  /\ UNCHANGED <<op, at, waking, cond, timeVars>>

(* condition() is true: break and drop the lock.                           *)
CondTrue(t) ==
  /\ At(t, "check")
  /\ cond[at[t]]
  /\ UnlockQueue(at[t], t)
  /\ Goto(t, "cancel")
  /\ UNCHANGED <<op, at, waking, cond, timeVars>>

CondFalse(t) ==
  /\ At(t, "check")
  /\ ~cond[at[t]]
  /\ Goto(t, "push")
  /\ UNCHANGED <<wqVars, op, at, waking, cond, timeVars>>

(* Where blocked_resched returns to in each operation.                     *)
AfterBlock(o) ==
  CASE o = "wait_until" -> "lock"
    [] o = "wait_timeout_until" -> "loop"
    [] OTHER -> "woken"

Push(t) ==
  /\ At(t, "push")
  /\ BlockedResched(at[t], t)
  /\ Goto(t, AfterBlock(op[t]))
  /\ UNCHANGED <<op, at, waking, cond, timeVars>>

(* wait_timeout takes the flag for its answer: "still in the wait queue,   *)
(* must have timed out".                                                   *)
Woken(t) ==
  /\ At(t, "woken")
  /\ timeout' = [timeout EXCEPT ![t] = op[t] = "wait_timeout" /\ in_wait_queue[t]]
  /\ Goto(t, "cancel")
  /\ UNCHANGED <<wqVars, op, at, waking, cond, timer_ticket, ticket_id, timers,
                 firing, due, moved>>

(* cancel_events; the timed operations also expire the task's ticket.      *)
Cancel(t) ==
  /\ At(t, "cancel")
  /\ CancelEvents(at[t], t)
  /\ timer_ticket' = IF op[t] \in Timed
                     THEN [timer_ticket EXCEPT ![t] = 0] ELSE timer_ticket
  /\ Goto(t, "out")
  /\ UNCHANGED <<op, at, waking, cond, ticket_id, timers, firing, due, moved,
                 timeout>>

(* notify_one up to the pop; notify_all repeats it until the queue is      *)
(* empty.                                                                  *)
Pop(t) ==
  LET q == at[t]
  IN /\ At(t, "pop")
     /\ \/ PopNothing(q) /\ Goto(t, "out") /\ UNCHANGED waking
        \/ /\ PopFront(q, t)
           /\ waking' = [waking EXCEPT ![t] = Head(queue[q])]
           /\ Goto(t, "unblock")
     /\ UNCHANGED <<op, at, cond, timeVars>>

Unblock(t) ==
  /\ At(t, "unblock")
  /\ UnblockOneTask(at[t], t, waking[t])
  /\ waking' = [waking EXCEPT ![t] = NoTask]
  /\ Goto(t, IF op[t] = "notify_all" THEN "pop" ELSE "out")
  /\ UNCHANGED <<op, at, cond, timeVars>>

Run(t) ==
  /\ Dispatch(t)
  /\ moved' = [moved EXCEPT ![t] = TRUE]
  /\ UNCHANGED <<callVars, timer_ticket, ticket_id, timers, firing, due, timeout>>

-----------------------------------------------------------------------------
(* Faulty variant: the queue's guard leaves interrupts on.                 *)
IrqsStayOn(t) == FALSE

(* The task is on the CPU of its timer event with interrupts off.          *)
IrqsOff(t) ==
  /\ state[t] = "Running"
  /\ ~moved[t]
  /\ pc[t] \in {"lock", "check", "push"}

(* Time reaches the deadline of the last alarm t set.                      *)
DeadlinePasses(t) ==
  /\ ~due[t]
  /\ \E e \in timers : e.task = t /\ e.ticket = timer_ticket[t]
  /\ due' = [due EXCEPT ![t] = TRUE]
  /\ UNCHANGED <<wqVars, callVars, timer_ticket, ticket_id, timers, firing,
                 moved, timeout>>

(* check_events expires an event and its callback compares the tickets.    *)
(* The event of an earlier, cancelled alarm may expire at any time.  A     *)
(* task that was running on this CPU goes on only after the callback, for  *)
(* which there is nothing to unblock.                                      *)
Expire(e) ==
  LET live == e.ticket = timer_ticket[e.task]
  IN /\ ~IrqsOff(e.task)
     /\ e.task \notin firing
     /\ live => due[e.task]
     /\ timers' = timers \ {e}
     /\ firing' = IF live /\ (state[e.task] = "Running" => moved[e.task])
                  THEN firing \cup {e.task} ELSE firing
     /\ UNCHANGED <<wqVars, callVars, timer_ticket, ticket_id, due, moved, timeout>>

(* The callback unblocks the task.                                         *)
Fire(t) ==
  /\ t \in firing
  /\ firing' = firing \ {t}
  /\ state' = Unblocked(t)
  /\ UNCHANGED <<queue, guard, in_wait_queue, callVars, timer_ticket, ticket_id,
                 timers, due, moved, timeout>>

Step(t) ==
  \/ Wakeup(t) \/ TestDeadline(t) \/ Lock(t) \/ CondTrue(t) \/ CondFalse(t)
  \/ Push(t) \/ Woken(t) \/ Cancel(t) \/ Pop(t) \/ Unblock(t) \/ Run(t)

Timer(t) ==
  \/ DeadlinePasses(t)
  \/ \E e \in timers : e.task = t /\ Expire(e)
  \/ Fire(t)

(* t calls the operation o, on the queue q if it is one of a queue.        *)
Begin(t, o, q) ==
  \/ CallWait(t, o, q)
  \/ CallTimed(t, o, q)
  \/ \E c \in BOOLEAN : CallNotify(t, o, q, c)
  \/ o = "sleep_until" /\ CallSleep(t)

Next ==
  \E t \in Tasks :
    \/ \E q \in Queues, o \in AllOps : Begin(t, o, q)
    \/ Step(t)
    \/ Timer(t)

Spec == Init /\ [][Next]_vars

(* Tasks run on, deadlines pass, timer interrupts come, and a spin lock    *)
(* that is free again and again is eventually won.                         *)
Fairness ==
  \A t \in Tasks :
    /\ WF_vars(Step(t)) /\ WF_vars(DeadlinePasses(t)) /\ WF_vars(Fire(t))
    /\ WF_vars(\E e \in timers : e.task = t /\ Expire(e))
    /\ SF_vars(Lock(t) \/ Pop(t) \/ Cancel(t))

-----------------------------------------------------------------------------
InQueue(t) == \E q \in Queues : \E i \in DOMAIN queue[q] : queue[q][i] = t

(* Somebody can still wake t: it is in a queue, it was popped and is about *)
(* to be unblocked, or its timer event is pending or being handled.        *)
Wakeable(t) ==
  \/ InQueue(t)
  \/ \E u \in Tasks : waking[u] = t
  \/ t \in firing
  \/ \E e \in timers : e.task = t /\ e.ticket = timer_ticket[t]

(* No task sleeps where neither a notifier nor a timer can find it, however *)
(* timer events, notifiers and cancel_events race for it.                  *)
SleepersWakeable ==
  \A t \in Tasks : state[t] = "Blocked" => Wakeable(t)

(* A task that is not inside a wait has left every queue: cancel_events or *)
(* the notifier took it out, so no later notify_one is spent on it.        *)
NoStaleEntry ==
  \A t \in Tasks : pc[t] = "out" => ~InQueue(t)

(* wait(): "until other task notifies it" (wait_queue.rs:76-77).  The flag *)
(* is clear when wait() resumes, because a notifier popped the task.       *)
WaitEndsByNotify ==
  \A t \in Tasks :
    (At(t, "woken") /\ op[t] = "wait") => ~in_wait_queue[t]

(* wait_timeout and sleep_until return, by notification or when their time *)
(* is up, even if nobody ever notifies: the alarm is set before the task   *)
(* blocks and cannot fire before it has.                                   *)
TimedReturns ==
  \A t \in Tasks :
    (op[t] \in {"wait_timeout", "sleep_until"} /\ pc[t] # "out") ~> (pc[t] = "out")
=============================================================================
