------------------------------- MODULE MCWait -------------------------------
(* WaitTimeout for TLC.  A workload says which tasks call which operations *)
(* on which queues, and how many alarms they set.                          *)
EXTENDS WaitTimeout

CONSTANTS t1, t2, t3, q1, q2

VARIABLE load

Untimed == AllOps \ Timed

Loads ==
  { (* a notifier and two sleepers, or a sleeper and two notifiers           *)
    [tasks |-> {t1, t2, t3}, queues |-> {q1}, ops |-> Untimed, tickets |-> 0],
    (* a task that returns to another queue, or sleeps, after a wait         *)
    [tasks |-> {t1, t2}, queues |-> {q1, q2},
     ops |-> Untimed \cup {"sleep_until"}, tickets |-> 1],
    (* timer events against notifiers, and an old event in a new wait        *)
    [tasks |-> {t1, t2}, queues |-> {q1}, ops |-> Timed \cup {"notify_one"},
     tickets |-> 2] }

MCInit == Init /\ load \in Loads /\ \A t \in Tasks : at[t] = q1

MCNext ==
  /\ UNCHANGED load
  /\ \E t \in load.tasks :
       \/ \E q \in load.queues, o \in load.ops :
            /\ o \in Timed => ticket_id <= load.tickets
            /\ Begin(t, o, q)
       \/ Step(t)
       \/ Timer(t)

MCSpec == MCInit /\ [][MCNext]_<<load, vars>> /\ Fairness

(* A task that is not inside a wait has left every queue, as long as no    *)
(* timed operation leaves a second entry behind: cancel_events or the      *)
(* notifier took it out, so no later notify_one is spent on it.            *)
UntimedLeaveNone == load.ops \cap Timed \subseteq {"sleep_until"} => NoStaleEntry

(* Both: no sleeper is out of reach, and no entry outlives its wait.       *)
QueuesTrue == TypeOK /\ SleepersWakeable /\ UntimedLeaveNone
=============================================================================
