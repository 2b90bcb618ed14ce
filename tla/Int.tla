-------------------------------- MODULE Int ---------------------------------
(***************************************************************************)
(* Interrupts (kernel/int.c, and the interrupt entry and exit code of      *)
(* cpu/ia32/asm.s and cpu/arm/asm.s), and the time-outs of the tasks       *)
(* (timer_tic() in kernel/timer.c), which the clock's handler counts.      *)
(***************************************************************************)
EXTENDS Task

(* An interrupt is taken on the stack of the running task.                 *)
Interrupt ==
  /\ ints[this] /\ irq[this] < MaxNest
  /\ irq' = [irq EXCEPT ![this] = @ + 1]
  /\ below' = IF irq[this] = 0 THEN [below EXCEPT ![this] = pc[this]] ELSE below
  /\ pc' = [pc EXCEPT ![this] = "isr"]
  /\ ints' = [ints EXCEPT ![this] = FALSE]
  /\ int_mode' = TRUE
  /\ UNCHANGED <<task_q, state, cpu, arg, tcbVars, objVars, histVars>>

(* The tasks whose time_count is counted down, and those for which it gets *)
(* to 0.                                                                   *)
Counting_Bug(t) == t \in Range(Tail(task_q)) /\ timer_active[t]
Counting(t) == t \in Range(task_q) /\ timer_active[t]
Pops(t)     == Counting(t) /\ (time_count[t] - 1) % Wrap = 0

(* The time of some tasks is up.                                           *)
Expire_Bug == /\ timer_active' = [t \in Tasks |-> timer_active[t] /\ ~Pops(t)]
              /\ state' = [t \in Tasks |-> IF Pops(t) THEN "READY" ELSE state[t]]
              /\ UNCHANGED time_out
Expire == /\ timer_active' = [t \in Tasks |-> timer_active[t] /\ ~Pops(t)]
          /\ time_out' = [t \in Tasks |-> time_out[t] \/ Pops(t)]
          /\ state' = [t \in Tasks |-> IF Pops(t) THEN "READY" ELSE state[t]]

(* timer_tic(), once the timers' functions have been called.  It is the    *)
(* last call of the clock's interrupt handler.                             *)
TimerTic ==
  /\ pc[this] = "isr" /\ <<"timer_tic">> \in IsrCalls
  /\ time_count' = [t \in Tasks |-> IF Counting(t)
                                    THEN (time_count[t] - 1) % Wrap
                                    ELSE time_count[t]]
  /\ Expire
  /\ waited' = [t \in Tasks |-> IF /\ pc[t] \in {"sem_get", "msg_get", "delay"}
                                   /\ waited[t] < MaxTics
                                THEN waited[t] + 1 ELSE waited[t]]
  /\ pc' = [pc EXCEPT ![this] = "tic_done"]
  /\ UNCHANGED <<task_q, cpu, ctxVars, ints, int_mode, got_resource,
                 wait_id, objVars, patience>>

(* What int_run() does after the handler: the interrupted task is made     *)
(* ready, and gives way to a more urgent one or runs on.                   *)
Reschedule_Bug ==
  \E n \in Tasks :
     /\ IsNext(n, task_q, state)
     /\ IF Prio(this) > Prio(n)
        THEN state' = [state EXCEPT ![n] = "RUNNING"] /\ cpu' = n
        ELSE UNCHANGED <<state, cpu>>
Reschedule ==
  \E n \in Tasks :
     /\ IsNext(n, task_q, [state EXCEPT ![this] = "READY"])
     /\ IF Prio(this) > Prio(n)
        THEN /\ state' = [state EXCEPT ![this] = "READY", ![n] = "RUNNING"]
             /\ cpu' = n
        ELSE /\ state' = [state EXCEPT ![this] = "RUNNING"]
             /\ UNCHANGED cpu

IntRunEnd ==
  /\ pc[this] \in {"isr", "tic_done"}
  /\ int_mode' = FALSE
  /\ irq' = [irq EXCEPT ![this] = @ - 1]
  /\ pc' = [pc EXCEPT ![this] = IF irq[this] = 1 THEN below[this] ELSE "isr"]
  /\ below' = IF irq[this] = 1 THEN [below EXCEPT ![this] = "user"] ELSE below
  /\ ints' = [ints EXCEPT ![this] = TRUE]
  /\ Reschedule
  /\ UNCHANGED <<task_q, arg, tcbVars, objVars, histVars>>
=============================================================================
