------------------------------- MODULE Sched --------------------------------
(***************************************************************************)
(* What the drivers and the modules need of the kernel, one call a step:   *)
(* semaphores, task_sleep(), task_wake() by a handler and the switch at a  *)
(* handler's end (kernel/sem.c, task_api.c, int.c).  Kernel.tla has these  *)
(* calls in detail.  A task is ready, asleep, or waits for a semaphore;    *)
(* the idle task, the last of the queue, is always ready.                  *)
(***************************************************************************)
EXTENDS Integers, Sequences

CONSTANTS
  TaskQ,      \* kernel.task_q, most urgent first
  Priority,   \* tcb_t.priority
  CountMax    \* sem_t.count_max

Tasks == {TaskQ[i] : i \in DOMAIN TaskQ}

ASSUME SchedAssumption ==
  /\ Priority \in [Tasks -> Nat]
  /\ \A i, j \in DOMAIN TaskQ : i < j => Priority[TaskQ[i]] <= Priority[TaskQ[j]]

VARIABLES
  run,       \* the running task
  status,    \* tcb_t.state, and for a task that waits its wait_id
  count_now, \* sem_t.count_now
  isr,       \* "off", or where the handler that is running is
  pc,        \* where each task is
  missed     \* history: tasks woken after they last looked, before they slept

schedVars == <<run, status, count_now, isr, missed>>

First(st) == CHOOSE t \in Tasks :
               \E i \in DOMAIN TaskQ :
                  /\ TaskQ[i] = t /\ st[t] = "READY"
                  /\ \A j \in 1..(i - 1) : st[TaskQ[j]] # "READY"

(* Task t does its next step, with interrupts enabled before and after it. *)
Step(t, from, to) ==
  /\ run = t /\ isr = "off" /\ pc[t] = from
  /\ pc' = [pc EXCEPT ![t] = to]

Sleep == /\ status' = [status EXCEPT ![run] = "SLEEPING"]
         /\ run' = First(status')
         /\ UNCHANGED <<count_now, isr, missed>>

(* sem_get(s, WAIT_FOREVER).                                               *)
Get(s) ==
  /\ \/ /\ count_now[s] # 0
        /\ count_now' = [count_now EXCEPT ![s] = @ - 1]
        /\ UNCHANGED <<status, run>>
     \/ /\ count_now[s] = 0
        /\ status' = [status EXCEPT ![run] = s]
        /\ run' = First(status')
        /\ UNCHANGED count_now
  /\ UNCHANGED <<isr, missed>>

(* sem_give(s): BAD at the maximum; the first task that waits gets it.     *)
Gives_Bug(s) == TRUE
Gives(s) == count_now[s] # CountMax[s]
Give(s) ==
  /\ LET waiting == {t \in Tasks : status[t] = s}
         w == First([t \in Tasks |-> IF t \in waiting THEN "READY" ELSE "no"])
     IN  \/ /\ ~Gives(s)
            /\ UNCHANGED <<count_now, status, run>>
         \/ /\ Gives(s) /\ (count_now[s] # 0 \/ waiting = {})
            /\ count_now' = [count_now EXCEPT ![s] = @ + 1]
            /\ UNCHANGED <<status, run>>
         \/ /\ Gives(s) /\ count_now[s] = 0 /\ waiting # {}
            /\ status' = [status EXCEPT ![w] = "READY"]
            /\ run' = IF Priority[run] > Priority[w] THEN First(status') ELSE run
            /\ UNCHANGED count_now
  /\ UNCHANGED <<isr, missed>>

(* task_wake(t) in a handler: in vain unless t sleeps.                     *)
Wake(t) == /\ status' = IF status[t] = "SLEEPING" THEN [status EXCEPT ![t] = "READY"]
                                                  ELSE status
           /\ missed' = IF pc[t] = "sleep" THEN missed \cup {t} ELSE missed

(* The end of a handler, st being the states it leaves.                    *)
HandlerEnd(st) == /\ isr' = "off"
                  /\ run' = IF Priority[run] > Priority[First(st)] THEN First(st) ELSE run
=============================================================================
