-------------------------------- MODULE Sem ---------------------------------
(***************************************************************************)
(* Semaphores (kernel/sem.c): sem_get() and sem_give() on the semaphores   *)
(* that sem_new() made before.                                             *)
(***************************************************************************)
EXTENDS Task

(* sem_get(s, n) when the count is not zero, or n is DONT_WAIT.  It does   *)
(* not block, and may be called by an interrupt handler too.               *)
SemGetNow(s, n) ==
  /\ Caller(<<"sem_get", s, n>>)
  /\ \/ /\ count_now[s] # 0
        /\ count_now' = [count_now EXCEPT ![s] = @ - 1]
        /\ Debit(s)
     \/ /\ count_now[s] = 0 /\ n = DONT_WAIT        \* E_RES
        /\ UNCHANGED <<count_now, tokens>>
  /\ Return
  /\ UNCHANGED <<task_q, ctxVars, int_mode, tcbVars, num_msgs, histVars>>

(* sem_get(s, n) when it has to wait.  A timer that is already running is  *)
(* not stopped by WAIT_FOREVER, and time_out keeps its value.              *)
SemGetWait(s, n) ==
  /\ TaskCaller(<<"sem_get", s, n>>)
  /\ count_now[s] = 0 /\ n # DONT_WAIT
  /\ wait_id' = [wait_id EXCEPT ![this] = s]
  /\ got_resource' = [got_resource EXCEPT ![this] = FALSE]
  /\ IF n = WAIT_FOREVER
     THEN UNCHANGED <<time_count, timer_active>>
     ELSE /\ time_count' = [time_count EXCEPT ![this] = n]
          /\ timer_active' = [timer_active EXCEPT ![this] = TRUE]
  /\ Block(n, s, "sem_get")
  /\ UNCHANGED <<task_q, below, irq, int_mode, time_out, objVars>>

(* sem_get() after task_run_next(): E_TIMEOUT or GOOD.  wait_id is cleared *)
(* by a giver only, and a time-out leaves it set.                          *)
SemGetResume ==
  /\ pc[this] = "sem_get"
  /\ IF TimedOut(this)
     THEN UNCHANGED tokens
     ELSE Debit(arg[this])
  /\ Unblock(~int_mode)
  /\ UNCHANGED <<task_q, state, cpu, below, irq, int_mode, tcbVars,
                 count_now, num_msgs>>

(* The task that sem_give() picks owns the semaphore.                      *)
Grant_Bug(w) == /\ got_resource' = [got_resource EXCEPT ![w] = TRUE]
                /\ wait_id' = [wait_id EXCEPT ![w] = NoId]
                /\ UNCHANGED <<timer_active, time_out>>
Grant(w) == /\ got_resource' = [got_resource EXCEPT ![w] = TRUE]
            /\ timer_active' = [timer_active EXCEPT ![w] = FALSE]
            /\ time_out' = [time_out EXCEPT ![w] = FALSE]
            /\ wait_id' = [wait_id EXCEPT ![w] = NoId]

AtMax_Bug(s) == count_now[s] > CountMax[s]
AtMax(s) == count_now[s] = CountMax[s]

(* sem_give(s): the count goes up, and when it was 0 goes down again if a  *)
(* task waits for s, which then owns the semaphore.                        *)
SemGive(s) ==
  /\ Caller(<<"sem_give", s>>)
  /\ \/ /\ AtMax(s)                                   \* BAD
        /\ Return
        /\ UNCHANGED <<count_now, tokens, tcbVars>>
     \/ /\ ~AtMax(s)
        /\ \/ count_now[s] # 0
           \/ \A w \in Range(task_q) : ~Awaits(w, s)
        /\ count_now' = [count_now EXCEPT ![s] = @ + 1]
        /\ Credit(s)
        /\ Return
        /\ UNCHANGED tcbVars
     \/ /\ ~AtMax(s) /\ count_now[s] = 0
        /\ Credit(s)
        /\ \E w \in Tasks :
              /\ IsFirstAwaiting(w, s)
              /\ Grant(w)
              /\ Preempt(w, task_q, [state EXCEPT ![w] = "READY"])
        /\ UNCHANGED <<count_now, time_count>>
  /\ UNCHANGED <<task_q, ctxVars, int_mode, num_msgs, histVars>>
=============================================================================
