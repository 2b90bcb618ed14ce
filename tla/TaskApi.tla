------------------------------ MODULE TaskApi -------------------------------
(***************************************************************************)
(* The task API (kernel/task_api.c).                                       *)
(***************************************************************************)
EXTENDS Task

(* task_new(): by a task, or by bsp_post_init() in the idle task, which    *)
(* then still runs at priority 0.  Its memory is there.                    *)
TaskNew(n) ==
  /\ \/ TaskCaller(<<"task_new", n>>)
     \/ pc[this] = "boot" /\ n \in BootTasks
  /\ state[n] = "none"
  /\ AddToQ(task_q, n, Priority[n])
  /\ Preempt(n, task_q', [state EXCEPT ![n] = "READY"])
  /\ UNCHANGED <<ctxVars, int_mode, tcbVars, objVars, histVars>>

(* task_delete(d): not for the caller itself; interrupts stay as they are. *)
TaskDelete(d) ==
  /\ TaskCaller(<<"task_delete", d>>) /\ d # this /\ state[d] # "none"
  /\ state' = [state EXCEPT ![d] = "DELETE"]
  /\ UNCHANGED <<task_q, cpu, pc, ctxVars, ints, int_mode, tcbVars, objVars,
                 histVars>>

(* task_delay(n)                                                           *)
TaskDelay(n) ==
  /\ TaskCaller(<<"task_delay", n>>)
  /\ time_count' = [time_count EXCEPT ![this] = n]
  /\ time_out' = [time_out EXCEPT ![this] = FALSE]
  /\ timer_active' = [timer_active EXCEPT ![this] = TRUE]
  /\ Block(n, NoId, "delay")
  /\ UNCHANGED <<task_q, below, irq, int_mode, got_resource, wait_id, objVars>>

(* task_delay() after task_run_next(): interrupts are always enabled.      *)
TaskDelayResume ==
  /\ pc[this] = "delay"
  /\ Unblock(TRUE)
  /\ UNCHANGED <<task_q, state, cpu, below, irq, int_mode, tcbVars, objVars>>

TaskSleep ==
  /\ TaskCaller(<<"task_sleep">>)
  /\ timer_active' = [timer_active EXCEPT ![this] = FALSE]
  /\ RunNext(task_q, [state EXCEPT ![this] = "SLEEPING"], "sleep")
  /\ ints' = [ints EXCEPT ![this] = FALSE]
  /\ UNCHANGED <<task_q, ctxVars, int_mode, time_count, time_out,
                 got_resource, wait_id, objVars, histVars>>

TaskSleepResume ==
  /\ pc[this] = "sleep"
  /\ pc' = [pc EXCEPT ![this] = "user"]
  /\ ints' = [ints EXCEPT ![this] = TRUE]
  /\ UNCHANGED <<task_q, state, cpu, ctxVars, int_mode, tcbVars, objVars,
                 histVars>>

CanWake_Bug(d) == d # this
CanWake(d) == d # this /\ state[d] = "SLEEPING"

(* task_wake(d) never disables interrupts.  In a handler they are off, and *)
(* the call is one step (they are on if a call that switched came before   *)
(* it in the same handler: no handler of the repository makes both).       *)
TaskWakeIsr_Bug(d) ==
  /\ pc[this] = "isr" /\ <<"task_wake", d>> \in IsrCalls
  /\ CanWake(d)
  /\ Preempt(d, task_q, [state EXCEPT ![d] = "READY"])
  /\ UNCHANGED <<task_q, ctxVars, int_mode, tcbVars, objVars, histVars>>
TaskWakeIsr(d) ==
  /\ pc[this] = "isr" /\ <<"task_wake", d>> \in IsrCalls
  /\ CanWake(d)
  /\ IF ~int_mode
     THEN Preempt(d, task_q, [state EXCEPT ![d] = "READY"])
     ELSE /\ state' = [state EXCEPT ![d] = "READY"]
          /\ UNCHANGED <<cpu, pc, ints>>
  /\ UNCHANGED <<task_q, ctxVars, int_mode, tcbVars, objVars, histVars>>

(* In a task it is five steps, between any two of which an interrupt may   *)
(* come: the state is read, ...                                            *)
WakeStep(from, to) == /\ pc[this] = from
                      /\ pc' = [pc EXCEPT ![this] = to]
                      /\ UNCHANGED <<task_q, below, irq, ints, int_mode,
                                     tcbVars, objVars, histVars>>

TaskWake(d) ==
  /\ <<"task_wake", d>> \in Calls[this]
  /\ CanWake(d)
  /\ arg' = [arg EXCEPT ![this] = d]
  /\ WakeStep("user", "wake_set")
  /\ UNCHANGED <<state, cpu>>

(* ... the task made ready, ...                                            *)
WakeSet ==
  /\ WakeStep("wake_set", "wake_cmp")
  /\ state' = [state EXCEPT ![arg[this]] = "READY"]
  /\ UNCHANGED <<cpu, arg>>

(* ... and if it is more urgent than the caller, the caller made ready, ...*)
WakeCompare ==
  /\ pc[this] = "wake_cmp"
  /\ IF ~int_mode /\ Prio(this) > Prio(arg[this])
     THEN /\ WakeStep("wake_cmp", "wake_run")
          /\ state' = [state EXCEPT ![this] = "READY"]
          /\ UNCHANGED <<cpu, arg>>
     ELSE /\ WakeStep("wake_cmp", "user")
          /\ arg' = [arg EXCEPT ![this] = NoId]
          /\ UNCHANGED <<state, cpu>>

(* ... the next task chosen and marked as running, ...                     *)
WakeRunNext ==
  /\ WakeStep("wake_run", "wake_switch")
  /\ \E n \in Tasks : /\ IsNext(n, task_q, state)
                      /\ state' = [state EXCEPT ![n] = "RUNNING"]
                      /\ arg' = [arg EXCEPT ![this] = n]
  /\ UNCHANGED cpu

(* ... and switched to.  The caller returns with the flag the switch saved.*)
WakeSwitch ==
  /\ WakeStep("wake_switch", IF arg[this] = this THEN "wild" ELSE "user")
  /\ cpu' = arg[this]
  /\ arg' = [arg EXCEPT ![this] = NoId]
  /\ UNCHANGED state
=============================================================================
