------------------------------- MODULE Kernel -------------------------------
(***************************************************************************)
(* The Akalon kernel: its tasks, semaphores, message boxes and interrupts  *)
(* together, with the start-up and the idle task (kernel/kernel.c, and     *)
(* task_cleanup() of task.c), and what the kernel is to guarantee.         *)
(***************************************************************************)
EXTENDS Sem, Msgs, TaskApi, Int

(* The rest of task_idle() after bsp_post_init(): the idle task goes to    *)
(* the lowest priority and the first ready task runs.                      *)
IdleLower ==
  /\ pc[this] = "boot" /\ \A n \in BootTasks : state[n] # "none"
  /\ int_mode' = FALSE
  /\ \E i \in DOMAIN task_q : /\ task_q[i] = Idle
                              /\ AddToQ(RemoveAt(task_q, i), Idle, Lowest)
  /\ IF \E n \in Others : state[n] = "READY"
     THEN /\ RunNext(task_q', [state EXCEPT ![Idle] = "READY"], "lowered")
          /\ UNCHANGED ints
     ELSE /\ pc' = [pc EXCEPT ![Idle] = "user"]
          /\ ints' = [ints EXCEPT ![Idle] = TRUE]
          /\ UNCHANGED <<state, cpu>>
  /\ UNCHANGED <<ctxVars, tcbVars, objVars, histVars>>

IdleStart ==
  /\ pc[this] = "lowered"
  /\ pc' = [pc EXCEPT ![this] = "user"]
  /\ ints' = [ints EXCEPT ![this] = TRUE]
  /\ UNCHANGED <<task_q, state, cpu, ctxVars, int_mode, tcbVars, objVars,
                 histVars>>

(* task_cleanup(): the scan, with interrupts enabled, finds a deleted task;*)
CleanupFind_Bug(d) ==
  /\ this = Idle /\ pc[Idle] = "user"
  /\ d = Head(task_q) /\ state[d] = "DELETE"
  /\ pc' = [pc EXCEPT ![Idle] = "clean"]
  /\ arg' = [arg EXCEPT ![Idle] = d]
  /\ UNCHANGED <<task_q, state, cpu, below, irq, ints, int_mode, tcbVars,
                 objVars, histVars>>
CleanupFind(d) ==
  /\ this = Idle /\ pc[Idle] = "user"
  /\ d \in Range(task_q) /\ state[d] = "DELETE"
  /\ pc' = [pc EXCEPT ![Idle] = "clean"]
  /\ arg' = [arg EXCEPT ![Idle] = d]
  /\ UNCHANGED <<task_q, state, cpu, below, irq, ints, int_mode, tcbVars,
                 objVars, histVars>>

(* then disables them, and removes it without looking at its state again.  *)
(* free() does nothing, and the scan ends: nBlk is now NULL.               *)
CleanupRemove ==
  /\ pc[this] = "clean"
  /\ RmFromQ(arg[this])
  /\ pc' = [pc EXCEPT ![this] = "user"]
  /\ ints' = [ints EXCEPT ![this] = TRUE]
  /\ arg' = [arg EXCEPT ![this] = NoId]
  /\ UNCHANGED <<state, cpu, below, irq, int_mode, tcbVars, objVars, histVars>>

-----------------------------------------------------------------------------
(* os_init() has made the idle task and calls cpu_task_first(): interrupts *)
(* are off and int_mode is YES until task_idle() is ready to let go.       *)
Init ==
  /\ task_q = <<Idle>>
  /\ state = [t \in Tasks |-> IF t = Idle THEN "RUNNING" ELSE "none"]
  /\ cpu = Idle
  /\ pc = [t \in Tasks |-> IF t = Idle THEN "boot" ELSE "start"]
  /\ below = [t \in Tasks |-> "user"]
  /\ irq = [t \in Tasks |-> 0]
  /\ arg = [t \in Tasks |-> NoId]
  /\ ints = [t \in Tasks |-> FALSE]
  /\ int_mode = TRUE
  /\ timer_active = [t \in Tasks |-> FALSE]
  /\ time_count = [t \in Tasks |-> 0]
  /\ time_out = [t \in Tasks |-> FALSE]
  /\ got_resource = [t \in Tasks |-> FALSE]
  /\ wait_id = [t \in Tasks |-> NoId]
  /\ count_now = CountInit
  /\ num_msgs = [t \in Tasks |-> 0]
  /\ tokens = CountInit
  /\ patience = [t \in Tasks |-> DONT_WAIT]
  /\ waited = [t \in Tasks |-> 0]

Semaphores == \E s \in Sems :
                 SemGive(s) \/ \E n \in Timeouts : SemGetNow(s, n) \/ SemGetWait(s, n)
Messages   == \/ \E n \in Timeouts : MsgGetNow(n) \/ MsgGetWait(n)
              \/ \E d \in Tasks : MsgSend(d)
Resumes    == \/ SemGetResume \/ MsgGetResume \/ TaskDelayResume
              \/ TaskSleepResume \/ Switched \/ TaskStart \/ ReturnFromExit
TaskCalls  == \/ \E d \in Tasks : \/ TaskNew(d) \/ TaskDelete(d)
                                  \/ TaskWake(d) \/ TaskWakeIsr(d)
              \/ \E n \in 0..MaxTics : TaskDelay(n)
              \/ TaskSleep \/ TaskExit
WakeSteps  == WakeSet \/ WakeCompare \/ WakeRunNext \/ WakeSwitch
IdleSteps  == \/ IdleLower \/ IdleStart \/ CleanupRemove
              \/ \E d \in Tasks : CleanupFind(d)
Interrupts == Interrupt \/ TimerTic \/ IntRunEnd

Next == \/ Semaphores \/ Messages \/ Resumes \/ TaskCalls \/ WakeSteps
        \/ IdleSteps \/ Interrupts

Spec == Init /\ [][Next]_vars

(* What the hardware and the kernel do of themselves goes on: a clock      *)
(* interrupt stays pending until it is taken, and code that does not wait  *)
(* for anything goes on to its end; where interrupts can come between its  *)
(* steps, they are handled and it goes on.  Nothing is assumed of the      *)
(* calls that the tasks make.                                              *)
Fairness == /\ WF_vars(Resumes) /\ WF_vars(IntRunEnd)
            /\ SF_vars(Interrupt) /\ SF_vars(TimerTic)
            /\ WF_vars(pc[this] = "boot" /\ (IdleLower \/ \E d \in BootTasks : TaskNew(d)))
            /\ WF_vars(IdleStart)
            /\ SF_vars(WakeSteps) /\ SF_vars(CleanupRemove)
            /\ \A d \in Tasks : SF_vars(CleanupFind(d))

FairSpec == Spec /\ Fairness

-----------------------------------------------------------------------------
(* Properties.                                                             *)

TypeOK ==
  /\ task_q \in Seq(Tasks)
  /\ state \in [Tasks -> TaskStates]
  /\ cpu \in Tasks
  /\ pc \in [Tasks -> Points] /\ below \in [Tasks -> Points]
  /\ irq \in [Tasks -> 0..MaxNest]
  /\ arg \in [Tasks -> Tasks \cup Sems \cup {NoId}]
  /\ ints \in [Tasks -> BOOLEAN] /\ int_mode \in BOOLEAN
  /\ timer_active \in [Tasks -> BOOLEAN]
  /\ time_count \in [Tasks -> 0..(Wrap - 1)]
  /\ time_out \in [Tasks -> BOOLEAN]
  /\ got_resource \in [Tasks -> BOOLEAN]
  /\ wait_id \in [Tasks -> Sems \cup {NoId}]
  /\ count_now \in [Sems -> Nat] /\ \A s \in Sems : count_now[s] <= CountMax[s]
  /\ num_msgs \in [Tasks -> 0..(Wrap - 1)]
  /\ tokens \in [Sems -> Int]
  /\ patience \in [Tasks -> Timeouts] /\ waited \in [Tasks -> 0..MaxTics]

(* Only the task whose stack the processor is on, or is just about to be   *)
(* on, is marked as running: a task marked so anywhere else is never found *)
(* by task_ready_get() again.                                              *)
SwitchingTo(t) == arg[cpu] = t /\ "wake_switch" \in {pc[cpu], below[cpu]}
OneRunning ==
  \A t \in Tasks : state[t] = "RUNNING" => t = cpu \/ SwitchingTo(t)

(* The task queue holds no task twice, is in order of priority, and holds  *)
(* every task that exists and is not deleted: task_ready_get() and         *)
(* task_awaiting() take the first match for the most urgent one.           *)
QueueSorted ==
  \A i, j \in DOMAIN task_q :
     i < j => task_q[i] # task_q[j] /\ Prio(task_q[i]) <= Prio(task_q[j])
QueueHolds ==
  \A t \in Tasks : state[t] \notin {"none", "DELETE"} => t \in Range(task_q)
QueueOrder == QueueSorted /\ QueueHolds

(* While a task runs its own code with interrupts enabled, no task of a    *)
(* higher priority is ready: every way of making a task ready switches.    *)
MostUrgentRuns ==
  pc[cpu] = "user" /\ ints[cpu] =>
     \A t \in Range(task_q) : state[t] = "READY" => Prio(cpu) <= Prio(t)

(* Is t in sem_get(s), waiting to be given it?                             *)
WaitsFor(t, s) == pc[t] = "sem_get" /\ arg[t] = s /\ state[t] = "WAITING"

(* No task of the queue waits for a semaphore that is there to be taken:   *)
(* sem_give() looks for a waiter only when it takes the count from 0 to 1. *)
NoWaiterWhileAvailable ==
  \A s \in Sems : count_now[s] > 0 =>
     \A t \in Range(task_q) : ~WaitsFor(t, s)

(* Every unit of a semaphore that was given and not taken yet is in the    *)
(* count, or on its way to exactly one task that sem_give() chose.         *)
Granted(s) == {t \in Tasks : pc[t] = "sem_get" /\ arg[t] = s /\ got_resource[t]}
TokensConserved ==
  \A s \in Sems : tokens[s] = count_now[s] + Cardinality(Granted(s))

(* sem_give() hands a semaphore to a task waiting for it than which no     *)
(* other waiting task is more urgent.                                      *)
GrantsMostUrgent ==
  [][\A s \in Sems, t, u \in Tasks :
        WaitsFor(t, s) /\ got_resource'[t] /\ WaitsFor(u, s)
           => Prio(t) <= Prio(u)]_vars

(* A task that blocked and may go on.                                      *)
MayGoOn(t) == state[t] \in {"READY", "RUNNING"}

(* A task that msg_get() has made ready finds a message in its box.        *)
MessagePresent ==
  \A t \in Tasks :
     /\ pc[t] = "msg_get" /\ MayGoOn(t)
     /\ got_resource[t] \/ ~time_out[t]
     => num_msgs[t] > 0

(* A call that gives up, and task_delay(), come back after as many tics as *)
(* the caller asked for and not before; with WAIT_FOREVER a call never     *)
(* gives up.                                                               *)
GivesUp(t) == \/ pc[t] = "delay"
              \/ pc[t] \in {"sem_get", "msg_get"} /\ TimedOut(t)
TimeoutNotEarly ==
  \A t \in Tasks : GivesUp(t) /\ MayGoOn(t) =>
     patience[t] # WAIT_FOREVER /\ waited[t] >= patience[t]

(* While a task waits with a time-out its timer runs and has exactly the   *)
(* tics left that the caller asked for less those that have passed.        *)
TimerExact ==
  \A t \in Tasks : state[t] = "WAITING" /\ patience[t] > 0 =>
     timer_active[t] /\ time_count[t] + waited[t] = patience[t]

(* Whatever call a task's code makes, interrupts are enabled afterwards.   *)
InterruptsRestored == pc[cpu] = "user" => ints[cpu]

(* An interrupt handler that has begun keeps the processor until its end.  *)
HandlerNotPreempted == \A t \in Tasks : irq[t] > 0 => t = cpu

(* A task that has ended or was deleted does not come back.                *)
DeletedStaysDeleted ==
  [][\A t \in Tasks : state[t] = "DELETE" => state'[t] = "DELETE"]_vars

(* Nothing runs on a stack that was left for good.                         *)
NeverWild == \A t \in Tasks : pc[t] # "wild"

(* sem_get() with a finite time-out and task_delay() come back, in the one *)
(* task that no other can keep from running.                               *)
MostUrgent(t) == \A u \in Tasks \ {t} : Priority[t] < Priority[u] \/ u = Idle
TimedCallsReturn ==
  \A t \in Others : MostUrgent(t) =>
     (pc[t] \in {"sem_get", "delay"} /\ patience[t] > 0 ~> pc[t] = "user")

(* A task that was deleted leaves the queue, once the idle task gets to    *)
(* run now and then.                                                       *)
CleanedUp ==
  \A t \in Others :
     []<>(cpu = Idle) => (state[t] = "DELETE" ~> t \notin Range(task_q))
=============================================================================
