--------------------------- MODULE KernelUseProofs ---------------------------
(***************************************************************************)
(* What is proved of the kernel's calls in use: that interrupts are enabled*)
(* again and handlers keep the processor, that no unit of a semaphore and  *)
(* no message is lost, and that time-outs are exact.  Each theorem says of *)
(* which systems it holds, by what their tasks and handlers call.          *)
(***************************************************************************)
EXTENDS KernelProofs, FiniteSetTheorems

InHandler(t) == pc[t] \in {"isr", "tic_done"}

(* A handler runs with interrupts disabled and int_mode set, on the        *)
(* current task's stack only; in a task's code, and between the steps of   *)
(* the calls that do not disable them, interrupts are enabled.             *)
HandlerOK ==
  /\ InHandler(cpu) => ~ints[cpu] /\ int_mode
  /\ int_mode => InHandler(cpu) \/ pc[cpu] = "boot"
  /\ \A t \in Tasks :
        /\ irq[t] > 0 => t = cpu /\ irq[t] = 1 /\ InHandler(t)
        /\ pc[t] \in {"user", "clean"} \cup WakePoints => ints[t]

(* Every step keeps HandlerOK.                                             *)
LEMMA HandlerStep ==
  ASSUME WakingHandlers, TypeOK, ContextOK, BootOK, HandlerOK, [Next]_vars
  PROVE  HandlerOK'
<1>0. /\ cpu \in Tasks /\ pc \in [Tasks -> Points] /\ below \in [Tasks -> Points]
      /\ irq \in [Tasks -> 0..MaxNest] /\ ints \in [Tasks -> BOOLEAN] /\ int_mode \in BOOLEAN
      /\ MaxNest \in Nat
      /\ arg \in [Tasks -> Tasks \cup Sems \cup {NoId}]
  BY WrapType DEF TypeOK
<1>a. /\ \A t \in Tasks : /\ InHandler(t) => irq[t] > 0
                          /\ pc[t] = "wake_switch" => arg[t] \in Tasks
                          /\ below[t] \notin {"isr", "tic_done", "boot"}
                          /\ pc[t] = "boot" => t = Idle /\ cpu = Idle /\ ~ints[t]
      /\ \A op : op \in IsrCalls => op[1] \in {"timer_tic", "task_wake"}
  BY DEF ContextOK, BootOK, InHandler, WakingHandlers
<1> DEFINE Goal == HandlerOK'
<1> USE <1>0, <1>a DEF HandlerOK, InHandler, WakePoints, this, ctxVars
<1>1. ASSUME NEW s \in Sems, SemGive(s) PROVE Goal
  <2>1. pc[this] = "user" /\ ~int_mode
    BY <1>1 DEF SemGive, Caller
  <2>2. CASE Return
    BY <1>1, <2>1, <2>2 DEF Return, SemGive
  <2>3. ASSUME NEW w \in Tasks, Preempt(w, task_q, [state EXCEPT ![w] = "READY"])
        PROVE  Goal
    BY <1>1, <2>1, <2>3 DEF Preempt, RunNext, SemGive
  <2> QED
    BY <1>1, <2>2, <2>3 DEF SemGive
<1>2. ASSUME NEW s \in Sems, NEW n \in Timeouts, SemGetNow(s, n) PROVE Goal
  <2>1. pc[this] = "user" /\ ~int_mode
    BY <1>2 DEF SemGetNow, Caller
  <2> QED
    BY <1>2, <2>1 DEF SemGetNow, Return
<1>3. ASSUME NEW s \in Sems, NEW n \in Timeouts, SemGetWait(s, n) PROVE Goal
  BY <1>3 DEF SemGetWait, TaskCaller, Block, RunNext
<1>4. ASSUME NEW n \in Timeouts, MsgGetNow(n) PROVE Goal
  BY <1>4 DEF MsgGetNow, TaskCaller, Return
<1>5. ASSUME NEW n \in Timeouts, MsgGetWait(n) PROVE Goal
  BY <1>5 DEF MsgGetWait, TaskCaller, Block, RunNext
<1>6. ASSUME NEW d \in Tasks, MsgSend(d) PROVE Goal
  <2>1. pc[this] = "user" /\ ~int_mode
    BY <1>6 DEF MsgSend, Caller
  <2> QED
    BY <1>6, <2>1 DEF MsgSend, Return, Preempt, RunNext
<1>7. CASE SemGetResume
  <2>1. pc[this] = "sem_get" /\ (~int_mode) = TRUE
    BY <1>7 DEF SemGetResume
  <2>2. ints' = [ints EXCEPT ![this] = TRUE]
    BY <1>7, <2>1 DEF SemGetResume, Unblock
  <2> QED
    BY <1>7, <2>1, <2>2 DEF SemGetResume, Unblock
<1>8. CASE MsgGetResume
  <2>1. pc[this] = "msg_get" /\ (~int_mode) = TRUE
    BY <1>8 DEF MsgGetResume
  <2>2. ints' = [ints EXCEPT ![this] = TRUE]
    BY <1>8, <2>1 DEF MsgGetResume, Unblock
  <2> QED
    BY <1>8, <2>1, <2>2 DEF MsgGetResume, Unblock
<1>9. CASE TaskDelayResume
  BY <1>9 DEF TaskDelayResume, Unblock
<1>10. CASE TaskSleepResume
  BY <1>10 DEF TaskSleepResume
<1>11. CASE Switched
  <2>1. pc[this] = "switched" /\ (~int_mode) = TRUE
    BY <1>11 DEF Switched
  <2>2. ints' = [ints EXCEPT ![this] = TRUE]
    BY <1>11, <2>1 DEF Switched
  <2> QED
    BY <1>11, <2>1, <2>2 DEF Switched
<1>12. CASE TaskStart
  BY <1>12 DEF TaskStart
<1>13. CASE ReturnFromExit
  BY <1>13 DEF ReturnFromExit
<1>14. ASSUME NEW d \in Tasks, TaskNew(d) PROVE Goal
  <2>1. CASE pc[this] = "user"
    <3>1. (~int_mode) = TRUE
      BY <2>1
    <3>2. ints' \in {[ints EXCEPT ![this] = TRUE], [ints EXCEPT ![this] = FALSE]}
      BY <1>14, <3>1 DEF TaskNew, Preempt
    <3> QED
      BY <1>14, <2>1, <3>1, <3>2 DEF TaskNew, Preempt, RunNext
  <2>2. CASE pc[this] = "boot"
    <3>1. this = Idle /\ d # Idle
      BY <1>14, <2>2 DEF TaskNew, BootOK
    <3>2. ~(Prio(this) > Prio(d))
      BY <2>2, <3>1, PriorityType DEF Prio
    <3>3. UNCHANGED <<pc, cpu, irq, int_mode>> /\ \A t \in Tasks \ {this} : ints'[t] = ints[t]
      BY <1>14, <3>2 DEF TaskNew, Preempt
    <3> QED
      BY <2>2, <3>3
  <2> QED
    BY <1>14, <2>1, <2>2 DEF TaskNew, TaskCaller
<1>15. ASSUME NEW d \in Tasks, TaskDelete(d) PROVE Goal
  BY <1>15 DEF TaskDelete, TaskCaller
<1>16. ASSUME NEW d \in Tasks, TaskWake(d) PROVE Goal
  BY <1>16 DEF TaskWake, WakeStep
<1>17. ASSUME NEW d \in Tasks, TaskWakeIsr(d) PROVE Goal
  BY <1>17 DEF TaskWakeIsr, Preempt, RunNext
<1>18. ASSUME NEW n \in 0..MaxTics, TaskDelay(n) PROVE Goal
  BY <1>18 DEF TaskDelay, TaskCaller, Block, RunNext
<1>19. CASE TaskSleep
  BY <1>19 DEF TaskSleep, TaskCaller, RunNext
<1>20. CASE TaskExit
  BY <1>20 DEF TaskExit, TaskCaller, RunNext
<1>21. CASE WakeSet
  BY <1>21 DEF WakeSet, WakeStep
<1>22. CASE WakeCompare
  BY <1>22 DEF WakeCompare, WakeStep
<1>23. CASE WakeRunNext
  BY <1>23 DEF WakeRunNext, WakeStep
<1>24. CASE WakeSwitch
  BY <1>24 DEF WakeSwitch, WakeStep
<1>25. CASE IdleLower
  BY <1>25 DEF IdleLower, RunNext
<1>26. CASE IdleStart
  BY <1>26 DEF IdleStart
<1>27. ASSUME NEW d \in Tasks, CleanupFind(d) PROVE Goal
  BY <1>27 DEF CleanupFind
<1>28. CASE CleanupRemove
  BY <1>28 DEF CleanupRemove
<1>29. CASE Interrupt
  BY <1>29 DEF Interrupt
<1>30. CASE TimerTic
  BY <1>30 DEF TimerTic, Expire
<1>31. CASE IntRunEnd
  BY <1>31 DEF IntRunEnd, Reschedule
<1>32. CASE UNCHANGED vars
  BY <1>32 DEF vars
<1> QED
  BY <1>1, <1>2, <1>3, <1>4, <1>5, <1>6, <1>7, <1>8, <1>9, <1>10, <1>11, <1>12,
     <1>13, <1>14, <1>15, <1>16, <1>17, <1>18, <1>19, <1>20, <1>21, <1>22, <1>23,
     <1>24, <1>25, <1>26, <1>27, <1>28, <1>29, <1>30, <1>31, <1>32
     DEF Next, Semaphores, Messages, Resumes, TaskCalls, WakeSteps, IdleSteps,
         Interrupts

LEMMA HandlerInvariant ==
  ASSUME WakingHandlers
  PROVE  Spec => []HandlerOK
<1> DEFINE IInv == TypeOK /\ ContextOK /\ BootOK /\ HandlerOK
<1>1. Init => IInv
  <2>1. Init => HandlerOK
    BY IdleIsTask DEF Init, HandlerOK, InHandler, WakePoints
  <2> QED
    BY <2>1, InitType, QueueInit DEF TInv
<1>2. IInv /\ [Next]_vars => IInv'
  BY TypeStep, ContextStep, BootStep, HandlerStep
<1> QED
  BY <1>1, <1>2, PTL DEF Spec

(* Where the handlers only count the time and wake tasks, interrupts are   *)
(* enabled whenever a task runs its own code, whichever call it made       *)
(* before and whichever way it got the processor back.                     *)
THEOREM InterruptsComeBack ==
  ASSUME WakingHandlers
  PROVE  Spec => []InterruptsRestored
<1>1. TypeOK /\ HandlerOK => InterruptsRestored
  BY DEF TypeOK, HandlerOK, InterruptsRestored
<1> QED
  BY <1>1, HandlerInvariant, TypeCorrect, PTL

(* There, an interrupt handler keeps the processor until its end.          *)
THEOREM HandlersRunOn ==
  ASSUME WakingHandlers
  PROVE  Spec => []HandlerNotPreempted
<1>1. HandlerOK => HandlerNotPreempted
  BY DEF HandlerOK, HandlerNotPreempted
<1> QED
  BY <1>1, HandlerInvariant, PTL

-----------------------------------------------------------------------------
(* Semaphores and messages, in systems that keep to rules of use.          *)

(* A waiting task is in one of the calls that it makes, and its timer is   *)
(* the call's own; wait_id is set in sem_get() only, and what sem_get()    *)
(* and msg_get() read when they go on tells why they were made ready.      *)
BlockPoints == {"sem_get", "msg_get", "delay"}
BlockTask(t) ==
  /\ below[t] \notin BlockPoints
  /\ pc[t] \in BlockPoints => ~ints[t]
  /\ state[t] = "WAITING" => pc[t] \in BlockPoints
  /\ state[t] \in {"none", "SLEEPING"} => pc[t] \notin BlockPoints
  /\ pc[t] = "sem_get" => MayWaitSem(t)
  /\ pc[t] \in {"msg_get", "delay"} => MayWaitElse(t)
  /\ ~MayBeSent(t) /\ timer_active[t] => state[t] \in {"WAITING", "DELETE"}
  /\ pc[t] = "sem_get" /\ ~MayGiveUp(t) => ~timer_active[t]
  /\ wait_id[t] # NoId /\ ~MayGiveUp(t) =>
        pc[t] = "sem_get" /\ state[t] \in {"WAITING", "DELETE"}
  /\ pc[t] = "sem_get" /\ got_resource[t] => state[t] # "WAITING"
  /\ pc[t] \in {"sem_get", "msg_get"} /\ ~got_resource[t] /\ MayGoOn(t) => time_out[t]

BlockOK == Alive(cpu) /\ ~timer_active[Idle] /\ \A t \in Tasks : BlockTask(t)

(* Such a task only waits for what its wait_id says, ...                   *)
LEMMA AwaitsIsWaitsFor ==
  ASSUME UseRules, BlockOK, WaitOK, NEW w \in Tasks, NEW s \in Sems
  PROVE  Awaits(w, s) <=> WaitsFor(w, s)
<1>1. s # NoId
  BY KernelAssumption
<1> QED
  BY <1>1 DEF UseRules, BlockOK, BlockTask, BlockPoints, WaitOK, Awaits, WaitsFor

(* A call that makes w ready: the caller goes on, or another task does.    *)
LEMMA PreemptEffect ==
  ASSUME cpu \in Tasks, pc \in [Tasks -> Points], NEW w, NEW q, NEW st \in [Tasks -> TaskStates], Preempt(w, q, st)
  PROVE  \/ state' = st /\ UNCHANGED <<cpu, pc>>
         \/ \E n \in Tasks, p \in {"switched", "wild"} :
               /\ n \in {this, Idle} \/ st[n] = "READY"
               /\ cpu' = n
               /\ \A t \in Tasks :
                     /\ state'[t] = IF t = n THEN "RUNNING"
                                    ELSE IF t = this THEN "READY" ELSE st[t]
                     /\ pc'[t] = IF t = this THEN p ELSE pc[t]
<1>1. CASE ~(Prio(this) > Prio(w))
  BY <1>1 DEF Preempt
<1>2. CASE Prio(this) > Prio(w)
  <2>1. PICK n \in Tasks :
           /\ IsNext(n, q, [st EXCEPT ![this] = "READY"]) /\ cpu' = n
           /\ state' = [[st EXCEPT ![this] = "READY"] EXCEPT ![n] = "RUNNING"]
           /\ pc' = [pc EXCEPT ![this] = IF n = this THEN "wild" ELSE "switched"]
    BY <1>2 DEF Preempt, RunNext
  <2>2. n \in {this, Idle} \/ st[n] = "READY"
    BY <2>1 DEF IsNext, this
  <2>3. \A t \in Tasks :
           /\ state'[t] = IF t = n THEN "RUNNING" ELSE IF t = this THEN "READY" ELSE st[t]
           /\ pc'[t] = IF t = this THEN IF n = this THEN "wild" ELSE "switched" ELSE pc[t]
    BY <2>1 DEF this
  <2> QED
    BY <2>1, <2>2, <2>3
<1> QED
  BY <1>1, <1>2

(* Every step keeps BlockOK.                                               *)
LEMMA BlockStep ==
  ASSUME UseRules, TypeOK, ContextOK, BootOK, WaitOK, NotWaking, BlockOK, [Next]_vars
  PROVE  BlockOK'
<1>0. /\ cpu \in Tasks /\ pc \in [Tasks -> Points] /\ below \in [Tasks -> Points]
      /\ state \in [Tasks -> TaskStates] /\ ints \in [Tasks -> BOOLEAN]
      /\ timer_active \in [Tasks -> BOOLEAN] /\ time_out \in [Tasks -> BOOLEAN]
      /\ got_resource \in [Tasks -> BOOLEAN] /\ wait_id \in [Tasks -> Sems \cup {NoId}]
      /\ Idle \in Tasks
  BY IdleIsTask DEF TypeOK
<1>a. /\ Calls[Idle] = {} /\ \A t, d \in Tasks : <<"task_wake", d>> \notin Calls[t]
      /\ \A t \in Tasks : /\ MayWaitSem(t) => ~MayBeSent(t)
                          /\ MayGiveUp(t) => ~MayWaitElse(t)
      /\ ~MayWaitSem(Idle) /\ ~MayWaitElse(Idle)
  BY DEF UseRules, NoTaskWakes, MayWaitSem, MayWaitElse
<1>b. /\ pc[this] \in {"user", "boot", "sem_get", "msg_get", "delay", "sleep", "start",
                       "lowered", "clean"} => below[this] = "user"
      /\ pc[this] = "boot" => this = Idle
  BY <1>0 DEF ContextOK, this
<1> DEFINE Goal == BlockOK'
<1> USE <1>0 DEF BlockOK, BlockTask, BlockPoints, Alive, MayGoOn, this, ctxVars, tcbVars, NotWaking, WakePoints
<1>1. ASSUME NEW s \in Sems, SemGive(s) PROVE Goal
  <2>1. pc[this] \in {"user", "isr"} /\ UNCHANGED below
    BY <1>1 DEF SemGive, Caller
  <2>2. CASE Return /\ UNCHANGED tcbVars
    BY <2>1, <2>2 DEF Return
  <2>3. ASSUME NEW w \in Tasks, IsFirstAwaiting(w, s), Grant(w),
               Preempt(w, task_q, [state EXCEPT ![w] = "READY"])
        PROVE  Goal
    <3>a. pc[w] = "sem_get" /\ state[w] = "WAITING" /\ w # cpu
      BY <2>3, AwaitsIsWaitsFor DEF IsFirstAwaiting, WaitsFor
    <3>b. /\ got_resource' = [got_resource EXCEPT ![w] = TRUE]
          /\ timer_active' = [timer_active EXCEPT ![w] = FALSE]
          /\ time_out' = [time_out EXCEPT ![w] = FALSE]
          /\ wait_id' = [wait_id EXCEPT ![w] = NoId]
      BY <2>3 DEF Grant
    <3> DEFINE st == [state EXCEPT ![w] = "READY"]
    <3>1. st \in [Tasks -> TaskStates]
      BY DEF TaskStates
    <3>2. \A t \in Tasks : st[t] = IF t = w THEN "READY" ELSE state[t]
      OBVIOUS
    <3>3. ints' \in [Tasks -> BOOLEAN] /\ \A t \in Tasks \ {this} : ints'[t] = ints[t]
      BY <2>3 DEF Preempt
    <3> HIDE DEF st
    <3>4. CASE state' = st /\ UNCHANGED <<cpu, pc>>
      BY <1>a, <2>1, <3>1, <3>2, <3>3, <3>4, <3>a, <3>b
    <3>5. ASSUME NEW m \in Tasks, NEW p \in {"switched", "wild"},
                 m \in {this, Idle} \/ st[m] = "READY", cpu' = m,
                 \A t \in Tasks :
                     /\ state'[t] = IF t = m THEN "RUNNING"
                                    ELSE IF t = this THEN "READY" ELSE st[t]
                     /\ pc'[t] = IF t = this THEN p ELSE pc[t]
          PROVE  Goal
      <4>1. ASSUME NEW t \in Tasks PROVE BlockTask(t)'
        BY <1>a, <2>1, <3>2, <3>3, <3>5, <3>a, <3>b
      <4>2. Alive(cpu)'
        BY <3>5
      <4> QED
        BY <1>a, <2>1, <4>1, <4>2, <3>a, <3>b
    <3>6. Preempt(w, task_q, st)
      BY <2>3 DEF st
    <3> QED
      BY <3>1, <3>4, <3>5, <3>6, PreemptEffect
  <2> QED
    BY <1>1, <2>2, <2>3 DEF SemGive
<1>2. ASSUME NEW s \in Sems, NEW n \in Timeouts, SemGetNow(s, n) PROVE Goal
  BY <1>2, <1>a, <1>b DEF SemGetNow, Caller, Return
<1>3. ASSUME NEW s \in Sems, NEW n \in Timeouts, SemGetWait(s, n) PROVE Goal
  <2>0. <<"sem_get", s, n>> \in Calls[this] /\ this # Idle /\ pc[this] = "user" /\ below[this] = "user"
    BY <1>3, <1>a, <1>b DEF SemGetWait, TaskCaller
  <2> DEFINE st == [state EXCEPT ![this] = "WAITING"]
  <2>1. st \in [Tasks -> TaskStates] /\ st[this] # "READY" /\ RunNext(task_q, st, "sem_get")
    BY <1>3 DEF SemGetWait, Block, TaskStates
  <2>2. \A t \in Tasks : st[t] = IF t = this THEN "WAITING" ELSE state[t]
    OBVIOUS
  <2> HIDE DEF st
  <2>3. PICK m \in Tasks : /\ m # this /\ (m = Idle \/ st[m] = "READY") /\ cpu' = m
                           /\ state' = [st EXCEPT ![m] = "RUNNING"]
                           /\ pc' = [pc EXCEPT ![this] = "sem_get"]
    BY <2>0, <2>1, GivesUpCpu
  <2>z. /\ \A t \in Tasks : /\ state'[t] = IF t = m THEN "RUNNING" ELSE st[t]
                           /\ pc'[t] = IF t = this THEN "sem_get" ELSE pc[t]
        /\ Alive(cpu)'
    BY <2>1, <2>3
  <2>n. n \in Timeouts \ {DONT_WAIT} /\ (n # WAIT_FOREVER => n \in 1..MaxTics)
    BY <1>3 DEF SemGetWait, Timeouts, DONT_WAIT, WAIT_FOREVER
  <2>4. MayWaitSem(this) /\ (n # WAIT_FOREVER => MayGiveUp(this))
    BY <1>a, <2>0, <2>n DEF MayWaitSem, MayWaitElse, MayGiveUp
  <2>5. /\ UNCHANGED below /\ ~ints'[this] /\ \A t \in Tasks \ {this} : ints'[t] = ints[t]
        /\ timer_active' \in {timer_active, [timer_active EXCEPT ![this] = TRUE]}
        /\ \A t \in Tasks \ {this} : /\ time_out'[t] = time_out[t] /\ wait_id'[t] = wait_id[t]
                                      /\ got_resource'[t] = got_resource[t]
        /\ ~got_resource'[this] /\ (~MayGiveUp(this) => UNCHANGED timer_active)
    BY <1>3, <2>4 DEF SemGetWait, Block
  <2>6. ASSUME NEW t \in Tasks PROVE BlockTask(t)'
    BY <1>a, <2>0, <2>2, <2>3, <2>z, <2>4, <2>5
  <2>7. ~timer_active'[Idle]
    BY <2>0, <2>5
  <2> QED
    BY <2>6, <2>7, <2>z
<1>4. ASSUME NEW n \in Timeouts, MsgGetNow(n) PROVE Goal
  BY <1>4, <1>a, <1>b DEF MsgGetNow, TaskCaller, Return
<1>5. ASSUME NEW n \in Timeouts, MsgGetWait(n) PROVE Goal
  <2>0. <<"msg_get", n>> \in Calls[this] /\ this # Idle /\ pc[this] = "user" /\ below[this] = "user"
    BY <1>5, <1>a, <1>b DEF MsgGetWait, TaskCaller
  <2> DEFINE st == [state EXCEPT ![this] = "WAITING"]
  <2>1. st \in [Tasks -> TaskStates] /\ st[this] # "READY" /\ RunNext(task_q, st, "msg_get")
    BY <1>5 DEF MsgGetWait, Block, TaskStates
  <2>2. \A t \in Tasks : st[t] = IF t = this THEN "WAITING" ELSE state[t]
    OBVIOUS
  <2> HIDE DEF st
  <2>3. PICK m \in Tasks : /\ m # this /\ (m = Idle \/ st[m] = "READY") /\ cpu' = m
                           /\ state' = [st EXCEPT ![m] = "RUNNING"]
                           /\ pc' = [pc EXCEPT ![this] = "msg_get"]
    BY <2>0, <2>1, GivesUpCpu
  <2>z. /\ \A t \in Tasks : /\ state'[t] = IF t = m THEN "RUNNING" ELSE st[t]
                           /\ pc'[t] = IF t = this THEN "msg_get" ELSE pc[t]
        /\ Alive(cpu)'
    BY <2>1, <2>3
  <2>n. n \in Timeouts \ {DONT_WAIT} /\ (n # WAIT_FOREVER => n \in 1..MaxTics)
    BY <1>5 DEF MsgGetWait, Timeouts, DONT_WAIT, WAIT_FOREVER
  <2>4. MayWaitElse(this)
    BY <1>a, <2>0, <2>n DEF MayWaitSem, MayWaitElse, MayGiveUp
  <2>5. /\ UNCHANGED below /\ ~ints'[this] /\ \A t \in Tasks \ {this} : ints'[t] = ints[t]
        /\ timer_active' \in {timer_active, [timer_active EXCEPT ![this] = TRUE]}
        /\ \A t \in Tasks \ {this} : /\ time_out'[t] = time_out[t] /\ wait_id'[t] = wait_id[t]
                                      /\ got_resource'[t] = got_resource[t]
        /\ ~got_resource'[this] /\ UNCHANGED wait_id
    BY <1>5, <2>4 DEF MsgGetWait, Block
  <2>6. ASSUME NEW t \in Tasks PROVE BlockTask(t)'
    BY <1>a, <2>0, <2>2, <2>3, <2>z, <2>4, <2>5
  <2>7. ~timer_active'[Idle]
    BY <2>0, <2>5
  <2> QED
    BY <2>6, <2>7, <2>z
<1>6. ASSUME NEW d \in Tasks, MsgSend(d) PROVE Goal
  <2>1. /\ pc[this] \in {"user", "isr"} /\ MayBeSent(d)
        /\ UNCHANGED <<below, timer_active, time_out, wait_id>>
    BY <1>6 DEF MsgSend, Caller, MayBeSent
  <2>2. CASE Return /\ UNCHANGED got_resource
    BY <2>1, <2>2 DEF Return
  <2>3. ASSUME Preempt(d, task_q, [state EXCEPT ![d] = "READY"]),
               got_resource' = [got_resource EXCEPT ![d] = TRUE]
        PROVE  Goal
    <3> DEFINE st == [state EXCEPT ![d] = "READY"]
    <3>1. st \in [Tasks -> TaskStates]
      BY DEF TaskStates
    <3>2. \A t \in Tasks : st[t] = IF t = d THEN "READY" ELSE state[t]
      OBVIOUS
    <3>3. ints' \in [Tasks -> BOOLEAN] /\ \A t \in Tasks \ {this} : ints'[t] = ints[t]
      BY <2>3 DEF Preempt
    <3> HIDE DEF st
    <3>4. CASE state' = st /\ UNCHANGED <<cpu, pc>>
      BY <1>a, <2>1, <2>3, <3>1, <3>2, <3>3, <3>4
    <3>5. ASSUME NEW m \in Tasks, NEW p \in {"switched", "wild"},
                 m \in {this, Idle} \/ st[m] = "READY", cpu' = m,
                 \A t \in Tasks :
                     /\ state'[t] = IF t = m THEN "RUNNING"
                                    ELSE IF t = this THEN "READY" ELSE st[t]
                     /\ pc'[t] = IF t = this THEN p ELSE pc[t]
          PROVE  Goal
      <4>1. ASSUME NEW t \in Tasks PROVE BlockTask(t)'
        BY <1>a, <2>1, <2>3, <3>2, <3>3, <3>5
      <4>2. Alive(cpu)'
        BY <3>5
      <4> QED
        BY <1>a, <2>1, <4>1, <4>2
    <3>6. Preempt(d, task_q, st)
      BY <2>3 DEF st
    <3> QED
      BY <3>1, <3>4, <3>5, <3>6, PreemptEffect
  <2> QED
    BY <1>6, <2>2, <2>3 DEF MsgSend
<1>7. CASE SemGetResume
  BY <1>7, <1>a, <1>b DEF SemGetResume, Unblock
<1>8. CASE MsgGetResume
  BY <1>8, <1>a, <1>b DEF MsgGetResume, Unblock
<1>9. CASE TaskDelayResume
  BY <1>9, <1>a, <1>b DEF TaskDelayResume, Unblock
<1>10. CASE TaskSleepResume
  BY <1>10, <1>a, <1>b DEF TaskSleepResume
<1>11. CASE Switched
  BY <1>11, <1>a, <1>b DEF Switched
<1>12. CASE TaskStart
  BY <1>12, <1>a, <1>b DEF TaskStart
<1>13. CASE ReturnFromExit
  BY <1>13, <1>a, <1>b DEF ReturnFromExit
<1>14. ASSUME NEW d \in Tasks, TaskNew(d) PROVE Goal
  <2>1. pc[this] \in {"user", "boot"} /\ state[d] = "none" /\ UNCHANGED <<below, tcbVars>>
    BY <1>14 DEF TaskNew, TaskCaller
  <2>3. Preempt(d, task_q', [state EXCEPT ![d] = "READY"])
    BY <1>14 DEF TaskNew
  <2>4. Goal
    <3> DEFINE st == [state EXCEPT ![d] = "READY"]
    <3>1. st \in [Tasks -> TaskStates]
      BY DEF TaskStates
    <3>2. \A t \in Tasks : st[t] = IF t = d THEN "READY" ELSE state[t]
      OBVIOUS
    <3>3. ints' \in [Tasks -> BOOLEAN] /\ \A t \in Tasks \ {this} : ints'[t] = ints[t]
      BY <2>3 DEF Preempt
    <3> HIDE DEF st
    <3>4. CASE state' = st /\ UNCHANGED <<cpu, pc>>
      BY <1>a, <2>1, <3>1, <3>2, <3>3, <3>4
    <3>5. ASSUME NEW m \in Tasks, NEW p \in {"switched", "wild"},
                 m \in {this, Idle} \/ st[m] = "READY", cpu' = m,
                 \A t \in Tasks :
                     /\ state'[t] = IF t = m THEN "RUNNING"
                                    ELSE IF t = this THEN "READY" ELSE st[t]
                     /\ pc'[t] = IF t = this THEN p ELSE pc[t]
          PROVE  Goal
      <4>1. ASSUME NEW t \in Tasks PROVE BlockTask(t)'
        BY <1>a, <2>1, <3>2, <3>3, <3>5
      <4>2. Alive(cpu)'
        BY <3>5
      <4> QED
        BY <1>a, <2>1, <4>1, <4>2
    <3>6. Preempt(d, task_q', st)
      BY <2>3 DEF st
    <3> QED
      BY <3>1, <3>4, <3>5, <3>6, PreemptEffect
  <2> QED
    BY <2>4
<1>15. ASSUME NEW d \in Tasks, TaskDelete(d) PROVE Goal
  BY <1>15, <1>a, <1>b DEF TaskDelete, TaskCaller
<1>16. ASSUME NEW d \in Tasks, TaskWake(d) PROVE Goal
  BY <1>16, <1>a, <1>b DEF TaskWake, WakeStep
<1>17. ASSUME NEW d \in Tasks, TaskWakeIsr(d) PROVE Goal
  <2>1. pc[this] = "isr" /\ state[d] = "SLEEPING" /\ UNCHANGED <<below, tcbVars>>
    BY <1>17 DEF TaskWakeIsr, CanWake
  <2>2. CASE UNCHANGED <<cpu, pc, ints>> /\ state' = [state EXCEPT ![d] = "READY"]
    BY <2>1, <2>2
  <2>3. CASE Preempt(d, task_q, [state EXCEPT ![d] = "READY"])
    <3> DEFINE st == [state EXCEPT ![d] = "READY"]
    <3>1. st \in [Tasks -> TaskStates]
      BY DEF TaskStates
    <3>2. \A t \in Tasks : st[t] = IF t = d THEN "READY" ELSE state[t]
      OBVIOUS
    <3>3. ints' \in [Tasks -> BOOLEAN] /\ \A t \in Tasks \ {this} : ints'[t] = ints[t]
      BY <2>3 DEF Preempt
    <3> HIDE DEF st
    <3>4. CASE state' = st /\ UNCHANGED <<cpu, pc>>
      BY <1>a, <2>1, <3>1, <3>2, <3>3, <3>4
    <3>5. ASSUME NEW m \in Tasks, NEW p \in {"switched", "wild"},
                 m \in {this, Idle} \/ st[m] = "READY", cpu' = m,
                 \A t \in Tasks :
                     /\ state'[t] = IF t = m THEN "RUNNING"
                                    ELSE IF t = this THEN "READY" ELSE st[t]
                     /\ pc'[t] = IF t = this THEN p ELSE pc[t]
          PROVE  Goal
      <4>1. ASSUME NEW t \in Tasks PROVE BlockTask(t)'
        BY <1>a, <2>1, <3>2, <3>3, <3>5
      <4>2. Alive(cpu)'
        BY <3>5
      <4> QED
        BY <1>a, <2>1, <4>1, <4>2
    <3>6. Preempt(d, task_q, st)
      BY <2>3 DEF st
    <3> QED
      BY <3>1, <3>4, <3>5, <3>6, PreemptEffect
  <2> QED
    BY <1>17, <2>2, <2>3 DEF TaskWakeIsr
<1>18. ASSUME NEW n \in 0..MaxTics, TaskDelay(n) PROVE Goal
  <2>0. <<"task_delay", n>> \in Calls[this] /\ this # Idle /\ pc[this] = "user" /\ below[this] = "user"
    BY <1>18, <1>a, <1>b DEF TaskDelay, TaskCaller
  <2> DEFINE st == [state EXCEPT ![this] = "WAITING"]
  <2>1. st \in [Tasks -> TaskStates] /\ st[this] # "READY" /\ RunNext(task_q, st, "delay")
    BY <1>18 DEF TaskDelay, Block, TaskStates
  <2>2. \A t \in Tasks : st[t] = IF t = this THEN "WAITING" ELSE state[t]
    OBVIOUS
  <2> HIDE DEF st
  <2>3. PICK m \in Tasks : /\ m # this /\ (m = Idle \/ st[m] = "READY") /\ cpu' = m
                           /\ state' = [st EXCEPT ![m] = "RUNNING"]
                           /\ pc' = [pc EXCEPT ![this] = "delay"]
    BY <2>0, <2>1, GivesUpCpu
  <2>z. /\ \A t \in Tasks : /\ state'[t] = IF t = m THEN "RUNNING" ELSE st[t]
                           /\ pc'[t] = IF t = this THEN "delay" ELSE pc[t]
        /\ Alive(cpu)'
    BY <2>1, <2>3
  <2>4. MayWaitElse(this)
    BY <1>a, <2>0 DEF MayWaitSem, MayWaitElse, MayGiveUp
  <2>5. /\ UNCHANGED below /\ ~ints'[this] /\ \A t \in Tasks \ {this} : ints'[t] = ints[t]
        /\ timer_active' \in {timer_active, [timer_active EXCEPT ![this] = TRUE]}
        /\ \A t \in Tasks \ {this} : /\ time_out'[t] = time_out[t] /\ wait_id'[t] = wait_id[t]
                                      /\ got_resource'[t] = got_resource[t]
        /\ UNCHANGED wait_id
    BY <1>18, <2>4 DEF TaskDelay, Block
  <2>6. ASSUME NEW t \in Tasks PROVE BlockTask(t)'
    BY <1>a, <2>0, <2>2, <2>3, <2>z, <2>4, <2>5
  <2>7. ~timer_active'[Idle]
    BY <2>0, <2>5
  <2> QED
    BY <2>6, <2>7, <2>z
<1>19. CASE TaskSleep
  <2>0. <<"task_sleep">> \in Calls[this] /\ this # Idle /\ pc[this] = "user" /\ below[this] = "user"
    BY <1>19, <1>a, <1>b DEF TaskSleep, TaskCaller
  <2> DEFINE st == [state EXCEPT ![this] = "SLEEPING"]
  <2>1. st \in [Tasks -> TaskStates] /\ st[this] # "READY" /\ RunNext(task_q, st, "sleep")
    BY <1>19 DEF TaskSleep, TaskStates
  <2>2. \A t \in Tasks : st[t] = IF t = this THEN "SLEEPING" ELSE state[t]
    OBVIOUS
  <2> HIDE DEF st
  <2>3. PICK m \in Tasks : /\ m # this /\ (m = Idle \/ st[m] = "READY") /\ cpu' = m
                           /\ state' = [st EXCEPT ![m] = "RUNNING"]
                           /\ pc' = [pc EXCEPT ![this] = "sleep"]
    BY <2>0, <2>1, GivesUpCpu
  <2>z. /\ \A t \in Tasks : /\ state'[t] = IF t = m THEN "RUNNING" ELSE st[t]
                           /\ pc'[t] = IF t = this THEN "sleep" ELSE pc[t]
        /\ Alive(cpu)'
    BY <2>1, <2>3
  <2>6. ASSUME NEW t \in Tasks PROVE BlockTask(t)'
    BY <1>19, <1>a, <2>0, <2>2, <2>3, <2>z DEF TaskSleep
  <2> QED
    BY <1>19, <2>0, <2>6, <2>z DEF TaskSleep
<1>20. CASE TaskExit
  <2>0. <<"exit">> \in Calls[this] /\ this # Idle /\ pc[this] = "user" /\ below[this] = "user"
    BY <1>20, <1>a, <1>b DEF TaskExit, TaskCaller
  <2> DEFINE st == [state EXCEPT ![this] = "DELETE"]
  <2>1. st \in [Tasks -> TaskStates] /\ st[this] # "READY" /\ RunNext(task_q, st, "exited")
    BY <1>20 DEF TaskExit, TaskStates
  <2>2. \A t \in Tasks : st[t] = IF t = this THEN "DELETE" ELSE state[t]
    OBVIOUS
  <2> HIDE DEF st
  <2>3. PICK m \in Tasks : /\ m # this /\ (m = Idle \/ st[m] = "READY") /\ cpu' = m
                           /\ state' = [st EXCEPT ![m] = "RUNNING"]
                           /\ pc' = [pc EXCEPT ![this] = "exited"]
    BY <2>0, <2>1, GivesUpCpu
  <2>z. /\ \A t \in Tasks : /\ state'[t] = IF t = m THEN "RUNNING" ELSE st[t]
                           /\ pc'[t] = IF t = this THEN "exited" ELSE pc[t]
        /\ Alive(cpu)'
    BY <2>1, <2>3
  <2>6. ASSUME NEW t \in Tasks PROVE BlockTask(t)'
    BY <1>20, <1>a, <2>0, <2>2, <2>3, <2>z DEF TaskExit
  <2> QED
    BY <1>20, <2>0, <2>6, <2>z DEF TaskExit
<1>21. CASE WakeSet
  BY <1>21, <1>a, <1>b DEF WakeSet, WakeStep
<1>22. CASE WakeCompare
  BY <1>22, <1>a, <1>b DEF WakeCompare, WakeStep
<1>23. CASE WakeRunNext
  BY <1>23, <1>a, <1>b DEF WakeRunNext, WakeStep
<1>24. CASE WakeSwitch
  BY <1>24, <1>a, <1>b DEF WakeSwitch, WakeStep
<1>25. CASE IdleLower
  <2>1. this = Idle /\ below[Idle] = "user" /\ pc[Idle] = "boot" /\ UNCHANGED <<below, tcbVars>>
    BY <1>25, <1>b DEF IdleLower
  <2>2. CASE /\ UNCHANGED <<state, cpu>> /\ pc' = [pc EXCEPT ![Idle] = "user"]
             /\ ints' = [ints EXCEPT ![Idle] = TRUE]
    BY <2>1, <2>2
  <2>3. CASE RunNext(task_q', [state EXCEPT ![Idle] = "READY"], "lowered") /\ UNCHANGED ints
    <3>1. PICK n \in Tasks, p \in {"wild", "lowered"} :
             /\ n = Idle \/ state[n] = "READY"
             /\ cpu' = n /\ state' = [state EXCEPT ![Idle] = "READY", ![n] = "RUNNING"]
             /\ pc' = [pc EXCEPT ![Idle] = p]
      BY <2>1, <2>3 DEF RunNext, IsNext
    <3>2. \A t \in Tasks :
             /\ state'[t] = IF t = n THEN "RUNNING" ELSE IF t = Idle THEN "READY" ELSE state[t]
             /\ pc'[t] = IF t = Idle THEN p ELSE pc[t]
      BY <3>1
    <3>3. ASSUME NEW t \in Tasks PROVE BlockTask(t)'
      BY <1>a, <2>1, <2>3, <3>1, <3>2
    <3>4. Alive(cpu)'
      BY <3>1, <3>2
    <3> QED
      BY <2>1, <3>3, <3>4
  <2> QED
    BY <1>25, <2>2, <2>3 DEF IdleLower
<1>26. CASE IdleStart
  BY <1>26, <1>a, <1>b DEF IdleStart
<1>27. ASSUME NEW d \in Tasks, CleanupFind(d) PROVE Goal
  BY <1>27, <1>a, <1>b DEF CleanupFind
<1>28. CASE CleanupRemove
  BY <1>28, <1>a, <1>b DEF CleanupRemove
<1>29. CASE Interrupt
  BY <1>29, <1>a, <1>b DEF Interrupt
<1>30. CASE TimerTic
  <2>1. /\ UNCHANGED <<cpu, below, ints, got_resource, wait_id>>
        /\ pc[this] = "isr" /\ pc' = [pc EXCEPT ![this] = "tic_done"]
        /\ timer_active' = [t \in Tasks |-> timer_active[t] /\ ~Pops(t)]
        /\ time_out' = [t \in Tasks |-> time_out[t] \/ Pops(t)]
        /\ state' = [t \in Tasks |-> IF Pops(t) THEN "READY" ELSE state[t]]
        /\ \A t \in Tasks : Pops(t) => timer_active[t]
    BY <1>30 DEF TimerTic, Expire, Pops, Counting
  <2> HIDE DEF Pops
  <2>2. ASSUME NEW t \in Tasks PROVE BlockTask(t)'
    BY <1>a, <2>1
  <2>3. Alive(cpu)' /\ ~timer_active'[Idle]
    BY <2>1
  <2> QED
    BY <2>2, <2>3
<1>31. CASE IntRunEnd
  <2>1. PICK n \in Tasks :
           /\ n = Idle \/ n = this \/ state[n] = "READY"
           /\ \/ /\ state' = [state EXCEPT ![this] = "READY", ![n] = "RUNNING"]
                 /\ cpu' = n
              \/ /\ state' = [state EXCEPT ![this] = "RUNNING"]
                 /\ UNCHANGED cpu
    BY <1>31 DEF IntRunEnd, Reschedule, IsNext
  <2>2. /\ UNCHANGED tcbVars /\ pc[this] \in {"isr", "tic_done"}
        /\ pc'[this] \in {"isr", below[this]} /\ below'[this] \in {"user", below[this]}
        /\ \A t \in Tasks \ {this} : pc'[t] = pc[t] /\ below'[t] = below[t] /\ ints'[t] = ints[t]
    BY <1>31 DEF IntRunEnd
  <2>3. pc'[this] \notin BlockPoints
    BY <2>2
  <2>4. \A t \in Tasks : \/ state'[t] = state[t] /\ t # this
                         \/ /\ t \in {this, Idle} \/ state[t] = "READY"
                            /\ state'[t] \in {"READY", "RUNNING"}
    BY <2>1
  <2>5. Alive(cpu)'
    BY <2>1
  <2>6. ASSUME NEW t \in Tasks PROVE BlockTask(t)'
    <3>1. CASE t = this
      BY <1>a, <2>2, <2>3, <2>4, <3>1
    <3>2. CASE t # this
      BY <1>a, <2>2, <2>4, <3>2
    <3> QED
      BY <3>1, <3>2
  <2> QED
    BY <2>2, <2>5, <2>6
<1>32. CASE UNCHANGED vars
  BY <1>32, <1>a, <1>b DEF vars
<1> QED
  BY <1>1, <1>2, <1>3, <1>4, <1>5, <1>6, <1>7, <1>8, <1>9, <1>10, <1>11, <1>12,
     <1>13, <1>14, <1>15, <1>16, <1>17, <1>18, <1>19, <1>20, <1>21, <1>22, <1>23,
     <1>24, <1>25, <1>26, <1>27, <1>28, <1>29, <1>30, <1>31, <1>32
     DEF Next, Semaphores, Messages, Resumes, TaskCalls, WakeSteps, IdleSteps,
         Interrupts

(* Rules of use give this invariant in every system that keeps to them.    *)
UseInv == /\ TypeOK /\ ContextOK /\ BootOK /\ WaitOK /\ NotWaking /\ RunningIsCurrent
          /\ BlockOK

LEMMA UseInit == Init => UseInv
<1> SUFFICES ASSUME Init PROVE UseInv
  OBVIOUS
<1>1. TypeOK /\ ContextOK /\ BootOK
  BY InitType, QueueInit DEF TInv
<1>2. WaitOK /\ NotWaking /\ RunningIsCurrent
  BY DEF Init, WaitOK, NotWaking, RunningIsCurrent, WakePoints
<1>3. BlockOK
  BY IdleIsTask DEF Init, BlockOK, BlockTask, BlockPoints, Alive, MayGoOn
<1> QED
  BY <1>1, <1>2, <1>3 DEF UseInv

LEMMA UseStep == ASSUME UseRules, UseInv, [Next]_vars PROVE UseInv'
  BY TypeStep, ContextStep, BootStep, WaitStep, OneRunningStep, BlockStep
     DEF UseInv, UseRules, NoTaskWakes

LEMMA TasksFinite ==
  /\ IsFiniteSet(Tasks) /\ Cardinality(Tasks) \in Nat
  /\ \A s : /\ IsFiniteSet(Granted(s)) /\ Cardinality(Granted(s)) \in Nat
            /\ Cardinality(Granted(s)) <= Cardinality(Tasks)
<1>1. IsFiniteSet(Tasks)
  BY KernelAssumption, FS_AddElement DEF Tasks
<1>2. \A s : Granted(s) \subseteq Tasks
  BY DEF Granted
<1> QED
  BY <1>1, <1>2, FS_Subset, FS_CardinalityType

(* Which tasks own a semaphore that they have not taken into account yet   *)
(* changes with what they wait for and got_resource only.                  *)
LEMMA GrantedKept ==
  ASSUME NEW s, \A t \in Tasks : pc'[t] = "sem_get" /\ arg'[t] = s /\ got_resource'[t]
                             <=> pc[t] = "sem_get" /\ arg[t] = s /\ got_resource[t]
  PROVE  Granted(s)' = Granted(s)
  BY DEF Granted

LEMMA TokensStep ==
  ASSUME UseRules, UseInv, TokensConserved, [Next]_vars
  PROVE  TokensConserved'
<1>0. /\ cpu \in Tasks /\ pc \in [Tasks -> Points] /\ below \in [Tasks -> Points]
      /\ ints \in [Tasks -> BOOLEAN] /\ got_resource \in [Tasks -> BOOLEAN]
      /\ arg \in [Tasks -> Tasks \cup Sems \cup {NoId}]
      /\ tokens \in [Sems -> Int] /\ count_now \in [Sems -> Nat]
      /\ \A s \in Sems : count_now[s] <= CountMax[s] /\ CountMax[s] \in Nat
      /\ \A s \in Sems : tokens[s] = count_now[s] + Cardinality(Granted(s))
      /\ \A t \in Tasks : pc[t] \in BlockPoints => ~ints[t]
      /\ \A t \in Tasks : below[t] \notin BlockPoints
      /\ Idle \in Tasks
  BY KernelAssumption, IdleIsTask DEF UseInv, TypeOK, TokensConserved, BlockOK, BlockTask
<1>a. \A t \in Tasks : /\ <<"task_wake", t>> \notin Calls[this]
                       /\ pc[t] = "sem_get" => ~MayBeSent(t)
  BY <1>0 DEF UseRules, UseInv, NoTaskWakes, BlockOK, BlockTask, this
<1>b. \A t \in Tasks : pc[t] \notin WakePoints
  BY DEF UseInv, NotWaking
<1> DEFINE Same(s) == \A t \in Tasks :
             pc'[t] = "sem_get" /\ arg'[t] = s /\ got_resource'[t]
               <=> pc[t] = "sem_get" /\ arg[t] = s /\ got_resource[t]
           Goal == (\A s : Same(s)) /\ UNCHANGED <<count_now, tokens>>
           Conserved(s) == tokens'[s] = count_now'[s] + Cardinality(Granted(s)')
<1>e. /\ Cardinality(Tasks) \in Nat
      /\ \A s \in Sems : /\ Cardinality(Granted(s)) \in Nat
                          /\ Cardinality(Granted(s)) <= Cardinality(Tasks)
  BY TasksFinite
<1>c. ASSUME Goal PROVE TokensConserved'
  <2>1. \A s : Granted(s)' = Granted(s)
    BY <1>c, GrantedKept
  <2> QED
    BY <1>0, <1>c, <2>1 DEF TokensConserved
<1>d. ASSUME \A s \in Sems : Conserved(s) PROVE TokensConserved'
  BY <1>d DEF TokensConserved
<1> USE <1>0 DEF BlockPoints, this, ctxVars, tcbVars, objVars, WakePoints
<1>1. ASSUME NEW s \in Sems, SemGive(s) PROVE TokensConserved'
  <2>0. pc[this] \in {"user", "isr"} /\ UNCHANGED arg
    BY <1>1 DEF SemGive, Caller
  <2>1. CASE Return /\ UNCHANGED <<count_now, tokens, tcbVars>>
    BY <1>c, <2>0, <2>1 DEF Return
  <2>2. CASE /\ ~AtMax(s) /\ count_now' = [count_now EXCEPT ![s] = @ + 1] /\ Credit(s)
             /\ Return /\ UNCHANGED tcbVars
    <3>1. \A r \in Sems : Granted(r)' = Granted(r)
      BY <2>0, <2>2, GrantedKept DEF Return
    <3>2. count_now[s] < CountMax[s]
      <4>1. count_now[s] # CountMax[s]
        BY <2>2 DEF AtMax
      <4> QED
        BY <4>1
    <3>3. tokens[s] < CountMax[s] + Cardinality(Tasks)
      BY <3>2, <1>e
    <3>4. tokens' = [tokens EXCEPT ![s] = @ + 1]
      BY <2>2, <3>3 DEF Credit
    <3>5. \A r \in Sems : Conserved(r)
      BY <2>2, <3>1, <3>4, <1>e
    <3> QED
      BY <1>d, <3>5
  <2>3. ASSUME NEW w \in Tasks, ~AtMax(s), count_now[s] = 0, Credit(s), UNCHANGED count_now,
               IsFirstAwaiting(w, s), Grant(w),
               Preempt(w, task_q, [state EXCEPT ![w] = "READY"])
        PROVE  TokensConserved'
    <3>1. pc[w] = "sem_get" /\ arg[w] = s /\ ~got_resource[w] /\ w # this
      BY <2>0, <2>3, AwaitsIsWaitsFor
         DEF IsFirstAwaiting, WaitsFor, UseInv, BlockOK, BlockTask, Alive
    <3>2. \A t \in Tasks : pc'[t] = "sem_get" <=> pc[t] = "sem_get"
      BY <2>0, <2>3 DEF Preempt, RunNext
    <3>3. got_resource' = [got_resource EXCEPT ![w] = TRUE]
      BY <2>3 DEF Grant
    <3>4. \A r \in Sems : r # s => Granted(r)' = Granted(r)
      BY <2>0, <3>1, <3>2, <3>3 DEF Granted
    <3>5. Granted(s)' = Granted(s) \cup {w} /\ w \notin Granted(s)
      BY <2>0, <3>1, <3>2, <3>3 DEF Granted
    <3>6. Cardinality(Granted(s)') = Cardinality(Granted(s)) + 1
      <4> DEFINE G == Granted(s)
      <4>1. IsFiniteSet(G) /\ w \notin G
        BY <3>5, TasksFinite
      <4>2. Cardinality(G \cup {w}) = Cardinality(G) + 1
        <5> HIDE DEF G
        <5> QED
          BY <4>1, FS_AddElement
      <4> QED
        BY <3>5, <4>2
    <3>7. CountMax[s] > 0
      <4>1. 0 # CountMax[s]
        BY <2>3 DEF AtMax
      <4> QED
        BY <4>1
    <3>8. tokens' = [tokens EXCEPT ![s] = @ + 1]
      <4>1. tokens[s] < CountMax[s] + Cardinality(Tasks)
        BY <2>3, <3>7, <1>e
      <4> QED
        BY <2>3, <4>1 DEF Credit
    <3>9. \A r \in Sems : Conserved(r)
      <4>1. ASSUME NEW r \in Sems, r # s PROVE Conserved(r)
        BY <2>3, <3>4, <3>8, <4>1
      <4>2. Conserved(s)
        BY <2>3, <3>6, <3>8, <1>e
      <4> QED
        BY <4>1, <4>2
    <3> QED
      BY <1>d, <3>9
  <2> QED
    BY <1>1, <2>1, <2>2, <2>3 DEF SemGive
<1>2. ASSUME NEW s \in Sems, NEW n \in Timeouts, SemGetNow(s, n) PROVE TokensConserved'
  <2>1. pc[this] \in {"user", "isr"} /\ UNCHANGED <<arg, pc, got_resource>>
    BY <1>2 DEF SemGetNow, Caller, Return
  <2>2. CASE UNCHANGED <<count_now, tokens>>
    BY <1>c, <2>1, <2>2
  <2>3. CASE /\ count_now[s] # 0 /\ count_now' = [count_now EXCEPT ![s] = @ - 1]
             /\ Debit(s)
    <3>1. \A r \in Sems : Granted(r)' = Granted(r)
      BY <2>1, GrantedKept
    <3>2. tokens' = [tokens EXCEPT ![s] = @ - 1]
      <4>1. tokens[s] >= 0
        BY <2>3, <1>e
      <4> QED
        BY <2>3, <4>1 DEF Debit
    <3>3. \A r \in Sems : Conserved(r)
      BY <2>3, <3>1, <3>2, <1>e
    <3> QED
      BY <1>d, <3>3
  <2> QED
    BY <1>2, <2>2, <2>3 DEF SemGetNow
<1>3. ASSUME NEW s \in Sems, NEW n \in Timeouts, SemGetWait(s, n) PROVE TokensConserved'
  BY <1>3, <1>a, <1>b, <1>c DEF SemGetWait, TaskCaller, Block, RunNext
<1>4. ASSUME NEW n \in Timeouts, MsgGetNow(n) PROVE TokensConserved'
  BY <1>4, <1>a, <1>b, <1>c DEF MsgGetNow, TaskCaller, Return
<1>5. ASSUME NEW n \in Timeouts, MsgGetWait(n) PROVE TokensConserved'
  BY <1>5, <1>a, <1>b, <1>c DEF MsgGetWait, TaskCaller, Block, RunNext
<1>6. ASSUME NEW d \in Tasks, MsgSend(d) PROVE TokensConserved'
  <2>1. pc[this] \in {"user", "isr"} /\ MayBeSent(d) /\ pc[d] # "sem_get"
    BY <1>6, <1>a DEF MsgSend, Caller, MayBeSent
  <2>2. \A t \in Tasks : pc'[t] = "sem_get" <=> pc[t] = "sem_get"
    BY <1>6, <2>1 DEF MsgSend, Return, Preempt, RunNext
  <2>3. /\ UNCHANGED <<arg, count_now, tokens>>
        /\ got_resource' \in {got_resource, [got_resource EXCEPT ![d] = TRUE]}
    BY <1>6 DEF MsgSend
  <2> QED
    BY <1>c, <2>1, <2>2, <2>3
<1>7. CASE SemGetResume
  <2>0. pc[this] = "sem_get" /\ pc' = [pc EXCEPT ![this] = "user"]
        /\ arg' = [arg EXCEPT ![this] = NoId] /\ UNCHANGED <<got_resource, count_now>>
    BY <1>7 DEF SemGetResume, Unblock
  <2>1. CASE ~got_resource[this] /\ UNCHANGED tokens
    BY <1>c, <2>0, <2>1
  <2>2. CASE got_resource[this] /\ Debit(arg[this])
    <3>0. PICK s \in Tasks \cup Sems \cup {NoId} : s = arg[this]
      BY <2>0
    <3>1. \A r \in Sems : r # s => Granted(r)' = Granted(r)
      BY <2>0, <3>0 DEF Granted
    <3>2. Granted(s)' = Granted(s) \ {this} /\ this \in Granted(s)
      BY <2>0, <2>2, <3>0 DEF Granted
    <3>3. ASSUME s \in Sems PROVE /\ Cardinality(Granted(s)') = Cardinality(Granted(s)) - 1
                                  /\ Cardinality(Granted(s)) > 0
      <4> DEFINE G == Granted(s)
      <4>1. IsFiniteSet(G) /\ cpu \in G
        BY <3>2, TasksFinite
      <4>2. Cardinality(G \ {cpu}) = Cardinality(G) - 1 /\ Cardinality(G) # 0
        <5> HIDE DEF G
        <5> QED
          BY <4>1, FS_RemoveElement, FS_EmptySet
      <4> QED
        BY <3>2, <3>3, <4>2, <1>e
    <3>4. ASSUME NEW r \in Sems PROVE Conserved(r)
      <4>1. CASE r # s
        BY <2>0, <2>2, <3>0, <3>1, <4>1 DEF Debit
      <4>2. CASE r = s
        <5>1. tokens[r] > 0
          BY <3>3, <4>2, <1>e
        <5>2. tokens'[r] = tokens[r] - 1
          BY <2>2, <3>0, <4>2, <5>1 DEF Debit
        <5> QED
          BY <2>0, <3>3, <4>2, <5>2, <1>e
      <4> QED
        BY <4>1, <4>2
    <3> QED
      BY <1>d, <3>4
  <2>3. got_resource[this] \/ time_out[this]
    BY <2>0 DEF UseInv, BlockOK, BlockTask, Alive, MayGoOn
  <2> QED
    BY <1>7, <2>1, <2>2, <2>3 DEF SemGetResume, TimedOut
<1>8. CASE MsgGetResume
  BY <1>8, <1>a, <1>b, <1>c DEF MsgGetResume, Unblock
<1>9. CASE TaskDelayResume
  BY <1>9, <1>a, <1>b, <1>c DEF TaskDelayResume, Unblock
<1>10. CASE TaskSleepResume
  BY <1>10, <1>a, <1>b, <1>c DEF TaskSleepResume
<1>11. CASE Switched
  BY <1>11, <1>a, <1>b, <1>c DEF Switched
<1>12. CASE TaskStart
  BY <1>12, <1>a, <1>b, <1>c DEF TaskStart
<1>13. CASE ReturnFromExit
  BY <1>13, <1>a, <1>b, <1>c DEF ReturnFromExit
<1>14. ASSUME NEW d \in Tasks, TaskNew(d) PROVE TokensConserved'
  BY <1>14, <1>a, <1>b, <1>c DEF TaskNew, TaskCaller, Preempt, RunNext
<1>15. ASSUME NEW d \in Tasks, TaskDelete(d) PROVE TokensConserved'
  BY <1>15, <1>a, <1>b, <1>c DEF TaskDelete, TaskCaller
<1>16. ASSUME NEW d \in Tasks, TaskWake(d) PROVE TokensConserved'
  BY <1>16, <1>a, <1>b, <1>c DEF TaskWake, WakeStep
<1>17. ASSUME NEW d \in Tasks, TaskWakeIsr(d) PROVE TokensConserved'
  BY <1>17, <1>a, <1>b, <1>c DEF TaskWakeIsr, Preempt, RunNext
<1>18. ASSUME NEW n \in 0..MaxTics, TaskDelay(n) PROVE TokensConserved'
  BY <1>18, <1>a, <1>b, <1>c DEF TaskDelay, TaskCaller, Block, RunNext
<1>19. CASE TaskSleep
  BY <1>19, <1>a, <1>b, <1>c DEF TaskSleep, TaskCaller, RunNext
<1>20. CASE TaskExit
  BY <1>20, <1>a, <1>b, <1>c DEF TaskExit, TaskCaller, RunNext
<1>21. CASE WakeSet
  BY <1>21, <1>a, <1>b, <1>c DEF WakeSet, WakeStep
<1>22. CASE WakeCompare
  BY <1>22, <1>a, <1>b, <1>c DEF WakeCompare, WakeStep
<1>23. CASE WakeRunNext
  BY <1>23, <1>a, <1>b, <1>c DEF WakeRunNext, WakeStep
<1>24. CASE WakeSwitch
  BY <1>24, <1>a, <1>b, <1>c DEF WakeSwitch, WakeStep
<1>25. CASE IdleLower
  <2>1. pc[this] = "boot" /\ this = Idle
    BY <1>25 DEF IdleLower, UseInv, ContextOK
  <2>2. \A t \in Tasks : pc'[t] = "sem_get" <=> pc[t] = "sem_get"
    <3>1. CASE pc' = [pc EXCEPT ![Idle] = "user"]
      BY <2>1, <3>1
    <3>2. ASSUME NEW n \in Tasks,
                 pc' = [pc EXCEPT ![this] = IF n = this THEN "wild" ELSE "lowered"]
          PROVE  \A t \in Tasks : pc'[t] = "sem_get" <=> pc[t] = "sem_get"
      BY <2>1, <3>2
    <3> QED
      BY <1>25, <3>1, <3>2 DEF IdleLower, RunNext
  <2>3. UNCHANGED <<arg, tcbVars, objVars>>
    BY <1>25 DEF IdleLower
  <2> QED
    BY <1>c, <2>2, <2>3
<1>26. CASE IdleStart
  BY <1>26, <1>a, <1>b, <1>c DEF IdleStart
<1>27. ASSUME NEW d \in Tasks, CleanupFind(d) PROVE TokensConserved'
  BY <1>27, <1>a, <1>b, <1>c DEF CleanupFind
<1>28. CASE CleanupRemove
  BY <1>28, <1>a, <1>b, <1>c DEF CleanupRemove
<1>29. CASE Interrupt
  BY <1>29, <1>a, <1>b, <1>c DEF Interrupt
<1>30. CASE TimerTic
  BY <1>30, <1>a, <1>b, <1>c DEF TimerTic, Expire
<1>31. CASE IntRunEnd
  <2>1. /\ pc[this] \in {"isr", "tic_done"} /\ pc'[this] \in {"isr", below[this]}
        /\ \A t \in Tasks \ {this} : pc'[t] = pc[t]
        /\ UNCHANGED <<arg, tcbVars, objVars>>
    BY <1>31 DEF IntRunEnd
  <2> QED
    BY <1>c, <2>1
<1>32. CASE UNCHANGED vars
  BY <1>32, <1>a, <1>b, <1>c DEF vars
<1> QED
  BY <1>1, <1>2, <1>3, <1>4, <1>5, <1>6, <1>7, <1>8, <1>9, <1>10, <1>11, <1>12,
     <1>13, <1>14, <1>15, <1>16, <1>17, <1>18, <1>19, <1>20, <1>21, <1>22, <1>23,
     <1>24, <1>25, <1>26, <1>27, <1>28, <1>29, <1>30, <1>31, <1>32
     DEF Next, Semaphores, Messages, Resumes, TaskCalls, WakeSteps, IdleSteps,
         Interrupts

(* In every system whose tasks keep to the rules of use, each unit that    *)
(* sem_give() has given and no sem_get() has come back with is in the      *)
(* semaphore's count, or on its way to exactly one task: none is lost, and *)
(* none is taken twice.  (sem_get() leaves its wait_id when it gives up:   *)
(* the second rule keeps it from being found in another wait.)             *)
THEOREM NoTokenLost ==
  ASSUME UseRules
  PROVE  Spec => []TokensConserved
<1>1. Init => TokensConserved
  <2>1. ASSUME Init PROVE \A s : Granted(s) = {}
    BY <2>1 DEF Init, Granted
  <2>2. Init => tokens = count_now /\ count_now \in [Sems -> Nat]
    BY KernelAssumption DEF Init
  <2> QED
    BY <2>1, <2>2, FS_EmptySet DEF TokensConserved
<1>2. UseInv /\ TokensConserved /\ [Next]_vars => (UseInv /\ TokensConserved)'
  BY UseStep, TokensStep
<1> QED
  BY <1>1, <1>2, UseInit, PTL DEF Spec

(* A box never holds more messages than fit, and the receiver that was     *)
(* made ready by a message still has one.                                  *)
BoxTask(t) == /\ num_msgs[t] <= MaxMsgs[t]
              /\ pc[t] = "msg_get" /\ got_resource[t] => num_msgs[t] > 0
BoxOK == \A t \in Tasks : BoxTask(t)

LEMMA BoxStep ==
  ASSUME UseRules, UseInv, BoxOK, [Next]_vars
  PROVE  BoxOK'
<1>0. /\ cpu \in Tasks /\ pc \in [Tasks -> Points] /\ below \in [Tasks -> Points]
      /\ ints \in [Tasks -> BOOLEAN] /\ got_resource \in [Tasks -> BOOLEAN]
      /\ num_msgs \in [Tasks -> 0..(Wrap - 1)] /\ Wrap \in Nat
      /\ \A t \in Tasks : MaxMsgs[t] \in Nat /\ MaxMsgs[t] < Wrap
      /\ \A t \in Tasks : below[t] \notin BlockPoints
      /\ \A t \in Tasks : num_msgs[t] <= MaxMsgs[t]
      /\ \A t \in Tasks : pc[t] = "msg_get" /\ got_resource[t] => num_msgs[t] > 0
  BY KernelAssumption DEF UseInv, TypeOK, BlockOK, BlockTask, BoxOK, BoxTask
<1>a. \A t \in Tasks : <<"task_wake", t>> \notin Calls[this]
  BY <1>0 DEF UseRules, NoTaskWakes, this
<1>b. \A t \in Tasks : pc[t] \notin WakePoints
  BY DEF UseInv, NotWaking
<1> DEFINE Goal == BoxOK'
<1> USE <1>0 DEF BoxOK, BoxTask, BlockPoints, this, ctxVars, tcbVars, objVars, WakePoints
<1>1. ASSUME NEW s \in Sems, SemGive(s) PROVE Goal
  <2>0. pc[this] \in {"user", "isr"} /\ UNCHANGED num_msgs
    BY <1>1 DEF SemGive, Caller
  <2>1. CASE Return /\ UNCHANGED tcbVars
    BY <2>0, <2>1 DEF Return
  <2>2. ASSUME NEW w \in Tasks, IsFirstAwaiting(w, s), Grant(w),
               Preempt(w, task_q, [state EXCEPT ![w] = "READY"])
        PROVE  Goal
    <3>1. pc[w] = "sem_get"
      BY <2>2, AwaitsIsWaitsFor DEF IsFirstAwaiting, WaitsFor, UseInv
    <3>2. \A t \in Tasks : pc'[t] = "msg_get" => pc[t] = "msg_get"
      BY <2>0, <2>2 DEF Preempt, RunNext
    <3>3. got_resource' = [got_resource EXCEPT ![w] = TRUE]
      BY <2>2 DEF Grant
    <3> QED
      BY <2>0, <3>1, <3>2, <3>3
  <2> QED
    BY <1>1, <2>1, <2>2 DEF SemGive
<1>2. ASSUME NEW s \in Sems, NEW n \in Timeouts, SemGetNow(s, n) PROVE Goal
  BY <1>2, <1>a, <1>b DEF SemGetNow, Caller, Return
<1>3. ASSUME NEW s \in Sems, NEW n \in Timeouts, SemGetWait(s, n) PROVE Goal
  BY <1>3, <1>a, <1>b DEF SemGetWait, TaskCaller, Block, RunNext
<1>4. ASSUME NEW n \in Timeouts, MsgGetNow(n) PROVE Goal
  BY <1>4, <1>a, <1>b DEF MsgGetNow, TaskCaller, Return
<1>5. ASSUME NEW n \in Timeouts, MsgGetWait(n) PROVE Goal
  BY <1>5, <1>a, <1>b DEF MsgGetWait, TaskCaller, Block, RunNext
<1>6. ASSUME NEW d \in Tasks, MsgSend(d) PROVE Goal
  <2>1. /\ pc[this] \in {"user", "isr"}
        /\ \A t \in Tasks : pc'[t] = "msg_get" => pc[t] = "msg_get"
    BY <1>6 DEF MsgSend, Caller, Return, Preempt, RunNext
  <2>2. CASE UNCHANGED <<num_msgs, got_resource>>
    BY <2>1, <2>2
  <2>3. CASE /\ ~IsFull(d) /\ num_msgs' = [num_msgs EXCEPT ![d] = (@ + 1) % Wrap]
             /\ got_resource' = [got_resource EXCEPT ![d] = TRUE]
    <3>1. num_msgs[d] + 1 <= MaxMsgs[d] /\ (num_msgs[d] + 1) % Wrap = num_msgs[d] + 1
      BY <2>3 DEF IsFull
    <3> QED
      BY <2>1, <2>3, <3>1
  <2> QED
    BY <1>6, <2>2, <2>3 DEF MsgSend
<1>7. CASE SemGetResume
  BY <1>7, <1>a, <1>b DEF SemGetResume, Unblock
<1>8. CASE MsgGetResume
  <2>1. pc[this] = "msg_get" /\ pc' = [pc EXCEPT ![this] = "user"] /\ UNCHANGED tcbVars
    BY <1>8 DEF MsgGetResume, Unblock
  <2>2. CASE UNCHANGED num_msgs
    BY <2>1, <2>2
  <2>3. CASE got_resource[this] /\ num_msgs' = [num_msgs EXCEPT ![this] = (@ - 1) % Wrap]
    <3>1. (num_msgs[this] - 1) % Wrap = num_msgs[this] - 1
      BY <2>1, <2>3
    <3> QED
      BY <2>1, <2>3, <3>1
  <2>4. got_resource[this] \/ time_out[this]
    BY <2>1 DEF UseInv, BlockOK, BlockTask, Alive, MayGoOn
  <2> QED
    BY <1>8, <2>2, <2>3, <2>4 DEF MsgGetResume, TimedOut
<1>9. CASE TaskDelayResume
  BY <1>9, <1>a, <1>b DEF TaskDelayResume, Unblock
<1>10. CASE TaskSleepResume
  BY <1>10, <1>a, <1>b DEF TaskSleepResume
<1>11. CASE Switched
  BY <1>11, <1>a, <1>b DEF Switched
<1>12. CASE TaskStart
  BY <1>12, <1>a, <1>b DEF TaskStart
<1>13. CASE ReturnFromExit
  BY <1>13, <1>a, <1>b DEF ReturnFromExit
<1>14. ASSUME NEW d \in Tasks, TaskNew(d) PROVE Goal
  BY <1>14, <1>a, <1>b DEF TaskNew, TaskCaller, Preempt, RunNext
<1>15. ASSUME NEW d \in Tasks, TaskDelete(d) PROVE Goal
  BY <1>15, <1>a, <1>b DEF TaskDelete, TaskCaller
<1>16. ASSUME NEW d \in Tasks, TaskWake(d) PROVE Goal
  BY <1>16, <1>a, <1>b DEF TaskWake, WakeStep
<1>17. ASSUME NEW d \in Tasks, TaskWakeIsr(d) PROVE Goal
  BY <1>17, <1>a, <1>b DEF TaskWakeIsr, Preempt, RunNext
<1>18. ASSUME NEW n \in 0..MaxTics, TaskDelay(n) PROVE Goal
  BY <1>18, <1>a, <1>b DEF TaskDelay, TaskCaller, Block, RunNext
<1>19. CASE TaskSleep
  BY <1>19, <1>a, <1>b DEF TaskSleep, TaskCaller, RunNext
<1>20. CASE TaskExit
  BY <1>20, <1>a, <1>b DEF TaskExit, TaskCaller, RunNext
<1>21. CASE WakeSet
  BY <1>21, <1>a, <1>b DEF WakeSet, WakeStep
<1>22. CASE WakeCompare
  BY <1>22, <1>a, <1>b DEF WakeCompare, WakeStep
<1>23. CASE WakeRunNext
  BY <1>23, <1>a, <1>b DEF WakeRunNext, WakeStep
<1>24. CASE WakeSwitch
  BY <1>24, <1>a, <1>b DEF WakeSwitch, WakeStep
<1>25. CASE IdleLower
  BY <1>25, <1>a, <1>b DEF IdleLower, RunNext
<1>26. CASE IdleStart
  BY <1>26, <1>a, <1>b DEF IdleStart
<1>27. ASSUME NEW d \in Tasks, CleanupFind(d) PROVE Goal
  BY <1>27, <1>a, <1>b DEF CleanupFind
<1>28. CASE CleanupRemove
  BY <1>28, <1>a, <1>b DEF CleanupRemove
<1>29. CASE Interrupt
  BY <1>29, <1>a, <1>b DEF Interrupt
<1>30. CASE TimerTic
  BY <1>30, <1>a, <1>b DEF TimerTic, Expire
<1>31. CASE IntRunEnd
  <2>1. /\ pc'[this] \in {"isr", below[this]}
        /\ \A t \in Tasks \ {this} : pc'[t] = pc[t]
        /\ UNCHANGED <<tcbVars, objVars>>
    BY <1>31 DEF IntRunEnd
  <2> QED
    BY <2>1
<1>32. CASE UNCHANGED vars
  BY <1>32, <1>a, <1>b DEF vars
<1> QED
  BY <1>1, <1>2, <1>3, <1>4, <1>5, <1>6, <1>7, <1>8, <1>9, <1>10, <1>11, <1>12,
     <1>13, <1>14, <1>15, <1>16, <1>17, <1>18, <1>19, <1>20, <1>21, <1>22, <1>23,
     <1>24, <1>25, <1>26, <1>27, <1>28, <1>29, <1>30, <1>31, <1>32
     DEF Next, Semaphores, Messages, Resumes, TaskCalls, WakeSteps, IdleSteps,
         Interrupts

(* There, a task that msg_get() made ready, and that does not give up,     *)
(* finds a message in its box, which is not underflowed.                   *)
THEOREM MessageIsThere ==
  ASSUME UseRules
  PROVE  Spec => []MessagePresent
<1>1. Init => BoxOK
  BY KernelAssumption DEF Init, BoxOK, BoxTask
<1>2. UseInv /\ BoxOK /\ [Next]_vars => (UseInv /\ BoxOK)'
  BY UseStep, BoxStep
<1>3. UseInv /\ BoxOK => MessagePresent
  BY DEF UseInv, BlockOK, BlockTask, BoxOK, BoxTask, MessagePresent
<1> QED
  BY <1>1, <1>2, <1>3, UseInit, PTL DEF Spec

-----------------------------------------------------------------------------
(* Time-outs and the order of waiters, where tasks end in an orderly way.  *)

(* The timer of a task that waits with a time-out has between 1 and that   *)
(* many tics left.                                                         *)
TimerTask(t) ==
  state[t] = "WAITING" =>
     /\ pc[t] \in BlockPoints
     /\ patience[t] > 0 => /\ timer_active[t] /\ time_count[t] >= 1
                           /\ time_count[t] + waited[t] = patience[t]
TimerOK == \A t \in Tasks : TimerTask(t)

(* Every step keeps TimerOK.                                               *)
LEMMA TimerStep ==
  ASSUME LifeInv, TimerOK, [Next]_vars
  PROVE  TimerOK'
<1>0. /\ cpu \in Tasks /\ Idle \in Tasks /\ pc \in [Tasks -> Points]
      /\ state \in [Tasks -> TaskStates] /\ timer_active \in [Tasks -> BOOLEAN]
      /\ time_count \in [Tasks -> 0..(Wrap - 1)] /\ Wrap \in Nat
      /\ patience \in [Tasks -> Timeouts] /\ waited \in [Tasks -> 0..MaxTics]
      /\ state[cpu] # "WAITING" /\ \A t \in Tasks : pc[t] \notin WakePoints
      /\ \A t \in Tasks : TimerTask(t)
  BY IdleIsTask, KernelAssumption
     DEF LifeInv, TypeOK, EndOK, Alive, NotWaking, TimerOK
<1>a. \A t \in Tasks : state[t] = "WAITING" => t \in Range(task_q)
  BY DEF LifeInv, QueueHolds
<1> DEFINE Kept(t) == state'[t] = "WAITING" =>
             /\ state[t] = "WAITING" /\ pc'[t] = pc[t]
             /\ patience'[t] = patience[t] /\ waited'[t] = waited[t]
             /\ timer_active'[t] = timer_active[t] /\ time_count'[t] = time_count[t]
           Starts(n) == /\ pc'[this] \in BlockPoints /\ patience'[this] = n
                        /\ waited'[this] = 0
                        /\ n > 0 => timer_active'[this] /\ time_count'[this] = n
           Goal == \A t \in Tasks : Kept(t)
<1>b. ASSUME Goal PROVE TimerOK'
  BY <1>0, <1>b DEF TimerOK, TimerTask
<1>c. ASSUME NEW n \in Timeouts, Starts(n), \A t \in Tasks \ {this} : Kept(t)
      PROVE  TimerOK'
  BY <1>0, <1>c DEF TimerOK, TimerTask, this, Timeouts, WAIT_FOREVER
<1> USE <1>0 DEF this, ctxVars, tcbVars, objVars, histVars, WakePoints
<1>1. ASSUME NEW s \in Sems, SemGive(s) PROVE TimerOK'
  <2>1. UNCHANGED <<time_count, patience, waited>> /\ pc[this] \notin BlockPoints
    BY <1>1 DEF SemGive, Caller, BlockPoints
  <2>2. CASE Return /\ UNCHANGED tcbVars
    BY <1>b, <2>1, <2>2 DEF Return
  <2>3. ASSUME NEW w \in Tasks, Grant(w), Preempt(w, task_q, [state EXCEPT ![w] = "READY"])
        PROVE  TimerOK'
    <3> DEFINE st == [state EXCEPT ![w] = "READY"]
    <3>1. timer_active' = [timer_active EXCEPT ![w] = FALSE]
      BY <2>3 DEF Grant
    <3>2. \A t \in Tasks : st[t] = IF t = w THEN "READY" ELSE state[t]
      OBVIOUS
    <3>3. Preempt(w, task_q, st) /\ st \in [Tasks -> TaskStates]
      BY <2>3 DEF TaskStates
    <3> HIDE DEF st
    <3>4. \A t \in Tasks : state'[t] = "WAITING" => st[t] = "WAITING" /\ pc'[t] = pc[t]
      BY <3>2, <3>3, PreemptEffect
    <3> QED
      BY <1>b, <2>1, <3>1, <3>2, <3>4
  <2> QED
    BY <1>1, <2>2, <2>3 DEF SemGive
<1>2. ASSUME NEW s \in Sems, NEW n \in Timeouts, SemGetNow(s, n) PROVE TimerOK'
  BY <1>2, <1>b DEF SemGetNow, Caller, Return
<1>3. ASSUME NEW s \in Sems, NEW n \in Timeouts, SemGetWait(s, n) PROVE TimerOK'
  <2>1. Starts(n)
    BY <1>3 DEF SemGetWait, Block, RunNext, BlockPoints, Timeouts, WAIT_FOREVER
  <2>2. \A t \in Tasks \ {this} : Kept(t)
    BY <1>3 DEF SemGetWait, Block, RunNext
  <2> QED
    BY <1>c, <2>1, <2>2
<1>4. ASSUME NEW n \in Timeouts, MsgGetNow(n) PROVE TimerOK'
  BY <1>4, <1>b DEF MsgGetNow, TaskCaller, Return
<1>5. ASSUME NEW n \in Timeouts, MsgGetWait(n) PROVE TimerOK'
  <2>1. Starts(n)
    BY <1>5 DEF MsgGetWait, Block, RunNext, BlockPoints, Timeouts, WAIT_FOREVER
  <2>2. \A t \in Tasks \ {this} : Kept(t)
    BY <1>5 DEF MsgGetWait, Block, RunNext
  <2> QED
    BY <1>c, <2>1, <2>2
<1>6. ASSUME NEW d \in Tasks, MsgSend(d) PROVE TimerOK'
  BY <1>6, <1>b DEF MsgSend, Caller, Return, Preempt, RunNext
<1>7. CASE SemGetResume
  BY <1>7, <1>b DEF SemGetResume, Unblock
<1>8. CASE MsgGetResume
  BY <1>8, <1>b DEF MsgGetResume, Unblock
<1>9. CASE TaskDelayResume
  BY <1>9, <1>b DEF TaskDelayResume, Unblock
<1>10. CASE TaskSleepResume
  BY <1>10, <1>b DEF TaskSleepResume
<1>11. CASE Switched
  BY <1>11, <1>b DEF Switched
<1>12. CASE TaskStart
  BY <1>12, <1>b DEF TaskStart
<1>13. CASE ReturnFromExit
  BY <1>13, <1>b DEF ReturnFromExit
<1>14. ASSUME NEW d \in Tasks, TaskNew(d) PROVE TimerOK'
  BY <1>14, <1>b DEF TaskNew, TaskCaller, Preempt, RunNext
<1>15. ASSUME NEW d \in Tasks, TaskDelete(d) PROVE TimerOK'
  BY <1>15, <1>b DEF TaskDelete, TaskCaller
<1>16. ASSUME NEW d \in Tasks, TaskWake(d) PROVE TimerOK'
  BY <1>16, <1>b DEF TaskWake, WakeStep
<1>17. ASSUME NEW d \in Tasks, TaskWakeIsr(d) PROVE TimerOK'
  BY <1>17, <1>b DEF TaskWakeIsr, Preempt, RunNext
<1>18. ASSUME NEW n \in 0..MaxTics, TaskDelay(n) PROVE TimerOK'
  <2>1. Starts(n)
    BY <1>18 DEF TaskDelay, Block, RunNext, BlockPoints, Timeouts, WAIT_FOREVER
  <2>2. \A t \in Tasks \ {this} : Kept(t)
    BY <1>18 DEF TaskDelay, Block, RunNext
  <2> QED
    BY <1>c, <2>1, <2>2 DEF Timeouts
<1>19. CASE TaskSleep
  BY <1>19, <1>b DEF TaskSleep, TaskCaller, RunNext
<1>20. CASE TaskExit
  BY <1>20, <1>b DEF TaskExit, TaskCaller, RunNext
<1>21. CASE WakeSet
  BY <1>21, <1>b DEF WakeSet, WakeStep
<1>22. CASE WakeCompare
  BY <1>22, <1>b DEF WakeCompare, WakeStep
<1>23. CASE WakeRunNext
  BY <1>23, <1>b DEF WakeRunNext, WakeStep
<1>24. CASE WakeSwitch
  BY <1>24, <1>b DEF WakeSwitch, WakeStep
<1>25. CASE IdleLower
  <2>1. this = Idle /\ UNCHANGED <<time_count, timer_active, patience, waited>>
    BY <1>25 DEF IdleLower, LifeInv, ContextOK
  <2>2. \A t \in Tasks : state'[t] = "WAITING" => state[t] = "WAITING" /\ t # Idle
    BY <1>25, <2>1 DEF IdleLower, RunNext
  <2>3. \A t \in Tasks : t # Idle => pc'[t] = pc[t]
    BY <1>25, <2>1 DEF IdleLower, RunNext
  <2> QED
    BY <1>b, <2>1, <2>2, <2>3
<1>26. CASE IdleStart
  BY <1>26, <1>b DEF IdleStart
<1>27. ASSUME NEW d \in Tasks, CleanupFind(d) PROVE TimerOK'
  BY <1>27, <1>b DEF CleanupFind
<1>28. CASE CleanupRemove
  BY <1>28, <1>b DEF CleanupRemove
<1>29. CASE Interrupt
  BY <1>29, <1>b DEF Interrupt
<1>30. CASE TimerTic
  <2>1. /\ pc[this] = "isr" /\ pc' = [pc EXCEPT ![this] = "tic_done"]
        /\ UNCHANGED patience
        /\ \A t \in Tasks :
              /\ timer_active'[t] = (timer_active[t] /\ ~Pops(t))
              /\ state'[t] = IF Pops(t) THEN "READY" ELSE state[t]
              /\ time_count'[t] = IF Counting(t) THEN (time_count[t] - 1) % Wrap
                                  ELSE time_count[t]
              /\ waited'[t] = IF pc[t] \in BlockPoints /\ waited[t] < MaxTics
                              THEN waited[t] + 1 ELSE waited[t]
    BY <1>30 DEF TimerTic, Expire, BlockPoints
  <2>2. ASSUME NEW t \in Tasks, state'[t] = "WAITING", patience[t] > 0
        PROVE  /\ timer_active'[t] /\ time_count'[t] >= 1
               /\ time_count'[t] + waited'[t] = patience'[t]
    <3>1. /\ state[t] = "WAITING" /\ ~Pops(t) /\ pc[t] \in BlockPoints
          /\ timer_active[t] /\ time_count[t] >= 1
          /\ time_count[t] + waited[t] = patience[t]
      BY <2>1, <2>2 DEF TimerTask
    <3>2. Counting(t)
      BY <1>a, <3>1 DEF Counting
    <3>3. (time_count[t] - 1) % Wrap = time_count[t] - 1
      <4> DEFINE c == time_count[t]
      <4>1. c \in 1..(Wrap - 1)
        BY <3>1
      <4> HIDE DEF c
      <4>2. (c - 1) % Wrap = c - 1
        BY <4>1
      <4> QED
        BY <4>2 DEF c
    <3>4. time_count[t] - 1 # 0
      BY <3>1, <3>2, <3>3 DEF Pops
    <3>5. waited[t] < MaxTics
      <4>1. patience[t] <= MaxTics /\ MaxTics \in Nat
        BY KernelAssumption DEF Timeouts, WAIT_FOREVER
      <4> QED
        BY <3>1, <4>1
    <3> QED
      BY <2>1, <3>1, <3>2, <3>3, <3>4, <3>5
  <2>3. ASSUME NEW t \in Tasks, state'[t] = "WAITING" PROVE pc'[t] \in BlockPoints
    BY <2>1, <2>3 DEF TimerTask, BlockPoints
  <2> QED
    BY <2>1, <2>2, <2>3 DEF TimerOK, TimerTask
<1>31. CASE IntRunEnd
  BY <1>31, <1>b DEF IntRunEnd, Reschedule
<1>32. CASE UNCHANGED vars
  BY <1>32, <1>b DEF vars
<1> QED
  BY <1>1, <1>2, <1>3, <1>4, <1>5, <1>6, <1>7, <1>8, <1>9, <1>10, <1>11, <1>12,
     <1>13, <1>14, <1>15, <1>16, <1>17, <1>18, <1>19, <1>20, <1>21, <1>22, <1>23,
     <1>24, <1>25, <1>26, <1>27, <1>28, <1>29, <1>30, <1>31, <1>32
     DEF Next, Semaphores, Messages, Resumes, TaskCalls, WakeSteps, IdleSteps,
         Interrupts

(* The timer of a task that waits with a time-out has exactly the tics     *)
(* left that the caller asked for, less those that have passed.            *)
THEOREM TimersExact ==
  ASSUME OrderlyEnds
  PROVE  Spec => []TimerExact
<1>1. Init => TimerOK
  BY DEF Init, TimerOK, TimerTask
<1>2. LifeInv /\ TimerOK /\ [Next]_vars => TimerOK'
  BY TimerStep
<1>3. TimerOK => TimerExact
  BY DEF TimerOK, TimerTask, TimerExact
<1> QED
  BY <1>1, <1>2, <1>3, LifeInvariant, PTL DEF Spec

(* No timer runs in a wait for ever, and what gives up has waited.         *)
EarlyTask(t) ==
  /\ pc[t] = "delay" => ~MayBeSent(t)
  /\ state[t] = "WAITING" /\ patience[t] = WAIT_FOREVER => ~timer_active[t]
  /\ MayBeSent(t) /\ <<"msg_get", WAIT_FOREVER>> \in Calls[t] => ~timer_active[t]
  /\ GivesUp(t) /\ MayGoOn(t) => patience[t] # WAIT_FOREVER /\ waited[t] >= patience[t]
EarlyOK == \A t \in Tasks : EarlyTask(t)

(* The invariant of the systems that keep to the rules for tasks' ends and *)
(* for their use.                                                          *)
OrderInv == LifeInv /\ UseInv /\ TimerOK

LEMMA TimeoutNumbers ==
  /\ MaxTics \in Nat /\ WAIT_FOREVER \in Int
  /\ \A n \in Timeouts : n \in Int /\ n <= MaxTics /\ (n # WAIT_FOREVER => n >= 0)
  /\ \A n \in 0..MaxTics : n \in Nat
  BY KernelAssumption DEF Timeouts, WAIT_FOREVER

(* Every step keeps EarlyOK.                                               *)
LEMMA EarlyStep ==
  ASSUME OrderlyEnds, UseRules, TimeRules, OrderInv, EarlyOK, [Next]_vars
  PROVE  EarlyOK'
<1>0. /\ cpu \in Tasks /\ Idle \in Tasks /\ pc \in [Tasks -> Points] /\ below \in [Tasks -> Points]
      /\ state \in [Tasks -> TaskStates] /\ timer_active \in [Tasks -> BOOLEAN]
      /\ time_out \in [Tasks -> BOOLEAN] /\ got_resource \in [Tasks -> BOOLEAN]
      /\ patience \in [Tasks -> Timeouts] /\ waited \in [Tasks -> 0..MaxTics]
      /\ MayGoOn(cpu) /\ MayGoOn(Idle) /\ \A t \in Tasks : pc[t] \notin WakePoints /\ below[t] \notin BlockPoints
      /\ \A t \in Tasks : EarlyTask(t)
  BY IdleIsTask
     DEF OrderInv, LifeInv, UseInv, TypeOK, EndOK, Alive, MayGoOn, NotWaking, EarlyOK,
         BlockOK, BlockTask
<1>a. \A t \in Tasks :
         /\ pc[t] = "sem_get" => ~MayBeSent(t)
         /\ state[t] = "WAITING" => pc[t] \in BlockPoints
         /\ state[t] \in {"none", "SLEEPING"} => pc[t] \notin BlockPoints
         /\ ~MayBeSent(t) /\ timer_active[t] => state[t] \in {"WAITING", "DELETE"}
         /\ pc[t] = "sem_get" /\ got_resource[t] => state[t] # "WAITING"
         /\ pc[t] \in {"sem_get", "msg_get"} /\ ~got_resource[t] /\ MayGoOn(t) => time_out[t]
         /\ state[t] = "DELETE" => ~timer_active[t] /\ ~MayBeSent(t)
         /\ MayWaitSem(t) => ~MayBeSent(t)
  BY DEF OrderInv, LifeInv, UseInv, BlockOK, BlockTask, EndOK, OrderlyEnds, UseRules
<1>b. \A t, d \in Tasks : <<"task_wake", d>> \notin Calls[t]
  BY DEF UseRules, NoTaskWakes
<1> DEFINE Kept(t) ==
       /\ pc'[t] \in BlockPoints =>
             /\ pc'[t] = pc[t] /\ patience'[t] = patience[t] /\ waited'[t] = waited[t]
       /\ GivesUp(t)' /\ MayGoOn(t)' => GivesUp(t) /\ MayGoOn(t)
       /\ state'[t] = "WAITING" => state[t] = "WAITING" /\ pc'[t] \in BlockPoints
       /\ timer_active'[t] => timer_active[t]
<1>k. ASSUME NEW t \in Tasks, Kept(t) PROVE EarlyTask(t)'
  <2>1. pc'[t] = "delay" => ~MayBeSent(t)
    BY <1>0, <1>k DEF EarlyTask, BlockPoints
  <2>2. state'[t] = "WAITING" /\ patience'[t] = WAIT_FOREVER => ~timer_active'[t]
    BY <1>0, <1>k DEF EarlyTask
  <2>3. MayBeSent(t) /\ <<"msg_get", WAIT_FOREVER>> \in Calls[t] => ~timer_active'[t]
    BY <1>0, <1>k DEF EarlyTask
  <2>4. GivesUp(t)' /\ MayGoOn(t)' => patience'[t] # WAIT_FOREVER /\ waited'[t] >= patience'[t]
    BY <1>0, <1>k DEF EarlyTask, GivesUp, BlockPoints
  <2> QED
    BY <2>1, <2>2, <2>3, <2>4 DEF EarlyTask
<1>c. ASSUME \A t \in Tasks : Kept(t) PROVE EarlyOK'
  BY <1>c, <1>k DEF EarlyOK
<1>p. PICK c \in Tasks : c = this
  BY <1>0 DEF this
<1>d. ASSUME \A t \in Tasks \ {c} : Kept(t), EarlyTask(c)' PROVE EarlyOK'
  BY <1>d, <1>k DEF EarlyOK
<1> USE <1>0, <1>p DEF BlockPoints, this, ctxVars, tcbVars, objVars, histVars, WakePoints, GivesUp, TimedOut, MayGoOn
<1>1. ASSUME NEW s \in Sems, SemGive(s) PROVE EarlyOK'
  <2>1. UNCHANGED <<patience, waited>> /\ pc[this] \in {"user", "isr"}
    BY <1>1 DEF SemGive, Caller
  <2>2. CASE Return /\ UNCHANGED tcbVars
    BY <1>a, <1>c, <2>1, <2>2 DEF Return
  <2>3. ASSUME NEW w \in Tasks, IsFirstAwaiting(w, s), Grant(w),
               Preempt(w, task_q, [state EXCEPT ![w] = "READY"])
        PROVE  EarlyOK'
    <3>1. pc[w] = "sem_get"
      BY <2>3, AwaitsIsWaitsFor DEF IsFirstAwaiting, WaitsFor, OrderInv, UseInv
    <3>5. /\ timer_active' = [timer_active EXCEPT ![w] = FALSE]
          /\ got_resource' = [got_resource EXCEPT ![w] = TRUE]
          /\ time_out' = [time_out EXCEPT ![w] = FALSE]
      BY <2>3 DEF Grant
    <3> DEFINE st == [state EXCEPT ![w] = "READY"]
    <3>2. \A t \in Tasks : st[t] = IF t = w THEN "READY" ELSE state[t]
      OBVIOUS
    <3>3. Preempt(w, task_q, st) /\ st \in [Tasks -> TaskStates]
      BY <2>3 DEF TaskStates
    <3> HIDE DEF st
    <3>4. \A t \in Tasks : /\ pc'[t] \in BlockPoints => pc'[t] = pc[t]
                           /\ pc[t] \in BlockPoints => pc'[t] = pc[t] \/ t = this
                           /\ state'[t] = "WAITING" => st[t] = "WAITING"
                           /\ MayGoOn(t)' => t = w \/ MayGoOn(t)
      BY <3>2, <3>3, PreemptEffect
    <3> QED
      BY <1>a, <1>c, <2>1, <3>1, <3>2, <3>4, <3>5
  <2> QED
    BY <1>1, <2>2, <2>3 DEF SemGive
<1>2. ASSUME NEW s \in Sems, NEW n \in Timeouts, SemGetNow(s, n) PROVE EarlyOK'
  BY <1>2, <1>a, <1>b, <1>c DEF SemGetNow, Caller, Return
<1>3. ASSUME NEW s \in Sems, NEW n \in Timeouts, SemGetWait(s, n) PROVE EarlyOK'
  <2>1. \A t \in Tasks \ {c} : Kept(t)
    BY <1>3, <1>a DEF SemGetWait, Block, RunNext, IsNext
  <2>2. /\ state'[c] = "WAITING" /\ pc'[c] = "sem_get" /\ patience'[c] = n
        /\ waited'[c] = 0
    BY <1>3 DEF SemGetWait, TaskCaller, Block, RunNext, IsNext
  <2>3. EarlyTask(c)'
    <3>1. ~MayBeSent(c) /\ <<"sem_get", s, n>> \in Calls[c]
      BY <1>3, <1>a DEF SemGetWait, TaskCaller, MayWaitSem
    <3>2. n = WAIT_FOREVER => ~timer_active'[c]
      BY <1>3, <1>a, <3>1 DEF SemGetWait
    <3> QED
      BY <2>2, <3>1, <3>2 DEF EarlyTask
  <2> QED
    BY <1>d, <2>1, <2>2, <2>3
<1>4. ASSUME NEW n \in Timeouts, MsgGetNow(n) PROVE EarlyOK'
  BY <1>4, <1>a, <1>b, <1>c DEF MsgGetNow, TaskCaller, Return
<1>5. ASSUME NEW n \in Timeouts, MsgGetWait(n) PROVE EarlyOK'
  <2>1. \A t \in Tasks \ {c} : Kept(t)
    BY <1>5, <1>a DEF MsgGetWait, Block, RunNext, IsNext
  <2>2. /\ state'[c] = "WAITING" /\ pc'[c] = "msg_get" /\ patience'[c] = n
        /\ waited'[c] = 0
    BY <1>5 DEF MsgGetWait, TaskCaller, Block, RunNext, IsNext
  <2>3. EarlyTask(c)'
    <3>1. <<"msg_get", n>> \in Calls[c] /\ n # DONT_WAIT
      BY <1>5 DEF MsgGetWait, TaskCaller
    <3>2. n = WAIT_FOREVER => ~timer_active'[c]
      BY <1>5, <1>a, <3>1 DEF MsgGetWait, EarlyTask
    <3>3. MayBeSent(c) /\ <<"msg_get", WAIT_FOREVER>> \in Calls[c] => n = WAIT_FOREVER
      BY <3>1, KernelAssumption DEF TimeRules, Timeouts, DONT_WAIT
    <3> QED
      BY <2>2, <3>2, <3>3 DEF EarlyTask
  <2> QED
    BY <1>d, <2>1, <2>2, <2>3
<1>6. ASSUME NEW d \in Tasks, MsgSend(d) PROVE EarlyOK'
  <2>1. /\ UNCHANGED <<patience, waited, timer_active, time_out>>
        /\ pc[this] \in {"user", "isr"} /\ MayBeSent(d) /\ state[d] # "none"
    BY <1>6 DEF MsgSend, Caller, MayBeSent
  <2>2. CASE Return /\ UNCHANGED got_resource
    BY <1>a, <1>c, <2>1, <2>2 DEF Return
  <2>3. CASE /\ got_resource' = [got_resource EXCEPT ![d] = TRUE]
             /\ Preempt(d, task_q, [state EXCEPT ![d] = "READY"])
    <3>1. pc[d] \notin {"sem_get", "delay"}
      BY <1>a, <2>1 DEF EarlyTask
    <3> DEFINE st == [state EXCEPT ![d] = "READY"]
    <3>2. \A t \in Tasks : st[t] = IF t = d THEN "READY" ELSE state[t]
      OBVIOUS
    <3>3. Preempt(d, task_q, st) /\ st \in [Tasks -> TaskStates]
      BY <2>3 DEF TaskStates
    <3> HIDE DEF st
    <3>4. \A t \in Tasks : /\ pc'[t] \in BlockPoints => pc'[t] = pc[t]
                           /\ pc[t] \in BlockPoints => pc'[t] = pc[t] \/ t = this
                           /\ state'[t] = "WAITING" => st[t] = "WAITING"
                           /\ MayGoOn(t)' => t = d \/ MayGoOn(t)
      BY <3>2, <3>3, PreemptEffect
    <3> QED
      BY <1>a, <1>c, <2>1, <2>3, <3>1, <3>2, <3>4
  <2> QED
    BY <1>6, <2>2, <2>3 DEF MsgSend
<1>7. CASE SemGetResume
  BY <1>7, <1>a, <1>b, <1>c DEF SemGetResume, Unblock
<1>8. CASE MsgGetResume
  BY <1>8, <1>a, <1>b, <1>c DEF MsgGetResume, Unblock
<1>9. CASE TaskDelayResume
  BY <1>9, <1>a, <1>b, <1>c DEF TaskDelayResume, Unblock
<1>10. CASE TaskSleepResume
  BY <1>10, <1>a, <1>b, <1>c DEF TaskSleepResume
<1>11. CASE Switched
  BY <1>11, <1>a, <1>b, <1>c DEF Switched
<1>12. CASE TaskStart
  BY <1>12, <1>a, <1>b, <1>c DEF TaskStart
<1>13. CASE ReturnFromExit
  BY <1>13, <1>a, <1>b, <1>c DEF ReturnFromExit
<1>14. ASSUME NEW d \in Tasks, TaskNew(d) PROVE EarlyOK'
  <2>1. /\ UNCHANGED <<patience, waited, tcbVars>> /\ pc[d] \notin BlockPoints
        /\ pc[this] \in {"user", "boot"}
    BY <1>14, <1>a DEF TaskNew, TaskCaller
  <2>2. Preempt(d, task_q', [state EXCEPT ![d] = "READY"])
    BY <1>14 DEF TaskNew
  <2>3. \A t \in Tasks : Kept(t)
    <3> DEFINE st == [state EXCEPT ![d] = "READY"]
    <3>2. \A t \in Tasks : st[t] = IF t = d THEN "READY" ELSE state[t]
      OBVIOUS
    <3>3. Preempt(d, task_q', st) /\ st \in [Tasks -> TaskStates]
      BY <2>2 DEF TaskStates
    <3> HIDE DEF st
    <3>4. \A t \in Tasks : /\ pc'[t] \in BlockPoints => pc'[t] = pc[t]
                           /\ pc[t] \in BlockPoints => pc'[t] = pc[t] \/ t = this
                           /\ state'[t] = "WAITING" => st[t] = "WAITING"
                           /\ MayGoOn(t)' => t = d \/ MayGoOn(t)
      BY <3>2, <3>3, PreemptEffect
    <3> QED
      BY <1>a, <2>1, <3>2, <3>4
  <2> QED
    BY <1>c, <2>3
<1>15. ASSUME NEW d \in Tasks, TaskDelete(d) PROVE EarlyOK'
  BY <1>15, <1>a, <1>b, <1>c DEF TaskDelete, TaskCaller
<1>16. ASSUME NEW d \in Tasks, TaskWake(d) PROVE EarlyOK'
  BY <1>16, <1>a, <1>b, <1>c DEF TaskWake, WakeStep
<1>17. ASSUME NEW d \in Tasks, TaskWakeIsr(d) PROVE EarlyOK'
  <2>1. /\ UNCHANGED <<patience, waited, tcbVars>> /\ pc[d] \notin BlockPoints
        /\ pc[this] = "isr"
    BY <1>17, <1>a DEF TaskWakeIsr, CanWake
  <2>2. CASE UNCHANGED pc /\ state' = [state EXCEPT ![d] = "READY"]
    BY <1>a, <1>c, <2>1, <2>2
  <2>3. CASE Preempt(d, task_q, [state EXCEPT ![d] = "READY"])
    <3> DEFINE st == [state EXCEPT ![d] = "READY"]
    <3>2. \A t \in Tasks : st[t] = IF t = d THEN "READY" ELSE state[t]
      OBVIOUS
    <3>3. Preempt(d, task_q, st) /\ st \in [Tasks -> TaskStates]
      BY <2>3 DEF TaskStates
    <3> HIDE DEF st
    <3>4. \A t \in Tasks : /\ pc'[t] \in BlockPoints => pc'[t] = pc[t]
                           /\ pc[t] \in BlockPoints => pc'[t] = pc[t] \/ t = this
                           /\ state'[t] = "WAITING" => st[t] = "WAITING"
                           /\ MayGoOn(t)' => t = d \/ MayGoOn(t)
      BY <3>2, <3>3, PreemptEffect
    <3> QED
      BY <1>a, <1>c, <2>1, <3>2, <3>4
  <2> QED
    BY <1>17, <2>2, <2>3 DEF TaskWakeIsr
<1>18. ASSUME NEW n \in 0..MaxTics, TaskDelay(n) PROVE EarlyOK'
  <2>1. \A t \in Tasks \ {c} : Kept(t)
    BY <1>18, <1>a DEF TaskDelay, Block, RunNext, IsNext
  <2>2. /\ state'[c] = "WAITING" /\ pc'[c] = "delay" /\ patience'[c] = n
        /\ waited'[c] = 0
    BY <1>18 DEF TaskDelay, TaskCaller, Block, RunNext, IsNext
  <2>3. EarlyTask(c)'
    <3>1. ~MayBeSent(c)
      BY <1>18 DEF TimeRules, TaskDelay, TaskCaller
    <3> QED
      BY <2>2, <3>1 DEF EarlyTask, WAIT_FOREVER
  <2> QED
    BY <1>d, <2>1, <2>2, <2>3
<1>19. CASE TaskSleep
  BY <1>19, <1>a, <1>b, <1>c DEF TaskSleep, TaskCaller, RunNext, IsNext
<1>20. CASE TaskExit
  BY <1>20, <1>a, <1>b, <1>c DEF TaskExit, TaskCaller, RunNext, IsNext
<1>21. CASE WakeSet
  BY <1>21, <1>a, <1>b, <1>c DEF WakeSet, WakeStep
<1>22. CASE WakeCompare
  BY <1>22, <1>a, <1>b, <1>c DEF WakeCompare, WakeStep
<1>23. CASE WakeRunNext
  BY <1>23, <1>a, <1>b, <1>c DEF WakeRunNext, WakeStep
<1>24. CASE WakeSwitch
  BY <1>24, <1>a, <1>b, <1>c DEF WakeSwitch, WakeStep
<1>25. CASE IdleLower
  <2>1. this = Idle /\ pc[Idle] = "boot" /\ UNCHANGED <<tcbVars, patience, waited>>
    BY <1>25 DEF IdleLower, OrderInv, LifeInv, ContextOK
  <2>2. \A t \in Tasks : /\ state'[t] = "WAITING" => state[t] = "WAITING" /\ t # Idle
                         /\ MayGoOn(t)' => MayGoOn(t)
    BY <1>25, <2>1 DEF IdleLower, RunNext, IsNext
  <2>3. /\ \A t \in Tasks : t # Idle => pc'[t] = pc[t]
        /\ pc'[Idle] \notin BlockPoints
    BY <1>25, <2>1 DEF IdleLower, RunNext
  <2> QED
    BY <1>a, <1>c, <2>1, <2>2, <2>3
<1>26. CASE IdleStart
  BY <1>26, <1>a, <1>b, <1>c DEF IdleStart
<1>27. ASSUME NEW d \in Tasks, CleanupFind(d) PROVE EarlyOK'
  BY <1>27, <1>a, <1>b, <1>c DEF CleanupFind
<1>28. CASE CleanupRemove
  BY <1>28, <1>a, <1>b, <1>c DEF CleanupRemove
<1>29. CASE Interrupt
  BY <1>29, <1>a, <1>b, <1>c DEF Interrupt
<1>30. CASE TimerTic
  <2>1. /\ pc[this] = "isr" /\ pc' = [pc EXCEPT ![this] = "tic_done"]
        /\ UNCHANGED <<patience, got_resource>>
        /\ \A t \in Tasks :
              /\ timer_active'[t] = (timer_active[t] /\ ~Pops(t))
              /\ time_out'[t] = (time_out[t] \/ Pops(t))
              /\ state'[t] = IF Pops(t) THEN "READY" ELSE state[t]
              /\ waited'[t] = IF pc[t] \in BlockPoints /\ waited[t] < MaxTics
                              THEN waited[t] + 1 ELSE waited[t]
              /\ waited'[t] >= waited[t]
    BY <1>30 DEF TimerTic, Expire
  <2>2. ASSUME NEW t \in Tasks, GivesUp(t)', MayGoOn(t)'
        PROVE  patience[t] # WAIT_FOREVER /\ waited'[t] >= patience[t]
    <3>1. pc[t] \in BlockPoints
      BY <2>1, <2>2
    <3>2. CASE MayGoOn(t)
      <4>1. GivesUp(t)
        BY <1>a, <2>1, <2>2, <3>1, <3>2
      <4> QED
        BY <2>1, <3>2, <4>1, TimeoutNumbers DEF EarlyTask
    <3>3. CASE ~MayGoOn(t)
      <4>1. Pops(t) /\ timer_active[t]
        BY <2>1, <2>2, <3>3 DEF Pops, Counting
      <4>2. state[t] = "WAITING" /\ patience[t] # WAIT_FOREVER
        BY <1>a, <3>1, <3>3, <4>1 DEF EarlyTask, TaskStates
      <4>3. CASE patience[t] > 0
        <5>1. /\ time_count[t] >= 1 /\ time_count[t] + waited[t] = patience[t]
              /\ time_count[t] \in 0..(Wrap - 1) /\ (time_count[t] - 1) % Wrap = 0
          BY <4>1, <4>2, <4>3
             DEF OrderInv, LifeInv, TypeOK, TimerOK, TimerTask, Pops
        <5>2. time_count[t] = 1
          <6> DEFINE k == time_count[t]
          <6> HIDE DEF k
          <6>1. ASSUME k \in 1..(Wrap - 1), (k - 1) % Wrap = 0, Wrap \in Nat PROVE k = 1
            BY <6>1
          <6> QED
            BY <5>1, <6>1, KernelAssumption DEF k
        <5>3. waited[t] + 1 = patience[t] /\ waited[t] < MaxTics
          BY <5>1, <5>2, TimeoutNumbers
        <5> QED
          BY <2>1, <3>1, <4>2, <5>3
      <4>4. CASE ~(patience[t] > 0)
        BY <2>1, <4>2, <4>4, TimeoutNumbers
      <4> QED
        BY <4>3, <4>4
    <3> QED
      BY <3>2, <3>3
  <2>3. ASSUME NEW t \in Tasks PROVE EarlyTask(t)'
    <3>1. /\ pc'[t] = "delay" => pc[t] = "delay"
          /\ state'[t] = "WAITING" => state[t] = "WAITING"
          /\ timer_active'[t] => timer_active[t]
      BY <2>1
    <3>2. GivesUp(t)' /\ MayGoOn(t)' => patience'[t] # WAIT_FOREVER /\ waited'[t] >= patience'[t]
      BY <2>1, <2>2
    <3>3. patience'[t] = patience[t] /\ EarlyTask(t)
      BY <2>1
    <3> HIDE DEF GivesUp, MayGoOn
    <3> QED
      BY <3>1, <3>2, <3>3 DEF EarlyTask
  <2> QED
    BY <2>3 DEF EarlyOK
<1>31. CASE IntRunEnd
  <2>1. PICK n \in Tasks :
           /\ n = Idle \/ n = this \/ state[n] = "READY"
           /\ \/ /\ state' = [state EXCEPT ![this] = "READY", ![n] = "RUNNING"]
                 /\ cpu' = n
              \/ /\ state' = [state EXCEPT ![this] = "RUNNING"]
                 /\ UNCHANGED cpu
    BY <1>31 DEF IntRunEnd, Reschedule, IsNext
  <2>2. /\ UNCHANGED <<tcbVars, histVars>>
        /\ pc'[this] \in {"isr", below[this]} /\ \A t \in Tasks \ {this} : pc'[t] = pc[t]
    BY <1>31 DEF IntRunEnd
  <2>3. \A t \in Tasks : /\ state'[t] = "WAITING" => state[t] = "WAITING" /\ t # this
                         /\ MayGoOn(t)' => MayGoOn(t)
    BY <2>1
  <2> QED
    BY <1>a, <1>c, <2>2, <2>3
<1>32. CASE UNCHANGED vars
  BY <1>32, <1>a, <1>b, <1>c DEF vars
<1> QED
  BY <1>1, <1>2, <1>3, <1>4, <1>5, <1>6, <1>7, <1>8, <1>9, <1>10, <1>11, <1>12,
     <1>13, <1>14, <1>15, <1>16, <1>17, <1>18, <1>19, <1>20, <1>21, <1>22, <1>23,
     <1>24, <1>25, <1>26, <1>27, <1>28, <1>29, <1>30, <1>31, <1>32
     DEF Next, Semaphores, Messages, Resumes, TaskCalls, WakeSteps, IdleSteps,
         Interrupts

LEMMA OrderInvariant ==
  ASSUME OrderlyEnds, UseRules
  PROVE  Spec => []OrderInv
<1>1. Init => UseInv /\ TimerOK
  BY UseInit DEF Init, TimerOK, TimerTask
<1>2. LifeInv /\ UseInv /\ TimerOK /\ [Next]_vars => UseInv' /\ TimerOK'
  BY UseStep, TimerStep
<1> QED
  BY <1>1, <1>2, LifeInvariant, PTL DEF Spec, OrderInv

(* In systems that keep to all of these rules a call gives up, and         *)
(* task_delay() comes back, after as many tics as the caller asked for and *)
(* not before, and a call with WAIT_FOREVER never gives up.  (The run      *)
(* KernelStaleTimer breaks the rules.)                                     *)
THEOREM TimeoutsNotEarly ==
  ASSUME OrderlyEnds, UseRules, TimeRules
  PROVE  Spec => []TimeoutNotEarly
<1>1. Init => EarlyOK
  BY DEF Init, EarlyOK, EarlyTask, GivesUp, WAIT_FOREVER, DONT_WAIT
<1>2. OrderInv /\ EarlyOK /\ [Next]_vars => EarlyOK'
  BY EarlyStep
<1>3. EarlyOK => TimeoutNotEarly
  BY DEF EarlyOK, EarlyTask, TimeoutNotEarly
<1> QED
  BY <1>1, <1>2, <1>3, OrderInvariant, PTL DEF Spec

(* Only sem_give() gives a task a semaphore that it waits for.             *)
LEMMA GrantStep ==
  ASSUME UseRules, OrderInv, [Next]_vars, NEW s \in Sems, NEW t \in Tasks, NEW u \in Tasks,
         WaitsFor(t, s), got_resource'[t], WaitsFor(u, s)
  PROVE  Prio(t) <= Prio(u)
<1>0. /\ cpu \in Tasks /\ got_resource \in [Tasks -> BOOLEAN] /\ state \in [Tasks -> TaskStates]
      /\ state[t] = "WAITING" /\ pc[t] = "sem_get" /\ state[cpu] # "WAITING"
      /\ \A r \in Tasks : pc[r] \notin WakePoints
  BY DEF OrderInv, LifeInv, TypeOK, EndOK, Alive, WaitsFor, NotWaking
<1>a. ~got_resource[t]
  BY <1>0 DEF OrderInv, UseInv, BlockOK, BlockTask
<1>b. ~MayBeSent(t)
  BY <1>0 DEF OrderInv, UseInv, BlockOK, BlockTask, UseRules
<1>c. Awaits(t, s) /\ Awaits(u, s)
  BY AwaitsIsWaitsFor DEF OrderInv, UseInv
<1> DEFINE Goal == Prio(t) <= Prio(u)
<1> USE <1>0 DEF this, ctxVars, tcbVars, objVars, WakePoints
<1>1. ASSUME NEW r \in Sems, SemGive(r) PROVE Goal
  <2>1. CASE UNCHANGED tcbVars
    BY <1>a, <2>1
  <2>2. ASSUME NEW w \in Tasks, IsFirstAwaiting(w, r), Grant(w) PROVE Goal
    <3>1. t = w
      BY <1>a, <2>2 DEF Grant
    <3>2. r = s
      BY <1>c, <2>2, <3>1 DEF IsFirstAwaiting, Awaits
    <3>3. PICK i \in DOMAIN task_q : /\ task_q[i] = t
                                     /\ \A j \in 1..(i - 1) : ~Awaits(task_q[j], s)
      BY <2>2, <3>1, <3>2 DEF IsFirstAwaiting
    <3>4. PICK k \in DOMAIN task_q : task_q[k] = u
      BY <1>c DEF OrderInv, LifeInv, QueueHolds, Awaits, Range
    <3>5. i \in 1..Len(task_q) /\ k \in 1..Len(task_q)
      BY <3>3, <3>4, LenProperties DEF OrderInv, LifeInv, TypeOK
    <3>6. i <= k
      BY <1>c, <3>3, <3>4, <3>5
    <3>7. CASE i = k
      BY <3>3, <3>4, <3>7, PrioType
    <3>8. CASE i < k
      BY <3>3, <3>4, <3>8 DEF OrderInv, LifeInv, QueueSorted
    <3> QED
      BY <3>5, <3>6, <3>7, <3>8
  <2> QED
    BY <1>1, <2>1, <2>2 DEF SemGive
<1>2. ASSUME NEW r \in Sems, NEW n \in Timeouts, SemGetNow(r, n) PROVE Goal
  BY <1>2, <1>a DEF SemGetNow, Caller, Return
<1>3. ASSUME NEW r \in Sems, NEW n \in Timeouts, SemGetWait(r, n) PROVE Goal
  BY <1>3, <1>a DEF SemGetWait, TaskCaller, Block, RunNext
<1>4. ASSUME NEW n \in Timeouts, MsgGetNow(n) PROVE Goal
  BY <1>4, <1>a DEF MsgGetNow, TaskCaller, Return
<1>5. ASSUME NEW n \in Timeouts, MsgGetWait(n) PROVE Goal
  BY <1>5, <1>a DEF MsgGetWait, TaskCaller, Block, RunNext
<1>6. ASSUME NEW d \in Tasks, MsgSend(d) PROVE Goal
  BY <1>6, <1>a, <1>b DEF MsgSend, Caller, MayBeSent
<1>7. CASE SemGetResume
  BY <1>7, <1>a DEF SemGetResume, Unblock
<1>8. CASE MsgGetResume
  BY <1>8, <1>a DEF MsgGetResume, Unblock
<1>9. CASE TaskDelayResume
  BY <1>9, <1>a DEF TaskDelayResume, Unblock
<1>10. CASE TaskSleepResume
  BY <1>10, <1>a DEF TaskSleepResume
<1>11. CASE Switched
  BY <1>11, <1>a DEF Switched
<1>12. CASE TaskStart
  BY <1>12, <1>a DEF TaskStart
<1>13. CASE ReturnFromExit
  BY <1>13, <1>a DEF ReturnFromExit
<1>14. ASSUME NEW d \in Tasks, TaskNew(d) PROVE Goal
  BY <1>14, <1>a DEF TaskNew, TaskCaller, Preempt, RunNext
<1>15. ASSUME NEW d \in Tasks, TaskDelete(d) PROVE Goal
  BY <1>15, <1>a DEF TaskDelete, TaskCaller
<1>16. ASSUME NEW d \in Tasks, TaskWake(d) PROVE Goal
  BY <1>16, <1>a DEF TaskWake, WakeStep
<1>17. ASSUME NEW d \in Tasks, TaskWakeIsr(d) PROVE Goal
  BY <1>17, <1>a DEF TaskWakeIsr, Preempt, RunNext
<1>18. ASSUME NEW n \in 0..MaxTics, TaskDelay(n) PROVE Goal
  BY <1>18, <1>a DEF TaskDelay, TaskCaller, Block, RunNext
<1>19. CASE TaskSleep
  BY <1>19, <1>a DEF TaskSleep, TaskCaller, RunNext
<1>20. CASE TaskExit
  BY <1>20, <1>a DEF TaskExit, TaskCaller, RunNext
<1>21. CASE WakeSet
  BY <1>21, <1>a DEF WakeSet, WakeStep
<1>22. CASE WakeCompare
  BY <1>22, <1>a DEF WakeCompare, WakeStep
<1>23. CASE WakeRunNext
  BY <1>23, <1>a DEF WakeRunNext, WakeStep
<1>24. CASE WakeSwitch
  BY <1>24, <1>a DEF WakeSwitch, WakeStep
<1>25. CASE IdleLower
  BY <1>25, <1>a DEF IdleLower, RunNext
<1>26. CASE IdleStart
  BY <1>26, <1>a DEF IdleStart
<1>27. ASSUME NEW d \in Tasks, CleanupFind(d) PROVE Goal
  BY <1>27, <1>a DEF CleanupFind
<1>28. CASE CleanupRemove
  BY <1>28, <1>a DEF CleanupRemove
<1>29. CASE Interrupt
  BY <1>29, <1>a DEF Interrupt
<1>30. CASE TimerTic
  BY <1>30, <1>a DEF TimerTic, Expire
<1>31. CASE IntRunEnd
  BY <1>31, <1>a DEF IntRunEnd, Reschedule
<1>32. CASE UNCHANGED vars
  BY <1>32, <1>a DEF vars
<1> QED
  BY <1>1, <1>2, <1>3, <1>4, <1>5, <1>6, <1>7, <1>8, <1>9, <1>10, <1>11, <1>12,
     <1>13, <1>14, <1>15, <1>16, <1>17, <1>18, <1>19, <1>20, <1>21, <1>22, <1>23,
     <1>24, <1>25, <1>26, <1>27, <1>28, <1>29, <1>30, <1>31, <1>32
     DEF Next, Semaphores, Messages, Resumes, TaskCalls, WakeSteps, IdleSteps,
         Interrupts

(* There, sem_give() hands a semaphore to a task waiting for it than which *)
(* no other waiting task is more urgent.                                   *)
THEOREM GrantsTheMostUrgent ==
  ASSUME OrderlyEnds, UseRules
  PROVE  Spec => GrantsMostUrgent
<1>1. OrderInv /\ [Next]_vars
        => [\A s \in Sems, t, u \in Tasks :
               WaitsFor(t, s) /\ got_resource'[t] /\ WaitsFor(u, s)
                  => Prio(t) <= Prio(u)]_vars
  BY GrantStep
<1> QED
  BY <1>1, OrderInvariant, PTL DEF Spec, GrantsMostUrgent
=============================================================================
