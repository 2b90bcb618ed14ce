---------------------------- MODULE KernelProofs ----------------------------
(***************************************************************************)
(* What is proved of the kernel for any number of tasks, semaphores and    *)
(* priorities.  Whatever calls the tasks and the handlers make: types,     *)
(* waiters, and the queue's order.  Where the tasks leave task_wake() to   *)
(* the handlers: the most urgent task runs; and where tasks end in an      *)
(* orderly way: every task stays in the queue, one that has ended does not *)
(* come back, and nothing runs on a stack that was left for good.          *)
(***************************************************************************)
EXTENDS Kernel, KernelRules, SeqLemmas

(* Where a task can be, and what is then known of its interrupts and its   *)
(* argument: TypeOK is not inductive without it.                           *)
ContextOK ==
  \A t \in Tasks :
     /\ pc[t] \in {"isr", "tic_done"} => irq[t] > 0
     /\ pc[t] \notin {"isr", "tic_done", "switched", "wild"} => irq[t] = 0
     /\ irq[t] = 0 => below[t] = "user"
     /\ below[t] \notin {"isr", "tic_done"}
     /\ "boot" \in {pc[t], below[t]} => t = Idle
     /\ "wake_switch" \in {pc[t], below[t]} => arg[t] \in Tasks

TInv == TypeOK /\ ContextOK

(* task_add_to_q() adds the task it is given and no other.                 *)
LEMMA AddToQRange ==
  ASSUME NEW q \in Seq(Tasks), NEW t \in Tasks, NEW p, AddToQ(q, t, p)
  PROVE  task_q' \in Seq(Tasks) /\ Range(task_q') \subseteq Range(q) \cup {t}
<1>1. PICK i \in 0..Len(q) : task_q' = InsertAt(q, i + 1, t)
  BY DEF AddToQ
<1>2. i + 1 \in 1..(Len(q) + 1)
  OBVIOUS
<1> QED
  BY <1>1, <1>2, InsertAtRange

(* task_rm_from_q() adds none.                                             *)
LEMMA RmFromQRange ==
  ASSUME task_q \in Seq(Tasks), NEW t, RmFromQ(t)
  PROVE  task_q' \in Seq(Tasks) /\ Range(task_q') \subseteq Range(task_q)
<1>1. PICK i \in DOMAIN task_q : task_q' = RemoveAt(task_q, i)
  BY DEF RmFromQ
<1>2. i \in 1..Len(task_q)
  BY LenProperties
<1> QED
  BY <1>1, <1>2, RemoveAtRange

(* Nor does the move of the idle task, which was in the queue.             *)
LEMMA IdleLowerRange ==
  ASSUME task_q \in Seq(Tasks), IdleLower
  PROVE  task_q' \in Seq(Tasks) /\ Range(task_q') \subseteq Range(task_q)
<1>1. PICK i \in DOMAIN task_q : /\ task_q[i] = Idle
                                 /\ AddToQ(RemoveAt(task_q, i), Idle, Lowest)
  BY DEF IdleLower
<1>2. i \in 1..Len(task_q)
  BY LenProperties
<1>3. /\ RemoveAt(task_q, i) \in Seq(Tasks)
      /\ Range(RemoveAt(task_q, i)) \subseteq Range(task_q)
  BY <1>2, RemoveAtRange
<1>4. Idle \in Tasks /\ Idle \in Range(task_q)
  BY <1>1 DEF Tasks, Range
<1>5. /\ task_q' \in Seq(Tasks)
      /\ Range(task_q') \subseteq Range(RemoveAt(task_q, i)) \cup {Idle}
  BY <1>1, <1>3, <1>4, AddToQRange
<1> QED
  BY <1>3, <1>4, <1>5

LEMMA InitType == Init => TInv
  BY KernelAssumption, EmptySeq
     DEF Init, TInv, TypeOK, ContextOK, TaskStates, Points, Tasks, Timeouts, DONT_WAIT

(* The types of what the helpers of the calls assign.                      *)
LEMMA RunNextType ==
  ASSUME TypeOK, NEW q, NEW st \in [Tasks -> TaskStates], NEW p \in Points,
         RunNext(q, st, p)
  PROVE  state' \in [Tasks -> TaskStates] /\ cpu' \in Tasks /\ pc' \in [Tasks -> Points]
  BY DEF TypeOK, RunNext, this, TaskStates, Points

LEMMA ReturnType ==
  ASSUME TypeOK, Return
  PROVE  /\ state' \in [Tasks -> TaskStates] /\ cpu' \in Tasks
         /\ pc' \in [Tasks -> Points] /\ ints' \in [Tasks -> BOOLEAN]
  BY DEF TypeOK, Return

LEMMA PreemptType ==
  ASSUME TypeOK, NEW t, NEW q, NEW st \in [Tasks -> TaskStates], Preempt(t, q, st)
  PROVE  /\ state' \in [Tasks -> TaskStates] /\ cpu' \in Tasks
         /\ pc' \in [Tasks -> Points] /\ ints' \in [Tasks -> BOOLEAN]
<1>1. CASE Prio(this) > Prio(t)
  <2>1. /\ [st EXCEPT ![this] = "READY"] \in [Tasks -> TaskStates]
        /\ "switched" \in Points
    BY DEF TaskStates, Points
  <2>2. /\ RunNext(q, [st EXCEPT ![this] = "READY"], "switched")
        /\ ints' = [ints EXCEPT ![this] = FALSE]
    BY <1>1 DEF Preempt
  <2> QED
    BY <2>1, <2>2, RunNextType DEF TypeOK
<1>2. CASE ~(Prio(this) > Prio(t))
  BY <1>2 DEF Preempt, TypeOK
<1> QED
  BY <1>1, <1>2

LEMMA BlockType ==
  ASSUME TypeOK, NEW n \in Timeouts, NEW id \in Sems \cup {NoId}, NEW p \in Points,
         Block(n, id, p)
  PROVE  /\ state' \in [Tasks -> TaskStates] /\ cpu' \in Tasks
         /\ pc' \in [Tasks -> Points] /\ ints' \in [Tasks -> BOOLEAN]
         /\ arg' \in [Tasks -> Tasks \cup Sems \cup {NoId}]
         /\ patience' \in [Tasks -> Timeouts] /\ waited' \in [Tasks -> 0..MaxTics]
<1>1. [state EXCEPT ![this] = "WAITING"] \in [Tasks -> TaskStates]
  BY DEF TypeOK, TaskStates
<1>2. state' \in [Tasks -> TaskStates] /\ cpu' \in Tasks /\ pc' \in [Tasks -> Points]
  BY <1>1, RunNextType DEF Block
<1>3. 0 \in 0..MaxTics
  BY KernelAssumption
<1> QED
  BY <1>2, <1>3 DEF Block, TypeOK

LEMMA UnblockType ==
  ASSUME TypeOK, Unblock(TRUE) \/ Unblock(~int_mode)
  PROVE  /\ pc' \in [Tasks -> Points] /\ ints' \in [Tasks -> BOOLEAN]
         /\ arg' \in [Tasks -> Tasks \cup Sems \cup {NoId}]
         /\ patience' \in [Tasks -> Timeouts] /\ waited' \in [Tasks -> 0..MaxTics]
<1>1. 0 \in 0..MaxTics /\ DONT_WAIT \in Timeouts
  BY KernelAssumption DEF Timeouts, DONT_WAIT
<1>2. ints' = [ints EXCEPT ![this] = TRUE] \/ ints' = [ints EXCEPT ![this] = ~int_mode]
  BY DEF Unblock
<1>3. ints' \in [Tasks -> BOOLEAN]
  BY <1>2 DEF TypeOK
<1>4. /\ pc' = [pc EXCEPT ![this] = "user"]
      /\ arg' = [arg EXCEPT ![this] = NoId]
      /\ patience' = [patience EXCEPT ![this] = DONT_WAIT]
      /\ waited' = [waited EXCEPT ![this] = 0]
  BY DEF Unblock
<1> QED
  BY <1>1, <1>3, <1>4 DEF TypeOK, Points

LEMMA TimeoutsType ==
  \A n \in Timeouts \ {WAIT_FOREVER} : n \in 0..MaxTics /\ n \in 0..(Wrap - 1)
  BY KernelAssumption DEF Timeouts, WAIT_FOREVER

LEMMA ModType == \A n \in Int : n % Wrap \in 0..(Wrap - 1)
  BY KernelAssumption

LEMMA WrapType == Wrap \in Nat \ {0} /\ MaxNest \in Nat
  BY KernelAssumption

LEMMA MadeReady ==
  ASSUME TypeOK, NEW t
  PROVE  [state EXCEPT ![t] = "READY"] \in [Tasks -> TaskStates]
  BY DEF TypeOK, TaskStates

(* Every step keeps TypeOK: one step of the proof for each action.         *)
LEMMA TypeStep == TypeOK /\ ContextOK /\ [Next]_vars => TypeOK'
<1> SUFFICES ASSUME TypeOK, ContextOK, [Next]_vars PROVE TypeOK'
  OBVIOUS
<1> USE DEF ctxVars, tcbVars, objVars, histVars
<1>1. ASSUME NEW s \in Sems, SemGive(s) PROVE TypeOK'
  <2>1. CASE AtMax(s)
    BY <1>1, <2>1, ReturnType DEF SemGive, AtMax, TypeOK
  <2>2. CASE ~AtMax(s)
    <3>1. count_now[s] + 1 <= CountMax[s] /\ CountMax[s] \in Nat
      BY <2>2, KernelAssumption DEF AtMax, TypeOK
    <3>2. tokens' \in [Sems -> Int]
      BY <1>1, <2>2 DEF SemGive, Credit, TypeOK
    <3>3. CASE /\ count_now' = [count_now EXCEPT ![s] = @ + 1]
               /\ Return /\ UNCHANGED tcbVars
      <4>1. count_now' \in [Sems -> Nat] /\ \A r \in Sems : count_now'[r] <= CountMax[r]
        BY <3>1, <3>3 DEF TypeOK
      <4> QED
        BY <1>1, <3>2, <3>3, <4>1, ReturnType DEF SemGive, TypeOK
    <3>4. ASSUME NEW w \in Tasks, Grant(w),
                 Preempt(w, task_q, [state EXCEPT ![w] = "READY"]),
                 UNCHANGED <<count_now, time_count>>
          PROVE  TypeOK'
      BY <1>1, <3>2, <3>4, PreemptType, MadeReady DEF SemGive, Grant, TypeOK
    <3> QED
      BY <1>1, <2>2, <3>3, <3>4 DEF SemGive
  <2> QED
    BY <2>1, <2>2
<1>2. ASSUME NEW s \in Sems, NEW n \in Timeouts, SemGetNow(s, n) PROVE TypeOK'
  <2>1. count_now' \in [Sems -> Nat] /\ \A r \in Sems : count_now'[r] <= CountMax[r]
    <3>1. /\ count_now[s] # 0 => count_now[s] - 1 \in Nat
          /\ CountMax[s] \in Nat /\ count_now[s] - 1 <= CountMax[s]
      <4>1. CountMax[s] \in Nat
        BY KernelAssumption
      <4>2. count_now[s] \in Nat /\ count_now[s] <= CountMax[s]
        BY DEF TypeOK
      <4> QED
        BY <4>1, <4>2
    <3> QED
      BY <1>2, <3>1 DEF SemGetNow, TypeOK
  <2>2. tokens' \in [Sems -> Int]
    BY <1>2 DEF SemGetNow, Debit, TypeOK
  <2> QED
    BY <1>2, <2>1, <2>2, ReturnType DEF SemGetNow, TypeOK
<1>3. ASSUME NEW s \in Sems, NEW n \in Timeouts, SemGetWait(s, n) PROVE TypeOK'
  <2>1. "sem_get" \in Points
    BY DEF Points
  <2> QED
    BY <1>3, <2>1, BlockType, TimeoutsType DEF SemGetWait, TypeOK
<1>4. ASSUME NEW n \in Timeouts, MsgGetNow(n) PROVE TypeOK'
  <2>1. num_msgs' \in [Tasks -> 0..(Wrap - 1)]
    <3>1. num_msgs[this] # 0 => num_msgs[this] - 1 \in 0..(Wrap - 1)
      BY WrapType DEF TypeOK, this
    <3> QED
      BY <1>4, <3>1 DEF MsgGetNow, TypeOK
  <2> QED
    BY <1>4, <2>1, ReturnType DEF MsgGetNow, TypeOK
<1>5. ASSUME NEW n \in Timeouts, MsgGetWait(n) PROVE TypeOK'
  <2>1. "msg_get" \in Points
    BY DEF Points
  <2> QED
    BY <1>5, <2>1, BlockType, TimeoutsType DEF MsgGetWait, TypeOK
<1>6. ASSUME NEW d \in Tasks, MsgSend(d) PROVE TypeOK'
  <2>1. num_msgs' \in [Tasks -> 0..(Wrap - 1)]
    <3>1. num_msgs[d] + 1 \in Int
      BY WrapType DEF TypeOK
    <3> QED
      BY <1>6, <3>1, ModType DEF MsgSend, TypeOK
  <2>2. got_resource' \in [Tasks -> BOOLEAN]
    BY <1>6 DEF MsgSend, TypeOK
  <2>3. /\ state' \in [Tasks -> TaskStates] /\ cpu' \in Tasks
        /\ pc' \in [Tasks -> Points] /\ ints' \in [Tasks -> BOOLEAN]
    BY <1>6, ReturnType, PreemptType, MadeReady DEF MsgSend
  <2> QED
    BY <1>6, <2>1, <2>2, <2>3 DEF MsgSend, TypeOK
<1>7. CASE SemGetResume
  <2>1. tokens' \in [Sems -> Int]
    BY <1>7 DEF SemGetResume, Debit, TypeOK
  <2> QED
    BY <1>7, <2>1, UnblockType DEF SemGetResume, TypeOK
<1>8. CASE MsgGetResume
  <2>1. num_msgs' \in [Tasks -> 0..(Wrap - 1)]
    <3>1. num_msgs[this] - 1 \in Int
      BY WrapType DEF TypeOK, this
    <3> QED
      BY <1>8, <3>1, ModType DEF MsgGetResume, TypeOK
  <2> QED
    BY <1>8, <2>1, UnblockType DEF MsgGetResume, TypeOK
<1>9. CASE TaskDelayResume
  BY <1>9, UnblockType DEF TaskDelayResume, TypeOK
<1>10. CASE TaskSleepResume
  BY <1>10 DEF TaskSleepResume, TypeOK, Points
<1>11. CASE Switched
  BY <1>11 DEF Switched, TypeOK, Points
<1>12. CASE TaskStart
  BY <1>12 DEF TaskStart, TypeOK, Points
<1>13. CASE ReturnFromExit
  BY <1>13 DEF ReturnFromExit, TypeOK, Points
<1>14. ASSUME NEW d \in Tasks, TaskNew(d) PROVE TypeOK'
  <2>1. task_q' \in Seq(Tasks)
    BY <1>14, AddToQRange DEF TaskNew, TypeOK
  <2> QED
    BY <1>14, <2>1, PreemptType, MadeReady DEF TaskNew, TypeOK
<1>15. ASSUME NEW d \in Tasks, TaskDelete(d) PROVE TypeOK'
  BY <1>15 DEF TaskDelete, TypeOK, TaskStates
<1>16. ASSUME NEW d \in Tasks, TaskWake(d) PROVE TypeOK'
  BY <1>16 DEF TaskWake, WakeStep, TypeOK, Points
<1>17. ASSUME NEW d \in Tasks, TaskWakeIsr(d) PROVE TypeOK'
  BY <1>17, PreemptType, MadeReady DEF TaskWakeIsr, TypeOK
<1>18. ASSUME NEW n \in 0..MaxTics, TaskDelay(n) PROVE TypeOK'
  <2>1. "delay" \in Points /\ n \in Timeouts /\ n \in 0..(Wrap - 1)
    BY KernelAssumption DEF Points, Timeouts
  <2> QED
    BY <1>18, <2>1, BlockType DEF TaskDelay, TypeOK
<1>19. CASE TaskSleep
  <2>1. [state EXCEPT ![this] = "SLEEPING"] \in [Tasks -> TaskStates] /\ "sleep" \in Points
    BY DEF TypeOK, TaskStates, Points
  <2> QED
    BY <1>19, <2>1, RunNextType DEF TaskSleep, TypeOK
<1>20. CASE TaskExit
  <2>1. [state EXCEPT ![this] = "DELETE"] \in [Tasks -> TaskStates] /\ "exited" \in Points
    BY DEF TypeOK, TaskStates, Points
  <2> QED
    BY <1>20, <2>1, RunNextType DEF TaskExit, TypeOK
<1>21. CASE WakeSet
  BY <1>21, MadeReady DEF WakeSet, WakeStep, TypeOK, Points
<1>22. CASE WakeCompare
  <2>1. "wake_run" \in Points /\ "user" \in Points
    BY DEF Points
  <2>2. state' \in [Tasks -> TaskStates] /\ cpu' \in Tasks
    BY <1>22, MadeReady DEF WakeCompare, TypeOK
  <2>3. pc' \in [Tasks -> Points] /\ arg' \in [Tasks -> Tasks \cup Sems \cup {NoId}]
    BY <1>22, <2>1 DEF WakeCompare, WakeStep, TypeOK
  <2> QED
    BY <1>22, <2>2, <2>3 DEF WakeCompare, WakeStep, TypeOK
<1>23. CASE WakeRunNext
  <2>1. /\ state' \in [Tasks -> TaskStates]
        /\ arg' \in [Tasks -> Tasks \cup Sems \cup {NoId}]
    <3>1. PICK n \in Tasks : /\ state' = [state EXCEPT ![n] = "RUNNING"]
                             /\ arg' = [arg EXCEPT ![this] = n]
      BY <1>23 DEF WakeRunNext
    <3> QED
      BY <3>1 DEF TypeOK, TaskStates
  <2>2. pc' \in [Tasks -> Points]
    BY <1>23 DEF WakeRunNext, WakeStep, TypeOK, Points
  <2> QED
    BY <1>23, <2>1, <2>2 DEF WakeRunNext, WakeStep, TypeOK
<1>24. CASE WakeSwitch
  BY <1>24 DEF WakeSwitch, WakeStep, TypeOK, ContextOK, Points, this
<1>25. CASE IdleLower
  <2>1. task_q' \in Seq(Tasks)
    BY <1>25, IdleLowerRange DEF TypeOK
  <2>2. /\ state' \in [Tasks -> TaskStates] /\ cpu' \in Tasks
        /\ pc' \in [Tasks -> Points] /\ ints' \in [Tasks -> BOOLEAN]
    <3>1. "lowered" \in Points /\ "user" \in Points
      BY DEF Points
    <3> QED
      BY <1>25, <3>1, RunNextType, MadeReady DEF IdleLower, TypeOK
  <2> QED
    BY <1>25, <2>1, <2>2 DEF IdleLower, TypeOK
<1>26. CASE IdleStart
  BY <1>26 DEF IdleStart, TypeOK, Points
<1>27. ASSUME NEW d \in Tasks, CleanupFind(d) PROVE TypeOK'
  BY <1>27 DEF CleanupFind, TypeOK, Points
<1>28. CASE CleanupRemove
  <2>1. task_q' \in Seq(Tasks)
    BY <1>28, RmFromQRange DEF CleanupRemove, TypeOK
  <2> QED
    BY <1>28, <2>1 DEF CleanupRemove, TypeOK, Points
<1>29. CASE Interrupt
  <2>1. irq' \in [Tasks -> 0..MaxNest]
    BY <1>29, WrapType DEF Interrupt, TypeOK, this
  <2> QED
    BY <1>29, <2>1 DEF Interrupt, TypeOK, Points
<1>30. CASE TimerTic
  <2>1. state' \in [Tasks -> TaskStates]
    BY <1>30 DEF TimerTic, Expire, TypeOK, TaskStates
  <2>2. /\ timer_active' \in [Tasks -> BOOLEAN]
        /\ time_out' \in [Tasks -> BOOLEAN]
    BY <1>30 DEF TimerTic, Expire, TypeOK, Pops, Counting
  <2>3. time_count' \in [Tasks -> 0..(Wrap - 1)]
    <3>1. \A t \in Tasks : time_count[t] \in Int
      BY KernelAssumption DEF TypeOK
    <3>2. \A t \in Tasks : (time_count[t] - 1) % Wrap \in 0..(Wrap - 1)
      BY <3>1, ModType
    <3> QED
      BY <1>30, <3>2 DEF TimerTic, TypeOK
  <2>4. waited' \in [Tasks -> 0..MaxTics]
    <3>1. MaxTics \in Nat
      BY KernelAssumption
    <3>2. \A t \in Tasks : /\ waited[t] \in 0..MaxTics
                           /\ waited[t] < MaxTics => waited[t] + 1 \in 0..MaxTics
      BY <3>1 DEF TypeOK
    <3>3. waited' = [t \in Tasks |-> IF /\ pc[t] \in {"sem_get", "msg_get", "delay"}
                                       /\ waited[t] < MaxTics
                                    THEN waited[t] + 1 ELSE waited[t]]
      BY <1>30 DEF TimerTic
    <3> QED
      BY <3>2, <3>3
  <2> QED
    BY <1>30, <2>1, <2>2, <2>3, <2>4 DEF TimerTic, TypeOK, Points
<1>31. CASE IntRunEnd
  <2>1. state' \in [Tasks -> TaskStates] /\ cpu' \in Tasks
    BY <1>31 DEF IntRunEnd, Reschedule, TypeOK, TaskStates
  <2>2. irq' \in [Tasks -> 0..MaxNest]
    BY <1>31, KernelAssumption DEF IntRunEnd, TypeOK, ContextOK, this
  <2>3. pc' \in [Tasks -> Points] /\ below' \in [Tasks -> Points]
    BY <1>31 DEF IntRunEnd, TypeOK, Points
  <2> QED
    BY <1>31, <2>1, <2>2, <2>3 DEF IntRunEnd, TypeOK
<1>32. CASE UNCHANGED vars
  BY <1>32 DEF vars, TypeOK
<1> QED
  BY <1>1, <1>2, <1>3, <1>4, <1>5, <1>6, <1>7, <1>8, <1>9, <1>10, <1>11, <1>12,
     <1>13, <1>14, <1>15, <1>16, <1>17, <1>18, <1>19, <1>20, <1>21, <1>22, <1>23,
     <1>24, <1>25, <1>26, <1>27, <1>28, <1>29, <1>30, <1>31, <1>32
     DEF Next, Semaphores, Messages, Resumes, TaskCalls, WakeSteps, IdleSteps,
         Interrupts

(* Every step keeps ContextOK.                                             *)
LEMMA ContextStep == TypeOK /\ ContextOK /\ [Next]_vars => ContextOK'
<1> SUFFICES ASSUME TypeOK, ContextOK, [Next]_vars PROVE ContextOK'
  OBVIOUS
<1> DEFINE Types == /\ pc \in [Tasks -> Points] /\ below \in [Tasks -> Points]
                    /\ irq \in [Tasks -> 0..MaxNest] /\ cpu \in Tasks
                    /\ arg \in [Tasks -> Tasks \cup Sems \cup {NoId}]
<1>0. Types
  BY DEF TypeOK
<1> USE <1>0 DEF ContextOK, this, ctxVars
<1>1. ASSUME NEW s \in Sems, SemGive(s) PROVE ContextOK'
  BY <1>1 DEF SemGive, Caller, Return, Preempt, RunNext
<1>2. ASSUME NEW s \in Sems, NEW n \in Timeouts, SemGetNow(s, n) PROVE ContextOK'
  BY <1>2 DEF SemGetNow, Return
<1>3. ASSUME NEW s \in Sems, NEW n \in Timeouts, SemGetWait(s, n) PROVE ContextOK'
  BY <1>3 DEF SemGetWait, TaskCaller, Block, RunNext
<1>4. ASSUME NEW n \in Timeouts, MsgGetNow(n) PROVE ContextOK'
  BY <1>4 DEF MsgGetNow, Return
<1>5. ASSUME NEW n \in Timeouts, MsgGetWait(n) PROVE ContextOK'
  BY <1>5 DEF MsgGetWait, TaskCaller, Block, RunNext
<1>6. ASSUME NEW d \in Tasks, MsgSend(d) PROVE ContextOK'
  BY <1>6 DEF MsgSend, Caller, Return, Preempt, RunNext
<1>7. CASE SemGetResume
  BY <1>7 DEF SemGetResume, Unblock
<1>8. CASE MsgGetResume
  BY <1>8 DEF MsgGetResume, Unblock
<1>9. CASE TaskDelayResume
  BY <1>9 DEF TaskDelayResume, Unblock
<1>10. CASE TaskSleepResume
  BY <1>10 DEF TaskSleepResume
<1>11. CASE Switched
  BY <1>11 DEF Switched
<1>12. CASE TaskStart
  BY <1>12 DEF TaskStart
<1>13. CASE ReturnFromExit
  BY <1>13 DEF ReturnFromExit
<1>14. ASSUME NEW d \in Tasks, TaskNew(d) PROVE ContextOK'
  BY <1>14 DEF TaskNew, TaskCaller, Preempt, RunNext
<1>15. ASSUME NEW d \in Tasks, TaskDelete(d) PROVE ContextOK'
  BY <1>15 DEF TaskDelete
<1>16. ASSUME NEW d \in Tasks, TaskWake(d) PROVE ContextOK'
  BY <1>16 DEF TaskWake, WakeStep
<1>17. ASSUME NEW d \in Tasks, TaskWakeIsr(d) PROVE ContextOK'
  BY <1>17 DEF TaskWakeIsr, Preempt, RunNext
<1>18. ASSUME NEW n \in 0..MaxTics, TaskDelay(n) PROVE ContextOK'
  BY <1>18 DEF TaskDelay, TaskCaller, Block, RunNext
<1>19. CASE TaskSleep
  BY <1>19 DEF TaskSleep, TaskCaller, RunNext
<1>20. CASE TaskExit
  BY <1>20 DEF TaskExit, TaskCaller, RunNext
<1>21. CASE WakeSet
  BY <1>21 DEF WakeSet, WakeStep
<1>22. CASE WakeCompare
  BY <1>22 DEF WakeCompare, WakeStep
<1>23. CASE WakeRunNext
  BY <1>23 DEF WakeRunNext, WakeStep
<1>24. CASE WakeSwitch
  BY <1>24 DEF WakeSwitch, WakeStep
<1>25. CASE IdleLower
  BY <1>25 DEF IdleLower, RunNext
<1>26. CASE IdleStart
  BY <1>26 DEF IdleStart
<1>27. ASSUME NEW d \in Tasks, CleanupFind(d) PROVE ContextOK'
  BY <1>27 DEF CleanupFind
<1>28. CASE CleanupRemove
  BY <1>28 DEF CleanupRemove
<1>29. CASE Interrupt
  BY <1>29 DEF Interrupt
<1>30. CASE TimerTic
  BY <1>30 DEF TimerTic
<1>31. CASE IntRunEnd
  BY <1>31 DEF IntRunEnd
<1>32. CASE UNCHANGED vars
  BY <1>32 DEF vars
<1> QED
  BY <1>1, <1>2, <1>3, <1>4, <1>5, <1>6, <1>7, <1>8, <1>9, <1>10, <1>11, <1>12,
     <1>13, <1>14, <1>15, <1>16, <1>17, <1>18, <1>19, <1>20, <1>21, <1>22, <1>23,
     <1>24, <1>25, <1>26, <1>27, <1>28, <1>29, <1>30, <1>31, <1>32
     DEF Next, Semaphores, Messages, Resumes, TaskCalls, WakeSteps, IdleSteps,
         Interrupts

(* Every variable of the kernel keeps its type; in particular a semaphore  *)
(* never counts above its count_max, in any system.                        *)
THEOREM TypeCorrect == Spec => []TypeOK
<1>1. Init => TypeOK /\ ContextOK
  BY InitType DEF TInv
<1>2. TypeOK /\ ContextOK /\ [Next]_vars => (TypeOK /\ ContextOK)'
  BY TypeStep, ContextStep
<1> QED
  BY <1>1, <1>2, PTL DEF Spec

(* A task that waits in sem_get() has wait_id set to the semaphore that it *)
(* asked for, which is how sem_give() finds it; and it is never            *)
(* interrupted there, since its switch saved the interrupt flag off.       *)
WaitOK ==
  \A t \in Tasks :
     /\ pc[t] = "sem_get" => ~ints[t]
     /\ below[t] # "sem_get"
     /\ pc[t] = "sem_get" /\ state[t] = "WAITING" => wait_id[t] = arg[t]

(* Every step keeps WaitOK.                                                *)
LEMMA WaitStep == TypeOK /\ ContextOK /\ WaitOK /\ [Next]_vars => WaitOK'
<1> SUFFICES ASSUME TypeOK, ContextOK, WaitOK, [Next]_vars PROVE WaitOK'
  OBVIOUS
<1>0. /\ cpu \in Tasks /\ pc \in [Tasks -> Points] /\ below \in [Tasks -> Points]
      /\ state \in [Tasks -> TaskStates] /\ ints \in [Tasks -> BOOLEAN]
      /\ arg \in [Tasks -> Tasks \cup Sems \cup {NoId}]
      /\ wait_id \in [Tasks -> Sems \cup {NoId}]
      /\ pc[this] = "boot" => this = Idle
      /\ int_mode \in BOOLEAN
  BY DEF TypeOK, ContextOK, this
<1> USE <1>0 DEF WaitOK, this, ctxVars, tcbVars
<1>1. ASSUME NEW s \in Sems, SemGive(s) PROVE WaitOK'
  <2>1. pc[this] \in {"user", "isr"} /\ UNCHANGED <<arg, below>>
    BY <1>1 DEF SemGive, Caller
  <2>2. CASE Return /\ UNCHANGED tcbVars
    BY <2>1, <2>2 DEF Return
  <2>3. ASSUME NEW w \in Tasks, Grant(w),
               Preempt(w, task_q, [state EXCEPT ![w] = "READY"])
        PROVE  WaitOK'
    BY <2>1, <2>3 DEF Grant, Preempt, RunNext
  <2> QED
    BY <1>1, <2>2, <2>3 DEF SemGive
<1>2. ASSUME NEW s \in Sems, NEW n \in Timeouts, SemGetNow(s, n) PROVE WaitOK'
  BY <1>2 DEF SemGetNow, Caller, Return
<1>3. ASSUME NEW s \in Sems, NEW n \in Timeouts, SemGetWait(s, n) PROVE WaitOK'
  BY <1>3 DEF SemGetWait, TaskCaller, Block, RunNext
<1>4. ASSUME NEW n \in Timeouts, MsgGetNow(n) PROVE WaitOK'
  BY <1>4 DEF MsgGetNow, TaskCaller, Return
<1>5. ASSUME NEW n \in Timeouts, MsgGetWait(n) PROVE WaitOK'
  BY <1>5 DEF MsgGetWait, TaskCaller, Block, RunNext
<1>6. ASSUME NEW d \in Tasks, MsgSend(d) PROVE WaitOK'
  BY <1>6 DEF MsgSend, Caller, Return, Preempt, RunNext
<1>7. CASE SemGetResume
  BY <1>7 DEF SemGetResume, Unblock
<1>8. CASE MsgGetResume
  BY <1>8 DEF MsgGetResume, Unblock
<1>9. CASE TaskDelayResume
  BY <1>9 DEF TaskDelayResume, Unblock
<1>10. CASE TaskSleepResume
  BY <1>10 DEF TaskSleepResume
<1>11. CASE Switched
  BY <1>11 DEF Switched
<1>12. CASE TaskStart
  BY <1>12 DEF TaskStart
<1>13. CASE ReturnFromExit
  BY <1>13 DEF ReturnFromExit
<1>14. ASSUME NEW d \in Tasks, TaskNew(d) PROVE WaitOK'
  BY <1>14 DEF TaskNew, TaskCaller, Preempt, RunNext
<1>15. ASSUME NEW d \in Tasks, TaskDelete(d) PROVE WaitOK'
  BY <1>15 DEF TaskDelete
<1>16. ASSUME NEW d \in Tasks, TaskWake(d) PROVE WaitOK'
  BY <1>16 DEF TaskWake, WakeStep
<1>17. ASSUME NEW d \in Tasks, TaskWakeIsr(d) PROVE WaitOK'
  BY <1>17 DEF TaskWakeIsr, Preempt, RunNext
<1>18. ASSUME NEW n \in 0..MaxTics, TaskDelay(n) PROVE WaitOK'
  BY <1>18 DEF TaskDelay, TaskCaller, Block, RunNext
<1>19. CASE TaskSleep
  BY <1>19 DEF TaskSleep, TaskCaller, RunNext
<1>20. CASE TaskExit
  BY <1>20 DEF TaskExit, TaskCaller, RunNext
<1>21. CASE WakeSet
  BY <1>21 DEF WakeSet, WakeStep
<1>22. CASE WakeCompare
  BY <1>22 DEF WakeCompare, WakeStep
<1>23. CASE WakeRunNext
  BY <1>23 DEF WakeRunNext, WakeStep
<1>24. CASE WakeSwitch
  BY <1>24 DEF WakeSwitch, WakeStep
<1>25. CASE IdleLower
  BY <1>25 DEF IdleLower, RunNext
<1>26. CASE IdleStart
  BY <1>26 DEF IdleStart
<1>27. ASSUME NEW d \in Tasks, CleanupFind(d) PROVE WaitOK'
  BY <1>27 DEF CleanupFind
<1>28. CASE CleanupRemove
  BY <1>28 DEF CleanupRemove
<1>29. CASE Interrupt
  BY <1>29 DEF Interrupt
<1>30. CASE TimerTic
  BY <1>30 DEF TimerTic, Expire
<1>31. CASE IntRunEnd
  BY <1>31 DEF IntRunEnd, Reschedule
<1>32. CASE UNCHANGED vars
  BY <1>32 DEF vars
<1> QED
  BY <1>1, <1>2, <1>3, <1>4, <1>5, <1>6, <1>7, <1>8, <1>9, <1>10, <1>11, <1>12,
     <1>13, <1>14, <1>15, <1>16, <1>17, <1>18, <1>19, <1>20, <1>21, <1>22, <1>23,
     <1>24, <1>25, <1>26, <1>27, <1>28, <1>29, <1>30, <1>31, <1>32
     DEF Next, Semaphores, Messages, Resumes, TaskCalls, WakeSteps, IdleSteps,
         Interrupts

(* Every step keeps the property itself: a give that leaves its unit in    *)
(* the count has looked through the queue for a task with that wait_id.    *)
LEMMA NoWaiterStep ==
  TypeOK /\ ContextOK /\ WaitOK /\ NoWaiterWhileAvailable /\ [Next]_vars
    => NoWaiterWhileAvailable'
<1> SUFFICES ASSUME TypeOK, ContextOK, WaitOK, NoWaiterWhileAvailable, [Next]_vars
             PROVE  NoWaiterWhileAvailable'
  OBVIOUS
<1>0. /\ cpu \in Tasks /\ pc \in [Tasks -> Points] /\ below \in [Tasks -> Points]
      /\ state \in [Tasks -> TaskStates]
      /\ arg \in [Tasks -> Tasks \cup Sems \cup {NoId}]
      /\ count_now \in [Sems -> Nat] /\ task_q \in Seq(Tasks)
      /\ Range(task_q) \subseteq Tasks
      /\ pc[this] = "boot" => this = Idle
      /\ \A t \in Tasks : below[t] # "sem_get"
  BY DEF TypeOK, ContextOK, WaitOK, this, Range
<1> USE <1>0 DEF NoWaiterWhileAvailable, WaitsFor, this, ctxVars, tcbVars, objVars
<1>1. ASSUME NEW s \in Sems, SemGive(s) PROVE NoWaiterWhileAvailable'
  <2>1. CASE /\ \A w \in Range(task_q) : ~Awaits(w, s)
             /\ UNCHANGED <<task_q, state, pc, arg>>
             /\ count_now' = [count_now EXCEPT ![s] = @ + 1]
    BY <2>1 DEF WaitOK, Awaits
  <2>2. CASE /\ count_now[s] # 0
             /\ UNCHANGED <<task_q, state, pc, arg>>
             /\ count_now' = [count_now EXCEPT ![s] = @ + 1]
    BY <2>2
  <2>3. CASE UNCHANGED <<task_q, state, pc, arg, count_now>>
    BY <2>3
  <2>4. ASSUME NEW w \in Tasks, UNCHANGED <<task_q, arg, count_now>>,
               Preempt(w, task_q, [state EXCEPT ![w] = "READY"])
        PROVE  NoWaiterWhileAvailable'
    BY <1>1, <2>4 DEF SemGive, Caller, Preempt, RunNext
  <2> QED
    BY <1>1, <2>1, <2>2, <2>3, <2>4 DEF SemGive, Return
<1>2. ASSUME NEW s \in Sems, NEW n \in Timeouts, SemGetNow(s, n) PROVE NoWaiterWhileAvailable'
  BY <1>2 DEF SemGetNow, Return
<1>3. ASSUME NEW s \in Sems, NEW n \in Timeouts, SemGetWait(s, n) PROVE NoWaiterWhileAvailable'
  BY <1>3 DEF SemGetWait, TaskCaller, Block, RunNext
<1>4. ASSUME NEW n \in Timeouts, MsgGetNow(n) PROVE NoWaiterWhileAvailable'
  BY <1>4 DEF MsgGetNow, Return
<1>5. ASSUME NEW n \in Timeouts, MsgGetWait(n) PROVE NoWaiterWhileAvailable'
  BY <1>5 DEF MsgGetWait, TaskCaller, Block, RunNext
<1>6. ASSUME NEW d \in Tasks, MsgSend(d) PROVE NoWaiterWhileAvailable'
  BY <1>6 DEF MsgSend, Caller, Return, Preempt, RunNext
<1>7. CASE SemGetResume
  BY <1>7 DEF SemGetResume, Unblock
<1>8. CASE MsgGetResume
  BY <1>8 DEF MsgGetResume, Unblock
<1>9. CASE TaskDelayResume
  BY <1>9 DEF TaskDelayResume, Unblock
<1>10. CASE TaskSleepResume
  BY <1>10 DEF TaskSleepResume
<1>11. CASE Switched
  BY <1>11 DEF Switched
<1>12. CASE TaskStart
  BY <1>12 DEF TaskStart
<1>13. CASE ReturnFromExit
  BY <1>13 DEF ReturnFromExit
<1>14. ASSUME NEW d \in Tasks, TaskNew(d) PROVE NoWaiterWhileAvailable'
  <2>1. Range(task_q') \subseteq Range(task_q) \cup {d}
    BY <1>14, AddToQRange DEF TaskNew
  <2>2. state'[d] # "WAITING" /\ \A t \in Tasks : state'[t] = "WAITING" => state[t] = "WAITING"
    BY <1>14 DEF TaskNew, Preempt, RunNext
  <2>3. \A t \in Tasks : pc'[t] = "sem_get" => pc[t] = "sem_get"
    BY <1>14 DEF TaskNew, Preempt, RunNext
  <2> QED
    BY <1>14, <2>1, <2>2, <2>3 DEF TaskNew
<1>15. ASSUME NEW d \in Tasks, TaskDelete(d) PROVE NoWaiterWhileAvailable'
  BY <1>15 DEF TaskDelete
<1>16. ASSUME NEW d \in Tasks, TaskWake(d) PROVE NoWaiterWhileAvailable'
  BY <1>16 DEF TaskWake, WakeStep
<1>17. ASSUME NEW d \in Tasks, TaskWakeIsr(d) PROVE NoWaiterWhileAvailable'
  BY <1>17 DEF TaskWakeIsr, Preempt, RunNext
<1>18. ASSUME NEW n \in 0..MaxTics, TaskDelay(n) PROVE NoWaiterWhileAvailable'
  BY <1>18 DEF TaskDelay, TaskCaller, Block, RunNext
<1>19. CASE TaskSleep
  BY <1>19 DEF TaskSleep, TaskCaller, RunNext
<1>20. CASE TaskExit
  BY <1>20 DEF TaskExit, TaskCaller, RunNext
<1>21. CASE WakeSet
  BY <1>21 DEF WakeSet, WakeStep
<1>22. CASE WakeCompare
  BY <1>22 DEF WakeCompare, WakeStep
<1>23. CASE WakeRunNext
  BY <1>23 DEF WakeRunNext, WakeStep
<1>24. CASE WakeSwitch
  BY <1>24 DEF WakeSwitch, WakeStep
<1>25. CASE IdleLower
  <2>1. Range(task_q') \subseteq Range(task_q)
    BY <1>25, IdleLowerRange
  <2> QED
    BY <1>25, <2>1 DEF IdleLower, RunNext
<1>26. CASE IdleStart
  BY <1>26 DEF IdleStart
<1>27. ASSUME NEW d \in Tasks, CleanupFind(d) PROVE NoWaiterWhileAvailable'
  BY <1>27 DEF CleanupFind
<1>28. CASE CleanupRemove
  <2>1. Range(task_q') \subseteq Range(task_q)
    BY <1>28, RmFromQRange DEF CleanupRemove
  <2> QED
    BY <1>28, <2>1 DEF CleanupRemove
<1>29. CASE Interrupt
  BY <1>29 DEF Interrupt
<1>30. CASE TimerTic
  BY <1>30 DEF TimerTic, Expire
<1>31. CASE IntRunEnd
  BY <1>31 DEF IntRunEnd, Reschedule
<1>32. CASE UNCHANGED vars
  BY <1>32 DEF vars
<1> QED
  BY <1>1, <1>2, <1>3, <1>4, <1>5, <1>6, <1>7, <1>8, <1>9, <1>10, <1>11, <1>12,
     <1>13, <1>14, <1>15, <1>16, <1>17, <1>18, <1>19, <1>20, <1>21, <1>22, <1>23,
     <1>24, <1>25, <1>26, <1>27, <1>28, <1>29, <1>30, <1>31, <1>32
     DEF Next, Semaphores, Messages, Resumes, TaskCalls, WakeSteps, IdleSteps,
         Interrupts

(* In every system, whatever its tasks and handlers do, no task of the     *)
(* queue waits for a semaphore whose count is not zero.                    *)
THEOREM NoWaiter == Spec => []NoWaiterWhileAvailable
<1> DEFINE IInv == TypeOK /\ ContextOK /\ WaitOK /\ NoWaiterWhileAvailable
<1>1. Init => IInv
  <2>1. Init => WaitOK
    BY DEF Init, WaitOK
  <2>2. Init => NoWaiterWhileAvailable
    <3>1. Range(<<Idle>>) = {Idle} /\ Idle \in Tasks
      BY DEF Range, Tasks
    <3> QED
      BY <3>1 DEF Init, NoWaiterWhileAvailable, WaitsFor
  <2> QED
    BY <2>1, <2>2, InitType DEF TInv
<1>2. IInv /\ [Next]_vars => IInv'
  BY TypeStep, ContextStep, WaitStep, NoWaiterStep
<1>3. IInv => NoWaiterWhileAvailable
  OBVIOUS
<1> QED
  BY <1>1, <1>2, <1>3, PTL DEF Spec

(* Without calls of task_wake() from tasks, no task is at, or was          *)
(* interrupted at, a point of task_wake().                                 *)
WakePoints == {"wake_set", "wake_cmp", "wake_run", "wake_switch"}
NotWaking == \A t \in Tasks : pc[t] \notin WakePoints /\ below[t] \notin WakePoints
RunningIsCurrent == \A t \in Tasks : state[t] = "RUNNING" => t = cpu

LEMMA OneRunningStep ==
  ASSUME \A t, d \in Tasks : <<"task_wake", d>> \notin Calls[t],
         TypeOK, ContextOK, NotWaking, RunningIsCurrent, [Next]_vars
  PROVE  (NotWaking /\ RunningIsCurrent)'
<1>0. /\ cpu \in Tasks /\ pc \in [Tasks -> Points] /\ below \in [Tasks -> Points]
      /\ state \in [Tasks -> TaskStates]
      /\ pc[this] = "boot" => this = Idle
  BY DEF TypeOK, ContextOK, this
<1> USE <1>0 DEF NotWaking, RunningIsCurrent, WakePoints, this, ctxVars
<1>1. ASSUME NEW s \in Sems, SemGive(s) PROVE (NotWaking /\ RunningIsCurrent)'
  <2>1. UNCHANGED below
    BY <1>1 DEF SemGive
  <2>2. CASE Return
    BY <2>1, <2>2 DEF Return
  <2>3. ASSUME NEW w \in Tasks, Preempt(w, task_q, [state EXCEPT ![w] = "READY"])
        PROVE  (NotWaking /\ RunningIsCurrent)'
    BY <2>1, <2>3 DEF Preempt, RunNext
  <2> QED
    BY <1>1, <2>2, <2>3 DEF SemGive
<1>2. ASSUME NEW s \in Sems, NEW n \in Timeouts, SemGetNow(s, n) PROVE (NotWaking /\ RunningIsCurrent)'
  BY <1>2 DEF SemGetNow, Return
<1>3. ASSUME NEW s \in Sems, NEW n \in Timeouts, SemGetWait(s, n) PROVE (NotWaking /\ RunningIsCurrent)'
  BY <1>3 DEF SemGetWait, TaskCaller, Block, RunNext
<1>4. ASSUME NEW n \in Timeouts, MsgGetNow(n) PROVE (NotWaking /\ RunningIsCurrent)'
  BY <1>4 DEF MsgGetNow, Return
<1>5. ASSUME NEW n \in Timeouts, MsgGetWait(n) PROVE (NotWaking /\ RunningIsCurrent)'
  BY <1>5 DEF MsgGetWait, TaskCaller, Block, RunNext
<1>6. ASSUME NEW d \in Tasks, MsgSend(d) PROVE (NotWaking /\ RunningIsCurrent)'
  BY <1>6 DEF MsgSend, Caller, Return, Preempt, RunNext
<1>7. CASE SemGetResume
  BY <1>7 DEF SemGetResume, Unblock
<1>8. CASE MsgGetResume
  BY <1>8 DEF MsgGetResume, Unblock
<1>9. CASE TaskDelayResume
  BY <1>9 DEF TaskDelayResume, Unblock
<1>10. CASE TaskSleepResume
  BY <1>10 DEF TaskSleepResume
<1>11. CASE Switched
  BY <1>11 DEF Switched
<1>12. CASE TaskStart
  BY <1>12 DEF TaskStart
<1>13. CASE ReturnFromExit
  BY <1>13 DEF ReturnFromExit
<1>14. ASSUME NEW d \in Tasks, TaskNew(d) PROVE (NotWaking /\ RunningIsCurrent)'
  BY <1>14 DEF TaskNew, TaskCaller, Preempt, RunNext
<1>15. ASSUME NEW d \in Tasks, TaskDelete(d) PROVE (NotWaking /\ RunningIsCurrent)'
  BY <1>15 DEF TaskDelete
<1>16. ASSUME NEW d \in Tasks, TaskWake(d) PROVE (NotWaking /\ RunningIsCurrent)'
  BY <1>16 DEF TaskWake, WakeStep
<1>17. ASSUME NEW d \in Tasks, TaskWakeIsr(d) PROVE (NotWaking /\ RunningIsCurrent)'
  BY <1>17 DEF TaskWakeIsr, Preempt, RunNext
<1>18. ASSUME NEW n \in 0..MaxTics, TaskDelay(n) PROVE (NotWaking /\ RunningIsCurrent)'
  BY <1>18 DEF TaskDelay, TaskCaller, Block, RunNext
<1>19. CASE TaskSleep
  BY <1>19 DEF TaskSleep, TaskCaller, RunNext
<1>20. CASE TaskExit
  BY <1>20 DEF TaskExit, TaskCaller, RunNext
<1>21. CASE WakeSet
  BY <1>21 DEF WakeSet, WakeStep
<1>22. CASE WakeCompare
  BY <1>22 DEF WakeCompare, WakeStep
<1>23. CASE WakeRunNext
  BY <1>23 DEF WakeRunNext, WakeStep
<1>24. CASE WakeSwitch
  BY <1>24 DEF WakeSwitch, WakeStep
<1>25. CASE IdleLower
  BY <1>25 DEF IdleLower, RunNext
<1>26. CASE IdleStart
  BY <1>26 DEF IdleStart
<1>27. ASSUME NEW d \in Tasks, CleanupFind(d) PROVE (NotWaking /\ RunningIsCurrent)'
  BY <1>27 DEF CleanupFind
<1>28. CASE CleanupRemove
  BY <1>28 DEF CleanupRemove
<1>29. CASE Interrupt
  BY <1>29 DEF Interrupt
<1>30. CASE TimerTic
  BY <1>30 DEF TimerTic, Expire
<1>31. CASE IntRunEnd
  BY <1>31 DEF IntRunEnd, Reschedule
<1>32. CASE UNCHANGED vars
  BY <1>32 DEF vars
<1> QED
  BY <1>1, <1>2, <1>3, <1>4, <1>5, <1>6, <1>7, <1>8, <1>9, <1>10, <1>11, <1>12,
     <1>13, <1>14, <1>15, <1>16, <1>17, <1>18, <1>19, <1>20, <1>21, <1>22, <1>23,
     <1>24, <1>25, <1>26, <1>27, <1>28, <1>29, <1>30, <1>31, <1>32
     DEF Next, Semaphores, Messages, Resumes, TaskCalls, WakeSteps, IdleSteps,
         Interrupts

(* In every system whose tasks leave task_wake() to the interrupt          *)
(* handlers, at most the current task is marked as running.  (With         *)
(* task_wake() in a task the run KernelTwoRunning shows that it fails.)    *)
THEOREM OneRunningUnlessWoken ==
  ASSUME \A t, d \in Tasks : <<"task_wake", d>> \notin Calls[t]
  PROVE  Spec => []OneRunning
<1> DEFINE IInv == TypeOK /\ ContextOK /\ NotWaking /\ RunningIsCurrent
<1>1. Init => IInv
  <2>1. Init => NotWaking /\ RunningIsCurrent
    BY DEF Init, NotWaking, RunningIsCurrent, WakePoints
  <2> QED
    BY <2>1, InitType DEF TInv
<1>2. IInv /\ [Next]_vars => IInv'
  BY TypeStep, ContextStep, OneRunningStep
<1>3. IInv => OneRunning
  BY DEF RunningIsCurrent, OneRunning
<1> QED
  BY <1>1, <1>2, <1>3, PTL DEF Spec

-----------------------------------------------------------------------------
(* While the idle task starts the system it is not interrupted and nothing *)
(* else runs; and a task that does not exist yet is not in the queue.      *)
BootOK ==
  /\ pc[Idle] = "boot" => cpu = Idle /\ ~ints[Idle] /\ int_mode
  /\ below[Idle] # "boot"
  /\ state[Idle] # "none"
  /\ \A t \in Tasks : state[t] = "none" => t \notin Range(task_q)

(* Outside IdleLower the idle task does not leave or enter its start-up,   *)
(* so that no task's priority changes.                                     *)
SamePrio == pc'[Idle] = "boot" <=> pc[Idle] = "boot"

LEMMA IdleIsTask == Idle \in Tasks /\ \A t \in Tasks : t # Idle => t \in Others
  BY DEF Tasks

LEMMA PriorityType ==
  /\ Priority[Idle] = 0 /\ Lowest \in Nat
  /\ \A t \in Tasks : Priority[t] \in Nat /\ Priority[t] < Lowest
<1>1. /\ Wrap \in Nat /\ MaxTics \in Nat /\ MaxTics < Wrap - 1 /\ Priority[Idle] = 0
      /\ \A t \in Tasks : Priority[t] \in 0..(Wrap - 2)
  BY KernelAssumption
<1> QED
  BY <1>1 DEF Lowest

(* Every step keeps BootOK, and the priorities.                            *)
LEMMA BootStep ==
  TypeOK /\ ContextOK /\ BootOK /\ [Next]_vars => BootOK' /\ (IdleLower \/ SamePrio)
<1> SUFFICES ASSUME TypeOK, ContextOK, BootOK, [Next]_vars
             PROVE  BootOK' /\ (IdleLower \/ SamePrio)
  OBVIOUS
<1> DEFINE Goal == BootOK' /\ (IdleLower \/ SamePrio)
<1>0. /\ cpu \in Tasks /\ pc \in [Tasks -> Points] /\ below \in [Tasks -> Points]
      /\ state \in [Tasks -> TaskStates] /\ ints \in [Tasks -> BOOLEAN]
      /\ int_mode \in BOOLEAN /\ task_q \in Seq(Tasks)
      /\ Idle \in Tasks /\ Priority[Idle] = 0 /\ \A t \in Tasks : Priority[t] \in Nat
  BY IdleIsTask, PriorityType DEF TypeOK
<1> USE <1>0 DEF BootOK, SamePrio, this, ctxVars, tcbVars
<1>1. ASSUME NEW s \in Sems, SemGive(s) PROVE Goal
  <2>1. pc[this] \in {"user", "isr"} /\ UNCHANGED <<task_q, int_mode, below>>
    BY <1>1 DEF SemGive, Caller
  <2>2. CASE Return
    BY <2>1, <2>2 DEF Return
  <2>3. ASSUME NEW w \in Tasks, Preempt(w, task_q, [state EXCEPT ![w] = "READY"])
        PROVE  Goal
    BY <2>1, <2>3 DEF Preempt, RunNext
  <2> QED
    BY <1>1, <2>2, <2>3 DEF SemGive
<1>2. ASSUME NEW s \in Sems, NEW n \in Timeouts, SemGetNow(s, n) PROVE Goal
  BY <1>2 DEF SemGetNow, Caller, Return
<1>3. ASSUME NEW s \in Sems, NEW n \in Timeouts, SemGetWait(s, n) PROVE Goal
  BY <1>3 DEF SemGetWait, TaskCaller, Block, RunNext
<1>4. ASSUME NEW n \in Timeouts, MsgGetNow(n) PROVE Goal
  BY <1>4 DEF MsgGetNow, TaskCaller, Return
<1>5. ASSUME NEW n \in Timeouts, MsgGetWait(n) PROVE Goal
  BY <1>5 DEF MsgGetWait, TaskCaller, Block, RunNext
<1>6. ASSUME NEW d \in Tasks, MsgSend(d) PROVE Goal
  BY <1>6 DEF MsgSend, Caller, Return, Preempt, RunNext
<1>7. CASE SemGetResume
  BY <1>7 DEF SemGetResume, Unblock
<1>8. CASE MsgGetResume
  BY <1>8 DEF MsgGetResume, Unblock
<1>9. CASE TaskDelayResume
  BY <1>9 DEF TaskDelayResume, Unblock
<1>10. CASE TaskSleepResume
  BY <1>10 DEF TaskSleepResume
<1>11. CASE Switched
  BY <1>11 DEF Switched
<1>12. CASE TaskStart
  BY <1>12 DEF TaskStart
<1>13. CASE ReturnFromExit
  BY <1>13 DEF ReturnFromExit
<1>14. ASSUME NEW d \in Tasks, TaskNew(d) PROVE Goal
  <2>1. Range(task_q') \subseteq Range(task_q) \cup {d}
    BY <1>14, AddToQRange DEF TaskNew
  <2>2. state'[d] # "none" /\ \A t \in Tasks : state'[t] = "none" => state[t] = "none"
    BY <1>14 DEF TaskNew, Preempt, RunNext
  <2>3. /\ SamePrio
        /\ pc'[Idle] = "boot" => cpu' = Idle /\ ~ints'[Idle] /\ int_mode'
    <3>1. CASE pc[this] = "boot"
      <4>1. this = Idle /\ d # Idle
        BY <1>14, <3>1 DEF TaskNew, ContextOK
      <4>2. ~(Prio(this) > Prio(d))
        BY <3>1, <4>1 DEF Prio
      <4> QED
        BY <1>14, <3>1, <4>1, <4>2 DEF TaskNew, Preempt
    <3>2. CASE pc[this] # "boot"
      BY <1>14, <3>2 DEF TaskNew, TaskCaller, Preempt, RunNext
    <3> QED
      BY <3>1, <3>2
  <2> QED
    BY <1>14, <2>1, <2>2, <2>3 DEF TaskNew
<1>15. ASSUME NEW d \in Tasks, TaskDelete(d) PROVE Goal
  BY <1>15 DEF TaskDelete
<1>16. ASSUME NEW d \in Tasks, TaskWake(d) PROVE Goal
  BY <1>16 DEF TaskWake, WakeStep
<1>17. ASSUME NEW d \in Tasks, TaskWakeIsr(d) PROVE Goal
  BY <1>17 DEF TaskWakeIsr, Preempt, RunNext
<1>18. ASSUME NEW n \in 0..MaxTics, TaskDelay(n) PROVE Goal
  BY <1>18 DEF TaskDelay, TaskCaller, Block, RunNext
<1>19. CASE TaskSleep
  BY <1>19 DEF TaskSleep, TaskCaller, RunNext
<1>20. CASE TaskExit
  BY <1>20 DEF TaskExit, TaskCaller, RunNext
<1>21. CASE WakeSet
  BY <1>21 DEF WakeSet, WakeStep
<1>22. CASE WakeCompare
  BY <1>22 DEF WakeCompare, WakeStep
<1>23. CASE WakeRunNext
  BY <1>23 DEF WakeRunNext, WakeStep
<1>24. CASE WakeSwitch
  BY <1>24 DEF WakeSwitch, WakeStep
<1>25. CASE IdleLower
  <2>1. Range(task_q') \subseteq Range(task_q)
    BY <1>25, IdleLowerRange
  <2> QED
    BY <1>25, <2>1 DEF IdleLower, RunNext
<1>26. CASE IdleStart
  BY <1>26 DEF IdleStart
<1>27. ASSUME NEW d \in Tasks, CleanupFind(d) PROVE Goal
  BY <1>27 DEF CleanupFind
<1>28. CASE CleanupRemove
  <2>1. Range(task_q') \subseteq Range(task_q)
    BY <1>28, RmFromQRange DEF CleanupRemove
  <2> QED
    BY <1>28, <2>1 DEF CleanupRemove
<1>29. CASE Interrupt
  BY <1>29 DEF Interrupt
<1>30. CASE TimerTic
  <2>1. pc'[Idle] = "boot" <=> pc[Idle] = "boot"
    BY <1>30 DEF TimerTic
  <2>2. \A t \in Tasks : state'[t] = "none" => state[t] = "none"
    BY <1>30 DEF TimerTic, Expire
  <2>3. state'[Idle] # "none"
    BY <1>30 DEF TimerTic, Expire
  <2> QED
    BY <1>30, <2>1, <2>2, <2>3 DEF TimerTic
<1>31. CASE IntRunEnd
  BY <1>31 DEF IntRunEnd, Reschedule, ContextOK
<1>32. CASE UNCHANGED vars
  BY <1>32 DEF vars
<1> QED
  BY <1>1, <1>2, <1>3, <1>4, <1>5, <1>6, <1>7, <1>8, <1>9, <1>10, <1>11, <1>12,
     <1>13, <1>14, <1>15, <1>16, <1>17, <1>18, <1>19, <1>20, <1>21, <1>22, <1>23,
     <1>24, <1>25, <1>26, <1>27, <1>28, <1>29, <1>30, <1>31, <1>32
     DEF Next, Semaphores, Messages, Resumes, TaskCalls, WakeSteps, IdleSteps,
         Interrupts

-----------------------------------------------------------------------------
(* The order of the queue, in every system.                                *)

Prios == [t \in Tasks |-> Prio(t)]

(* Priorities are numbers, and the idle task's is the lowest once it has   *)
(* started the system.                                                     *)
LEMMA PrioType ==
  /\ Prios \in [Tasks -> Int]
  /\ \A t \in Tasks : Prio(t) \in Nat /\ Prio(t) <= Lowest
  /\ \A t \in Tasks : t # Idle => Prio(t) = Priority[t] /\ Prio(t) < Lowest
  BY PriorityType DEF Prios, Prio

LEMMA PrioKept ==
  ASSUME SamePrio
  PROVE  Prios' = Prios /\ \A t \in Tasks : Prio(t)' = Prio(t)
  BY DEF SamePrio, Prios, Prio

LEMMA SortedIsOrdered ==
  task_q \in Seq(Tasks) => (QueueSorted <=> Ordered(task_q, Prios))
<1> SUFFICES ASSUME task_q \in Seq(Tasks)
             PROVE  QueueSorted <=> Ordered(task_q, Prios)
  OBVIOUS
<1>1. \A i \in DOMAIN task_q : task_q[i] \in Tasks
  BY LenProperties, ElementOfSeq
<1> QED
  BY <1>1 DEF QueueSorted, Ordered, Prios

(* The four ways a step can treat the queue.                               *)
LEMMA TaskQStep ==
  [Next]_vars => \/ UNCHANGED task_q
                 \/ \E d \in Tasks : TaskNew(d)
                 \/ IdleLower
                 \/ CleanupRemove
  BY DEF Next, vars, Semaphores, Messages, Resumes, TaskCalls, WakeSteps, IdleSteps,
         Interrupts, SemGive, SemGetNow, SemGetWait, MsgGetNow, MsgGetWait, MsgSend,
         SemGetResume, MsgGetResume, TaskDelayResume, TaskSleepResume, Switched,
         TaskStart, ReturnFromExit, TaskDelete, TaskWake, TaskWakeIsr, TaskDelay,
         TaskSleep, TaskExit, WakeSet, WakeCompare, WakeRunNext, WakeSwitch, WakeStep,
         IdleStart, CleanupFind, Interrupt, TimerTic, IntRunEnd

(* task_new() keeps the order, and adds the new task.                      *)
LEMMA TaskNewOrder ==
  ASSUME TypeOK, BootOK, QueueSorted, NEW d \in Tasks, TaskNew(d)
  PROVE  Ordered(task_q', Prios) /\ Range(task_q') = Range(task_q) \cup {d}
<1>1. task_q \in Seq(Tasks) /\ Len(task_q) \in Nat
  BY LenProperties DEF TypeOK
<1>2. d # Idle /\ d \notin Range(task_q)
  BY DEF TaskNew, BootOK
<1>3. Prios[d] = Priority[d] /\ \A t \in Tasks : Prios[t] = Prio(t)
  BY <1>2, PrioType DEF Prios
<1>4. PICK i \in 0..Len(task_q) : /\ \A j \in 1..i : Prio(task_q[j]) <= Priority[d]
                                  /\ i < Len(task_q) => Prio(task_q[i + 1]) > Priority[d]
                                  /\ task_q' = InsertAt(task_q, i + 1, d)
  BY DEF TaskNew, AddToQ
<1> DEFINE k == i + 1
<1>5. /\ k \in 1..(Len(task_q) + 1) /\ k - 1 = i
      /\ k <= Len(task_q) => i < Len(task_q) /\ k \in 1..Len(task_q)
  BY <1>1
<1>6. \A j \in 1..Len(task_q) : task_q[j] \in Tasks
  BY <1>1, ElementOfSeq
<1>7. \A j \in 1..(k - 1) : Prios[task_q[j]] <= Prios[d]
  BY <1>1, <1>3, <1>4, <1>5, <1>6
<1>8. k <= Len(task_q) => Prios[task_q[k]] > Prios[d]
  BY <1>3, <1>4, <1>5, <1>6
<1>9. task_q' = InsertAt(task_q, k, d)
  BY <1>4
<1>10. Ordered(task_q, Prios)
  BY <1>1, SortedIsOrdered
<1> HIDE DEF k
<1>11. Prios \in [Tasks -> Int] /\ k \in 1..(Len(task_q) + 1)
  BY <1>5, PrioType
<1>12. /\ Ordered(InsertAt(task_q, k, d), Prios)
       /\ Range(InsertAt(task_q, k, d)) = Range(task_q) \cup {d}
  BY <1>1, <1>2, <1>7, <1>8, <1>10, <1>11, InsertOrdered
<1> QED
  BY <1>9, <1>12

(* So does the idle task's move to the lowest priority, ...                *)
LEMMA IdleLowerOrder ==
  ASSUME TypeOK, ContextOK, QueueSorted, IdleLower
  PROVE  Ordered(task_q', Prios') /\ Range(task_q') = Range(task_q)
<1>1. task_q \in Seq(Tasks) /\ Idle \in Tasks /\ this = Idle /\ pc[Idle] = "boot"
  BY IdleIsTask DEF TypeOK, ContextOK, IdleLower, this
<1>2. PICK i \in DOMAIN task_q : /\ task_q[i] = Idle
                                 /\ AddToQ(RemoveAt(task_q, i), Idle, Lowest)
  BY DEF IdleLower
<1> DEFINE q == RemoveAt(task_q, i)
<1>3. i \in 1..Len(task_q) /\ Idle \in Range(task_q)
  BY <1>1, <1>2, LenProperties DEF Range
<1>4. q \in Seq(Tasks) /\ Len(q) \in Nat
  BY <1>1, <1>3, RemoveAtRange, LenProperties
<1>5. Ordered(q, Prios) /\ Range(q) = Range(task_q) \ {Idle}
  BY <1>1, <1>2, <1>3, SortedIsOrdered, PrioType, RemoveOrdered
<1>6. PICK n \in 0..Len(q) : /\ \A j \in 1..n : Prio(q[j]) <= Lowest
                             /\ n < Len(q) => Prio(q[n + 1]) > Lowest
                             /\ task_q' = InsertAt(q, n + 1, Idle)
  BY <1>2 DEF AddToQ
<1> HIDE DEF q
<1>7. \A j \in 1..Len(q) : q[j] \in Tasks /\ q[j] # Idle /\ j \in DOMAIN q
  BY <1>4, <1>5, ElementOfSeq, LenProperties DEF Range
<1>8. pc'[Idle] # "boot" /\ pc' \in [Tasks -> Points]
  <2>1. TypeOK' /\ pc \in [Tasks -> Points]
    BY TypeStep DEF TypeOK, Next, IdleSteps
  <2> QED
    BY <1>1, <2>1 DEF TypeOK, IdleLower, RunNext
<1>9. /\ Prios' \in [Tasks -> Int] /\ Prios'[Idle] = Lowest
      /\ \A t \in Tasks : t # Idle => Prios'[t] = Prios[t] /\ Prios[t] = Prio(t)
  BY <1>1, <1>8, PriorityType DEF Prios, Prio
<1>10. Ordered(q, Prios')
  <2>1. DOMAIN q = 1..Len(q)
    BY <1>4, LenProperties
  <2> QED
    BY <1>5, <1>7, <1>9, <2>1 DEF Ordered
<1> DEFINE k == n + 1
<1>11. /\ k \in 1..(Len(q) + 1) /\ k - 1 = n
       /\ k <= Len(q) => n < Len(q) /\ k \in 1..Len(q)
  BY <1>4
<1>12. \A j \in 1..(k - 1) : Prios'[q[j]] <= Prios'[Idle]
  BY <1>4, <1>6, <1>7, <1>9, <1>11
<1>13. k <= Len(q) => Prios'[q[k]] > Prios'[Idle]
  BY <1>6, <1>7, <1>9, <1>11
<1>14. Idle \notin Range(q) /\ task_q' = InsertAt(q, k, Idle)
  BY <1>5, <1>6
<1> HIDE DEF k
<1>15. Prios' \in [Tasks -> Int] /\ k \in 1..(Len(q) + 1)
  BY <1>9, <1>11
<1>16. /\ Ordered(InsertAt(q, k, Idle), Prios')
       /\ Range(InsertAt(q, k, Idle)) = Range(q) \cup {Idle}
  <2>1. PICK pr : pr = Prios'
    OBVIOUS
  <2>2. pr \in [Tasks -> Int] /\ Ordered(q, pr)
    BY <1>10, <1>15, <2>1
  <2>3. /\ \A j \in 1..(k - 1) : pr[q[j]] <= pr[Idle]
        /\ k <= Len(q) => pr[q[k]] > pr[Idle]
    BY <1>12, <1>13, <2>1
  <2>4. Idle \in Tasks /\ Idle \notin Range(q)
    BY <1>1, <1>14
  <2>5. /\ Ordered(InsertAt(q, k, Idle), pr)
        /\ Range(InsertAt(q, k, Idle)) = Range(q) \cup {Idle}
    BY <1>4, <1>15, <2>2, <2>3, <2>4, InsertOrdered
  <2> QED
    BY <2>1, <2>5
<1> QED
  BY <1>3, <1>5, <1>14, <1>16

(* ... and task_cleanup(), which takes one task out.                       *)
LEMMA CleanupOrder ==
  ASSUME TypeOK, QueueSorted, CleanupRemove
  PROVE  Ordered(task_q', Prios) /\ Range(task_q') = Range(task_q) \ {arg[this]}
<1>1. PICK i \in DOMAIN task_q : task_q[i] = arg[this] /\ task_q' = RemoveAt(task_q, i)
  BY DEF CleanupRemove, RmFromQ
<1>2. task_q \in Seq(Tasks) /\ i \in 1..Len(task_q)
  BY <1>1, LenProperties DEF TypeOK
<1> QED
  BY <1>1, <1>2, SortedIsOrdered, PrioType, RemoveOrdered

LEMMA SortedStep ==
  TypeOK /\ ContextOK /\ BootOK /\ QueueSorted /\ [Next]_vars => QueueSorted'
<1> SUFFICES ASSUME TypeOK, ContextOK, BootOK, QueueSorted, [Next]_vars
             PROVE  QueueSorted'
  OBVIOUS
<1>1. TypeOK' /\ task_q \in Seq(Tasks) /\ task_q' \in Seq(Tasks)
  BY TypeStep DEF TypeOK
<1>2. QueueSorted' <=> Ordered(task_q', Prios')
  <2>1. (task_q \in Seq(Tasks) => (QueueSorted <=> Ordered(task_q, Prios)))'
    BY SortedIsOrdered, PTL
  <2> QED
    BY <1>1, <2>1
<1>3. CASE IdleLower
  BY <1>2, <1>3, IdleLowerOrder
<1>4. CASE ~IdleLower
  <2>1. Prios' = Prios
    BY <1>4, BootStep, PrioKept
  <2>2. CASE UNCHANGED task_q
    BY <1>1, <1>2, <2>1, <2>2, SortedIsOrdered
  <2>3. CASE \E d \in Tasks : TaskNew(d)
    BY <1>2, <2>1, <2>3, TaskNewOrder
  <2>4. CASE CleanupRemove
    BY <1>2, <2>1, <2>4, CleanupOrder
  <2> QED
    BY <1>4, <2>2, <2>3, <2>4, TaskQStep
<1> QED
  BY <1>3, <1>4

LEMMA QueueInit == Init => BootOK /\ QueueSorted /\ QueueHolds
<1> SUFFICES ASSUME Init PROVE BootOK /\ QueueSorted /\ QueueHolds
  OBVIOUS
<1>1. task_q = <<Idle>> /\ DOMAIN task_q = {1} /\ Range(task_q) = {Idle} /\ Idle \in Tasks
  BY IdleIsTask DEF Init, Range
<1> QED
  BY <1>1 DEF Init, BootOK, QueueSorted, QueueHolds

(* In every system, whatever its tasks and handlers do, the task queue     *)
(* holds no task twice and is in the order of the priorities: the first    *)
(* ready task that task_ready_get() finds is one of the most urgent.       *)
THEOREM QueueInOrder == Spec => []QueueSorted
<1> DEFINE IInv == TypeOK /\ ContextOK /\ BootOK /\ QueueSorted
<1>1. Init => IInv
  BY InitType, QueueInit DEF TInv
<1>2. IInv /\ [Next]_vars => IInv'
  BY TypeStep, ContextStep, BootStep, SortedStep
<1> QED
  BY <1>1, <1>2, PTL DEF Spec

-----------------------------------------------------------------------------
(* The most urgent task runs, where tasks leave task_wake() to handlers.   *)

(* What keeps MostUrgentRuns: outside its interrupt handlers the current   *)
(* task is always a most urgent one, at whatever point of a call it is.    *)
UrgentFirst ==
  pc[cpu] \notin {"isr", "tic_done"} =>
     \A t \in Range(task_q) : state[t] = "READY" => Prio(cpu) <= Prio(t)

(* task_ready_get() finds a most urgent one of the ready tasks.            *)
LEMMA NextIsUrgent ==
  ASSUME NEW q \in Seq(Tasks), NEW pr \in [Tasks -> Int], Ordered(q, pr),
         NEW st, NEW n, IsNext(n, q, st), NEW t \in Range(q), st[t] = "READY"
  PROVE  pr[n] <= pr[t]
<1>1. \A i \in DOMAIN q : i \in Int /\ q[i] \in Tasks
  BY LenProperties, ElementOfSeq
<1>2. PICK j \in DOMAIN q : q[j] = t
  BY DEF Range
<1>3. PICK i \in DOMAIN q : q[i] = n /\ \A k \in 1..(i - 1) : st[q[k]] # "READY"
  BY <1>2 DEF IsNext
<1>4. DOMAIN q = 1..Len(q) /\ Len(q) \in Nat
  BY LenProperties
<1>5. i <= j
  BY <1>1, <1>2, <1>3, <1>4
<1>6. CASE i = j
  BY <1>1, <1>2, <1>3, <1>6
<1>7. CASE i < j
  BY <1>2, <1>3, <1>7 DEF Ordered
<1> QED
  BY <1>1, <1>5, <1>6, <1>7

LEMMA UrgentIf ==
  /\ task_q \in Seq(Tasks) /\ cpu \in Tasks
  /\ \A t \in Range(task_q) : state[t] = "READY" => Prios[cpu] <= Prios[t]
  => UrgentFirst
<1> SUFFICES ASSUME task_q \in Seq(Tasks), cpu \in Tasks,
                    \A t \in Range(task_q) : state[t] = "READY" => Prios[cpu] <= Prios[t]
             PROVE  UrgentFirst
  OBVIOUS
<1>1. \A t \in Range(task_q) : t \in Tasks
  BY ElementOfSeq, LenProperties DEF Range
<1> QED
  BY <1>1 DEF Prios, UrgentFirst

LEMMA UrgentAgain ==
  (/\ task_q \in Seq(Tasks) /\ cpu \in Tasks
   /\ \A t \in Range(task_q) : state[t] = "READY" => Prios[cpu] <= Prios[t]
   => UrgentFirst)'
  BY UrgentIf, PTL

(* So does task_run_next() switch to one.                                  *)
LEMMA RunNextUrgent ==
  ASSUME task_q' \in Seq(Tasks), Ordered(task_q', Prios'), Prios' \in [Tasks -> Int],
         NEW st \in [Tasks -> TaskStates], NEW p, RunNext(task_q', st, p)
  PROVE  UrgentFirst'
<1> SUFFICES ASSUME NEW t \in Range(task_q'), state'[t] = "READY"
             PROVE  Prios'[cpu'] <= Prios'[t]
  <2>1. cpu' \in Tasks
    BY DEF RunNext
  <2> QED
    BY <2>1, UrgentAgain
<1>1. PICK n \in Tasks : /\ IsNext(n, task_q', st) /\ cpu' = n
                         /\ state' = [st EXCEPT ![n] = "RUNNING"]
  BY DEF RunNext
<1>2. st[t] = "READY"
  BY <1>1
<1> QED
  BY <1>1, <1>2, NextIsUrgent

(* A call that makes w ready switches if that makes w the most urgent.     *)
LEMMA PreemptUrgent ==
  ASSUME TypeOK, UrgentFirst, SamePrio,
         task_q' \in Seq(Tasks), Ordered(task_q', Prios'), Prios' \in [Tasks -> Int],
         NEW w \in Tasks, Range(task_q') \subseteq Range(task_q) \cup {w},
         Preempt(w, task_q', [state EXCEPT ![w] = "READY"])
  PROVE  UrgentFirst'
<1>1. CASE Prio(this) > Prio(w)
  <2>1. [[state EXCEPT ![w] = "READY"] EXCEPT ![this] = "READY"] \in [Tasks -> TaskStates]
    BY DEF TypeOK, TaskStates
  <2>2. RunNext(task_q', [[state EXCEPT ![w] = "READY"] EXCEPT ![this] = "READY"], "switched")
    BY <1>1 DEF Preempt
  <2> QED
    BY <2>1, <2>2, RunNextUrgent
<1>2. CASE ~(Prio(this) > Prio(w))
  <2>1. UNCHANGED <<cpu, pc>> /\ state' = [state EXCEPT ![w] = "READY"] /\ cpu \in Tasks
    BY <1>2 DEF Preempt, TypeOK
  <2>2. Prio(cpu) <= Prio(w)
    BY <1>2, <2>1, PrioType DEF this
  <2>3. Range(task_q') \subseteq Tasks /\ \A t \in Tasks : Prio(t)' = Prio(t)
    BY PrioKept, ElementOfSeq, LenProperties DEF Range
  <2>4. Prio(cpu)' = Prio(cpu)
    BY <2>1 DEF Prio
  <2> QED
    BY <2>1, <2>2, <2>3, <2>4 DEF UrgentFirst, TypeOK
<1> QED
  BY <1>1, <1>2

(* Every step keeps UrgentFirst.                                           *)
LEMMA UrgentStep ==
  ASSUME TypeOK, ContextOK, BootOK, QueueSorted, NotWaking, UrgentFirst, [Next]_vars,
         NoTaskWakes
  PROVE  UrgentFirst'
<1>0. /\ task_q \in Seq(Tasks) /\ task_q' \in Seq(Tasks) /\ cpu \in Tasks
      /\ pc \in [Tasks -> Points] /\ state \in [Tasks -> TaskStates]
  BY TypeStep DEF TypeOK
<1>a. Ordered(task_q', Prios') /\ Prios' \in [Tasks -> Int]
  <2>1. QueueSorted'
    BY SortedStep
  <2>2. (task_q \in Seq(Tasks) => (QueueSorted <=> Ordered(task_q, Prios)))'
    BY SortedIsOrdered, PTL
  <2>3. (Prios \in [Tasks -> Int])'
    BY PrioType, PTL
  <2> QED
    BY <1>0, <2>1, <2>2, <2>3
<1>b. IdleLower \/ SamePrio
  BY BootStep
<1>c. \A v \in TaskStates : \A t \in Tasks : [state EXCEPT ![t] = v] \in [Tasks -> TaskStates]
  BY <1>0
<1>d. \A t \in Range(task_q) : t \in Tasks
  BY <1>0, ElementOfSeq, LenProperties DEF Range
<1>e. {"READY", "WAITING", "SLEEPING", "DELETE"} \subseteq TaskStates
  BY DEF TaskStates
<1> DEFINE Goal == UrgentFirst'
(* Nothing becomes ready, and the current task stays and keeps its priority. *)
<1>f. ASSUME cpu' = cpu, SamePrio, Range(task_q') \subseteq Range(task_q),
             pc'[cpu] \notin {"isr", "tic_done"} => pc[cpu] \notin {"isr", "tic_done"},
             \A t \in Tasks : state'[t] = "READY" => state[t] = "READY"
      PROVE  Goal
  BY <1>0, <1>d, <1>f, PrioKept DEF UrgentFirst
<1>1. ASSUME NEW s \in Sems, SemGive(s) PROVE Goal
  <2>1. UNCHANGED task_q /\ SamePrio /\ pc[this] \in {"user", "isr"}
    BY <1>1, <1>b DEF SemGive, Caller, IdleLower
  <2>2. CASE Return
    BY <1>f, <2>1, <2>2 DEF Return
  <2>3. ASSUME NEW w \in Tasks, Preempt(w, task_q, [state EXCEPT ![w] = "READY"])
        PROVE  Goal
    BY <1>0, <1>a, <2>1, <2>3, PreemptUrgent
  <2> QED
    BY <1>1, <2>2, <2>3 DEF SemGive
<1>2. ASSUME NEW s \in Sems, NEW n \in Timeouts, SemGetNow(s, n) PROVE Goal
  BY <1>2, <1>0, <1>b, <1>f DEF SemGetNow, Caller, Return, IdleLower, this
<1>3. ASSUME NEW s \in Sems, NEW n \in Timeouts, SemGetWait(s, n) PROVE Goal
  <2>1. RunNext(task_q', [state EXCEPT ![this] = "WAITING"], "sem_get")
    BY <1>3 DEF SemGetWait, Block
  <2> QED
    BY <1>0, <1>a, <1>c, <1>e, <2>1, RunNextUrgent DEF this
<1>4. ASSUME NEW n \in Timeouts, MsgGetNow(n) PROVE Goal
  BY <1>4, <1>0, <1>b, <1>f DEF MsgGetNow, TaskCaller, Return, IdleLower, this
<1>5. ASSUME NEW n \in Timeouts, MsgGetWait(n) PROVE Goal
  <2>1. RunNext(task_q', [state EXCEPT ![this] = "WAITING"], "msg_get")
    BY <1>5 DEF MsgGetWait, Block
  <2> QED
    BY <1>0, <1>a, <1>c, <1>e, <2>1, RunNextUrgent DEF this
<1>6. ASSUME NEW d \in Tasks, MsgSend(d) PROVE Goal
  <2>1. UNCHANGED task_q /\ SamePrio /\ pc[this] \in {"user", "isr"}
    BY <1>6, <1>b DEF MsgSend, Caller, IdleLower
  <2>2. CASE Return
    BY <1>f, <2>1, <2>2 DEF Return
  <2>3. CASE Preempt(d, task_q, [state EXCEPT ![d] = "READY"])
    BY <1>0, <1>a, <2>1, <2>3, PreemptUrgent
  <2> QED
    BY <1>6, <2>2, <2>3 DEF MsgSend
<1>7. CASE SemGetResume
  BY <1>7, <1>0, <1>b, <1>f DEF SemGetResume, Unblock, IdleLower, this
<1>8. CASE MsgGetResume
  BY <1>8, <1>0, <1>b, <1>f DEF MsgGetResume, Unblock, IdleLower, this
<1>9. CASE TaskDelayResume
  BY <1>9, <1>0, <1>b, <1>f DEF TaskDelayResume, Unblock, IdleLower, this
<1>10. CASE TaskSleepResume
  BY <1>10, <1>0, <1>b, <1>f DEF TaskSleepResume, IdleLower, this
<1>11. CASE Switched
  BY <1>11, <1>0, <1>b, <1>f DEF Switched, IdleLower, this
<1>12. CASE TaskStart
  BY <1>12, <1>0, <1>b, <1>f DEF TaskStart, IdleLower, this
<1>13. CASE ReturnFromExit
  BY <1>13, <1>0, <1>b, <1>f DEF ReturnFromExit, IdleLower, this
<1>14. ASSUME NEW d \in Tasks, TaskNew(d) PROVE Goal
  <2>1. /\ Range(task_q') \subseteq Range(task_q) \cup {d}
        /\ Preempt(d, task_q', [state EXCEPT ![d] = "READY"])
    BY <1>0, <1>14, AddToQRange DEF TaskNew
  <2>2. SamePrio
    BY <1>14, <1>b DEF TaskNew, TaskCaller, IdleLower, BootOK
  <2> QED
    BY <1>0, <1>a, <2>1, <2>2, PreemptUrgent
<1>15. ASSUME NEW d \in Tasks, TaskDelete(d) PROVE Goal
  BY <1>15, <1>0, <1>b, <1>f DEF TaskDelete, TaskCaller, IdleLower, this
<1>16. ASSUME NEW d \in Tasks, TaskWake(d) PROVE Goal
  BY <1>0, <1>16 DEF TaskWake, NoTaskWakes, this
<1>17. ASSUME NEW d \in Tasks, TaskWakeIsr(d) PROVE Goal
  <2>1. UNCHANGED task_q /\ SamePrio /\ pc[this] = "isr"
    BY <1>17, <1>b DEF TaskWakeIsr, IdleLower
  <2>2. CASE UNCHANGED <<cpu, pc>>
    BY <2>1, <2>2 DEF UrgentFirst, this
  <2>3. CASE Preempt(d, task_q, [state EXCEPT ![d] = "READY"])
    BY <1>0, <1>a, <2>1, <2>3, PreemptUrgent
  <2> QED
    BY <1>17, <2>2, <2>3 DEF TaskWakeIsr
<1>18. ASSUME NEW n \in 0..MaxTics, TaskDelay(n) PROVE Goal
  <2>1. RunNext(task_q', [state EXCEPT ![this] = "WAITING"], "delay")
    BY <1>18 DEF TaskDelay, Block
  <2> QED
    BY <1>0, <1>a, <1>c, <1>e, <2>1, RunNextUrgent DEF this
<1>19. CASE TaskSleep
  <2>1. RunNext(task_q', [state EXCEPT ![this] = "SLEEPING"], "sleep")
    BY <1>19 DEF TaskSleep
  <2> QED
    BY <1>0, <1>a, <1>c, <1>e, <2>1, RunNextUrgent DEF this
<1>20. CASE TaskExit
  <2>1. RunNext(task_q', [state EXCEPT ![this] = "DELETE"], "exited")
    BY <1>20 DEF TaskExit
  <2> QED
    BY <1>0, <1>a, <1>c, <1>e, <2>1, RunNextUrgent DEF this
<1>21. CASE WakeSet
  BY <1>0, <1>21 DEF WakeSet, WakeStep, NotWaking, WakePoints, this
<1>22. CASE WakeCompare
  BY <1>0, <1>22 DEF WakeCompare, WakeStep, NotWaking, WakePoints, this
<1>23. CASE WakeRunNext
  BY <1>0, <1>23 DEF WakeRunNext, WakeStep, NotWaking, WakePoints, this
<1>24. CASE WakeSwitch
  BY <1>0, <1>24 DEF WakeSwitch, WakeStep, NotWaking, WakePoints, this
<1>25. CASE IdleLower
  <2>1. CASE RunNext(task_q', [state EXCEPT ![Idle] = "READY"], "lowered")
    BY <1>0, <1>a, <1>c, <1>e, <2>1, IdleIsTask, RunNextUrgent
  <2>2. CASE UNCHANGED <<state, cpu>> /\ ~ \E n \in Others : state[n] = "READY"
    <3>1. Range(task_q') \subseteq Tasks /\ cpu = Idle
      BY <1>0, <1>25, ElementOfSeq, LenProperties DEF Range, IdleLower, ContextOK, this
    <3>2. Prio(cpu)' <= Prio(cpu)'
      BY <2>2, <3>1, PriorityType DEF Prio
    <3> QED
      BY <2>2, <3>1, <3>2, IdleIsTask DEF UrgentFirst
  <2> QED
    BY <1>25, <2>1, <2>2 DEF IdleLower
<1>26. CASE IdleStart
  BY <1>26, <1>0, <1>b, <1>f DEF IdleStart, IdleLower, this
<1>27. ASSUME NEW d \in Tasks, CleanupFind(d) PROVE Goal
  BY <1>27, <1>0, <1>b, <1>f DEF CleanupFind, IdleLower, this
<1>28. CASE CleanupRemove
  <2>1. Range(task_q') \subseteq Range(task_q)
    BY <1>0, <1>28, RmFromQRange DEF CleanupRemove
  <2> QED
    BY <1>0, <1>28, <1>b, <1>f, <2>1 DEF CleanupRemove, IdleLower, this
<1>29. CASE Interrupt
  BY <1>0, <1>29 DEF Interrupt, UrgentFirst, this
<1>30. CASE TimerTic
  BY <1>0, <1>30 DEF TimerTic, Expire, UrgentFirst, this
<1>31. CASE IntRunEnd
  <2>1. PICK n \in Tasks :
           /\ IsNext(n, task_q, [state EXCEPT ![this] = "READY"])
           /\ IF Prio(this) > Prio(n)
              THEN /\ state' = [state EXCEPT ![this] = "READY", ![n] = "RUNNING"]
                   /\ cpu' = n
              ELSE /\ state' = [state EXCEPT ![this] = "RUNNING"]
                   /\ UNCHANGED cpu
    BY <1>31 DEF IntRunEnd, Reschedule
  <2>2. UNCHANGED task_q /\ SamePrio /\ Prios' = Prios
    BY <1>31, <1>b, PrioKept DEF IntRunEnd, IdleLower
  <2> DEFINE st == [state EXCEPT ![this] = "READY"]
  <2>3. ASSUME NEW t \in Range(task_q), state'[t] = "READY"
        PROVE  Prio(n) <= Prio(t)
    <3>1. st[t] = "READY"
      BY <1>0, <1>d, <2>1, <2>3 DEF this
    <3>2. Prios[n] <= Prios[t]
      BY <1>0, <1>a, <2>1, <2>2, <2>3, <3>1, NextIsUrgent
    <3> QED
      BY <1>d, <2>3, <3>2 DEF Prios
  <2>4. /\ \A t \in Tasks : Prios[t] = Prio(t) /\ Prios[t] \in Int
        /\ Prios' = Prios
    BY <2>2, PrioType DEF Prios
  <2>5. Prios[cpu'] <= Prios[n] /\ cpu' \in Tasks
    BY <1>0, <2>1, <2>4 DEF this
  <2>6. ASSUME NEW t \in Range(task_q'), state'[t] = "READY"
        PROVE  Prios'[cpu'] <= Prios'[t]
    <3>1. t \in Tasks /\ Prio(n) <= Prio(t)
      BY <1>d, <2>2, <2>3, <2>6
    <3> QED
      BY <2>4, <2>5, <3>1
  <2> QED
    BY <1>0, <2>5, <2>6, UrgentAgain
<1>32. CASE UNCHANGED vars
  BY <1>0, <1>32, <1>f DEF vars, SamePrio
<1> QED
  BY <1>1, <1>2, <1>3, <1>4, <1>5, <1>6, <1>7, <1>8, <1>9, <1>10, <1>11, <1>12,
     <1>13, <1>14, <1>15, <1>16, <1>17, <1>18, <1>19, <1>20, <1>21, <1>22, <1>23,
     <1>24, <1>25, <1>26, <1>27, <1>28, <1>29, <1>30, <1>31, <1>32
     DEF Next, Semaphores, Messages, Resumes, TaskCalls, WakeSteps, IdleSteps,
         Interrupts

(* In every system whose tasks leave task_wake() to the interrupt          *)
(* handlers, no ready task of the queue is more urgent than the one that   *)
(* runs its own code with interrupts enabled: every call and every handler *)
(* that makes a task ready gives it the processor if it should have it.    *)
THEOREM MostUrgentTaskRuns ==
  ASSUME NoTaskWakes
  PROVE  Spec => []MostUrgentRuns
<1> DEFINE IInv == /\ TypeOK /\ ContextOK /\ BootOK /\ QueueSorted
                   /\ NotWaking /\ RunningIsCurrent /\ UrgentFirst
<1>1. Init => IInv
  <2>1. Init => NotWaking /\ RunningIsCurrent
    BY DEF Init, NotWaking, RunningIsCurrent, WakePoints
  <2>2. Init => UrgentFirst
    BY IdleIsTask DEF Init, UrgentFirst, Range
  <2> QED
    BY <2>1, <2>2, InitType, QueueInit DEF TInv
<1>2. IInv /\ [Next]_vars => IInv'
  BY TypeStep, ContextStep, BootStep, SortedStep, OneRunningStep, UrgentStep DEF NoTaskWakes
<1>3. IInv => MostUrgentRuns
  BY DEF UrgentFirst, MostUrgentRuns
<1> QED
  BY <1>1, <1>2, <1>3, PTL DEF Spec

-----------------------------------------------------------------------------
(* The ends of tasks, where they are orderly.                              *)

Alive(t) == state[t] \in {"READY", "RUNNING"}

(* The current task and the idle task can always run; a task that may end  *)
(* has no timer running unless it waits, so that none brings it back; and  *)
(* task_cleanup() takes out of the queue only what has ended.              *)
EndOK ==
  /\ Alive(cpu) /\ Alive(Idle)
  /\ \A t \in Tasks :
        /\ pc[t] # "wild" /\ below[t] \notin {"exited", "wild"}
        /\ pc[t] = "exited" => state[t] = "DELETE"
        /\ state[t] = "DELETE" => MayEnd(t)
        /\ MayEnd(t) /\ timer_active[t] => state[t] = "WAITING"
        /\ MayBeDeleted(t) => ~timer_active[t]
        /\ "clean" \in {pc[t], below[t]} =>
              t = Idle /\ arg[t] \in Tasks /\ state[arg[t]] = "DELETE"

EndedStay == \A t \in Tasks : state[t] = "DELETE" => state'[t] = "DELETE"

(* A task that waits, sleeps or has ended switches to another task that is *)
(* ready, or to the idle task, ...                                         *)
LEMMA GivesUpCpu ==
  ASSUME NEW q, NEW st \in [Tasks -> TaskStates], NEW p, RunNext(q, st, p),
         cpu \in Tasks, this # Idle, st[this] # "READY"
  PROVE  \E n \in Tasks : /\ n # this /\ (n = Idle \/ st[n] = "READY") /\ cpu' = n
                          /\ state' = [st EXCEPT ![n] = "RUNNING"]
                          /\ pc' = [pc EXCEPT ![this] = p]
  BY DEF RunNext, IsNext, this

(* ... and so does one that made a more urgent task ready.                 *)
LEMMA PreemptSwitches ==
  ASSUME cpu \in Tasks, SamePrio,
         task_q' \in Seq(Tasks), Ordered(task_q', Prios'), Prios' \in [Tasks -> Int],
         NEW w \in Range(task_q'), NEW st \in [Tasks -> TaskStates], st[w] = "READY",
         Preempt(w, task_q', st)
  PROVE  \/ state' = st /\ UNCHANGED <<cpu, pc>>
         \/ \E n \in Tasks : /\ n # this /\ (n = Idle \/ st[n] = "READY") /\ cpu' = n
                             /\ state' = [st EXCEPT ![this] = "READY", ![n] = "RUNNING"]
                             /\ pc' = [pc EXCEPT ![this] = "switched"]
<1>1. CASE ~(Prio(this) > Prio(w))
  BY <1>1 DEF Preempt
<1>2. CASE Prio(this) > Prio(w)
  <2> DEFINE sr == [st EXCEPT ![this] = "READY"]
  <2>1. PICK n \in Tasks : /\ IsNext(n, task_q', sr) /\ cpu' = n
                           /\ state' = [sr EXCEPT ![n] = "RUNNING"]
                           /\ pc' = [pc EXCEPT ![this] = IF n = this THEN "wild" ELSE "switched"]
    BY <1>2 DEF Preempt, RunNext
  <2>2. w \in Tasks /\ this \in Tasks /\ sr[w] = "READY"
    BY ElementOfSeq, LenProperties DEF Range, this
  <2>3. Prios'[n] <= Prios'[w]
    BY <2>1, <2>2, NextIsUrgent
  <2>4. Prios'[w] < Prios'[this]
    BY <1>2, <2>2, PrioKept, PrioType DEF Prios
  <2>5. n # this
    BY <2>2, <2>3, <2>4
  <2>6. n = Idle \/ st[n] = "READY"
    BY <2>1, <2>2, <2>5 DEF IsNext
  <2> QED
    BY <2>1, <2>5, <2>6
<1> QED
  BY <1>1, <1>2

(* Every step keeps EndOK and QueueHolds, and brings no ended task back.   *)
LEMMA EndStep ==
  ASSUME OrderlyEnds, TypeOK, ContextOK, BootOK, QueueSorted, NotWaking,
         EndOK, QueueHolds, [Next]_vars
  PROVE  (EndOK /\ QueueHolds)' /\ EndedStay
<1>0. /\ task_q \in Seq(Tasks) /\ task_q' \in Seq(Tasks) /\ cpu \in Tasks
      /\ pc \in [Tasks -> Points] /\ below \in [Tasks -> Points]
      /\ state \in [Tasks -> TaskStates] /\ Idle \in Tasks
      /\ timer_active \in [Tasks -> BOOLEAN]
      /\ arg \in [Tasks -> Tasks \cup Sems \cup {NoId}]
  BY TypeStep, IdleIsTask DEF TypeOK
<1>a. /\ Ordered(task_q', Prios') /\ Prios' \in [Tasks -> Int]
      /\ IdleLower \/ SamePrio
  <2>1. QueueSorted'
    BY SortedStep
  <2>2. (task_q \in Seq(Tasks) => (QueueSorted <=> Ordered(task_q, Prios)))'
    BY SortedIsOrdered, PTL
  <2>3. (Prios \in [Tasks -> Int])'
    BY PrioType, PTL
  <2> QED
    BY <1>0, <2>1, <2>2, <2>3, BootStep
<1>b. /\ Calls[Idle] = {} /\ ~MayEnd(Idle)
      /\ \A t, d \in Tasks : <<"task_wake", d>> \notin Calls[t]
      /\ \A d \in Tasks : MayEnd(d) => ~MayBeSent(d)
      /\ \A d \in Tasks : MayBeDeleted(d) => TimedCalls(d) = {} /\ MayEnd(d)
  BY IdleIsTask DEF OrderlyEnds, NoTaskWakes, MayEnd
<1>c. /\ \A t \in Tasks : [state EXCEPT ![t] = "READY"] \in [Tasks -> TaskStates]
      /\ \A t \in Tasks : [state EXCEPT ![t] = "WAITING"] \in [Tasks -> TaskStates]
      /\ \A t \in Tasks : [state EXCEPT ![t] = "SLEEPING"] \in [Tasks -> TaskStates]
      /\ \A t \in Tasks : [state EXCEPT ![t] = "DELETE"] \in [Tasks -> TaskStates]
  BY <1>0 DEF TaskStates
<1>d. /\ pc[this] = "user" => irq[this] = 0 /\ below[this] = "user"
      /\ pc[this] \in {"boot", "sem_get", "msg_get", "delay", "sleep", "start", "lowered", "clean"}
           => below[this] = "user"
      /\ pc[this] = "boot" => this = Idle
  BY <1>0 DEF ContextOK, this
<1> DEFINE Goal == (EndOK /\ QueueHolds)' /\ EndedStay
<1> USE <1>0 DEF EndOK, QueueHolds, EndedStay, Alive, this, ctxVars, tcbVars, NotWaking, WakePoints
<1>1. ASSUME NEW s \in Sems, SemGive(s) PROVE Goal
  <2>1. UNCHANGED <<task_q, below, arg>> /\ SamePrio /\ pc[this] \in {"user", "isr"}
    BY <1>1, <1>a DEF SemGive, Caller, IdleLower
  <2>2. CASE Return /\ UNCHANGED timer_active
    BY <2>1, <2>2 DEF Return
  <2>3. ASSUME NEW w \in Tasks, IsFirstAwaiting(w, s), Grant(w),
               Preempt(w, task_q, [state EXCEPT ![w] = "READY"])
        PROVE  Goal
    <3>1. w \in Range(task_q') /\ state[w] = "WAITING" /\ w # cpu /\ w # Idle
      BY <2>1, <2>3 DEF IsFirstAwaiting, Awaits, Range
    <3>2. timer_active' = [timer_active EXCEPT ![w] = FALSE]
      BY <2>3 DEF Grant
    <3> DEFINE st == [state EXCEPT ![w] = "READY"]
    <3>3. st \in [Tasks -> TaskStates] /\ st[w] = "READY" /\ Preempt(w, task_q', st)
      BY <1>c, <2>1, <2>3
    <3>a. \A t \in Tasks : st[t] = IF t = w THEN "READY" ELSE state[t]
      OBVIOUS
    <3> HIDE DEF st
    <3>4. \/ state' = st /\ UNCHANGED <<cpu, pc>>
          \/ \E n \in Tasks : /\ n # this /\ (n = Idle \/ st[n] = "READY") /\ cpu' = n
                              /\ state' = [st EXCEPT ![this] = "READY", ![n] = "RUNNING"]
                              /\ pc' = [pc EXCEPT ![this] = "switched"]
      BY <1>a, <2>1, <3>1, <3>3, PreemptSwitches
    <3> QED
      <4>1. CASE state' = st /\ UNCHANGED <<cpu, pc>>
        BY <1>b, <2>1, <3>1, <3>2, <3>3, <3>a, <4>1
      <4>2. ASSUME NEW n \in Tasks, n # this, n = Idle \/ st[n] = "READY", cpu' = n,
                   state' = [st EXCEPT ![this] = "READY", ![n] = "RUNNING"],
                   pc' = [pc EXCEPT ![this] = "switched"]
            PROVE  Goal
        BY <1>b, <2>1, <3>1, <3>2, <3>3, <3>a, <4>2
      <4> QED
        BY <3>4, <4>1, <4>2
  <2> QED
    BY <1>1, <2>2, <2>3 DEF SemGive
<1>2. ASSUME NEW s \in Sems, NEW n \in Timeouts, SemGetNow(s, n) PROVE Goal
  BY <1>2, <1>b, <1>d DEF SemGetNow, Caller, Return
<1>3. ASSUME NEW s \in Sems, NEW n \in Timeouts, SemGetWait(s, n) PROVE Goal
  <2>0. <<"sem_get", s, n>> \in Calls[this] /\ this # Idle /\ pc[this] = "user"
    BY <1>3, <1>b DEF SemGetWait, TaskCaller
  <2>1. RunNext(task_q, [state EXCEPT ![this] = "WAITING"], "sem_get")
    BY <1>3 DEF SemGetWait, Block
  <2> DEFINE st == [state EXCEPT ![this] = "WAITING"]
  <2>a. st \in [Tasks -> TaskStates] /\ st[this] # "READY" /\ RunNext(task_q, st, "sem_get")
    BY <1>c, <2>1
  <2>b. \A t \in Tasks : st[t] = IF t = this THEN "WAITING" ELSE state[t]
    OBVIOUS
  <2> HIDE DEF st
  <2>2. PICK m \in Tasks : /\ m # this /\ (m = Idle \/ st[m] = "READY") /\ cpu' = m
                           /\ state' = [st EXCEPT ![m] = "RUNNING"]
                           /\ pc' = [pc EXCEPT ![this] = "sem_get"]
    BY <2>0, <2>a, GivesUpCpu
  <2>3. MayBeDeleted(this) => ~timer_active'[this]
    BY <1>3, <1>b, <2>0 DEF SemGetWait, TimedCalls, Timeouts, WAIT_FOREVER, DONT_WAIT
  <2>4. /\ UNCHANGED <<task_q, below>> /\ below[this] = "user"
        /\ \A t \in Tasks \ {this} : arg'[t] = arg[t] /\ timer_active'[t] = timer_active[t]
    BY <1>3, <1>d, <2>0 DEF SemGetWait, Block
  <2> QED
    BY <1>b, <2>0, <2>a, <2>b, <2>2, <2>3, <2>4
<1>4. ASSUME NEW n \in Timeouts, MsgGetNow(n) PROVE Goal
  BY <1>4, <1>b, <1>d DEF MsgGetNow, TaskCaller, Return
<1>5. ASSUME NEW n \in Timeouts, MsgGetWait(n) PROVE Goal
  <2>0. <<"msg_get", n>> \in Calls[this] /\ this # Idle /\ pc[this] = "user"
    BY <1>5, <1>b DEF MsgGetWait, TaskCaller
  <2>1. RunNext(task_q, [state EXCEPT ![this] = "WAITING"], "msg_get")
    BY <1>5 DEF MsgGetWait, Block
  <2> DEFINE st == [state EXCEPT ![this] = "WAITING"]
  <2>a. st \in [Tasks -> TaskStates] /\ st[this] # "READY" /\ RunNext(task_q, st, "msg_get")
    BY <1>c, <2>1
  <2>b. \A t \in Tasks : st[t] = IF t = this THEN "WAITING" ELSE state[t]
    OBVIOUS
  <2> HIDE DEF st
  <2>2. PICK m \in Tasks : /\ m # this /\ (m = Idle \/ st[m] = "READY") /\ cpu' = m
                           /\ state' = [st EXCEPT ![m] = "RUNNING"]
                           /\ pc' = [pc EXCEPT ![this] = "msg_get"]
    BY <2>0, <2>a, GivesUpCpu
  <2>3. MayBeDeleted(this) => ~timer_active'[this]
    BY <1>5, <1>b, <2>0 DEF MsgGetWait, TimedCalls, Timeouts, WAIT_FOREVER, DONT_WAIT
  <2>4. /\ UNCHANGED <<task_q, below>> /\ below[this] = "user"
        /\ \A t \in Tasks \ {this} : arg'[t] = arg[t] /\ timer_active'[t] = timer_active[t]
    BY <1>5, <1>d, <2>0 DEF MsgGetWait, Block
  <2> QED
    BY <1>b, <2>0, <2>a, <2>b, <2>2, <2>3, <2>4
<1>6. ASSUME NEW d \in Tasks, MsgSend(d) PROVE Goal
  <2>1. /\ UNCHANGED <<task_q, below, arg, timer_active>> /\ SamePrio
        /\ pc[this] \in {"user", "isr"} /\ ~MayEnd(d) /\ state[d] # "none"
    BY <1>6, <1>a, <1>b DEF MsgSend, Caller, IdleLower, MayBeSent
  <2>2. CASE Return
    BY <2>1, <2>2 DEF Return
  <2>3. CASE Preempt(d, task_q, [state EXCEPT ![d] = "READY"])
    <3>1. d \in Range(task_q') /\ state[d] # "DELETE"
      BY <2>1
    <3> DEFINE st == [state EXCEPT ![d] = "READY"]
    <3>3. st \in [Tasks -> TaskStates] /\ st[d] = "READY" /\ Preempt(d, task_q', st)
      BY <1>c, <2>1, <2>3
    <3>a. \A t \in Tasks : st[t] = IF t = d THEN "READY" ELSE state[t]
      OBVIOUS
    <3> HIDE DEF st
    <3>4. \/ state' = st /\ UNCHANGED <<cpu, pc>>
          \/ \E n \in Tasks : /\ n # this /\ (n = Idle \/ st[n] = "READY") /\ cpu' = n
                              /\ state' = [st EXCEPT ![this] = "READY", ![n] = "RUNNING"]
                              /\ pc' = [pc EXCEPT ![this] = "switched"]
      BY <1>a, <2>1, <3>1, <3>3, PreemptSwitches
    <3> QED
      BY <1>b, <2>1, <3>1, <3>3, <3>a, <3>4
  <2> QED
    BY <1>6, <2>2, <2>3 DEF MsgSend
<1>7. CASE SemGetResume
  BY <1>7, <1>b, <1>d DEF SemGetResume, Unblock
<1>8. CASE MsgGetResume
  BY <1>8, <1>b, <1>d DEF MsgGetResume, Unblock
<1>9. CASE TaskDelayResume
  BY <1>9, <1>b, <1>d DEF TaskDelayResume, Unblock
<1>10. CASE TaskSleepResume
  BY <1>10, <1>b, <1>d DEF TaskSleepResume
<1>11. CASE Switched
  BY <1>11, <1>b, <1>d DEF Switched
<1>12. CASE TaskStart
  BY <1>12, <1>b, <1>d DEF TaskStart
<1>13. CASE ReturnFromExit
  BY <1>13, <1>b, <1>d DEF ReturnFromExit
<1>14. ASSUME NEW d \in Tasks, TaskNew(d) PROVE Goal
  <2>1. /\ UNCHANGED <<below, arg, timer_active>> /\ SamePrio
        /\ pc[this] \in {"user", "boot"} /\ state[d] = "none" /\ d # this /\ d # Idle
        /\ Preempt(d, task_q', [state EXCEPT ![d] = "READY"])
    BY <1>14, <1>a DEF TaskNew, TaskCaller, IdleLower, BootOK
  <2>2. Range(task_q') = Range(task_q) \cup {d}
    BY <1>14, TaskNewOrder
  <2>3. Preempt(d, task_q', [state EXCEPT ![d] = "READY"])
    BY <2>1
  <2>4. Goal
    <3>1. d \in Range(task_q') /\ state[d] # "DELETE"
      BY <2>1, <2>2
    <3> DEFINE st == [state EXCEPT ![d] = "READY"]
    <3>3. st \in [Tasks -> TaskStates] /\ st[d] = "READY" /\ Preempt(d, task_q', st)
      BY <1>c, <2>1, <2>3
    <3>a. \A t \in Tasks : st[t] = IF t = d THEN "READY" ELSE state[t]
      OBVIOUS
    <3> HIDE DEF st
    <3>4. \/ state' = st /\ UNCHANGED <<cpu, pc>>
          \/ \E n \in Tasks : /\ n # this /\ (n = Idle \/ st[n] = "READY") /\ cpu' = n
                              /\ state' = [st EXCEPT ![this] = "READY", ![n] = "RUNNING"]
                              /\ pc' = [pc EXCEPT ![this] = "switched"]
      BY <1>a, <2>1, <3>1, <3>3, PreemptSwitches
    <3> QED
      <4>1. CASE state' = st /\ UNCHANGED <<cpu, pc>>
        BY <1>b, <2>1, <2>2, <3>1, <3>3, <3>a, <4>1
      <4>2. ASSUME NEW n \in Tasks, n # this, n = Idle \/ st[n] = "READY", cpu' = n,
                   state' = [st EXCEPT ![this] = "READY", ![n] = "RUNNING"],
                   pc' = [pc EXCEPT ![this] = "switched"]
            PROVE  Goal
        BY <1>b, <2>1, <2>2, <3>1, <3>3, <3>a, <4>2
      <4> QED
        BY <3>4, <4>1, <4>2
  <2> QED
    BY <2>4
<1>15. ASSUME NEW d \in Tasks, TaskDelete(d) PROVE Goal
  <2>1. <<"task_delete", d>> \in Calls[this] /\ d # this /\ d # Idle
    BY <1>15, <1>b DEF TaskDelete, TaskCaller, MayBeDeleted, MayEnd
  <2>2. MayBeDeleted(d) /\ MayEnd(d)
    BY <2>1 DEF MayBeDeleted, MayEnd
  <2> QED
    BY <1>15, <2>1, <2>2 DEF TaskDelete
<1>16. ASSUME NEW d \in Tasks, TaskWake(d) PROVE Goal
  BY <1>16, <1>b, <1>d DEF TaskWake, WakeStep
<1>17. ASSUME NEW d \in Tasks, TaskWakeIsr(d) PROVE Goal
  <2>1. /\ UNCHANGED <<task_q, below, arg, timer_active>> /\ SamePrio
        /\ pc[this] = "isr" /\ d # this /\ state[d] = "SLEEPING"
    BY <1>17, <1>a DEF TaskWakeIsr, CanWake, IdleLower
  <2>2. CASE UNCHANGED <<cpu, pc>> /\ state' = [state EXCEPT ![d] = "READY"]
    BY <1>b, <2>1, <2>2
  <2>3. CASE Preempt(d, task_q, [state EXCEPT ![d] = "READY"])
    <3>1. d \in Range(task_q') /\ state[d] # "DELETE"
      BY <2>1
    <3> DEFINE st == [state EXCEPT ![d] = "READY"]
    <3>3. st \in [Tasks -> TaskStates] /\ st[d] = "READY" /\ Preempt(d, task_q', st)
      BY <1>c, <2>1, <2>3
    <3>a. \A t \in Tasks : st[t] = IF t = d THEN "READY" ELSE state[t]
      OBVIOUS
    <3> HIDE DEF st
    <3>4. \/ state' = st /\ UNCHANGED <<cpu, pc>>
          \/ \E n \in Tasks : /\ n # this /\ (n = Idle \/ st[n] = "READY") /\ cpu' = n
                              /\ state' = [st EXCEPT ![this] = "READY", ![n] = "RUNNING"]
                              /\ pc' = [pc EXCEPT ![this] = "switched"]
      BY <1>a, <2>1, <3>1, <3>3, PreemptSwitches
    <3> QED
      BY <1>b, <2>1, <3>1, <3>3, <3>a, <3>4
  <2> QED
    BY <1>17, <2>2, <2>3 DEF TaskWakeIsr
<1>18. ASSUME NEW n \in 0..MaxTics, TaskDelay(n) PROVE Goal
  <2>0. <<"task_delay", n>> \in Calls[this] /\ this # Idle /\ pc[this] = "user"
    BY <1>18, <1>b DEF TaskDelay, TaskCaller
  <2>1. RunNext(task_q, [state EXCEPT ![this] = "WAITING"], "delay")
    BY <1>18 DEF TaskDelay, Block
  <2> DEFINE st == [state EXCEPT ![this] = "WAITING"]
  <2>a. st \in [Tasks -> TaskStates] /\ st[this] # "READY" /\ RunNext(task_q, st, "delay")
    BY <1>c, <2>1
  <2>b. \A t \in Tasks : st[t] = IF t = this THEN "WAITING" ELSE state[t]
    OBVIOUS
  <2> HIDE DEF st
  <2>2. PICK m \in Tasks : /\ m # this /\ (m = Idle \/ st[m] = "READY") /\ cpu' = m
                           /\ state' = [st EXCEPT ![m] = "RUNNING"]
                           /\ pc' = [pc EXCEPT ![this] = "delay"]
    BY <2>0, <2>a, GivesUpCpu
  <2>3. MayBeDeleted(this) => ~timer_active'[this]
    BY <1>18, <1>b, <2>0 DEF TaskDelay, TimedCalls
  <2>4. /\ UNCHANGED <<task_q, below>> /\ below[this] = "user"
        /\ \A t \in Tasks \ {this} : arg'[t] = arg[t] /\ timer_active'[t] = timer_active[t]
    BY <1>18, <1>d, <2>0 DEF TaskDelay, Block
  <2> QED
    BY <1>b, <2>0, <2>a, <2>b, <2>2, <2>3, <2>4
<1>19. CASE TaskSleep
  <2>0. <<"task_sleep">> \in Calls[this] /\ this # Idle /\ pc[this] = "user"
    BY <1>19, <1>b DEF TaskSleep, TaskCaller
  <2>1. RunNext(task_q, [state EXCEPT ![this] = "SLEEPING"], "sleep")
    BY <1>19 DEF TaskSleep
  <2> DEFINE st == [state EXCEPT ![this] = "SLEEPING"]
  <2>a. st \in [Tasks -> TaskStates] /\ st[this] # "READY" /\ RunNext(task_q, st, "sleep")
    BY <1>c, <2>1
  <2>b. \A t \in Tasks : st[t] = IF t = this THEN "SLEEPING" ELSE state[t]
    OBVIOUS
  <2> HIDE DEF st
  <2>2. PICK m \in Tasks : /\ m # this /\ (m = Idle \/ st[m] = "READY") /\ cpu' = m
                           /\ state' = [st EXCEPT ![m] = "RUNNING"]
                           /\ pc' = [pc EXCEPT ![this] = "sleep"]
    BY <2>0, <2>a, GivesUpCpu
  <2> QED
    BY <1>19, <1>b, <1>d, <2>0, <2>a, <2>b, <2>2 DEF TaskSleep
<1>20. CASE TaskExit
  <2>0. <<"exit">> \in Calls[this] /\ this # Idle /\ pc[this] = "user"
    BY <1>20, <1>b DEF TaskExit, TaskCaller
  <2>1. RunNext(task_q, [state EXCEPT ![this] = "DELETE"], "exited")
    BY <1>20 DEF TaskExit
  <2> DEFINE st == [state EXCEPT ![this] = "DELETE"]
  <2>a. st \in [Tasks -> TaskStates] /\ st[this] # "READY" /\ RunNext(task_q, st, "exited")
    BY <1>c, <2>1
  <2>b. \A t \in Tasks : st[t] = IF t = this THEN "DELETE" ELSE state[t]
    OBVIOUS
  <2> HIDE DEF st
  <2>2. PICK m \in Tasks : /\ m # this /\ (m = Idle \/ st[m] = "READY") /\ cpu' = m
                           /\ state' = [st EXCEPT ![m] = "RUNNING"]
                           /\ pc' = [pc EXCEPT ![this] = "exited"]
    BY <2>0, <2>a, GivesUpCpu
  <2> QED
    BY <1>20, <1>b, <1>d, <2>0, <2>a, <2>b, <2>2 DEF TaskExit, MayEnd
<1>21. CASE WakeSet
  BY <1>21, <1>b, <1>d DEF WakeSet, WakeStep
<1>22. CASE WakeCompare
  BY <1>22, <1>b, <1>d DEF WakeCompare, WakeStep
<1>23. CASE WakeRunNext
  BY <1>23, <1>b, <1>d DEF WakeRunNext, WakeStep
<1>24. CASE WakeSwitch
  BY <1>24, <1>b, <1>d DEF WakeSwitch, WakeStep
<1>25. CASE IdleLower
  <2>1. /\ Range(task_q') = Range(task_q) /\ this = Idle /\ pc[Idle] = "boot"
        /\ below[Idle] = "user" /\ UNCHANGED <<below, arg, timer_active>>
    BY <1>25, <1>d, IdleLowerOrder DEF IdleLower
  <2>2. CASE UNCHANGED <<state, cpu>> /\ pc' = [pc EXCEPT ![Idle] = "user"]
    BY <2>1, <2>2
  <2>3. ASSUME NEW w \in Others, state[w] = "READY",
               RunNext(task_q', [state EXCEPT ![Idle] = "READY"], "lowered")
        PROVE  Goal
    <3> DEFINE st == [state EXCEPT ![Idle] = "READY"]
    <3>1. PICK n \in Tasks : /\ IsNext(n, task_q', st) /\ cpu' = n
                             /\ state' = [st EXCEPT ![n] = "RUNNING"]
                             /\ pc' = [pc EXCEPT ![this] = IF n = this THEN "wild" ELSE "lowered"]
      BY <2>3 DEF RunNext
    <3>2. w \in Tasks /\ w # Idle /\ w \in Range(task_q') /\ st[w] = "READY"
      BY <2>1, <2>3, KernelAssumption DEF Tasks
    <3>3. Prios'[n] <= Prios'[w]
      BY <1>a, <3>1, <3>2, NextIsUrgent
    <3>4. Prios'[w] < Prios'[Idle]
      <4>1. pc'[Idle] # "boot"
        BY <2>1, <3>1
      <4> QED
        BY <3>2, <4>1, PriorityType DEF Prios, Prio
    <3>5. n # Idle /\ st[n] = "READY"
      BY <3>1, <3>2, <3>3, <3>4, <1>a DEF IsNext
    <3> QED
      BY <1>b, <2>1, <3>1, <3>5
  <2> QED
    BY <1>25, <2>2, <2>3 DEF IdleLower
<1>26. CASE IdleStart
  BY <1>26, <1>b, <1>d DEF IdleStart
<1>27. ASSUME NEW d \in Tasks, CleanupFind(d) PROVE Goal
  <2>1. below[Idle] = "user" /\ this = Idle
    BY <1>27, <1>d DEF CleanupFind
  <2> QED
    BY <1>27, <2>1 DEF CleanupFind
<1>28. CASE CleanupRemove
  <2>1. /\ pc[this] = "clean" /\ this = Idle /\ state[arg[this]] = "DELETE"
        /\ Range(task_q') = Range(task_q) \ {arg[this]}
    BY <1>28, CleanupOrder DEF CleanupRemove
  <2> QED
    BY <1>28, <1>d, <2>1 DEF CleanupRemove
<1>29. CASE Interrupt
  BY <1>29, <1>b, <1>d DEF Interrupt
<1>30. CASE TimerTic
  <2>1. /\ UNCHANGED <<task_q, cpu, below, arg>>
        /\ pc' = [pc EXCEPT ![this] = "tic_done"]
        /\ timer_active' = [t \in Tasks |-> timer_active[t] /\ ~Pops(t)]
        /\ state' = [t \in Tasks |-> IF Pops(t) THEN "READY" ELSE state[t]]
        /\ \A t \in Tasks : Pops(t) => timer_active[t] /\ t \in Range(task_q)
    BY <1>30 DEF TimerTic, Expire, Pops, Counting
  <2> HIDE DEF Pops
  <2> QED
    BY <1>b, <2>1
<1>31. CASE IntRunEnd
  <2>1. PICK n \in Tasks :
           /\ n = Idle \/ n = this \/ state[n] = "READY"
           /\ \/ /\ state' = [state EXCEPT ![this] = "READY", ![n] = "RUNNING"]
                 /\ cpu' = n
              \/ /\ state' = [state EXCEPT ![this] = "RUNNING"]
                 /\ UNCHANGED cpu
    BY <1>31 DEF IntRunEnd, Reschedule, IsNext
  <2>2. /\ UNCHANGED <<task_q, arg, timer_active>>
        /\ pc' = [pc EXCEPT ![this] = IF irq[this] = 1 THEN below[this] ELSE "isr"]
        /\ below' = IF irq[this] = 1 THEN [below EXCEPT ![this] = "user"] ELSE below
    BY <1>31 DEF IntRunEnd
  <2>3. /\ state[this] \in {"READY", "RUNNING"}
        /\ MayEnd(this) => ~timer_active[this]
        /\ pc'[this] \in {"isr", below[this]} /\ below'[this] \in {"user", below[this]}
    BY <2>2
  <2>4. \A t \in Tasks \ {this} : pc'[t] = pc[t] /\ below'[t] = below[t]
    BY <2>2
  <2>5. EndedStay /\ QueueHolds' /\ Alive(cpu)' /\ Alive(Idle)'
    BY <1>b, <2>1, <2>2
  <2>6. ASSUME NEW t \in Tasks PROVE MayEnd(t) /\ timer_active'[t] => state'[t] = "WAITING"
    BY <1>b, <2>1, <2>2, <2>6
  <2>7. \A t \in Tasks : state'[t] = "DELETE" => state[t] = "DELETE"
    BY <2>1
  <2> QED
    BY <2>2, <2>3, <2>4, <2>5, <2>6, <2>7
<1>32. CASE UNCHANGED vars
  BY <1>32, <1>b, <1>d DEF vars
<1> QED
  BY <1>1, <1>2, <1>3, <1>4, <1>5, <1>6, <1>7, <1>8, <1>9, <1>10, <1>11, <1>12,
     <1>13, <1>14, <1>15, <1>16, <1>17, <1>18, <1>19, <1>20, <1>21, <1>22, <1>23,
     <1>24, <1>25, <1>26, <1>27, <1>28, <1>29, <1>30, <1>31, <1>32
     DEF Next, Semaphores, Messages, Resumes, TaskCalls, WakeSteps, IdleSteps,
         Interrupts

LEMMA EndInit == ASSUME OrderlyEnds, Init PROVE EndOK
  BY IdleIsTask DEF Init, EndOK, Alive

(* The invariant of the systems whose tasks end in an orderly way.         *)
LifeInv == /\ TypeOK /\ ContextOK /\ BootOK /\ QueueSorted
           /\ NotWaking /\ RunningIsCurrent /\ EndOK /\ QueueHolds

LEMMA LifeInvariant ==
  ASSUME OrderlyEnds
  PROVE  Spec => [](LifeInv /\ QueueOrder /\ NeverWild) /\ DeletedStaysDeleted
<1>1. Init => LifeInv
  <2>1. Init => NotWaking /\ RunningIsCurrent
    BY DEF Init, NotWaking, RunningIsCurrent, WakePoints
  <2> QED
    BY <2>1, InitType, QueueInit, EndInit DEF TInv, LifeInv
<1>2. LifeInv /\ [Next]_vars => LifeInv' /\ EndedStay
  BY TypeStep, ContextStep, BootStep, SortedStep, OneRunningStep, EndStep
     DEF OrderlyEnds, NoTaskWakes, LifeInv
<1>3. LifeInv => QueueOrder /\ NeverWild
  BY DEF QueueOrder, NeverWild, EndOK, LifeInv
<1>4. EndedStay => [\A t \in Tasks : state[t] = "DELETE" => state'[t] = "DELETE"]_vars
  BY DEF EndedStay
<1> QED
  BY <1>1, <1>2, <1>3, <1>4, PTL DEF Spec, DeletedStaysDeleted

(* Where tasks end in an orderly way, the queue holds every task that      *)
(* exists and has not ended: task_cleanup(), which checks a task's state   *)
(* before it disables interrupts and not again, removes only ended ones.   *)
THEOREM QueueComplete ==
  ASSUME OrderlyEnds
  PROVE  Spec => []QueueOrder
  BY LifeInvariant, PTL

(* There, nothing ever runs on a stack that was left for good: no task     *)
(* switches to itself, and none that has ended is switched in again.       *)
THEOREM StacksAreLive ==
  ASSUME OrderlyEnds
  PROVE  Spec => []NeverWild
  BY LifeInvariant, PTL

(* There, a task that has ended or was deleted stays so.  (The run         *)
(* KernelDeleted shows that one deleted in a timed call comes back.)       *)
THEOREM DeletedForGood ==
  ASSUME OrderlyEnds
  PROVE  Spec => DeletedStaysDeleted
  BY LifeInvariant, PTL
=============================================================================
