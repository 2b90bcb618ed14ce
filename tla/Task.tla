-------------------------------- MODULE Task --------------------------------
(***************************************************************************)
(* Tasks and their scheduling (kernel/task.c, and the types of kernel.h).  *)
(* This module declares the state of the whole kernel, on one processor.   *)
(* The API calls are in TaskApi, Sem and Msgs, the interrupts in Int, and  *)
(* Kernel puts them together.                                              *)
(*                                                                         *)
(* Code that runs with interrupts disabled, up to the point where it       *)
(* switches to another task, is one action.  What a task does when it is   *)
(* switched back in is another.  Code that runs with interrupts enabled    *)
(* is split wherever an interrupt can tell.  The messages themselves, the  *)
(* memory of the TCBs and the list of timers are left to other modules.    *)
(*                                                                         *)
(* A definition whose name ends in _Bug is a faulty variant of the next    *)
(* one.  No behaviour uses it: it is there to see a property notice it.    *)
(***************************************************************************)
EXTENDS Integers, Sequences, FiniteSets, SequencesExt

CONSTANTS
  Idle,       \* the idle task
  Others,     \* every other task that is ever created
  Priority,   \* each task's priority: 0 is the most urgent
  BootTasks,  \* the tasks bsp_post_init() creates
  Sems,       \* the semaphores
  CountMax,   \* sem_new()'s count_max, by semaphore
  CountInit,  \* sem_new()'s count_now, by semaphore
  MaxMsgs,    \* task_new()'s max_msgs, by task
  MaxTics,    \* bound on the finite time-outs that callers pass
  Wrap,       \* 2^w for the width w of a usys: unsigned arithmetic is % Wrap
  MaxNest,    \* bound on interrupts taken within interrupts
  Calls,      \* the API calls each task's code may make
  IsrCalls    \* the API calls the interrupt handlers may make

Tasks == Others \cup {Idle}

WAIT_FOREVER == -1
DONT_WAIT    == 0
Timeouts     == {WAIT_FOREVER} \cup 0..MaxTics
NoId         == "no_id"     \* wait_id = 0
Lowest       == Wrap - 1    \* priority -1, as an unsigned number

TaskStates == {"none", "RUNNING", "READY", "WAITING", "SLEEPING", "DELETE"}

(* Where a task continues when it has the processor.                       *)
Points == {"start", "user", "isr", "tic_done", "switched", "boot", "lowered",
           "sem_get", "msg_get", "delay", "sleep", "exited", "clean",
           "wake_set", "wake_cmp", "wake_run", "wake_switch", "wild"}

ASSUME KernelAssumption ==
  /\ Idle \notin Others /\ IsFiniteSet(Others)
  /\ NoId \notin Sems
  /\ Wrap \in Nat /\ MaxTics \in Nat /\ MaxTics < Wrap - 1 
  /\ Priority \in [Tasks -> 0..(Wrap - 2)] /\ Priority[Idle] = 0
  /\ BootTasks \subseteq Others
  /\ CountMax \in [Sems -> Nat] /\ CountInit \in [Sems -> Nat]
  /\ \A s \in Sems : CountInit[s] <= CountMax[s] /\ CountMax[s] < Wrap
  /\ MaxMsgs \in [Tasks -> Nat] /\ \A t \in Tasks : MaxMsgs[t] < Wrap
  /\ MaxNest \in Nat \ {0}

VARIABLES
  task_q,       \* kernel.task_q, the TCBs in list order
  state,        \* tcb_t.state ("none": not created yet)
  cpu,          \* the task whose stack the processor is on
  pc,           \* where each task is, or will continue
  below,        \* where it was interrupted, while irq > 0
  irq,          \* interrupts being handled on each task's stack
  arg,          \* the id a call under way was given (NoId: none)
  ints,         \* the interrupt flag: live for cpu, saved for the others
  int_mode,     \* kernel.int_mode
  timer_active, time_count, time_out,    \* tcb_t
  got_resource, wait_id,                 \* tcb_t
  count_now,    \* sem_t.count_now
  num_msgs,     \* msg_box_t.num_msgs
  tokens,       \* history: initial count + GOOD gives - GOOD gets
  patience,     \* history: the time-out each blocked task asked for
  waited        \* history: the tics since then, counted up to MaxTics

ctxVars  == <<below, irq, arg>>
tcbVars  == <<timer_active, time_count, time_out, got_resource, wait_id>>
objVars  == <<count_now, num_msgs, tokens>>
histVars == <<patience, waited>>
vars     == <<task_q, state, cpu, pc, ctxVars, ints, int_mode, tcbVars,
              objVars, histVars>>

-----------------------------------------------------------------------------
(* Scheduling.                                                             *)

this == cpu     \* task_id_get(): the task that owns the stack in use

(* The idle task runs at priority 0 until all of the system is created.    *)
Prio(t) == IF t = Idle /\ pc[Idle] # "boot" THEN Lowest ELSE Priority[t]

(* task_ready_get(): the first ready TCB, or else the idle task, whatever  *)
(* its own state.                                                          *)
IsNext_Bug(n, q, st) ==
  \/ \E i \in DOMAIN q : /\ q[i] = n /\ st[n] \notin {"WAITING", "SLEEPING"}
                         /\ \A j \in 1..(i - 1) : st[q[j]] \in {"WAITING", "SLEEPING"}
  \/ n = Idle /\ \A i \in DOMAIN q : st[q[i]] \in {"WAITING", "SLEEPING"}
IsNext(n, q, st) ==
  \/ \E i \in DOMAIN q : /\ q[i] = n /\ st[n] = "READY"
                         /\ \A j \in 1..(i - 1) : st[q[j]] # "READY"
  \/ n = Idle /\ \A i \in DOMAIN q : st[q[i]] # "READY"

(* task_run_next(): st already holds the state the caller gave itself, and *)
(* resume is where the caller will continue.  A task switched to itself    *)
(* restores the stack pointer saved at its previous switch: what it runs   *)
(* from then on is undefined.                                              *)
RunNext(q, st, resume) ==
  \E n \in Tasks :
     /\ IsNext(n, q, st)
     /\ state' = [st EXCEPT ![n] = "RUNNING"]
     /\ cpu' = n
     /\ pc' = [pc EXCEPT ![this] = IF n = this THEN "wild" ELSE resume]

(* if (this.priority > t.priority) this.state = READY, task_run_next()     *)
PreemptNever_Bug(t, q, st) == /\ state' = st
                              /\ ints' = [ints EXCEPT ![this] = ~int_mode]
                              /\ UNCHANGED <<cpu, pc>>
PreemptRunning_Bug(t, q, st) ==
  IF Prio(this) > Prio(t)
  THEN /\ RunNext(q, st, "switched")
       /\ ints' = [ints EXCEPT ![this] = FALSE]
  ELSE /\ state' = st
       /\ ints' = [ints EXCEPT ![this] = ~int_mode]
       /\ UNCHANGED <<cpu, pc>>
Preempt(t, q, st) ==
  IF Prio(this) > Prio(t)
  THEN /\ RunNext(q, [st EXCEPT ![this] = "READY"], "switched")
       /\ ints' = [ints EXCEPT ![this] = FALSE]
  ELSE /\ state' = st
       /\ ints' = [ints EXCEPT ![this] = ~int_mode]
       /\ UNCHANGED <<cpu, pc>>

(* The end of a call that did not switch: interrupts are enabled again     *)
(* unless kernel.int_mode says that this is an interrupt.                  *)
Return_Bug == /\ ints' = [ints EXCEPT ![this] = FALSE]
              /\ UNCHANGED <<state, cpu, pc>>
Return == /\ ints' = [ints EXCEPT ![this] = ~int_mode]
          /\ UNCHANGED <<state, cpu, pc>>

(* task_add_to_q(): before the first TCB whose priority number is larger   *)
(* than p, the priority of t.                                              *)
AddToQ_Bug(q, t, p) == task_q' = Append(q, t)
AddToQ(q, t, p) ==
  \E i \in 0..Len(q) :
     /\ \A j \in 1..i : Prio(q[j]) <= p
     /\ i < Len(q) => Prio(q[i + 1]) > p
     /\ task_q' = InsertAt(q, i + 1, t)

(* task_rm_from_q(): its callers pass a TCB that is linked.                *)
RmFromQ(t) == \E i \in DOMAIN task_q : /\ task_q[i] = t
                                       /\ task_q' = RemoveAt(task_q, i)

(* task_awaiting(): the first task that waits for semaphore s.             *)
AwaitsUntimed_Bug(t, s) == state[t] = "WAITING" /\ wait_id[t] = s /\ ~timer_active[t]
AwaitsAny_Bug(t, s) == wait_id[t] = s
Awaits(t, s) == state[t] = "WAITING" /\ wait_id[t] = s
IsFirstAwaiting_Bug(w, s) ==
  \E i \in DOMAIN task_q :
     /\ task_q[i] = w /\ Awaits(w, s)
     /\ \A j \in (i + 1)..Len(task_q) : ~Awaits(task_q[j], s)
IsFirstAwaiting(w, s) ==
  \E i \in DOMAIN task_q :
     /\ task_q[i] = w /\ Awaits(w, s)
     /\ \A j \in 1..(i - 1) : ~Awaits(task_q[j], s)

(* A call is made by the running task's code, or by the handler of the     *)
(* interrupt that is being served on its stack.                            *)
Caller(op) == \/ pc[this] = "user" /\ op \in Calls[this]
              \/ pc[this] = "isr"  /\ op \in IsrCalls
TaskCaller(op) == pc[this] = "user" /\ op \in Calls[this]

(* The tokens history, which stops counting where the difference between   *)
(* gives and gets is certainly wrong.                                      *)
Credit(s) == tokens' = [tokens EXCEPT ![s] =
               IF @ < CountMax[s] + Cardinality(Tasks) THEN @ + 1 ELSE @]
Debit(s)  == tokens' = [tokens EXCEPT ![s] = IF @ >= 0 THEN @ - 1 ELSE @]

(* The call blocks for n tics: what it keeps on its stack, its histories,  *)
(* and the interrupt flag that the switch saves.                           *)
Block(n, id, resume) ==
  /\ RunNext(task_q, [state EXCEPT ![this] = "WAITING"], resume)
  /\ ints' = [ints EXCEPT ![this] = FALSE]
  /\ arg' = [arg EXCEPT ![this] = id]
  /\ patience' = [patience EXCEPT ![this] = n]
  /\ waited' = [waited EXCEPT ![this] = 0]

(* A call that blocked returns to its caller, with the interrupts on or    *)
(* off.                                                                    *)
Unblock(enable) ==
  /\ pc' = [pc EXCEPT ![this] = "user"]
  /\ ints' = [ints EXCEPT ![this] = enable]
  /\ arg' = [arg EXCEPT ![this] = NoId]
  /\ patience' = [patience EXCEPT ![this] = DONT_WAIT]
  /\ waited' = [waited EXCEPT ![this] = 0]

(* Did a call that has been switched back in see its time run out?         *)
TimedOut(t) == ~got_resource[t] /\ time_out[t]

-----------------------------------------------------------------------------
(* Points where a task goes on that are not an API call's own.             *)

(* The end of sem_give(), msg_send() and task_new(), after task_run_next() *)
(* has come back: in the caller's code or in its interrupt handler.        *)
Switched ==
  /\ pc[this] = "switched"
  /\ pc' = [pc EXCEPT ![this] = IF irq[this] > 0 THEN "isr" ELSE "user"]
  /\ ints' = [ints EXCEPT ![this] = ~int_mode]
  /\ UNCHANGED <<task_q, state, cpu, ctxVars, int_mode, tcbVars, objVars,
                 histVars>>

(* task_start() up to the call of the task's own code.                     *)
TaskStart ==
  /\ pc[this] = "start"
  /\ pc' = [pc EXCEPT ![this] = "user"]
  /\ ints' = [ints EXCEPT ![this] = TRUE]
  /\ UNCHANGED <<task_q, state, cpu, ctxVars, int_mode, tcbVars, objVars,
                 histVars>>

(* task_start() once the task's code has returned.  Nothing follows the    *)
(* last task_run_next(): a task that is switched in again here is lost.    *)
TaskExit ==
  /\ TaskCaller(<<"exit">>)
  /\ RunNext(task_q, [state EXCEPT ![this] = "DELETE"], "exited")
  /\ ints' = [ints EXCEPT ![this] = FALSE]
  /\ UNCHANGED <<task_q, ctxVars, int_mode, tcbVars, objVars, histVars>>

ReturnFromExit ==
  /\ pc[this] = "exited"
  /\ pc' = [pc EXCEPT ![this] = "wild"]
  /\ UNCHANGED <<task_q, state, cpu, ctxVars, ints, int_mode, tcbVars,
                 objVars, histVars>>
=============================================================================
