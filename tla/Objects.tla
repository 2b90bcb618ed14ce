------------------------------ MODULE Objects -------------------------------
(***************************************************************************)
(* The memory of the kernel's objects: malloc(), sem_new(), timer_new(),   *)
(* the memory that task_new() and msgbox_init() take, int_config(), and    *)
(* the calls on timers, made by two tasks while the clock runs.  The more  *)
(* urgent task, once an interrupt has let it in, keeps the processor until *)
(* its calls are over, and the clock's handler comes in between any two    *)
(* steps of either.                                                        *)
(***************************************************************************)
EXTENDS Timer

CONSTANTS
  Low, High,   \* the two tasks
  Budget,      \* bound on the calls each task makes
  SizeOf,      \* sizeof (sem_t), (timer_t), (msg_box_t), and a TCB with its stack
  MallocSizes, \* what tasks ask malloc() for
  BufSizes,    \* max_msgs * (sizeof (msg_t) + max_size), for the boxes made
  TimerKinds,  \* the arguments of timer_new()
  BootTimers,  \* those of the calls that the idle task made, in order
  MaxInts,     \* kernel.max_ints: how many handlers usr_isr[] has room for
  TimerCalls   \* which of start, stop and delete the tasks call

(* The arguments of timer_new() that matter.                               *)
TimerArgs == [tics : 0..(Wrap - 1), type : {"ONESHOT", "PERIODIC"},
              func : {"none", "start", "stop", "delete"}]

Kinds == {"sem", "timer", "task", "box"}

ASSUME ObjectsAssumption ==
  /\ Callers = {Low, High} /\ Low # High
  /\ Budget \in [Callers -> Nat]
  /\ SizeOf \in [Kinds -> Nat \ {0}] /\ MallocSizes \subseteq Nat
  /\ BufSizes \subseteq Nat /\ MaxInts \in Nat \ {0}
  /\ SizeOf["timer"] % W = 0
  /\ TimerKinds \subseteq TimerArgs /\ BootTimers \subseteq Seq(TimerArgs)

VARIABLES
  sems,      \* the addresses on the list kernel.sems, the newest first
  tasks,     \* the tasks made: the addresses of their TCB, box and buffer
  usr_isr,   \* kernel.usr_isr[]: which interrupts have a handler
  astray,    \* history: int_config() wrote past the end of usr_isr[]
  cleared,   \* history: the boxes that msgbox_init() set msg_buf of as it failed
  left       \* what is left of the bound Budget

objectVars == <<sems, tasks, usr_isr, astray, cleared>>
vars == <<callVars, memVars, timerVars, objectVars, left>>

(* The idle task makes timers at start-up, before anything interrupts it.  *)
BootList(made) ==
  LET size    == SizeOf["timer"]
      addr(i) == IF i = 0 THEN NULL ELSE mem_start + (i - 1) * size
      n       == Len(made)
  IN  /\ n * size <= mem_size
      /\ mem_free_loc = mem_start + n * size
      /\ mem_free_size = mem_size - n * size
      /\ blocks = [i \in 1..n |-> [loc |-> addr(i), len |-> size, use |-> "timer"]]
      /\ timers = addr(n)
      /\ timer = [a \in {addr(i) : i \in 1..n} |->
                    LET i == CHOOSE j \in 1..n : addr(j) = a
                    IN  TimerT(a, made[i], addr(i - 1))]

Init == /\ \E h \in Heaps : MemInit(h[1], h[2])
        /\ \E made \in BootTimers : BootList(made)
        /\ req = [c \in Callers |-> NoReq] /\ torn = FALSE
        /\ handler = FALSE /\ walk = NULL
        /\ doubled = FALSE /\ missed = {}
        /\ at = [c \in Callers |-> "user"]
        /\ op = [c \in Callers |-> NULL]
        /\ sems = <<>> /\ tasks = {}
        /\ usr_isr = [n \in 0..(MaxInts - 1) |-> FALSE] /\ astray = FALSE
        /\ cleared = {}
        /\ left = Budget

-----------------------------------------------------------------------------
(* A call that makes an object: the memory it takes, one malloc() after    *)
(* the other, and what it does when it has it all.                         *)
Part(use, n) == [use |-> use, len |-> n]

Begin(c, call, todo, with) ==
  /\ at[c] = "user"
  /\ at' = [at EXCEPT ![c] = "make"]
  /\ op' = [op EXCEPT ![c] = [call |-> call, todo |-> todo, with |-> with,
                              got |-> <<>>]]
  /\ UNCHANGED <<memVars, timerVars, objectVars>>

(* msgbox_init() takes no buffer for a box of no messages.                 *)
Create(c) ==
  \/ \E n \in MallocSizes : Begin(c, "malloc", <<Part("user", n)>>, NULL)
  \/ Begin(c, "sem_new", <<Part("sem", SizeOf["sem"])>>, NULL)
  \/ \E k \in TimerKinds :
        Begin(c, "timer_new", <<Part("timer", SizeOf["timer"])>>, k)
  \/ \E n \in BufSizes :
        Begin(c, "task_new",
              <<Part("task", SizeOf["task"]), Part("box", SizeOf["box"])>> \o
              (IF n = 0 THEN <<>> ELSE <<Part("buf", n)>>), n)

Got(c, loc) == op' = [op EXCEPT ![c] = [call |-> op[c].call, with |-> op[c].with,
                                        todo |-> Tail(op[c].todo),
                                        got  |-> Append(op[c].got, loc)]]

Making(c) == at[c] = "make" /\ op[c].todo # <<>>

(* What the call did not get it gives up for, and what it has taken stays  *)
(* taken.  msgbox_init() sets msg_buf on its way out, in a box that it has *)
(* given to free(), or through NULL when it is the box that it lacks.      *)
Fails(c) ==
  /\ at' = [at EXCEPT ![c] = "user"] /\ op' = [op EXCEPT ![c] = NULL]
  /\ cleared' = CASE Head(op[c].todo).use = "box" -> cleared \cup {NULL}
                   [] Head(op[c].todo).use = "buf" -> cleared \cup {op[c].got[2]}
                   [] OTHER -> cleared

(* malloc() returns NULL, and the call an error.                           *)
GiveUp_Bug(c) ==
  /\ Making(c) /\ ~Under(c) /\ Refused(Head(op[c].todo).len)
  /\ Got(c, NULL)
  /\ UNCHANGED <<at, memVars, timerVars, objectVars>>
GiveUp(c) ==
  /\ Making(c) /\ ~Under(c) /\ Refused(Head(op[c].todo).len)
  /\ Fails(c)
  /\ UNCHANGED <<memVars, timerVars, sems, tasks, usr_isr, astray>>

Take(c) ==
  /\ Making(c)
  /\ \/ MallocCheck(c, Head(op[c].todo).len, Head(op[c].todo).use)
     \/ MallocRead(c)
     \/ MallocMove(c)
  /\ UNCHANGED <<callVars, timerVars, objectVars>>

(* The pointer may have come around to 0, which the caller takes for NULL. *)
TakeEnd(c) ==
  /\ Making(c)
  /\ MallocShrink(c)
  /\ IF req[c].loc = NULL THEN Fails(c)
                          ELSE Got(c, req[c].loc) /\ UNCHANGED <<at, cleared>>
  /\ UNCHANGED <<timerVars, sems, tasks, usr_isr, astray>>

(* The object is filled in and linked, with interrupts disabled.           *)
Link(c) ==
  /\ at[c] = "make" /\ op[c].todo = <<>>
  /\ LET call == op[c].call
         a    == op[c].got[1]
     IN  /\ IF call = "timer_new" THEN TimerLink(a, op[c].with)
                                  ELSE UNCHANGED timerVars
         /\ sems' = IF call = "sem_new" THEN <<a>> \o sems ELSE sems
         /\ tasks' = IF call = "task_new"
                     THEN tasks \cup {[tcb |-> a, box |-> op[c].got[2], room |-> op[c].with,
                                       buf |-> IF Len(op[c].got) = 2 THEN NULL
                                               ELSE op[c].got[3]]}
                     ELSE tasks
  /\ at' = [at EXCEPT ![c] = "user"]
  /\ op' = [op EXCEPT ![c] = NULL]
  /\ UNCHANGED <<memVars, usr_isr, astray, cleared>>

(* int_config(n, ...): the check lets n = max_ints through, and the word   *)
(* that follows the table is kernel.sems.                                  *)
IntConfig(c) ==
  /\ at[c] = "user"
  /\ \E n \in 0..MaxInts :
        /\ usr_isr' = [i \in DOMAIN usr_isr |-> usr_isr[i] \/ i = n]
        /\ IF n \in DOMAIN usr_isr
           THEN UNCHANGED <<sems, astray>>
           ELSE sems' = <<NULL>> /\ astray' = TRUE
  /\ UNCHANGED <<callVars, memVars, timerVars, tasks, cleared>>

-----------------------------------------------------------------------------
Runs(c) == ~handler /\ (c = High \/ at[High] = "user")

OnTimer(c) == \E t \in DOMAIN timer :
                 \/ "start" \in TimerCalls /\ TimerStart(c, t)
                 \/ "stop" \in TimerCalls /\ TimerStop(c, t)
                 \/ "delete" \in TimerCalls /\ TimerDelete(c, t)

Starts(c)   == /\ Runs(c) /\ left[c] > 0
               /\ left' = [left EXCEPT ![c] = @ - 1]
               /\ \/ Create(c)
                  \/ IntConfig(c)
                  \/ OnTimer(c) /\ UNCHANGED objectVars

Continues(c) ==
  /\ Runs(c)
  /\ \/ GiveUp(c) \/ Take(c) \/ TakeEnd(c) \/ Link(c)
     \/ (TimerUnlink(c) \/ TimerLoad(c) \/ TimerActivate(c)) /\ UNCHANGED objectVars
  /\ UNCHANGED left

Tic == (TicBegin \/ TicStep \/ TicEnd) /\ UNCHANGED <<objectVars, left>>

Next == Tic \/ \E c \in Callers : Starts(c) \/ Continues(c)

(* The clock ticks, and its handler runs while it can.                     *)
Spec == Init /\ [][Next]_vars /\ WF_vars(Tic)

-----------------------------------------------------------------------------
Addresses == 0..(Wrap - 1)

(* The kernel's fields and the timers hold what they are declared to hold, *)
(* and every pointer of the list of timers is NULL or a timer that was     *)
(* made.                                                                   *)
TypeOK ==
  /\ mem_start \in Addresses /\ mem_size \in Addresses
  /\ mem_free_loc \in Addresses /\ mem_free_size \in Addresses
  /\ at \in [Callers -> {"user", "make", "unlink", "load", "activate"}]
  /\ sems \in Seq(Addresses)
  /\ DOMAIN timer \subseteq Addresses \ {NULL} /\ missed \subseteq DOMAIN timer
  /\ handler \in BOOLEAN /\ walk \in {NULL} \cup DOMAIN timer
  /\ timers \in {NULL} \cup DOMAIN timer
  /\ \A t \in DOMAIN timer : timer[t].next \in {NULL} \cup DOMAIN timer
  /\ doubled \in BOOLEAN /\ torn \in BOOLEAN /\ astray \in BOOLEAN
  /\ usr_isr \in [0..(MaxInts - 1) -> BOOLEAN]
  /\ left \in [Callers -> Nat]

(* Every object that can be reached has a block of memory of its kind, and *)
(* large enough, and so has every timer that ever could: nothing is made   *)
(* of a malloc() that failed, and int_config() overwrites no list, unless  *)
(* for max_ints itself.  What msgbox_init() stores as it fails is stored   *)
(* in a box, or through NULL.                                              *)
Holds(a, use, n) == \E i \in DOMAIN blocks :
                       /\ blocks[i].loc = a /\ blocks[i].use = use
                       /\ blocks[i].len >= n

OwnMemory ==
  /\ ~astray => \A i \in DOMAIN sems : Holds(sems[i], "sem", SizeOf["sem"])
  /\ \A a \in DOMAIN timer : Holds(a, "timer", SizeOf["timer"])
  /\ \A t \in tasks : /\ Holds(t.tcb, "task", SizeOf["task"])
                      /\ Holds(t.box, "box", SizeOf["box"])
                      /\ t.room # 0 => Holds(t.buf, "buf", t.room)
  /\ \A a \in cleared \ {NULL} : Holds(a, "box", SizeOf["box"])

(* Once no more calls come, the clock brings every one-shot timer that was *)
(* started to an end, unless its function starts it again.                 *)
Quiet == \A c \in Callers : left[c] = 0 /\ at[c] = "user"
Rings(t) == /\ Valid(t) /\ timer[t].active
            /\ timer[t].type = "ONESHOT" /\ timer[t].func # "start"

OneshotsEnd ==
  Quiet ~> (~NoOverlap \/ doubled \/ \A t \in DOMAIN timer \ missed : ~Rings(t))
=============================================================================
