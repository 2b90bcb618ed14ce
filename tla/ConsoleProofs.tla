---------------------------- MODULE ConsoleProofs -----------------------------
(***************************************************************************)
(* What is proved of the console.                                          *)
(***************************************************************************)
EXTENDS Console, SeqLemmas, FiniteSetTheorems

Sems == {"rx", "tx", "tx_pi", "tx_buf", "tx_task", "putchar"}
Data == Chars \cup {CR}
Statuses == {"READY", "SLEEPING", "none"} \cup Sems

-----------------------------------------------------------------------------
(* The scheduler.                                                          *)

(* Some task being ready, First is a ready one, and none is more urgent.   *)
LEMMA FirstReady ==
  ASSUME NEW st, NEW r \in Tasks, st[r] = "READY"
  PROVE  /\ First(st) \in Tasks /\ st[First(st)] = "READY"
         /\ \A t \in Tasks : st[t] = "READY" => Priority[First(st)] <= Priority[t]
<1> DEFINE IsFirst(t) == \E i \in DOMAIN TaskQ :
                            /\ TaskQ[i] = t /\ st[t] = "READY"
                            /\ \A j \in 1..(i - 1) : st[TaskQ[j]] # "READY"
           T == {i \in DOMAIN TaskQ : st[TaskQ[i]] = "READY"}
<1>1. /\ DOMAIN TaskQ = 1..Len(TaskQ) /\ Len(TaskQ) \in Nat
      /\ \A i \in DOMAIN TaskQ : TaskQ[i] \in Tasks
      /\ \A t \in Tasks : \E i \in DOMAIN TaskQ : TaskQ[i] = t
      /\ \A i, j \in DOMAIN TaskQ : i < j => Priority[TaskQ[i]] <= Priority[TaskQ[j]]
      /\ \A t \in Tasks : Priority[t] \in Nat
  BY ConsoleAssumption, SchedAssumption, LenProperties DEF Tasks
<1>2. T \subseteq Nat /\ T # {}
  BY <1>1
<1>3. PICK i \in T : \A j \in T : ~(<<j, i>> \in OpToRel(<, Nat))
  <2> HIDE DEF T
  <2> QED BY <1>2, NatLessThanWellFounded, WFMin
<1>4. \A j \in 1..(i - 1) : st[TaskQ[j]] # "READY"
  <2> SUFFICES ASSUME NEW j \in 1..(i - 1), st[TaskQ[j]] = "READY" PROVE FALSE
    OBVIOUS
  <2>1. j \in T /\ j \in Nat /\ i \in Nat /\ j < i
    BY <1>1
  <2> QED BY <1>3, <2>1 DEF OpToRel
<1>5. IsFirst(TaskQ[i]) /\ TaskQ[i] \in Tasks
  BY <1>1, <1>4
<1>6. First(st) = CHOOSE t \in Tasks : IsFirst(t)
  BY DEF First
<1>7. First(st) \in Tasks /\ IsFirst(First(st))
  <2> HIDE DEF IsFirst
  <2> QED BY <1>5, <1>6
<1>8. PICK k \in DOMAIN TaskQ : /\ TaskQ[k] = First(st) /\ st[First(st)] = "READY"
                                /\ \A j \in 1..(k - 1) : st[TaskQ[j]] # "READY"
  BY <1>7
<1>9. ASSUME NEW t \in Tasks, st[t] = "READY" PROVE Priority[First(st)] <= Priority[t]
  <2>1. PICK j \in DOMAIN TaskQ : TaskQ[j] = t
    BY <1>1
  <2>2. ~(j \in 1..(k - 1)) /\ j \in 1..Len(TaskQ) /\ k \in 1..Len(TaskQ)
    BY <1>1, <1>8, <1>9, <2>1
  <2>3. k = j \/ k < j
    BY <1>1, <2>2
  <2> QED BY <1>1, <1>7, <1>8, <2>1, <2>3
<1> HIDE DEF IsFirst
<1> QED BY <1>7, <1>8, <1>9

(* The running task is ready, and outside of a handler no ready task is    *)
(* more urgent; the idle task is always ready.                             *)
RunOK ==
  /\ status["idle"] = "READY" /\ run \in Tasks /\ status[run] = "READY"
  /\ isr = "off" => \A t \in Tasks : status[t] = "READY" => Priority[run] <= Priority[t]

SchedType ==
  /\ status \in [Tasks -> Statuses]
  /\ count_now \in [Sems -> Nat] /\ \A s \in Sems : count_now[s] <= CountMax[s]
  /\ missed \subseteq Tasks

LEMMA Names ==
  /\ Tasks = {"kbd", "tx", "rx", "stdout", "log", "cli", "idle"}
  /\ \A t \in Tasks : Priority[t] \in Nat
  /\ CountMax \in [Sems -> Nat] /\ \A s \in Sems : CountMax[s] > 0
  BY ConsoleAssumption, SchedAssumption DEF Sems

(* sem_get(): a unit is taken, or the caller waits.                        *)
LEMMA GetEffect ==
  ASSUME SchedType, RunOK, isr = "off", run # "idle", NEW s \in Sems, Get(s)
  PROVE  /\ SchedType' /\ RunOK' /\ UNCHANGED <<isr, missed>>
         /\ \/ /\ count_now[s] > 0 /\ count_now' = [count_now EXCEPT ![s] = count_now[s] - 1]
               /\ UNCHANGED <<status, run>>
            \/ /\ count_now[s] = 0 /\ UNCHANGED count_now
               /\ status' = [status EXCEPT ![run] = s]
<1>1. CASE count_now[s] # 0
  <2>1. count_now[s] \in Nat /\ CountMax[s] \in Nat
    BY Names DEF SchedType
  <2> QED BY <1>1, <2>1 DEF SchedType, RunOK, Get
<1>2. CASE count_now[s] = 0
  <2>1. /\ status' = [status EXCEPT ![run] = s] /\ run' = First(status')
        /\ UNCHANGED <<count_now, isr, missed>>
    BY <1>2 DEF Get
  <2>2. "idle" \in Tasks /\ status'["idle"] = "READY"
    BY <2>1, Names DEF SchedType, RunOK
  <2>3. RunOK'
    BY <2>1, <2>2, FirstReady DEF RunOK
  <2>4. SchedType'
    BY <2>1 DEF SchedType, Statuses, RunOK
  <2> QED BY <1>2, <2>1, <2>3, <2>4
<1> QED BY <1>1, <1>2

(* sem_give(): there is one unit more, or a task that waited has it, or    *)
(* there is no room for it.                                                *)
LEMMA GiveEffect ==
  ASSUME SchedType, RunOK, isr = "off", NEW s \in Sems, Give(s)
  PROVE  /\ SchedType' /\ RunOK' /\ UNCHANGED <<isr, missed>>
         /\ \/ count_now[s] = CountMax[s] /\ UNCHANGED <<count_now, status, run>>
            \/ /\ count_now[s] < CountMax[s]
               /\ count_now' = [count_now EXCEPT ![s] = count_now[s] + 1]
               /\ UNCHANGED <<status, run>>
            \/ /\ count_now[s] = 0 /\ UNCHANGED count_now
               /\ \E w \in Tasks : status[w] = s /\ status' = [status EXCEPT ![w] = "READY"]
<1> DEFINE waiting == {t \in Tasks : status[t] = s}
           st == [t \in Tasks |-> IF t \in waiting THEN "READY" ELSE "no"]
           w == First(st)
<1>0. s # "READY" /\ count_now[s] \in Nat /\ CountMax[s] \in Nat
  BY Names DEF SchedType, Sems
<1>1. CASE ~Gives(s)
  BY <1>0, <1>1 DEF SchedType, RunOK, Give, Gives
<1>2. CASE Gives(s) /\ (count_now[s] # 0 \/ waiting = {})
  BY <1>0, <1>2, Names DEF SchedType, RunOK, Give, Gives
<1>3. CASE Gives(s) /\ count_now[s] = 0 /\ waiting # {}
  <2>1. w \in Tasks /\ status[w] = s
    <3>1. PICK r \in Tasks : st[r] = "READY"
      BY <1>3
    <3>2. First(st) \in Tasks /\ st[First(st)] = "READY"
      BY <3>1, FirstReady
    <3> QED BY <3>2
  <2>2. /\ status' = [status EXCEPT ![w] = "READY"]
        /\ run' = IF Priority[run] > Priority[w] THEN First(status') ELSE run
        /\ UNCHANGED <<count_now, isr, missed>>
    BY <1>3 DEF Give
  <2> HIDE DEF w
  <2>3. SchedType'
    BY <2>1, <2>2 DEF SchedType, Statuses
  <2>4. RunOK'
    <3>1. "idle" \in Tasks /\ status'["idle"] = "READY" /\ run \in Tasks /\ status'[run] = "READY"
      BY <1>0, <2>1, <2>2, Names DEF SchedType, RunOK
    <3>2. CASE Priority[run] > Priority[w]
      BY <2>2, <3>1, <3>2, FirstReady DEF RunOK
    <3>3. CASE ~(Priority[run] > Priority[w])
      <4>1. \A t \in Tasks : status'[t] = "READY" => Priority[run] <= Priority[t]
        BY <2>1, <2>2, <3>3, Names DEF RunOK, SchedType
      <4> QED BY <2>2, <3>1, <3>3, <4>1 DEF RunOK
    <3> QED BY <3>2, <3>3
  <2> QED BY <1>3, <2>1, <2>2, <2>3, <2>4
<1> QED BY <1>1, <1>2, <1>3

LEMMA SleepEffect ==
  ASSUME SchedType, RunOK, run # "idle", Sleep
  PROVE  /\ SchedType' /\ RunOK' /\ UNCHANGED <<count_now, isr, missed>>
         /\ status' = [status EXCEPT ![run] = "SLEEPING"]
<1>1. "idle" \in Tasks /\ status'["idle"] = "READY"
  BY Names DEF SchedType, RunOK, Sleep
<1>2. RunOK'
  BY <1>1, FirstReady DEF RunOK, Sleep
<1> QED BY <1>2 DEF SchedType, Statuses, RunOK, Sleep

(* task_wake() in a handler, which has not ended.                          *)
LEMMA WakeEffect ==
  ASSUME SchedType, RunOK, NEW t \in Tasks, Wake(t), UNCHANGED <<run, count_now>>, isr' # "off"
  PROVE  SchedType' /\ RunOK'
  BY Names DEF SchedType, Statuses, RunOK, Wake

(* The end of a handler.                                                   *)
LEMMA EndEffect ==
  ASSUME SchedType, RunOK, status' \in [Tasks -> Statuses], HandlerEnd(status'),
         \A t \in Tasks : status[t] = "READY" => status'[t] = "READY",
         UNCHANGED <<count_now, missed>>
  PROVE  SchedType' /\ RunOK' /\ isr' = "off"
<1>1. "idle" \in Tasks /\ status'["idle"] = "READY"
  BY Names DEF RunOK
<1>2. /\ First(status') \in Tasks /\ status'[First(status')] = "READY"
      /\ \A t \in Tasks : status'[t] = "READY" => Priority[First(status')] <= Priority[t]
  BY <1>1, FirstReady
<1>3. /\ run' = IF Priority[run] > Priority[First(status')] THEN First(status') ELSE run
      /\ isr' = "off"
  BY DEF HandlerEnd
<1>4. RunOK'
  BY <1>1, <1>2, <1>3, Names DEF RunOK
<1> QED BY <1>3, <1>4 DEF SchedType

-----------------------------------------------------------------------------
(* Where the tasks are, and what each of them waits for there.             *)
Awaits(p) == CASE p \in {"test", "user"} -> "SLEEPING"
               [] p = "lock" -> "tx_buf"
               [] p = "put" -> "putchar"
               [] p = "char" -> "rx"
               [] p = "loop" -> "tx_task"
               [] p = "queue" -> "tx"
               [] p = "sent" -> "tx_pi"
               [] OTHER -> "READY"

RxPoints == {"sleep", "test"}
            \cup (IF link = "sam9" THEN {} ELSE {"start", "write"})
            \cup (IF link = "rpi" THEN {} ELSE {"compare", "next", "enable"})
            \cup (IF link = "pc" THEN {} ELSE {"rx_func", "store"})
StdoutPoints == {"init", "wait", "loop", "tx_func", "sent"}
                \cup (IF link = "pc" THEN {} ELSE {"enable"})
                \cup (IF link \in {"com", "sam9"} THEN {"queue", "check"} ELSE {})
                \cup (IF link \in {"com", "rpi"} THEN {"write"} ELSE {})
                \cup (IF link = "rpi" THEN {"wait_tx"} ELSE {})
IsrPoints == {"off"} \cup (IF link \in {"pc", "com"} THEN {"16550", "16550_rx"} ELSE {})
                    \cup (IF link = "pc" THEN {"kbd"} ELSE {})
                    \cup (IF link = "sam9" THEN {"sam9", "sam9_rx", "sam9_end"} ELSE {})
                    \cup (IF link = "rpi" THEN {"rpi", "rpi_rx", "rpi_end"} ELSE {})

WriterPoints == {"user", "place", "lock", "put", "next", "unlock", "tell"}
PointsOf(t) == CASE t = "rx" -> RxPoints
                 [] t = "tx" -> {"sleep", "test"}
                 [] t = "kbd" -> {"sleep", "test", "rx_func", "store"}
                 [] t = "stdout" -> StdoutPoints
                 [] t = "log" -> WriterPoints
                 [] t = "cli" -> WriterPoints \cup {"char"}
                 [] OTHER -> {"sleep"}

PcOK ==
  /\ link \in Boards /\ isr \in IsrPoints
  /\ pc = [t \in Tasks |-> pc[t]] /\ \A t \in Tasks : pc[t] \in PointsOf(t)

StatusOK ==
  /\ \A t \in Tasks \ {"kbd"} : status[t] \in {"READY", Awaits(pc[t])}
  /\ IF link = "pc" THEN status["kbd"] \in {"READY", Awaits(pc["kbd"])}
     ELSE status["kbd"] = "none" /\ pc["kbd"] = "sleep"

CoreOK == SchedType /\ RunOK /\ PcOK /\ StatusOK

LEMMA StepStays ==
  ASSUME PcOK, NEW t \in Tasks, NEW from, NEW to, Step(t, from, to), to \in PointsOf(t),
         UNCHANGED <<link, isr>>
  PROVE  PcOK'
<1>1. /\ pc' = [u \in Tasks |-> pc'[u]]
      /\ \A u \in Tasks : pc'[u] = IF u = t THEN to ELSE pc[u]
  BY DEF Step, PcOK
<1>2. IsrPoints' = IsrPoints /\ RxPoints' = RxPoints /\ StdoutPoints' = StdoutPoints
  BY DEF IsrPoints, RxPoints, StdoutPoints
<1>3. \A u \in Tasks : PointsOf(u)' = PointsOf(u)
  BY <1>2 DEF PointsOf
<1> QED BY <1>1, <1>2, <1>3 DEF PcOK

(* Steps of a task that leave the scheduler alone, take a unit of a        *)
(* semaphore, give one, or put the task to sleep.                          *)
LEMMA StepAlone ==
  ASSUME CoreOK, NEW t \in Tasks, NEW from, NEW to, Step(t, from, to), t # "idle",
         UNCHANGED <<schedVars, link>>, to \in PointsOf(t)
  PROVE  CoreOK'
<1>1. /\ status[t] = "READY" /\ UNCHANGED <<status, link>> /\ (t # "kbd" \/ link = "pc")
      /\ \A u \in Tasks : u # t => pc'[u] = pc[u]
  BY DEF CoreOK, RunOK, StatusOK, PcOK, schedVars, Step
<1>2. StatusOK'
  BY <1>1, Names DEF CoreOK, StatusOK
<1>3. PcOK'
  BY StepStays DEF CoreOK, schedVars
<1> QED BY <1>2, <1>3 DEF CoreOK, SchedType, RunOK, schedVars

LEMMA StepGets ==
  ASSUME CoreOK, NEW t \in Tasks, NEW from, NEW to, Step(t, from, to), t # "idle",
         NEW s \in Sems, Get(s), Awaits(to) = s, UNCHANGED link, to \in PointsOf(t)
  PROVE  CoreOK'
<1>1. /\ status[t] = "READY" /\ run = t /\ isr = "off" /\ (t # "kbd" \/ link = "pc")
      /\ \A u \in Tasks : u # t => pc'[u] = pc[u]
      /\ pc'[t] = to
  BY DEF CoreOK, RunOK, StatusOK, PcOK, schedVars, Step
<1>2. /\ SchedType' /\ RunOK'
      /\ \/ UNCHANGED status
         \/ status' = [status EXCEPT ![t] = s]
  BY <1>1, GetEffect DEF CoreOK
<1>3. /\ \A u \in Tasks : u # t => status'[u] = status[u]
      /\ status'[t] \in {"READY", Awaits(pc'[t])}
  BY <1>1, <1>2 DEF CoreOK, SchedType
<1>4. StatusOK'
  BY <1>1, <1>3, Names DEF CoreOK, StatusOK
<1>5. PcOK'
  BY StepStays DEF CoreOK, Get, Give, Sleep
<1> QED BY <1>2, <1>4, <1>5 DEF CoreOK

LEMMA StepGives ==
  ASSUME CoreOK, NEW t \in Tasks, NEW from, NEW to, Step(t, from, to), t # "idle",
         NEW s \in Sems, Give(s), UNCHANGED link, to \in PointsOf(t)
  PROVE  CoreOK'
<1>1. /\ status[t] = "READY" /\ run = t /\ isr = "off" /\ (t # "kbd" \/ link = "pc")
      /\ \A u \in Tasks : u # t => pc'[u] = pc[u]
      /\ s # "none"
  BY DEF CoreOK, RunOK, StatusOK, PcOK, schedVars, Step, Sems
<1>2. /\ SchedType' /\ RunOK'
      /\ \/ UNCHANGED status
         \/ \E w \in Tasks : status[w] = s /\ status' = [status EXCEPT ![w] = "READY"]
  BY <1>1, GiveEffect DEF CoreOK
<1>3. \A u \in Tasks : status'[u] = status[u] \/ (status'[u] = "READY" /\ status[u] = s)
  BY <1>2 DEF CoreOK, SchedType
<1>4. StatusOK'
  BY <1>1, <1>3, Names DEF CoreOK, StatusOK
<1>5. PcOK'
  BY StepStays DEF CoreOK, Get, Give, Sleep
<1> QED BY <1>2, <1>4, <1>5 DEF CoreOK

LEMMA StepSleeps ==
  ASSUME CoreOK, NEW t \in Tasks, NEW from, NEW to, Step(t, from, to), t # "idle",
         Sleep, Awaits(to) = "SLEEPING", UNCHANGED link, to \in PointsOf(t)
  PROVE  CoreOK'
<1>1. /\ status[t] = "READY" /\ run = t /\ (t # "kbd" \/ link = "pc")
      /\ \A u \in Tasks : u # t => pc'[u] = pc[u]
      /\ pc'[t] = to
  BY DEF CoreOK, RunOK, StatusOK, PcOK, schedVars, Step
<1>2. SchedType' /\ RunOK' /\ status' = [status EXCEPT ![t] = "SLEEPING"]
  BY <1>1, SleepEffect DEF CoreOK
<1>3. /\ \A u \in Tasks : u # t => status'[u] = status[u]
      /\ status'[t] = Awaits(pc'[t])
  BY <1>1, <1>2 DEF CoreOK, SchedType
<1>4. StatusOK'
  BY <1>1, <1>3, Names DEF CoreOK, StatusOK
<1>5. PcOK'
  BY StepStays DEF CoreOK, Sleep
<1> QED BY <1>2, <1>4, <1>5 DEF CoreOK

(* Steps of a handler.                                                     *)
LEMMA HandlerKeeps ==
  ASSUME CoreOK, isr' \in IsrPoints, isr' # "off", UNCHANGED <<run, count_now, pc, link>>,
         Quietly \/ (\E t \in {"rx", "tx"} : Wake(t)) \/ (link = "pc" /\ Wake("kbd"))
  PROVE  CoreOK'
<1>1. PcOK'
  BY DEF CoreOK, PcOK, PointsOf, RxPoints, StdoutPoints, IsrPoints
<1>2. CASE Quietly
  BY <1>1, <1>2 DEF CoreOK, SchedType, RunOK, StatusOK, Quietly
<1>3. ASSUME NEW t \in {"rx", "tx", "kbd"}, (t # "kbd" \/ link = "pc"), Wake(t)
      PROVE  CoreOK'
  <2>1. SchedType' /\ RunOK' /\ t \in Tasks
    BY <1>3, WakeEffect, Names DEF CoreOK
  <2>2. \A u \in Tasks : \/ status'[u] = status[u]
                         \/ u = t /\ status'[u] = "READY"
    BY <1>3 DEF CoreOK, SchedType, Wake
  <2>3. StatusOK'
    BY <1>3, <2>2, Names DEF CoreOK, StatusOK
  <2> QED BY <1>1, <2>1, <2>3 DEF CoreOK
<1> QED BY <1>2, <1>3

LEMMA HandlerEnds ==
  ASSUME CoreOK, HandlerEnd(status), Quietly, UNCHANGED <<count_now, pc, link>>
  PROVE  CoreOK'
<1>0. UNCHANGED status /\ HandlerEnd(status') /\ UNCHANGED missed
  BY DEF Quietly
<1>1. SchedType' /\ RunOK' /\ isr' = "off"
  BY <1>0, EndEffect DEF CoreOK, SchedType
<1>2. PcOK'
  BY <1>1 DEF CoreOK, PcOK, PointsOf, RxPoints, StdoutPoints, IsrPoints
<1> QED BY <1>0, <1>1, <1>2 DEF CoreOK, StatusOK

LEMMA Boarded == link \in Boards => link \in {"pc", "com", "sam9", "rpi"}
  BY ConsoleAssumption

(* What bsp_post_init() links.                                             *)
LEMMA Links ==
  /\ link = "pc" => TxFunc("ns16550") = None /\ TxFunc("kbd") # None
  /\ link = "com" => TxFunc("ns16550") # None
  /\ link = "sam9" => TxFunc("uart") # None
<1> DEFINE L == {"stdio", "kbd", "b8000", "ns16550", "uart"}
<1>1. /\ DOMAIN Made = L
      /\ \A l \in L : Made[l].rx_func = (IF l = "kbd" THEN None ELSE l) /\ Made[l].tx_func = None
  BY DEF Made, LinkT
<1>2. /\ Linked.pc["ns16550"].tx_func = None
      /\ Linked.pc["kbd"].tx_func = "stdio"
      /\ Linked.com["ns16550"].tx_func = "stdio"
      /\ Linked.sam9["uart"].tx_func = "stdio"
  BY <1>1 DEF Linked, OsLink, LinkT, Made, None
<1> QED BY <1>2 DEF TxFunc, None, Linked

LEMMA StdioCore == CoreOK /\ Modules /\ UNCHANGED <<link, devVars, kbdVars, load>> => CoreOK'
<1> SUFFICES ASSUME CoreOK, Modules, UNCHANGED link PROVE CoreOK'
  OBVIOUS
<1> USE Names
<1>1. CASE StdoutInit \/ StdoutEmpty
  BY <1>1, StepAlone DEF StdoutInit, StdoutEmpty, PointsOf, StdoutPoints
<1>2. CASE StdoutWait
  BY <1>2, StepGets DEF StdoutWait, PointsOf, StdoutPoints, Awaits, Sems
<1>3. CASE StdoutTake
  BY <1>3, StepAlone DEF StdoutTake, PointsOf, StdoutPoints
<1>4. CASE StdoutNext
  <2>1. CASE c \in NewLines
    BY <1>4, <2>1, StepAlone DEF StdoutNext, PointsOf, StdoutPoints
  <2>2. CASE c \notin NewLines
    BY <1>4, <2>2, StepGives DEF StdoutNext, PointsOf, StdoutPoints, Sems
  <2> QED BY <2>1, <2>2
<1>5. ASSUME NEW t \in Writers, Putchar(t) PROVE CoreOK'
  <2> USE DEF Writers, PointsOf, WriterPoints, Sems, Awaits
  <2>1. CASE PutcharPlace(t)
    BY <2>1, StepGets DEF PutcharPlace
  <2>2. CASE PutcharLock(t)
    BY <2>2, StepGets DEF PutcharLock
  <2>3. CASE PutcharStore(t)
    BY <2>3, StepAlone DEF PutcharStore
  <2>4. CASE PutcharNext(t)
    BY <2>4, StepAlone DEF PutcharNext
  <2>5. CASE PutcharUnlock(t)
    BY <2>5, StepGives DEF PutcharUnlock
  <2>6. CASE PutcharTell(t)
    BY <2>6, StepGives DEF PutcharTell
  <2> QED BY <1>5, <2>1, <2>2, <2>3, <2>4, <2>5, <2>6 DEF Putchar
<1>6. CASE Getchar("cli")
  BY <1>6, StepAlone DEF Getchar, PointsOf, WriterPoints
<1> QED BY <1>1, <1>2, <1>3, <1>4, <1>5, <1>6 DEF Modules, Stdout

LEMMA DriversCore == CoreOK /\ Drivers /\ UNCHANGED <<link, load>> => CoreOK'
<1> SUFFICES ASSUME CoreOK, Drivers, UNCHANGED link PROVE CoreOK'
  OBVIOUS
<1> USE Names DEF PointsOf, RxPoints, StdoutPoints, Sems, Awaits, Own
<1>0. link \in {"pc", "com", "sam9", "rpi"} /\ \A t \in Tasks : pc[t] \in PointsOf(t)
  BY Boarded DEF CoreOK, PcOK
<1>1. ASSUME NEW t \in {"rx", "tx"}, TaskSleep(t) PROVE CoreOK'
  BY <1>1, StepSleeps DEF TaskSleep
<1>2. CASE link \in {"pc", "com"} /\ RxTask16550
  <2>1. CASE RxTaskStart
    BY <1>2, <2>1, StepAlone DEF RxTaskStart
  <2>2. CASE RxTaskTest("ns16550", "compare")
    BY <1>2, <2>2, StepAlone, Links DEF RxTaskTest
  <2>3. CASE RxTaskHand("compare")
    <3>1. link = "com"
      BY <1>0, <1>2, <2>3 DEF RxTaskHand, RxFunc, RxStore, Step
    <3>2. CASE RxFunc("rx", "compare")
      BY <3>1, <3>2, StepGives DEF RxFunc
    <3>3. CASE RxStore("rx", "compare", At(dev.rx_buf, dev.rx_c))
      BY <3>1, <3>3, StepAlone DEF RxStore
    <3> QED BY <2>3, <3>2, <3>3 DEF RxTaskHand
  <2>4. CASE RxTaskCompare
    BY <1>2, <2>4, StepAlone DEF RxTaskCompare
  <2>5. CASE RxTaskNext
    BY <1>2, <2>5, StepAlone DEF RxTaskNext
  <2>6. CASE ReadBits("rx", "enable", "write")
    BY <1>2, <2>6, StepAlone DEF ReadBits
  <2>7. CASE WriteBits("rx", "write", "test", TRUE, FALSE)
    BY <1>2, <2>7, StepAlone DEF WriteBits
  <2> QED BY <1>1, <1>2, <2>1, <2>2, <2>3, <2>4, <2>5, <2>6, <2>7 DEF RxTask16550
<1>3. ASSUME NEW more, TxTaskGive(more) PROVE CoreOK'
  <2>1. CASE more
    BY <1>3, <2>1, StepGives DEF TxTaskGive
  <2>2. CASE ~more
    BY <1>3, <2>2, StepAlone DEF TxTaskGive
  <2> QED BY <2>1, <2>2
<1>4. CASE TxTask16550
  BY <1>1, <1>3, <1>4 DEF TxTask16550
<1>5. CASE link = "com" /\ TxFunc16550
  <2>1. CASE TxRoom
    BY <1>5, <2>1, StepGets DEF TxRoom
  <2>2. CASE TxQueue
    BY <1>5, <2>2, StepAlone DEF TxQueue
  <2>3. CASE TxCheck
    BY <1>5, <2>3, StepAlone DEF TxCheck
  <2>4. CASE ReadBits("stdout", "enable", "write")
    BY <1>5, <2>4, StepAlone DEF ReadBits
  <2>5. CASE WriteBits("stdout", "write", "sent", FALSE, TRUE)
    BY <1>5, <2>5, StepAlone DEF WriteBits
  <2> QED BY <1>5, <2>1, <2>2, <2>3, <2>4, <2>5 DEF TxFunc16550
<1>6. CASE link = "sam9" /\ RxTaskSam
  <2>1. CASE RxTaskTest("uart", "compare")
    BY <1>6, <2>1, StepAlone, Links DEF RxTaskTest
  <2>2. CASE RxFunc("rx", "compare")
    BY <1>6, <2>2, StepGives DEF RxFunc
  <2>3. CASE RxStore("rx", "compare", At(dev.rx_buf, dev.rx_c))
    BY <1>6, <2>3, StepAlone DEF RxStore
  <2>4. CASE RxTaskCompare
    BY <1>6, <2>4, StepAlone DEF RxTaskCompare
  <2>5. CASE RxTaskNext
    BY <1>6, <2>5, StepAlone DEF RxTaskNext
  <2>6. CASE Enable("rx", "enable", "test", TRUE)
    BY <1>6, <2>6, StepAlone DEF Enable
  <2> QED BY <1>1, <1>6, <2>1, <2>2, <2>3, <2>4, <2>5, <2>6 DEF RxTaskSam, RxTaskHand
<1>7. CASE link = "sam9" /\ TxFuncSam
  <2>1. CASE TxRoom
    BY <1>7, <2>1, StepGets DEF TxRoom
  <2>2. CASE TxQueue
    BY <1>7, <2>2, StepAlone DEF TxQueue
  <2>3. CASE TxCheck
    BY <1>7, <2>3, StepAlone DEF TxCheck
  <2>4. CASE Enable("stdout", "enable", "sent", FALSE)
    BY <1>7, <2>4, StepAlone DEF Enable
  <2> QED BY <1>7, <2>1, <2>2, <2>3, <2>4 DEF TxFuncSam
<1>8. CASE TxTaskSam
  BY <1>1, <1>3, <1>8 DEF TxTaskSam
<1>9. CASE link = "rpi" /\ RxTaskPi
  <2>1. CASE ReadBits("rx", "start", "write")
    BY <1>9, <2>1, StepAlone DEF ReadBits
  <2>2. CASE WriteMask("rx", "write", "sleep", TRUE)
    BY <1>9, <2>2, StepAlone DEF WriteMask
  <2>3. CASE RxTaskTake
    BY <1>9, <2>3, StepAlone DEF RxTaskTake
  <2>4. CASE RxFunc("rx", "test")
    BY <1>9, <2>4, StepGives DEF RxFunc
  <2>5. CASE RxStore("rx", "test", At(dev.rx_buf, dev.rx_c - 1))
    BY <1>9, <2>5, StepAlone DEF RxStore
  <2> QED BY <1>1, <1>9, <2>1, <2>2, <2>3, <2>4, <2>5 DEF RxTaskPi, RxTaskHandPi
<1>10. CASE link = "rpi" /\ TxFuncPi
  <2>1. CASE TxWrite
    BY <1>10, <2>1, StepAlone DEF TxWrite
  <2>2. CASE ReadBits("stdout", "enable", "write")
    BY <1>10, <2>2, StepAlone DEF ReadBits
  <2>3. CASE WriteMask("stdout", "write", "wait_tx", FALSE)
    BY <1>10, <2>3, StepAlone DEF WriteMask
  <2>4. CASE TxWait
    BY <1>10, <2>4, StepGets DEF TxWait
  <2> QED BY <1>10, <2>1, <2>2, <2>3, <2>4 DEF TxFuncPi
<1>11. CASE TxTaskPi
  <2>1. CASE Step("tx", "test", "sleep") /\ Give("tx_pi")
    BY <2>1, StepGives
  <2> QED BY <1>1, <1>11, <2>1 DEF TxTaskPi
<1> QED BY <1>2, <1>4, <1>5, <1>6, <1>7, <1>8, <1>9, <1>10, <1>11 DEF Drivers

LEMMA PcCore == CoreOK /\ Pc /\ UNCHANGED <<link, load>> => CoreOK'
<1> SUFFICES ASSUME CoreOK, Pc, UNCHANGED link PROVE CoreOK'
  OBVIOUS
<1> USE Names DEF PointsOf, RxPoints, StdoutPoints, Sems, Awaits, Own
<1>0. link = "pc"
  BY DEF Pc
<1>1. CASE TaskSleep("kbd")
  BY <1>1, StepSleeps DEF TaskSleep
<1>2. CASE KbdTest
  BY <1>2, StepAlone DEF KbdTest
<1>3. CASE RxFunc("kbd", "sleep")
  BY <1>3, StepGives DEF RxFunc
<1>4. CASE RxStore("kbd", "sleep", key)
  BY <1>4, StepAlone DEF RxStore
<1>5. CASE TxFuncScreen
  BY <1>0, <1>5, StepAlone DEF TxFuncScreen
<1> QED BY <1>1, <1>2, <1>3, <1>4, <1>5 DEF Pc, KbdTask, KbdHand

LEMMA HandlesCore == CoreOK /\ Handles => CoreOK'
<1> SUFFICES ASSUME CoreOK, Handles PROVE CoreOK'
  OBVIOUS
<1> USE DEF IsrPoints
<1>0. isr \in IsrPoints /\ link \in {"pc", "com", "sam9", "rpi"} /\ UNCHANGED link
  BY Boarded DEF CoreOK, PcOK, Handles
<1>1. CASE IsrLine
  BY <1>0, <1>1, HandlerKeeps DEF IsrLine, Handler
<1>2. CASE IsrRxWake
  BY <1>0, <1>2, HandlerKeeps DEF IsrRxWake, Handler
<1>3. CASE IsrRx
  BY <1>0, <1>3, HandlerKeeps DEF IsrRx
<1>4. CASE IsrTx
  BY <1>0, <1>4, HandlerKeeps DEF IsrTx, Handler
<1>5. CASE Isr16550End
  BY <1>0, <1>5, HandlerEnds DEF Isr16550End
<1>6. CASE IsrTxSam
  BY <1>0, <1>6, HandlerKeeps DEF IsrTxSam, Handler
<1>7. CASE IsrRxSam
  BY <1>0, <1>7, HandlerKeeps DEF IsrRxSam
<1>8. CASE IsrSamEnd
  BY <1>0, <1>8, HandlerEnds DEF IsrSamEnd
<1>9. CASE IsrPi
  BY <1>0, <1>9, HandlerKeeps DEF IsrPi
<1>10. CASE IsrRxPi
  BY <1>0, <1>10, HandlerKeeps DEF IsrRxPi, Quietly
<1>11. CASE IsrPiEnd
  BY <1>0, <1>11, HandlerEnds DEF IsrPiEnd
<1>12. CASE IsrKbdEnd
  BY <1>0, <1>12, HandlerEnds DEF IsrKbdEnd
<1> QED BY <1>1, <1>2, <1>3, <1>4, <1>5, <1>6, <1>7, <1>8, <1>9, <1>10, <1>11, <1>12
     DEF Handles, Isr16550, IsrSam, IsrRpi

LEMMA CoreStep == CoreOK /\ [Next]_vars => CoreOK'
<1> SUFFICES ASSUME CoreOK, [Next]_vars PROVE CoreOK'
  OBVIOUS
<1>1. CASE Goes
  BY <1>1, StdioCore, DriversCore, PcCore DEF Goes
<1>2. CASE Handles
  BY <1>2, HandlesCore
<1>3. CASE Interrupt
  <2>1. isr' \in IsrPoints /\ isr' # "off"
    BY <1>3 DEF Interrupt, IsrPoints
  <2> QED BY <1>3, <2>1, HandlerKeeps DEF Interrupt, Quietly
<1>4. CASE Clock
  <2>1. /\ isr = "off" /\ status["log"] = "SLEEPING"
        /\ status' = [status EXCEPT !["log"] = "READY"] /\ HandlerEnd(status')
        /\ UNCHANGED <<count_now, missed, pc, link>>
    BY <1>4 DEF Clock
  <2>2. /\ status' \in [Tasks -> Statuses] /\ status'["log"] = "READY"
        /\ \A t \in Tasks : t # "log" => status'[t] = status[t]
    BY <2>1, Names DEF CoreOK, SchedType, Statuses
  <2>3. SchedType' /\ RunOK' /\ isr' = "off"
    BY <2>1, <2>2, EndEffect DEF CoreOK
  <2>4. PcOK'
    BY <2>1, <2>3 DEF CoreOK, PcOK, PointsOf, RxPoints, StdoutPoints, IsrPoints
  <2>5. StatusOK'
    BY <2>1, <2>2, Names DEF CoreOK, StatusOK
  <2> QED BY <2>3, <2>4, <2>5 DEF CoreOK
<1>5. CASE Calls
  <2> USE Names DEF PointsOf, WriterPoints, Writers
  <2>1. ASSUME NEW t \in Writers, NEW x, PutcharEnter(t, x), UNCHANGED link PROVE CoreOK'
    BY <2>1, StepAlone DEF PutcharEnter
  <2>2. CASE GetcharEnter("cli")
    BY <1>5, <2>2, StepGets DEF Calls, GetcharEnter, Awaits, Sems
  <2> QED BY <1>5, <2>1, <2>2 DEF Calls
<1>6. CASE Delay
  BY <1>6, StepSleeps, Names DEF Delay, PointsOf, WriterPoints, Awaits
<1>7. CASE LineIn \/ LineOut \/ UNCHANGED vars
  <2>1. UNCHANGED <<schedVars, pc, link>>
    BY <1>7 DEF LineIn, LineOut, vars
  <2> QED BY <2>1 DEF CoreOK, SchedType, RunOK, StatusOK, PcOK, PointsOf, RxPoints,
                      StdoutPoints, IsrPoints, schedVars
<1>8. CASE KeyIn
  <2>1. isr' \in IsrPoints /\ isr' # "off"
    BY <1>8 DEF KeyIn, IsrKbd, IsrPoints
  <2> QED BY <1>8, <2>1, HandlerKeeps DEF KeyIn, IsrKbd
<1> QED BY <1>1, <1>2, <1>3, <1>4, <1>5, <1>6, <1>7, <1>8 DEF Next

LEMMA CoreInit == Init => CoreOK
<1> SUFFICES ASSUME Init PROVE CoreOK
  OBVIOUS
<1> USE Names
<1>1. /\ link \in Boards /\ isr = "off" /\ missed = {}
      /\ \A t \in Tasks : /\ status[t] = (IF t = "kbd" /\ link # "pc" THEN "none" ELSE "READY")
                           /\ pc[t] = (CASE t = "rx" -> IF link = "sam9" THEN "sleep" ELSE "start"
                                          [] t = "stdout" -> "init"
                                          [] t \in Writers -> "user"
                                          [] OTHER -> "sleep")
      /\ run = First(status)
      /\ status \in [Tasks -> Statuses]
      /\ pc = [t \in Tasks |-> pc[t]]
  BY DEF Init, Statuses
<1>2. PcOK
  BY <1>1 DEF PcOK, PointsOf, RxPoints, StdoutPoints, WriterPoints, IsrPoints, Writers
<1>3. RunOK
  <2>1. "idle" \in Tasks /\ status["idle"] = "READY"
    BY <1>1
  <2> QED BY <1>1, <2>1, FirstReady DEF RunOK
<1>4. SchedType
  <2>1. /\ DOMAIN CountMax = Sems
        /\ count_now = [s \in DOMAIN CountMax |-> IF s \in {"rx", "tx_task"} THEN 0
                                                  ELSE CountMax[s]]
    BY DEF Init
  <2>2. count_now \in [Sems -> Nat] /\ \A s \in Sems : count_now[s] <= CountMax[s]
    BY <2>1
  <2> QED BY <1>1, <2>2 DEF SchedType
<1>5. StatusOK
  BY <1>1 DEF StatusOK, Writers
<1> QED BY <1>2, <1>3, <1>4, <1>5 DEF CoreOK

-----------------------------------------------------------------------------
(* What a step leaves alone.                                               *)
LEMMA StepOthers ==
  ASSUME CoreOK, NEW t \in Tasks, NEW from, NEW to, Step(t, from, to)
  PROVE  /\ pc[t] = from /\ pc'[t] = to /\ status[t] = "READY" /\ run = t /\ isr = "off"
         /\ \A u \in Tasks : u # t => pc'[u] = pc[u]
  BY DEF CoreOK, PcOK, RunOK, Step

LEMMA GetOthers ==
  ASSUME CoreOK, isr = "off", run # "idle", NEW s \in Sems, Get(s)
  PROVE  /\ \A u \in Tasks : u # run => status'[u] = status[u]
         /\ \A u \in Sems : u # s => count_now'[u] = count_now[u]
         /\ \/ count_now[s] > 0 /\ count_now'[s] = count_now[s] - 1 /\ status'[run] = "READY"
            \/ count_now[s] = 0 /\ count_now'[s] = 0 /\ status'[run] = s
         /\ UNCHANGED missed
  BY GetEffect DEF CoreOK, SchedType, RunOK

LEMMA GiveOthers ==
  ASSUME CoreOK, isr = "off", NEW s \in Sems, Give(s)
  PROVE  /\ \A u \in Sems : u # s => count_now'[u] = count_now[u]
         /\ \/ /\ count_now[s] = CountMax[s] /\ count_now'[s] = count_now[s]
               /\ UNCHANGED status
            \/ /\ count_now[s] < CountMax[s] /\ count_now'[s] = count_now[s] + 1
               /\ UNCHANGED status
            \/ /\ count_now[s] = 0 /\ count_now'[s] = 0
               /\ \E w \in Tasks : /\ status[w] = s /\ status'[w] = "READY"
                                   /\ \A u \in Tasks : u # w => status'[u] = status[u]
         /\ \A u \in Tasks : status'[u] = status[u] \/ (status[u] = s /\ status'[u] = "READY")
         /\ UNCHANGED missed
  BY GiveEffect DEF CoreOK, SchedType

(* The steps that leave the standard I/O's state, its semaphores and the   *)
(* waits for them as they are.                                             *)
Sending == {"tx_func", "queue", "check", "enable", "write", "wait_tx", "sent"}
IoSame ==
  /\ UNCHANGED <<io, c, ch, got, dropped>>
  /\ \A s \in {"rx", "tx_buf", "tx_task", "putchar"} : count_now'[s] = count_now[s]
  /\ \A t \in Writers : /\ pc'[t] = pc[t]
                        /\ pc[t] \in {"lock", "put", "char"} => status'[t] = status[t]
  /\ pc'["stdout"] = pc["stdout"] \/ {pc["stdout"], pc'["stdout"]} \subseteq Sending
  /\ \A t \in {"rx", "kbd"} : pc'[t] = "store" <=> pc[t] = "store"

LEMMA AloneIsSame ==
  ASSUME CoreOK, NEW t \in {"kbd", "tx", "rx", "stdout"}, NEW from, NEW to,
         Step(t, from, to), UNCHANGED schedVars, UNCHANGED ioVars,
         from # "store" /\ to # "store",
         t = "stdout" => {from, to} \subseteq Sending
  PROVE  IoSame
  BY StepOthers, Names DEF IoSame, Writers, schedVars, ioVars

LEMMA SleepIsSame ==
  ASSUME CoreOK, NEW t \in {"kbd", "tx", "rx"}, NEW from, NEW to,
         Step(t, from, to), Sleep, UNCHANGED ioVars, from # "store" /\ to # "store"
  PROVE  IoSame
<1>1. /\ \A u \in Tasks : u # t => status'[u] = status[u] /\ pc'[u] = pc[u]
      /\ pc[t] = from /\ pc'[t] = to /\ UNCHANGED count_now
  BY StepOthers, Names DEF CoreOK, SchedType, Sleep
<1> QED BY <1>1, Names DEF IoSame, Writers, ioVars

LEMMA SemIsSame ==
  ASSUME CoreOK, NEW t \in {"tx", "stdout"}, NEW from, NEW to,
         Step(t, from, to), NEW s \in {"tx", "tx_pi"}, Get(s) \/ Give(s), UNCHANGED ioVars,
         from # "store" /\ to # "store", t = "stdout" => {from, to} \subseteq Sending
  PROVE  IoSame
<1>1. /\ \A u \in Tasks : u # t => pc'[u] = pc[u]
      /\ pc[t] = from /\ pc'[t] = to /\ run = t /\ isr = "off"
  BY StepOthers, Names
<1>2. \A u \in Sems : u # s => count_now'[u] = count_now[u]
  BY <1>1, GetOthers, GiveOthers DEF Sems
<1>3. \A u \in Tasks : u # t => status'[u] = status[u] \/ status[u] = s
  BY <1>1, GetOthers, GiveOthers DEF Sems
<1>4. \A u \in Writers : pc[u] \in {"lock", "put", "char"} => status[u] # s
  BY Names DEF CoreOK, StatusOK, Awaits, Writers
<1> QED BY <1>1, <1>2, <1>3, <1>4, Names DEF IoSame, Writers, ioVars, Sems

LEMMA IoFrame ==
  CoreOK /\ [Next]_vars =>
    \/ Modules /\ UNCHANGED <<link, devVars, kbdVars, load>>
    \/ Calls
    \/ link # "rpi" /\ RxTaskHand("compare") /\ UNCHANGED <<kbdVars, link, load>>
    \/ link = "rpi" /\ RxTaskHandPi /\ UNCHANGED <<kbdVars, link, load>>
    \/ link = "pc" /\ KbdHand /\ UNCHANGED <<link, load>>
    \/ IoSame
<1> SUFFICES ASSUME CoreOK, [Next]_vars,
                    ~(Modules /\ UNCHANGED <<link, devVars, kbdVars, load>>), ~Calls,
                    ~(link # "rpi" /\ RxTaskHand("compare") /\ UNCHANGED <<kbdVars, link, load>>),
                    ~(link = "rpi" /\ RxTaskHandPi /\ UNCHANGED <<kbdVars, link, load>>),
                    ~(link = "pc" /\ KbdHand /\ UNCHANGED <<link, load>>)
             PROVE  IoSame
  OBVIOUS
<1> USE DEF Own
<1>1. CASE Drivers /\ UNCHANGED <<link, load>>
  <2>1. ASSUME NEW t \in {"rx", "tx"}, TaskSleep(t) PROVE IoSame
    BY <2>1, SleepIsSame DEF TaskSleep
  <2>2. ASSUME NEW l, RxTaskTest(l, "compare") PROVE IoSame
    BY <2>2, AloneIsSame DEF RxTaskTest
  <2>3. CASE RxTaskStart \/ RxTaskCompare \/ RxTaskNext \/ RxTaskTake
    BY <2>3, AloneIsSame DEF RxTaskStart, RxTaskCompare, RxTaskNext, RxTaskTake
  <2>4. ASSUME NEW from \in {"start", "enable"}, ReadBits("rx", from, "write") PROVE IoSame
    BY <2>4, AloneIsSame DEF ReadBits
  <2>5. ASSUME NEW a, NEW b, WriteBits("rx", "write", "test", a, b) PROVE IoSame
    BY <2>5, AloneIsSame DEF WriteBits
  <2>6. ASSUME NEW more, TxTaskGive(more) PROVE IoSame
    <3>1. CASE more
      BY <2>6, <3>1, SemIsSame DEF TxTaskGive
    <3>2. CASE ~more
      BY <2>6, <3>2, AloneIsSame DEF TxTaskGive
    <3> QED BY <3>1, <3>2
  <2>7. CASE TxRoom \/ TxWait
    BY <2>7, SemIsSame DEF TxRoom, TxWait, Sending
  <2>8. CASE TxQueue \/ TxCheck \/ TxWrite \/ ReadBits("stdout", "enable", "write")
    BY <2>8, AloneIsSame DEF TxQueue, TxCheck, TxWrite, ReadBits, Sending
  <2>9. ASSUME NEW a, NEW b, WriteBits("stdout", "write", "sent", a, b) PROVE IoSame
    BY <2>9, AloneIsSame DEF WriteBits, Sending
  <2>10. ASSUME NEW a, Enable("rx", "enable", "test", a) PROVE IoSame
    BY <2>10, AloneIsSame DEF Enable
  <2>11. ASSUME NEW a, Enable("stdout", "enable", "sent", a) PROVE IoSame
    BY <2>11, AloneIsSame DEF Enable, Sending
  <2>12. ASSUME NEW a, WriteMask("rx", "write", "sleep", a) PROVE IoSame
    BY <2>12, AloneIsSame DEF WriteMask
  <2>13. ASSUME NEW a, WriteMask("stdout", "write", "wait_tx", a) PROVE IoSame
    BY <2>13, AloneIsSame DEF WriteMask, Sending
  <2>14. ASSUME Step("tx", "test", "sleep"), Give("tx_pi"), UNCHANGED ioVars PROVE IoSame
    BY <2>14, SemIsSame
  <2> QED
    BY <1>1, <2>1, <2>2, <2>3, <2>4, <2>5, <2>6, <2>7, <2>8, <2>9, <2>10, <2>11, <2>12,
       <2>13, <2>14
       DEF Drivers, RxTask16550, TxTask16550, TxFunc16550, RxTaskSam, TxFuncSam, TxTaskSam,
           RxTaskPi, TxFuncPi, TxTaskPi
<1>2. CASE Pc /\ UNCHANGED <<link, load>>
  <2>1. CASE TaskSleep("kbd")
    BY <2>1, SleepIsSame DEF TaskSleep
  <2>2. CASE KbdTest
    BY <2>2, AloneIsSame DEF KbdTest
  <2>3. CASE TxFuncScreen
    BY <2>3, AloneIsSame DEF TxFuncScreen, Sending
  <2> QED BY <1>2, <2>1, <2>2, <2>3 DEF Pc, KbdTask
<1>3. ASSUME UNCHANGED <<pc, count_now, ioVars>>,
             Quietly \/ \E t \in {"rx", "tx", "kbd"} : Wake(t)
      PROVE  IoSame
  <2>1. \A u \in Writers : status'[u] = status[u]
    BY <1>3, Names DEF CoreOK, SchedType, Quietly, Wake, Writers
  <2> QED BY <1>3, <2>1 DEF IoSame, ioVars
<1>4. CASE Handles
  BY <1>3, <1>4 DEF Handles, Isr16550, IsrSam, IsrRpi, IsrLine, IsrRxWake, IsrRx, IsrTx,
       Isr16550End, IsrTxSam, IsrRxSam, IsrSamEnd, IsrPi, IsrRxPi, IsrPiEnd, IsrKbdEnd,
       Handler, Quietly
<1>5. CASE Interrupt \/ LineIn \/ LineOut \/ KeyIn \/ UNCHANGED vars
  BY <1>3, <1>5 DEF Interrupt, LineIn, LineOut, KeyIn, IsrKbd, Quietly, vars, schedVars
<1>6. CASE Clock
  <2>1. \A u \in Writers : pc[u] \in {"lock", "put", "char"} => status'[u] = status[u]
    BY <1>6, Names DEF Clock, CoreOK, SchedType, StatusOK, Awaits, Writers
  <2> QED BY <1>6, <2>1 DEF Clock, IoSame, ioVars
<1>7. CASE Delay
  <2>1. /\ \A u \in Tasks : u # "log" => status'[u] = status[u]
        /\ UNCHANGED count_now /\ \A u \in Tasks : pc'[u] = pc[u]
        /\ pc["log"] = "user"
    BY <1>7, StepOthers, Names DEF Delay, CoreOK, SchedType, Sleep
  <2> QED BY <1>7, <2>1, Names DEF Delay, IoSame, ioVars, Writers
<1> QED BY <1>1, <1>2, <1>4, <1>5, <1>6, <1>7 DEF Next, Goes

-----------------------------------------------------------------------------
(* What the variables hold.                                                *)
IoBufs == [1..IoSize -> Data]
DevBufs == [1..DevSize -> Data]
IoTypes == [rx_buf : IoBufs, rx_p : Nat, rx_c : Nat,
            tx_buf : IoBufs, tx_p : Nat, tx_c : Nat, tx_init : BOOLEAN]
IoType ==
  /\ io \in IoTypes
  /\ c \in Data /\ ch \in [Writers -> Data] /\ dropped \in BOOLEAN

HwTypes == [rx_on : BOOLEAN, tx_on : BOOLEAN, rx_fifo : Seq(Data), tx_fifo : Seq(Data),
            overrun : BOOLEAN, tx_int : BOOLEAN, rx_int : BOOLEAN, shift : Seq(Data)]
DevTypes == [rx_buf : DevBufs, rx_p : Nat, rx_c : Nat,
             tx_buf : DevBufs, tx_p : Nat, tx_c : Nat, tx_t : Nat]
DevType ==
  /\ dev \in DevTypes /\ hw \in HwTypes
  /\ Len(hw.rx_fifo) <= Fifo /\ Len(hw.tx_fifo) <= Fifo
  /\ val \in [{"rx", "stdout"} -> 0..3]
  /\ shut \in BOOLEAN /\ lost \subseteq {"rx", "tx", "line", "key"}
  /\ key \in Data /\ fresh \in BOOLEAN

(* Nothing is sent before it was put in the ring, the 16550 says that it   *)
(* may be given more when it has sent everything, and its handler reads    *)
(* only what has been received.                                            *)
FifoOK ==
  /\ dev.tx_c <= dev.tx_p
  /\ link = "pc" => dev.tx_p = 0
  /\ link \in {"pc", "com"} /\ hw.tx_int => hw.tx_fifo = <<>>
  /\ isr = "16550_rx" => hw.rx_on /\ hw.rx_fifo # <<>>

LoadType ==
  /\ load \in [put : Nat, came : Nat, cli : Nat, log : Nat, come : Nat, ticks : Nat]
  /\ 1..(load.put + load.cli + load.log) \subseteq Chars
  /\ 1..(load.came + load.come) \subseteq Chars

DataOK == IoType /\ DevType /\ FifoOK /\ LoadType

LEMMA Rings ==
  ASSUME NEW n \in Nat \ {0}, NEW buf \in [1..n -> Data], NEW p \in Int
  PROVE  /\ Len(buf) = n /\ p % n \in 0..(n - 1) /\ (p % n) + 1 \in 1..n
         /\ At(buf, p) \in Data
         /\ \A x \in Data : Put(buf, p, x) \in [1..n -> Data]
<1>1. Len(buf) = n
  OBVIOUS
<1>2. p % n \in 0..(n - 1)
  OBVIOUS
<1> QED BY <1>1, <1>2 DEF At, Put

LEMMA Sizes ==
  /\ IoSize \in Nat \ {0} /\ DevSize \in Nat \ {0} /\ Fifo \in Nat \ {0}
  /\ NewLines \subseteq Data /\ CR \in Data /\ Chars \subseteq Data
  BY ConsoleAssumption DEF Data

LEMMA IoPut ==
  ASSUME NEW buf \in IoBufs, NEW p \in Int, NEW x \in Data
  PROVE  Put(buf, p, x) \in IoBufs
<1>1. IoSize \in Nat \ {0}
  BY Sizes
<1> QED BY <1>1, Rings DEF IoBufs

LEMMA IoAt ==
  ASSUME NEW buf \in IoBufs, NEW p \in Int
  PROVE  At(buf, p) \in Data
<1>1. IoSize \in Nat \ {0}
  BY Sizes
<1> QED BY <1>1, Rings DEF IoBufs

LEMMA DevPut ==
  ASSUME NEW buf \in DevBufs, NEW p \in Int, NEW x \in Data
  PROVE  Put(buf, p, x) \in DevBufs
<1>1. DevSize \in Nat \ {0}
  BY Sizes
<1> QED BY <1>1, Rings DEF DevBufs

LEMMA DevAt ==
  ASSUME NEW buf \in DevBufs, NEW p \in Int
  PROVE  At(buf, p) \in Data
<1>1. DevSize \in Nat \ {0}
  BY Sizes
<1> QED BY <1>1, Rings DEF DevBufs

LEMMA Lens == /\ \A buf \in IoBufs : Len(buf) = IoSize
              /\ \A buf \in DevBufs : Len(buf) = DevSize
  BY Sizes DEF IoBufs, DevBufs

LEMMA IoRecord ==
  ASSUME NEW r \in IoTypes, NEW n \in Nat
  PROVE  /\ \A b \in IoBufs : [r EXCEPT !.rx_buf = b, !.rx_p = n] \in IoTypes
         /\ \A b \in IoBufs : [r EXCEPT !.tx_buf = b] \in IoTypes
         /\ [r EXCEPT !.rx_c = n] \in IoTypes
         /\ [r EXCEPT !.tx_p = n] \in IoTypes
         /\ [r EXCEPT !.tx_c = n] \in IoTypes
         /\ [r EXCEPT !.tx_init = TRUE] \in IoTypes
<1>1. ASSUME NEW b \in IoBufs PROVE [r EXCEPT !.rx_buf = b, !.rx_p = n] \in IoTypes
  BY DEF IoTypes
<1>2. ASSUME NEW b \in IoBufs PROVE [r EXCEPT !.tx_buf = b] \in IoTypes
  BY DEF IoTypes
<1>3. [r EXCEPT !.rx_c = n] \in IoTypes
  BY DEF IoTypes
<1>4. [r EXCEPT !.tx_p = n] \in IoTypes
  BY DEF IoTypes
<1>5. [r EXCEPT !.tx_c = n] \in IoTypes
  BY DEF IoTypes
<1>6. [r EXCEPT !.tx_init = TRUE] \in IoTypes
  BY DEF IoTypes
<1> QED BY <1>1, <1>2, <1>3, <1>4, <1>5, <1>6

LEMMA IoTypeStep == CoreOK /\ DataOK /\ [Next]_vars => IoType'
<1> SUFFICES ASSUME CoreOK, DataOK, [Next]_vars PROVE IoType'
  OBVIOUS
<1>0. /\ io \in IoTypes /\ c \in Data /\ ch \in [Writers -> Data] /\ dropped \in BOOLEAN
      /\ io.rx_p \in Nat /\ io.rx_c \in Nat /\ io.tx_p \in Nat /\ io.tx_c \in Nat
      /\ io.rx_buf \in IoBufs /\ io.tx_buf \in IoBufs /\ CR \in Data
  BY Sizes DEF DataOK, IoType, IoTypes
<1>1. ASSUME NEW t, NEW after, RxFunc(t, after) PROVE IoType'
  BY <1>0, <1>1 DEF IoType, RxFunc
<1>2. ASSUME NEW t, NEW after, NEW x \in Data, RxStore(t, after, x) PROVE IoType'
  <2>1. Put(io.rx_buf, io.rx_p, x) \in IoBufs /\ io.rx_p + 1 \in Nat
    BY <1>0, IoPut
  <2>2. io' \in IoTypes
    BY <1>0, <1>2, <2>1, IoRecord DEF RxStore
  <2> QED BY <1>0, <1>2, <2>2 DEF RxStore, IoType
<1>3. CASE Modules
  <2>1. CASE StdoutInit \/ StdoutWait \/ StdoutEmpty \/ StdoutNext
    <3>1. io' \in IoTypes
      BY <1>0, <2>1, IoRecord DEF StdoutInit, StdoutWait, StdoutEmpty, StdoutNext, ioVars
    <3> QED BY <1>0, <2>1, <3>1 DEF StdoutInit, StdoutWait, StdoutEmpty, StdoutNext, IoType,
                                    ioVars
  <2>2. CASE StdoutTake
    <3>1. At(io.tx_buf, io.tx_c) \in Data /\ io.tx_c + 1 \in Nat
      BY <1>0, IoAt
    <3>2. io' \in IoTypes
      BY <1>0, <2>2, <3>1, IoRecord DEF StdoutTake
    <3> QED BY <1>0, <2>2, <3>1, <3>2 DEF StdoutTake, IoType
  <2>3. ASSUME NEW t \in Writers, Putchar(t) PROVE IoType'
    <3>1. ch[t] \in Data /\ io.tx_p + 1 \in Nat
      BY <1>0
    <3>2. Put(io.tx_buf, io.tx_p, ch[t]) \in IoBufs
      BY <1>0, <3>1, IoPut
    <3>3. CASE PutcharStore(t)
      <4>1. io' \in IoTypes
        BY <1>0, <3>2, <3>3, IoRecord DEF PutcharStore
      <4> QED BY <1>0, <3>3, <4>1 DEF PutcharStore, IoType
    <3>4. CASE PutcharNext(t)
      <4>1. io' \in IoTypes
        BY <1>0, <3>1, <3>4, IoRecord DEF PutcharNext
      <4> QED BY <1>0, <3>4, <4>1 DEF PutcharNext, IoType
    <3> QED BY <1>0, <2>3, <3>3, <3>4
            DEF Putchar, PutcharPlace, PutcharLock, PutcharUnlock, PutcharTell, ioVars, IoType
  <2>4. CASE Getchar("cli")
    <3>1. io.rx_c + 1 \in Nat
      BY <1>0
    <3>2. io' \in IoTypes
      BY <1>0, <2>4, <3>1, IoRecord DEF Getchar
    <3> QED BY <1>0, <2>4, <3>2 DEF Getchar, IoType
  <2> QED BY <1>3, <2>1, <2>2, <2>3, <2>4 DEF Modules, Stdout
<1>4. CASE Calls
  <2>1. ASSUME NEW t \in Writers, load[t] > 0, PutcharEnter(t, load.put + 1) PROVE IoType'
    <3>1. load.put + 1 \in Data
      <4>1. load.put + 1 \in 1..(load.put + load.cli + load.log)
        BY <2>1 DEF DataOK, LoadType, Writers
      <4> QED BY <4>1 DEF DataOK, LoadType, Data
    <3> QED BY <1>0, <2>1, <3>1 DEF PutcharEnter, IoType
  <2> QED BY <1>0, <1>4, <2>1 DEF Calls, GetcharEnter, IoType, ioVars
<1>5. At(dev.rx_buf, dev.rx_c) \in Data /\ At(dev.rx_buf, dev.rx_c - 1) \in Data
             /\ key \in Data
  <2>1. dev.rx_buf \in DevBufs /\ dev.rx_c \in Int /\ dev.rx_c - 1 \in Int /\ key \in Data
    BY DEF DataOK, DevType, DevTypes
  <2> QED BY <1>0, <2>1, DevAt
<1>6. IoSame => IoType'
  BY <1>0 DEF IoSame, IoType
<1>7. RxTaskHand("compare") \/ RxTaskHandPi \/ KbdHand => IoType'
  BY <1>1, <1>2, <1>5 DEF RxTaskHand, RxTaskHandPi, KbdHand
<1> QED BY <1>3, <1>4, <1>6, <1>7, IoFrame

(* Who changes what the driver and the device hold.                        *)
Drives ==
  \/ /\ link \in {"pc", "com"}
     /\ \/ RxTaskStart \/ ReadBits("rx", "enable", "write")
        \/ WriteBits("rx", "write", "test", TRUE, FALSE) \/ TxTaskGive(dev.tx_t # dev.tx_c)
  \/ link # "rpi" /\ (RxTaskCompare \/ RxTaskNext)
  \/ link \in {"com", "sam9"} /\ TxQueue
  \/ /\ link = "com"
     /\ \/ ReadBits("stdout", "enable", "write")
        \/ WriteBits("stdout", "write", "sent", FALSE, TRUE)
  \/ /\ link = "sam9"
     /\ \/ Enable("rx", "enable", "test", TRUE) \/ Enable("stdout", "enable", "sent", FALSE)
        \/ TxTaskGive(dev.tx_t <= dev.tx_c)
  \/ /\ link = "rpi"
     /\ \/ RxTaskTake \/ ReadBits("rx", "start", "write")
        \/ WriteMask("rx", "write", "sleep", TRUE) \/ TxWrite
        \/ ReadBits("stdout", "enable", "write")
        \/ WriteMask("stdout", "write", "wait_tx", FALSE)

LEMMA DevFrame ==
  CoreOK /\ [Next]_vars =>
    \/ Drives /\ UNCHANGED <<link, kbdVars, load>>
    \/ (Isr16550 \/ IsrSam \/ IsrRpi) /\ UNCHANGED <<link, kbdVars, load>>
    \/ LineIn \/ LineOut \/ KeyIn
    \/ KbdHand /\ UNCHANGED <<link, load>>
    \/ Calls
    \/ UNCHANGED <<link, devVars, kbdVars, load>>
    \/ Clock
<1> SUFFICES ASSUME CoreOK, [Next]_vars, ~(Drives /\ UNCHANGED <<link, kbdVars, load>>)
             PROVE  \/ (Isr16550 \/ IsrSam \/ IsrRpi) /\ UNCHANGED <<link, kbdVars, load>>
                    \/ LineIn \/ LineOut \/ KeyIn
                    \/ KbdHand /\ UNCHANGED <<link, load>>
                    \/ Calls
                    \/ UNCHANGED <<link, devVars, kbdVars, load>>
                    \/ Clock
  OBVIOUS
<1>1. CASE Drivers /\ UNCHANGED <<link, load>>
  <2>1. UNCHANGED <<link, load, kbdVars>> /\ ~Drives
    BY <1>1 DEF Drivers
  <2>2. ASSUME NEW t, TaskSleep(t) PROVE UNCHANGED devVars
    BY <2>2 DEF TaskSleep
  <2>3. ASSUME NEW l, RxTaskTest(l, "compare") PROVE UNCHANGED devVars
    BY <2>3 DEF RxTaskTest
  <2>4. CASE RxTaskHand("compare") \/ RxTaskHandPi \/ TxRoom \/ TxCheck \/ TxWait
    BY <2>1, <2>4 DEF RxTaskHand, RxTaskHandPi, TxRoom, TxCheck, TxWait
  <2>5. CASE link \in {"pc", "com"} /\ RxTask16550
    BY <2>1, <2>2, <2>3, <2>4, <2>5 DEF RxTask16550, Drives
  <2>6. CASE link = "sam9" /\ RxTaskSam
    BY <2>1, <2>2, <2>3, <2>4, <2>6 DEF RxTaskSam, Drives
  <2>7. CASE link = "rpi" /\ RxTaskPi
    BY <2>1, <2>2, <2>4, <2>7 DEF RxTaskPi, Drives
  <2>8. CASE link = "com" /\ TxFunc16550
    BY <2>1, <2>4, <2>8 DEF TxFunc16550, Drives
  <2>9. CASE link = "sam9" /\ TxFuncSam
    BY <2>1, <2>4, <2>9 DEF TxFuncSam, Drives
  <2>10. CASE link = "rpi" /\ TxFuncPi
    BY <2>1, <2>4, <2>10 DEF TxFuncPi, Drives
  <2>11. CASE \/ link \in {"pc", "com"} /\ TxTask16550
              \/ link = "sam9" /\ TxTaskSam
    BY <2>1, <2>2, <2>11 DEF TxTask16550, TxTaskSam, Drives
  <2>12. CASE TxTaskPi
    BY <2>1, <2>2, <2>12 DEF TxTaskPi
  <2> QED BY <1>1, <2>5, <2>6, <2>7, <2>8, <2>9, <2>10, <2>11, <2>12 DEF Drivers
<1>2. CASE Pc /\ UNCHANGED <<link, load>>
  BY <1>2 DEF Pc, KbdTask, KbdTest, TaskSleep, TxFuncScreen
<1>3. CASE Handles
  BY <1>3 DEF Handles, IsrKbdEnd
<1>4. CASE Interrupt \/ Delay \/ UNCHANGED vars
  BY <1>4 DEF Interrupt, Delay, vars
<1> QED BY <1>1, <1>2, <1>3, <1>4 DEF Next, Goes

LoadTypes == [put : Nat, came : Nat, cli : Nat, log : Nat, come : Nat, ticks : Nat]

LEMMA LoadTypeStep == CoreOK /\ DataOK /\ [Next]_vars => LoadType'
<1> SUFFICES ASSUME CoreOK, DataOK, [Next]_vars PROVE LoadType'
  OBVIOUS
<1>0. /\ load \in LoadTypes /\ load.put \in Nat /\ load.cli \in Nat /\ load.log \in Nat
      /\ load.came \in Nat /\ load.come \in Nat /\ load.ticks \in Nat
      /\ 1..(load.put + load.cli + load.log) \subseteq Chars
      /\ 1..(load.came + load.come) \subseteq Chars
  BY DEF DataOK, LoadType, LoadTypes
<1> SUFFICES /\ load' \in LoadTypes
             /\ load'.put + load'.cli + load'.log = load.put + load.cli + load.log
             /\ load'.came + load'.come = load.came + load.come
  BY <1>0 DEF LoadType, LoadTypes
<1>1. ASSUME load.come > 0, load' = [load EXCEPT !.come = @ - 1, !.came = @ + 1]
      PROVE  /\ load' \in LoadTypes
             /\ load'.put + load'.cli + load'.log = load.put + load.cli + load.log
             /\ load'.came + load'.come = load.came + load.come
  <2>1. load.come - 1 \in Nat /\ load.came + 1 \in Nat
    BY <1>0, <1>1
  <2>2. \A m, n \in Nat : [load EXCEPT !.come = m, !.came = n] \in LoadTypes
    BY <1>0 DEF LoadTypes
  <2>3. load' \in LoadTypes
    BY <1>1, <2>1, <2>2
  <2> QED BY <1>0, <1>1, <2>3 DEF LoadTypes
<1>2. CASE LineIn \/ KeyIn
  BY <1>1, <1>2 DEF LineIn, KeyIn, Comes
<1>3. CASE Clock
  <2>1. load.ticks - 1 \in Nat /\ load' = [load EXCEPT !.ticks = @ - 1]
    BY <1>0, <1>3 DEF Clock
  <2> QED BY <1>0, <2>1 DEF LoadTypes
<1>4. CASE Calls
  <2>1. CASE UNCHANGED load
    BY <1>0, <2>1
  <2>2. CASE load.cli > 0 /\ load' = [load EXCEPT !.cli = @ - 1, !.put = @ + 1]
    <3>1. load.cli - 1 \in Nat /\ load.put + 1 \in Nat
      BY <1>0, <2>2
    <3>2. \A m, n \in Nat : [load EXCEPT !.cli = m, !.put = n] \in LoadTypes
      BY <1>0 DEF LoadTypes
    <3>3. load' \in LoadTypes
      BY <2>2, <3>1, <3>2
    <3> QED BY <1>0, <2>2, <3>3 DEF LoadTypes
  <2>3. CASE load.log > 0 /\ load' = [load EXCEPT !.log = @ - 1, !.put = @ + 1]
    <3>1. load.log - 1 \in Nat /\ load.put + 1 \in Nat
      BY <1>0, <2>3
    <3>2. \A m, n \in Nat : [load EXCEPT !.log = m, !.put = n] \in LoadTypes
      BY <1>0 DEF LoadTypes
    <3>3. load' \in LoadTypes
      BY <2>3, <3>1, <3>2
    <3> QED BY <1>0, <2>3, <3>3 DEF LoadTypes
  <2> QED BY <1>4, <2>1, <2>2, <2>3 DEF Calls, Writers
<1>5. CASE LineOut \/ UNCHANGED load
  BY <1>0, <1>5 DEF LineOut
<1> QED BY <1>2, <1>3, <1>4, <1>5, DevFrame

LEMMA RingIs ==
  ASSUME NEW n \in Nat \ {0}, NEW buf \in [1..n -> Data], NEW from \in Nat, NEW to \in Nat,
         from <= to
  PROVE  /\ Ring(buf, from, to) \in Seq(Data) /\ Len(Ring(buf, from, to)) = to - from
         /\ \A i \in 1..(to - from) : Ring(buf, from, to)[i] = At(buf, from + i - 1)
<1>1. to - from \in Nat /\ \A i \in 1..(to - from) : from + i - 1 \in Int
  OBVIOUS
<1>2. \A i \in 1..(to - from) : buf[((from + i - 1) % Len(buf)) + 1] \in Data
  BY <1>1, Rings DEF At
<1>3. Ring(buf, from, to) \in [1..(to - from) -> Data]
  BY <1>2 DEF Ring
<1>4. \A i \in 1..(to - from) : Ring(buf, from, to)[i] = At(buf, from + i - 1)
  BY DEF Ring, At
<1> HIDE DEF Ring
<1> QED BY <1>1, <1>3, <1>4

LEMMA DevRing ==
  ASSUME NEW buf \in DevBufs, NEW from \in Nat, NEW to \in Nat, from <= to
  PROVE  /\ Ring(buf, from, to) \in Seq(Data) /\ Len(Ring(buf, from, to)) = to - from
         /\ \A i \in 1..(to - from) : Ring(buf, from, to)[i] = At(buf, from + i - 1)
<1>1. DevSize \in Nat \ {0}
  BY Sizes
<1>2. buf \in [1..DevSize -> Data]
  BY DEF DevBufs
<1> QED BY <1>1, <1>2, RingIs

LEMMA DevRecord ==
  ASSUME NEW d \in DevTypes, NEW n \in Nat
  PROVE  /\ \A b \in DevBufs : [d EXCEPT !.rx_buf = b, !.rx_p = n] \in DevTypes
         /\ \A b \in DevBufs : [d EXCEPT !.tx_buf = b, !.tx_p = n] \in DevTypes
         /\ [d EXCEPT !.rx_c = n] \in DevTypes
         /\ [d EXCEPT !.tx_c = n] \in DevTypes
         /\ [d EXCEPT !.tx_t = n] \in DevTypes
<1>1. ASSUME NEW b \in DevBufs PROVE [d EXCEPT !.rx_buf = b, !.rx_p = n] \in DevTypes
  BY DEF DevTypes
<1>2. ASSUME NEW b \in DevBufs PROVE [d EXCEPT !.tx_buf = b, !.tx_p = n] \in DevTypes
  BY DEF DevTypes
<1>3. [d EXCEPT !.rx_c = n] \in DevTypes
  BY DEF DevTypes
<1>4. [d EXCEPT !.tx_c = n] \in DevTypes
  BY DEF DevTypes
<1>5. [d EXCEPT !.tx_t = n] \in DevTypes
  BY DEF DevTypes
<1> QED BY <1>1, <1>2, <1>3, <1>4, <1>5

LEMMA ReceivedIs ==
  ASSUME NEW d \in DevTypes, NEW x \in Data
  PROVE  /\ Received(d, x) \in DevTypes /\ Received(d, x).rx_p = d.rx_p + 1
         /\ Received(d, x).rx_buf = Put(d.rx_buf, d.rx_p, x)
         /\ Received(d, x).rx_c = d.rx_c /\ Received(d, x).tx_buf = d.tx_buf
         /\ Received(d, x).tx_p = d.tx_p /\ Received(d, x).tx_c = d.tx_c
         /\ Received(d, x).tx_t = d.tx_t
<1>1. d.rx_p \in Nat /\ d.rx_p + 1 \in Nat /\ d.rx_buf \in DevBufs
  BY DEF DevTypes
<1>2. Put(d.rx_buf, d.rx_p, x) \in DevBufs
  BY <1>1, DevPut
<1>3. Received(d, x) \in DevTypes
  BY <1>1, <1>2, DevRecord DEF Received
<1> QED BY <1>3 DEF Received, DevTypes

LEMMA QueuedIs ==
  ASSUME NEW d \in DevTypes, NEW x \in Data
  PROVE  /\ Queued(d, x) \in DevTypes /\ Queued(d, x).tx_p = d.tx_p + 1
         /\ Queued(d, x).tx_buf = Put(d.tx_buf, d.tx_p, x)
         /\ Queued(d, x).rx_c = d.rx_c /\ Queued(d, x).rx_buf = d.rx_buf
         /\ Queued(d, x).rx_p = d.rx_p /\ Queued(d, x).tx_c = d.tx_c
         /\ Queued(d, x).tx_t = d.tx_t
<1>1. d.tx_p \in Nat /\ d.tx_p + 1 \in Nat /\ d.tx_buf \in DevBufs
  BY DEF DevTypes
<1>2. Put(d.tx_buf, d.tx_p, x) \in DevBufs
  BY <1>1, DevPut
<1>3. Queued(d, x) \in DevTypes
  BY <1>1, <1>2, DevRecord DEF Queued
<1> QED BY <1>3 DEF Queued, DevTypes

(* The 16550 is given what there is, but no more than it holds.            *)
LEMMA TxBurst ==
  ASSUME DataOK, link \in {"pc", "com"}, IsrTx
  PROVE  \E n \in 0..(dev.tx_p - dev.tx_c) :
           LET q == SubSeq(Ring(dev.tx_buf, dev.tx_c, dev.tx_p), 1, n)
           IN  /\ hw.tx_fifo = <<>> /\ n <= Fifo
               /\ q \in Seq(Data) /\ Len(q) = n
               /\ \A i \in 1..n : q[i] = At(dev.tx_buf, dev.tx_c + i - 1)
               /\ dev' = [dev EXCEPT !.tx_c = dev.tx_c + n]
               /\ hw' = [hw EXCEPT !.tx_fifo = q, !.tx_int = FALSE, !.tx_on = n # 0]
<1> DEFINE queued == Ring(dev.tx_buf, dev.tx_c, dev.tx_p)
           n == IF Len(queued) < Fifo THEN Len(queued) ELSE Fifo
           q == SubSeq(queued, 1, n)
<1>1. /\ dev.tx_c \in Nat /\ dev.tx_p \in Nat /\ dev.tx_c <= dev.tx_p
      /\ dev.tx_buf \in DevBufs /\ Fifo \in Nat \ {0}
  BY Sizes DEF DataOK, DevType, FifoOK, DevTypes
<1>2. /\ queued \in Seq(Data) /\ Len(queued) = dev.tx_p - dev.tx_c
      /\ \A i \in 1..(dev.tx_p - dev.tx_c) : queued[i] = At(dev.tx_buf, dev.tx_c + i - 1)
  BY <1>1, DevRing
<1>3. hw.tx_fifo = <<>>
  <2>1. TxPending
    BY DEF IsrTx
  <2> QED BY <2>1 DEF TxPending, DataOK, FifoOK
<1> HIDE DEF queued
<1>4. n \in 0..(dev.tx_p - dev.tx_c) /\ n <= Fifo
  BY <1>1, <1>2
<1>5. /\ q \in Seq(Data) /\ Len(q) = n
      /\ \A i \in 1..n : q[i] = At(dev.tx_buf, dev.tx_c + i - 1)
  BY <1>1, <1>2, <1>4
<1>6. <<>> \o q = q
  BY <1>5
<1>7. /\ dev' = [dev EXCEPT !.tx_c = dev.tx_c + n]
      /\ hw' = [hw EXCEPT !.tx_fifo = hw.tx_fifo \o q, !.tx_int = FALSE, !.tx_on = n # 0]
  BY <1>3 DEF IsrTx, queued
<1>8. hw' = [hw EXCEPT !.tx_fifo = q, !.tx_int = FALSE, !.tx_on = n # 0]
  BY <1>3, <1>6, <1>7
<1> HIDE DEF n
<1> QED BY <1>3, <1>4, <1>5, <1>7, <1>8 DEF queued

LEMMA DevStep ==
  CoreOK /\ DataOK /\ [Next]_vars =>
    dev' \in DevTypes /\ dev'.tx_c <= dev'.tx_p /\ (link' = "pc" => dev'.tx_p = 0)
<1> SUFFICES ASSUME CoreOK, DataOK, [Next]_vars
             PROVE  /\ dev' \in DevTypes /\ dev'.tx_c <= dev'.tx_p
                    /\ link' = "pc" => dev'.tx_p = 0
  OBVIOUS
<1>0. /\ dev \in DevTypes /\ c \in Data /\ dev.tx_c <= dev.tx_p /\ (link = "pc" => dev.tx_p = 0)
      /\ dev.rx_c \in Nat /\ dev.rx_p \in Nat /\ dev.tx_c \in Nat /\ dev.tx_p \in Nat
      /\ dev.tx_t \in Nat /\ dev.rx_c + 1 \in Nat /\ dev.tx_c + 1 \in Nat /\ dev.tx_t + 1 \in Nat
      /\ hw.rx_fifo \in Seq(Data)
  BY DEF DataOK, DevType, IoType, DevTypes, HwTypes, FifoOK
<1> DEFINE Good == dev' \in DevTypes /\ dev'.tx_c <= dev'.tx_p /\ (link' = "pc" => dev'.tx_p = 0)
<1>1. ASSUME UNCHANGED <<dev, link>> PROVE Good
  BY <1>0, <1>1
<1>2. ASSUME UNCHANGED link, dev' = [dev EXCEPT !.rx_c = dev.rx_c + 1] PROVE Good
  <2>1. dev' \in DevTypes
    BY <1>0, <1>2, DevRecord
  <2> QED BY <1>0, <1>2, <2>1 DEF DevTypes
<1>3. ASSUME UNCHANGED link, dev' = [dev EXCEPT !.tx_t = dev.tx_t + 1] PROVE Good
  <2>1. dev' \in DevTypes
    BY <1>0, <1>3, DevRecord
  <2> QED BY <1>0, <1>3, <2>1 DEF DevTypes
<1>4. ASSUME UNCHANGED link, NEW n \in 0..(dev.tx_p - dev.tx_c),
             dev' = [dev EXCEPT !.tx_c = dev.tx_c + n]
      PROVE  Good
  <2>0. dev.tx_c + n \in Nat /\ dev.tx_c + n <= dev.tx_p
    BY <1>0, <1>4
  <2>1. dev' \in DevTypes
    BY <1>0, <1>4, <2>0, DevRecord
  <2> QED BY <1>0, <1>4, <2>0, <2>1 DEF DevTypes
<1>5. ASSUME UNCHANGED link, NEW x \in Data, dev' = Received(dev, x) PROVE Good
  BY <1>0, <1>5, ReceivedIs
<1>6. ASSUME UNCHANGED link, link # "pc", dev' = Queued(dev, c) PROVE Good
  BY <1>0, <1>6, QueuedIs
<1>7. CASE Drives /\ UNCHANGED <<link, kbdVars, load>>
  <2>1. CASE RxTaskNext \/ RxTaskTake
    BY <1>1, <1>2, <1>7, <2>1 DEF RxTaskNext, RxTaskTake
  <2>2. CASE TxQueue /\ link # "pc"
    BY <1>6, <1>7, <2>2 DEF TxQueue
  <2>3. ASSUME NEW more, TxTaskGive(more) PROVE Good
    BY <1>1, <1>3, <1>7, <2>3 DEF TxTaskGive
  <2>4. CASE UNCHANGED dev
    BY <1>1, <1>7, <2>4
  <2> QED BY <1>7, <2>1, <2>2, <2>3, <2>4
          DEF Drives, RxTaskStart, ReadBits, WriteBits, RxTaskCompare, Enable, WriteMask, TxWrite
<1>8. CASE (Isr16550 \/ IsrSam \/ IsrRpi) /\ UNCHANGED <<link, kbdVars, load>>
  <2>0. hw.rx_fifo # <<>> => Head(hw.rx_fifo) \in Data
    BY <1>0
  <2>1. CASE IsrRx
    <3>1. hw.rx_fifo # <<>>
      BY <2>1 DEF IsrRx, DataOK, FifoOK
    <3> QED BY <1>5, <1>8, <2>0, <2>1, <3>1 DEF IsrRx
  <2>2. CASE IsrTx
    <3>1. link \in {"pc", "com"}
      BY <2>2 DEF IsrTx, Handler, CoreOK, PcOK, IsrPoints
    <3> QED BY <1>4, <1>8, <2>2, <3>1, TxBurst
  <2>3. CASE IsrTxSam
    <3>1. CASE dev' = [dev EXCEPT !.tx_c = dev.tx_c + 1] /\ dev.tx_c # dev.tx_p
      <4>1. dev' \in DevTypes
        BY <1>0, <3>1, DevRecord
      <4> QED BY <1>0, <1>8, <3>1, <4>1 DEF DevTypes
    <3> QED BY <1>1, <1>8, <2>3, <3>1 DEF IsrTxSam
  <2>4. CASE IsrRxSam
    BY <1>1, <1>5, <1>8, <2>0, <2>4 DEF IsrRxSam, RxPending
  <2>5. CASE IsrRxPi
    BY <1>1, <1>5, <1>8, <2>0, <2>5 DEF IsrRxPi
  <2>6. CASE IsrLine \/ IsrRxWake \/ Isr16550End \/ IsrSamEnd \/ IsrPi \/ IsrPiEnd
    BY <1>1, <1>8, <2>6 DEF IsrLine, IsrRxWake, Isr16550End, IsrSamEnd, IsrPi, IsrPiEnd, devVars
  <2> QED BY <1>8, <2>1, <2>2, <2>3, <2>4, <2>5, <2>6 DEF Isr16550, IsrSam, IsrRpi
<1>9. CASE LineIn \/ LineOut \/ KeyIn \/ (KbdHand /\ UNCHANGED <<link, load>>) \/ Calls \/ Clock
           \/ UNCHANGED <<link, devVars, kbdVars, load>>
  <2>1. UNCHANGED <<dev, link>>
    BY <1>9 DEF LineIn, LineOut, KeyIn, KbdHand, Calls, Clock, devVars, LineIn16550, LineInSam,
                LineInPi, LineOut16550, LineOutSam, ShiftPi, LineOutPi, IsrKbd
  <2> QED BY <1>1, <2>1
<1> QED BY <1>7, <1>8, <1>9, DevFrame

LEMMA HwStep ==
  CoreOK /\ DataOK /\ [Next]_vars =>
    hw' \in HwTypes /\ Len(hw'.rx_fifo) <= Fifo /\ Len(hw'.tx_fifo) <= Fifo
<1> SUFFICES ASSUME CoreOK, DataOK, [Next]_vars
             PROVE  hw' \in HwTypes /\ Len(hw'.rx_fifo) <= Fifo /\ Len(hw'.tx_fifo) <= Fifo
  OBVIOUS
<1>0. /\ hw \in HwTypes /\ Len(hw.rx_fifo) <= Fifo /\ Len(hw.tx_fifo) <= Fifo
      /\ Fifo \in Nat \ {0} /\ c \in Data
      /\ hw.rx_fifo \in Seq(Data) /\ hw.tx_fifo \in Seq(Data) /\ hw.shift \in Seq(Data)
      /\ hw.rx_on \in BOOLEAN /\ hw.tx_on \in BOOLEAN /\ hw.tx_int \in BOOLEAN
      /\ hw.rx_int \in BOOLEAN
  BY Sizes DEF DataOK, DevType, IoType, HwTypes
<1> DEFINE Good == hw' \in HwTypes /\ Len(hw'.rx_fifo) <= Fifo /\ Len(hw'.tx_fifo) <= Fifo
<1>1. ASSUME UNCHANGED hw PROVE Good
  BY <1>0, <1>1
<1>2. ASSUME NEW on \in BOOLEAN, NEW to \in BOOLEAN,
             \/ hw' = [hw EXCEPT !.rx_on = on, !.tx_on = to]
             \/ hw' = [hw EXCEPT !.rx_on = on] \/ hw' = [hw EXCEPT !.tx_on = to]
      PROVE  Good
  BY <1>0, <1>2 DEF HwTypes
<1>3. ASSUME NEW q \in Seq(Data), Len(q) <= Fifo, NEW a \in BOOLEAN, NEW b \in BOOLEAN,
             \/ hw' = [hw EXCEPT !.rx_fifo = q] \/ hw' = [hw EXCEPT !.rx_fifo = q, !.rx_on = a]
             \/ hw' = [hw EXCEPT !.rx_fifo = q, !.rx_int = a]
      PROVE  Good
  BY <1>0, <1>3 DEF HwTypes
<1>4. ASSUME NEW q \in Seq(Data), Len(q) <= Fifo, NEW a \in BOOLEAN, NEW b \in BOOLEAN,
             \/ hw' = [hw EXCEPT !.tx_fifo = q] \/ hw' = [hw EXCEPT !.tx_fifo = q, !.tx_int = a]
             \/ hw' = [hw EXCEPT !.tx_fifo = q, !.tx_int = a, !.tx_on = b]
      PROVE  Good
  BY <1>0, <1>4 DEF HwTypes
<1>5. CASE Drives
  <2>1. CASE RxTaskStart
    BY <1>2, <2>1 DEF RxTaskStart
  <2>2. ASSUME NEW t, NEW from, NEW to, NEW a \in BOOLEAN, NEW b \in BOOLEAN,
               WriteBits(t, from, to, a, b)
        PROVE  Good
    <3> DEFINE on == a \/ val[t] % 2 = 1
               h == [hw EXCEPT !.rx_on = on]
    <3>1. on \in BOOLEAN
      OBVIOUS
    <3>2. h \in HwTypes /\ h.rx_fifo = hw.rx_fifo /\ h.tx_fifo = hw.tx_fifo
          /\ h.tx_int = hw.tx_int /\ h.tx_on = hw.tx_on
      <4> HIDE DEF on
      <4> QED BY <1>0, <3>1 DEF HwTypes
    <3>3. hw' = IF b \/ val[t] >= 2 THEN TxEnabled(h) ELSE [h EXCEPT !.tx_on = FALSE]
      BY <2>2 DEF WriteBits
    <3> HIDE DEF h
    <3>4. CASE hw' = TxEnabled(h)
      <4> DEFINE i == h.tx_int \/ (~h.tx_on /\ h.tx_fifo = <<>>)
      <4>1. i \in BOOLEAN /\ hw' = [h EXCEPT !.tx_on = TRUE, !.tx_int = i]
        BY <1>0, <3>2, <3>4 DEF TxEnabled
      <4> HIDE DEF i
      <4> QED BY <1>0, <3>2, <4>1 DEF HwTypes
    <3>5. CASE hw' = [h EXCEPT !.tx_on = FALSE]
      BY <1>0, <3>2, <3>5 DEF HwTypes
    <3> QED BY <3>3, <3>4, <3>5
  <2>3. ASSUME NEW t, NEW from, NEW to, NEW a \in BOOLEAN, Enable(t, from, to, a) PROVE Good
    BY <1>2, <2>3 DEF Enable
  <2>4. ASSUME NEW t, NEW from, NEW to, NEW a \in BOOLEAN, WriteMask(t, from, to, a) PROVE Good
    <3>1. (a \/ val[t] % 2 = 1) \in BOOLEAN /\ (~a \/ val[t] >= 2) \in BOOLEAN
      OBVIOUS
    <3> QED BY <1>2, <2>4, <3>1 DEF WriteMask
  <2>5. CASE TxWrite
    <3>1. <<c>> \in Seq(Data) /\ Len(<<c>>) <= Fifo
      BY <1>0
    <3> QED BY <1>4, <2>5, <3>1 DEF TxWrite
  <2>6. ASSUME NEW more, TxTaskGive(more) PROVE Good
    BY <1>1, <2>6 DEF TxTaskGive
  <2>7. ASSUME NEW t, NEW from, NEW to, ReadBits(t, from, to) PROVE Good
    BY <1>1, <2>7 DEF ReadBits
  <2>8. CASE RxTaskCompare \/ RxTaskNext \/ RxTaskTake \/ TxQueue
    BY <1>1, <2>8 DEF RxTaskCompare, RxTaskNext, RxTaskTake, TxQueue
  <2> QED BY <1>5, <2>1, <2>2, <2>3, <2>4, <2>5, <2>6, <2>7, <2>8 DEF Drives
<1>6. CASE Isr16550 \/ IsrSam \/ IsrRpi
  <2>0. /\ <<>> \in Seq(Data) /\ Len(<<>>) <= Fifo
        /\ hw.rx_fifo # <<>> => Tail(hw.rx_fifo) \in Seq(Data) /\ Len(Tail(hw.rx_fifo)) <= Fifo
    BY <1>0
  <2>1. CASE IsrLine
    BY <1>0, <2>1 DEF IsrLine, HwTypes
  <2>2. CASE IsrRx
    <3>1. hw.rx_fifo # <<>> /\ (hw.rx_on /\ ~Full(dev')) \in BOOLEAN
      BY <2>2 DEF IsrRx, DataOK, FifoOK
    <3> QED BY <1>3, <2>0, <2>2, <3>1 DEF IsrRx
  <2>3. CASE IsrTx
    <3>1. link \in {"pc", "com"}
      BY <2>3 DEF IsrTx, Handler, CoreOK, PcOK, IsrPoints
    <3>2. PICK n \in 0..(dev.tx_p - dev.tx_c) :
            LET q == SubSeq(Ring(dev.tx_buf, dev.tx_c, dev.tx_p), 1, n)
            IN  /\ n <= Fifo /\ q \in Seq(Data) /\ Len(q) = n
                /\ hw' = [hw EXCEPT !.tx_fifo = q, !.tx_int = FALSE, !.tx_on = n # 0]
      BY <2>3, <3>1, TxBurst
    <3>3. (n # 0) \in BOOLEAN
      OBVIOUS
    <3> QED BY <1>4, <3>2, <3>3
  <2>4. CASE IsrTxSam
    <3>1. CASE hw' = [hw EXCEPT !.tx_fifo = <<At(dev.tx_buf, dev.tx_c)>>]
      <4>1. dev.tx_buf \in DevBufs /\ dev.tx_c \in Int
        BY DEF DataOK, DevType, DevTypes
      <4>2. At(dev.tx_buf, dev.tx_c) \in Data
        BY <4>1, DevAt
      <4>3. /\ <<At(dev.tx_buf, dev.tx_c)>> \in Seq(Data)
            /\ Len(<<At(dev.tx_buf, dev.tx_c)>>) <= Fifo
        BY <1>0, <4>2
      <4> QED BY <1>4, <3>1, <4>3
    <3> QED BY <1>1, <1>2, <2>4, <3>1 DEF IsrTxSam
  <2>5. CASE IsrRxSam
    <3>1. (~Full(dev')) \in BOOLEAN
      OBVIOUS
    <3> QED BY <1>1, <1>3, <2>0, <2>5, <3>1 DEF IsrRxSam
  <2>6. CASE IsrRxPi
    BY <1>1, <1>3, <2>0, <2>6 DEF IsrRxPi
  <2>7. CASE IsrPi
    <3>1. PICK clear \in BOOLEAN :
            hw' = [hw EXCEPT !.tx_on = @ /\ ~PiTxPending,
                             !.tx_int = @ /\ ~clear, !.rx_int = @ /\ ~clear]
      BY <2>7 DEF IsrPi
    <3> DEFINE d == hw.tx_on /\ ~PiTxPending
               a == hw.tx_int /\ ~clear
               b == hw.rx_int /\ ~clear
    <3>2. /\ d \in BOOLEAN /\ a \in BOOLEAN /\ b \in BOOLEAN
          /\ hw' = [hw EXCEPT !.tx_on = d, !.tx_int = a, !.rx_int = b]
      BY <3>1
    <3> HIDE DEF a, b, d
    <3> QED BY <1>0, <3>2 DEF HwTypes
  <2>8. CASE IsrRxWake \/ Isr16550End \/ IsrSamEnd \/ IsrPiEnd
    BY <1>1, <2>8 DEF IsrRxWake, Isr16550End, IsrSamEnd, IsrPiEnd, devVars
  <2> QED BY <1>6, <2>1, <2>2, <2>3, <2>4, <2>5, <2>6, <2>7, <2>8 DEF Isr16550, IsrSam, IsrRpi
<1>7. CASE LineIn
  <2>1. PICK x \in Data : LineIn16550(x) \/ LineInSam(x) \/ LineInPi(x)
    <3>1. load'.came \in Data
      <4>1. load'.came \in 1..(load.came + load.come)
        BY <1>7 DEF LineIn, Comes, DataOK, LoadType
      <4> QED BY <4>1 DEF DataOK, LoadType, Data
    <3> QED BY <1>7, <3>1, Sizes DEF LineIn
  <2>2. CASE LineIn16550(x)
    <3>1. CASE Holds(hw)
      <4>1. Append(hw.rx_fifo, x) \in Seq(Data) /\ Len(Append(hw.rx_fifo, x)) <= Fifo
        BY <1>0, <3>1 DEF Holds
      <4> QED BY <1>3, <2>2, <3>1, <4>1 DEF LineIn16550
    <3>2. CASE ~Holds(hw)
      BY <1>0, <2>2, <3>2 DEF LineIn16550, HwTypes
    <3> QED BY <3>1, <3>2
  <2>3. CASE LineInSam(x) \/ LineInPi(x)
    <3>1. <<x>> \in Seq(Data) /\ Len(<<x>>) <= Fifo
      BY <1>0
    <3> QED BY <1>1, <1>3, <2>3, <3>1 DEF LineInSam, LineInPi
  <2> QED BY <2>1, <2>2, <2>3
<1>8. CASE LineOut
  <2>0. /\ <<>> \in Seq(Data) /\ Len(<<>>) <= Fifo
        /\ hw.tx_fifo # <<>> => Tail(hw.tx_fifo) \in Seq(Data) /\ Len(Tail(hw.tx_fifo)) <= Fifo
    BY <1>0
  <2>1. CASE LineOut16550
    <3>1. (hw.tx_int \/ Len(hw.tx_fifo) = 1) \in BOOLEAN
      OBVIOUS
    <3> QED BY <1>4, <2>0, <2>1, <3>1 DEF LineOut16550
  <2>2. CASE LineOutSam
    BY <1>4, <2>0, <2>2 DEF LineOutSam
  <2>3. CASE ShiftPi \/ LineOutPi
    BY <1>0, <2>0, <2>3 DEF ShiftPi, LineOutPi, HwTypes
  <2> QED BY <1>8, <2>1, <2>2, <2>3 DEF LineOut
<1>9. CASE KeyIn \/ KbdHand \/ Calls \/ Clock \/ UNCHANGED devVars
  BY <1>1, <1>9 DEF KeyIn, IsrKbd, KbdHand, Calls, Clock, devVars
<1> QED BY <1>5, <1>6, <1>7, <1>8, <1>9, DevFrame

LEMMA MarksStep ==
  CoreOK /\ DataOK /\ [Next]_vars =>
    /\ val' \in [{"rx", "stdout"} -> 0..3]
    /\ shut' \in BOOLEAN /\ lost' \subseteq {"rx", "tx", "line", "key"}
    /\ key' \in Data /\ fresh' \in BOOLEAN
<1> SUFFICES ASSUME CoreOK, DataOK, [Next]_vars
             PROVE  /\ val' \in [{"rx", "stdout"} -> 0..3]
                    /\ shut' \in BOOLEAN /\ lost' \subseteq {"rx", "tx", "line", "key"}
                    /\ key' \in Data /\ fresh' \in BOOLEAN
  OBVIOUS
<1>0. /\ val \in [{"rx", "stdout"} -> 0..3]
      /\ shut \in BOOLEAN /\ lost \subseteq {"rx", "tx", "line", "key"}
      /\ key \in Data /\ fresh \in BOOLEAN
  BY DEF DataOK, DevType
<1>1. val' \in [{"rx", "stdout"} -> 0..3]
  <2>1. Bits \in 0..3
    BY DEF Bits
  <2>2. ASSUME NEW t \in {"rx", "stdout"}, NEW n \in 0..3, val' = [val EXCEPT ![t] = n]
        PROVE  val' \in [{"rx", "stdout"} -> 0..3]
    BY <1>0, <2>2
  <2>3. CASE Drives
    BY <1>0, <2>1, <2>2, <2>3
       DEF Drives, RxTaskStart, ReadBits, WriteBits, RxTaskCompare, RxTaskNext, RxTaskTake,
           TxQueue, Enable, WriteMask, TxWrite, TxTaskGive
  <2>4. CASE Isr16550 \/ IsrSam \/ IsrRpi
    BY <1>0, <2>4
       DEF Isr16550, IsrSam, IsrRpi, IsrLine, IsrRxWake, IsrRx, IsrTx, Isr16550End, IsrTxSam,
           IsrRxSam, IsrSamEnd, IsrPi, IsrRxPi, IsrPiEnd, Handler, devVars
  <2>5. CASE \/ LineIn \/ LineOut \/ KeyIn \/ KbdHand \/ Calls \/ Clock \/ UNCHANGED devVars
    BY <1>0, <2>5 DEF LineIn, LineOut, KeyIn, KbdHand, Calls, Clock, devVars, LineIn16550,
         LineInSam, LineInPi, LineOut16550, LineOutSam, ShiftPi, LineOutPi, IsrKbd
  <2> QED BY <2>3, <2>4, <2>5, DevFrame
<1>2. shut' \in BOOLEAN /\ lost' \subseteq {"rx", "tx", "line", "key"}
  <2>1. CASE Drives
    BY <1>0, <2>1
       DEF Drives, RxTaskStart, ReadBits, WriteBits, RxTaskCompare, RxTaskNext, RxTaskTake,
           TxQueue, Enable, WriteMask, TxWrite, TxTaskGive, TxLoses
  <2>2. CASE Isr16550 \/ IsrSam \/ IsrRpi
    BY <1>0, <2>2
       DEF Isr16550, IsrSam, IsrRpi, IsrLine, IsrRxWake, IsrRx, IsrTx, Isr16550End, IsrTxSam,
           IsrRxSam, IsrSamEnd, IsrPi, IsrRxPi, IsrPiEnd, Handler, devVars, RxLoses, RxLosesPi
  <2>3. CASE \/ LineIn \/ LineOut \/ KeyIn \/ KbdHand \/ Calls \/ Clock \/ UNCHANGED devVars
    BY <1>0, <2>3 DEF LineIn, LineOut, KeyIn, KbdHand, Calls, Clock, devVars, LineIn16550,
         LineInSam, LineInPi, LineOut16550, LineOutSam, ShiftPi, LineOutPi, IsrKbd
  <2> QED BY <2>1, <2>2, <2>3, DevFrame
<1>3. key' \in Data /\ fresh' \in BOOLEAN
  <2>1. CASE KeyIn
    <3>1. load'.came \in Data
      <4>1. load'.came \in 1..(load.came + load.come)
        BY <2>1 DEF KeyIn, Comes, DataOK, LoadType
      <4> QED BY <4>1 DEF DataOK, LoadType, Data
    <3> QED BY <2>1, <3>1 DEF KeyIn, IsrKbd
  <2>2. CASE KbdHand \/ LineIn \/ LineOut \/ Calls \/ Clock \/ UNCHANGED kbdVars
    BY <1>0, <2>2 DEF KbdHand, LineIn, LineOut, Calls, Clock, kbdVars
  <2> QED BY <2>1, <2>2, DevFrame
<1> QED BY <1>1, <1>2, <1>3

(* Tasks run with interrupts enabled, and miss nothing as they run.        *)
LEMMA TasksLeave ==
  Drivers \/ Pc \/ Modules \/ Calls \/ Delay => isr = "off" /\ isr' = "off" /\ missed' = missed
<1> SUFFICES ASSUME Drivers \/ Pc \/ Modules \/ Calls \/ Delay
             PROVE  isr = "off" /\ isr' = "off" /\ missed' = missed
  OBVIOUS
<1> DEFINE Good == isr = "off" /\ isr' = "off" /\ missed' = missed
<1>1. ASSUME NEW t, NEW from, NEW to, Step(t, from, to),
             UNCHANGED schedVars \/ Sleep \/ \E s : Get(s) \/ Give(s)
      PROVE  Good
  BY <1>1 DEF Step, schedVars, Sleep, Get, Give
<1>2. ASSUME NEW t, TaskSleep(t) PROVE Good
  BY <1>1, <1>2 DEF TaskSleep
<1>3. ASSUME NEW l, RxTaskTest(l, "compare") PROVE Good
  BY <1>1, <1>3 DEF RxTaskTest, Own
<1>4. ASSUME NEW t, NEW after, RxFunc(t, after) PROVE Good
  BY <1>1, <1>4 DEF RxFunc
<1>5. ASSUME NEW t, NEW after, NEW x, RxStore(t, after, x) PROVE Good
  BY <1>1, <1>5 DEF RxStore
<1>6. ASSUME NEW t, NEW from, NEW to, ReadBits(t, from, to) PROVE Good
  BY <1>1, <1>6 DEF ReadBits, Own
<1>7. ASSUME NEW t, NEW from, NEW to, NEW a, NEW b,
             WriteBits(t, from, to, a, b) \/ WriteMask(t, from, to, a) \/ Enable(t, from, to, a)
      PROVE  Good
  BY <1>1, <1>7 DEF WriteBits, WriteMask, Enable, Own
<1>8. ASSUME NEW more, TxTaskGive(more) PROVE Good
  BY <1>1, <1>8 DEF TxTaskGive
<1>9. CASE Drivers
  <2>1. CASE RxTask16550 \/ RxTaskSam \/ RxTaskPi
    <3>1. CASE RxTaskStart \/ RxTaskCompare \/ RxTaskNext \/ RxTaskTake
      BY <1>1, <3>1 DEF RxTaskStart, RxTaskCompare, RxTaskNext, RxTaskTake, Own
    <3> QED BY <1>2, <1>3, <1>4, <1>5, <1>6, <1>7, <2>1, <3>1
            DEF RxTask16550, RxTaskSam, RxTaskPi, RxTaskHand, RxTaskHandPi
  <2>2. CASE TxFunc16550 \/ TxFuncSam \/ TxFuncPi
    <3>1. CASE TxRoom \/ TxQueue \/ TxCheck \/ TxWrite \/ TxWait
      BY <1>1, <3>1 DEF TxRoom, TxQueue, TxCheck, TxWrite, TxWait, Own
    <3> QED BY <1>6, <1>7, <2>2, <3>1 DEF TxFunc16550, TxFuncSam, TxFuncPi
  <2>3. CASE TxTask16550
    BY <1>2, <1>8, <2>3 DEF TxTask16550
  <2>4. CASE TxTaskSam
    BY <1>2, <1>8, <2>4 DEF TxTaskSam
  <2>5. CASE TxTaskPi
    BY <1>1, <1>2, <2>5 DEF TxTaskPi
  <2> QED BY <1>9, <2>1, <2>2, <2>3, <2>4, <2>5 DEF Drivers
<1>10. CASE Pc
  <2>1. CASE KbdTest \/ TxFuncScreen
    BY <1>1, <2>1 DEF KbdTest, TxFuncScreen, Own
  <2> QED BY <1>2, <1>4, <1>5, <1>10, <2>1 DEF Pc, KbdTask, KbdHand
<1>11. CASE Modules
  <2>1. CASE Stdout
    BY <1>1, <2>1 DEF Stdout, StdoutInit, StdoutWait, StdoutEmpty, StdoutTake, StdoutNext
  <2>2. ASSUME NEW t, Putchar(t) PROVE Good
    BY <1>1, <2>2 DEF Putchar, PutcharPlace, PutcharLock, PutcharStore, PutcharNext,
                      PutcharUnlock, PutcharTell
  <2>3. CASE Getchar("cli")
    BY <1>1, <2>3 DEF Getchar
  <2> QED BY <1>11, <2>1, <2>2, <2>3 DEF Modules
<1>12. CASE Calls \/ Delay
  BY <1>1, <1>12 DEF Calls, Delay, PutcharEnter, GetcharEnter
<1> QED BY <1>9, <1>10, <1>11, <1>12

LEMMA TxIntStep ==
  CoreOK /\ DataOK /\ [Next]_vars => (link' \in {"pc", "com"} /\ hw'.tx_int => hw'.tx_fifo = <<>>)
<1> DEFINE Good == link' \in {"pc", "com"} /\ hw'.tx_int => hw'.tx_fifo = <<>>
<1> SUFFICES ASSUME CoreOK, DataOK, [Next]_vars PROVE Good
  OBVIOUS
<1>0. /\ hw \in HwTypes /\ hw.rx_fifo \in Seq(Data) /\ hw.tx_fifo \in Seq(Data)
      /\ link \in {"pc", "com"} /\ hw.tx_int => hw.tx_fifo = <<>>
      /\ isr \in IsrPoints
  BY DEF DataOK, DevType, HwTypes, FifoOK, CoreOK, PcOK
<1>1. ASSUME UNCHANGED link, hw'.tx_int = hw.tx_int, hw'.tx_fifo = hw.tx_fifo PROVE Good
  BY <1>0, <1>1
<1>2. CASE Drives /\ UNCHANGED link
  <2>1. CASE RxTaskStart
    BY <1>0, <1>1, <1>2, <2>1 DEF RxTaskStart, HwTypes
  <2>2. ASSUME NEW t, NEW from, NEW to, NEW a \in BOOLEAN, NEW b \in BOOLEAN,
               WriteBits(t, from, to, a, b)
        PROVE  Good
    <3> DEFINE h == [hw EXCEPT !.rx_on = a \/ val[t] % 2 = 1]
    <3>1. h.tx_fifo = hw.tx_fifo /\ h.tx_int = hw.tx_int /\ DOMAIN h = DOMAIN hw
      BY <1>0 DEF HwTypes
    <3>2. hw' = IF b \/ val[t] >= 2 THEN TxEnabled(h) ELSE [h EXCEPT !.tx_on = FALSE]
      BY <2>2 DEF WriteBits
    <3> HIDE DEF h
    <3>3. DOMAIN hw = {"rx_on", "tx_on", "rx_fifo", "tx_fifo", "overrun", "tx_int", "rx_int",
                       "shift"}
      BY <1>0 DEF HwTypes
    <3>4. CASE hw' = TxEnabled(h)
      <4>1. hw' = [h EXCEPT !.tx_on = TRUE, !.tx_int = h.tx_int \/ (~h.tx_on /\ h.tx_fifo = <<>>)]
        BY <3>4 DEF TxEnabled
      <4>2. hw'.tx_fifo = hw.tx_fifo /\ hw'.tx_int = (h.tx_int \/ (~h.tx_on /\ h.tx_fifo = <<>>))
        BY <3>1, <3>3, <4>1
      <4> QED BY <1>0, <1>2, <3>1, <4>2
    <3>5. CASE hw' = [h EXCEPT !.tx_on = FALSE]
      <4>1. hw'.tx_fifo = hw.tx_fifo /\ hw'.tx_int = hw.tx_int
        BY <3>1, <3>3, <3>5
      <4> QED BY <1>1, <1>2, <4>1
    <3> QED BY <3>2, <3>4, <3>5
  <2>3. CASE link \in {"pc", "com"} => UNCHANGED hw
    BY <1>0, <1>2, <2>3
  <2>4. ASSUME NEW more, TxTaskGive(more) PROVE UNCHANGED hw
    BY <2>4 DEF TxTaskGive
  <2>5. ASSUME NEW t, NEW from, NEW to, ReadBits(t, from, to) PROVE UNCHANGED hw
    BY <2>5 DEF ReadBits
  <2>6. RxTaskCompare \/ RxTaskNext \/ TxQueue => UNCHANGED hw
    BY DEF RxTaskCompare, RxTaskNext, TxQueue
  <2> QED BY <1>2, <2>1, <2>2, <2>3, <2>4, <2>5, <2>6 DEF Drives
<1>3. CASE (Isr16550 \/ IsrSam \/ IsrRpi) /\ UNCHANGED link
  <2>1. CASE IsrLine
    BY <1>0, <1>1, <1>3, <2>1 DEF IsrLine, HwTypes
  <2>2. CASE IsrRx
    BY <1>0, <1>1, <1>3, <2>2 DEF IsrRx, HwTypes
  <2>3. CASE IsrTx
    BY <1>0, <2>3 DEF IsrTx, HwTypes
  <2>4. CASE IsrRxWake \/ Isr16550End
    BY <1>1, <1>3, <2>4 DEF IsrRxWake, Isr16550End, devVars
  <2>5. CASE IsrSam \/ IsrRpi
    <3>1. link \notin {"pc", "com"}
      BY <1>0, <2>5 DEF IsrSam, IsrRpi, IsrPoints, IsrTxSam, IsrRxSam, IsrSamEnd, IsrPi,
         IsrRxPi, IsrPiEnd, Handler
    <3> QED BY <1>3, <3>1
  <2> QED BY <1>3, <2>1, <2>2, <2>3, <2>4, <2>5 DEF Isr16550
<1>4. CASE LineIn
  <2>1. CASE LineIn16550(load'.came) /\ UNCHANGED link
    BY <1>0, <1>1, <2>1 DEF LineIn16550, HwTypes
  <2> QED BY <1>4, <2>1, Boarded DEF LineIn
<1>5. CASE LineOut
  <2>1. CASE LineOut16550 /\ UNCHANGED link
    <3>1. /\ hw.tx_fifo # <<>> /\ hw'.tx_fifo = Tail(hw.tx_fifo)
          /\ hw'.tx_int => hw.tx_int \/ Len(hw.tx_fifo) = 1
      BY <1>0, <2>1 DEF LineOut16550, HwTypes
    <3>2. Len(hw.tx_fifo) = 1 => Tail(hw.tx_fifo) = <<>>
      <4>1. Len(hw.tx_fifo) = 1 => Tail(hw.tx_fifo) \in Seq(Data) /\ Len(Tail(hw.tx_fifo)) = 0
        BY <1>0, <3>1, HeadTailProperties
      <4> QED BY <4>1, EmptySeq
    <3> QED BY <1>0, <2>1, <3>1, <3>2
  <2> QED BY <1>5, <2>1 DEF LineOut
<1>6. CASE KeyIn \/ (KbdHand /\ UNCHANGED link) \/ Calls \/ Clock \/ UNCHANGED <<devVars, link>>
  BY <1>1, <1>6 DEF KeyIn, IsrKbd, KbdHand, Calls, Clock, devVars
<1> QED BY <1>2, <1>3, <1>4, <1>5, <1>6, DevFrame

LEMMA RxFifoStep ==
  CoreOK /\ DataOK /\ [Next]_vars => (isr' = "16550_rx" => hw'.rx_on /\ hw'.rx_fifo # <<>>)
<1> DEFINE Good == isr' = "16550_rx" => hw'.rx_on /\ hw'.rx_fifo # <<>>
<1> SUFFICES ASSUME CoreOK, DataOK, [Next]_vars PROVE Good
  OBVIOUS
<1>0. /\ hw \in HwTypes /\ hw.rx_fifo \in Seq(Data)
      /\ isr = "16550_rx" => link \in {"pc", "com"} /\ hw.rx_on /\ hw.rx_fifo # <<>>
  BY DEF DataOK, DevType, HwTypes, FifoOK, CoreOK, PcOK, IsrPoints
<1>1. CASE Goes \/ Calls \/ Delay
  BY <1>1, TasksLeave DEF Goes
<1>2. CASE Handles
  <2>1. CASE IsrRxWake
    BY <2>1 DEF IsrRxWake, RxPending
  <2>2. CASE IsrRx
    BY <1>0, <2>2 DEF IsrRx, HwTypes
  <2>3. CASE Handles /\ ~IsrRxWake /\ ~IsrRx
    BY <2>3 DEF Handles, Isr16550, IsrSam, IsrRpi, IsrLine, IsrTx, Isr16550End, IsrTxSam,
         IsrRxSam, IsrSamEnd, IsrPi, IsrRxPi, IsrPiEnd, IsrKbdEnd, Handler, HandlerEnd
  <2> QED BY <1>2, <2>1, <2>2, <2>3
<1>3. CASE Interrupt \/ Clock \/ KeyIn
  BY <1>3 DEF Interrupt, Clock, KeyIn, IsrKbd, HandlerEnd
<1>4. CASE LineIn
  <2>1. CASE LineIn16550(load'.came) /\ UNCHANGED isr
    BY <1>0, <2>1 DEF LineIn16550, HwTypes
  <2> QED BY <1>0, <1>4, <2>1 DEF LineIn, schedVars
<1>5. CASE LineOut
  <2>1. CASE LineOut16550 /\ UNCHANGED isr
    BY <1>0, <2>1 DEF LineOut16550, HwTypes
  <2> QED BY <1>0, <1>5, <2>1 DEF LineOut, schedVars
<1>6. CASE UNCHANGED vars
  BY <1>0, <1>6 DEF vars, schedVars, devVars
<1> QED BY <1>1, <1>2, <1>3, <1>4, <1>5, <1>6 DEF Next

LEMMA DataStep == CoreOK /\ DataOK /\ [Next]_vars => DataOK'
<1> SUFFICES ASSUME CoreOK, DataOK, [Next]_vars PROVE DataOK'
  OBVIOUS
<1>1. IoType' /\ LoadType'
  BY IoTypeStep, LoadTypeStep
<1>2. DevType'
  BY DevStep, HwStep, MarksStep DEF DevType
<1>3. FifoOK'
  BY DevStep, TxIntStep, RxFifoStep DEF FifoOK
<1> QED BY <1>1, <1>2, <1>3 DEF DataOK

LEMMA DataInit == Init => DataOK
<1> SUFFICES ASSUME Init PROVE DataOK
  OBVIOUS
<1>0. /\ CR \in Data /\ IoSize \in Nat \ {0} /\ DevSize \in Nat \ {0} /\ Fifo \in Nat \ {0}
      /\ link \in Boards
  BY Sizes DEF Init
<1>1. IoType
  <2>1. [i \in 1..IoSize |-> CR] \in IoBufs
    BY <1>0 DEF IoBufs
  <2> QED BY <1>0, <2>1 DEF Init, StdioInit, IoType, IoTypes, Writers
<1>2. DevInit /\ (HwInit(TRUE) \/ HwInit(FALSE)) /\ KbdInit
  BY DEF Init, SamInit, PiInit, Ns16550Init
<1>3. DevType
  <2>1. [i \in 1..DevSize |-> CR] \in DevBufs
    BY <1>0 DEF DevBufs
  <2>2. dev \in DevTypes
    BY <1>2, <2>1 DEF DevInit, DevTypes
  <2>3. hw \in HwTypes /\ Len(hw.rx_fifo) <= Fifo /\ Len(hw.tx_fifo) <= Fifo
    <3>1. <<>> \in Seq(Data) /\ Len(<<>>) <= Fifo
      BY <1>0
    <3>2. CASE HwInit(TRUE)
      BY <3>1, <3>2 DEF HwInit, HwTypes
    <3>3. CASE HwInit(FALSE)
      BY <3>1, <3>3 DEF HwInit, HwTypes
    <3> QED BY <1>2, <3>2, <3>3
  <2>4. val \in [{"rx", "stdout"} -> 0..3] /\ shut = FALSE /\ lost = {} /\ key = CR /\ fresh = FALSE
    BY <1>2 DEF DevInit, KbdInit
  <2> QED BY <1>0, <2>2, <2>3, <2>4 DEF DevType
<1>4. FifoOK
  BY <1>2 DEF FifoOK, DevInit, HwInit, Init
<1>5. LoadType
  <2>1. PICK l \in Loads[link] :
          load = [put |-> 0, came |-> 0, cli |-> l.cli, log |-> l.log, come |-> l.come,
                  ticks |-> l.ticks]
    BY DEF Init
  <2>2. /\ l \in [cli : Nat, log : Nat, come : Nat, ticks : Nat]
        /\ 1..(l.cli + l.log) \subseteq Chars /\ 1..l.come \subseteq Chars
    BY <1>0, ConsoleAssumption
  <2>3. /\ load.put = 0 /\ load.came = 0 /\ load.cli = l.cli /\ load.log = l.log
        /\ load.come = l.come
        /\ l.cli \in Nat /\ l.log \in Nat /\ l.come \in Nat /\ l.ticks \in Nat
    BY <2>1, <2>2
  <2>4. 0 + l.cli + l.log = l.cli + l.log /\ 0 + l.come = l.come
    BY <2>3
  <2>5. load \in [put : Nat, came : Nat, cli : Nat, log : Nat, come : Nat, ticks : Nat]
    BY <2>1, <2>3
  <2> QED BY <2>2, <2>3, <2>4, <2>5 DEF LoadType
<1> QED BY <1>1, <1>3, <1>4, <1>5 DEF DataOK

-----------------------------------------------------------------------------
(* The standard I/O's semaphores.  The semaphore putchar is a lock: ...    *)
Locks(t) == pc[t] \in {"next", "unlock"} \/ (pc[t] = "put" /\ status[t] = "READY")
LockOK == /\ ~(Locks("log") /\ Locks("cli"))
          /\ count_now["putchar"] = IF Locks("log") \/ Locks("cli") THEN 0 ELSE 1

(* ... tx_buf counts the places of the ring that are free ...              *)
Hand(t) == IF pc[t] \in {"put", "next"} \/ (pc[t] = "lock" /\ status[t] # "tx_buf")
           THEN 1 ELSE 0
OutHand == IF pc["stdout"] \in {"init", "wait", "loop"} THEN 0 ELSE 1
PlaceOK == /\ io.tx_c <= io.tx_p
           /\ count_now["tx_buf"] + (io.tx_p - io.tx_c) + OutHand + Hand("log") + Hand("cli")
                = IoSize

(* ... and rx the characters to be read, one of which is not stored yet or *)
(* is given to the reader already.                                         *)
InStore == IF pc["rx"] = "store" \/ pc["kbd"] = "store" THEN 1 ELSE 0
InRead  == IF pc["cli"] = "char" /\ status["cli"] = "READY" THEN 1 ELSE 0
ReadOK == /\ io.rx_c <= io.rx_p
          /\ count_now["rx"] + InRead = io.rx_p - io.rx_c + InStore

IoOK == LockOK /\ PlaceOK /\ ReadOK

LEMMA IoInts ==
  CoreOK /\ DataOK => /\ io.tx_p \in Nat /\ io.tx_c \in Nat /\ io.rx_p \in Nat /\ io.rx_c \in Nat
                      /\ \A s \in Sems : count_now[s] \in Nat /\ count_now[s] <= CountMax[s]
                      /\ CountMax["putchar"] = 1 /\ CountMax["tx_buf"] = IoSize
                      /\ CountMax["rx"] = IoSize /\ IoSize \in Nat \ {0}
                      /\ DOMAIN io = {"rx_buf", "rx_p", "rx_c", "tx_buf", "tx_p", "tx_c",
                                      "tx_init"}
  BY Sizes, ConsoleAssumption DEF CoreOK, DataOK, IoType, IoTypes, SchedType

(* While a driver's task hands on a character, nobody reads.               *)
LEMMA StoresAlone ==
  ASSUME CoreOK, run \in {"cli", "stdout"}, isr = "off"
  PROVE  pc["rx"] # "store" /\ pc["kbd"] # "store"
<1>1. /\ status["rx"] # "READY"
      /\ status["kbd"] # "READY"
  BY ConsoleAssumption, Names DEF CoreOK, RunOK
<1> QED BY <1>1, Names DEF CoreOK, StatusOK, Awaits

LEMMA IoInit == Init => IoOK
<1> SUFFICES ASSUME Init PROVE IoOK
  OBVIOUS
<1>1. /\ \A t \in Writers : pc[t] = "user"
      /\ pc["stdout"] = "init" /\ pc["kbd"] = "sleep" /\ pc["rx"] # "store"
      /\ count_now["putchar"] = 1 /\ count_now["tx_buf"] = IoSize /\ count_now["rx"] = 0
  <2>1. DOMAIN CountMax = Sems /\ CountMax["tx_buf"] = IoSize /\ CountMax["putchar"] = 1
    BY Names, ConsoleAssumption
  <2>2. count_now["putchar"] = 1 /\ count_now["tx_buf"] = IoSize /\ count_now["rx"] = 0
    BY <2>1 DEF Init, Sems
  <2>3. /\ \A t \in Writers : pc[t] = "user"
        /\ pc["stdout"] = "init" /\ pc["kbd"] = "sleep" /\ pc["rx"] # "store"
    BY Names DEF Init, Writers
  <2> QED BY <2>2, <2>3
<1>2. io.rx_p = 0 /\ io.rx_c = 0 /\ io.tx_p = 0 /\ io.tx_c = 0 /\ IoSize \in Nat
  BY Sizes DEF Init, StdioInit
<1> QED BY <1>1, <1>2 DEF IoOK, LockOK, PlaceOK, ReadOK, Locks, Hand, OutHand, InStore, InRead,
                          Writers

LEMMA IoSameKeeps == CoreOK /\ IoOK /\ IoSame => IoOK'
<1> SUFFICES ASSUME CoreOK, IoOK, IoSame PROVE IoOK'
  OBVIOUS
<1> USE DEF IoOK, IoSame, Writers
<1>1. LockOK'
  BY DEF LockOK, Locks
<1>2. PlaceOK'
  BY DEF PlaceOK, Hand, OutHand, Sending
<1>3. ReadOK'
  BY DEF ReadOK, InStore, InRead
<1> QED BY <1>1, <1>2, <1>3

(* What leaves each of them as it is.                                      *)
LockSame == /\ count_now'["putchar"] = count_now["putchar"]
            /\ \A t \in Writers : Locks(t)' <=> Locks(t)
PlaceSame == /\ count_now'["tx_buf"] = count_now["tx_buf"]
             /\ io'.tx_p = io.tx_p /\ io'.tx_c = io.tx_c /\ OutHand' = OutHand
             /\ \A t \in Writers : Hand(t)' = Hand(t)
ReadSame == /\ count_now'["rx"] = count_now["rx"] /\ io'.rx_p = io.rx_p /\ io'.rx_c = io.rx_c
            /\ InStore' = InStore /\ InRead' = InRead

LEMMA SamesKeep == /\ LockOK /\ LockSame => LockOK'
                   /\ PlaceOK /\ PlaceSame => PlaceOK'
                   /\ ReadOK /\ ReadSame => ReadOK'
  BY DEF LockOK, LockSame, PlaceOK, PlaceSame, ReadOK, ReadSame, Writers

LEMMA IoStep == CoreOK /\ DataOK /\ IoOK /\ [Next]_vars => IoOK'
<1> SUFFICES ASSUME CoreOK, DataOK, IoOK, [Next]_vars PROVE IoOK'
  OBVIOUS
<1>0. CoreOK'
  BY CoreStep
<1> USE IoInts, Names DEF IoOK
<1>1. ASSUME NEW t \in Tasks, NEW from, NEW to, Step(t, from, to)
      PROVE  /\ pc[t] = from /\ pc'[t] = to /\ status[t] = "READY" /\ run = t /\ isr = "off"
             /\ \A u \in Tasks : u # t => pc'[u] = pc[u]
  BY <1>1, StepOthers
<1> USE DEF Sems
<1>2. CASE StdoutInit \/ StdoutEmpty \/ StdoutTake
  <2>1. LockSame
    BY <1>1, <1>2 DEF StdoutInit, StdoutEmpty, StdoutTake, schedVars, LockSame, Locks, Writers
  <2>2. ReadSame
    BY <1>1, <1>2 DEF StdoutInit, StdoutEmpty, StdoutTake, schedVars, ioVars, ReadSame, InStore,
       InRead
  <2>3. CASE StdoutInit \/ StdoutEmpty
    <3>1. PlaceSame
      BY <1>1, <2>3 DEF StdoutInit, StdoutEmpty, schedVars, ioVars, PlaceSame, Hand, OutHand,
         Writers
    <3> QED BY <2>1, <2>2, <3>1, SamesKeep
  <2>4. CASE StdoutTake
    <3>1. PlaceOK'
      BY <1>1, <2>4 DEF StdoutTake, schedVars, PlaceOK, Hand, OutHand
    <3> QED BY <2>1, <2>2, <3>1, SamesKeep
  <2> QED BY <1>2, <2>3, <2>4
<1>3. CASE StdoutWait
  <2>1. LockSame /\ ReadSame
    BY <1>1, <1>3, GetOthers DEF StdoutWait, ioVars, LockSame, Locks, ReadSame, InStore, InRead,
       Writers
  <2>2. PlaceSame
    BY <1>1, <1>3, GetOthers DEF StdoutWait, ioVars, PlaceSame, Hand, OutHand, Writers
  <2> QED BY <2>1, <2>2, SamesKeep
<1>4. CASE StdoutNext
  <2>1. CASE c \in NewLines
    <3>1. LockSame /\ ReadSame
      BY <1>1, <1>4, <2>1 DEF StdoutNext, schedVars, LockSame, Locks, ReadSame, InStore, InRead,
         Writers
    <3>2. PlaceSame
      BY <1>1, <1>4, <2>1 DEF StdoutNext, schedVars, PlaceSame, Hand, OutHand, Writers
    <3> QED BY <3>1, <3>2, SamesKeep
  <2>2. CASE c \notin NewLines
    <3>0. /\ Step("stdout", "sent", "loop") /\ Give("tx_buf") /\ UNCHANGED io
          /\ isr = "off"
      BY <1>1, <1>4, <2>2 DEF StdoutNext
    <3>1. LockSame
      <4>1. /\ \A u \in Tasks : status'[u] = status[u] \/ status[u] = "tx_buf"
            /\ \A u \in Tasks : pc[u] = "put" => status[u] # "tx_buf"
        BY <3>0, GiveOthers DEF CoreOK, StatusOK, Awaits
      <4> QED BY <1>1, <3>0, <4>1, GiveOthers DEF LockSame, Locks, Writers
    <3>2. ReadSame
      <4>1. status'["cli"] = status["cli"] \/ status["cli"] = "tx_buf"
        BY <3>0, GiveOthers
      <4>2. pc["cli"] = "char" => status["cli"] # "tx_buf"
        BY DEF CoreOK, StatusOK, Awaits
      <4> QED BY <1>1, <3>0, <4>1, <4>2, GiveOthers DEF ReadSame, InStore, InRead
    <3>3. PlaceOK'
      <4>1. CASE count_now["tx_buf"] = IoSize
        BY <1>1, <3>0, <4>1 DEF PlaceOK, Hand, OutHand
      <4>2. CASE count_now'["tx_buf"] = count_now["tx_buf"] + 1 /\ UNCHANGED status
        BY <1>1, <3>0, <4>2 DEF PlaceOK, Hand, OutHand
      <4>3. ASSUME NEW w \in Tasks, count_now'["tx_buf"] = count_now["tx_buf"],
                   status[w] = "tx_buf", status'[w] = "READY",
                   \A u \in Tasks : u # w => status'[u] = status[u]
            PROVE  PlaceOK'
        <5>1. w \in Writers /\ pc[w] = "lock"
          BY <4>3 DEF CoreOK, StatusOK, Awaits, PcOK, PointsOf, StdoutPoints, RxPoints, Writers
        <5> QED BY <1>1, <3>0, <4>3, <5>1 DEF PlaceOK, Hand, OutHand, Writers
      <4> QED BY <3>0, <4>1, <4>2, <4>3, GiveOthers
    <3> QED BY <3>1, <3>2, <3>3, SamesKeep
  <2> QED BY <2>1, <2>2
<1>5. ASSUME NEW t \in Writers, Putchar(t) PROVE IoOK'
  <2>0. t \in {"log", "cli"}
    BY DEF Writers
  <2>1. CASE PutcharPlace(t)
    <3>1. LockSame /\ ReadSame
      BY <1>1, <2>0, <2>1, GetOthers DEF PutcharPlace, ioVars, LockSame, Locks, ReadSame,
         InStore, InRead, Writers
    <3>2. PlaceOK'
      BY <1>1, <2>0, <2>1, GetOthers DEF PutcharPlace, ioVars, PlaceOK, Hand, OutHand
    <3> QED BY <3>1, <3>2, SamesKeep
  <2>2. CASE PutcharLock(t)
    <3>1. ReadSame
      BY <1>1, <2>0, <2>2, GetOthers DEF PutcharLock, ioVars, ReadSame, InStore, InRead
    <3>2. PlaceSame
      BY <1>1, <2>0, <2>2, GetOthers DEF PutcharLock, ioVars, PlaceSame, Hand, OutHand, Writers
    <3>3. LockOK'
      BY <1>1, <2>0, <2>2, GetOthers DEF PutcharLock, LockOK, Locks
    <3> QED BY <3>1, <3>2, <3>3, SamesKeep
  <2>3. CASE PutcharStore(t) \/ PutcharNext(t)
    <3>1. LockSame /\ ReadSame
      BY <1>1, <2>0, <2>3 DEF PutcharStore, PutcharNext, schedVars, LockSame, Locks, ReadSame,
         InStore, InRead, Writers
    <3>2. PlaceOK'
      BY <1>1, <2>0, <2>3 DEF PutcharStore, PutcharNext, schedVars, PlaceOK, Hand, OutHand
    <3> QED BY <3>1, <3>2, SamesKeep
  <2>4. CASE PutcharUnlock(t)
    <3>0. /\ Step(t, "unlock", "tell") /\ Give("putchar") /\ UNCHANGED io
          /\ isr = "off"
      BY <1>1, <2>0, <2>4 DEF PutcharUnlock, ioVars
    <3>1. /\ \A u \in Tasks : status'[u] = status[u] \/ status[u] = "putchar"
          /\ \A u \in Tasks : pc[u] \in {"lock", "char"} => status[u] # "putchar"
      BY <3>0, GiveOthers DEF CoreOK, StatusOK, Awaits
    <3>2. PlaceSame
      BY <1>1, <2>0, <3>0, <3>1, GiveOthers DEF PlaceSame, Hand, OutHand, Writers
    <3>3. ReadSame
      BY <1>1, <2>0, <3>0, <3>1, GiveOthers DEF ReadSame, InStore, InRead
    <3>4. LockOK'
      <4>1. count_now["putchar"] = 0 /\ Locks(t)
        BY <1>1, <2>0, <3>0 DEF LockOK, Locks
      <4>2. CASE count_now'["putchar"] = count_now["putchar"] + 1 /\ UNCHANGED status
        BY <1>1, <2>0, <3>0, <4>1, <4>2 DEF LockOK, Locks
      <4>3. ASSUME NEW w \in Tasks, count_now'["putchar"] = count_now["putchar"],
                   status[w] = "putchar", status'[w] = "READY",
                   \A u \in Tasks : u # w => status'[u] = status[u]
            PROVE  LockOK'
        <5>1. w \in Writers /\ pc[w] = "put"
          BY <4>3 DEF CoreOK, StatusOK, Awaits, PcOK, PointsOf, StdoutPoints, RxPoints, Writers
        <5> QED BY <1>1, <2>0, <3>0, <4>1, <4>3, <5>1 DEF LockOK, Locks, Writers
      <4> QED BY <3>0, <4>1, <4>2, <4>3, GiveOthers
    <3> QED BY <3>2, <3>3, <3>4, SamesKeep
  <2>5. CASE PutcharTell(t)
    <3>0. /\ Step(t, "tell", "user") /\ Give("tx_task") /\ UNCHANGED io
          /\ isr = "off"
      BY <1>1, <2>0, <2>5 DEF PutcharTell, ioVars
    <3>1. /\ \A u \in Tasks : status'[u] = status[u] \/ status[u] = "tx_task"
          /\ \A u \in Tasks : pc[u] \in {"lock", "put", "char"} => status[u] # "tx_task"
      BY <3>0, GiveOthers DEF CoreOK, StatusOK, Awaits
    <3>2. PlaceSame
      BY <1>1, <2>0, <3>0, <3>1, GiveOthers DEF PlaceSame, Hand, OutHand, Writers
    <3>3. ReadSame
      BY <1>1, <2>0, <3>0, <3>1, GiveOthers DEF ReadSame, InStore, InRead
    <3>4. LockSame
      BY <1>1, <2>0, <3>0, <3>1, GiveOthers DEF LockSame, Locks, Writers
    <3> QED BY <3>2, <3>3, <3>4, SamesKeep
  <2> QED BY <1>5, <2>1, <2>2, <2>3, <2>4, <2>5 DEF Putchar
<1>6. CASE Getchar("cli")
  <2>0. /\ Step("cli", "char", "user") /\ UNCHANGED <<status, count_now>>
        /\ io'.rx_c = io.rx_c + 1 /\ io'.rx_p = io.rx_p /\ io'.tx_p = io.tx_p /\ io'.tx_c = io.tx_c
    BY <1>6 DEF Getchar, schedVars
  <2>1. LockSame /\ PlaceSame
    BY <1>1, <2>0 DEF LockSame, Locks, PlaceSame, Hand, OutHand, Writers
  <2>2. ReadOK'
    <3>1. pc["rx"] # "store" /\ pc["kbd"] # "store"
      BY <1>1, <2>0, StoresAlone
    <3> QED BY <1>1, <2>0, <3>1 DEF ReadOK, InStore, InRead
  <2> QED BY <2>1, <2>2, SamesKeep
<1>7. CASE Calls
  <2>1. ASSUME NEW t \in Writers, NEW x, PutcharEnter(t, x) PROVE IoOK'
    <3>0. t \in {"log", "cli"}
      BY DEF Writers
    <3>1. /\ Step(t, "user", pc'[t]) /\ pc'[t] \in {"place", "user"}
          /\ UNCHANGED <<status, count_now, io>>
      <4>1. /\ Step(t, "user", IF io.tx_init THEN "place" ELSE "user")
            /\ UNCHANGED <<status, count_now, io>>
        BY <2>1 DEF PutcharEnter, schedVars
      <4>2. t \in Tasks /\ pc = [u \in Tasks |-> pc[u]]
        BY <1>1, <3>0, Names DEF CoreOK, PcOK
      <4>3. CASE io.tx_init
        BY <4>1, <4>2, <4>3 DEF Step
      <4>4. CASE ~io.tx_init
        BY <4>1, <4>2, <4>4 DEF Step
      <4> QED BY <4>3, <4>4
    <3>2. LockSame
      BY <1>1, <3>0, <3>1 DEF LockSame, Locks, Writers
    <3>3. PlaceSame
      BY <1>1, <3>0, <3>1 DEF PlaceSame, Hand, OutHand, Writers
    <3>4. ReadSame
      BY <1>1, <3>0, <3>1 DEF ReadSame, InStore, InRead
    <3> QED BY <3>2, <3>3, <3>4, SamesKeep
  <2>2. CASE GetcharEnter("cli")
    <3>1. LockSame /\ PlaceSame
      BY <1>1, <2>2, GetOthers DEF GetcharEnter, ioVars, LockSame, Locks, PlaceSame, Hand,
         OutHand, Writers
    <3>2. ReadOK'
      <4>1. Step("cli", "user", "char") /\ Get("rx") /\ UNCHANGED io
        BY <2>2 DEF GetcharEnter, ioVars
      <4>2. \/ count_now'["rx"] = count_now["rx"] - 1 /\ status'["cli"] = "READY"
            \/ count_now'["rx"] = count_now["rx"] /\ status'["cli"] = "rx"
        BY <1>1, <4>1, GetOthers
      <4> QED BY <1>1, <4>1, <4>2 DEF ReadOK, InStore, InRead
    <3> QED BY <3>1, <3>2, SamesKeep
  <2> QED BY <1>7, <2>1, <2>2 DEF Calls
<1>8. ASSUME NEW t \in {"rx", "kbd"}, NEW after \in {"compare", "test", "sleep"},
             RxFunc(t, after)
      PROVE  IoOK'
  <2>0. /\ Step(t, "rx_func", IF Gives("rx") THEN "store" ELSE after) /\ Give("rx")
        /\ UNCHANGED io /\ isr = "off"
        /\ pc["rx"] # "store" /\ pc["kbd"] # "store"
    <3>1. Step(t, "rx_func", IF Gives("rx") THEN "store" ELSE after) /\ Give("rx") /\ UNCHANGED io
      BY <1>8 DEF RxFunc
    <3>2. pc["rx"] # "store" /\ pc["kbd"] # "store"
      BY <1>1, <3>1 DEF CoreOK, PcOK, StatusOK, PointsOf, RxPoints
    <3> QED BY <1>1, <3>1, <3>2
  <2>1. /\ \A u \in Tasks : status'[u] = status[u] \/ status[u] = "rx"
        /\ \A u \in Tasks : pc[u] \in {"lock", "put"} => status[u] # "rx"
    BY <2>0, GiveOthers DEF CoreOK, StatusOK, Awaits
  <2>2. LockSame /\ PlaceSame
    BY <1>1, <2>0, <2>1, GiveOthers DEF LockSame, PlaceSame, Locks, Hand, OutHand, Writers
  <2>3. ReadOK'
    <3>1. CASE count_now["rx"] = IoSize
      <4>1. ~Gives("rx") /\ UNCHANGED <<status, count_now>>
        BY <2>0, <3>1 DEF Give, Gives
      <4> QED BY <1>1, <2>0, <4>1 DEF ReadOK, InStore, InRead
    <3>2. CASE count_now["rx"] < IoSize /\ count_now'["rx"] = count_now["rx"] + 1
               /\ UNCHANGED status
      BY <1>1, <2>0, <3>2 DEF ReadOK, InStore, InRead, Gives
    <3>3. ASSUME NEW w \in Tasks, count_now["rx"] = 0, count_now'["rx"] = 0,
                 status[w] = "rx", status'[w] = "READY",
                 \A u \in Tasks : u # w => status'[u] = status[u]
          PROVE  ReadOK'
      <4>1. w = "cli" /\ pc[w] = "char"
        BY <3>3 DEF CoreOK, StatusOK, Awaits, PcOK, PointsOf, StdoutPoints, RxPoints, WriterPoints
      <4> QED BY <1>1, <2>0, <3>3, <4>1 DEF ReadOK, InStore, InRead, Gives
    <3> QED BY <2>0, <3>1, <3>2, <3>3, GiveOthers
  <2> QED BY <2>2, <2>3, SamesKeep
<1>9. ASSUME NEW t \in {"rx", "kbd"}, NEW after \in {"compare", "test", "sleep"}, NEW x,
             RxStore(t, after, x)
      PROVE  IoOK'
  <2>0. /\ Step(t, "store", after) /\ UNCHANGED schedVars
        /\ io' = [io EXCEPT !.rx_buf = Put(@, io.rx_p, x), !.rx_p = @ + 1]
    BY <1>9 DEF RxStore
  <2>1. io'.rx_p = io.rx_p + 1 /\ io'.rx_c = io.rx_c /\ io'.tx_p = io.tx_p /\ io'.tx_c = io.tx_c
    BY <2>0
  <2>2. InStore = 1 /\ InStore' = 0
    BY <1>1, <2>0 DEF InStore, CoreOK, PcOK, StatusOK, PointsOf, RxPoints
  <2>3. LockSame /\ PlaceSame
    BY <1>1, <2>0, <2>1 DEF schedVars, LockSame, Locks, PlaceSame, Hand, OutHand, Writers
  <2>4. ReadOK'
    BY <1>1, <2>0, <2>1, <2>2 DEF schedVars, ReadOK, InRead
  <2> QED BY <2>3, <2>4, SamesKeep
<1>10. IoSame => IoOK'
  BY IoSameKeeps
<1> QED BY <1>2, <1>3, <1>4, <1>5, <1>6, <1>7, <1>8, <1>9, <1>10, IoFrame
     DEF Modules, Stdout, RxTaskHand, RxTaskHandPi, KbdHand

(* The hands of stdio_init.c's tasks, counted as Places counts them.       *)
LEMMA HandsCounted ==
  CoreOK => Cardinality({t \in Writers : pc[t] \in {"put", "next"}
                                         \/ (pc[t] = "lock" /\ status[t] # "tx_buf")})
              = Hand("log") + Hand("cli")
<1> DEFINE InHands(t) == pc[t] \in {"put", "next"} \/ (pc[t] = "lock" /\ status[t] # "tx_buf")
           H == {t \in Writers : InHands(t)}
<1>1. \A t \in Writers : Hand(t) = IF InHands(t) THEN 1 ELSE 0
  BY DEF Hand
<1>2. Cardinality({}) = 0 /\ Cardinality({"log"}) = 1 /\ Cardinality({"cli"}) = 1
  BY FS_EmptySet, FS_Singleton
<1>3. Cardinality({"log", "cli"}) = 2
  <2>1. IsFiniteSet({"log"}) /\ "cli" \notin {"log"} /\ {"log"} \cup {"cli"} = {"log", "cli"}
    BY FS_Singleton
  <2> QED BY <1>2, <2>1, FS_AddElement
<1>4. H = IF InHands("log") THEN (IF InHands("cli") THEN {"log", "cli"} ELSE {"log"})
          ELSE IF InHands("cli") THEN {"cli"} ELSE {}
  <2> HIDE DEF InHands
  <2> QED BY DEF Writers
<1> HIDE DEF InHands
<1>5. Cardinality(H) = Hand("log") + Hand("cli")
  <2> HIDE DEF H
  <2> QED BY <1>1, <1>2, <1>3, <1>4 DEF Writers
<1> QED BY <1>5 DEF InHands

(* The places of a driver's transmit ring: those that the semaphore tx     *)
(* counts, those that are filled and not given back yet, and the one that  *)
(* rx_func() was given.  tx_task() gives back what was sent, and on the    *)
(* SAM9 one more.                                                          *)
Queues == IF pc["stdout"] = "queue" /\ status["stdout"] # "tx" THEN 1 ELSE 0
SendOK ==
  link \in {"com", "sam9"} =>
    /\ dev.tx_t <= dev.tx_c + (IF link = "sam9" THEN 1 ELSE 0)
    /\ LET used == count_now["tx"] + (dev.tx_p - dev.tx_t) + Queues
       IN  used = DevSize \/ (link = "sam9" /\ used = DevSize - 1)

LEMMA SendInts ==
  CoreOK /\ DataOK =>
    /\ dev.tx_p \in Nat /\ dev.tx_c \in Nat /\ dev.tx_t \in Nat /\ dev.rx_p \in Nat
    /\ dev.rx_c \in Nat /\ dev.tx_c <= dev.tx_p /\ dev.tx_buf \in DevBufs /\ dev.rx_buf \in DevBufs
    /\ count_now["tx"] \in 0..DevSize /\ CountMax["tx"] = DevSize /\ DevSize \in Nat \ {0}
    /\ DOMAIN dev = {"rx_buf", "rx_p", "rx_c", "tx_buf", "tx_p", "tx_c", "tx_t"}
    /\ dev \in DevTypes
  BY Sizes, ConsoleAssumption DEF CoreOK, DataOK, DevType, DevTypes, FifoOK, SchedType, Sems

(* Who changes what the semaphore tx counts, and who waits for it.         *)
SemSame == /\ count_now'["tx"] = count_now["tx"]
           /\ pc'["stdout"] = "queue" <=> pc["stdout"] = "queue"
           /\ pc["stdout"] = "queue" => status'["stdout"] = status["stdout"]

TxGives == \/ link = "com" /\ TxTaskGive(dev.tx_t # dev.tx_c)
           \/ link = "sam9" /\ TxTaskGive(dev.tx_t <= dev.tx_c)

LEMMA SendFrame ==
  CoreOK /\ [Next]_vars /\ link \in {"com", "sam9"} =>
    \/ TxRoom \/ TxQueue
    \/ TxGives
    \/ SemSame
<1> SUFFICES ASSUME CoreOK, [Next]_vars, link \in {"com", "sam9"}, ~TxRoom, ~TxQueue,
                    ~TxGives
             PROVE  SemSame
  OBVIOUS
<1>0. \A t \in Tasks : pc[t] = "queue" => t = "stdout"
  BY Names DEF CoreOK, PcOK, PointsOf, RxPoints, WriterPoints
<1>1. ASSUME NEW t \in Tasks \ {"idle"}, NEW from, NEW to, Step(t, from, to),
             UNCHANGED schedVars \/ Sleep \/ \E s \in Sems \ {"tx"} : Get(s) \/ Give(s),
             from # "queue" /\ to # "queue"
      PROVE  SemSame
  <2>1. /\ pc[t] = from /\ pc'[t] = to /\ run = t /\ isr = "off"
        /\ \A u \in Tasks : u # t => pc'[u] = pc[u]
    BY <1>1, StepOthers
  <2>2. CASE UNCHANGED schedVars
    BY <1>1, <2>1, <2>2, Names DEF SemSame, schedVars
  <2>3. CASE Sleep
    <3>1. \A u \in Tasks : u # t => status'[u] = status[u]
      BY <2>1, <2>3 DEF Sleep, CoreOK, SchedType
    <3> QED BY <1>1, <2>1, <2>3, <3>1, Names DEF SemSame, Sleep
  <2>4. ASSUME NEW s \in Sems \ {"tx"}, Get(s) PROVE SemSame
    <3>1. /\ \A u \in Tasks : u # t => status'[u] = status[u]
          /\ count_now'["tx"] = count_now["tx"]
      BY <1>1, <2>1, <2>4, GetOthers DEF Sems
    <3> QED BY <1>1, <2>1, <3>1, Names DEF SemSame
  <2>5. ASSUME NEW s \in Sems \ {"tx"}, Give(s) PROVE SemSame
    <3>1. pc["stdout"] = "queue" => status["stdout"] # s
      BY Names, <2>5 DEF CoreOK, StatusOK, Awaits, Sems
    <3>2. /\ \A u \in Tasks : status'[u] = status[u] \/ status[u] = s
          /\ count_now'["tx"] = count_now["tx"]
      BY <2>1, <2>5, GiveOthers DEF Sems
    <3>3. pc'["stdout"] = "queue" <=> pc["stdout"] = "queue"
      BY <1>1, <2>1, Names
    <3> QED BY <3>1, <3>2, <3>3, Names DEF SemSame
  <2> QED BY <1>1, <2>2, <2>3, <2>4, <2>5
<1>2. ASSUME NEW t \in {"rx", "tx", "kbd"}, TaskSleep(t) PROVE SemSame
  BY <1>1, <1>2, Names DEF TaskSleep
<1>3. ASSUME NEW l, RxTaskTest(l, "compare") PROVE SemSame
  BY <1>1, <1>3, Names DEF RxTaskTest, Own
<1>4. ASSUME NEW t \in {"rx", "kbd"}, NEW after \in {"compare", "test", "sleep"},
             RxFunc(t, after)
      PROVE  SemSame
  BY <1>1, <1>4, Names DEF RxFunc, Sems
<1>5. ASSUME NEW t \in {"rx", "kbd"}, NEW after \in {"compare", "test", "sleep"}, NEW x,
             RxStore(t, after, x)
      PROVE  SemSame
  BY <1>1, <1>5, Names DEF RxStore
<1>6. ASSUME NEW t \in {"rx", "stdout"}, NEW from \in {"start", "enable"},
             ReadBits(t, from, "write")
      PROVE  SemSame
  BY <1>1, <1>6, Names DEF ReadBits, Own
<1>7. ASSUME NEW t \in {"rx", "stdout"}, NEW from \in {"write", "enable"},
             NEW to \in {"test", "sent"}, NEW a, NEW b,
             WriteBits(t, from, to, a, b) \/ Enable(t, from, to, a)
      PROVE  SemSame
  BY <1>1, <1>7, Names DEF WriteBits, Enable, Own
<1>8. CASE Drivers
  <2>1. CASE RxTask16550 \/ RxTaskSam
    <3>1. CASE RxTaskStart \/ RxTaskCompare \/ RxTaskNext
      BY <1>1, <3>1, Names DEF RxTaskStart, RxTaskCompare, RxTaskNext, Own
    <3> QED BY <1>2, <1>3, <1>4, <1>5, <1>6, <1>7, <2>1, <3>1
            DEF RxTask16550, RxTaskSam, RxTaskHand
  <2>2. CASE TxFunc16550 \/ TxFuncSam
    <3>1. CASE TxCheck
      BY <1>1, <3>1, Names DEF TxCheck, Own
    <3> QED BY <1>6, <1>7, <2>2, <3>1 DEF TxFunc16550, TxFuncSam
  <2>3. CASE TxTask16550 /\ link = "com"
    BY <1>2, <2>3 DEF TxTask16550, TxGives
  <2>4. CASE TxTaskSam /\ link = "sam9"
    BY <1>2, <2>4 DEF TxTaskSam, TxGives
  <2> QED BY <1>8, <2>1, <2>2, <2>3, <2>4 DEF Drivers
<1>9. CASE Modules
  <2>1. CASE Stdout
    BY <1>1, <2>1, Names
       DEF Stdout, StdoutInit, StdoutWait, StdoutEmpty, StdoutTake, StdoutNext, Sems
  <2>2. ASSUME NEW t \in {"log", "cli"}, Putchar(t) PROVE SemSame
    BY <1>1, <2>2, Names DEF Putchar, PutcharPlace, PutcharLock, PutcharStore, PutcharNext,
                      PutcharUnlock, PutcharTell, Sems
  <2>3. CASE Getchar("cli")
    BY <1>1, <2>3, Names DEF Getchar
  <2> QED BY <1>9, <2>1, <2>2, <2>3 DEF Modules, Writers
<1>10. CASE Calls
  <2>1. ASSUME NEW t \in {"log", "cli"}, NEW x, PutcharEnter(t, x) PROVE SemSame
    BY <1>1, <2>1, Names DEF PutcharEnter
  <2>2. CASE GetcharEnter("cli")
    BY <1>1, <2>2, Names DEF GetcharEnter, Sems
  <2> QED BY <1>10, <2>1, <2>2 DEF Calls, Writers
<1>11. CASE Delay
  BY <1>1, <1>11, Names DEF Delay
<1>12. ASSUME UNCHANGED <<pc, count_now>>,
             Quietly \/ \E t \in {"rx", "tx", "kbd"} : Wake(t)
      PROVE  SemSame
  <2>1. status'["stdout"] = status["stdout"]
    BY <1>12, Names DEF CoreOK, SchedType, Quietly, Wake
  <2> QED BY <1>12, <2>1 DEF SemSame
<1>13. CASE Handles
  BY <1>12, <1>13 DEF Handles, Isr16550, IsrSam, IsrRpi, IsrLine, IsrRxWake, IsrRx, IsrTx,
       Isr16550End, IsrTxSam, IsrRxSam, IsrSamEnd, IsrPi, IsrRxPi, IsrPiEnd, IsrKbdEnd,
       Handler, Quietly
<1>14. CASE Interrupt \/ LineIn \/ LineOut \/ KeyIn \/ UNCHANGED vars
  BY <1>12, <1>14 DEF Interrupt, LineIn, LineOut, KeyIn, IsrKbd, Quietly, vars, schedVars
<1>15. CASE Clock
  <2>1. status'["stdout"] = status["stdout"]
    BY <1>15, Names DEF Clock, CoreOK, SchedType
  <2> QED BY <1>15, <2>1 DEF Clock, SemSame
<1> QED BY <1>8, <1>9, <1>10, <1>11, <1>13, <1>14, <1>15 DEF Next, Goes, Pc

(* A transmit ring's indexes: one more is queued, one more is given back,  *)
(* or some are sent.                                                       *)
LEMMA SendIndexes ==
  CoreOK /\ DataOK /\ [Next]_vars =>
    /\ link' = link
    /\ link \in {"com", "sam9"} =>
       \/ TxQueue /\ dev'.tx_p = dev.tx_p + 1 /\ dev'.tx_c = dev.tx_c /\ dev'.tx_t = dev.tx_t
       \/ /\ TxGives
          /\ dev'.tx_t = dev.tx_t + 1 /\ dev'.tx_p = dev.tx_p /\ dev'.tx_c = dev.tx_c
       \/ dev'.tx_p = dev.tx_p /\ dev'.tx_t = dev.tx_t /\ dev.tx_c <= dev'.tx_c
<1> DEFINE Same == dev'.tx_p = dev.tx_p /\ dev'.tx_t = dev.tx_t /\ dev.tx_c <= dev'.tx_c
           Queue == /\ TxQueue
                    /\ dev'.tx_p = dev.tx_p + 1 /\ dev'.tx_c = dev.tx_c /\ dev'.tx_t = dev.tx_t
           Gave == /\ link \in {"com", "sam9"} => TxGives
                   /\ dev'.tx_t = dev.tx_t + 1 /\ dev'.tx_p = dev.tx_p /\ dev'.tx_c = dev.tx_c
<1> SUFFICES ASSUME CoreOK, DataOK, [Next]_vars PROVE  link' = link /\ (Queue \/ Gave \/ Same)
  OBVIOUS
<1>0. /\ dev.tx_p \in Nat /\ dev.tx_c \in Nat /\ dev.tx_t \in Nat /\ dev \in DevTypes
      /\ DOMAIN dev = {"rx_buf", "rx_p", "rx_c", "tx_buf", "tx_p", "tx_c", "tx_t"}
      /\ c \in Data /\ hw.rx_fifo \in Seq(Data)
  BY SendInts DEF DataOK, IoType, DevType, HwTypes
<1>1. UNCHANGED dev => Same
  BY <1>0
<1>2. ASSUME NEW x \in Data, dev' = Received(dev, x) PROVE Same
  BY <1>0, <1>2, ReceivedIs
<1>3. ASSUME dev' = [dev EXCEPT !.rx_c = dev.rx_c + 1] PROVE Same
  BY <1>0, <1>3
<1>4. CASE Drives /\ UNCHANGED <<link, kbdVars, load>>
  <2>1. CASE TxQueue
    BY <1>0, <1>4, <2>1, QueuedIs DEF TxQueue
  <2>2. ASSUME NEW more, TxTaskGive(more) PROVE Same \/ dev' = [dev EXCEPT !.tx_t = dev.tx_t + 1]
    <3>1. CASE UNCHANGED dev
      BY <1>1, <3>1
    <3> QED BY <1>0, <2>2, <3>1 DEF TxTaskGive
  <2>3. CASE RxTaskNext \/ RxTaskTake
    BY <1>1, <1>3, <1>4, <2>3 DEF RxTaskNext, RxTaskTake
  <2>4. CASE UNCHANGED dev
    BY <1>1, <1>4, <2>4
  <2>5. CASE /\ dev' = [dev EXCEPT !.tx_t = dev.tx_t + 1]
             /\ link \in {"com", "sam9"} => TxGives
    BY <1>0, <1>4, <2>5
  <2> QED BY <1>4, <2>1, <2>2, <2>3, <2>4, <2>5
          DEF TxGives, Drives, RxTaskStart, ReadBits, WriteBits, RxTaskCompare, Enable, WriteMask,
              TxWrite
<1>5. CASE (Isr16550 \/ IsrSam \/ IsrRpi) /\ UNCHANGED <<link, kbdVars, load>>
  <2>0. hw.rx_fifo # <<>> => Head(hw.rx_fifo) \in Data
    BY <1>0
  <2>1. CASE IsrRx
    <3>1. hw.rx_fifo # <<>>
      BY <2>1 DEF IsrRx, DataOK, FifoOK
    <3> QED BY <1>2, <1>5, <2>0, <2>1, <3>1 DEF IsrRx
  <2>2. CASE IsrTx
    <3>1. link \in {"pc", "com"}
      BY <2>2 DEF IsrTx, Handler, CoreOK, PcOK, IsrPoints
    <3>2. PICK n \in 0..(dev.tx_p - dev.tx_c) : dev' = [dev EXCEPT !.tx_c = dev.tx_c + n]
      BY <2>2, <3>1, TxBurst
    <3> QED BY <1>0, <1>5, <3>2
  <2>3. CASE IsrTxSam
    <3>1. CASE dev' = [dev EXCEPT !.tx_c = dev.tx_c + 1]
      BY <1>0, <1>5, <3>1
    <3> QED BY <1>1, <1>5, <2>3, <3>1 DEF IsrTxSam
  <2>4. CASE IsrRxSam
    BY <1>1, <1>2, <1>5, <2>0, <2>4 DEF IsrRxSam, RxPending
  <2>5. CASE IsrRxPi
    BY <1>1, <1>2, <1>5, <2>0, <2>5 DEF IsrRxPi
  <2>6. CASE IsrLine \/ IsrRxWake \/ Isr16550End \/ IsrSamEnd \/ IsrPi \/ IsrPiEnd
    BY <1>1, <1>5, <2>6 DEF IsrLine, IsrRxWake, Isr16550End, IsrSamEnd, IsrPi, IsrPiEnd, devVars
  <2> QED BY <1>5, <2>1, <2>2, <2>3, <2>4, <2>5, <2>6 DEF Isr16550, IsrSam, IsrRpi
<1>6. CASE LineIn \/ LineOut \/ KeyIn \/ (KbdHand /\ UNCHANGED <<link, load>>) \/ Calls \/ Clock
           \/ UNCHANGED <<link, devVars, kbdVars, load>>
  <2>1. UNCHANGED <<dev, link>>
    BY <1>6 DEF LineIn, LineOut, KeyIn, KbdHand, Calls, Clock, devVars, LineIn16550, LineInSam,
                LineInPi, LineOut16550, LineOutSam, ShiftPi, LineOutPi, IsrKbd
  <2> QED BY <1>1, <2>1
<1> QED BY <1>4, <1>5, <1>6, DevFrame

LEMMA SendInit == Init => SendOK
<1> SUFFICES ASSUME Init PROVE SendOK
  OBVIOUS
<1>1. DevInit
  BY DEF Init, SamInit, PiInit, Ns16550Init
<1>2. pc["stdout"] = "init"
  BY Names DEF Init, Writers
<1>3. count_now["tx"] = DevSize
  <2>1. DOMAIN CountMax = Sems /\ CountMax["tx"] = DevSize
    BY Names, ConsoleAssumption
  <2> QED BY <2>1 DEF Init, Sems
<1> QED BY <1>1, <1>2, <1>3, Sizes DEF DevInit, SendOK, Queues

LEMMA SendStep == CoreOK /\ DataOK /\ SendOK /\ [Next]_vars => SendOK'
<1> SUFFICES ASSUME CoreOK, DataOK, SendOK, [Next]_vars, link \in {"com", "sam9"}, link' = link
             PROVE  SendOK'
  BY SendIndexes DEF SendOK
<1>0. DataOK'
  BY DataStep
<1>1. /\ dev'.tx_p \in Nat /\ dev'.tx_c \in Nat /\ dev'.tx_t \in Nat /\ dev'.tx_c <= dev'.tx_p
  BY <1>0 DEF DataOK, DevType, DevTypes, FifoOK
<1> USE SendInts, <1>1
<1> DEFINE IndexSame == dev'.tx_p = dev.tx_p /\ dev'.tx_t = dev.tx_t /\ dev.tx_c <= dev'.tx_c
<1>3. CASE TxQueue
  <2>1. /\ pc["stdout"] = "queue" /\ pc'["stdout"] = "check" /\ status["stdout"] = "READY"
        /\ UNCHANGED count_now
    BY <1>3, StepOthers, Names DEF TxQueue, Own, schedVars
  <2>2. dev'.tx_p = dev.tx_p + 1 /\ dev'.tx_c = dev.tx_c /\ dev'.tx_t = dev.tx_t
    BY <1>3, QueuedIs DEF TxQueue, DataOK, IoType
  <2> QED BY <2>1, <2>2 DEF SendOK, Queues
<1>4. CASE TxRoom
  <2>1. /\ pc["stdout"] = "tx_func" /\ pc'["stdout"] = "queue" /\ UNCHANGED dev
        /\ run = "stdout" /\ isr = "off"
    BY <1>4, StepOthers, Names DEF TxRoom, devVars
  <2>2. \/ /\ count_now["tx"] > 0 /\ count_now'["tx"] = count_now["tx"] - 1
           /\ status'["stdout"] = "READY"
        \/ count_now["tx"] = 0 /\ count_now'["tx"] = 0 /\ status'["stdout"] = "tx"
    BY <1>4, <2>1, GetOthers DEF TxRoom, Sems
  <2> QED BY <2>1, <2>2 DEF SendOK, Queues
<1>5. ASSUME NEW more, TxTaskGive(more),
             more => dev.tx_t < dev.tx_c + (IF link = "sam9" THEN 1 ELSE 0)
      PROVE  SendOK'
  <2>0. pc'["stdout"] = pc["stdout"] /\ isr = "off"
    BY <1>5, StepOthers, Names DEF TxTaskGive
  <2>1. CASE UNCHANGED <<schedVars, dev>>
    BY <2>0, <2>1 DEF SendOK, Queues, schedVars
  <2>2. CASE more /\ Give("tx") /\ dev' = [dev EXCEPT !.tx_t = dev.tx_t + 1]
    <3>1. dev'.tx_t = dev.tx_t + 1 /\ dev'.tx_p = dev.tx_p /\ dev'.tx_c = dev.tx_c
      BY <2>2
    <3>2. \/ count_now["tx"] = DevSize /\ UNCHANGED <<status, count_now>>
          \/ /\ count_now["tx"] < DevSize /\ count_now'["tx"] = count_now["tx"] + 1
             /\ UNCHANGED status
          \/ /\ count_now["tx"] = 0 /\ count_now'["tx"] = 0
             /\ pc["stdout"] = "queue" /\ status["stdout"] = "tx" /\ status'["stdout"] = "READY"
      <4>1. \A w \in Tasks : status[w] = "tx" => w = "stdout" /\ pc[w] = "queue"
        BY Names DEF CoreOK, StatusOK, Awaits, PcOK, PointsOf, RxPoints, WriterPoints
      <4>2. \/ count_now["tx"] = DevSize /\ count_now'["tx"] = count_now["tx"] /\ UNCHANGED status
            \/ /\ count_now["tx"] < DevSize /\ count_now'["tx"] = count_now["tx"] + 1
               /\ UNCHANGED status
            \/ /\ count_now["tx"] = 0 /\ count_now'["tx"] = 0
               /\ \E w \in Tasks : status[w] = "tx" /\ status'[w] = "READY"
        BY <2>0, <2>2, GiveOthers DEF Sems
      <4> QED BY <2>0, <2>2, <4>1, <4>2, GiveEffect DEF CoreOK, Sems
    <3> QED BY <1>5, <2>0, <2>2, <3>1, <3>2 DEF SendOK, Queues
  <2> QED BY <1>5, <2>1, <2>2 DEF TxTaskGive
<1>6. CASE SemSame /\ IndexSame
  BY <1>6 DEF SendOK, Queues, SemSame
<1>7. CASE TxGives
  <2>1. CASE link = "com" /\ TxTaskGive(dev.tx_t # dev.tx_c)
    <3> DEFINE more == dev.tx_t # dev.tx_c
    <3>1. TxTaskGive(more)
      BY <2>1 DEF TxTaskGive
    <3>2. more => dev.tx_t < dev.tx_c + (IF link = "sam9" THEN 1 ELSE 0)
      <4>1. dev.tx_t <= dev.tx_c + 0
        BY <2>1 DEF SendOK
      <4>2. more => dev.tx_t < dev.tx_c + 0
        BY <4>1
      <4> QED BY <2>1, <4>2
    <3> HIDE DEF more
    <3> QED BY <1>5, <3>1, <3>2
  <2>2. CASE link = "sam9" /\ TxTaskGive(dev.tx_t <= dev.tx_c)
    <3> DEFINE more == dev.tx_t <= dev.tx_c
    <3>1. TxTaskGive(more)
      BY <2>2
    <3>2. more => dev.tx_t < dev.tx_c + (IF link = "sam9" THEN 1 ELSE 0)
      BY <2>2
    <3> HIDE DEF more
    <3> QED BY <1>5, <3>1, <3>2
  <2> QED BY <1>7, <2>1, <2>2 DEF TxGives
<1> QED BY <1>3, <1>4, <1>5, <1>6, <1>7, SendFrame, SendIndexes
-----------------------------------------------------------------------------
(* What holds together.                                                    *)
PlacesInv == CoreOK /\ DataOK /\ IoOK /\ SendOK

LEMMA PlacesInit == Init => PlacesInv
  BY CoreInit, DataInit, IoInit, SendInit DEF PlacesInv

LEMMA PlacesStep == PlacesInv /\ [Next]_vars => PlacesInv'
  BY CoreStep, DataStep, IoStep, SendStep DEF PlacesInv

(* stdio_init.c, and the rings of 16550a.c and serial.c: whatever the      *)
(* tasks put, and whenever the line sends, every place of a transmit ring  *)
(* is free, filled, or in the hands of one task that was given it; on the  *)
(* SAM9 one is given twice at most.                                        *)
THEOREM PlacesHold == Spec => []Places
<1>1. PlacesInv => Places
  <2> SUFFICES ASSUME PlacesInv PROVE Places
    OBVIOUS
  <2>1. IoPlaces
    <3> DEFINE H == Cardinality({t \in Writers : pc[t] \in {"put", "next"}
                                                \/ (pc[t] = "lock" /\ status[t] # "tx_buf")})
    <3>1. H = Hand("log") + Hand("cli")
      BY HandsCounted DEF PlacesInv
    <3>2. /\ count_now["tx_buf"] + (io.tx_p - io.tx_c) + OutHand + Hand("log") + Hand("cli")
               = IoSize
          /\ Hand("log") \in Nat /\ Hand("cli") \in Nat /\ OutHand \in Nat
          /\ count_now["tx_buf"] \in Nat /\ io.tx_p \in Nat /\ io.tx_c \in Nat
      BY IoInts DEF PlacesInv, IoOK, PlaceOK, Hand, OutHand, Sems
    <3> HIDE DEF H
    <3>3. count_now["tx_buf"] + (io.tx_p - io.tx_c) + OutHand + H = IoSize
      BY <3>1, <3>2
    <3> QED BY <3>3 DEF IoPlaces, OutHand, H
  <2>2. DevPlaces
    BY DEF PlacesInv, SendOK, DevPlaces, Queues
  <2> QED BY <2>1, <2>2 DEF Places
<1> QED BY <1>1, PlacesInit, PlacesStep, PTL DEF Spec

-----------------------------------------------------------------------------
(* The receiver.  What its state is made of, and the steps that leave it   *)
(* as it is.                                                               *)
RecvData == /\ dev'.rx_p = dev.rx_p /\ dev'.rx_c = dev.rx_c /\ dev'.rx_buf = dev.rx_buf
            /\ hw'.rx_on = hw.rx_on /\ val' = val /\ shut' = shut
RecvSame == /\ RecvData
            /\ pc'["rx"] = pc["rx"] /\ status'["rx"] = status["rx"]
            /\ "rx" \in missed' <=> "rx" \in missed
            /\ isr' = "16550_rx" => isr = "16550_rx"
            /\ pc'["stdout"] = "write" => pc["stdout"] = "write"

(* The steps of the receiving task, ...                                    *)
RxSteps ==
  \/ link \in {"pc", "com"} /\ RxTaskStart
  \/ TaskSleep("rx")
  \/ \E l \in {"ns16550", "uart"} : RxTaskTest(l, "compare")
  \/ RxTaskHand("compare") \/ RxTaskCompare \/ RxTaskNext
  \/ link \in {"pc", "com"} /\ (\/ ReadBits("rx", "enable", "write")
                                \/ WriteBits("rx", "write", "test", TRUE, FALSE))
  \/ link = "sam9" /\ Enable("rx", "enable", "test", TRUE)

(* ... what rx_func() does to the receiver's enable bit as it enables the  *)
(* transmitter, and the handlers.                                          *)
OutSteps == /\ link = "com"
            /\ \/ ReadBits("stdout", "enable", "write")
               \/ WriteBits("stdout", "write", "sent", FALSE, TRUE)

LEMMA RecvTask ==
  ASSUME CoreOK, link # "rpi", NEW t \in Tasks \ {"rx", "idle"}, NEW from, NEW to,
         Step(t, from, to), UNCHANGED schedVars \/ Sleep \/ \E s \in Sems : Get(s) \/ Give(s),
         to # "write", RecvData
  PROVE  RecvSame
<1>1. /\ pc[t] = from /\ pc'[t] = to /\ run = t /\ isr = "off"
      /\ \A u \in Tasks : u # t => pc'[u] = pc[u]
  BY StepOthers
<1>2. pc'["rx"] = pc["rx"] /\ (pc'["stdout"] = "write" => pc["stdout"] = "write")
  BY <1>1, Names
<1>3. status["rx"] \notin Sems
  BY Names DEF CoreOK, StatusOK, Awaits, Sems, PcOK, PointsOf, RxPoints
<1>4. status'["rx"] = status["rx"] /\ missed' = missed /\ isr' = isr
  <2>1. CASE UNCHANGED schedVars
    BY <2>1 DEF schedVars
  <2>2. CASE Sleep
    BY <1>1, <2>2, Names DEF Sleep, CoreOK, SchedType
  <2>3. ASSUME NEW s \in Sems, Get(s)
        PROVE  status'["rx"] = status["rx"] /\ missed' = missed /\ isr' = isr
    <3>1. run # "idle"
      BY <1>1
    <3>2. missed' = missed /\ isr' = isr
      BY <2>3 DEF Get
    <3> QED BY <1>1, <2>3, <3>1, <3>2, GetOthers, Names
  <2>4. ASSUME NEW s \in Sems, Give(s)
        PROVE  status'["rx"] = status["rx"] /\ missed' = missed /\ isr' = isr
    <3>1. missed' = missed /\ isr' = isr
      BY <2>4 DEF Give
    <3>2. status'["rx"] = status["rx"] \/ status["rx"] = s
      BY <1>1, <2>4, GiveOthers, Names
    <3> QED BY <1>3, <2>4, <3>1, <3>2
  <2> QED BY <2>1, <2>2, <2>3, <2>4
<1> QED BY <1>2, <1>4 DEF RecvSame

LEMMA RecvFrame ==
  CoreOK /\ DataOK /\ [Next]_vars /\ link # "rpi" =>
    \/ RxSteps \/ OutSteps \/ IsrRxWake \/ IsrRx \/ IsrRxSam \/ RecvSame
<1> SUFFICES ASSUME CoreOK, DataOK, [Next]_vars, link # "rpi", ~RxSteps, ~OutSteps,
                    ~IsrRxWake, ~IsrRx, ~IsrRxSam
             PROVE  RecvSame
  OBVIOUS
<1>0. /\ dev \in DevTypes
      /\ DOMAIN dev = {"rx_buf", "rx_p", "rx_c", "tx_buf", "tx_p", "tx_c", "tx_t"}
      /\ hw \in HwTypes /\ link \in {"pc", "com", "sam9"} /\ c \in Data
      /\ DOMAIN hw = {"rx_on", "tx_on", "rx_fifo", "tx_fifo", "overrun", "tx_int", "rx_int",
                      "shift"}
  BY Boarded, SendInts DEF DataOK, DevType, HwTypes, CoreOK, PcOK, IoType
<1>1. UNCHANGED devVars => RecvData
  BY DEF devVars, RecvData
<1>2. ASSUME NEW t \in {"tx", "kbd"}, TaskSleep(t) PROVE RecvSame
  BY <1>1, <1>2, RecvTask, Names DEF TaskSleep
<1>3. ASSUME NEW t \in {"kbd"}, NEW after \in {"compare", "test", "sleep"},
             RxFunc(t, after), UNCHANGED devVars
      PROVE  RecvSame
  <2>1. "rx" \in Sems /\ Step(t, "rx_func", IF Gives("rx") THEN "store" ELSE after) /\ Give("rx")
    BY <1>3 DEF RxFunc, Sems
  <2>2. (IF Gives("rx") THEN "store" ELSE after) # "write"
    OBVIOUS
  <2> QED BY <1>1, <1>3, <2>1, <2>2, RecvTask, Names
<1>4. ASSUME NEW t \in {"kbd"}, NEW after \in {"compare", "test", "sleep"}, NEW x,
             RxStore(t, after, x), UNCHANGED devVars
      PROVE  RecvSame
  BY <1>1, <1>4, RecvTask, Names DEF RxStore
<1>5. ASSUME NEW more, TxTaskGive(more) PROVE RecvSame
  <2>1. RecvData
    BY <1>0, <1>5 DEF TxTaskGive, RecvData
  <2>2. /\ Step("tx", "test", "test") \/ Step("tx", "test", "sleep")
        /\ UNCHANGED schedVars \/ \E s \in Sems : Give(s)
    BY <1>5 DEF TxTaskGive, Sems
  <2> QED BY <2>1, <2>2, RecvTask, Names
<1>6. CASE Drivers
  <2>1. ~(RxTask16550 /\ link \in {"pc", "com"}) /\ ~(RxTaskSam /\ link = "sam9")
    BY DEF RxTask16550, RxTaskSam, RxSteps
  <2>2. CASE (TxFunc16550 /\ link = "com") \/ (TxFuncSam /\ link = "sam9")
    <3>1. CASE TxRoom
      BY <1>1, <3>1, RecvTask, Names DEF TxRoom, Sems
    <3>2. CASE TxCheck
      BY <1>1, <3>2, RecvTask, Names DEF TxCheck, Own
    <3>3. CASE TxQueue
      <4>1. RecvData
        BY <1>0, <3>3, QueuedIs DEF TxQueue, RecvData
      <4> QED BY <3>3, <4>1, RecvTask, Names DEF TxQueue, Own
    <3>4. CASE Enable("stdout", "enable", "sent", FALSE)
      <4>1. RecvData
        BY <1>0, <3>4 DEF Enable, RecvData
      <4> QED BY <3>4, <4>1, RecvTask, Names DEF Enable, Own
    <3> QED BY <2>2, <3>1, <3>2, <3>3, <3>4 DEF TxFunc16550, TxFuncSam, OutSteps
  <2>3. CASE TxTask16550 \/ TxTaskSam
    BY <1>2, <1>5, <2>3 DEF TxTask16550, TxTaskSam
  <2> QED BY <1>6, <2>1, <2>2, <2>3, <1>0 DEF Drivers
<1>7. CASE Pc
  <2>1. CASE KbdTest
    BY <1>1, <2>1, RecvTask, Names DEF KbdTest, Own
  <2>2. CASE TxFuncScreen
    BY <1>1, <2>2, RecvTask, Names DEF TxFuncScreen
  <2> QED BY <1>2, <1>3, <1>4, <1>7, <2>1, <2>2 DEF Pc, KbdTask, KbdHand
<1>8. CASE Modules /\ UNCHANGED devVars
  <2>1. CASE Stdout
    BY <1>1, <1>8, <2>1, RecvTask, Names
       DEF Stdout, StdoutInit, StdoutWait, StdoutEmpty, StdoutTake, StdoutNext, Sems
  <2>2. ASSUME NEW t \in {"log", "cli"}, Putchar(t) PROVE RecvSame
    BY <1>1, <1>8, <2>2, RecvTask, Names DEF Putchar, PutcharPlace, PutcharLock, PutcharStore,
                      PutcharNext, PutcharUnlock, PutcharTell, Sems
  <2>3. CASE Getchar("cli")
    BY <1>1, <1>8, <2>3, RecvTask, Names DEF Getchar
  <2> QED BY <1>8, <2>1, <2>2, <2>3 DEF Modules, Writers
<1>9. CASE Calls
  <2>0. UNCHANGED devVars
    BY <1>9 DEF Calls
  <2>1. ASSUME NEW t \in {"log", "cli"}, NEW x, PutcharEnter(t, x) PROVE RecvSame
    <3>1. Step(t, "user", IF io.tx_init THEN "place" ELSE "user") /\ UNCHANGED schedVars
      BY <2>1 DEF PutcharEnter
    <3>2. (IF io.tx_init THEN "place" ELSE "user") # "write"
      OBVIOUS
    <3> QED BY <1>1, <2>0, <3>1, <3>2, RecvTask, Names
  <2>2. CASE GetcharEnter("cli")
    BY <1>1, <2>0, <2>2, RecvTask, Names DEF GetcharEnter, Sems
  <2> QED BY <1>9, <2>1, <2>2 DEF Calls, Writers
<1>10. CASE Delay
  BY <1>1, <1>10, RecvTask, Names DEF Delay
<1>11. ASSUME UNCHANGED pc, isr' # "16550_rx", RecvData,
              Quietly \/ Wake("tx") \/ Wake("kbd")
       PROVE  RecvSame
  <2>1. status'["rx"] = status["rx"] /\ ("rx" \in missed' <=> "rx" \in missed)
    BY <1>11, Names DEF CoreOK, SchedType, Quietly, Wake
  <2> QED BY <1>11, <2>1 DEF RecvSame
<1>12. CASE Handles
  <2>1. CASE IsrLine
    <3>1. RecvData
      BY <1>0, <2>1 DEF IsrLine, Handler, RecvData
    <3> QED BY <1>11, <2>1, <3>1 DEF IsrLine, Handler
  <2>2. CASE IsrTx
    <3>1. RecvData
      BY <1>0, <2>2 DEF IsrTx, Handler, RecvData
    <3> QED BY <1>11, <2>2, <3>1 DEF IsrTx, Handler
  <2>3. CASE IsrTxSam
    <3>1. RecvData
      BY <1>0, <2>3 DEF IsrTxSam, Handler, RecvData
    <3> QED BY <1>11, <2>3, <3>1 DEF IsrTxSam, Handler
  <2>4. CASE Isr16550End \/ IsrSamEnd \/ IsrKbdEnd
    BY <1>1, <1>11, <2>4 DEF Isr16550End, IsrSamEnd, IsrKbdEnd, HandlerEnd
  <2>5. ~IsrRpi
    BY <1>0 DEF IsrRpi, IsrPi, IsrRxPi, IsrPiEnd, CoreOK, PcOK, IsrPoints
  <2> QED BY <1>12, <2>1, <2>2, <2>3, <2>4, <2>5 DEF Handles, Isr16550, IsrSam
<1>13. CASE Interrupt \/ UNCHANGED vars
  <2>1. RecvData /\ UNCHANGED <<pc, status, missed>> /\ (isr' = "16550_rx" => isr = "16550_rx")
    BY <1>1, <1>13 DEF Interrupt, vars, schedVars
  <2> QED BY <2>1 DEF RecvSame
<1>14. CASE KeyIn
  <2>1. RecvData
    BY <1>14 DEF KeyIn, IsrKbd, RecvData
  <2> QED BY <1>11, <1>14, <2>1 DEF KeyIn, IsrKbd
<1>15. CASE LineIn
  <2>1. CASE LineIn16550(load'.came)
    <3>1. RecvData
      BY <1>0, <2>1 DEF LineIn16550, RecvData
    <3> QED BY <1>15, <3>1 DEF LineIn, RecvSame, schedVars
  <2>2. CASE LineInSam(load'.came)
    <3>1. RecvData
      BY <1>0, <2>2 DEF LineInSam, RecvData
    <3> QED BY <1>15, <3>1 DEF LineIn, RecvSame, schedVars
  <2> QED BY <1>15, <2>1, <2>2 DEF LineIn
<1>16. CASE LineOut
  <2>1. CASE LineOut16550
    <3>1. RecvData
      BY <1>0, <2>1 DEF LineOut16550, RecvData
    <3> QED BY <1>16, <3>1 DEF LineOut, RecvSame, schedVars
  <2>2. CASE LineOutSam
    <3>1. RecvData
      BY <1>0, <2>2 DEF LineOutSam, RecvData
    <3> QED BY <1>16, <3>1 DEF LineOut, RecvSame, schedVars
  <2> QED BY <1>16, <2>1, <2>2 DEF LineOut
<1>17. CASE Clock
  <2>1. status'["rx"] = status["rx"]
    BY <1>17, Names DEF Clock, CoreOK, SchedType
  <2> QED BY <1>1, <1>17, <2>1 DEF Clock, RecvSame, HandlerEnd
<1> QED BY <1>6, <1>7, <1>8, <1>9, <1>10, <1>12, <1>13, <1>14, <1>15, <1>16, <1>17
        DEF Next, Goes

LEMMA Remainders ==
  ASSUME NEW n \in Nat \ {0}, NEW a \in Nat, NEW b \in Nat, b <= a, a - b <= n
  PROVE  a % n = b % n <=> (a = b \/ a - b = n)
<1>1. /\ a = n * (a \div n) + (a % n) /\ b = n * (b \div n) + (b % n)
      /\ a \div n \in Int /\ b \div n \in Int
      /\ a % n \in 0..(n - 1) /\ b % n \in 0..(n - 1)
  OBVIOUS
<1> DEFINE k == (a \div n) - (b \div n)
<1>2. a % n = b % n => a - b = n * k
  BY <1>1
<1>3. k \in Int
  BY <1>1
<1>4. a - b = n * k + ((a % n) - (b % n))
  <2>1. \A q, r, s, u \in Int : n * q + s - (n * r + u) = n * (q - r) + (s - u)
    OBVIOUS
  <2>2. a - b = n * (a \div n) + (a % n) - (n * (b \div n) + (b % n))
    BY <1>1
  <2> QED BY <1>1, <2>1, <2>2
<1> HIDE DEF k
<1>5. ASSUME a - b = n * k PROVE k = 0 \/ k = 1
  <2>1. k >= 0
    BY <1>3, <1>5
  <2>2. k <= 1
    BY <1>3, <1>5
  <2> QED BY <1>3, <2>1, <2>2
<1>6. ASSUME a - b = n PROVE a % n = b % n
  <2> DEFINE r == (a % n) - (b % n)
  <2>1. r \in Int /\ -n < r /\ r < n
    BY <1>1
  <2>2. n = n * k + r
    BY <1>4, <1>6
  <2> HIDE DEF r
  <2>3. k = 1
    BY <1>3, <2>1, <2>2
  <2>4. r = 0
    BY <2>1, <2>2, <2>3
  <2> QED BY <1>1, <2>4 DEF r
<1> QED BY <1>2, <1>3, <1>5, <1>6

(* What each of those steps does to the receiver's state.                  *)
RxRuns(from, to) ==
  /\ pc["rx"] = from /\ pc'["rx"] = to /\ status["rx"] = "READY"
  /\ isr = "off" /\ isr' = "off" /\ missed' = missed
  /\ pc'["stdout"] = pc["stdout"] /\ val'["stdout"] = val["stdout"]
  /\ dev'.rx_p = dev.rx_p /\ shut' = shut
RxStays == status'["rx"] = "READY"
OnSame == hw'.rx_on = hw.rx_on
ReadSo == dev'.rx_c = dev.rx_c
ValSame == val'["rx"] = val["rx"]

RxEffect ==
  \/ RxRuns("start", "sleep") /\ hw'.rx_on /\ ReadSo /\ RxStays
  \/ RxRuns("sleep", "test") /\ OnSame /\ ReadSo /\ status'["rx"] = "SLEEPING"
  \/ RxRuns("test", "sleep") /\ dev.rx_c = dev.rx_p /\ OnSame /\ ReadSo /\ RxStays
  \/ /\ RxRuns("test", "rx_func") \/ RxRuns("test", "compare")
     /\ dev.rx_c # dev.rx_p /\ OnSame /\ ReadSo /\ RxStays
  \/ /\ RxRuns("rx_func", "store") \/ RxRuns("rx_func", "compare") \/ RxRuns("store", "compare")
     /\ OnSame /\ ReadSo /\ RxStays
  \/ RxRuns("compare", "next") /\ OnSame /\ ReadSo /\ RxStays
     /\ val'["rx"] = IF RxEqual THEN 1 ELSE 0
  \/ /\ RxRuns("next", IF val["rx"] = 1 THEN "enable" ELSE "test")
     /\ OnSame /\ dev'.rx_c = dev.rx_c + 1 /\ RxStays
  \/ RxRuns("enable", "write") /\ OnSame /\ ReadSo /\ RxStays
  \/ (RxRuns("write", "test") \/ RxRuns("enable", "test")) /\ hw'.rx_on /\ ReadSo /\ RxStays

OutEffect ==
  /\ link = "com" /\ run = "stdout" /\ isr = "off" /\ isr' = "off" /\ missed' = missed
  /\ UNCHANGED <<dev, shut>>
  /\ pc'["rx"] = pc["rx"] /\ status'["rx"] = status["rx"] /\ ValSame
  /\ \/ pc'["stdout"] = "write" /\ OnSame
        /\ val'["stdout"] % 2 = IF hw.rx_on THEN 1 ELSE 0
     \/ /\ pc["stdout"] = "write" /\ pc'["stdout"] = "sent"
        /\ hw'.rx_on <=> val["stdout"] % 2 = 1

(* A handler wakes the task, ...                                           *)
RxWoken == /\ status'["rx"] = "READY"
           /\ "rx" \in missed' <=> "rx" \in missed \/ pc["rx"] = "sleep"
WakeOnly == hw.rx_on /\ OnSame /\ UNCHANGED <<dev, pc, val, shut>> /\ RxWoken

(* ... and puts what was received in the ring.                             *)
RingEffect ==
  /\ hw.rx_on /\ dev'.rx_p = dev.rx_p + 1 /\ ReadSo /\ (hw'.rx_on <=> ~Full(dev'))
  /\ shut' = (shut \/ (Full(dev') /\ pc["rx"] = "next" /\ val["rx"] = 0))
  /\ isr # "off" /\ UNCHANGED <<pc, val>>
  /\ \/ link = "sam9" /\ RxWoken
     \/ isr = "16550_rx" /\ UNCHANGED <<status, missed>>

LEMMA RxStepEffect == CoreOK /\ DataOK /\ RxSteps => RxEffect
<1> SUFFICES ASSUME CoreOK, DataOK, RxSteps PROVE RxEffect
  OBVIOUS
<1>0. /\ dev \in DevTypes
      /\ DOMAIN dev = {"rx_buf", "rx_p", "rx_c", "tx_buf", "tx_p", "tx_c", "tx_t"}
      /\ hw \in HwTypes /\ link \in {"pc", "com", "sam9", "rpi"}
      /\ DOMAIN hw = {"rx_on", "tx_on", "rx_fifo", "tx_fifo", "overrun", "tx_int", "rx_int",
                      "shift"}
      /\ val \in [{"rx", "stdout"} -> 0..3]
  BY Boarded, SendInts DEF DataOK, DevType, HwTypes, CoreOK, PcOK
<1>1. ASSUME NEW from, NEW to, Step("rx", from, to), missed' = missed, isr' = isr,
             dev'.rx_p = dev.rx_p, shut' = shut, val'["stdout"] = val["stdout"]
      PROVE  RxRuns(from, to)
  BY <1>1, StepOthers, Names DEF RxRuns
<1>2. ASSUME NEW from, NEW to, Own("rx", from, to), dev'.rx_p = dev.rx_p, shut' = shut,
             val'["stdout"] = val["stdout"]
      PROVE  RxRuns(from, to) /\ RxStays
  BY <1>1, <1>2 DEF Own, RxRuns, RxStays, schedVars
<1> USE DEF OnSame, ReadSo
<1>3. CASE RxTaskStart
  <2>1. RxRuns("start", "sleep") /\ RxStays /\ hw'.rx_on
    BY <1>0, <1>2, <1>3 DEF RxTaskStart
  <2> QED BY <1>3, <2>1 DEF RxTaskStart, RxEffect
<1>4. CASE TaskSleep("rx")
  <2>1. RxRuns("sleep", "test")
    BY <1>1, <1>4 DEF TaskSleep, Sleep, devVars
  <2>2. status'["rx"] = "SLEEPING"
    BY <1>4, StepOthers, Names DEF TaskSleep, Sleep, CoreOK, SchedType
  <2> QED BY <1>4, <2>1, <2>2 DEF TaskSleep, devVars, RxEffect
<1>5. ASSUME NEW l, RxTaskTest(l, "compare") PROVE RxEffect
  <2>0. UNCHANGED <<dev, hw>>
    BY <1>5 DEF RxTaskTest, devVars
  <2>1. ASSUME NEW to, Own("rx", "test", to) PROVE RxRuns("test", to) /\ RxStays
    BY <1>2, <1>5, <2>1 DEF RxTaskTest, devVars
  <2>2. CASE dev.rx_c = dev.rx_p
    BY <1>5, <2>0, <2>1, <2>2 DEF RxTaskTest, RxEffect
  <2>3. CASE dev.rx_c # dev.rx_p /\ TxFunc(l) # None
    BY <1>5, <2>0, <2>1, <2>3 DEF RxTaskTest, RxEffect
  <2>4. CASE dev.rx_c # dev.rx_p /\ TxFunc(l) = None
    BY <1>5, <2>0, <2>1, <2>4 DEF RxTaskTest, RxEffect
  <2> QED BY <2>2, <2>3, <2>4
<1>6. CASE RxTaskHand("compare")
  <2>0. UNCHANGED <<dev, hw, val, shut>>
    BY <1>6 DEF RxTaskHand, devVars
  <2>1. CASE RxFunc("rx", "compare")
    <3>1. Step("rx", "rx_func", IF Gives("rx") THEN "store" ELSE "compare") /\ Give("rx")
      BY <2>1 DEF RxFunc
    <3>2. missed' = missed /\ isr' = isr
      BY <3>1 DEF Give
    <3>3. RxStays
      <4>1. status["rx"] = "READY" /\ isr = "off"
        BY <3>1, StepOthers, Names
      <4> QED BY <3>1, <4>1, GiveOthers, Names DEF RxStays, Sems
    <3>4. RxRuns("rx_func", "store") \/ RxRuns("rx_func", "compare")
      <4>1. CASE Gives("rx")
        BY <1>1, <2>0, <3>1, <3>2, <4>1
      <4>2. CASE ~Gives("rx")
        BY <1>1, <2>0, <3>1, <3>2, <4>2
      <4> QED BY <4>1, <4>2
    <3> QED BY <2>0, <3>3, <3>4 DEF RxEffect
  <2>2. ASSUME NEW x, RxStore("rx", "compare", x) PROVE RxEffect
    <3>1. RxRuns("store", "compare") /\ UNCHANGED status
      BY <1>1, <2>0, <2>2 DEF RxStore, schedVars
    <3> QED BY <2>0, <3>1 DEF RxEffect, RxStays, RxRuns
  <2> QED BY <1>6, <2>1, <2>2 DEF RxTaskHand
<1>7. CASE RxTaskCompare
  <2>1. val'["rx"] = (IF RxEqual THEN 1 ELSE 0) /\ val'["stdout"] = val["stdout"]
    BY <1>0, <1>7 DEF RxTaskCompare
  <2>2. RxRuns("compare", "next") /\ RxStays
    BY <1>2, <1>7, <2>1 DEF RxTaskCompare
  <2> QED BY <1>7, <2>1, <2>2 DEF RxTaskCompare, RxEffect
<1>8. CASE RxTaskNext
  <2>1. dev'.rx_c = dev.rx_c + 1 /\ dev'.rx_p = dev.rx_p /\ UNCHANGED <<hw, val, shut>>
    BY <1>0, <1>8 DEF RxTaskNext
  <2>2. RxRuns("next", IF val["rx"] = 1 THEN "enable" ELSE "test") /\ RxStays
    BY <1>2, <1>8, <2>1 DEF RxTaskNext
  <2> QED BY <2>1, <2>2 DEF RxEffect
<1>9. CASE ReadBits("rx", "enable", "write")
  <2>1. val'["stdout"] = val["stdout"] /\ UNCHANGED <<dev, hw, shut>>
    BY <1>0, <1>9 DEF ReadBits
  <2>2. RxRuns("enable", "write") /\ RxStays
    BY <1>2, <1>9, <2>1 DEF ReadBits
  <2> QED BY <2>1, <2>2 DEF RxEffect
<1>10. CASE WriteBits("rx", "write", "test", TRUE, FALSE)
  <2>1. UNCHANGED <<dev, val, shut>>
    BY <1>10 DEF WriteBits
  <2>2. hw'.rx_on
    <3> DEFINE h == [hw EXCEPT !.rx_on = TRUE \/ val["rx"] % 2 = 1]
    <3>1. h.rx_on /\ DOMAIN h = DOMAIN hw
      BY <1>0
    <3>2. hw' = IF FALSE \/ val["rx"] >= 2 THEN TxEnabled(h) ELSE [h EXCEPT !.tx_on = FALSE]
      BY <1>10 DEF WriteBits
    <3> HIDE DEF h
    <3> QED BY <1>0, <3>1, <3>2 DEF TxEnabled
  <2>3. RxRuns("write", "test") /\ RxStays
    BY <1>2, <1>10, <2>1 DEF WriteBits
  <2> QED BY <2>1, <2>2, <2>3 DEF RxEffect
<1>11. CASE Enable("rx", "enable", "test", TRUE)
  <2>1. UNCHANGED <<dev, val, shut>> /\ hw'.rx_on
    BY <1>0, <1>11 DEF Enable
  <2>2. RxRuns("enable", "test") /\ RxStays
    BY <1>2, <1>11, <2>1 DEF Enable
  <2> QED BY <2>1, <2>2 DEF RxEffect
<1> QED BY <1>3, <1>4, <1>5, <1>6, <1>7, <1>8, <1>9, <1>10, <1>11 DEF RxSteps

LEMMA OutStepEffect == CoreOK /\ DataOK /\ OutSteps => OutEffect
<1> SUFFICES ASSUME CoreOK, DataOK, OutSteps PROVE OutEffect
  OBVIOUS
<1>0. /\ hw \in HwTypes /\ link = "com" /\ hw.rx_on \in BOOLEAN /\ hw.tx_on \in BOOLEAN
      /\ DOMAIN hw = {"rx_on", "tx_on", "rx_fifo", "tx_fifo", "overrun", "tx_int", "rx_int",
                      "shift"}
      /\ val \in [{"rx", "stdout"} -> 0..3]
  BY DEF DataOK, DevType, HwTypes, OutSteps
<1>1. ASSUME NEW from, NEW to, Own("stdout", from, to)
      PROVE  /\ run = "stdout" /\ isr = "off" /\ isr' = "off" /\ missed' = missed
             /\ pc'["rx"] = pc["rx"] /\ status'["rx"] = status["rx"]
             /\ pc["stdout"] = from /\ pc'["stdout"] = to
  BY <1>1, StepOthers, Names DEF Own, schedVars
<1>2. CASE ReadBits("stdout", "enable", "write")
  <2>1. val'["rx"] = val["rx"] /\ val'["stdout"] = Bits /\ UNCHANGED <<dev, hw, shut>>
    BY <1>0, <1>2 DEF ReadBits
  <2>2. Bits % 2 = IF hw.rx_on THEN 1 ELSE 0
    BY <1>0 DEF Bits
  <2> QED BY <1>0, <1>1, <1>2, <2>1, <2>2 DEF OutEffect, ValSame, OnSame, ReadBits
<1>3. CASE WriteBits("stdout", "write", "sent", FALSE, TRUE)
  <2>1. UNCHANGED <<dev, val, shut>>
    BY <1>3 DEF WriteBits
  <2>2. hw'.rx_on <=> val["stdout"] % 2 = 1
    <3> DEFINE on == val["stdout"] % 2 = 1
               h == [hw EXCEPT !.rx_on = FALSE \/ on]
    <3>1. (h.rx_on <=> on) /\ DOMAIN h = DOMAIN hw
      BY <1>0
    <3>2. hw' = TxEnabled(h)
      BY <1>3 DEF WriteBits
    <3> HIDE DEF h, on
    <3>3. hw'.rx_on <=> on
      BY <1>0, <3>1, <3>2 DEF TxEnabled
    <3> QED BY <3>3 DEF on
  <2> QED BY <1>0, <1>1, <1>3, <2>1, <2>2 DEF OutEffect, ValSame, OnSame, WriteBits
<1> QED BY <1>2, <1>3 DEF OutSteps

LEMMA RxStatus == CoreOK => status["rx"] \in {"READY", "SLEEPING"}
  BY Names DEF CoreOK, StatusOK, Awaits, PcOK, PointsOf, RxPoints

LEMMA WakeRx == CoreOK /\ Wake("rx") => RxWoken
  BY RxStatus, Names DEF Wake, RxWoken, CoreOK, SchedType

LEMMA RecvHandlers ==
  CoreOK /\ DataOK /\ link # "rpi" /\ (IsrRxWake \/ IsrRx \/ IsrRxSam) =>
    WakeOnly \/ RingEffect \/ RecvSame
<1> SUFFICES ASSUME CoreOK, DataOK, link # "rpi", IsrRxWake \/ IsrRx \/ IsrRxSam
             PROVE  WakeOnly \/ RingEffect \/ RecvSame
  OBVIOUS
<1>0. /\ dev \in DevTypes /\ hw \in HwTypes /\ link \in {"pc", "com", "sam9"}
      /\ hw.rx_on \in BOOLEAN /\ hw.rx_fifo \in Seq(Data)
      /\ DOMAIN hw = {"rx_on", "tx_on", "rx_fifo", "tx_fifo", "overrun", "tx_int", "rx_int",
                      "shift"}
      /\ isr = "16550_rx" => hw.rx_on /\ hw.rx_fifo # <<>>
      /\ isr = "sam9_rx" => link = "sam9"
  BY Boarded DEF DataOK, DevType, HwTypes, CoreOK, PcOK, FifoOK, IsrPoints
<1>1. CASE IsrRxWake
  BY <1>1, WakeRx DEF IsrRxWake, Handler, RxPending, WakeOnly, OnSame
<1>2. ASSUME hw.rx_fifo # <<>>, dev' = Received(dev, Head(hw.rx_fifo))
      PROVE  dev'.rx_p = dev.rx_p + 1 /\ ReadSo
  <2>1. Head(hw.rx_fifo) \in Data
    BY <1>0, <1>2
  <2> QED BY <1>0, <1>2, <2>1, ReceivedIs DEF ReadSo
<1>3. CASE IsrRx
  <2>1. hw.rx_on /\ hw.rx_fifo # <<>> /\ isr = "16550_rx"
    BY <1>0, <1>3 DEF IsrRx
  <2>2. hw'.rx_on <=> hw.rx_on /\ ~Full(dev')
    <3> DEFINE full == Full(dev')
    <3>1. hw' = [hw EXCEPT !.rx_fifo = Tail(@), !.rx_on = @ /\ ~full]
      BY <1>3 DEF IsrRx
    <3> HIDE DEF full
    <3>2. hw'.rx_on <=> hw.rx_on /\ ~full
      BY <1>0, <3>1
    <3> QED BY <3>2 DEF full
  <2>3. dev'.rx_p = dev.rx_p + 1 /\ ReadSo
    BY <1>2, <1>3, <2>1 DEF IsrRx
  <2>4. /\ shut' = (shut \/ (Full(dev') /\ pc["rx"] = "next" /\ val["rx"] = 0))
        /\ UNCHANGED <<pc, val, status, missed>>
    BY <1>3 DEF IsrRx, Quietly
  <2> QED BY <2>1, <2>2, <2>3, <2>4 DEF RingEffect
<1>4. CASE IsrRxSam /\ RxPending
  <2>1. hw.rx_on /\ hw.rx_fifo # <<>> /\ isr = "sam9_rx" /\ link = "sam9"
    BY <1>0, <1>4 DEF IsrRxSam, RxPending
  <2>2. hw'.rx_on <=> ~Full(dev')
    <3> DEFINE full == Full(dev')
    <3>1. hw' = [hw EXCEPT !.rx_fifo = <<>>, !.rx_on = ~full]
      BY <1>4 DEF IsrRxSam
    <3> HIDE DEF full
    <3>2. hw'.rx_on <=> ~full
      BY <1>0, <3>1
    <3> QED BY <3>2 DEF full
  <2>3. dev'.rx_p = dev.rx_p + 1 /\ ReadSo
    BY <1>2, <1>4, <2>1 DEF IsrRxSam
  <2>4. /\ shut' = (shut \/ (Full(dev') /\ pc["rx"] = "next" /\ val["rx"] = 0))
        /\ UNCHANGED <<pc, val>> /\ Wake("rx")
    BY <1>4 DEF IsrRxSam
  <2> QED BY <2>1, <2>2, <2>3, <2>4, WakeRx DEF RingEffect
<1>5. CASE IsrRxSam /\ ~RxPending
  BY <1>5 DEF IsrRxSam, RecvSame, RecvData, Quietly
<1> QED BY <1>1, <1>3, <1>4, <1>5

(* The receiver is off while its ring is full, whatever rx_task() is at:   *)
(* the index moves on before the receiver is started again, and a task     *)
(* that has something to hand on is ready, unless a wake-up was missed.    *)
(* Only then can rx_func() run after a handler shut the receiver down, and *)
(* write back the bit as it had read it before.                            *)
Stale == link = "com" /\ "rx" \in missed
InRing == dev.rx_p - dev.rx_c
Handing == {"rx_func", "store", "compare", "next"}
RecvOK ==
  /\ dev.rx_c <= dev.rx_p
  /\ link # "rpi" =>
       /\ pc["rx"] \in Handing => dev.rx_c # dev.rx_p
       /\ pc["rx"] = "start" => ~hw.rx_on /\ dev.rx_c = dev.rx_p
       /\ "rx" \in missed \/ dev.rx_c = dev.rx_p \/ (pc["rx"] # "sleep" /\ status["rx"] = "READY")
       /\ isr = "16550_rx" => /\ status["rx"] = "READY"
                              /\ "rx" \in missed \/ pc["rx"] # "sleep"
       /\ Stale \/ InRing <= DevSize
       /\ hw.rx_on \/ pc["rx"] \in {"enable", "write"} => Stale \/ InRing < DevSize
       /\ pc["rx"] \in {"enable", "write"} => Stale \/ ~hw.rx_on
       /\ pc["rx"] = "next" => val["rx"] = 0 \/ (val["rx"] = 1 /\ (Stale \/ InRing = DevSize))

(* A receiver that is off will be started again: the comparison is going   *)
(* to find the ring full, or has found it, or came too early (shut).       *)
BackOK ==
  link # "rpi" =>
    /\ ReceiverBack
    /\ pc["rx"] = "next" => hw.rx_on \/ shut \/ val["rx"] = 1
    /\ link = "com" /\ pc["stdout"] = "write" /\ val["stdout"] % 2 = 0
         => shut \/ (~hw.rx_on /\ status["rx"] = "SLEEPING")

LEMMA RecvInit == Init => RecvOK /\ BackOK
<1> SUFFICES ASSUME Init PROVE RecvOK /\ BackOK
  OBVIOUS
<1>1. DevInit
  BY DEF Init, SamInit, PiInit, Ns16550Init
<1>2. /\ dev.rx_p = 0 /\ dev.rx_c = 0 /\ shut = FALSE /\ missed = {} /\ isr = "off"
      /\ DevSize \in Nat \ {0} /\ pc["stdout"] = "init" /\ link \in {"pc", "com", "sam9", "rpi"}
      /\ pc["rx"] = IF link = "sam9" THEN "sleep" ELSE "start"
  BY <1>1, Boarded, Sizes, Names DEF Init, DevInit, Writers
<1>3. hw.rx_on <=> link = "sam9"
  <2>1. CASE link = "sam9"
    BY <2>1 DEF Init, SamInit, HwInit
  <2>2. CASE link = "rpi"
    BY <2>2 DEF Init, PiInit, HwInit
  <2>3. CASE link \notin {"sam9", "rpi"}
    BY <2>3 DEF Init, Ns16550Init, HwInit
  <2> QED BY <2>1, <2>2, <2>3
<1>4. RecvOK
  BY <1>2, <1>3 DEF RecvOK, Handing, Stale, InRing
<1>5. BackOK
  BY <1>2, <1>3 DEF BackOK, ReceiverBack
<1> QED BY <1>4, <1>5

LEMMA FullIs ==
  ASSUME NEW d \in DevTypes, d.rx_c <= d.rx_p, d.rx_p - d.rx_c <= DevSize
  PROVE  Full(d) <=> (d.rx_c = d.rx_p \/ d.rx_p - d.rx_c = DevSize)
<1>1. d.rx_p \in Nat /\ d.rx_c \in Nat /\ d.rx_buf \in DevBufs /\ DevSize \in Nat \ {0}
  BY Sizes DEF DevTypes
<1>2. Len(d.rx_buf) = DevSize
  BY <1>1, Lens
<1>3. d.rx_p % DevSize = d.rx_c % DevSize <=> (d.rx_p = d.rx_c \/ d.rx_p - d.rx_c = DevSize)
  BY <1>1, Remainders
<1> QED BY <1>1, <1>2, <1>3 DEF Full

(* On the Raspberry Pi, too, nothing is read that has not been received.   *)
LEMMA PiIndexes ==
  CoreOK /\ DataOK /\ [Next]_vars /\ link = "rpi" /\ dev.rx_c <= dev.rx_p
    => dev'.rx_c <= dev'.rx_p
<1> SUFFICES ASSUME CoreOK, DataOK, [Next]_vars, link = "rpi", dev.rx_c <= dev.rx_p
             PROVE  dev'.rx_c <= dev'.rx_p
  OBVIOUS
<1>0. /\ dev.rx_p \in Nat /\ dev.rx_c \in Nat /\ dev \in DevTypes
      /\ DOMAIN dev = {"rx_buf", "rx_p", "rx_c", "tx_buf", "tx_p", "tx_c", "tx_t"}
      /\ hw.rx_fifo \in Seq(Data) /\ isr \notin {"16550", "16550_rx", "sam9", "sam9_rx", "sam9_end"}
  BY SendInts DEF DataOK, DevType, HwTypes, CoreOK, PcOK, IsrPoints
<1>1. ASSUME UNCHANGED dev PROVE dev'.rx_c <= dev'.rx_p
  BY <1>0, <1>1
<1>2. CASE Drives
  <2>1. CASE RxTaskTake
    <3>1. CASE dev' = [dev EXCEPT !.rx_c = dev.rx_c + 1] /\ dev.rx_c # dev.rx_p
      BY <1>0, <3>1
    <3> QED BY <1>1, <2>1, <3>1 DEF RxTaskTake
  <2>2. CASE UNCHANGED dev
    BY <1>1, <2>2
  <2> QED BY <1>2, <2>1, <2>2 DEF Drives, ReadBits, WriteMask, TxWrite
<1>3. CASE Isr16550 \/ IsrSam \/ IsrRpi
  <2>1. CASE IsrRxPi
    <3>1. CASE hw.rx_fifo # <<>> /\ dev' = Received(dev, Head(hw.rx_fifo))
      <4>1. Head(hw.rx_fifo) \in Data
        BY <1>0, <3>1
      <4>2. dev'.rx_c = dev.rx_c /\ dev'.rx_p = dev.rx_p + 1
        BY <1>0, <3>1, <4>1, ReceivedIs
      <4> QED BY <1>0, <4>2
    <3> QED BY <1>1, <2>1, <3>1 DEF IsrRxPi
  <2>2. CASE IsrPi \/ IsrPiEnd
    BY <1>1, <2>2 DEF IsrPi, IsrPiEnd, devVars
  <2>3. ~Isr16550 /\ ~IsrSam
    BY <1>0 DEF Isr16550, IsrSam, IsrLine, IsrRxWake, IsrRx, IsrTx, Isr16550End, IsrTxSam,
         IsrRxSam, IsrSamEnd, Handler
  <2> QED BY <1>3, <2>1, <2>2, <2>3 DEF IsrRpi
<1>4. CASE LineIn \/ LineOut \/ KeyIn \/ (KbdHand /\ UNCHANGED <<link, load>>) \/ Calls \/ Clock
           \/ UNCHANGED <<link, devVars, kbdVars, load>>
  <2>1. UNCHANGED dev
    BY <1>4 DEF LineIn, LineOut, KeyIn, KbdHand, Calls, Clock, devVars, LineIn16550, LineInSam,
                LineInPi, LineOut16550, LineOutSam, ShiftPi, LineOutPi, IsrKbd
  <2> QED BY <1>1, <2>1
<1> QED BY <1>2, <1>3, <1>4, DevFrame

(* While rx_func() sends, no receiving task is ready.                      *)
LEMMA OutAlone ==
  CoreOK /\ run = "stdout" /\ isr = "off" => status["rx"] = "SLEEPING"
<1> SUFFICES ASSUME CoreOK, run = "stdout", isr = "off" PROVE status["rx"] = "SLEEPING"
  OBVIOUS
<1>1. status["rx"] # "READY"
  BY ConsoleAssumption, Names DEF CoreOK, RunOK
<1> QED BY <1>1, RxStatus

LEMMA RecvReady ==
  CoreOK /\ status["rx"] = "SLEEPING" => pc["rx"] = "test"
  BY Names DEF CoreOK, StatusOK, Awaits, PcOK, PointsOf, RxPoints

LEMMA RecvFrames ==
  CoreOK /\ DataOK /\ [Next]_vars /\ link # "rpi" =>
    RxEffect \/ OutEffect \/ WakeOnly \/ RingEffect \/ RecvSame
  BY RecvFrame, RxStepEffect, OutStepEffect, RecvHandlers

LEMMA RecvStep == CoreOK /\ DataOK /\ RecvOK /\ [Next]_vars => RecvOK'
<1> SUFFICES ASSUME CoreOK, DataOK, RecvOK, [Next]_vars PROVE RecvOK'
  OBVIOUS
<1>0. link' = link
  BY SendIndexes
<1>1. CASE link = "rpi"
  BY <1>0, <1>1, PiIndexes DEF RecvOK
<1>2. CASE link # "rpi"
  <2>0. /\ dev.rx_p \in Nat /\ dev.rx_c \in Nat /\ DevSize \in Nat \ {0}
        /\ dev.rx_c <= dev.rx_p /\ status["rx"] \in {"READY", "SLEEPING"}
        /\ hw.rx_on \in BOOLEAN /\ val["rx"] \in 0..3
    BY SendInts, RxStatus DEF RecvOK, DataOK, DevType, HwTypes
  <2> USE <1>0, <1>2, <2>0 DEF RecvOK, Handing, Stale, InRing
  <2>2. CASE RecvSame
    BY <2>2 DEF RecvSame, RecvData
  <2>3. CASE WakeOnly
    BY <2>3, RecvReady DEF WakeOnly, RxWoken, OnSame
  <2>4. CASE OutEffect
    <3>1. status["rx"] = "SLEEPING" /\ pc["rx"] = "test"
      BY <2>4, OutAlone, RecvReady DEF OutEffect
    <3> QED BY <2>4, <3>1 DEF OutEffect, ValSame, OnSame
  <2>5. CASE RingEffect
    <3>1. dev' \in DevTypes
      BY DevStep
    <3> QED BY <2>5, <3>1, FullIs, RecvReady DEF RingEffect, RxWoken, ReadSo
  <2>6. CASE RxEffect
    <3>1. InRing <= DevSize => (RxEqual <=> (dev.rx_c = dev.rx_p \/ InRing = DevSize))
      BY FullIs, SendInts DEF RxEqual, Full
    <3> QED BY <2>6, <3>1 DEF RxEffect, RxRuns, RxStays, OnSame, ReadSo, ValSame
  <2> QED BY <2>2, <2>3, <2>4, <2>5, <2>6, RecvFrames
<1> QED BY <1>1, <1>2

LEMMA BackStep == CoreOK /\ DataOK /\ RecvOK /\ BackOK /\ [Next]_vars => BackOK'
<1> SUFFICES ASSUME CoreOK, DataOK, RecvOK, BackOK, [Next]_vars, link # "rpi" PROVE BackOK'
  BY SendIndexes DEF BackOK
<1>0. /\ dev.rx_p \in Nat /\ dev.rx_c \in Nat /\ DevSize \in Nat \ {0} /\ link' = link
      /\ dev.rx_c <= dev.rx_p /\ status["rx"] \in {"READY", "SLEEPING"}
      /\ hw.rx_on \in BOOLEAN /\ val["rx"] \in 0..3 /\ val["stdout"] \in 0..3
      /\ dev' \in DevTypes /\ (RxEqual <=> Full(dev))
  BY SendInts, RxStatus, SendIndexes, DevStep
     DEF RecvOK, DataOK, DevType, HwTypes, RxEqual, Full
<1> USE <1>0 DEF BackOK, ReceiverBack
<1>1. CASE RecvSame
  <2>1. Full(dev') <=> Full(dev)
    BY <1>1 DEF RecvSame, RecvData, Full
  <2> QED BY <1>1, <2>1 DEF RecvSame, RecvData
<1>2. CASE WakeOnly
  <2>1. Full(dev') <=> Full(dev)
    BY <1>2 DEF WakeOnly
  <2> QED BY <1>2, <2>1 DEF WakeOnly, RxWoken, OnSame
<1>3. CASE OutEffect
  <2>1. status["rx"] = "SLEEPING" /\ pc["rx"] = "test"
    BY <1>3, OutAlone, RecvReady DEF OutEffect
  <2>2. Full(dev') <=> Full(dev)
    BY <1>3 DEF OutEffect
  <2> QED BY <1>3, <2>1, <2>2 DEF OutEffect, ValSame, OnSame
<1>4. CASE RingEffect
  <2>1. dev'.rx_p # dev'.rx_c
    BY <1>4 DEF RingEffect, ReadSo
  <2>2. pc["rx"] = "next" => val["rx"] \in {0, 1}
    BY DEF RecvOK
  <2> QED BY <1>4, <2>1, <2>2 DEF RingEffect, RxWoken
<1>5. CASE RxEffect
  <2>1. ReadSo /\ dev'.rx_p = dev.rx_p => (Full(dev') <=> Full(dev))
    <3>1. Len(dev.rx_buf) = DevSize /\ Len(dev'.rx_buf) = DevSize
      BY Lens, SendInts DEF DevTypes
    <3> QED BY <3>1 DEF Full, ReadSo
  <2> QED BY <1>5, <2>1 DEF RxEffect, RxRuns, RxStays, OnSame, ReadSo, ValSame
<1> QED BY <1>1, <1>2, <1>3, <1>4, <1>5, RecvFrames

(* No character is lost but as NothingOverwritten says.                    *)
LEMMA LostStep ==
  CoreOK /\ DataOK /\ SendOK /\ RecvOK /\ NothingOverwritten /\ [Next]_vars
    => NothingOverwritten'
<1> SUFFICES ASSUME CoreOK, DataOK, SendOK, RecvOK, NothingOverwritten, [Next]_vars
             PROVE  NothingOverwritten'
  OBVIOUS
<1>0. /\ link' = link /\ link \in {"pc", "com", "sam9", "rpi"}
      /\ dev.rx_p \in Nat /\ dev.rx_c \in Nat /\ dev.tx_p \in Nat /\ dev.tx_c \in Nat
      /\ dev.tx_t \in Nat /\ DevSize \in Nat \ {0} /\ count_now["tx"] \in Nat
      /\ Len(dev.rx_buf) = DevSize /\ Len(dev.tx_buf) = DevSize
  BY SendInts, SendIndexes, Boarded, Lens DEF CoreOK, PcOK
<1>1. "rx" \in missed => "rx" \in missed'
  <2>1. CASE Goes \/ Calls \/ Delay
    BY <2>1, TasksLeave DEF Goes
  <2>2. CASE Handles
    BY <2>2 DEF Handles, Isr16550, IsrSam, IsrRpi, IsrLine, IsrRxWake, IsrRx, IsrTx,
       Isr16550End, IsrTxSam, IsrRxSam, IsrSamEnd, IsrPi, IsrRxPi, IsrPiEnd, IsrKbdEnd,
       Quietly, Wake
  <2>3. CASE Interrupt \/ Clock \/ KeyIn \/ LineIn \/ LineOut \/ UNCHANGED vars
    BY <2>3 DEF Interrupt, Clock, KeyIn, IsrKbd, LineIn, LineOut, vars, schedVars, Wake
  <2> QED BY <2>1, <2>2, <2>3 DEF Next
<1>2. ASSUME UNCHANGED lost PROVE NothingOverwritten'
  BY <1>0, <1>1, <1>2 DEF NothingOverwritten
<1>3. ASSUME NEW x \in {"rx", "tx", "line", "key"}, lost' = lost \cup {x},
             x = "tx" => link \in {"sam9", "rpi"},
             x = "rx" => link = "rpi" \/ (link = "com" /\ "rx" \in missed),
             x = "key" => link = "pc", x = "line" => link = "sam9"
      PROVE  NothingOverwritten'
  BY <1>0, <1>1, <1>3 DEF NothingOverwritten
<1>4. CASE TxQueue /\ link \in {"com", "sam9"}
  <2>1. CASE link = "com"
    <3>1. pc["stdout"] = "queue" /\ status["stdout"] = "READY"
      BY <1>4, StepOthers, Names DEF TxQueue, Own
    <3>2. dev.tx_t <= dev.tx_c + 0 /\ count_now["tx"] + (dev.tx_p - dev.tx_t) + 1 = DevSize
      BY <2>1, <3>1 DEF SendOK, Queues
    <3>3. dev.tx_p - dev.tx_c < Len(dev.tx_buf)
      BY <1>0, <3>2
    <3> QED BY <1>2, <1>4, <3>3 DEF TxQueue, TxLoses
  <2> QED BY <1>2, <1>3, <1>4, <2>1 DEF TxQueue, TxLoses
<1>5. CASE Drives
  <2>1. CASE TxWrite /\ link = "rpi"
    BY <1>2, <1>3, <2>1 DEF TxWrite
  <2>2. CASE UNCHANGED lost
    BY <1>2, <2>2
  <2> QED BY <1>4, <1>5, <2>1, <2>2
          DEF Drives, RxTaskStart, ReadBits, WriteBits, RxTaskCompare, RxTaskNext, RxTaskTake,
              Enable, WriteMask, TxTaskGive
<1>6. CASE Isr16550 \/ IsrSam \/ IsrRpi
  <2>1. ASSUME hw.rx_on, link # "rpi", lost' = RxLoses PROVE NothingOverwritten'
    BY <1>0, <1>2, <1>3, <2>1 DEF RecvOK, Stale, InRing, RxLoses, RxRoom
  <2>2. CASE IsrRx
    <3>1. hw.rx_on /\ link # "rpi"
      BY <2>2 DEF IsrRx, DataOK, FifoOK, CoreOK, PcOK, IsrPoints
    <3> QED BY <2>1, <2>2, <3>1 DEF IsrRx
  <2>3. CASE IsrRxSam
    <3>1. link # "rpi"
      BY <2>3 DEF IsrRxSam, CoreOK, PcOK, IsrPoints
    <3> QED BY <1>2, <2>1, <2>3, <3>1 DEF IsrRxSam, RxPending
  <2>4. CASE IsrRxPi
    <3>1. link = "rpi"
      BY <2>4 DEF IsrRxPi, CoreOK, PcOK, IsrPoints
    <3> QED BY <1>2, <1>3, <2>4, <3>1 DEF IsrRxPi, RxLosesPi
  <2> QED BY <1>2, <1>6, <2>2, <2>3, <2>4
          DEF Isr16550, IsrSam, IsrRpi, IsrLine, IsrRxWake, IsrTx, Isr16550End, IsrTxSam,
              IsrSamEnd, IsrPi, IsrPiEnd, devVars
<1>7. CASE LineIn
  BY <1>2, <1>3, <1>7 DEF LineIn, LineIn16550, LineInSam, LineInPi
<1>8. CASE KeyIn
  BY <1>2, <1>3, <1>8 DEF KeyIn, IsrKbd
<1>9. CASE LineOut \/ (KbdHand /\ UNCHANGED <<link, load>>) \/ Calls \/ Clock
           \/ UNCHANGED <<link, devVars, kbdVars, load>>
  BY <1>2, <1>9 DEF LineOut, KbdHand, Calls, Clock, devVars, LineOut16550, LineOutSam, ShiftPi,
                    LineOutPi
<1> QED BY <1>5, <1>6, <1>7, <1>8, <1>9, DevFrame

-----------------------------------------------------------------------------
(* All of it.                                                              *)
ConsoleInv == PlacesInv /\ RecvOK /\ BackOK /\ NothingOverwritten

LEMMA ConsoleInit == Init => ConsoleInv
<1>1. Init => NothingOverwritten
  BY DEF Init, SamInit, PiInit, Ns16550Init, DevInit, NothingOverwritten
<1> QED BY <1>1, PlacesInit, RecvInit DEF ConsoleInv

LEMMA ConsoleStep == ConsoleInv /\ [Next]_vars => ConsoleInv'
  BY PlacesStep, RecvStep, BackStep, LostStep DEF ConsoleInv, PlacesInv

(* sem_give() and the rings: the counts of the semaphores stay within      *)
(* their bounds, the states of the tasks are those of task_api.c and       *)
(* sem.c, the running task is ready, and no reader gets ahead of a writer, *)
(* on any board, however much is put or comes in.                          *)
THEOREM TypeHolds == Spec => []TypeOK
<1>1. ConsoleInv => TypeOK
  <2> SUFFICES ASSUME ConsoleInv PROVE TypeOK
    OBVIOUS
  <2>1. CoreOK /\ DataOK /\ RecvOK
    BY DEF ConsoleInv, PlacesInv
  <2>2. DOMAIN CountMax = Sems
    BY Names
  <2>3. /\ \A s \in DOMAIN CountMax : count_now[s] \in 0..CountMax[s]
        /\ \A t \in Tasks : status[t] \in {"READY", "SLEEPING", "none"} \cup DOMAIN CountMax
        /\ missed \subseteq Tasks
    BY <2>1, <2>2, Names DEF CoreOK, SchedType, Statuses
  <2>4. link \in Boards /\ run \in Tasks /\ status[run] = "READY"
    BY <2>1 DEF CoreOK, PcOK, RunOK
  <2>5. /\ Len(hw.rx_fifo) <= Fifo /\ Len(hw.tx_fifo) <= Fifo
        /\ lost \subseteq {"rx", "tx", "line", "key"}
        /\ shut \in BOOLEAN /\ dropped \in BOOLEAN /\ fresh \in BOOLEAN
    BY <2>1 DEF DataOK, DevType, IoType
  <2>6. io.rx_c <= io.rx_p /\ io.tx_c <= io.tx_p /\ dev.rx_c <= dev.rx_p /\ dev.tx_c <= dev.tx_p
    BY DEF ConsoleInv, PlacesInv, IoOK, PlaceOK, ReadOK, RecvOK, DataOK, FifoOK
  <2> QED BY <2>3, <2>4, <2>5, <2>6 DEF TypeOK
<1> QED BY <1>1, ConsoleInit, ConsoleStep, PTL DEF Spec

(* 16550a.c, ns16550_isr(), rx_task() and rx_func(): whatever comes in,    *)
(* and however the handler falls between the tasks' steps, the serial      *)
(* driver of the PC overwrites nothing that was not handed on or sent,     *)
(* unless rx_task() missed a wake-up, and the other drivers lose only what *)
(* NothingOverwritten names.                                               *)
THEOREM OverwrittenHolds == Spec => []NothingOverwritten
  BY ConsoleInit, ConsoleStep, PTL DEF Spec, ConsoleInv

(* 16550a.c and serial.c, rx_task(): a receiver that the handler shut down *)
(* as the ring was full is started again, unless the handler came between  *)
(* a comparison and what follows it, or the ring is still full and the     *)
(* next comparison is going to find it so.                                 *)
THEOREM BackHolds == Spec => []ReceiverBack
<1>1. ConsoleInv => ReceiverBack
  BY DEF ConsoleInv, BackOK, ReceiverBack
<1> QED BY <1>1, ConsoleInit, ConsoleStep, PTL DEF Spec

(* 16550a.c, ns16550_isr() ("If the rx_p is equal to the rx_c, then the    *)
(* receiver needs to be shut down."): it is, on the serial port of the PC, *)
(* as long as rx_task() has missed no wake-up.                             *)
THEOREM ShutHolds == Spec => [](ShutWhenFull \/ "rx" \in missed)
<1>1. ConsoleInv => ShutWhenFull \/ "rx" \in missed
  BY SendInts DEF ConsoleInv, PlacesInv, RecvOK, ShutWhenFull, Stale, InRing
<1> QED BY <1>1, ConsoleInit, ConsoleStep, PTL DEF Spec
=============================================================================
