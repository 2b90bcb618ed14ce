------------------------------ MODULE MCKernel ------------------------------
(***************************************************************************)
(* Small instances of the kernel: which tasks there are, and which calls   *)
(* they and the interrupt handlers make.  Each .cfg picks one of each.     *)
(***************************************************************************)
EXTENDS Kernel, KernelRules

(* Two tasks of different priorities and one that shares the second's.     *)
ThreePriorities ==
  [t \in Tasks |-> CASE t = "idle" -> 0 [] t = "hi" -> 1 [] OTHER -> 2]

OneSem   == [s \in Sems |-> 1]
NoCount  == [s \in Sems |-> 0]
OneMsg   == [t \in Tasks |-> 1]
Gets(T)  == {<<"sem_get", s, n>> : s \in Sems, n \in T}
Gives    == {<<"sem_give", s>> : s \in Sems}
Send(t)  == <<"msg_send", t>>
Tic      == {<<"timer_tic">>}

(* Each task keeps to calls that leave no timer and no wait_id behind for  *)
(* the others it makes; a handler only wakes.                              *)
UseCalls ==
  [t \in Tasks |->
     CASE t = "hi"  -> Gets({WAIT_FOREVER, DONT_WAIT, 2}) \cup Gives
       [] t = "mid" -> {<<"msg_get", n>> : n \in {DONT_WAIT, 2}} \cup Gives
       [] t = "lo"  -> Gets({WAIT_FOREVER}) \cup Gives \cup
                       {<<"task_sleep">>, <<"task_delay", 2>>, Send("mid")}
       [] OTHER     -> {}]
WakeIsr == Tic \cup {<<"task_wake", "lo">>}

(* Semaphores and messages, which handlers give, poll and send as well.    *)
IsrUseCalls ==
  [t \in Tasks |->
     CASE t = "hi"  -> Gets({WAIT_FOREVER, 1}) \cup Gives
       [] t = "mid" -> {<<"msg_get", n>> : n \in {WAIT_FOREVER, DONT_WAIT, 1}} \cup Gives
       [] t = "lo"  -> Gets({WAIT_FOREVER}) \cup {Send("mid")}
       [] OTHER     -> {}]
GiveIsr == Tic \cup Gives \cup Gets({DONT_WAIT}) \cup {Send("mid")}

(* Tasks that are created, end, are deleted, and are cleaned up; the most  *)
(* urgent one makes timed calls.                                           *)
LifeCalls ==
  [t \in Tasks |->
     CASE t = "mid" -> {<<"task_new", "hi">>, <<"task_new", "lo">>,
                        <<"task_delete", "lo">>, <<"exit">>}
       [] t = "hi"  -> Gets({2}) \cup {<<"task_delay", 1>>, <<"exit">>}
       [] t = "lo"  -> {<<"exit">>, <<"task_sleep">>}
       [] OTHER     -> {}]
LifeIsr == Tic \cup {<<"task_wake", "lo">>}

(* A little of everything, with no regard for what goes together.          *)
AnyCalls ==
  [t \in Tasks |->
     CASE t = "hi"  -> Gets({WAIT_FOREVER}) \cup Gives \cup
                       {<<"task_sleep">>, <<"task_delay", 1>>, <<"msg_get", 1>>,
                        <<"exit">>}
       [] t = "mid" -> Gets({1}) \cup Gives \cup
                       {<<"task_wake", "hi">>, Send("hi"),
                        <<"task_delete", "hi">>}
       [] OTHER     -> {}]
AnyIsr == Tic \cup Gives

(* The calls of each disagreement between the code and its comments.       *)
TwoRunningCalls == [t \in Tasks |-> CASE t = "hi"  -> {<<"task_sleep">>}
                                       [] t = "mid" -> {<<"task_wake", "hi">>}
                                       [] OTHER     -> {}]
StaleTimerCalls == [t \in Tasks |-> CASE t = "hi"  -> {<<"msg_get", 2>>} \cup Gets({WAIT_FOREVER})
                                       [] t = "mid" -> {Send("hi")}
                                       [] OTHER     -> {}]
DeletedCalls    == [t \in Tasks |-> CASE t = "hi"  -> Gets({2})
                                       [] t = "mid" -> {<<"task_delete", "hi">>}
                                       [] OTHER     -> {}]

(* Which of these systems keep to the rules that the theorems about the    *)
(* kernel have as hypotheses, and which rule each disagreement breaks.     *)
ASSUME RulesKept ==
  /\ Calls \in {UseCalls, IsrUseCalls, LifeCalls} => OrderlyEnds
  /\ Calls \in {UseCalls, IsrUseCalls} => UseRules
  /\ Calls = UseCalls => TimeRules /\ WakingHandlers
ASSUME RulesBroken ==
  /\ Calls = TwoRunningCalls => ~NoTaskWakes
  /\ Calls = StaleTimerCalls => OrderlyEnds /\ ~UseRules
  /\ Calls = DeletedCalls => NoTaskWakes /\ UseRules /\ TimeRules /\ ~OrderlyEnds
=============================================================================
