----------------------------- MODULE KernelRules -----------------------------
(***************************************************************************)
(* Rules of use: which calls tasks and handlers may make together.  The    *)
(* kernel enforces none of them; they are the hypotheses of the theorems   *)
(* about it that do not hold for every system.  MCKernel says which of its *)
(* systems keep to them and which do not.                                  *)
(***************************************************************************)
EXTENDS Task

(* Tasks leave task_wake(), which switches with interrupts enabled, to the *)
(* interrupt handlers.                                                     *)
NoTaskWakes == \A t, d \in Tasks : <<"task_wake", d>> \notin Calls[t]

(* Interrupt handlers that only count the time and wake tasks, as the      *)
(* repository's do.                                                        *)
WakingHandlers == IsrCalls \subseteq {<<"timer_tic">>} \cup {<<"task_wake", d>> : d \in Tasks}

(* May some task's code delete d?  May d end, by itself or otherwise?      *)
MayBeDeleted(d) == \E t \in Tasks : <<"task_delete", d>> \in Calls[t]
MayEnd(d) == <<"exit">> \in Calls[d] \/ MayBeDeleted(d)

MayBeSent(d) == \/ <<"msg_send", d>> \in IsrCalls
                \/ \E t \in Tasks : <<"msg_send", d>> \in Calls[t]

(* The calls of t that start its timer.                                    *)
TimedCalls(t) ==
  Calls[t] \cap ({<<"task_delay", n>> : n \in 0..MaxTics} \cup
                 {<<"msg_get", n>> : n \in 1..MaxTics} \cup
                 {<<"sem_get", s, n>> : s \in Sems, n \in 1..MaxTics})

(* What the kernel leaves to its users, since task_delete() stops no timer *)
(* and msg_send() makes any task ready: a task that may end is sent no     *)
(* messages, and one that may be deleted makes no timed calls.  The idle   *)
(* task's own code makes no calls at all.                                  *)
OrderlyEnds ==
  /\ NoTaskWakes
  /\ Calls[Idle] = {} /\ ~MayEnd(Idle)
  /\ \A d \in Tasks : MayEnd(d) => ~MayBeSent(d)
  /\ \A d \in Tasks : MayBeDeleted(d) => TimedCalls(d) = {}

(* May t's code wait for a semaphore?  May it give up doing so?  May it    *)
(* wait for anything else?                                                 *)
MayWaitSem(t) == \E s \in Sems, n \in Timeouts \ {DONT_WAIT} :
                    <<"sem_get", s, n>> \in Calls[t]
MayGiveUp(t)  == \E s \in Sems, n \in 1..MaxTics : <<"sem_get", s, n>> \in Calls[t]
MayWaitElse(t) ==
  \/ \E n \in 0..MaxTics : <<"task_delay", n>> \in Calls[t]
  \/ \E n \in Timeouts \ {DONT_WAIT} : <<"msg_get", n>> \in Calls[t]

(* What the kernel leaves to its users, since a TCB has one got_resource   *)
(* and one wait_id for all that its task may wait for, and a time-out      *)
(* leaves wait_id set: a task that waits for semaphores is sent no         *)
(* messages, and one that gives up waiting for them waits for nothing else.*)
UseRules ==
  /\ NoTaskWakes /\ Calls[Idle] = {}
  /\ \A t \in Tasks : /\ MayWaitSem(t) => ~MayBeSent(t)
                      /\ MayGiveUp(t) => ~MayWaitElse(t)

(* Rules of use again: msg_send() makes its receiver ready whatever it     *)
(* waits for and leaves its timer running, and WAIT_FOREVER does not stop  *)
(* a timer.  So a task that is sent messages makes no other timed call,    *)
(* and waits for messages either with time-outs or without.                *)
TimeRules ==
  \A t \in Tasks : MayBeSent(t) =>
     /\ \A n \in 0..MaxTics : <<"task_delay", n>> \notin Calls[t]
     /\ <<"msg_get", WAIT_FOREVER>> \in Calls[t] =>
           \A n \in 1..MaxTics : <<"msg_get", n>> \notin Calls[t]
=============================================================================
