------------------------------- MODULE Timer --------------------------------
(***************************************************************************)
(* Timers (kernel/timer.c): their list, the calls that change it, and the  *)
(* clock's handler, which walks it.  A timer is known by the address of    *)
(* its timer_t.  timer_new() and timer_delete() disable interrupts while   *)
(* they change the list, but timer_delete() checks the id before that, and *)
(* timer_start() works with interrupts enabled throughout.                 *)
(***************************************************************************)
EXTENDS Mem, FiniteSets

VARIABLES
  timers,    \* kernel.timers, the address of the first timer
  timer,     \* the timer_t at each address where there is or was one
  handler,   \* the clock's handler is in timer_tic()
  walk,      \* its variable timer, the next one to look at
  doubled,   \* history: a timer was taken off the list twice
  missed     \* history: timers made active with no tics left

timerVars == <<timers, timer, handler, walk, doubled, missed>>

(* The n-th timer that following the list leads to, or NULL.               *)
Nth == LET nth[n \in 0..Cardinality(DOMAIN timer)] ==
             IF n = 0 THEN timers
             ELSE IF nth[n - 1] = NULL THEN NULL ELSE timer[nth[n - 1]].next
       IN  nth
OnList == {Nth[n] : n \in DOMAIN Nth} \ {NULL}
Ends   == Nth[Cardinality(DOMAIN timer)] = NULL

(* timer_new(), once it has its memory: the timer is put in front.         *)
TimerT(a, k, next) ==
  [id |-> a, tics |-> k.tics, type |-> k.type, func |-> k.func,
   active |-> FALSE, tics_now |-> 0, next |-> next]

TimerLink(a, k) ==
  /\ timer' = [t \in DOMAIN timer \cup {a} |->
                 IF t = a THEN TimerT(a, k, timers) ELSE timer[t]]
  /\ timers' = a
  /\ UNCHANGED <<handler, walk, doubled, missed>>

Valid(t) == timer[t].id = t

(* timer_delete(t): the id is checked with interrupts enabled, ...         *)
TimerDelete(c, t) ==
  /\ at[c] = "user" /\ Valid(t) /\ timers # NULL
  /\ at' = [at EXCEPT ![c] = "unlink"]
  /\ op' = [op EXCEPT ![c] = t]
  /\ UNCHANGED <<memVars, timerVars>>

(* ... and the timer, or whatever the search for it ended with, unlinked.  *)
(* The search for a timer that is not there ends at the list's last one.   *)
PrevOf(t) ==
  IF OnList = {} \/ timers = t THEN NULL
  ELSE CHOOSE p \in OnList : timer[p].next = IF t \in OnList THEN t ELSE NULL

Unlink_Bug(t, r) ==
  /\ t \in OnList \/ Ends
  /\ timers' = timers
  /\ timer' = IF PrevOf(t) = NULL
              THEN [timer EXCEPT ![t] = [r EXCEPT !.id = 0]]
              ELSE [timer EXCEPT ![PrevOf(t)].next = r.next,
                                 ![t] = [r EXCEPT !.id = 0]]
  /\ doubled' = (doubled \/ ~Valid(t))
Unlink(t, r) ==
  /\ t \in OnList \/ Ends
  /\ LET prev == PrevOf(t)
     IN  IF prev = NULL
         THEN /\ timers' = r.next
              /\ timer' = [timer EXCEPT ![t] = [r EXCEPT !.id = 0]]
         ELSE /\ timers' = timers
              /\ timer' = [timer EXCEPT ![prev].next = r.next,
                                        ![t] = [r EXCEPT !.id = 0]]
  /\ doubled' = (doubled \/ ~Valid(t))

TimerUnlink(c) ==
  /\ at[c] = "unlink"
  /\ Unlink(op[c], timer[op[c]])
  /\ at' = [at EXCEPT ![c] = "user"]
  /\ UNCHANGED <<op, memVars, handler, walk, missed>>

(* timer_start(t): is the count 0? ...                                     *)
TimerStart(c, t) ==
  /\ at[c] = "user" /\ Valid(t)
  /\ at' = [at EXCEPT ![c] = IF timer[t].tics_now = 0 THEN "load" ELSE "activate"]
  /\ op' = [op EXCEPT ![c] = t]
  /\ UNCHANGED <<memVars, timerVars>>

(* ... then it is set, ...                                                 *)
TimerLoad(c) ==
  /\ at[c] = "load"
  /\ timer' = [timer EXCEPT ![op[c]].tics_now = timer[op[c]].tics]
  /\ at' = [at EXCEPT ![c] = "activate"]
  /\ UNCHANGED <<op, memVars, timers, handler, walk, doubled, missed>>

(* ... and the timer made active, whether it has expired meanwhile or not. *)
TimerActivate(c) ==
  /\ at[c] = "activate"
  /\ timer' = [timer EXCEPT ![op[c]].active = TRUE]
  /\ missed' = IF timer[op[c]].tics_now = 0 THEN missed \cup {op[c]} ELSE missed
  /\ at' = [at EXCEPT ![c] = "user"]
  /\ UNCHANGED <<op, memVars, timers, handler, walk, doubled>>

TimerStop(c, t) ==
  /\ at[c] = "user" /\ Valid(t)
  /\ timer' = [timer EXCEPT ![t].active = FALSE]
  /\ UNCHANGED <<callVars, memVars, timers, handler, walk, doubled, missed>>

-----------------------------------------------------------------------------
(* timer_tic(), in the clock's handler, up to the tasks' time-outs, which  *)
(* are Int's.                                                              *)
TicBegin ==
  /\ ~handler
  /\ handler' = TRUE /\ walk' = timers
  /\ UNCHANGED <<callVars, memVars, timers, timer, doubled, missed>>

(* A timer that runs out is stopped or set anew before its function runs.  *)
Expired_Bug(r) == IF r.type = "ONESHOT"
                  THEN [r EXCEPT !.tics_now = 0, !.active = FALSE]
                  ELSE [r EXCEPT !.tics_now = 0]
ExpiredOn_Bug(r) == [r EXCEPT !.tics_now = r.tics]
Expired(r) == IF r.type = "ONESHOT"
              THEN [r EXCEPT !.tics_now = 0, !.active = FALSE]
              ELSE [r EXCEPT !.tics_now = r.tics]

(* What the timer's function does: it may start, stop or delete the timer. *)
Call(t, r) ==
  \/ /\ r.func = "none"
     /\ timer' = [timer EXCEPT ![t] = r]
     /\ UNCHANGED <<timers, doubled, missed>>
  \/ /\ r.func = "start"
     /\ timer' = [timer EXCEPT ![t] = [r EXCEPT
          !.tics_now = IF @ = 0 THEN r.tics ELSE @, !.active = TRUE]]
     /\ missed' = IF r.tics_now = 0 /\ r.tics = 0 THEN missed \cup {t} ELSE missed
     /\ UNCHANGED <<timers, doubled>>
  \/ /\ r.func = "stop"
     /\ timer' = [timer EXCEPT ![t] = [r EXCEPT !.active = FALSE]]
     /\ UNCHANGED <<timers, doubled, missed>>
  \/ /\ r.func = "delete"
     /\ Unlink(t, r)
     /\ UNCHANGED missed

TicStep_Bug ==
  /\ handler /\ walk # NULL
  /\ LET r    == timer[walk]
         left == (r.tics_now - 1) % Wrap
     IN  \/ /\ ~r.active
            /\ UNCHANGED <<timer, timers, walk, doubled, missed>>
         \/ /\ r.active /\ left # 0
            /\ timer' = [timer EXCEPT ![walk].tics_now = left]
            /\ walk' = r.next
            /\ UNCHANGED <<timers, doubled, missed>>
         \/ /\ r.active /\ left = 0
            /\ Call(walk, Expired(r))
            /\ walk' = r.next
  /\ UNCHANGED <<callVars, memVars, handler>>
TicStep ==
  /\ handler /\ walk # NULL
  /\ LET r    == timer[walk]
         left == (r.tics_now - 1) % Wrap
     IN  /\ \/ /\ ~r.active
               /\ UNCHANGED <<timer, timers, doubled, missed>>
            \/ /\ r.active /\ left # 0
               /\ timer' = [timer EXCEPT ![walk].tics_now = left]
               /\ UNCHANGED <<timers, doubled, missed>>
            \/ /\ r.active /\ left = 0
               /\ Call(walk, Expired(r))
         /\ walk' = r.next
  /\ UNCHANGED <<callVars, memVars, handler>>

TicEnd ==
  /\ handler /\ walk = NULL
  /\ handler' = FALSE
  /\ UNCHANGED <<callVars, memVars, timers, timer, walk, doubled, missed>>

-----------------------------------------------------------------------------
(* The list ends, and holds exactly the timers that were not deleted, as   *)
(* long as no two deletes of one timer overlap: the second would join the  *)
(* list's end to its middle, and the clock's handler never leave it.  So   *)
(* would a timer made in memory that malloc() had handed out before.       *)
NoOverlap == ~torn /\ mem_size % W = 0
ListSound == NoOverlap /\ ~doubled =>
               /\ Ends
               /\ OnList = {t \in DOMAIN timer : Valid(t)}

(* A timer that runs has between 1 tic and all of its tics left, unless it *)
(* was started just as it expired: it then counts down from 2^w.           *)
TimerArmed == \A t \in DOMAIN timer \ missed :
                timer[t].active => timer[t].tics_now \in 1..timer[t].tics

(* There, the clock's handler gets to the end of the list.                 *)
TicEnds == handler ~> (~handler \/ ~NoOverlap \/ doubled)
=============================================================================
