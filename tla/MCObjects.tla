----------------------------- MODULE MCObjects ------------------------------
(***************************************************************************)
(* A small instance of the kernel's objects.                               *)
(***************************************************************************)
EXTENDS Objects

Sizes == [sem |-> 4, timer |-> 4, task |-> 8, box |-> 4]

(* A heap that three or four objects fill, and two whose size or start are *)
(* no multiples of a word.                                                 *)
SmallHeaps == {<<4, 20>>, <<3, 17>>, <<4, 14>>}

OneEach == [c \in Callers |-> IF c = Low THEN 2 ELSE 1]

Timer_t(n, type, func) == [tics |-> n, type |-> type, func |-> func]
Once   == Timer_t(1, "ONESHOT", "none")
Again  == Timer_t(1, "ONESHOT", "start")
Gone   == Timer_t(2, "PERIODIC", "delete")
OneKind == {Once}
TwoTimers == {<<>>, <<Gone, Once>>, <<Again, Once>>}
=============================================================================
