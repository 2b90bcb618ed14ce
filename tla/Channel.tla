------------------------------ MODULE Channel -------------------------------
(***************************************************************************)
(* What one direction of the console promises: the characters come out in  *)
(* the order in which they were put in, each one once, and a newline is    *)
(* followed by a carriage return.  A channel that broke promises nothing.  *)
(***************************************************************************)
EXTENDS Naturals, Sequences

CONSTANTS Chars, NewLines, CR

VARIABLES queue, out, broken

Wire(c) == IF c \in NewLines THEN <<c, CR>> ELSE <<c>>

Init == queue = <<>> /\ out = <<>> /\ broken = FALSE

Put(c) == /\ queue' = queue \o Wire(c)
          /\ UNCHANGED <<out, broken>>

Deliver == /\ queue # <<>>
           /\ out' = Append(out, Head(queue))
           /\ queue' = Tail(queue)
           /\ UNCHANGED broken

Next == broken' \/ Deliver \/ \E c \in Chars : Put(c)

Spec == Init /\ [][Next]_<<queue, out, broken>>
=============================================================================
