-------------------------------- MODULE Fifo --------------------------------
(***************************************************************************)
(* What a message box promises: messages are got in the order in which     *)
(* they were sent, each one once, and one more than fits is not accepted.  *)
(***************************************************************************)
EXTENDS Naturals, Sequences

CONSTANTS Msg, Max

VARIABLES queue, last   \* last is the message that was got last

Init == queue = <<>> /\ last \in Msg

Send(m) == /\ Len(queue) < Max
           /\ queue' = Append(queue, m)
           /\ UNCHANGED last

Get == /\ queue # <<>>
       /\ last' = Head(queue)
       /\ queue' = Tail(queue)

Next == Get \/ \E m \in Msg : Send(m)

Spec == Init /\ [][Next]_<<queue, last>>
=============================================================================
