------------------------------- MODULE MsgBox -------------------------------
(***************************************************************************)
(* One message box with what is in it (kernel/msgs.c): a ring of messages, *)
(* with the places of the next message to send and to get, and a count.    *)
(* Msgs.tla has who waits for a box; a call here is the part of it that    *)
(* runs with interrupts off.                                               *)
(***************************************************************************)
EXTENDS Integers, Sequences

CONSTANTS
  Msg,        \* what is sent
  MaxMsgs,    \* msg_box_t.max_msgs
  Word        \* the values of a usys, which num_msgs is: 2^32

ASSUME BoxAssumption == MaxMsgs \in Nat \ {0} /\ Word \in Nat /\ MaxMsgs < Word

VARIABLES
  box,        \* msg_box_t: num_msgs, p_index, c_index, msg_buf
  loc         \* what msg_get() has copied to its caller

boxVars == <<box, loc>>
Slots == 0..(MaxMsgs - 1)

(* msgbox_init(): the memory of the messages is whatever it was.           *)
BoxInit ==
  /\ box \in [num_msgs : {0}, p_index : {0}, c_index : {0}, msg_buf : [Slots -> Msg]]
  /\ loc \in Msg

(* An index is moved on, and starts again behind the last place.           *)
Following_Bug(i) == IF i = MaxMsgs THEN 0 ELSE i + 1
Following(i) == IF i + 1 = MaxMsgs THEN 0 ELSE i + 1

(* num_msgs++ and num_msgs--: the counter wraps.                           *)
Up(n) == IF n + 1 = Word THEN 0 ELSE n + 1
Down(n) == IF n = 0 THEN Word - 1 ELSE n - 1

IsFull == box.num_msgs = MaxMsgs

(* msg_send(m), when there is room.                                        *)
Sent(m) ==
  /\ ~IsFull
  /\ box' = [box EXCEPT !.msg_buf = [@ EXCEPT ![box.p_index] = m],
                        !.p_index = Following(@),
                        !.num_msgs = Up(@)]
  /\ UNCHANGED loc

(* msg_get() behind its wait: whatever is at c_index is taken, and nothing *)
(* is looked at again.                                                     *)
Taken ==
  /\ loc' = box.msg_buf[box.c_index]
  /\ box' = [box EXCEPT !.c_index = Following(@), !.num_msgs = Down(@)]

(* msg_get(), when there is a message.                                     *)
Got == box.num_msgs # 0 /\ Taken

BoxNext == Got \/ \E m \in Msg : Sent(m)
BoxSpec == BoxInit /\ [][BoxNext]_boxVars

-----------------------------------------------------------------------------
(* The box implements the queue of messages that are between the places.   *)
Place(c, i) == IF c + i - 1 < MaxMsgs THEN c + i - 1 ELSE c + i - 1 - MaxMsgs
Contents == [i \in 1..box.num_msgs |-> box.msg_buf[Place(box.c_index, i)]]

Queue == INSTANCE Fifo WITH queue <- Contents, last <- loc, Max <- MaxMsgs
BoxFifo == Queue!Spec

(* The place to send to is the one behind the last message.                *)
BoxOK ==
  /\ box \in [num_msgs : 0..MaxMsgs, p_index : Slots, c_index : Slots,
              msg_buf : [Slots -> Msg]]
  /\ loc \in Msg
  /\ box.p_index = Place(box.c_index, box.num_msgs + 1)
=============================================================================
