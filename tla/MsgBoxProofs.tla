---------------------------- MODULE MsgBoxProofs ----------------------------
(***************************************************************************)
(* A message box of any size implements the queue of Fifo: its ring loses, *)
(* doubles and reorders no message as the indexes wrap.                    *)
(***************************************************************************)
EXTENDS MsgBox, SequenceTheorems, TLAPS

(* The i-th place from c on is a place, and two of them are different.     *)
LEMMA PlacesDiffer ==
  ASSUME BoxAssumption,
         NEW c \in Slots, NEW i \in 1..MaxMsgs, NEW j \in 1..MaxMsgs, i # j
  PROVE  /\ Place(c, i) \in Slots
         /\ Place(c, i) # Place(c, j)
  BY DEF BoxAssumption, Place, Slots

(* Moving an index on moves every place on.                                *)
LEMMA Follows ==
  ASSUME BoxAssumption, NEW c \in Slots, NEW i \in 1..MaxMsgs
  PROVE  /\ Place(Following(c), i) = Place(c, i + 1)
         /\ Place(c, i + 1) = Following(Place(c, i))
  BY DEF BoxAssumption, Following, Place, Slots

LEMMA FirstPlace ==
  ASSUME BoxAssumption, NEW c \in Slots
  PROVE  Following(c) \in Slots /\ Place(c, 1) = c
  BY DEF BoxAssumption, Following, Place, Slots

LEMMA InitOK ==
  ASSUME BoxAssumption, BoxInit
  PROVE  BoxOK /\ Queue!Init
<1>1. box.num_msgs = 0 /\ box.p_index = 0 /\ box.c_index = 0
      /\ box.msg_buf \in [Slots -> Msg] /\ loc \in Msg
  BY DEF BoxInit
<1>2. 0 \in Slots /\ 0 \in 0..MaxMsgs /\ 1 \in 1..MaxMsgs
  BY DEF BoxAssumption, Slots
<1>3. BoxOK
  BY <1>1, <1>2, FirstPlace DEF BoxOK, BoxInit
<1>4. Contents = <<>>
  BY <1>1 DEF Contents
<1>5. QED
  BY <1>1, <1>3, <1>4 DEF Queue!Init

(* What msg_send() writes follows what is in the box.                      *)
LEMMA SentKeeps ==
  ASSUME BoxAssumption, BoxOK, NEW m \in Msg, Sent(m)
  PROVE  BoxOK' /\ Queue!Send(m)
<1>1. PICK n \in 0..(MaxMsgs - 1), c \in Slots, p \in Slots, buf \in [Slots -> Msg] :
        /\ box.num_msgs = n /\ box.c_index = c /\ box.p_index = p /\ box.msg_buf = buf
        /\ p = Place(c, n + 1)
  BY DEF BoxOK, Sent, IsFull, BoxAssumption
<1>2. /\ box'.num_msgs = n + 1 /\ box'.c_index = c /\ box'.p_index = Following(p)
      /\ box'.msg_buf = [buf EXCEPT ![p] = m]
      /\ loc' = loc /\ loc \in Msg
  <2>1. Up(n) = n + 1
    BY <1>1 DEF BoxAssumption, Up
  <2> QED BY <1>1, <2>1 DEF Sent, BoxOK
<1>3. n + 1 \in 1..MaxMsgs /\ n + 1 \in 0..MaxMsgs
  BY <1>1 DEF BoxAssumption
<1>4. BoxOK'
  <2>1. Following(p) \in Slots
    BY <1>1, FirstPlace
  <2> Place(c, (n + 1) + 1) = Following(Place(c, n + 1))
    BY <1>1, <1>3, Follows
  <2>2. box' \in [num_msgs : 0..MaxMsgs, p_index : Slots, c_index : Slots,
                  msg_buf : [Slots -> Msg]]
    BY <1>1, <1>2, <1>3, <2>1 DEF Sent, BoxOK
  <2>3. QED
    BY <1>1, <1>2, <2>2 DEF BoxOK
<1>5. Contents = [i \in 1..n |-> buf[Place(c, i)]]
  BY <1>1 DEF Contents
<1>6. \A i \in 1..n : Place(c, i) \in Slots /\ Place(c, i) # p
  <2> TAKE i \in 1..n
  <2>1. i \in 1..MaxMsgs /\ i # n + 1
    BY <1>1, <1>3 DEF BoxAssumption
  <2>2. QED
    BY <1>1, <1>3, <2>1, PlacesDiffer
<1>7. Contents \in Seq(Msg) /\ Len(Contents) = n
  BY <1>1, <1>5, <1>6
<1>8. Contents' = Append(Contents, m)
  <2>1. Contents' = [i \in 1..(n + 1) |-> [buf EXCEPT ![p] = m][Place(c, i)]]
    BY <1>2 DEF Contents
  <2>2. \A i \in 1..n : [buf EXCEPT ![p] = m][Place(c, i)] = Contents[i]
    BY <1>1, <1>5, <1>6
  <2>3. [buf EXCEPT ![p] = m][Place(c, n + 1)] = m
    BY <1>1
  <2>4. \A i \in 1..(n + 1) : i \in 1..n \/ i = n + 1
    BY <1>1
  <2>5. /\ Len(Append(Contents, m)) = n + 1
        /\ Append(Contents, m) \in Seq(Msg)
        /\ \A i \in 1..n : Append(Contents, m)[i] = Contents[i]
        /\ Append(Contents, m)[n + 1] = m
    BY <1>7
  <2>6. \A i \in 1..(n + 1) : Append(Contents, m)[i] = [buf EXCEPT ![p] = m][Place(c, i)]
    BY <2>2, <2>3, <2>4, <2>5
  <2>7. /\ Contents' \in Seq(Msg) /\ Len(Contents') = n + 1
        /\ \A i \in 1..(n + 1) : Contents'[i] = Append(Contents, m)[i]
    <3>1. \A i \in 1..(n + 1) : [buf EXCEPT ![p] = m][Place(c, i)] \in Msg
      BY <1>5, <1>7, <2>4, <2>2, <2>3
    <3>2. /\ n + 1 \in Nat
          /\ \A i \in 1..(n + 1) : Contents'[i] = [buf EXCEPT ![p] = m][Place(c, i)]
      BY <1>1, <2>1 DEF BoxAssumption
    <3>3. Contents' \in Seq(Msg) /\ Len(Contents') = n + 1
      BY <2>1, <3>1, <3>2
    <3>4. QED
      BY <2>6, <3>2, <3>3
  <2>8. QED
    BY <2>5, <2>7, SeqEqual
<1>9. Len(Contents) < MaxMsgs
  BY <1>1, <1>7 DEF BoxAssumption
<1>10. QED
  BY <1>2, <1>4, <1>8, <1>9 DEF Queue!Send

(* What msg_get() reads is the message that was sent first.                *)
LEMMA GotKeeps ==
  ASSUME BoxAssumption, BoxOK, Got
  PROVE  BoxOK' /\ Queue!Get
<1>1. PICK n \in 1..MaxMsgs, c \in Slots, p \in Slots, buf \in [Slots -> Msg] :
        /\ box.num_msgs = n /\ box.c_index = c /\ box.p_index = p /\ box.msg_buf = buf
        /\ p = Place(c, n + 1)
  BY DEF BoxOK, Got, BoxAssumption
<1>2. /\ box'.num_msgs = n - 1 /\ box'.c_index = Following(c) /\ box'.p_index = p
      /\ box'.msg_buf = buf /\ loc' = buf[c]
  <2>1. Down(n) = n - 1
    BY <1>1 DEF BoxAssumption, Down
  <2> QED BY <1>1, <2>1 DEF Got, Taken, BoxOK
<1>3. n - 1 \in 0..MaxMsgs /\ (n - 1) + 1 = n /\ 1 \in 1..MaxMsgs
  BY <1>1 DEF BoxAssumption
<1>4. BoxOK'
  <2>1. Following(c) \in Slots
    BY <1>1, FirstPlace
  <2>2. Place(Following(c), n) = Place(c, n + 1)
    BY <1>1, Follows
  <2>3. box' \in [num_msgs : 0..MaxMsgs, p_index : Slots, c_index : Slots,
                  msg_buf : [Slots -> Msg]] /\ loc' \in Msg
    BY <1>1, <1>2, <1>3, <2>1 DEF Got, Taken, BoxOK
  <2>4. QED
    BY <1>1, <1>2, <1>3, <2>2, <2>3 DEF BoxOK
<1>5. Contents = [i \in 1..n |-> buf[Place(c, i)]]
  BY <1>1 DEF Contents
<1>6. \A i \in 1..n : i \in 1..MaxMsgs /\ Place(c, i) \in Slots
  BY <1>1 DEF BoxAssumption, Place, Slots
<1>7. Contents \in Seq(Msg) /\ Len(Contents) = n /\ Contents # <<>>
  BY <1>1, <1>5, <1>6
<1>8. loc' = Head(Contents)
  <2>1. Place(c, 1) = c
    BY <1>1, FirstPlace
  <2>2. QED
    BY <1>1, <1>2, <1>5, <1>7, <2>1
<1>9. Contents' = Tail(Contents)
  <2>1. Contents' = [i \in 1..(n - 1) |-> buf[Place(Following(c), i)]]
    BY <1>2 DEF Contents
  <2>2. /\ Tail(Contents) \in Seq(Msg) /\ Len(Tail(Contents)) = n - 1
        /\ \A i \in 1..(n - 1) : Tail(Contents)[i] = Contents[i + 1]
    BY <1>7, HeadTailProperties
  <2>3. \A i \in 1..(n - 1) : buf[Place(Following(c), i)] = Contents[i + 1]
    <3> TAKE i \in 1..(n - 1)
    <3>1. i \in 1..MaxMsgs /\ i + 1 \in 1..n
      BY <1>1 DEF BoxAssumption
    <3>2. QED
      BY <1>1, <1>5, <3>1, Follows
  <2>4. /\ Contents' \in Seq(Msg) /\ Len(Contents') = n - 1
        /\ \A i \in 1..(n - 1) : Contents'[i] = Tail(Contents)[i]
    <3>1. \A i \in 1..(n - 1) : buf[Place(Following(c), i)] \in Msg
      BY <1>1, <1>7, <2>3 DEF BoxAssumption
    <3>2. QED
      BY <1>1, <2>1, <2>2, <2>3, <3>1
  <2>5. QED
    BY <2>2, <2>4, SeqEqual
<1>10. QED
  BY <1>4, <1>7, <1>8, <1>9 DEF Queue!Get

(* A message box of any size, whatever its memory held, is a queue of at   *)
(* most MaxMsgs messages: msg_get() returns what msg_send() took, in order.*)
THEOREM BoxIsFifo == ASSUME BoxAssumption PROVE BoxSpec => BoxFifo
<1>1. BoxInit => BoxOK /\ Queue!Init
  BY InitOK
<1>2. BoxOK /\ [BoxNext]_boxVars => BoxOK' /\ [Queue!Next]_<<Contents, loc>>
  <2> SUFFICES ASSUME BoxOK, [BoxNext]_boxVars
               PROVE  BoxOK' /\ [Queue!Next]_<<Contents, loc>>
    OBVIOUS
  <2>1. CASE Got
    BY <2>1, GotKeeps DEF Queue!Next
  <2>2. ASSUME NEW m \in Msg, Sent(m)
        PROVE  BoxOK' /\ [Queue!Next]_<<Contents, loc>>
    BY <2>2, SentKeeps DEF Queue!Next
  <2>3. CASE UNCHANGED boxVars
    BY <2>3 DEF boxVars, BoxOK, Contents, Place
  <2>4. QED
    BY <2>1, <2>2, <2>3 DEF BoxNext
<1>3. QED
  BY <1>1, <1>2, PTL DEF BoxSpec, BoxFifo, Queue!Spec
=============================================================================
