-------------------------------- MODULE Net ---------------------------------
(***************************************************************************)
(* The network of the SAM9: the Ethernet device, its driver's task and     *)
(* handler, the message box between the driver and the network module, the *)
(* network module's task, which is less urgent than the driver's, and the  *)
(* output of what it prints.                                               *)
(***************************************************************************)
EXTENDS NetStack

CONSTANTS
  Kinds,      \* the frames that come in
  Most,       \* bound: how many frames come in at most
  Loads       \* bounds, as alternatives: which kinds, and how many frames

(* The tasks are the driver's, the network's and the idle task; messages   *)
(* are buffers, addresses and frames are those of NetStack.                *)
ASSUME NetAssumption ==
  /\ TaskQ \in Seq({"emac", "net", "idle"}) /\ Tasks = {"emac", "net", "idle"}
  /\ Msg = Bufs /\ CountMax \in [{"tx_buf"} -> Nat \ {0}]
  /\ Text \in Nat \ {0} /\ MostRead \in Nat /\ MostRead > Most
  /\ Kinds \subseteq [dst : Seq(0..All), type : STRING, oper : STRING, src : Nat, to : Nat,
                      n : Nat \ {0}, no : Nat]
  /\ Most \in Nat
  /\ \A l \in Loads : l.kinds \subseteq Kinds /\ l.more \in 0..Most

VARIABLE load  \* what is left of the bounds, and how many frames came
vars == <<schedVars, pc, boxVars, emacVars, netVars, tty, load>>

Init ==
  /\ pc = [t \in Tasks |-> "start"]
  /\ status = [t \in Tasks |-> "READY"]
  /\ run = First(status)
  /\ count_now = CountMax /\ isr = "off" /\ missed = {}
  /\ box = [num_msgs |-> 0, p_index |-> 0, c_index |-> 0, msg_buf |-> [i \in Slots |-> 0]]
  /\ loc = 0
  /\ EmacInit /\ NetInit
  /\ load \in {[kinds |-> l.kinds, more |-> l.more, came |-> 0] : l \in Loads}

EmacTask == RxStart \/ RxSleep \/ RxStop \/ RxTake \/ RxHand

Goes == \/ EmacTask /\ UNCHANGED <<netVars, tty, load>>
        \/ NetTask /\ UNCHANGED load

EmacIsr == /\ IsrRead \/ IsrClear
           /\ UNCHANGED <<netVars, tty, load>>
Interrupt == IsrEnter /\ UNCHANGED <<netVars, tty, load>>
Output == Printed /\ UNCHANGED load

Device == /\ Fills \/ Sends
          /\ UNCHANGED <<schedVars, pc, boxVars, netVars, tty, load>>

(* A frame begins to come in.                                              *)
Comes == /\ load.more > 0
         /\ load' = [load EXCEPT !.more = @ - 1, !.came = @ + 1]
         /\ \E f \in load.kinds : Begins([f EXCEPT !.no = load.came + 1])
         /\ UNCHANGED <<schedVars, pc, boxVars, netVars, tty>>

Next == Goes \/ EmacIsr \/ Interrupt \/ Output \/ Device \/ Comes

(* Tasks and the handler run on, characters are printed, and the device    *)
(* goes on with what it has begun.  Frames need not come.                  *)
Spec == /\ Init /\ [][Next]_vars
        /\ WF_vars(Goes) /\ WF_vars(EmacIsr) /\ SF_vars(Interrupt)
        /\ WF_vars(Output)
        /\ WF_vars(Fills /\ Device) /\ WF_vars(Sends /\ Device)

-----------------------------------------------------------------------------
(* net_task() was woken in msg_get() by no message: it reads a place of    *)
(* the box that holds an old one, or none.                                 *)
Strayed == "stray" \in spoilt

(* The running task is ready, and the indexes of the box stay within it.   *)
(* Until net_task() strays, the box holds num_msgs messages, and the       *)
(* indexes of the rings stay within them (atmel_emac.c, msgs.c).           *)
TypeOK ==
  /\ run \in Tasks /\ status[run] = "READY"
  /\ box.num_msgs \in 0..(Word - 1) /\ box.p_index \in Slots /\ box.c_index \in Slots
  /\ \/ Strayed
     \/ /\ BoxOK
        /\ rx.index \in Bufs /\ rx.start \in Bufs \cup {NoBuf}
        /\ \A b \in Bufs : bufs[b].active \in BOOLEAN /\ bufs[b].next \in Bufs \cup {NoBuf}
        /\ tx_index \in Bufs
        /\ eth.rsr \subseteq {"frame", "no buffer"} /\ val \subseteq {"frame", "no buffer"}
        /\ spoilt \subseteq {"held", "refused", "unwoken", "part", "cut", "replaced", "torn"}

(* net_task() goes on in msg_get() only when there is a message: "Call was *)
(* successful and a message was received" (manual, msg_get()).             *)
WokenByMessage == pc["net"] = "take" /\ status["net"] = "READY" => box.num_msgs # 0

(* The buffers of the chain that begins with b.                            *)
Chain(b) ==
  LET f[k \in 0..NumBufs] == IF k = 0 THEN {b}
                             ELSE f[k - 1] \cup ({bufs[x].next : x \in f[k - 1]} \ {NoBuf})
  IN  f[NumBufs]

(* The chains in use: those in the box, the one that is being handed over, *)
(* and the one that net_task() has.                                        *)
Boxed == {Contents[i] : i \in DOMAIN Contents}
Handed == IF pc["emac"] = "hand" THEN {rx.start} ELSE {}
Held == {net.rest} \ {NoBuf}
Heads == Boxed \cup Handed \cup Held

(* The chain that emac_rx_task() is linking, as far as it is.              *)
Linking == LET before == (rx.index - 1) % NumBufs
           IN  IF pc["emac"] # "hand" /\ bufs[before].active /\ bufs[before].next = rx.index
               THEN {b \in Bufs : rx.start # NoBuf /\ (b - rx.start) % NumBufs
                                                       <= (before - rx.start) % NumBufs}
               ELSE {}
Leaked == {b \in Bufs : bufs[b].active} \ (Linking \cup UNION {Chain(h) : h \in Heads})

(* Every buffer in use belongs to one frame: the device does not write to  *)
(* it before it is given back, and it is given back once, until net_task() *)
(* strays.  One leaks only where the box was full, a frame came in part,   *)
(* or dev_buf_free() cut a chain that was begun behind its back.           *)
Accounted ==
  \/ Strayed
  \/ /\ Leaked # {} => spoilt \cap {"refused", "part", "cut"} # {}
     /\ \A h \in Boxed \cup Handed : \A b \in Chain(h) : rx_desc[b].used /\ bufs[b].active
     /\ \A g, h \in Heads : g # h => Chain(g) \cap Chain(h) = {}

-----------------------------------------------------------------------------
Frames == {[f EXCEPT !.no = k] : f \in Kinds, k \in 1..Most}

(* The complete frames that have come in and net_task() has not read, in   *)
(* the order in which they came.                                           *)
Untaken(b) == /\ rx_desc[b].used
              /\ ~bufs[b].active \/ (pc["net"] = "retire" /\ net.rest = b)
InRing ==
  LET at(k) == (rx.index + k) % NumBufs
      f[k \in 0..NumBufs] ==
        IF k = 0 THEN <<>>
        ELSE IF Untaken(at(k - 1)) /\ rx_desc[at(k - 1)].end
             THEN Append(f[k - 1], rx_desc[at(k - 1)].frame)
             ELSE f[k - 1]
  IN  f[NumBufs]
Reading == pc["net"] \in {"look", "print", "put", "answer"}
Incoming == (IF Reading THEN <<Of(net.buf)>> ELSE <<>>)
            \o [i \in DOMAIN Contents |-> Of(Contents[i])]
            \o (IF pc["emac"] = "hand" THEN <<Of(rx.start)>> ELSE <<>>)
            \o InRing

Rx == INSTANCE Channel WITH queue <- Incoming, out <- handled, Chars <- Frames,
                            NewLines <- {}, CR <- None, broken <- spoilt \cap {"refused", "stray"} # {}

(* Until the box was full or net_task() strayed, every frame that came in  *)
(* whole is read by net_task() once, and in the order in which the frames  *)
(* came: the descriptors, the chains and the box implement a channel.      *)
RxFrames == Rx!Spec

(* What a frame is to be answered with: whatever asks for our address, and *)
(* is not a reply, is taken for a request.                                 *)
Answer(f, id) ==
  IF \E i \in DOMAIN Mac : f.dst[i] \notin {All, Mac[i]} THEN <<>>
  ELSE IF f.type = "arp" /\ f.oper # "reply" /\ f.to = IpAddr /\ f.src # IpAddr
       THEN <<ArpReply(f)>>
  ELSE IF f.type = "ipv4" /\ f.oper \in {"echo request", "echo fragment"}
          /\ f.to = IpAddr
       THEN <<EchoReply(f, id)>>
  ELSE <<>>
Served(s, f) ==
  LET a == Answer(f, s.id)
  IN  [sent |-> s.sent \o a,
       id |-> IF a # <<>> /\ f.type = "ipv4" THEN (s.id + 1) % 65536 ELSE s.id]
Answers(fs) ==
  LET f[i \in 0..Len(fs)] == IF i = 0 THEN [sent |-> <<Announcement>>, id |-> 0]
                                      ELSE Served(f[i - 1], fs[i])
  IN  f[Len(fs)]
Due == IF pc["net"] = "start" THEN <<>> ELSE Answers(handled).sent

Queued == LET at(k) == tx_desc[(eth.send + k) % NumBufs]
              f[k \in 0..NumBufs] ==
                IF k = 0 THEN <<>>
                ELSE IF at(k - 1).stat = {"last", "size"} THEN Append(f[k - 1], at(k - 1).pkt)
                                                          ELSE f[k - 1]
          IN  f[NumBufs]

(* The announcement and an answer to every request that was read are sent, *)
(* once and in order, unless the ring was too short for them, the device   *)
(* read a descriptor before it was written, or net_task() strayed.         *)
Answered ==
  LET sent == wire \o Queued
  IN  \/ spoilt \cap {"torn", "replaced", "stray"} # {}
      \/ sent = IF pc["net"] \in {"send", "last", "size"} THEN SubSeq(Due, 1, Len(Due) - 1)
                                                          ELSE Due

(* What has come in is read, and all its buffers are given back, unless a  *)
(* wake-up was missed or not made, buffers leaked, or net_task() strayed.  *)
Busy == Incoming # <<>> \/ \E b \in Bufs : bufs[b].active
RxFlows == Busy ~> ~Busy \/ "emac" \in missed
                   \/ spoilt \cap {"held", "unwoken", "refused", "part", "cut", "stray"} # {}
=============================================================================
