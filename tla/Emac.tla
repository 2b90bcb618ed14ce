-------------------------------- MODULE Emac --------------------------------
(***************************************************************************)
(* The Ethernet driver of the SAM9 (boards/sam9-l9260/atmel_emac.c): the   *)
(* ring of receive descriptors with a net_buf_t for each, the task that    *)
(* makes frames of them, the handler that wakes it, and the ring of frames *)
(* to send.  What the device does is modelled from how the driver uses it. *)
(***************************************************************************)
EXTENDS Sched, MsgBox, FiniteSets

CONSTANT NumBufs    \* NUM_BUFS

ASSUME EmacAssumption == NumBufs \in Nat \ {0}

Bufs == 0..(NumBufs - 1)
NoBuf == -1
After(i) == (i + 1) % NumBufs

VARIABLES
  rx_desc,    \* the receive descriptors: used (bit 0), start, end, frame
  bufs,       \* rx_net_bufs: active, next (next_buf)
  rx,         \* rx_index, start_buf
  tx_desc,    \* the transmit descriptors: stat, and the packet
  tx_index,
  eth,        \* the device: the bits of RSR, irq, on, the descriptor it fills
              \* next, the rest of the frame that comes in, sending, and the
              \* descriptor it sends next
  val,        \* the handler's copy of RSR
  wire,       \* history: what was sent
  spoilt      \* history: what went wrong

rxVars == <<rx_desc, bufs, rx>>
txVars == <<tx_desc, tx_index, wire>>
emacVars == <<rxVars, txVars, eth, val, spoilt>>

(* buf_init(): all descriptors to receive with are the device's, and none  *)
(* of those to send with.                                                  *)
BufInit ==
  /\ rx_desc = [i \in Bufs |-> [used |-> FALSE, start |-> FALSE, end |-> FALSE, frame |-> 0]]
  /\ bufs = [i \in Bufs |-> [active |-> FALSE, next |-> NoBuf]]
  /\ rx = [index |-> 0, start |-> NoBuf]
  /\ tx_desc = [i \in Bufs |-> [stat |-> {"used"}, pkt |-> 0]]
  /\ tx_index = 0

(* dev_init(): the device is off, and is told where the two rings are.     *)
DevInit ==
  /\ BufInit
  /\ eth = [rsr |-> {}, irq |-> FALSE, on |-> FALSE, fill |-> 0, part |-> <<>>,
            sending |-> FALSE, send |-> 0]

EmacInit == DevInit /\ val = {} /\ wire = <<>> /\ spoilt = {}

-----------------------------------------------------------------------------
(* emac_rx_task(): it enables the interrupt and the receiver, ...          *)
RxStart == /\ Step("emac", "start", "sleep")
           /\ eth' = [eth EXCEPT !.on = TRUE]
           /\ UNCHANGED <<schedVars, boxVars, rxVars, txVars, val, spoilt>>

Ready_Bug == rx_desc[rx.index].used
Ready == rx_desc[rx.index].used /\ ~bufs[rx.index].active

(* ... sleeps,  ...                                                        *)
RxSleep == /\ Step("emac", "sleep", "test") /\ Sleep
           /\ UNCHANGED <<boxVars, emacVars>>

RxStop == /\ ~Ready
          /\ Step("emac", "test", "sleep")
          /\ spoilt' = IF rx_desc[rx.index].used THEN spoilt \cup {"held"} ELSE spoilt
          /\ UNCHANGED <<schedVars, boxVars, rxVars, txVars, eth, val>>

(* ... and links the buffers of a frame.  A start begins a new chain,      *)
(* whether the last one was complete or not.                               *)
RxTake_Bug ==
  LET i == rx.index
      d == rx_desc[i]
  IN  /\ Ready
      /\ Step("emac", "test", IF d.end THEN "hand" ELSE "test")
      /\ bufs' = [bufs EXCEPT ![i] = [active |-> TRUE,
                                      next |-> IF d.end THEN NoBuf ELSE After(i)]]
      /\ rx' = [index |-> After(i), start |-> IF rx.start = NoBuf THEN i ELSE rx.start]
      /\ UNCHANGED <<schedVars, boxVars, rx_desc, txVars, eth, val, spoilt>>
RxTake ==
  LET i == rx.index
      d == rx_desc[i]
  IN  /\ Ready
      /\ Step("emac", "test", IF d.end THEN "hand" ELSE "test")
      /\ bufs' = [bufs EXCEPT ![i] = [active |-> TRUE,
                                      next |-> IF d.end THEN NoBuf ELSE After(i)]]
      /\ rx' = [index |-> After(i), start |-> IF d.start THEN i ELSE rx.start]
      /\ UNCHANGED <<schedVars, boxVars, rx_desc, txVars, eth, val, spoilt>>

(* The chain is sent to net_task()'s box (rx_func() of net_init.c), and    *)
(* what msg_send() returns is not looked at.                               *)
RxHand_Bug ==
  /\ Step("emac", "hand", "sleep")
  /\ \/ IsFull /\ spoilt' = spoilt \cup {"refused"} /\ UNCHANGED <<boxVars, status>>
     \/ /\ Sent(rx.start)
        /\ status' = [status EXCEPT !["net"] = "READY"]
        /\ UNCHANGED spoilt
  /\ UNCHANGED <<run, count_now, isr, missed, rxVars, txVars, eth, val>>
RxHand ==
  /\ Step("emac", "hand", "test")
  /\ \/ IsFull /\ spoilt' = spoilt \cup {"refused"} /\ UNCHANGED <<boxVars, status>>
     \/ /\ Sent(rx.start)
        /\ status' = [status EXCEPT !["net"] = "READY"]
        /\ UNCHANGED spoilt
  /\ UNCHANGED <<run, count_now, isr, missed, rxVars, txVars, eth, val>>

-----------------------------------------------------------------------------
(* emac_isr(): the status is read, and what was read is cleared.  The task *)
(* is woken when a frame came and nothing else happened.                   *)
IsrRead == /\ isr = "emac"
           /\ isr' = "emac_clear"
           /\ val' = eth.rsr
           /\ UNCHANGED <<run, status, count_now, missed, pc, boxVars, rxVars, txVars, eth,
                          spoilt>>

OnlyFrame == val = {"frame"}

IsrClear ==
  /\ isr = "emac_clear"
  /\ eth' = [eth EXCEPT !.rsr = @ \ val]
  /\ IF OnlyFrame THEN Wake("emac") /\ UNCHANGED spoilt
     ELSE /\ spoilt' = IF "frame" \in val THEN spoilt \cup {"unwoken"} ELSE spoilt
          /\ UNCHANGED <<status, missed>>
  /\ HandlerEnd(status')
  /\ UNCHANGED <<count_now, pc, boxVars, rxVars, txVars, val>>

(* EMAC_ISR is cleared as it is read, before RSR is.                       *)
IsrEnter == /\ isr = "off" /\ eth.irq /\ eth.on
            /\ isr' = "emac"
            /\ eth' = [eth EXCEPT !.irq = FALSE]
            /\ UNCHANGED <<run, status, count_now, missed, pc, boxVars, rxVars, txVars, val,
                           spoilt>>

-----------------------------------------------------------------------------
(* dev_buf_free(), for one buffer of the chain: the device gets it back,   *)
(* and then it is put out of use.                                          *)
GiveBack(b) == rx_desc' = [rx_desc EXCEPT ![b].used = FALSE]
Retire(b) == bufs' = [bufs EXCEPT ![b].active = FALSE]
Unchain(b) == bufs' = [bufs EXCEPT ![b].next = NoBuf]

(* rx_func(): a packet is put into the next descriptor, whatever state     *)
(* that is in, in three writes of its status; then sending is started.     *)
TxCopy(p) == /\ tx_desc' = [tx_desc EXCEPT ![tx_index] = [stat |-> {}, pkt |-> p]]
             /\ spoilt' = IF "used" \in tx_desc[tx_index].stat THEN spoilt
                                                              ELSE spoilt \cup {"replaced"}
             /\ UNCHANGED <<tx_index, wire>>
TxMark(bit) == /\ tx_desc' = [tx_desc EXCEPT ![tx_index].stat = @ \cup {bit}]
               /\ UNCHANGED <<tx_index, wire, spoilt>>
TxNext == /\ tx_index' = After(tx_index)
          /\ UNCHANGED <<tx_desc, wire, spoilt>>

-----------------------------------------------------------------------------
(* The device.  A frame's buffers are filled one after the other; where a  *)
(* descriptor is still in use, the rest of the frame is lost.              *)
Begins(f) == /\ eth.on /\ eth.part = <<>>
             /\ eth' = [eth EXCEPT !.part = [i \in 1..f.n |-> f]]
             /\ UNCHANGED <<rxVars, txVars, val, spoilt>>

Fills ==
  /\ eth.part # <<>>
  /\ LET f == Head(eth.part)
         i == eth.fill
         end == Len(eth.part) = 1
         start == Len(eth.part) = f.n
     IN  \/ /\ ~rx_desc[i].used
            /\ rx_desc' = [rx_desc EXCEPT ![i] = [used |-> TRUE, start |-> start,
                                                  end |-> end, frame |-> f]]
            /\ eth' = [eth EXCEPT !.fill = After(i), !.part = Tail(@),
                                  !.rsr = IF end THEN @ \cup {"frame"} ELSE @,
                                  !.irq = @ \/ end]
            /\ UNCHANGED spoilt
         \/ /\ rx_desc[i].used
            /\ eth' = [eth EXCEPT !.part = <<>>, !.rsr = @ \cup {"no buffer"}]
            /\ spoilt' = IF start THEN spoilt ELSE spoilt \cup {"part"}
            /\ UNCHANGED rx_desc
  /\ UNCHANGED <<bufs, rx, txVars, val>>

(* A descriptor that is not in use is sent, as far as it is written.       *)
Sends ==
  /\ eth.sending
  /\ LET d == tx_desc[eth.send]
     IN  \/ /\ "used" \in d.stat
            /\ eth' = [eth EXCEPT !.sending = FALSE]
            /\ UNCHANGED <<tx_desc, wire, spoilt>>
         \/ /\ "used" \notin d.stat
            /\ eth' = [eth EXCEPT !.send = After(@)]
            /\ tx_desc' = [tx_desc EXCEPT ![eth.send].stat = @ \cup {"used"}]
            /\ IF d.stat = {"last", "size"}
               THEN wire' = Append(wire, d.pkt) /\ UNCHANGED spoilt
               ELSE spoilt' = spoilt \cup {"torn"} /\ UNCHANGED wire
  /\ UNCHANGED <<rxVars, tx_index, val>>
=============================================================================
