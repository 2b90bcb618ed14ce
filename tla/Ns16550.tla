------------------------------ MODULE Ns16550 -------------------------------
(***************************************************************************)
(* The 16550 driver (devices/16550a.c): a receive and a transmit task,     *)
(* rx_func(), which the standard I/O calls to send, and the interrupt      *)
(* handler.  The device itself is modelled from how the driver uses it.    *)
(***************************************************************************)
EXTENDS Stdio, FiniteSets

CONSTANTS
  DevSize,    \* BUF_SIZE of the drivers
  Fifo        \* how much the 16550 holds, and tx_size

VARIABLES
  dev,        \* devT: rx_buf, rx_p, rx_c, tx_buf, tx_p, tx_c, tx_t (tx_sem_loc)
  hw,         \* the device: what it holds, and its enable and status bits
  val,        \* the register value each task has read, or a comparison's result
  shut,       \* history: the receiver was shut down as rx_task() compared
  lost        \* history: a character was overwritten, in either direction

devVars == <<dev, hw, val, shut, lost>>

DevInit ==
  /\ dev = [rx_buf |-> [i \in 1..DevSize |-> CR], rx_p |-> 0, rx_c |-> 0,
            tx_buf |-> [i \in 1..DevSize |-> CR], tx_p |-> 0, tx_c |-> 0, tx_t |-> 0]
  /\ val = [t \in {"rx", "stdout"} |-> 0]
  /\ shut = FALSE /\ lost = {}

(* The device is empty; on says whether it may interrupt when it receives. *)
HwInit(on) ==
  hw = [rx_on |-> on, tx_on |-> FALSE, rx_fifo |-> <<>>, tx_fifo |-> <<>>,
        overrun |-> FALSE, tx_int |-> FALSE, rx_int |-> FALSE, shift |-> <<>>]

(* ns16550_init(): rx_task() enables the receiver.                         *)
Ns16550Init == DevInit /\ HwInit(FALSE)

RxRoom == dev.rx_p - dev.rx_c < Len(dev.rx_buf)
RxEqual == dev.rx_p % Len(dev.rx_buf) = dev.rx_c % Len(dev.rx_buf)

(* A character is put in a ring by the handler, or by rx_func().           *)
Received(d, x) == [d EXCEPT !.rx_buf = Put(@, d.rx_p, x), !.rx_p = @ + 1]
RxLoses == IF RxRoom THEN lost ELSE lost \cup {"rx"}
Queued(d, x) == [d EXCEPT !.tx_buf = Put(@, d.tx_p, x), !.tx_p = @ + 1]
TxLoses == IF dev.tx_p - dev.tx_c < Len(dev.tx_buf) THEN lost ELSE lost \cup {"tx"}

(* A step of a driver's task on the variables of the driver.               *)
Own(t, from, to) == Step(t, from, to) /\ UNCHANGED <<schedVars, ioVars, out>>

-----------------------------------------------------------------------------
(* rx_task(): it enables the receiver, sleeps, hands on what came, and     *)
(* starts a receiver that was shut down as the ring was full.              *)
RxTaskStart == /\ Own("rx", "start", "sleep")
               /\ hw' = [hw EXCEPT !.rx_on = TRUE, !.tx_on = FALSE]
               /\ UNCHANGED <<dev, val, shut, lost>>

TaskSleep(t) == /\ Step(t, "sleep", "test") /\ Sleep
                /\ UNCHANGED <<ioVars, out, devVars>>

RxTaskTest(l, after) ==
  /\ Own("rx", "test", IF dev.rx_c = dev.rx_p THEN "sleep"
                       ELSE IF TxFunc(l) # None THEN "rx_func" ELSE after)
  /\ UNCHANGED devVars

RxTaskHand(after) ==
  /\ RxFunc("rx", after) \/ RxStore("rx", after, At(dev.rx_buf, dev.rx_c))
  /\ UNCHANGED devVars

RxTaskCompare == /\ Own("rx", "compare", "next")
                 /\ val' = [val EXCEPT !["rx"] = IF RxEqual THEN 1 ELSE 0]
                 /\ UNCHANGED <<dev, hw, shut, lost>>
RxTaskNext_Bug == /\ Own("rx", "next", "test")
                  /\ dev' = [dev EXCEPT !.rx_c = @ + 1]
                  /\ UNCHANGED <<hw, val, shut, lost>>
RxTaskNext == /\ Own("rx", "next", IF val["rx"] = 1 THEN "enable" ELSE "test")
              /\ dev' = [dev EXCEPT !.rx_c = @ + 1]
              /\ UNCHANGED <<hw, val, shut, lost>>

(* IER := IER | bit: a value that is no longer there may be written back.  *)
Bits == (IF hw.rx_on THEN 1 ELSE 0) + (IF hw.tx_on THEN 2 ELSE 0)
ReadBits(t, from, to) == /\ Own(t, from, to)
                         /\ val' = [val EXCEPT ![t] = Bits]
                         /\ UNCHANGED <<dev, hw, shut, lost>>
TxEnabled(h) == [h EXCEPT !.tx_on = TRUE,
                          !.tx_int = @ \/ (~h.tx_on /\ h.tx_fifo = <<>>)]
WriteBits(t, from, to, rx, tx) ==
  /\ Own(t, from, to)
  /\ hw' = LET h == [hw EXCEPT !.rx_on = rx \/ val[t] % 2 = 1]
           IN  IF tx \/ val[t] >= 2 THEN TxEnabled(h) ELSE [h EXCEPT !.tx_on = FALSE]
  /\ UNCHANGED <<dev, val, shut, lost>>

RxTask16550 == \/ RxTaskStart \/ TaskSleep("rx") \/ RxTaskTest("ns16550", "compare")
               \/ RxTaskHand("compare") \/ RxTaskCompare \/ RxTaskNext
               \/ ReadBits("rx", "enable", "write")
               \/ WriteBits("rx", "write", "test", TRUE, FALSE)

-----------------------------------------------------------------------------
(* rx_func(): a character to send waits for room in the ring.              *)
TxRoom == /\ Step("stdout", "tx_func", "queue") /\ Get("tx")
          /\ UNCHANGED <<ioVars, out, devVars>>
TxQueue == /\ Own("stdout", "queue", "check")
           /\ dev' = Queued(dev, c)
           /\ lost' = TxLoses
           /\ UNCHANGED <<hw, val, shut>>
TxCheck_Bug == /\ Own("stdout", "check", "sent") /\ UNCHANGED devVars
TxCheck == /\ Own("stdout", "check", IF hw.tx_on THEN "sent" ELSE "enable")
           /\ UNCHANGED devVars

TxFunc16550 == \/ TxRoom \/ TxQueue \/ TxCheck
               \/ ReadBits("stdout", "enable", "write")
               \/ WriteBits("stdout", "write", "sent", FALSE, TRUE)

(* tx_task(): the places of what was sent are given back.                  *)
TxTaskGive(more) ==
  /\ \/ more /\ Step("tx", "test", "test") /\ Give("tx")
        /\ dev' = [dev EXCEPT !.tx_t = @ + 1]
     \/ ~more /\ Step("tx", "test", "sleep")
        /\ UNCHANGED schedVars /\ UNCHANGED dev
  /\ UNCHANGED <<ioVars, out, hw, val, shut, lost>>

TxTask16550 == TaskSleep("tx") \/ TxTaskGive(dev.tx_t # dev.tx_c)

-----------------------------------------------------------------------------
(* The handler, with interrupts disabled: what the device says is dealt    *)
(* with until there is nothing left.                                       *)
Handler(from, to) == /\ isr = from /\ isr' = to
                     /\ UNCHANGED <<run, count_now, pc, ioVars, out, val, shut>>
Quietly == UNCHANGED <<status, missed>>

LinePending == hw.overrun /\ pc["rx"] # "start"
RxPending == hw.rx_on /\ hw.rx_fifo # <<>>
TxPending == hw.tx_on /\ hw.tx_int

IsrLine == /\ Handler("16550", "16550") /\ Quietly
           /\ LinePending
           /\ hw' = [hw EXCEPT !.overrun = FALSE]
           /\ UNCHANGED <<dev, lost>>

IsrRxWake_Bug == /\ Handler("16550", "16550_rx")
                 /\ ~LinePending /\ RxPending
                 /\ Quietly /\ UNCHANGED <<dev, hw, lost>>
IsrRxWake == /\ Handler("16550", "16550_rx")
             /\ ~LinePending /\ RxPending
             /\ Wake("rx")
             /\ UNCHANGED <<dev, hw, lost>>

Full(d) == d.rx_p % Len(d.rx_buf) = d.rx_c % Len(d.rx_buf)

(* A ring that is now full is not to be written on.                        *)
IsrRx_Bug ==
  /\ isr = "16550_rx"
  /\ dev' = Received(dev, Head(hw.rx_fifo))
  /\ lost' = RxLoses
  /\ hw' = [hw EXCEPT !.rx_fifo = Tail(@)]
  /\ isr' = IF hw'.rx_fifo = <<>> THEN "16550" ELSE "16550_rx"
  /\ shut' = shut
  /\ Quietly /\ UNCHANGED <<run, count_now, pc, ioVars, out, val>>
IsrRx ==
  /\ isr = "16550_rx"
  /\ dev' = Received(dev, Head(hw.rx_fifo))
  /\ lost' = RxLoses
  /\ hw' = [hw EXCEPT !.rx_fifo = Tail(@), !.rx_on = @ /\ ~Full(dev')]
  /\ isr' = IF Full(dev') \/ hw'.rx_fifo = <<>> THEN "16550" ELSE "16550_rx"
  /\ shut' = (shut \/ (Full(dev') /\ pc["rx"] = "next" /\ val["rx"] = 0))
  /\ Quietly /\ UNCHANGED <<run, count_now, pc, ioVars, out, val>>

(* The transmitter gets as much as it takes, or is shut down.              *)
IsrTx ==
  /\ Handler("16550", "16550")
  /\ ~LinePending /\ ~RxPending /\ TxPending
  /\ Wake("tx")
  /\ LET queued == Ring(dev.tx_buf, dev.tx_c, dev.tx_p)
         most   == IF hw.tx_fifo = <<>> THEN Fifo ELSE 1
         n      == IF Len(queued) < most THEN Len(queued) ELSE most
     IN  /\ dev' = [dev EXCEPT !.tx_c = @ + n]
         /\ hw' = [hw EXCEPT !.tx_fifo = @ \o SubSeq(queued, 1, n),
                             !.tx_int = FALSE, !.tx_on = n # 0]
  /\ UNCHANGED lost

Isr16550End ==
  /\ isr = "16550" /\ ~LinePending /\ ~RxPending /\ ~TxPending
  /\ HandlerEnd(status)
  /\ Quietly /\ UNCHANGED <<count_now, pc, ioVars, out, devVars>>

Isr16550 == IsrLine \/ IsrRxWake \/ IsrRx \/ IsrTx \/ Isr16550End

-----------------------------------------------------------------------------
(* The device and the line: a character comes in or is too much, ...       *)
Holds(h) == Len(h.rx_fifo) < Fifo
LineIn16550(x) ==
  /\ hw' = IF Holds(hw) THEN [hw EXCEPT !.rx_fifo = Append(@, x)]
                        ELSE [hw EXCEPT !.overrun = TRUE]
  /\ UNCHANGED <<dev, val, shut, lost>>

(* ... and one goes out.                                                   *)
LineOut16550 ==
  /\ hw.tx_fifo # <<>>
  /\ out' = Append(out, Head(hw.tx_fifo))
  /\ hw' = [hw EXCEPT !.tx_fifo = Tail(@), !.tx_int = @ \/ Len(hw.tx_fifo) = 1]
  /\ UNCHANGED <<dev, val, shut, lost>>
=============================================================================
