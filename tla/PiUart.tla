------------------------------- MODULE PiUart -------------------------------
(***************************************************************************)
(* The UART of the Raspberry Pi (boards/raspberry-pi/serial.c), its FIFOs  *)
(* off: what is written waits in one register (tx_fifo) for the shift      *)
(* register, and the interrupt that the register is empty is raised then.  *)
(* There is no ring for what is sent: rx_func() writes to the device, and  *)
(* waits for tx_task().                                                    *)
(***************************************************************************)
EXTENDS SamUart

(* uart_init(): nothing interrupts before rx_task() runs.                  *)
PiInit == DevInit /\ HwInit(FALSE)

(* IMSC := IMSC | bit, as a read and a write.                              *)
WriteMask(t, from, to, rx) ==
  /\ Own(t, from, to)
  /\ hw' = [hw EXCEPT !.rx_on = rx \/ val[t] % 2 = 1,
                      !.tx_on = ~rx \/ val[t] >= 2]
  /\ UNCHANGED <<dev, val, shut, lost>>

(* rx_task(): the index is moved on before the character is handed over.   *)
RxTaskTake == /\ Own("rx", "test", IF dev.rx_c = dev.rx_p THEN "sleep" ELSE "rx_func")
              /\ dev' = IF dev.rx_c = dev.rx_p THEN dev ELSE [dev EXCEPT !.rx_c = @ + 1]
              /\ UNCHANGED <<hw, val, shut, lost>>
RxTaskHandPi ==
  /\ RxFunc("rx", "test") \/ RxStore("rx", "test", At(dev.rx_buf, dev.rx_c - 1))
  /\ UNCHANGED devVars

RxTaskPi == \/ ReadBits("rx", "start", "write") \/ WriteMask("rx", "write", "sleep", TRUE)
            \/ TaskSleep("rx") \/ RxTaskTake \/ RxTaskHandPi

(* rx_func(): what the data register holds is overwritten.                 *)
TxWrite == /\ Own("stdout", "tx_func", "enable")
           /\ hw' = [hw EXCEPT !.tx_fifo = <<c>>, !.tx_int = FALSE]
           /\ lost' = IF hw.tx_fifo = <<>> THEN lost ELSE lost \cup {"tx"}
           /\ UNCHANGED <<dev, val, shut>>
TxWait_Bug == /\ Own("stdout", "wait_tx", "sent") /\ UNCHANGED devVars
TxWait == /\ Step("stdout", "wait_tx", "sent") /\ Get("tx_pi")
          /\ UNCHANGED <<ioVars, out, devVars>>

TxFuncPi == \/ TxWrite \/ ReadBits("stdout", "enable", "write")
            \/ WriteMask("stdout", "write", "wait_tx", FALSE) \/ TxWait

TxTaskPi ==
  \/ TaskSleep("tx")
  \/ Step("tx", "test", "sleep") /\ Give("tx_pi") /\ UNCHANGED <<ioVars, out, devVars>>

-----------------------------------------------------------------------------
PiTxPending == hw.tx_on /\ hw.tx_int
PiRxPending == hw.rx_on /\ hw.rx_int

(* uart_isr(): the register that clears the interrupts cannot be read, and *)
(* what is written back to it clears them or does not.  The transmitter's  *)
(* interrupt is masked; what was received is read until there is no more.  *)
IsrPi ==
  /\ isr = "rpi" /\ isr' = IF PiRxPending THEN "rpi_rx" ELSE "rpi_end"
  /\ \E clear \in BOOLEAN :
        hw' = [hw EXCEPT !.tx_on = @ /\ ~PiTxPending,
                         !.tx_int = @ /\ ~clear, !.rx_int = @ /\ ~clear]
  /\ IF PiTxPending THEN Wake("tx") ELSE Quietly
  /\ UNCHANGED <<run, count_now, pc, ioVars, out, dev, val, shut, lost>>

(* A character with an error is skipped.  There is no check for room, and  *)
(* the character that rx_task() hands over has left the ring already.      *)
HandedPi == IF pc["rx"] \in {"rx_func", "store"} THEN 1 ELSE 0
RxLosesPi == IF dev.rx_p - dev.rx_c + HandedPi < Len(dev.rx_buf)
             THEN lost ELSE lost \cup {"rx"}

IsrRxPi ==
  /\ isr = "rpi_rx"
  /\ \/ /\ hw.rx_fifo # <<>> /\ Head(hw.rx_fifo) \in Chars
        /\ dev' = Received(dev, Head(hw.rx_fifo)) /\ lost' = RxLosesPi
        /\ hw' = [hw EXCEPT !.rx_fifo = <<>>, !.rx_int = FALSE]
        /\ UNCHANGED <<isr, status, missed>>
     \/ /\ hw.rx_fifo # <<>> /\ Head(hw.rx_fifo) \notin Chars
        /\ hw' = [hw EXCEPT !.rx_fifo = <<>>, !.rx_int = FALSE]
        /\ UNCHANGED <<isr, status, missed, dev, lost>>
     \/ /\ hw.rx_fifo = <<>>
        /\ Wake("rx") /\ isr' = "rpi_end"
        /\ UNCHANGED <<dev, hw, lost>>
  /\ UNCHANGED <<run, count_now, pc, ioVars, out, val, shut>>

IsrPiEnd ==
  /\ isr = "rpi_end"
  /\ HandlerEnd(status)
  /\ Quietly /\ UNCHANGED <<count_now, pc, ioVars, out, devVars>>

IsrRpi == IsrPi \/ IsrRxPi \/ IsrPiEnd

-----------------------------------------------------------------------------
(* The line.  The device keeps the first of two characters that come.      *)
LineInPi(x) ==
  /\ hw' = IF hw.rx_fifo = <<>> THEN [hw EXCEPT !.rx_fifo = <<x>>, !.rx_int = TRUE]
                                ELSE hw
  /\ UNCHANGED <<dev, val, shut, lost>>

ShiftPi == /\ hw.tx_fifo # <<>> /\ hw.shift = <<>>
           /\ hw' = [hw EXCEPT !.shift = hw.tx_fifo, !.tx_fifo = <<>>, !.tx_int = TRUE]
           /\ UNCHANGED <<out, dev, val, shut, lost>>
LineOutPi == /\ hw.shift # <<>>
             /\ out' = Append(out, hw.shift[1])
             /\ hw' = [hw EXCEPT !.shift = <<>>]
             /\ UNCHANGED <<dev, val, shut, lost>>
=============================================================================
