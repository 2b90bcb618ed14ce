------------------------------ MODULE SamUart -------------------------------
(***************************************************************************)
(* The debug unit's UART of the SAM9 (boards/sam9-l9260/serial.c), which   *)
(* holds one character each way.  Its enable bits are set and cleared by   *)
(* writes of their own, so that none is written back stale.                *)
(***************************************************************************)
EXTENDS Ns16550

(* uart_init(): the receiver is enabled at once.                           *)
SamInit == DevInit /\ HwInit(TRUE)

Enable(t, from, to, rx) ==
  /\ Own(t, from, to)
  /\ hw' = IF rx THEN [hw EXCEPT !.rx_on = TRUE] ELSE [hw EXCEPT !.tx_on = TRUE]
  /\ UNCHANGED <<dev, val, shut, lost>>

RxTaskSam == \/ TaskSleep("rx") \/ RxTaskTest("uart", "compare")
             \/ RxTaskHand("compare") \/ RxTaskCompare \/ RxTaskNext
             \/ Enable("rx", "enable", "test", TRUE)

TxFuncSam == \/ TxRoom \/ TxQueue \/ TxCheck
             \/ Enable("stdout", "enable", "sent", FALSE)

(* tx_t <= tx_c: one place more is given than was sent.                    *)
TxTaskSam == TaskSleep("tx") \/ TxTaskGive(dev.tx_t <= dev.tx_c)

-----------------------------------------------------------------------------
SamTxPending == hw.tx_on /\ hw.tx_fifo = <<>>

(* uart_isr(): one character out, or the transmitter off, ...              *)
IsrTxSam_Bug ==
  /\ Handler("sam9", "sam9_rx")
  /\ \/ /\ ~SamTxPending
        /\ Quietly /\ UNCHANGED <<dev, hw>>
     \/ /\ SamTxPending /\ dev.tx_c # dev.tx_p
        /\ dev' = [dev EXCEPT !.tx_c = @ + 1]
        /\ hw' = [hw EXCEPT !.tx_fifo = <<At(dev.tx_buf, dev.tx_c)>>]
        /\ Quietly
     \/ /\ SamTxPending /\ dev.tx_c = dev.tx_p
        /\ hw' = [hw EXCEPT !.tx_on = FALSE]
        /\ Quietly /\ UNCHANGED dev
  /\ UNCHANGED lost
IsrTxSam ==
  /\ Handler("sam9", "sam9_rx")
  /\ \/ /\ ~SamTxPending
        /\ Quietly /\ UNCHANGED <<dev, hw>>
     \/ /\ SamTxPending /\ dev.tx_c # dev.tx_p
        /\ dev' = [dev EXCEPT !.tx_c = @ + 1]
        /\ hw' = [hw EXCEPT !.tx_fifo = <<At(dev.tx_buf, dev.tx_c)>>]
        /\ Wake("tx")
     \/ /\ SamTxPending /\ dev.tx_c = dev.tx_p
        /\ hw' = [hw EXCEPT !.tx_on = FALSE]
        /\ Quietly /\ UNCHANGED dev
  /\ UNCHANGED lost

(* ... and one in, the receiver being shut down as the ring gets full.     *)
IsrRxSam ==
  /\ isr = "sam9_rx" /\ isr' = "sam9_end"
  /\ \/ /\ ~RxPending
        /\ Quietly /\ UNCHANGED <<dev, hw, lost, shut>>
     \/ /\ RxPending
        /\ Wake("rx")
        /\ dev' = Received(dev, Head(hw.rx_fifo))
        /\ lost' = RxLoses
        /\ hw' = [hw EXCEPT !.rx_fifo = <<>>, !.rx_on = ~Full(dev')]
        /\ shut' = (shut \/ (Full(dev') /\ pc["rx"] = "next" /\ val["rx"] = 0))
  /\ UNCHANGED <<run, count_now, pc, ioVars, out, val>>

IsrSamEnd ==
  /\ isr = "sam9_end"
  /\ HandlerEnd(status)
  /\ Quietly /\ UNCHANGED <<count_now, pc, ioVars, out, devVars>>

IsrSam == IsrTxSam \/ IsrRxSam \/ IsrSamEnd

-----------------------------------------------------------------------------
(* The line.  A character that comes before the last one was read replaces *)
(* it.                                                                     *)
LineInSam(x) == /\ hw' = [hw EXCEPT !.rx_fifo = <<x>>]
                /\ lost' = IF hw.rx_fifo = <<>> THEN lost ELSE lost \cup {"line"}
                /\ UNCHANGED <<dev, val, shut>>

LineOutSam == /\ hw.tx_fifo # <<>>
              /\ out' = Append(out, Head(hw.tx_fifo))
              /\ hw' = [hw EXCEPT !.tx_fifo = <<>>]
              /\ UNCHANGED <<dev, val, shut, lost>>
=============================================================================
