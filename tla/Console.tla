------------------------------ MODULE Console -------------------------------
(***************************************************************************)
(* The console of a board: two tasks that write and one of which reads,    *)
(* the standard I/O, the driver that is linked to it, the device and the   *)
(* line.  "com" is the PC with its serial port linked, "pc" the PC with    *)
(* keyboard and screen (and the serial port linked to nothing).            *)
(***************************************************************************)
EXTENDS Keyboard

CONSTANTS
  Boards,     \* which of "pc", "com", "sam9" and "rpi" are looked at
  Loads       \* bounds, as alternatives for each board: how many characters each
              \* task puts, how many come in, how often the clock lets "log" go on

(* The tasks, the priorities and the semaphores are those that the drivers *)
(* and stdio_init() make; a carriage return is not typed or put.           *)
ASSUME ConsoleAssumption ==
  /\ Boards \subseteq {"pc", "com", "sam9", "rpi"}
  /\ TaskQ \in Seq({"kbd", "tx", "rx", "stdout", "log", "cli", "idle"})
  /\ Tasks = {"kbd", "tx", "rx", "stdout", "log", "cli", "idle"}
  /\ \A d \in {"kbd", "tx", "rx"} : Priority[d] < Priority["stdout"]
  /\ Priority["stdout"] < Priority["cli"]
  /\ IoSize \in Nat \ {0} /\ DevSize \in Nat \ {0} /\ Fifo \in Nat \ {0}
  /\ CountMax \in [{"rx", "tx", "tx_pi", "tx_buf", "tx_task", "putchar"} -> Nat \ {0}]
  /\ CountMax["rx"] = IoSize /\ CountMax["tx_buf"] = IoSize /\ CountMax["tx"] = DevSize
  /\ CountMax["putchar"] = 1
  /\ NewLines \subseteq Chars /\ CR \notin Chars
  /\ \A b \in Boards : \A l \in Loads[b] :
       /\ l \in [cli : Nat, log : Nat, come : Nat, ticks : Nat]
       /\ 1..(l.cli + l.log) \subseteq Chars /\ 1..l.come \subseteq Chars

VARIABLE load   \* what is left of the bounds, and how many characters came
vars == <<schedVars, pc, ioVars, link, out, devVars, kbdVars, load>>

Writers == {"log", "cli"}

Init ==
  /\ link \in Boards
  /\ pc = [t \in Tasks |->
             CASE t = "rx" -> IF link = "sam9" THEN "sleep" ELSE "start"
               [] t = "stdout" -> "init"
               [] t \in Writers -> "user"
               [] OTHER -> "sleep"]
  /\ status = [t \in Tasks |-> IF t = "kbd" /\ link # "pc" THEN "none" ELSE "READY"]
  /\ run = First(status)
  /\ count_now = [s \in DOMAIN CountMax |-> IF s \in {"rx", "tx_task"} THEN 0
                                            ELSE CountMax[s]]
  /\ isr = "off" /\ missed = {}
  /\ StdioInit /\ ch = [t \in Writers |-> CR]
  /\ CASE link = "sam9" -> SamInit [] link = "rpi" -> PiInit [] OTHER -> Ns16550Init
  /\ KbdInit
  /\ load \in {[put |-> 0, came |-> 0, cli |-> l.cli, log |-> l.log, come |-> l.come,
                 ticks |-> l.ticks] : l \in Loads[link]}

-----------------------------------------------------------------------------
(* The steps of the tasks and of the handler, board by board.              *)
Drivers ==
  /\ \/ link \in {"pc", "com"} /\ RxTask16550
     \/ link \in {"pc", "com"} /\ TxTask16550
     \/ link = "com"  /\ TxFunc16550
     \/ link = "sam9" /\ (RxTaskSam \/ TxFuncSam \/ TxTaskSam)
     \/ link = "rpi"  /\ (RxTaskPi \/ TxFuncPi \/ TxTaskPi)
  /\ UNCHANGED kbdVars

Pc == link = "pc" /\ (KbdTask \/ TxFuncScreen)

Modules == \/ Stdout \/ \E t \in Writers : Putchar(t)
           \/ Getchar("cli")

Goes == \/ (Drivers \/ Pc) /\ UNCHANGED <<link, load>>
        \/ Modules /\ UNCHANGED <<link, devVars, kbdVars, load>>

Handles == \/ /\ Isr16550 \/ IsrSam \/ IsrRpi
              /\ UNCHANGED <<link, kbdVars, load>>
           \/ IsrKbdEnd /\ UNCHANGED <<link, load>>

(* An interrupt is taken when one is pending and enabled.                  *)
Interrupt ==
  /\ isr = "off"
  /\ \/ link \in {"pc", "com"} /\ (LinePending \/ RxPending \/ TxPending) /\ isr' = "16550"
     \/ link = "sam9" /\ (RxPending \/ SamTxPending) /\ isr' = "sam9"
     \/ link = "rpi"  /\ (PiRxPending \/ PiTxPending) /\ isr' = "rpi"
  /\ UNCHANGED <<run, status, count_now, missed, pc, ioVars, link, out, devVars, kbdVars,
                 load>>

(* The clock's handler ends the delay of the task "log".                   *)
Clock ==
  /\ isr = "off" /\ status["log"] = "SLEEPING" /\ load.ticks > 0
  /\ load' = [load EXCEPT !.ticks = @ - 1]
  /\ status' = [status EXCEPT !["log"] = "READY"]
  /\ HandlerEnd(status')
  /\ UNCHANGED <<count_now, missed, pc, ioVars, link, out, devVars, kbdVars>>

(* What the tasks call: "cli" reads and writes, "log" writes and delays.   *)
Calls ==
  /\ \/ \E t \in Writers :
           /\ load[t] > 0 /\ io.tx_init
           /\ PutcharEnter(t, load.put + 1)
           /\ load' = [load EXCEPT ![t] = @ - 1, !.put = @ + 1]
     \/ GetcharEnter("cli") /\ UNCHANGED load
  /\ UNCHANGED <<link, devVars, kbdVars>>

Delay == /\ Step("log", "user", "user") /\ Sleep
         /\ UNCHANGED <<link, ioVars, out, devVars, kbdVars, load>>

Comes == load.come > 0 /\ load' = [load EXCEPT !.come = @ - 1, !.came = @ + 1]

(* The n-th character comes in, or on the Raspberry Pi one with an error.  *)
LineIn ==
  /\ Comes
  /\ \/ link \in {"pc", "com"} /\ LineIn16550(load'.came)
     \/ link = "sam9" /\ LineInSam(load'.came)
     \/ link = "rpi"  /\ \E x \in {load'.came, CR} : LineInPi(x)
  /\ UNCHANGED <<schedVars, pc, ioVars, link, out, kbdVars>>

KeyIn ==
  /\ link = "pc" /\ Comes
  /\ IsrKbd(load'.came)
  /\ UNCHANGED link

LineOut ==
  /\ \/ link = "com"  /\ LineOut16550
     \/ link = "sam9" /\ LineOutSam
     \/ link = "rpi"  /\ (ShiftPi \/ LineOutPi)
  /\ UNCHANGED <<schedVars, pc, ioVars, link, kbdVars, load>>

Next == Goes \/ Handles \/ Interrupt \/ Clock \/ Calls \/ Delay \/ LineIn \/ KeyIn \/ LineOut

(* Tasks and handlers run on, the line sends, and interrupts are taken.    *)
(* "log" delays sooner or later.  Nothing else is assumed of what the tasks *)
(* call, and nothing of what comes in.                                     *)
Spec == /\ Init /\ [][Next]_vars
        /\ WF_vars(Goes) /\ WF_vars(Handles) /\ SF_vars(Interrupt) /\ WF_vars(LineOut)
        /\ WF_vars(Delay)

-----------------------------------------------------------------------------
(* The running task is ready, counts stay within their bounds, and no      *)
(* index of a ring gets ahead of the one it follows (sem_give(), the rings *)
(* of stdio_init.c and the UARTs).                                         *)
TypeOK ==
  /\ link \in Boards /\ run \in Tasks /\ status[run] = "READY"
  /\ \A s \in DOMAIN CountMax : count_now[s] \in 0..CountMax[s]
  /\ \A t \in Tasks : status[t] \in {"READY", "SLEEPING", "none"} \cup DOMAIN CountMax
  /\ Len(hw.rx_fifo) <= Fifo /\ Len(hw.tx_fifo) <= Fifo
  /\ io.rx_c <= io.rx_p /\ io.tx_c <= io.tx_p
  /\ dev.rx_c <= dev.rx_p /\ dev.tx_c <= dev.tx_p
  /\ missed \subseteq Tasks /\ lost \subseteq {"rx", "tx", "line", "key"}
  /\ shut \in BOOLEAN /\ dropped \in BOOLEAN /\ fresh \in BOOLEAN

(* Every place of a ring is free, filled, or in the hands of one task that *)
(* was given it: none is lost, and none is used twice.  The SAM9's driver  *)
(* starts with one place too many.                                         *)
IoPlaces ==
  count_now["tx_buf"] + (io.tx_p - io.tx_c)
    + (IF pc["stdout"] \in {"init", "wait", "loop"} THEN 0 ELSE 1)
    + Cardinality({t \in Writers : pc[t] \in {"put", "next"}
                                   \/ (pc[t] = "lock" /\ status[t] # "tx_buf")}) = IoSize

DevPlaces ==
  link \in {"com", "sam9"} =>
    LET used == count_now["tx"] + (dev.tx_p - dev.tx_t)
                + (IF pc["stdout"] = "queue" /\ status["stdout"] # "tx" THEN 1 ELSE 0)
    IN  used = DevSize \/ (link = "sam9" /\ used = DevSize - 1)

Places == IoPlaces /\ DevPlaces

(* The PC's serial driver overwrites no character that has not been handed *)
(* on, in either direction: its receiver is off while the ring is full,    *)
(* unless rx_task() missed a wake-up, and rx_func() then wrote back the    *)
(* receiver's bit as it had read it.  The others do: the SAM9's and the    *)
(* Raspberry Pi's count the places of their transmit rings wrong, the Pi's *)
(* receive ring has no check, the SAM9's line may overrun, and the         *)
(* keyboard keeps one scan code.                                           *)
NothingOverwritten ==
  /\ "tx" \in lost => link \in {"sam9", "rpi"}
  /\ "rx" \in lost => link = "rpi" \/ (link = "com" /\ "rx" \in missed)
  /\ "key" \in lost => link = "pc"
  /\ "line" \in lost => link = "sam9"

(* The 16550's receiver is shut down while the ring is full, as            *)
(* ns16550_isr()'s comment says that it needs to be.                       *)
ShutWhenFull == link = "com" /\ dev.rx_p - dev.rx_c = DevSize => ~hw.rx_on

(* A receiver that was shut down as the ring was full is started again, by *)
(* the next comparison, unless it was shut down between a comparison and   *)
(* the step that follows it.                                               *)
ReceiverBack ==
  hw.rx_on \/ shut \/ link = "rpi" \/ pc["rx"] \in {"start", "enable", "write"}
           \/ (dev.rx_p # dev.rx_c /\ Full(dev))

-----------------------------------------------------------------------------
(* Both directions implement the abstract channel.                         *)
Expand(s) == LET f[i \in 0..Len(s)] ==
                   IF i = 0 THEN <<>>
                   ELSE f[i - 1] \o (IF s[i] \in NewLines THEN <<s[i], CR>> ELSE <<s[i]>>)
             IN  f[Len(s)]

InHand == IF pc["stdout"] \in {"tx_func", "queue"} THEN Expand(<<c>>)
          ELSE IF pc["stdout"] \in {"check", "enable", "write", "wait_tx", "sent"} /\ c \in NewLines
               THEN <<CR>> ELSE <<>>

Outgoing == hw.shift \o hw.tx_fifo \o Ring(dev.tx_buf, dev.tx_c, dev.tx_p)
            \o InHand \o Expand(Ring(io.tx_buf, io.tx_c, io.tx_p))

Tx == INSTANCE Channel WITH queue <- Outgoing, broken <- "tx" \in lost

Incoming ==
  Ring(io.rx_buf, io.rx_c, io.rx_p)
  \o (IF link = "pc" THEN IF fresh THEN <<key>> ELSE <<>>
      ELSE Ring(dev.rx_buf, dev.rx_c + (CASE pc["rx"] \in {"compare", "next"} -> 1
                                          [] link = "rpi" /\ pc["rx"] \in {"rx_func", "store"} -> -1
                                          [] OTHER -> 0), dev.rx_p)
           \o (IF hw.rx_fifo # <<>> /\ Head(hw.rx_fifo) \notin Chars THEN <<>>
               ELSE hw.rx_fifo))

Rx == INSTANCE Channel WITH queue <- Incoming, out <- got, NewLines <- {},
                            broken <- dropped \/ lost \cap {"rx", "line", "key"} # {}

(* What is put is sent, in order and once, with newlines completed, ...    *)
TxChannel == Tx!Spec
(* ... and what comes in is read.                                          *)
RxChannel == Rx!Spec

(* What is put goes out in the end, unless the transmit task's wake-up was *)
(* missed, ...                                                             *)
TxFlows == Outgoing # <<>> ~> Outgoing = <<>> \/ "tx" \in missed \/ "tx" \in lost

(* ... and what a handler has taken in is handed to the standard I/O,      *)
(* unless the receiving task's wake-up was missed, or the standard I/O had *)
(* no room for a key.                                                      *)
Waits == IF link = "pc" THEN fresh ELSE dev.rx_c # dev.rx_p
RxFlows == Waits ~> ~Waits \/ missed \cap {"rx", "kbd"} # {} \/ (link = "pc" /\ dropped)
=============================================================================
