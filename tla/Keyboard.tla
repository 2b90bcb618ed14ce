------------------------------ MODULE Keyboard ------------------------------
(***************************************************************************)
(* The keyboard driver (devices/keyboard.c), and the screen of the PC,     *)
(* which rx_func() of boards/pc/dbg_putchar.c writes to directly.  There   *)
(* is room for one key: what the keys mean is in Libs.                     *)
(***************************************************************************)
EXTENDS PiUart

VARIABLES
  key,      \* the last key
  fresh     \* history: it has not been handed on

kbdVars == <<key, fresh>>

KbdInit == key = CR /\ fresh = FALSE

KbdTest == /\ Own("kbd", "test", IF TxFunc("kbd") # None THEN "rx_func" ELSE "sleep")
           /\ UNCHANGED <<devVars, kbdVars>>
KbdHand == /\ \/ RxFunc("kbd", "sleep") /\ UNCHANGED fresh
              \/ RxStore("kbd", "sleep", key) /\ fresh' = FALSE
           /\ UNCHANGED <<devVars, key>>
KbdTask == \/ TaskSleep("kbd") /\ UNCHANGED kbdVars
           \/ KbdTest \/ KbdHand

(* kbd_isr(), for a key that stands for a character.                       *)
IsrKbd_Bug(x) ==
  /\ isr = "off" /\ isr' = "kbd"
  /\ key' = x /\ fresh' = TRUE
  /\ lost' = IF fresh THEN lost \cup {"key"} ELSE lost
  /\ Quietly
  /\ UNCHANGED <<run, count_now, pc, ioVars, out, dev, hw, val, shut>>
IsrKbd(x) ==
  /\ isr = "off" /\ isr' = "kbd"
  /\ key' = x /\ fresh' = TRUE
  /\ lost' = IF fresh THEN lost \cup {"key"} ELSE lost
  /\ Wake("kbd")
  /\ UNCHANGED <<run, count_now, pc, ioVars, out, dev, hw, val, shut>>

IsrKbdEnd ==
  /\ isr = "kbd"
  /\ HandlerEnd(status)
  /\ Quietly /\ UNCHANGED <<count_now, pc, ioVars, out, devVars, kbdVars>>

(* The screen shows a character when it is written.                        *)
TxFuncScreen == /\ Step("stdout", "tx_func", "sent")
                /\ out' = Append(out, c)
                /\ UNCHANGED <<schedVars, ioVars, devVars, kbdVars>>
=============================================================================
