----------------------------- MODULE MCConsole ------------------------------
(***************************************************************************)
(* A small instance of the console.                                        *)
(***************************************************************************)
EXTENDS Console

Queue == <<"kbd", "tx", "rx", "stdout", "log", "cli", "idle">>
Prio  == [t \in {"kbd", "tx", "rx", "stdout", "log", "cli", "idle"} |->
            CASE t \in {"kbd", "tx", "rx"} -> 1
              [] t = "stdout" -> 2
              [] t = "log" -> 5
              [] t = "cli" -> 10
              [] OTHER -> 1000]
Counts == [s \in {"rx", "tx", "tx_pi", "tx_buf", "tx_task", "putchar"} |->
             IF s \in {"putchar", "tx_pi"} THEN 1 ELSE 2]
Load(cli, log, come, ticks) == [cli |-> cli, log |-> log, come |-> come, ticks |-> ticks]
OutOrIn == [b \in {"pc", "com", "sam9", "rpi"} |->
              CASE b = "pc"  -> {Load(1, 0, 3, 0), Load(2, 1, 0, 1)}
                [] b = "com" -> {Load(1, 0, 4, 0), Load(3, 0, 0, 0)}
                [] b = "rpi" -> {Load(0, 0, 3, 0), Load(1, 0, 1, 0), Load(3, 0, 0, 0)}
                [] OTHER     -> {Load(1, 0, 3, 0), Load(3, 0, 0, 0)}]
Four == 1..4
=============================================================================
