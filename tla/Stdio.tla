------------------------------- MODULE Stdio --------------------------------
(***************************************************************************)
(* Standard I/O (modules/stdio/stdio_init.c): getchar(), putchar(), the    *)
(* task that writes what putchar() buffers, and rx_func(), to which the    *)
(* device's driver hands what it receives.  stdio_link says what stands on *)
(* either side (kernel/link.c).                                            *)
(***************************************************************************)
EXTENDS Sched

CONSTANTS
  IoSize,     \* BUF_SIZE
  Chars,      \* the characters that are put and received
  NewLines,   \* those of them that are '\n'
  CR          \* '\r'

VARIABLES
  io,         \* rx_buf, rx_p, rx_c, tx_buf, tx_p, tx_c, tx_init
  c,          \* the variable c of stdout_task()
  ch,         \* the argument of each task's putchar()
  link,       \* the name of the board, and so of the links made
  out,        \* history: what has left the device, or is on the screen
  got,        \* history: what getchar() has returned
  dropped     \* history: a character was refused, or overwrote another one

ioVars == <<io, c, ch, got, dropped>>

(* os_link(top, rx, tx): what is NULL stays unlinked.                      *)
None == "none"
OsLink(links, top, rx, tx) ==
  [l \in DOMAIN links |->
     [links[l] EXCEPT
        !.tx_func = IF l = rx THEN links[top].rx_func
                    ELSE IF l = top /\ tx # None THEN links[tx].rx_func ELSE @]]

LinkT(f) == [rx_func |-> f, tx_func |-> None]
Made == [l \in {"stdio", "kbd", "b8000", "ns16550", "uart"} |->
           LinkT(IF l = "kbd" THEN None ELSE l)]

(* What the boards' bsp_post_init() link.                                  *)
Linked == [pc   |-> OsLink(Made, "stdio", "kbd", "b8000"),
           com  |-> OsLink(Made, "stdio", "ns16550", "ns16550"),
           sam9 |-> OsLink(Made, "stdio", "uart", "uart"),
           rpi  |-> OsLink(Made, "stdio", "uart", "uart")]
TxFunc(l) == Linked[link][l].tx_func

(* stdio_init(), but for the semaphores and the tasks.                     *)
StdioInit ==
  /\ io = [rx_buf |-> [i \in 1..IoSize |-> CR], rx_p |-> 0, rx_c |-> 0,
           tx_buf |-> [i \in 1..IoSize |-> CR], tx_p |-> 0, tx_c |-> 0,
           tx_init |-> FALSE]
  /\ c = CR /\ out = <<>> /\ got = <<>> /\ dropped = FALSE

Ring(buf, from, to) == [i \in 1..(to - from) |-> buf[((from + i - 1) % Len(buf)) + 1]]
Put(buf, p, x) == [buf EXCEPT ![(p % Len(buf)) + 1] = x]
At(buf, p) == buf[(p % Len(buf)) + 1]

-----------------------------------------------------------------------------
(* putchar(c): a place in the buffer, the buffer, and what was put told.   *)
PutcharEnter(t, x) ==
  /\ Step(t, "user", IF io.tx_init THEN "place" ELSE "user")
  /\ IF io.tx_init
     THEN ch' = [ch EXCEPT ![t] = x] /\ UNCHANGED out
     ELSE \* dbg_putchar() writes to the screen or the debug port at once
          out' = out \o (IF x \in NewLines THEN <<x, CR>> ELSE <<x>>) /\ UNCHANGED ch
  /\ UNCHANGED <<io, c, got, dropped>> /\ UNCHANGED schedVars

PutcharPlace(t) ==
  /\ Step(t, "place", "lock") /\ Get("tx_buf") /\ UNCHANGED <<ioVars, out>>

PutcharLock_Bug(t) ==
  /\ Step(t, "lock", "put") /\ UNCHANGED schedVars /\ UNCHANGED <<ioVars, out>>
PutcharLock(t) ==
  /\ Step(t, "lock", "put") /\ Get("putchar") /\ UNCHANGED <<ioVars, out>>

(* The byte and the index are two stores: another task may come between.   *)
PutcharStore(t) ==
  /\ Step(t, "put", "next")
  /\ io' = [io EXCEPT !.tx_buf = Put(@, io.tx_p, ch[t])]
  /\ UNCHANGED <<c, ch, got, dropped, out>> /\ UNCHANGED schedVars
PutcharNext(t) ==
  /\ Step(t, "next", "unlock")
  /\ io' = [io EXCEPT !.tx_p = @ + 1]
  /\ UNCHANGED <<c, ch, got, dropped, out>> /\ UNCHANGED schedVars

PutcharUnlock(t) ==
  /\ Step(t, "unlock", "tell") /\ Give("putchar") /\ UNCHANGED <<ioVars, out>>
PutcharTell(t) ==
  /\ Step(t, "tell", "user") /\ Give("tx_task") /\ UNCHANGED <<ioVars, out>>

Putchar(t) == \/ PutcharPlace(t) \/ PutcharLock(t) \/ PutcharStore(t)
              \/ PutcharNext(t) \/ PutcharUnlock(t) \/ PutcharTell(t)

-----------------------------------------------------------------------------
GetcharEnter_Bug(t) ==
  /\ Step(t, "user", "char") /\ UNCHANGED <<schedVars, ioVars, out>>
GetcharEnter(t) ==
  /\ Step(t, "user", "char") /\ Get("rx") /\ UNCHANGED <<ioVars, out>>
Getchar(t) ==
  /\ Step(t, "char", "user")
  /\ got' = Append(got, At(io.rx_buf, io.rx_c))
  /\ io' = [io EXCEPT !.rx_c = @ + 1]
  /\ UNCHANGED <<c, ch, dropped, out>> /\ UNCHANGED schedVars

(* rx_func(), called by the driver's task t: it tells that there is a      *)
(* character before it stores what data, by then, points to.  A reader     *)
(* that was given the semaphore and has not run yet leaves no room for it. *)
RxFunc(t, after) ==
  /\ Step(t, "rx_func", IF Gives("rx") THEN "store" ELSE after)
  /\ Give("rx")
  /\ dropped' = (dropped \/ ~Gives("rx"))
  /\ UNCHANGED <<io, c, ch, got, out>>
RxStore(t, after, data) ==
  /\ Step(t, "store", after)
  /\ io' = [io EXCEPT !.rx_buf = Put(@, io.rx_p, data), !.rx_p = @ + 1]
  /\ dropped' = (dropped \/ io.rx_p - io.rx_c >= IoSize)
  /\ UNCHANGED <<c, ch, got, out>> /\ UNCHANGED schedVars

-----------------------------------------------------------------------------
(* stdout_task().                                                          *)
StdoutInit == /\ Step("stdout", "init", "wait")
              /\ io' = [io EXCEPT !.tx_init = TRUE]
              /\ UNCHANGED <<c, ch, got, dropped, out>> /\ UNCHANGED schedVars
StdoutWait == /\ Step("stdout", "wait", "loop") /\ Get("tx_task")
              /\ UNCHANGED <<ioVars, out>>
StdoutEmpty == /\ io.tx_p = io.tx_c /\ Step("stdout", "loop", "wait")
               /\ UNCHANGED <<ioVars, out>> /\ UNCHANGED schedVars
StdoutTake ==
  /\ io.tx_p # io.tx_c
  /\ Step("stdout", "loop", "tx_func")
  /\ c' = At(io.tx_buf, io.tx_c)
  /\ io' = [io EXCEPT !.tx_c = @ + 1]
  /\ UNCHANGED <<ch, got, dropped, out>> /\ UNCHANGED schedVars

(* The link's tx_func() has returned: a newline is followed by a carriage  *)
(* return, and then the character's place is free.                         *)
StdoutNext_Bug ==
  /\ Step("stdout", "sent", "loop") /\ Give("tx_buf") /\ UNCHANGED c
  /\ UNCHANGED <<io, ch, got, dropped, out>>
StdoutNextTwice_Bug ==
  /\ \/ /\ c \in NewLines /\ Step("stdout", "sent", "tx_func")
        /\ c' = CR
     \/ /\ c \notin NewLines /\ Step("stdout", "sent", "loop")
        /\ UNCHANGED c
  /\ Give("tx_buf")
  /\ UNCHANGED <<io, ch, got, dropped, out>>
StdoutNext ==
  /\ \/ /\ c \in NewLines /\ Step("stdout", "sent", "tx_func")
        /\ c' = CR /\ UNCHANGED schedVars
     \/ /\ c \notin NewLines /\ Step("stdout", "sent", "loop")
        /\ Give("tx_buf") /\ UNCHANGED c
  /\ UNCHANGED <<io, ch, got, dropped, out>>

Stdout == StdoutInit \/ StdoutWait \/ StdoutEmpty \/ StdoutTake \/ StdoutNext
=============================================================================
