-------------------------------- MODULE Cli ---------------------------------
(***************************************************************************)
(* The command line (modules/cli/cli_init.c): cli_task() edits a line, and *)
(* parse_line() cuts it into words, finds the first one among the symbols  *)
(* and calls the function or tells the variable's value.  Texts that are   *)
(* printed around the values are shortened.                                *)
(***************************************************************************)
EXTENDS Keys

CONSTANTS
  BUF_SIZE, MAX_PARAMS,
  Args,        \* the size of args[]
  Funcs,       \* the names in sym_funcs[]
  Vars,        \* sym_vars[]: the value of each name
  Stale        \* what str_to_num() may make of a pointer that was never set
ASSUME CliAssumption == BUF_SIZE \in Nat \ {0} /\ MAX_PARAMS < Args

VARIABLES
  buf, loc,    \* cli_task()'s line, and the place of the next character
  rx,          \* the characters that wait for getchar(), each with what was meant
  tx,          \* what putchar() was given and the screen does not show yet
  screen,
  typed,       \* history: the line as it was meant and edited
  spoilt,      \* history: what this line met that the code does not handle
  last         \* history: the last line that was entered, and what came of it

cliVars == <<buf, loc, rx, tx, screen, typed, spoilt, last>>

Prompt == <<10, 36, Space>>

(* The words of the line: where they start, and the line cut behind them.  *)
RECURSIVE CutFrom(_, _, _)
CutFrom(line, head, args) ==
  LET word == SkipSpaces(line, head)
      more == Append(args, word.next)
      cut  == [line EXCEPT ![word.end] = 0]
  IN  IF line[word.end] = 0 \/ Len(more) = Args THEN [line |-> cut, args |-> more]
      ELSE CutFrom(cut, word.end + 1, more)

(* arg[]: a parameter that was not typed is an args[] that was never set.  *)
Params_Bug(words) ==
  {a \in [1..MAX_PARAMS -> Stale \cup {StrToNum(words[k]) : k \in DOMAIN words}] :
     \A k \in 1..MAX_PARAMS : k \in DOMAIN words => a[k] = StrToNum(words[k])}
Params(words) ==
  {a \in [1..MAX_PARAMS -> Stale \cup {StrToNum(words[k]) : k \in DOMAIN words}] :
     \A k \in 1..MAX_PARAMS : k + 1 \in DOMAIN words => a[k] = StrToNum(words[k + 1])}

(* "\nReturn = %d (0x%x)\n" and "\nValue = ...".                           *)
Report(v) == <<10, 61>> \o Itoa(v, 10) \o <<40>> \o Itoa(v, 16) \o <<41, 10>>

(* The outcomes of parse_line(): what it found, with which parameters, and *)
(* what it printed.  The functions called return their first parameter.    *)
ParseLine(line) ==
  LET cut   == CutFrom(line, 0, <<>>)
      words == [k \in DOMAIN cut.args |-> String(cut.line, cut.args[k])]
      name  == words[1]
      Is(n) == Strcmp(n, name) = 0
  IN  IF line[0] = 0 THEN {[found |-> "nothing", says |-> <<>>]}
      ELSE IF \E n \in Funcs : Is(n)
      THEN {[found |-> "func", name |-> name, arg |-> a, says |-> Report(a[1])] :
              a \in Params(words)}
      ELSE IF \E n \in DOMAIN Vars : Is(n)
      THEN {[found |-> "var", name |-> name, says |-> Report(Vars[name])]}
      ELSE {[found |-> "BAD", says |-> <<10, 63>>]}

-----------------------------------------------------------------------------
(* kbd_task(): a key that is a character is handed to getchar().           *)
Press(key) ==
  /\ rx = <<>>
  /\ CASE key = CapsLock -> CapsKey
       [] key \in {LeftShift, Release(LeftShift)} -> ShiftKey(key)
       [] OTHER -> UNCHANGED <<shift_key, cap_lock, cap_count>>
  /\ rx' = IF key > 127 \/ key \in {CapsLock, LeftShift} THEN rx
           ELSE Append(rx, [c |-> Ascii(key), meant |-> Meant(key), told |-> Follows])
  /\ presses' = IF key = CapsLock THEN (presses + 1) % 4 ELSE presses
  /\ held' = (held \cup ({key} \cap Shifts)) \ {k \in Shifts : Release(k) = key}
  /\ UNCHANGED <<buf, loc, tx, screen, typed, spoilt, last>>

Ends == {10, 13}
Deletes == {8, 127}

(* getchar() returns a character of the line, which is echoed and kept.    *)
(* After the last place comes the first one again.                         *)
Insert(c, meant, told) ==
  /\ c \notin Ends \cup Deletes
  /\ tx' = Append(tx, c)
  /\ buf' = [buf EXCEPT ![loc] = c]
  /\ loc' = (loc + 1) % BUF_SIZE
  /\ typed' = IF meant = 0 THEN typed ELSE Append(typed, meant)
  /\ spoilt' = spoilt \cup (IF loc + 1 = BUF_SIZE THEN {"wrapped"} ELSE {})
                      \cup (IF meant = 0 THEN {"no character"} ELSE {})
                      \cup (IF told THEN {} ELSE {"letter"})
  /\ UNCHANGED <<screen, last>>

(* Backspace, which is echoed too, even when there is nothing to delete.   *)
Delete_Bug(c) ==
  /\ c \in Deletes
  /\ tx' = Append(tx, c)
  /\ loc' = loc
  /\ buf' = [buf EXCEPT ![loc'] = 0]
  /\ typed' = IF typed = <<>> THEN <<>> ELSE Front(typed)
  /\ spoilt' = IF screen.xpos = 0 /\ screen.ypos = 0 THEN spoilt \cup {"astray"} ELSE spoilt
  /\ UNCHANGED <<screen, last>>
Delete(c) ==
  /\ c \in Deletes
  /\ tx' = Append(tx, c)
  /\ loc' = IF loc # 0 THEN loc - 1 ELSE loc
  /\ buf' = [buf EXCEPT ![loc'] = 0]
  /\ typed' = IF typed = <<>> THEN <<>> ELSE Front(typed)
  /\ spoilt' = IF screen.xpos = 0 /\ screen.ypos = 0 THEN spoilt \cup {"astray"} ELSE spoilt
  /\ UNCHANGED <<screen, last>>

(* Enter: the line is ended after its last character, and parsed.  (The    *)
(* words stay cut in buf, and a hexadecimal number's digits changed to     *)
(* their values: every place is written again before it is read.)          *)
Enter(c) ==
  /\ c \in Ends
  /\ \E did \in ParseLine([buf EXCEPT ![loc] = 0]) :
       /\ last' = [typed |-> typed, spoilt |-> spoilt, did |-> did]
       /\ tx' = tx \o did.says \o Prompt
  /\ buf' = [buf EXCEPT ![loc] = 0]
  /\ loc' = 0 /\ typed' = <<>> /\ spoilt' = {}
  /\ UNCHANGED screen

CliTask ==
  /\ tx = <<>>
  /\ rx # <<>> /\ rx' = Tail(rx)
  /\ LET c == Head(rx).c
     IN  Insert(c, Head(rx).meant, Head(rx).told) \/ Delete(c) \/ Enter(c)
  /\ UNCHANGED keyVars

(* stdout_task(), which is more urgent than cli_task(), shows what was put *)
(* before cli_task() gets its next character.                              *)
Show == /\ tx # <<>> /\ tx' = <<>>
        /\ screen' = RxFunc(screen, tx)
        /\ UNCHANGED <<buf, loc, rx, typed, spoilt, last, keyVars>>

CliInit ==
  /\ shift_key = FALSE /\ cap_lock = FALSE /\ cap_count = 0
  /\ held = {} /\ presses = 0
  /\ buf = [i \in 0..(BUF_SIZE - 1) |-> 49]  \* whatever was on the stack
  /\ loc = 0 /\ rx = <<>> /\ typed = <<>> /\ spoilt = {}
  /\ tx = Tail(Prompt) /\ screen = Cls
  /\ last = [typed |-> <<>>, spoilt |-> {}, did |-> [found |-> "nothing", says |-> <<>>]]
=============================================================================
