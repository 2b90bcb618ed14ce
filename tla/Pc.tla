--------------------------------- MODULE Pc ---------------------------------
(***************************************************************************)
(* What is specific to the PC: keys typed at the command line and shown on *)
(* the screen, and the PCI configuration space.  The two share no state,   *)
(* so part says which one moves.  Characters pass in order between the     *)
(* keyboard, cli_task() and the screen: Console looks at how.              *)
(***************************************************************************)
EXTENDS Pci

CONSTANTS
  Loads,      \* bounds, as alternatives: the keys that are pressed, and how many
  MaxCalls    \* bound: the calls each task makes on the PCI functions

VARIABLES
  part,       \* "line" or "pci"
  keys,       \* the keys of this load
  left        \* what is left of the bounds

pcVars == <<part, keys, left>>
vars == <<keyVars, cliVars, pciVars, pcVars>>

Init ==
  /\ CliInit
  /\ \/ /\ part = "line" /\ \E l \in Loads : keys = l.keys /\ left = l.most
        /\ port = [fn |-> <<0, 0, 0>>, addr |-> 0] /\ regs = <<>> /\ wanted = <<>>
        /\ call = [t \in Users |-> Idle] /\ at = [t \in Users |-> "done"]
        /\ data = [t \in Users |-> Ones]
        /\ answer = [was |-> <<>>, right |-> <<>>] /\ mixed = FALSE
     \/ /\ part = "pci" /\ keys = {} /\ left = [t \in Users |-> MaxCalls]
        /\ PciInit

(* A key is pressed; a shift key that is held is let go.                   *)
Type(key) ==
  /\ part = "line" /\ left > 0
  /\ left' = left - 1
  /\ \A k \in Shifts : key = Release(k) => k \in held
  /\ key \notin held
  /\ Press(key)
  /\ UNCHANGED <<pciVars, part, keys>>

Line == /\ part = "line"
        /\ CliTask \/ Show
        /\ UNCHANGED <<pciVars, pcVars>>

Calls(t, x) == /\ part = "pci" /\ left[t] > 0
               /\ PciCall(t, x)
               /\ left' = [left EXCEPT ![t] = @ - 1]
               /\ UNCHANGED <<keyVars, cliVars, part, keys>>

Access(t) == /\ part = "pci" /\ PciTask(t)
             /\ UNCHANGED <<keyVars, cliVars, pcVars>>

Next == \/ \E key \in keys : Type(key)
        \/ Line
        \/ \E t \in Users : Access(t) \/ \E x \in Callers : Calls(t, x)

Spec == Init /\ [][Next]_vars

-----------------------------------------------------------------------------
(* The words of a line, as a reader sees them: the longest runs of         *)
(* characters that are not spaces.                                         *)
Words(s) ==
  LET starts == {i \in DOMAIN s : s[i] # Space /\ (i = 1 \/ s[i - 1] = Space)}
      end(i) == Least({j \in i..(Len(s) + 1) : j > Len(s) \/ s[j] = Space} \cup {Len(s) + 1})
      sorted == SetToSortSeq(starts, LAMBDA a, b : a < b)
  IN  [k \in DOMAIN sorted |-> SubSeq(s, sorted[k], end(sorted[k]) - 1)]

RECURSIVE NumeralOf(_, _)
NumeralOf(s, base) == IF s = <<>> THEN 0
                      ELSE NumeralOf(Front(s), base) * base + HexDigit(Last(s))
Digits(s, base) == s # <<>> /\ \A k \in DOMAIN s : HexDigit(s[k]) \in 0..(base - 1)

(* A word is this number: digits, with a sign or not, or "0x" and digits.  *)
IsNumber(w, v) ==
  \/ /\ Digits(w, 10) /\ v = NumeralOf(w, 10) % Word
  \/ /\ w # <<>> /\ w[1] = 45 /\ Digits(Tail(w), 10) /\ (v + NumeralOf(Tail(w), 10)) % Word = 0
  \/ /\ Len(w) > 2 /\ w[1] = 48 /\ w[2] \in {120, 88}
     /\ Digits(SubSeq(w, 3, Len(w)), 16) /\ v = NumeralOf(SubSeq(w, 3, Len(w)), 16) % Word
Looks(w) == \E v \in 0..(Word - 1) : IsNumber(w, v)

(* What is told of a value: its decimal and hexadecimal digits.            *)
Says(text, v) ==
  LET open  == CHOOSE i \in DOMAIN text : text[i] = 40
      close == CHOOSE i \in DOMAIN text : text[i] = 41
      dec   == SubSeq(text, 3, open - 1)
      hex   == SubSeq(text, open + 1, close - 1)
  IN  /\ IsNumber(dec, v) /\ (dec[1] = 45) = (v >= Word \div 2)
      /\ IsNumber(<<48, 120>> \o hex, v)

-----------------------------------------------------------------------------
(* Entering a line runs the function or shows the variable that its first  *)
(* word names, with the numbers that stand behind it, as they were typed   *)
(* and edited; what is printed is the value returned.  (Lines with more    *)
(* characters than fit, with keys that have no character or typed while  *)
(* the driver mistakes the shift key or Caps Lock are left out: cli_task(), *)
(* parse_line(), kbd_char_get(), str_to_num(), itoa().)                    *)
LineRight ==
  last.spoilt \cap {"wrapped", "no character", "letter"} = {} =>
    LET w    == Words(last.typed)
        did  == last.did
    IN  CASE last.typed = <<>> -> did.found = "nothing"
          [] w # <<>> /\ w[1] \in Funcs ->
               /\ did.found = "func" /\ did.name = w[1]
               /\ \A k \in 1..MAX_PARAMS :
                    (k + 1 \in DOMAIN w /\ Looks(w[k + 1])) => IsNumber(w[k + 1], did.arg[k])
               /\ Says(did.says, did.arg[1])
          [] w # <<>> /\ w[1] \in DOMAIN Vars ->
               did.found = "var" /\ did.name = w[1] /\ Says(did.says, Vars[w[1]])
          [] OTHER -> did.found = "BAD"

(* What stands before the cursor is the line that Enter would run: the     *)
(* screen shows each character that cli_task() has kept in buf, those that *)
(* a key without a character gave too, and none that was deleted.  (Unless *)
(* the line had more characters than fit and starts again in buf, or one   *)
(* that went on at the top of the screen is deleted backwards: cli_task(), *)
(* dbg_putchar().)                                                         *)
SeenIsRun ==
  (part = "line" /\ tx = <<>> /\ spoilt \cap {"wrapped", "astray"} = {}) =>
    LET n == COLUMNS * LINES
    IN  /\ screen.video[Cell(screen)] = Cursor
        /\ \A k \in 0..(loc - 1) :
             screen.video[(Cell(screen) + n + k - loc) % n] = buf[k]
=============================================================================
