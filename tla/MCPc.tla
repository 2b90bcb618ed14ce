-------------------------------- MODULE MCPc --------------------------------
(***************************************************************************)
(* A small instance of the PC: keys, two functions and a variable of one   *)
(* letter, and a PCI function with two registers.                          *)
(***************************************************************************)
EXTENDS Pc

\* Codes of keys.
One == 2
Eight == 9
Zero == 11
Minus == 12
BackSpace == 14
R == 19
EnterKey == 28
X == 45
B == 48
SpaceBar == 57
F1 == 59

\* The names r, R and x.
Names == {<<114>>, <<82>>}
Variables == [v \in {<<120>>} |-> 250]

Load(keys_, most) == [keys |-> keys_, most |-> most]
Typing == {
  Load({R, SpaceBar, One, Eight, EnterKey}, 7),          \* words and numbers
  Load({R, SpaceBar, Zero, X, B, EnterKey}, 6),          \* "r 0xb" and "r 0x0"
  Load({R, X, SpaceBar, BackSpace, EnterKey}, 7),        \* editing
  Load({R, Minus, One, SpaceBar, EnterKey}, 6),
  Load({R, One, LeftShift, Release(LeftShift), CapsLock, EnterKey}, 6),
  Load({R, 54, Release(54), F1, EnterKey}, 5)}

Fns == {<<0, 0, 0>>}
Size(n, f) == [b \in 0..(n - 1) |-> f[b + 1]]
Requests ==
  {[op |-> "r", size |-> n, fn |-> <<0, 0, 0>>, addr |-> a, val |-> <<>>] :
     n \in {1}, a \in {1, 6}}
  \cup {[op |-> "r", size |-> 2, fn |-> <<256, 0, 0>>, addr |-> 2, val |-> <<>>],
        [op |-> "r", size |-> 4, fn |-> <<0, 0, 0>>, addr |-> 4, val |-> <<>>],
        [op |-> "r", size |-> 2, fn |-> <<0, 1, 0>>, addr |-> 0, val |-> <<>>],
        [op |-> "w", size |-> 1, fn |-> <<0, 0, 0>>, addr |-> 1, val |-> Size(1, <<7>>)],
        [op |-> "w", size |-> 2, fn |-> <<0, 0, 0>>, addr |-> 6, val |-> Size(2, <<8, 9>>)],
        [op |-> "w", size |-> 4, fn |-> <<0, 0, 0>>, addr |-> 0, val |-> Size(4, <<1, 2, 3, 4>>)]}
=============================================================================
