-------------------------------- MODULE Keys --------------------------------
(***************************************************************************)
(* What the keyboard's codes mean: kbd_char_get() of devices/keyboard.c.   *)
(* A code above 127 is the release of a key.                               *)
(***************************************************************************)
EXTENDS Screen

VARIABLES
  shift_key, cap_lock, cap_count,
  held,       \* history: the shift keys that are held down
  presses     \* history: how often Caps Lock was pressed

keyVars == <<shift_key, cap_lock, cap_count, held, presses>>

CapsLock == 58
LeftShift == 42
RightShift == 54
Shifts == {LeftShift, RightShift}
Release(key) == key + 128

Pad(s) == s \o [i \in 1..(128 - Len(s)) |-> 0]
us_shift_off == Pad(
  <<0, 27, 49, 50, 51, 52, 53, 54, 55, 56, 57, 48, 45, 61, 8, 9, 113, 119, 101, 114,
    116, 121, 117, 105, 111, 112, 91, 93, 13, 0, 97, 115, 100, 102, 103, 104, 106,
    107, 108, 59, 39, 96, 0, 92, 122, 120, 99, 118, 98, 110, 109, 44, 46, 47, 0, 0,
    0, 32>>)
us_shift_on == Pad(
  <<0, 27, 33, 64, 35, 36, 37, 94, 38, 42, 40, 41, 95, 43, 8, 9, 81, 87, 69, 82,
    84, 89, 85, 73, 79, 80, 123, 125, 13, 0, 65, 83, 68, 70, 71, 72, 74,
    75, 76, 58, 34, 126, 0, 124, 90, 88, 67, 86, 66, 78, 77, 60, 62, 63, 0, 0,
    0, 32>>)

IsSmall(c) == c \in 97..122
IsBig(c) == c \in 65..90
Flip(c) == IF IsSmall(c) THEN c - 32 ELSE IF IsBig(c) THEN c + 32 ELSE c

(* The lock changes with every second press.                               *)
CapsKey == /\ cap_count' = (cap_count + 1) % 2
           /\ cap_lock' = IF cap_count = 1 THEN ~cap_lock ELSE cap_lock
           /\ UNCHANGED shift_key

ShiftKey_Bug(key) == /\ shift_key' = (shift_key \/ key = LeftShift)
                     /\ UNCHANGED <<cap_lock, cap_count>>
ShiftKey(key) == /\ shift_key' = (key = LeftShift)
                 /\ UNCHANGED <<cap_lock, cap_count>>

(* The character of a key, which is 0 for a key that has none.             *)
Ascii_Bug(key) == (IF shift_key THEN us_shift_off ELSE us_shift_on)[key + 1]
Ascii(key) ==
  LET c == (IF shift_key THEN us_shift_on ELSE us_shift_off)[key + 1]
      letter == IF shift_key THEN IsBig(c) ELSE IsSmall(c)
  IN  IF cap_lock /\ letter THEN Flip(c) ELSE c

-----------------------------------------------------------------------------
(* What the key says on the keyboard: letters are big when just one of     *)
(* shift and Caps Lock is on, other keys have their upper sign with shift. *)
Meant(key) ==
  LET small == us_shift_off[key + 1]
      locked == presses % 2 = 1
      shift == held # {}
  IN  IF IsSmall(small) THEN IF shift # locked THEN Flip(small) ELSE small
      ELSE IF shift THEN us_shift_on[key + 1] ELSE small

(* The driver follows: not the right shift key, and Caps Lock only after   *)
(* two presses.                                                            *)
Follows == RightShift \notin held /\ cap_lock = (presses % 2 = 1)
=============================================================================
