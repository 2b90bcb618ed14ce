-------------------------------- MODULE Libs --------------------------------
(***************************************************************************)
(* The C library's functions on numbers and strings that the command line  *)
(* is made of (modules/libs): strcmp(), atoi(), itoa(), skip_spaces() and  *)
(* str_to_num().  A character is its code, a string the sequence of the    *)
(* characters before its NUL; a word of the machine has Word values.       *)
(***************************************************************************)
EXTENDS Integers, SequencesExt

CONSTANT Word
ASSUME WordAssumption == Word \in 2..10000 /\ Word % 2 = 0    \* four digits are enough

Space == 32
IsDigit(c) == c \in 48..57
Least(S) == CHOOSE i \in S : \A j \in S : i <= j
Neg(v) == (Word - v) % Word

(* The string that starts at place i of a buffer.                          *)
String(buf, i) == LET end == Least({j \in DOMAIN buf : j >= i /\ buf[j] = 0})
                  IN  [k \in 1..(end - i) |-> buf[i + k - 1]]

Strcmp(a, b) ==
  LET at(s, i) == IF i > Len(s) THEN 0 ELSE s[i]
      i == Least({j \in 1..(Len(a) + 1) : at(a, j) # at(b, j) \/ at(a, j) = 0})
  IN  at(a, i) - at(b, i)

(* next is the first place that is not a space, end the one after the word. *)
SkipSpaces_Bug(buf, head) ==
  LET next == Least({i \in DOMAIN buf : i >= head /\ buf[i] # Space})
  IN  [next |-> next,
       end  |-> Least({i \in DOMAIN buf : i >= next /\ buf[i] = 0})]
SkipSpaces(buf, head) ==
  LET next == Least({i \in DOMAIN buf : i >= head /\ buf[i] # Space})
  IN  [next |-> next,
       end  |-> Least({i \in DOMAIN buf : i >= next /\ buf[i] \in {0, Space}})]

(* From the last digit to the first, i being the digit's weight.           *)
Weighed(digits, base) ==
  FoldRight(LAMBDA d, a : [val |-> (a.val + d * a.i) % Word, i |-> (a.i * base) % Word],
            digits, [val |-> 0, i |-> 1]).val

DecStrToVal(s) == Weighed([k \in DOMAIN s |-> s[k] - 48], 10)

HexDigit(c) == CASE IsDigit(c)     -> c - 48
                 [] c \in 97..102  -> c - 87
                 [] c \in 65..70   -> c - 55
                 [] OTHER          -> -1
(* A string without digits is looked at from the 'x' before it: BAD too.   *)
HexStrToVal(s) ==
  LET d == [k \in DOMAIN s |-> HexDigit(s[k])]
  IN  IF s = <<>> \/ \E k \in DOMAIN s : d[k] = -1 THEN [stat |-> "BAD"]
      ELSE [stat |-> "GOOD", value |-> Weighed(d, 16)]

(* Spaces, a sign, and the digits up to the first other character.         *)
Atoi(s) ==
  LET at(i) == IF i > Len(s) THEN 0 ELSE s[i]
      p     == Least({i \in 1..(Len(s) + 1) : at(i) # Space})
      first == IF at(p) \in {43, 45} THEN p + 1 ELSE p
      end   == Least({i \in first..(Len(s) + 1) : ~IsDigit(at(i))} \cup {Len(s) + 2})
      val   == DecStrToVal(SubSeq(s, first, end - 1))
  IN  IF ~IsDigit(at(first)) THEN 0 ELSE IF at(p) = 45 THEN Neg(val) ELSE val

(* The second character tells a hexadecimal number.  (That of the empty    *)
(* string is whatever follows its NUL; either way the result is 0.)        *)
StrToNum(s) ==
  IF Len(s) > 1 /\ s[2] \in {120, 88}
  THEN LET hex == HexStrToVal(SubSeq(s, 3, Len(s)))
       IN  IF hex.stat = "GOOD" THEN hex.value ELSE 0
  ELSE Atoi(s)

(* The digits of the absolute value (in base 16: of the word) and the sign. *)
ItoaDigits(u, base) ==
  LET n == Least({i \in 1..4 : base^i > u})
      d(k) == (u \div base^(n - k)) % base
  IN  [k \in 1..n |-> IF d(k) < 10 THEN 48 + d(k) ELSE 55 + d(k)]
Itoa_Bug(val, base) == ItoaDigits(val, base)
Itoa(val, base) ==
  IF val >= Word \div 2 /\ base # 16
  THEN (IF base = 10 THEN <<45>> ELSE <<>>) \o ItoaDigits(Neg(val), base)
  ELSE ItoaDigits(val, base)
=============================================================================
