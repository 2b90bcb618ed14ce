----------------------------- MODULE SeqLemmas ------------------------------
(***************************************************************************)
(* What the sequence operators that the task queue is built with return,   *)
(* and whose elements, used by every proof about the queue; functions      *)
(* defined by recursion on a number, and concatenations, used by those     *)
(* about lists of timers, characters and frames.                           *)
(***************************************************************************)
EXTENDS Integers, SequencesExt, SequenceTheorems, WellFoundedInduction, TLAPS

(* A concatenation has the elements of its two parts only.                 *)
LEMMA ConcatRange ==
  ASSUME NEW S, NEW a \in Seq(S), NEW b \in Seq(S)
  PROVE  /\ a \o b \in Seq(S)
         /\ Range(a \o b) \subseteq Range(a) \cup Range(b)
<1>1. /\ a \o b \in Seq(S) /\ Len(a \o b) = Len(a) + Len(b)
      /\ \A i \in 1..(Len(a) + Len(b)) :
            (a \o b)[i] = IF i <= Len(a) THEN a[i] ELSE b[i - Len(a)]
  BY ConcatProperties
<1>2. ASSUME NEW i \in 1..(Len(a) + Len(b))
      PROVE  (a \o b)[i] \in Range(a) \cup Range(b)
  <2>1. CASE i <= Len(a)
    BY <1>1, <2>1, i \in 1..Len(a) DEF Range
  <2>2. CASE i > Len(a)
    BY <1>1, <2>2, i - Len(a) \in 1..Len(b) DEF Range
  <2> QED
    BY <2>1, <2>2
<1>3. DOMAIN (a \o b) = 1..(Len(a) + Len(b))
  BY <1>1, LenProperties
<1> QED
  BY <1>1, <1>2, <1>3 DEF Range

(* A part of a sequence has elements of the sequence only.                 *)
LEMMA SubSeqRange ==
  ASSUME NEW S, NEW q \in Seq(S), NEW m \in 1..(Len(q) + 1), NEW n \in 0..Len(q)
  PROVE  /\ SubSeq(q, m, n) \in Seq(S)
         /\ Range(SubSeq(q, m, n)) \subseteq Range(q)
<1> DEFINE x == SubSeq(q, m, n)
<1>1. \A i \in m..n : q[i] \in S
  BY ElementOfSeq
<1>2. /\ x \in Seq(S)
      /\ Len(x) = IF m <= n THEN n - m + 1 ELSE 0
      /\ \A i \in 1..(n - m + 1) : x[i] = q[m + i - 1]
  BY <1>1, SubSeqProperties
<1> HIDE DEF x
<1>3. ASSUME NEW i \in 1..Len(x) PROVE x[i] \in Range(q)
  BY <1>2, m + i - 1 \in 1..Len(q) DEF Range
<1>4. DOMAIN x = 1..Len(x)
  BY <1>2, LenProperties
<1>5. Range(x) \subseteq Range(q)
  BY <1>3, <1>4 DEF Range
<1> QED
  BY <1>2, <1>5 DEF x

(* InsertAt adds nothing but the element it is given.                      *)
LEMMA InsertAtRange ==
  ASSUME NEW S, NEW q \in Seq(S), NEW e \in S, NEW i \in 1..(Len(q) + 1)
  PROVE  /\ InsertAt(q, i, e) \in Seq(S)
         /\ Range(InsertAt(q, i, e)) \subseteq Range(q) \cup {e}
<1> DEFINE l == SubSeq(q, 1, i - 1)
           r == SubSeq(q, i, Len(q))
<1>1. l \in Seq(S) /\ Range(l) \subseteq Range(q)
  BY SubSeqRange
<1>2. r \in Seq(S) /\ Range(r) \subseteq Range(q)
  BY SubSeqRange
<1>3. <<e>> \in Seq(S) /\ Range(<<e>>) = {e}
  BY DEF Range
<1> HIDE DEF l, r
<1>4. l \o <<e>> \in Seq(S) /\ Range(l \o <<e>>) \subseteq Range(q) \cup {e}
  BY <1>1, <1>3, ConcatRange
<1>5. /\ (l \o <<e>>) \o r \in Seq(S)
      /\ Range((l \o <<e>>) \o r) \subseteq Range(l \o <<e>>) \cup Range(r)
  BY <1>2, <1>4, ConcatRange
<1> QED
  BY <1>2, <1>4, <1>5 DEF InsertAt, l, r

(* RemoveAt adds nothing.                                                  *)
LEMMA RemoveAtRange ==
  ASSUME NEW S, NEW q \in Seq(S), NEW i \in 1..Len(q)
  PROVE  /\ RemoveAt(q, i) \in Seq(S)
         /\ Range(RemoveAt(q, i)) \subseteq Range(q)
<1> DEFINE l == SubSeq(q, 1, i - 1)
           r == SubSeq(q, i + 1, Len(q))
<1>1. l \in Seq(S) /\ Range(l) \subseteq Range(q)
  BY SubSeqRange
<1>2. r \in Seq(S) /\ Range(r) \subseteq Range(q)
  BY SubSeqRange
<1> HIDE DEF l, r
<1>3. l \o r \in Seq(S) /\ Range(l \o r) \subseteq Range(l) \cup Range(r)
  BY <1>1, <1>2, ConcatRange
<1> QED
  BY <1>1, <1>2, <1>3 DEF RemoveAt, l, r

(* Where the elements of InsertAt come from.                               *)
LEMMA InsertAtElements ==
  ASSUME NEW S, NEW q \in Seq(S), NEW e \in S, NEW i \in 1..(Len(q) + 1)
  PROVE  /\ InsertAt(q, i, e) \in Seq(S)
         /\ Len(InsertAt(q, i, e)) = Len(q) + 1
         /\ \A j \in 1..(Len(q) + 1) :
               InsertAt(q, i, e)[j] = IF j < i THEN q[j]
                                      ELSE IF j = i THEN e ELSE q[j - 1]
<1> DEFINE l == SubSeq(q, 1, i - 1)
           m == l \o <<e>>
           r == SubSeq(q, i, Len(q))
<1>0. Len(q) \in Nat /\ \A j \in 1..Len(q) : q[j] \in S
  BY LenProperties, ElementOfSeq
<1>1. /\ l \in Seq(S) /\ Len(l) = i - 1
      /\ \A j \in 1..(i - 1) : l[j] = q[j]
  <2>1. \A j \in 1..(i - 1) : q[j] \in S
    BY <1>0
  <2>2. /\ l \in Seq(S) /\ Len(l) = IF 1 <= i - 1 THEN (i - 1) - 1 + 1 ELSE 0
        /\ \A j \in 1..((i - 1) - 1 + 1) : l[j] = q[1 + j - 1]
    BY <2>1, SubSeqProperties
  <2> QED
    BY <2>2
<1>2. /\ r \in Seq(S) /\ Len(r) = Len(q) - i + 1
      /\ \A j \in 1..(Len(q) - i + 1) : r[j] = q[i + j - 1]
  <2>1. \A j \in i..Len(q) : q[j] \in S
    BY <1>0
  <2>2. /\ r \in Seq(S) /\ Len(r) = IF i <= Len(q) THEN Len(q) - i + 1 ELSE 0
        /\ \A j \in 1..(Len(q) - i + 1) : r[j] = q[i + j - 1]
    BY <2>1, SubSeqProperties
  <2> QED
    BY <1>0, <2>2
<1>3. <<e>> \in Seq(S) /\ Len(<<e>>) = 1 /\ <<e>>[1] = e
  OBVIOUS
<1> HIDE DEF l, r
<1>4. /\ m \in Seq(S) /\ Len(m) = i
      /\ \A j \in 1..i : m[j] = IF j <= i - 1 THEN l[j] ELSE <<e>>[j - (i - 1)]
  BY <1>1, <1>3, ConcatProperties
<1> HIDE DEF m
<1>5. /\ m \o r \in Seq(S) /\ Len(m \o r) = i + (Len(q) - i + 1)
      /\ \A j \in 1..(i + (Len(q) - i + 1)) :
            (m \o r)[j] = IF j <= i THEN m[j] ELSE r[j - i]
  BY <1>2, <1>4, ConcatProperties
<1>6. InsertAt(q, i, e) = m \o r
  BY DEF InsertAt, l, m, r
<1>7. ASSUME NEW j \in 1..(Len(q) + 1)
      PROVE  (m \o r)[j] = IF j < i THEN q[j] ELSE IF j = i THEN e ELSE q[j - 1]
  <2>1. CASE j < i
    BY <1>0, <1>1, <1>4, <1>5, <2>1
  <2>2. CASE j = i
    <3>1. i \in 1..i /\ ~(i <= i - 1) /\ i - (i - 1) = 1
      BY <1>0
    <3>2. m[i] = e
      BY <1>3, <1>4, <3>1
    <3> QED
      BY <1>0, <1>5, <2>2, <3>2
  <2>3. CASE j > i
    <3>1. j - i \in 1..(Len(q) - i + 1) /\ i + (j - i) - 1 = j - 1
      BY <1>0, <2>3
    <3> QED
      BY <1>0, <1>2, <1>5, <2>3, <3>1
  <2>4. j < i \/ j = i \/ j > i
    BY <1>0
  <2> QED
    BY <2>1, <2>2, <2>3, <2>4
<1> QED
  BY <1>0, <1>5, <1>6, <1>7

(* Where the elements of RemoveAt come from.                               *)
LEMMA RemoveAtElements ==
  ASSUME NEW S, NEW q \in Seq(S), NEW i \in 1..Len(q)
  PROVE  /\ RemoveAt(q, i) \in Seq(S)
         /\ Len(RemoveAt(q, i)) = Len(q) - 1
         /\ \A j \in 1..(Len(q) - 1) :
               RemoveAt(q, i)[j] = IF j < i THEN q[j] ELSE q[j + 1]
<1> DEFINE l == SubSeq(q, 1, i - 1)
           r == SubSeq(q, i + 1, Len(q))
<1>0. Len(q) \in Nat /\ \A j \in 1..Len(q) : q[j] \in S
  BY LenProperties, ElementOfSeq
<1>1. /\ l \in Seq(S) /\ Len(l) = i - 1
      /\ \A j \in 1..(i - 1) : l[j] = q[j]
  <2>1. \A j \in 1..(i - 1) : q[j] \in S
    BY <1>0
  <2>2. /\ l \in Seq(S) /\ Len(l) = IF 1 <= i - 1 THEN (i - 1) - 1 + 1 ELSE 0
        /\ \A j \in 1..((i - 1) - 1 + 1) : l[j] = q[1 + j - 1]
    BY <2>1, SubSeqProperties
  <2> QED
    BY <2>2
<1>2. /\ r \in Seq(S) /\ Len(r) = Len(q) - i
      /\ \A j \in 1..(Len(q) - i) : r[j] = q[i + j]
  <2>1. \A j \in (i + 1)..Len(q) : q[j] \in S
    BY <1>0
  <2>2. /\ r \in Seq(S)
        /\ Len(r) = IF i + 1 <= Len(q) THEN Len(q) - (i + 1) + 1 ELSE 0
        /\ \A j \in 1..(Len(q) - (i + 1) + 1) : r[j] = q[(i + 1) + j - 1]
    BY <2>1, SubSeqProperties
  <2> QED
    BY <1>0, <2>2
<1> HIDE DEF l, r
<1>3. /\ l \o r \in Seq(S) /\ Len(l \o r) = (i - 1) + (Len(q) - i)
      /\ \A j \in 1..((i - 1) + (Len(q) - i)) :
            (l \o r)[j] = IF j <= i - 1 THEN l[j] ELSE r[j - (i - 1)]
  <2>1. /\ l \o r \in Seq(S) /\ Len(l \o r) = Len(l) + Len(r)
        /\ \A j \in 1..(Len(l) + Len(r)) :
              (l \o r)[j] = IF j <= Len(l) THEN l[j] ELSE r[j - Len(l)]
    BY <1>1, <1>2, ConcatProperties
  <2> QED
    BY <1>1, <1>2, <2>1
<1>4. RemoveAt(q, i) = l \o r
  BY DEF RemoveAt, l, r
<1>5. ASSUME NEW j \in 1..(Len(q) - 1)
      PROVE  (l \o r)[j] = IF j < i THEN q[j] ELSE q[j + 1]
  <2>1. CASE j < i
    BY <1>0, <1>1, <1>3, <2>1
  <2>2. CASE j >= i
    <3>1. j - (i - 1) \in 1..(Len(q) - i) /\ i + (j - (i - 1)) = j + 1
      BY <1>0, <2>2
    <3> QED
      BY <1>0, <1>2, <1>3, <2>2, <3>1
  <2>3. j < i \/ j >= i
    BY <1>0
  <2> QED
    BY <2>1, <2>2, <2>3
<1> DEFINE x == l \o r
<1>6. /\ x \in Seq(S) /\ Len(x) = Len(q) - 1
      /\ \A j \in 1..(Len(q) - 1) : x[j] = IF j < i THEN q[j] ELSE q[j + 1]
  <2>1. (i - 1) + (Len(q) - i) = Len(q) - 1
    BY <1>0
  <2> QED
    BY <1>3, <1>5, <2>1
<1>7. RemoveAt(q, i) = x
  BY <1>4
<1> HIDE DEF x
<1> QED
  BY <1>6, <1>7

(* A sequence without duplicates, in the order of pr.                      *)
Ordered(q, pr) == \A i, j \in DOMAIN q : i < j => q[i] # q[j] /\ pr[q[i]] <= pr[q[j]]

(* A new element put before the first of those that are larger keeps the   *)
(* order.                                                                  *)
LEMMA InsertOrdered ==
  ASSUME NEW S, NEW q \in Seq(S), NEW pr \in [S -> Int], NEW e \in S,
         e \notin Range(q), Ordered(q, pr), NEW k \in 1..(Len(q) + 1),
         \A j \in 1..(k - 1) : pr[q[j]] <= pr[e],
         k <= Len(q) => pr[q[k]] > pr[e]
  PROVE  /\ Ordered(InsertAt(q, k, e), pr)
         /\ Range(InsertAt(q, k, e)) = Range(q) \cup {e}
<1> DEFINE r == InsertAt(q, k, e)
<1>0. /\ Len(q) \in Nat /\ DOMAIN q = 1..Len(q)
      /\ \A j \in 1..Len(q) : q[j] \in S /\ q[j] # e
  BY LenProperties, ElementOfSeq DEF Range
<1>1. /\ r \in Seq(S) /\ Len(r) = Len(q) + 1
      /\ \A j \in 1..(Len(q) + 1) :
            r[j] = IF j < k THEN q[j] ELSE IF j = k THEN e ELSE q[j - 1]
  BY InsertAtElements
<1>2. Range(r) \subseteq Range(q) \cup {e}
  BY InsertAtRange
<1> HIDE DEF r
<1>3. DOMAIN r = 1..(Len(q) + 1)
  BY <1>0, <1>1, LenProperties
<1>4. \A a, b \in 1..Len(q) : a < b => q[a] # q[b] /\ pr[q[a]] <= pr[q[b]]
  BY <1>0 DEF Ordered
<1>5. ASSUME NEW j \in 1..Len(q), k <= j PROVE pr[e] <= pr[q[j]]
  <2>1. k \in 1..Len(q) /\ pr[q[k]] > pr[e] /\ pr[q[k]] \in Int /\ pr[e] \in Int
    BY <1>0, <1>5
  <2>2. pr[q[k]] <= pr[q[j]] /\ pr[q[j]] \in Int
    BY <1>0, <1>4, <1>5, <2>1
  <2> QED
    BY <2>1, <2>2
<1>6. ASSUME NEW a \in 1..(Len(q) + 1), NEW b \in 1..(Len(q) + 1), a < b
      PROVE  r[a] # r[b] /\ pr[r[a]] <= pr[r[b]]
  <2>1. CASE b < k
    <3>1. a \in 1..Len(q) /\ b \in 1..Len(q) /\ a < k
      BY <1>0, <1>6, <2>1
    <3>2. r[a] = q[a] /\ r[b] = q[b]
      BY <1>1, <2>1, <3>1
    <3> QED
      BY <1>4, <1>6, <3>1, <3>2
  <2>2. CASE b = k
    <3>1. a \in 1..Len(q) /\ a < k /\ a \in 1..(k - 1)
      BY <1>0, <1>6, <2>2
    <3>2. r[a] = q[a] /\ r[b] = e
      BY <1>1, <2>2, <3>1
    <3> QED
      BY <1>0, <3>1, <3>2
  <2>3. CASE b > k /\ a < k
    <3>1. a \in 1..Len(q) /\ b - 1 \in 1..Len(q) /\ a < b - 1 /\ ~(b < k) /\ b # k
      BY <1>0, <2>3
    <3>2. r[a] = q[a] /\ r[b] = q[b - 1]
      BY <1>1, <2>3, <3>1
    <3> QED
      BY <1>4, <3>1, <3>2
  <2>4. CASE b > k /\ a = k
    <3>1. b - 1 \in 1..Len(q) /\ k <= b - 1 /\ ~(b < k) /\ b # k
      BY <1>0, <2>4
    <3>2. r[a] = e /\ r[b] = q[b - 1]
      BY <1>1, <2>4, <3>1
    <3> QED
      BY <1>0, <1>5, <3>1, <3>2
  <2>5. CASE b > k /\ a > k
    <3>1. /\ a - 1 \in 1..Len(q) /\ b - 1 \in 1..Len(q) /\ a - 1 < b - 1
          /\ ~(b < k) /\ b # k /\ ~(a < k) /\ a # k
      BY <1>0, <1>6, <2>5
    <3>2. r[a] = q[a - 1] /\ r[b] = q[b - 1]
      BY <1>1, <3>1
    <3> QED
      BY <1>4, <3>1, <3>2
  <2>6. \/ b < k \/ b = k \/ (b > k /\ a < k)
        \/ (b > k /\ a = k) \/ (b > k /\ a > k)
    <3>1. a \in Int /\ b \in Int /\ k \in Int
      BY <1>0
    <3>2. (b < k \/ b = k \/ b > k) /\ (a < k \/ a = k \/ a > k)
      BY <3>1
    <3> QED
      BY <3>2
  <2> QED
    BY <2>1, <2>2, <2>3, <2>4, <2>5, <2>6
<1>7. Ordered(r, pr)
  BY <1>3, <1>6 DEF Ordered
<1>8. e \in Range(r)
  <2>1. r[k] = e
    BY <1>0, <1>1
  <2> QED
    BY <1>3, <2>1 DEF Range
<1>9. ASSUME NEW j \in 1..Len(q) PROVE q[j] \in Range(r)
  <2>1. CASE j < k
    <3>1. j \in 1..(Len(q) + 1) /\ r[j] = q[j]
      BY <1>0, <1>1, <2>1
    <3> QED
      BY <1>3, <3>1 DEF Range
  <2>2. CASE ~(j < k)
    <3>1. j + 1 \in 1..(Len(q) + 1) /\ ~(j + 1 < k) /\ j + 1 # k /\ (j + 1) - 1 = j
      BY <1>0, <2>2, j \in Int, k \in Int
    <3>2. r[j + 1] = q[j]
      BY <1>1, <3>1
    <3> QED
      BY <1>3, <3>1, <3>2 DEF Range
  <2> QED
    BY <2>1, <2>2
<1>10. Range(q) \subseteq Range(r)
  BY <1>0, <1>9 DEF Range
<1> QED
  BY <1>2, <1>7, <1>8, <1>10 DEF r

(* To take an element out keeps the order, and takes no other out.         *)
LEMMA RemoveOrdered ==
  ASSUME NEW S, NEW q \in Seq(S), NEW pr \in [S -> Int], Ordered(q, pr),
         NEW i \in 1..Len(q)
  PROVE  /\ Ordered(RemoveAt(q, i), pr)
         /\ Range(RemoveAt(q, i)) = Range(q) \ {q[i]}
<1> DEFINE r == RemoveAt(q, i)
<1>0. Len(q) \in Nat /\ DOMAIN q = 1..Len(q)
  BY LenProperties
<1>1. /\ r \in Seq(S) /\ Len(r) = Len(q) - 1
      /\ \A j \in 1..(Len(q) - 1) : r[j] = IF j < i THEN q[j] ELSE q[j + 1]
  BY RemoveAtElements
<1> HIDE DEF r
<1>2. DOMAIN r = 1..(Len(q) - 1)
  BY <1>0, <1>1, LenProperties
<1>3. \A a, b \in 1..Len(q) : a < b => q[a] # q[b] /\ pr[q[a]] <= pr[q[b]]
  BY <1>0 DEF Ordered
<1> DEFINE from(j) == IF j < i THEN j ELSE j + 1
<1>4. \A j \in 1..(Len(q) - 1) : /\ from(j) \in 1..Len(q) /\ from(j) # i
                                 /\ r[j] = q[from(j)]
  <2> SUFFICES ASSUME NEW j \in 1..(Len(q) - 1)
               PROVE  from(j) \in 1..Len(q) /\ from(j) # i /\ r[j] = q[from(j)]
    OBVIOUS
  <2>1. from(j) \in 1..Len(q) /\ from(j) # i
    BY <1>0
  <2> QED
    BY <1>1, <2>1
<1>5. \A a, b \in 1..(Len(q) - 1) : a < b => from(a) < from(b)
  BY <1>0
<1>6. \A j \in 1..Len(q) : j # i => \E a \in 1..(Len(q) - 1) : from(a) = j
  <2> SUFFICES ASSUME NEW j \in 1..Len(q), j # i
               PROVE  \E a \in 1..(Len(q) - 1) : from(a) = j
    OBVIOUS
  <2>1. CASE j < i
    BY <1>0, <2>1
  <2>2. CASE ~(j < i)
    <3>1. j - 1 \in 1..(Len(q) - 1) /\ from(j - 1) = j
      BY <1>0, <2>2
    <3> QED
      BY <3>1
  <2> QED
    BY <2>1, <2>2
<1>7. \A a, b \in 1..Len(q) : a # b => q[a] # q[b]
  <2> SUFFICES ASSUME NEW a \in 1..Len(q), NEW b \in 1..Len(q), a # b PROVE q[a] # q[b]
    OBVIOUS
  <2>1. a < b \/ b < a
    BY <1>0
  <2> QED
    BY <1>3, <2>1
<1> HIDE DEF from
<1>8. Ordered(r, pr)
  <2> SUFFICES ASSUME NEW a \in 1..(Len(q) - 1), NEW b \in 1..(Len(q) - 1), a < b
               PROVE  r[a] # r[b] /\ pr[r[a]] <= pr[r[b]]
    BY <1>2 DEF Ordered
  <2>1. from(a) \in 1..Len(q) /\ from(b) \in 1..Len(q) /\ from(a) < from(b)
    BY <1>4, <1>5
  <2>2. r[a] = q[from(a)] /\ r[b] = q[from(b)]
    BY <1>4
  <2> QED
    BY <1>3, <2>1, <2>2
<1>9. Range(r) = Range(q) \ {q[i]}
  <2>1. ASSUME NEW a \in 1..(Len(q) - 1) PROVE r[a] \in Range(q) \ {q[i]}
    BY <1>0, <1>4, <1>7 DEF Range
  <2>2. ASSUME NEW j \in 1..Len(q), q[j] # q[i] PROVE q[j] \in Range(r)
    <3>1. PICK a \in 1..(Len(q) - 1) : from(a) = j
      BY <1>6, <2>2
    <3>2. r[a] = q[j]
      BY <1>4, <3>1
    <3> QED
      BY <1>2, <3>2 DEF Range
  <2> QED
    BY <1>0, <1>2, <2>1, <2>2 DEF Range
<1> QED
  BY <1>8, <1>9 DEF r

-----------------------------------------------------------------------------
(* Functions that are defined by recursion on a number.                    *)

(* Numbers have a least one.                                               *)
LEMMA LeastNumber ==
  ASSUME NEW T \in SUBSET Nat, T # {}
  PROVE  \E x \in T : \A y \in T : x <= y
<1>1. PICK x \in T : \A y \in T : ~(<<y, x>> \in OpToRel(<, Nat))
  BY NatLessThanWellFounded, WFMin
<1>2. ASSUME NEW y \in T PROVE x <= y
  <2>1. y \in Nat /\ x \in Nat /\ ~(y < x)
    BY <1>1 DEF OpToRel
  <2> QED BY <2>1
<1> QED BY <1>2

(* A set that has 0, and with each number the next one, up to n.           *)
LEMMA UpTo ==
  ASSUME NEW n \in Nat, NEW T, 0 \in T, \A k \in 0..(n - 1) : k \in T => k + 1 \in T
  PROVE  \A k \in 0..n : k \in T
<1> DEFINE M == {k \in 0..n : k \notin T}
<1> SUFFICES ASSUME M # {} PROVE FALSE
  OBVIOUS
<1>1. PICK x \in M : \A y \in M : x <= y
  <2>1. M \in SUBSET Nat
    OBVIOUS
  <2> HIDE DEF M
  <2> QED BY <2>1, LeastNumber
<1>2. x # 0 /\ x \in 0..n /\ x \notin T
  OBVIOUS
<1>3. x - 1 \in 0..(n - 1) /\ x - 1 \notin M /\ (x - 1) + 1 = x
  BY <1>1, <1>2
<1>4. x - 1 \in T
  BY <1>3
<1> QED BY <1>2, <1>3, <1>4

(* f goes on from a with what step says, for n steps.                      *)
Unfolds(f, n, a, step) ==
  f = [k \in 0..n |-> IF k = 0 THEN a ELSE step[<<k, f[k - 1]>>]]

(* There is a function that does.                                          *)
LEMMA Unfolding ==
  ASSUME NEW n \in Nat, NEW S, NEW a \in S, NEW step \in [(1..n) \X S -> S]
  PROVE  \E f \in [0..n -> S] : Unfolds(f, n, a, step)
<1> DEFINE T == {k \in 0..n : \E f \in [0..k -> S] : Unfolds(f, k, a, step)}
<1>1. 0 \in T
  <2> DEFINE f == [k \in 0..0 |-> a]
  <2>1. f \in [0..0 -> S]
    OBVIOUS
  <2>2. f = [k \in 0..0 |-> IF k = 0 THEN a ELSE step[<<k, f[k - 1]>>]]
    OBVIOUS
  <2> HIDE DEF f
  <2>3. 0 \in 0..n
    OBVIOUS
  <2> QED BY <2>1, <2>2, <2>3 DEF Unfolds
<1>2. ASSUME NEW k \in 0..(n - 1), k \in T PROVE k + 1 \in T
  <2>1. PICK f \in [0..k -> S] : Unfolds(f, k, a, step)
    BY <1>2
  <2> DEFINE g == [j \in 0..(k + 1) |-> IF j = k + 1 THEN step[<<k + 1, f[k]>>] ELSE f[j]]
  <2>2. k \in 0..k /\ k + 1 \in 1..n /\ f[k] \in S
    BY <2>1
  <2>3. <<k + 1, f[k]>> \in (1..n) \X S
    BY <2>2
  <2>4. step[<<k + 1, f[k]>>] \in S
    BY <2>3
  <2>5. g \in [0..(k + 1) -> S]
    BY <2>4
  <2>6. ASSUME NEW j \in 0..(k + 1)
        PROVE  g[j] = IF j = 0 THEN a ELSE step[<<j, g[j - 1]>>]
    <3>1. CASE j = k + 1
      <4>1. j # 0 /\ j - 1 \in 0..(k + 1) /\ j - 1 # k + 1 /\ j - 1 = k
        BY <3>1
      <4> QED BY <3>1, <4>1
    <3>2. CASE j # k + 1 /\ j # 0
      <4>1. j \in 0..k /\ j - 1 \in 0..k /\ j - 1 \in 0..(k + 1) /\ j - 1 # k + 1
        BY <3>2
      <4>2. f[j] = step[<<j, f[j - 1]>>]
        BY <2>1, <3>2, <4>1 DEF Unfolds
      <4> QED BY <3>2, <4>1, <4>2
    <3>3. CASE j = 0
      <4>1. j \in 0..k /\ j # k + 1
        BY <3>3
      <4>2. f[j] = a
        BY <2>1, <3>3, <4>1 DEF Unfolds
      <4> QED BY <3>3, <4>1, <4>2
    <3> QED BY <3>1, <3>2, <3>3
  <2>7. g = [j \in 0..(k + 1) |-> IF j = 0 THEN a ELSE step[<<j, g[j - 1]>>]]
    <3> DEFINE h == [j \in 0..(k + 1) |-> IF j = 0 THEN a ELSE step[<<j, g[j - 1]>>]]
    <3>1. \A j \in 0..(k + 1) : g[j] = h[j]
      BY <2>6
    <3>2. g = [j \in 0..(k + 1) |-> g[j]]
      OBVIOUS
    <3> HIDE DEF g
    <3> QED BY <3>1, <3>2
  <2> HIDE DEF g
  <2>8. k + 1 \in 0..n
    OBVIOUS
  <2> QED BY <2>5, <2>7, <2>8 DEF Unfolds
<1>3. n \in T
  <2> HIDE DEF T
  <2> QED BY <1>1, <1>2, UpTo
<1> QED BY <1>3

(* It is the only one.                                                     *)
Agree(m, g, step, other) == \A k \in 1..m : step[<<k, g[k - 1]>>] = other[<<k, g[k - 1]>>]
LEMMA OneUnfolding ==
  ASSUME NEW n \in Nat, NEW m \in 0..n, NEW a, NEW step, NEW b, NEW other,
         NEW f, Unfolds(f, n, a, step), NEW g, Unfolds(g, m, b, other), a = b,
         Agree(m, g, step, other)
  PROVE  f[m] = g[m]
<1> DEFINE T == {k \in 0..m : f[k] = g[k]}
<1>1. 0 \in T
  BY DEF Unfolds
<1>2. ASSUME NEW k \in 0..(m - 1), k \in T PROVE k + 1 \in T
  <2>1. k + 1 # 0 /\ k + 1 \in 0..n /\ k + 1 \in 0..m /\ k + 1 \in 1..m /\ (k + 1) - 1 = k
    OBVIOUS
  <2>2. f[k + 1] = step[<<k + 1, f[k]>>] /\ g[k + 1] = other[<<k + 1, g[k]>>]
    BY <2>1 DEF Unfolds
  <2>3. f[k] = g[k]
    BY <1>2
  <2>4. step[<<k + 1, g[k]>>] = other[<<k + 1, g[k]>>]
    BY <2>1 DEF Agree
  <2> QED BY <2>1, <2>2, <2>3, <2>4
<1>3. \A k \in 0..m : k \in T
  <2> HIDE DEF T
  <2> QED BY <1>1, <1>2, UpTo
<1>4. m \in 0..m
  OBVIOUS
<1> QED BY <1>3, <1>4

-----------------------------------------------------------------------------
(* A concatenation, with its definition out of the provers' sight.         *)
Cat(a, b) == a \o b
OneAfter(S, a, b) ==
  /\ Cat(a, b) \in Seq(S) /\ Len(Cat(a, b)) = Len(a) + Len(b)
  /\ \A i \in 1..Len(a) : Cat(a, b)[i] = a[i]
  /\ \A i \in 1..Len(b) : Cat(a, b)[Len(a) + i] = b[i]

LEMMA CatIs ==
  ASSUME NEW S, NEW a \in Seq(S), NEW b \in Seq(S)
  PROVE  /\ Cat(a, b) \in Seq(S) /\ Cat(a, <<>>) = a /\ Cat(<<>>, a) = a
         /\ Len(Cat(a, b)) = Len(a) + Len(b)
         /\ \A i \in 1..Len(a) : Cat(a, b)[i] = a[i]
         /\ \A i \in 1..Len(b) : Cat(a, b)[Len(a) + i] = b[i]
         /\ OneAfter(S, a, b)
<1>1. Cat(a, b) = a \o b /\ Cat(a, <<>>) = a \o <<>> /\ Cat(<<>>, a) = <<>> \o a
  BY DEF Cat
<1>2. /\ a \o b \in Seq(S) /\ Len(a \o b) = Len(a) + Len(b)
      /\ \A i \in 1..(Len(a) + Len(b)) : (a \o b)[i] = IF i <= Len(a) THEN a[i] ELSE b[i - Len(a)]
  BY ConcatProperties
<1>3. a \o <<>> = a /\ <<>> \o a = a
  BY ConcatEmptySeq
<1>4. Len(a) \in Nat /\ Len(b) \in Nat
  BY LenProperties
<1>5. \A i \in 1..Len(a) : (a \o b)[i] = a[i]
  BY <1>2, <1>4
<1>6. \A i \in 1..Len(b) : Len(a) + i \in 1..(Len(a) + Len(b)) /\ ~(Len(a) + i <= Len(a))
                             /\ (Len(a) + i) - Len(a) = i
  BY <1>4
<1>7. \A i \in 1..Len(b) : (a \o b)[Len(a) + i] = b[i]
  BY <1>2, <1>6
<1> DEFINE c == a \o b
<1> HIDE DEF c
<1>8. /\ c \in Seq(S) /\ Len(c) = Len(a) + Len(b) /\ Cat(a, b) = c
      /\ \A i \in 1..Len(a) : c[i] = a[i]
      /\ \A i \in 1..Len(b) : c[Len(a) + i] = b[i]
  BY <1>1, <1>2, <1>5, <1>7 DEF c
<1>9. OneAfter(S, a, b)
  BY <1>8, Zenon DEF OneAfter
<1> QED BY <1>1, <1>3, <1>8, <1>9

LEMMA CatCat ==
  ASSUME NEW S, NEW a \in Seq(S), NEW b \in Seq(S), NEW c \in Seq(S)
  PROVE  Cat(Cat(a, b), c) = Cat(a, Cat(b, c))
<1>1. (a \o b) \o c = a \o (b \o c)
  BY ConcatAssociative
<1> QED BY <1>1 DEF Cat

LEMMA CatAppend ==
  ASSUME NEW S, NEW a \in Seq(S), NEW s \in Seq(S), NEW e \in S
  PROVE  Append(Cat(a, s), e) = Cat(a, Append(s, e))
<1> DEFINE u == <<e>>
           x == a \o s
           y == Append(s, e)
<1>1. x \in Seq(S) /\ u \in Seq(S) /\ x = a \o s
  BY ConcatProperties
<1>2. y = s \o u /\ Append(x, e) = x \o u
  BY <1>1, AppendIsConcat
<1>3. Cat(a, s) = x /\ Cat(a, y) = a \o y
  BY DEF Cat
<1> HIDE DEF u, x
<1>4. (a \o s) \o u = a \o (s \o u)
  BY <1>1, ConcatAssociative
<1>5. Append(x, e) = a \o y
  <2> HIDE DEF y
  <2> QED BY <1>1, <1>2, <1>4
<1> QED BY <1>3, <1>5

LEMMA CatOne ==
  ASSUME NEW S, NEW e \in S, NEW q \in Seq(S)
  PROVE  /\ Cat(<<e>>, q) \in Seq(S) /\ Len(Cat(<<e>>, q)) = 1 + Len(q) /\ Cat(<<e>>, q)[1] = e
         /\ \A i \in 1..Len(q) : Cat(<<e>>, q)[1 + i] = q[i]
<1>1. <<e>> \in Seq(S) /\ Len(<<e>>) = 1 /\ <<e>>[1] = e
  OBVIOUS
<1>2. PICK a : a = <<e>>
  OBVIOUS
<1>3. a \in Seq(S) /\ Len(a) = 1 /\ a[1] = e /\ 1 \in 1..Len(a)
  BY <1>1, <1>2
<1>4. OneAfter(S, a, q)
  BY <1>3, CatIs
<1>5. PICK c : c = Cat(a, q)
  OBVIOUS
<1>6. /\ c \in Seq(S) /\ Len(c) = 1 + Len(q) /\ c[1] = e
      /\ \A i \in 1..Len(q) : c[1 + i] = q[i]
  BY <1>3, <1>4, <1>5 DEF OneAfter
<1>7. c = Cat(<<e>>, q)
  BY <1>2, <1>5
<1> QED BY <1>6, <1>7

(* The first of a concatenation, and the last.                             *)
LEMMA CatFirst ==
  ASSUME NEW S, NEW e \in S, NEW q \in Seq(S)
  PROVE  /\ <<e>> \in Seq(S) /\ Cat(<<e>>, q) \in Seq(S) /\ Cat(<<e>>, q) # <<>>
         /\ Head(Cat(<<e>>, q)) = e /\ Tail(Cat(<<e>>, q)) = q
<1>1. PICK c : c = Cat(<<e>>, q)
  OBVIOUS
<1>2. /\ c \in Seq(S) /\ Len(c) = 1 + Len(q) /\ c[1] = e
      /\ \A i \in 1..Len(q) : c[1 + i] = q[i]
  BY <1>1, CatOne
<1>3. Len(q) \in Nat
  BY LenProperties
<1>4. c # <<>> /\ Head(c) = e
  BY <1>2, <1>3
<1>5. Tail(c) \in Seq(S) /\ Len(Tail(c)) = Len(q)
      /\ \A i \in 1..Len(q) : Tail(c)[i] = c[i + 1]
  BY <1>2, <1>3, <1>4, HeadTailProperties
<1>6. \A i \in 1..Len(q) : Tail(c)[i] = q[i]
  BY <1>2, <1>3, <1>5
<1>7. Tail(c) = q
  BY <1>5, <1>6, SeqEqual
<1>8. <<e>> \in Seq(S)
  OBVIOUS
<1> QED BY <1>1, <1>2, <1>4, <1>7, <1>8

LEMMA CatLast ==
  ASSUME NEW S, NEW e \in S, NEW q \in Seq(S)
  PROVE  Cat(q, <<e>>) = Append(q, e)
<1>1. Append(q, e) = q \o <<e>>
  BY AppendIsConcat
<1> QED BY <1>1 DEF Cat

(* b is e, and q behind it.                                                *)
Splits(S, b, e, q) ==
  b \in Seq(S) /\ Len(q) + 1 = Len(b) /\ b[1] = e /\ \A i \in 1..Len(q) : q[i] = b[1 + i]
LEMMA CatRest ==
  ASSUME NEW S, NEW e \in S, NEW q \in Seq(S), NEW b, Splits(S, b, e, q)
  PROVE  Cat(<<e>>, q) = b
<1>1. PICK c : c = Cat(<<e>>, q)
  OBVIOUS
<1>2. /\ c \in Seq(S) /\ Len(c) = 1 + Len(q) /\ c[1] = e
      /\ \A i \in 1..Len(q) : c[1 + i] = q[i]
  BY <1>1, CatOne
<1>3. Len(q) \in Nat
  BY LenProperties
<1> USE DEF Splits
<1>4. ASSUME NEW i \in 1..Len(c) PROVE c[i] = b[i]
  <2>1. i = 1 \/ (i - 1 \in 1..Len(q) /\ 1 + (i - 1) = i)
    BY <1>2, <1>3
  <2>2. CASE i = 1
    BY <1>2, <2>2
  <2>3. CASE i - 1 \in 1..Len(q) /\ 1 + (i - 1) = i
    <3>1. c[1 + (i - 1)] = q[i - 1] /\ q[i - 1] = b[1 + (i - 1)]
      BY <1>2, <2>3
    <3> QED BY <2>3, <3>1
  <2> QED BY <2>1, <2>2, <2>3
<1>5. c = b
  BY <1>2, <1>3, <1>4, SeqEqual
<1> QED BY <1>1, <1>5
=============================================================================
