--------------------------- MODULE ChannelProofs ----------------------------
(***************************************************************************)
(* What is proved of the console as two channels: what is put goes out,    *)
(* and what comes in is read, in order and once, until a character is lost.*)
(***************************************************************************)
EXTENDS ConsoleProofs

-----------------------------------------------------------------------------
(* The place of a ring that an index is of, ...                            *)
Where(n, p) == (p % n) + 1

LEMMA WhereIs ==
  ASSUME NEW n \in Nat \ {0}
  PROVE  /\ \A p \in Nat : Where(n, p) \in 1..n
         /\ \A p, q \in Nat : q < p /\ p - q < n => Where(n, q) # Where(n, p)
<1>1. ASSUME NEW p \in Nat PROVE Where(n, p) \in 1..n
  <2>1. p % n \in 0..(n - 1)
    OBVIOUS
  <2> QED BY <2>1 DEF Where
<1>2. ASSUME NEW p \in Nat, NEW q \in Nat, q < p, p - q < n PROVE Where(n, q) # Where(n, p)
  <2>1. q <= p /\ p - q <= n /\ p # q /\ p - q # n
    BY <1>2
  <2>2. p % n # q % n
    BY <2>1, Remainders
  <2>3. p % n \in Int /\ q % n \in Int
    OBVIOUS
  <2> QED BY <2>2, <2>3 DEF Where
<1> QED BY <1>1, <1>2

LEMMA RingPlace ==
  ASSUME NEW n \in Nat \ {0}, NEW buf \in [1..n -> Data], NEW p \in Nat
  PROVE  At(buf, p) = buf[Where(n, p)] /\ At(buf, p) \in Data
<1>1. Len(buf) = n
  OBVIOUS
<1>2. Where(n, p) \in 1..n
  BY WhereIs
<1>3. At(buf, p) = buf[Where(n, p)]
  BY <1>1 DEF At, Where
<1> QED BY <1>2, <1>3

(* b is buf with x at an index.                                            *)
Placed(n, b, buf, p, x) ==
  /\ b \in [1..n -> Data] /\ b[Where(n, p)] = x
  /\ \A i \in 1..n : i # Where(n, p) => b[i] = buf[i]

LEMMA RingPlaced ==
  ASSUME NEW n \in Nat \ {0}, NEW buf \in [1..n -> Data], NEW p \in Nat, NEW x \in Data
  PROVE  Placed(n, Put(buf, p, x), buf, p, x)
<1>1. Len(buf) = n
  OBVIOUS
<1>2. Where(n, p) \in 1..n
  BY WhereIs
<1>3. PICK b : b = Put(buf, p, x)
  OBVIOUS
<1>4. b = [buf EXCEPT ![Where(n, p)] = x]
  BY <1>1, <1>3 DEF Put, Where
<1>5. /\ b \in [1..n -> Data] /\ b[Where(n, p)] = x
      /\ \A i \in 1..n : i # Where(n, p) => b[i] = buf[i]
  BY <1>2, <1>4
<1>6. Placed(n, b, buf, p, x)
  BY <1>5 DEF Placed
<1> QED BY <1>3, <1>6

(* ... and what a ring holds.                                              *)
Holding(n, r, buf, from, to) ==
  r \in Seq(Data) /\ Len(r) = to - from /\ \A i \in 1..(to - from) : r[i] = buf[Where(n, from + i - 1)]

LEMMA RingHolds ==
  ASSUME NEW n \in Nat \ {0}, NEW buf \in [1..n -> Data], NEW from \in Nat, NEW to \in Nat,
         from <= to
  PROVE  Holding(n, Ring(buf, from, to), buf, from, to)
<1>1. PICK r : r = Ring(buf, from, to)
  OBVIOUS
<1>2. r = [i \in 1..(to - from) |-> buf[Where(n, from + i - 1)]]
  <2>1. Len(buf) = n
    OBVIOUS
  <2> QED BY <1>1, <2>1 DEF Ring, Where
<1>3. \A i \in 1..(to - from) : buf[Where(n, from + i - 1)] \in Data
  <2> SUFFICES ASSUME NEW i \in 1..(to - from) PROVE buf[Where(n, from + i - 1)] \in Data
    OBVIOUS
  <2>1. from + i - 1 \in Nat
    OBVIOUS
  <2>2. Where(n, from + i - 1) \in 1..n
    BY <2>1, WhereIs
  <2> QED BY <2>2
<1>4. to - from \in Nat
  OBVIOUS
<1>5. r \in Seq(Data) /\ Len(r) = to - from
  BY <1>2, <1>3, <1>4
<1> QED BY <1>1, <1>2, <1>5 DEF Holding

LEMMA RingOnly ==
  ASSUME NEW n \in Nat \ {0}, NEW r, NEW s, NEW buf, NEW from, NEW to,
         Holding(n, r, buf, from, to), Holding(n, s, buf, from, to)
  PROVE  r = s
<1>1. /\ r \in Seq(Data) /\ s \in Seq(Data) /\ Len(r) = Len(s)
      /\ \A i \in 1..Len(r) : r[i] = s[i]
  BY DEF Holding
<1> QED BY <1>1, SeqEqual

(* A character behind those that are there disturbs none.                  *)
LEMMA RingUndisturbed ==
  ASSUME NEW n \in Nat \ {0}, NEW buf \in [1..n -> Data], NEW from \in Nat, NEW to \in Nat,
         from <= to, to - from < n, NEW x \in Data
  PROVE  Ring(Put(buf, to, x), from, to) = Ring(buf, from, to)
<1>0. PICK b : b = Put(buf, to, x)
  OBVIOUS
<1>1. /\ b \in [1..n -> Data] /\ b = Put(buf, to, x) /\ b[Where(n, to)] = x
      /\ \A i \in 1..n : i # Where(n, to) => b[i] = buf[i]
  <2>1. Placed(n, Put(buf, to, x), buf, to, x)
    BY RingPlaced
  <2> QED BY <1>0, <2>1 DEF Placed
<1>2. PICK r, s : r = Ring(b, from, to) /\ s = Ring(buf, from, to)
  OBVIOUS
<1>3. Holding(n, r, b, from, to) /\ Holding(n, s, buf, from, to)
  BY <1>1, <1>2, RingHolds
<1>4. \A i \in 1..(to - from) : b[Where(n, from + i - 1)] = buf[Where(n, from + i - 1)]
  <2> SUFFICES ASSUME NEW i \in 1..(to - from)
               PROVE  b[Where(n, from + i - 1)] = buf[Where(n, from + i - 1)]
    OBVIOUS
  <2>1. PICK q \in Nat : q = from + i - 1
    OBVIOUS
  <2>2. q < to /\ to - q < n
    BY <2>1
  <2>3. Where(n, q) # Where(n, to) /\ Where(n, q) \in 1..n /\ Where(n, to) \in 1..n
    BY <2>2, WhereIs
  <2>4. b[Where(n, q)] = buf[Where(n, q)]
    BY <1>1, <2>3
  <2> QED BY <2>1, <2>4
<1>5. Holding(n, s, b, from, to)
  BY <1>3, <1>4 DEF Holding
<1> QED BY <1>1, <1>2, <1>3, <1>5, RingOnly

(* The place behind them, too.                                             *)
LEMMA RingNext ==
  ASSUME NEW n \in Nat \ {0}, NEW buf \in [1..n -> Data], NEW from \in Nat, NEW to \in Nat,
         from <= to
  PROVE  /\ At(buf, to) \in Data
         /\ Ring(buf, from, to + 1) = Append(Ring(buf, from, to), At(buf, to))
<1>1. At(buf, to) \in Data /\ At(buf, to) = buf[Where(n, to)]
  BY RingPlace
<1>2. PICK e \in Nat : e = to + 1
  OBVIOUS
<1>3. PICK s, r, x, a : /\ s = Ring(buf, from, to) /\ r = Ring(buf, from, e) /\ x = At(buf, to)
                        /\ a = Append(s, x)
  OBVIOUS
<1>4. from <= e
  BY <1>2
<1>5. Holding(n, s, buf, from, to) /\ Holding(n, r, buf, from, e)
  BY <1>3, <1>4, RingHolds
<1>6. x \in Data /\ s \in Seq(Data)
  BY <1>1, <1>3, <1>5 DEF Holding
<1>7. /\ a \in Seq(Data) /\ Len(a) = Len(s) + 1 /\ a[Len(s) + 1] = x
      /\ \A i \in 1..Len(s) : a[i] = s[i]
  BY <1>3, <1>6, AppendProperties
<1>8. Len(s) = to - from
  BY <1>5 DEF Holding
<1>9. ASSUME NEW i \in 1..(e - from) PROVE a[i] = buf[Where(n, from + i - 1)]
  <2>1. CASE i \in 1..(to - from)
    BY <1>5, <1>7, <1>8, <2>1 DEF Holding
  <2>2. CASE i \notin 1..(to - from)
    <3>1. i = Len(s) + 1 /\ from + i - 1 = to
      BY <1>2, <1>8, <2>2
    <3> QED BY <1>1, <1>3, <1>7, <3>1
  <2> QED BY <2>1, <2>2
<1>10. Len(a) = e - from
  BY <1>2, <1>7, <1>8
<1>11. Holding(n, a, buf, from, e)
  BY <1>7, <1>9, <1>10 DEF Holding
<1>12. r = a
  BY <1>5, <1>11, RingOnly
<1> QED BY <1>1, <1>2, <1>3, <1>12

(* One more is put behind them; ...                                        *)
LEMMA RingPut ==
  ASSUME NEW n \in Nat \ {0}, NEW buf \in [1..n -> Data], NEW from \in Nat, NEW to \in Nat,
         from <= to, to - from < n, NEW x \in Data
  PROVE  Ring(Put(buf, to, x), from, to + 1) = Append(Ring(buf, from, to), x)
<1>0. PICK b : b = Put(buf, to, x)
  OBVIOUS
<1>1. /\ b \in [1..n -> Data] /\ b = Put(buf, to, x) /\ b[Where(n, to)] = x
      /\ \A i \in 1..n : i # Where(n, to) => b[i] = buf[i]
  <2>1. Placed(n, Put(buf, to, x), buf, to, x)
    BY RingPlaced
  <2> QED BY <1>0, <2>1 DEF Placed
<1>2. Ring(b, from, to + 1) = Append(Ring(b, from, to), At(b, to))
  BY <1>1, RingNext
<1>3. At(b, to) = x
  <2>1. At(b, to) = b[Where(n, to)]
    BY <1>1, RingPlace
  <2> QED BY <1>1, <2>1
<1>4. Ring(b, from, to) = Ring(buf, from, to)
  <2>1. Ring(Put(buf, to, x), from, to) = Ring(buf, from, to)
    BY RingUndisturbed
  <2> QED BY <1>1, <2>1
<1> QED BY <1>1, <1>2, <1>3, <1>4

(* ... the first ones are taken.                                           *)
LEMMA RingTakes ==
  ASSUME NEW n \in Nat \ {0}, NEW buf \in [1..n -> Data], NEW from \in Nat, NEW to \in Nat,
         NEW mid \in Nat, from <= mid, mid <= to
  PROVE  Ring(buf, from, to) = Cat(Ring(buf, from, mid), Ring(buf, mid, to))
<1>1. PICK r, s, t : /\ r = Ring(buf, from, to) /\ s = Ring(buf, from, mid)
                     /\ t = Ring(buf, mid, to)
  OBVIOUS
<1>2. from <= to
  OBVIOUS
<1>3. Holding(n, r, buf, from, to) /\ Holding(n, s, buf, from, mid) /\ Holding(n, t, buf, mid, to)
  BY <1>1, <1>2, RingHolds
<1>4. /\ s \in Seq(Data) /\ Len(s) = mid - from /\ t \in Seq(Data) /\ Len(t) = to - mid
      /\ \A i \in 1..Len(s) : s[i] = buf[Where(n, from + i - 1)]
      /\ \A i \in 1..Len(t) : t[i] = buf[Where(n, mid + i - 1)]
  BY <1>3 DEF Holding
<1>5. PICK a : a = Cat(s, t)
  OBVIOUS
<1>6. OneAfter(Data, s, t)
  BY <1>4, CatIs
<1>7. /\ a \in Seq(Data) /\ Len(a) = Len(s) + Len(t)
      /\ \A i \in 1..Len(s) : a[i] = s[i]
      /\ \A i \in 1..Len(t) : a[Len(s) + i] = t[i]
  BY <1>5, <1>6 DEF OneAfter
<1>8. ASSUME NEW i \in 1..(to - from) PROVE a[i] = buf[Where(n, from + i - 1)]
  <2>1. CASE i \in 1..Len(s)
    BY <1>4, <1>7, <2>1
  <2>2. CASE i \notin 1..Len(s)
    <3>1. PICK j \in 1..Len(t) : j = i - Len(s)
      BY <1>4, <2>2
    <3>2. Len(s) + j = i /\ mid + j - 1 = from + i - 1
      BY <1>4, <3>1
    <3> QED BY <1>4, <1>7, <3>2
  <2> QED BY <2>1, <2>2
<1>9. Len(a) = to - from
  BY <1>4, <1>7
<1>10. Holding(n, a, buf, from, to)
  BY <1>7, <1>8, <1>9 DEF Holding
<1> QED BY <1>1, <1>3, <1>5, <1>10, RingOnly

LEMMA RingNone ==
  ASSUME NEW n \in Nat \ {0}, NEW buf \in [1..n -> Data], NEW from \in Nat
  PROVE  Ring(buf, from, from) = <<>>
<1>1. Holding(n, Ring(buf, from, from), buf, from, from)
  BY RingHolds
<1> QED BY <1>1, EmptySeq DEF Holding

LEMMA RingOne ==
  ASSUME NEW n \in Nat \ {0}, NEW buf \in [1..n -> Data], NEW from \in Nat, NEW to \in Nat,
         from < to
  PROVE  /\ At(buf, from) \in Data
         /\ Ring(buf, from, to) = Cat(<<At(buf, from)>>, Ring(buf, from + 1, to))
<1>1. PICK e \in Nat : e = from + 1
  OBVIOUS
<1>2. from <= e /\ e <= to /\ from <= from
  BY <1>1
<1>3. Ring(buf, from, to) = Cat(Ring(buf, from, e), Ring(buf, e, to))
  BY <1>2, RingTakes
<1>4. At(buf, from) \in Data /\ Ring(buf, from, from + 1) = Append(Ring(buf, from, from), At(buf, from))
  BY <1>2, RingNext
<1>5. Append(<<>>, At(buf, from)) = <<At(buf, from)>>
  BY <1>4
<1> QED BY <1>1, <1>3, <1>4, <1>5, RingNone

-----------------------------------------------------------------------------
(* What a sequence of characters is on the line.                           *)
Texts == Seq(Data)
Wired(x) == IF x \in NewLines THEN <<x, CR>> ELSE <<x>>
WiredBy(s) == [p \in (1..Len(s)) \X Texts |-> Cat(p[2], Wired(s[p[1]]))]

LEMMA WiredType == \A x \in Data : Wired(x) \in Seq(Data)
<1> TAKE x \in Data
<1>1. CR \in Data
  BY Sizes
<1>2. <<x, CR>> \in Seq(Data) /\ <<x>> \in Seq(Data)
  BY <1>1
<1> QED BY <1>2 DEF Wired

LEMMA ExpandUnfold ==
  ASSUME NEW s \in Seq(Data)
  PROVE  /\ \E g \in [0..Len(s) -> Texts] :
              Unfolds(g, Len(s), <<>>, WiredBy(s)) /\ Expand(s) = g[Len(s)]
         /\ Expand(s) \in Seq(Data)
<1>0. Len(s) \in Nat /\ \A i \in 1..Len(s) : s[i] \in Data
  BY LenProperties
<1>1. WiredBy(s) \in [(1..Len(s)) \X Texts -> Texts]
  <2>1. ASSUME NEW p \in (1..Len(s)) \X Texts
        PROVE  Cat(p[2], Wired(s[p[1]])) \in Seq(Data)
    <3>1. p[1] \in 1..Len(s) /\ p[2] \in Seq(Data)
      BY DEF Texts
    <3>2. Wired(s[p[1]]) \in Seq(Data)
      BY <1>0, <3>1, WiredType
    <3> QED BY <3>1, <3>2, CatIs
  <2> QED BY <2>1 DEF WiredBy, Texts
<1>2. <<>> \in Texts
  BY DEF Texts
<1>3. PICK g \in [0..Len(s) -> Texts] : Unfolds(g, Len(s), <<>>, WiredBy(s))
  <2>1. PICK e : e = <<>>
    OBVIOUS
  <2>2. \E g \in [0..Len(s) -> Texts] : Unfolds(g, Len(s), e, WiredBy(s))
    BY <1>0, <1>1, <1>2, <2>1, Unfolding
  <2> QED BY <2>1, <2>2
<1> DEFINE E(h) == h = [i \in 0..Len(s) |->
                         IF i = 0 THEN <<>>
                         ELSE h[i - 1] \o (IF s[i] \in NewLines THEN <<s[i], CR>> ELSE <<s[i]>>)]
           f == CHOOSE h : E(h)
<1>4. Expand(s) = f[Len(s)]
  BY DEF Expand
<1>5. \A i \in 0..Len(s) : g[i] = IF i = 0 THEN <<>> ELSE Cat(g[i - 1], Wired(s[i]))
  <2> TAKE i \in 0..Len(s)
  <2>1. g[i] = IF i = 0 THEN <<>> ELSE WiredBy(s)[<<i, g[i - 1]>>]
    BY <1>3 DEF Unfolds
  <2>2. CASE i = 0
    BY <2>1, <2>2
  <2>3. CASE i # 0
    <3>1. i \in 1..Len(s) /\ i - 1 \in 0..Len(s)
      BY <1>0, <2>3
    <3>2. <<i, g[i - 1]>> \in (1..Len(s)) \X Texts
      BY <3>1
    <3>3. WiredBy(s)[<<i, g[i - 1]>>] = Cat(g[i - 1], Wired(s[i]))
      BY <3>2 DEF WiredBy
    <3> QED BY <2>1, <2>3, <3>3
  <2> QED BY <2>2, <2>3
<1>6. E(g)
  <2>1. g = [i \in 0..Len(s) |-> g[i]]
    OBVIOUS
  <2> QED BY <1>5, <2>1, Zenon DEF Cat, Wired
<1>7. E(f)
  <2> HIDE DEF E
  <2> QED BY <1>6
<1>8. \A i \in 0..Len(s) : f[i] = IF i = 0 THEN <<>> ELSE Cat(f[i - 1], Wired(s[i]))
  <2> HIDE DEF f
  <2> QED BY <1>7 DEF Cat, Wired
<1>9. \A i \in 0..Len(s) : f[i] = g[i]
  <2> DEFINE T == {k \in 0..Len(s) : f[k] = g[k]}
  <2> HIDE DEF f
  <2>1. 0 \in T
    BY <1>0, <1>5, <1>8
  <2>2. ASSUME NEW k \in 0..(Len(s) - 1), k \in T PROVE k + 1 \in T
    <3>1. k + 1 # 0 /\ k + 1 \in 0..Len(s) /\ (k + 1) - 1 = k
      BY <1>0
    <3>2. f[k + 1] = Cat(f[k], Wired(s[k + 1])) /\ g[k + 1] = Cat(g[k], Wired(s[k + 1]))
      BY <1>5, <1>8, <3>1
    <3> QED BY <2>2, <3>1, <3>2
  <2> HIDE DEF T
  <2>3. \A k \in 0..Len(s) : k \in T
    BY <1>0, <2>1, <2>2, UpTo
  <2> QED BY <2>3 DEF T
<1>10. Expand(s) = g[Len(s)] /\ g[Len(s)] \in Seq(Data)
  <2>1. Len(s) \in 0..Len(s)
    BY <1>0
  <2> QED BY <1>4, <1>9, <2>1 DEF Texts
<1> QED BY <1>3, <1>10

LEMMA ExpandNone == Expand(<<>>) = <<>>
<1>1. <<>> \in Seq(Data) /\ Len(<<>>) = 0 /\ 0 \in 0..0
  OBVIOUS
<1>2. PICK e : e = <<>>
  OBVIOUS
<1>3. PICK g : Unfolds(g, Len(e), <<>>, WiredBy(e)) /\ Expand(e) = g[Len(e)]
  BY <1>1, <1>2, ExpandUnfold
<1>4. g[0] = <<>>
  BY <1>1, <1>2, <1>3 DEF Unfolds
<1> QED BY <1>1, <1>2, <1>3, <1>4

LEMMA ExpandNext ==
  ASSUME NEW s \in Seq(Data), NEW x \in Data
  PROVE  Expand(Append(s, x)) = Cat(Expand(s), Wired(x))
<1>1. PICK n \in Nat, w \in Seq(Data) : n = Len(s) /\ w = Append(s, x)
  BY LenProperties, AppendProperties
<1>2. Len(w) = n + 1 /\ w[n + 1] = x /\ \A i \in 1..n : w[i] = s[i]
  <2>1. /\ Len(Append(s, x)) = Len(s) + 1 /\ Append(s, x)[Len(s) + 1] = x
        /\ \A i \in 1..Len(s) : Append(s, x)[i] = s[i]
    BY AppendProperties
  <2> QED BY <1>1, <2>1
<1>3. PICK g \in [0..n -> Texts] : Unfolds(g, n, <<>>, WiredBy(s)) /\ Expand(s) = g[n]
  BY <1>1, ExpandUnfold
<1>4. PICK h \in [0..(n + 1) -> Texts] :
        Unfolds(h, n + 1, <<>>, WiredBy(w)) /\ Expand(w) = h[n + 1]
  <2>1. \E h \in [0..Len(w) -> Texts] :
          Unfolds(h, Len(w), <<>>, WiredBy(w)) /\ Expand(w) = h[Len(w)]
    BY ExpandUnfold, Zenon
  <2> QED BY <1>2, <2>1
<1>5. h[n] = g[n]
  <2>1. Agree(n, g, WiredBy(w), WiredBy(s))
    <3> SUFFICES ASSUME NEW k \in 1..n
                 PROVE  WiredBy(w)[<<k, g[k - 1]>>] = WiredBy(s)[<<k, g[k - 1]>>]
      BY DEF Agree
    <3>1. g[k - 1] \in Texts /\ k \in 1..Len(s) /\ k \in 1..Len(w)
      BY <1>1, <1>2
    <3>2. /\ <<k, g[k - 1]>> \in (1..Len(s)) \X Texts
          /\ <<k, g[k - 1]>> \in (1..Len(w)) \X Texts
      BY <3>1
    <3> QED BY <1>2, <3>2 DEF WiredBy
  <2>2. PICK m, A, B, a, b : /\ m \in Nat /\ m = n + 1 /\ A = WiredBy(w) /\ B = WiredBy(s)
                             /\ a = <<>> /\ b = <<>>
    OBVIOUS
  <2>3. /\ n \in 0..m /\ Unfolds(h, m, a, A) /\ Unfolds(g, n, b, B) /\ a = b
        /\ Agree(n, g, A, B)
    BY <1>3, <1>4, <2>1, <2>2
  <2>4. m \in Nat
    BY <2>2
  <2> QED BY <2>3, <2>4, OneUnfolding
<1>6. h[n + 1] = Cat(h[n], Wired(x))
  <2>1. n + 1 \in 0..(n + 1) /\ n + 1 # 0 /\ (n + 1) - 1 = n /\ h[n] \in Texts
    OBVIOUS
  <2>2. h[n + 1] = WiredBy(w)[<<n + 1, h[n]>>]
    BY <1>4, <2>1 DEF Unfolds
  <2>3. <<n + 1, h[n]>> \in (1..Len(w)) \X Texts
    BY <1>2, <2>1
  <2>4. WiredBy(w)[<<n + 1, h[n]>>] = Cat(h[n], Wired(w[n + 1]))
    BY <2>3 DEF WiredBy
  <2> QED BY <1>2, <2>2, <2>4
<1> QED BY <1>1, <1>3, <1>4, <1>5, <1>6

LEMMA ExpandOne == \A x \in Data : Expand(<<x>>) = Wired(x)
<1> TAKE x \in Data
<1>1. PICK e, w : e = <<>> /\ w = Wired(x)
  OBVIOUS
<1>2. e \in Seq(Data) /\ Append(e, x) = <<x>> /\ w \in Seq(Data)
  BY <1>1, WiredType
<1>3. Expand(Append(e, x)) = Cat(Expand(e), w)
  BY <1>1, <1>2, ExpandNext
<1>4. Cat(<<>>, w) = w
  BY <1>2, CatIs
<1> QED BY <1>1, <1>2, <1>3, <1>4, ExpandNone

(* The one character in front of the others.                               *)
Grows(g, s) == /\ g \in [0..Len(s) -> Texts] /\ g[0] = <<>> /\ Expand(s) = g[Len(s)]
               /\ \A i \in 1..Len(s) : g[i] = Cat(g[i - 1], Wired(s[i]))

LEMMA ExpandGrows == ASSUME NEW s \in Seq(Data) PROVE \E g : Grows(g, s)
<1>1. PICK g \in [0..Len(s) -> Texts] :
        Unfolds(g, Len(s), <<>>, WiredBy(s)) /\ Expand(s) = g[Len(s)]
  BY ExpandUnfold
<1>2. Len(s) \in Nat
  BY LenProperties
<1>3. g[0] = <<>>
  BY <1>1, <1>2 DEF Unfolds
<1>4. ASSUME NEW i \in 1..Len(s) PROVE g[i] = Cat(g[i - 1], Wired(s[i]))
  <2>1. i # 0 /\ i \in 0..Len(s) /\ i - 1 \in 0..Len(s)
    BY <1>2
  <2>2. g[i] = WiredBy(s)[<<i, g[i - 1]>>]
    BY <1>1, <2>1 DEF Unfolds
  <2>3. <<i, g[i - 1]>> \in (1..Len(s)) \X Texts
    BY <2>1
  <2>4. WiredBy(s)[<<i, g[i - 1]>>] = Cat(g[i - 1], Wired(s[i]))
    BY <2>3 DEF WiredBy
  <2> QED BY <2>2, <2>4
<1>5. Grows(g, s)
  BY <1>1, <1>3, <1>4 DEF Grows
<1> QED BY <1>5

LEMMA ExpandFirst ==
  ASSUME NEW e \in Data, NEW q \in Seq(Data)
  PROVE  Expand(Cat(<<e>>, q)) = Cat(Wired(e), Expand(q))
<1>1. PICK w : w = Cat(<<e>>, q)
  OBVIOUS
<1>2. PICK n \in Nat : n = Len(q)
  BY LenProperties
<1>3. w \in Seq(Data) /\ Len(w) = n + 1 /\ w[1] = e /\ \A i \in 1..n : w[1 + i] = q[i]
  BY <1>1, <1>2, CatOne
<1>4. PICK f, g : Grows(f, w) /\ Grows(g, q)
  BY <1>3, ExpandGrows
<1>5. PICK v \in Seq(Data) : v = Wired(e)
  BY WiredType
<1>6. /\ f \in [0..(n + 1) -> Texts] /\ f[0] = <<>> /\ Expand(w) = f[n + 1]
      /\ g \in [0..n -> Texts] /\ g[0] = <<>> /\ Expand(q) = g[n]
      /\ \A i \in 1..(n + 1) : f[i] = Cat(f[i - 1], Wired(w[i]))
      /\ \A i \in 1..n : g[i] = Cat(g[i - 1], Wired(q[i]))
  BY <1>2, <1>3, <1>4 DEF Grows
<1> DEFINE T == {k \in 0..n : f[k + 1] = Cat(v, g[k])}
<1>7. 0 \in T
  <2>1. f[1] = Cat(f[0], Wired(w[1])) /\ 1 - 1 = 0
    <3>1. 1 \in 1..(n + 1)
      BY <1>2
    <3> QED BY <1>6, <3>1
  <2>2. f[1] = Cat(<<>>, v)
    BY <1>3, <1>5, <1>6, <2>1
  <2>3. Cat(<<>>, v) = v /\ Cat(v, <<>>) = v
    BY CatIs
  <2>4. f[1] = Cat(v, g[0])
    BY <1>6, <2>2, <2>3
  <2> QED BY <2>4
<1>8. ASSUME NEW k \in 0..(n - 1), k \in T PROVE k + 1 \in T
  <2>1. PICK j \in 1..n : j = k + 1
    OBVIOUS
  <2>2. j + 1 \in 1..(n + 1) /\ (j + 1) - 1 = j /\ j - 1 = k /\ k \in 0..n /\ j \in 0..n
    BY <2>1
  <2>3. f[j + 1] = Cat(f[j], Wired(w[j + 1])) /\ g[j] = Cat(g[k], Wired(q[j]))
    BY <1>6, <2>2
  <2>4. w[j + 1] = q[j] /\ q[j] \in Data
    <3>1. 1 + j = j + 1 /\ j \in 1..Len(q)
      BY <1>2
    <3>2. q[j] \in Data
      BY <3>1, ElementOfSeq
    <3> QED BY <1>3, <3>1, <3>2
  <2>5. PICK x \in Seq(Data) : x = Wired(q[j])
    BY <2>4, WiredType
  <2>6. PICK h \in Seq(Data) : h = g[k]
    <3>1. g[k] \in Texts
      BY <1>6, <2>2
    <3> QED BY <3>1 DEF Texts
  <2>7. f[j] = Cat(v, h)
    BY <1>8, <2>1, <2>6
  <2>8. Cat(Cat(v, h), x) = Cat(v, Cat(h, x))
    BY CatCat
  <2>9. f[j + 1] = Cat(v, g[j])
    BY <2>3, <2>4, <2>5, <2>6, <2>7, <2>8
  <2> QED BY <2>1, <2>2, <2>9
<1>9. \A k \in 0..n : k \in T
  <2> HIDE DEF T
  <2> QED BY <1>7, <1>8, UpTo
<1>10. f[n + 1] = Cat(v, g[n])
  BY <1>9
<1> QED BY <1>1, <1>5, <1>6, <1>10

-----------------------------------------------------------------------------
(* Who changes what is on its way out.  What the device and the driver     *)
(* hold of it stays as it is ...                                           *)
SentSame == /\ hw'.shift = hw.shift /\ hw'.tx_fifo = hw.tx_fifo /\ dev'.tx_buf = dev.tx_buf
            /\ dev'.tx_p = dev.tx_p /\ dev'.tx_c = dev.tx_c

LEMMA SentRecords ==
  ASSUME DataOK
  PROVE  /\ DOMAIN hw = {"rx_on", "tx_on", "rx_fifo", "tx_fifo", "overrun", "tx_int", "rx_int",
                         "shift"}
         /\ DOMAIN dev = {"rx_buf", "rx_p", "rx_c", "tx_buf", "tx_p", "tx_c", "tx_t"}
         /\ dev \in DevTypes /\ hw \in HwTypes
  BY DEF DataOK, DevType, HwTypes, DevTypes

LEMMA SentFrame ==
  CoreOK /\ DataOK /\ [Next]_vars =>
    \/ link \in {"com", "sam9"} /\ TxQueue
    \/ link = "rpi" /\ TxWrite
    \/ link \in {"pc", "com"} /\ IsrTx
    \/ link = "sam9" /\ IsrTxSam
    \/ LineOut
    \/ SentSame
<1> SUFFICES ASSUME CoreOK, DataOK, [Next]_vars,
                    ~(link \in {"com", "sam9"} /\ TxQueue), ~(link = "rpi" /\ TxWrite),
                    ~(link \in {"pc", "com"} /\ IsrTx), ~(link = "sam9" /\ IsrTxSam), ~LineOut
             PROVE  SentSame
  OBVIOUS
<1>0. /\ DOMAIN hw = {"rx_on", "tx_on", "rx_fifo", "tx_fifo", "overrun", "tx_int", "rx_int",
                      "shift"}
      /\ DOMAIN dev = {"rx_buf", "rx_p", "rx_c", "tx_buf", "tx_p", "tx_c", "tx_t"}
      /\ dev \in DevTypes /\ hw \in HwTypes
  BY SentRecords
<1>1. ASSUME UNCHANGED <<dev, hw>> PROVE SentSame
  BY <1>1 DEF SentSame
<1>2. CASE Drives
  <2>1. CASE RxTaskStart
    BY <1>0, <2>1 DEF RxTaskStart, SentSame
  <2>2. ASSUME NEW t, NEW from, NEW to, NEW a, NEW b, WriteBits(t, from, to, a, b) PROVE SentSame
    <3> DEFINE h == [hw EXCEPT !.rx_on = a \/ val[t] % 2 = 1]
    <3>1. h.tx_fifo = hw.tx_fifo /\ h.shift = hw.shift /\ DOMAIN h = DOMAIN hw
      BY <1>0
    <3>2. /\ hw' = IF b \/ val[t] >= 2 THEN TxEnabled(h) ELSE [h EXCEPT !.tx_on = FALSE]
          /\ UNCHANGED dev
      BY <2>2 DEF WriteBits
    <3> HIDE DEF h
    <3>3. CASE hw' = TxEnabled(h)
      <4>1. hw' = [h EXCEPT !.tx_on = TRUE, !.tx_int = h.tx_int \/ (~h.tx_on /\ h.tx_fifo = <<>>)]
        BY <3>3 DEF TxEnabled
      <4>2. hw'.tx_fifo = hw.tx_fifo /\ hw'.shift = hw.shift
        BY <1>0, <3>1, <4>1
      <4> QED BY <3>2, <4>2 DEF SentSame
    <3>4. CASE hw' = [h EXCEPT !.tx_on = FALSE]
      <4>1. hw'.tx_fifo = hw.tx_fifo /\ hw'.shift = hw.shift
        BY <1>0, <3>1, <3>4
      <4> QED BY <3>2, <4>1 DEF SentSame
    <3> QED BY <3>2, <3>3, <3>4
  <2>3. ASSUME NEW t, NEW from, NEW to, NEW a, Enable(t, from, to, a) PROVE SentSame
    BY <1>0, <2>3 DEF Enable, SentSame
  <2>4. ASSUME NEW t, NEW from, NEW to, NEW a, WriteMask(t, from, to, a) PROVE SentSame
    BY <1>0, <2>4 DEF WriteMask, SentSame
  <2>5. ASSUME NEW more, TxTaskGive(more) PROVE SentSame
    BY <1>0, <2>5 DEF TxTaskGive, SentSame
  <2>6. ASSUME NEW t, NEW from, NEW to, ReadBits(t, from, to) PROVE SentSame
    BY <1>1, <2>6 DEF ReadBits
  <2>7. CASE RxTaskCompare \/ RxTaskNext \/ RxTaskTake
    BY <1>0, <2>7 DEF RxTaskCompare, RxTaskNext, RxTaskTake, SentSame
  <2> QED BY <1>2, <2>1, <2>2, <2>3, <2>4, <2>5, <2>6, <2>7 DEF Drives
<1>3. CASE Isr16550 \/ IsrSam \/ IsrRpi
  <2>0. hw.rx_fifo # <<>> => Head(hw.rx_fifo) \in Data
    BY <1>0 DEF HwTypes
  <2>1. ASSUME hw.rx_fifo # <<>>, dev' = Received(dev, Head(hw.rx_fifo)),
               hw'.shift = hw.shift, hw'.tx_fifo = hw.tx_fifo
        PROVE  SentSame
    BY <1>0, <2>0, <2>1, ReceivedIs DEF SentSame
  <2>2. CASE IsrLine
    BY <1>0, <2>2 DEF IsrLine, SentSame
  <2>3. CASE IsrRx
    <3>1. hw.rx_fifo # <<>>
      BY <2>3 DEF IsrRx, DataOK, FifoOK
    <3> QED BY <1>0, <2>1, <2>3, <3>1 DEF IsrRx
  <2>4. CASE IsrRxSam
    BY <1>0, <1>1, <2>1, <2>4 DEF IsrRxSam, RxPending
  <2>5. CASE IsrRxPi
    <3>1. CASE /\ hw.rx_fifo # <<>> /\ dev' = Received(dev, Head(hw.rx_fifo))
               /\ hw' = [hw EXCEPT !.rx_fifo = <<>>, !.rx_int = FALSE]
      BY <1>0, <2>1, <3>1
    <3>2. CASE hw' = [hw EXCEPT !.rx_fifo = <<>>, !.rx_int = FALSE] /\ UNCHANGED dev
      BY <1>0, <3>2 DEF SentSame
    <3> QED BY <1>1, <2>5, <3>1, <3>2 DEF IsrRxPi
  <2>6. CASE IsrPi
    BY <1>0, <2>6 DEF IsrPi, SentSame
  <2>7. CASE IsrRxWake \/ Isr16550End \/ IsrSamEnd \/ IsrPiEnd
    BY <1>1, <2>7 DEF IsrRxWake, Isr16550End, IsrSamEnd, IsrPiEnd, devVars
  <2>8. /\ IsrTx => link \in {"pc", "com"}
        /\ IsrTxSam => link = "sam9"
    BY DEF IsrTx, IsrTxSam, Handler, CoreOK, PcOK, IsrPoints
  <2> QED BY <1>3, <2>2, <2>3, <2>4, <2>5, <2>6, <2>7, <2>8 DEF Isr16550, IsrSam, IsrRpi
<1>4. CASE LineIn
  <2>1. PICK x : LineIn16550(x) \/ LineInSam(x) \/ LineInPi(x)
    BY <1>4 DEF LineIn
  <2>2. CASE LineIn16550(x)
    BY <1>0, <2>2 DEF LineIn16550, SentSame
  <2>3. CASE LineInSam(x) \/ LineInPi(x)
    BY <1>0, <2>3 DEF LineInSam, LineInPi, SentSame
  <2> QED BY <2>1, <2>2, <2>3
<1>5. CASE KeyIn \/ KbdHand \/ Calls \/ Clock \/ UNCHANGED devVars
  BY <1>1, <1>5 DEF KeyIn, IsrKbd, KbdHand, Calls, Clock, devVars
<1> QED BY <1>2, <1>3, <1>4, <1>5, DevFrame

(* ... and so does what the task "stdout" holds, and what has gone out.    *)
Early == pc["stdout"] \in {"tx_func", "queue"}
Late == pc["stdout"] \in {"check", "enable", "write", "wait_tx", "sent"}
HandSame == (Early' <=> Early) /\ (Late' <=> Late) /\ UNCHANGED out

LEMMA HandFrame ==
  CoreOK /\ [Next]_vars =>
    \/ link \in {"com", "sam9"} /\ TxQueue
    \/ link = "rpi" /\ TxWrite
    \/ link = "pc" /\ TxFuncScreen
    \/ LineOut
    \/ Stdout /\ UNCHANGED <<link, devVars>>
    \/ HandSame
<1> SUFFICES ASSUME CoreOK, [Next]_vars,
                    ~(link \in {"com", "sam9"} /\ TxQueue), ~(link = "rpi" /\ TxWrite),
                    ~(link = "pc" /\ TxFuncScreen), ~LineOut,
                    ~(Stdout /\ UNCHANGED <<link, devVars>>)
             PROVE  HandSame
  OBVIOUS
<1>1. ASSUME NEW t \in Tasks \ {"stdout"}, NEW from, NEW to, Step(t, from, to), UNCHANGED out
      PROVE  HandSame
  BY <1>1, StepOthers, Names DEF HandSame, Early, Late
<1>2. ASSUME NEW from, NEW to, Step("stdout", from, to), UNCHANGED out,
             \/ from = "tx_func" /\ to = "queue"
             \/ {from, to} \subseteq {"check", "enable", "write", "wait_tx", "sent"}
      PROVE  HandSame
  BY <1>2, StepOthers, Names DEF HandSame, Early, Late
<1>3. ASSUME UNCHANGED <<pc, out>> PROVE HandSame
  BY <1>3 DEF HandSame, Early, Late
<1>4. CASE Drivers
  <2>1. ASSUME NEW t \in {"rx", "tx"}, TaskSleep(t) PROVE HandSame
    BY <1>1, <2>1, Names DEF TaskSleep
  <2>2. ASSUME NEW l, RxTaskTest(l, "compare") PROVE HandSame
    BY <1>1, <2>2, Names DEF RxTaskTest, Own
  <2>3. CASE RxTaskStart \/ RxTaskCompare \/ RxTaskNext \/ RxTaskTake
    BY <1>1, <2>3, Names DEF RxTaskStart, RxTaskCompare, RxTaskNext, RxTaskTake, Own
  <2>4. ASSUME NEW from, NEW to,
               \/ ReadBits("rx", from, to)
               \/ \E a, b : WriteBits("rx", from, to, a, b) \/ WriteMask("rx", from, to, a)
                            \/ Enable("rx", from, to, a)
        PROVE  HandSame
    BY <1>1, <2>4, Names DEF ReadBits, WriteBits, WriteMask, Enable, Own
  <2>5. ASSUME NEW more, TxTaskGive(more) PROVE HandSame
    BY <1>1, <2>5, Names DEF TxTaskGive
  <2>6. CASE TxRoom \/ TxCheck \/ TxWait
    BY <1>2, <2>6 DEF TxRoom, TxCheck, TxWait, Own
  <2>7. ASSUME NEW to \in {"write", "wait_tx", "sent"},
               \/ ReadBits("stdout", "enable", to)
               \/ \E from \in {"enable", "write"} : \E a, b :
                     \/ WriteBits("stdout", from, to, a, b) \/ WriteMask("stdout", from, to, a)
                     \/ Enable("stdout", from, to, a)
        PROVE  HandSame
    BY <1>2, <2>7 DEF ReadBits, WriteBits, WriteMask, Enable, Own
  <2>8. ASSUME NEW after, RxTaskHand(after) \/ RxTaskHandPi PROVE HandSame
    BY <1>1, <2>8, Names DEF RxTaskHand, RxTaskHandPi, RxFunc, RxStore
  <2>9. ASSUME Step("tx", "test", "sleep"), UNCHANGED out PROVE HandSame
    BY <1>1, <2>9, Names
  <2>10. CASE RxTask16550 \/ RxTaskSam \/ RxTaskPi
    BY <2>1, <2>2, <2>3, <2>4, <2>8, <2>10 DEF RxTask16550, RxTaskSam, RxTaskPi
  <2>11. CASE \/ link = "com" /\ TxFunc16550
              \/ link = "sam9" /\ TxFuncSam
              \/ link = "rpi" /\ TxFuncPi
    BY <2>6, <2>7, <2>11 DEF TxFunc16550, TxFuncSam, TxFuncPi
  <2>12. CASE TxTask16550 \/ TxTaskSam \/ TxTaskPi
    BY <2>1, <2>5, <2>9, <2>12 DEF TxTask16550, TxTaskSam, TxTaskPi
  <2> QED BY <1>4, <2>10, <2>11, <2>12 DEF Drivers
<1>5. CASE Pc
  BY <1>1, <1>5, Names DEF Pc, KbdTask, TaskSleep, KbdTest, KbdHand, RxFunc, RxStore, Own
<1>6. CASE Modules /\ UNCHANGED <<link, devVars>>
  <2>1. ASSUME NEW t \in Writers, Putchar(t) PROVE HandSame
    BY <1>1, <2>1, Names DEF Putchar, PutcharPlace, PutcharLock, PutcharStore, PutcharNext,
                             PutcharUnlock, PutcharTell, Writers
  <2>2. CASE Getchar("cli")
    BY <1>1, <2>2, Names DEF Getchar
  <2>3. ~Stdout
    BY <1>6
  <2> QED BY <1>6, <2>1, <2>2, <2>3 DEF Modules
<1>7. CASE Calls \/ Delay
  BY <1>1, <1>7, Names DEF Calls, Delay, PutcharEnter, GetcharEnter, Writers
<1>8. CASE Handles
  BY <1>3, <1>8 DEF Handles, Isr16550, IsrSam, IsrRpi, IsrLine, IsrRxWake, IsrRx, IsrTx,
       Isr16550End, IsrTxSam, IsrRxSam, IsrSamEnd, IsrPi, IsrRxPi, IsrPiEnd, IsrKbdEnd, Handler
<1>9. CASE Interrupt \/ Clock \/ LineIn \/ KeyIn \/ UNCHANGED vars
  BY <1>3, <1>9 DEF Interrupt, Clock, LineIn, KeyIn, IsrKbd, vars
<1> QED BY <1>4, <1>5, <1>6, <1>7, <1>8, <1>9 DEF Next, Goes

LEMMA MarksStay ==
  CoreOK /\ [Next]_vars => lost \subseteq lost' /\ (dropped => dropped')
<1> SUFFICES ASSUME CoreOK, [Next]_vars PROVE lost \subseteq lost' /\ (dropped => dropped')
  OBVIOUS
<1>1. lost \subseteq lost'
  <2>1. CASE Drives
    BY <2>1
       DEF Drives, RxTaskStart, ReadBits, WriteBits, RxTaskCompare, RxTaskNext, RxTaskTake,
           TxQueue, Enable, WriteMask, TxWrite, TxTaskGive, TxLoses
  <2>2. CASE Isr16550 \/ IsrSam \/ IsrRpi
    BY <2>2
       DEF Isr16550, IsrSam, IsrRpi, IsrLine, IsrRxWake, IsrRx, IsrTx, Isr16550End, IsrTxSam,
           IsrRxSam, IsrSamEnd, IsrPi, IsrRxPi, IsrPiEnd, Handler, devVars, RxLoses, RxLosesPi
  <2>3. CASE \/ LineIn \/ LineOut \/ KeyIn \/ KbdHand \/ Calls \/ Clock \/ UNCHANGED devVars
    BY <2>3 DEF LineIn, LineOut, KeyIn, KbdHand, Calls, Clock, devVars, LineIn16550,
         LineInSam, LineInPi, LineOut16550, LineOutSam, ShiftPi, LineOutPi, IsrKbd
  <2> QED BY <2>1, <2>2, <2>3, DevFrame
<1>2. dropped => dropped'
  <2>1. CASE Modules
    BY <2>1 DEF Modules, Stdout, StdoutInit, StdoutWait, StdoutEmpty, StdoutTake, StdoutNext,
         Putchar, PutcharPlace, PutcharLock, PutcharStore, PutcharNext, PutcharUnlock,
         PutcharTell, Getchar, ioVars
  <2>2. CASE Calls
    BY <2>2 DEF Calls, PutcharEnter, GetcharEnter, ioVars
  <2>3. CASE RxTaskHand("compare") \/ RxTaskHandPi \/ KbdHand
    BY <2>3 DEF RxTaskHand, RxTaskHandPi, KbdHand, RxFunc, RxStore
  <2>4. CASE IoSame
    BY <2>4 DEF IoSame
  <2> QED BY <2>1, <2>2, <2>3, <2>4, IoFrame
<1> QED BY <1>1, <1>2

(* The ring of the standard I/O is changed by its own steps only.          *)
TxIoSame == /\ io'.tx_buf = io.tx_buf /\ io'.tx_p = io.tx_p /\ io'.tx_c = io.tx_c /\ c' = c

LEMMA TxIoFrame ==
  CoreOK /\ DataOK /\ [Next]_vars =>
    \/ Stdout
    \/ \E t \in Writers : PutcharStore(t) \/ PutcharNext(t)
    \/ TxIoSame
<1> SUFFICES ASSUME CoreOK, DataOK, [Next]_vars, ~Stdout,
                    \A t \in Writers : ~PutcharStore(t) /\ ~PutcharNext(t)
             PROVE  TxIoSame
  OBVIOUS
<1>0. DOMAIN io = {"rx_buf", "rx_p", "rx_c", "tx_buf", "tx_p", "tx_c", "tx_init"}
  BY IoInts
<1>1. UNCHANGED <<io, c>> => TxIoSame
  BY DEF TxIoSame
<1>2. CASE Modules
  <2>1. ASSUME NEW t \in Writers, Putchar(t) PROVE TxIoSame
    BY <1>1, <2>1 DEF Putchar, PutcharPlace, PutcharLock, PutcharUnlock, PutcharTell, ioVars
  <2>2. CASE Getchar("cli")
    BY <1>0, <2>2 DEF Getchar, TxIoSame
  <2> QED BY <1>2, <2>1, <2>2 DEF Modules
<1>3. CASE Calls
  BY <1>1, <1>3 DEF Calls, PutcharEnter, GetcharEnter, ioVars
<1>4. ASSUME NEW t, NEW after, NEW x, RxFunc(t, after) \/ RxStore(t, after, x) PROVE TxIoSame
  BY <1>0, <1>4 DEF RxFunc, RxStore, TxIoSame
<1>5. CASE RxTaskHand("compare") \/ RxTaskHandPi \/ KbdHand
  BY <1>4, <1>5 DEF RxTaskHand, RxTaskHandPi, KbdHand
<1>6. CASE IoSame
  BY <1>1, <1>6 DEF IoSame
<1> QED BY <1>2, <1>3, <1>5, <1>6, IoFrame

-----------------------------------------------------------------------------
(* What a task puts is a character, and stands behind the others' until    *)
(* the index is moved on.                                                  *)
Putting == {"place", "lock", "put", "next"}
WriterOK == \A t \in Writers : /\ pc[t] \in Putting => ch[t] \in Chars
                               /\ pc[t] = "next" => At(io.tx_buf, io.tx_p) = ch[t]

LEMMA WriterStep == CoreOK /\ DataOK /\ IoOK /\ WriterOK /\ [Next]_vars => WriterOK'
<1> SUFFICES ASSUME CoreOK, DataOK, IoOK, WriterOK, [Next]_vars PROVE WriterOK'
  OBVIOUS
<1>0. /\ io \in IoTypes /\ io.tx_p \in Nat /\ io.tx_buf \in IoBufs /\ ch \in [Writers -> Data]
      /\ DOMAIN io = {"rx_buf", "rx_p", "rx_c", "tx_buf", "tx_p", "tx_c", "tx_init"}
      /\ IoSize \in Nat \ {0} /\ IoBufs = [1..IoSize -> Data]
  BY IoInts, Sizes DEF DataOK, IoType, IoTypes, IoBufs
<1> DEFINE PutSame == io'.tx_buf = io.tx_buf /\ io'.tx_p = io.tx_p
<1>1. ASSUME PutSame, \A t \in Writers : /\ pc'[t] \in Putting => pc[t] \in Putting /\ ch'[t] = ch[t]
                                         /\ pc'[t] = "next" => pc[t] = "next"
      PROVE  WriterOK'
  BY <1>1 DEF WriterOK, Putting
<1>2. ASSUME PutSame, UNCHANGED ch, NEW t \in Tasks, NEW from, NEW to, Step(t, from, to),
             t \in Writers /\ to \in Putting => from \in Putting /\ to # "next"
      PROVE  WriterOK'
  BY <1>1, <1>2, StepOthers, Names DEF Writers, Putting
<1>3. CASE Modules
  <2>1. CASE StdoutInit \/ StdoutWait \/ StdoutEmpty \/ StdoutTake \/ StdoutNext
    <3>1. PutSame /\ UNCHANGED ch
      BY <1>0, <2>1 DEF StdoutInit, StdoutWait, StdoutEmpty, StdoutTake, StdoutNext, ioVars
    <3> HIDE DEF PutSame
    <3>2. \E from, to : Step("stdout", from, to)
      BY <2>1 DEF StdoutInit, StdoutWait, StdoutEmpty, StdoutTake, StdoutNext
    <3> QED BY <1>2, <3>1, <3>2, Names DEF Writers
  <2>2. ASSUME NEW t \in Writers, PutcharStore(t) PROVE WriterOK'
    <3>1. /\ pc[t] = "put" /\ status[t] = "READY" /\ pc'[t] = "next"
          /\ \A u \in Tasks : u # t => pc'[u] = pc[u]
      BY <2>2, StepOthers, Names DEF PutcharStore, Writers
    <3>2. \A u \in Writers : u # t => pc[u] # "next"
      BY <3>1 DEF IoOK, LockOK, Locks, Writers
    <3>3. PICK b : b = Put(io.tx_buf, io.tx_p, ch[t])
      OBVIOUS
    <3>4. io'.tx_buf = b /\ io'.tx_p = io.tx_p /\ UNCHANGED ch /\ ch[t] \in Data
      BY <1>0, <2>2, <3>3 DEF PutcharStore
    <3>5. Placed(IoSize, b, io.tx_buf, io.tx_p, ch[t])
      BY <1>0, <3>3, <3>4, RingPlaced
    <3>6. b \in [1..IoSize -> Data] /\ b[Where(IoSize, io.tx_p)] = ch[t]
      BY <3>5 DEF Placed
    <3>7. At(b, io.tx_p) = ch[t]
      BY <1>0, <3>6, RingPlace
    <3>8. At(io'.tx_buf, io'.tx_p) = ch'[t]
      BY <3>4, <3>7
    <3>9. ASSUME NEW u \in Writers
          PROVE  /\ pc'[u] \in Putting => ch'[u] \in Chars
                 /\ pc'[u] = "next" => At(io'.tx_buf, io'.tx_p) = ch'[u]
      <4>1. CASE u = t
        BY <3>1, <3>4, <3>8, <4>1 DEF WriterOK, Putting
      <4>2. CASE u # t
        BY <3>1, <3>2, <3>4, <4>2, Names DEF WriterOK, Putting, Writers
      <4> QED BY <4>1, <4>2
    <3> QED BY <3>9 DEF WriterOK
  <2>3. ASSUME NEW t \in Writers, PutcharNext(t) PROVE WriterOK'
    <3>1. /\ pc[t] = "next" /\ pc'[t] = "unlock"
          /\ \A u \in Tasks : u # t => pc'[u] = pc[u]
      BY <2>3, StepOthers, Names DEF PutcharNext, Writers
    <3>2. \A u \in Writers : pc'[u] # "next"
      BY <3>1, Names DEF IoOK, LockOK, Locks, Writers
    <3>3. UNCHANGED ch
      BY <2>3 DEF PutcharNext
    <3> QED BY <3>1, <3>2, <3>3, Names DEF WriterOK, Writers, Putting
  <2>4. ASSUME NEW t \in Writers,
               PutcharPlace(t) \/ PutcharLock(t) \/ PutcharUnlock(t) \/ PutcharTell(t)
        PROVE  WriterOK'
    <3>1. UNCHANGED <<io, ch>>
      BY <2>4 DEF PutcharPlace, PutcharLock, PutcharUnlock, PutcharTell, ioVars
    <3>2. PICK from, to : /\ Step(t, from, to)
                          /\ to \in Putting => from \in Putting /\ to # "next"
      BY <2>4 DEF PutcharPlace, PutcharLock, PutcharUnlock, PutcharTell, Putting
    <3> QED BY <1>2, <3>1, <3>2, Names DEF Writers
  <2>5. CASE Getchar("cli")
    <3>1. PutSame /\ UNCHANGED ch
      BY <1>0, <2>5 DEF Getchar
    <3> HIDE DEF PutSame
    <3> QED BY <1>2, <2>5, <3>1, Names DEF Getchar, Putting
  <2> QED BY <1>3, <2>1, <2>2, <2>3, <2>4, <2>5 DEF Modules, Stdout, Putchar
<1>4. CASE Calls
  <2>1. ASSUME NEW t \in Writers, load[t] > 0, io.tx_init, PutcharEnter(t, load.put + 1)
        PROVE  WriterOK'
    <3>1. load.put + 1 \in Chars
      <4>1. load.put + 1 \in 1..(load.put + load.cli + load.log)
        BY <2>1 DEF DataOK, LoadType, Writers
      <4> QED BY <4>1 DEF DataOK, LoadType
    <3>2. /\ pc'[t] = "place" /\ \A u \in Tasks : u # t => pc'[u] = pc[u]
      BY <2>1, StepOthers, Names DEF PutcharEnter, Writers
    <3>3. UNCHANGED io /\ ch'[t] = load.put + 1 /\ \A u \in Writers : u # t => ch'[u] = ch[u]
      BY <1>0, <2>1 DEF PutcharEnter
    <3> QED BY <3>1, <3>2, <3>3, Names DEF WriterOK, Writers, Putting
  <2>2. CASE GetcharEnter("cli")
    BY <1>2, <2>2, Names DEF GetcharEnter, ioVars, Putting
  <2> QED BY <1>4, <2>1, <2>2 DEF Calls
<1>5. ASSUME NEW t \in {"rx", "kbd"}, NEW after, NEW x, RxFunc(t, after) \/ RxStore(t, after, x)
      PROVE  WriterOK'
  <2>1. PutSame /\ UNCHANGED ch
    BY <1>0, <1>5 DEF RxFunc, RxStore
  <2> HIDE DEF PutSame
  <2>2. PICK from, to : Step(t, from, to)
    BY <1>5 DEF RxFunc, RxStore
  <2> QED BY <1>2, <2>1, <2>2, Names DEF Writers
<1>6. CASE RxTaskHand("compare") \/ RxTaskHandPi \/ KbdHand
  BY <1>5, <1>6 DEF RxTaskHand, RxTaskHandPi, KbdHand
<1>7. CASE IoSame
  BY <1>1, <1>7 DEF IoSame, Putting
<1> QED BY <1>3, <1>4, <1>6, <1>7, IoFrame

-----------------------------------------------------------------------------
(* What is on its way out is what the driver and the device have of it,    *)
(* and what the standard I/O has.                                          *)
Sent == Cat(Cat(hw.shift, hw.tx_fifo), Ring(dev.tx_buf, dev.tx_c, dev.tx_p))
Unsent == Cat(InHand, Expand(Ring(io.tx_buf, io.tx_c, io.tx_p)))

LEMMA TxParts ==
  ASSUME DataOK, PlaceOK
  PROVE  /\ hw.shift \in Seq(Data) /\ hw.tx_fifo \in Seq(Data)
         /\ DevSize \in Nat \ {0} /\ dev.tx_buf \in [1..DevSize -> Data]
         /\ dev.tx_c \in Nat /\ dev.tx_p \in Nat /\ dev.tx_c <= dev.tx_p
         /\ IoSize \in Nat \ {0} /\ io.tx_buf \in [1..IoSize -> Data]
         /\ io.tx_c \in Nat /\ io.tx_p \in Nat /\ io.tx_c <= io.tx_p
         /\ c \in Data /\ CR \in Data
  BY Sizes DEF DataOK, DevType, HwTypes, DevTypes, DevBufs, IoType, IoTypes, IoBufs, FifoOK,
               PlaceOK

LEMMA RingSeq ==
  ASSUME NEW n \in Nat \ {0}, NEW buf \in [1..n -> Data], NEW from \in Nat, NEW to \in Nat,
         from <= to
  PROVE  Ring(buf, from, to) \in Seq(Data)
<1>1. Holding(n, Ring(buf, from, to), buf, from, to)
  BY RingHolds
<1> QED BY <1>1 DEF Holding

LEMMA InHandIs ==
  ASSUME DataOK
  PROVE  /\ InHand \in Seq(Data)
         /\ Early => InHand = Wired(c)
         /\ Late /\ c \in NewLines => InHand = <<CR>>
         /\ Late /\ c \notin NewLines => InHand = <<>>
         /\ ~Early /\ ~Late => InHand = <<>>
<1>1. c \in Data /\ CR \in Data
  BY Sizes DEF DataOK, IoType
<1>2. Expand(<<c>>) = Wired(c) /\ Wired(c) \in Seq(Data)
  BY <1>1, ExpandOne, WiredType
<1>3. <<CR>> \in Seq(Data) /\ <<>> \in Seq(Data)
  BY <1>1
<1>4. /\ Early => InHand = Expand(<<c>>)
      /\ Late /\ c \in NewLines => InHand = <<CR>>
      /\ Late /\ c \notin NewLines => InHand = <<>>
      /\ ~Early /\ ~Late => InHand = <<>>
  BY DEF InHand, Early, Late
<1> QED BY <1>2, <1>3, <1>4

LEMMA OutgoingIs ==
  DataOK /\ PlaceOK =>
    Sent \in Seq(Data) /\ Unsent \in Seq(Data) /\ Outgoing = Cat(Sent, Unsent)
<1> SUFFICES ASSUME DataOK, PlaceOK
             PROVE  Sent \in Seq(Data) /\ Unsent \in Seq(Data) /\ Outgoing = Cat(Sent, Unsent)
  OBVIOUS
<1>1. PICK s \in Seq(Data), f \in Seq(Data) : s = hw.shift /\ f = hw.tx_fifo
  BY TxParts
<1>2. PICK r \in Seq(Data) : r = Ring(dev.tx_buf, dev.tx_c, dev.tx_p)
  BY TxParts, RingSeq
<1>3. PICK q \in Seq(Data) : q = Ring(io.tx_buf, io.tx_c, io.tx_p)
  BY TxParts, RingSeq
<1>4. PICK x \in Seq(Data) : x = Expand(q)
  BY ExpandUnfold
<1>5. PICK h \in Seq(Data) : h = InHand
  BY InHandIs
<1>6. PICK a \in Seq(Data) : a = Cat(s, f)
  BY CatIs
<1>7. PICK d \in Seq(Data) : d = Cat(a, r)
  BY CatIs
<1>8. PICK u \in Seq(Data) : u = Cat(h, x)
  BY CatIs
<1>9. Sent = d /\ Unsent = u
  BY <1>1, <1>2, <1>3, <1>4, <1>5, <1>6, <1>7, <1>8 DEF Sent, Unsent
<1>10. Outgoing = Cat(Cat(d, h), x)
  BY <1>1, <1>2, <1>3, <1>4, <1>5, <1>6, <1>7 DEF Outgoing, Cat
<1>11. Cat(Cat(d, h), x) = Cat(d, Cat(h, x))
  BY CatCat
<1> QED BY <1>8, <1>9, <1>10, <1>11

LEMMA Singles == <<>> \in Seq(Data) /\ \A x \in Data : <<x>> \in Seq(Data)
  OBVIOUS

LEMMA PairIs == \A x, y \in Data : Append(<<x>>, y) = <<x, y>>
<1> TAKE x, y \in Data
<1>1. PICK a : a = <<x>>
  OBVIOUS
<1>2. a \in Seq(Data) /\ Len(a) = 1 /\ a[1] = x
  BY <1>1
<1>3. PICK b : b = Append(a, y)
  OBVIOUS
<1>4. b \in Seq(Data) /\ Len(b) = 2 /\ b[1] = x /\ b[2] = y
  BY <1>2, <1>3, AppendProperties
<1>5. PICK d : d = <<x, y>>
  OBVIOUS
<1>6. d \in Seq(Data) /\ Len(d) = 2 /\ d[1] = x /\ d[2] = y
  BY <1>5
<1>7. b = d
  BY <1>4, <1>6, SeqEqual
<1> QED BY <1>1, <1>3, <1>5, <1>7, Zenon

LEMMA Pairs == \A x, y \in Data : Cat(<<x>>, <<y>>) = <<x, y>>
<1> TAKE x, y \in Data
<1>1. PICK a : a = <<x>>
  OBVIOUS
<1>2. a \in Seq(Data)
  BY <1>1, Singles
<1>3. Cat(a, <<y>>) = Append(a, y)
  BY <1>2, CatLast
<1>4. Append(<<x>>, y) = <<x, y>>
  BY PairIs
<1>5. Cat(<<x>>, <<y>>) = Append(<<x>>, y)
  BY <1>1, <1>3, Zenon
<1> QED BY <1>4, <1>5, Zenon

(* What stays as it is.                                                    *)
LEMMA SentStays == SentSame => Sent' = Sent
  BY DEF SentSame, Sent

LEMMA UnsentStays ==
  ASSUME TxIoSame, Early' <=> Early, Late' <=> Late
  PROVE  Unsent' = Unsent
<1>1. InHand' = InHand
  BY DEF InHand, Early, Late, TxIoSame
<1> QED BY <1>1 DEF Unsent, TxIoSame

(* The driver gives the device what it has next.                           *)
LEMMA Passed ==
  ASSUME NEW s \in Seq(Data), NEW f \in Seq(Data), NEW r \in Seq(Data),
         NEW g \in Seq(Data), NEW t \in Seq(Data), Cat(f, r) = Cat(g, t)
  PROVE  Cat(Cat(s, f), r) = Cat(Cat(s, g), t)
<1>1. Cat(Cat(s, f), r) = Cat(s, Cat(f, r)) /\ Cat(Cat(s, g), t) = Cat(s, Cat(g, t))
  BY CatCat
<1> QED BY <1>1

LEMMA SentBurst ==
  ASSUME DataOK, PlaceOK, link \in {"pc", "com"}, IsrTx
  PROVE  Sent' = Sent
<1>0. PICK n \in 0..(dev.tx_p - dev.tx_c) :
        LET q == SubSeq(Ring(dev.tx_buf, dev.tx_c, dev.tx_p), 1, n)
        IN  /\ hw.tx_fifo = <<>> /\ n <= Fifo
            /\ q \in Seq(Data) /\ Len(q) = n
            /\ \A i \in 1..n : q[i] = At(dev.tx_buf, dev.tx_c + i - 1)
            /\ dev' = [dev EXCEPT !.tx_c = dev.tx_c + n]
            /\ hw' = [hw EXCEPT !.tx_fifo = q, !.tx_int = FALSE, !.tx_on = n # 0]
  BY TxBurst
<1>1. PICK q : /\ hw.tx_fifo = <<>> /\ q \in Seq(Data) /\ Len(q) = n
               /\ \A i \in 1..n : q[i] = At(dev.tx_buf, dev.tx_c + i - 1)
               /\ dev' = [dev EXCEPT !.tx_c = dev.tx_c + n]
               /\ hw' = [hw EXCEPT !.tx_fifo = q, !.tx_int = FALSE, !.tx_on = n # 0]
  BY <1>0
<1>2. PICK from \in Nat, to \in Nat, buf \in [1..DevSize -> Data], s \in Seq(Data) :
        from = dev.tx_c /\ to = dev.tx_p /\ buf = dev.tx_buf /\ s = hw.shift
  BY TxParts
<1>3. PICK mid \in Nat : mid = from + n /\ from <= mid /\ mid <= to
  BY <1>2
<1>4. /\ hw'.shift = s /\ hw'.tx_fifo = q
      /\ dev'.tx_buf = buf /\ dev'.tx_c = mid /\ dev'.tx_p = to
  BY <1>1, <1>2, <1>3, SentRecords
<1>5. DevSize \in Nat \ {0}
  BY Sizes
<1>6. q = Ring(buf, from, mid)
  <2>1. Holding(DevSize, Ring(buf, from, mid), buf, from, mid)
    BY <1>3, <1>5, RingHolds
  <2>2. ASSUME NEW i \in 1..(mid - from) PROVE q[i] = buf[Where(DevSize, from + i - 1)]
    <3>1. PICK p \in Nat : p = from + i - 1
      BY <1>3
    <3>2. At(buf, p) = buf[Where(DevSize, p)]
      BY <1>5, RingPlace
    <3> QED BY <1>1, <1>2, <1>3, <3>1, <3>2
  <2>3. Holding(DevSize, q, buf, from, mid)
    BY <1>1, <1>3, <2>2 DEF Holding
  <2> QED BY <1>5, <2>1, <2>3, RingOnly
<1>7. PICK r \in Seq(Data), t \in Seq(Data) : r = Ring(buf, from, to) /\ t = Ring(buf, mid, to)
  BY <1>3, <1>5, RingSeq
<1>8. r = Cat(q, t)
  BY <1>3, <1>5, <1>6, <1>7, RingTakes
<1>9. PICK f \in Seq(Data) : f = <<>>
  BY Singles
<1>10. Cat(f, r) = Cat(q, t)
  <2>1. Cat(<<>>, r) = r
    BY CatIs
  <2> QED BY <1>8, <1>9, <2>1
<1>11. q \in Seq(Data)
  BY <1>1
<1>12. Cat(Cat(s, f), r) = Cat(Cat(s, q), t)
  BY <1>10, <1>11, Passed
<1>13. Sent = Cat(Cat(s, f), r)
  BY <1>1, <1>2, <1>7, <1>9 DEF Sent
<1>14. Sent' = Cat(Cat(s, q), t)
  BY <1>4, <1>7 DEF Sent
<1> QED BY <1>12, <1>13, <1>14

LEMMA SentSam ==
  ASSUME DataOK, PlaceOK, IsrTxSam
  PROVE  Sent' = Sent
<1>0. CASE SentSame
  BY <1>0, SentStays
<1>1. CASE /\ SamTxPending /\ dev.tx_c # dev.tx_p
           /\ dev' = [dev EXCEPT !.tx_c = @ + 1]
           /\ hw' = [hw EXCEPT !.tx_fifo = <<At(dev.tx_buf, dev.tx_c)>>]
  <2>1. PICK from \in Nat, to \in Nat, buf \in [1..DevSize -> Data], s \in Seq(Data) :
          from = dev.tx_c /\ to = dev.tx_p /\ buf = dev.tx_buf /\ s = hw.shift
    BY TxParts
  <2>2. PICK mid \in Nat : mid = from + 1 /\ from < to /\ mid <= to
    BY <1>1, <2>1, TxParts
  <2>3. DevSize \in Nat \ {0}
    BY Sizes
  <2>4. At(buf, from) \in Data /\ Ring(buf, from, to) = Cat(<<At(buf, from)>>, Ring(buf, mid, to))
    BY <2>2, <2>3, RingOne
  <2>5. PICK q \in Seq(Data) : q = <<At(buf, from)>>
    <3>1. <<At(buf, from)>> \in Seq(Data)
      BY <2>4, Singles
    <3> QED BY <3>1, Zenon
  <2>6. PICK r \in Seq(Data), t \in Seq(Data) : r = Ring(buf, from, to) /\ t = Ring(buf, mid, to)
    <3>1. from <= to /\ mid <= to
      BY <2>2
    <3>2. Ring(buf, from, to) \in Seq(Data)
      BY <2>3, <3>1, RingSeq
    <3>3. Ring(buf, mid, to) \in Seq(Data)
      BY <2>3, <3>1, RingSeq
    <3> QED BY <3>2, <3>3, Zenon
  <2>7. PICK f \in Seq(Data) : f = <<>>
    BY Singles
  <2>8. Cat(f, r) = Cat(q, t)
    <3>1. Cat(<<>>, r) = r
      BY CatIs
    <3> QED BY <2>4, <2>5, <2>6, <2>7, <3>1
  <2>9. Cat(Cat(s, f), r) = Cat(Cat(s, q), t)
    BY <2>8, Passed
  <2>10. /\ hw'.shift = s /\ hw'.tx_fifo = q /\ hw.tx_fifo = f
         /\ dev'.tx_buf = buf /\ dev'.tx_c = mid /\ dev'.tx_p = to
    BY <1>1, <2>1, <2>2, <2>5, <2>7, SentRecords DEF SamTxPending
  <2>11. Sent = Cat(Cat(s, f), r)
    BY <2>1, <2>6, <2>10 DEF Sent
  <2>12. Sent' = Cat(Cat(s, q), t)
    BY <2>6, <2>10 DEF Sent
  <2> QED BY <2>9, <2>11, <2>12
<1>2. CASE \/ UNCHANGED <<dev, hw>>
           \/ hw' = [hw EXCEPT !.tx_on = FALSE] /\ UNCHANGED dev
  BY <1>0, <1>2, SentRecords DEF SentSame
<1> QED BY <1>1, <1>2 DEF IsrTxSam

-----------------------------------------------------------------------------
(* How much the devices hold: at most one character each, but for the      *)
(* 16550, and only the Raspberry Pi's has a register behind the first.     *)
HwOK ==
  /\ Len(hw.shift) <= 1 /\ (link # "rpi" => hw.shift = <<>>)
  /\ link \in {"sam9", "rpi"} => Len(hw.tx_fifo) <= 1
  /\ link \in {"pc", "rpi"} => dev.tx_p = 0
  /\ link = "pc" => hw.tx_fifo = <<>>

LEMMA LinkStays == [Next]_vars => UNCHANGED link
  BY DEF Next, Goes, Handles, Interrupt, Clock, Calls, Delay, LineIn, KeyIn, LineOut, vars

LEMMA HwInitially == Init => HwOK
  BY DEF Init, SamInit, PiInit, Ns16550Init, DevInit, HwInit, HwOK

LEMMA HwOKStep == CoreOK /\ DataOK /\ HwOK /\ [Next]_vars => HwOK'
<1> SUFFICES ASSUME CoreOK, DataOK, HwOK, [Next]_vars PROVE HwOK'
  OBVIOUS
<1>0. UNCHANGED link
  BY LinkStays
<1>1. /\ DOMAIN hw = {"rx_on", "tx_on", "rx_fifo", "tx_fifo", "overrun", "tx_int", "rx_int",
                      "shift"}
      /\ DOMAIN dev = {"rx_buf", "rx_p", "rx_c", "tx_buf", "tx_p", "tx_c", "tx_t"}
      /\ dev \in DevTypes /\ hw \in HwTypes
  BY SentRecords
<1>2. CASE SentSame
  BY <1>0, <1>2 DEF SentSame, HwOK
<1>3. CASE link \in {"com", "sam9"} /\ TxQueue
  BY <1>0, <1>3 DEF TxQueue, HwOK
<1>4. CASE link = "rpi" /\ TxWrite
  <2>1. hw'.tx_fifo = <<c>> /\ hw'.shift = hw.shift /\ UNCHANGED dev
    BY <1>1, <1>4 DEF TxWrite
  <2>2. Len(<<c>>) = 1
    OBVIOUS
  <2> QED BY <1>0, <1>4, <2>1, <2>2 DEF HwOK
<1>5. CASE link \in {"pc", "com"} /\ IsrTx
  <2>1. PICK n \in 0..(dev.tx_p - dev.tx_c) :
          LET q == SubSeq(Ring(dev.tx_buf, dev.tx_c, dev.tx_p), 1, n)
          IN  /\ hw.tx_fifo = <<>> /\ n <= Fifo
              /\ q \in Seq(Data) /\ Len(q) = n
              /\ \A i \in 1..n : q[i] = At(dev.tx_buf, dev.tx_c + i - 1)
              /\ dev' = [dev EXCEPT !.tx_c = dev.tx_c + n]
              /\ hw' = [hw EXCEPT !.tx_fifo = q, !.tx_int = FALSE, !.tx_on = n # 0]
    BY <1>5, TxBurst
  <2>2. PICK q : /\ q \in Seq(Data) /\ Len(q) = n
                 /\ dev' = [dev EXCEPT !.tx_c = dev.tx_c + n]
                 /\ hw' = [hw EXCEPT !.tx_fifo = q, !.tx_int = FALSE, !.tx_on = n # 0]
    BY <2>1
  <2>3. hw'.tx_fifo = q /\ hw'.shift = hw.shift /\ dev'.tx_p = dev.tx_p
    BY <1>1, <2>2
  <2>4. link = "pc" => n = 0
    <3>1. dev.tx_c \in Nat
      BY <1>1 DEF DevTypes
    <3> QED BY <3>1 DEF HwOK
  <2>5. link = "pc" => q = <<>>
    BY <2>2, <2>4, EmptySeq
  <2> QED BY <1>0, <1>5, <2>3, <2>5 DEF HwOK
<1>6. CASE link = "sam9" /\ IsrTxSam
  <2>1. PICK f : f = <<At(dev.tx_buf, dev.tx_c)>>
    OBVIOUS
  <2>2. hw'.shift = hw.shift /\ (hw'.tx_fifo = hw.tx_fifo \/ hw'.tx_fifo = f)
    BY <1>1, <1>6, <2>1 DEF IsrTxSam
  <2>3. Len(f) <= 1
    <3>1. Len(<<At(dev.tx_buf, dev.tx_c)>>) <= 1
      OBVIOUS
    <3> QED BY <2>1, <3>1
  <2>4. Len(hw.tx_fifo) <= 1 /\ hw.shift = <<>>
    BY <1>6 DEF HwOK
  <2>5. Len(hw'.tx_fifo) <= 1 /\ hw'.shift = <<>> /\ link' = "sam9"
    <3>1. Len(hw'.tx_fifo) <= 1
      BY <2>2, <2>3, <2>4, Zenon
    <3> QED BY <1>0, <1>6, <2>2, <2>4, <3>1, Zenon
  <2>6. Len(hw'.shift) <= 1
    BY <2>4, <2>5 DEF HwOK
  <2> QED BY <2>5, <2>6 DEF HwOK
<1>7. CASE LineOut
  <2>0. Len(<<>>) = 0
    OBVIOUS
  <2>1. CASE link = "com" /\ LineOut16550
    <3>1. hw'.shift = hw.shift /\ UNCHANGED dev
      BY <1>1, <2>1 DEF LineOut16550
    <3> QED BY <1>0, <2>1, <3>1 DEF HwOK
  <2>2. CASE link = "sam9" /\ LineOutSam
    <3>1. hw'.shift = hw.shift /\ hw'.tx_fifo = <<>>
      BY <1>1, <2>2 DEF LineOutSam
    <3> QED BY <1>0, <2>0, <2>2, <3>1 DEF HwOK
  <2>3. CASE link = "rpi" /\ ShiftPi
    <3>1. hw'.shift = hw.tx_fifo /\ hw'.tx_fifo = <<>> /\ UNCHANGED dev
      BY <1>1, <2>3 DEF ShiftPi
    <3> QED BY <1>0, <2>0, <2>3, <3>1 DEF HwOK
  <2>4. CASE link = "rpi" /\ LineOutPi
    <3>1. hw'.shift = <<>> /\ hw'.tx_fifo = hw.tx_fifo /\ UNCHANGED dev
      BY <1>1, <2>4 DEF LineOutPi
    <3> QED BY <1>0, <2>0, <2>4, <3>1 DEF HwOK
  <2> QED BY <1>7, <2>1, <2>2, <2>3, <2>4 DEF LineOut
<1> QED BY <1>2, <1>3, <1>4, <1>5, <1>6, <1>7, SentFrame

LEMMA HeadTail ==
  ASSUME NEW f \in Seq(Data), f # <<>>
  PROVE  /\ Head(f) \in Data /\ Tail(f) \in Seq(Data) /\ f = Cat(<<Head(f)>>, Tail(f))
         /\ Len(f) <= 1 => Tail(f) = <<>>
<1>1. PICK x, t : x = Head(f) /\ t = Tail(f)
  OBVIOUS
<1>2. /\ Len(f) \in Nat \ {0} /\ x \in Data /\ t \in Seq(Data) /\ Len(t) = Len(f) - 1
      /\ f[1] = x /\ \A i \in 1..Len(t) : t[i] = f[i + 1]
  <2>1. Len(f) \in Nat \ {0}
    BY LenProperties, EmptySeq
  <2>2. x = f[1] /\ x \in Data
    BY <1>1, <2>1, ElementOfSeq
  <2>3. t \in Seq(Data) /\ Len(t) = Len(f) - 1 /\ \A i \in 1..Len(t) : t[i] = f[i + 1]
    BY <1>1, <2>1
  <2> QED BY <2>1, <2>2, <2>3
<1>3. Splits(Data, f, x, t)
  BY <1>2 DEF Splits
<1>4. Cat(<<x>>, t) = f
  BY <1>2, <1>3, CatRest
<1>5. Len(f) <= 1 => t = <<>>
  <2>1. Len(f) <= 1 => Len(t) = 0
    BY <1>2
  <2> QED BY <1>2, <2>1, EmptySeq
<1> QED BY <1>1, <1>2, <1>4, <1>5

LEMMA FirstOff ==
  ASSUME NEW x \in Data, NEW t \in Seq(Data), NEW r \in Seq(Data)
  PROVE  /\ Cat(Cat(<<>>, Cat(<<x>>, t)), r) = Cat(<<x>>, Cat(Cat(<<>>, t), r))
         /\ Cat(Cat(<<x>>, t), r) = Cat(<<x>>, Cat(Cat(<<>>, t), r))
<1>1. PICK a \in Seq(Data) : a = <<x>>
  <2>1. <<x>> \in Seq(Data)
    BY Singles
  <2> QED BY <2>1, Zenon
<1>2. Cat(Cat(a, t), r) = Cat(a, Cat(t, r))
  BY CatCat
<1>3. Cat(<<>>, t) = t /\ Cat(a, t) \in Seq(Data)
  BY CatIs
<1>4. Cat(<<>>, Cat(a, t)) = Cat(a, t)
  BY <1>3, CatIs
<1> QED BY <1>1, <1>2, <1>3, <1>4

(* One character leaves the device, or is behind none in it.               *)
Leaves == \E x \in Data : Sent = Cat(<<x>>, Sent') /\ out' = Append(out, x)

LEMMA SentNone == ASSUME DataOK, PlaceOK, HwOK, link = "pc" PROVE Sent = <<>>
<1>1. hw.shift = <<>> /\ hw.tx_fifo = <<>> /\ dev.tx_p = 0
  BY DEF HwOK
<1>2. dev.tx_c = 0
  BY <1>1, TxParts
<1>3. Ring(dev.tx_buf, dev.tx_c, dev.tx_p) = <<>>
  BY <1>1, <1>2, TxParts, RingNone
<1>4. Cat(<<>>, <<>>) = <<>>
  BY Singles, CatIs
<1> QED BY <1>1, <1>3, <1>4 DEF Sent

LEMMA SentOut ==
  ASSUME DataOK, PlaceOK, HwOK, LineOut
  PROVE  (Sent' = Sent /\ UNCHANGED out) \/ Leaves
<1>1. PICK s \in Seq(Data), f \in Seq(Data) : s = hw.shift /\ f = hw.tx_fifo
  BY TxParts
<1>2. PICK r \in Seq(Data) : r = Ring(dev.tx_buf, dev.tx_c, dev.tx_p)
  BY TxParts, RingSeq
<1>3. Sent = Cat(Cat(s, f), r)
  BY <1>1, <1>2 DEF Sent
<1>4. UNCHANGED dev
  BY DEF LineOut, LineOut16550, LineOutSam, ShiftPi, LineOutPi
<1>5. ASSUME NEW a, NEW b, hw'.shift = a, hw'.tx_fifo = b PROVE Sent' = Cat(Cat(a, b), r)
  BY <1>2, <1>4, <1>5 DEF Sent
<1>6. CASE (link = "com" /\ LineOut16550) \/ (link = "sam9" /\ LineOutSam)
  <2>1. s = <<>> /\ f # <<>>
    BY <1>1, <1>6 DEF HwOK, LineOut16550, LineOutSam
  <2>2. PICK x \in Data, t \in Seq(Data) : /\ x = Head(f) /\ t = Tail(f) /\ f = Cat(<<x>>, t)
                                           /\ Len(f) <= 1 => t = <<>>
    BY <2>1, HeadTail
  <2>3. hw'.shift = s /\ hw'.tx_fifo = t /\ out' = Append(out, x)
    <3>1. CASE link = "com" /\ LineOut16550
      BY <1>1, <2>2, <3>1, SentRecords DEF LineOut16550
    <3>2. CASE link = "sam9" /\ LineOutSam
      <4>1. t = <<>>
        BY <1>1, <2>2, <3>2 DEF HwOK
      <4> QED BY <1>1, <2>2, <3>2, <4>1, SentRecords DEF LineOutSam
    <3> QED BY <1>6, <3>1, <3>2
  <2>4. Sent' = Cat(Cat(<<>>, t), r)
    BY <1>5, <2>1, <2>3
  <2>5. Cat(Cat(<<>>, Cat(<<x>>, t)), r) = Cat(<<x>>, Cat(Cat(<<>>, t), r))
    BY FirstOff
  <2>6. Sent = Cat(<<x>>, Sent')
    BY <1>3, <2>1, <2>2, <2>4, <2>5, Zenon
  <2> QED BY <2>3, <2>6 DEF Leaves
<1>7. CASE link = "rpi" /\ ShiftPi
  <2>1. s = <<>> /\ hw'.shift = f /\ hw'.tx_fifo = <<>> /\ UNCHANGED out
    BY <1>1, <1>7, SentRecords DEF ShiftPi
  <2>2. Sent' = Cat(Cat(f, <<>>), r)
    BY <1>5, <2>1
  <2>3. Cat(f, <<>>) = f /\ Cat(<<>>, f) = f
    BY CatIs
  <2> QED BY <1>3, <2>1, <2>2, <2>3, Zenon
<1>8. CASE link = "rpi" /\ LineOutPi
  <2>1. s # <<>> /\ Len(s) <= 1
    BY <1>1, <1>8 DEF LineOutPi, HwOK
  <2>2. PICK x \in Data, t \in Seq(Data) : x = Head(s) /\ s = Cat(<<x>>, t) /\ t = <<>>
    BY <2>1, HeadTail
  <2>3. x = s[1]
    BY <2>1, <2>2
  <2>4. hw'.shift = <<>> /\ hw'.tx_fifo = f /\ out' = Append(out, x)
    BY <1>1, <1>8, <2>3, SentRecords DEF LineOutPi
  <2>5. s = <<x>>
    <3>1. <<x>> \in Seq(Data)
      BY Singles
    <3>2. Cat(<<x>>, <<>>) = <<x>>
      BY <3>1, CatIs
    <3> QED BY <2>2, <3>2, Zenon
  <2>6. Sent' = Cat(Cat(<<>>, f), r)
    BY <1>5, <2>4
  <2>7. Cat(Cat(<<x>>, f), r) = Cat(<<x>>, Cat(Cat(<<>>, f), r))
    BY FirstOff
  <2>8. Sent = Cat(<<x>>, Sent')
    BY <1>3, <2>5, <2>6, <2>7, Zenon
  <2> QED BY <2>4, <2>8 DEF Leaves
<1> QED BY <1>6, <1>7, <1>8 DEF LineOut

(* The driver takes the character that was in hand, ...                    *)
LEMMA UnsentOut ==
  ASSUME DataOK, PlaceOK, TxIoSame, Early, Late'
  PROVE  Unsent' \in Seq(Data) /\ Unsent = Cat(<<c>>, Unsent')
<1>1. PICK x \in Data : x = c
  BY TxParts
<1>2. PICK r \in Seq(Data) : r = Expand(Ring(io.tx_buf, io.tx_c, io.tx_p))
  <2>1. Ring(io.tx_buf, io.tx_c, io.tx_p) \in Seq(Data)
    BY TxParts, RingSeq
  <2> QED BY <2>1, ExpandUnfold
<1>3. InHand = Wired(x)
  BY <1>1, InHandIs
<1>4. InHand' = IF x \in NewLines THEN <<CR>> ELSE <<>>
  BY <1>1 DEF InHand, Late, TxIoSame
<1>5. PICK h \in Seq(Data) : h = InHand'
  <2>1. <<CR>> \in Seq(Data) /\ <<>> \in Seq(Data)
    BY TxParts, Singles
  <2> QED BY <1>4, <2>1
<1>6. PICK a \in Seq(Data) : a = <<x>>
  <2>1. <<x>> \in Seq(Data)
    BY Singles
  <2> QED BY <2>1, Zenon
<1>7. Wired(x) = Cat(a, h)
  <2>1. CASE x \in NewLines
    <3>1. Wired(x) = <<x, CR>> /\ h = <<CR>>
      BY <1>4, <1>5, <2>1 DEF Wired
    <3>2. Cat(<<x>>, <<CR>>) = <<x, CR>>
      BY TxParts, Pairs
    <3> QED BY <1>6, <3>1, <3>2, Zenon
  <2>2. CASE x \notin NewLines
    <3>1. Wired(x) = <<x>> /\ h = <<>>
      BY <1>4, <1>5, <2>2 DEF Wired
    <3>2. Cat(a, <<>>) = a
      BY CatIs
    <3> QED BY <1>6, <3>1, <3>2
  <2> QED BY <2>1, <2>2
<1>8. Unsent = Cat(Cat(a, h), r)
  BY <1>2, <1>3, <1>7 DEF Unsent
<1>9. Unsent' = Cat(h, r)
  BY <1>2, <1>5 DEF Unsent, TxIoSame
<1>10. Cat(Cat(a, h), r) = Cat(a, Cat(h, r)) /\ Cat(h, r) \in Seq(Data)
  BY CatCat, CatIs
<1> QED BY <1>1, <1>6, <1>8, <1>9, <1>10

(* ... and has it behind what it has already, unless that was overwritten. *)
LEMMA SentPut ==
  ASSUME DataOK, PlaceOK, HwOK, "tx" \notin lost',
         (link \in {"com", "sam9"} /\ TxQueue) \/ (link = "rpi" /\ TxWrite)
  PROVE  Sent' = Cat(Sent, <<c>>)
<1>1. PICK s \in Seq(Data), f \in Seq(Data) : s = hw.shift /\ f = hw.tx_fifo
  BY TxParts
<1>2. PICK r \in Seq(Data) : r = Ring(dev.tx_buf, dev.tx_c, dev.tx_p)
  BY TxParts, RingSeq
<1>3. Sent = Cat(Cat(s, f), r)
  BY <1>1, <1>2 DEF Sent
<1>4. PICK x \in Data : x = c
  BY TxParts
<1>5. CASE TxQueue
  <2>1. PICK n \in Nat \ {0}, from \in Nat, to \in Nat :
          n = DevSize /\ from = dev.tx_c /\ to = dev.tx_p /\ from <= to
    BY TxParts
  <2>2. PICK buf \in [1..n -> Data] : buf = dev.tx_buf
    BY <2>1, TxParts
  <2>3. to - from < n
    <3>1. Len(buf) = n
      OBVIOUS
    <3>2. dev.tx_p - dev.tx_c < Len(dev.tx_buf)
      BY <1>5 DEF TxQueue, TxLoses
    <3> QED BY <2>1, <2>2, <3>1, <3>2
  <2>4. Ring(Put(buf, to, x), from, to + 1) = Append(r, x)
    <3>1. from <= to /\ to - from < n
      BY <2>1, <2>3
    <3>2. Ring(Put(buf, to, x), from, to + 1) = Append(Ring(buf, from, to), x)
      BY <3>1, RingPut
    <3> QED BY <1>2, <2>1, <2>2, <3>2
  <2>5. /\ dev'.tx_buf = Put(buf, to, x) /\ dev'.tx_c = from /\ dev'.tx_p = to + 1
        /\ UNCHANGED hw
    BY <1>4, <1>5, <2>1, <2>2, SentRecords, QueuedIs DEF TxQueue
  <2>6. Sent' = Cat(Cat(s, f), Append(r, x))
    BY <1>1, <2>4, <2>5 DEF Sent
  <2>7. PICK d \in Seq(Data) : d = Cat(s, f)
    BY CatIs
  <2>8. Append(Cat(d, r), x) = Cat(d, Append(r, x))
    BY CatAppend
  <2>9. Cat(Cat(d, r), <<x>>) = Append(Cat(d, r), x)
    <3>1. Cat(d, r) \in Seq(Data)
      BY CatIs
    <3> QED BY <3>1, CatLast
  <2> QED BY <1>3, <1>4, <2>6, <2>7, <2>8, <2>9
<1>6. CASE link = "rpi" /\ TxWrite
  <2>1. hw.tx_fifo = <<>>
    BY <1>6 DEF TxWrite
  <2>2. dev.tx_p = 0 /\ dev.tx_c = 0
    BY <1>6, TxParts DEF HwOK
  <2>3. r = <<>>
    BY <1>2, <2>2, TxParts, RingNone
  <2>4. hw'.shift = s /\ hw'.tx_fifo = <<x>> /\ UNCHANGED dev
    BY <1>1, <1>4, <1>6, SentRecords DEF TxWrite
  <2>5. Sent' = Cat(Cat(s, <<x>>), <<>>)
    BY <1>2, <2>3, <2>4 DEF Sent
  <2>6. PICK a \in Seq(Data) : a = <<x>>
    <3>1. <<x>> \in Seq(Data)
      BY Singles
    <3> QED BY <3>1, Zenon
  <2>7. Cat(s, <<>>) = s /\ Cat(s, a) \in Seq(Data)
    BY CatIs
  <2>8. Cat(Cat(s, a), <<>>) = Cat(s, a)
    BY <2>7, CatIs
  <2>9. Sent = s
    BY <1>1, <1>3, <2>1, <2>3, <2>7, Zenon
  <2> QED BY <1>4, <2>5, <2>6, <2>8, <2>9
<1> QED BY <1>5, <1>6

(* What stdout_task() does with a character leaves it in its place.        *)
LEMMA StdoutKeeps ==
  ASSUME CoreOK, DataOK, PlaceOK, Stdout
  PROVE  Unsent' = Unsent
<1>0. DOMAIN io = {"rx_buf", "rx_p", "rx_c", "tx_buf", "tx_p", "tx_c", "tx_init"}
  BY IoInts
<1>1. CASE StdoutInit \/ StdoutWait \/ StdoutEmpty
  <2>1. TxIoSame
    BY <1>0, <1>1 DEF StdoutInit, StdoutWait, StdoutEmpty, ioVars, TxIoSame
  <2>2. ~Early /\ ~Late /\ ~Early' /\ ~Late'
    <3>1. PICK from \in {"init", "wait", "loop"}, to \in {"wait", "loop"} : Step("stdout", from, to)
      BY <1>1 DEF StdoutInit, StdoutWait, StdoutEmpty
    <3>2. pc["stdout"] = from /\ pc'["stdout"] = to
      BY <3>1, StepOthers, Names
    <3> QED BY <3>2 DEF Early, Late
  <2> QED BY <2>1, <2>2, UnsentStays
<1>2. CASE StdoutTake
  <2>1. PICK n \in Nat \ {0}, from \in Nat, to \in Nat :
          n = IoSize /\ from = io.tx_c /\ to = io.tx_p /\ from <= to
    BY TxParts
  <2>2. PICK buf \in [1..n -> Data] : buf = io.tx_buf
    BY <2>1, TxParts
  <2>3. from < to
    BY <1>2, <2>1 DEF StdoutTake
  <2>4. PICK x : x = At(buf, from)
    OBVIOUS
  <2>5. x \in Data /\ Ring(buf, from, to) = Cat(<<x>>, Ring(buf, from + 1, to))
    BY <2>3, <2>4, RingOne
  <2>6. PICK e \in Nat : e = from + 1 /\ e <= to
    BY <2>3
  <2>7. PICK r \in Seq(Data) : r = Ring(buf, e, to)
    BY <2>6, RingSeq
  <2>8. Expand(Cat(<<x>>, r)) = Cat(Wired(x), Expand(r))
    BY <2>5, ExpandFirst
  <2>9. PICK v \in Seq(Data) : v = Cat(Wired(x), Expand(r))
    <3>1. Wired(x) \in Seq(Data) /\ Expand(r) \in Seq(Data)
      BY <2>5, WiredType, ExpandUnfold
    <3> QED BY <3>1, CatIs
  <2>10. pc["stdout"] = "loop" /\ pc'["stdout"] = "tx_func"
    BY <1>2, StepOthers, Names DEF StdoutTake
  <2>11. InHand = <<>>
    BY <2>10 DEF InHand
  <2>12. Unsent = v
    <3>1. Unsent = Cat(<<>>, v)
      BY <2>1, <2>2, <2>5, <2>6, <2>7, <2>8, <2>9, <2>11 DEF Unsent
    <3>2. Cat(<<>>, v) = v
      BY CatIs
    <3> QED BY <3>1, <3>2
  <2>13. io'.tx_buf = buf /\ io'.tx_p = to /\ io'.tx_c = e /\ c' = x
    BY <1>0, <1>2, <2>1, <2>2, <2>4, <2>6 DEF StdoutTake
  <2>14. InHand' = Wired(x)
    <3>1. InHand' = Expand(<<x>>)
      BY <2>10, <2>13 DEF InHand
    <3> QED BY <2>5, <3>1, ExpandOne
  <2>15. Unsent' = Cat(Wired(x), Expand(r))
    BY <2>7, <2>13, <2>14 DEF Unsent
  <2> QED BY <2>9, <2>12, <2>15
<1>3. CASE StdoutNext
  <2>1. UNCHANGED io /\ pc["stdout"] = "sent"
    BY <1>3, StepOthers, Names DEF StdoutNext
  <2>2. InHand' = InHand
    <3>1. CASE c \in NewLines /\ Step("stdout", "sent", "tx_func") /\ c' = CR
      <4>1. InHand = <<CR>>
        BY <2>1, <3>1 DEF InHand
      <4>2. pc'["stdout"] = "tx_func"
        BY <3>1, StepOthers, Names
      <4>3. InHand' = Expand(<<CR>>)
        BY <3>1, <4>2 DEF InHand
      <4>4. CR \in Data /\ CR \notin NewLines
        BY Sizes, ConsoleAssumption
      <4>5. Wired(CR) = <<CR>>
        BY <4>4 DEF Wired
      <4> QED BY <4>1, <4>3, <4>4, <4>5, ExpandOne
    <3>2. CASE c \notin NewLines /\ Step("stdout", "sent", "loop")
      <4>1. pc'["stdout"] = "loop"
        BY <3>2, StepOthers, Names
      <4> QED BY <2>1, <3>2, <4>1 DEF InHand
    <3> QED BY <1>3, <3>1, <3>2 DEF StdoutNext
  <2> QED BY <2>1, <2>2 DEF Unsent
<1> QED BY <1>1, <1>2, <1>3 DEF Stdout

(* A character is stored where none that waits is, and is one of them when *)
(* the index is moved on.                                                  *)
LEMMA WriterHand ==
  ASSUME CoreOK, NEW t \in Writers, PutcharStore(t) \/ PutcharNext(t)
  PROVE  InHand' = InHand
<1>1. PICK from, to : Step(t, from, to)
  BY DEF PutcharStore, PutcharNext
<1>2. pc'["stdout"] = pc["stdout"] /\ UNCHANGED c
  BY <1>1, StepOthers, Names DEF PutcharStore, PutcharNext, Writers
<1> QED BY <1>2 DEF InHand

LEMMA StoreKeeps ==
  ASSUME CoreOK, DataOK, PlaceOK, NEW t \in Writers, PutcharStore(t)
  PROVE  Unsent' = Unsent
<1>0. /\ DOMAIN io = {"rx_buf", "rx_p", "rx_c", "tx_buf", "tx_p", "tx_c", "tx_init"}
      /\ count_now["tx_buf"] \in Nat
  BY IoInts DEF Sems
<1>1. PICK n \in Nat \ {0}, from \in Nat, to \in Nat :
        n = IoSize /\ from = io.tx_c /\ to = io.tx_p /\ from <= to
  BY TxParts
<1>2. PICK buf \in [1..n -> Data] : buf = io.tx_buf
  BY <1>1, TxParts
<1>3. to - from < n
  <2>1. Hand(t) = 1
    <3>1. pc[t] = "put"
      BY StepOthers, Names DEF PutcharStore, Writers
    <3> QED BY <3>1 DEF Hand
  <2>2. Hand("log") \in {0, 1} /\ Hand("cli") \in {0, 1} /\ OutHand \in {0, 1}
    BY DEF Hand, OutHand
  <2>3. Hand("log") + Hand("cli") >= 1
    BY <2>1, <2>2 DEF Writers
  <2>4. PICK k \in Nat, o \in Nat, a \in Nat, b \in Nat :
          k = count_now["tx_buf"] /\ o = OutHand /\ a = Hand("log") /\ b = Hand("cli")
    BY <1>0, <2>2
  <2>5. k + (to - from) + o + a + b = n /\ a + b >= 1
    <3>1. count_now["tx_buf"] + (io.tx_p - io.tx_c) + OutHand + Hand("log") + Hand("cli") = IoSize
      BY DEF PlaceOK
    <3> QED BY <1>1, <2>3, <2>4, <3>1
  <2> QED BY <2>5
<1>4. PICK x \in Data : x = ch[t]
  BY DEF DataOK, IoType
<1>5. Ring(Put(buf, to, x), from, to) = Ring(buf, from, to)
  <2>1. from <= to
    BY <1>1
  <2> QED BY <1>3, <2>1, RingUndisturbed
<1>6. io'.tx_buf = Put(buf, to, x) /\ io'.tx_c = from /\ io'.tx_p = to
  BY <1>0, <1>1, <1>2, <1>4 DEF PutcharStore
<1>7. InHand' = InHand
  BY WriterHand
<1>8. Unsent = Cat(InHand, Expand(Ring(buf, from, to)))
  BY <1>1, <1>2 DEF Unsent
<1>9. Unsent' = Cat(InHand, Expand(Ring(Put(buf, to, x), from, to)))
  BY <1>6, <1>7 DEF Unsent
<1> QED BY <1>5, <1>8, <1>9, Zenon

LEMMA NextPuts ==
  ASSUME CoreOK, DataOK, PlaceOK, WriterOK, NEW t \in Writers, PutcharNext(t)
  PROVE  ch[t] \in Chars /\ Unsent' = Cat(Unsent, Wired(ch[t]))
<1>0. DOMAIN io = {"rx_buf", "rx_p", "rx_c", "tx_buf", "tx_p", "tx_c", "tx_init"}
  BY IoInts
<1>1. PICK n \in Nat \ {0}, from \in Nat, to \in Nat :
        n = IoSize /\ from = io.tx_c /\ to = io.tx_p /\ from <= to
  BY TxParts
<1>2. PICK buf \in [1..n -> Data] : buf = io.tx_buf
  BY <1>1, TxParts
<1>3. ch[t] \in Chars /\ At(buf, to) = ch[t]
  <2>1. pc[t] = "next"
    BY StepOthers, Names DEF PutcharNext, Writers
  <2> QED BY <1>1, <1>2, <2>1 DEF WriterOK, Putting
<1>4. PICK x \in Data : x = ch[t]
  BY <1>3, Sizes
<1>5. PICK r \in Seq(Data) : r = Ring(buf, from, to)
  BY <1>1, RingSeq
<1>6. Ring(buf, from, to + 1) = Append(r, x)
  <2>1. from <= to
    BY <1>1
  <2>2. Ring(buf, from, to + 1) = Append(Ring(buf, from, to), At(buf, to))
    BY <2>1, RingNext
  <2> QED BY <1>3, <1>4, <1>5, <2>2
<1>7. Expand(Append(r, x)) = Cat(Expand(r), Wired(x))
  BY ExpandNext
<1>8. PICK h \in Seq(Data) : h = InHand /\ h = InHand'
  BY InHandIs, WriterHand
<1>9. Unsent = Cat(h, Expand(r))
  BY <1>1, <1>2, <1>5, <1>8 DEF Unsent
<1>10. io'.tx_buf = buf /\ io'.tx_c = from /\ io'.tx_p = to + 1
  BY <1>0, <1>1, <1>2 DEF PutcharNext
<1>11. Unsent' = Cat(h, Expand(Append(r, x)))
  BY <1>6, <1>8, <1>10 DEF Unsent
<1>12. PICK e \in Seq(Data), w \in Seq(Data) : e = Expand(r) /\ w = Wired(x)
  BY ExpandUnfold, WiredType
<1>13. Cat(Cat(h, e), w) = Cat(h, Cat(e, w))
  BY CatCat
<1> QED BY <1>3, <1>4, <1>7, <1>9, <1>11, <1>12, <1>13

-----------------------------------------------------------------------------
(* What a step does to all that is on its way out, until the driver has    *)
(* overwritten some of it.                                                 *)
TxStays == Outgoing' = Outgoing /\ UNCHANGED out
TxDelivers == \E x \in Data, q \in Seq(Data) :
                 Outgoing = Cat(<<x>>, q) /\ Outgoing' = q /\ out' = Append(out, x)
TxPuts == \E x \in Chars : Outgoing' = Cat(Outgoing, Wired(x)) /\ UNCHANGED out

TxInv == ConsoleInv /\ WriterOK /\ HwOK

LEMMA TxInvInit == Init => TxInv
<1>1. Init => WriterOK
  BY Names DEF Init, WriterOK, Putting, Writers
<1> QED BY <1>1, ConsoleInit, HwInitially DEF TxInv

LEMMA TxInvStep == TxInv /\ [Next]_vars => TxInv'
  BY ConsoleStep, WriterStep, HwOKStep DEF TxInv, ConsoleInv, PlacesInv

LEMMA OutStep ==
  TxInv /\ [Next]_vars /\ "tx" \notin lost' => TxStays \/ TxDelivers \/ TxPuts
<1> SUFFICES ASSUME TxInv, [Next]_vars, "tx" \notin lost'
             PROVE  TxStays \/ TxDelivers \/ TxPuts
  OBVIOUS
<1>0. CoreOK /\ DataOK /\ PlaceOK /\ WriterOK /\ HwOK /\ (DataOK /\ PlaceOK)'
  BY TxInvStep DEF TxInv, ConsoleInv, PlacesInv, IoOK
<1>1. PICK s \in Seq(Data), u \in Seq(Data) : s = Sent /\ u = Unsent /\ Outgoing = Cat(s, u)
  BY <1>0, OutgoingIs
<1>2. Sent' \in Seq(Data) /\ Unsent' \in Seq(Data) /\ Outgoing' = Cat(Sent', Unsent')
  <2>1. (DataOK /\ PlaceOK =>
          Sent \in Seq(Data) /\ Unsent \in Seq(Data) /\ Outgoing = Cat(Sent, Unsent))'
    BY OutgoingIs, PTL
  <2> QED BY <1>0, <2>1
<1>3. ASSUME Sent' = Sent, Unsent' = Unsent, UNCHANGED out PROVE TxStays
  BY <1>1, <1>2, <1>3 DEF TxStays
<1>4. CASE (link \in {"com", "sam9"} /\ TxQueue) \/ (link = "rpi" /\ TxWrite)
  <2>1. PICK to \in {"check", "enable"}, from \in {"queue", "tx_func"} : Own("stdout", from, to)
    BY <1>4 DEF TxQueue, TxWrite
  <2>2. Early /\ Late' /\ TxIoSame /\ UNCHANGED out
    BY <1>0, <2>1, StepOthers, Names DEF Own, Early, Late, TxIoSame, ioVars
  <2>3. Unsent' \in Seq(Data) /\ u = Cat(<<c>>, Unsent')
    BY <1>0, <1>1, <2>2, UnsentOut
  <2>4. Sent' = Cat(s, <<c>>)
    BY <1>0, <1>1, <1>4, SentPut
  <2>5. PICK a \in Seq(Data), v \in Seq(Data) : a = <<c>> /\ v = Unsent'
    <3>1. <<c>> \in Seq(Data)
      BY <1>0, TxParts, Singles
    <3> QED BY <2>3, <3>1, Zenon
  <2>6. Cat(Cat(s, a), v) = Cat(s, Cat(a, v))
    BY CatCat
  <2>7. Outgoing' = Outgoing
    BY <1>1, <1>2, <2>3, <2>4, <2>5, <2>6, Zenon
  <2> QED BY <2>2, <2>7 DEF TxStays
<1>5. CASE LineOut
  <2>1. TxIoSame /\ UNCHANGED pc
    BY <1>5 DEF LineOut, TxIoSame, ioVars
  <2>2. Unsent' = Unsent
    BY <2>1, UnsentStays DEF Early, Late
  <2>3. CASE Leaves
    <3>1. PICK x \in Data : s = Cat(<<x>>, Sent') /\ out' = Append(out, x)
      BY <1>1, <2>3 DEF Leaves
    <3>2. PICK a \in Seq(Data), t \in Seq(Data) : a = <<x>> /\ t = Sent'
      <4>1. <<x>> \in Seq(Data)
        BY Singles
      <4> QED BY <1>2, <4>1, Zenon
    <3>3. Cat(Cat(a, t), u) = Cat(a, Cat(t, u))
      BY CatCat
    <3>4. PICK q \in Seq(Data) : q = Cat(t, u)
      BY CatIs
    <3>5. Outgoing' = q
      BY <1>1, <1>2, <2>2, <3>2, <3>4
    <3>6. Outgoing = Cat(<<x>>, q)
      BY <1>1, <3>1, <3>2, <3>3, <3>4, Zenon
    <3> QED BY <3>1, <3>5, <3>6 DEF TxDelivers
  <2> QED BY <1>0, <1>3, <1>5, <2>2, <2>3, SentOut
<1>6. CASE (link \in {"pc", "com"} /\ IsrTx) \/ (link = "sam9" /\ IsrTxSam)
  <2>1. TxIoSame /\ UNCHANGED <<pc, out>>
    BY <1>6 DEF IsrTx, IsrTxSam, Handler, TxIoSame, ioVars
  <2>2. Unsent' = Unsent
    BY <2>1, UnsentStays DEF Early, Late
  <2>3. Sent' = Sent
    BY <1>0, <1>6, SentBurst, SentSam
  <2> QED BY <1>3, <2>1, <2>2, <2>3
<1>7. CASE SentSame
  <2>0. Sent' = Sent
    BY <1>7, SentStays
  <2>1. CASE Stdout
    <3>1. UNCHANGED out
      BY <2>1 DEF Stdout, StdoutInit, StdoutWait, StdoutEmpty, StdoutTake, StdoutNext
    <3> QED BY <1>0, <1>3, <2>0, <2>1, <3>1, StdoutKeeps
  <2>2. ASSUME NEW t \in Writers, PutcharStore(t) PROVE TxStays
    <3>1. UNCHANGED out
      BY <2>2 DEF PutcharStore
    <3> QED BY <1>0, <1>3, <2>0, <2>2, <3>1, StoreKeeps
  <2>3. ASSUME NEW t \in Writers, PutcharNext(t) PROVE TxPuts
    <3>1. UNCHANGED out
      BY <2>3 DEF PutcharNext
    <3>2. PICK x \in Chars : x = ch[t] /\ Unsent' = Cat(u, Wired(x))
      BY <1>0, <1>1, <2>3, NextPuts
    <3>3. PICK w \in Seq(Data) : w = Wired(x)
      BY Sizes, WiredType
    <3>4. Cat(Cat(s, u), w) = Cat(s, Cat(u, w))
      BY CatCat
    <3>5. Outgoing' = Cat(Outgoing, Wired(x))
      BY <1>1, <1>2, <2>0, <3>2, <3>3, <3>4, Zenon
    <3> QED BY <3>1, <3>5 DEF TxPuts
  <2>4. CASE TxIoSame /\ link = "pc" /\ TxFuncScreen
    <3>1. Early /\ Late' /\ out' = Append(out, c)
      BY <1>0, <2>4, StepOthers, Names DEF TxFuncScreen, Early, Late
    <3>2. Unsent' \in Seq(Data) /\ u = Cat(<<c>>, Unsent')
      BY <1>0, <1>1, <2>4, <3>1, UnsentOut
    <3>3. s = <<>> /\ Sent' = <<>>
      BY <1>0, <1>1, <2>0, <2>4, SentNone
    <3>4. PICK q \in Seq(Data) : q = Unsent'
      BY <3>2
    <3>5. Cat(<<>>, u) = u /\ Cat(<<>>, q) = q
      BY CatIs
    <3>6. Outgoing = Cat(<<c>>, q)
      BY <1>1, <3>2, <3>3, <3>4, <3>5, Zenon
    <3>7. Outgoing' = q
      BY <1>2, <3>3, <3>4, <3>5, Zenon
    <3>8. c \in Data
      BY <1>0, TxParts
    <3> QED BY <3>1, <3>6, <3>7, <3>8 DEF TxDelivers
  <2>5. CASE TxIoSame /\ HandSame
    BY <1>3, <2>0, <2>5, UnsentStays DEF HandSame
  <2>6. \/ Stdout
        \/ \E t \in Writers : PutcharStore(t) \/ PutcharNext(t)
        \/ TxIoSame
    BY <1>0, TxIoFrame
  <2> QED BY <1>0, <1>4, <1>5, <2>1, <2>2, <2>3, <2>4, <2>5, <2>6, HandFrame
<1> QED BY <1>0, <1>4, <1>5, <1>6, <1>7, SentFrame

LEMMA TxSteps ==
  TxInv /\ [Next]_vars => [Tx!Next]_<<Outgoing, out, "tx" \in lost>>
<1> SUFFICES ASSUME TxInv, [Next]_vars
             PROVE  [Tx!Next]_<<Outgoing, out, "tx" \in lost>>
  OBVIOUS
<1>1. CASE "tx" \in lost'
  BY <1>1 DEF Tx!Next
<1>2. CASE "tx" \notin lost'
  <2>1. "tx" \notin lost
    BY <1>2, MarksStay DEF TxInv, ConsoleInv, PlacesInv
  <2>2. ("tx" \in lost)' = ("tx" \in lost)
    BY <1>2, <2>1
  <2>3. CASE TxStays
    BY <2>2, <2>3 DEF TxStays
  <2>4. CASE TxDelivers
    <3>1. PICK x \in Data, q \in Seq(Data) :
            Outgoing = Cat(<<x>>, q) /\ Outgoing' = q /\ out' = Append(out, x)
      BY <2>4 DEF TxDelivers
    <3>2. Outgoing # <<>> /\ Head(Outgoing) = x /\ Tail(Outgoing) = q
      BY <3>1, CatFirst
    <3>3. Tx!Deliver
      BY <2>2, <3>1, <3>2 DEF Tx!Deliver
    <3> QED BY <3>3 DEF Tx!Next
  <2>5. CASE TxPuts
    <3>1. PICK x \in Chars : Outgoing' = Cat(Outgoing, Wired(x)) /\ UNCHANGED out
      BY <2>5 DEF TxPuts
    <3>2. Tx!Wire(x) = Wired(x)
      BY DEF Tx!Wire, Wired
    <3>3. Tx!Put(x)
      BY <2>2, <3>1, <3>2 DEF Tx!Put, Cat
    <3> QED BY <3>3 DEF Tx!Next
  <2> QED BY <1>2, <2>3, <2>4, <2>5, OutStep
<1> QED BY <1>1, <1>2

LEMMA TxBegins == Init => Tx!Init
<1> SUFFICES ASSUME Init PROVE Tx!Init
  OBVIOUS
<1>1. DataOK /\ PlaceOK
  BY TxInvInit DEF TxInv, ConsoleInv, PlacesInv, IoOK
<1>2. /\ hw.shift = <<>> /\ hw.tx_fifo = <<>> /\ dev.tx_p = 0 /\ dev.tx_c = 0 /\ lost = {}
  BY DEF Init, SamInit, PiInit, Ns16550Init, DevInit, HwInit
<1>3. io.tx_p = 0 /\ io.tx_c = 0 /\ out = <<>> /\ pc["stdout"] = "init"
  <2>1. StdioInit
    BY DEF Init
  <2>2. io.tx_p = 0 /\ io.tx_c = 0 /\ out = <<>>
    BY <2>1 DEF StdioInit
  <2>3. pc["stdout"] = "init"
    BY Names DEF Init, Writers
  <2> QED BY <2>2, <2>3
<1>4. Ring(dev.tx_buf, dev.tx_c, dev.tx_p) = <<>> /\ Ring(io.tx_buf, io.tx_c, io.tx_p) = <<>>
  BY <1>1, <1>2, <1>3, TxParts, RingNone
<1>5. InHand = <<>>
  BY <1>3 DEF InHand
<1>6. Cat(<<>>, <<>>) = <<>>
  BY Singles, CatIs
<1>7. Outgoing = <<>>
  BY <1>1, <1>2, <1>4, <1>5, <1>6, ExpandNone, OutgoingIs DEF Sent, Unsent
<1>8. ("tx" \in lost) = FALSE
  BY <1>2
<1> QED BY <1>3, <1>7, <1>8 DEF Tx!Init

(* TxChannel of Console: what putchar() takes goes out in order and once,  *)
(* with a carriage return behind every newline, until the driver has       *)
(* overwritten a character that was not sent -- on every board, for every  *)
(* size of the rings, however much is put, and wherever the tasks and the  *)
(* handler come between each other's steps: the ring of stdio_init.c, its  *)
(* task and the drivers' rings and devices implement a channel.            *)
THEOREM TxChannelHolds == Spec => TxChannel
<1>1. Init => TxInv /\ Tx!Init
  BY TxInvInit, TxBegins
<1>2. TxInv /\ [Next]_vars => TxInv' /\ [Tx!Next]_<<Outgoing, out, "tx" \in lost>>
  BY TxInvStep, TxSteps
<1> QED BY <1>1, <1>2, PTL DEF Spec, TxChannel, Tx!Spec

-----------------------------------------------------------------------------
(* What comes in.  What the device and the driver hold of it ...           *)
CameSame == /\ hw'.rx_fifo = hw.rx_fifo /\ dev'.rx_buf = dev.rx_buf
            /\ dev'.rx_p = dev.rx_p /\ dev'.rx_c = dev.rx_c

LEMMA CameFrame ==
  CoreOK /\ DataOK /\ [Next]_vars =>
    \/ link # "rpi" /\ RxTaskNext
    \/ link = "rpi" /\ RxTaskTake
    \/ link \in {"pc", "com"} /\ IsrRx
    \/ link = "sam9" /\ IsrRxSam
    \/ link = "rpi" /\ IsrRxPi
    \/ LineIn
    \/ CameSame
<1> SUFFICES ASSUME CoreOK, DataOK, [Next]_vars,
                    ~(link # "rpi" /\ RxTaskNext), ~(link = "rpi" /\ RxTaskTake),
                    ~(link \in {"pc", "com"} /\ IsrRx), ~(link = "sam9" /\ IsrRxSam),
                    ~(link = "rpi" /\ IsrRxPi), ~LineIn
             PROVE  CameSame
  OBVIOUS
<1>0. /\ DOMAIN hw = {"rx_on", "tx_on", "rx_fifo", "tx_fifo", "overrun", "tx_int", "rx_int",
                      "shift"}
      /\ DOMAIN dev = {"rx_buf", "rx_p", "rx_c", "tx_buf", "tx_p", "tx_c", "tx_t"}
      /\ dev \in DevTypes /\ hw \in HwTypes /\ c \in Data
  BY SentRecords DEF DataOK, IoType
<1>1. ASSUME UNCHANGED <<dev, hw>> PROVE CameSame
  BY <1>1 DEF CameSame
<1>2. CASE Drives
  <2>1. CASE RxTaskStart
    BY <1>0, <2>1 DEF RxTaskStart, CameSame
  <2>2. ASSUME NEW t, NEW from, NEW to, NEW a, NEW b, WriteBits(t, from, to, a, b) PROVE CameSame
    <3> DEFINE h == [hw EXCEPT !.rx_on = a \/ val[t] % 2 = 1]
    <3>1. h.rx_fifo = hw.rx_fifo /\ DOMAIN h = DOMAIN hw
      BY <1>0
    <3>2. /\ hw' = IF b \/ val[t] >= 2 THEN TxEnabled(h) ELSE [h EXCEPT !.tx_on = FALSE]
          /\ UNCHANGED dev
      BY <2>2 DEF WriteBits
    <3> HIDE DEF h
    <3>3. CASE hw' = TxEnabled(h)
      <4>1. hw' = [h EXCEPT !.tx_on = TRUE, !.tx_int = h.tx_int \/ (~h.tx_on /\ h.tx_fifo = <<>>)]
        BY <3>3 DEF TxEnabled
      <4>2. hw'.rx_fifo = hw.rx_fifo
        BY <1>0, <3>1, <4>1
      <4> QED BY <3>2, <4>2 DEF CameSame
    <3>4. CASE hw' = [h EXCEPT !.tx_on = FALSE]
      <4>1. hw'.rx_fifo = hw.rx_fifo
        BY <1>0, <3>1, <3>4
      <4> QED BY <3>2, <4>1 DEF CameSame
    <3> QED BY <3>2, <3>3, <3>4
  <2>3. ASSUME NEW t, NEW from, NEW to, NEW a, Enable(t, from, to, a) PROVE CameSame
    BY <1>0, <2>3 DEF Enable, CameSame
  <2>4. ASSUME NEW t, NEW from, NEW to, NEW a, WriteMask(t, from, to, a) PROVE CameSame
    BY <1>0, <2>4 DEF WriteMask, CameSame
  <2>5. ASSUME NEW more, TxTaskGive(more) PROVE CameSame
    BY <1>0, <2>5 DEF TxTaskGive, CameSame
  <2>6. ASSUME NEW t, NEW from, NEW to, ReadBits(t, from, to) PROVE CameSame
    BY <1>1, <2>6 DEF ReadBits
  <2>7. CASE RxTaskCompare
    BY <1>1, <2>7 DEF RxTaskCompare
  <2>8. CASE TxQueue
    BY <1>0, <2>8, QueuedIs DEF TxQueue, CameSame
  <2>9. CASE TxWrite
    BY <1>0, <2>9 DEF TxWrite, CameSame
  <2> QED BY <1>2, <2>1, <2>2, <2>3, <2>4, <2>5, <2>6, <2>7, <2>8, <2>9 DEF Drives
<1>3. CASE Isr16550 \/ IsrSam \/ IsrRpi
  <2>1. CASE IsrLine
    BY <1>0, <2>1 DEF IsrLine, CameSame
  <2>2. CASE IsrTx
    <3>1. PICK n, q : /\ dev' = [dev EXCEPT !.tx_c = n]
                      /\ hw' = [hw EXCEPT !.tx_fifo = q, !.tx_int = FALSE, !.tx_on = hw'.tx_on]
      <4>1. PICK n, q : /\ dev' = [dev EXCEPT !.tx_c = dev.tx_c + n]
                        /\ hw' = [hw EXCEPT !.tx_fifo = hw.tx_fifo \o q, !.tx_int = FALSE,
                                            !.tx_on = n # 0]
        BY <2>2 DEF IsrTx
      <4>2. hw'.tx_on = (n # 0)
        BY <1>0, <4>1
      <4> QED BY <4>1, <4>2
    <3> QED BY <1>0, <3>1 DEF CameSame
  <2>3. CASE IsrTxSam
    BY <1>0, <2>3 DEF IsrTxSam, CameSame
  <2>4. CASE IsrPi
    BY <1>0, <2>4 DEF IsrPi, CameSame
  <2>5. CASE IsrRxWake \/ Isr16550End \/ IsrSamEnd \/ IsrPiEnd
    BY <1>1, <2>5 DEF IsrRxWake, Isr16550End, IsrSamEnd, IsrPiEnd, devVars
  <2>6. /\ IsrRx => link \in {"pc", "com"}
        /\ IsrRxSam => link = "sam9"
        /\ IsrRxPi => link = "rpi"
    BY DEF IsrRx, IsrRxSam, IsrRxPi, CoreOK, PcOK, IsrPoints
  <2> QED BY <1>3, <2>1, <2>2, <2>3, <2>4, <2>5, <2>6 DEF Isr16550, IsrSam, IsrRpi
<1>4. CASE LineOut
  <2>1. CASE LineOut16550
    BY <1>0, <2>1 DEF LineOut16550, CameSame
  <2>2. CASE LineOutSam \/ ShiftPi \/ LineOutPi
    BY <1>0, <2>2 DEF LineOutSam, ShiftPi, LineOutPi, CameSame
  <2> QED BY <1>4, <2>1, <2>2 DEF LineOut
<1>5. CASE KeyIn \/ KbdHand \/ Calls \/ Clock \/ UNCHANGED devVars
  BY <1>1, <1>5 DEF KeyIn, IsrKbd, KbdHand, Calls, Clock, devVars
<1> QED BY <1>2, <1>3, <1>4, <1>5, DevFrame

(* ... is read from a place that is one behind the index while a character *)
(* that was handed over is still counted, or one before it while one that  *)
(* is not counted any more is still to be handed over.                     *)
Ahead == IF pc["rx"] \in {"compare", "next"} THEN 1
         ELSE IF link = "rpi" /\ pc["rx"] \in {"rx_func", "store"} THEN -1 ELSE 0

LEMMA AheadFrame ==
  CoreOK /\ [Next]_vars =>
    \/ link = "pc"
    \/ link # "rpi" /\ (RxTaskNext \/ RxTaskHand("compare"))
    \/ link = "rpi" /\ (RxTaskTake \/ RxTaskHandPi)
    \/ Ahead' = Ahead
<1> SUFFICES ASSUME CoreOK, [Next]_vars, link # "pc",
                    ~(link # "rpi" /\ (RxTaskNext \/ RxTaskHand("compare"))),
                    ~(link = "rpi" /\ (RxTaskTake \/ RxTaskHandPi))
             PROVE  Ahead' = Ahead
  OBVIOUS
<1>0. UNCHANGED link /\ link \in {"com", "sam9", "rpi"}
  BY LinkStays, Boarded DEF CoreOK, PcOK
<1>1. ASSUME NEW t \in Tasks \ {"rx"}, NEW from, NEW to, Step(t, from, to) PROVE Ahead' = Ahead
  BY <1>0, <1>1, StepOthers, Names DEF Ahead
<1>2. ASSUME NEW from, NEW to, Step("rx", from, to),
             \/ {from, to} \subseteq {"compare", "next"}
             \/ {from, to} \subseteq {"start", "sleep", "test", "enable", "write"}
             \/ link # "rpi" /\ {from, to} \subseteq {"test", "sleep", "rx_func"}
      PROVE  Ahead' = Ahead
  <2>1. pc["rx"] = from /\ pc'["rx"] = to
    BY <1>2, StepOthers, Names
  <2> QED BY <1>0, <1>2, <2>1 DEF Ahead
<1>3. ASSUME UNCHANGED pc PROVE Ahead' = Ahead
  BY <1>0, <1>3 DEF Ahead
<1>4. CASE Drivers
  <2>1. ASSUME NEW t \in {"rx", "tx"}, TaskSleep(t) PROVE Ahead' = Ahead
    <3>1. CASE t = "rx"
      BY <1>2, <2>1, <3>1 DEF TaskSleep
    <3>2. CASE t = "tx"
      BY <1>1, <2>1, <3>2, Names DEF TaskSleep
    <3> QED BY <2>1, <3>1, <3>2
  <2>2. ASSUME NEW l, RxTaskTest(l, "compare"), link # "rpi", TxFunc(l) # None
        PROVE  Ahead' = Ahead
    <3>1. PICK to \in {"sleep", "rx_func"} : Step("rx", "test", to)
      BY <2>2 DEF RxTaskTest, Own
    <3> QED BY <1>2, <2>2, <3>1
  <2>3. CASE RxTaskStart \/ RxTaskCompare
    BY <1>2, <2>3 DEF RxTaskStart, RxTaskCompare, Own
  <2>4. ASSUME NEW from \in {"start", "enable", "write"}, NEW to \in {"write", "test", "sleep"},
               \/ ReadBits("rx", from, to)
               \/ \E a, b : WriteBits("rx", from, to, a, b) \/ WriteMask("rx", from, to, a)
                            \/ Enable("rx", from, to, a)
        PROVE  Ahead' = Ahead
    BY <1>2, <2>4 DEF ReadBits, WriteBits, WriteMask, Enable, Own
  <2>5. ASSUME NEW more, TxTaskGive(more) PROVE Ahead' = Ahead
    BY <1>1, <2>5, Names DEF TxTaskGive
  <2>6. CASE TxFunc16550 \/ TxFuncSam \/ TxFuncPi
    <3>1. PICK from, to : Step("stdout", from, to)
      BY <2>6 DEF TxFunc16550, TxFuncSam, TxFuncPi, TxRoom, TxQueue, TxCheck, ReadBits, WriteBits,
                  Enable, TxWrite, WriteMask, TxWait, Own
    <3> QED BY <1>1, <3>1, Names
  <2>7. ASSUME Step("tx", "test", "sleep") PROVE Ahead' = Ahead
    BY <1>1, <2>7, Names
  <2>8. CASE link = "com" /\ RxTask16550
    <3>1. ~RxTaskNext /\ ~RxTaskHand("compare") /\ link # "rpi" /\ TxFunc("ns16550") # None
      BY <2>8, Links
    <3> QED BY <2>1, <2>2, <2>3, <2>4, <2>8, <3>1 DEF RxTask16550
  <2>9. CASE link = "sam9" /\ RxTaskSam
    <3>1. ~RxTaskNext /\ ~RxTaskHand("compare") /\ link # "rpi" /\ TxFunc("uart") # None
      BY <2>9, Links
    <3> QED BY <2>1, <2>2, <2>3, <2>4, <2>9, <3>1 DEF RxTaskSam
  <2>10. CASE link = "rpi" /\ RxTaskPi
    BY <2>1, <2>4, <2>10 DEF RxTaskPi
  <2>11. CASE TxTask16550 \/ TxTaskSam \/ TxTaskPi
    BY <2>1, <2>5, <2>7, <2>11 DEF TxTask16550, TxTaskSam, TxTaskPi
  <2> QED BY <1>0, <1>4, <2>6, <2>8, <2>9, <2>10, <2>11 DEF Drivers
<1>5. CASE Modules
  <2>1. PICK t, from, to : t \in {"stdout", "log", "cli"} /\ Step(t, from, to)
    BY <1>5 DEF Modules, Stdout, StdoutInit, StdoutWait, StdoutEmpty, StdoutTake, StdoutNext,
                Putchar, PutcharPlace, PutcharLock, PutcharStore, PutcharNext, PutcharUnlock,
                PutcharTell, Getchar, Writers
  <2> QED BY <1>1, <2>1, Names
<1>6. CASE Calls \/ Delay
  <2>1. ASSUME NEW t \in {"log", "cli"}, NEW x, PutcharEnter(t, x) PROVE Ahead' = Ahead
    BY <1>1, <2>1, Names DEF PutcharEnter
  <2>2. ASSUME GetcharEnter("cli") PROVE Ahead' = Ahead
    BY <1>1, <2>2, Names DEF GetcharEnter
  <2>3. ASSUME Delay PROVE Ahead' = Ahead
    BY <1>1, <2>3, Names DEF Delay
  <2> QED BY <1>6, <2>1, <2>2, <2>3 DEF Calls, Writers
<1>7. CASE Handles
  BY <1>3, <1>7 DEF Handles, Isr16550, IsrSam, IsrRpi, IsrLine, IsrRxWake, IsrRx, IsrTx,
       Isr16550End, IsrTxSam, IsrRxSam, IsrSamEnd, IsrPi, IsrRxPi, IsrPiEnd, IsrKbdEnd, Handler
<1>8. CASE Interrupt \/ Clock \/ LineIn \/ KeyIn \/ LineOut \/ UNCHANGED vars
  BY <1>3, <1>8 DEF Interrupt, Clock, LineIn, KeyIn, IsrKbd, LineOut, vars
<1> QED BY <1>4, <1>5, <1>6, <1>7, <1>8 DEF Next, Goes, Pc

-----------------------------------------------------------------------------
(* The devices but the Raspberry Pi's receive nothing but characters, and  *)
(* all but the 16550 hold no more than one.                                *)
HeldOK == /\ link # "rpi" => hw.rx_fifo \in Seq(Chars)
          /\ link \in {"sam9", "rpi"} => Len(hw.rx_fifo) <= 1

LEMMA ComesIs == DataOK /\ Comes => load'.came \in Chars
<1> SUFFICES ASSUME DataOK, Comes PROVE load'.came \in Chars
  OBVIOUS
<1>1. /\ load \in LoadTypes /\ load.came \in Nat /\ load.come \in Nat
      /\ 1..(load.came + load.come) \subseteq Chars
  BY DEF DataOK, LoadType, LoadTypes
<1>2. load.come > 0 /\ load' = [load EXCEPT !.come = @ - 1, !.came = @ + 1]
  BY DEF Comes
<1>3. load'.came = load.came + 1
  BY <1>1, <1>2 DEF LoadTypes
<1>4. load'.came \in 1..(load.came + load.come)
  BY <1>1, <1>2, <1>3
<1> QED BY <1>1, <1>4

LEMMA HeldInitially == Init => HeldOK
<1> SUFFICES ASSUME Init PROVE HeldOK
  OBVIOUS
<1>1. hw.rx_fifo = <<>>
  BY DEF Init, SamInit, PiInit, Ns16550Init, HwInit
<1> QED BY <1>1 DEF HeldOK

LEMMA HeldStep == CoreOK /\ DataOK /\ HeldOK /\ [Next]_vars => HeldOK'
<1> SUFFICES ASSUME CoreOK, DataOK, HeldOK, [Next]_vars PROVE HeldOK'
  OBVIOUS
<1>0. /\ UNCHANGED link /\ hw \in HwTypes /\ hw.rx_fifo \in Seq(Data)
      /\ DOMAIN hw = {"rx_on", "tx_on", "rx_fifo", "tx_fifo", "overrun", "tx_int", "rx_int",
                      "shift"}
  BY LinkStays, SentRecords DEF DataOK, DevType, HwTypes
<1>1. ASSUME hw'.rx_fifo = hw.rx_fifo PROVE HeldOK'
  BY <1>0, <1>1 DEF HeldOK
<1>2. ASSUME hw'.rx_fifo = <<>> PROVE HeldOK'
  BY <1>0, <1>2 DEF HeldOK
<1>3. ASSUME NEW x \in Chars, hw'.rx_fifo = <<x>>, link # "rpi" PROVE HeldOK'
  BY <1>0, <1>3 DEF HeldOK
<1>4. CASE RxTaskNext \/ RxTaskTake
  BY <1>1, <1>4 DEF RxTaskNext, RxTaskTake
<1>5. CASE link \in {"pc", "com"} /\ IsrRx
  <2>1. PICK f \in Seq(Chars) : f = hw.rx_fifo
    BY <1>5 DEF HeldOK
  <2>2. f # <<>>
    BY <1>5, <2>1 DEF IsrRx, DataOK, FifoOK
  <2>3. PICK n : n = Tail(f)
    OBVIOUS
  <2>4. n \in Seq(Chars)
    BY <2>2, <2>3
  <2>5. hw'.rx_fifo = n
    BY <1>0, <1>5, <2>1, <2>3 DEF IsrRx
  <2> QED BY <1>0, <1>5, <2>4, <2>5 DEF HeldOK
<1>6. CASE IsrRxSam
  BY <1>0, <1>1, <1>2, <1>6 DEF IsrRxSam
<1>7. CASE IsrRxPi
  BY <1>0, <1>1, <1>2, <1>7 DEF IsrRxPi
<1>8. CASE LineIn
  <2>1. PICK x \in Chars : x = load'.came
    BY <1>8, ComesIs DEF LineIn
  <2>2. CASE link \in {"pc", "com"} /\ LineIn16550(x)
    <3>1. CASE hw' = [hw EXCEPT !.rx_fifo = Append(@, x)]
      <4>1. PICK f \in Seq(Chars) : f = hw.rx_fifo
        BY <2>2 DEF HeldOK
      <4>2. PICK n : n = Append(f, x)
        OBVIOUS
      <4>3. n \in Seq(Chars)
        BY <4>2
      <4>4. hw'.rx_fifo = n
        BY <1>0, <3>1, <4>1, <4>2
      <4> QED BY <1>0, <2>2, <4>3, <4>4 DEF HeldOK
    <3>2. CASE hw' = [hw EXCEPT !.overrun = TRUE]
      BY <1>0, <1>1, <3>2
    <3> QED BY <2>2, <3>1, <3>2 DEF LineIn16550
  <2>3. CASE link = "sam9" /\ LineInSam(x)
    BY <1>0, <1>3, <2>3 DEF LineInSam
  <2>4. ASSUME link = "rpi", NEW y, LineInPi(y) PROVE HeldOK'
    <3>1. CASE hw' = [hw EXCEPT !.rx_fifo = <<y>>, !.rx_int = TRUE]
      <4>1. hw'.rx_fifo = <<y>>
        BY <1>0, <3>1
      <4>2. Len(hw'.rx_fifo) = 1
        BY <4>1
      <4> QED BY <1>0, <2>4, <4>2 DEF HeldOK
    <3> QED BY <1>1, <2>4, <3>1 DEF LineInPi
  <2> QED BY <1>8, <2>1, <2>2, <2>3, <2>4 DEF LineIn
<1> QED BY <1>1, <1>4, <1>5, <1>6, <1>7, <1>8, CameFrame DEF CameSame

-----------------------------------------------------------------------------
(* The keyboard's task is woken by a key, and goes on as it is its turn.   *)
KbdSame == pc'["kbd"] = pc["kbd"] /\ status'["kbd"] = status["kbd"]

LEMMA KbdOthers ==
  ASSUME CoreOK, NEW t \in Tasks \ {"kbd", "idle"}, NEW from, NEW to, Step(t, from, to),
         UNCHANGED schedVars \/ Sleep \/ \E s \in Sems : Get(s) \/ Give(s)
  PROVE  KbdSame
<1>1. /\ run = t /\ isr = "off" /\ \A u \in Tasks : u # t => pc'[u] = pc[u]
  BY StepOthers
<1>2. status["kbd"] \notin Sems
  BY Names DEF CoreOK, StatusOK, Awaits, Sems, PcOK, PointsOf
<1>3. CASE UNCHANGED schedVars
  BY <1>1, <1>3, Names DEF schedVars, KbdSame
<1>4. CASE Sleep
  BY <1>1, <1>4, Names DEF Sleep, CoreOK, SchedType, KbdSame
<1>5. ASSUME NEW s \in Sems, Get(s) PROVE KbdSame
  <2>1. run # "idle"
    BY <1>1
  <2> QED BY <1>1, <1>5, <2>1, GetOthers, Names DEF KbdSame
<1>6. ASSUME NEW s \in Sems, Give(s) PROVE KbdSame
  <2>1. status'["kbd"] = status["kbd"] \/ status["kbd"] = s
    BY <1>1, <1>6, GiveOthers, Names
  <2> QED BY <1>1, <1>2, <1>6, <2>1, Names DEF KbdSame
<1> QED BY <1>3, <1>4, <1>5, <1>6

LEMMA KbdFrame ==
  CoreOK /\ [Next]_vars /\ link = "pc" => KbdTask \/ KeyIn \/ (KbdSame /\ UNCHANGED kbdVars)
<1> SUFFICES ASSUME CoreOK, [Next]_vars, link = "pc", ~KbdTask, ~KeyIn
             PROVE  KbdSame /\ UNCHANGED kbdVars
  OBVIOUS
<1>0. {"rx", "tx", "stdout", "log", "cli"} \subseteq Tasks \ {"kbd", "idle"}
  BY Names
<1>1. CASE Drivers
  <2>1. UNCHANGED kbdVars
    BY <1>1 DEF Drivers
  <2>2. ASSUME NEW t \in {"rx", "tx"}, TaskSleep(t) PROVE KbdSame
    BY <2>2, KbdOthers, Names DEF TaskSleep
  <2>3. ASSUME RxTaskStart \/ RxTaskCompare \/ RxTaskNext \/ RxTaskTest("ns16550", "compare")
        PROVE  KbdSame
    <3>1. PICK from, to : Step("rx", from, to) /\ UNCHANGED schedVars
      BY <2>3 DEF RxTaskStart, RxTaskCompare, RxTaskNext, RxTaskTest, Own
    <3> QED BY <1>0, <3>1, KbdOthers
  <2>4. ASSUME ReadBits("rx", "enable", "write") \/ WriteBits("rx", "write", "test", TRUE, FALSE)
        PROVE  KbdSame
    <3>1. PICK from, to : Step("rx", from, to) /\ UNCHANGED schedVars
      BY <2>4 DEF ReadBits, WriteBits, Own
    <3> QED BY <1>0, <3>1, KbdOthers
  <2>5. ASSUME NEW x, RxFunc("rx", "compare") \/ RxStore("rx", "compare", x) PROVE KbdSame
    BY <2>5, KbdOthers, Names DEF RxFunc, RxStore, Sems
  <2>6. ASSUME NEW more, TxTaskGive(more) PROVE KbdSame
    BY <2>6, KbdOthers, Names DEF TxTaskGive, Sems
  <2> QED BY <1>1, <2>1, <2>2, <2>3, <2>4, <2>5, <2>6
          DEF Drivers, RxTask16550, RxTaskHand, TxTask16550
<1>2. CASE Pc
  BY <1>2, KbdOthers, Names DEF Pc, TxFuncScreen, kbdVars
<1>3. CASE Modules /\ UNCHANGED kbdVars
  <2>1. ASSUME Stdout PROVE KbdSame
    BY <1>3, <2>1, KbdOthers, Names
       DEF Stdout, StdoutInit, StdoutWait, StdoutEmpty, StdoutTake, StdoutNext, Sems
  <2>2. ASSUME NEW t \in {"log", "cli"}, Putchar(t) PROVE KbdSame
    BY <2>2, KbdOthers, Names DEF Putchar, PutcharPlace, PutcharLock, PutcharStore,
                                  PutcharNext, PutcharUnlock, PutcharTell, Sems
  <2>3. ASSUME Getchar("cli") PROVE KbdSame
    <3>1. Step("cli", "char", "user") /\ UNCHANGED schedVars
      BY <2>3 DEF Getchar
    <3> QED BY <1>0, <3>1, KbdOthers
  <2> QED BY <1>3, <2>1, <2>2, <2>3 DEF Modules, Writers
<1>4. CASE Calls
  <2>1. ASSUME NEW t \in {"log", "cli"}, NEW x, PutcharEnter(t, x) PROVE KbdSame
    BY <2>1, KbdOthers, Names DEF PutcharEnter
  <2>2. ASSUME GetcharEnter("cli") PROVE KbdSame
    <3>1. Step("cli", "user", "char") /\ Get("rx") /\ "rx" \in Sems
      BY <2>2 DEF GetcharEnter, Sems
    <3> QED BY <1>0, <3>1, KbdOthers
  <2> QED BY <1>4, <2>1, <2>2 DEF Calls, Writers
<1>5. CASE Delay
  BY <1>5, KbdOthers, Names DEF Delay
<1>6. ASSUME UNCHANGED pc, Quietly \/ Wake("rx") \/ Wake("tx") PROVE KbdSame
  BY <1>6, Names DEF CoreOK, SchedType, Quietly, Wake, KbdSame
<1>7. CASE Handles
  <2>1. UNCHANGED kbdVars
    BY <1>7 DEF Handles, IsrKbdEnd
  <2> QED BY <1>6, <1>7, <2>1 DEF Handles, Isr16550, IsrSam, IsrRpi, IsrLine, IsrRxWake, IsrRx,
       IsrTx, Isr16550End, IsrTxSam, IsrRxSam, IsrSamEnd, IsrPi, IsrRxPi, IsrPiEnd, IsrKbdEnd,
       Handler, Quietly
<1>8. CASE Interrupt \/ LineIn \/ LineOut \/ UNCHANGED vars
  BY <1>6, <1>8 DEF Interrupt, LineIn, LineOut, Quietly, vars, schedVars
<1>9. CASE Clock
  <2>1. status'["kbd"] = status["kbd"]
    BY <1>9, Names DEF Clock, CoreOK, SchedType
  <2> QED BY <1>9, <2>1 DEF Clock, KbdSame
<1> QED BY <1>1, <1>2, <1>3, <1>4, <1>5, <1>7, <1>8, <1>9 DEF Next, Goes, Pc

(* A key that the keyboard's task takes to the standard I/O is one that it *)
(* has not handed on, until one was lost.                                  *)
KeyOK ==
  link = "pc" /\ \/ pc["kbd"] \in {"rx_func", "store"}
                 \/ pc["kbd"] = "test" /\ status["kbd"] = "READY"
    => fresh \/ dropped \/ "key" \in lost

LEMMA KeyInitially == Init => KeyOK
  BY Names DEF Init, KeyOK, Writers

LEMMA KeyStep == CoreOK /\ KeyOK /\ [Next]_vars => KeyOK'
<1> SUFFICES ASSUME CoreOK, KeyOK, [Next]_vars, link' = "pc" PROVE KeyOK'
  BY DEF KeyOK
<1>0. link = "pc" /\ lost \subseteq lost' /\ (dropped => dropped')
  BY LinkStays, MarksStay
<1>1. CASE KbdSame /\ UNCHANGED kbdVars
  BY <1>0, <1>1 DEF KbdSame, kbdVars, KeyOK
<1>2. CASE KeyIn
  BY <1>2 DEF KeyIn, IsrKbd, KeyOK
<1>3. ASSUME NEW from, NEW to, Step("kbd", from, to), to = "sleep" PROVE KeyOK'
  <2>1. pc'["kbd"] = "sleep"
    BY <1>3, StepOthers, Names
  <2> QED BY <2>1 DEF KeyOK
<1>4. ASSUME NEW from, NEW to, Step("kbd", from, to), from \in {"test", "rx_func"},
             UNCHANGED fresh
      PROVE  KeyOK'
  <2>1. pc["kbd"] = from /\ status["kbd"] = "READY"
    BY <1>4, StepOthers, Names
  <2> QED BY <1>0, <1>4, <2>1 DEF KeyOK
<1>5. CASE TaskSleep("kbd")
  <2>1. pc'["kbd"] = "test" /\ run = "kbd"
    BY <1>5, StepOthers, Names DEF TaskSleep
  <2>2. status'["kbd"] = "SLEEPING"
    BY <1>5, <2>1, Names DEF TaskSleep, Sleep, CoreOK, SchedType
  <2> QED BY <2>1, <2>2 DEF KeyOK
<1>6. CASE KbdTest
  BY <1>4, <1>6 DEF KbdTest, Own, kbdVars
<1>7. CASE KbdHand
  BY <1>3, <1>4, <1>7 DEF KbdHand, RxFunc, RxStore
<1> QED BY <1>0, <1>1, <1>2, <1>5, <1>6, <1>7, KbdFrame DEF KbdTask

-----------------------------------------------------------------------------
(* Where the driver's ring is read from.                                   *)
From == dev.rx_c + Ahead
FromOK == link = "rpi" /\ pc["rx"] \in {"rx_func", "store"} => dev.rx_c # 0

LEMMA FromInitially == Init => FromOK
  BY Names DEF Init, FromOK, Writers

LEMMA FromStep == CoreOK /\ DataOK /\ FromOK /\ [Next]_vars => FromOK'
<1> SUFFICES ASSUME CoreOK, DataOK, FromOK, [Next]_vars, link' = "rpi",
                    pc'["rx"] \in {"rx_func", "store"}
             PROVE  dev'.rx_c # 0
  BY DEF FromOK
<1>0. /\ link = "rpi" /\ dev \in DevTypes /\ dev.rx_c \in Nat
      /\ DOMAIN dev = {"rx_buf", "rx_p", "rx_c", "tx_buf", "tx_p", "tx_c", "tx_t"}
  BY LinkStays, SentRecords DEF DataOK, DevType, DevTypes
<1>1. CASE RxTaskTake
  <2>1. pc'["rx"] = IF dev.rx_c = dev.rx_p THEN "sleep" ELSE "rx_func"
    BY <1>1, StepOthers, Names DEF RxTaskTake, Own
  <2>2. dev' = [dev EXCEPT !.rx_c = @ + 1]
    BY <1>1, <2>1 DEF RxTaskTake
  <2> QED BY <1>0, <2>2
<1>2. CASE RxTaskHandPi
  <2>1. pc["rx"] \in {"rx_func", "store"}
    BY <1>2, StepOthers, Names DEF RxTaskHandPi, RxFunc, RxStore
  <2>2. UNCHANGED dev
    BY <1>2 DEF RxTaskHandPi, devVars
  <2> QED BY <1>0, <2>1, <2>2 DEF FromOK
<1>3. CASE Ahead' = Ahead /\ ~RxTaskTake
  <2>1. dev.rx_c # 0
    BY <1>0, <1>3 DEF Ahead, FromOK
  <2>2. CASE IsrRxPi
    <3>1. CASE UNCHANGED dev
      BY <2>1, <3>1
    <3>2. CASE hw.rx_fifo # <<>> /\ dev' = Received(dev, Head(hw.rx_fifo))
      <4>1. Head(hw.rx_fifo) \in Data
        BY <3>2, HeadTail DEF DataOK, DevType, HwTypes
      <4> QED BY <1>0, <2>1, <3>2, <4>1, ReceivedIs
    <3> QED BY <2>2, <3>1, <3>2 DEF IsrRxPi
  <2>3. CASE LineIn
    BY <1>0, <2>1, <2>3 DEF LineIn, LineInPi
  <2>4. CASE CameSame
    BY <2>1, <2>4 DEF CameSame
  <2> QED BY <1>0, <1>3, <2>2, <2>3, <2>4, CameFrame
<1> QED BY <1>0, <1>1, <1>2, <1>3, AheadFrame

LEMMA FromIs ==
  CoreOK /\ DataOK /\ RecvOK /\ FromOK => From \in Nat /\ From <= dev.rx_p
<1> SUFFICES ASSUME CoreOK, DataOK, RecvOK, FromOK PROVE From \in Nat /\ From <= dev.rx_p
  OBVIOUS
<1>0. /\ dev.rx_p \in Nat /\ dev.rx_c \in Nat /\ dev.rx_c <= dev.rx_p
  BY DEF DataOK, DevType, DevTypes, RecvOK
<1>1. CASE pc["rx"] \in {"compare", "next"}
  <2>1. link # "rpi"
    BY <1>1, Names DEF CoreOK, PcOK, PointsOf, RxPoints
  <2>2. dev.rx_c # dev.rx_p
    BY <1>1, <2>1 DEF RecvOK, Handing
  <2> QED BY <1>0, <1>1, <2>2 DEF From, Ahead
<1>2. CASE pc["rx"] \notin {"compare", "next"}
  BY <1>0, <1>2 DEF From, Ahead, FromOK
<1> QED BY <1>1, <1>2

-----------------------------------------------------------------------------
(* What the standard I/O has of what came in, and what is still to be      *)
(* handed to it.                                                           *)
Read == Ring(io.rx_buf, io.rx_c, io.rx_p)
Line == IF hw.rx_fifo # <<>> /\ Head(hw.rx_fifo) \notin Chars THEN <<>> ELSE hw.rx_fifo
Driver == Cat(Ring(dev.rx_buf, From, dev.rx_p), Line)
Unread == IF link = "pc" THEN IF fresh THEN <<key>> ELSE <<>> ELSE Driver

InOK == HeldOK /\ KeyOK /\ FromOK
RxInv == ConsoleInv /\ InOK

LEMMA RxInvInit == Init => RxInv
  BY ConsoleInit, HeldInitially, KeyInitially, FromInitially DEF RxInv, InOK

LEMMA RxInvStep == RxInv /\ [Next]_vars => RxInv'
  BY ConsoleStep, HeldStep, KeyStep, FromStep DEF RxInv, InOK, ConsoleInv, PlacesInv

LEMMA RxParts ==
  RxInv => /\ CoreOK /\ DataOK /\ RecvOK /\ ReadOK
           /\ hw.rx_fifo \in Seq(Data) /\ Line \in Seq(Data)
           /\ DevSize \in Nat \ {0} /\ dev.rx_buf \in [1..DevSize -> Data]
           /\ dev.rx_c \in Nat /\ dev.rx_p \in Nat /\ dev.rx_c <= dev.rx_p
           /\ From \in Nat /\ From <= dev.rx_p
           /\ IoSize \in Nat \ {0} /\ io.rx_buf \in [1..IoSize -> Data]
           /\ io.rx_c \in Nat /\ io.rx_p \in Nat /\ io.rx_c <= io.rx_p
           /\ key \in Data
<1> SUFFICES ASSUME RxInv
             PROVE  /\ CoreOK /\ DataOK /\ RecvOK /\ ReadOK
                    /\ hw.rx_fifo \in Seq(Data) /\ Line \in Seq(Data)
                    /\ DevSize \in Nat \ {0} /\ dev.rx_buf \in [1..DevSize -> Data]
                    /\ dev.rx_c \in Nat /\ dev.rx_p \in Nat /\ dev.rx_c <= dev.rx_p
                    /\ From \in Nat /\ From <= dev.rx_p
                    /\ IoSize \in Nat \ {0} /\ io.rx_buf \in [1..IoSize -> Data]
                    /\ io.rx_c \in Nat /\ io.rx_p \in Nat /\ io.rx_c <= io.rx_p
                    /\ key \in Data
  OBVIOUS
<1>1. CoreOK /\ DataOK /\ RecvOK /\ ReadOK /\ FromOK
  BY DEF RxInv, InOK, ConsoleInv, PlacesInv, IoOK
<1>2. hw.rx_fifo \in Seq(Data) /\ key \in Data
  BY <1>1 DEF DataOK, DevType, HwTypes
<1>3. Line \in Seq(Data)
  BY <1>2, Singles DEF Line
<1>4. /\ DevSize \in Nat \ {0} /\ dev.rx_buf \in [1..DevSize -> Data]
      /\ dev.rx_c \in Nat /\ dev.rx_p \in Nat /\ dev.rx_c <= dev.rx_p
  BY <1>1, Sizes DEF DataOK, DevType, DevTypes, DevBufs, RecvOK
<1>5. /\ IoSize \in Nat \ {0} /\ io.rx_buf \in [1..IoSize -> Data]
      /\ io.rx_c \in Nat /\ io.rx_p \in Nat /\ io.rx_c <= io.rx_p
  BY <1>1, Sizes DEF DataOK, IoType, IoTypes, IoBufs, ReadOK
<1>6. From \in Nat /\ From <= dev.rx_p
  BY <1>1, FromIs
<1> QED BY <1>1, <1>2, <1>3, <1>4, <1>5, <1>6

LEMMA DriverIs == RxInv => Driver \in Seq(Data)
<1> SUFFICES ASSUME RxInv PROVE Driver \in Seq(Data)
  OBVIOUS
<1>1. Ring(dev.rx_buf, From, dev.rx_p) \in Seq(Data)
  BY RxParts, RingSeq
<1>2. Line \in Seq(Data)
  BY RxParts
<1> QED BY <1>1, <1>2, CatIs DEF Driver

LEMMA IncomingIs ==
  RxInv => Read \in Seq(Data) /\ Unread \in Seq(Data) /\ Incoming = Cat(Read, Unread)
<1> SUFFICES ASSUME RxInv
             PROVE  Read \in Seq(Data) /\ Unread \in Seq(Data) /\ Incoming = Cat(Read, Unread)
  OBVIOUS
<1>1. Read \in Seq(Data)
  BY RxParts, RingSeq DEF Read
<1>2. Unread \in Seq(Data)
  <2>1. <<key>> \in Seq(Data)
    BY RxParts, Singles
  <2> QED BY <2>1, DriverIs, Singles DEF Unread
<1>3. (CASE pc["rx"] \in {"compare", "next"} -> 1
         [] link = "rpi" /\ pc["rx"] \in {"rx_func", "store"} -> -1
         [] OTHER -> 0) = Ahead
  BY DEF Ahead
<1>4. Incoming = Cat(Read, Unread)
  BY <1>3 DEF Incoming, Cat, Read, Unread, Driver, From, Line
<1> QED BY <1>1, <1>2, <1>4

-----------------------------------------------------------------------------
(* The ring that is read is changed as characters are handed over and read.*)
GotSame == io'.rx_buf = io.rx_buf /\ io'.rx_p = io.rx_p /\ io'.rx_c = io.rx_c /\ got' = got

LEMMA ReadFrame ==
  CoreOK /\ DataOK /\ [Next]_vars =>
    \/ Getchar("cli") /\ UNCHANGED <<link, devVars, kbdVars>>
    \/ link # "rpi" /\ RxTaskHand("compare") /\ UNCHANGED kbdVars
    \/ link = "rpi" /\ RxTaskHandPi /\ UNCHANGED kbdVars
    \/ link = "pc" /\ KbdHand
    \/ GotSame
<1> SUFFICES ASSUME CoreOK, DataOK, [Next]_vars,
                    ~(Getchar("cli") /\ UNCHANGED <<link, devVars, kbdVars>>),
                    ~(link # "rpi" /\ RxTaskHand("compare") /\ UNCHANGED kbdVars),
                    ~(link = "rpi" /\ RxTaskHandPi /\ UNCHANGED kbdVars),
                    ~(link = "pc" /\ KbdHand)
             PROVE  GotSame
  OBVIOUS
<1>0. DOMAIN io = {"rx_buf", "rx_p", "rx_c", "tx_buf", "tx_p", "tx_c", "tx_init"}
  BY IoInts
<1>1. UNCHANGED <<io, got>> => GotSame
  BY DEF GotSame
<1>2. CASE Modules /\ UNCHANGED <<link, devVars, kbdVars>>
  <2>1. CASE Stdout
    BY <1>0, <2>1 DEF Stdout, StdoutInit, StdoutWait, StdoutEmpty, StdoutTake, StdoutNext,
                      ioVars, GotSame
  <2>2. ASSUME NEW t, Putchar(t) PROVE GotSame
    BY <1>0, <2>2 DEF Putchar, PutcharPlace, PutcharLock, PutcharStore, PutcharNext,
                      PutcharUnlock, PutcharTell, ioVars, GotSame
  <2> QED BY <1>2, <2>1, <2>2 DEF Modules
<1>3. CASE Calls
  BY <1>1, <1>3 DEF Calls, PutcharEnter, GetcharEnter, ioVars
<1>4. CASE IoSame
  BY <1>1, <1>4 DEF IoSame
<1> QED BY <1>2, <1>3, <1>4, IoFrame

LEMMA ReadStays == GotSame => Read' = Read
  BY DEF GotSame, Read

-----------------------------------------------------------------------------
(* What the driver has stays the same as its index follows, ...            *)
LEMMA DriverStays ==
  ASSUME hw'.rx_fifo = hw.rx_fifo, dev'.rx_buf = dev.rx_buf, dev'.rx_p = dev.rx_p, From' = From
  PROVE  Driver' = Driver
<1>1. Line' = Line
  BY DEF Line
<1> QED BY <1>1 DEF Driver

LEMMA DriverNext ==
  ASSUME RxInv, [Next]_vars, \/ link # "rpi" /\ RxTaskNext
                             \/ link = "rpi" /\ RxTaskTake
  PROVE  Driver' = Driver
<1>0. /\ UNCHANGED link /\ CoreOK /\ dev.rx_c \in Nat
      /\ DOMAIN dev = {"rx_buf", "rx_p", "rx_c", "tx_buf", "tx_p", "tx_c", "tx_t"}
  BY LinkStays, RxParts, SentRecords
<1>1. CASE link # "rpi" /\ RxTaskNext
  <2>1. PICK to \in {"enable", "test"} : Step("rx", "next", to)
    BY <1>1 DEF RxTaskNext, Own
  <2>2. pc["rx"] = "next" /\ pc'["rx"] = to
    BY <1>0, <2>1, StepOthers, Names
  <2>3. Ahead = 1 /\ Ahead' = 0
    BY <1>0, <1>1, <2>2 DEF Ahead
  <2>4. dev'.rx_c = dev.rx_c + 1 /\ dev'.rx_buf = dev.rx_buf /\ dev'.rx_p = dev.rx_p
    BY <1>0, <1>1 DEF RxTaskNext
  <2>5. From' = From
    BY <1>0, <2>3, <2>4 DEF From
  <2> QED BY <1>1, <2>4, <2>5, DriverStays DEF RxTaskNext
<1>2. CASE link = "rpi" /\ RxTaskTake
  <2>1. pc["rx"] = "test" /\ pc'["rx"] = IF dev.rx_c = dev.rx_p THEN "sleep" ELSE "rx_func"
    BY <1>0, <1>2, StepOthers, Names DEF RxTaskTake, Own
  <2>2. CASE dev.rx_c = dev.rx_p
    <3>1. UNCHANGED <<dev, hw>>
      BY <1>2, <2>2 DEF RxTaskTake
    <3>2. From' = From
      BY <1>0, <2>1, <2>2, <3>1 DEF From, Ahead
    <3> QED BY <3>1, <3>2, DriverStays
  <2>3. CASE dev.rx_c # dev.rx_p
    <3>1. dev' = [dev EXCEPT !.rx_c = @ + 1] /\ UNCHANGED hw
      BY <1>2, <2>3 DEF RxTaskTake
    <3>2. dev'.rx_c = dev.rx_c + 1 /\ dev'.rx_buf = dev.rx_buf /\ dev'.rx_p = dev.rx_p
      BY <1>0, <3>1
    <3>3. Ahead = 0 /\ Ahead' = -1
      BY <1>0, <1>2, <2>1, <2>3 DEF Ahead
    <3>4. From' = From
      BY <1>0, <3>2, <3>3 DEF From
    <3> QED BY <3>1, <3>2, <3>4, DriverStays
  <2> QED BY <2>2, <2>3
<1> QED BY <1>1, <1>2

(* ... as its handler puts what the device held in the ring, ...           *)
LEMMA DriverTakes ==
  ASSUME RxInv, NEW f \in Seq(Data), f # <<>>, Line = f, Line' = Tail(f),
         dev' = Received(dev, Head(f)), From' = From, dev.rx_p - From < DevSize
  PROVE  Driver' = Driver
<1>1. PICK x \in Data, t \in Seq(Data) : x = Head(f) /\ t = Tail(f) /\ f = Cat(<<x>>, t)
  BY HeadTail
<1>2. PICK from \in Nat, to \in Nat, buf \in [1..DevSize -> Data] :
        from = From /\ to = dev.rx_p /\ buf = dev.rx_buf /\ from <= to /\ to - from < DevSize
  BY RxParts
<1>3. PICK r \in Seq(Data) : r = Ring(buf, from, to)
  BY <1>2, RxParts, RingSeq
<1>4. dev'.rx_buf = Put(buf, to, x) /\ dev'.rx_p = to + 1
  <2>1. dev \in DevTypes
    BY RxParts DEF DataOK, DevType
  <2> QED BY <1>1, <1>2, <2>1, ReceivedIs
<1>5. DevSize \in Nat \ {0}
  BY Sizes
<1>6. Ring(Put(buf, to, x), from, to + 1) = Append(r, x)
  <2>1. from <= to /\ to - from < DevSize
    BY <1>2
  <2>2. Ring(Put(buf, to, x), from, to + 1) = Append(Ring(buf, from, to), x)
    BY <1>5, <2>1, RingPut
  <2> QED BY <1>3, <2>2, Zenon
<1>7. PICK a \in Seq(Data) : a = <<x>>
  <2>1. <<x>> \in Seq(Data)
    BY Singles
  <2> QED BY <2>1, Zenon
<1>8. Append(r, x) = Cat(r, a)
  <2>1. Cat(r, <<x>>) = Append(r, x)
    BY CatLast
  <2> QED BY <1>7, <2>1, Zenon
<1>9. Cat(Cat(r, a), t) = Cat(r, Cat(a, t))
  BY CatCat
<1>10. Driver = Cat(r, Cat(a, t))
  <2>1. Driver = Cat(r, f)
    BY <1>2, <1>3 DEF Driver
  <2> QED BY <1>1, <1>7, <2>1, Zenon
<1>11. Driver' = Cat(Cat(r, a), t)
  <2>1. Driver' = Cat(Ring(dev'.rx_buf, From', dev'.rx_p), Line')
    BY DEF Driver
  <2> QED BY <1>1, <1>2, <1>4, <1>6, <1>8, <2>1
<1> QED BY <1>9, <1>10, <1>11

LEMMA DriverReceives ==
  ASSUME RxInv, [Next]_vars, "rx" \notin lost',
         \/ link \in {"pc", "com"} /\ IsrRx
         \/ link = "sam9" /\ IsrRxSam
         \/ link = "rpi" /\ IsrRxPi
  PROVE  Driver' = Driver
<1>0. /\ UNCHANGED <<link, pc>> /\ hw.rx_fifo \in Seq(Data) /\ dev.rx_c \in Nat /\ dev.rx_p \in Nat
      /\ DOMAIN dev = {"rx_buf", "rx_p", "rx_c", "tx_buf", "tx_p", "tx_c", "tx_t"}
      /\ DOMAIN hw = {"rx_on", "tx_on", "rx_fifo", "tx_fifo", "overrun", "tx_int", "rx_int",
                      "shift"}
      /\ dev \in DevTypes /\ Len(dev.rx_buf) = DevSize
  <2>1. UNCHANGED link /\ DataOK /\ hw.rx_fifo \in Seq(Data) /\ dev.rx_c \in Nat /\ dev.rx_p \in Nat
    BY LinkStays, RxParts
  <2>2. dev.rx_buf \in DevBufs
    BY <2>1 DEF DataOK, DevType, DevTypes
  <2> QED BY <2>1, <2>2, SentRecords, Lens DEF IsrRx, IsrRxSam, IsrRxPi
<1>1. Ahead' = Ahead
  BY <1>0 DEF Ahead
<1>2. ASSUME NEW x \in Data, dev' = Received(dev, x) PROVE From' = From
  BY <1>0, <1>1, <1>2, ReceivedIs DEF From
<1>3. link \in {"pc", "com", "sam9"} => Ahead \in {0, 1}
  BY DEF Ahead
<1>4. CASE link \in {"pc", "com"} /\ IsrRx
  <2>1. PICK f \in Seq(Chars) : f = hw.rx_fifo
    BY <1>4 DEF RxInv, InOK, HeldOK
  <2>2. f # <<>>
    BY <1>4, <2>1, RxParts DEF IsrRx, DataOK, FifoOK
  <2>3. PICK n : n = Tail(f)
    OBVIOUS
  <2>4. hw'.rx_fifo = n /\ n \in Seq(Chars) /\ Head(f) \in Chars
    BY <1>0, <1>4, <2>1, <2>2, <2>3 DEF IsrRx
  <2>5. Line = f
    BY <2>1, <2>4 DEF Line
  <2>6. Line' = n
    <3>1. n # <<>> => Head(n) \in Chars
      BY <2>4
    <3> QED BY <2>4, <3>1 DEF Line
  <2>7. dev' = Received(dev, Head(f)) /\ From' = From
    BY <1>2, <1>4, <2>1, <2>4, Sizes DEF IsrRx
  <2>8. dev.rx_p - From < DevSize
    <3>1. RxRoom
      BY <1>4 DEF IsrRx, RxLoses
    <3> QED BY <1>0, <1>3, <1>4, <3>1 DEF RxRoom, From
  <2>9. f \in Seq(Data)
    BY <1>0, <2>1
  <2> QED BY <2>2, <2>3, <2>5, <2>6, <2>7, <2>8, <2>9, DriverTakes
<1>5. CASE UNCHANGED <<dev, hw>>
  BY <1>1, <1>5, DriverStays DEF From
<1>6. ASSUME link \in {"sam9", "rpi"}, hw.rx_fifo # <<>>, hw'.rx_fifo = <<>>,
             Head(hw.rx_fifo) \in Chars, dev' = Received(dev, Head(hw.rx_fifo)),
             dev.rx_p - From < DevSize
      PROVE  Driver' = Driver
  <2>1. PICK f \in Seq(Data) : f = hw.rx_fifo /\ f # <<>> /\ Len(f) <= 1
    BY <1>0, <1>6 DEF RxInv, InOK, HeldOK
  <2>2. Line = f /\ Line' = <<>>
    BY <1>6, <2>1 DEF Line
  <2>3. Tail(f) = <<>>
    BY <2>1, HeadTail
  <2>4. From' = From
    BY <1>2, <1>6, Sizes
  <2>5. dev' = Received(dev, Head(f)) /\ dev.rx_p - From < DevSize
    BY <1>6, <2>1
  <2> QED BY <2>1, <2>2, <2>3, <2>4, <2>5, DriverTakes
<1>7. CASE link = "sam9" /\ IsrRxSam
  <2>1. CASE RxPending /\ dev' = Received(dev, Head(hw.rx_fifo)) /\ lost' = RxLoses
             /\ hw' = [hw EXCEPT !.rx_fifo = <<>>, !.rx_on = ~Full(dev')]
    <3>1. hw.rx_fifo # <<>> /\ hw'.rx_fifo = <<>>
      BY <1>0, <2>1 DEF RxPending
    <3>2. Head(hw.rx_fifo) \in Chars
      <4>1. hw.rx_fifo \in Seq(Chars)
        BY <1>7 DEF RxInv, InOK, HeldOK
      <4> QED BY <3>1, <4>1
    <3>3. dev.rx_p - From < DevSize
      <4>1. RxRoom
        BY <2>1 DEF RxLoses
      <4> QED BY <1>0, <1>3, <1>7, <4>1 DEF RxRoom, From
    <3> QED BY <1>6, <1>7, <2>1, <3>1, <3>2, <3>3
  <2> QED BY <1>5, <1>7, <2>1 DEF IsrRxSam
<1>8. CASE link = "rpi" /\ IsrRxPi
  <2>1. CASE /\ hw.rx_fifo # <<>> /\ Head(hw.rx_fifo) \in Chars
             /\ dev' = Received(dev, Head(hw.rx_fifo)) /\ lost' = RxLosesPi
             /\ hw' = [hw EXCEPT !.rx_fifo = <<>>, !.rx_int = FALSE]
    <3>1. hw'.rx_fifo = <<>>
      BY <1>0, <2>1
    <3>2. dev.rx_p - From < DevSize
      <4>1. dev.rx_p - dev.rx_c + HandedPi < DevSize
        BY <1>0, <2>1 DEF RxLosesPi
      <4>2. pc["rx"] \notin {"compare", "next"}
        BY <1>8, RxParts, Names DEF CoreOK, PcOK, PointsOf, RxPoints
      <4>3. Ahead = 0 - HandedPi /\ HandedPi \in {0, 1}
        BY <1>8, <4>2 DEF Ahead, HandedPi
      <4> QED BY <1>0, <4>1, <4>3 DEF From
    <3> QED BY <1>6, <1>8, <2>1, <3>1, <3>2
  <2>2. CASE /\ hw.rx_fifo # <<>> /\ Head(hw.rx_fifo) \notin Chars /\ UNCHANGED dev
             /\ hw' = [hw EXCEPT !.rx_fifo = <<>>, !.rx_int = FALSE]
    <3>1. hw'.rx_fifo = <<>>
      BY <1>0, <2>2
    <3>2. Line = <<>> /\ Line' = <<>>
      BY <2>2, <3>1 DEF Line
    <3>3. From' = From
      BY <1>1, <2>2 DEF From
    <3> QED BY <2>2, <3>2, <3>3 DEF Driver
  <2> QED BY <1>5, <1>8, <2>1, <2>2 DEF IsrRxPi
<1> QED BY <1>4, <1>7, <1>8

-----------------------------------------------------------------------------
(* A character is handed over: it leaves the driver's ring and is put in   *)
(* the standard I/O's.                                                     *)
LEMMA HandedOver ==
  ASSUME NEW r \in Seq(Data), NEW x \in Data, NEW u \in Seq(Data)
  PROVE  Cat(r, Cat(<<x>>, u)) = Cat(Append(r, x), u)
<1>1. PICK a \in Seq(Data) : a = <<x>>
  <2>1. <<x>> \in Seq(Data)
    BY Singles
  <2> QED BY <2>1, Zenon
<1>2. Cat(Cat(r, a), u) = Cat(r, Cat(a, u))
  BY CatCat
<1>3. Cat(r, <<x>>) = Append(r, x)
  BY CatLast
<1> QED BY <1>1, <1>2, <1>3, Zenon

LEMMA ReadPut ==
  ASSUME RxInv, NEW t, NEW after, NEW x \in Data, RxStore(t, after, x), ~dropped'
  PROVE  Read' = Append(Read, x) /\ got' = got
<1>0. /\ DOMAIN io = {"rx_buf", "rx_p", "rx_c", "tx_buf", "tx_p", "tx_c", "tx_init"}
      /\ IoSize \in Nat \ {0}
  BY RxParts, IoInts
<1>1. PICK from \in Nat, to \in Nat, buf \in [1..IoSize -> Data] :
        from = io.rx_c /\ to = io.rx_p /\ buf = io.rx_buf
  BY RxParts
<1>2. from <= to /\ to - from < IoSize
  <2>1. ~(io.rx_p - io.rx_c >= IoSize)
    BY Zenon DEF RxStore
  <2>2. io.rx_c <= io.rx_p
    BY RxParts
  <2> QED BY <1>0, <1>1, <2>1, <2>2
<1>3. io' = [io EXCEPT !.rx_buf = Put(@, io.rx_p, x), !.rx_p = @ + 1] /\ got' = got
  BY DEF RxStore
<1>4. io'.rx_buf = Put(buf, to, x) /\ io'.rx_p = to + 1 /\ io'.rx_c = from
  BY <1>0, <1>1, <1>3
<1>5. Ring(Put(buf, to, x), from, to + 1) = Append(Ring(buf, from, to), x)
  BY <1>0, <1>2, RingPut
<1>6. Read = Ring(buf, from, to)
  BY <1>1 DEF Read
<1>7. Read' = Ring(Put(buf, to, x), from, to + 1)
  <2>1. Read' = Ring(io'.rx_buf, io'.rx_c, io'.rx_p)
    BY DEF Read
  <2> QED BY <1>4, <2>1, Zenon
<1> QED BY <1>3, <1>5, <1>6, <1>7, Zenon

LEMMA DriverGives ==
  ASSUME RxInv, UNCHANGED <<dev, hw>>, From' = From + 1, From < dev.rx_p
  PROVE  At(dev.rx_buf, From) \in Data /\ Driver = Cat(<<At(dev.rx_buf, From)>>, Driver')
<1>1. PICK from \in Nat, to \in Nat, buf \in [1..DevSize -> Data], l \in Seq(Data) :
        from = From /\ to = dev.rx_p /\ buf = dev.rx_buf /\ l = Line
  BY RxParts
<1>2. DevSize \in Nat \ {0} /\ from < to /\ from + 1 \in Nat /\ from + 1 <= to
  BY <1>1, Sizes
<1>3. PICK x : x = At(buf, from)
  OBVIOUS
<1>4. x \in Data /\ Ring(buf, from, to) = Cat(<<x>>, Ring(buf, from + 1, to))
  <2>1. from < to
    BY <1>2
  <2>2. /\ At(buf, from) \in Data
        /\ Ring(buf, from, to) = Cat(<<At(buf, from)>>, Ring(buf, from + 1, to))
    BY <1>2, <2>1, RingOne
  <2> QED BY <1>3, <2>2, Zenon
<1>5. PICK e \in Nat : e = from + 1 /\ e <= to
  BY <1>2
<1>6. PICK r \in Seq(Data) : r = Ring(buf, e, to)
  BY <1>2, <1>5, RingSeq
<1>7. PICK a \in Seq(Data) : a = <<x>>
  <2>1. <<x>> \in Seq(Data)
    BY <1>4, Singles
  <2> QED BY <2>1, Zenon
<1>8. Cat(Cat(a, r), l) = Cat(a, Cat(r, l))
  BY CatCat
<1>9. Line' = l
  BY <1>1 DEF Line
<1>10. Driver' = Cat(r, l)
  <2>1. Driver' = Cat(Ring(dev'.rx_buf, From', dev'.rx_p), Line')
    BY DEF Driver
  <2> QED BY <1>1, <1>5, <1>6, <1>9, <2>1
<1>11. Driver = Cat(Cat(a, r), l)
  <2>1. Driver = Cat(Ring(buf, from, to), l)
    BY <1>1 DEF Driver
  <2> QED BY <1>4, <1>5, <1>6, <1>7, <2>1, Zenon
<1> QED BY <1>1, <1>3, <1>4, <1>7, <1>8, <1>10, <1>11, Zenon

(* What a step does to all that came in and has not been read, until some  *)
(* of it was lost.                                                         *)
Lossy == dropped \/ lost \cap {"rx", "line", "key"} # {}
InStays == Incoming' = Incoming /\ UNCHANGED got
InDelivers == \E x \in Data, q \in Seq(Data) :
                 Incoming = Cat(<<x>>, q) /\ Incoming' = q /\ got' = Append(got, x)
InPuts == \E x \in Chars : Incoming' = Append(Incoming, x) /\ UNCHANGED got

LEMMA IncomingNext ==
  RxInv /\ [Next]_vars =>
    Read' \in Seq(Data) /\ Unread' \in Seq(Data) /\ Incoming' = Cat(Read', Unread')
<1>1. (RxInv => Read \in Seq(Data) /\ Unread \in Seq(Data) /\ Incoming = Cat(Read, Unread))'
  BY IncomingIs, PTL
<1> QED BY <1>1, RxInvStep

LEMMA BothStay ==
  ASSUME RxInv, [Next]_vars, GotSame, Unread' = Unread
  PROVE  InStays
<1>1. Incoming = Cat(Read, Unread) /\ Incoming' = Cat(Read', Unread')
  BY IncomingIs, IncomingNext
<1>2. Read' = Read /\ got' = got
  BY ReadStays DEF GotSame
<1> QED BY <1>1, <1>2 DEF InStays

LEMMA HandsOver ==
  ASSUME RxInv, [Next]_vars, NEW x \in Data, NEW t, NEW after, RxStore(t, after, x), ~dropped',
         Unread = Cat(<<x>>, Unread')
  PROVE  InStays
<1>1. PICK r \in Seq(Data) : r = Read /\ Incoming = Cat(r, Unread)
  BY IncomingIs
<1>2. PICK u \in Seq(Data) : u = Unread' /\ Incoming' = Cat(Read', u)
  BY IncomingNext
<1>3. Read' = Append(r, x) /\ got' = got
  BY <1>1, ReadPut
<1>4. Cat(r, Cat(<<x>>, u)) = Cat(Append(r, x), u)
  BY HandedOver
<1>5. Incoming' = Incoming
  BY <1>1, <1>2, <1>3, <1>4, Zenon
<1> QED BY <1>3, <1>5 DEF InStays

LEMMA NotLossy ==
  ~Lossy' <=> /\ ~dropped' /\ "rx" \notin lost' /\ "line" \notin lost' /\ "key" \notin lost'
  BY DEF Lossy

LEMMA FuncKeeps ==
  ASSUME CoreOK, NEW t \in Tasks, NEW after, RxFunc(t, after), ~dropped'
  PROVE  pc[t] = "rx_func" /\ pc'[t] = "store" /\ GotSame
<1>1. Gives("rx")
  BY Zenon DEF RxFunc
<1>2. Step(t, "rx_func", "store")
  BY <1>1 DEF RxFunc
<1>3. GotSame
  BY DEF RxFunc, GotSame
<1> QED BY <1>2, <1>3, StepOthers

LEMMA DriverHands ==
  ASSUME RxInv, [Next]_vars, ~Lossy', UNCHANGED kbdVars,
         \/ link # "rpi" /\ RxTaskHand("compare")
         \/ link = "rpi" /\ RxTaskHandPi
  PROVE  InStays
<1>0. CoreOK /\ UNCHANGED <<link, devVars>> /\ ~dropped' /\ dev.rx_c \in Nat /\ dev.rx_p \in Nat
  BY LinkStays, RxParts, NotLossy DEF RxTaskHand, RxTaskHandPi
<1>1. pc["rx"] \in {"rx_func", "store"} /\ link # "pc"
  <2>1. pc["rx"] \in {"rx_func", "store"}
    BY <1>0, StepOthers, Names DEF RxTaskHand, RxTaskHandPi, RxFunc, RxStore
  <2> QED BY <1>0, <2>1, Names DEF CoreOK, PcOK, PointsOf, RxPoints
<1>2. Unread = Driver /\ Unread' = Driver'
  BY <1>0, <1>1 DEF Unread
<1>3. ASSUME NEW after, RxFunc("rx", after) PROVE InStays
  <2>1. pc["rx"] = "rx_func" /\ pc'["rx"] = "store" /\ GotSame
    BY <1>0, <1>3, FuncKeeps, Names
  <2>2. From' = From
    BY <1>0, <2>1 DEF From, Ahead, devVars
  <2>3. Driver' = Driver
    BY <1>0, <2>2, DriverStays DEF devVars
  <2> QED BY <1>2, <2>1, <2>3, BothStay
<1>4. CASE link # "rpi" /\ RxStore("rx", "compare", At(dev.rx_buf, dev.rx_c))
  <2>1. pc["rx"] = "store" /\ pc'["rx"] = "compare"
    BY <1>0, <1>4, StepOthers, Names DEF RxStore
  <2>2. dev.rx_c # dev.rx_p
    BY <1>4, <2>1, RxParts DEF RecvOK, Handing
  <2>3. From = dev.rx_c /\ From' = From + 1 /\ From < dev.rx_p
    BY <1>0, <1>4, <2>1, <2>2, RxParts DEF From, Ahead, devVars
  <2>4. /\ At(dev.rx_buf, From) \in Data
        /\ Driver = Cat(<<At(dev.rx_buf, From)>>, Driver')
    BY <1>0, <2>3, DriverGives DEF devVars
  <2> QED BY <1>0, <1>2, <1>4, <2>3, <2>4, HandsOver
<1>5. CASE link = "rpi" /\ RxStore("rx", "test", At(dev.rx_buf, dev.rx_c - 1))
  <2>1. pc["rx"] = "store" /\ pc'["rx"] = "test"
    BY <1>0, <1>5, StepOthers, Names DEF RxStore
  <2>2. Ahead = -1 /\ Ahead' = 0
    BY <1>0, <1>5, <2>1 DEF Ahead
  <2>3. From = dev.rx_c - 1 /\ From' = From + 1 /\ From < dev.rx_p
    BY <1>0, <2>2, RxParts DEF From, devVars
  <2>4. /\ At(dev.rx_buf, From) \in Data
        /\ Driver = Cat(<<At(dev.rx_buf, From)>>, Driver')
    BY <1>0, <2>3, DriverGives DEF devVars
  <2> QED BY <1>0, <1>2, <1>5, <2>3, <2>4, HandsOver
<1> QED BY <1>3, <1>4, <1>5 DEF RxTaskHand, RxTaskHandPi

LEMMA KeyHanded ==
  ASSUME RxInv, [Next]_vars, ~Lossy', link = "pc", KbdHand
  PROVE  InStays
<1>0. /\ CoreOK /\ UNCHANGED <<link, key, lost>> /\ ~dropped' /\ "key" \notin lost /\ ~dropped
      /\ key \in Data
  <2>1. CoreOK /\ UNCHANGED <<link, key, lost>> /\ ~dropped' /\ "key" \notin lost' /\ key \in Data
    BY LinkStays, RxParts, NotLossy DEF KbdHand, devVars
  <2>2. ~dropped
    BY <2>1, MarksStay
  <2> QED BY <2>1, <2>2
<1>1. CASE RxFunc("kbd", "sleep") /\ UNCHANGED fresh
  <2>1. GotSame
    BY <1>0, <1>1, FuncKeeps, Names
  <2>2. Unread' = Unread
    BY <1>0, <1>1 DEF Unread
  <2> QED BY <2>1, <2>2, BothStay
<1>2. CASE RxStore("kbd", "sleep", key) /\ fresh' = FALSE
  <2>1. pc["kbd"] = "store"
    BY <1>0, <1>2, StepOthers, Names DEF RxStore
  <2>2. fresh
    BY <1>0, <2>1 DEF RxInv, InOK, KeyOK
  <2>3. Unread = <<key>> /\ Unread' = <<>>
    BY <1>0, <1>2, <2>2 DEF Unread
  <2>4. Cat(<<key>>, <<>>) = <<key>>
    <3>1. <<key>> \in Seq(Data)
      BY <1>0, Singles
    <3> QED BY <3>1, CatIs, Zenon
  <2>5. Unread = Cat(<<key>>, Unread')
    BY <2>3, <2>4, Zenon
  <2> QED BY <1>0, <1>2, <2>5, HandsOver
<1> QED BY <1>1, <1>2 DEF KbdHand

(* getchar() reads the first of them.                                      *)
LEMMA ReaderReads ==
  ASSUME RxInv, [Next]_vars, Getchar("cli"), UNCHANGED <<link, devVars, kbdVars>>
  PROVE  InDelivers
<1>0. /\ CoreOK /\ IoSize \in Nat \ {0} /\ count_now["rx"] \in Nat
      /\ DOMAIN io = {"rx_buf", "rx_p", "rx_c", "tx_buf", "tx_p", "tx_c", "tx_init"}
  BY RxParts, IoInts DEF Sems
<1>1. /\ pc["cli"] = "char" /\ status["cli"] = "READY" /\ run = "cli" /\ isr = "off"
      /\ \A u \in Tasks : u # "cli" => pc'[u] = pc[u]
  BY <1>0, StepOthers, Names DEF Getchar
<1>2. InStore = 0 /\ InRead = 1
  BY <1>0, <1>1, StoresAlone DEF InStore, InRead
<1>3. PICK from \in Nat, to \in Nat, buf \in [1..IoSize -> Data] :
        from = io.rx_c /\ to = io.rx_p /\ buf = io.rx_buf
  BY RxParts
<1>4. from < to
  <2>1. count_now["rx"] + InRead = io.rx_p - io.rx_c + InStore
    BY RxParts DEF ReadOK
  <2>2. PICK n \in Nat : n = count_now["rx"]
    BY <1>0
  <2>3. n + 1 = to - from + 0
    BY <1>2, <1>3, <2>1, <2>2
  <2> QED BY <2>3
<1>5. PICK x : x = At(buf, from)
  OBVIOUS
<1>6. x \in Data /\ Ring(buf, from, to) = Cat(<<x>>, Ring(buf, from + 1, to))
  <2>1. /\ At(buf, from) \in Data
        /\ Ring(buf, from, to) = Cat(<<At(buf, from)>>, Ring(buf, from + 1, to))
    BY <1>0, <1>4, RingOne
  <2> QED BY <1>5, <2>1, Zenon
<1>7. io'.rx_buf = buf /\ io'.rx_c = from + 1 /\ io'.rx_p = to /\ got' = Append(got, x)
  <2>1. io' = [io EXCEPT !.rx_c = @ + 1] /\ got' = Append(got, At(io.rx_buf, io.rx_c))
    BY DEF Getchar
  <2> QED BY <1>0, <1>3, <1>5, <2>1
<1>8. Read' = Ring(buf, from + 1, to)
  <2>1. Read' = Ring(io'.rx_buf, io'.rx_c, io'.rx_p)
    BY DEF Read
  <2> QED BY <1>7, <2>1, Zenon
<1>9. Read = Ring(buf, from, to)
  BY <1>3 DEF Read
<1>10. Unread' = Unread
  <2>1. Ahead' = Ahead
    BY <1>1, Names DEF Ahead
  <2>2. From' = From
    BY <2>1 DEF From, devVars
  <2>3. Driver' = Driver
    BY <2>2, DriverStays DEF devVars
  <2> QED BY <2>3 DEF Unread, kbdVars
<1>11. PICK r \in Seq(Data), u \in Seq(Data) : r = Read' /\ u = Unread /\ Incoming' = Cat(r, u)
  BY <1>10, IncomingNext
<1>12. PICK a \in Seq(Data) : a = <<x>>
  <2>1. <<x>> \in Seq(Data)
    BY <1>6, Singles
  <2> QED BY <2>1, Zenon
<1>13. Cat(Cat(a, r), u) = Cat(a, Cat(r, u))
  BY CatCat
<1>14. Incoming = Cat(Cat(a, r), u)
  <2>1. Incoming = Cat(Read, Unread)
    BY IncomingIs
  <2> QED BY <1>6, <1>8, <1>9, <1>11, <1>12, <2>1, Zenon
<1>15. PICK q \in Seq(Data) : q = Cat(r, u)
  BY CatIs
<1>16. Incoming = Cat(<<x>>, q) /\ Incoming' = q
  BY <1>11, <1>12, <1>13, <1>14, <1>15, Zenon
<1> QED BY <1>6, <1>7, <1>16 DEF InDelivers

(* A character that comes in stands behind the others.                     *)
LEMMA OneMore ==
  ASSUME RxInv, [Next]_vars, GotSame, NEW x \in Chars, Unread' = Append(Unread, x)
  PROVE  InPuts
<1>1. PICK r \in Seq(Data), u \in Seq(Data) : r = Read /\ u = Unread /\ Incoming = Cat(r, u)
  BY IncomingIs
<1>2. x \in Data
  BY Sizes
<1>3. Append(Cat(r, u), x) = Cat(r, Append(u, x))
  BY <1>2, CatAppend
<1>4. Incoming' = Cat(Read', Unread')
  BY IncomingNext
<1>5. Read' = Read /\ got' = got
  BY ReadStays DEF GotSame
<1>6. Incoming' = Append(Incoming, x)
  BY <1>1, <1>3, <1>4, <1>5, Zenon
<1> QED BY <1>5, <1>6 DEF InPuts

LEMMA LineComes ==
  ASSUME RxInv, [Next]_vars, ~Lossy', LineIn
  PROVE  InStays \/ InPuts
<1>0. /\ CoreOK /\ DataOK /\ UNCHANGED <<link, pc, dev>> /\ "line" \notin lost' /\ GotSame
      /\ hw.rx_fifo \in Seq(Data) /\ CR \notin Chars
      /\ DOMAIN hw = {"rx_on", "tx_on", "rx_fifo", "tx_fifo", "overrun", "tx_int", "rx_int",
                      "shift"}
  BY LinkStays, RxParts, NotLossy, SentRecords, ConsoleAssumption
     DEF LineIn, LineIn16550, LineInSam, LineInPi, GotSame, ioVars
<1>1. PICK x \in Chars : x = load'.came
  BY <1>0, ComesIs DEF LineIn
<1>2. From' = From
  BY <1>0 DEF From, Ahead
<1>3. PICK r \in Seq(Data), l \in Seq(Data) :
        r = Ring(dev.rx_buf, From, dev.rx_p) /\ l = Line /\ Driver = Cat(r, l)
  BY RxParts, RingSeq DEF Driver
<1>4. Driver' = Cat(r, Line')
  <2>1. Driver' = Cat(Ring(dev'.rx_buf, From', dev'.rx_p), Line')
    BY DEF Driver
  <2> QED BY <1>0, <1>2, <1>3, <2>1, Zenon
<1>5. CASE Line' = Line
  <2>1. Driver' = Driver
    BY <1>3, <1>4, <1>5, Zenon
  <2>2. Unread' = Unread
    <3>1. CASE link = "pc"
      BY <1>0, <3>1 DEF Unread, LineIn, kbdVars
    <3>2. CASE link # "pc"
      BY <1>0, <2>1, <3>2 DEF Unread
    <3> QED BY <3>1, <3>2
  <2> QED BY <1>0, <2>2, BothStay
<1>6. CASE Line' = Append(Line, x) /\ link # "pc"
  <2>1. Append(Cat(r, l), x) = Cat(r, Append(l, x))
    BY Sizes, CatAppend
  <2>2. Driver' = Append(Driver, x)
    BY <1>3, <1>4, <1>6, <2>1, Zenon
  <2>3. Unread' = Append(Unread, x)
    BY <1>0, <1>6, <2>2 DEF Unread
  <2> QED BY <1>0, <2>3, OneMore
<1>7. CASE link = "pc"
  <2>1. Unread' = Unread
    BY <1>0, <1>7 DEF Unread, LineIn, kbdVars
  <2> QED BY <1>0, <2>1, BothStay
<1>8. CASE link = "com" /\ LineIn16550(x)
  <2>1. CASE hw' = [hw EXCEPT !.rx_fifo = Append(@, x)]
    <3>1. PICK f \in Seq(Chars) : f = hw.rx_fifo
      BY <1>8 DEF RxInv, InOK, HeldOK
    <3>2. PICK n : n = Append(f, x)
      OBVIOUS
    <3>3. n \in Seq(Chars) /\ n # <<>> /\ Head(n) \in Chars /\ (f # <<>> => Head(f) \in Chars)
      BY <3>2
    <3>4. hw'.rx_fifo = n
      BY <1>0, <2>1, <3>1, <3>2
    <3>5. Line = f /\ Line' = n
      BY <3>1, <3>3, <3>4 DEF Line
    <3> QED BY <1>6, <1>8, <3>2, <3>5
  <2>2. CASE hw' = [hw EXCEPT !.overrun = TRUE]
    <3>1. hw'.rx_fifo = hw.rx_fifo
      BY <1>0, <2>2
    <3> QED BY <1>5, <3>1 DEF Line
  <2> QED BY <1>8, <2>1, <2>2 DEF LineIn16550
<1>9. ASSUME link # "pc", hw.rx_fifo = <<>>, hw'.rx_fifo = <<x>> PROVE InPuts \/ InStays
  <2>1. Line = <<>> /\ Line' = <<x>>
    BY <1>9 DEF Line
  <2>2. Append(<<>>, x) = <<x>>
    OBVIOUS
  <2> QED BY <1>6, <1>9, <2>1, <2>2, Zenon
<1>10. CASE link = "sam9" /\ LineInSam(x)
  <2>1. hw.rx_fifo = <<>> /\ hw'.rx_fifo = <<x>>
    BY <1>0, <1>10 DEF LineInSam
  <2> QED BY <1>9, <1>10, <2>1
<1>11. ASSUME link = "rpi", NEW y \in {x, CR}, LineInPi(y) PROVE InStays \/ InPuts
  <2>1. CASE hw' = hw
    BY <1>5, <2>1 DEF Line
  <2>2. CASE hw.rx_fifo = <<>> /\ hw' = [hw EXCEPT !.rx_fifo = <<y>>, !.rx_int = TRUE]
    <3>1. hw'.rx_fifo = <<y>>
      BY <1>0, <2>2
    <3>2. CASE y = x
      BY <1>9, <1>11, <2>2, <3>1, <3>2
    <3>3. CASE y = CR
      <4>1. Line = <<>> /\ Line' = <<>>
        BY <1>0, <2>2, <3>1, <3>3 DEF Line
      <4> QED BY <1>5, <4>1
    <3> QED BY <3>2, <3>3
  <2> QED BY <1>11, <2>1, <2>2 DEF LineInPi
<1> QED BY <1>0, <1>1, <1>7, <1>8, <1>10, <1>11 DEF LineIn

LEMMA KeyComes ==
  ASSUME RxInv, [Next]_vars, ~Lossy', KeyIn
  PROVE  InPuts
<1>0. DataOK /\ "key" \notin lost' /\ GotSame /\ UNCHANGED link /\ link = "pc"
  BY RxParts, NotLossy DEF KeyIn, IsrKbd, GotSame, ioVars
<1>1. PICK x \in Chars : x = load'.came
  BY <1>0, ComesIs DEF KeyIn
<1>2. ~fresh /\ key' = x /\ fresh' = TRUE
  BY <1>0, <1>1 DEF KeyIn, IsrKbd
<1>3. Unread = <<>> /\ Unread' = <<x>>
  BY <1>0, <1>2 DEF Unread
<1>4. Append(<<>>, x) = <<x>>
  OBVIOUS
<1> QED BY <1>0, <1>3, <1>4, OneMore, Zenon

LEMMA HandsKeepKeys == [Next]_vars /\ link # "pc" => UNCHANGED kbdVars
<1>1. CASE Handles
  BY <1>1 DEF Handles, IsrKbdEnd
<1>2. CASE Goes
  BY <1>2 DEF Goes, Drivers, Pc
<1> QED BY <1>1, <1>2 DEF Next, Interrupt, Clock, Calls, Delay, LineIn, KeyIn, LineOut, vars

LEMMA InStep ==
  RxInv /\ [Next]_vars /\ ~Lossy' => InStays \/ InDelivers \/ InPuts
<1> SUFFICES ASSUME RxInv, [Next]_vars, ~Lossy' PROVE InStays \/ InDelivers \/ InPuts
  OBVIOUS
<1>0. CoreOK /\ DataOK /\ UNCHANGED link /\ "rx" \notin lost'
  BY LinkStays, RxParts, NotLossy
<1>1. CASE Getchar("cli") /\ UNCHANGED <<link, devVars, kbdVars>>
  BY <1>1, ReaderReads
<1>2. CASE UNCHANGED kbdVars /\ \/ link # "rpi" /\ RxTaskHand("compare")
                                \/ link = "rpi" /\ RxTaskHandPi
  BY <1>2, DriverHands
<1>3. CASE link = "pc" /\ KbdHand
  BY <1>3, KeyHanded
<1>4. CASE LineIn
  BY <1>4, LineComes
<1>5. CASE KeyIn
  BY <1>5, KeyComes
<1>6. CASE GotSame /\ ~KeyIn /\ ~KbdHand /\ link = "pc"
  <2>1. UNCHANGED kbdVars
    <3>1. KbdTask \/ UNCHANGED kbdVars
      BY <1>0, <1>6, KbdFrame
    <3>2. KbdTest => UNCHANGED kbdVars
      BY DEF KbdTest, kbdVars
    <3> QED BY <1>6, <3>1, <3>2 DEF KbdTask
  <2>2. key' = key /\ fresh' = fresh
    BY <2>1 DEF kbdVars
  <2>3. link' = link
    BY <1>0
  <2>4. Unread' = Unread
    BY <1>6, <2>2, <2>3 DEF Unread
  <2> QED BY <1>6, <2>4, BothStay
<1>7. CASE GotSame /\ ~LineIn /\ link # "pc" /\ ~(link # "rpi" /\ RxTaskHand("compare"))
           /\ ~(link = "rpi" /\ RxTaskHandPi)
  <2>1. ASSUME CameSame, Ahead' = Ahead PROVE Driver' = Driver
    <3>1. hw'.rx_fifo = hw.rx_fifo /\ dev'.rx_buf = dev.rx_buf /\ dev'.rx_p = dev.rx_p
      BY <2>1 DEF CameSame
    <3>2. dev'.rx_c = dev.rx_c
      BY <2>1 DEF CameSame
    <3>3. From' = From
      BY <2>1, <3>2 DEF From
    <3> QED BY <3>1, <3>3, DriverStays
  <2>2. ASSUME \/ link # "rpi" /\ RxTaskNext
               \/ link = "rpi" /\ RxTaskTake
        PROVE  Driver' = Driver
    BY <2>2, DriverNext
  <2>3. ASSUME \/ link \in {"pc", "com"} /\ IsrRx
               \/ link = "sam9" /\ IsrRxSam
               \/ link = "rpi" /\ IsrRxPi
        PROVE  Driver' = Driver
    BY <1>0, <2>3, DriverReceives
  <2>4. Driver' = Driver
    <3>1. \/ link # "rpi" /\ RxTaskNext
          \/ link = "rpi" /\ RxTaskTake
          \/ link \in {"pc", "com"} /\ IsrRx
          \/ link = "sam9" /\ IsrRxSam
          \/ link = "rpi" /\ IsrRxPi
          \/ CameSame
      BY <1>0, <1>7, CameFrame
    <3>2. \/ link # "rpi" /\ RxTaskNext
          \/ link = "rpi" /\ RxTaskTake
          \/ Ahead' = Ahead
      BY <1>0, <1>7, AheadFrame
    <3> QED BY <2>1, <2>2, <2>3, <3>1, <3>2
  <2>5. link' = link
    BY <1>0
  <2>6. Unread' = Unread
    BY <1>7, <2>4, <2>5 DEF Unread
  <2> QED BY <1>7, <2>6, BothStay
<1>8. CASE GotSame /\ link # "pc" /\ \/ link # "rpi" /\ RxTaskHand("compare")
                                     \/ link = "rpi" /\ RxTaskHandPi
  <2>1. UNCHANGED kbdVars
    BY <1>8, HandsKeepKeys
  <2> QED BY <1>2, <1>8, <2>1
<1> QED BY <1>0, <1>1, <1>2, <1>3, <1>4, <1>5, <1>6, <1>7, <1>8, ReadFrame

LEMMA RxRefines ==
  RxInv /\ [Next]_vars =>
    [Rx!Next]_<<Incoming, got, dropped \/ lost \cap {"rx", "line", "key"} # {}>>
<1> SUFFICES ASSUME RxInv, [Next]_vars
             PROVE  [Rx!Next]_<<Incoming, got, dropped \/ lost \cap {"rx", "line", "key"} # {}>>
  OBVIOUS
<1>0. [Rx!Next]_<<Incoming, got, Lossy>>
  <2>1. CASE Lossy'
    BY <2>1 DEF Rx!Next, Lossy
  <2>2. CASE ~Lossy'
    <3>1. ~Lossy
      BY <2>2, RxParts, MarksStay DEF Lossy
    <3>2. Lossy' = Lossy
      BY <2>2, <3>1, Zenon DEF Lossy
    <3>3. CASE InStays
      BY <3>2, <3>3 DEF InStays
    <3>4. CASE InDelivers
      <4>1. PICK x \in Data, q \in Seq(Data) :
              Incoming = Cat(<<x>>, q) /\ Incoming' = q /\ got' = Append(got, x)
        BY <3>4 DEF InDelivers
      <4>2. Incoming # <<>> /\ Head(Incoming) = x /\ Tail(Incoming) = q
        BY <4>1, CatFirst
      <4>3. Rx!Deliver
        BY <3>2, <4>1, <4>2, Zenon DEF Rx!Deliver, Lossy
      <4> QED BY <4>3 DEF Rx!Next
    <3>5. CASE InPuts
      <4>1. PICK x \in Chars : Incoming' = Append(Incoming, x) /\ UNCHANGED got
        BY <3>5 DEF InPuts
      <4>2. Rx!Wire(x) = <<x>>
        BY DEF Rx!Wire
      <4>3. Incoming' = Incoming \o <<x>>
        <5>1. Incoming \in Seq(Data)
          <6>1. Read \in Seq(Data) /\ Unread \in Seq(Data) /\ Incoming = Cat(Read, Unread)
            BY IncomingIs
          <6> QED BY <6>1, CatIs
        <5>2. x \in Data
          BY DEF Data
        <5>3. Append(Incoming, x) = Cat(Incoming, <<x>>)
          BY <5>1, <5>2, CatLast
        <5>4. Incoming' = Cat(Incoming, <<x>>)
          BY <4>1, <5>3, Zenon
        <5> QED BY <5>4, Zenon DEF Cat
      <4>4. Rx!Put(x)
        BY <3>2, <4>1, <4>2, <4>3, Zenon DEF Rx!Put, Lossy
      <4> QED BY <4>4 DEF Rx!Next
    <3> QED BY <2>2, <3>3, <3>4, <3>5, InStep
  <2> QED BY <2>1, <2>2
<1> QED BY <1>0 DEF Lossy

LEMMA RxBegins == Init => Rx!Init
<1> SUFFICES ASSUME Init PROVE Rx!Init
  OBVIOUS
<1>1. RxInv
  BY RxInvInit
<1>2. /\ hw.rx_fifo = <<>> /\ dev.rx_p = 0 /\ dev.rx_c = 0 /\ lost = {} /\ fresh = FALSE
  BY DEF Init, SamInit, PiInit, Ns16550Init, DevInit, HwInit, KbdInit
<1>3. io.rx_p = 0 /\ io.rx_c = 0 /\ got = <<>> /\ dropped = FALSE
  <2>1. StdioInit
    BY DEF Init
  <2> QED BY <2>1 DEF StdioInit
<1>4. pc["rx"] \notin {"compare", "next", "rx_func", "store"}
  BY Names DEF Init, Writers
<1>5. From = 0
  BY <1>2, <1>4 DEF From, Ahead
<1>6. Ring(dev.rx_buf, From, dev.rx_p) = <<>> /\ Read = <<>>
  BY <1>1, <1>2, <1>3, <1>5, RxParts, RingNone DEF Read
<1>7. Line = <<>>
  BY <1>2 DEF Line
<1>8. Cat(<<>>, <<>>) = <<>>
  BY Singles, CatIs
<1>9. Incoming = <<>>
  BY <1>1, <1>2, <1>6, <1>7, <1>8, IncomingIs DEF Unread, Driver
<1>10. (dropped \/ lost \cap {"rx", "line", "key"} # {}) = FALSE
  BY <1>2, <1>3
<1> QED BY <1>3, <1>9, <1>10 DEF Rx!Init

(* RxChannel of Console: what comes in on the line or from the keyboard is *)
(* read by getchar() in order and once, until the device, the driver, the  *)
(* keyboard or the ring of stdio_init.c has lost a character -- on every   *)
(* board, for every size of the rings, however much comes in, and wherever *)
(* the handlers and the tasks come between each other's steps.             *)
THEOREM RxChannelHolds == Spec => RxChannel
<1>1. Init => RxInv /\ Rx!Init
  BY RxInvInit, RxBegins
<1>2. RxInv /\ [Next]_vars =>
        RxInv' /\ [Rx!Next]_<<Incoming, got, dropped \/ lost \cap {"rx", "line", "key"} # {}>>
  BY RxInvStep, RxRefines
<1> QED BY <1>1, <1>2, PTL DEF Spec, RxChannel, Rx!Spec
=============================================================================
