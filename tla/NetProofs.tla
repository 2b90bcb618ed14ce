------------------------------ MODULE NetProofs -------------------------------
(***************************************************************************)
(* What is proved of the network: for any number of receive and transmit   *)
(* buffers, any size of net_task()'s box, and whatever frames come in.     *)
(***************************************************************************)
EXTENDS Net, MsgBoxProofs, SeqLemmas

-----------------------------------------------------------------------------
(* Places of a ring of NumBufs.                                            *)

(* The i-th place from b on.                                               *)
Pos(b, i) == IF b + i < NumBufs THEN b + i ELSE b + i - NumBufs

LEMMA Turns ==
  ASSUME NEW x \in Int, NEW y \in Int, y \in {x, x + NumBufs, x - NumBufs}, x \in Bufs
  PROVE  y % NumBufs = x
<1>1. NumBufs \in Nat /\ NumBufs > 0 /\ x >= 0 /\ x < NumBufs
  BY EmacAssumption DEF Bufs
<1>2. x % NumBufs = x /\ (x + NumBufs) % NumBufs = x
  BY <1>1
<1>3. (x - NumBufs) % NumBufs = x
  <2>1. (-NumBufs + x) \div NumBufs = -1
    BY <1>1
  <2> QED BY <1>1, <2>1
<1> QED BY <1>2, <1>3

LEMMA PosIs ==
  ASSUME NEW b \in Bufs, NEW i \in 0..NumBufs
  PROVE  /\ Pos(b, i) \in Bufs
         /\ (b + i) % NumBufs = Pos(b, i)
         /\ i < NumBufs => After(Pos(b, i)) = Pos(b, i + 1) /\ Pos(After(b), i) = Pos(b, i + 1)
         /\ i < NumBufs => (Pos(b, i) - b) % NumBufs = i
         /\ i > 0 => (Pos(b, i) - 1) % NumBufs = Pos(b, i - 1)
         /\ Pos(b, 0) = b /\ Pos(b, NumBufs) = b /\ Pos(b, 1) = After(b)
         /\ \A j \in 0..NumBufs : Pos(b, i) = Pos(b, j)
                                   => i = j \/ {i, j} = {0, NumBufs}
<1>1. NumBufs \in Nat /\ NumBufs > 0 /\ b >= 0 /\ b < NumBufs /\ b \in Int
  BY EmacAssumption DEF Bufs
<1>2. Pos(b, i) \in Bufs
  BY <1>1 DEF Pos, Bufs
<1>3. (b + i) % NumBufs = Pos(b, i)
  BY <1>1, <1>2, Turns DEF Pos, Bufs
<1>4. \A c \in Bufs : After(c) = IF c + 1 = NumBufs THEN 0 ELSE c + 1
  <2> TAKE c \in Bufs
  <2>1. CASE c + 1 = NumBufs
    BY <1>1, <2>1, Turns DEF After, Bufs
  <2>2. CASE c + 1 # NumBufs
    BY <1>1, <2>2, Turns DEF After, Bufs
  <2> QED BY <2>1, <2>2
<1>5. i < NumBufs => After(Pos(b, i)) = Pos(b, i + 1) /\ Pos(After(b), i) = Pos(b, i + 1)
  BY <1>1, <1>2, <1>4 DEF Pos, Bufs
<1>6. i < NumBufs => (Pos(b, i) - b) % NumBufs = i
  <2> HAVE i < NumBufs
  <2>1. i \in Bufs /\ (i = Pos(b, i) - b \/ i = (Pos(b, i) - b) + NumBufs)
    BY <1>1 DEF Pos, Bufs
  <2> QED BY <1>1, <1>2, <2>1, Turns DEF Bufs
<1>7. i > 0 => (Pos(b, i) - 1) % NumBufs = Pos(b, i - 1)
  <2> HAVE i > 0
  <2>1. CASE Pos(b, i) > 0
    <3>1. Pos(b, i) - 1 = Pos(b, i - 1) /\ Pos(b, i) - 1 \in Bufs
      BY <1>1, <1>2, <2>1 DEF Pos, Bufs
    <3> QED BY <1>1, <3>1, Turns DEF Bufs
  <2>2. CASE Pos(b, i) = 0
    <3>1. Pos(b, i - 1) = NumBufs - 1 /\ Pos(b, i) - 1 = -1
      BY <1>1, <1>2, <2>2 DEF Pos, Bufs
    <3>2. (-1) % NumBufs = NumBufs - 1
      BY <1>1
    <3> QED BY <3>1, <3>2
  <2> QED BY <1>1, <1>2, <2>1, <2>2 DEF Bufs
<1>8. Pos(b, 0) = b /\ Pos(b, NumBufs) = b /\ Pos(b, 1) = After(b)
  BY <1>1, <1>4 DEF Pos, Bufs
<1>9. \A j \in 0..NumBufs : Pos(b, i) = Pos(b, j) => i = j \/ {i, j} = {0, NumBufs}
  <2> TAKE j \in 0..NumBufs
  <2> HAVE Pos(b, i) = Pos(b, j)
  <2>1. i = j \/ (i = 0 /\ j = NumBufs) \/ (j = 0 /\ i = NumBufs)
    BY <1>1 DEF Pos, Bufs
  <2> QED BY <2>1
<1> QED BY <1>2, <1>3, <1>5, <1>6, <1>7, <1>8, <1>9

-----------------------------------------------------------------------------
(* The functions of the properties, unfolded.                              *)
LEMMA ChainUnfolds ==
  ASSUME NEW b \in Bufs, \A x \in Bufs : bufs[x].next \in Bufs \cup {NoBuf}
  PROVE  \E f \in [0..NumBufs -> SUBSET Bufs] :
           /\ f[0] = {b} /\ Chain(b) = f[NumBufs]
           /\ \A k \in 1..NumBufs :
                f[k] = f[k - 1] \cup ({bufs[x].next : x \in f[k - 1]} \ {NoBuf})
<1> DEFINE E(f) == f = [k \in 0..NumBufs |->
                          IF k = 0 THEN {b}
                          ELSE f[k - 1] \cup ({bufs[x].next : x \in f[k - 1]} \ {NoBuf})]
<1> DEFINE f == CHOOSE h : E(h)
<1>1. Chain(b) = f[NumBufs]
  BY DEF Chain
<1>2. PICK g \in [0..NumBufs -> SUBSET Bufs] :
        Unfolds(g, NumBufs, {b}, [p \in (1..NumBufs) \X SUBSET Bufs |->
                                    p[2] \cup ({bufs[x].next : x \in p[2]} \ {NoBuf})])
  <2> DEFINE step == [p \in (1..NumBufs) \X SUBSET Bufs |->
                                    p[2] \cup ({bufs[x].next : x \in p[2]} \ {NoBuf})]
  <2>1. step \in [(1..NumBufs) \X SUBSET Bufs -> SUBSET Bufs]
    OBVIOUS
  <2>2. NumBufs \in Nat /\ {b} \in SUBSET Bufs
    BY EmacAssumption
  <2> HIDE DEF step
  <2>3. \E g \in [0..NumBufs -> SUBSET Bufs] : Unfolds(g, NumBufs, {b}, step)
    BY <2>1, <2>2, Unfolding
  <2> QED BY <2>3 DEF step
<1>3. E(g)
  <2>1. ASSUME NEW k \in 0..NumBufs
        PROVE  g[k] = IF k = 0 THEN {b}
                      ELSE g[k - 1] \cup ({bufs[x].next : x \in g[k - 1]} \ {NoBuf})
    <3>1. CASE k = 0
      BY <1>2, <3>1 DEF Unfolds
    <3>2. CASE k # 0
      <4>1. k \in 1..NumBufs /\ k - 1 \in 0..NumBufs
        BY <3>2, EmacAssumption
      <4>2. <<k, g[k - 1]>> \in (1..NumBufs) \X SUBSET Bufs
        BY <4>1
      <4> QED BY <1>2, <3>2, <4>2 DEF Unfolds
    <3> QED BY <3>1, <3>2
  <2>2. g = [k \in 0..NumBufs |-> g[k]]
    OBVIOUS
  <2> QED BY <2>1, <2>2
<1> HIDE DEF E
<1>4. E(f)
  BY <1>3
<1>5. /\ f[0] = {b} /\ DOMAIN f = 0..NumBufs
      /\ \A k \in 1..NumBufs : f[k] = f[k - 1] \cup ({bufs[x].next : x \in f[k - 1]} \ {NoBuf})
      /\ f = [k \in 0..NumBufs |-> f[k]]
  <2> HIDE DEF f
  <2> USE DEF E
  <2>1. 0 \in 0..NumBufs /\ \A k \in 1..NumBufs : k \in 0..NumBufs /\ k # 0
    BY EmacAssumption
  <2>2. f = [k \in 0..NumBufs |-> IF k = 0 THEN {b}
                          ELSE f[k - 1] \cup ({bufs[x].next : x \in f[k - 1]} \ {NoBuf})]
    BY <1>4
  <2>3. \A k \in 0..NumBufs : f[k] = IF k = 0 THEN {b}
                          ELSE f[k - 1] \cup ({bufs[x].next : x \in f[k - 1]} \ {NoBuf})
    BY <2>2
  <2> QED BY <2>1, <2>2, <2>3
<1>6. \A k \in 0..NumBufs : f[k] \in SUBSET Bufs
  <2> DEFINE T == {k \in 0..NumBufs : f[k] \in SUBSET Bufs}
  <2>1. NumBufs \in Nat /\ 0 \in T
    <3> HIDE DEF f
    <3>1. f[0] = {b} /\ NumBufs \in Nat /\ 0 \in 0..NumBufs
      BY <1>5, EmacAssumption
    <3> QED BY <3>1
  <2>2. ASSUME NEW k \in 0..(NumBufs - 1), k \in T PROVE k + 1 \in T
    <3>1. k + 1 \in 1..NumBufs /\ (k + 1) - 1 = k
      BY <2>1
    <3>2. f[k + 1] = f[k] \cup ({bufs[x].next : x \in f[k]} \ {NoBuf}) /\ f[k] \in SUBSET Bufs
      BY <1>5, <2>2, <3>1
    <3> HIDE DEF f
    <3>3. f[k + 1] \in SUBSET Bufs
      BY <3>2
    <3> QED BY <3>1, <3>3
  <2>3. \A k \in 0..NumBufs : k \in T
    <3> HIDE DEF T
    <3> QED BY <2>1, <2>2, UpTo
  <2> QED BY <2>3
<1>7. Chain(b) = f[NumBufs]
  BY <1>1
<1>8. f \in [0..NumBufs -> SUBSET Bufs]
  <2> HIDE DEF f
  <2> QED BY <1>5, <1>6
<1> QED
  <2> HIDE DEF f
  <2> QED BY <1>5, <1>7, <1>8

(* What begins with b stays within every set of buffers that b is in and   *)
(* that leads nowhere else, ...                                            *)
LEMMA ChainWithin ==
  ASSUME NEW b \in Bufs, \A x \in Bufs : bufs[x].next \in Bufs \cup {NoBuf},
         NEW S, b \in S, \A x \in S : bufs[x].next \in S \cup {NoBuf}
  PROVE  Chain(b) \subseteq S
<1>1. PICK f \in [0..NumBufs -> SUBSET Bufs] :
           /\ f[0] = {b} /\ Chain(b) = f[NumBufs]
           /\ \A k \in 1..NumBufs :
                f[k] = f[k - 1] \cup ({bufs[x].next : x \in f[k - 1]} \ {NoBuf})
  BY ChainUnfolds
<1> DEFINE T == {k \in 0..NumBufs : f[k] \subseteq S}
<1>2. NumBufs \in Nat /\ 0 \in T
  BY <1>1, EmacAssumption
<1>3. ASSUME NEW k \in 0..(NumBufs - 1), k \in T PROVE k + 1 \in T
  <2>1. k + 1 \in 1..NumBufs /\ (k + 1) - 1 = k
    BY <1>2
  <2>2. f[k + 1] = f[k] \cup ({bufs[x].next : x \in f[k]} \ {NoBuf}) /\ f[k] \subseteq S
    BY <1>1, <1>3, <2>1
  <2> QED BY <2>1, <2>2
<1>4. \A k \in 0..NumBufs : k \in T
  <2> HIDE DEF T
  <2> QED BY <1>2, <1>3, UpTo
<1> QED BY <1>1, <1>2, <1>4

(* ... and has the buffers that the links lead to.                         *)
LEMMA ChainReaches ==
  ASSUME NEW b \in Bufs, \A x \in Bufs : bufs[x].next \in Bufs \cup {NoBuf},
         NEW n \in 1..NumBufs,
         \A i \in 0..(n - 2) : bufs[Pos(b, i)].next = Pos(b, i + 1)
  PROVE  \A i \in 0..(n - 1) : Pos(b, i) \in Chain(b)
<1>1. PICK f \in [0..NumBufs -> SUBSET Bufs] :
           /\ f[0] = {b} /\ Chain(b) = f[NumBufs]
           /\ \A k \in 1..NumBufs :
                f[k] = f[k - 1] \cup ({bufs[x].next : x \in f[k - 1]} \ {NoBuf})
  BY ChainUnfolds
<1>0. NumBufs \in Nat
  BY EmacAssumption
<1>2. \A k \in 0..(n - 1) : k \in {j \in 0..(n - 1) : Pos(b, j) \in f[j]}
  <2> DEFINE T == {j \in 0..(n - 1) : Pos(b, j) \in f[j]}
  <2>1. 0 \in T /\ n - 1 \in Nat
    BY <1>0, <1>1, PosIs
  <2>2. ASSUME NEW k \in 0..((n - 1) - 1), k \in T PROVE k + 1 \in T
    <3>1. k + 1 \in 1..NumBufs /\ (k + 1) - 1 = k /\ k \in 0..(n - 2) /\ k + 1 \in 0..(n - 1)
          /\ k + 1 \in 0..NumBufs
      BY <1>0
    <3>2. f[k + 1] = f[k] \cup ({bufs[x].next : x \in f[k]} \ {NoBuf}) /\ Pos(b, k) \in f[k]
      BY <1>1, <2>2, <3>1
    <3>3. bufs[Pos(b, k)].next = Pos(b, k + 1) /\ Pos(b, k + 1) # NoBuf
      <4>1. Pos(b, k + 1) \in Bufs
        BY <3>1, PosIs
      <4> QED BY <3>1, <4>1 DEF Bufs, NoBuf
    <3> QED BY <3>1, <3>2, <3>3
  <2> HIDE DEF T
  <2>3. \A k \in 0..(n - 1) : k \in T
    BY <2>1, <2>2, UpTo
  <2> QED BY <2>3 DEF T
<1>3. ASSUME NEW i \in 0..(n - 1) PROVE Pos(b, i) \in f[NumBufs]
  <2> DEFINE T == {j \in 0..(NumBufs - i) : Pos(b, i) \in f[i + j]}
  <2>1. 0 \in T /\ NumBufs - i \in Nat
    BY <1>0, <1>2
  <2>2. ASSUME NEW k \in 0..((NumBufs - i) - 1), k \in T PROVE k + 1 \in T
    <3>1. i + (k + 1) \in 1..NumBufs /\ (i + (k + 1)) - 1 = i + k /\ k + 1 \in 0..(NumBufs - i)
      BY <1>0
    <3>2. f[i + (k + 1)] = f[i + k] \cup ({bufs[x].next : x \in f[i + k]} \ {NoBuf})
      BY <1>1, <3>1
    <3>3. Pos(b, i) \in f[i + k]
      BY <2>2
    <3> QED BY <3>1, <3>2, <3>3
  <2> HIDE DEF T
  <2>3. \A k \in 0..(NumBufs - i) : k \in T
    BY <2>1, <2>2, UpTo
  <2>4. NumBufs - i \in T
    BY <2>1, <2>3
  <2>5. i + (NumBufs - i) = NumBufs
    BY <1>0
  <2> QED BY <2>4, <2>5 DEF T
<1> QED BY <1>1, <1>3

(* f picks those c[k] of which A[k] holds, one after the other.            *)
Picks(f, n, A, c) ==
  f = [k \in 0..n |-> IF k = 0 THEN <<>>
                      ELSE IF A[k] THEN Append(f[k - 1], c[k]) ELSE f[k - 1]]

LEMMA PicksAt ==
  ASSUME NEW f, NEW n \in Nat, NEW A, NEW c, Picks(f, n, A, c)
  PROVE  /\ f[0] = <<>>
         /\ \A k \in 1..n : f[k] = IF A[k] THEN Append(f[k - 1], c[k]) ELSE f[k - 1]
<1>1. \A k \in 0..n : f[k] = IF k = 0 THEN <<>>
                             ELSE IF A[k] THEN Append(f[k - 1], c[k]) ELSE f[k - 1]
  <2>1. f = [k \in 0..n |-> IF k = 0 THEN <<>>
                           ELSE IF A[k] THEN Append(f[k - 1], c[k]) ELSE f[k - 1]]
    BY DEF Picks
  <2> QED BY <2>1
<1>2. 0 \in 0..n /\ \A k \in 1..n : k \in 0..n /\ k # 0
  OBVIOUS
<1> QED BY <1>1, <1>2

LEMMA PicksExists ==
  ASSUME NEW n \in Nat, NEW S, NEW A \in [1..n -> BOOLEAN], NEW c \in [1..n -> S]
  PROVE  \E f \in [0..n -> Seq(S)] : Picks(f, n, A, c)
<1> DEFINE step == [p \in (1..n) \X Seq(S) |-> IF A[p[1]] THEN Append(p[2], c[p[1]]) ELSE p[2]]
<1>1. step \in [(1..n) \X Seq(S) -> Seq(S)]
  <2>1. ASSUME NEW p \in (1..n) \X Seq(S)
        PROVE  (IF A[p[1]] THEN Append(p[2], c[p[1]]) ELSE p[2]) \in Seq(S)
    <3>1. p[2] \in Seq(S) /\ c[p[1]] \in S
      OBVIOUS
    <3> QED BY <3>1, AppendProperties
  <2> QED BY <2>1
<1>2. <<>> \in Seq(S)
  OBVIOUS
<1> HIDE DEF step
<1>3. PICK f \in [0..n -> Seq(S)] : Unfolds(f, n, <<>>, step)
  BY <1>1, <1>2, Unfolding
<1>4. ASSUME NEW k \in 0..n
      PROVE  f[k] = IF k = 0 THEN <<>>
                    ELSE IF A[k] THEN Append(f[k - 1], c[k]) ELSE f[k - 1]
  <2>1. CASE k = 0
    BY <1>3, <2>1 DEF Unfolds
  <2>2. CASE k # 0
    <3>1. k \in 1..n /\ k - 1 \in 0..n
      BY <2>2
    <3>2. f[k - 1] \in Seq(S)
      BY <3>1
    <3>3. <<k, f[k - 1]>> \in (1..n) \X Seq(S)
      BY <3>1, <3>2
    <3>4. step[<<k, f[k - 1]>>] = IF A[k] THEN Append(f[k - 1], c[k]) ELSE f[k - 1]
      BY <3>3 DEF step
    <3>5. f[k] = step[<<k, f[k - 1]>>]
      BY <1>3, <2>2 DEF Unfolds
    <3> QED BY <2>2, <3>4, <3>5
  <2> QED BY <2>1, <2>2
<1>5. f = [k \in 0..n |-> f[k]]
  OBVIOUS
<1>6. Picks(f, n, A, c)
  BY <1>4, <1>5 DEF Picks
<1> QED BY <1>6

(* As long as they agree, two pick the same.                               *)
LEMMA PicksSame ==
  ASSUME NEW n \in Nat, NEW m \in 0..n, NEW A, NEW c, NEW B, NEW d,
         NEW f, Picks(f, n, A, c), NEW l \in Nat, m <= l, NEW g, Picks(g, l, B, d),
         \A k \in 1..m : A[k] = B[k] /\ (A[k] => c[k] = d[k])
  PROVE  \A k \in 0..m : f[k] = g[k]
<1> DEFINE T == {k \in 0..m : f[k] = g[k]}
<1>1. 0 \in T
  BY DEF Picks
<1>2. ASSUME NEW k \in 0..(m - 1), k \in T PROVE k + 1 \in T
  <2>1. k + 1 # 0 /\ k + 1 \in 0..n /\ k + 1 \in 0..l /\ k + 1 \in 0..m /\ k + 1 \in 1..m
        /\ (k + 1) - 1 = k
    OBVIOUS
  <2>2. f[k + 1] = IF A[k + 1] THEN Append(f[k], c[k + 1]) ELSE f[k]
    BY <2>1 DEF Picks
  <2>3. g[k + 1] = IF B[k + 1] THEN Append(g[k], d[k + 1]) ELSE g[k]
    BY <2>1 DEF Picks
  <2>4. f[k] = g[k] /\ A[k + 1] = B[k + 1] /\ (A[k + 1] => c[k + 1] = d[k + 1])
    BY <1>2, <2>1
  <2> QED BY <2>1, <2>2, <2>3, <2>4
<1>3. \A k \in 0..m : k \in T
  <2> HIDE DEF T
  <2> QED BY <1>1, <1>2, UpTo
<1> QED BY <1>3

(* Behind the last that holds, nothing is added.                           *)
LEMMA PicksNoMore ==
  ASSUME NEW n \in Nat, NEW m \in 0..n, NEW A, NEW c, NEW f, Picks(f, n, A, c),
         \A k \in (m + 1)..n : ~A[k]
  PROVE  \A k \in m..n : f[k] = f[m]
<1> DEFINE T == {k \in 0..(n - m) : f[m + k] = f[m]}
<1>1. 0 \in T /\ n - m \in Nat
  OBVIOUS
<1>2. ASSUME NEW k \in 0..((n - m) - 1), k \in T PROVE k + 1 \in T
  <2>1. m + (k + 1) # 0 /\ m + (k + 1) \in 0..n /\ m + (k + 1) \in (m + 1)..n
        /\ (m + (k + 1)) - 1 = m + k /\ k + 1 \in 0..(n - m)
    OBVIOUS
  <2>2. f[m + (k + 1)] = f[m + k]
    BY <2>1 DEF Picks
  <2> QED BY <1>2, <2>1, <2>2
<1>3. \A k \in 0..(n - m) : k \in T
  <2> HIDE DEF T
  <2> QED BY <1>1, <1>2, UpTo
<1> SUFFICES ASSUME NEW k \in m..n PROVE f[k] = f[m]
  OBVIOUS
<1>4. k - m \in 0..(n - m) /\ m + (k - m) = k
  OBVIOUS
<1>5. k - m \in T
  BY <1>3, <1>4
<1> QED BY <1>4, <1>5

(* Up to where all hold, all are picked.                                   *)
AllPicked(n, m, S, A, c, f) ==
  /\ n \in Nat /\ m \in 0..n /\ f \in [0..n -> Seq(S)] /\ Picks(f, n, A, c)
  /\ \A k \in 1..m : A[k] /\ c[k] \in S
LEMMA PicksAll ==
  ASSUME NEW n, NEW m, NEW S, NEW A, NEW c, NEW f, AllPicked(n, m, S, A, c, f)
  PROVE  f[m] = [k \in 1..m |-> c[k]]
<1> USE DEF AllPicked
<1> DEFINE T == {k \in 0..m : f[k] = [j \in 1..k |-> c[j]]}
<1>0. m \in Nat /\ m \in 0..m
  OBVIOUS
<1>1. 0 \in T
  <2>1. f[0] = <<>> /\ 0 \in 0..m
    BY DEF Picks
  <2>2. [j \in 1..0 |-> c[j]] = <<>>
    OBVIOUS
  <2> QED BY <2>1, <2>2
<1>2. ASSUME NEW k \in 0..(m - 1), k \in T PROVE k + 1 \in T
  <2>1. k + 1 # 0 /\ k + 1 \in 0..n /\ k + 1 \in 1..m /\ k + 1 \in 0..m /\ (k + 1) - 1 = k
        /\ k \in Nat /\ k \in 0..n
    OBVIOUS
  <2>2. f[k + 1] = Append(f[k], c[k + 1]) /\ c[k + 1] \in S
    BY <2>1 DEF Picks
  <2>3. f[k] = [j \in 1..k |-> c[j]] /\ f[k] \in Seq(S)
    BY <1>2, <2>1
  <2>4. Len(f[k]) = k
    BY <2>1, <2>3
  <2>5. /\ f[k + 1] \in Seq(S) /\ Len(f[k + 1]) = k + 1
        /\ \A j \in 1..k : f[k + 1][j] = f[k][j]
        /\ f[k + 1][k + 1] = c[k + 1]
    BY <2>2, <2>3, <2>4, AppendProperties
  <2>6. ASSUME NEW j \in 1..(k + 1) PROVE f[k + 1][j] = c[j]
    <3>1. j \in 1..k \/ j = k + 1
      OBVIOUS
    <3> QED BY <2>3, <2>5, <3>1
  <2>7. f[k + 1] = [j \in 1..(k + 1) |-> f[k + 1][j]]
    BY <2>5, LenProperties
  <2>8. f[k + 1] = [j \in 1..(k + 1) |-> c[j]]
    <3> DEFINE e == f[k + 1]
    <3> HIDE DEF e
    <3>1. e = [j \in 1..(k + 1) |-> e[j]] /\ \A j \in 1..(k + 1) : e[j] = c[j]
      BY <2>6, <2>7 DEF e
    <3>2. e = [j \in 1..(k + 1) |-> c[j]]
      BY <3>1
    <3> QED BY <3>2 DEF e
  <2> QED BY <2>1, <2>8
<1>3. \A k \in 0..m : k \in T
  <2> HIDE DEF T
  <2> QED BY <1>0, <1>1, <1>2, UpTo
<1>4. m \in T
  BY <1>0, <1>3
<1> HIDE DEF T
<1> QED BY <1>4 DEF T

(* One place further on, the first is left out.                            *)
Shifted(n, S, A, c, f, B, d, g, first) ==
  /\ n \in Nat /\ n # 0
  /\ f \in [0..n -> Seq(S)] /\ Picks(f, n, A, c)
  /\ g \in [0..n -> Seq(S)] /\ Picks(g, n, B, d)
  /\ \A k \in 1..n : c[k] \in S
  /\ \A k \in 1..(n - 1) : B[k] = A[k + 1] /\ d[k] = c[k + 1]
  /\ first = IF A[1] THEN <<c[1]>> ELSE <<>>
LEMMA PicksShift ==
  ASSUME NEW n, NEW S, NEW A, NEW c, NEW f, NEW B, NEW d, NEW g, NEW first,
         Shifted(n, S, A, c, f, B, d, g, first)
  PROVE  f[n] = Cat(first, g[n - 1])
<1> USE DEF Shifted
<1>0. n - 1 \in Nat /\ 1 \in 1..n /\ c[1] \in S
  OBVIOUS
<1>5. first \in Seq(S)
  <2>1. <<c[1]>> \in Seq(S) /\ <<>> \in Seq(S)
    BY <1>0
  <2> QED BY <2>1, Zenon
<1> DEFINE T == {k \in 0..(n - 1) : f[k + 1] = Cat(first, g[k])}
<1>1. 0 \in T
  <2>0. 1 \in 1..n /\ 1 - 1 = 0
    OBVIOUS
  <2>1. f[1] = (IF A[1] THEN Append(f[0], c[1]) ELSE f[0]) /\ f[0] = <<>> /\ g[0] = <<>>
    <3>1. f[1] = IF A[1] THEN Append(f[1 - 1], c[1]) ELSE f[1 - 1]
      BY <2>0, PicksAt
    <3>2. f[0] = <<>> /\ g[0] = <<>>
      BY PicksAt
    <3> QED BY <2>0, <3>1, <3>2
  <2>2. Cat(first, <<>>) = first /\ Append(<<>>, c[1]) = <<c[1]>>
    <3>1. Cat(first, <<>>) = first
      BY <1>5, CatIs
    <3>2. Append(<<>>, c[1]) = <<c[1]>>
      BY <1>0
    <3> QED BY <3>1, <3>2
  <2>3. 0 \in 0..(n - 1) /\ 0 + 1 = 1
    OBVIOUS
  <2> QED BY <1>5, <2>1, <2>2, <2>3
<1>2. ASSUME NEW k \in 0..((n - 1) - 1), k \in T PROVE k + 1 \in T
  <2>1. /\ k + 1 # 0 /\ k + 1 \in 0..n /\ k + 1 \in 1..(n - 1) /\ (k + 1) - 1 = k
        /\ k + 1 \in 0..(n - 1)
        /\ (k + 1) + 1 # 0 /\ (k + 1) + 1 \in 0..n /\ ((k + 1) + 1) - 1 = k + 1 /\ k \in 0..n
        /\ (k + 1) + 1 \in 1..n
    OBVIOUS
  <2>2. g[k + 1] = IF A[(k + 1) + 1] THEN Append(g[k], c[(k + 1) + 1]) ELSE g[k]
    <3>1. k + 1 \in 1..n /\ k + 1 \in 1..(n - 1) /\ (k + 1) - 1 = k
      OBVIOUS
    <3>2. g[k + 1] = IF B[k + 1] THEN Append(g[(k + 1) - 1], d[k + 1]) ELSE g[(k + 1) - 1]
      BY <3>1, PicksAt
    <3> QED BY <3>1, <3>2
  <2>3. f[(k + 1) + 1] = IF A[(k + 1) + 1] THEN Append(f[k + 1], c[(k + 1) + 1]) ELSE f[k + 1]
    <3>1. (k + 1) + 1 \in 1..n /\ ((k + 1) + 1) - 1 = k + 1
      OBVIOUS
    <3>2. f[(k + 1) + 1] = IF A[(k + 1) + 1] THEN Append(f[((k + 1) + 1) - 1], c[(k + 1) + 1])
                                             ELSE f[((k + 1) + 1) - 1]
      BY <3>1, PicksAt
    <3> QED BY <3>1, <3>2
  <2>4. f[k + 1] = Cat(first, g[k]) /\ g[k] \in Seq(S) /\ c[(k + 1) + 1] \in S
    BY <1>2, <2>1
  <2>5. ASSUME A[(k + 1) + 1] PROVE f[(k + 1) + 1] = Cat(first, g[k + 1])
    <3>1. g[k + 1] = Append(g[k], c[(k + 1) + 1])
      BY <2>2, <2>5
    <3>2. Append(Cat(first, g[k]), c[(k + 1) + 1]) = Cat(first, Append(g[k], c[(k + 1) + 1]))
      <4> DEFINE e == c[(k + 1) + 1]
                 s == g[k]
      <4>1. e \in S /\ s \in Seq(S) /\ first \in Seq(S)
        BY <1>5, <2>4
      <4> HIDE DEF e, s, Shifted, T
      <4>2. Append(Cat(first, s), e) = Cat(first, Append(s, e))
        BY <4>1, CatAppend
      <4> QED BY <4>2 DEF e, s
    <3>3. f[(k + 1) + 1] = Append(f[k + 1], c[(k + 1) + 1])
      BY <2>3, <2>5
    <3> HIDE DEF Shifted, T
    <3> QED BY <2>4, <3>1, <3>2, <3>3, Zenon
  <2> QED BY <2>1, <2>2, <2>3, <2>4, <2>5
<1>3. \A k \in 0..(n - 1) : k \in T
  <2> HIDE DEF Shifted, T
  <2>1. PICK m \in Nat : m = n - 1
    BY <1>0
  <2>2. \A k \in 0..(m - 1) : k \in T => k + 1 \in T
    BY <1>2, <2>1
  <2>3. \A k \in 0..m : k \in T
    BY <1>1, <2>2, UpTo
  <2> QED BY <2>1, <2>3
<1>4. n - 1 \in T /\ (n - 1) + 1 = n
  <2> HIDE DEF T
  <2>1. n - 1 \in 0..(n - 1) /\ (n - 1) + 1 = n
    BY <1>0 DEF Shifted
  <2> QED BY <1>3, <2>1
<1> QED
  <2> HIDE DEF Shifted
  <2> QED BY <1>4

-----------------------------------------------------------------------------
(* Types.                                                                  *)
Pkts == [kind : {"none", "arp", "arp reply", "echo reply"}, to : Nat, id : Nat]
EmacPcs == {"start", "sleep", "test", "hand"}
NetPcs == {"start", "get", "take", "look", "print", "put", "answer", "send", "last", "size",
           "next", "go", "free", "retire", "unchain"}
Troubles == {"held", "refused", "unwoken", "part", "cut", "replaced", "torn"}
Signs == {"frame", "no buffer"}
States == {"READY", "SLEEPING", "box", "tx_buf"}

SchedType ==
  /\ run \in Tasks /\ status[run] = "READY" /\ status["idle"] = "READY"
  /\ status \in [Tasks -> States]
  /\ pc \in [Tasks -> EmacPcs \cup NetPcs] /\ pc["emac"] \in EmacPcs /\ pc["net"] \in NetPcs
  /\ isr \in {"off", "emac", "emac_clear"}

Descs == [used : BOOLEAN, start : BOOLEAN, end : BOOLEAN, frame : Frames \cup {0}]
NetBufs == [active : BOOLEAN, next : Bufs \cup {NoBuf}]
RxType ==
  /\ rx_desc \in [Bufs -> Descs]
  /\ bufs \in [Bufs -> NetBufs]
  /\ rx \in [index : Bufs, start : Bufs \cup {NoBuf}]
  /\ \A b \in Bufs : rx_desc[b].used \/ bufs[b].active => rx_desc[b].frame \in Frames
TxType ==
  /\ tx_desc \in [Bufs -> [stat : SUBSET {"used", "last", "size"}, pkt : Pkts \cup {0}]]
  /\ tx_index \in Bufs
  /\ wire \in Seq(Pkts \cup {0})
EthType ==
  /\ eth \in [rsr : SUBSET Signs, irq : BOOLEAN, on : BOOLEAN, fill : Bufs, part : Seq(Frames),
              sending : BOOLEAN, send : Bufs]
  /\ val \subseteq Signs /\ spoilt \subseteq Troubles
NetType ==
  /\ net \in [ipv4_id : Nat, buf : Bufs \cup {NoBuf}, rest : Bufs \cup {NoBuf}]
  /\ pkt \in Pkts /\ handled \in Seq(Frames)
LoadType ==
  /\ load \in [kinds : SUBSET Kinds, more : Nat, came : Nat]
  /\ load.came + load.more <= Most

-----------------------------------------------------------------------------
(* The scheduler.                                                          *)

(* Some task being ready, First is a ready one.                            *)
LEMMA FirstReady ==
  ASSUME NEW st, NEW r \in Tasks, st[r] = "READY"
  PROVE  First(st) \in Tasks /\ st[First(st)] = "READY"
<1> DEFINE IsFirst(t) == \E i \in DOMAIN TaskQ :
                            /\ TaskQ[i] = t /\ st[t] = "READY"
                            /\ \A j \in 1..(i - 1) : st[TaskQ[j]] # "READY"
           T == {i \in DOMAIN TaskQ : st[TaskQ[i]] = "READY"}
<1>1. /\ DOMAIN TaskQ = 1..Len(TaskQ) /\ Len(TaskQ) \in Nat
      /\ \A i \in DOMAIN TaskQ : TaskQ[i] \in Tasks
      /\ \A t \in Tasks : \E i \in DOMAIN TaskQ : TaskQ[i] = t
  BY NetAssumption, LenProperties DEF Tasks
<1>2. T \in SUBSET Nat /\ T # {}
  BY <1>1
<1>3. PICK i \in T : \A j \in T : i <= j
  <2> HIDE DEF T
  <2> QED BY <1>2, LeastNumber
<1>4. \A j \in 1..(i - 1) : st[TaskQ[j]] # "READY"
  <2> SUFFICES ASSUME NEW j \in 1..(i - 1), st[TaskQ[j]] = "READY" PROVE FALSE
    OBVIOUS
  <2>1. j \in T /\ j \in Nat /\ i \in Nat /\ j < i
    BY <1>1
  <2> QED BY <1>3, <2>1
<1>5. IsFirst(TaskQ[i]) /\ TaskQ[i] \in Tasks
  BY <1>1, <1>4
<1>6. First(st) = CHOOSE t \in Tasks : IsFirst(t)
  BY DEF First
<1>7. First(st) \in Tasks /\ IsFirst(First(st))
  <2> HIDE DEF IsFirst
  <2> QED BY <1>5, <1>6
<1> QED BY <1>7

(* The state of one task changes; another runs if this one does not go on. *)
LEMMA StatusKeeps ==
  ASSUME SchedType, NEW t \in Tasks, t # "idle", NEW s \in States,
         status' = [status EXCEPT ![t] = s], run' = run \/ run' = First(status'),
         run' = run => t # run \/ s = "READY"
  PROVE  /\ run' \in Tasks /\ status'[run'] = "READY" /\ status'["idle"] = "READY"
         /\ status' \in [Tasks -> States]
<1>1. "idle" \in Tasks /\ status'["idle"] = "READY"
  BY NetAssumption DEF SchedType
<1>2. CASE run' = run
  BY <1>1, <1>2 DEF SchedType
<1>3. CASE run' = First(status')
  <2>1. First(status') \in Tasks /\ status'[First(status')] = "READY"
    BY <1>1, FirstReady
  <2> QED BY <1>1, <1>3, <2>1 DEF SchedType
<1> QED BY <1>2, <1>3

LEMMA StepKeeps ==
  ASSUME SchedType, NEW t \in {"emac", "net"}, NEW from, NEW to,
         t = "emac" => to \in EmacPcs, t = "net" => to \in NetPcs, Step(t, from, to)
  PROVE  /\ pc' \in [Tasks -> EmacPcs \cup NetPcs] /\ pc'["emac"] \in EmacPcs /\ pc'["net"] \in NetPcs
         /\ pc[t] = from /\ pc'[t] = to /\ \A x \in Tasks : x # t => pc'[x] = pc[x]
<1>1. "emac" \in Tasks /\ "net" \in Tasks /\ pc \in [Tasks -> EmacPcs \cup NetPcs]
  BY NetAssumption DEF SchedType
<1>2. pc[t] = from /\ pc' = [pc EXCEPT ![t] = to]
  BY DEF Step
<1>3. to \in EmacPcs \cup NetPcs
  OBVIOUS
<1> QED BY <1>1, <1>2, <1>3 DEF SchedType

LEMMA SchedKeeps ==
  ASSUME SchedType, [Next]_vars
  PROVE  SchedType'
<1>0. /\ "emac" \in Tasks /\ "net" \in Tasks /\ "emac" # "idle" /\ "net" # "idle"
  BY NetAssumption
<1>1. CASE EmacTask
  <2>1. CASE RxStart
    BY <2>1, StepKeeps DEF RxStart, SchedType, schedVars, EmacPcs
  <2>2. CASE RxSleep
    <3>1. run = "emac" /\ Step("emac", "sleep", "test") /\ isr' = isr
          /\ status' = [status EXCEPT !["emac"] = "SLEEPING"] /\ run' = First(status')
      BY <2>2 DEF RxSleep, Step, Sleep
    <3>2. /\ run' \in Tasks /\ status'[run'] = "READY" /\ status'["idle"] = "READY"
          /\ status' \in [Tasks -> States]
      <4>1. run' = run => status'[run'] = "READY"
        <5>1. "idle" \in Tasks /\ status'["idle"] = "READY"
          BY <1>0, <3>1, NetAssumption DEF SchedType
        <5> QED BY <3>1, <5>1, FirstReady
      <4>2. status'["emac"] = "SLEEPING"
        BY <1>0, <3>1 DEF SchedType
      <4> QED BY <1>0, <3>1, <4>1, <4>2, StatusKeeps DEF States
    <3>3. pc' \in [Tasks -> EmacPcs \cup NetPcs] /\ pc'["emac"] \in EmacPcs /\ pc'["net"] \in NetPcs
      BY <3>1, StepKeeps DEF EmacPcs
    <3> QED BY <3>1, <3>2, <3>3 DEF SchedType
  <2>3. CASE RxStop
    BY <2>3, StepKeeps DEF RxStop, SchedType, schedVars, EmacPcs
  <2>4. CASE RxTake
    BY <2>4, StepKeeps DEF RxTake, SchedType, schedVars, EmacPcs
  <2>5. CASE RxHand
    <3>1. pc' \in [Tasks -> EmacPcs \cup NetPcs] /\ pc'["emac"] \in EmacPcs /\ pc'["net"] \in NetPcs
      BY <2>5, StepKeeps DEF RxHand, EmacPcs
    <3>2. status' = status \/ status' = [status EXCEPT !["net"] = "READY"]
      BY <2>5 DEF RxHand
    <3>3. run' = run /\ isr' = isr /\ run = "emac"
      BY <2>5 DEF RxHand, Step
    <3> QED BY <1>0, <3>1, <3>2, <3>3, StatusKeeps DEF SchedType
  <2> QED BY <1>1, <2>1, <2>2, <2>3, <2>4, <2>5 DEF EmacTask
<1>2. CASE NetTask
  <2>1. CASE NetWait
    <3>1. pc' \in [Tasks -> EmacPcs \cup NetPcs] /\ pc'["emac"] \in EmacPcs /\ pc'["net"] \in NetPcs
      BY <2>1, StepKeeps DEF NetWait, NetPcs
    <3>2. isr' = isr /\ run = "net"
      BY <2>1 DEF NetWait, Step
    <3>3. CASE status' = status /\ run' = run
      BY <3>1, <3>2, <3>3 DEF SchedType
    <3>4. CASE status' = [status EXCEPT !["net"] = "box"] /\ run' = First(status')
      <4>1. "idle" \in Tasks /\ status'["idle"] = "READY" /\ status'["net"] = "box"
        BY <1>0, <3>4, NetAssumption DEF SchedType
      <4>2. status'[run'] = "READY"
        BY <3>4, <4>1, FirstReady
      <4>3. run' # run
        BY <3>2, <4>1, <4>2
      <4> QED BY <1>0, <3>1, <3>2, <3>4, <4>3, StatusKeeps DEF SchedType, States
    <3> QED BY <2>1, <3>3, <3>4 DEF NetWait
  <2>2. ASSUME NEW from, NEW to \in NetPcs, Step("net", from, to), UNCHANGED schedVars
        PROVE  SchedType'
    <3>1. pc' \in [Tasks -> EmacPcs \cup NetPcs] /\ pc'["emac"] \in EmacPcs /\ pc'["net"] \in NetPcs
      BY <2>2, StepKeeps
    <3> QED BY <2>2, <3>1 DEF SchedType, schedVars
  <2>3. CASE NetTake
    BY <2>2, <2>3 DEF NetTake, NetPcs
  <2>4. CASE NetStart
    BY <2>2, <2>4 DEF NetStart, Does, NetPcs
  <2>5. CASE NetAnswer
    <3>1. PICK to \in {"send", "free"} : Does("answer", to)
      BY <2>5, Zenon DEF NetAnswer
    <3> QED BY <2>2, <3>1 DEF Does, NetPcs
  <2>8. CASE NetLook
    BY <2>2, <2>8 DEF NetLook, Does, NetPcs
  <2>9. CASE NetPut
    <3>1. PICK to \in {"answer", "print"} : Does("put", to)
      BY <2>9, Zenon DEF NetPut
    <3> QED BY <2>2, <3>1 DEF Does, NetPcs
  <2>10. CASE NetPrint
    <3>1. pc' \in [Tasks -> EmacPcs \cup NetPcs] /\ pc'["emac"] \in EmacPcs /\ pc'["net"] \in NetPcs
      BY <2>10, StepKeeps DEF NetPrint, NetPcs
    <3>2. isr' = isr /\ run = "net"
      BY <2>10 DEF NetPrint, Step, Get
    <3>3. CASE status' = status /\ run' = run
      BY <3>1, <3>2, <3>3 DEF SchedType
    <3>4. CASE status' = [status EXCEPT !["net"] = "tx_buf"] /\ run' = First(status')
      <4>1. "idle" \in Tasks /\ status'["idle"] = "READY" /\ status'["net"] = "tx_buf"
        BY <1>0, <3>4, NetAssumption DEF SchedType
      <4>2. status'[run'] = "READY"
        BY <3>4, <4>1, FirstReady
      <4>3. run' # run
        BY <3>2, <4>1, <4>2
      <4>4. "tx_buf" \in States
        BY DEF States
      <4> QED BY <1>0, <3>1, <3>2, <3>4, <4>3, <4>4, StatusKeeps DEF SchedType
    <3> QED BY <2>10, <3>2, <3>3, <3>4 DEF NetPrint, Get
  <2>6. CASE NetSend
    <3>1. \E from : \E to \in NetPcs : Does(from, to)
      <4>1. \A n : (IF n = NoBuf THEN "get" ELSE "free") \in NetPcs
        BY DEF NetPcs
      <4>2. "last" \in NetPcs /\ "size" \in NetPcs /\ "next" \in NetPcs /\ "go" \in NetPcs
        BY DEF NetPcs
      <4> QED BY <2>6, <4>1, <4>2, Zenon DEF NetSend
    <3> QED BY <2>2, <3>1 DEF Does
  <2>7. CASE NetFree
    <3>1. \E from : \E to \in NetPcs : Does(from, to)
      <4>1. \A n : (IF n = NoBuf THEN "get" ELSE "free") \in NetPcs
        BY DEF NetPcs
      <4>2. "retire" \in NetPcs /\ "unchain" \in NetPcs
        BY DEF NetPcs
      <4> QED BY <2>7, <4>1, <4>2, Zenon DEF NetFree
    <3> QED BY <2>2, <3>1 DEF Does
  <2> QED BY <1>2, <2>1, <2>3, <2>4, <2>5, <2>6, <2>7, <2>8, <2>9, <2>10 DEF NetTask
<1>7. CASE Output
  <2>1. isr' = isr /\ pc' = pc
    BY <1>7 DEF Output, Printed
  <2>2. CASE status' = status /\ run' = run
    BY <2>1, <2>2 DEF SchedType
  <2>3. CASE status' = [status EXCEPT !["net"] = "READY"] /\ run' = First(status')
    BY <1>0, <2>1, <2>3, StatusKeeps DEF SchedType, States
  <2> QED BY <1>7, <2>2, <2>3 DEF Output, Printed
<1>3. CASE IsrRead \/ IsrEnter
  BY <1>3 DEF IsrRead, IsrEnter, SchedType
<1>4. CASE IsrClear
  <2>1. status' = status \/ status' = [status EXCEPT !["emac"] = "READY"]
    BY <1>4 DEF IsrClear, Wake
  <2>2. isr' = "off" /\ (run' = run \/ run' = First(status')) /\ pc' = pc
    BY <1>4 DEF IsrClear, HandlerEnd
  <2>3. CASE status' = status
    <3>1. "idle" \in Tasks /\ status'["idle"] = "READY"
      BY <2>3, NetAssumption DEF SchedType
    <3>2. First(status') \in Tasks /\ status'[First(status')] = "READY"
      BY <3>1, FirstReady
    <3> QED BY <2>2, <2>3, <3>2 DEF SchedType
  <2>4. CASE status' = [status EXCEPT !["emac"] = "READY"]
    BY <1>0, <2>2, <2>4, StatusKeeps DEF SchedType
  <2> QED BY <2>1, <2>3, <2>4
<1>5. CASE Device \/ Comes
  BY <1>5 DEF Device, Comes, SchedType, schedVars
<1>6. CASE UNCHANGED vars
  BY <1>6 DEF vars, schedVars, SchedType
<1> QED BY <1>1, <1>2, <1>3, <1>4, <1>5, <1>6, <1>7 DEF Next, Goes, EmacIsr, Interrupt

-----------------------------------------------------------------------------
(* The invariant of the buffers.                                           *)

(* The one that dev_buf_free() has given back and not put out of use yet.  *)
Freed(b) == pc["net"] = "retire" /\ net.rest = b

(* b follows a in the ring: where it does not go on with a's frame, frames *)
(* came in part.                                                           *)
Joined(a, b) ==
  /\ rx_desc[a].end => rx_desc[b].start
  /\ ~rx_desc[a].end /\ rx_desc[b].start => "part" \in spoilt
  /\ ~rx_desc[b].start => rx_desc[b].frame = rx_desc[a].frame
Fresh == eth.part = <<>> \/ Len(eth.part) = Head(eth.part).n

(* The device has filled u buffers, from rx.index on, that the driver has  *)
(* not taken; the buffers in use are the driver's, but for the one that is *)
(* being given back.                                                       *)
RingOK(u) ==
  /\ eth.fill = Pos(rx.index, u)
  /\ \A i \in 0..(u - 1) : Untaken(Pos(rx.index, i))
  /\ \A i \in u..(NumBufs - 1) : ~Untaken(Pos(rx.index, i))
  /\ \A b \in Bufs : bufs[b].active /\ ~Freed(b) => rx_desc[b].used
  /\ \A b \in Bufs : bufs[b].next \in {NoBuf, After(b)}

(* From the chain that is being linked, of k buffers, over these u to what *)
(* is coming in, frames follow each other.                                 *)
OrderOK(u, k) ==
  /\ \A i \in 0..(u - 2) : Joined(Pos(rx.index, i), Pos(rx.index, i + 1))
  /\ u > 0 => /\ rx_desc[Pos(rx.index, u - 1)].end => Fresh
              /\ ~rx_desc[Pos(rx.index, u - 1)].end /\ Fresh => "part" \in spoilt
              /\ ~Fresh => Head(eth.part) = rx_desc[Pos(rx.index, u - 1)].frame
  /\ k > 0 /\ u > 0 => /\ rx_desc[rx.index].start => "part" \in spoilt
                       /\ ~rx_desc[rx.index].start
                            => rx_desc[rx.index].frame = rx_desc[rx.start].frame
  /\ k > 0 /\ u = 0 => /\ Fresh => "part" \in spoilt
                       /\ ~Fresh => Head(eth.part) = rx_desc[rx.start].frame
  /\ k = 0 /\ u > 0 => rx_desc[rx.index].start
  /\ k = 0 /\ u = 0 => Fresh

(* A chain is made of the n buffers from h on, as far as dev_buf_free()    *)
(* has not cut it.                                                         *)
Link(b, c) == bufs[b].next = c \/ (bufs[b].next = NoBuf /\ "cut" \in spoilt)
ChainOK(h, n) ==
  /\ n \in 1..NumBufs
  /\ \A i \in 0..(n - 1) : bufs[Pos(h, i)].active
  /\ \A i \in 0..(n - 2) : Link(Pos(h, i), Pos(h, i + 1))
  /\ bufs[Pos(h, n - 1)].next = NoBuf
Apart(g, m, h, n) == \A i \in 0..(m - 1), j \in 0..(n - 1) : Pos(g, i) # Pos(h, j)
ChainsOK(size) ==
  /\ Heads \subseteq Bufs
  /\ \A h \in Heads : ChainOK(h, size[h])
  /\ \A g, h \in Heads : g # h => Apart(g, size[g], h, size[h])
LinkingOK(k, size) ==
  /\ k > 0 => pc["emac"] # "hand" /\ rx.start # NoBuf /\ Pos(rx.start, k) = rx.index
  /\ \A i \in 0..(k - 1) : /\ bufs[Pos(rx.start, i)].active
                           /\ ~rx_desc[Pos(rx.start, i)].end
                           /\ rx_desc[Pos(rx.start, i)].frame = rx_desc[rx.start].frame
                           /\ Link(Pos(rx.start, i), Pos(rx.start, i + 1))
  /\ \A h \in Heads : Apart(h, size[h], rx.start, k)
OwnedOK(k, size) ==
  spoilt \cap {"refused", "part", "cut"} = {} =>
    \A b \in Bufs : bufs[b].active =>
       \/ \E h \in Heads : \E i \in 0..(size[h] - 1) : b = Pos(h, i)
       \/ \E i \in 0..(k - 1) : b = Pos(rx.start, i)
RxAt(u, k, size) ==
  RingOK(u) /\ OrderOK(u, k) /\ ChainsOK(size) /\ LinkingOK(k, size) /\ OwnedOK(k, size)

(* No chain is in two places.                                              *)
BoxedOK ==
  /\ \A i, j \in 1..box.num_msgs : Contents[i] = Contents[j] => i = j
  /\ Boxed \cap Handed = {} /\ Boxed \cap Held = {} /\ Handed \cap Held = {}
HeldOK ==
  /\ pc["net"] \in {"start", "get", "take"} => net.buf = NoBuf /\ net.rest = NoBuf
  /\ Reading \/ pc["net"] \in {"free", "retire"} => net.buf # NoBuf /\ net.rest = net.buf
  /\ pc["net"] \in {"send", "last", "size", "next", "go"} => net.rest = net.buf
  /\ pc["net"] = "unchain" => net.buf # NoBuf
PartOK == eth.part = <<>> \/ \E f \in Frames : \E m \in 1..f.n : eth.part = [i \in 1..m |-> f]
Sizes == [Bufs -> 0..NumBufs]
RxOK == /\ HeldOK /\ BoxedOK /\ PartOK
        /\ \E u, k \in 0..NumBufs, size \in Sizes : RxAt(u, k, size)

-----------------------------------------------------------------------------
(* What a step keeps of it, as far as it leaves things alone.              *)
LEMMA PosIn ==
  ASSUME NEW b \in Bufs, NEW i \in 0..NumBufs
  PROVE  Pos(b, i) \in Bufs
  BY PosIs

LEMMA RxFacts ==
  ASSUME RxType
  PROVE  /\ rx.index \in Bufs /\ rx.start \in Bufs \cup {NoBuf}
         /\ DOMAIN rx_desc = Bufs /\ DOMAIN bufs = Bufs
         /\ \A b \in Bufs : /\ rx_desc[b].used \in BOOLEAN /\ rx_desc[b].start \in BOOLEAN
                            /\ rx_desc[b].end \in BOOLEAN /\ bufs[b].active \in BOOLEAN
                            /\ rx_desc[b].frame \in Frames \cup {0}
                            /\ bufs[b].next \in Bufs \cup {NoBuf}
                            /\ rx_desc[b].used \/ bufs[b].active => rx_desc[b].frame \in Frames
         /\ NumBufs \in Nat /\ NumBufs > 0
<1>1. rx.index \in Bufs /\ rx.start \in Bufs \cup {NoBuf}
  BY DEF RxType
<1>2. DOMAIN rx_desc = Bufs /\ DOMAIN bufs = Bufs
  BY DEF RxType
<1>3. ASSUME NEW b \in Bufs
      PROVE  rx_desc[b] \in Descs /\ bufs[b] \in NetBufs
  BY DEF RxType
<1>4. NumBufs \in Nat /\ NumBufs > 0
  BY EmacAssumption
<1>5. \A d \in Descs : /\ d.used \in BOOLEAN /\ d.start \in BOOLEAN /\ d.end \in BOOLEAN
                       /\ d.frame \in Frames \cup {0}
  BY DEF Descs
<1>6. \A n \in NetBufs : n.active \in BOOLEAN /\ n.next \in Bufs \cup {NoBuf}
  BY DEF NetBufs
<1> QED BY <1>1, <1>2, <1>3, <1>4, <1>5, <1>6 DEF RxType

LEMMA RingKeeps ==
  ASSUME RxType, NEW u \in 0..NumBufs, RingOK(u), rx'.index = rx.index, eth'.fill = eth.fill,
         \A b \in Bufs : Untaken(b)' <=> Untaken(b),
         \A b \in Bufs : bufs'[b].active /\ ~Freed(b)' => rx_desc'[b].used,
         \A b \in Bufs : bufs'[b].next \in {NoBuf, After(b)}
  PROVE  RingOK(u)'
<1>1. rx.index \in Bufs
  BY RxFacts
<1>2. \A i \in 0..(u - 1) : Pos(rx.index, i) \in Bufs
  <2>1. \A i \in 0..(u - 1) : i \in 0..NumBufs
    BY EmacAssumption
  <2> QED BY <1>1, <2>1, PosIn
<1>3. \A i \in u..(NumBufs - 1) : Pos(rx.index, i) \in Bufs
  <2>1. \A i \in u..(NumBufs - 1) : i \in 0..NumBufs
    BY EmacAssumption
  <2> QED BY <1>1, <2>1, PosIn
<1>4. \A b \in Bufs, i \in Int : (Pos(b, i))' = Pos(b, i)
  BY DEF Pos
<1>5. (eth.fill = Pos(rx.index, u))'
  BY DEF RingOK, Pos
<1>6. (\A i \in 0..(u - 1) : Untaken(Pos(rx.index, i)))'
  BY <1>2 DEF RingOK, Pos
<1>7. (\A i \in u..(NumBufs - 1) : ~Untaken(Pos(rx.index, i)))'
  BY <1>3 DEF RingOK, Pos
<1> QED BY <1>5, <1>6, <1>7 DEF RingOK

LEMMA OrderKeeps ==
  ASSUME RxType, NEW u \in 0..NumBufs, NEW k \in 0..NumBufs, OrderOK(u, k), rx' = rx,
         k > 0 => rx.start \in Bufs,
         \A b \in Bufs : /\ rx_desc'[b].start = rx_desc[b].start
                         /\ rx_desc'[b].end = rx_desc[b].end
                         /\ rx_desc'[b].frame = rx_desc[b].frame,
         spoilt \subseteq spoilt',
         Fresh => Fresh', Fresh' => Fresh \/ "part" \in spoilt',
         ~Fresh' => Head(eth'.part) = Head(eth.part)
  PROVE  OrderOK(u, k)'
<1>1. rx.index \in Bufs /\ NumBufs \in Nat
  BY RxFacts
<1>2. \A b \in Bufs : \A i \in 0..NumBufs : Pos(b, i) \in Bufs
  BY PosIn
<1>3. \A a, b \in Bufs : Joined(a, b) => Joined(a, b)'
  BY DEF Joined
<1>4. (\A i \in 0..(u - 2) : Joined(Pos(rx.index, i), Pos(rx.index, i + 1)))'
  <2>1. ASSUME NEW i \in 0..(u - 2)
        PROVE  Joined(Pos(rx.index, i), Pos(rx.index, i + 1))'
    <3>1. i \in 0..NumBufs /\ i + 1 \in 0..NumBufs
      BY <1>1
    <3>2. Pos(rx.index, i) \in Bufs /\ Pos(rx.index, i + 1) \in Bufs
      BY <1>1, <1>2, <3>1
    <3>3. Joined(Pos(rx.index, i), Pos(rx.index, i + 1))
      BY DEF OrderOK
    <3> QED BY <3>2, <3>3 DEF Joined, Pos
  <2> QED BY <2>1
<1>5. u > 0 => u - 1 \in 0..NumBufs /\ Pos(rx.index, u - 1) \in Bufs
  <2>1. u > 0 => u - 1 \in 0..NumBufs
    BY <1>1
  <2> QED BY <1>1, <1>2, <2>1
<1>6. (u > 0 => /\ rx_desc[Pos(rx.index, u - 1)].end => Fresh
                /\ ~rx_desc[Pos(rx.index, u - 1)].end /\ Fresh => "part" \in spoilt
                /\ ~Fresh => Head(eth.part) = rx_desc[Pos(rx.index, u - 1)].frame)'
  <2> HIDE DEF Fresh
  <2> QED BY <1>5 DEF OrderOK, Pos
<1>7. (k > 0 /\ u > 0 => /\ rx_desc[rx.index].start => "part" \in spoilt
                         /\ ~rx_desc[rx.index].start
                               => rx_desc[rx.index].frame = rx_desc[rx.start].frame)'
  BY <1>1 DEF OrderOK
<1>8. (k > 0 /\ u = 0 => /\ Fresh => "part" \in spoilt
                         /\ ~Fresh => Head(eth.part) = rx_desc[rx.start].frame)'
  BY <1>1 DEF OrderOK
<1>9. (k = 0 /\ u > 0 => rx_desc[rx.index].start)' /\ (k = 0 /\ u = 0 => Fresh)'
  BY <1>1 DEF OrderOK
<1> QED BY <1>4, <1>6, <1>7, <1>8, <1>9 DEF OrderOK

(* Buffer b stays in its chain, or the chain is cut behind it.             *)
Kept(b) ==
  /\ bufs'[b].active = bufs[b].active
  /\ \/ bufs'[b].next = bufs[b].next
     \/ bufs'[b].next = NoBuf /\ (bufs[b].active => "cut" \in spoilt')

LEMMA ChainKeeps ==
  ASSUME NEW h \in Bufs, NEW n, ChainOK(h, n), spoilt \subseteq spoilt',
         \A i \in 0..(n - 1) : Kept(Pos(h, i))
  PROVE  ChainOK(h, n)'
<1>1. n \in 1..NumBufs /\ NumBufs \in Nat /\ \A i \in 0..(n - 2) : i \in 0..(n - 1)
  BY EmacAssumption DEF ChainOK
<1>2. (\A i \in 0..(n - 1) : bufs[Pos(h, i)].active)'
  BY DEF ChainOK, Kept, Pos
<1>3. (\A i \in 0..(n - 2) : Link(Pos(h, i), Pos(h, i + 1)))'
  <2>1. ASSUME NEW i \in 0..(n - 2)
        PROVE  Link(Pos(h, i), Pos(h, i + 1))'
    <3>1. Link(Pos(h, i), Pos(h, i + 1)) /\ Kept(Pos(h, i)) /\ bufs[Pos(h, i)].active
      BY <1>1 DEF ChainOK
    <3> QED BY <3>1 DEF Kept, Link, Pos
  <2> QED BY <2>1
<1>4. n - 1 \in 0..(n - 1)
  BY <1>1
<1>5. (bufs[Pos(h, n - 1)].next = NoBuf)'
  BY <1>4 DEF ChainOK, Kept, Pos
<1> QED BY <1>1, <1>2, <1>3, <1>5 DEF ChainOK

LEMMA ChainsKeep ==
  ASSUME NEW size \in Sizes, ChainsOK(size), Heads' \subseteq Heads, spoilt \subseteq spoilt',
         \A h \in Heads' : \A i \in 0..(size[h] - 1) : Kept(Pos(h, i))
  PROVE  ChainsOK(size)'
<1>1. (Heads \subseteq Bufs)'
  BY DEF ChainsOK, Bufs
<1>2. ASSUME NEW h \in Heads' PROVE ChainOK(h, size[h])'
  BY <1>1, <1>2, ChainKeeps DEF ChainsOK
<1>3. ASSUME NEW g \in Heads', NEW h \in Heads', g # h
      PROVE  Apart(g, size[g], h, size[h])'
  BY <1>3 DEF ChainsOK, Apart, Pos
<1> QED BY <1>1, <1>2, <1>3 DEF ChainsOK

LEMMA LinkingKeeps ==
  ASSUME RxType, NEW k \in 0..NumBufs, NEW size \in Sizes, LinkingOK(k, size),
         pc'["emac"] = "hand" => pc["emac"] = "hand", rx' = rx, Heads' \subseteq Heads,
         \A b \in Bufs : /\ rx_desc[b].used /\ ~Freed(b) => rx_desc'[b].end = rx_desc[b].end
                         /\ rx_desc[b].used /\ ~Freed(b) => rx_desc'[b].frame = rx_desc[b].frame,
         \A i \in 0..(k - 1) : rx_desc[Pos(rx.start, i)].used /\ ~Freed(Pos(rx.start, i)),
         spoilt \subseteq spoilt',
         \A i \in 0..(k - 1) : Kept(Pos(rx.start, i))
  PROVE  LinkingOK(k, size)'
<1>0. NumBufs \in Nat /\ rx.start \in Bufs \cup {NoBuf}
  BY RxFacts
<1>1. (k > 0 => pc["emac"] # "hand" /\ rx.start # NoBuf /\ Pos(rx.start, k) = rx.index)'
  BY DEF LinkingOK, Pos
<1>2. ASSUME NEW i \in 0..(k - 1)
      PROVE  (/\ bufs[Pos(rx.start, i)].active
              /\ ~rx_desc[Pos(rx.start, i)].end
              /\ rx_desc[Pos(rx.start, i)].frame = rx_desc[rx.start].frame
              /\ Link(Pos(rx.start, i), Pos(rx.start, i + 1)))'
  <2>1. k > 0 /\ rx.start \in Bufs /\ i \in 0..NumBufs /\ 0 \in 0..(k - 1)
    BY <1>0 DEF LinkingOK
  <2>2. Pos(rx.start, i) \in Bufs /\ Pos(rx.start, 0) = rx.start
    BY <2>1, PosIs
  <2>3. rx_desc'[rx.start].frame = rx_desc[rx.start].frame
    BY <2>1, <2>2
  <2>4. /\ rx_desc'[Pos(rx.start, i)].frame = rx_desc[Pos(rx.start, i)].frame
        /\ rx_desc'[Pos(rx.start, i)].end = rx_desc[Pos(rx.start, i)].end
    BY <2>2
  <2>5. /\ bufs[Pos(rx.start, i)].active /\ Kept(Pos(rx.start, i))
        /\ ~rx_desc[Pos(rx.start, i)].end
        /\ rx_desc[Pos(rx.start, i)].frame = rx_desc[rx.start].frame
        /\ Link(Pos(rx.start, i), Pos(rx.start, i + 1))
    BY DEF LinkingOK
  <2>6. Link(Pos(rx.start, i), Pos(rx.start, i + 1))'
    BY <2>5 DEF Link, Kept, Pos
  <2>7. (Pos(rx.start, i))' = Pos(rx.start, i)
    BY DEF Pos
  <2> QED BY <2>3, <2>4, <2>5, <2>6, <2>7 DEF Kept
<1>3. (\A h \in Heads : Apart(h, size[h], rx.start, k))'
  BY DEF LinkingOK, Apart, Pos
<1> QED BY <1>1, <1>2, <1>3 DEF LinkingOK

LEMMA OwnedKeeps ==
  ASSUME NEW k \in 0..NumBufs, NEW size \in Sizes, OwnedOK(k, size), spoilt \subseteq spoilt',
         spoilt' \cap {"refused", "part", "cut"} = {} => Heads \subseteq Heads',
         \A b \in Bufs : bufs'[b].active => bufs[b].active, rx' = rx
  PROVE  OwnedOK(k, size)'
  BY DEF OwnedOK, Pos

(* The buffers that are being linked are full, and the driver's.           *)
LEMMA LinkedUsed ==
  ASSUME RxType, HeldOK, NEW u \in 0..NumBufs, NEW k \in 0..NumBufs, NEW size \in Sizes,
         RxAt(u, k, size)
  PROVE  /\ k > 0 => rx.start \in Bufs
         /\ \A i \in 0..(k - 1) :
              /\ Pos(rx.start, i) \in Bufs /\ bufs[Pos(rx.start, i)].active
              /\ rx_desc[Pos(rx.start, i)].used /\ ~Freed(Pos(rx.start, i))
<1>1. k > 0 => rx.start \in Bufs
  BY RxFacts DEF RxAt, LinkingOK
<1>2. ASSUME NEW i \in 0..(k - 1)
      PROVE  /\ Pos(rx.start, i) \in Bufs /\ bufs[Pos(rx.start, i)].active
             /\ rx_desc[Pos(rx.start, i)].used /\ ~Freed(Pos(rx.start, i))
  <2>1. rx.start \in Bufs /\ i \in 0..NumBufs
    BY <1>1, EmacAssumption
  <2>2. Pos(rx.start, i) \in Bufs /\ bufs[Pos(rx.start, i)].active
    BY <2>1, PosIn DEF RxAt, LinkingOK
  <2>3. ~Freed(Pos(rx.start, i))
    <3>1. SUFFICES ASSUME Freed(Pos(rx.start, i)) PROVE FALSE
      OBVIOUS
    <3>2. pc["net"] = "retire" /\ net.rest = Pos(rx.start, i) /\ net.rest # NoBuf
      BY <3>1 DEF Freed, HeldOK, Reading
    <3>3. net.rest \in Heads
      BY <3>2 DEF Heads, Held
    <3>4. ChainOK(net.rest, size[net.rest]) /\ Apart(net.rest, size[net.rest], rx.start, k)
          /\ net.rest \in Bufs
      BY <3>3 DEF RxAt, ChainsOK, LinkingOK
    <3>5. 0 \in 0..(size[net.rest] - 1) /\ Pos(net.rest, 0) = net.rest
      BY <3>4, PosIs, EmacAssumption DEF ChainOK
    <3> QED BY <3>2, <3>4, <3>5 DEF Apart
  <2> QED BY <2>2, <2>3 DEF RxAt, RingOK
<1> QED BY <1>1, <1>2

(* So are those of the chains, but for the one that has been given back.   *)
LEMMA ChainsUsed ==
  ASSUME RxType, NEW u \in 0..NumBufs, NEW k \in 0..NumBufs, NEW size \in Sizes,
         RxAt(u, k, size), NEW h \in Heads
  PROVE  /\ h \in Bufs /\ size[h] \in 1..NumBufs /\ bufs[h].active
         /\ \A i \in 0..(size[h] - 1) :
              /\ Pos(h, i) \in Bufs /\ bufs[Pos(h, i)].active
              /\ ~Freed(Pos(h, i)) => rx_desc[Pos(h, i)].used
<1>1. h \in Bufs /\ ChainOK(h, size[h]) /\ size[h] \in 1..NumBufs
  BY DEF RxAt, ChainsOK, ChainOK
<1>2. ASSUME NEW i \in 0..(size[h] - 1)
      PROVE  /\ Pos(h, i) \in Bufs /\ bufs[Pos(h, i)].active
             /\ ~Freed(Pos(h, i)) => rx_desc[Pos(h, i)].used
  <2>1. i \in 0..NumBufs
    BY <1>1, EmacAssumption
  <2>2. Pos(h, i) \in Bufs
    BY <1>1, <2>1, PosIn
  <2> QED BY <1>1, <2>2 DEF RxAt, RingOK, ChainOK
<1>3. 0 \in 0..(size[h] - 1) /\ Pos(h, 0) = h
  <2>1. NumBufs \in Nat /\ 0 \in 0..NumBufs /\ 0 \in 0..(size[h] - 1)
    BY <1>1, EmacAssumption
  <2> QED BY <1>1, <2>1, PosIs
<1>4. bufs[h].active
  BY <1>2, <1>3
<1> QED BY <1>1, <1>2, <1>4

(* The one that has been given back begins what net_task() has; no chain   *)
(* that waits, or is being handed over, has it.                            *)
LEMMA FreedApart ==
  ASSUME RxType, HeldOK, BoxedOK, NEW u \in 0..NumBufs, NEW k \in 0..NumBufs,
         NEW size \in Sizes, RxAt(u, k, size), NEW h \in Boxed \cup Handed,
         NEW i \in 0..(size[h] - 1)
  PROVE  ~Freed(Pos(h, i))
<1>1. SUFFICES ASSUME Freed(Pos(h, i)) PROVE FALSE
  OBVIOUS
<1>2. pc["net"] = "retire" /\ net.rest = Pos(h, i) /\ net.rest # NoBuf
  BY <1>1 DEF Freed, HeldOK, Reading
<1>3. net.rest \in Held /\ net.rest \in Heads /\ h \in Heads
  BY <1>2 DEF Heads, Held
<1>4. net.rest # h
  BY <1>3 DEF BoxedOK
<1>5. Apart(net.rest, size[net.rest], h, size[h]) /\ ChainOK(net.rest, size[net.rest])
      /\ net.rest \in Bufs
  BY <1>3, <1>4 DEF RxAt, ChainsOK
<1>6. 0 \in 0..(size[net.rest] - 1) /\ Pos(net.rest, 0) = net.rest
  BY <1>5, PosIs, EmacAssumption DEF ChainOK
<1> QED BY <1>2, <1>5, <1>6 DEF Apart

(* What takes no buffer, fills none, and puts none out of use.             *)
LEMMA Calm ==
  ASSUME RxType, HeldOK, NEW u \in 0..NumBufs, NEW k \in 0..NumBufs, NEW size \in Sizes,
         RxAt(u, k, size), rx' = rx, eth'.fill = eth.fill,
         \A b \in Bufs : Untaken(b)' <=> Untaken(b),
         \A b \in Bufs : bufs'[b].active /\ ~Freed(b)' => rx_desc'[b].used,
         \A b \in Bufs : bufs'[b].next \in {NoBuf, After(b)},
         \A b \in Bufs : Kept(b),
         \A b \in Bufs : /\ rx_desc'[b].start = rx_desc[b].start
                         /\ rx_desc'[b].end = rx_desc[b].end
                         /\ rx_desc'[b].frame = rx_desc[b].frame,
         spoilt \subseteq spoilt',
         Fresh => Fresh', Fresh' => Fresh \/ "part" \in spoilt',
         ~Fresh' => Head(eth'.part) = Head(eth.part),
         Heads' \subseteq Heads,
         spoilt' \cap {"refused", "part", "cut"} = {} => Heads \subseteq Heads',
         pc'["emac"] = "hand" => pc["emac"] = "hand"
  PROVE  RxAt(u, k, size)'
<1>1. /\ k > 0 => rx.start \in Bufs
      /\ \A i \in 0..(k - 1) :
              /\ Pos(rx.start, i) \in Bufs /\ bufs[Pos(rx.start, i)].active
              /\ rx_desc[Pos(rx.start, i)].used /\ ~Freed(Pos(rx.start, i))
  BY LinkedUsed
<1>2. RingOK(u) /\ OrderOK(u, k) /\ ChainsOK(size) /\ LinkingOK(k, size) /\ OwnedOK(k, size)
  BY DEF RxAt
<1>3. RingOK(u)'
  BY <1>2, RingKeeps
<1>4. OrderOK(u, k)'
  BY <1>1, <1>2, OrderKeeps
<1>5. ChainsOK(size)'
  <2>1. \A h \in Heads' : \A i \in 0..(size[h] - 1) : Pos(h, i) \in Bufs
    BY ChainsUsed
  <2> QED BY <1>2, <2>1, ChainsKeep
<1>6. LinkingOK(k, size)'
  BY <1>1, <1>2, LinkingKeeps
<1>7. OwnedOK(k, size)'
  <2>1. \A b \in Bufs : bufs'[b].active => bufs[b].active
    BY DEF Kept
  <2> QED BY <1>2, <2>1, OwnedKeeps
<1> QED BY <1>3, <1>4, <1>5, <1>6, <1>7 DEF RxAt

-----------------------------------------------------------------------------
(* emac_rx_task() takes a buffer.                                          *)

(* It is the last of the n from s on, which are linked or have been.       *)
TakePost(s, n) ==
  /\ rx_desc' = rx_desc /\ eth' = eth /\ spoilt' = spoilt /\ net' = net /\ box' = box
  /\ pc["emac"] = "test" /\ pc'["net"] = pc["net"]
  /\ pc'["emac"] = IF rx_desc[rx.index].end THEN "hand" ELSE "test"
  /\ rx'.index = After(rx.index) /\ rx'.start = s
  /\ bufs'[rx.index].active
  /\ bufs'[rx.index].next = IF rx_desc[rx.index].end THEN NoBuf ELSE After(rx.index)
  /\ \A b \in Bufs : b # rx.index => bufs'[b] = bufs[b]
  /\ ~bufs[rx.index].active /\ rx_desc[rx.index].used /\ ~Freed(rx.index)
  /\ s \in Bufs /\ n \in 1..NumBufs
  /\ Pos(s, n - 1) = rx.index /\ Pos(s, n) = After(rx.index)
Linked(s, n, size) ==
  /\ \A j \in 0..(n - 2) : /\ Pos(s, j) \in Bufs /\ Pos(s, j) # rx.index
                           /\ bufs[Pos(s, j)].active /\ ~rx_desc[Pos(s, j)].end
                           /\ Link(Pos(s, j), Pos(s, j + 1))
  /\ \A j \in 0..(n - 1) : rx_desc[Pos(s, j)].frame = rx_desc[s].frame
  /\ \A h \in Heads : Apart(h, size[h], s, n)

LEMMA TakeSteps ==
  ASSUME SchedType, RxType, HeldOK, NEW u \in 0..NumBufs, NEW k \in 0..NumBufs,
         NEW size \in Sizes, RxAt(u, k, size), RxTake, UNCHANGED netVars
  PROVE  /\ u > 0
         /\ \E s, n : /\ TakePost(s, n) /\ Linked(s, n, size)
                      /\ IF rx_desc[rx.index].start
                         THEN s = rx.index /\ n = 1 /\ (k > 0 => "part" \in spoilt)
                         ELSE s = rx.start /\ n = k + 1 /\ k > 0
<1> DEFINE i == rx.index
           d == rx_desc[i]
           s == IF d.start THEN i ELSE rx.start
           n == IF d.start THEN 1 ELSE k + 1
<1>1. i \in Bufs /\ NumBufs \in Nat /\ NumBufs > 0
  BY RxFacts
<1>2. /\ pc["emac"] = "test" /\ pc' = [pc EXCEPT !["emac"] = IF d.end THEN "hand" ELSE "test"]
      /\ bufs' = [bufs EXCEPT ![i] = [active |-> TRUE,
                                      next |-> IF d.end THEN NoBuf ELSE After(i)]]
      /\ rx' = [index |-> After(i), start |-> s]
      /\ rx_desc' = rx_desc /\ eth' = eth /\ spoilt' = spoilt /\ net' = net /\ box' = box
      /\ d.used /\ ~bufs[i].active
  BY DEF RxTake, Step, Ready, boxVars, netVars
<1>3. pc'["net"] = pc["net"] /\ pc'["emac"] = IF d.end THEN "hand" ELSE "test"
  <2>1. "emac" \in DOMAIN pc /\ "net" \in DOMAIN pc
    BY NetAssumption DEF SchedType
  <2> HIDE DEF d
  <2> QED BY <1>2, <2>1
<1>4. /\ bufs'[i].active /\ bufs'[i].next = IF d.end THEN NoBuf ELSE After(i)
      /\ \A b \in Bufs : b # i => bufs'[b] = bufs[b]
  <2>1. i \in DOMAIN bufs
    BY <1>1, RxFacts
  <2>2. DEFINE r == [active |-> TRUE, next |-> IF d.end THEN NoBuf ELSE After(i)]
  <2>3. r.active /\ r.next = IF d.end THEN NoBuf ELSE After(i)
    OBVIOUS
  <2>4. bufs' = [bufs EXCEPT ![i] = r]
    BY <1>2
  <2> HIDE DEF r
  <2>5. bufs'[i] = r /\ \A b \in Bufs : b # i => bufs'[b] = bufs[b]
    BY <2>1, <2>4, RxFacts
  <2> QED BY <2>3, <2>5
<1>5. ~Freed(i)
  <2>1. SUFFICES ASSUME Freed(i) PROVE FALSE
    OBVIOUS
  <2>2. i \in Heads
    BY <2>1 DEF Freed, HeldOK, Heads, Held, Reading
  <2> QED BY <1>2, <2>2, ChainsUsed
<1>6. Untaken(i) /\ Pos(i, 0) = i
  BY <1>1, <1>2, PosIs DEF Untaken
<1>7. u > 0
  <2>1. SUFFICES ASSUME u = 0 PROVE FALSE
    BY <1>1
  <2>2. 0 \in u..(NumBufs - 1)
    BY <1>1, <2>1
  <2> QED BY <1>6, <2>2 DEF RxAt, RingOK
<1>8. ~d.start => k > 0
  BY <1>7 DEF RxAt, OrderOK
<1>9. /\ k > 0 => rx.start \in Bufs
      /\ \A j \in 0..(k - 1) : /\ Pos(rx.start, j) \in Bufs /\ bufs[Pos(rx.start, j)].active
  BY LinkedUsed
<1>10. k < NumBufs \/ d.start
  <2>1. SUFFICES ASSUME k = NumBufs PROVE FALSE
    BY <1>1
  <2>2. rx.start \in Bufs /\ Pos(rx.start, k) = i
    BY <1>1, <1>9, <2>1 DEF RxAt, LinkingOK
  <2>3. Pos(rx.start, NumBufs) = rx.start /\ Pos(rx.start, 0) = rx.start
    <3>1. 0 \in 0..NumBufs
      BY <1>1
    <3> QED BY <2>2, <3>1, PosIs
  <2>4. 0 \in 0..(k - 1)
    BY <1>1, <2>1
  <2> QED BY <1>2, <1>9, <2>1, <2>2, <2>3, <2>4
<1>11. s \in Bufs /\ n \in 1..NumBufs /\ Pos(s, n - 1) = i /\ Pos(s, n) = After(i)
  <2>1. CASE d.start
    <3>1. 1 \in 1..NumBufs /\ 0 \in 0..NumBufs /\ 1 - 1 = 0
      BY <1>1
    <3>2. Pos(i, 0) = i /\ Pos(i, 1) = After(i)
      BY <1>1, <3>1, PosIs
    <3> QED BY <1>1, <2>1, <3>1, <3>2
  <2>2. CASE ~d.start
    <3>1. k > 0 /\ k < NumBufs /\ rx.start \in Bufs /\ Pos(rx.start, k) = i
      BY <1>8, <1>9, <1>10, <2>2 DEF RxAt, LinkingOK
    <3>2. Pos(rx.start, k + 1) = After(i) /\ k + 1 \in 1..NumBufs /\ (k + 1) - 1 = k
      BY <1>1, <3>1, PosIs
    <3> QED BY <2>2, <3>1, <3>2
  <2> QED BY <1>1, <2>1, <2>2
<1>12. TakePost(s, n)
  <2> HIDE DEF s, n
  <2>1. rx'.index = After(i) /\ rx'.start = s
    BY <1>2
  <2> QED BY <1>2, <1>3, <1>4, <1>5, <1>11, <2>1 DEF TakePost
<1>13. \A j \in 0..(n - 2) : /\ Pos(s, j) \in Bufs /\ Pos(s, j) # rx.index
                             /\ bufs[Pos(s, j)].active /\ ~rx_desc[Pos(s, j)].end
                             /\ Link(Pos(s, j), Pos(s, j + 1))
  <2>1. CASE d.start
    BY <2>1
  <2>2. CASE ~d.start
    BY <1>2, <1>9, <2>2 DEF RxAt, LinkingOK
  <2> QED BY <1>1, <2>1, <2>2
<1>14. \A j \in 0..(n - 1) : rx_desc[Pos(s, j)].frame = rx_desc[s].frame
  <2> TAKE j \in 0..(n - 1)
  <2>1. CASE d.start
    <3>1. j = 0 /\ s = i
      BY <2>1
    <3> QED BY <1>6, <3>1
  <2>2. CASE ~d.start
    <3>1. s = rx.start /\ n = k + 1 /\ k > 0
      BY <1>8, <2>2
    <3>2. CASE j = k
      <4>1. rx_desc[i].frame = rx_desc[rx.start].frame
        BY <1>7, <2>2, <3>1 DEF RxAt, OrderOK
      <4>2. Pos(rx.start, k) = i
        BY <3>1 DEF RxAt, LinkingOK
      <4> QED BY <3>1, <3>2, <4>1, <4>2
    <3>3. CASE j \in 0..(k - 1)
      BY <3>1, <3>3 DEF RxAt, LinkingOK
    <3> QED BY <3>1, <3>2, <3>3
  <2> QED BY <1>1, <2>1, <2>2
<1>15. ASSUME NEW h \in Heads PROVE Apart(h, size[h], s, n)
  <2>1. \A m \in 0..(size[h] - 1) : bufs[Pos(h, m)].active
    BY ChainsUsed
  <2>2. ASSUME NEW m \in 0..(size[h] - 1), NEW j \in 0..(n - 1), Pos(h, m) = Pos(s, j)
        PROVE  FALSE
    <3>1. j # n - 1
      BY <1>2, <1>11, <2>1, <2>2
    <3>2. ~d.start /\ s = rx.start /\ n = k + 1 /\ j \in 0..(k - 1)
      BY <1>1, <3>1
    <3> QED BY <2>2, <3>2 DEF RxAt, LinkingOK, Apart
  <2> QED BY <2>2 DEF Apart
<1>16. d.start => (k > 0 => "part" \in spoilt)
  BY <1>7 DEF RxAt, OrderOK
<1>17. Linked(s, n, size)
  BY <1>13, <1>14, <1>15 DEF Linked
<1> QED
  <2>1. IF d.start THEN s = i /\ n = 1 /\ (k > 0 => "part" \in spoilt)
                   ELSE s = rx.start /\ n = k + 1 /\ k > 0
    BY <1>8, <1>16
  <2> HIDE DEF s, n
  <2> QED BY <1>7, <1>12, <1>17, <2>1

LEMMA TakeRing ==
  ASSUME RxType, NEW u \in 1..NumBufs, RingOK(u), NEW s, NEW n, TakePost(s, n)
  PROVE  RingOK(u - 1)' /\ u - 1 \in 0..NumBufs
<1>0. PICK i, a : i = rx.index /\ a = After(rx.index)
  OBVIOUS
<1>1. i \in Bufs /\ NumBufs \in Nat /\ NumBufs > 0
  BY <1>0, RxFacts
<1>2. \A j \in 0..(NumBufs - 1) : /\ Pos(a, j) = Pos(i, j + 1) /\ Pos(i, j + 1) \in Bufs
                                  /\ j + 1 < NumBufs => Pos(i, j + 1) # i
  <2> TAKE j \in 0..(NumBufs - 1)
  <2>1. j \in 0..NumBufs /\ j + 1 \in 0..NumBufs /\ 0 \in 0..NumBufs /\ j < NumBufs
    BY <1>1
  <2>2. Pos(a, j) = Pos(i, j + 1) /\ Pos(i, j + 1) \in Bufs /\ Pos(i, 0) = i
    BY <1>0, <1>1, <2>1, PosIs
  <2>3. Pos(i, j + 1) = Pos(i, 0) => j + 1 = 0 \/ {j + 1, 0} = {0, NumBufs}
    BY <1>1, <2>1, PosIs
  <2> QED BY <2>1, <2>2, <2>3
<1>3. Pos(i, NumBufs) = i
  BY <1>1, PosIs
<1>4. \A b \in Bufs : b # i => (Untaken(b)' <=> Untaken(b))
  BY <1>0 DEF Untaken, TakePost
<1>5. ~Untaken(i)'
  BY <1>0 DEF Untaken, TakePost, Freed
<1>6. rx'.index = a /\ eth' = eth
  BY <1>0 DEF TakePost
<1>7. (eth.fill = Pos(rx.index, u - 1))'
  <2>1. u - 1 \in 0..(NumBufs - 1) /\ (u - 1) + 1 = u
    BY <1>1
  <2>2. eth.fill = Pos(a, u - 1)
    BY <1>0, <1>2, <2>1 DEF RingOK
  <2> QED BY <1>0, <1>6, <2>2 DEF Pos
<1>8. (\A j \in 0..((u - 1) - 1) : Untaken(Pos(rx.index, j)))'
  <2>1. ASSUME NEW j \in 0..((u - 1) - 1) PROVE Untaken(Pos(a, j))'
    <3>1. j \in 0..(NumBufs - 1) /\ j + 1 < NumBufs /\ j + 1 \in 0..(u - 1)
      BY <1>1
    <3>2. Untaken(Pos(i, j + 1)) /\ Pos(i, j + 1) # i /\ Pos(i, j + 1) \in Bufs
      BY <1>0, <1>2, <3>1 DEF RingOK
    <3>3. Pos(a, j) = Pos(i, j + 1)
      BY <1>2, <3>1
    <3> QED BY <1>0, <1>4, <3>2, <3>3 DEF Pos
  <2> QED BY <1>0, <1>6, <2>1 DEF Pos
<1>9. (\A j \in (u - 1)..(NumBufs - 1) : ~Untaken(Pos(rx.index, j)))'
  <2>1. ASSUME NEW j \in (u - 1)..(NumBufs - 1) PROVE ~Untaken(Pos(a, j))'
    <3>1. j \in 0..(NumBufs - 1)
      BY <1>1
    <3>2. CASE j + 1 < NumBufs
      <4>1. j + 1 \in u..(NumBufs - 1)
        BY <1>1, <3>2
      <4>2. ~Untaken(Pos(i, j + 1)) /\ Pos(i, j + 1) # i /\ Pos(i, j + 1) \in Bufs
        BY <1>0, <1>2, <3>1, <3>2, <4>1 DEF RingOK
      <4> QED BY <1>0, <1>2, <1>4, <3>1, <4>2 DEF Pos
    <3>3. CASE ~(j + 1 < NumBufs)
      <4>1. j + 1 = NumBufs
        BY <1>1, <3>3
      <4>2. Pos(a, j) = i
        BY <1>2, <1>3, <3>1, <4>1
      <4> QED BY <1>0, <1>5, <4>2 DEF Pos
    <3> QED BY <3>2, <3>3
  <2> QED BY <1>0, <1>6, <2>1 DEF Pos
<1>10. \A b \in Bufs : bufs'[b].active /\ ~Freed(b)' => rx_desc'[b].used
  BY <1>0 DEF TakePost, RingOK, Freed
<1>11. \A b \in Bufs : bufs'[b].next \in {NoBuf, After(b)}
  BY <1>0 DEF TakePost, RingOK
<1>12. u - 1 \in 0..NumBufs
  BY <1>1
<1> QED BY <1>0, <1>7, <1>8, <1>9, <1>10, <1>11, <1>12 DEF RingOK

LEMMA TakeOrder ==
  ASSUME RxType, NEW u \in 1..NumBufs, NEW size, NEW s, NEW n,
         TakePost(s, n), Linked(s, n, size), NEW k, OrderOK(u, k)
  PROVE  \E m \in {0, n} : (rx_desc[rx.index].end <=> m = 0) /\ OrderOK(u - 1, m)'
<1>0. PICK i, a : i = rx.index /\ a = After(rx.index)
  OBVIOUS
<1>m. PICK m : m = IF rx_desc[i].end THEN 0 ELSE n
  OBVIOUS
<1>1. i \in Bufs /\ NumBufs \in Nat /\ NumBufs > 0 /\ n \in Nat /\ n > 0
  BY <1>0, RxFacts DEF TakePost
<1>2. \A j \in 0..(NumBufs - 1) : Pos(a, j) = Pos(i, j + 1) /\ Pos(i, j + 1) \in Bufs
  <2> TAKE j \in 0..(NumBufs - 1)
  <2>1. j \in 0..NumBufs /\ j + 1 \in 0..NumBufs /\ j < NumBufs
    BY <1>1
  <2> QED BY <1>0, <1>1, <2>1, PosIs
<1>3. Pos(i, 0) = i /\ Pos(i, 1) = a /\ Pos(a, 0) = a /\ a \in Bufs
  <2>1. 0 \in 0..NumBufs /\ 1 \in 0..NumBufs
    BY <1>1
  <2>2. Pos(i, 0) = i /\ Pos(i, 1) = a /\ a \in Bufs
    BY <1>0, <1>1, <2>1, PosIs
  <2> QED BY <2>1, <2>2, PosIs
<1>4. rx'.index = a /\ rx'.start = s /\ eth' = eth /\ rx_desc' = rx_desc /\ spoilt' = spoilt
  BY <1>0 DEF TakePost
<1>5. rx_desc[i].frame = rx_desc[s].frame
  <2>1. n - 1 \in 0..(n - 1) /\ Pos(s, n - 1) = i
    BY <1>0, <1>1 DEF TakePost
  <2> QED BY <2>1 DEF Linked
<1>6. Fresh' <=> Fresh
  BY <1>4 DEF Fresh
<1>7. (\A j \in 0..((u - 1) - 2) : Joined(Pos(rx.index, j), Pos(rx.index, j + 1)))'
  <2>1. ASSUME NEW j \in 0..((u - 1) - 2) PROVE Joined(Pos(a, j), Pos(a, j + 1))
    <3>1. j \in 0..(NumBufs - 1) /\ j + 1 \in 0..(NumBufs - 1) /\ j + 1 \in 0..(u - 2)
      BY <1>1
    <3>2. Joined(Pos(i, j + 1), Pos(i, (j + 1) + 1))
      BY <1>0, <3>1 DEF OrderOK
    <3>3. Pos(a, j) = Pos(i, j + 1) /\ Pos(a, j + 1) = Pos(i, (j + 1) + 1)
      BY <1>2, <3>1
    <3> QED BY <3>2, <3>3
  <2>2. ASSUME NEW j \in 0..((u - 1) - 2) PROVE Joined(Pos(rx.index, j), Pos(rx.index, j + 1))'
    BY <1>0, <1>4, <2>1, <2>2 DEF Joined, Pos
  <2> QED BY <2>2
<1>8. ASSUME u - 1 > 0
      PROVE  Joined(i, a) /\ Pos(a, (u - 1) - 1) = Pos(i, u - 1)
  <2>1. 0 \in 0..(u - 2) /\ (u - 1) - 1 \in 0..(NumBufs - 1) /\ ((u - 1) - 1) + 1 = u - 1
        /\ 0 + 1 = 1
    BY <1>1, <1>8
  <2>2. Joined(Pos(i, 0), Pos(i, 0 + 1))
    BY <1>0, <2>1 DEF OrderOK
  <2> QED BY <1>2, <1>3, <2>1, <2>2
<1>9. (u - 1 > 0 => /\ rx_desc[Pos(rx.index, (u - 1) - 1)].end => Fresh
                    /\ ~rx_desc[Pos(rx.index, (u - 1) - 1)].end /\ Fresh => "part" \in spoilt
                    /\ ~Fresh => Head(eth.part) = rx_desc[Pos(rx.index, (u - 1) - 1)].frame)'
  <2>1. u - 1 > 0 => (Pos(rx.index, (u - 1) - 1))' = Pos(i, u - 1)
    BY <1>0, <1>4, <1>8 DEF Pos
  <2>2. u > 0
    OBVIOUS
  <2> HIDE DEF Fresh
  <2> QED BY <1>0, <1>4, <1>6, <2>1, <2>2 DEF OrderOK
<1>10. (m > 0 /\ u - 1 > 0 => /\ rx_desc[rx.index].start => "part" \in spoilt
                              /\ ~rx_desc[rx.index].start
                                    => rx_desc[rx.index].frame = rx_desc[rx.start].frame)'
  BY <1>0, <1>m, <1>1, <1>4, <1>5, <1>8 DEF Joined
<1>11. (m > 0 /\ u - 1 = 0 => /\ Fresh => "part" \in spoilt
                              /\ ~Fresh => Head(eth.part) = rx_desc[rx.start].frame)'
  <2>1. u - 1 = 0 => Pos(i, u - 1) = i
    BY <1>3
  <2> HIDE DEF Fresh
  <2> QED BY <1>0, <1>m, <1>1, <1>4, <1>5, <1>6, <2>1 DEF OrderOK
<1>12. (m = 0 /\ u - 1 > 0 => rx_desc[rx.index].start)'
  BY <1>0, <1>m, <1>1, <1>4, <1>8 DEF Joined
<1>13. (m = 0 /\ u - 1 = 0 => Fresh)'
  <2>1. u - 1 = 0 => Pos(i, u - 1) = i
    BY <1>3
  <2> HIDE DEF Fresh
  <2> QED BY <1>0, <1>m, <1>1, <1>4, <1>6, <2>1 DEF OrderOK
<1>14. OrderOK(u - 1, m)'
  <2> QED BY <1>0, <1>7, <1>9, <1>10, <1>11, <1>12, <1>13 DEF OrderOK
<1> QED BY <1>0, <1>m, <1>1, <1>14

LEMMA TakeHeads ==
  ASSUME NEW s, NEW n, TakePost(s, n)
  PROVE  /\ Heads' = IF rx_desc[rx.index].end THEN Heads \cup {s} ELSE Heads
         /\ Boxed' = Boxed /\ Held' = Held /\ Handed = {}
         /\ Handed' = IF rx_desc[rx.index].end THEN {s} ELSE {}
<1>1. Boxed' = Boxed /\ Held' = Held
  BY DEF TakePost, Boxed, Contents, Held, Place
<1>2. Handed = {} /\ Handed' = IF rx_desc[rx.index].end THEN {s} ELSE {}
  BY DEF TakePost, Handed
<1> QED BY <1>1, <1>2 DEF Heads

(* The frame goes on: the buffers are still being linked.                  *)
LEMMA TakeOn ==
  ASSUME RxType, NEW k \in 0..NumBufs, NEW size \in Sizes, ChainsOK(size), OwnedOK(k, size),
         NEW s, NEW n, TakePost(s, n), Linked(s, n, size), ~rx_desc[rx.index].end,
         k > 0 => "part" \in spoilt \/ (s = rx.start /\ n = k + 1)
  PROVE  ChainsOK(size)' /\ LinkingOK(n, size)' /\ OwnedOK(n, size)'
<1>1. Heads' = Heads
  BY TakeHeads
<1>2. PICK i : i = rx.index
  OBVIOUS
<1>3. /\ i \in Bufs /\ NumBufs \in Nat /\ n \in 1..NumBufs /\ s \in Bufs
      /\ rx'.start = s /\ rx'.index = After(i) /\ rx_desc' = rx_desc /\ spoilt' = spoilt
      /\ \A b \in Bufs : b # i => bufs'[b] = bufs[b]
      /\ ~bufs[i].active /\ Pos(s, n - 1) = i
      /\ bufs'[i].active /\ bufs'[i].next = After(i) /\ Pos(s, n) = After(i)
      /\ pc'["emac"] # "hand"
  BY <1>2, RxFacts DEF TakePost
<1>4. ChainsOK(size)'
  <2>1. ASSUME NEW h \in Heads', NEW j \in 0..(size[h] - 1) PROVE Kept(Pos(h, j))
    <3>1. ChainOK(h, size[h]) /\ h \in Bufs
      BY <1>1, <2>1 DEF ChainsOK
    <3>2. bufs[Pos(h, j)].active /\ j \in 0..NumBufs
      BY <1>3, <3>1 DEF ChainOK
    <3>3. Pos(h, j) \in Bufs /\ Pos(h, j) # i
      BY <1>3, <3>1, <3>2, PosIn
    <3>4. bufs'[Pos(h, j)] = bufs[Pos(h, j)]
      BY <1>3, <3>3
    <3> QED BY <3>4 DEF Kept
  <2> QED BY <1>1, <1>3, <2>1, ChainsKeep
<1>5. LinkingOK(n, size)'
  <2>1. (n > 0 => pc["emac"] # "hand" /\ rx.start # NoBuf /\ Pos(rx.start, n) = rx.index)'
    BY <1>3 DEF Pos, NoBuf, Bufs
  <2>2. ASSUME NEW j \in 0..(n - 1)
        PROVE  (/\ bufs[Pos(rx.start, j)].active
                /\ ~rx_desc[Pos(rx.start, j)].end
                /\ rx_desc[Pos(rx.start, j)].frame = rx_desc[rx.start].frame
                /\ Link(Pos(rx.start, j), Pos(rx.start, j + 1)))'
    <3>1. (Pos(rx.start, j))' = Pos(s, j) /\ (Pos(rx.start, j + 1))' = Pos(s, j + 1)
      BY <1>3 DEF Pos
    <3>2. CASE j = n - 1
      <4>1. Pos(s, j) = i /\ Pos(s, j + 1) = After(i)
        BY <1>3, <3>2
      <4>2. rx_desc[i].frame = rx_desc[s].frame /\ ~rx_desc[i].end
        BY <1>2, <4>1 DEF Linked
      <4> QED BY <1>3, <3>1, <4>1, <4>2 DEF Link
    <3>3. CASE j # n - 1
      <4>1. j \in 0..(n - 2)
        BY <1>3, <3>3
      <4>2. /\ Pos(s, j) \in Bufs /\ Pos(s, j) # i /\ bufs[Pos(s, j)].active
            /\ ~rx_desc[Pos(s, j)].end /\ Link(Pos(s, j), Pos(s, j + 1))
            /\ rx_desc[Pos(s, j)].frame = rx_desc[s].frame
        BY <1>2, <4>1 DEF Linked
      <4>3. bufs'[Pos(s, j)] = bufs[Pos(s, j)]
        BY <1>3, <4>2
      <4> QED BY <1>3, <3>1, <4>2, <4>3 DEF Link
    <3> QED BY <3>2, <3>3
  <2>3. (\A h \in Heads : Apart(h, size[h], rx.start, n))'
    BY <1>1, <1>3 DEF Linked, Apart, Pos
  <2> QED BY <2>1, <2>2, <2>3 DEF LinkingOK
<1>6. OwnedOK(n, size)'
  <2>1. SUFFICES ASSUME spoilt \cap {"refused", "part", "cut"} = {},
                        NEW b \in Bufs, bufs'[b].active
                 PROVE  \/ \E h \in Heads : \E j \in 0..(size[h] - 1) : b = Pos(h, j)
                        \/ \E j \in 0..(n - 1) : b = Pos(s, j)
    BY <1>1, <1>3 DEF OwnedOK, Pos
  <2>2. CASE b = i
    <3>1. n - 1 \in 0..(n - 1) /\ b = Pos(s, n - 1)
      BY <1>3, <2>2
    <3> QED BY <3>1
  <2>3. CASE b # i
    <3>1. bufs[b].active
      BY <1>3, <2>1, <2>3
    <3>2. \/ \E h \in Heads : \E j \in 0..(size[h] - 1) : b = Pos(h, j)
          \/ \E j \in 0..(k - 1) : b = Pos(rx.start, j)
      BY <2>1, <3>1 DEF OwnedOK
    <3>3. \A j \in 0..(k - 1) : j \in 0..(n - 1) /\ s = rx.start
      BY <1>3, <2>1
    <3> QED BY <3>2, <3>3
  <2> QED BY <2>2, <2>3
<1> QED BY <1>4, <1>5, <1>6

(* The frame ends: its chain is handed over.                               *)
LEMMA TakeEnd ==
  ASSUME RxType, NEW k \in 0..NumBufs, NEW size \in Sizes, ChainsOK(size), OwnedOK(k, size),
         NEW s, NEW n, TakePost(s, n), Linked(s, n, size), rx_desc[rx.index].end,
         k > 0 => "part" \in spoilt \/ (s = rx.start /\ n = k + 1)
  PROVE  /\ s \notin Heads
         /\ \E z \in Sizes : ChainsOK(z)' /\ LinkingOK(0, z)' /\ OwnedOK(0, z)'
<1>1. Heads' = Heads \cup {s}
  BY TakeHeads
<1>2. PICK i : i = rx.index
  OBVIOUS
<1>3. /\ i \in Bufs /\ NumBufs \in Nat /\ n \in 1..NumBufs /\ s \in Bufs
      /\ rx'.start = s /\ rx'.index = After(i) /\ rx_desc' = rx_desc /\ spoilt' = spoilt
      /\ \A b \in Bufs : b # i => bufs'[b] = bufs[b]
      /\ ~bufs[i].active /\ Pos(s, n - 1) = i
      /\ bufs'[i].active /\ bufs'[i].next = NoBuf
  BY <1>2, RxFacts DEF TakePost
<1>4. s \notin Heads
  <2>1. SUFFICES ASSUME s \in Heads PROVE FALSE
    OBVIOUS
  <2>2. Apart(s, size[s], s, n) /\ size[s] \in 1..NumBufs
    BY <2>1 DEF Linked, ChainsOK, ChainOK
  <2>3. 0 \in 0..(size[s] - 1) /\ 0 \in 0..(n - 1)
    BY <1>3, <2>2
  <2> QED BY <2>2, <2>3 DEF Apart
<1> DEFINE z == [size EXCEPT ![s] = n]
<1>5. /\ z \in Sizes /\ z[s] = n /\ \A h \in Heads : h \in Bufs /\ z[h] = size[h]
      /\ \A h \in Heads' : h \in Heads \/ h = s
  BY <1>1, <1>3, <1>4 DEF Sizes, ChainsOK
<1> HIDE DEF z
<1>6. \A h \in Heads : \A j \in 0..(size[h] - 1) : Pos(h, j) \in Bufs /\ Pos(h, j) # i
  <2> TAKE h \in Heads
  <2> TAKE j \in 0..(size[h] - 1)
  <2>1. ChainOK(h, size[h]) /\ h \in Bufs
    BY DEF ChainsOK
  <2>2. bufs[Pos(h, j)].active /\ j \in 0..NumBufs
    BY <1>3, <2>1 DEF ChainOK
  <2> QED BY <1>3, <2>1, <2>2, PosIn
<1>7. ChainOK(s, n)'
  <2>1. \A j \in 0..(n - 2) : /\ Pos(s, j) # i /\ bufs'[Pos(s, j)] = bufs[Pos(s, j)]
                              /\ bufs[Pos(s, j)].active /\ Link(Pos(s, j), Pos(s, j + 1))
    BY <1>2, <1>3 DEF Linked
  <2>2. \A j \in 0..(n - 1) : bufs'[Pos(s, j)].active
    <3> TAKE j \in 0..(n - 1)
    <3>1. j = n - 1 \/ j \in 0..(n - 2)
      BY <1>3
    <3> QED BY <1>3, <2>1, <3>1
  <2>3. \A j \in 0..(n - 2) : Link(Pos(s, j), Pos(s, j + 1))'
    BY <1>3, <2>1 DEF Link, Pos
  <2> QED BY <1>3, <2>2, <2>3 DEF ChainOK, Pos
<1>8. ChainsOK(z)'
  <2>1. (Heads \subseteq Bufs)'
    BY <1>1, <1>3 DEF ChainsOK, Bufs
  <2>2. ASSUME NEW h \in Heads' PROVE ChainOK(h, z[h])'
    <3>1. CASE h = s
      BY <1>5, <1>7, <3>1
    <3>2. CASE h \in Heads
      <4>1. ChainOK(h, size[h]) /\ h \in Bufs
        BY <3>2 DEF ChainsOK
      <4>2. \A j \in 0..(size[h] - 1) : Kept(Pos(h, j))
        <5> TAKE j \in 0..(size[h] - 1)
        <5>1. bufs'[Pos(h, j)] = bufs[Pos(h, j)]
          BY <1>3, <1>6, <3>2
        <5> QED BY <5>1 DEF Kept
      <4>3. ChainOK(h, size[h])'
        BY <1>3, <4>1, <4>2, ChainKeeps
      <4> QED BY <1>5, <3>2, <4>3
    <3> QED BY <1>5, <2>2, <3>1, <3>2
  <2>3. ASSUME NEW g \in Heads', NEW h \in Heads', g # h
        PROVE  Apart(g, z[g], h, z[h])'
    <3>1. CASE g = s /\ h = s
      BY <2>3, <3>1
    <3>2. CASE g \in Heads /\ h \in Heads
      <4>1. Apart(g, size[g], h, size[h]) /\ z[g] = size[g] /\ z[h] = size[h]
        BY <1>5, <2>3, <3>2 DEF ChainsOK
      <4> QED BY <4>1 DEF Apart, Pos
    <3>3. CASE g \in Heads /\ h = s
      <4>1. Apart(g, size[g], s, n) /\ z[g] = size[g] /\ z[h] = n
        BY <1>5, <3>3 DEF Linked
      <4> QED BY <3>3, <4>1 DEF Apart, Pos
    <3>4. CASE g = s /\ h \in Heads
      <4>1. Apart(h, size[h], s, n) /\ z[h] = size[h] /\ z[g] = n
        BY <1>5, <3>4 DEF Linked
      <4> QED BY <3>4, <4>1 DEF Apart, Pos
    <3> QED BY <1>5, <2>3, <3>1, <3>2, <3>3, <3>4
  <2> QED BY <2>1, <2>2, <2>3 DEF ChainsOK
<1>9. LinkingOK(0, z)'
  BY DEF LinkingOK, Apart
<1>10. OwnedOK(0, z)'
  <2>1. SUFFICES ASSUME spoilt \cap {"refused", "part", "cut"} = {},
                        NEW b \in Bufs, bufs'[b].active
                 PROVE  \E h \in Heads' : \E j \in 0..(z[h] - 1) : b = Pos(h, j)
    BY <1>3 DEF OwnedOK, Pos
  <2>2. s \in Heads' /\ \A j \in 0..(n - 1) : j \in 0..(z[s] - 1)
    BY <1>1, <1>5
  <2>3. CASE b = i
    <3>1. n - 1 \in 0..(n - 1) /\ b = Pos(s, n - 1)
      BY <1>3, <2>3
    <3> QED BY <2>2, <3>1
  <2>4. CASE b # i
    <3>1. bufs[b].active
      BY <1>3, <2>1, <2>4
    <3>2. \/ \E h \in Heads : \E j \in 0..(size[h] - 1) : b = Pos(h, j)
          \/ \E j \in 0..(k - 1) : b = Pos(rx.start, j)
      BY <2>1, <3>1 DEF OwnedOK
    <3>3. CASE \E h \in Heads : \E j \in 0..(size[h] - 1) : b = Pos(h, j)
      BY <1>1, <1>5, <3>3
    <3>4. CASE \E j \in 0..(k - 1) : b = Pos(rx.start, j)
      <4>1. \A j \in 0..(k - 1) : j \in 0..(n - 1) /\ s = rx.start
        BY <1>3, <2>1
      <4> QED BY <2>2, <3>4, <4>1
    <3> QED BY <3>2, <3>3, <3>4
  <2> QED BY <2>3, <2>4
<1> QED BY <1>4, <1>5, <1>8, <1>9, <1>10

-----------------------------------------------------------------------------
(* The device fills a buffer.                                              *)
LEMMA FrameFacts ==
  ASSUME NEW f \in Frames
  PROVE  /\ f.n \in Nat /\ f.n > 0 /\ f.src \in Nat
         /\ \E g \in Kinds : f.n = g.n
<1>1. PICK g \in Kinds, j \in 1..Most : f = [g EXCEPT !.no = j]
  BY DEF Frames
<1>2. g.n \in Nat \ {0} /\ g.src \in Nat
  BY NetAssumption
<1>3. f.n = g.n /\ f.src = g.src
  BY <1>1, NetAssumption
<1> QED BY <1>2, <1>3

(* The rest of a frame, without the buffer that is filled now.             *)
LEMMA PartFacts ==
  ASSUME PartOK, eth.part # <<>>
  PROVE  /\ Head(eth.part) \in Frames /\ Len(eth.part) \in Nat
         /\ LET f == Head(eth.part)
                rest == Tail(eth.part)
            IN  /\ Fresh <=> Len(eth.part) = f.n
                /\ Len(eth.part) = 1 => rest = <<>>
                /\ Len(eth.part) # 1 => rest # <<>> /\ Head(rest) = f /\ Len(rest) # f.n
                /\ rest = <<>> \/ \E m \in 1..f.n : rest = [i \in 1..m |-> f]
<1>0. PICK f \in Frames : \E m \in 1..f.n : eth.part = [i \in 1..m |-> f]
  BY DEF PartOK
<1>1. PICK m \in 1..f.n : eth.part = [i \in 1..m |-> f]
  BY <1>0
<1>2. f.n \in Nat /\ m \in Nat /\ m > 0
  BY <1>1, FrameFacts
<1>3. eth.part \in Seq(Frames) /\ Len(eth.part) = m /\ eth.part[1] = f
  BY <1>1, <1>2
<1>4. Head(eth.part) = f
  BY <1>3
<1>5. Tail(eth.part) = [i \in 1..(m - 1) |-> f]
  <2>1. /\ Tail(eth.part) \in Seq(Frames) /\ Len(Tail(eth.part)) = m - 1
        /\ \A i \in 1..(m - 1) : Tail(eth.part)[i] = eth.part[i + 1]
    BY <1>2, <1>3, HeadTailProperties
  <2>2. \A i \in 1..(m - 1) : Tail(eth.part)[i] = f
    BY <1>1, <1>2, <2>1
  <2>3. Tail(eth.part) = [i \in 1..(m - 1) |-> Tail(eth.part)[i]]
    BY <2>1, LenProperties
  <2> DEFINE e == Tail(eth.part)
  <2> HIDE DEF e
  <2>4. e = [i \in 1..(m - 1) |-> e[i]] /\ \A i \in 1..(m - 1) : e[i] = f
    BY <2>2, <2>3 DEF e
  <2>5. e = [i \in 1..(m - 1) |-> f]
    BY <2>4
  <2> QED BY <2>5 DEF e
<1>6. m = 1 => Tail(eth.part) = <<>>
  <2> SUFFICES ASSUME m = 1 PROVE Tail(eth.part) = <<>>
    OBVIOUS
  <2>1. Tail(eth.part) \in Seq(Frames) /\ Len(Tail(eth.part)) = 0
    BY <1>2, <1>3, HeadTailProperties
  <2> QED BY <2>1, EmptySeq
<1>7. m # 1 => /\ m - 1 \in 1..f.n /\ m - 1 # f.n
               /\ Tail(eth.part) # <<>> /\ Head(Tail(eth.part)) = f /\ Len(Tail(eth.part)) = m - 1
  <2> HAVE m # 1
  <2>1. m - 1 \in 1..f.n /\ m - 1 # f.n
    BY <1>2
  <2>2. Tail(eth.part) \in Seq(Frames) /\ Len(Tail(eth.part)) = m - 1
    BY <1>2, <1>3, HeadTailProperties
  <2>3. Tail(eth.part)[1] = f /\ m - 1 # 0
    BY <1>2, <1>5, <2>1
  <2> DEFINE e == Tail(eth.part)
  <2>4. e \in Seq(Frames) /\ Len(e) # 0 /\ e[1] = f
    BY <2>2, <2>3
  <2> HIDE DEF e
  <2>5. e # <<>> /\ Head(e) = f
    BY <2>4
  <2> QED BY <2>1, <2>2, <2>5 DEF e
<1>8. Fresh <=> Len(eth.part) = f.n
  BY <1>4 DEF Fresh
<1>9. Tail(eth.part) = <<>> \/ \E j \in 1..f.n : Tail(eth.part) = [i \in 1..j |-> f]
  BY <1>5, <1>6, <1>7
<1>10. Len(eth.part) # 1 => /\ Tail(eth.part) # <<>> /\ Head(Tail(eth.part)) = f
                            /\ Len(Tail(eth.part)) # f.n
  BY <1>3, <1>7
<1>11. Len(eth.part) = 1 => Tail(eth.part) = <<>>
  BY <1>3, <1>6
<1> DEFINE h == Head(eth.part)
           r == Tail(eth.part)
<1>12. /\ h = f /\ (r = <<>> \/ \E j \in 1..f.n : r = [i \in 1..j |-> f])
       /\ Len(eth.part) # 1 => r # <<>> /\ Head(r) = f /\ Len(r) # f.n
       /\ Len(eth.part) = 1 => r = <<>>
  BY <1>4, <1>9, <1>10, <1>11
<1> HIDE DEF h, r
<1>13. /\ h \in Frames /\ Len(eth.part) \in Nat /\ (Fresh <=> Len(eth.part) = h.n)
       /\ Len(eth.part) = 1 => r = <<>>
       /\ Len(eth.part) # 1 => r # <<>> /\ Head(r) = h /\ Len(r) # h.n
       /\ r = <<>> \/ \E j \in 1..h.n : r = [i \in 1..j |-> h]
  BY <1>2, <1>3, <1>8, <1>12
<1> QED BY <1>13 DEF h, r

FillPost(i) ==
  /\ i = eth.fill /\ ~rx_desc[i].used /\ rx_desc'[i].used
  /\ rx_desc'[i].start <=> Fresh
  /\ rx_desc'[i].frame = Head(eth.part)
  /\ rx_desc'[i].end => Fresh'
  /\ ~rx_desc'[i].end => ~Fresh' /\ Head(eth'.part) = Head(eth.part)
  /\ \A b \in Bufs : b # i => rx_desc'[b] = rx_desc[b]
  /\ eth'.fill = After(i)
  /\ bufs' = bufs /\ rx' = rx /\ net' = net /\ pc' = pc /\ box' = box /\ spoilt' = spoilt

LEMMA FillSteps ==
  ASSUME RxType, EthType, PartOK, Fills, ~rx_desc[eth.fill].used,
         UNCHANGED <<schedVars, pc, boxVars, netVars>>
  PROVE  /\ FillPost(eth.fill) /\ PartOK' /\ Head(eth.part) \in Frames /\ eth.part # <<>>
         /\ rx_desc'[eth.fill].end <=> Len(eth.part) = 1
         /\ rx_desc' \in [Bufs -> Descs] /\ eth'.part \in Seq(Frames)
<1> DEFINE i == eth.fill
           f == Head(eth.part)
           d == [used |-> TRUE, start |-> Len(eth.part) = f.n, end |-> Len(eth.part) = 1,
                 frame |-> f]
<1>1. /\ eth.part # <<>> /\ rx_desc' = [rx_desc EXCEPT ![i] = d]
      /\ eth'.fill = After(i) /\ eth'.part = Tail(eth.part)
      /\ bufs' = bufs /\ rx' = rx /\ spoilt' = spoilt
      /\ net' = net /\ pc' = pc /\ box' = box
  <2>1. eth' = [eth EXCEPT !.fill = After(i), !.part = Tail(@),
                           !.rsr = IF Len(eth.part) = 1 THEN @ \cup {"frame"} ELSE @,
                           !.irq = @ \/ Len(eth.part) = 1]
    BY DEF Fills
  <2>2. eth'.fill = After(i) /\ eth'.part = Tail(eth.part)
    BY <2>1 DEF EthType
  <2> QED BY <2>2 DEF Fills, schedVars, boxVars, netVars
<1>2. i \in Bufs /\ DOMAIN rx_desc = Bufs
  BY RxFacts DEF EthType
<1>3. /\ f \in Frames /\ (Fresh <=> Len(eth.part) = f.n)
      /\ Len(eth.part) = 1 => Tail(eth.part) = <<>>
      /\ Len(eth.part) # 1 => /\ Tail(eth.part) # <<>> /\ Head(Tail(eth.part)) = f
                              /\ Len(Tail(eth.part)) # f.n
      /\ Tail(eth.part) = <<>> \/ \E m \in 1..f.n : Tail(eth.part) = [j \in 1..m |-> f]
  BY <1>1, PartFacts
<1>4. /\ d.used /\ (d.start <=> Len(eth.part) = f.n) /\ (d.end <=> Len(eth.part) = 1)
      /\ d.frame = f /\ d \in Descs
  BY <1>3 DEF Descs
<1>5. rx_desc'[i] = d /\ \A b \in Bufs : b # i => rx_desc'[b] = rx_desc[b]
  <2> HIDE DEF d
  <2> QED BY <1>1, <1>2
<1>6. Len(eth.part) = 1 => Fresh'
  BY <1>1, <1>3 DEF Fresh
<1>7. Len(eth.part) # 1 => ~Fresh' /\ Head(eth'.part) = f
  BY <1>1, <1>3 DEF Fresh
<1>8. PartOK'
  <2>1. Frames' = Frames
    BY DEF Frames
  <2>2. eth'.part = <<>> \/ \E g \in Frames : \E m \in 1..g.n : eth'.part = [j \in 1..m |-> g]
    <3> HIDE DEF f
    <3> QED BY <1>1, <1>3
  <2> QED BY <2>1, <2>2 DEF PartOK
<1>9. rx_desc' \in [Bufs -> Descs]
  <2> HIDE DEF d
  <2> QED BY <1>1, <1>4 DEF RxType
<1>10. eth'.part \in Seq(Frames)
  BY <1>1, <1>3, HeadTailProperties DEF EthType
<1>11. FillPost(i)
  <2> HIDE DEF d
  <2> QED BY <1>1, <1>3, <1>4, <1>5, <1>6, <1>7 DEF FillPost
<1> HIDE DEF d
<1> QED BY <1>1, <1>3, <1>4, <1>5, <1>8, <1>9, <1>10, <1>11

LEMMA FillRing ==
  ASSUME RxType, NEW u \in 0..NumBufs, RingOK(u), NEW i, FillPost(i)
  PROVE  u < NumBufs /\ i = Pos(rx.index, u) /\ i \in Bufs /\ RingOK(u + 1)'
<1>1. PICK x : x = rx.index /\ x \in Bufs /\ NumBufs \in Nat /\ NumBufs > 0
  BY RxFacts
<1>2. i = Pos(x, u) /\ i \in Bufs /\ rx'.index = x
  BY <1>1, PosIn DEF RingOK, FillPost
<1>3. u < NumBufs
  <2>1. SUFFICES ASSUME u = NumBufs PROVE FALSE
    BY <1>1
  <2>2. Pos(x, NumBufs) = x /\ Pos(x, 0) = x /\ 0 \in 0..(u - 1)
    <3>1. 0 \in 0..NumBufs /\ 0 \in 0..(u - 1)
      BY <1>1, <2>1
    <3> QED BY <1>1, <3>1, PosIs
  <2>3. Untaken(Pos(x, 0))
    BY <1>1, <2>2 DEF RingOK
  <2> QED BY <1>2, <2>1, <2>2, <2>3 DEF FillPost, Untaken
<1>4. Untaken(i)'
  BY <1>2 DEF RingOK, FillPost, Untaken, Freed
<1>5. \A b \in Bufs : b # i => (Untaken(b)' <=> Untaken(b))
  BY DEF Untaken, FillPost
<1>6. \A j \in 0..(NumBufs - 1) : Pos(x, j) \in Bufs /\ (j # u => Pos(x, j) # i)
  <2> TAKE j \in 0..(NumBufs - 1)
  <2>1. j \in 0..NumBufs /\ j # NumBufs
    BY <1>1
  <2>2. Pos(x, j) = Pos(x, u) => j = u \/ {j, u} = {0, NumBufs}
    BY <1>1, <2>1, PosIs
  <2>3. Pos(x, j) \in Bufs
    BY <1>1, <2>1, PosIn
  <2> QED BY <1>2, <1>3, <2>1, <2>2, <2>3
<1>7. (eth.fill = Pos(rx.index, u + 1))'
  <2>1. After(i) = Pos(x, u + 1)
    BY <1>1, <1>2, <1>3, PosIs
  <2> QED BY <1>2, <2>1 DEF FillPost, Pos
<1>8. (\A j \in 0..((u + 1) - 1) : Untaken(Pos(rx.index, j)))'
  <2>1. ASSUME NEW j \in 0..((u + 1) - 1) PROVE Untaken(Pos(x, j))'
    <3>1. CASE j = u
      BY <1>2, <1>4, <3>1 DEF Pos
    <3>2. CASE j # u
      <4>1. j \in 0..(u - 1) /\ j \in 0..(NumBufs - 1)
        BY <1>1, <3>2
      <4>2. Untaken(Pos(x, j)) /\ Pos(x, j) # i /\ Pos(x, j) \in Bufs
        BY <1>1, <1>6, <3>2, <4>1 DEF RingOK
      <4> QED BY <1>5, <4>2 DEF Pos
    <3> QED BY <3>1, <3>2
  <2> QED BY <1>2, <2>1 DEF Pos
<1>9. (\A j \in (u + 1)..(NumBufs - 1) : ~Untaken(Pos(rx.index, j)))'
  <2>1. ASSUME NEW j \in (u + 1)..(NumBufs - 1) PROVE ~Untaken(Pos(x, j))'
    <3>1. j \in u..(NumBufs - 1) /\ j \in 0..(NumBufs - 1) /\ j # u
      BY <1>1
    <3>2. ~Untaken(Pos(x, j)) /\ Pos(x, j) # i /\ Pos(x, j) \in Bufs
      BY <1>1, <1>6, <3>1 DEF RingOK
    <3> QED BY <1>5, <3>2 DEF Pos
  <2> QED BY <1>2, <2>1 DEF Pos
<1>10. \A b \in Bufs : bufs'[b].active /\ ~Freed(b)' => rx_desc'[b].used
  BY DEF FillPost, RingOK, Freed
<1>11. \A b \in Bufs : bufs'[b].next \in {NoBuf, After(b)}
  BY DEF FillPost, RingOK
<1>12. RingOK(u + 1)'
  BY <1>7, <1>8, <1>9, <1>10, <1>11 DEF RingOK
<1> QED BY <1>1, <1>2, <1>3, <1>12

LEMMA FillOrder ==
  ASSUME RxType, NEW u \in 0..NumBufs, u < NumBufs, NEW k \in 0..NumBufs, OrderOK(u, k),
         NEW i \in Bufs, FillPost(i), i = Pos(rx.index, u),
         k > 0 => rx.start \in Bufs /\ rx_desc[rx.start].used
  PROVE  OrderOK(u + 1, k)'
<1>1. PICK x : x = rx.index /\ x \in Bufs /\ NumBufs \in Nat /\ NumBufs > 0
  BY RxFacts
<1>2. /\ rx' = rx /\ spoilt' = spoilt /\ ~rx_desc[i].used
      /\ \A b \in Bufs : b # i => rx_desc'[b] = rx_desc[b]
      /\ rx_desc'[i].start <=> Fresh
      /\ rx_desc'[i].frame = Head(eth.part)
      /\ rx_desc'[i].end => Fresh'
      /\ ~rx_desc'[i].end => ~Fresh' /\ Head(eth'.part) = Head(eth.part)
  BY DEF FillPost
<1>3. \A j \in 0..(NumBufs - 1) : Pos(x, j) \in Bufs /\ (j # u => Pos(x, j) # i)
  <2> TAKE j \in 0..(NumBufs - 1)
  <2>1. j \in 0..NumBufs /\ j # NumBufs
    BY <1>1
  <2>2. Pos(x, j) = Pos(x, u) => j = u \/ {j, u} = {0, NumBufs}
    BY <1>1, <2>1, PosIs
  <2>3. Pos(x, j) \in Bufs
    BY <1>1, <2>1, PosIn
  <2> QED BY <1>1, <2>1, <2>2, <2>3
<1>4. Pos(x, 0) = x /\ 0 \in 0..(NumBufs - 1)
  <2>1. 0 \in 0..NumBufs
    BY <1>1
  <2> QED BY <1>1, <2>1, PosIs
<1>5. (\A j \in 0..((u + 1) - 2) : Joined(Pos(rx.index, j), Pos(rx.index, j + 1)))'
  <2>1. ASSUME NEW j \in 0..((u + 1) - 2)
        PROVE  Joined(Pos(x, j), Pos(x, j + 1))'
    <3>1. j \in 0..(NumBufs - 1) /\ j # u /\ j + 1 \in 0..(NumBufs - 1)
      BY <1>1
    <3>2. PICK a, c : a = Pos(x, j) /\ c = Pos(x, j + 1) /\ a \in Bufs /\ c \in Bufs /\ a # i
      BY <1>3, <3>1
    <3>3. Joined(a, c)'
      <4>1. CASE j + 1 = u
        <5>1. c = i /\ j = u - 1 /\ u > 0
          BY <1>1, <3>2, <4>1
        <5>2. /\ rx_desc[a].end => Fresh
              /\ ~rx_desc[a].end /\ Fresh => "part" \in spoilt
              /\ ~Fresh => Head(eth.part) = rx_desc[a].frame
          BY <1>1, <3>2, <5>1 DEF OrderOK
        <5>3. rx_desc'[a] = rx_desc[a]
          BY <1>2, <3>2
        <5> HIDE DEF Fresh
        <5> QED BY <1>2, <5>1, <5>2, <5>3 DEF Joined
      <4>2. CASE j + 1 # u
        <5>1. j \in 0..(u - 2) /\ j + 1 # u
          BY <1>1, <4>2
        <5>2. Joined(a, c)
          BY <1>1, <3>2, <5>1 DEF OrderOK
        <5>3. c # i
          BY <1>3, <3>1, <3>2, <4>2
        <5> QED BY <1>2, <3>2, <5>2, <5>3 DEF Joined
      <4> QED BY <4>1, <4>2
    <3> QED BY <3>2, <3>3 DEF Joined, Pos
  <2> QED BY <1>1, <1>2, <2>1 DEF Joined, Pos
<1>6. (u + 1 > 0 => /\ rx_desc[Pos(rx.index, (u + 1) - 1)].end => Fresh
                    /\ ~rx_desc[Pos(rx.index, (u + 1) - 1)].end /\ Fresh => "part" \in spoilt
                    /\ ~Fresh => Head(eth.part) = rx_desc[Pos(rx.index, (u + 1) - 1)].frame)'
  <2>1. (Pos(rx.index, (u + 1) - 1))' = i
    BY <1>1, <1>2 DEF Pos
  <2> HIDE DEF Fresh
  <2> QED BY <1>2, <2>1
<1>7. k > 0 => rx.start # i /\ rx_desc'[rx.start] = rx_desc[rx.start]
  BY <1>2
<1>8. (k > 0 /\ u + 1 > 0 => /\ rx_desc[rx.index].start => "part" \in spoilt
                             /\ ~rx_desc[rx.index].start
                                   => rx_desc[rx.index].frame = rx_desc[rx.start].frame)'
  <2>1. CASE u = 0
    <3>1. x = i
      BY <1>1, <1>4, <2>1
    <3> HIDE DEF Fresh
    <3> QED BY <1>1, <1>2, <1>7, <2>1, <3>1 DEF OrderOK
  <2>2. CASE u # 0
    <3>1. x # i /\ u > 0
      BY <1>3, <1>4, <2>2
    <3> QED BY <1>1, <1>2, <1>7, <3>1 DEF OrderOK
  <2> QED BY <2>1, <2>2
<1>9. (k = 0 /\ u + 1 > 0 => rx_desc[rx.index].start)'
  <2>1. CASE u = 0
    <3>1. x = i
      BY <1>1, <1>4, <2>1
    <3> HIDE DEF Fresh
    <3> QED BY <1>1, <1>2, <2>1, <3>1 DEF OrderOK
  <2>2. CASE u # 0
    <3>1. x # i /\ u > 0
      BY <1>3, <1>4, <2>2
    <3> QED BY <1>1, <1>2, <3>1 DEF OrderOK
  <2> QED BY <2>1, <2>2
<1>10. u + 1 > 0
  BY <1>1
<1> QED BY <1>5, <1>6, <1>8, <1>9, <1>10 DEF OrderOK

LEMMA FillKeeps ==
  ASSUME RxType, HeldOK, NEW u \in 0..NumBufs, NEW k \in 0..NumBufs, NEW size \in Sizes,
         RxAt(u, k, size), NEW i, FillPost(i)
  PROVE  u + 1 \in 0..NumBufs /\ RxAt(u + 1, k, size)'
<1>1. RingOK(u) /\ OrderOK(u, k) /\ ChainsOK(size) /\ LinkingOK(k, size) /\ OwnedOK(k, size)
  BY DEF RxAt
<1>2. u < NumBufs /\ i = Pos(rx.index, u) /\ i \in Bufs /\ RingOK(u + 1)'
  BY <1>1, FillRing
<1>3. /\ k > 0 => rx.start \in Bufs
      /\ \A j \in 0..(k - 1) :
           /\ Pos(rx.start, j) \in Bufs /\ bufs[Pos(rx.start, j)].active
           /\ rx_desc[Pos(rx.start, j)].used /\ ~Freed(Pos(rx.start, j))
  BY LinkedUsed
<1>4. k > 0 => rx.start \in Bufs /\ rx_desc[rx.start].used
  <2> HAVE k > 0
  <2>1. 0 \in 0..(k - 1) /\ 0 \in 0..NumBufs
    BY EmacAssumption
  <2>2. Pos(rx.start, 0) = rx.start
    BY <1>3, <2>1, PosIs
  <2> QED BY <1>3, <2>1, <2>2
<1>5. OrderOK(u + 1, k)'
  BY <1>1, <1>2, <1>4, FillOrder
<1>6. /\ bufs' = bufs /\ rx' = rx /\ net' = net /\ pc' = pc /\ box' = box /\ spoilt' = spoilt
      /\ ~rx_desc[i].used /\ \A b \in Bufs : b # i => rx_desc'[b] = rx_desc[b]
  BY DEF FillPost
<1>7. Heads' = Heads
  BY <1>6 DEF Heads, Boxed, Contents, Place, Handed, Held
<1>8. \A b : Kept(b)
  BY <1>6 DEF Kept
<1>9. ChainsOK(size)'
  BY <1>1, <1>6, <1>7, <1>8, ChainsKeep
<1>10. LinkingOK(k, size)'
  BY <1>1, <1>3, <1>6, <1>7, <1>8, LinkingKeeps
<1>11. OwnedOK(k, size)'
  BY <1>1, <1>6, <1>7, OwnedKeeps
<1>12. u + 1 \in 0..NumBufs
  BY <1>2, EmacAssumption
<1> QED BY <1>2, <1>5, <1>9, <1>10, <1>11, <1>12 DEF RxAt

-----------------------------------------------------------------------------
(* dev_buf_free() puts a buffer out of use.                                *)
RetirePost(b) ==
  /\ pc["net"] = "retire" /\ pc'["net"] = "unchain" /\ pc'["emac"] = pc["emac"]
  /\ b \in Bufs /\ net.rest = b /\ net.buf = b
  /\ net'.buf = b /\ net'.rest = bufs[b].next
  /\ ~bufs'[b].active /\ bufs'[b].next = bufs[b].next
  /\ \A x \in Bufs : x # b => bufs'[x] = bufs[x]
  /\ rx_desc' = rx_desc /\ rx' = rx /\ eth' = eth /\ spoilt' = spoilt /\ box' = box

LEMMA RetireSteps ==
  ASSUME SchedType, RxType, NetType, HeldOK, Does("retire", "unchain"), Retire(net.rest),
         net' = [net EXCEPT !.buf = net.rest, !.rest = bufs[net.rest].next],
         UNCHANGED <<rx_desc, rx, txVars, eth, val, spoilt, pkt, handled>>
  PROVE  RetirePost(net.rest) /\ bufs' \in [Bufs -> NetBufs]
<1>1. /\ pc["net"] = "retire" /\ pc' = [pc EXCEPT !["net"] = "unchain"] /\ box' = box
  BY DEF Does, Step, boxVars
<1>2. pc'["net"] = "unchain" /\ pc'["emac"] = pc["emac"]
  BY <1>1, NetAssumption DEF SchedType
<1>3. net.rest # NoBuf /\ net.buf = net.rest /\ net.rest \in Bufs
  BY <1>1 DEF HeldOK, NetType, Reading
<1>4. net'.buf = net.rest /\ net'.rest = bufs[net.rest].next
  BY DEF NetType
<1>5. PICK b \in Bufs : b = net.rest
  BY <1>3
<1>6. bufs' = [bufs EXCEPT ![b].active = FALSE] /\ bufs \in [Bufs -> NetBufs]
  BY <1>5 DEF Retire, RxType
<1>7. /\ ~bufs'[b].active /\ bufs'[b].next = bufs[b].next
      /\ \A x \in Bufs : x # b => bufs'[x] = bufs[x]
      /\ bufs' \in [Bufs -> NetBufs]
  BY <1>6 DEF NetBufs
<1> QED BY <1>1, <1>2, <1>3, <1>4, <1>5, <1>7 DEF RetirePost

LEMMA RetireHeads ==
  ASSUME RxType, BoxedOK, NEW u \in 0..NumBufs, NEW k \in 0..NumBufs, NEW size \in Sizes,
         RxAt(u, k, size), NEW b, RetirePost(b), NEW c, c = bufs[b].next
  PROVE  /\ b \in Heads /\ Heads = Boxed \cup Handed \cup {b} /\ b \notin Boxed \cup Handed
         /\ Heads' = Boxed \cup Handed \cup ({c} \ {NoBuf})
         /\ Boxed' = Boxed /\ Handed' = Handed /\ Held' = {c} \ {NoBuf}
         /\ ChainOK(b, size[b]) /\ b \in Bufs
         /\ c # NoBuf => /\ c \in Bufs /\ size[b] > 1 /\ c \notin Boxed \cup Handed
                         /\ \A j \in 0..(size[b] - 2) :
                              Pos(c, j) = Pos(b, j + 1) /\ Pos(c, j) \in Bufs /\ Pos(c, j) # b
<1>1. b \in Bufs /\ b # NoBuf /\ NumBufs \in Nat /\ NumBufs > 0
  BY EmacAssumption DEF RetirePost, Bufs, NoBuf
<1>2. Held = {b} /\ Held' = {c} \ {NoBuf}
  BY <1>1 DEF RetirePost, Held, NoBuf
<1>3. Boxed' = Boxed /\ Handed' = Handed
  BY DEF RetirePost, Boxed, Contents, Place, Handed
<1>4. b \in Heads /\ Heads = Boxed \cup Handed \cup {b} /\ b \notin Boxed \cup Handed
  BY <1>2 DEF Heads, BoxedOK
<1>5. Heads' = Boxed \cup Handed \cup ({c} \ {NoBuf})
  BY <1>2, <1>3 DEF Heads
<1>6. ChainOK(b, size[b]) /\ size[b] \in 1..NumBufs
  BY <1>4 DEF RxAt, ChainsOK, ChainOK
<1>7. ASSUME c # NoBuf
      PROVE  /\ c \in Bufs /\ size[b] > 1 /\ c \notin Boxed \cup Handed
             /\ \A j \in 0..(size[b] - 2) :
                  Pos(c, j) = Pos(b, j + 1) /\ Pos(c, j) \in Bufs /\ Pos(c, j) # b
  <2>1. c = After(b)
    BY <1>1, <1>7 DEF RxAt, RingOK
  <2>2. Pos(b, 0) = b /\ Pos(b, 1) = After(b) /\ Pos(b, 1) \in Bufs
    <3>1. 0 \in 0..NumBufs /\ 1 \in 0..NumBufs
      BY <1>1
    <3> QED BY <1>1, <3>1, PosIs
  <2>3. size[b] > 1
    <3>1. SUFFICES ASSUME size[b] = 1 PROVE FALSE
      BY <1>6
    <3>2. bufs[Pos(b, 0)].next = NoBuf
      BY <1>6, <3>1 DEF ChainOK
    <3> QED BY <1>7, <2>2, <3>2
  <2>4. \A j \in 0..(size[b] - 2) :
          Pos(c, j) = Pos(b, j + 1) /\ Pos(c, j) \in Bufs /\ Pos(c, j) # b
    <3> TAKE j \in 0..(size[b] - 2)
    <3>1. j \in 0..NumBufs /\ j + 1 \in 0..NumBufs /\ j < NumBufs /\ j + 1 # 0 /\ j + 1 # NumBufs
          /\ 0 \in 0..NumBufs
      BY <1>1, <1>6
    <3>2. Pos(c, j) = Pos(b, j + 1) /\ Pos(b, j + 1) \in Bufs
      BY <1>1, <2>1, <3>1, PosIs
    <3>3. Pos(b, j + 1) = Pos(b, 0) => j + 1 = 0 \/ {j + 1, 0} = {0, NumBufs}
      BY <1>1, <3>1, PosIs
    <3> QED BY <2>2, <3>1, <3>2, <3>3
  <2>5. ASSUME NEW h \in Boxed \cup Handed PROVE c # h
    <3>1. h \in Heads /\ h # b
      BY <1>4
    <3>2. Apart(b, size[b], h, size[h]) /\ h \in Bufs /\ size[h] \in 1..NumBufs
      BY <1>4, <3>1 DEF RxAt, ChainsOK, ChainOK
    <3>3. 1 \in 0..(size[b] - 1) /\ 0 \in 0..(size[h] - 1) /\ 0 \in 0..NumBufs
      BY <1>1, <1>6, <2>3, <3>2
    <3>4. Pos(h, 0) = h
      BY <3>2, <3>3, PosIs
    <3> QED BY <2>1, <2>2, <3>2, <3>3, <3>4 DEF Apart
  <2> QED BY <2>1, <2>2, <2>3, <2>4, <2>5
<1> QED BY <1>1, <1>2, <1>3, <1>4, <1>5, <1>6, <1>7

LEMMA RetireChains ==
  ASSUME RxType, HeldOK, BoxedOK, NEW u \in 0..NumBufs, NEW k \in 0..NumBufs,
         NEW size \in Sizes, RxAt(u, k, size), NEW b, RetirePost(b)
  PROVE  \E z \in Sizes : ChainsOK(z)' /\ LinkingOK(k, z)' /\ OwnedOK(k, z)'
<1>1. PICK c : c = bufs[b].next
  OBVIOUS
<1> DEFINE H == Boxed \cup Handed
           z == [size EXCEPT ![c] = size[b] - 1]
<1>2. /\ b \in Heads /\ Heads = H \cup {b} /\ b \notin H /\ Heads' = H \cup ({c} \ {NoBuf})
      /\ ChainOK(b, size[b]) /\ b \in Bufs
      /\ c # NoBuf => /\ c \in Bufs /\ size[b] > 1 /\ c \notin H
                      /\ \A j \in 0..(size[b] - 2) :
                           Pos(c, j) = Pos(b, j + 1) /\ Pos(c, j) \in Bufs /\ Pos(c, j) # b
  BY <1>1, RetireHeads
<1>3. /\ NumBufs \in Nat /\ NumBufs > 0 /\ size[b] \in 1..NumBufs /\ size \in [Bufs -> 0..NumBufs]
      /\ H \subseteq Bufs
  BY <1>2, EmacAssumption DEF RxAt, ChainsOK, ChainOK, Sizes
<1>4. z \in Sizes /\ (\A h \in H : z[h] = size[h]) /\ (c # NoBuf => z[c] = size[b] - 1)
  <2>1. CASE c = NoBuf
    <3>1. c \notin Bufs
      BY <2>1 DEF NoBuf, Bufs
    <3> QED BY <1>3, <2>1, <3>1 DEF Sizes
  <2>2. CASE c # NoBuf
    <3>1. size[b] - 1 \in 0..NumBufs /\ c \in Bufs /\ c \notin H
      BY <1>2, <1>3, <2>2
    <3> QED BY <1>3, <2>2, <3>1 DEF Sizes
  <2> QED BY <2>1, <2>2
<1>5. /\ ~bufs'[b].active /\ \A x \in Bufs : x # b => bufs'[x] = bufs[x]
      /\ rx' = rx /\ spoilt' = spoilt /\ rx_desc' = rx_desc /\ pc'["emac"] = pc["emac"]
  BY DEF RetirePost
<1>6. Pos(b, 0) = b /\ 0 \in 0..(size[b] - 1)
  <2>1. 0 \in 0..NumBufs /\ 0 \in 0..(size[b] - 1)
    BY <1>3
  <2> QED BY <1>2, <2>1, PosIs
<1>7. \A h \in H : \A j \in 0..(size[h] - 1) : Pos(h, j) \in Bufs /\ Pos(h, j) # b
  <2> TAKE h \in H
  <2> TAKE j \in 0..(size[h] - 1)
  <2>1. h \in Heads /\ h # b
    BY <1>2
  <2>2. Apart(b, size[b], h, size[h])
    BY <1>2, <2>1 DEF RxAt, ChainsOK
  <2>3. Pos(h, j) \in Bufs
    BY <2>1, ChainsUsed
  <2> QED BY <1>6, <2>2, <2>3 DEF Apart
<1> HIDE DEF z
<1>8. ASSUME NEW h \in H PROVE ChainOK(h, z[h])'
  <2>1. ChainOK(h, size[h]) /\ h \in Bufs /\ z[h] = size[h]
    BY <1>2, <1>4 DEF RxAt, ChainsOK
  <2>2. \A j \in 0..(size[h] - 1) : Kept(Pos(h, j))
    <3> TAKE j \in 0..(size[h] - 1)
    <3>1. bufs'[Pos(h, j)] = bufs[Pos(h, j)]
      BY <1>5, <1>7
    <3> QED BY <3>1 DEF Kept
  <2>3. ChainOK(h, size[h])'
    BY <1>5, <2>1, <2>2, ChainKeeps
  <2> QED BY <1>4, <2>3
<1>9. ASSUME c # NoBuf PROVE ChainOK(c, z[c])'
  <2>1. /\ c \in Bufs /\ size[b] > 1 /\ z[c] = size[b] - 1
        /\ \A j \in 0..(size[b] - 2) :
             Pos(c, j) = Pos(b, j + 1) /\ Pos(c, j) \in Bufs /\ Pos(c, j) # b
    BY <1>2, <1>4, <1>9
  <2>2. \A j \in 0..(size[b] - 2) : bufs'[Pos(c, j)] = bufs[Pos(b, j + 1)]
    BY <1>5, <2>1
  <2>3. \A j \in 0..((size[b] - 1) - 1) : bufs'[Pos(c, j)].active
    BY <1>2, <1>3, <2>2 DEF ChainOK
  <2>4. ASSUME NEW j \in 0..((size[b] - 1) - 2) PROVE Link(Pos(c, j), Pos(c, j + 1))'
    <3>1. j \in 0..(size[b] - 2) /\ j + 1 \in 0..(size[b] - 2)
      BY <1>3
    <3>2. Link(Pos(b, j + 1), Pos(b, (j + 1) + 1))
      BY <1>2, <1>3, <3>1 DEF ChainOK
    <3>3. Pos(c, j + 1) = Pos(b, (j + 1) + 1) /\ bufs'[Pos(c, j)] = bufs[Pos(b, j + 1)]
      BY <2>1, <2>2, <3>1
    <3> QED BY <1>5, <3>2, <3>3 DEF Link, Pos
  <2>5. bufs'[Pos(c, (size[b] - 1) - 1)].next = NoBuf
    <3>1. size[b] - 2 \in 0..(size[b] - 2) /\ (size[b] - 1) - 1 = size[b] - 2
          /\ (size[b] - 2) + 1 = size[b] - 1
      BY <1>3, <2>1
    <3>2. bufs[Pos(b, size[b] - 1)].next = NoBuf
      BY <1>2 DEF ChainOK
    <3> QED BY <2>2, <3>1, <3>2
  <2>6. size[b] - 1 \in 1..NumBufs
    BY <1>3, <2>1
  <2> QED BY <2>1, <2>3, <2>4, <2>5, <2>6 DEF ChainOK, Pos
<1>10. ChainsOK(z)'
  <2>1. (Heads \subseteq Bufs)'
    BY <1>2, <1>3 DEF Bufs
  <2>2. \A h \in Heads' : h \in H \/ (h = c /\ c # NoBuf)
    BY <1>2
  <2>3. ASSUME NEW h \in Heads' PROVE ChainOK(h, z[h])'
    BY <1>8, <1>9, <2>2, <2>3
  <2>4. ASSUME NEW g \in Heads', NEW h \in Heads', g # h PROVE Apart(g, z[g], h, z[h])'
    <3>1. CASE g \in H /\ h \in H
      <4>1. Apart(g, size[g], h, size[h]) /\ z[g] = size[g] /\ z[h] = size[h]
        BY <1>2, <1>4, <2>4, <3>1 DEF RxAt, ChainsOK
      <4> QED BY <4>1 DEF Apart, Pos
    <3>2. ASSUME NEW x \in H, c # NoBuf
          PROVE  \A i \in 0..(z[x] - 1), j \in 0..(z[c] - 1) : Pos(x, i) # Pos(c, j)
      <4>1. Apart(x, size[x], b, size[b]) /\ z[x] = size[x] /\ z[c] = size[b] - 1
        BY <1>2, <1>4, <3>2 DEF RxAt, ChainsOK
      <4>2. \A j \in 0..(z[c] - 1) : Pos(c, j) = Pos(b, j + 1) /\ j + 1 \in 0..(size[b] - 1)
        BY <1>2, <1>3, <3>2, <4>1
      <4> QED BY <4>1, <4>2 DEF Apart
    <3>3. CASE g \in H /\ h = c /\ c # NoBuf
      BY <3>2, <3>3 DEF Apart, Pos
    <3>4. CASE h \in H /\ g = c /\ c # NoBuf
      BY <3>2, <3>4 DEF Apart, Pos
    <3> QED BY <2>2, <2>4, <3>1, <3>3, <3>4
  <2> QED BY <2>1, <2>3, <2>4 DEF ChainsOK
<1>11. LinkingOK(k, z)'
  <2>1. \A j \in 0..(k - 1) : Pos(rx.start, j) \in Bufs /\ Pos(rx.start, j) # b
    <3> TAKE j \in 0..(k - 1)
    <3>1. Pos(rx.start, j) \in Bufs
      BY LinkedUsed
    <3>2. Apart(b, size[b], rx.start, k)
      BY <1>2 DEF RxAt, LinkingOK
    <3> QED BY <1>6, <3>1, <3>2 DEF Apart
  <2>2. (k > 0 => pc["emac"] # "hand" /\ rx.start # NoBuf /\ Pos(rx.start, k) = rx.index)'
    BY <1>5 DEF RxAt, LinkingOK, Pos
  <2>3. (\A i \in 0..(k - 1) : /\ bufs[Pos(rx.start, i)].active
                               /\ ~rx_desc[Pos(rx.start, i)].end
                               /\ rx_desc[Pos(rx.start, i)].frame = rx_desc[rx.start].frame
                               /\ Link(Pos(rx.start, i), Pos(rx.start, i + 1)))'
    BY <1>5, <2>1 DEF RxAt, LinkingOK, Link, Pos
  <2>4. ASSUME NEW h \in Heads' PROVE Apart(h, z[h], rx.start, k)'
    <3>1. CASE h \in H
      <4>1. Apart(h, size[h], rx.start, k) /\ z[h] = size[h]
        BY <1>2, <1>4, <3>1 DEF RxAt, LinkingOK
      <4> QED BY <1>5, <4>1 DEF Apart, Pos
    <3>2. CASE h = c /\ c # NoBuf
      <4>1. Apart(b, size[b], rx.start, k) /\ z[c] = size[b] - 1
        BY <1>2, <1>4, <3>2 DEF RxAt, LinkingOK
      <4>2. \A j \in 0..(z[c] - 1) : Pos(c, j) = Pos(b, j + 1) /\ j + 1 \in 0..(size[b] - 1)
        BY <1>2, <1>3, <3>2, <4>1
      <4>3. \A i \in 0..(z[c] - 1), j \in 0..(k - 1) : Pos(c, i) # Pos(rx.start, j)
        BY <4>1, <4>2 DEF Apart
      <4> QED BY <1>5, <3>2, <4>3 DEF Apart, Pos
    <3> QED BY <1>2, <2>4, <3>1, <3>2
  <2> QED BY <2>2, <2>3, <2>4 DEF LinkingOK
<1>12. OwnedOK(k, z)'
  <2>1. SUFFICES ASSUME spoilt \cap {"refused", "part", "cut"} = {},
                        NEW x \in Bufs, bufs'[x].active
                 PROVE  \/ \E h \in Heads' : \E j \in 0..(z[h] - 1) : x = Pos(h, j)
                        \/ \E j \in 0..(k - 1) : x = Pos(rx.start, j)
    BY <1>5 DEF OwnedOK, Pos
  <2>2. x # b /\ bufs[x].active
    BY <1>5, <2>1
  <2>3. \/ \E h \in Heads : \E j \in 0..(size[h] - 1) : x = Pos(h, j)
        \/ \E j \in 0..(k - 1) : x = Pos(rx.start, j)
    BY <2>1, <2>2 DEF RxAt, OwnedOK
  <2>4. ASSUME NEW h \in H, NEW j \in 0..(size[h] - 1), x = Pos(h, j)
        PROVE  \E g \in Heads' : \E l \in 0..(z[g] - 1) : x = Pos(g, l)
    BY <1>2, <1>4, <2>4
  <2>5. ASSUME NEW j \in 0..(size[b] - 1), x = Pos(b, j)
        PROVE  \E g \in Heads' : \E l \in 0..(z[g] - 1) : x = Pos(g, l)
    <3>1. j # 0
      BY <1>6, <2>2, <2>5
    <3>2. 0 \in 0..(size[b] - 2) /\ 0 + 1 = 1
      BY <1>3, <3>1
    <3>3. Link(Pos(b, 0), Pos(b, 0 + 1))
      BY <1>2, <3>2 DEF ChainOK
    <3>4. c = Pos(b, 1)
      BY <1>1, <1>6, <2>1, <3>2, <3>3 DEF Link
    <3>5. c # NoBuf
      <4>1. 1 \in 0..NumBufs
        BY <1>3
      <4>2. c \in Bufs
        BY <1>2, <3>4, <4>1, PosIn
      <4> QED BY <4>2 DEF Bufs, NoBuf
    <3>6. j - 1 \in 0..(size[b] - 2) /\ (j - 1) + 1 = j
      BY <1>3, <3>1
    <3>7. x = Pos(c, j - 1) /\ j - 1 \in 0..(z[c] - 1) /\ c \in Heads'
      BY <1>2, <1>3, <1>4, <2>5, <3>5, <3>6
    <3> QED BY <3>7
  <2> QED BY <1>2, <2>3, <2>4, <2>5
<1> QED BY <1>4, <1>10, <1>11, <1>12

LEMMA RetireKeeps ==
  ASSUME RxType, HeldOK, BoxedOK, NEW u \in 0..NumBufs, NEW k \in 0..NumBufs,
         NEW size \in Sizes, RxAt(u, k, size), NEW b, RetirePost(b)
  PROVE  /\ \E z \in Sizes : RxAt(u, k, z)'
         /\ \A x \in Bufs : Untaken(x)' <=> Untaken(x)
<1>1. PICK z \in Sizes : ChainsOK(z)' /\ LinkingOK(k, z)' /\ OwnedOK(k, z)'
  BY RetireChains
<1>2. \A x \in Bufs : Untaken(x)' <=> Untaken(x)
  BY DEF RetirePost, Untaken
<1>3. RingOK(u)'
  <2>1. RingOK(u) /\ rx'.index = rx.index /\ eth'.fill = eth.fill
    BY DEF RxAt, RetirePost
  <2>2. \A x \in Bufs : bufs'[x].active /\ ~Freed(x)' => rx_desc'[x].used
    BY <2>1 DEF RingOK, RetirePost, Freed
  <2>3. \A x \in Bufs : bufs'[x].next \in {NoBuf, After(x)}
    BY <2>1 DEF RingOK, RetirePost
  <2> QED BY <1>2, <2>1, <2>2, <2>3, RingKeeps
<1>4. OrderOK(u, k)'
  <2>1. OrderOK(u, k) /\ rx' = rx /\ rx_desc' = rx_desc /\ eth' = eth /\ spoilt' = spoilt
    BY DEF RxAt, RetirePost
  <2>2. k > 0 => rx.start \in Bufs
    BY LinkedUsed
  <2>3. Fresh' <=> Fresh
    BY <2>1 DEF Fresh
  <2> QED BY <2>1, <2>2, <2>3, OrderKeeps
<1> QED BY <1>1, <1>2, <1>3, <1>4 DEF RxAt

-----------------------------------------------------------------------------
(* The steps, one after the other.                                         *)

(* What has nothing to do with the frames that come in.                    *)
Quiet ==
  /\ rx_desc' = rx_desc /\ bufs' = bufs /\ rx' = rx /\ box' = box
  /\ net'.buf = net.buf /\ net'.rest = net.rest
  /\ eth'.fill = eth.fill /\ eth'.part = eth.part
  /\ spoilt \subseteq spoilt'
  /\ spoilt' \cap {"refused", "part", "cut"} = spoilt \cap {"refused", "part", "cut"}
  /\ pc'["emac"] = "hand" <=> pc["emac"] = "hand"
  /\ pc'["net"] = "retire" <=> pc["net"] = "retire"

LEMMA QuietKeeps ==
  ASSUME RxType, RxOK, Quiet
  PROVE  /\ HeldOK' => RxOK'
         /\ \A b : (Untaken(b)' <=> Untaken(b))
         /\ Contents' = Contents /\ Handed' = Handed
<1>1. /\ rx_desc' = rx_desc /\ bufs' = bufs /\ rx' = rx /\ box' = box
      /\ net'.buf = net.buf /\ net'.rest = net.rest
      /\ eth'.fill = eth.fill /\ eth'.part = eth.part
      /\ spoilt \subseteq spoilt'
      /\ spoilt' \cap {"refused", "part", "cut"} = spoilt \cap {"refused", "part", "cut"}
      /\ pc'["emac"] = "hand" <=> pc["emac"] = "hand"
      /\ pc'["net"] = "retire" <=> pc["net"] = "retire"
  BY DEF Quiet
<1>2. \A b : (Untaken(b)' <=> Untaken(b))
  BY <1>1 DEF Untaken
<1>3. Contents' = Contents /\ Handed' = Handed /\ Boxed' = Boxed /\ Held' = Held
  BY <1>1 DEF Contents, Place, Boxed, Handed, Held
<1>4. Heads' = Heads
  BY <1>3 DEF Heads
<1>5. BoxedOK'
  BY <1>1, <1>3 DEF RxOK, BoxedOK
<1>6. PartOK'
  <2>1. Frames' = Frames
    BY DEF Frames
  <2> QED BY <1>1, <2>1 DEF RxOK, PartOK
<1>7. PICK u, k \in 0..NumBufs, size \in Sizes : RxAt(u, k, size)
  BY DEF RxOK
<1>8. Fresh' <=> Fresh
  BY <1>1 DEF Fresh
<1>9. \A b \in Bufs : Kept(b)
  BY <1>1 DEF Kept
<1>10. \A b : Freed(b)' <=> Freed(b)
  BY <1>1 DEF Freed
<1>11. /\ \A b \in Bufs : bufs'[b].active /\ ~Freed(b)' => rx_desc'[b].used
       /\ \A b \in Bufs : bufs'[b].next \in {NoBuf, After(b)}
  BY <1>1, <1>7, <1>10 DEF RxAt, RingOK
<1>12. RxAt(u, k, size)'
  <2>1. HeldOK
    BY DEF RxOK
  <2> QED BY <1>1, <1>2, <1>4, <1>7, <1>8, <1>9, <1>11, <2>1, Calm
<1>13. Sizes' = Sizes
  BY DEF Sizes, Bufs
<1> QED BY <1>2, <1>3, <1>5, <1>6, <1>7, <1>12, <1>13 DEF RxOK

(* The place of each task changes as the step says.                        *)
LEMMA Pcs ==
  ASSUME SchedType, NEW t \in {"emac", "net"}, NEW from, NEW to, Step(t, from, to)
  PROVE  /\ pc[t] = from /\ pc'[t] = to
         /\ t = "emac" => pc'["net"] = pc["net"]
         /\ t = "net" => pc'["emac"] = pc["emac"]
<1>1. "emac" \in DOMAIN pc /\ "net" \in DOMAIN pc
  BY NetAssumption DEF SchedType
<1> QED BY <1>1 DEF Step

LEMMA EmacQuiet ==
  ASSUME SchedType, RxType, EthType, RxOK, RxSleep \/ RxStart \/ RxStop, UNCHANGED netVars
  PROVE  Quiet /\ RxOK'
<1>1. /\ pc'["emac"] # "hand" /\ pc["emac"] # "hand" /\ pc'["net"] = pc["net"]
  <2>1. CASE RxSleep
    <3>1. Step("emac", "sleep", "test")
      BY <2>1 DEF RxSleep
    <3> QED BY <3>1, Pcs
  <2>2. CASE RxStart
    <3>1. Step("emac", "start", "sleep")
      BY <2>2 DEF RxStart
    <3> QED BY <3>1, Pcs
  <2>3. CASE RxStop
    <3>1. Step("emac", "test", "sleep")
      BY <2>3 DEF RxStop
    <3> QED BY <3>1, Pcs
  <2> QED BY <2>1, <2>2, <2>3
<1>2. /\ rx_desc' = rx_desc /\ bufs' = bufs /\ rx' = rx /\ box' = box /\ net' = net
  BY DEF RxSleep, RxStart, RxStop, boxVars, emacVars, rxVars, netVars
<1>3. eth'.fill = eth.fill /\ eth'.part = eth.part
  BY DEF EthType, RxSleep, RxStart, RxStop, emacVars
<1>4. /\ spoilt \subseteq spoilt'
      /\ spoilt' \cap {"refused", "part", "cut"} = spoilt \cap {"refused", "part", "cut"}
  <2>1. spoilt' = spoilt \/ spoilt' = spoilt \cup {"held"}
    BY DEF RxSleep, RxStart, RxStop, emacVars
  <2> QED BY <2>1
<1>5. Quiet
  BY <1>1, <1>2, <1>3, <1>4 DEF Quiet
<1>6. HeldOK'
  BY <1>1, <1>2 DEF RxOK, HeldOK, Reading
<1> QED BY <1>5, <1>6, QuietKeeps

LEMMA IsrQuiet ==
  ASSUME SchedType, RxType, EthType, RxOK, IsrRead \/ IsrClear \/ IsrEnter, UNCHANGED netVars
  PROVE  Quiet /\ RxOK'
<1>1. pc' = pc
  BY DEF IsrRead, IsrClear, IsrEnter
<1>2. /\ rx_desc' = rx_desc /\ bufs' = bufs /\ rx' = rx /\ box' = box /\ net' = net
  BY DEF IsrRead, IsrClear, IsrEnter, boxVars, rxVars, netVars
<1>3. eth'.fill = eth.fill /\ eth'.part = eth.part
  BY DEF EthType, IsrRead, IsrClear, IsrEnter
<1>4. /\ spoilt \subseteq spoilt'
      /\ spoilt' \cap {"refused", "part", "cut"} = spoilt \cap {"refused", "part", "cut"}
  <2>1. spoilt' = spoilt \/ spoilt' = spoilt \cup {"unwoken"}
    BY DEF IsrRead, IsrClear, IsrEnter
  <2> QED BY <2>1
<1>5. Quiet
  BY <1>1, <1>2, <1>3, <1>4 DEF Quiet
<1>6. HeldOK'
  BY <1>1, <1>2 DEF RxOK, HeldOK, Reading
<1> QED BY <1>5, <1>6, QuietKeeps

LEMMA SendsQuiet ==
  ASSUME SchedType, RxType, EthType, RxOK, Sends,
         UNCHANGED <<schedVars, pc, boxVars, netVars>>
  PROVE  Quiet /\ RxOK'
<1>1. pc' = pc /\ rx_desc' = rx_desc /\ bufs' = bufs /\ rx' = rx /\ box' = box /\ net' = net
  BY DEF Sends, rxVars, boxVars, netVars
<1>2. eth'.fill = eth.fill /\ eth'.part = eth.part
  BY DEF EthType, Sends
<1>3. /\ spoilt \subseteq spoilt'
      /\ spoilt' \cap {"refused", "part", "cut"} = spoilt \cap {"refused", "part", "cut"}
  <2>1. spoilt' = spoilt \/ spoilt' = spoilt \cup {"torn"}
    BY DEF Sends
  <2> QED BY <2>1
<1>4. Quiet
  BY <1>1, <1>2, <1>3 DEF Quiet
<1>5. HeldOK'
  BY <1>1 DEF RxOK, HeldOK, Reading
<1> QED BY <1>4, <1>5, QuietKeeps

LEMMA DoesSteps ==
  ASSUME SchedType, NEW from, NEW to, Does(from, to)
  PROVE  /\ pc["net"] = from /\ pc'["net"] = to /\ pc'["emac"] = pc["emac"] /\ box' = box
         /\ loc' = loc
<1>1. Step("net", from, to) /\ box' = box /\ loc' = loc
  BY DEF Does, boxVars
<1> QED BY <1>1, Pcs

LEMMA NetQuiet ==
  ASSUME SchedType, RxType, EthType, NetType, RxOK, NetStart \/ NetWait \/ NetAnswer \/ NetSend
  PROVE  Quiet /\ RxOK'
<1>0. HeldOK
  BY DEF RxOK
<1>1. /\ pc'["emac"] = pc["emac"] /\ box' = box
      /\ net'.buf = net.buf /\ net'.rest = net.rest
      /\ pc["net"] # "retire" /\ pc'["net"] # "retire"
      /\ HeldOK'
  <2>1. CASE NetStart
    <3>1. /\ pc["net"] = "start" /\ pc'["net"] = "send" /\ pc'["emac"] = pc["emac"] /\ box' = box
          /\ net' = net
      BY <2>1, DoesSteps DEF NetStart
    <3> QED BY <1>0, <3>1 DEF HeldOK, Reading
  <2>2. CASE NetWait
    <3>1. Step("net", "get", "take") /\ box' = box /\ net' = net
      BY <2>2 DEF NetWait, boxVars, netVars
    <3>2. pc["net"] = "get" /\ pc'["net"] = "take" /\ pc'["emac"] = pc["emac"]
      BY <3>1, Pcs
    <3> QED BY <1>0, <3>1, <3>2 DEF HeldOK, Reading
  <2>3. CASE NetAnswer
    <3>1. PICK to \in {"send", "free"} : Does("answer", to)
      BY <2>3, Zenon DEF NetAnswer
    <3>2. pc["net"] = "answer" /\ pc'["net"] = to /\ pc'["emac"] = pc["emac"] /\ box' = box
      BY <3>1, DoesSteps
    <3>3. PICK id : net' = [net EXCEPT !.ipv4_id = id]
      <4>1. \E id : net' = [net EXCEPT !.ipv4_id = id]
        BY <2>3, Zenon DEF NetAnswer
      <4> QED BY <4>1
    <3>4. net'.buf = net.buf /\ net'.rest = net.rest
      BY <3>3 DEF NetType
    <3> QED BY <1>0, <3>1, <3>2, <3>4 DEF HeldOK, Reading
  <2>4. CASE NetSend
    <3>1. net' = net
      BY <2>4 DEF NetSend, netVars
    <3>2. CASE \E from, to \in {"send", "last", "size", "next", "go"} : Does(from, to)
      <4>1. PICK from, to \in {"send", "last", "size", "next", "go"} : Does(from, to)
        BY <3>2
      <4>2. pc["net"] = from /\ pc'["net"] = to /\ pc'["emac"] = pc["emac"] /\ box' = box
        BY <4>1, DoesSteps
      <4> QED BY <1>0, <3>1, <4>1, <4>2 DEF HeldOK, Reading
    <3>3. CASE Does("go", IF net.buf = NoBuf THEN "get" ELSE "free")
      <4>1. /\ pc["net"] = "go" /\ pc'["net"] = (IF net.buf = NoBuf THEN "get" ELSE "free")
            /\ pc'["emac"] = pc["emac"] /\ box' = box
        BY <3>3, DoesSteps
      <4>2. net.rest = net.buf
        BY <1>0, <4>1 DEF HeldOK, Reading
      <4> QED BY <3>1, <4>1, <4>2 DEF HeldOK, Reading
    <3> QED BY <2>4, <3>2, <3>3 DEF NetSend
  <2> QED BY <2>1, <2>2, <2>3, <2>4
<1>2. /\ rx_desc' = rx_desc /\ bufs' = bufs /\ rx' = rx
      /\ eth'.fill = eth.fill /\ eth'.part = eth.part
  <2>1. rx_desc' = rx_desc /\ bufs' = bufs /\ rx' = rx
    BY DEF NetStart, NetWait, NetAnswer, NetSend, emacVars, rxVars
  <2>2. eth' = eth \/ eth' = [eth EXCEPT !.sending = TRUE]
    BY DEF NetStart, NetWait, NetAnswer, NetSend, emacVars
  <2>3. eth'.fill = eth.fill /\ eth'.part = eth.part
    BY <2>2 DEF EthType
  <2> QED BY <2>1, <2>3
<1>3. /\ spoilt \subseteq spoilt'
      /\ spoilt' \cap {"refused", "part", "cut"} = spoilt \cap {"refused", "part", "cut"}
  <2>1. spoilt' = spoilt \/ spoilt' = spoilt \cup {"replaced"}
    BY DEF NetStart, NetWait, NetAnswer, NetSend, emacVars, TxCopy, TxMark, TxNext
  <2> QED BY <2>1
<1>4. Quiet
  BY <1>1, <1>2, <1>3 DEF Quiet
<1> QED BY <1>1, <1>4, QuietKeeps

LEMMA BoxFacts ==
  ASSUME BoxOK
  PROVE  /\ Contents \in Seq(Msg) /\ Len(Contents) = box.num_msgs /\ box.num_msgs \in Nat
         /\ DOMAIN Contents = 1..box.num_msgs
<1>1. PICK n \in 0..MaxMsgs, c \in Slots, buf \in [Slots -> Msg] :
        box.num_msgs = n /\ box.c_index = c /\ box.msg_buf = buf
  BY BoxAssumption DEF BoxOK
<1>2. n \in Nat /\ \A i \in 1..n : i \in 1..MaxMsgs
  BY <1>1, BoxAssumption
<1>3. Contents = [i \in 1..n |-> buf[Place(c, i)]]
  BY <1>1 DEF Contents
<1>4. \A i \in 1..n : buf[Place(c, i)] \in Msg
  <2> TAKE i \in 1..n
  <2>1. Place(c, i) \in Slots
    BY <1>1, <1>2, BoxAssumption DEF Place, Slots
  <2> QED BY <1>1, <2>1
<1> QED BY <1>1, <1>2, <1>3, <1>4

(* The chain goes into the box, or its buffers are lost.                   *)
LEMMA HandSteps ==
  ASSUME SchedType, RxType, BoxOK, RxOK, RxHand, UNCHANGED netVars
  PROVE  /\ BoxOK' /\ rx.start \in Bufs /\ pc["emac"] = "hand" /\ pc'["emac"] = "test"
         /\ pc'["net"] = pc["net"]
         /\ \/ /\ Contents' = Append(Contents, rx.start) /\ spoilt' = spoilt
               /\ box'.num_msgs = box.num_msgs + 1
            \/ Contents' = Contents /\ box' = box /\ spoilt' = spoilt \cup {"refused"}
         /\ loc' = loc
<1>1. pc["emac"] = "hand" /\ pc'["emac"] = "test" /\ pc'["net"] = pc["net"]
  BY Pcs DEF RxHand
<1>2. rx.start \in Bufs
  <2>1. PICK u, k \in 0..NumBufs, size \in Sizes : RxAt(u, k, size)
    BY DEF RxOK
  <2> QED BY <1>1, <2>1 DEF RxAt, ChainsOK, Heads, Handed
<1>3. CASE IsFull /\ spoilt' = spoilt \cup {"refused"} /\ UNCHANGED boxVars
  BY <1>1, <1>2, <1>3 DEF boxVars, BoxOK, Contents, Place
<1>4. CASE Sent(rx.start) /\ spoilt' = spoilt
  <2>1. rx.start \in Msg
    BY <1>2, NetAssumption
  <2>2. BoxOK' /\ Queue!Send(rx.start)
    BY <1>4, <2>1, BoxAssumption, SentKeeps
  <2>3. box'.num_msgs = box.num_msgs + 1
    <3>1. box.num_msgs \in 0..MaxMsgs /\ box.num_msgs # MaxMsgs
      BY <1>4 DEF Sent, IsFull, BoxOK
    <3>2. Up(box.num_msgs) = box.num_msgs + 1
      BY <3>1, BoxAssumption DEF Up
    <3>3. box'.num_msgs = Up(box.num_msgs)
      BY <1>4 DEF Sent, BoxOK
    <3> QED BY <3>2, <3>3
  <2> QED BY <1>1, <1>2, <1>4, <2>2, <2>3 DEF Queue!Send
<1> QED BY <1>3, <1>4 DEF RxHand

LEMMA HandHeads ==
  ASSUME SchedType, RxType, BoxOK, RxOK, RxHand, UNCHANGED netVars
  PROVE  /\ BoxedOK' /\ Heads' \subseteq Heads
         /\ "refused" \notin spoilt' => Heads' = Heads
<1>1. /\ BoxOK' /\ rx.start \in Bufs /\ pc["emac"] = "hand" /\ pc'["emac"] = "test"
      /\ \/ /\ Contents' = Append(Contents, rx.start) /\ spoilt' = spoilt
            /\ box'.num_msgs = box.num_msgs + 1
         \/ Contents' = Contents /\ box' = box /\ spoilt' = spoilt \cup {"refused"}
  BY HandSteps
<1>2. Handed = {rx.start} /\ Handed' = {} /\ Held' = Held
  BY <1>1 DEF Handed, Held, netVars
<1>3. /\ \A i, j \in 1..box.num_msgs : Contents[i] = Contents[j] => i = j
      /\ Boxed \cap Handed = {} /\ Boxed \cap Held = {} /\ Handed \cap Held = {}
  BY DEF RxOK, BoxedOK
<1>4. CASE Contents' = Contents /\ box' = box /\ spoilt' = spoilt \cup {"refused"}
  <2>1. Boxed' = Boxed
    BY <1>4 DEF Boxed
  <2> QED BY <1>2, <1>3, <1>4, <2>1 DEF BoxedOK, Heads
<1>5. CASE /\ Contents' = Append(Contents, rx.start) /\ spoilt' = spoilt
           /\ box'.num_msgs = box.num_msgs + 1
  <2>1. PICK c, n : c = Contents /\ n = box.num_msgs /\ c \in Seq(Msg) /\ n \in Nat /\ Len(c) = n
                    /\ DOMAIN c = 1..n
    BY BoxFacts
  <2>3. PICK s : s = rx.start /\ s \in Msg
    BY <1>1, NetAssumption
  <2>4. PICK d, m : d = Contents' /\ m = n + 1 /\ d = Append(c, s) /\ box'.num_msgs = m
    BY <1>5, <2>1, <2>3
  <2>5. /\ Len(d) = n + 1 /\ \A i \in 1..n : d[i] = c[i]
        /\ d[n + 1] = s /\ DOMAIN d = 1..m
    BY <2>1, <2>3, <2>4, AppendProperties
  <2>6. m = n + 1
    BY <2>4
  <2>7. Boxed' = Boxed \cup {s}
    <3>1. Boxed' = {d[i] : i \in DOMAIN d} /\ Boxed = {c[i] : i \in DOMAIN c}
      BY <2>1, <2>4 DEF Boxed
    <3>2. \A i \in 1..(n + 1) : i \in 1..n \/ i = n + 1
      BY <2>1
    <3>3. 1..n \subseteq 1..(n + 1) /\ n + 1 \in 1..(n + 1)
      BY <2>1
    <3> QED BY <2>1, <2>5, <2>6, <3>1, <3>2, <3>3
  <2>8. s \notin Boxed /\ s \notin Held
    BY <1>2, <1>3, <2>3
  <2>9. \A i, j \in 1..m : d[i] = d[j] => i = j
    <3> TAKE i, j \in 1..m
    <3>1. \A l \in 1..n : c[l] # s
      BY <2>1, <2>8 DEF Boxed
    <3>2. (i \in 1..n \/ i = n + 1) /\ (j \in 1..n \/ j = n + 1)
      BY <2>1, <2>6
    <3> QED BY <1>3, <2>1, <2>5, <3>1, <3>2
  <2>10. BoxedOK'
    <3>1. \A i, j \in 1..box'.num_msgs : Contents'[i] = Contents'[j] => i = j
      BY <2>4, <2>9
    <3> QED BY <1>2, <1>3, <2>7, <2>8, <3>1 DEF BoxedOK
  <2> QED BY <1>2, <2>3, <2>7, <2>10 DEF Heads
<1> QED BY <1>1, <1>4, <1>5

LEMMA HandKeeps ==
  ASSUME SchedType, RxType, BoxOK, RxOK, RxHand, UNCHANGED netVars
  PROVE  RxOK' /\ \A b : (Untaken(b)' <=> Untaken(b))
<1>1. /\ BoxedOK' /\ Heads' \subseteq Heads
      /\ "refused" \notin spoilt' => Heads' = Heads
  BY HandHeads
<1>2. /\ pc'["emac"] = "test" /\ pc'["net"] = pc["net"] /\ spoilt \subseteq spoilt'
  BY HandSteps
<1>3. rx_desc' = rx_desc /\ bufs' = bufs /\ rx' = rx /\ eth' = eth /\ net' = net
  BY DEF RxHand, rxVars, netVars
<1>4. \A b : (Untaken(b)' <=> Untaken(b))
  BY <1>2, <1>3 DEF Untaken
<1>5. PICK u, k \in 0..NumBufs, size \in Sizes : RxAt(u, k, size)
  BY DEF RxOK
<1>6. Fresh' <=> Fresh
  BY <1>3 DEF Fresh
<1>7. \A b \in Bufs : Kept(b)
  BY <1>3 DEF Kept
<1>8. /\ \A b \in Bufs : bufs'[b].active /\ ~Freed(b)' => rx_desc'[b].used
      /\ \A b \in Bufs : bufs'[b].next \in {NoBuf, After(b)}
  BY <1>2, <1>3, <1>5 DEF RxAt, RingOK, Freed
<1>9. RxAt(u, k, size)'
  <2>1. HeldOK
    BY DEF RxOK
  <2>2. spoilt' \cap {"refused", "part", "cut"} = {} => Heads \subseteq Heads'
    BY <1>1
  <2>3. pc'["emac"] = "hand" => pc["emac"] = "hand"
    BY <1>2
  <2> QED BY <1>1, <1>2, <1>3, <1>4, <1>5, <1>6, <1>7, <1>8, <2>1, <2>2, <2>3, Calm
<1>10. HeldOK' /\ PartOK' /\ Sizes' = Sizes
  <2>1. Frames' = Frames
    BY DEF Frames
  <2> QED BY <1>2, <1>3, <2>1 DEF RxOK, HeldOK, PartOK, Sizes, Bufs, Reading
<1> QED BY <1>1, <1>4, <1>5, <1>9, <1>10 DEF RxOK

(* net_task() gets the first chain from the box.                           *)
LEMMA GotSteps ==
  ASSUME SchedType, RxType, BoxOK, RxOK, NetTake, Got
  PROVE  /\ BoxOK' /\ pc["net"] = "take" /\ pc'["net"] = "look" /\ pc'["emac"] = pc["emac"]
         /\ net.rest = NoBuf /\ net.buf = NoBuf
         /\ net' = [net EXCEPT !.buf = loc', !.rest = loc']
         /\ loc' = Contents[1] /\ loc' \in Bufs
         /\ box.num_msgs \in Nat /\ box.num_msgs > 0 /\ box'.num_msgs = box.num_msgs - 1
         /\ Contents' = Tail(Contents)
         /\ \A i \in 1..(box.num_msgs - 1) : Contents'[i] = Contents[i + 1]
<1>1. pc["net"] = "take" /\ pc'["net"] = "look" /\ pc'["emac"] = pc["emac"] /\ Got
      /\ net' = [net EXCEPT !.buf = loc', !.rest = loc']
  BY Pcs DEF NetTake
<1>2. net.rest = NoBuf /\ net.buf = NoBuf
  BY <1>1 DEF RxOK, HeldOK, Reading
<1>3. BoxOK' /\ Queue!Get
  BY <1>1, BoxAssumption, GotKeeps
<1>4. /\ Contents \in Seq(Msg) /\ Len(Contents) = box.num_msgs /\ box.num_msgs \in Nat
      /\ DOMAIN Contents = 1..box.num_msgs
  BY BoxFacts
<1>5. box.num_msgs > 0 /\ box'.num_msgs = box.num_msgs - 1
  <2>1. box.num_msgs # 0 /\ box'.num_msgs = Down(box.num_msgs)
    BY <1>1 DEF Got, Taken, BoxOK
  <2>2. Down(box.num_msgs) = box.num_msgs - 1
    BY <1>4, <2>1 DEF Down
  <2> QED BY <1>4, <2>1, <2>2
<1>6. loc' = Head(Contents) /\ Contents' = Tail(Contents)
  BY <1>3 DEF Queue!Get
<1>7. PICK c, n : c = Contents /\ n = box.num_msgs /\ c \in Seq(Msg) /\ n \in Nat /\ Len(c) = n
                  /\ n > 0
  BY <1>4, <1>5
<1>8. Head(c) = c[1] /\ c[1] \in Msg /\ \A i \in 1..(n - 1) : Tail(c)[i] = c[i + 1]
  <2>1. c # <<>> /\ 1 \in 1..Len(c)
    BY <1>7
  <2> QED BY <1>7, <2>1, HeadTailProperties
<1> QED BY <1>1, <1>2, <1>3, <1>5, <1>6, <1>7, <1>8, NetAssumption

LEMMA GotHeads ==
  ASSUME SchedType, RxType, NetType, BoxOK, RxOK, NetTake, Got
  PROVE  BoxedOK' /\ Heads' = Heads /\ Boxed' \subseteq Boxed
<1>1. /\ net.rest = NoBuf /\ net' = [net EXCEPT !.buf = loc', !.rest = loc']
      /\ BoxOK' /\ loc' = Contents[1] /\ loc' \in Bufs /\ pc'["emac"] = pc["emac"]
  BY GotSteps
<1>2. PICK c, d, n, m : /\ c = Contents /\ n = box.num_msgs /\ n \in Nat /\ n > 0
                        /\ d = Contents' /\ m = box'.num_msgs /\ m = n - 1
                        /\ DOMAIN c = 1..n /\ \A i \in 1..m : d[i] = c[i + 1]
                        /\ loc' = c[1]
  BY GotSteps, BoxFacts
<1>3. DOMAIN d = 1..m
  BY <1>2 DEF Contents
<1>4. PICK l : l = loc' /\ l \in Bufs /\ l = c[1]
  BY <1>1, <1>2
<1>5. /\ \A i, j \in 1..n : c[i] = c[j] => i = j
      /\ Boxed \cap Handed = {} /\ Boxed \cap Held = {} /\ Handed \cap Held = {}
  BY <1>2 DEF RxOK, BoxedOK
<1>6. Boxed = Boxed' \cup {l} /\ l \notin Boxed'
  <2>1. Boxed' = {d[i] : i \in 1..m} /\ Boxed = {c[i] : i \in 1..n}
    BY <1>2, <1>3 DEF Boxed
  <2>2. \A i \in 1..m : i + 1 \in 1..n /\ i + 1 # 1
    BY <1>2
  <2>3. \A i \in 1..n : i = 1 \/ (i - 1 \in 1..m /\ (i - 1) + 1 = i)
    BY <1>2
  <2>4. 1 \in 1..n
    BY <1>2
  <2>5. ASSUME NEW x \in Boxed PROVE x \in Boxed' \/ x = l
    <3>1. PICK i \in 1..n : x = c[i]
      BY <2>1, <2>5
    <3>2. CASE i = 1
      BY <1>4, <3>1, <3>2
    <3>3. CASE i - 1 \in 1..m /\ (i - 1) + 1 = i
      <4>1. d[i - 1] = c[i]
        BY <1>2, <3>3
      <4> QED BY <2>1, <3>1, <3>3, <4>1
    <3> QED BY <2>3, <3>2, <3>3
  <2>6. ASSUME NEW x \in Boxed' PROVE x \in Boxed /\ x # l
    <3>1. PICK i \in 1..m : x = d[i]
      BY <2>1, <2>6
    <3>2. x = c[i + 1] /\ i + 1 \in 1..n /\ i + 1 # 1
      BY <1>2, <2>2, <3>1
    <3> QED BY <1>4, <1>5, <2>1, <2>4, <3>2
  <2>7. l \in Boxed
    BY <1>4, <2>1, <2>4
  <2> QED BY <2>5, <2>6, <2>7
<1>7. Held = {} /\ Held' = {l} /\ Handed' = Handed
  <2>1. net'.rest = l /\ l # NoBuf /\ rx' = rx
    <3>1. net'.rest = l
      BY <1>1, <1>4 DEF NetType
    <3> QED BY <1>4, <3>1 DEF Bufs, NoBuf, NetTake, emacVars, rxVars
  <2> QED BY <1>1, <2>1 DEF Held, Handed
<1>8. \A i, j \in 1..m : d[i] = d[j] => i = j
  <2> TAKE i, j \in 1..m
  <2>1. i + 1 \in 1..n /\ j + 1 \in 1..n /\ d[i] = c[i + 1] /\ d[j] = c[j + 1]
    BY <1>2
  <2>2. d[i] = d[j] => i + 1 = j + 1
    BY <1>5, <2>1
  <2> QED BY <1>2, <2>2
<1>9. BoxedOK'
  <2>1. \A i, j \in 1..box'.num_msgs : Contents'[i] = Contents'[j] => i = j
    BY <1>2, <1>8
  <2> QED BY <1>5, <1>6, <1>7, <2>1 DEF BoxedOK
<1> QED BY <1>6, <1>7, <1>9 DEF Heads

LEMMA GotKeepsRx ==
  ASSUME SchedType, RxType, NetType, BoxOK, RxOK, NetTake, Got
  PROVE  RxOK' /\ \A b \in Bufs : (Untaken(b)' <=> Untaken(b))
<1>1. /\ pc["net"] = "take" /\ pc'["net"] = "look" /\ pc'["emac"] = pc["emac"]
      /\ net' = [net EXCEPT !.buf = loc', !.rest = loc'] /\ loc' \in Bufs
  BY GotSteps
<1>2. BoxedOK' /\ Heads' = Heads
  BY GotHeads
<1>3. rx_desc' = rx_desc /\ bufs' = bufs /\ rx' = rx /\ eth' = eth /\ spoilt' = spoilt
  BY DEF NetTake, emacVars, rxVars
<1>4. \A b \in Bufs : (Untaken(b)' <=> Untaken(b))
  BY <1>1, <1>3 DEF Untaken
<1>5. PICK u, k \in 0..NumBufs, size \in Sizes : RxAt(u, k, size)
  BY DEF RxOK
<1>6. Fresh' <=> Fresh
  BY <1>3 DEF Fresh
<1>7. \A b \in Bufs : Kept(b)
  BY <1>3 DEF Kept
<1>8. /\ \A b \in Bufs : bufs'[b].active /\ ~Freed(b)' => rx_desc'[b].used
      /\ \A b \in Bufs : bufs'[b].next \in {NoBuf, After(b)}
  BY <1>1, <1>3, <1>5 DEF RxAt, RingOK, Freed
<1>9. RxAt(u, k, size)'
  <2>1. HeldOK
    BY DEF RxOK
  <2> QED BY <1>1, <1>2, <1>3, <1>4, <1>5, <1>6, <1>7, <1>8, <2>1, Calm
<1>10. HeldOK'
  <2>1. net'.buf = loc' /\ net'.rest = loc' /\ loc' # NoBuf
    BY <1>1 DEF NetType, Bufs, NoBuf
  <2> QED BY <1>1, <2>1 DEF HeldOK, Reading
<1>11. PartOK' /\ Sizes' = Sizes
  <2>1. Frames' = Frames
    BY DEF Frames
  <2> QED BY <1>3, <2>1 DEF RxOK, PartOK, Sizes, Bufs
<1> QED BY <1>2, <1>4, <1>5, <1>9, <1>10, <1>11 DEF RxOK

-----------------------------------------------------------------------------
(* dev_buf_free() gives the descriptor back, ...                           *)
Given == NetFree /\ pc["net"] = "free"
LEMMA GivenSteps ==
  ASSUME SchedType, RxType, NetType, RxOK, Given
  PROVE  /\ pc'["net"] = "retire" /\ pc'["emac"] = pc["emac"] /\ box' = box
         /\ net.rest \in Bufs /\ net.rest = net.buf /\ net' = net
         /\ rx_desc' = [rx_desc EXCEPT ![net.rest].used = FALSE]
         /\ bufs' = bufs /\ rx' = rx /\ eth' = eth /\ spoilt' = spoilt
         /\ wire' = wire /\ tx_desc' = tx_desc /\ tx_index' = tx_index /\ val' = val
         /\ pkt' = pkt /\ handled' = handled /\ loc' = loc
<1>1. Does("free", "retire") /\ GiveBack(net.rest) /\ UNCHANGED <<bufs, net>>
      /\ UNCHANGED <<rx, txVars, eth, val, spoilt, pkt, handled>>
  <2>1. ASSUME NEW to, Does("retire", to) \/ Does("unchain", to) PROVE FALSE
    <3>1. pc["net"] = "retire" \/ pc["net"] = "unchain"
      BY <2>1, DoesSteps
    <3> QED BY <3>1 DEF Given
  <2> QED BY <2>1 DEF Given, NetFree
<1>2. pc'["net"] = "retire" /\ pc'["emac"] = pc["emac"] /\ box' = box /\ loc' = loc
  BY <1>1, DoesSteps
<1>3. net.rest \in Bufs /\ net.rest = net.buf
  BY DEF Given, RxOK, HeldOK, NetType, Reading
<1> QED BY <1>1, <1>2, <1>3 DEF GiveBack, txVars

LEMMA GivenKeeps ==
  ASSUME SchedType, RxType, NetType, RxOK, Given
  PROVE  RxOK' /\ \A b \in Bufs : (Untaken(b)' <=> Untaken(b))
<1>1. /\ pc["net"] = "free" /\ pc'["net"] = "retire" /\ pc'["emac"] = pc["emac"] /\ box' = box
      /\ net.rest \in Bufs /\ net' = net
      /\ bufs' = bufs /\ rx' = rx /\ eth' = eth /\ spoilt' = spoilt
      /\ net.rest = net.buf
  BY GivenSteps DEF Given
<1>2. PICK h \in Bufs : h = net.rest
  BY <1>1
<1>3. /\ rx_desc'[h].used = FALSE
      /\ \A b \in Bufs : b # h => rx_desc'[b].used = rx_desc[b].used
      /\ \A b \in Bufs : /\ rx_desc'[b].start = rx_desc[b].start
                         /\ rx_desc'[b].end = rx_desc[b].end
                         /\ rx_desc'[b].frame = rx_desc[b].frame
  <2>1. rx_desc' = [rx_desc EXCEPT ![h].used = FALSE]
    BY <1>2, GivenSteps
  <2> QED BY <2>1 DEF RxType, Descs
<1>4. PICK u, k \in 0..NumBufs, size \in Sizes : RxAt(u, k, size)
  BY DEF RxOK
<1>5. h \in Heads /\ bufs[h].active /\ rx_desc[h].used
  <2>1. h \in Heads
    BY <1>2 DEF Heads, Held, Bufs, NoBuf
  <2>2. bufs[h].active
    BY <1>4, <2>1, ChainsUsed
  <2>3. ~Freed(h)
    BY <1>1 DEF Freed
  <2> QED BY <1>4, <2>1, <2>2, <2>3 DEF RxAt, RingOK
<1>6. \A b \in Bufs : (Untaken(b)' <=> Untaken(b))
  <2> TAKE b \in Bufs
  <2>1. CASE b = h
    <3>1. ~Untaken(b) /\ ~Untaken(b)'
      BY <1>1, <1>2, <1>3, <1>5, <2>1 DEF Untaken
    <3> QED BY <3>1
  <2>2. CASE b # h
    BY <1>1, <1>2, <1>3, <2>2 DEF Untaken
  <2> QED BY <2>1, <2>2
<1>7. /\ \A b \in Bufs : bufs'[b].active /\ ~Freed(b)' => rx_desc'[b].used
      /\ \A b \in Bufs : bufs'[b].next \in {NoBuf, After(b)}
  <2>1. \A b \in Bufs : Freed(b)' <=> b = h
    BY <1>1, <1>2 DEF Freed
  <2>2. \A b \in Bufs : ~Freed(b)
    BY <1>1 DEF Freed
  <2> QED BY <1>1, <1>3, <1>4, <2>1, <2>2 DEF RxAt, RingOK
<1>8. Fresh' <=> Fresh
  BY <1>1 DEF Fresh
<1>9. \A b \in Bufs : Kept(b)
  BY <1>1 DEF Kept
<1>10. Heads' = Heads /\ Contents' = Contents /\ Handed' = Handed /\ Held' = Held
       /\ Boxed' = Boxed
  BY <1>1 DEF Heads, Boxed, Contents, Place, Handed, Held
<1>11. RxAt(u, k, size)'
  <2>1. HeldOK
    BY DEF RxOK
  <2> QED BY <1>1, <1>3, <1>4, <1>6, <1>7, <1>8, <1>9, <1>10, <2>1, Calm
<1>12. HeldOK' /\ BoxedOK'
  <2>1. HeldOK'
    BY <1>1 DEF HeldOK, RxOK, Bufs, NoBuf, Reading
  <2>2. BoxedOK
    BY DEF RxOK
  <2>3. BoxedOK'
    BY <1>1, <1>10, <2>2 DEF BoxedOK
  <2> QED BY <2>1, <2>3
<1>13. PartOK' /\ Sizes' = Sizes
  <2>1. Frames' = Frames
    BY DEF Frames
  <2> QED BY <1>1, <2>1 DEF RxOK, PartOK, Sizes, Bufs
<1> QED BY <1>4, <1>6, <1>11, <1>12, <1>13 DEF RxOK

(* ... and, when it has put it out of use, cuts it from the chain.         *)
Unchained == NetFree /\ pc["net"] = "unchain"
LEMMA UnchainedSteps ==
  ASSUME SchedType, RxType, NetType, RxOK, Unchained
  PROVE  /\ pc'["net"] = (IF net.rest = NoBuf THEN "get" ELSE "free")
         /\ pc'["emac"] = pc["emac"] /\ box' = box
         /\ net.buf \in Bufs /\ net' = [net EXCEPT !.buf = net.rest]
         /\ bufs' = [bufs EXCEPT ![net.buf].next = NoBuf]
         /\ spoilt' = IF bufs[net.buf].active /\ bufs[net.buf].next # NoBuf
                      THEN spoilt \cup {"cut"} ELSE spoilt
         /\ rx_desc' = rx_desc /\ rx' = rx /\ eth' = eth
         /\ wire' = wire /\ tx_desc' = tx_desc /\ tx_index' = tx_index /\ val' = val
         /\ pkt' = pkt /\ handled' = handled /\ loc' = loc
<1>1. /\ Does("unchain", IF net.rest = NoBuf THEN "get" ELSE "free") /\ Unchain(net.buf)
      /\ spoilt' = IF bufs[net.buf].active /\ bufs[net.buf].next # NoBuf
                   THEN spoilt \cup {"cut"} ELSE spoilt
      /\ net' = [net EXCEPT !.buf = net.rest]
      /\ UNCHANGED <<rx_desc, rx, txVars, eth, val, pkt, handled>>
  <2>1. ASSUME NEW to, Does("retire", to) \/ Does("free", to) PROVE FALSE
    <3>1. pc["net"] = "retire" \/ pc["net"] = "free"
      BY <2>1, DoesSteps
    <3> QED BY <3>1 DEF Unchained
  <2> QED BY <2>1 DEF Unchained, NetFree
<1>2. /\ pc'["net"] = (IF net.rest = NoBuf THEN "get" ELSE "free")
      /\ pc'["emac"] = pc["emac"] /\ box' = box /\ loc' = loc
  BY <1>1, DoesSteps
<1>3. net.buf \in Bufs
  BY DEF Unchained, RxOK, HeldOK, NetType, Reading
<1> QED BY <1>1, <1>2, <1>3 DEF Unchain, txVars

LEMMA UnchainedKeeps ==
  ASSUME SchedType, RxType, NetType, EthType, RxOK, Unchained
  PROVE  RxOK' /\ \A b \in Bufs : (Untaken(b)' <=> Untaken(b))
<1>1. /\ pc["net"] = "unchain" /\ pc'["net"] = (IF net.rest = NoBuf THEN "get" ELSE "free")
      /\ pc'["emac"] = pc["emac"] /\ box' = box
      /\ net.buf \in Bufs /\ net' = [net EXCEPT !.buf = net.rest]
      /\ rx_desc' = rx_desc /\ rx' = rx /\ eth' = eth
  BY UnchainedSteps DEF Unchained
<1>2. PICK h \in Bufs : h = net.buf
  BY <1>1
<1>3. spoilt \subseteq spoilt'
      /\ (bufs[h].active /\ bufs[h].next # NoBuf => "cut" \in spoilt')
  <2>1. spoilt' = IF bufs[h].active /\ bufs[h].next # NoBuf
                  THEN spoilt \cup {"cut"} ELSE spoilt
    BY <1>2, UnchainedSteps
  <2> QED BY <2>1
<1>4. net'.rest = net.rest /\ net'.buf = net.rest
  BY <1>1 DEF NetType
<1>5. /\ \A b \in Bufs : bufs'[b].active = bufs[b].active
      /\ bufs'[h].next = NoBuf
      /\ \A b \in Bufs : b # h => bufs'[b].next = bufs[b].next
  <2>1. bufs' = [bufs EXCEPT ![h].next = NoBuf]
    BY <1>2, UnchainedSteps
  <2> QED BY <2>1 DEF RxType, NetBufs
<1>6. \A b \in Bufs : Kept(b)
  <2> TAKE b \in Bufs
  <2>1. CASE b = h
    BY <1>3, <1>5, <2>1 DEF Kept
  <2>2. CASE b # h
    BY <1>5, <2>2 DEF Kept
  <2> QED BY <2>1, <2>2
<1>7. PICK u, k \in 0..NumBufs, size \in Sizes : RxAt(u, k, size)
  BY DEF RxOK
<1>8. \A b \in Bufs : (Untaken(b)' <=> Untaken(b))
  BY <1>1, <1>5 DEF Untaken
<1>9. /\ \A b \in Bufs : bufs'[b].active /\ ~Freed(b)' => rx_desc'[b].used
      /\ \A b \in Bufs : bufs'[b].next \in {NoBuf, After(b)}
  <2>1. \A b \in Bufs : ~Freed(b)
    BY <1>1 DEF Freed
  <2> QED BY <1>1, <1>5, <1>7, <2>1 DEF RxAt, RingOK
<1>10. Fresh' <=> Fresh
  BY <1>1 DEF Fresh
<1>11. Heads' = Heads /\ Contents' = Contents /\ Handed' = Handed /\ Held' = Held
       /\ Boxed' = Boxed
  BY <1>1, <1>4 DEF Heads, Boxed, Contents, Place, Handed, Held
<1>12. RxAt(u, k, size)'
  <2>1. HeldOK
    BY DEF RxOK
  <2> QED BY <1>1, <1>3, <1>6, <1>7, <1>8, <1>9, <1>10, <1>11, <2>1, Calm
<1>13. HeldOK' /\ BoxedOK'
  <2>1. HeldOK'
    BY <1>1, <1>4 DEF HeldOK, Reading
  <2>2. BoxedOK
    BY DEF RxOK
  <2>3. BoxedOK'
    BY <1>1, <1>11, <2>2 DEF BoxedOK
  <2> QED BY <2>1, <2>3
<1>14. PartOK' /\ Sizes' = Sizes
  <2>1. Frames' = Frames
    BY DEF Frames
  <2> QED BY <1>1, <2>1 DEF RxOK, PartOK, Sizes, Bufs
<1> QED BY <1>7, <1>8, <1>12, <1>13, <1>14 DEF RxOK

-----------------------------------------------------------------------------
(* A frame begins to come in, ...                                          *)
LEMMA ComesSteps ==
  ASSUME EthType, LoadType, Comes
  PROVE  /\ eth.part = <<>>
         /\ \E f \in Frames : eth' = [eth EXCEPT !.part = [i \in 1..f.n |-> f]] /\ f.n \in Nat \ {0}
         /\ rx_desc' = rx_desc /\ bufs' = bufs /\ rx' = rx /\ spoilt' = spoilt /\ box' = box
         /\ pc' = pc /\ net' = net /\ loc' = loc
         /\ wire' = wire /\ tx_desc' = tx_desc /\ tx_index' = tx_index /\ val' = val
         /\ pkt' = pkt /\ handled' = handled
<1>1. PICK f \in load.kinds : Begins([f EXCEPT !.no = load.came + 1])
  BY DEF Comes
<1>2. load.came + 1 \in 1..Most
  BY NetAssumption DEF LoadType, Comes
<1>3. f \in Kinds /\ [f EXCEPT !.no = load.came + 1] \in Frames
  BY <1>1, <1>2 DEF LoadType, Frames
<1>4. PICK g \in Frames : g = [f EXCEPT !.no = load.came + 1]
  BY <1>3
<1>5. g.n \in Nat \ {0}
  <2>1. \A x \in Frames : x.n \in Nat \ {0}
    BY FrameFacts
  <2> QED BY <2>1
<1>6. Begins(g)
  BY <1>1, <1>4
<1> QED BY <1>5, <1>6 DEF Comes, Begins, schedVars, boxVars, netVars, rxVars, txVars

LEMMA ComesKeeps ==
  ASSUME SchedType, RxType, NetType, EthType, LoadType, RxOK, Comes
  PROVE  RxOK'
<1>1. /\ eth.part = <<>>
      /\ \E f \in Frames : eth' = [eth EXCEPT !.part = [i \in 1..f.n |-> f]] /\ f.n \in Nat \ {0}
      /\ rx_desc' = rx_desc /\ bufs' = bufs /\ rx' = rx /\ spoilt' = spoilt /\ box' = box
      /\ pc' = pc /\ net' = net
  BY ComesSteps
<1>2. PICK f \in Frames : eth' = [eth EXCEPT !.part = [i \in 1..f.n |-> f]] /\ f.n \in Nat \ {0}
  BY <1>1
<1>3. eth'.fill = eth.fill /\ eth'.part = [i \in 1..f.n |-> f]
  BY <1>2 DEF EthType
<1>4. Fresh /\ Fresh'
  <2>1. Fresh
    BY <1>1 DEF Fresh
  <2>2. PICK p, n : p = eth'.part /\ p = [i \in 1..n |-> f] /\ n = f.n /\ n \in Nat \ {0}
    BY <1>2, <1>3
  <2>3. Len(p) = n /\ p[1] = f
    BY <2>2
  <2>4. Head(p) = f
    <3>1. 1 \in 1..n /\ p # <<>>
      BY <2>2
    <3> QED BY <2>2, <2>3, <3>1
  <2>5. Fresh'
    BY <2>2, <2>3, <2>4 DEF Fresh
  <2> QED BY <2>1, <2>5
<1>5. PICK u, k \in 0..NumBufs, size \in Sizes : RxAt(u, k, size)
  BY DEF RxOK
<1>6. Heads' = Heads /\ Contents' = Contents /\ Handed' = Handed /\ Held' = Held
       /\ Boxed' = Boxed
  BY <1>1 DEF Heads, Boxed, Contents, Place, Handed, Held
<1>7. RxAt(u, k, size)'
  <2>1. HeldOK
    BY DEF RxOK
  <2>2. \A b \in Bufs : Kept(b)
    BY <1>1 DEF Kept
  <2>3. \A b \in Bufs : (Untaken(b)' <=> Untaken(b))
    BY <1>1 DEF Untaken
  <2>4. /\ \A b \in Bufs : bufs'[b].active /\ ~Freed(b)' => rx_desc'[b].used
        /\ \A b \in Bufs : bufs'[b].next \in {NoBuf, After(b)}
    BY <1>1, <1>5 DEF RxAt, RingOK, Freed
  <2> QED BY <1>1, <1>3, <1>4, <1>5, <1>6, <2>1, <2>2, <2>3, <2>4, Calm
<1>8. HeldOK' /\ BoxedOK'
  BY <1>1, <1>6 DEF HeldOK, BoxedOK, RxOK, Reading
<1>9. PartOK' /\ Sizes' = Sizes
  <2>1. Frames' = Frames
    BY DEF Frames
  <2>2. PICK n : n = f.n /\ n \in Nat \ {0}
    BY <1>2
  <2>3. n \in 1..n
    BY <2>2
  <2>4. PartOK'
    BY <1>3, <2>1, <2>2, <2>3 DEF PartOK
  <2> QED BY <2>1, <2>4 DEF Sizes, Bufs
<1> QED BY <1>5, <1>7, <1>8, <1>9 DEF RxOK

(* ... and its buffers are filled, or it is lost.                          *)
LEMMA LostSteps ==
  ASSUME RxType, EthType, PartOK, Fills, rx_desc[eth.fill].used,
         UNCHANGED <<schedVars, pc, boxVars, netVars>>
  PROVE  /\ rx_desc' = rx_desc /\ bufs' = bufs /\ rx' = rx /\ net' = net /\ pc' = pc /\ box' = box
         /\ eth' = [eth EXCEPT !.part = <<>>, !.rsr = @ \cup {"no buffer"}]
         /\ spoilt' = IF Fresh THEN spoilt ELSE spoilt \cup {"part"}
<1> DEFINE f == Head(eth.part)
<1>1. eth.part # <<>>
  BY DEF Fills
<1>2. Fresh <=> Len(eth.part) = f.n
  BY <1>1, PartFacts
<1>3. /\ eth' = [eth EXCEPT !.part = <<>>, !.rsr = @ \cup {"no buffer"}]
      /\ spoilt' = (IF Len(eth.part) = f.n THEN spoilt ELSE spoilt \cup {"part"})
      /\ rx_desc' = rx_desc /\ bufs' = bufs /\ rx' = rx
  BY DEF Fills
<1> QED BY <1>2, <1>3 DEF schedVars, boxVars, netVars

LEMMA LostKeeps ==
  ASSUME RxType, EthType, RxOK, Fills, rx_desc[eth.fill].used,
         UNCHANGED <<schedVars, pc, boxVars, netVars>>
  PROVE  RxOK'
<1>0. HeldOK /\ BoxedOK /\ PartOK
  BY DEF RxOK
<1>1. /\ rx_desc' = rx_desc /\ bufs' = bufs /\ rx' = rx /\ net' = net /\ pc' = pc /\ box' = box
      /\ eth' = [eth EXCEPT !.part = <<>>, !.rsr = @ \cup {"no buffer"}]
      /\ spoilt' = IF Fresh THEN spoilt ELSE spoilt \cup {"part"}
  BY <1>0, LostSteps
<1>2. eth'.part = <<>> /\ eth'.fill = eth.fill
  BY <1>1 DEF EthType
<1>3. Fresh' /\ PartOK'
  BY <1>2 DEF Fresh, PartOK
<1>4. spoilt \subseteq spoilt' /\ (Fresh \/ "part" \in spoilt')
  BY <1>1
<1>5. PICK u, k \in 0..NumBufs, size \in Sizes : RxAt(u, k, size)
  BY DEF RxOK
<1>6. Heads' = Heads /\ Contents' = Contents /\ Handed' = Handed /\ Held' = Held
       /\ Boxed' = Boxed
  BY <1>1 DEF Heads, Boxed, Contents, Place, Handed, Held
<1>7. RxAt(u, k, size)'
  <2>2. \A b \in Bufs : Kept(b)
    BY <1>1 DEF Kept
  <2>3. \A b \in Bufs : (Untaken(b)' <=> Untaken(b))
    BY <1>1 DEF Untaken
  <2>4. /\ \A b \in Bufs : bufs'[b].active /\ ~Freed(b)' => rx_desc'[b].used
        /\ \A b \in Bufs : bufs'[b].next \in {NoBuf, After(b)}
    BY <1>1, <1>5 DEF RxAt, RingOK, Freed
  <2> QED BY <1>0, <1>1, <1>2, <1>3, <1>4, <1>5, <1>6, <2>2, <2>3, <2>4, Calm
<1>8. HeldOK' /\ BoxedOK'
  BY <1>0, <1>1, <1>6 DEF HeldOK, BoxedOK, Reading
<1> QED BY <1>3, <1>5, <1>7, <1>8 DEF RxOK, Sizes, Bufs

LEMMA FillsKeepRx ==
  ASSUME RxType, EthType, RxOK, Fills, ~rx_desc[eth.fill].used,
         UNCHANGED <<schedVars, pc, boxVars, netVars>>
  PROVE  RxOK'
<1>0. HeldOK /\ BoxedOK /\ PartOK
  BY DEF RxOK
<1>1. FillPost(eth.fill) /\ PartOK'
  BY <1>0, FillSteps
<1>2. PICK u, k \in 0..NumBufs, size \in Sizes : RxAt(u, k, size)
  BY DEF RxOK
<1>3. u + 1 \in 0..NumBufs /\ RxAt(u + 1, k, size)'
  BY <1>0, <1>1, <1>2, FillKeeps
<1>4. net' = net /\ pc' = pc /\ box' = box /\ rx' = rx
  BY <1>1 DEF FillPost
<1>5. Contents' = Contents /\ Handed' = Handed /\ Held' = Held /\ Boxed' = Boxed
  BY <1>4 DEF Boxed, Contents, Place, Handed, Held
<1>6. HeldOK' /\ BoxedOK'
  BY <1>0, <1>4, <1>5 DEF HeldOK, BoxedOK, Reading
<1>7. \E v \in 0..NumBufs : RxAt(v, k, size)'
  BY <1>3
<1> QED BY <1>1, <1>6, <1>7 DEF RxOK, Sizes, Bufs

(* dev_buf_free() puts a buffer out of use, and goes on with the next.     *)
Retired == NetFree /\ pc["net"] = "retire"
LEMMA RetiredSteps ==
  ASSUME SchedType, RxType, NetType, RxOK, Retired
  PROVE  /\ RetirePost(net.rest) /\ bufs' \in [Bufs -> NetBufs]
         /\ net' = [net EXCEPT !.buf = net.rest, !.rest = bufs[net.rest].next]
         /\ wire' = wire /\ tx_desc' = tx_desc /\ tx_index' = tx_index /\ val' = val
         /\ pkt' = pkt /\ handled' = handled /\ loc' = loc
<1>1. /\ Does("retire", "unchain") /\ Retire(net.rest)
      /\ net' = [net EXCEPT !.buf = net.rest, !.rest = bufs[net.rest].next]
      /\ UNCHANGED <<rx_desc, rx, txVars, eth, val, spoilt, pkt, handled>>
  <2>1. ASSUME NEW to, Does("unchain", to) \/ Does("free", to) PROVE FALSE
    <3>1. pc["net"] = "unchain" \/ pc["net"] = "free"
      BY <2>1, DoesSteps
    <3> QED BY <3>1 DEF Retired
  <2> QED BY <2>1 DEF Retired, NetFree
<1>2. loc' = loc /\ HeldOK
  BY <1>1, DoesSteps DEF RxOK
<1> QED BY <1>1, <1>2, RetireSteps DEF txVars

LEMMA RetiredKeeps ==
  ASSUME SchedType, RxType, NetType, RxOK, Retired
  PROVE  RxOK' /\ \A b \in Bufs : (Untaken(b)' <=> Untaken(b))
<1>0. HeldOK /\ BoxedOK /\ PartOK
  BY DEF RxOK
<1>1. PICK b : b = net.rest /\ RetirePost(b)
  BY RetiredSteps
<1>2. PICK u, k \in 0..NumBufs, size \in Sizes : RxAt(u, k, size)
  BY DEF RxOK
<1>3. PICK z \in Sizes : RxAt(u, k, z)'
  BY <1>0, <1>1, <1>2, RetireKeeps
<1>4. \A x \in Bufs : Untaken(x)' <=> Untaken(x)
  BY <1>0, <1>1, <1>2, RetireKeeps
<1>5. PICK c : c = bufs[b].next
  OBVIOUS
<1>6. /\ Boxed' = Boxed /\ Handed' = Handed /\ Held' = {c} \ {NoBuf}
      /\ c # NoBuf => c \notin Boxed \cup Handed
  BY <1>0, <1>1, <1>2, <1>5, RetireHeads
<1>7. /\ pc'["net"] = "unchain" /\ net'.buf = b /\ b \in Bufs /\ box' = box /\ eth' = eth
  BY <1>1 DEF RetirePost
<1>8. Contents' = Contents
  BY <1>7 DEF Contents, Place
<1>9. BoxedOK'
  BY <1>0, <1>6, <1>7, <1>8 DEF BoxedOK
<1>10. HeldOK'
  BY <1>7 DEF HeldOK, Bufs, NoBuf, Reading
<1>11. PartOK'
  <2>1. Frames' = Frames
    BY DEF Frames
  <2> QED BY <1>0, <1>7, <2>1 DEF PartOK
<1> QED BY <1>3, <1>4, <1>9, <1>10, <1>11 DEF RxOK, Sizes, Bufs

(* emac_rx_task() takes a buffer.                                          *)
LEMMA TakeKeeps ==
  ASSUME SchedType, RxType, RxOK, RxTake, UNCHANGED netVars
  PROVE  RxOK'
<1>0. HeldOK /\ BoxedOK /\ PartOK
  BY DEF RxOK
<1>1. PICK u, k \in 0..NumBufs, size \in Sizes : RxAt(u, k, size)
  BY DEF RxOK
<1>2. /\ u > 0
      /\ \E s, n : /\ TakePost(s, n) /\ Linked(s, n, size)
                   /\ IF rx_desc[rx.index].start
                      THEN s = rx.index /\ n = 1 /\ (k > 0 => "part" \in spoilt)
                      ELSE s = rx.start /\ n = k + 1 /\ k > 0
  BY <1>0, <1>1, TakeSteps
<1>3. PICK s, n : /\ TakePost(s, n) /\ Linked(s, n, size)
                  /\ k > 0 => "part" \in spoilt \/ (s = rx.start /\ n = k + 1)
  BY <1>2
<1>4. u \in 1..NumBufs /\ n \in 0..NumBufs /\ 0 \in 0..NumBufs
  BY <1>1, <1>2, <1>3, EmacAssumption DEF TakePost
<1>5. RingOK(u) /\ OrderOK(u, k) /\ ChainsOK(size) /\ OwnedOK(k, size)
  BY <1>1 DEF RxAt
<1>6. RingOK(u - 1)' /\ u - 1 \in 0..NumBufs
  BY <1>3, <1>4, <1>5, TakeRing
<1>7. PICK m \in {0, n} : (rx_desc[rx.index].end <=> m = 0) /\ OrderOK(u - 1, m)'
  BY <1>3, <1>4, <1>5, TakeOrder
<1>8. n # 0
  BY <1>3 DEF TakePost
<1>9. \E z \in Sizes : ChainsOK(z)' /\ LinkingOK(m, z)' /\ OwnedOK(m, z)'
  <2>1. CASE rx_desc[rx.index].end
    <3>1. m = 0
      BY <1>7, <2>1
    <3> QED BY <1>3, <1>5, <2>1, <3>1, TakeEnd
  <2>2. CASE ~rx_desc[rx.index].end
    <3>1. m = n
      BY <1>7, <2>2
    <3>2. ChainsOK(size)' /\ LinkingOK(n, size)' /\ OwnedOK(n, size)'
      BY <1>3, <1>5, <2>2, TakeOn
    <3> QED BY <3>1, <3>2
  <2> QED BY <2>1, <2>2
<1>10. PICK z \in Sizes : RxAt(u - 1, m, z)'
  BY <1>6, <1>7, <1>9 DEF RxAt
<1>11. /\ Boxed' = Boxed /\ Held' = Held /\ Handed = {}
       /\ Handed' = {} \/ (rx_desc[rx.index].end /\ Handed' = {s})
  BY <1>3, TakeHeads
<1>12. /\ box' = box /\ net' = net /\ pc'["net"] = pc["net"] /\ eth' = eth
  BY <1>3 DEF TakePost
<1>13. BoxedOK'
  <2>1. Contents' = Contents
    BY <1>12 DEF Contents, Place
  <2>2. rx_desc[rx.index].end => s \notin Boxed /\ s \notin Held
    BY <1>3, <1>5, TakeEnd DEF Heads
  <2> QED BY <1>0, <1>11, <1>12, <2>1, <2>2 DEF BoxedOK
<1>14. HeldOK'
  BY <1>0, <1>12 DEF HeldOK, Reading
<1>15. PartOK'
  <2>1. Frames' = Frames
    BY DEF Frames
  <2> QED BY <1>0, <1>12, <2>1 DEF PartOK
<1>16. \E v, y \in 0..NumBufs, w \in Sizes : RxAt(v, y, w)'
  BY <1>4, <1>6, <1>7, <1>10
<1> QED BY <1>13, <1>14, <1>15, <1>16 DEF RxOK, Sizes, Bufs

-----------------------------------------------------------------------------
(* The types, step by step.                                                *)
LEMMA Same ==
  /\ Frames' = Frames /\ Descs' = Descs /\ NetBufs' = NetBufs /\ Bufs' = Bufs /\ Pkts' = Pkts
  /\ Signs' = Signs /\ Troubles' = Troubles
  BY DEF Frames, Descs, NetBufs, Bufs, Pkts, Signs, Troubles

LEMMA RxSame ==
  ASSUME RxType, rx_desc' = rx_desc, bufs' = bufs, rx' = rx
  PROVE  RxType'
  BY Same DEF RxType

LEMMA TxSame ==
  ASSUME TxType, tx_desc' = tx_desc, tx_index' = tx_index, wire' = wire
  PROVE  TxType'
  BY Same DEF TxType

LEMMA EthSame ==
  ASSUME EthType, eth' = eth, val' = val, spoilt' \subseteq spoilt \cup Troubles
  PROVE  EthType'
  BY Same DEF EthType

LEMMA NetSame ==
  ASSUME NetType, net' = net, pkt' = pkt, handled' = handled
  PROVE  NetType'
  BY Same DEF NetType

LEMMA BoxSame ==
  ASSUME BoxOK, box' = box, loc' = loc
  PROVE  BoxOK'
  BY DEF BoxOK, Place

Types == RxType /\ TxType /\ EthType /\ NetType /\ BoxOK

LEMMA QuietEmacTypes ==
  ASSUME Types, RxSleep \/ RxStart \/ RxStop, UNCHANGED netVars
  PROVE  Types'
<1>1. /\ rx_desc' = rx_desc /\ bufs' = bufs /\ rx' = rx
      /\ tx_desc' = tx_desc /\ tx_index' = tx_index /\ wire' = wire
      /\ val' = val /\ net' = net /\ pkt' = pkt /\ handled' = handled
      /\ box' = box /\ loc' = loc
  BY DEF RxSleep, RxStart, RxStop, emacVars, rxVars, txVars, netVars, boxVars
<1>2. spoilt' \subseteq spoilt \cup Troubles
  BY DEF RxSleep, RxStart, RxStop, emacVars, Troubles
<1>3. eth' = eth \/ eth' = [eth EXCEPT !.on = TRUE]
  BY DEF RxSleep, RxStart, RxStop, emacVars
<1>4. eth' \in [rsr : SUBSET Signs, irq : BOOLEAN, on : BOOLEAN, fill : Bufs, part : Seq(Frames),
                sending : BOOLEAN, send : Bufs]
  BY <1>3 DEF Types, EthType
<1>5. EthType'
  BY <1>1, <1>2, <1>4, Same DEF Types, EthType
<1> QED BY <1>1, <1>5, RxSame, TxSame, NetSame, BoxSame DEF Types

LEMMA TakeTypes ==
  ASSUME Types, RxTake, UNCHANGED netVars
  PROVE  Types'
<1>1. /\ rx_desc' = rx_desc /\ eth' = eth /\ spoilt' = spoilt
      /\ tx_desc' = tx_desc /\ tx_index' = tx_index /\ wire' = wire
      /\ val' = val /\ net' = net /\ pkt' = pkt /\ handled' = handled
      /\ box' = box /\ loc' = loc
  BY DEF RxTake, txVars, netVars, boxVars
<1>2. PICK i : i = rx.index /\ i \in Bufs
  BY DEF Types, RxType
<1>3. PICK d : d = rx_desc[i] /\ rx_desc[i].used
  BY <1>2 DEF RxTake, Ready
<1>4. /\ bufs' = [bufs EXCEPT ![i] = [active |-> TRUE,
                                       next |-> IF d.end THEN NoBuf ELSE After(i)]]
      /\ rx' = [index |-> After(i), start |-> IF d.start THEN i ELSE rx.start]
  BY <1>2, <1>3 DEF RxTake
<1>5. After(i) \in Bufs
  BY <1>2, EmacAssumption DEF After, Bufs
<1>6. bufs' \in [Bufs -> NetBufs]
  <2>1. [active |-> TRUE, next |-> IF d.end THEN NoBuf ELSE After(i)] \in NetBufs
    BY <1>5 DEF NetBufs
  <2> QED BY <1>4, <2>1 DEF Types, RxType
<1>7. rx' \in [index : Bufs, start : Bufs \cup {NoBuf}]
  BY <1>2, <1>4, <1>5 DEF Types, RxType
<1>8. \A b \in Bufs : rx_desc'[b].used \/ bufs'[b].active => rx_desc'[b].frame \in Frames
  <2> TAKE b \in Bufs
  <2>1. CASE b = i
    BY <1>1, <1>3, <2>1 DEF Types, RxType
  <2>2. CASE b # i
    <3>1. bufs'[b] = bufs[b]
      BY <1>4, <2>2 DEF Types, RxType
    <3> QED BY <1>1, <3>1 DEF Types, RxType
  <2> QED BY <2>1, <2>2
<1>9. RxType'
  BY <1>1, <1>6, <1>7, <1>8, Same DEF Types, RxType
<1> QED BY <1>1, <1>9, TxSame, EthSame, NetSame, BoxSame DEF Types

LEMMA HandTypes ==
  ASSUME Types, SchedType, RxOK, RxHand, UNCHANGED netVars
  PROVE  Types'
<1>1. /\ rx_desc' = rx_desc /\ eth' = eth /\ bufs' = bufs /\ rx' = rx
      /\ tx_desc' = tx_desc /\ tx_index' = tx_index /\ wire' = wire
      /\ val' = val /\ net' = net /\ pkt' = pkt /\ handled' = handled
  BY DEF RxHand, txVars, netVars, rxVars
<1>2. spoilt' \subseteq spoilt \cup Troubles
  BY DEF RxHand, Troubles
<1>3. BoxOK'
  BY HandSteps DEF Types
<1> QED BY <1>1, <1>2, <1>3, RxSame, TxSame, EthSame, NetSame DEF Types

LEMMA IsrTypes ==
  ASSUME Types, IsrRead \/ IsrClear \/ IsrEnter, UNCHANGED netVars
  PROVE  Types'
<1>1. /\ rx_desc' = rx_desc /\ bufs' = bufs /\ rx' = rx
      /\ tx_desc' = tx_desc /\ tx_index' = tx_index /\ wire' = wire
      /\ net' = net /\ pkt' = pkt /\ handled' = handled
      /\ box' = box /\ loc' = loc
  BY DEF IsrRead, IsrClear, IsrEnter, rxVars, txVars, netVars, boxVars
<1>2. spoilt' \subseteq spoilt \cup Troubles
  BY DEF IsrRead, IsrClear, IsrEnter, Troubles
<1>3. eth.rsr \in SUBSET Signs
  BY DEF Types, EthType
<1>4. val' \subseteq Signs
  BY <1>3 DEF IsrRead, IsrClear, IsrEnter, Types, EthType
<1>5. eth' = eth \/ eth' = [eth EXCEPT !.irq = FALSE] \/ eth' = [eth EXCEPT !.rsr = @ \ val]
  BY DEF IsrRead, IsrClear, IsrEnter
<1>6. eth' \in [rsr : SUBSET Signs, irq : BOOLEAN, on : BOOLEAN, fill : Bufs, part : Seq(Frames),
                sending : BOOLEAN, send : Bufs]
  <2>1. eth.rsr \ val \in SUBSET Signs
    BY <1>3
  <2> QED BY <1>5, <2>1 DEF Types, EthType
<1>7. EthType'
  <2>1. spoilt' \subseteq Troubles
    BY <1>2 DEF Types, EthType
  <2> QED BY <1>4, <1>6, <2>1, Same DEF EthType
<1> QED BY <1>1, <1>7, RxSame, TxSame, NetSame, BoxSame DEF Types

LEMMA SendsTypes ==
  ASSUME Types, Sends, UNCHANGED <<schedVars, pc, boxVars, netVars>>
  PROVE  Types'
<1>1. /\ rx_desc' = rx_desc /\ bufs' = bufs /\ rx' = rx /\ tx_index' = tx_index
      /\ net' = net /\ pkt' = pkt /\ handled' = handled /\ val' = val
      /\ box' = box /\ loc' = loc
  BY DEF Sends, rxVars, netVars, boxVars
<1>2. spoilt' \subseteq spoilt \cup Troubles
  BY DEF Sends, Troubles
<1>3. PICK s : s = eth.send /\ s \in Bufs
  BY DEF Types, EthType
<1>4. After(s) \in Bufs
  BY <1>3, EmacAssumption DEF After, Bufs
<1>5. eth' = [eth EXCEPT !.sending = FALSE] \/ eth' = [eth EXCEPT !.send = After(s)]
  BY <1>3 DEF Sends
<1>6. eth' \in [rsr : SUBSET Signs, irq : BOOLEAN, on : BOOLEAN, fill : Bufs, part : Seq(Frames),
                sending : BOOLEAN, send : Bufs]
  BY <1>4, <1>5 DEF Types, EthType
<1>7. EthType'
  BY <1>1, <1>2, <1>6, Same DEF Types, EthType
<1>8. tx_desc[s] \in [stat : SUBSET {"used", "last", "size"}, pkt : Pkts \cup {0}]
  BY <1>3 DEF Types, TxType
<1>9. tx_desc' \in [Bufs -> [stat : SUBSET {"used", "last", "size"}, pkt : Pkts \cup {0}]]
  <2>1. PICK e : e = [tx_desc[s] EXCEPT !.stat = @ \cup {"used"}]
    OBVIOUS
  <2>2. e \in [stat : SUBSET {"used", "last", "size"}, pkt : Pkts \cup {0}]
    BY <1>8, <2>1
  <2>3. tx_desc' = tx_desc \/ tx_desc' = [tx_desc EXCEPT ![s] = e]
    BY <1>3, <2>1 DEF Sends
  <2> QED BY <2>2, <2>3, <1>3 DEF Types, TxType
<1>10. wire' \in Seq(Pkts \cup {0})
  <2>1. wire' = wire \/ wire' = Append(wire, tx_desc[s].pkt)
    BY <1>3 DEF Sends
  <2>2. tx_desc[s].pkt \in Pkts \cup {0}
    BY <1>8
  <2>3. wire \in Seq(Pkts \cup {0})
    BY DEF Types, TxType
  <2> QED BY <2>1, <2>2, <2>3, AppendProperties
<1>11. TxType'
  BY <1>1, <1>9, <1>10, Same DEF Types, TxType
<1> QED BY <1>1, <1>7, <1>11, RxSame, NetSame, BoxSame DEF Types

LEMMA FillsTypes ==
  ASSUME Types, RxOK, Fills, UNCHANGED <<schedVars, pc, boxVars, netVars>>
  PROVE  Types'
<1>1. /\ bufs' = bufs /\ rx' = rx /\ tx_index' = tx_index /\ tx_desc' = tx_desc /\ wire' = wire
      /\ net' = net /\ pkt' = pkt /\ handled' = handled /\ val' = val
      /\ box' = box /\ loc' = loc
  BY DEF Fills, txVars, netVars, boxVars
<1>2. PICK i : i = eth.fill /\ i \in Bufs
  BY DEF Types, EthType
<1>3. After(i) \in Bufs
  BY <1>2, EmacAssumption DEF After, Bufs
<1>4. RxType /\ EthType /\ PartOK
  BY DEF Types, RxOK
<1>5. CASE rx_desc[i].used
  <2>1. /\ rx_desc' = rx_desc
        /\ eth' = [eth EXCEPT !.part = <<>>, !.rsr = @ \cup {"no buffer"}]
        /\ spoilt' = IF Fresh THEN spoilt ELSE spoilt \cup {"part"}
    BY <1>2, <1>4, <1>5, LostSteps
  <2>2. eth' \in [rsr : SUBSET Signs, irq : BOOLEAN, on : BOOLEAN, fill : Bufs, part : Seq(Frames),
                  sending : BOOLEAN, send : Bufs]
    <3>1. eth.rsr \cup {"no buffer"} \in SUBSET Signs
      BY <1>4 DEF EthType, Signs
    <3>2. <<>> \in Seq(Frames)
      OBVIOUS
    <3>3. PICK r, p : /\ r = eth.rsr \cup {"no buffer"} /\ r \in SUBSET Signs
                      /\ p = <<>> /\ p \in Seq(Frames)
      BY <3>1, <3>2
    <3>4. eth' = [eth EXCEPT !.part = p, !.rsr = r]
      BY <2>1, <3>3
    <3> QED BY <1>4, <3>3, <3>4 DEF EthType
  <2>3. EthType'
    <3>1. spoilt' \subseteq Troubles
      BY <1>4, <2>1 DEF EthType, Troubles
    <3> QED BY <1>1, <1>4, <2>2, <3>1, Same DEF EthType
  <2> QED BY <1>1, <2>1, <2>3, RxSame, TxSame, NetSame, BoxSame DEF Types
<1>6. CASE ~rx_desc[i].used
  <2>1. /\ FillPost(i) /\ Head(eth.part) \in Frames
        /\ rx_desc' \in [Bufs -> Descs] /\ eth'.part \in Seq(Frames)
    BY <1>2, <1>4, <1>6, FillSteps
  <2>2. /\ \A b \in Bufs : b # i => rx_desc'[b] = rx_desc[b]
        /\ rx_desc'[i].frame \in Frames
    BY <2>1 DEF FillPost
  <2>3. RxType'
    <3>1. \A b \in Bufs : rx_desc'[b].used \/ bufs'[b].active => rx_desc'[b].frame \in Frames
      BY <1>1, <1>4, <2>2 DEF RxType
    <3> QED BY <1>1, <1>4, <2>1, <3>1, Same DEF RxType
  <2>4. PICK e : e = (Len(eth.part) = 1)
    OBVIOUS
  <2>5. /\ eth' = [eth EXCEPT !.fill = After(i), !.part = Tail(@),
                              !.rsr = IF e THEN @ \cup {"frame"} ELSE @, !.irq = @ \/ e]
        /\ spoilt' = spoilt
    BY <1>2, <1>6, <2>4 DEF Fills
  <2>6. PICK p : p = Tail(eth.part) /\ p \in Seq(Frames)
    <3>1. eth'.part = Tail(eth.part)
      BY <2>5, <1>4 DEF EthType
    <3> QED BY <2>1, <3>1
  <2>7. PICK q : q = (eth.irq \/ e) /\ q \in BOOLEAN
    <3>1. (eth.irq \/ e) \in BOOLEAN
      OBVIOUS
    <3> QED BY <3>1
  <2>8. PICK r : r = (IF e THEN eth.rsr \cup {"frame"} ELSE eth.rsr) /\ r \in SUBSET Signs
    <3>1. eth.rsr \cup {"frame"} \in SUBSET Signs /\ eth.rsr \in SUBSET Signs
      BY <1>4 DEF EthType, Signs
    <3> QED BY <3>1
  <2>9. eth' = [eth EXCEPT !.fill = After(i), !.part = p, !.rsr = r, !.irq = q]
    BY <2>5, <2>6, <2>7, <2>8
  <2>10. eth' \in [rsr : SUBSET Signs, irq : BOOLEAN, on : BOOLEAN, fill : Bufs, part : Seq(Frames),
                   sending : BOOLEAN, send : Bufs]
    BY <1>3, <1>4, <2>6, <2>7, <2>8, <2>9 DEF EthType
  <2>11. EthType'
    BY <1>1, <1>4, <2>5, <2>10, Same DEF EthType
  <2> QED BY <1>1, <2>3, <2>11, TxSame, NetSame, BoxSame DEF Types
<1> QED BY <1>5, <1>6

LEMMA ComesTypes ==
  ASSUME Types, LoadType, Comes
  PROVE  Types' /\ LoadType'
<1>1. /\ \E f \in Frames : eth' = [eth EXCEPT !.part = [i \in 1..f.n |-> f]] /\ f.n \in Nat \ {0}
      /\ rx_desc' = rx_desc /\ bufs' = bufs /\ rx' = rx /\ spoilt' = spoilt /\ box' = box
      /\ net' = net /\ loc' = loc
      /\ wire' = wire /\ tx_desc' = tx_desc /\ tx_index' = tx_index /\ val' = val
      /\ pkt' = pkt /\ handled' = handled
  BY ComesSteps DEF Types
<1>2. PICK f \in Frames : eth' = [eth EXCEPT !.part = [i \in 1..f.n |-> f]] /\ f.n \in Nat \ {0}
  BY <1>1
<1>3. PICK n : n = f.n /\ n \in Nat
  BY <1>2
<1>4. [i \in 1..n |-> f] \in Seq(Frames)
  BY <1>3
<1>5. eth' \in [rsr : SUBSET Signs, irq : BOOLEAN, on : BOOLEAN, fill : Bufs, part : Seq(Frames),
                sending : BOOLEAN, send : Bufs]
  BY <1>2, <1>3, <1>4 DEF Types, EthType
<1>6. EthType'
  BY <1>1, <1>5, Same DEF Types, EthType
<1>7. LoadType'
  <2>1. load.more > 0 /\ load' = [load EXCEPT !.more = @ - 1, !.came = @ + 1]
    BY DEF Comes
  <2>2. PICK m, c : m = load.more - 1 /\ c = load.came + 1
    OBVIOUS
  <2>3. load.more \in Nat /\ load.came \in Nat /\ load.came + load.more <= Most /\ Most \in Nat
    BY NetAssumption DEF LoadType
  <2>4. m \in Nat /\ c \in Nat /\ c + m <= Most
    BY <2>1, <2>2, <2>3
  <2>5. load' = [load EXCEPT !.more = m, !.came = c]
    BY <2>1, <2>2
  <2> QED BY <2>4, <2>5 DEF LoadType
<1> QED BY <1>1, <1>6, <1>7, RxSame, TxSame, NetSame, BoxSame DEF Types

LEMMA FreeTypes ==
  ASSUME Types, SchedType, RxOK, NetFree
  PROVE  Types'
<1>0. RxType /\ NetType /\ EthType
  BY DEF Types
<1>1. CASE Given
  <2>1. /\ net.rest \in Bufs /\ net' = net /\ box' = box
        /\ rx_desc' = [rx_desc EXCEPT ![net.rest].used = FALSE]
        /\ bufs' = bufs /\ rx' = rx /\ eth' = eth /\ spoilt' = spoilt
        /\ wire' = wire /\ tx_desc' = tx_desc /\ tx_index' = tx_index /\ val' = val
        /\ pkt' = pkt /\ handled' = handled /\ loc' = loc
    BY <1>0, <1>1, GivenSteps
  <2>2. PICK h \in Bufs : h = net.rest
    BY <2>1
  <2>3. PICK d : d = [rx_desc[h] EXCEPT !.used = FALSE]
    OBVIOUS
  <2>4. d \in Descs /\ d.frame = rx_desc[h].frame /\ ~d.used
    BY <1>0, <2>3 DEF RxType, Descs
  <2>5. rx_desc' = [rx_desc EXCEPT ![h] = d]
    BY <2>1, <2>2, <2>3
  <2>6. RxType'
    <3>1. rx_desc' \in [Bufs -> Descs]
      BY <1>0, <2>4, <2>5 DEF RxType
    <3>2. \A b \in Bufs : rx_desc'[b].used \/ bufs'[b].active => rx_desc'[b].frame \in Frames
      BY <1>0, <2>1, <2>4, <2>5 DEF RxType
    <3> QED BY <1>0, <2>1, <3>1, <3>2, Same DEF RxType
  <2> QED BY <2>1, <2>6, TxSame, EthSame, NetSame, BoxSame DEF Types
<1>2. CASE Retired
  <2>1. /\ RetirePost(net.rest) /\ bufs' \in [Bufs -> NetBufs]
        /\ net' = [net EXCEPT !.buf = net.rest, !.rest = bufs[net.rest].next]
        /\ wire' = wire /\ tx_desc' = tx_desc /\ tx_index' = tx_index /\ val' = val
        /\ pkt' = pkt /\ handled' = handled /\ loc' = loc
    BY <1>0, <1>2, RetiredSteps
  <2>2. PICK h \in Bufs : h = net.rest
    BY <2>1 DEF RetirePost
  <2>3. /\ rx_desc' = rx_desc /\ rx' = rx /\ eth' = eth /\ spoilt' = spoilt /\ box' = box
        /\ ~bufs'[h].active /\ \A x \in Bufs : x # h => bufs'[x] = bufs[x]
    BY <2>1, <2>2 DEF RetirePost
  <2>4. RxType'
    <3>1. \A b \in Bufs : rx_desc'[b].used \/ bufs'[b].active => rx_desc'[b].frame \in Frames
      BY <1>0, <2>3 DEF RxType
    <3> QED BY <1>0, <2>1, <2>3, <3>1, Same DEF RxType
  <2>5. NetType'
    <3>1. bufs[h].next \in Bufs \cup {NoBuf}
      BY <1>0 DEF RxType, NetBufs
    <3> QED BY <1>0, <2>1, <2>2, <3>1, Same DEF NetType
  <2> QED BY <2>1, <2>3, <2>4, <2>5, TxSame, EthSame, BoxSame DEF Types
<1>3. CASE Unchained
  <2>1. /\ net.buf \in Bufs /\ net' = [net EXCEPT !.buf = net.rest] /\ box' = box
        /\ bufs' = [bufs EXCEPT ![net.buf].next = NoBuf]
        /\ spoilt' = IF bufs[net.buf].active /\ bufs[net.buf].next # NoBuf
                      THEN spoilt \cup {"cut"} ELSE spoilt
        /\ rx_desc' = rx_desc /\ rx' = rx /\ eth' = eth
        /\ wire' = wire /\ tx_desc' = tx_desc /\ tx_index' = tx_index /\ val' = val
        /\ pkt' = pkt /\ handled' = handled /\ loc' = loc
    BY <1>0, <1>3, UnchainedSteps
  <2>2. PICK h \in Bufs : h = net.buf
    BY <2>1
  <2>3. PICK e : e = [bufs[h] EXCEPT !.next = NoBuf]
    OBVIOUS
  <2>4. e \in NetBufs /\ e.active = bufs[h].active
    BY <1>0, <2>3 DEF RxType, NetBufs
  <2>5. bufs' = [bufs EXCEPT ![h] = e]
    BY <2>1, <2>2, <2>3
  <2>6. RxType'
    <3>1. bufs' \in [Bufs -> NetBufs]
      BY <1>0, <2>4, <2>5 DEF RxType
    <3>2. \A b \in Bufs : rx_desc'[b].used \/ bufs'[b].active => rx_desc'[b].frame \in Frames
      BY <1>0, <2>1, <2>4, <2>5 DEF RxType
    <3> QED BY <1>0, <2>1, <3>1, <3>2, Same DEF RxType
  <2>7. spoilt' \subseteq spoilt \cup Troubles
    BY <2>1 DEF Troubles
  <2>8. NetType'
    BY <1>0, <2>1, Same DEF NetType
  <2> QED BY <2>1, <2>6, <2>7, <2>8, TxSame, EthSame, BoxSame DEF Types
<1>4. pc["net"] \in {"free", "retire", "unchain"}
  <2>1. ASSUME NEW from \in {"free", "retire", "unchain"}, NEW to, Does(from, to)
        PROVE  pc["net"] = from
    BY <2>1, DoesSteps
  <2> QED BY <2>1 DEF NetFree
<1> QED BY <1>1, <1>2, <1>3, <1>4 DEF Given, Retired, Unchained

LEMMA GotTypes ==
  ASSUME Types, SchedType, RxOK, NetTake, Got
  PROVE  Types'
<1>1. /\ BoxOK' /\ net' = [net EXCEPT !.buf = loc', !.rest = loc'] /\ loc' \in Bufs
  BY GotSteps DEF Types
<1>2. /\ rx_desc' = rx_desc /\ bufs' = bufs /\ rx' = rx /\ eth' = eth /\ spoilt' = spoilt
      /\ wire' = wire /\ tx_desc' = tx_desc /\ tx_index' = tx_index /\ val' = val
      /\ pkt' = pkt /\ handled' = handled
  BY DEF NetTake, emacVars, rxVars, txVars
<1>3. PICK l \in Bufs : l = loc'
  BY <1>1
<1>4. NetType'
  <2>1. net' = [net EXCEPT !.buf = l, !.rest = l]
    BY <1>1, <1>3
  <2> QED BY <1>2, <2>1, Same DEF Types, NetType
<1> QED BY <1>1, <1>2, <1>4, RxSame, TxSame, EthSame DEF Types

LEMMA StackTypes ==
  ASSUME Types, SchedType, RxOK, NetStart \/ NetWait \/ NetAnswer \/ NetSend
  PROVE  Types'
<1>1. /\ rx_desc' = rx_desc /\ bufs' = bufs /\ rx' = rx /\ val' = val
      /\ box' = box /\ loc' = loc
  BY DEF NetStart, NetWait, NetAnswer, NetSend, emacVars, rxVars, boxVars, Does
<1>2. eth' = eth \/ eth' = [eth EXCEPT !.sending = TRUE]
  BY DEF NetStart, NetWait, NetAnswer, NetSend, emacVars
<1>3. spoilt' \subseteq spoilt \cup Troubles
  BY DEF NetStart, NetWait, NetAnswer, NetSend, emacVars, TxCopy, TxMark, TxNext, Troubles, txVars
<1>4. EthType'
  <2>1. eth' \in [rsr : SUBSET Signs, irq : BOOLEAN, on : BOOLEAN, fill : Bufs, part : Seq(Frames),
                sending : BOOLEAN, send : Bufs]
    BY <1>2 DEF Types, EthType
  <2>2. spoilt' \subseteq Troubles
    BY <1>3 DEF Types, EthType
  <2> QED BY <1>1, <2>1, <2>2, Same DEF Types, EthType
<1>5. TxType'
  <2>1. PICK t : t = tx_index /\ t \in Bufs
    BY DEF Types, TxType
  <2>2. pkt \in Pkts
    BY DEF Types, NetType
  <2>3. tx_desc \in [Bufs -> [stat : SUBSET {"used", "last", "size"}, pkt : Pkts \cup {0}]]
    BY DEF Types, TxType
  <2>4. CASE NetStart \/ NetWait \/ NetAnswer
    BY <2>4, TxSame DEF Types, NetStart, NetWait, NetAnswer, emacVars, txVars
  <2>5. CASE TxCopy(pkt)
    <3>1. PICK d : d = [stat |-> {}, pkt |-> pkt]
      OBVIOUS
    <3>2. d \in [stat : SUBSET {"used", "last", "size"}, pkt : Pkts \cup {0}]
      BY <2>2, <3>1
    <3>3. tx_desc' = [tx_desc EXCEPT ![t] = d] /\ tx_index' = tx_index /\ wire' = wire
      BY <2>1, <2>5, <3>1 DEF TxCopy
    <3> QED BY <2>3, <3>2, <3>3, Same DEF Types, TxType
  <2>6. ASSUME NEW bit \in {"last", "size"}, TxMark(bit)
        PROVE  TxType'
    <3>1. PICK d : d = [tx_desc[t] EXCEPT !.stat = @ \cup {bit}]
      OBVIOUS
    <3>2. d \in [stat : SUBSET {"used", "last", "size"}, pkt : Pkts \cup {0}]
      <4>1. tx_desc[t] \in [stat : SUBSET {"used", "last", "size"}, pkt : Pkts \cup {0}]
        BY <2>1, <2>3
      <4> QED BY <3>1, <4>1
    <3>3. tx_desc' = [tx_desc EXCEPT ![t] = d] /\ tx_index' = tx_index /\ wire' = wire
      BY <2>1, <2>6, <3>1 DEF TxMark
    <3> QED BY <2>3, <3>2, <3>3, Same DEF Types, TxType
  <2>7. CASE TxNext
    <3>1. After(t) \in Bufs
      BY <2>1, EmacAssumption DEF After, Bufs
    <3> QED BY <2>1, <2>7, <3>1, Same DEF Types, TxType, TxNext
  <2>8. CASE UNCHANGED txVars
    BY <2>8, TxSame DEF Types, txVars
  <2> QED BY <2>4, <2>5, <2>6, <2>7, <2>8 DEF NetSend
<1>6. NetType'
  <2>0. NetType /\ RxType
    BY DEF Types
  <2>1. CASE NetStart
    <3>1. pkt' = Announcement /\ net' = net /\ handled' = handled
      BY <2>1 DEF NetStart
    <3>2. Announcement \in Pkts
      BY DEF Announcement, Pkts, All
    <3> QED BY <2>0, <3>1, <3>2, Same DEF NetType
  <2>2. CASE NetWait \/ NetSend
    BY <2>0, <2>2, NetSame DEF NetWait, NetSend, netVars
  <2>3. CASE NetAnswer
    <3>1. PICK f : f = rx_desc[net.buf].frame
      OBVIOUS
    <3>2. PICK id : /\ net' = [net EXCEPT !.ipv4_id = id] /\ id \in {Ipv4Id, net.ipv4_id}
      <4>1. \E id : net' = [net EXCEPT !.ipv4_id = id] /\ id \in {Ipv4Id, net.ipv4_id}
        <5>1. PICK c \in BOOLEAN : net' = [net EXCEPT !.ipv4_id = IF c THEN Ipv4Id ELSE @]
          <6>1. \E c \in BOOLEAN : net' = [net EXCEPT !.ipv4_id = IF c THEN Ipv4Id ELSE @]
            BY <2>3 DEF NetAnswer
          <6> QED BY <6>1
        <5> QED BY <5>1
      <4> QED BY <4>1
    <3>3. id \in Nat
      <4>1. net.ipv4_id \in Nat
        BY <2>0 DEF NetType
      <4> QED BY <3>2, <4>1 DEF Ipv4Id
    <3>4. f \in Frames
      <4>1. pc["net"] = "answer"
        BY <2>3, DoesSteps DEF NetAnswer
      <4>2. net.rest = net.buf /\ net.buf # NoBuf
        BY <4>1 DEF RxOK, HeldOK, Reading
      <4>3. net.buf \in Heads
        BY <4>2 DEF Heads, Held
      <4>4. PICK u, k \in 0..NumBufs, size \in Sizes : RxAt(u, k, size)
        BY DEF RxOK
      <4>5. net.buf \in Bufs /\ bufs[net.buf].active
        BY <2>0, <4>3, <4>4, ChainsUsed
      <4> QED BY <2>0, <3>1, <4>5 DEF RxType
    <3>5. pkt' \in Pkts
      <4>1. f.src \in Nat
        BY <3>4, FrameFacts
      <4>2. net.ipv4_id \in Nat /\ pkt \in Pkts
        BY <2>0 DEF NetType
      <4>3. ArpReply(f) \in Pkts /\ EchoReply(f, net.ipv4_id) \in Pkts
        BY <4>1, <4>2 DEF ArpReply, EchoReply, Pkts
      <4>4. pkt' = ArpReply(f) \/ pkt' = EchoReply(f, net.ipv4_id) \/ pkt' = pkt
        BY <2>3, <3>1 DEF NetAnswer, Of
      <4> QED BY <4>2, <4>3, <4>4
    <3>6. handled' \in Seq(Frames)
      <4>1. handled' = Append(handled, f) /\ handled \in Seq(Frames)
        BY <2>0, <2>3, <3>1 DEF NetAnswer, NetType, Of
      <4> QED BY <3>4, <4>1, AppendProperties
    <3> QED BY <2>0, <3>2, <3>3, <3>5, <3>6, Same DEF NetType
  <2> QED BY <2>1, <2>2, <2>3
<1> QED BY <1>1, <1>4, <1>5, <1>6, RxSame, BoxSame DEF Types

-----------------------------------------------------------------------------
(* Together: every step keeps the invariant, until net_task() strays.      *)

(* What leaves all that the frames go through alone: net_task() prints, or *)
(* nothing happens at all.                                                 *)
Untouched ==
  /\ UNCHANGED <<boxVars, emacVars, netVars>> /\ pc'["emac"] = pc["emac"]
  /\ pc'["net"] = pc["net"] \/ (Reading /\ Reading')

LEMMA UntouchedKeeps ==
  ASSUME Types, RxOK, Untouched
  PROVE  Quiet /\ Types' /\ RxOK'
<1>1. /\ rx_desc' = rx_desc /\ bufs' = bufs /\ rx' = rx /\ eth' = eth /\ spoilt' = spoilt
      /\ box' = box /\ net' = net /\ pc'["emac"] = pc["emac"]
      /\ wire' = wire /\ tx_desc' = tx_desc /\ tx_index' = tx_index /\ val' = val
      /\ pkt' = pkt /\ handled' = handled /\ loc' = loc
  BY DEF Untouched, boxVars, emacVars, rxVars, txVars, netVars
<1>2. pc'["net"] = pc["net"] \/ (Reading /\ Reading')
  BY DEF Untouched
<1>3. Quiet
  BY <1>1, <1>2 DEF Quiet, Reading
<1>4. HeldOK'
  BY <1>1, <1>2 DEF RxOK, HeldOK, Reading
<1>5. RxOK'
  BY <1>3, <1>4, QuietKeeps DEF Types
<1>6. Types'
  BY <1>1, RxSame, TxSame, EthSame, NetSame, BoxSame DEF Types
<1> QED BY <1>3, <1>5, <1>6

LEMMA PrintUntouched ==
  ASSUME SchedType, NetLook \/ NetPrint \/ NetPut
  PROVE  Untouched /\ Reading /\ Reading'
<1>1. CASE NetLook
  <2>1. PICK to \in {"print", "answer"} : Does("look", to)
    BY <1>1 DEF NetLook
  <2>2. pc["net"] = "look" /\ pc'["net"] = to /\ pc'["emac"] = pc["emac"]
    BY <2>1, DoesSteps
  <2>3. UNCHANGED <<boxVars, emacVars, netVars>>
    BY <1>1, <2>1 DEF NetLook, Does
  <2> QED BY <2>1, <2>2, <2>3 DEF Untouched, Reading
<1>2. CASE NetPrint
  <2>1. pc["net"] = "print" /\ pc'["net"] = "put" /\ pc'["emac"] = pc["emac"]
    BY <1>2, Pcs DEF NetPrint
  <2> QED BY <1>2, <2>1 DEF NetPrint, Untouched, Reading
<1>3. CASE NetPut
  <2>1. PICK to \in {"print", "answer"} : Does("put", to)
    BY <1>3, Zenon DEF NetPut
  <2>2. pc["net"] = "put" /\ pc'["net"] = to /\ pc'["emac"] = pc["emac"]
    BY <2>1, DoesSteps
  <2>3. UNCHANGED <<boxVars, emacVars, netVars>>
    BY <1>3, <2>1 DEF NetPut, Does
  <2> QED BY <2>1, <2>2, <2>3 DEF Untouched, Reading
<1> QED BY <1>1, <1>2, <1>3

LEMMA OutputUntouched ==
  ASSUME Output, ~Strayed'
  PROVE  Untouched /\ pc' = pc /\ load' = load
<1>1. spoilt' = spoilt \/ spoilt' = spoilt \cup {"stray"}
  BY DEF Output, Printed
<1>2. spoilt' = spoilt
  BY <1>1 DEF Strayed
<1> QED BY <1>2 DEF Output, Printed, Untouched, emacVars

(* net_task() waits in msg_get() until there is a message: whatever waits  *)
(* for a place in stdio's ring does so in putchar().                       *)
WaitsOK ==
  /\ WokenByMessage /\ status["net"] # "SLEEPING"
  /\ status["net"] = "tx_buf" => pc["net"] = "put"

LEMMA WaitsInit ==
  ASSUME Init
  PROVE  WaitsOK
<1>1. pc["net"] = "start" /\ status["net"] = "READY"
  BY NetAssumption DEF Init
<1> QED BY <1>1 DEF WaitsOK, WokenByMessage

LEMMA WaitsKeep ==
  ASSUME SchedType, BoxOK, WaitsOK, [Next]_vars, ~Strayed'
  PROVE  WaitsOK'
<1>0. "emac" \in Tasks /\ "net" \in Tasks /\ "emac" # "net"
  BY NetAssumption
<1>1. ASSUME pc'["net"] = pc["net"], status'["net"] = status["net"], box' = box
      PROVE  WaitsOK'
  BY <1>1 DEF WaitsOK, WokenByMessage
<1>2. CASE RxStart \/ RxStop \/ RxTake
  <2>1. pc'["net"] = pc["net"]
    BY <1>2, Pcs DEF RxStart, RxStop, RxTake
  <2>2. status' = status /\ box' = box
    BY <1>2 DEF RxStart, RxStop, RxTake, schedVars, boxVars
  <2> QED BY <1>1, <2>1, <2>2
<1>3. CASE RxSleep
  <2>1. pc'["net"] = pc["net"]
    BY <1>3, Pcs DEF RxSleep
  <2>2. status' = [status EXCEPT !["emac"] = "SLEEPING"] /\ box' = box
    BY <1>3 DEF RxSleep, Sleep, Step, boxVars
  <2> QED BY <1>0, <1>1, <2>1, <2>2 DEF SchedType
<1>4. CASE RxHand
  <2>1. pc'["net"] = pc["net"]
    BY <1>4, Pcs DEF RxHand
  <2>2. CASE UNCHANGED <<boxVars, status>>
    BY <1>1, <2>1, <2>2 DEF boxVars
  <2>3. CASE Sent(rx.start) /\ status' = [status EXCEPT !["net"] = "READY"]
    <3>1. status'["net"] = "READY"
      BY <1>0, <2>3 DEF SchedType
    <3>2. box'.num_msgs # 0
      <4>1. box.num_msgs \in 0..MaxMsgs /\ box.num_msgs # MaxMsgs
        BY <2>3 DEF Sent, IsFull, BoxOK
      <4>2. Up(box.num_msgs) # 0
        BY <4>1, BoxAssumption DEF Up
      <4>3. box'.num_msgs = Up(box.num_msgs)
        BY <2>3 DEF Sent, BoxOK
      <4> QED BY <4>2, <4>3
    <3> QED BY <3>1, <3>2 DEF WaitsOK, WokenByMessage
  <2> QED BY <1>4, <2>2, <2>3 DEF RxHand
<1>5. CASE NetWait
  <2>1. pc'["net"] = "take" /\ run = "net" /\ box' = box
    BY <1>5, Pcs DEF NetWait, Step, boxVars
  <2>2. status["net"] = "READY"
    BY <2>1 DEF SchedType
  <2>3. CASE box.num_msgs # 0 /\ status' = status
    BY <2>1, <2>2, <2>3 DEF WaitsOK, WokenByMessage
  <2>4. CASE status' = [status EXCEPT !["net"] = "box"]
    <3>1. status'["net"] = "box"
      BY <1>0, <2>4 DEF SchedType
    <3> QED BY <3>1 DEF WaitsOK, WokenByMessage
  <2> QED BY <1>5, <2>3, <2>4 DEF NetWait
<1>6. CASE NetPrint
  <2>1. pc'["net"] = "put" /\ run = "net"
    BY <1>6, Pcs DEF NetPrint, Step
  <2>2. status["net"] = "READY"
    BY <2>1 DEF SchedType
  <2>3. status' = status \/ status' = [status EXCEPT !["net"] = "tx_buf"]
    BY <1>6, <2>1 DEF NetPrint, Get
  <2>4. status'["net"] \in {"READY", "tx_buf"}
    BY <1>0, <2>2, <2>3 DEF SchedType
  <2> QED BY <2>1, <2>4 DEF WaitsOK, WokenByMessage
<1>7. ASSUME NEW from, NEW to \in NetPcs \ {"take"}, Step("net", from, to), status' = status
      PROVE  WaitsOK'
  <2>1. pc'["net"] # "take" /\ status["net"] = "READY"
    BY <1>7, Pcs DEF Step, SchedType
  <2> QED BY <1>7, <2>1 DEF WaitsOK, WokenByMessage
<1>8. CASE NetStart \/ NetTake \/ NetLook \/ NetPut \/ NetAnswer \/ NetSend \/ NetFree
  <2>1. \A n : /\ (IF n = NoBuf THEN "get" ELSE "free") \in NetPcs \ {"take"}
              /\ (IF n = 1 THEN "answer" ELSE "print") \in NetPcs \ {"take"}
    BY DEF NetPcs
  <2>2. \A c \in BOOLEAN : (IF c THEN "send" ELSE "free") \in NetPcs \ {"take"}
    BY DEF NetPcs
  <2>3. \A to \in {"send", "look", "print", "answer", "free", "last", "size", "next", "go",
                  "retire", "unchain"} : to \in NetPcs \ {"take"}
    BY DEF NetPcs
  <2>4. CASE NetStart
    BY <1>7, <2>3, <2>4 DEF NetStart, Does, schedVars
  <2>5. CASE NetTake
    BY <1>7, <2>3, <2>5 DEF NetTake, schedVars
  <2>6. CASE NetLook
    BY <1>7, <2>3, <2>6 DEF NetLook, Does, schedVars
  <2>7. CASE NetPut
    <3>1. PICK to \in {"answer", "print"} : Does("put", to)
      BY <2>7, Zenon DEF NetPut
    <3> QED BY <1>7, <2>3, <3>1 DEF Does, schedVars
  <2>8. CASE NetAnswer
    <3>1. PICK to \in {"send", "free"} : Does("answer", to)
      BY <2>8, Zenon DEF NetAnswer
    <3> QED BY <1>7, <2>3, <3>1 DEF Does, schedVars
  <2>9. CASE NetSend
    <3>1. \E from : \E to \in NetPcs \ {"take"} : Does(from, to)
      BY <2>1, <2>3, <2>9, Zenon DEF NetSend
    <3> QED BY <1>7, <3>1 DEF Does, schedVars
  <2>10. CASE NetFree
    <3>1. \E from : \E to \in NetPcs \ {"take"} : Does(from, to)
      BY <2>1, <2>3, <2>10, Zenon DEF NetFree
    <3> QED BY <1>7, <3>1 DEF Does, schedVars
  <2> QED BY <1>8, <2>4, <2>5, <2>6, <2>7, <2>8, <2>9, <2>10
<1>9. CASE IsrRead \/ IsrEnter \/ Device \/ Comes \/ UNCHANGED vars
  <2>1. pc' = pc /\ status' = status /\ box' = box
    BY <1>9 DEF IsrRead, IsrEnter, Device, Comes, vars, schedVars, boxVars
  <2> QED BY <1>1, <2>1
<1>10. CASE IsrClear
  <2>1. status' = status \/ status' = [status EXCEPT !["emac"] = "READY"]
    BY <1>10 DEF IsrClear, Wake
  <2>2. status'["net"] = status["net"]
    BY <1>0, <2>1 DEF SchedType
  <2>3. pc' = pc /\ box' = box
    BY <1>10 DEF IsrClear, boxVars
  <2> QED BY <1>1, <2>2, <2>3
<1>11. CASE Output
  <2>1. pc' = pc /\ box' = box
    BY <1>11, OutputUntouched DEF Untouched, boxVars
  <2>2. CASE status' = status
    BY <1>1, <2>1, <2>2
  <2>3. CASE /\ status' = [status EXCEPT !["net"] = "READY"] /\ status["net"] # "READY"
             /\ spoilt' = IF status["net"] = "box" THEN spoilt \cup {"stray"} ELSE spoilt
    <3>1. status["net"] # "box"
      BY <2>3 DEF Strayed
    <3>2. status["net"] \in States /\ status'["net"] = "READY"
      BY <1>0, <2>3 DEF SchedType
    <3>3. status["net"] = "tx_buf"
      BY <2>3, <3>1, <3>2 DEF States, WaitsOK
    <3>4. pc'["net"] = "put"
      BY <2>1, <3>3 DEF WaitsOK
    <3> QED BY <3>2, <3>4 DEF WaitsOK, WokenByMessage
  <2> QED BY <1>11, <2>2, <2>3 DEF Output, Printed
<1> QED BY <1>2, <1>3, <1>4, <1>5, <1>6, <1>8, <1>9, <1>10, <1>11
        DEF Next, Goes, EmacTask, NetTask, EmacIsr, Interrupt

(* net_task() that has not strayed gets a message where it takes one.      *)
LEMMA TakesMessage ==
  ASSUME SchedType, WaitsOK, NetTake
  PROVE  Got
<1>1. pc["net"] = "take" /\ status["net"] = "READY"
  BY Pcs DEF NetTake, Step, SchedType
<1> QED BY <1>1 DEF WaitsOK, WokenByMessage, NetTake, Got

NetInv == SchedType /\ Types /\ LoadType /\ RxOK /\ WaitsOK

LEMMA LoadSame ==
  ASSUME LoadType, load' = load
  PROVE  LoadType'
  BY DEF LoadType

LEMMA NetInvInit ==
  ASSUME Init
  PROVE  NetInv
<1>0. NumBufs \in Nat /\ NumBufs > 0 /\ 0 \in Bufs /\ 0 \in 0..NumBufs
  BY EmacAssumption DEF Bufs
<1>1. SchedType
  <2>1. \A t \in Tasks : status[t] = "READY"
    BY DEF Init
  <2>2. "idle" \in Tasks /\ "emac" \in Tasks /\ "net" \in Tasks
    BY NetAssumption
  <2>3. run \in Tasks /\ status[run] = "READY"
    BY <2>1, <2>2, FirstReady DEF Init
  <2> QED BY <2>1, <2>2, <2>3 DEF Init, SchedType, EmacPcs, NetPcs, States
<1>2. /\ \A b \in Bufs : /\ ~rx_desc[b].used /\ ~bufs[b].active /\ bufs[b].next = NoBuf
      /\ rx.index = 0 /\ rx.start = NoBuf /\ eth.fill = 0 /\ eth.part = <<>>
      /\ net.buf = NoBuf /\ net.rest = NoBuf /\ pc["net"] = "start" /\ pc["emac"] = "start"
      /\ box.num_msgs = 0 /\ spoilt = {}
  BY NetAssumption DEF Init, EmacInit, DevInit, BufInit, NetInit
<1>3. RxType
  <2>1. [used |-> FALSE, start |-> FALSE, end |-> FALSE, frame |-> 0] \in Descs
    BY DEF Descs
  <2>2. [active |-> FALSE, next |-> NoBuf] \in NetBufs
    BY DEF NetBufs
  <2> QED BY <1>0, <1>2, <2>1, <2>2 DEF RxType, Init, EmacInit, DevInit, BufInit
<1>4. TxType
  BY <1>0 DEF TxType, Init, EmacInit, DevInit, BufInit
<1>5. EthType
  BY <1>0 DEF EthType, Init, EmacInit, DevInit, BufInit
<1>6. NetType
  BY DEF NetType, Init, NetInit, None, Pkts
<1>7. BoxOK
  <2>1. 0 \in Msg
    BY <1>0, NetAssumption
  <2>2. BoxInit
    BY <2>1, BoxAssumption DEF Init, BoxInit, Slots
  <2> QED BY <2>2, BoxAssumption, InitOK
<1>8. LoadType
  <2>1. PICK l \in Loads : load = [kinds |-> l.kinds, more |-> l.more, came |-> 0]
    BY DEF Init
  <2>2. l.kinds \subseteq Kinds /\ l.more \in 0..Most
    BY NetAssumption
  <2>3. l.more \in Nat /\ 0 + l.more <= Most
    BY <2>2, NetAssumption
  <2> QED BY <2>1, <2>2, <2>3 DEF LoadType
<1>9. RxOK
  <2>1. Contents = <<>> /\ Boxed = {} /\ Handed = {} /\ Held = {} /\ Heads = {}
    <3>1. Contents = <<>>
      BY <1>2 DEF Contents
    <3> QED BY <1>2, <3>1 DEF Boxed, Handed, Held, Heads
  <2>2. HeldOK /\ BoxedOK /\ PartOK /\ Fresh
    BY <1>2, <2>1 DEF HeldOK, BoxedOK, PartOK, Fresh, Reading
  <2>3. [b \in Bufs |-> 0] \in Sizes
    BY <1>0 DEF Sizes
  <2>4. PICK size \in Sizes : size = [b \in Bufs |-> 0]
    BY <2>3
  <2>5. RingOK(0)
    <3>1. \A b \in Bufs : ~Untaken(b)
      BY <1>2 DEF Untaken
    <3>2. \A i \in 0..(NumBufs - 1) : Pos(0, i) \in Bufs
      <4>1. \A i \in 0..(NumBufs - 1) : i \in 0..NumBufs
        BY <1>0
      <4> QED BY <1>0, <4>1, PosIn
    <3>3. Pos(0, 0) = 0
      BY <1>0 DEF Pos
    <3>4. \A i \in 0..(0 - 1) : FALSE
      OBVIOUS
    <3> QED BY <1>2, <3>1, <3>2, <3>3, <3>4 DEF RingOK
  <2>6. OrderOK(0, 0)
    BY <2>2 DEF OrderOK
  <2>7. ChainsOK(size) /\ LinkingOK(0, size) /\ OwnedOK(0, size)
    BY <1>2, <2>1 DEF ChainsOK, LinkingOK, OwnedOK
  <2>8. RxAt(0, 0, size)
    BY <2>5, <2>6, <2>7 DEF RxAt
  <2> QED BY <1>0, <2>2, <2>4, <2>8 DEF RxOK
<1> QED BY <1>1, <1>3, <1>4, <1>5, <1>6, <1>7, <1>8, <1>9, WaitsInit DEF NetInv, Types

LEMMA NetInvKeeps ==
  ASSUME NetInv, [Next]_vars, ~Strayed'
  PROVE  NetInv'
<1>0. SchedType /\ Types /\ RxType /\ TxType /\ EthType /\ NetType /\ BoxOK /\ LoadType /\ RxOK
  BY DEF NetInv, Types
<1>1. SchedType' /\ WaitsOK'
  BY <1>0, SchedKeeps, WaitsKeep DEF NetInv
<1>2. CASE (RxStart \/ RxSleep \/ RxStop) /\ UNCHANGED <<netVars, load>>
  BY <1>0, <1>1, <1>2, QuietEmacTypes, EmacQuiet, LoadSame DEF NetInv
<1>3. CASE RxTake /\ UNCHANGED <<netVars, load>>
  BY <1>0, <1>1, <1>3, TakeTypes, TakeKeeps, LoadSame DEF NetInv
<1>4. CASE RxHand /\ UNCHANGED <<netVars, load>>
  BY <1>0, <1>1, <1>4, HandTypes, HandKeeps, LoadSame DEF NetInv
<1>5. CASE (NetStart \/ NetWait \/ NetAnswer \/ NetSend) /\ UNCHANGED load
  BY <1>0, <1>1, <1>5, StackTypes, NetQuiet, LoadSame DEF NetInv
<1>6. CASE NetTake /\ UNCHANGED load
  <2>1. Got
    BY <1>0, <1>6, TakesMessage DEF NetInv
  <2> QED BY <1>0, <1>1, <1>6, <2>1, GotTypes, GotKeepsRx, LoadSame DEF NetInv
<1>7. CASE NetFree /\ UNCHANGED load
  <2>1. pc["net"] \in {"free", "retire", "unchain"}
    <3>1. ASSUME NEW from \in {"free", "retire", "unchain"}, NEW to, Does(from, to)
          PROVE  pc["net"] = from
      BY <1>0, <3>1, DoesSteps
    <3> QED BY <1>7, <3>1 DEF NetFree
  <2>2. Given \/ Retired \/ Unchained
    BY <1>7, <2>1 DEF Given, Retired, Unchained
  <2>3. RxOK'
    BY <1>0, <2>2, GivenKeeps, RetiredKeeps, UnchainedKeeps
  <2> QED BY <1>0, <1>1, <1>7, <2>3, FreeTypes, LoadSame DEF NetInv
<1>8. CASE (IsrRead \/ IsrClear \/ IsrEnter) /\ UNCHANGED <<netVars, load>>
  BY <1>0, <1>1, <1>8, IsrTypes, IsrQuiet, LoadSame DEF NetInv
<1>9. CASE Fills /\ UNCHANGED <<schedVars, pc, boxVars, netVars, load>>
  BY <1>0, <1>1, <1>9, FillsTypes, LostKeeps, FillsKeepRx, LoadSame DEF NetInv
<1>10. CASE Sends /\ UNCHANGED <<schedVars, pc, boxVars, netVars, load>>
  BY <1>0, <1>1, <1>10, SendsTypes, SendsQuiet, LoadSame DEF NetInv
<1>11. CASE Comes
  BY <1>0, <1>1, <1>11, ComesTypes, ComesKeeps DEF NetInv
<1>12. CASE UNCHANGED vars
  <2>1. Untouched /\ load' = load
    BY <1>12 DEF vars, Untouched
  <2> QED BY <1>0, <1>1, <2>1, UntouchedKeeps, LoadSame DEF NetInv
<1>13. CASE (NetLook \/ NetPrint \/ NetPut) /\ UNCHANGED load
  BY <1>0, <1>1, <1>13, PrintUntouched, UntouchedKeeps, LoadSame DEF NetInv
<1>14. CASE Output
  BY <1>0, <1>1, <1>14, OutputUntouched, UntouchedKeeps, LoadSame DEF NetInv
<1> QED BY <1>2, <1>3, <1>4, <1>5, <1>6, <1>7, <1>8, <1>9, <1>10, <1>11, <1>12, <1>13, <1>14
        DEF Next, Goes, EmacTask, NetTask, EmacIsr, Interrupt, Device

(* What has gone wrong is not forgotten.                                   *)
LEMMA Grows ==
  ASSUME [Next]_vars
  PROVE  spoilt \subseteq spoilt'
<1>1. CASE EmacTask
  BY <1>1 DEF EmacTask, RxStart, RxSleep, RxStop, RxTake, RxHand, emacVars
<1>2. CASE NetTask
  <2>1. CASE NetStart \/ NetWait \/ NetTake \/ NetLook \/ NetPrint \/ NetPut \/ NetAnswer
    BY <2>1 DEF NetStart, NetWait, NetTake, NetLook, NetPrint, NetPut, NetAnswer, emacVars
  <2>2. CASE NetSend
    BY <2>2 DEF NetSend, TxCopy, TxMark, TxNext
  <2>3. CASE NetFree
    BY <2>3 DEF NetFree
  <2> QED BY <1>2, <2>1, <2>2, <2>3 DEF NetTask
<1>3. CASE EmacIsr \/ Interrupt
  BY <1>3 DEF EmacIsr, Interrupt, IsrRead, IsrClear, IsrEnter
<1>4. CASE Output
  BY <1>4 DEF Output, Printed
<1>5. CASE Device
  BY <1>5 DEF Device, Fills, Sends
<1>6. CASE Comes
  BY <1>6 DEF Comes, Begins
<1>7. CASE UNCHANGED vars
  BY <1>7 DEF vars, emacVars
<1> QED BY <1>1, <1>2, <1>3, <1>4, <1>5, <1>6, <1>7 DEF Next, Goes

(* The counter of the box is a word and its indexes are in the ring,       *)
(* whoever takes what from it.                                             *)
BoxWord ==
  \E n \in 0..(Word - 1) : \E p \in Slots : \E c \in Slots : \E m :
    box = [num_msgs |-> n, p_index |-> p, c_index |-> c, msg_buf |-> m]

LEMMA BoxWordKeeps ==
  ASSUME BoxWord, [Next]_vars
  PROVE  BoxWord'
<1>1. box' = box \/ Taken \/ Sent(rx.start)
  <2>1. CASE EmacTask
    BY <2>1 DEF EmacTask, RxStart, RxSleep, RxStop, RxTake, RxHand, boxVars
  <2>2. CASE NetTask
    <3>1. CASE NetWait \/ NetTake \/ NetLook \/ NetPrint \/ NetPut
      BY <3>1 DEF NetWait, NetTake, NetLook, NetPrint, NetPut, Does, boxVars
    <3>2. ASSUME NEW from, NEW to, Does(from, to) PROVE box' = box
      BY <3>2 DEF Does, boxVars
    <3>3. CASE NetStart \/ NetSend \/ NetFree
      BY <3>2, <3>3, Zenon DEF NetStart, NetSend, NetFree
    <3>4. CASE NetAnswer
      BY <3>2, <3>4, Zenon DEF NetAnswer
    <3> QED BY <2>2, <3>1, <3>3, <3>4 DEF NetTask
  <2>3. CASE EmacIsr \/ Interrupt \/ Output \/ Device \/ Comes \/ UNCHANGED vars
    BY <2>3 DEF EmacIsr, Interrupt, Output, Device, Comes, vars, IsrRead, IsrClear, IsrEnter,
                Printed, boxVars
  <2> QED BY <2>1, <2>2, <2>3 DEF Next, Goes
<1>2. PICK n \in 0..(Word - 1) : \E p \in Slots : \E c \in Slots : \E m :
        box = [num_msgs |-> n, p_index |-> p, c_index |-> c, msg_buf |-> m]
  BY DEF BoxWord
<1>3. PICK p \in Slots : \E c \in Slots : \E m :
        box = [num_msgs |-> n, p_index |-> p, c_index |-> c, msg_buf |-> m]
  BY <1>2
<1>4. PICK c \in Slots : \E m :
        box = [num_msgs |-> n, p_index |-> p, c_index |-> c, msg_buf |-> m]
  BY <1>3
<1>5. PICK m : box = [num_msgs |-> n, p_index |-> p, c_index |-> c, msg_buf |-> m]
  BY <1>4
<1>6. /\ Up(n) \in 0..(Word - 1) /\ Down(n) \in 0..(Word - 1)
      /\ Following(p) \in Slots /\ Following(c) \in Slots
  BY BoxAssumption DEF Up, Down, Following, Slots
<1>7. CASE box' = box
  BY <1>5, <1>7 DEF BoxWord, Slots
<1>8. CASE Taken
  <2>1. box' = [num_msgs |-> Down(n), p_index |-> p, c_index |-> Following(c), msg_buf |-> m]
    BY <1>5, <1>8 DEF Taken
  <2> QED BY <1>6, <2>1 DEF BoxWord, Slots
<1>9. CASE Sent(rx.start)
  <2>1. box' = [num_msgs |-> Up(n), p_index |-> Following(p), c_index |-> c,
                msg_buf |-> [m EXCEPT ![p] = rx.start]]
    BY <1>5, <1>9 DEF Sent
  <2> QED BY <1>6, <2>1 DEF BoxWord, Slots
<1> QED BY <1>1, <1>7, <1>8, <1>9

LEMMA BoxWordInit ==
  ASSUME Init
  PROVE  BoxWord
<1>1. box = [num_msgs |-> 0, p_index |-> 0, c_index |-> 0, msg_buf |-> [i \in Slots |-> 0]]
  BY DEF Init
<1>2. 0 \in 0..(Word - 1) /\ 0 \in Slots
  BY BoxAssumption DEF Slots
<1> QED BY <1>1, <1>2 DEF BoxWord

(* All that there is to keep: the invariant, until net_task() strays.      *)
StackInv == SchedType /\ BoxWord /\ (Strayed \/ NetInv)

LEMMA StackInvInit ==
  ASSUME Init
  PROVE  StackInv
  BY NetInvInit, BoxWordInit DEF StackInv, NetInv

LEMMA StackInvKeeps ==
  ASSUME StackInv, [Next]_vars
  PROVE  StackInv'
<1>1. SchedType' /\ BoxWord'
  BY SchedKeeps, BoxWordKeeps DEF StackInv
<1>2. CASE Strayed'
  BY <1>1, <1>2 DEF StackInv
<1>3. CASE ~Strayed'
  <2>1. ~Strayed
    BY <1>3, Grows DEF Strayed
  <2> QED BY <1>1, <1>3, <2>1, NetInvKeeps DEF StackInv
<1> QED BY <1>2, <1>3

(* The running task is ready, and the indexes of the box stay within it    *)
(* whoever wakes net_task(); until it strays, the box holds num_msgs       *)
(* messages and the indexes of the rings stay within them: TypeOK of Net,  *)
(* for every size of the rings and of the box, every frames that come in   *)
(* and every text that is printed (atmel_emac.c, msgs.c, net_init.c).      *)
THEOREM NetTypeHolds == Spec => []TypeOK
<1>1. Init => StackInv
  BY StackInvInit
<1>2. StackInv /\ [Next]_vars => StackInv'
  BY StackInvKeeps
<1>3. StackInv => TypeOK
  <2> SUFFICES ASSUME StackInv PROVE TypeOK
    OBVIOUS
  <2>0. /\ run \in Tasks /\ status[run] = "READY"
        /\ box.num_msgs \in 0..(Word - 1) /\ box.p_index \in Slots /\ box.c_index \in Slots
    BY DEF StackInv, SchedType, BoxWord
  <2>a. CASE Strayed
    BY <2>0, <2>a DEF TypeOK
  <2>b. CASE NetInv
    <3>1. RxType /\ TxType /\ EthType /\ BoxOK
      BY <2>b DEF NetInv, Types
    <3>2. rx.index \in Bufs /\ rx.start \in Bufs \cup {NoBuf}
          /\ \A b \in Bufs : bufs[b].active \in BOOLEAN /\ bufs[b].next \in Bufs \cup {NoBuf}
      <4>1. ASSUME NEW b \in Bufs
            PROVE  bufs[b].active \in BOOLEAN /\ bufs[b].next \in Bufs \cup {NoBuf}
        <5>1. bufs[b] \in NetBufs
          BY <3>1 DEF RxType
        <5> QED BY <5>1 DEF NetBufs
      <4>2. rx.index \in Bufs /\ rx.start \in Bufs \cup {NoBuf}
        BY <3>1 DEF RxType
      <4> QED BY <4>1, <4>2
    <3>3. eth.rsr \subseteq {"frame", "no buffer"} /\ val \subseteq {"frame", "no buffer"}
      BY <3>1 DEF EthType, Signs
    <3>4. spoilt \subseteq {"held", "refused", "unwoken", "part", "cut", "replaced", "torn"}
      BY <3>1 DEF EthType, Troubles
    <3> QED BY <2>0, <3>1, <3>2, <3>3, <3>4 DEF TypeOK, TxType
  <2> QED BY <2>a, <2>b DEF StackInv
<1> QED BY <1>1, <1>2, <1>3, PTL DEF Spec

-----------------------------------------------------------------------------
(* Every buffer in use is accounted for.                                   *)

(* A chain is what the invariant takes for it, ...                         *)
LEMMA ChainIn ==
  ASSUME RxType, NEW u \in 0..NumBufs, NEW k \in 0..NumBufs, NEW size \in Sizes,
         RxAt(u, k, size), NEW h \in Heads
  PROVE  Chain(h) \subseteq {Pos(h, i) : i \in 0..(size[h] - 1)}
<1>1. h \in Bufs /\ ChainOK(h, size[h]) /\ size[h] \in 1..NumBufs
  BY DEF RxAt, ChainsOK, ChainOK
<1>2. PICK n : n = size[h] /\ n \in Nat /\ n > 0 /\ n \in 1..NumBufs
  BY <1>1, EmacAssumption
<1> DEFINE S == {Pos(h, i) : i \in 0..(n - 1)}
<1>3. h \in S
  <2>1. 0 \in 0..(n - 1) /\ 0 \in 0..NumBufs
    BY <1>2, EmacAssumption
  <2>2. Pos(h, 0) = h
    BY <1>1, <2>1, PosIs
  <2> QED BY <2>1, <2>2
<1>4. \A x \in S : bufs[x].next \in S \cup {NoBuf}
  <2> TAKE x \in S
  <2>1. PICK i \in 0..(n - 1) : x = Pos(h, i)
    OBVIOUS
  <2>2. CASE i = n - 1
    BY <1>1, <1>2, <2>1, <2>2 DEF ChainOK
  <2>3. CASE i # n - 1
    <3>1. i \in 0..(n - 2) /\ i + 1 \in 0..(n - 1)
      BY <1>2, <2>3
    <3>2. bufs[x].next = Pos(h, i + 1) \/ bufs[x].next = NoBuf
      BY <1>1, <1>2, <2>1, <3>1 DEF ChainOK, Link
    <3> QED BY <3>1, <3>2
  <2> QED BY <2>2, <2>3
<1>5. ASSUME NEW x \in Bufs PROVE bufs[x].next \in Bufs \cup {NoBuf}
  <2>1. bufs[x] \in NetBufs
    BY DEF RxType
  <2> QED BY <2>1 DEF NetBufs
<1>6. Chain(h) \subseteq S
  <2> HIDE DEF S
  <2> QED BY <1>1, <1>3, <1>4, <1>5, ChainWithin
<1> QED BY <1>2, <1>6

(* ... all of it, unless it was cut.                                       *)
LEMMA ChainAll ==
  ASSUME RxType, NEW u \in 0..NumBufs, NEW k \in 0..NumBufs, NEW size \in Sizes,
         RxAt(u, k, size), NEW h \in Heads, "cut" \notin spoilt, NEW i \in 0..(size[h] - 1)
  PROVE  Pos(h, i) \in Chain(h)
<1>1. h \in Bufs /\ ChainOK(h, size[h]) /\ size[h] \in 1..NumBufs
  BY DEF RxAt, ChainsOK, ChainOK
<1>2. PICK n : n = size[h] /\ n \in 1..NumBufs
  BY <1>1
<1>3. \A j \in 0..(n - 2) : bufs[Pos(h, j)].next = Pos(h, j + 1)
  BY <1>1, <1>2 DEF ChainOK, Link
<1>4. ASSUME NEW x \in Bufs PROVE bufs[x].next \in Bufs \cup {NoBuf}
  <2>1. bufs[x] \in NetBufs
    BY DEF RxType
  <2> QED BY <2>1 DEF NetBufs
<1>5. \A j \in 0..(n - 1) : Pos(h, j) \in Chain(h)
  BY <1>1, <1>2, <1>3, <1>4, ChainReaches
<1> QED BY <1>2, <1>5

(* What is being linked is counted as such.                                *)
LEMMA LinkedCounts ==
  ASSUME RxType, HeldOK, NEW u \in 0..NumBufs, NEW k \in 0..NumBufs, NEW size \in Sizes,
         RxAt(u, k, size), "cut" \notin spoilt, NEW i \in 0..(k - 1)
  PROVE  Pos(rx.start, i) \in Linking
<1>1. k \in Nat /\ k > 0 /\ NumBufs \in Nat /\ i \in 0..NumBufs /\ i < NumBufs
      /\ k - 1 \in 0..NumBufs /\ k - 1 < NumBufs /\ k - 1 \in 0..(k - 1) /\ i <= k - 1
      /\ (k - 1) + 1 = k
  BY EmacAssumption
<1>2. LinkingOK(k, size)
  BY DEF RxAt
<1>3. PICK s \in Bufs : s = rx.start
  BY <1>1, LinkedUsed
<1>4. pc["emac"] # "hand" /\ Pos(s, k) = rx.index /\ s # NoBuf
  BY <1>1, <1>2, <1>3 DEF LinkingOK
<1>5. bufs[Pos(s, k - 1)].active /\ bufs[Pos(s, k - 1)].next = rx.index
  <2>1. bufs[Pos(s, k - 1)].active /\ Link(Pos(s, k - 1), Pos(s, (k - 1) + 1))
    BY <1>1, <1>2, <1>3 DEF LinkingOK
  <2>2. Link(Pos(s, k - 1), rx.index)
    BY <1>1, <1>4, <2>1
  <2>3. rx.index # NoBuf
    BY RxFacts DEF Bufs, NoBuf
  <2> QED BY <2>1, <2>2 DEF Link
<1>6. (rx.index - 1) % NumBufs = Pos(s, k - 1)
  BY <1>1, <1>4, PosIs
<1>7. (Pos(s, i) - s) % NumBufs = i /\ (Pos(s, k - 1) - s) % NumBufs = k - 1
  BY <1>1, PosIs
<1>8. Pos(s, i) \in Bufs
  BY <1>1, PosIn
<1> QED BY <1>1, <1>3, <1>4, <1>5, <1>6, <1>7, <1>8 DEF Linking

LEMMA AllAccounted ==
  ASSUME Strayed \/ NetInv
  PROVE  Accounted
<1> SUFFICES ASSUME NetInv PROVE Accounted
  BY DEF Accounted
<1>0. RxType /\ HeldOK /\ BoxedOK
  BY DEF NetInv, Types, RxOK
<1>1. PICK u, k \in 0..NumBufs, size \in Sizes : RxAt(u, k, size)
  BY DEF NetInv, RxOK
<1>2. Leaked # {} => spoilt \cap {"refused", "part", "cut"} # {}
  <2> SUFFICES ASSUME spoilt \cap {"refused", "part", "cut"} = {}, NEW b \in Bufs,
                      bufs[b].active
               PROVE  b \in Linking \/ \E h \in Heads : b \in Chain(h)
    BY DEF Leaked
  <2>1. \/ \E h \in Heads : \E i \in 0..(size[h] - 1) : b = Pos(h, i)
        \/ \E i \in 0..(k - 1) : b = Pos(rx.start, i)
    BY <1>1 DEF RxAt, OwnedOK
  <2>2. "cut" \notin spoilt
    OBVIOUS
  <2>3. ASSUME NEW h \in Heads, NEW i \in 0..(size[h] - 1), b = Pos(h, i)
        PROVE  b \in Chain(h)
    BY <1>0, <1>1, <2>2, <2>3, ChainAll
  <2>4. ASSUME NEW i \in 0..(k - 1), b = Pos(rx.start, i)
        PROVE  b \in Linking
    BY <1>0, <1>1, <2>2, <2>4, LinkedCounts
  <2> QED BY <2>1, <2>3, <2>4
<1>3. ASSUME NEW h \in Boxed \cup Handed, NEW b \in Chain(h)
      PROVE  rx_desc[b].used /\ bufs[b].active
  <2>1. h \in Heads
    BY DEF Heads
  <2>2. PICK i \in 0..(size[h] - 1) : b = Pos(h, i)
    BY <1>0, <1>1, <2>1, ChainIn
  <2>3. bufs[Pos(h, i)].active /\ (~Freed(Pos(h, i)) => rx_desc[Pos(h, i)].used)
    BY <1>0, <1>1, <2>1, ChainsUsed
  <2>4. ~Freed(Pos(h, i))
    BY <1>0, <1>1, FreedApart
  <2> QED BY <2>2, <2>3, <2>4
<1>4. ASSUME NEW g \in Heads, NEW h \in Heads, g # h
      PROVE  Chain(g) \cap Chain(h) = {}
  <2>1. /\ Chain(g) \subseteq {Pos(g, i) : i \in 0..(size[g] - 1)}
        /\ Chain(h) \subseteq {Pos(h, i) : i \in 0..(size[h] - 1)}
    BY <1>0, <1>1, ChainIn
  <2>2. Apart(g, size[g], h, size[h])
    BY <1>1, <1>4 DEF RxAt, ChainsOK
  <2> QED BY <2>1, <2>2 DEF Apart
<1> QED BY <1>2, <1>3, <1>4 DEF Accounted

(* Every buffer in use belongs to one frame, the device does not write to  *)
(* it before it is given back, and one leaks only where the box was full,  *)
(* a frame came in part, or dev_buf_free() cut a chain, until a character  *)
(* that was printed wakes net_task() in msg_get(): Accounted of Net        *)
(* (emac_rx_task() and dev_buf_free() of atmel_emac.c, net_task()).        *)
THEOREM AccountedHolds == Spec => []Accounted
<1>1. Init => StackInv
  BY StackInvInit
<1>2. StackInv /\ [Next]_vars => StackInv'
  BY StackInvKeeps
<1>3. StackInv => Accounted
  BY AllAccounted DEF StackInv
<1> QED BY <1>1, <1>2, <1>3, PTL DEF Spec

LEMMA PicksOne ==
  ASSUME NEW n \in Nat, NEW A, NEW c, NEW f, NEW g, Picks(f, n, A, c), Picks(g, n, A, c)
  PROVE  \A k \in 0..n : f[k] = g[k]
<1>1. n \in 0..n /\ n <= n
  OBVIOUS
<1>2. \A k \in 1..n : A[k] = A[k] /\ (A[k] => c[k] = c[k])
  OBVIOUS
<1> QED BY <1>1, <1>2, PicksSame

-----------------------------------------------------------------------------
(* The frames in the ring.                                                 *)
Shown == Frames \cup {0}
RingAt(k) == Pos(rx.index, k - 1)
RingHas == [k \in 1..NumBufs |-> Untaken(RingAt(k)) /\ rx_desc[RingAt(k)].end]
RingFrames == [k \in 1..NumBufs |-> Of(RingAt(k))]
RingIs(f) == Picks(f, NumBufs, RingHas, RingFrames) /\ InRing = f[NumBufs]

LEMMA RingUnfolds ==
  ASSUME RxType
  PROVE  /\ \E f \in [0..NumBufs -> Seq(Shown)] : RingIs(f)
         /\ InRing \in Seq(Shown)
         /\ \A k \in 1..NumBufs : RingAt(k) \in Bufs /\ RingFrames[k] \in Shown
<1>0. NumBufs \in Nat /\ NumBufs > 0
  BY EmacAssumption
<1>1. PICK x : x = rx.index /\ x \in Bufs
  BY DEF RxType
<1>2. \A k \in 1..NumBufs : /\ RingAt(k) = (x + (k - 1)) % NumBufs /\ RingAt(k) \in Bufs
                            /\ RingAt(k) = (rx.index + (k - 1)) % NumBufs
  <2> TAKE k \in 1..NumBufs
  <2>1. k - 1 \in 0..NumBufs
    BY <1>0
  <2> QED BY <1>1, <2>1, PosIs DEF RingAt
<1>3. RingHas \in [1..NumBufs -> BOOLEAN]
  BY DEF RingHas, Untaken
<1>4. RingFrames \in [1..NumBufs -> Shown]
  <2>1. ASSUME NEW k \in 1..NumBufs PROVE Of(RingAt(k)) \in Shown
    <3>1. rx_desc[RingAt(k)] \in Descs
      BY <1>2 DEF RxType
    <3> QED BY <3>1 DEF Descs, Of, Shown
  <2> QED BY <2>1 DEF RingFrames
<1>5. PICK g \in [0..NumBufs -> Seq(Shown)] : Picks(g, NumBufs, RingHas, RingFrames)
  BY <1>0, <1>3, <1>4, PicksExists
<1> DEFINE at(k) == (rx.index + k) % NumBufs
           E(f) == f = [k \in 0..NumBufs |->
                          IF k = 0 THEN <<>>
                          ELSE IF Untaken(at(k - 1)) /\ rx_desc[at(k - 1)].end
                               THEN Append(f[k - 1], rx_desc[at(k - 1)].frame)
                               ELSE f[k - 1]]
           f == CHOOSE h : E(h)
<1>6. InRing = f[NumBufs]
  BY DEF InRing
<1>7. \A h : E(h) <=> Picks(h, NumBufs, RingHas, RingFrames)
  <2> TAKE h
  <2>1. ASSUME NEW k \in 0..NumBufs
        PROVE  (IF k = 0 THEN <<>>
                          ELSE IF Untaken(at(k - 1)) /\ rx_desc[at(k - 1)].end
                               THEN Append(h[k - 1], rx_desc[at(k - 1)].frame)
                               ELSE h[k - 1])
                = IF k = 0 THEN <<>>
                      ELSE IF RingHas[k] THEN Append(h[k - 1], RingFrames[k]) ELSE h[k - 1]
    <3>1. CASE k = 0
      BY <3>1
    <3>2. CASE k # 0
      <4>1. k \in 1..NumBufs
        BY <1>0, <3>2
      <4>2. RingAt(k) = at(k - 1)
        BY <1>2, <4>1
      <4>3. RingHas[k] = (Untaken(at(k - 1)) /\ rx_desc[at(k - 1)].end)
            /\ RingFrames[k] = rx_desc[at(k - 1)].frame
        BY <4>1, <4>2 DEF RingHas, RingFrames, Of
      <4> HIDE DEF at
      <4> QED BY <3>2, <4>3
    <3> QED BY <3>1, <3>2
  <2> QED BY <2>1, Zenon DEF Picks
<1> HIDE DEF E
<1>8. E(f)
  BY <1>5, <1>7
<1> HIDE DEF f
<1>9. Picks(f, NumBufs, RingHas, RingFrames)
  BY <1>7, <1>8
<1>10. \A k \in 0..NumBufs : f[k] = g[k]
  BY <1>0, <1>5, <1>9, PicksOne
<1>11. RingIs(g) /\ InRing \in Seq(Shown)
  <2>1. NumBufs \in 0..NumBufs
    BY <1>0
  <2>2. InRing = g[NumBufs] /\ g[NumBufs] \in Seq(Shown)
    BY <1>5, <1>6, <1>10, <2>1
  <2> HIDE DEF RingHas, RingFrames, InRing
  <2>3. RingIs(g)
    BY <1>5, <2>2 DEF RingIs
  <2> QED BY <2>2, <2>3
<1> QED BY <1>2, <1>4, <1>5, <1>11

(* The same, after a step.                                                 *)
LEMMA RingUnfoldsNext ==
  RxType' => (/\ \E f \in [0..NumBufs -> Seq(Shown)] : RingIs(f)
              /\ InRing \in Seq(Shown)
              /\ \A k \in 1..NumBufs : RingAt(k) \in Bufs /\ RingFrames[k] \in Shown)'
<1>1. RxType => (/\ \E f \in [0..NumBufs -> Seq(Shown)] : RingIs(f)
              /\ InRing \in Seq(Shown)
              /\ \A k \in 1..NumBufs : RingAt(k) \in Bufs /\ RingFrames[k] \in Shown)
  BY RingUnfolds
<1> QED BY <1>1, PTL

(* It stays as it is, ...                                                  *)
LEMMA RingSame ==
  ASSUME RxType, RxType', rx'.index = rx.index,
         \A b \in Bufs : Untaken(b)' <=> Untaken(b),
         \A b \in Bufs : rx_desc'[b].end = rx_desc[b].end /\ rx_desc'[b].frame = rx_desc[b].frame
  PROVE  InRing' = InRing
<1>0. NumBufs \in Nat /\ NumBufs \in 0..NumBufs
  BY EmacAssumption
<1>1. \A k \in 1..NumBufs : RingAt(k)' = RingAt(k) /\ RingAt(k) \in Bufs
  <2>1. \A k \in 1..NumBufs : RingAt(k) \in Bufs
    BY RingUnfolds
  <2> QED BY <2>1 DEF RingAt, Pos
<1>2. RingHas' = RingHas
  <2>1. ASSUME NEW k \in 1..NumBufs
        PROVE  (Untaken(RingAt(k)) /\ rx_desc[RingAt(k)].end)'
                 = (Untaken(RingAt(k)) /\ rx_desc[RingAt(k)].end)
    <3>1. PICK b \in Bufs : b = RingAt(k) /\ RingAt(k)' = b
      BY <1>1
    <3>2. Untaken(b)' <=> Untaken(b)
      OBVIOUS
    <3>3. Untaken(RingAt(k))' <=> Untaken(RingAt(k))
      BY <3>1, <3>2 DEF Untaken
    <3> QED BY <3>1, <3>3
  <2> QED BY <2>1, Zenon DEF RingHas
<1>3. RingFrames' = RingFrames
  <2>1. ASSUME NEW k \in 1..NumBufs
        PROVE  Of(RingAt(k))' = Of(RingAt(k))
    BY <1>1 DEF Of
  <2> QED BY <2>1, Zenon DEF RingFrames
<1>4. PICK f : RingIs(f)
  BY RingUnfolds
<1>5. PICK g : RingIs(g)'
  BY RingUnfoldsNext
<1>6. PICK A, c : A = RingHas /\ c = RingFrames
  OBVIOUS
<1>7. Picks(f, NumBufs, A, c) /\ InRing = f[NumBufs]
  BY <1>4, <1>6 DEF RingIs
<1>8. Picks(g, NumBufs, A, c) /\ InRing' = g[NumBufs]
  <2>1. Picks(g, NumBufs, RingHas', RingFrames') /\ InRing' = g[NumBufs]
    BY <1>5 DEF RingIs, Picks
  <2> QED BY <1>2, <1>3, <1>6, <2>1
<1>9. \A k \in 0..NumBufs : f[k] = g[k]
  BY <1>0, <1>7, <1>8, PicksOne
<1> QED BY <1>0, <1>7, <1>8, <1>9

(* ... gets a frame as its last buffer is filled, ...                      *)
LEMMA RingFills ==
  ASSUME RxType, RxType', NEW u \in 0..NumBufs, RingOK(u), NEW i, FillPost(i)
  PROVE  InRing' = IF rx_desc'[i].end THEN Append(InRing, Head(eth.part)) ELSE InRing
<1>0. NumBufs \in Nat /\ u < NumBufs /\ u \in Nat /\ u \in 0..NumBufs /\ u + 1 \in 0..NumBufs
      /\ u + 1 \in 1..NumBufs /\ u <= NumBufs /\ (u + 1) - 1 = u
      /\ NumBufs \in u..NumBufs /\ NumBufs \in (u + 1)..NumBufs
  <2>1. u < NumBufs
    BY FillRing
  <2> QED BY <2>1, EmacAssumption
<1>1. i = Pos(rx.index, u) /\ i \in Bufs /\ RingOK(u + 1)'
  BY FillRing
<1>2. /\ rx' = rx /\ ~rx_desc[i].used /\ \A b \in Bufs : b # i => rx_desc'[b] = rx_desc[b]
      /\ rx_desc'[i].frame = Head(eth.part)
  BY DEF FillPost
<1>3. \A k \in 1..NumBufs : RingAt(k)' = RingAt(k) /\ RingAt(k) \in Bufs
  <2>1. \A k \in 1..NumBufs : RingAt(k) \in Bufs
    BY RingUnfolds
  <2> QED BY <1>2, <2>1 DEF RingAt, Pos
<1>4. PICK f, A, c : RingIs(f) /\ A = RingHas /\ c = RingFrames
  BY RingUnfolds
<1>5. PICK g : RingIs(g)'
  BY RingUnfoldsNext
<1>6. PICK B, d : B = RingHas' /\ d = RingFrames'
  OBVIOUS
<1>7. Picks(f, NumBufs, A, c) /\ InRing = f[NumBufs]
  BY <1>4 DEF RingIs
<1>8. Picks(g, NumBufs, B, d) /\ InRing' = g[NumBufs]
  BY <1>5, <1>6 DEF RingIs, Picks
<1>9. ASSUME NEW k \in 1..NumBufs
      PROVE  /\ A[k] = (Untaken(RingAt(k)) /\ rx_desc[RingAt(k)].end) /\ c[k] = rx_desc[RingAt(k)].frame
             /\ B[k] = (Untaken(RingAt(k))' /\ rx_desc'[RingAt(k)].end)
             /\ d[k] = rx_desc'[RingAt(k)].frame
  <2>1. A[k] = (Untaken(RingAt(k)) /\ rx_desc[RingAt(k)].end) /\ c[k] = rx_desc[RingAt(k)].frame
    BY <1>4 DEF RingHas, RingFrames, Of
  <2>2. B[k] = (Untaken(RingAt(k)) /\ rx_desc[RingAt(k)].end)' /\ d[k] = rx_desc'[RingAt(k)'].frame
    BY <1>6 DEF RingHas, RingFrames, Of
  <2> QED BY <1>3, <2>1, <2>2
<1>10. \A k \in 1..u : A[k] = B[k] /\ (A[k] => c[k] = d[k])
  <2> TAKE k \in 1..u
  <2>1. k \in 1..NumBufs /\ k - 1 \in 0..(u - 1) /\ k - 1 \in 0..((u + 1) - 1)
    BY <1>0
  <2>2. Untaken(RingAt(k))
    BY <2>1 DEF RingOK, RingAt
  <2>3. Untaken(RingAt(k))'
    BY <1>1, <2>1 DEF RingOK, RingAt
  <2>4. RingAt(k) # i
    BY <1>2, <2>2 DEF Untaken
  <2>5. rx_desc'[RingAt(k)] = rx_desc[RingAt(k)]
    BY <1>2, <1>3, <2>1, <2>4
  <2> QED BY <1>9, <2>1, <2>2, <2>3, <2>5
<1>11. \A k \in (u + 1)..NumBufs : ~A[k]
  <2> TAKE k \in (u + 1)..NumBufs
  <2>1. k \in 1..NumBufs /\ k - 1 \in u..(NumBufs - 1)
    BY <1>0
  <2>2. ~Untaken(RingAt(k))
    BY <2>1 DEF RingOK, RingAt
  <2> QED BY <1>9, <2>1, <2>2
<1>12. \A k \in ((u + 1) + 1)..NumBufs : ~B[k]
  <2> TAKE k \in ((u + 1) + 1)..NumBufs
  <2>1. k \in 1..NumBufs /\ k - 1 \in (u + 1)..(NumBufs - 1)
    BY <1>0
  <2>2. ~Untaken(RingAt(k))'
    BY <1>1, <2>1 DEF RingOK, RingAt
  <2> QED BY <1>9, <2>1, <2>2
<1>13. /\ RingAt(u + 1) = i /\ (B[u + 1] <=> rx_desc'[i].end)
       /\ d[u + 1] = Head(eth.part)
  <2>1. RingAt(u + 1) = i
    BY <1>0, <1>1 DEF RingAt
  <2>2. u \in 0..((u + 1) - 1)
    BY <1>0
  <2>3. Untaken(RingAt(u + 1))'
    BY <1>0, <1>1, <2>2 DEF RingOK, RingAt
  <2>4. rx_desc'[i].end \in BOOLEAN
    BY <1>1 DEF RxType, Descs
  <2> QED BY <1>0, <1>2, <1>9, <2>1, <2>3, <2>4
<1>14. f[NumBufs] = f[u]
  BY <1>0, <1>7, <1>11, PicksNoMore
<1>15. g[NumBufs] = g[u + 1]
  BY <1>0, <1>8, <1>12, PicksNoMore
<1>16. f[u] = g[u]
  <2>1. \A k \in 0..u : f[k] = g[k]
    <3>1. PICK n : n = NumBufs
      OBVIOUS
    <3>2. n \in Nat /\ u \in 0..n /\ u <= n
      BY <1>0, <3>1
    <3>3. Picks(f, n, A, c) /\ Picks(g, n, B, d)
      BY <1>7, <1>8, <3>1
    <3> HIDE DEF Picks
    <3> QED BY <1>10, <3>2, <3>3, PicksSame
  <2>2. u \in 0..u
    BY <1>0
  <2> QED BY <2>1, <2>2
<1>17. g[u + 1] = IF B[u + 1] THEN Append(g[u], d[u + 1]) ELSE g[u]
  BY <1>0, <1>8, PicksAt
<1> QED BY <1>7, <1>8, <1>13, <1>14, <1>15, <1>16, <1>17

(* ... and loses one as its last buffer is taken.                          *)
LEMMA RingTaken ==
  ASSUME RxType, RxType', NEW s, NEW n, TakePost(s, n)
  PROVE  InRing = Cat(IF rx_desc[rx.index].end THEN <<Of(rx.index)>> ELSE <<>>, InRing')
<1>0. NumBufs \in Nat /\ NumBufs # 0 /\ NumBufs - 1 \in 0..NumBufs /\ 1 \in 1..NumBufs
      /\ NumBufs \in (NumBufs - 1)..NumBufs /\ 0 \in 0..NumBufs
  BY EmacAssumption
<1>1. PICK x \in Bufs : x = rx.index
  BY DEF RxType
<1>2. /\ rx'.index = After(x) /\ rx_desc' = rx_desc /\ bufs'[x].active /\ ~Freed(x)
      /\ \A b \in Bufs : b # x => bufs'[b] = bufs[b]
      /\ pc'["net"] = pc["net"] /\ net' = net
      /\ ~bufs[x].active /\ rx_desc[x].used
  BY <1>1 DEF TakePost
<1>3. \A k \in 1..NumBufs : RingAt(k) = Pos(x, k - 1) /\ RingAt(k)' = Pos(x, k) /\ Pos(x, k) \in Bufs
                            /\ Pos(x, k - 1) \in Bufs
  <2> TAKE k \in 1..NumBufs
  <2>1. k - 1 \in 0..NumBufs /\ k - 1 < NumBufs /\ (k - 1) + 1 = k /\ k \in 0..NumBufs
    BY <1>0
  <2>2. RingAt(k)' = Pos(After(x), k - 1)
    BY <1>2 DEF RingAt, Pos
  <2>3. Pos(After(x), k - 1) = Pos(x, (k - 1) + 1) /\ Pos(x, k - 1) \in Bufs
    BY <2>1, PosIs
  <2>4. Pos(x, k) \in Bufs
    BY <2>1, PosIs
  <2> QED BY <1>1, <2>1, <2>2, <2>3, <2>4 DEF RingAt
<1>4. PICK f \in [0..NumBufs -> Seq(Shown)] : RingIs(f)
  BY RingUnfolds
<1>5. PICK g \in [0..NumBufs -> Seq(Shown)] : RingIs(g)'
  <2>1. (\E g \in [0..NumBufs -> Seq(Shown)] : RingIs(g))'
    BY RingUnfoldsNext
  <2>2. Shown' = Shown
    BY Same DEF Shown
  <2> QED BY <2>1, <2>2
<1>6. PICK A, c, B, d : A = RingHas /\ c = RingFrames /\ B = RingHas' /\ d = RingFrames'
  OBVIOUS
<1>7. Picks(f, NumBufs, A, c) /\ InRing = f[NumBufs]
  BY <1>4, <1>6 DEF RingIs
<1>8. Picks(g, NumBufs, B, d) /\ InRing' = g[NumBufs]
  BY <1>5, <1>6 DEF RingIs, Picks
<1>9. ASSUME NEW k \in 1..NumBufs
      PROVE  /\ A[k] = (Untaken(Pos(x, k - 1)) /\ rx_desc[Pos(x, k - 1)].end)
             /\ c[k] = rx_desc[Pos(x, k - 1)].frame
             /\ B[k] = (Untaken(Pos(x, k))' /\ rx_desc[Pos(x, k)].end)
             /\ d[k] = rx_desc[Pos(x, k)].frame
  <2>0. RingAt(k) = Pos(x, k - 1) /\ RingAt(k)' = Pos(x, k)
    BY <1>3
  <2>1. A[k] = (Untaken(Pos(x, k - 1)) /\ rx_desc[Pos(x, k - 1)].end)
        /\ c[k] = rx_desc[Pos(x, k - 1)].frame
    BY <1>6, <2>0 DEF RingHas, RingFrames, Of
  <2>2. B[k] = (Untaken(RingAt(k))' /\ rx_desc'[RingAt(k)'].end) /\ d[k] = rx_desc'[RingAt(k)'].frame
    BY <1>6 DEF RingHas, RingFrames, Of
  <2>3. Untaken(RingAt(k))' <=> Untaken(Pos(x, k))'
    <3>1. PICK b : b = Pos(x, k) /\ b = RingAt(k)'
      BY <2>0
    <3>2. Untaken(RingAt(k))' <=> Untaken(b)'
      BY <3>1 DEF Untaken
    <3>3. Pos(x, k)' = b
      BY <3>1 DEF Pos
    <3>4. Untaken(Pos(x, k))' <=> Untaken(b)'
      BY <3>3 DEF Untaken
    <3> QED BY <3>2, <3>4
  <2> QED BY <1>2, <2>0, <2>1, <2>2, <2>3
<1>10. \A k \in 1..(NumBufs - 1) : B[k] = A[k + 1] /\ d[k] = c[k + 1]
  <2> TAKE k \in 1..(NumBufs - 1)
  <2>1. k \in 1..NumBufs /\ k + 1 \in 1..NumBufs /\ (k + 1) - 1 = k /\ k \in 0..NumBufs
        /\ 0 \in 0..NumBufs /\ k # 0 /\ k # NumBufs
    BY <1>0
  <2>2. PICK b \in Bufs : b = Pos(x, k)
    BY <1>3, <2>1
  <2>3. b # x
    <3>1. Pos(x, 0) = x
      BY <1>0, PosIs
    <3>2. Pos(x, k) = Pos(x, 0) => k = 0 \/ {k, 0} = {0, NumBufs}
      BY <2>1, PosIs
    <3> QED BY <2>1, <2>2, <3>1, <3>2
  <2>4. Untaken(b)' <=> Untaken(b)
    BY <1>2, <2>2, <2>3 DEF Untaken
  <2>5. Untaken(Pos(x, k))' <=> Untaken(Pos(x, k))
    <3>1. Pos(x, k)' = b
      BY <2>2 DEF Pos
    <3> QED BY <2>2, <2>4, <3>1 DEF Untaken
  <2>6. /\ A[k + 1] = (Untaken(Pos(x, k)) /\ rx_desc[Pos(x, k)].end)
        /\ c[k + 1] = rx_desc[Pos(x, k)].frame
    BY <1>9, <2>1
  <2>7. /\ B[k] = (Untaken(Pos(x, k))' /\ rx_desc[Pos(x, k)].end)
        /\ d[k] = rx_desc[Pos(x, k)].frame
    BY <1>9, <2>1
  <2> QED BY <2>5, <2>6, <2>7
<1>11. \A k \in ((NumBufs - 1) + 1)..NumBufs : ~B[k]
  <2> TAKE k \in ((NumBufs - 1) + 1)..NumBufs
  <2>1. k = NumBufs /\ k \in 1..NumBufs
    BY <1>0
  <2>2. Pos(x, NumBufs) = x
    BY <1>0, PosIs
  <2>3. ~Untaken(x)'
    BY <1>2 DEF Untaken, Freed
  <2>4. ~Untaken(Pos(x, k))'
    <3>1. Pos(x, k)' = x
      BY <2>1, <2>2 DEF Pos
    <3> QED BY <2>3, <3>1 DEF Untaken
  <2>5. B[k] = (Untaken(Pos(x, k))' /\ rx_desc[Pos(x, k)].end)
    BY <1>9, <2>1
  <2> QED BY <2>4, <2>5
<1>12. g[NumBufs] = g[NumBufs - 1]
  <2>1. PICK m, l, G : m = NumBufs - 1 /\ l = NumBufs /\ G = g
    OBVIOUS
  <2>2. l \in Nat /\ m \in 0..l /\ l \in m..l
    BY <1>0, <2>1
  <2>3. Picks(G, l, B, d) /\ \A k \in (m + 1)..l : ~B[k]
    BY <1>8, <1>11, <2>1
  <2>4. G[l] = G[m]
    BY <2>2, <2>3, PicksNoMore
  <2> QED BY <2>1, <2>4
<1>13. \A k \in 1..NumBufs : c[k] \in Shown
  BY <1>6, RingUnfolds
<1>14. f[NumBufs] = Cat(IF A[1] THEN <<c[1]>> ELSE <<>>, g[NumBufs - 1])
  <2>1. PICK l, F, G, first : /\ l = NumBufs /\ F = f /\ G = g
                              /\ first = IF A[1] THEN <<c[1]>> ELSE <<>>
    OBVIOUS
  <2>2. /\ Picks(F, l, A, c) /\ Picks(G, l, B, d)
        /\ F \in [0..l -> Seq(Shown)] /\ G \in [0..l -> Seq(Shown)]
    BY <1>7, <1>8, <2>1
  <2>3. /\ \A k \in 1..l : c[k] \in Shown
        /\ \A k \in 1..(l - 1) : B[k] = A[k + 1] /\ d[k] = c[k + 1]
        /\ l \in Nat /\ l # 0
    BY <1>0, <1>10, <1>13, <2>1
  <2>4. Shifted(l, Shown, A, c, F, B, d, G, first)
    BY <2>1, <2>2, <2>3 DEF Shifted
  <2>5. F[l] = Cat(first, G[l - 1])
    BY <2>4, PicksShift
  <2> QED BY <2>1, <2>5
<1>15. (A[1] <=> rx_desc[x].end) /\ c[1] = Of(x)
  <2>1. Pos(x, 1 - 1) = x
    BY <1>0, PosIs
  <2>2. Untaken(x)
    BY <1>2 DEF Untaken
  <2>3. rx_desc[x].end \in BOOLEAN
    BY DEF RxType, Descs
  <2> QED BY <1>0, <1>9, <2>1, <2>2, <2>3 DEF Of
<1> QED BY <1>1, <1>7, <1>8, <1>12, <1>14, <1>15

-----------------------------------------------------------------------------
(* The frames that have come in, part by part.                             *)
Looked == IF Reading THEN <<Of(net.buf)>> ELSE <<>>
BoxFrames == [i \in DOMAIN Contents |-> Of(Contents[i])]
HandFrames == IF pc["emac"] = "hand" THEN <<Of(rx.start)>> ELSE <<>>
Before == Cat(Cat(Looked, BoxFrames), HandFrames)

LEMMA IncomingIs ==
  /\ Incoming = Cat(Before, InRing)
  /\ Incoming' = Cat(Before', InRing')
<1>1. Incoming = Cat(Before, InRing)
  BY DEF Incoming, Cat, Before, Looked, BoxFrames, HandFrames
<1>2. Incoming' = Cat(Before', InRing')
  BY DEF Incoming, Cat, Before, Looked, BoxFrames, HandFrames
<1> QED BY <1>1, <1>2

(* Whatever waits to be read is in buffers that the driver has.            *)
LEMMA ReadUsed ==
  ASSUME NetInv
  PROVE  /\ \A i \in DOMAIN Contents : Contents[i] \in Bufs /\ rx_desc[Contents[i]].used
         /\ pc["emac"] = "hand" => rx.start \in Bufs /\ rx_desc[rx.start].used
         /\ Reading => net.buf \in Bufs /\ rx_desc[net.buf].used
<1>0. RxType /\ NetType /\ HeldOK /\ BoxedOK
  BY DEF NetInv, Types, RxOK
<1>1. PICK u, k \in 0..NumBufs, size \in Sizes : RxAt(u, k, size)
  BY DEF NetInv, RxOK
<1>2. ASSUME NEW h \in Heads, pc["net"] # "retire" \/ h \in Boxed \cup Handed
      PROVE  h \in Bufs /\ rx_desc[h].used
  <2>1. /\ h \in Bufs /\ size[h] \in 1..NumBufs
        /\ \A i \in 0..(size[h] - 1) : ~Freed(Pos(h, i)) => rx_desc[Pos(h, i)].used
    BY <1>0, <1>1, ChainsUsed
  <2>2. 0 \in 0..(size[h] - 1) /\ Pos(h, 0) = h
    <3>1. NumBufs \in Nat /\ 0 \in 0..NumBufs /\ 0 \in 0..(size[h] - 1)
      BY <2>1, EmacAssumption
    <3> QED BY <2>1, <3>1, PosIs
  <2>3. ~Freed(h)
    <3>1. CASE pc["net"] # "retire"
      BY <3>1 DEF Freed
    <3>2. CASE h \in Boxed \cup Handed
      BY <1>0, <1>1, <2>2, <3>2, FreedApart
    <3> QED BY <1>2, <3>1, <3>2
  <2> QED BY <2>1, <2>2, <2>3
<1>3. \A i \in DOMAIN Contents : Contents[i] \in Boxed /\ Contents[i] \in Heads
  BY DEF Boxed, Heads
<1>4. pc["emac"] = "hand" => rx.start \in Handed /\ rx.start \in Heads
  BY DEF Handed, Heads
<1>5. Reading => net.buf \in Heads /\ pc["net"] # "retire"
  BY <1>0 DEF HeldOK, Heads, Held, Reading
<1> QED BY <1>2, <1>3, <1>4, <1>5

LEMMA PartsShown ==
  ASSUME NetInv
  PROVE  /\ Looked \in Seq(Shown) /\ BoxFrames \in Seq(Shown) /\ HandFrames \in Seq(Shown)
         /\ Cat(Looked, BoxFrames) \in Seq(Shown) /\ Before \in Seq(Shown)
         /\ InRing \in Seq(Shown) /\ Len(BoxFrames) = Len(Contents)
         /\ Contents \in Seq(Bufs)
<1>0. RxType /\ BoxOK
  BY DEF NetInv, Types
<1>1. \A b \in Bufs : Of(b) \in Shown
  <2>1. \A b \in Bufs : rx_desc[b] \in Descs
    BY <1>0 DEF RxType
  <2>2. \A d \in Descs : d.frame \in Frames \cup {0}
    BY DEF Descs
  <2> QED BY <2>1, <2>2 DEF Of, Shown
<1>2. \A e \in Shown : <<e>> \in Seq(Shown)
  OBVIOUS
<1>3. Looked \in Seq(Shown) /\ HandFrames \in Seq(Shown)
  BY <1>1, <1>2, ReadUsed DEF Looked, HandFrames
<1>4. /\ Len(Contents) \in Nat /\ DOMAIN Contents = 1..Len(Contents)
      /\ Contents \in Seq(Bufs)
  BY <1>0, BoxFacts, NetAssumption
<1>5. BoxFrames \in [1..Len(Contents) -> Shown]
  BY <1>1, <1>4, ReadUsed DEF BoxFrames
<1>6. BoxFrames \in Seq(Shown) /\ Len(BoxFrames) = Len(Contents)
  BY <1>4, <1>5
<1>7. Cat(Looked, BoxFrames) \in Seq(Shown)
  BY <1>3, <1>6, CatIs
<1>8. Before \in Seq(Shown)
  BY <1>3, <1>7, CatIs DEF Before
<1>9. InRing \in Seq(Shown)
  BY <1>0, RingUnfolds
<1> QED BY <1>3, <1>4, <1>6, <1>7, <1>8, <1>9

LEMMA PartsShownNext ==
  NetInv' => (/\ Looked \in Seq(Shown) /\ BoxFrames \in Seq(Shown) /\ HandFrames \in Seq(Shown)
              /\ Cat(Looked, BoxFrames) \in Seq(Shown) /\ Before \in Seq(Shown)
              /\ InRing \in Seq(Shown) /\ Len(BoxFrames) = Len(Contents)
              /\ Contents \in Seq(Bufs))'
<1>1. NetInv => /\ Looked \in Seq(Shown) /\ BoxFrames \in Seq(Shown) /\ HandFrames \in Seq(Shown)
                /\ Cat(Looked, BoxFrames) \in Seq(Shown) /\ Before \in Seq(Shown)
                /\ InRing \in Seq(Shown) /\ Len(BoxFrames) = Len(Contents)
                /\ Contents \in Seq(Bufs)
  BY PartsShown
<1> QED BY <1>1, PTL

(* Each part stays as it is where its buffers and their frames do.         *)
LEMMA LookedSame ==
  ASSUME NetInv, Reading' <=> Reading,
         Reading => net'.buf = net.buf,
         \A b \in Bufs : rx_desc[b].used => rx_desc'[b].frame = rx_desc[b].frame
  PROVE  Looked' = Looked
<1>1. CASE Reading
  <2>1. net.buf \in Bufs /\ rx_desc[net.buf].used
    BY <1>1, ReadUsed
  <2> QED BY <1>1, <2>1 DEF Looked, Of
<1>2. CASE ~Reading
  BY <1>2 DEF Looked
<1> QED BY <1>1, <1>2

LEMMA BoxFramesSame ==
  ASSUME NetInv, Contents' = Contents,
         \A b \in Bufs : rx_desc[b].used => rx_desc'[b].frame = rx_desc[b].frame
  PROVE  BoxFrames' = BoxFrames
<1>1. \A i \in DOMAIN Contents : rx_desc'[Contents[i]].frame = rx_desc[Contents[i]].frame
  BY ReadUsed
<1>2. BoxFrames' = [i \in DOMAIN Contents |-> rx_desc'[Contents[i]].frame]
  BY Zenon DEF BoxFrames, Of
<1> QED BY <1>1, <1>2 DEF BoxFrames, Of

LEMMA HandSame ==
  ASSUME NetInv, pc'["emac"] = "hand" <=> pc["emac"] = "hand",
         pc["emac"] = "hand" => rx'.start = rx.start,
         \A b \in Bufs : rx_desc[b].used => rx_desc'[b].frame = rx_desc[b].frame
  PROVE  HandFrames' = HandFrames
<1>1. CASE pc["emac"] = "hand"
  <2>1. rx.start \in Bufs /\ rx_desc[rx.start].used
    BY <1>1, ReadUsed
  <2> QED BY <1>1, <2>1 DEF HandFrames, Of
<1>2. CASE pc["emac"] # "hand"
  BY <1>2 DEF HandFrames
<1> QED BY <1>1, <1>2

(* What leaves all three parts and the ring alone is not seen.             *)
LEMMA IncomingSame ==
  ASSUME NetInv, NetInv', Reading' <=> Reading,
         Reading => net'.buf = net.buf,
         pc'["emac"] = "hand" <=> pc["emac"] = "hand", rx' = rx, Contents' = Contents,
         \A b \in Bufs : Untaken(b)' <=> Untaken(b),
         \A b \in Bufs : rx_desc'[b].end = rx_desc[b].end /\ rx_desc'[b].frame = rx_desc[b].frame
  PROVE  Incoming' = Incoming
<1>1. Looked' = Looked /\ BoxFrames' = BoxFrames /\ HandFrames' = HandFrames
  BY LookedSame, BoxFramesSame, HandSame
<1>2. InRing' = InRing
  BY RingSame DEF NetInv, Types
<1>3. Before' = Before
  BY <1>1 DEF Before, Cat
<1> QED BY <1>2, <1>3, IncomingIs

LEMMA QuietUnseen ==
  ASSUME NetInv, NetInv', Quiet, Reading' <=> Reading
  PROVE  Incoming' = Incoming
<1>1. \A b : (Untaken(b)' <=> Untaken(b))
  BY QuietKeeps DEF NetInv, Types
<1>2. Contents' = Contents
  BY QuietKeeps DEF NetInv, Types
<1>3. /\ rx_desc' = rx_desc /\ rx' = rx /\ net'.buf = net.buf
      /\ pc'["emac"] = "hand" <=> pc["emac"] = "hand"
  BY DEF Quiet
<1> QED BY <1>1, <1>2, <1>3, IncomingSame

LEMMA FreeUnseen ==
  ASSUME NetInv, NetInv', Given \/ Retired \/ Unchained
  PROVE  Incoming' = Incoming /\ handled' = handled
<1>0. SchedType /\ RxType /\ NetType /\ EthType /\ RxOK
  BY DEF NetInv, Types
<1>1. \A b \in Bufs : (Untaken(b)' <=> Untaken(b))
  BY <1>0, GivenKeeps, RetiredKeeps, UnchainedKeeps
<1>2. CASE Given
  <2>1. /\ pc'["net"] = "retire" /\ pc["net"] = "free" /\ pc'["emac"] = pc["emac"] /\ box' = box
        /\ net.rest \in Bufs
        /\ rx_desc' = [rx_desc EXCEPT ![net.rest].used = FALSE]
        /\ rx' = rx /\ spoilt' = spoilt /\ handled' = handled
    BY <1>0, <1>2, GivenSteps DEF Given
  <2>2. Contents' = Contents
    BY <2>1 DEF Contents, Place
  <2>3. \A b \in Bufs : rx_desc'[b].end = rx_desc[b].end /\ rx_desc'[b].frame = rx_desc[b].frame
    <3> TAKE b \in Bufs
    <3>1. rx_desc[b] \in Descs /\ rx_desc[net.rest] \in Descs /\ DOMAIN rx_desc = Bufs
      BY <1>0, <2>1 DEF RxType
    <3>2. rx_desc'[b] = IF b = net.rest THEN [rx_desc[b] EXCEPT !.used = FALSE] ELSE rx_desc[b]
      BY <2>1, <3>1
    <3> QED BY <3>1, <3>2 DEF Descs
  <2> QED BY <1>1, <2>1, <2>2, <2>3, IncomingSame DEF Reading
<1>3. CASE Retired
  <2>1. RetirePost(net.rest) /\ handled' = handled
    BY <1>0, <1>3, RetiredSteps
  <2>2. /\ pc["net"] = "retire" /\ pc'["net"] = "unchain" /\ pc'["emac"] = pc["emac"]
        /\ rx_desc' = rx_desc /\ rx' = rx /\ spoilt' = spoilt /\ box' = box
    BY <2>1 DEF RetirePost
  <2>3. Contents' = Contents
    BY <2>2 DEF Contents, Place
  <2> QED BY <1>1, <2>1, <2>2, <2>3, IncomingSame DEF Reading
<1>4. CASE Unchained
  <2>1. /\ pc'["net"] = (IF net.rest = NoBuf THEN "get" ELSE "free") /\ pc["net"] = "unchain"
        /\ pc'["emac"] = pc["emac"] /\ box' = box
        /\ spoilt' = IF bufs[net.buf].active /\ bufs[net.buf].next # NoBuf
                     THEN spoilt \cup {"cut"} ELSE spoilt
        /\ rx_desc' = rx_desc /\ rx' = rx /\ handled' = handled
    BY <1>0, <1>4, UnchainedSteps DEF Unchained
  <2>2. Contents' = Contents
    BY <2>1 DEF Contents, Place
  <2>3. ~Reading' /\ ~Reading
    BY <2>1 DEF Reading
  <2> QED BY <1>1, <2>1, <2>2, <2>3, IncomingSame
<1> QED BY <1>2, <1>3, <1>4

LEMMA ComesUnseen ==
  ASSUME NetInv, NetInv', Comes
  PROVE  Incoming' = Incoming /\ handled' = handled
<1>1. /\ rx_desc' = rx_desc /\ bufs' = bufs /\ rx' = rx /\ spoilt' = spoilt /\ box' = box
      /\ pc' = pc /\ net' = net /\ handled' = handled
  BY ComesSteps DEF NetInv, Types
<1>2. Contents' = Contents
  BY <1>1 DEF Contents, Place
<1>3. \A b \in Bufs : (Untaken(b)' <=> Untaken(b))
  BY <1>1 DEF Untaken
<1> QED BY <1>1, <1>2, <1>3, IncomingSame DEF Reading

(* The device loses what does not fit before any of it counts; ...         *)
LEMMA LostUnseen ==
  ASSUME NetInv, NetInv', Fills, rx_desc[eth.fill].used,
         UNCHANGED <<schedVars, pc, boxVars, netVars>>
  PROVE  Incoming' = Incoming /\ handled' = handled
<1>1. /\ rx_desc' = rx_desc /\ bufs' = bufs /\ rx' = rx /\ net' = net /\ pc' = pc /\ box' = box
      /\ spoilt' = IF Fresh THEN spoilt ELSE spoilt \cup {"part"}
  BY LostSteps DEF NetInv, Types, RxOK
<1>2. Contents' = Contents
  BY <1>1 DEF Contents, Place
<1>3. \A b \in Bufs : (Untaken(b)' <=> Untaken(b))
  BY <1>1 DEF Untaken
<1>4. handled' = handled
  BY DEF netVars
<1> QED BY <1>1, <1>2, <1>3, <1>4, IncomingSame DEF Reading

(* ... a frame counts once its last buffer is full.                        *)
LEMMA FillPuts ==
  ASSUME NetInv, NetInv', Fills, ~rx_desc[eth.fill].used,
         UNCHANGED <<schedVars, pc, boxVars, netVars>>
  PROVE  /\ \/ Incoming' = Incoming
            \/ Head(eth.part) \in Frames /\ Incoming' = Append(Incoming, Head(eth.part))
         /\ spoilt' = spoilt /\ handled' = handled
<1>0. RxType /\ RxType' /\ EthType /\ RxOK /\ PartOK
  BY DEF NetInv, Types, RxOK
<1>1. FillPost(eth.fill) /\ Head(eth.part) \in Frames
  BY <1>0, FillSteps
<1>2. PICK u \in 0..NumBufs : RingOK(u)
  BY <1>0 DEF RxOK, RxAt
<1>3. InRing' = IF rx_desc'[eth.fill].end THEN Append(InRing, Head(eth.part)) ELSE InRing
  BY <1>0, <1>1, <1>2, RingFills
<1>4. /\ rx' = rx /\ net' = net /\ pc' = pc /\ box' = box /\ spoilt' = spoilt
      /\ \A b \in Bufs : rx_desc[b].used => rx_desc'[b] = rx_desc[b]
  BY <1>1 DEF FillPost
<1>5. Contents' = Contents
  BY <1>4 DEF Contents, Place
<1>6. Before' = Before
  <2>1. Looked' = Looked /\ BoxFrames' = BoxFrames /\ HandFrames' = HandFrames
    BY <1>4, <1>5, LookedSame, BoxFramesSame, HandSame DEF Reading
  <2> QED BY <2>1 DEF Before, Cat
<1>7. Incoming' = Incoming \/ Incoming' = Append(Incoming, Head(eth.part))
  <2>1. Before \in Seq(Shown) /\ InRing \in Seq(Shown) /\ Head(eth.part) \in Shown
    BY <1>1, PartsShown DEF Shown
  <2>2. Append(Cat(Before, InRing), Head(eth.part)) = Cat(Before, Append(InRing, Head(eth.part)))
    BY <2>1, CatAppend
  <2> QED BY <1>3, <1>6, <2>2, IncomingIs
<1>8. handled' = handled
  BY DEF netVars
<1> QED BY <1>1, <1>4, <1>7, <1>8

(* emac_rx_task() takes a frame from the ring as it takes its last buffer, *)
LEMMA TakeUnseen ==
  ASSUME NetInv, NetInv', RxTake, UNCHANGED netVars
  PROVE  Incoming' = Incoming /\ handled' = handled
<1>0. RxType /\ RxType' /\ SchedType /\ RxOK /\ HeldOK
  BY DEF NetInv, Types, RxOK
<1>1. PICK u, k \in 0..NumBufs, size \in Sizes : RxAt(u, k, size)
  BY <1>0 DEF RxOK
<1>2. PICK s, n : TakePost(s, n) /\ Linked(s, n, size)
  BY <1>0, <1>1, TakeSteps
<1>3. /\ rx_desc' = rx_desc /\ spoilt' = spoilt /\ net' = net /\ box' = box
      /\ pc["emac"] = "test" /\ pc'["net"] = pc["net"] /\ rx'.start = s
      /\ pc'["emac"] = IF rx_desc[rx.index].end THEN "hand" ELSE "test"
      /\ n \in 1..NumBufs /\ Pos(s, n - 1) = rx.index
  BY <1>2 DEF TakePost
<1>4. Contents' = Contents
  BY <1>3 DEF Contents, Place
<1>5. Looked' = Looked /\ BoxFrames' = BoxFrames
  BY <1>3, <1>4, LookedSame, BoxFramesSame DEF Reading
<1>6. rx_desc[s].frame = rx_desc[rx.index].frame
  <2>1. n - 1 \in 0..(n - 1)
    BY <1>3, EmacAssumption
  <2>2. rx_desc[Pos(s, n - 1)].frame = rx_desc[s].frame
    BY <1>2, <2>1 DEF Linked
  <2> QED BY <1>3, <2>2
<1>7. HandFrames = <<>>
      /\ HandFrames' = IF rx_desc[rx.index].end THEN <<Of(rx.index)>> ELSE <<>>
  BY <1>3, <1>6 DEF HandFrames, Of
<1>8. InRing = Cat(HandFrames', InRing')
  BY <1>0, <1>2, <1>7, RingTaken
<1>9. PICK L, X, R : L = Cat(Looked, BoxFrames) /\ X = HandFrames' /\ R = InRing'
  OBVIOUS
<1>10. L \in Seq(Shown) /\ X \in Seq(Shown) /\ R \in Seq(Shown)
  <2>1. Shown' = Shown
    BY Same DEF Shown
  <2> QED BY <1>9, <2>1, PartsShown, PartsShownNext
<1>11. Incoming = Cat(Cat(L, <<>>), Cat(X, R))
  BY <1>7, <1>8, <1>9, IncomingIs DEF Before
<1>12. Incoming' = Cat(Cat(L, X), R)
  BY <1>5, <1>9, IncomingIs DEF Before, Cat
<1>13. Cat(L, <<>>) = L /\ Cat(Cat(L, X), R) = Cat(L, Cat(X, R))
  BY <1>10, CatIs, CatCat
<1> QED BY <1>3, <1>11, <1>12, <1>13 DEF netVars

(* ... hands it over, ...                                                  *)
LEMMA HandUnseen ==
  ASSUME NetInv, NetInv', RxHand, UNCHANGED netVars, "refused" \notin spoilt'
  PROVE  Incoming' = Incoming /\ spoilt' = spoilt /\ handled' = handled
<1>0. RxType /\ RxType' /\ SchedType /\ RxOK /\ HeldOK /\ BoxOK
  BY DEF NetInv, Types, RxOK
<1>1. /\ rx.start \in Bufs /\ pc["emac"] = "hand" /\ pc'["emac"] = "test"
      /\ pc'["net"] = pc["net"]
      /\ Contents' = Append(Contents, rx.start) /\ spoilt' = spoilt
  BY <1>0, HandSteps
<1>2. rx_desc' = rx_desc /\ rx' = rx /\ net' = net /\ handled' = handled
  BY DEF RxHand, rxVars, netVars
<1>3. \A b \in Bufs : (Untaken(b)' <=> Untaken(b))
  BY <1>0, HandKeeps
<1>4. Looked' = Looked
  BY <1>1, <1>2, LookedSame DEF Reading
<1>5. InRing' = InRing
  BY <1>0, <1>2, <1>3, RingSame
<1>6. PICK e : e = Of(rx.start)
  OBVIOUS
<1>7. HandFrames = <<e>> /\ HandFrames' = <<>>
  BY <1>1, <1>6 DEF HandFrames
<1>8. e \in Shown
  <2>1. rx_desc[rx.start] \in Descs
    BY <1>0, <1>1 DEF RxType
  <2> QED BY <1>6, <2>1 DEF Of, Descs, Shown
<1>9. BoxFrames' = Append(BoxFrames, e)
  <2>1. PICK C \in Seq(Bufs) : C = Contents
    BY PartsShown
  <2>2. Contents' = Append(C, rx.start)
    BY <1>1, <2>1
  <2>3. Len(C) \in Nat /\ Append(C, rx.start) \in Seq(Bufs) /\ Len(Append(C, rx.start)) = Len(C) + 1
        /\ DOMAIN C = 1..Len(C) /\ DOMAIN Append(C, rx.start) = 1..(Len(C) + 1)
        /\ \A i \in 1..Len(C) : Append(C, rx.start)[i] = C[i]
        /\ Append(C, rx.start)[Len(C) + 1] = rx.start
    BY <1>1
  <2>4. BoxFrames = [i \in 1..Len(C) |-> Of(C[i])]
    BY <2>1, <2>3 DEF BoxFrames
  <2>5. BoxFrames' = [i \in 1..(Len(C) + 1) |-> Of(Append(C, rx.start)[i])]
    BY <1>2, <2>2, <2>3 DEF BoxFrames, Of
  <2>6. PICK B, D : B = BoxFrames /\ D = BoxFrames'
    OBVIOUS
  <2>7. B \in Seq(Shown) /\ Len(B) = Len(C)
    BY <2>1, <2>6, PartsShown
  <2>8. D \in Seq(Shown) /\ Len(D) = Len(C) + 1
    <3>1. Shown' = Shown
      BY Same DEF Shown
    <3>2. BoxFrames' \in Seq(Shown)' /\ Len(BoxFrames') = Len(Contents')
      BY PartsShownNext
    <3> QED BY <2>2, <2>3, <2>6, <3>1, <3>2
  <2>9. \A i \in 1..Len(C) : D[i] = B[i]
    BY <2>3, <2>4, <2>5, <2>6
  <2>10. D[Len(C) + 1] = e
    <3>1. Len(C) + 1 \in 1..(Len(C) + 1)
      BY <2>3
    <3> QED BY <1>6, <2>3, <2>5, <2>6, <3>1
  <2>11. /\ Append(B, e) \in Seq(Shown) /\ Len(Append(B, e)) = Len(C) + 1
         /\ \A i \in 1..Len(C) : Append(B, e)[i] = B[i]
         /\ Append(B, e)[Len(C) + 1] = e
    BY <1>8, <2>7
  <2>12. \A i \in 1..(Len(C) + 1) : i \in 1..Len(C) \/ i = Len(C) + 1
    BY <2>3
  <2>13. \A i \in 1..Len(D) : D[i] = Append(B, e)[i]
    BY <2>8, <2>9, <2>10, <2>11, <2>12
  <2>14. D = Append(B, e)
    BY <2>8, <2>11, <2>13, SeqEqual
  <2> QED BY <2>6, <2>14
<1>10. Before' = Before
  <2>1. PICK L, B : L = Looked /\ B = BoxFrames
    OBVIOUS
  <2>2. L \in Seq(Shown) /\ B \in Seq(Shown) /\ Cat(L, B) \in Seq(Shown)
    BY <2>1, PartsShown
  <2>3. Cat(L, Append(B, e)) = Append(Cat(L, B), e)
    BY <1>8, <2>2, CatAppend
  <2>4. Append(Cat(L, B), e) = Cat(Cat(L, B), <<e>>)
    BY <1>8, <2>2, CatLast
  <2>5. Append(Cat(L, B), e) \in Seq(Shown)
    BY <1>8, <2>2
  <2>6. Cat(Cat(L, Append(B, e)), <<>>) = Cat(L, Append(B, e))
    BY <2>3, <2>5, CatIs
  <2>7. Before = Cat(Cat(L, B), <<e>>)
    BY <1>7, <2>1 DEF Before
  <2>8. Before' = Cat(Cat(L, Append(B, e)), <<>>)
    BY <1>4, <1>7, <1>9, <2>1 DEF Before, Cat
  <2> QED BY <2>3, <2>4, <2>6, <2>7, <2>8
<1> QED BY <1>1, <1>2, <1>5, <1>10, IncomingIs

(* ... and net_task() gets it.                                             *)
LEMMA GotUnseen ==
  ASSUME NetInv, NetInv', NetTake, Got
  PROVE  Incoming' = Incoming /\ spoilt' = spoilt /\ handled' = handled
<1>0. RxType /\ RxType' /\ SchedType /\ NetType /\ RxOK /\ HeldOK /\ BoxOK
  BY DEF NetInv, Types, RxOK
<1>1. /\ pc["net"] = "take" /\ pc'["net"] = "look" /\ pc'["emac"] = pc["emac"]
      /\ net' = [net EXCEPT !.buf = loc', !.rest = loc'] /\ loc' = Contents[1]
      /\ box.num_msgs \in Nat /\ box.num_msgs > 0 /\ Contents' = Tail(Contents)
  BY <1>0, GotSteps
<1>2. rx_desc' = rx_desc /\ rx' = rx /\ spoilt' = spoilt /\ handled' = handled
  BY DEF NetTake, emacVars, rxVars
<1>3. \A b \in Bufs : (Untaken(b)' <=> Untaken(b))
  BY <1>0, GotKeepsRx
<1>4. HandFrames' = HandFrames
  BY <1>1, <1>2, HandSame
<1>5. InRing' = InRing
  BY <1>0, <1>2, <1>3, RingSame
<1>6. PICK C \in Seq(Bufs) : C = Contents
  BY PartsShown
<1>7. /\ Len(C) \in Nat /\ Len(C) > 0 /\ C # <<>>
      /\ Contents' = Tail(C) /\ loc' = C[1]
  <2>1. Len(C) = box.num_msgs
    BY <1>0, <1>6, BoxFacts
  <2> QED BY <1>1, <1>6, <2>1
<1>8. /\ Tail(C) \in Seq(Bufs) /\ Len(Tail(C)) = Len(C) - 1
      /\ \A i \in 1..(Len(C) - 1) : Tail(C)[i] = C[i + 1]
  BY <1>7, HeadTailProperties
<1>9. PICK B \in Seq(Shown), D \in Seq(Shown), e \in Shown :
        B = BoxFrames /\ D = BoxFrames' /\ e = Of(C[1])
  <2>1. Shown' = Shown
    BY Same DEF Shown
  <2>2. C[1] \in Bufs
    BY <1>7
  <2>3. rx_desc[C[1]] \in Descs
    BY <1>0, <2>2 DEF RxType
  <2>4. Of(C[1]) \in Shown
    BY <2>3 DEF Of, Descs, Shown
  <2> QED BY <2>1, <2>4, PartsShown, PartsShownNext
<1>10. /\ Len(B) = Len(C) /\ Len(D) = Len(C) - 1
       /\ \A i \in 1..Len(C) : B[i] = Of(C[i])
       /\ \A i \in 1..(Len(C) - 1) : D[i] = Of(C[i + 1])
  <2>1. BoxFrames = [i \in 1..Len(C) |-> Of(C[i])]
    BY <1>6 DEF BoxFrames
  <2>2. DOMAIN Tail(C) = 1..(Len(C) - 1)
    BY <1>8
  <2>3. BoxFrames' = [i \in 1..(Len(C) - 1) |-> Of(Tail(C)[i])]
    BY <1>2, <1>7, <2>2 DEF BoxFrames, Of
  <2>4. Len(B) = Len(C)
    BY <1>6, <1>9, PartsShown
  <2>5. Len(BoxFrames') = Len(Contents')
    BY PartsShownNext
  <2> QED BY <1>7, <1>8, <1>9, <2>1, <2>3, <2>4, <2>5
<1>11. Looked = <<>> /\ Looked' = <<e>>
  <2>1. net'.buf = C[1]
    BY <1>0, <1>1, <1>7 DEF NetType
  <2> QED BY <1>1, <1>2, <1>9, <2>1 DEF Looked, Of, Reading
<1>12. Cat(<<e>>, D) = B
  <2>1. Splits(Shown, B, e, D)
    <3>1. Len(C) - 1 \in Nat /\ 1 \in 1..Len(C)
      BY <1>7
    <3>2. \A i \in 1..(Len(C) - 1) : 1 + i \in 1..Len(C) /\ 1 + i = i + 1
      BY <1>7
    <3> QED BY <1>7, <1>9, <1>10, <3>1, <3>2 DEF Splits
  <2> QED BY <2>1, CatRest
<1>13. Before' = Before
  <2>1. Cat(Looked, BoxFrames) = B
    BY <1>9, <1>11, CatIs
  <2>2. Before = Cat(B, HandFrames)
    BY <2>1 DEF Before
  <2>3. Before' = Cat(Cat(<<e>>, D), HandFrames)
    BY <1>4, <1>9, <1>11 DEF Before, Cat
  <2> QED BY <1>12, <2>2, <2>3
<1> QED BY <1>2, <1>5, <1>13, IncomingIs

(* It reads the first of them.                                             *)
LEMMA LookDelivers ==
  ASSUME NetInv, NetInv', NetAnswer
  PROVE  /\ Incoming # <<>> /\ handled' = Append(handled, Head(Incoming))
         /\ Incoming' = Tail(Incoming)
         /\ spoilt' = spoilt
<1>0. RxType /\ RxType' /\ SchedType /\ EthType /\ NetType /\ RxOK
  BY DEF NetInv, Types
<1>1. Quiet
  BY <1>0, NetQuiet
<1>2. Reading /\ ~Reading' /\ pc'["emac"] = pc["emac"] /\ box' = box
  <2>1. PICK to \in {"send", "free"} : Does("answer", to)
    BY DEF NetAnswer
  <2> QED BY <1>0, <2>1, DoesSteps DEF Reading
<1>3. handled' = Append(handled, Of(net.buf)) /\ spoilt' = spoilt /\ rx_desc' = rx_desc
      /\ rx' = rx
  BY DEF NetAnswer, Of, emacVars, rxVars
<1>4. \A b : (Untaken(b)' <=> Untaken(b))
  BY <1>0, <1>1, QuietKeeps
<1>5. InRing' = InRing
  BY <1>0, <1>3, <1>4, RingSame
<1>6. Contents' = Contents
  BY <1>2 DEF Contents, Place
<1>7. BoxFrames' = BoxFrames /\ HandFrames' = HandFrames
  BY <1>2, <1>3, <1>6, BoxFramesSame, HandSame
<1>8. PICK L, B, H, R : L = Looked /\ B = BoxFrames /\ H = HandFrames /\ R = InRing
  OBVIOUS
<1>9. PICK e : e = Of(net.buf)
  OBVIOUS
<1>10. e \in Shown
  <2>1. rx_desc[net.buf] \in Descs
    BY <1>0, <1>2, ReadUsed DEF RxType
  <2> QED BY <1>9, <2>1 DEF Of, Descs, Shown
<1>11. L = <<e>> /\ Looked' = <<>> /\ L \in Seq(Shown)
  BY <1>2, <1>8, <1>9, <1>10 DEF Looked
<1>12. B \in Seq(Shown) /\ H \in Seq(Shown) /\ R \in Seq(Shown) /\ L \in Seq(Shown)
  BY <1>8, PartsShown
<1>13. PICK W : W = Cat(B, Cat(H, R))
  OBVIOUS
<1>14. W \in Seq(Shown)
  <2>1. Cat(H, R) \in Seq(Shown)
    BY <1>12, CatIs
  <2> QED BY <1>12, <1>13, <2>1, CatIs
<1>15. Incoming = Cat(L, W)
  <2>1. Incoming = Cat(Cat(Cat(L, B), H), R)
    BY <1>8, IncomingIs DEF Before
  <2>2. Cat(L, B) \in Seq(Shown)
    BY <1>11, <1>12, CatIs
  <2>3. Cat(Cat(Cat(L, B), H), R) = Cat(Cat(L, B), Cat(H, R))
    BY <1>12, <2>2, CatCat
  <2>4. PICK X : X = Cat(H, R) /\ X \in Seq(Shown)
    BY <1>12, CatIs
  <2>5. Cat(Cat(L, B), X) = Cat(L, Cat(B, X))
    BY <1>12, <2>4, CatCat
  <2> QED BY <1>13, <2>1, <2>3, <2>4, <2>5
<1>16. Incoming' = W
  <2>1. Incoming' = Cat(Cat(Cat(<<>>, B), H), R)
    BY <1>5, <1>7, <1>8, <1>11, IncomingIs DEF Before, Cat
  <2>2. Cat(<<>>, B) = B
    BY <1>12, CatIs
  <2>3. Cat(Cat(B, H), R) = Cat(B, Cat(H, R))
    BY <1>12, CatCat
  <2> QED BY <1>13, <2>1, <2>2, <2>3
<1>17. Incoming # <<>> /\ Head(Incoming) = e /\ Tail(Incoming) = W
  BY <1>10, <1>11, <1>14, <1>15, CatFirst
<1> QED BY <1>3, <1>9, <1>16, <1>17

(* Every step is one of the channel's, or is not seen, until the box was   *)
(* full or net_task() strayed.                                             *)
Broken == spoilt \cap {"refused", "stray"} # {}

LEMMA RxSteps ==
  ASSUME NetInv, NetInv', ~Broken', [Next]_vars
  PROVE  [Rx!Next]_<<Incoming, handled, Broken>>
<1> DEFINE Unseen == Incoming' = Incoming /\ handled' = handled
<1>0. SchedType /\ RxType /\ EthType /\ NetType /\ RxOK
  BY DEF NetInv, Types
<1>a. "refused" \notin spoilt' /\ ~Strayed'
  BY DEF Broken, Strayed
<1>b. ~Broken
  BY Grows DEF Broken
<1> QED
  <2>0. ASSUME Unseen PROVE [Rx!Next]_<<Incoming, handled, Broken>>
    <3>1. Broken' = Broken
      BY <1>b DEF Broken
    <3> QED BY <2>0, <3>1
  <2> HIDE DEF Unseen
  <2>1. CASE (RxStart \/ RxSleep \/ RxStop) /\ UNCHANGED <<netVars, load>>
    <3>1. Quiet
      BY <1>0, <2>1, EmacQuiet
    <3>2. pc'["net"] = pc["net"]
      BY <1>0, <2>1, Pcs DEF RxStart, RxSleep, RxStop, Reading
    <3>3. handled' = handled
      BY <2>1 DEF netVars
    <3>4. Unseen
      BY <3>1, <3>2, <3>3, QuietUnseen DEF Unseen, Reading
    <3> QED BY <2>0, <3>4
  <2>2. CASE RxTake /\ UNCHANGED <<netVars, load>>
    <3>1. Unseen
      BY <2>2, TakeUnseen DEF Unseen
    <3> QED BY <2>0, <3>1
  <2>3. CASE RxHand /\ UNCHANGED <<netVars, load>>
    <3>1. Unseen
      BY <1>a, <2>3, HandUnseen DEF Unseen
    <3> QED BY <2>0, <3>1
  <2>4. CASE (NetStart \/ NetWait \/ NetSend) /\ UNCHANGED load
    <3>1. Quiet
      BY <1>0, <2>4, NetQuiet
    <3>2. ~Reading /\ ~Reading'
      <4>1. ASSUME NEW from \in {"start", "get", "send", "last", "size", "next", "go"},
                   NEW to \in {"send", "take", "last", "size", "next", "go", "get", "free"},
                   Step("net", from, to)
            PROVE  ~Reading /\ ~Reading'
        BY <1>0, <4>1, Pcs DEF Reading
      <4> QED BY <2>4, <4>1 DEF NetStart, NetWait, NetSend, Does
    <3>3. handled' = handled
      BY <2>4 DEF NetStart, NetWait, NetSend, netVars
    <3>4. Unseen
      BY <3>1, <3>2, <3>3, QuietUnseen DEF Unseen, Reading
    <3> QED BY <2>0, <3>4
  <2>5. CASE NetAnswer /\ UNCHANGED load
    <3>1. /\ Incoming # <<>> /\ handled' = Append(handled, Head(Incoming))
          /\ Incoming' = Tail(Incoming) /\ spoilt' = spoilt
      BY <2>5, LookDelivers
    <3>2. Rx!Deliver
      BY <3>1 DEF Rx!Deliver
    <3> QED BY <3>2 DEF Rx!Next
  <2>6. CASE NetTake /\ UNCHANGED load
    <3>1. Got
      BY <1>0, <2>6, TakesMessage DEF NetInv
    <3>2. Unseen
      BY <2>6, <3>1, GotUnseen DEF Unseen
    <3> QED BY <2>0, <3>2
  <2>7. CASE NetFree /\ UNCHANGED load
    <3>1. pc["net"] \in {"free", "retire", "unchain"}
      <4>1. ASSUME NEW from \in {"free", "retire", "unchain"}, NEW to, Does(from, to)
            PROVE  pc["net"] = from
        BY <1>0, <4>1, DoesSteps
      <4> QED BY <2>7, <4>1 DEF NetFree
    <3>2. Given \/ Retired \/ Unchained
      BY <2>7, <3>1 DEF Given, Retired, Unchained
    <3>3. Unseen
      BY <3>2, FreeUnseen DEF Unseen
    <3> QED BY <2>0, <3>3
  <2>8. CASE (IsrRead \/ IsrClear \/ IsrEnter) /\ UNCHANGED <<netVars, load>>
    <3>1. Quiet
      BY <1>0, <2>8, IsrQuiet
    <3>2. pc' = pc
      BY <2>8 DEF IsrRead, IsrClear, IsrEnter
    <3>3. handled' = handled
      BY <2>8 DEF netVars
    <3>4. Unseen
      BY <3>1, <3>2, <3>3, QuietUnseen DEF Unseen, Reading
    <3> QED BY <2>0, <3>4
  <2>9. CASE Fills /\ UNCHANGED <<schedVars, pc, boxVars, netVars, load>>
    <3>1. CASE rx_desc[eth.fill].used
      <4>1. Unseen
        BY <2>9, <3>1, LostUnseen DEF Unseen
      <4> QED BY <2>0, <4>1
    <3>2. CASE ~rx_desc[eth.fill].used
      <4>1. /\ \/ Incoming' = Incoming
               \/ Head(eth.part) \in Frames /\ Incoming' = Append(Incoming, Head(eth.part))
            /\ spoilt' = spoilt /\ handled' = handled
        BY <2>9, <3>2, FillPuts
      <4>2. CASE Incoming' = Incoming
        <5>1. Unseen
          BY <4>1, <4>2 DEF Unseen
        <5> QED BY <2>0, <5>1
      <4>3. CASE Head(eth.part) \in Frames /\ Incoming' = Append(Incoming, Head(eth.part))
        <5>1. PICK f \in Frames : f = Head(eth.part)
          BY <4>3
        <5>2. Rx!Put(f)
          <6>1. Rx!Wire(f) = <<f>>
            BY DEF Rx!Wire
          <6>2. Append(Incoming, f) = Incoming \o <<f>>
            <7>1. Incoming \in Seq(Shown) /\ f \in Shown
              BY <5>1, IncomingIs, PartsShown, CatIs DEF Shown
            <7> QED BY <7>1, AppendIsConcat
          <6> QED BY <4>1, <4>3, <5>1, <6>1, <6>2 DEF Rx!Put
        <5> QED BY <5>2 DEF Rx!Next
      <4> QED BY <4>1, <4>2, <4>3
    <3> QED BY <3>1, <3>2
  <2>10. CASE Sends /\ UNCHANGED <<schedVars, pc, boxVars, netVars, load>>
    <3>1. Quiet
      BY <1>0, <2>10, SendsQuiet
    <3>2. handled' = handled /\ pc' = pc
      BY <2>10 DEF netVars
    <3>3. Unseen
      BY <3>1, <3>2, QuietUnseen DEF Unseen, Reading
    <3> QED BY <2>0, <3>3
  <2>11. CASE Comes
    <3>1. Unseen
      BY <2>11, ComesUnseen DEF Unseen
    <3> QED BY <2>0, <3>1
  <2>12. CASE UNCHANGED vars
    <3>1. /\ rx_desc' = rx_desc /\ bufs' = bufs /\ rx' = rx /\ eth' = eth /\ spoilt' = spoilt
          /\ box' = box /\ net' = net /\ pc' = pc /\ handled' = handled
      BY <2>12 DEF vars, schedVars, boxVars, emacVars, rxVars, txVars, netVars
    <3>2. Quiet
      BY <3>1 DEF Quiet
    <3>3. Unseen
      BY <3>1, <3>2, QuietUnseen DEF Unseen, Reading
    <3> QED BY <2>0, <3>3
  <2>13. CASE (NetLook \/ NetPrint \/ NetPut) /\ UNCHANGED load
    <3>1. Untouched /\ Reading /\ Reading'
      BY <1>0, <2>13, PrintUntouched
    <3>2. Quiet /\ handled' = handled
      BY <1>0, <3>1, UntouchedKeeps DEF NetInv, Untouched, netVars
    <3>3. Unseen
      BY <3>1, <3>2, QuietUnseen DEF Unseen
    <3> QED BY <2>0, <3>3
  <2>14. CASE Output
    <3>1. Untouched /\ pc' = pc
      BY <1>a, <2>14, OutputUntouched
    <3>2. Quiet /\ handled' = handled
      BY <1>0, <3>1, UntouchedKeeps DEF NetInv, Untouched, netVars
    <3>3. Unseen
      BY <3>1, <3>2, QuietUnseen DEF Unseen, Reading
    <3> QED BY <2>0, <3>3
  <2> QED BY <2>1, <2>2, <2>3, <2>4, <2>5, <2>6, <2>7, <2>8, <2>9, <2>10, <2>11, <2>12, <2>13,
             <2>14
          DEF Next, Goes, EmacTask, NetTask, EmacIsr, Interrupt, Device

LEMMA RxBegins ==
  ASSUME Init
  PROVE  Rx!Init
<1>0. NetInv
  BY NetInvInit
<1>1. /\ \A b \in Bufs : ~rx_desc[b].used
      /\ pc["net"] = "start" /\ pc["emac"] = "start" /\ box.num_msgs = 0 /\ spoilt = {}
      /\ handled = <<>>
  BY NetAssumption DEF Init, EmacInit, DevInit, BufInit, NetInit
<1>2. Contents = <<>>
  BY <1>1 DEF Contents
<1>3. Looked = <<>> /\ HandFrames = <<>> /\ BoxFrames = <<>>
  BY <1>1, <1>2 DEF Looked, HandFrames, BoxFrames, Reading
<1>4. InRing = <<>>
  <2>0. NumBufs \in Nat /\ 0 \in 0..NumBufs /\ NumBufs \in 0..NumBufs
    BY EmacAssumption
  <2>1. RxType
    BY <1>0 DEF NetInv, Types
  <2>2. PICK f, A, c : RingIs(f) /\ A = RingHas /\ c = RingFrames
    BY <2>1, RingUnfolds
  <2>3. Picks(f, NumBufs, A, c) /\ InRing = f[NumBufs]
    BY <2>2 DEF RingIs
  <2>4. \A k \in (0 + 1)..NumBufs : ~A[k]
    <3> TAKE k \in (0 + 1)..NumBufs
    <3>1. k \in 1..NumBufs
      BY <2>0
    <3>2. RingAt(k) \in Bufs
      BY <2>1, <3>1, RingUnfolds
    <3>3. ~Untaken(RingAt(k))
      BY <1>1, <3>2 DEF Untaken
    <3> QED BY <2>2, <3>1, <3>3 DEF RingHas
  <2>5. f[NumBufs] = f[0]
    BY <2>0, <2>3, <2>4, PicksNoMore
  <2>6. f[0] = <<>>
    BY <2>0, <2>3, PicksAt
  <2> QED BY <2>3, <2>5, <2>6
<1>5. Incoming = <<>>
  <2>1. Incoming = Cat(Cat(Cat(<<>>, <<>>), <<>>), <<>>)
    BY <1>3, <1>4, IncomingIs DEF Before
  <2>2. <<>> \in Seq(Shown)
    OBVIOUS
  <2>3. Cat(<<>>, <<>>) = <<>>
    BY <2>2, CatIs
  <2> QED BY <2>1, <2>3
<1>6. (spoilt \cap {"refused", "stray"} # {}) = FALSE
  BY <1>1
<1> QED BY <1>1, <1>5, <1>6 DEF Rx!Init

LEMMA RxStepsHold ==
  ASSUME StackInv, [Next]_vars
  PROVE  [Rx!Next]_<<Incoming, handled, Broken>>
<1>1. CASE Broken'
  BY <1>1 DEF Rx!Next, Broken
<1>2. CASE ~Broken'
  <2>1. ~Strayed' /\ ~Strayed
    BY <1>2, Grows DEF Broken, Strayed
  <2>2. NetInv /\ NetInv'
    BY <2>1, StackInvKeeps DEF StackInv
  <2> QED BY <1>2, <2>2, RxSteps
<1> QED BY <1>1, <1>2

(* RxFrames of Net: until the box was full, or a character that was        *)
(* printed woke net_task() in msg_get(), every frame that came in whole is *)
(* read by net_task() once, in the order in which the frames came --       *)
(* whatever frames come, for every size of the ring and of the box, and    *)
(* wherever the handler, the device, the output and the tasks come between *)
(* each other: the ring of descriptors, the chains and the box             *)
(* (atmel_emac.c, msgs.c, net_init.c) implement a channel.                 *)
THEOREM RxFramesHolds == Spec => RxFrames
<1>1. Init => StackInv /\ Rx!Init
  BY StackInvInit, RxBegins
<1>2. StackInv /\ [Next]_vars => StackInv' /\ [Rx!Next]_<<Incoming, handled, Broken>>
  BY StackInvKeeps, RxStepsHold
<1> QED BY <1>1, <1>2, PTL DEF Spec, RxFrames, Rx!Spec, Broken

-----------------------------------------------------------------------------
(* What the frames are to be answered with, one after the other.           *)
Sendable == Pkts \cup {0}
Serving == [sent : Seq(Sendable), id : Nat]
AtFirst == [sent |-> <<Announcement>>, id |-> 0]
ServedBy(fs) == [p \in (1..Len(fs)) \X Serving |-> Served(p[2], fs[p[1]])]

LEMMA AnswerType ==
  ASSUME NEW f \in Frames, NEW id \in Nat
  PROVE  \/ Answer(f, id) = <<>>
         \/ \E p \in Pkts : Answer(f, id) = <<p>>
<1>1. f.src \in Nat
  BY FrameFacts
<1>2. ArpReply(f) \in Pkts /\ EchoReply(f, id) \in Pkts
  BY <1>1 DEF ArpReply, EchoReply, Pkts
<1> QED BY <1>2 DEF Answer

LEMMA ServedType ==
  ASSUME NEW s \in Serving, NEW f \in Frames
  PROVE  Served(s, f) \in Serving
<1>1. s.sent \in Seq(Sendable) /\ s.id \in Nat
  BY DEF Serving
<1>2. PICK a : a = Answer(f, s.id)
  OBVIOUS
<1>3. a \in Seq(Sendable)
  <2>1. a = <<>> \/ \E p \in Pkts : a = <<p>>
    BY <1>1, <1>2, AnswerType
  <2>2. \A p \in Sendable : <<p>> \in Seq(Sendable)
    OBVIOUS
  <2>3. \A p \in Pkts : <<p>> \in Seq(Sendable)
    <3>1. Pkts \subseteq Sendable
      BY DEF Sendable
    <3> QED BY <2>2, <3>1
  <2>4. <<>> \in Seq(Sendable)
    OBVIOUS
  <2> QED BY <2>1, <2>3, <2>4
<1>4. s.sent \o a \in Seq(Sendable)
  BY <1>1, <1>3, ConcatProperties
<1>5. (s.id + 1) % 65536 \in Nat
  BY <1>1
<1>6. \A q \in Seq(Sendable), j \in Nat : [sent |-> q, id |-> j] \in Serving
  BY DEF Serving
<1>7. PICK q \in Seq(Sendable) : q = s.sent \o a
  BY <1>4
<1>8. PICK i \in Nat : i = (s.id + 1) % 65536
  BY <1>5
<1>9. Served(s, f) = [sent |-> s.sent \o Answer(f, s.id),
                      id |-> IF Answer(f, s.id) # <<>> /\ f.type = "ipv4"
                             THEN (s.id + 1) % 65536 ELSE s.id]
  BY DEF Served
<1>10. Served(s, f) = [sent |-> q,
                       id |-> IF a # <<>> /\ f.type = "ipv4" THEN i ELSE s.id]
  BY <1>2, <1>7, <1>8, <1>9
<1>11. CASE a # <<>> /\ f.type = "ipv4"
  <2>1. Served(s, f) = [sent |-> q, id |-> i]
    BY <1>10, <1>11
  <2> QED BY <1>6, <2>1
<1>12. CASE ~(a # <<>> /\ f.type = "ipv4")
  <2>1. Served(s, f) = [sent |-> q, id |-> s.id]
    BY <1>10, <1>12
  <2> QED BY <1>1, <1>6, <2>1
<1> QED BY <1>11, <1>12

LEMMA FirstType ==
  AtFirst \in Serving
<1>1. Announcement \in Sendable
  BY DEF Announcement, All, Sendable, Pkts
<1>2. \A p \in Sendable : <<p>> \in Seq(Sendable)
  OBVIOUS
<1>3. <<Announcement>> \in Seq(Sendable)
  BY <1>1, <1>2
<1> QED BY <1>3 DEF AtFirst, Serving

LEMMA AnswersUnfold ==
  ASSUME NEW fs \in Seq(Frames)
  PROVE  /\ \E g \in [0..Len(fs) -> Serving] :
              Unfolds(g, Len(fs), AtFirst, ServedBy(fs)) /\ Answers(fs) = g[Len(fs)]
         /\ Answers(fs) \in Serving
<1>0. Len(fs) \in Nat /\ \A i \in 1..Len(fs) : fs[i] \in Frames
  BY LenProperties
<1>1. ServedBy(fs) \in [(1..Len(fs)) \X Serving -> Serving]
  <2>1. ASSUME NEW p \in (1..Len(fs)) \X Serving
        PROVE  Served(p[2], fs[p[1]]) \in Serving
    <3>1. p[1] \in 1..Len(fs) /\ p[2] \in Serving
      OBVIOUS
    <3> QED BY <1>0, <3>1, ServedType
  <2> QED BY <2>1 DEF ServedBy
<1>2. PICK g \in [0..Len(fs) -> Serving] : Unfolds(g, Len(fs), AtFirst, ServedBy(fs))
  BY <1>0, <1>1, FirstType, Unfolding
<1> DEFINE E(h) == h = [i \in 0..Len(fs) |-> IF i = 0 THEN [sent |-> <<Announcement>>, id |-> 0]
                                              ELSE Served(h[i - 1], fs[i])]
           f == CHOOSE h : E(h)
<1>3. Answers(fs) = f[Len(fs)]
  BY DEF Answers
<1>4. \A i \in 0..Len(fs) : g[i] = IF i = 0 THEN AtFirst ELSE Served(g[i - 1], fs[i])
  <2> TAKE i \in 0..Len(fs)
  <2>1. g[i] = IF i = 0 THEN AtFirst ELSE ServedBy(fs)[<<i, g[i - 1]>>]
    BY <1>2 DEF Unfolds
  <2>2. CASE i = 0
    BY <2>1, <2>2
  <2>3. CASE i # 0
    <3>1. i \in 1..Len(fs) /\ i - 1 \in 0..Len(fs)
      BY <1>0, <2>3
    <3>2. <<i, g[i - 1]>> \in (1..Len(fs)) \X Serving
      BY <3>1
    <3>3. ServedBy(fs)[<<i, g[i - 1]>>] = Served(g[i - 1], fs[i])
      BY <3>2 DEF ServedBy
    <3> QED BY <2>1, <2>3, <3>3
  <2> QED BY <2>2, <2>3
<1>5. E(g)
  <2>1. g = [i \in 0..Len(fs) |-> g[i]]
    OBVIOUS
  <2> QED BY <1>4, <2>1, Zenon DEF AtFirst
<1>6. E(f)
  <2> HIDE DEF E
  <2> QED BY <1>5
<1>7. \A i \in 0..Len(fs) : f[i] = IF i = 0 THEN AtFirst ELSE Served(f[i - 1], fs[i])
  <2> HIDE DEF f
  <2> QED BY <1>6 DEF AtFirst
<1>8. \A i \in 0..Len(fs) : f[i] = g[i]
  <2> DEFINE T == {k \in 0..Len(fs) : f[k] = g[k]}
  <2> HIDE DEF f
  <2>1. 0 \in T
    BY <1>0, <1>4, <1>7
  <2>2. ASSUME NEW k \in 0..(Len(fs) - 1), k \in T PROVE k + 1 \in T
    <3>1. k + 1 # 0 /\ k + 1 \in 0..Len(fs) /\ (k + 1) - 1 = k
      BY <1>0
    <3>2. f[k + 1] = Served(f[k], fs[k + 1]) /\ g[k + 1] = Served(g[k], fs[k + 1])
      BY <1>4, <1>7, <3>1
    <3> QED BY <2>2, <3>1, <3>2
  <2> HIDE DEF T
  <2>3. \A k \in 0..Len(fs) : k \in T
    BY <1>0, <2>1, <2>2, UpTo
  <2> QED BY <2>3 DEF T
<1>9. Answers(fs) = g[Len(fs)] /\ g[Len(fs)] \in Serving
  <2>1. Len(fs) \in 0..Len(fs)
    BY <1>0
  <2> QED BY <1>3, <1>8, <2>1
<1> QED BY <1>2, <1>9

LEMMA AnswersFirst ==
  Answers(<<>>) = AtFirst
<1>1. <<>> \in Seq(Frames) /\ Len(<<>>) = 0 /\ 0 \in 0..0
  OBVIOUS
<1>2. PICK e : e = <<>>
  OBVIOUS
<1>3. PICK g : Unfolds(g, Len(e), AtFirst, ServedBy(e)) /\ Answers(e) = g[Len(e)]
  BY <1>1, <1>2, AnswersUnfold
<1>4. g[0] = AtFirst
  BY <1>1, <1>2, <1>3 DEF Unfolds
<1> QED BY <1>1, <1>2, <1>3, <1>4

LEMMA AnswersNext ==
  ASSUME NEW fs \in Seq(Frames), NEW f \in Frames
  PROVE  Answers(Append(fs, f)) = Served(Answers(fs), f)
<1>1. PICK n \in Nat, w \in Seq(Frames) : n = Len(fs) /\ w = Append(fs, f)
  BY LenProperties, AppendProperties
<1>2. Len(w) = n + 1 /\ w[n + 1] = f /\ \A i \in 1..n : w[i] = fs[i]
  <2>1. /\ Len(Append(fs, f)) = Len(fs) + 1 /\ Append(fs, f)[Len(fs) + 1] = f
        /\ \A i \in 1..Len(fs) : Append(fs, f)[i] = fs[i]
    BY AppendProperties
  <2> QED BY <1>1, <2>1
<1>3. PICK g \in [0..n -> Serving] : Unfolds(g, n, AtFirst, ServedBy(fs)) /\ Answers(fs) = g[n]
  BY <1>1, AnswersUnfold
<1>4. PICK h \in [0..(n + 1) -> Serving] :
        Unfolds(h, n + 1, AtFirst, ServedBy(w)) /\ Answers(w) = h[n + 1]
  <2>1. \E h \in [0..Len(w) -> Serving] :
          Unfolds(h, Len(w), AtFirst, ServedBy(w)) /\ Answers(w) = h[Len(w)]
    BY AnswersUnfold, Zenon
  <2> QED BY <1>2, <2>1
<1>5. h[n] = g[n]
  <2>1. Agree(n, g, ServedBy(w), ServedBy(fs))
    <3> SUFFICES ASSUME NEW k \in 1..n
                 PROVE  ServedBy(w)[<<k, g[k - 1]>>] = ServedBy(fs)[<<k, g[k - 1]>>]
      BY DEF Agree
    <3>1. g[k - 1] \in Serving /\ k \in 1..Len(fs) /\ k \in 1..Len(w)
      BY <1>1, <1>2
    <3>2. /\ <<k, g[k - 1]>> \in (1..Len(fs)) \X Serving
          /\ <<k, g[k - 1]>> \in (1..Len(w)) \X Serving
      BY <3>1
    <3> QED BY <1>2, <3>2 DEF ServedBy
  <2>2. PICK m, A, B, a, b : /\ m \in Nat /\ m = n + 1 /\ A = ServedBy(w) /\ B = ServedBy(fs)
                             /\ a = AtFirst /\ b = AtFirst
    OBVIOUS
  <2>3. /\ n \in 0..m /\ Unfolds(h, m, a, A) /\ Unfolds(g, n, b, B) /\ a = b
        /\ Agree(n, g, A, B)
    BY <1>3, <1>4, <2>1, <2>2
  <2>4. m \in Nat
    BY <2>2
  <2> QED BY <2>3, <2>4, OneUnfolding
<1>6. h[n + 1] = Served(h[n], f)
  <2>1. n + 1 \in 0..(n + 1) /\ n + 1 # 0 /\ (n + 1) - 1 = n /\ h[n] \in Serving
    OBVIOUS
  <2>2. h[n + 1] = ServedBy(w)[<<n + 1, h[n]>>]
    BY <1>4, <2>1 DEF Unfolds
  <2>3. <<n + 1, h[n]>> \in (1..Len(w)) \X Serving
    BY <1>2, <2>1
  <2>4. ServedBy(w)[<<n + 1, h[n]>>] = Served(h[n], w[n + 1])
    BY <2>3 DEF ServedBy
  <2> QED BY <1>2, <2>2, <2>4
<1> QED BY <1>1, <1>3, <1>4, <1>5, <1>6

-----------------------------------------------------------------------------
(* The packets in the transmit ring.                                       *)
TxAt(k) == Pos(eth.send, k - 1)
TxHas == [k \in 1..NumBufs |-> tx_desc[TxAt(k)].stat = {"last", "size"}]
TxPkts == [k \in 1..NumBufs |-> tx_desc[TxAt(k)].pkt]
TxFrames(q) == [k \in 1..q |-> tx_desc[TxAt(k)].pkt]

(* q packets are complete, from the place on that the device sends next;   *)
(* all others were sent, but for the one that is being put together.       *)
Writing == pc["net"] \in {"last", "size"}
TxIdx(q) ==
  /\ \A i \in 0..(q - 1) : tx_desc[Pos(eth.send, i)].stat = {"last", "size"}
  /\ \A i \in q..(NumBufs - 1) : \/ "used" \in tx_desc[Pos(eth.send, i)].stat
                                 \/ Writing /\ Pos(eth.send, i) = tx_index
  /\ Writing => /\ q < NumBufs /\ tx_desc[tx_index].pkt = pkt
                /\ tx_desc[tx_index].stat = IF pc["net"] = "last" THEN {} ELSE {"last"}
  /\ Pos(eth.send, q) = IF pc["net"] = "next" THEN After(tx_index) ELSE tx_index

LEMMA QueuedUnfolds ==
  ASSUME TxType, EthType
  PROVE  /\ \E f \in [0..NumBufs -> Seq(Sendable)] :
              Picks(f, NumBufs, TxHas, TxPkts) /\ Queued = f[NumBufs]
         /\ \A k \in 1..NumBufs : TxAt(k) \in Bufs /\ TxPkts[k] \in Sendable
<1>0. NumBufs \in Nat /\ NumBufs > 0
  BY EmacAssumption
<1>1. PICK x : x = eth.send /\ x \in Bufs
  BY DEF EthType
<1>2. \A k \in 1..NumBufs : /\ TxAt(k) \in Bufs /\ TxAt(k) = (eth.send + (k - 1)) % NumBufs
  <2> TAKE k \in 1..NumBufs
  <2>1. k - 1 \in 0..NumBufs
    BY <1>0
  <2> QED BY <1>1, <2>1, PosIs DEF TxAt
<1>3. TxHas \in [1..NumBufs -> BOOLEAN]
  BY DEF TxHas
<1>4. TxPkts \in [1..NumBufs -> Sendable]
  <2>1. ASSUME NEW k \in 1..NumBufs PROVE tx_desc[TxAt(k)].pkt \in Sendable
    <3>1. tx_desc[TxAt(k)] \in [stat : SUBSET {"used", "last", "size"}, pkt : Pkts \cup {0}]
      BY <1>2 DEF TxType
    <3> QED BY <3>1 DEF Sendable
  <2> QED BY <2>1 DEF TxPkts
<1>5. PICK g \in [0..NumBufs -> Seq(Sendable)] : Picks(g, NumBufs, TxHas, TxPkts)
  BY <1>0, <1>3, <1>4, PicksExists
<1> DEFINE at(k) == tx_desc[(eth.send + k) % NumBufs]
           E(f) == f = [k \in 0..NumBufs |->
                          IF k = 0 THEN <<>>
                          ELSE IF at(k - 1).stat = {"last", "size"}
                               THEN Append(f[k - 1], at(k - 1).pkt)
                               ELSE f[k - 1]]
           f == CHOOSE h : E(h)
<1>6. Queued = f[NumBufs]
  BY DEF Queued
<1>7. \A h : E(h) <=> Picks(h, NumBufs, TxHas, TxPkts)
  <2> TAKE h
  <2>1. ASSUME NEW k \in 0..NumBufs
        PROVE  (IF k = 0 THEN <<>>
                ELSE IF at(k - 1).stat = {"last", "size"} THEN Append(h[k - 1], at(k - 1).pkt)
                                                          ELSE h[k - 1])
                = IF k = 0 THEN <<>>
                  ELSE IF TxHas[k] THEN Append(h[k - 1], TxPkts[k]) ELSE h[k - 1]
    <3>1. CASE k = 0
      BY <3>1
    <3>2. CASE k # 0
      <4>1. k \in 1..NumBufs
        BY <1>0, <3>2
      <4>2. tx_desc[TxAt(k)] = at(k - 1)
        BY <1>2, <4>1
      <4>3. TxHas[k] = (at(k - 1).stat = {"last", "size"}) /\ TxPkts[k] = at(k - 1).pkt
        BY <4>1, <4>2 DEF TxHas, TxPkts
      <4> HIDE DEF at
      <4> QED BY <3>2, <4>3
    <3> QED BY <3>1, <3>2
  <2> QED BY <2>1, Zenon DEF Picks
<1> HIDE DEF E
<1>8. E(f)
  BY <1>5, <1>7
<1> HIDE DEF f
<1>9. Picks(f, NumBufs, TxHas, TxPkts)
  BY <1>7, <1>8
<1>10. \A k \in 0..NumBufs : f[k] = g[k]
  BY <1>0, <1>5, <1>9, PicksOne
<1>11. Queued = g[NumBufs]
  <2>1. NumBufs \in 0..NumBufs
    BY <1>0
  <2> QED BY <1>6, <1>10, <2>1
<1> HIDE DEF TxHas, TxPkts, Queued
<1> QED BY <1>2, <1>4, <1>5, <1>11

LEMMA QueuedIs ==
  ASSUME TxType, EthType, NEW q \in 0..NumBufs, TxIdx(q)
  PROVE  Queued = TxFrames(q)
<1>0. NumBufs \in Nat /\ q \in Nat /\ NumBufs \in q..NumBufs
  BY EmacAssumption
<1>1. PICK f \in [0..NumBufs -> Seq(Sendable)] :
        Picks(f, NumBufs, TxHas, TxPkts) /\ Queued = f[NumBufs]
  BY QueuedUnfolds
<1>2. \A k \in 1..NumBufs : TxPkts[k] \in Sendable
  BY QueuedUnfolds
<1>3. \A k \in 1..q : TxHas[k] /\ TxPkts[k] \in Sendable
  <2> TAKE k \in 1..q
  <2>1. k \in 1..NumBufs /\ k - 1 \in 0..(q - 1)
    BY <1>0
  <2> QED BY <1>2, <2>1 DEF TxHas, TxIdx, TxAt
<1>4. \A k \in (q + 1)..NumBufs : ~TxHas[k]
  <2> TAKE k \in (q + 1)..NumBufs
  <2>1. k \in 1..NumBufs /\ k - 1 \in q..(NumBufs - 1)
    BY <1>0
  <2>2. "used" \in tx_desc[TxAt(k)].stat \/ (Writing /\ TxAt(k) = tx_index)
    BY <2>1 DEF TxIdx, TxAt
  <2>3. Writing => tx_desc[tx_index].stat # {"last", "size"}
    BY DEF TxIdx
  <2>4. tx_desc[TxAt(k)].stat # {"last", "size"}
    BY <2>2, <2>3
  <2> QED BY <2>1, <2>4 DEF TxHas
<1>5. f[q] = [k \in 1..q |-> TxPkts[k]]
  <2>1. PICK n, A, c, F : n = NumBufs /\ A = TxHas /\ c = TxPkts /\ F = f
    OBVIOUS
  <2>2. n \in Nat /\ q \in 0..n /\ F \in [0..n -> Seq(Sendable)] /\ Picks(F, n, A, c)
        /\ \A k \in 1..q : A[k] /\ c[k] \in Sendable
    BY <1>0, <1>1, <1>3, <2>1
  <2>3. AllPicked(n, q, Sendable, A, c, F)
    BY <2>2 DEF AllPicked
  <2>4. F[q] = [k \in 1..q |-> c[k]]
    BY <2>3, PicksAll
  <2> QED BY <2>1, <2>4
<1>6. f[NumBufs] = f[q]
  <2>1. PICK n, A, c, F : n = NumBufs /\ A = TxHas /\ c = TxPkts /\ F = f
    OBVIOUS
  <2>2. n \in Nat /\ q \in 0..n /\ n \in q..n /\ Picks(F, n, A, c)
        /\ \A k \in (q + 1)..n : ~A[k]
    BY <1>0, <1>1, <1>4, <2>1
  <2>3. F[n] = F[q]
    BY <2>2, PicksNoMore
  <2> QED BY <2>1, <2>3
<1>7. [k \in 1..q |-> TxPkts[k]] = TxFrames(q)
  <2>1. \A k \in 1..q : k \in 1..NumBufs
    BY <1>0
  <2> QED BY <2>1 DEF TxPkts, TxFrames
<1> QED BY <1>1, <1>5, <1>6, <1>7

LEMMA TxFramesType ==
  ASSUME TxType, EthType, NEW q \in 0..NumBufs
  PROVE  TxFrames(q) \in Seq(Sendable) /\ Len(TxFrames(q)) = q
<1>0. NumBufs \in Nat /\ q \in Nat
  BY EmacAssumption
<1>1. \A k \in 1..q : tx_desc[TxAt(k)].pkt \in Sendable
  <2> TAKE k \in 1..q
  <2>1. k \in 1..NumBufs
    BY <1>0
  <2>2. TxAt(k) \in Bufs
    BY <2>1, QueuedUnfolds
  <2>3. tx_desc[TxAt(k)] \in [stat : SUBSET {"used", "last", "size"}, pkt : Pkts \cup {0}]
    BY <2>2 DEF TxType
  <2> QED BY <2>3 DEF Sendable
<1>2. TxFrames(q) \in [1..q -> Sendable]
  BY <1>1 DEF TxFrames
<1> QED BY <1>0, <1>2

-----------------------------------------------------------------------------
(* The answers: what was sent, then what is queued, then the packet that   *)
(* is being put together.                                                  *)
Making == pc["net"] \in {"send", "last", "size"}
Good == spoilt \cap {"torn", "replaced"} = {}
Out(q) == Cat(wire, TxFrames(q))
Done(q) == IF Making THEN Append(Out(q), pkt) ELSE Out(q)
AnswerOK ==
  /\ pc["net"] = "start" => handled = <<>>
  /\ net.ipv4_id = Answers(handled).id
  /\ Good => \E q \in 0..NumBufs : TxIdx(q) /\ Done(q) = Due

(* What sends nothing, queues nothing and makes nothing leaves them alone. *)
Others == {"get", "take", "look", "print", "put", "answer", "free", "retire", "unchain", "go"}
Calmly ==
  /\ tx_desc' = tx_desc /\ tx_index' = tx_index /\ wire' = wire /\ eth'.send = eth.send
  /\ pkt' = pkt /\ handled' = handled /\ net'.ipv4_id = net.ipv4_id
  /\ Good' => Good
  /\ pc'["net"] = pc["net"] \/ {pc["net"], pc'["net"]} \subseteq Others

LEMMA CalmAnswers ==
  ASSUME AnswerOK, Calmly
  PROVE  AnswerOK'
<1>1. /\ Making' <=> Making
      /\ Writing' <=> Writing
      /\ pc'["net"] = "start" <=> pc["net"] = "start"
      /\ pc'["net"] = "next" <=> pc["net"] = "next"
      /\ pc'["net"] = "last" <=> pc["net"] = "last"
  <2>1. CASE pc'["net"] = pc["net"]
    BY <2>1 DEF Making, Writing
  <2>2. CASE {pc["net"], pc'["net"]} \subseteq Others
    BY <2>2 DEF Making, Writing, Others
  <2> QED BY <2>1, <2>2 DEF Calmly
<1>2. /\ tx_desc' = tx_desc /\ tx_index' = tx_index /\ wire' = wire /\ eth'.send = eth.send
      /\ pkt' = pkt /\ handled' = handled /\ net'.ipv4_id = net.ipv4_id
  BY DEF Calmly
<1>3. Due' = Due /\ Answers(handled)' = Answers(handled)
  BY <1>1, <1>2 DEF Due
<1>4. (pc["net"] = "start" => handled = <<>>)' /\ (net.ipv4_id = Answers(handled).id)'
  BY <1>1, <1>2, <1>3 DEF AnswerOK
<1>5. ASSUME Good' PROVE (\E q \in 0..NumBufs : TxIdx(q) /\ Done(q) = Due)'
  <2>1. PICK q \in 0..NumBufs : TxIdx(q) /\ Done(q) = Due
    BY <1>5 DEF Calmly, AnswerOK
  <2>2. TxIdx(q)'
    <3>1. \A i : Pos(eth.send, i)' = Pos(eth.send, i)
      BY <1>2 DEF Pos
    <3> QED BY <1>1, <1>2, <2>1, <3>1 DEF TxIdx
  <2>3. TxFrames(q)' = TxFrames(q)
    BY <1>2 DEF TxFrames, TxAt, Pos
  <2>4. Done(q)' = Done(q)
    BY <1>1, <1>2, <2>3 DEF Done, Out, Cat
  <2> QED BY <1>3, <2>1, <2>2, <2>4
<1> QED BY <1>4, <1>5 DEF AnswerOK

LEMMA UntouchedCalm ==
  ASSUME Untouched
  PROVE  Calmly
<1>1. pc'["net"] = pc["net"] \/ {pc["net"], pc'["net"]} \subseteq Others
  BY DEF Untouched, Reading, Others
<1>2. /\ tx_desc' = tx_desc /\ tx_index' = tx_index /\ wire' = wire /\ eth' = eth
      /\ pkt' = pkt /\ handled' = handled /\ net' = net /\ spoilt' = spoilt
  BY DEF Untouched, emacVars, txVars, netVars
<1> QED BY <1>1, <1>2 DEF Calmly, Good

(* arp_init() announces the address.                                       *)
LEMMA StartAnswers ==
  ASSUME NetInv, AnswerOK, NetStart
  PROVE  AnswerOK'
<1>0. SchedType /\ NetType /\ TxType /\ EthType
  BY DEF NetInv, Types
<1>1. /\ pc["net"] = "start" /\ pc'["net"] = "send" /\ pkt' = Announcement
      /\ tx_desc' = tx_desc /\ tx_index' = tx_index /\ wire' = wire /\ eth' = eth
      /\ handled' = handled /\ net' = net /\ spoilt' = spoilt
  BY <1>0, DoesSteps DEF NetStart, emacVars, txVars
<1>2. handled = <<>>
  BY <1>1 DEF AnswerOK
<1>3. Due = <<>> /\ Due' = <<Announcement>>
  <2>1. Answers(handled)' = AtFirst
    BY <1>1, <1>2, AnswersFirst
  <2> QED BY <1>1, <2>1 DEF Due, AtFirst
<1>4. (net.ipv4_id = Answers(handled).id)'
  BY <1>1 DEF AnswerOK
<1>5. ASSUME Good' PROVE (\E q \in 0..NumBufs : TxIdx(q) /\ Done(q) = Due)'
  <2>1. PICK q \in 0..NumBufs : TxIdx(q) /\ Done(q) = Due
    BY <1>1, <1>5 DEF Good, AnswerOK
  <2>2. TxIdx(q)'
    <3>1. \A i : Pos(eth.send, i)' = Pos(eth.send, i)
      BY <1>1 DEF Pos
    <3> QED BY <1>1, <2>1, <3>1 DEF TxIdx, Writing
  <2>3. TxFrames(q)' = TxFrames(q)
    BY <1>1 DEF TxFrames, TxAt, Pos
  <2>4. Out(q)' = <<>>
    BY <1>1, <1>3, <2>1, <2>3 DEF Done, Out, Cat, Making
  <2>5. Done(q)' = <<Announcement>>
    BY <1>1, <2>4 DEF Done, Making
  <2> QED BY <1>3, <2>2, <2>5
<1> QED BY <1>1, <1>4, <1>5 DEF AnswerOK

(* What net_task() makes of a frame is what it is to be answered with.     *)
LEMMA LookMakes ==
  ASSUME NetInv, NetAnswer, NEW f, f = rx_desc[net.buf].frame
  PROVE  /\ f \in Frames /\ handled' = Append(handled, f)
         /\ \/ /\ Answer(f, net.ipv4_id) = <<>>
               /\ pc'["net"] = "free" /\ pkt' = pkt /\ net'.ipv4_id = net.ipv4_id
            \/ \E p \in Pkts :
                 /\ Answer(f, net.ipv4_id) = <<p>>
                 /\ pc'["net"] = "send" /\ pkt' = p
                 /\ net'.ipv4_id = IF f.type = "ipv4" THEN (net.ipv4_id + 1) % 65536
                                                      ELSE net.ipv4_id
<1>0. SchedType /\ NetType /\ RxType
  BY DEF NetInv, Types
<1> DEFINE arp == IsOurs(f) /\ f.type = "arp"
           ip == IsOurs(f) /\ f.type = "ipv4"
<1>1. pc["net"] = "answer" /\ handled' = Append(handled, f)
      /\ pc'["net"] = IF (arp /\ ArpAnswers(f)) \/ (ip /\ IpAnswers(f)) THEN "send" ELSE "free"
  <2>1. ASSUME NEW to, Does("answer", to) PROVE pc["net"] = "answer" /\ pc'["net"] = to
    BY <1>0, <2>1, DoesSteps
  <2> QED BY <2>1 DEF NetAnswer, Of
<1>2. /\ pkt' = CASE arp /\ ArpAnswers(f) -> ArpReply(f)
                  [] ip /\ IpAnswers(f) -> EchoReply(f, net.ipv4_id)
                  [] OTHER -> pkt
      /\ net' = [net EXCEPT !.ipv4_id = IF ip /\ IpAnswers(f) THEN Ipv4Id ELSE @]
  BY DEF NetAnswer, Of
<1>3. net.ipv4_id \in Nat
  BY <1>0 DEF NetType
<1>4. net'.ipv4_id = IF ip /\ IpAnswers(f) THEN Ipv4Id ELSE net.ipv4_id
  <2> HIDE DEF ip
  <2>1. net.ipv4_id = net.ipv4_id /\ DOMAIN net = {"ipv4_id", "buf", "rest"}
    BY <1>0 DEF NetType
  <2> QED BY <1>2, <2>1
<1>5. f \in Frames
  <2>1. net.buf \in Bufs /\ rx_desc[net.buf].used
    BY <1>1, ReadUsed DEF Reading
  <2> QED BY <1>0, <2>1 DEF RxType
<1>6. f.src \in Nat
  BY <1>5, FrameFacts
<1>7. PICK r, e : r = ArpReply(f) /\ e = EchoReply(f, net.ipv4_id)
  OBVIOUS
<1>8. r \in Pkts /\ e \in Pkts
  BY <1>3, <1>6, <1>7 DEF ArpReply, EchoReply, Pkts
<1>9. CASE arp /\ ArpAnswers(f)
  <2>1. Answer(f, net.ipv4_id) = <<r>>
    BY <1>7, <1>9 DEF Answer, IsOurs, ArpAnswers, IsNews
  <2>2. ~ip
    BY <1>9
  <2>3. pkt' = r /\ pc'["net"] = "send" /\ net'.ipv4_id = net.ipv4_id /\ f.type # "ipv4"
    BY <1>1, <1>2, <1>4, <1>7, <1>9, <2>2
  <2> QED BY <1>1, <1>5, <1>8, <2>1, <2>3
<1>10. CASE ip /\ IpAnswers(f)
  <2>1. Answer(f, net.ipv4_id) = <<e>>
    BY <1>7, <1>10 DEF Answer, IsOurs, IpAnswers
  <2>2. ~arp
    BY <1>10
  <2>3. pkt' = e /\ pc'["net"] = "send" /\ net'.ipv4_id = Ipv4Id /\ f.type = "ipv4"
    BY <1>1, <1>2, <1>4, <1>7, <1>10, <2>2
  <2> QED BY <1>1, <1>5, <1>8, <2>1, <2>3 DEF Ipv4Id
<1>11. CASE ~(arp /\ ArpAnswers(f)) /\ ~(ip /\ IpAnswers(f))
  <2>1. Answer(f, net.ipv4_id) = <<>>
    BY <1>11 DEF Answer, IsOurs, IpAnswers, ArpAnswers, IsNews
  <2>2. pkt' = pkt /\ pc'["net"] = "free" /\ net'.ipv4_id = net.ipv4_id
    BY <1>1, <1>2, <1>4, <1>11
  <2> QED BY <1>1, <1>5, <2>1, <2>2
<1> QED BY <1>9, <1>10, <1>11

LEMMA LookAnswers ==
  ASSUME NetInv, AnswerOK, NetAnswer
  PROVE  AnswerOK'
<1>0. SchedType /\ NetType /\ RxType
  BY DEF NetInv, Types
<1>1. /\ pc["net"] = "answer" /\ tx_desc' = tx_desc /\ tx_index' = tx_index /\ wire' = wire
      /\ eth' = eth /\ spoilt' = spoilt
  <2>1. ASSUME NEW to, Does("answer", to) PROVE pc["net"] = "answer"
    BY <1>0, <2>1, DoesSteps
  <2> QED BY <2>1 DEF NetAnswer, emacVars, txVars
<1>2. PICK f : f = rx_desc[net.buf].frame
  OBVIOUS
<1>3. /\ f \in Frames /\ handled' = Append(handled, f)
      /\ \/ /\ Answer(f, net.ipv4_id) = <<>>
            /\ pc'["net"] = "free" /\ pkt' = pkt /\ net'.ipv4_id = net.ipv4_id
         \/ \E p \in Pkts :
              /\ Answer(f, net.ipv4_id) = <<p>>
              /\ pc'["net"] = "send" /\ pkt' = p
              /\ net'.ipv4_id = IF f.type = "ipv4" THEN (net.ipv4_id + 1) % 65536
                                                   ELSE net.ipv4_id
  BY <1>2, LookMakes
<1>4. handled \in Seq(Frames)
  BY <1>0 DEF NetType
<1>5. PICK s \in Serving : s = Answers(handled) /\ s.id = net.ipv4_id
  BY <1>4, AnswersUnfold DEF AnswerOK
<1>6. PICK a : a = Answer(f, net.ipv4_id)
  OBVIOUS
<1>7. Answers(handled)' = [sent |-> s.sent \o a,
                           id |-> IF a # <<>> /\ f.type = "ipv4" THEN (s.id + 1) % 65536 ELSE s.id]
  <2>1. Answers(handled)' = Answers(Append(handled, f))
    BY <1>3
  <2>2. Answers(Append(handled, f)) = Served(s, f)
    BY <1>3, <1>4, <1>5, AnswersNext
  <2> QED BY <1>5, <1>6, <2>1, <2>2 DEF Served
<1>8. Due = s.sent /\ Due' = s.sent \o a
  <2>1. pc'["net"] # "start"
    BY <1>3
  <2> QED BY <1>1, <1>5, <1>7, <2>1 DEF Due
<1>9. s.sent \in Seq(Sendable)
  BY DEF Serving
<1>10. (net.ipv4_id = Answers(handled).id)'
  <2>1. s.id = net.ipv4_id
    BY <1>5
  <2>2. PICK A : A = Answers(handled)'
    OBVIOUS
  <2>3. A.id = IF a # <<>> /\ f.type = "ipv4" THEN (s.id + 1) % 65536 ELSE s.id
    BY <1>7, <2>2
  <2>4. CASE a = <<>>
    BY <1>3, <1>6, <2>1, <2>2, <2>3, <2>4
  <2>5. ASSUME NEW p \in Pkts, a = <<p>>,
               net'.ipv4_id = IF f.type = "ipv4" THEN (net.ipv4_id + 1) % 65536 ELSE net.ipv4_id
        PROVE  net'.ipv4_id = A.id
    <3>1. a # <<>>
      BY <2>5
    <3> QED BY <2>1, <2>3, <2>5, <3>1
  <2>6. net'.ipv4_id = A.id
    BY <1>3, <1>6, <2>4, <2>5, <2>2
  <2> QED BY <2>2, <2>6
<1>11. ASSUME Good' PROVE (\E q \in 0..NumBufs : TxIdx(q) /\ Done(q) = Due)'
  <2>1. PICK q \in 0..NumBufs : TxIdx(q) /\ Done(q) = Due
    BY <1>1, <1>11 DEF Good, AnswerOK
  <2>2. TxIdx(q)'
    <3>1. \A i : Pos(eth.send, i)' = Pos(eth.send, i)
      BY <1>1 DEF Pos
    <3>2. ~Writing' /\ ~Writing /\ pc'["net"] # "next" /\ pc["net"] # "next"
      BY <1>1, <1>3 DEF Writing
    <3> QED BY <1>1, <2>1, <3>1, <3>2 DEF TxIdx
  <2>3. TxFrames(q)' = TxFrames(q)
    BY <1>1 DEF TxFrames, TxAt, Pos
  <2>4. Out(q)' = s.sent
    BY <1>1, <1>8, <2>1, <2>3 DEF Done, Out, Cat, Making
  <2>5. CASE a = <<>>
    <3>1. s.sent \o a = s.sent
      BY <1>9, <2>5, ConcatEmptySeq
    <3>2. pc'["net"] = "free"
      BY <1>3, <1>6, <2>5
    <3>3. Done(q)' = s.sent
      BY <2>4, <3>2 DEF Done, Making
    <3> QED BY <1>8, <2>2, <3>1, <3>3
  <2>6. ASSUME NEW p \in Pkts, a = <<p>>, pc'["net"] = "send", pkt' = p
        PROVE  (\E r \in 0..NumBufs : TxIdx(r) /\ Done(r) = Due)'
    <3>1. s.sent \o a = Append(s.sent, p)
      <4>1. p \in Sendable
        BY DEF Sendable
      <4> QED BY <1>9, <2>6, <4>1, AppendIsConcat
    <3>2. Done(q)' = Append(s.sent, p)
      BY <2>4, <2>6 DEF Done, Making
    <3> QED BY <1>8, <2>2, <3>1, <3>2
  <2> QED BY <1>3, <1>6, <2>5, <2>6
<1>12. pc'["net"] # "start"
  BY <1>3
<1> QED BY <1>10, <1>11, <1>12 DEF AnswerOK

(* Writing to the place behind the queue leaves the queue alone.           *)
LEMMA PlaceBehind ==
  ASSUME EthType, TxType, NEW q \in 0..(NumBufs - 1), Pos(eth.send, q) = tx_index,
         \A b \in Bufs : b # tx_index => tx_desc'[b] = tx_desc[b], eth'.send = eth.send
  PROVE  /\ \A i \in 0..(NumBufs - 1) :
              /\ Pos(eth.send, i) \in Bufs /\ Pos(eth.send, i)' = Pos(eth.send, i)
              /\ i # q => Pos(eth.send, i) # tx_index
                          /\ tx_desc'[Pos(eth.send, i)] = tx_desc[Pos(eth.send, i)]
         /\ TxFrames(q)' = TxFrames(q)
         /\ Pos(eth.send, q)' = Pos(eth.send, q)
<1>0. NumBufs \in Nat /\ q \in 0..NumBufs /\ q < NumBufs
  BY EmacAssumption
<1>1. PICK x \in Bufs : x = eth.send
  BY DEF EthType
<1>2. \A i \in 0..(NumBufs - 1) :
        /\ Pos(x, i) \in Bufs
        /\ i # q => Pos(x, i) # tx_index /\ tx_desc'[Pos(x, i)] = tx_desc[Pos(x, i)]
  <2> TAKE i \in 0..(NumBufs - 1)
  <2>1. i \in 0..NumBufs /\ i < NumBufs
    BY <1>0
  <2>2. Pos(x, i) \in Bufs
    BY <2>1, PosIs
  <2>3. Pos(x, i) = Pos(x, q) => i = q \/ {i, q} = {0, NumBufs}
    BY <1>0, <2>1, PosIs
  <2> QED BY <1>0, <1>1, <2>1, <2>2, <2>3
<1>3. \A i : Pos(eth.send, i)' = Pos(x, i) /\ Pos(eth.send, i) = Pos(x, i)
  BY <1>1 DEF Pos
<1>4. TxFrames(q)' = TxFrames(q)
  <2>1. ASSUME NEW k \in 1..q PROVE tx_desc'[TxAt(k)'].pkt = tx_desc[TxAt(k)].pkt
    <3>1. k - 1 \in 0..(NumBufs - 1) /\ k - 1 # q
      BY <1>0
    <3>2. TxAt(k) = Pos(x, k - 1) /\ TxAt(k)' = Pos(x, k - 1)
      BY <1>1 DEF TxAt, Pos
    <3> QED BY <1>2, <3>1, <3>2
  <2> QED BY <2>1 DEF TxFrames
<1> QED BY <1>0, <1>2, <1>3, <1>4

(* A packet is copied to the place behind the queue, and marked: if it was *)
(* free, the queue is as long as before.                                   *)
Writes ==
  /\ tx_index' = tx_index /\ wire' = wire /\ eth' = eth /\ net' = net /\ pkt' = pkt
  /\ handled' = handled
  /\ \A b \in Bufs : b # tx_index => tx_desc'[b] = tx_desc[b]
  /\ \/ pc["net"] = "send" /\ pc'["net"] = "last"
     \/ pc["net"] = "last" /\ pc'["net"] = "size"
  /\ Good' => Good /\ (pc["net"] = "send" => "used" \in tx_desc[tx_index].stat)
  /\ Good /\ (Writing => tx_desc[tx_index].pkt = pkt
                         /\ tx_desc[tx_index].stat = IF pc["net"] = "last" THEN {} ELSE {"last"})
     => /\ tx_desc'[tx_index].pkt = pkt
        /\ tx_desc'[tx_index].stat = IF pc'["net"] = "last" THEN {} ELSE {"last"}

LEMMA WriteAnswers ==
  ASSUME NetInv, AnswerOK, Writes
  PROVE  AnswerOK'
<1>0. TxType /\ EthType
  BY DEF NetInv, Types
<1>1. /\ pc["net"] # "start" /\ pc'["net"] # "start" /\ Making /\ Making' /\ Writing'
      /\ pc["net"] # "next" /\ pc'["net"] # "next"
  BY DEF Writes, Making, Writing
<1>2. Due' = Due /\ Answers(handled)' = Answers(handled)
  BY <1>1 DEF Due, Writes
<1>3. (net.ipv4_id = Answers(handled).id)'
  BY <1>2 DEF Writes, AnswerOK
<1>4. ASSUME Good' PROVE (\E q \in 0..NumBufs : TxIdx(q) /\ Done(q) = Due)'
  <2>0. NumBufs \in Nat /\ NumBufs > 0
    BY EmacAssumption
  <2>1. Good
    BY <1>4 DEF Writes
  <2>2. PICK q \in 0..NumBufs : TxIdx(q) /\ Done(q) = Due
    BY <2>1 DEF AnswerOK
  <2>3. Pos(eth.send, q) = tx_index
    BY <1>1, <2>2 DEF TxIdx
  <2>4. q < NumBufs
    <3>1. CASE Writing
      BY <2>2, <3>1 DEF TxIdx
    <3>2. CASE ~Writing /\ q = NumBufs
      <4>1. "used" \in tx_desc[tx_index].stat
        BY <1>4, <3>2 DEF Writes, Writing
      <4>2. eth.send \in Bufs /\ 0 \in 0..NumBufs /\ NumBufs \in 0..NumBufs
        BY <1>0, <2>0 DEF EthType
      <4>3. Pos(eth.send, 0) = eth.send /\ Pos(eth.send, NumBufs) = eth.send
        BY <4>2, PosIs
      <4>4. tx_desc[Pos(eth.send, 0)].stat = {"last", "size"}
        BY <2>0, <2>2, <3>2 DEF TxIdx
      <4> QED BY <2>3, <3>2, <4>1, <4>3, <4>4
    <3> QED BY <2>0, <3>1, <3>2
  <2>5. q \in 0..(NumBufs - 1)
    BY <2>0, <2>4
  <2>6. /\ \A i \in 0..(NumBufs - 1) :
              /\ Pos(eth.send, i) \in Bufs /\ Pos(eth.send, i)' = Pos(eth.send, i)
              /\ i # q => Pos(eth.send, i) # tx_index
                          /\ tx_desc'[Pos(eth.send, i)] = tx_desc[Pos(eth.send, i)]
        /\ TxFrames(q)' = TxFrames(q)
        /\ Pos(eth.send, q)' = Pos(eth.send, q)
    <3>1. \A b \in Bufs : b # tx_index => tx_desc'[b] = tx_desc[b]
      BY DEF Writes
    <3>2. eth'.send = eth.send
      BY DEF Writes
    <3> QED BY <1>0, <2>3, <2>5, <3>1, <3>2, PlaceBehind
  <2>7. TxIdx(q)'
    <3>1. /\ tx_index' = tx_index
          /\ tx_desc'[tx_index].pkt = pkt
          /\ tx_desc'[tx_index].stat = IF pc'["net"] = "last" THEN {} ELSE {"last"}
      BY <2>1, <2>2 DEF Writes, TxIdx
    <3>2. \A i \in 0..(q - 1) : (tx_desc[Pos(eth.send, i)].stat = {"last", "size"})'
      <4> TAKE i \in 0..(q - 1)
      <4>1. i \in 0..(NumBufs - 1) /\ i # q
        BY <2>0, <2>5
      <4> QED BY <2>2, <2>6, <4>1 DEF TxIdx
    <3>3. \A i \in q..(NumBufs - 1) : ("used" \in tx_desc[Pos(eth.send, i)].stat
                                        \/ (Writing /\ Pos(eth.send, i) = tx_index))'
      <4> TAKE i \in q..(NumBufs - 1)
      <4>1. i \in 0..(NumBufs - 1)
        BY <2>0, <2>5
      <4>2. CASE i = q
        BY <1>1, <2>3, <2>6, <3>1, <4>2
      <4>3. CASE i # q
        <5>1. "used" \in tx_desc[Pos(eth.send, i)].stat
          BY <2>2, <2>6, <4>1, <4>3 DEF TxIdx
        <5>2. Pos(eth.send, i)' = Pos(eth.send, i)
              /\ tx_desc'[Pos(eth.send, i)] = tx_desc[Pos(eth.send, i)]
          BY <2>6, <4>1, <4>3
        <5>3. PICK x : x = Pos(eth.send, i)
          OBVIOUS
        <5>4. ("used" \in tx_desc[Pos(eth.send, i)].stat)'
          BY <5>1, <5>2, <5>3
        <5> QED BY <5>4
      <4> QED BY <4>2, <4>3
    <3>4. pkt' = pkt
      BY DEF Writes
    <3> QED BY <1>1, <2>3, <2>4, <2>6, <3>1, <3>2, <3>3, <3>4 DEF TxIdx
  <2>8. Done(q)' = Done(q)
    BY <1>1, <2>6 DEF Done, Out, Cat, Writes
  <2> QED BY <1>2, <2>2, <2>7, <2>8
<1> QED BY <1>1, <1>3, <1>4 DEF AnswerOK

(* With its last mark the packet is one of the queue, ...                  *)
LEMMA MarkedAnswers ==
  ASSUME NetInv, AnswerOK, Does("size", "next"), TxMark("size"),
         UNCHANGED <<eth, rxVars, val, netVars>>
  PROVE  AnswerOK'
<1>0. TxType /\ EthType /\ SchedType /\ NetType
  BY DEF NetInv, Types
<1>1. /\ pc["net"] = "size" /\ pc'["net"] = "next" /\ tx_index' = tx_index /\ wire' = wire
      /\ spoilt' = spoilt /\ eth' = eth /\ net' = net /\ pkt' = pkt /\ handled' = handled
      /\ tx_desc' = [tx_desc EXCEPT ![tx_index].stat = @ \cup {"size"}]
  BY <1>0, DoesSteps DEF TxMark, netVars
<1>2. Due' = Due /\ Answers(handled)' = Answers(handled)
  BY <1>1 DEF Due
<1>3. (net.ipv4_id = Answers(handled).id)'
  BY <1>1, <1>2 DEF AnswerOK
<1>4. ASSUME Good' PROVE (\E q \in 0..NumBufs : TxIdx(q) /\ Done(q) = Due)'
  <2>0. NumBufs \in Nat /\ NumBufs > 0
    BY EmacAssumption
  <2>1. PICK q \in 0..NumBufs : TxIdx(q) /\ Done(q) = Due
    BY <1>1, <1>4 DEF AnswerOK, Good
  <2>2. /\ Pos(eth.send, q) = tx_index /\ q < NumBufs
        /\ tx_desc[tx_index].pkt = pkt /\ tx_desc[tx_index].stat = {"last"}
    BY <1>1, <2>1 DEF TxIdx, Writing
  <2>3. q \in 0..(NumBufs - 1) /\ q + 1 \in 0..NumBufs /\ q \in Nat
    BY <2>0, <2>2
  <2>4. PICK x \in Bufs : x = tx_index /\ tx_desc[x] \in [stat : SUBSET {"used", "last", "size"}, pkt : Pkts \cup {0}]
    BY <1>0 DEF TxType
  <2>5. /\ tx_desc'[x].stat = {"last", "size"} /\ tx_desc'[x].pkt = pkt
        /\ \A b \in Bufs : b # x => tx_desc'[b] = tx_desc[b]
    BY <1>0, <1>1, <2>2, <2>4 DEF TxType
  <2>6. /\ \A i \in 0..(NumBufs - 1) :
              /\ Pos(eth.send, i) \in Bufs /\ Pos(eth.send, i)' = Pos(eth.send, i)
              /\ i # q => Pos(eth.send, i) # tx_index
                          /\ tx_desc'[Pos(eth.send, i)] = tx_desc[Pos(eth.send, i)]
        /\ TxFrames(q)' = TxFrames(q)
        /\ Pos(eth.send, q)' = Pos(eth.send, q)
    BY <1>0, <1>1, <2>2, <2>3, <2>4, <2>5, PlaceBehind
  <2>7. TxIdx(q + 1)'
    <3>1. (q + 1) - 1 = q
      BY <2>3
    <3>2. \A i \in 0..q : (tx_desc[Pos(eth.send, i)].stat = {"last", "size"})'
      <4> TAKE i \in 0..q
      <4>1. i \in 0..(NumBufs - 1) /\ (i = q \/ i \in 0..(q - 1))
        BY <2>0, <2>3
      <4>2. CASE i = q
        BY <2>2, <2>4, <2>5, <2>6, <4>2
      <4>3. CASE i # q
        BY <2>1, <2>6, <4>1, <4>3 DEF TxIdx
      <4> QED BY <4>2, <4>3
    <3>3. \A i \in (q + 1)..(NumBufs - 1) : ("used" \in tx_desc[Pos(eth.send, i)].stat)'
      <4> TAKE i \in (q + 1)..(NumBufs - 1)
      <4>1. i \in 0..(NumBufs - 1) /\ i # q /\ i \in q..(NumBufs - 1)
        BY <2>0, <2>3
      <4>2. "used" \in tx_desc[Pos(eth.send, i)].stat
        BY <2>1, <2>6, <4>1 DEF TxIdx
      <4>3. /\ Pos(eth.send, i)' = Pos(eth.send, i)
            /\ tx_desc'[Pos(eth.send, i)] = tx_desc[Pos(eth.send, i)]
        BY <2>6, <4>1
      <4>4. PICK y : y = Pos(eth.send, i)
        OBVIOUS
      <4> QED BY <4>2, <4>3, <4>4
    <3>4. ~Writing'
      BY <1>1 DEF Writing
    <3>5. (Pos(eth.send, q + 1) = After(tx_index))'
      <4>1. PICK s \in Bufs : s = eth.send
        BY <1>0 DEF EthType
      <4>2. After(Pos(s, q)) = Pos(s, q + 1)
        BY <2>2, <2>3, PosIs
      <4>3. Pos(eth.send, q + 1)' = Pos(s, q + 1)
        BY <1>1, <4>1 DEF Pos
      <4> QED BY <1>1, <2>2, <4>1, <4>2, <4>3 DEF After
    <3> QED BY <1>1, <3>1, <3>2, <3>3, <3>4, <3>5 DEF TxIdx
  <2>8. TxFrames(q + 1)' = Append(TxFrames(q), pkt)
    <3>1. PICK F \in Seq(Sendable) : F = TxFrames(q) /\ Len(F) = q
      BY <1>0, TxFramesType
    <3>2. \A k \in 1..q : tx_desc'[TxAt(k)'].pkt = F[k]
      BY <2>6, <3>1 DEF TxFrames
    <3>3. tx_desc'[TxAt(q + 1)'].pkt = pkt
      <4>1. (q + 1) - 1 = q
        BY <2>3
      <4>2. TxAt(q + 1)' = x
        BY <2>2, <2>4, <2>6, <4>1 DEF TxAt
      <4> QED BY <2>5, <4>2
    <3>4. TxFrames(q + 1)' = [k \in 1..(q + 1) |-> tx_desc'[TxAt(k)'].pkt]
      BY DEF TxFrames
    <3>5. pkt \in Sendable
      BY <1>0 DEF NetType, Sendable
    <3>6. Append(F, pkt) = [k \in 1..(q + 1) |-> IF k = q + 1 THEN pkt ELSE F[k]]
      <4>1. PICK e \in Sendable : e = pkt
        BY <3>5
      <4>2. PICK G : G = Append(F, e)
        OBVIOUS
      <4>3. /\ G \in Seq(Sendable) /\ Len(G) = q + 1 /\ G[q + 1] = e
            /\ \A i \in 1..q : G[i] = F[i]
        BY <3>1, <4>2, AppendProperties
      <4>4. G = [k \in 1..(q + 1) |-> G[k]]
        BY <2>3, <4>3
      <4>5. \A k \in 1..(q + 1) : G[k] = IF k = q + 1 THEN e ELSE F[k]
        BY <2>3, <4>3
      <4>6. G = [k \in 1..(q + 1) |-> IF k = q + 1 THEN e ELSE F[k]]
        BY <4>4, <4>5
      <4> QED BY <4>1, <4>2, <4>6
    <3>7. \A k \in 1..(q + 1) : tx_desc'[TxAt(k)'].pkt = IF k = q + 1 THEN pkt ELSE F[k]
      BY <2>3, <3>2, <3>3
    <3> QED BY <3>1, <3>4, <3>6, <3>7
  <2>9. Done(q + 1)' = Due
    <3>1. PICK F \in Seq(Sendable) : F = TxFrames(q)
      BY <1>0, TxFramesType
    <3>2. pkt \in Sendable /\ wire \in Seq(Sendable)
      BY <1>0 DEF NetType, TxType, Sendable
    <3>3. Append(Cat(wire, F), pkt) = Cat(wire, Append(F, pkt))
      BY <3>2, CatAppend
    <3>4. Done(q + 1)' = Cat(wire, Append(F, pkt))
      BY <1>1, <2>8, <3>1 DEF Done, Making, Out, Cat
    <3>5. Due = Append(Cat(wire, F), pkt)
      BY <1>1, <2>1, <3>1 DEF Done, Making, Out
    <3> QED BY <3>3, <3>4, <3>5
  <2> QED BY <1>2, <2>3, <2>7, <2>9
<1>5. pc'["net"] # "start"
  BY <1>1
<1> QED BY <1>3, <1>4, <1>5 DEF AnswerOK

(* ... and the place behind it is the next.                                *)
LEMMA NextAnswers ==
  ASSUME NetInv, AnswerOK, Does("next", "go"), TxNext,
         UNCHANGED <<eth, rxVars, val, netVars>>
  PROVE  AnswerOK'
<1>0. SchedType
  BY DEF NetInv
<1>1. /\ pc["net"] = "next" /\ pc'["net"] = "go" /\ tx_index' = After(tx_index) /\ wire' = wire
      /\ spoilt' = spoilt /\ eth' = eth /\ net' = net /\ pkt' = pkt /\ handled' = handled
      /\ tx_desc' = tx_desc
  BY <1>0, DoesSteps DEF TxNext, netVars
<1>2. Due' = Due /\ Answers(handled)' = Answers(handled)
  BY <1>1 DEF Due
<1>3. (net.ipv4_id = Answers(handled).id)'
  BY <1>1, <1>2 DEF AnswerOK
<1>4. ASSUME Good' PROVE (\E q \in 0..NumBufs : TxIdx(q) /\ Done(q) = Due)'
  <2>1. PICK q \in 0..NumBufs : TxIdx(q) /\ Done(q) = Due
    BY <1>1, <1>4 DEF AnswerOK, Good
  <2>2. \A i : Pos(eth.send, i)' = Pos(eth.send, i)
    BY <1>1 DEF Pos
  <2>3. TxFrames(q)' = TxFrames(q)
    BY <1>1 DEF TxFrames, TxAt, Pos
  <2>4. ~Writing /\ ~Writing' /\ ~Making /\ ~Making'
    BY <1>1 DEF Writing, Making
  <2>5. TxIdx(q)'
    BY <1>1, <2>1, <2>2, <2>4 DEF TxIdx
  <2>6. Done(q)' = Done(q)
    BY <1>1, <2>3, <2>4 DEF Done, Out, Cat
  <2> QED BY <1>2, <2>1, <2>5, <2>6
<1>5. pc'["net"] # "start"
  BY <1>1
<1> QED BY <1>3, <1>4, <1>5 DEF AnswerOK

(* The device sends the first packet of the queue.                         *)
LEMMA SentAnswers ==
  ASSUME NetInv, AnswerOK, Sends, "used" \notin tx_desc[eth.send].stat,
         UNCHANGED <<schedVars, pc, boxVars, netVars>>
  PROVE  AnswerOK'
<1>0. TxType /\ EthType
  BY DEF NetInv, Types
<1>1. /\ tx_index' = tx_index /\ net' = net /\ pkt' = pkt /\ handled' = handled /\ pc' = pc
      /\ eth' = [eth EXCEPT !.send = After(@)]
      /\ tx_desc' = [tx_desc EXCEPT ![eth.send].stat = @ \cup {"used"}]
      /\ IF tx_desc[eth.send].stat = {"last", "size"}
         THEN wire' = Append(wire, tx_desc[eth.send].pkt) /\ spoilt' = spoilt
         ELSE spoilt' = spoilt \cup {"torn"}
  BY DEF Sends, netVars
<1>2. Due' = Due /\ Answers(handled)' = Answers(handled)
  BY <1>1 DEF Due
<1>3. (net.ipv4_id = Answers(handled).id)'
  BY <1>1, <1>2 DEF AnswerOK
<1>4. ASSUME Good' PROVE (\E q \in 0..NumBufs : TxIdx(q) /\ Done(q) = Due)'
  <2>0. NumBufs \in Nat /\ NumBufs > 0
    BY EmacAssumption
  <2>1. /\ tx_desc[eth.send].stat = {"last", "size"} /\ spoilt' = spoilt
        /\ wire' = Append(wire, tx_desc[eth.send].pkt)
    BY <1>1, <1>4 DEF Good
  <2>2. PICK s \in Bufs : s = eth.send /\ After(s) \in Bufs /\ eth'.send = After(s)
    <3>1. eth.send \in Bufs /\ After(eth.send) \in Bufs
      BY <1>0, <2>0 DEF EthType, After, Bufs
    <3>2. eth'.send = After(eth.send)
      BY <1>0, <1>1 DEF EthType
    <3> QED BY <3>1, <3>2
  <2>3. PICK p \in Sendable : p = tx_desc[s].pkt
    <3>1. tx_desc[s] \in [stat : SUBSET {"used", "last", "size"}, pkt : Pkts \cup {0}]
      BY <1>0, <2>2 DEF TxType
    <3> QED BY <3>1 DEF Sendable
  <2>4. PICK q \in 0..NumBufs : TxIdx(q) /\ Done(q) = Due
    BY <1>4, <2>1 DEF AnswerOK, Good
  <2>5. /\ "used" \in tx_desc'[s].stat /\ tx_desc'[s].pkt = p
        /\ \A b \in Bufs : /\ b # s => tx_desc'[b] = tx_desc[b]
                           /\ tx_desc'[b].pkt = tx_desc[b].pkt
    BY <1>0, <1>1, <2>2, <2>3 DEF TxType
  <2>6. \A i \in 0..NumBufs : /\ Pos(s, i) \in Bufs /\ Pos(s, 0) = s /\ Pos(s, NumBufs) = s
                              /\ i < NumBufs => Pos(After(s), i) = Pos(s, i + 1)
                              /\ i # 0 /\ i # NumBufs => Pos(s, i) # s
    <3> TAKE i \in 0..NumBufs
    <3>1. 0 \in 0..NumBufs
      BY <2>0
    <3>2. /\ Pos(s, i) \in Bufs /\ Pos(s, 0) = s /\ Pos(s, NumBufs) = s
          /\ i < NumBufs => Pos(After(s), i) = Pos(s, i + 1)
      BY <2>2, PosIs
    <3>3. Pos(s, i) = Pos(s, 0) => i = 0 \/ {i, 0} = {0, NumBufs}
      BY <2>2, <3>1, PosIs
    <3> QED BY <2>0, <3>2, <3>3
  <2>7. \A i : Pos(eth.send, i) = Pos(s, i) /\ Pos(eth.send, i)' = Pos(After(s), i)
    BY <2>2 DEF Pos, After
  <2>14. Writing => /\ tx_desc[tx_index].pkt = pkt
                    /\ tx_desc[tx_index].stat = IF pc["net"] = "last" THEN {} ELSE {"last"}
    BY <2>4 DEF TxIdx
  <2>8. Writing => tx_index # s
    <3>1. Writing => tx_desc[tx_index].stat \in {{}, {"last"}}
      BY <2>14
    <3>2. {"last", "size"} \notin {{}, {"last"}}
      OBVIOUS
    <3> QED BY <2>1, <2>2, <3>1, <3>2
  <2>9. q > 0 /\ q \in Nat
    <3>1. 0 \in 0..NumBufs /\ 0 \in 0..(NumBufs - 1)
      BY <2>0
    <3>2. Pos(eth.send, 0) = s
      BY <2>6, <2>7, <3>1
    <3>3. q = 0 => "used" \in tx_desc[s].stat \/ (Writing /\ s = tx_index)
      BY <2>4, <3>1, <3>2 DEF TxIdx
    <3> QED BY <2>0, <2>1, <2>2, <2>8, <3>3
  <2>10. q - 1 \in 0..NumBufs
    BY <2>0, <2>9
  <2>11. TxIdx(q - 1)'
    <3>1. \A i \in 0..((q - 1) - 1) : (tx_desc[Pos(eth.send, i)].stat = {"last", "size"})'
      <4> TAKE i \in 0..((q - 1) - 1)
      <4>1. i \in 0..NumBufs /\ i < NumBufs /\ i + 1 \in 0..NumBufs /\ i + 1 \in 0..(q - 1)
            /\ i + 1 # 0 /\ i + 1 # NumBufs
        BY <2>0, <2>9
      <4>2. PICK y \in Bufs : y = Pos(s, i + 1) /\ y # s /\ Pos(After(s), i) = y
        BY <2>6, <4>1
      <4>3. tx_desc[y].stat = {"last", "size"}
        BY <2>4, <2>7, <4>1, <4>2 DEF TxIdx
      <4>4. Pos(eth.send, i)' = y
        BY <2>7, <4>2
      <4> QED BY <2>5, <4>2, <4>3, <4>4
    <3>2. \A i \in (q - 1)..(NumBufs - 1) : ("used" \in tx_desc[Pos(eth.send, i)].stat
                                             \/ (Writing /\ Pos(eth.send, i) = tx_index))'
      <4> TAKE i \in (q - 1)..(NumBufs - 1)
      <4>1. i \in 0..NumBufs /\ i < NumBufs /\ i + 1 \in 0..NumBufs /\ i + 1 # 0
            /\ (i + 1 # NumBufs => i + 1 \in q..(NumBufs - 1))
        BY <2>0, <2>9
      <4>2. PICK y \in Bufs : y = Pos(s, i + 1) /\ Pos(After(s), i) = y
        BY <2>6, <4>1
      <4>3. Pos(eth.send, i)' = y
        BY <2>7, <4>2
      <4>4. CASE i + 1 = NumBufs
        <5>1. y = s
          BY <2>6, <4>1, <4>2, <4>4
        <5> QED BY <2>5, <4>3, <5>1
      <4>5. CASE i + 1 # NumBufs
        <5>1. y # s
          BY <2>6, <4>1, <4>2, <4>5
        <5>2. "used" \in tx_desc[y].stat \/ (Writing /\ y = tx_index)
          BY <2>4, <2>7, <4>1, <4>2, <4>5 DEF TxIdx
        <5>3. Writing' <=> Writing
          BY <1>1 DEF Writing
        <5> QED BY <1>1, <2>5, <4>3, <5>1, <5>2, <5>3
      <4> QED BY <4>4, <4>5
    <3>3. Writing' => /\ q - 1 < NumBufs /\ tx_desc'[tx_index'].pkt = pkt'
                      /\ tx_desc'[tx_index'].stat = IF pc'["net"] = "last" THEN {} ELSE {"last"}
      <4>1. Writing' <=> Writing
        BY <1>1 DEF Writing
      <4>2. tx_index \in Bufs
        BY <1>0 DEF TxType
      <4>3. Writing => tx_desc'[tx_index] = tx_desc[tx_index]
        BY <2>5, <2>8, <4>2
      <4>4. q - 1 < NumBufs
        BY <2>0, <2>9
      <4>5. tx_index' = tx_index /\ pkt' = pkt /\ pc' = pc
        BY <1>1
      <4> QED BY <2>14, <4>1, <4>3, <4>4, <4>5
    <3>4. Pos(eth.send, q - 1)' = Pos(eth.send, q)
      <4>1. q - 1 < NumBufs /\ (q - 1) + 1 = q
        BY <2>0, <2>9
      <4> QED BY <2>6, <2>7, <2>10, <4>1
    <3>5. After(tx_index)' = After(tx_index)
      BY <1>1 DEF After
    <3> QED BY <1>1, <2>4, <3>1, <3>2, <3>3, <3>4, <3>5 DEF TxIdx
  <2>12. Out(q - 1)' = Out(q)
    <3>1. PICK F \in Seq(Sendable) : F = TxFrames(q) /\ Len(F) = q
      BY <1>0, TxFramesType
    <3>2. PICK R : R = TxFrames(q - 1)'
      OBVIOUS
    <3>3. R = [k \in 1..(q - 1) |-> tx_desc'[TxAt(k)'].pkt]
      BY <3>2 DEF TxFrames
    <3>4. \A k \in 1..q : F[k] = tx_desc[Pos(s, k - 1)].pkt
      BY <2>7, <3>1 DEF TxFrames, TxAt
    <3>5. F[1] = p
      <4>1. 1 \in 1..q /\ 1 - 1 = 0 /\ 0 \in 0..NumBufs
        BY <2>0, <2>9
      <4> QED BY <2>3, <2>6, <3>4, <4>1
    <3>6. \A k \in 1..(q - 1) : tx_desc'[TxAt(k)'].pkt = F[k + 1]
      <4> TAKE k \in 1..(q - 1)
      <4>1. k - 1 \in 0..NumBufs /\ k - 1 < NumBufs /\ (k - 1) + 1 = k /\ k \in 0..NumBufs
            /\ k + 1 \in 1..q /\ (k + 1) - 1 = k
        BY <2>0, <2>9
      <4>2. TxAt(k)' = Pos(After(s), k - 1)
        BY <2>7 DEF TxAt
      <4>3. Pos(After(s), k - 1) = Pos(s, k) /\ Pos(s, k) \in Bufs
        BY <2>6, <4>1
      <4>4. F[k + 1] = tx_desc[Pos(s, k)].pkt
        BY <3>4, <4>1
      <4> QED BY <2>5, <4>2, <4>3, <4>4
    <3>7. R \in [1..(q - 1) -> Sendable] /\ \A k \in 1..(q - 1) : R[k] = F[k + 1]
      <4>1. \A k \in 1..(q - 1) : F[k + 1] \in Sendable
        BY <2>9, <3>1
      <4> QED BY <3>3, <3>6, <4>1
    <3>8. R \in Seq(Sendable) /\ Len(R) = q - 1
      BY <2>9, <3>7
    <3>9. Cat(<<p>>, R) = F
      <4>1. Splits(Sendable, F, p, R)
        BY <2>9, <3>1, <3>5, <3>7, <3>8 DEF Splits
      <4> QED BY <2>3, <3>8, <4>1, CatRest
    <3>10. wire \in Seq(Sendable)
      BY <1>0 DEF TxType, Sendable
    <3>11. Cat(Append(wire, p), R) = Cat(wire, F)
      <4>1. PICK w : w = <<p>>
        OBVIOUS
      <4>2. w \in Seq(Sendable)
        BY <4>1
      <4>3. Cat(wire, w) = Append(wire, p)
        BY <2>3, <3>10, <4>1, CatLast
      <4>4. Cat(Cat(wire, w), R) = Cat(wire, Cat(w, R))
        BY <3>8, <3>10, <4>2, CatCat
      <4> QED BY <3>9, <4>1, <4>3, <4>4
    <3> QED BY <2>1, <2>2, <2>3, <3>1, <3>2, <3>11 DEF Out, Cat
  <2>13. Done(q - 1)' = Done(q)
    BY <1>1, <2>12 DEF Done, Making
  <2> QED BY <1>2, <2>4, <2>10, <2>11, <2>13
<1>5. (pc["net"] = "start" => handled = <<>>)'
  BY <1>1 DEF AnswerOK
<1> QED BY <1>3, <1>4, <1>5 DEF AnswerOK

(* The steps that leave the answers alone.                                 *)
Elsewhere ==
  \/ (RxStart \/ RxSleep \/ RxStop \/ RxTake \/ RxHand) /\ UNCHANGED netVars
  \/ (IsrRead \/ IsrClear \/ IsrEnter) /\ UNCHANGED netVars
  \/ Fills /\ UNCHANGED <<schedVars, pc, boxVars, netVars>>
  \/ Comes
  \/ UNCHANGED vars

LEMMA ElsewhereCalm ==
  ASSUME NetInv, Elsewhere
  PROVE  Calmly
<1>0. SchedType /\ EthType /\ LoadType
  BY DEF NetInv, Types
<1>1. CASE (RxStart \/ RxSleep \/ RxStop \/ RxTake \/ RxHand) /\ UNCHANGED netVars
  <2>1. pc'["net"] = pc["net"]
    <3>1. ASSUME NEW from, NEW to, Step("emac", from, to) PROVE pc'["net"] = pc["net"]
      BY <1>0, <3>1, Pcs
    <3> QED BY <1>1, <3>1 DEF RxStart, RxSleep, RxStop, RxTake, RxHand
  <2>2. /\ tx_desc' = tx_desc /\ tx_index' = tx_index /\ wire' = wire
        /\ pkt' = pkt /\ handled' = handled /\ net' = net
    BY <1>1 DEF RxStart, RxSleep, RxStop, RxTake, RxHand, emacVars, txVars, netVars
  <2>3. eth' = eth \/ eth' = [eth EXCEPT !.on = TRUE]
    BY <1>1 DEF RxStart, RxSleep, RxStop, RxTake, RxHand, emacVars
  <2>4. spoilt \subseteq spoilt'
    <3>1. spoilt' = spoilt \/ spoilt' = spoilt \cup {"held"} \/ spoilt' = spoilt \cup {"refused"}
      BY <1>1 DEF RxStart, RxSleep, RxStop, RxTake, RxHand, emacVars
    <3> QED BY <3>1
  <2>5. eth'.send = eth.send
    BY <1>0, <2>3 DEF EthType
  <2> QED BY <2>1, <2>2, <2>4, <2>5 DEF Calmly, Good
<1>2. CASE (IsrRead \/ IsrClear \/ IsrEnter) /\ UNCHANGED netVars
  <2>1. /\ tx_desc' = tx_desc /\ tx_index' = tx_index /\ wire' = wire /\ pc' = pc
        /\ pkt' = pkt /\ handled' = handled /\ net' = net
    BY <1>2 DEF IsrRead, IsrClear, IsrEnter, txVars, netVars
  <2>2. eth'.send = eth.send
    BY <1>0, <1>2 DEF EthType, IsrRead, IsrClear, IsrEnter
  <2>3. spoilt \subseteq spoilt'
    <3>1. spoilt' = spoilt \/ spoilt' = spoilt \cup {"unwoken"}
      BY <1>2 DEF IsrRead, IsrClear, IsrEnter
    <3> QED BY <3>1
  <2> QED BY <2>1, <2>2, <2>3 DEF Calmly, Good
<1>3. CASE Fills /\ UNCHANGED <<schedVars, pc, boxVars, netVars>>
  <2>1. /\ tx_desc' = tx_desc /\ tx_index' = tx_index /\ wire' = wire /\ pc' = pc
        /\ pkt' = pkt /\ handled' = handled /\ net' = net
    BY <1>3 DEF Fills, txVars, netVars
  <2>2. eth'.send = eth.send
    BY <1>0, <1>3 DEF EthType, Fills
  <2>3. spoilt \subseteq spoilt'
    <3>1. spoilt' = spoilt \/ spoilt' = spoilt \cup {"part"}
      BY <1>3 DEF Fills
    <3> QED BY <3>1
  <2> QED BY <2>1, <2>2, <2>3 DEF Calmly, Good
<1>4. CASE Comes
  <2>1. /\ wire' = wire /\ tx_desc' = tx_desc /\ tx_index' = tx_index /\ pc' = pc
        /\ pkt' = pkt /\ handled' = handled /\ net' = net /\ spoilt' = spoilt
    BY <1>0, <1>4, ComesSteps
  <2>2. eth'.send = eth.send
    <3>1. PICK f : eth' = [eth EXCEPT !.part = [i \in 1..f.n |-> f]]
      BY <1>0, <1>4, ComesSteps
    <3> QED BY <1>0, <3>1 DEF EthType
  <2> QED BY <2>1, <2>2 DEF Calmly, Good
<1>5. CASE UNCHANGED vars
  BY <1>5 DEF vars, schedVars, boxVars, emacVars, rxVars, txVars, netVars, Calmly, Good
<1> QED BY <1>1, <1>2, <1>3, <1>4, <1>5 DEF Elsewhere

(* net_task()'s steps that put nothing into the ring, and the device's     *)
(* when it finds nothing there.                                            *)
Idly ==
  \/ NetWait \/ NetTake \/ NetFree
  \/ \E to \in {"get", "free"} :
        /\ Does("go", to) /\ eth' = [eth EXCEPT !.sending = TRUE]
        /\ UNCHANGED <<txVars, spoilt, netVars>>
  \/ Sends /\ "used" \in tx_desc[eth.send].stat /\ UNCHANGED <<pc, netVars>>

LEMMA IdlyCalm ==
  ASSUME NetInv, Idly
  PROVE  Calmly
<1>0. SchedType /\ EthType /\ NetType
  BY DEF NetInv, Types
<1>1. CASE NetWait
  <2>1. Step("net", "get", "take")
    BY <1>1 DEF NetWait
  <2>2. pc["net"] = "get" /\ pc'["net"] = "take"
    BY <1>0, <2>1, Pcs
  <2>3. /\ tx_desc' = tx_desc /\ tx_index' = tx_index /\ wire' = wire /\ eth' = eth
        /\ pkt' = pkt /\ handled' = handled /\ net' = net /\ spoilt' = spoilt
    BY <1>1 DEF NetWait, emacVars, txVars, netVars
  <2> QED BY <2>2, <2>3 DEF Calmly, Good, Others
<1>2. CASE NetTake
  <2>1. Step("net", "take", "look")
    BY <1>2 DEF NetTake
  <2>2. pc["net"] = "take" /\ pc'["net"] = "look"
    BY <1>0, <2>1, Pcs
  <2>3. /\ tx_desc' = tx_desc /\ tx_index' = tx_index /\ wire' = wire /\ eth' = eth
        /\ pkt' = pkt /\ handled' = handled /\ spoilt' = spoilt
        /\ net' = [net EXCEPT !.buf = loc', !.rest = loc']
    BY <1>2 DEF NetTake, emacVars, txVars
  <2>4. net'.ipv4_id = net.ipv4_id
    BY <1>0, <2>3 DEF NetType
  <2> QED BY <2>2, <2>3, <2>4 DEF Calmly, Good, Others
<1>3. CASE NetFree
  <2>1. {pc["net"], pc'["net"]} \subseteq Others
    <3>1. ASSUME NEW from, NEW to, Does(from, to) PROVE pc["net"] = from /\ pc'["net"] = to
      BY <1>0, <3>1, DoesSteps
    <3>2. \E from, to \in {"free", "retire", "unchain", "get"} : Does(from, to)
      BY <1>3 DEF NetFree
    <3> QED BY <3>1, <3>2 DEF Others
  <2>2. /\ tx_desc' = tx_desc /\ tx_index' = tx_index /\ wire' = wire /\ eth' = eth
        /\ pkt' = pkt /\ handled' = handled
    BY <1>3 DEF NetFree, txVars
  <2>3. net'.ipv4_id = net.ipv4_id
    BY <1>0, <1>3 DEF NetFree, NetType
  <2>4. spoilt \subseteq spoilt'
    <3>1. spoilt' = spoilt \/ spoilt' = spoilt \cup {"cut"}
      BY <1>3 DEF NetFree
    <3> QED BY <3>1
  <2> QED BY <2>1, <2>2, <2>3, <2>4 DEF Calmly, Good
<1>4. ASSUME NEW to \in {"get", "free"}, Does("go", to), eth' = [eth EXCEPT !.sending = TRUE],
             UNCHANGED <<txVars, spoilt, netVars>>
      PROVE  Calmly
  <2>1. pc["net"] = "go" /\ pc'["net"] = to
    BY <1>0, <1>4, DoesSteps
  <2>2. eth'.send = eth.send
    BY <1>0, <1>4 DEF EthType
  <2>3. {pc["net"], pc'["net"]} \subseteq Others
    BY <2>1 DEF Others
  <2> QED BY <1>4, <2>2, <2>3 DEF Calmly, Good, txVars, netVars
<1>5. CASE Sends /\ "used" \in tx_desc[eth.send].stat /\ UNCHANGED <<pc, netVars>>
  <2>1. /\ tx_desc' = tx_desc /\ wire' = wire /\ spoilt' = spoilt /\ tx_index' = tx_index
        /\ eth' = [eth EXCEPT !.sending = FALSE]
    BY <1>5 DEF Sends
  <2>2. eth'.send = eth.send
    BY <1>0, <2>1 DEF EthType
  <2> QED BY <1>5, <2>1, <2>2 DEF Calmly, Good, netVars
<1> QED BY <1>1, <1>2, <1>3, <1>4, <1>5 DEF Idly

LEMMA AnswersBegin ==
  ASSUME Init
  PROVE  AnswerOK
<1>0. NumBufs \in Nat /\ NumBufs > 0 /\ 0 \in 0..NumBufs /\ 0 \in Bufs
  BY EmacAssumption DEF Bufs
<1>1. /\ pc["net"] = "start" /\ handled = <<>> /\ net.ipv4_id = 0 /\ wire = <<>>
      /\ tx_index = 0 /\ eth.send = 0
      /\ tx_desc = [i \in Bufs |-> [stat |-> {"used"}, pkt |-> 0]]
  <2>1. "net" \in Tasks
    BY NetAssumption
  <2> QED BY <2>1 DEF Init, EmacInit, DevInit, BufInit, NetInit
<1>2. Due = <<>>
  BY <1>1 DEF Due
<1>3. net.ipv4_id = Answers(handled).id
  BY <1>1, AnswersFirst DEF AtFirst
<1>4. TxIdx(0)
  <2>1. \A i \in 0..(NumBufs - 1) : Pos(eth.send, i) \in Bufs
    <3> TAKE i \in 0..(NumBufs - 1)
    <3>1. i \in 0..NumBufs
      BY <1>0
    <3> QED BY <1>0, <1>1, <3>1, PosIs
  <2>2. \A i \in 0..(NumBufs - 1) : "used" \in tx_desc[Pos(eth.send, i)].stat
    BY <1>1, <2>1
  <2>3. Pos(eth.send, 0) = 0
    BY <1>0, <1>1, PosIs
  <2>4. \A i \in 0..(0 - 1) : FALSE
    OBVIOUS
  <2>5. ~Writing /\ pc["net"] # "next"
    BY <1>1 DEF Writing
  <2> QED BY <1>1, <2>2, <2>3, <2>4, <2>5 DEF TxIdx
<1>5. Done(0) = <<>>
  <2>1. TxFrames(0) = <<>>
    BY DEF TxFrames
  <2>2. Cat(<<>>, <<>>) = <<>>
    <3>1. PICK e : e = <<>>
      OBVIOUS
    <3>2. e \in Seq(Sendable)
      BY <3>1
    <3>3. Cat(e, <<>>) = e
      BY <3>2, CatIs
    <3> QED BY <3>1, <3>3
  <2> QED BY <1>1, <2>1, <2>2 DEF Done, Making, Out
<1> QED BY <1>0, <1>1, <1>2, <1>3, <1>4, <1>5 DEF AnswerOK

LEMMA AnswersKeep ==
  ASSUME NetInv, AnswerOK, [Next]_vars, ~Strayed'
  PROVE  AnswerOK'
<1>0. SchedType /\ EthType /\ TxType
  BY DEF NetInv, Types
<1>1. CASE Elsewhere
  BY <1>1, ElsewhereCalm, CalmAnswers
<1>2. CASE Idly
  BY <1>2, IdlyCalm, CalmAnswers
<1>3. CASE NetStart
  BY <1>3, StartAnswers
<1>4. CASE NetAnswer
  BY <1>4, LookAnswers
<1>5. CASE Does("send", "last") /\ TxCopy(pkt) /\ UNCHANGED eth /\ UNCHANGED <<rxVars, val, netVars>>
  <2>1. pc["net"] = "send" /\ pc'["net"] = "last"
    BY <1>0, <1>5, DoesSteps
  <2>2. /\ tx_index' = tx_index /\ wire' = wire /\ eth' = eth /\ net' = net /\ pkt' = pkt
        /\ handled' = handled
    BY <1>5 DEF TxCopy, netVars
  <2>3. /\ tx_desc' = [tx_desc EXCEPT ![tx_index] = [stat |-> {}, pkt |-> pkt]]
        /\ spoilt' = IF "used" \in tx_desc[tx_index].stat THEN spoilt
                                                         ELSE spoilt \cup {"replaced"}
    BY <1>5 DEF TxCopy
  <2>4. /\ \A b \in Bufs : b # tx_index => tx_desc'[b] = tx_desc[b]
        /\ tx_desc'[tx_index].pkt = pkt /\ tx_desc'[tx_index].stat = {}
    BY <1>0, <2>3 DEF TxType
  <2>5. Good' => Good /\ "used" \in tx_desc[tx_index].stat
    BY <2>3 DEF Good
  <2>6. Writes
    BY <2>1, <2>2, <2>4, <2>5 DEF Writes
  <2> QED BY <2>6, WriteAnswers
<1>6. CASE Does("last", "size") /\ TxMark("last") /\ UNCHANGED eth /\ UNCHANGED <<rxVars, val, netVars>>
  <2>1. pc["net"] = "last" /\ pc'["net"] = "size"
    BY <1>0, <1>6, DoesSteps
  <2>2. /\ tx_index' = tx_index /\ wire' = wire /\ eth' = eth /\ net' = net /\ pkt' = pkt
        /\ handled' = handled /\ spoilt' = spoilt
    BY <1>6 DEF TxMark, netVars
  <2>3. tx_desc' = [tx_desc EXCEPT ![tx_index].stat = @ \cup {"last"}]
    BY <1>6 DEF TxMark
  <2>4. PICK x \in Bufs : x = tx_index
                          /\ tx_desc[x] \in [stat : SUBSET {"used", "last", "size"}, pkt : Pkts \cup {0}]
    BY <1>0 DEF TxType
  <2>5. /\ \A b \in Bufs : b # tx_index => tx_desc'[b] = tx_desc[b]
        /\ tx_desc'[tx_index].pkt = tx_desc[tx_index].pkt
        /\ tx_desc'[tx_index].stat = tx_desc[tx_index].stat \cup {"last"}
    BY <1>0, <2>3, <2>4 DEF TxType
  <2>6. Good' => Good
    BY <2>2 DEF Good
  <2>7. Writing
    BY <2>1 DEF Writing
  <2>8. {} \cup {"last"} = {"last"}
    OBVIOUS
  <2>9. Writes
    BY <2>1, <2>2, <2>5, <2>6, <2>7, <2>8 DEF Writes
  <2> QED BY <2>9, WriteAnswers
<1>7. CASE Does("size", "next") /\ TxMark("size") /\ UNCHANGED eth /\ UNCHANGED <<rxVars, val, netVars>>
  BY <1>7, MarkedAnswers
<1>8. CASE Does("next", "go") /\ TxNext /\ UNCHANGED eth /\ UNCHANGED <<rxVars, val, netVars>>
  BY <1>8, NextAnswers
<1>9. CASE /\ Does("go", IF net.buf = NoBuf THEN "get" ELSE "free")
           /\ eth' = [eth EXCEPT !.sending = TRUE] /\ UNCHANGED <<txVars, spoilt>>
           /\ UNCHANGED <<rxVars, val, netVars>>
  <2>1. PICK to \in {"get", "free"} : to = IF net.buf = NoBuf THEN "get" ELSE "free"
    OBVIOUS
  <2>2. Idly
    BY <1>9, <2>1 DEF Idly
  <2> QED BY <2>2, IdlyCalm, CalmAnswers
<1>10. CASE NetSend
  BY <1>5, <1>6, <1>7, <1>8, <1>9, <1>10 DEF NetSend
<1>11. CASE Sends /\ UNCHANGED <<schedVars, pc, boxVars, netVars, load>>
  <2>1. CASE "used" \in tx_desc[eth.send].stat
    <3>1. Idly
      BY <1>11, <2>1 DEF Idly
    <3> QED BY <3>1, IdlyCalm, CalmAnswers
  <2>2. CASE "used" \notin tx_desc[eth.send].stat
    BY <1>11, <2>2, SentAnswers
  <2> QED BY <2>1, <2>2
<1>12. CASE NetLook \/ NetPrint \/ NetPut \/ Output
  <2>1. Untouched
    BY <1>0, <1>12, PrintUntouched, OutputUntouched
  <2> QED BY <2>1, UntouchedCalm, CalmAnswers
<1> QED
  <2>1. ASSUME Next PROVE Elsewhere \/ Idly \/ NetStart \/ NetAnswer \/ NetSend
                          \/ NetLook \/ NetPrint \/ NetPut \/ Output
                          \/ (Sends /\ UNCHANGED <<schedVars, pc, boxVars, netVars, load>>)
    BY <2>1 DEF Next, Goes, EmacTask, NetTask, EmacIsr, Interrupt, Device, Elsewhere, Idly
  <2>2. UNCHANGED vars => Elsewhere
    BY DEF Elsewhere
  <2> QED BY <1>1, <1>2, <1>3, <1>4, <1>10, <1>11, <1>12, <2>1, <2>2

LEMMA FrontOfAppend ==
  ASSUME NEW S, NEW o \in Seq(S), NEW e \in S
  PROVE  SubSeq(Append(o, e), 1, Len(Append(o, e)) - 1) = o
<1>1. PICK c : c = Append(o, e)
  OBVIOUS
<1>2. /\ c \in Seq(S) /\ Len(c) = Len(o) + 1 /\ Len(o) \in Nat
      /\ \A i \in 1..Len(o) : c[i] = o[i]
  BY <1>1, AppendProperties
<1>3. PICK d : d = SubSeq(c, 1, Len(c) - 1)
  OBVIOUS
<1>4. d \in Seq(S) /\ Len(d) = Len(o) /\ \A i \in 1..Len(d) : d[i] = c[i]
  BY <1>2, <1>3, SubSeqProperties
<1>5. d = o
  BY <1>2, <1>4, SeqEqual
<1> QED BY <1>1, <1>3, <1>5

LEMMA AllAnswered ==
  ASSUME NetInv, AnswerOK
  PROVE  Answered
<1>0. TxType /\ EthType /\ NetType
  BY DEF NetInv, Types
<1>1. CASE ~Good
  BY <1>1 DEF Good, Answered
<1>2. CASE Good
  <2>1. PICK q \in 0..NumBufs : TxIdx(q) /\ Done(q) = Due
    BY <1>2 DEF AnswerOK
  <2>2. PICK F \in Seq(Sendable) : F = TxFrames(q)
    BY <1>0, TxFramesType
  <2>3. Queued = F
    BY <1>0, <2>1, <2>2, QueuedIs
  <2>4. wire \in Seq(Sendable) /\ pkt \in Sendable
    BY <1>0 DEF TxType, NetType, Sendable
  <2>5. PICK o \in Seq(Sendable) : o = wire \o Queued /\ o = Out(q)
    <3>1. wire \o F \in Seq(Sendable)
      BY <2>2, <2>4, ConcatProperties
    <3> QED BY <2>2, <2>3, <3>1 DEF Out, Cat
  <2>6. CASE ~Making
    <3>1. Due = o
      BY <2>1, <2>5, <2>6 DEF Done
    <3> QED BY <2>5, <2>6, <3>1 DEF Answered, Making
  <2>7. CASE Making
    <3>1. Due = Append(o, pkt)
      BY <2>1, <2>5, <2>7 DEF Done
    <3>2. SubSeq(Due, 1, Len(Due) - 1) = o
      BY <2>4, <3>1, FrontOfAppend
    <3> QED BY <2>5, <2>7, <3>2 DEF Answered, Making
  <2> QED BY <2>6, <2>7
<1> QED BY <1>1, <1>2

(* All of this, until net_task() strays.                                   *)
ServeInv == StackInv /\ (Strayed \/ AnswerOK)

LEMMA ServeInvKeeps ==
  ASSUME ServeInv, [Next]_vars
  PROVE  ServeInv'
<1>1. StackInv'
  BY StackInvKeeps DEF ServeInv
<1>2. CASE Strayed'
  BY <1>1, <1>2 DEF ServeInv
<1>3. CASE ~Strayed'
  <2>1. ~Strayed
    BY <1>3, Grows DEF Strayed
  <2>2. NetInv /\ AnswerOK
    BY <2>1 DEF ServeInv, StackInv
  <2>3. AnswerOK'
    BY <1>3, <2>2, AnswersKeep
  <2> QED BY <1>1, <2>3 DEF ServeInv
<1> QED BY <1>2, <1>3

(* The announcement and an answer to every request that net_task() read    *)
(* are sent, once and in order, unless the ring was too short for them,    *)
(* the device read a descriptor before it was written, or net_task() was   *)
(* woken in msg_get() by what it had printed: Answered of Net, for every   *)
(* size of the rings and every frames that come in (atmel_emac.c:388-448,  *)
(* arp.c, ipv4.c, icmp.c).                                                 *)
THEOREM AnsweredHolds == Spec => []Answered
<1>1. Init => ServeInv
  BY StackInvInit, AnswersBegin DEF ServeInv
<1>2. ServeInv /\ [Next]_vars => ServeInv'
  BY ServeInvKeeps
<1>3. ServeInv => Answered
  <2> SUFFICES ASSUME ServeInv PROVE Answered
    OBVIOUS
  <2>1. CASE Strayed
    BY <2>1 DEF Strayed, Answered
  <2>2. CASE NetInv /\ AnswerOK
    BY <2>2, AllAnswered
  <2> QED BY <2>1, <2>2 DEF ServeInv, StackInv
<1> QED BY <1>1, <1>2, <1>3, PTL DEF Spec

=============================================================================
