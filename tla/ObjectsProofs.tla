---------------------------- MODULE ObjectsProofs ----------------------------
(***************************************************************************)
(* What TLAPS proves of the kernel's objects, for every heap, every size   *)
(* and every number of calls.                                              *)
(***************************************************************************)
EXTENDS Objects, SeqLemmas, FiniteSetTheorems

(* Steps that leave the heap alone.                                        *)
LEMMA HeapSteps ==
  ASSUME [Next]_vars
  PROVE  \/ UNCHANGED memVars
         \/ \E c \in Callers : \E n, use : MallocCheck(c, n, use)
         \/ \E c \in Callers : MallocRead(c) \/ MallocMove(c)
         \/ \E c \in Callers : MallocShrink(c)
BY DEF Next, vars, Tic, TicBegin, TicStep, TicEnd, Starts, Continues, Create, Begin, IntConfig,
       OnTimer, TimerStart, TimerStop, TimerDelete, GiveUp, Take,
       TakeEnd, Link, Got, Fails, TimerUnlink, TimerLoad, TimerActivate

(* A number is its own remainder by a greater one.                         *)
LEMMA SmallMod ==
  ASSUME NEW a \in Nat, NEW b \in Nat, a < b
  PROVE  a % b = a
OBVIOUS

(* A remainder is a number below the divisor.                              *)
LEMMA ModRange ==
  ASSUME NEW a \in Int, NEW b \in Nat, b > 0
  PROVE  a % b \in 0..(b - 1)
OBVIOUS

-----------------------------------------------------------------------------
(* The heap.  What is free follows what is used.  As long as none of them  *)
(* began while another was under way, there is at most one malloc() under  *)
(* way, and what it has read is still true.                                *)
Requests == [to : {"call", "read", "move", "shrink"}, size : Nat, len : Nat, use : Uses,
             loc : Nat, left : Nat]
Blocks   == [loc : Nat, len : Nat, use : Uses]

HeapType == /\ mem_start \in Nat /\ mem_size \in Nat
            /\ mem_free_loc \in Nat /\ mem_free_size \in Nat
            /\ req \in [Callers -> Requests]
            /\ blocks \in Seq(Blocks)
            /\ torn \in BOOLEAN

Alone == \A c, d \in Callers : c # d => ~Under(c) \/ ~Under(d)

HeapUsed ==
  /\ mem_start + mem_size < Wrap
  /\ (\A c \in Callers : req[c].to # "shrink") =>
        mem_free_loc + mem_free_size = mem_start + mem_size
  /\ mem_start <= mem_free_loc /\ mem_free_loc <= mem_start + mem_size
  /\ mem_free_size % 4 = 0
  /\ \A i \in DOMAIN blocks : /\ mem_start <= blocks[i].loc
                              /\ blocks[i].loc + blocks[i].len <= mem_free_loc
  /\ \A i, j \in DOMAIN blocks : i < j => Before(blocks[i], blocks[j])

Fits(r) == r.size # 0 /\ r.len <= r.size /\ r.size <= r.left /\ r.size % 4 = 0
ReadTrue(c) ==
  /\ Under(c) => req[c].left = mem_free_size /\ Fits(req[c])
  /\ req[c].to = "move" => req[c].loc = mem_free_loc
  /\ req[c].to = "shrink" =>
       /\ mem_free_loc = req[c].loc + req[c].size
       /\ req[c].loc + req[c].left = mem_start + mem_size
       /\ mem_start <= req[c].loc
       /\ \A i \in DOMAIN blocks : blocks[i].loc + blocks[i].len <= req[c].loc

HeapInv == /\ HeapType
           /\ ~torn => Alone
           /\ ~torn /\ mem_size % 4 = 0 => HeapUsed /\ \A c \in Callers : ReadTrue(c)

(* What words leave of words is words.                                     *)
LEMMA WordsLeft ==
  ASSUME NEW a \in Nat, NEW b \in Nat, a % 4 = 0, b % 4 = 0
  PROVE  (a - b) % 4 = 0
<1>1. PICK n \in Nat : a = 4 * n
  BY SMT
<1>2. PICK m \in Nat : b = 4 * m
  BY SMT
<1> QED BY <1>1, <1>2, SMT

(* malloc() takes whole words, and what fits fits as whole words.          *)
LEMMA RoundUpFits ==
  ASSUME NEW n \in Nat, NEW free \in Nat, n <= free
  PROVE  /\ RoundUp(n) \in Nat /\ n <= RoundUp(n)
         /\ RoundUp(n) % 4 = 0
         /\ free % 4 = 0 => RoundUp(n) <= free
BY DEF RoundUp, W

(* A malloc() that begins leaves the heap sound, ...                       *)
LEMMA CheckStep ==
  ASSUME HeapAssumption, HeapInv, NEW c \in Callers, NEW n, NEW use, MallocCheck(c, n, use)
  PROVE  HeapInv'
<1>1. /\ n \in Nat /\ use \in Uses /\ n <= mem_free_size /\ n # 0
  BY DEF MallocCheck, Refused, HeapInv, HeapType
<1> DEFINE r == [to |-> "read", size |-> RoundUp(n), len |-> n, use |-> use,
                 loc |-> NULL, left |-> mem_free_size]
<1>2. /\ UNCHANGED <<heapVars, blocks>> /\ ~Under(c)
      /\ req' = [req EXCEPT ![c] = r] /\ torn' = (torn \/ Overlaps(c))
  BY DEF MallocCheck
<1>3. /\ RoundUp(n) \in Nat /\ n <= RoundUp(n) /\ RoundUp(n) % 4 = 0
      /\ mem_free_size % 4 = 0 => RoundUp(n) <= mem_free_size
  BY <1>1, RoundUpFits DEF HeapInv, HeapType
<1>4. /\ r \in Requests /\ r.to = "read" /\ r.left = mem_free_size
      /\ mem_free_size % 4 = 0 => Fits(r)
  <2>1. RoundUp(n) # 0
    BY <1>1, <1>3
  <2> QED BY <1>1, <1>3, <2>1 DEF HeapInv, HeapType, Requests, NULL, Fits
<1> HIDE DEF r
<1>5. /\ req'[c] = r /\ \A d \in Callers : d # c => req'[d] = req[d]
  BY <1>2 DEF HeapInv, HeapType
<1>6. HeapType'
  BY <1>2, <1>4 DEF HeapInv, HeapType, heapVars
<1>7. ASSUME ~torn' PROVE ~torn /\ Alone' /\ \A d \in Callers \ {c} : ~Under(d)
  <2>1. ~torn /\ ~Overlaps(c)
    BY <1>2, <1>7
  <2>2. \A d \in Callers : d # c => ~Under(d)
    BY <2>1 DEF Overlaps
  <2>3. \A d \in Callers : d # c => ~Under(d)'
    BY <1>5, <2>2 DEF Under
  <2>4. Alone'
    BY <2>3 DEF Alone
  <2> QED BY <2>1, <2>2, <2>4
<1>8. ASSUME ~torn', mem_size % 4 = 0
      PROVE  HeapUsed' /\ \A d \in Callers : ReadTrue(d)'
  <2>1. HeapUsed /\ \A d \in Callers : ReadTrue(d)
    BY <1>7, <1>8 DEF HeapInv
  <2>2. \A d \in Callers : req[d].to # "shrink"
    BY <1>2, <1>7, <1>8 DEF Under
  <2>3. HeapUsed'
    BY <1>2, <2>1, <2>2 DEF HeapUsed, heapVars
  <2>4. ReadTrue(c)'
    <3>0. mem_free_size % 4 = 0
      BY <2>1 DEF HeapUsed
    <3>1. mem_free_size' = mem_free_size /\ Fits(r)
      BY <1>2, <1>4, <3>0 DEF heapVars
    <3>2. req'[c].to = "read" /\ req'[c].left = mem_free_size' /\ Fits(req'[c])
      BY <1>4, <1>5, <3>1
    <3> QED BY <3>2 DEF ReadTrue
  <2>5. ASSUME NEW d \in Callers, d # c PROVE ReadTrue(d)'
    BY <1>2, <1>5, <2>1, <2>5 DEF ReadTrue, heapVars, Under
  <2> QED BY <2>3, <2>4, <2>5
<1> QED BY <1>2, <1>6, <1>7, <1>8 DEF HeapInv, heapVars

(* ... and so does one that reads mem_free_loc, ...                        *)
LEMMA ReadStep ==
  ASSUME HeapInv, NEW c \in Callers, MallocRead(c)
  PROVE  HeapInv'
<1> DEFINE r == [req[c] EXCEPT !.loc = mem_free_loc, !.to = "move"]
<1>1. /\ req[c].to = "read" /\ req[c] \in Requests
      /\ req' = [req EXCEPT ![c] = r] /\ UNCHANGED <<heapVars, blocks, torn>>
  BY DEF MallocRead, HeapInv, HeapType
<1>2. /\ r \in Requests /\ r.to = "move" /\ r.loc = mem_free_loc
      /\ r.left = req[c].left /\ Fits(r) <=> Fits(req[c])
  BY <1>1 DEF HeapInv, HeapType, Requests, Fits
<1> HIDE DEF r
<1>3. /\ req'[c] = r /\ \A d \in Callers : d # c => req'[d] = req[d]
  BY <1>1 DEF HeapInv, HeapType
<1>4. HeapType'
  BY <1>1, <1>2 DEF HeapInv, HeapType, heapVars
<1>5. Alone => Alone'
  BY <1>1, <1>3 DEF Alone, Under
<1>6. ASSUME ~torn, mem_size % 4 = 0
      PROVE  HeapUsed' /\ \A d \in Callers : ReadTrue(d)'
  <2>1. HeapUsed /\ \A d \in Callers : ReadTrue(d)
    BY <1>6 DEF HeapInv
  <2>2. (\A d \in Callers : req'[d].to # "shrink") => \A d \in Callers : req[d].to # "shrink"
    BY <1>1, <1>3
  <2>3. HeapUsed'
    BY <1>1, <2>1, <2>2 DEF HeapUsed, heapVars
  <2>4. ReadTrue(c)'
    BY <1>1, <1>2, <1>3, <2>1 DEF ReadTrue, heapVars, Under
  <2>5. ASSUME NEW d \in Callers, d # c PROVE ReadTrue(d)'
    BY <1>1, <1>3, <2>1, <2>5 DEF ReadTrue, heapVars, Under
  <2> QED BY <2>3, <2>4, <2>5
<1> QED BY <1>1, <1>4, <1>5, <1>6 DEF HeapInv, heapVars

(* ... one that moves it, ...                                              *)
LEMMA MoveStep ==
  ASSUME HeapAssumption, HeapInv, NEW c \in Callers, MallocMove(c)
  PROVE  HeapInv'
<1> DEFINE r == [req[c] EXCEPT !.to = "shrink"]
<1>1. /\ req[c].to = "move" /\ req[c] \in Requests
      /\ req' = [req EXCEPT ![c] = r]
      /\ UNCHANGED <<mem_start, mem_size, mem_free_size, blocks, torn>>
  BY DEF MallocMove, HeapInv, HeapType
<1>2. /\ r \in Requests /\ r.to = "shrink" /\ r.loc = req[c].loc
      /\ r.left = req[c].left /\ r.size = req[c].size /\ Fits(r) <=> Fits(req[c])
  BY <1>1 DEF HeapInv, HeapType, Requests, Fits
<1> HIDE DEF r
<1>3. /\ req'[c] = r /\ \A d \in Callers : d # c => req'[d] = req[d]
  BY <1>1 DEF HeapInv, HeapType
<1>4. PICK loc \in {req[c].loc, mem_free_loc} : mem_free_loc' = (loc + req[c].size) % Wrap
  BY DEF MallocMove
<1>5. Wrap \in Nat /\ Wrap > 0
  BY DEF HeapAssumption, W
<1>6. mem_free_loc' \in Nat
  <2>1. loc + req[c].size \in Int
    BY <1>1, <1>4 DEF HeapInv, HeapType, Requests
  <2> QED BY <2>1, <1>4, <1>5, ModRange
<1>7. HeapType'
  BY <1>1, <1>2, <1>6 DEF HeapInv, HeapType
<1>8. Alone => Alone'
  BY <1>1, <1>3 DEF Alone, Under
<1>9. ASSUME ~torn, mem_size % 4 = 0
      PROVE  HeapUsed' /\ \A d \in Callers : ReadTrue(d)'
  <2>1. HeapUsed /\ \A d \in Callers : ReadTrue(d)
    BY <1>9 DEF HeapInv
  <2>2. \A d \in Callers : d # c => ~Under(d)
    BY <1>1, <1>9 DEF HeapInv, Alone, Under
  <2>3. /\ req[c].loc = mem_free_loc /\ req[c].left = mem_free_size /\ Fits(req[c])
    BY <1>1, <2>1 DEF ReadTrue, Under
  <2>4. mem_free_loc + mem_free_size = mem_start + mem_size
    BY <1>1, <2>1, <2>2 DEF HeapUsed, Under
  <2>5. /\ mem_start \in Nat /\ mem_size \in Nat /\ mem_free_loc \in Nat /\ mem_free_size \in Nat
        /\ req[c].size \in Nat /\ req[c].size <= mem_free_size
        /\ mem_start + mem_size < Wrap /\ mem_start <= mem_free_loc
    BY <1>1, <2>1, <2>3 DEF HeapInv, HeapType, HeapUsed, Requests, Fits
  <2>6. mem_free_loc' = mem_free_loc + req[c].size
    <3>1. mem_free_loc + req[c].size \in Nat /\ mem_free_loc + req[c].size < Wrap
      BY <2>4, <2>5, <1>5
    <3> QED BY <3>1, <1>4, <1>5, <2>3, SmallMod
  <2>7. ASSUME NEW i \in DOMAIN blocks
        PROVE  /\ blocks[i].loc \in Nat /\ blocks[i].len \in Nat
               /\ mem_start <= blocks[i].loc
               /\ blocks[i].loc + blocks[i].len <= mem_free_loc
    <3>1. blocks[i] \in Blocks
      BY DEF HeapInv, HeapType
    <3> QED BY <2>1, <3>1 DEF Blocks, HeapUsed
  <2>8. HeapUsed'
    <3>1. /\ mem_start <= mem_free_loc' /\ mem_free_loc' <= mem_start + mem_size
      BY <2>4, <2>5, <2>6
    <3>2. ASSUME NEW i \in DOMAIN blocks
          PROVE  blocks[i].loc + blocks[i].len <= mem_free_loc'
      BY <2>5, <2>6, <2>7
    <3>3. ~(\A d \in Callers : req'[d].to # "shrink")
      BY <1>2, <1>3
    <3>4. mem_free_size % 4 = 0 /\ \A i, j \in DOMAIN blocks : i < j => Before(blocks[i], blocks[j])
      BY <2>1 DEF HeapUsed
    <3>5. \A i \in DOMAIN blocks : mem_start <= blocks[i].loc
      BY <2>7
    <3>6. mem_start + mem_size < Wrap
      BY <2>5
    <3> QED BY <1>1, <3>1, <3>2, <3>3, <3>4, <3>5, <3>6 DEF HeapUsed
  <2>9. ReadTrue(c)'
    <3>1. /\ mem_free_loc' = r.loc + r.size /\ r.loc + r.left = mem_start + mem_size
          /\ mem_start <= r.loc /\ r.left = mem_free_size /\ Fits(r)
      BY <1>2, <2>3, <2>4, <2>5, <2>6
    <3>2. \A i \in DOMAIN blocks : blocks[i].loc + blocks[i].len <= r.loc
      BY <1>2, <2>3, <2>7
    <3> QED BY <1>1, <1>2, <1>3, <3>1, <3>2 DEF ReadTrue
  <2>10. ASSUME NEW d \in Callers, d # c PROVE ReadTrue(d)'
    BY <1>3, <2>2, <2>10 DEF ReadTrue, Under
  <2> QED BY <2>8, <2>9, <2>10
<1> QED BY <1>1, <1>7, <1>8, <1>9 DEF HeapInv

(* ... and its end, which counts what is left and hands out a block.       *)
LEMMA ShrinkStep ==
  ASSUME HeapAssumption, HeapInv, NEW c \in Callers, MallocShrink(c)
  PROVE  HeapInv'
<1> DEFINE new == [loc |-> req[c].loc, len |-> req[c].len, use |-> req[c].use]
<1>1. /\ req[c].to = "shrink" /\ req[c] \in Requests
      /\ blocks' = Append(blocks, new) /\ req' = [req EXCEPT ![c] = NoReq]
      /\ UNCHANGED <<mem_start, mem_size, mem_free_loc, torn>>
  BY DEF MallocShrink, HeapInv, HeapType
<1>2. /\ new \in Blocks /\ new.loc = req[c].loc /\ new.len = req[c].len
      /\ NoReq \in Requests /\ NoReq.to = "call"
  BY <1>1 DEF Blocks, Requests, NoReq, Uses
<1> HIDE DEF new
<1>3. /\ req'[c] = NoReq /\ \A d \in Callers : d # c => req'[d] = req[d]
  BY <1>1 DEF HeapInv, HeapType
<1>4. PICK lft \in {req[c].left, mem_free_size} : mem_free_size' = (lft - req[c].size) % Wrap
  BY DEF MallocShrink
<1>5. Wrap \in Nat /\ Wrap > 0
  BY DEF HeapAssumption, W
<1>6. mem_free_size' \in Nat
  <2>1. lft - req[c].size \in Int
    BY <1>1, <1>4 DEF HeapInv, HeapType, Requests
  <2> QED BY <2>1, <1>4, <1>5, ModRange
<1>7. HeapType'
  <2>1. blocks' \in Seq(Blocks)
    BY <1>1, <1>2 DEF HeapInv, HeapType
  <2>2. req' \in [Callers -> Requests]
    BY <1>1, <1>2 DEF HeapInv, HeapType
  <2> QED BY <1>1, <1>6, <2>1, <2>2 DEF HeapInv, HeapType
<1>8. Alone => Alone'
  BY <1>2, <1>3 DEF Alone, Under
<1>9. ASSUME ~torn, mem_size % 4 = 0
      PROVE  HeapUsed' /\ \A d \in Callers : ReadTrue(d)'
  <2>1. HeapUsed /\ ReadTrue(c)
    BY <1>9 DEF HeapInv
  <2>2. \A d \in Callers : d # c => ~Under(d)
    BY <1>1, <1>9 DEF HeapInv, Alone, Under
  <2>3. /\ req[c].left = mem_free_size
        /\ req[c].len <= req[c].size /\ req[c].size <= mem_free_size /\ req[c].size % 4 = 0
        /\ mem_free_loc = req[c].loc + req[c].size
        /\ req[c].loc + mem_free_size = mem_start + mem_size
        /\ mem_start <= req[c].loc
        /\ \A i \in DOMAIN blocks : blocks[i].loc + blocks[i].len <= req[c].loc
    BY <1>1, <2>1 DEF ReadTrue, Under, Fits
  <2>4. /\ mem_start \in Nat /\ mem_size \in Nat /\ mem_free_loc \in Nat /\ mem_free_size \in Nat
        /\ req[c].size \in Nat /\ req[c].loc \in Nat /\ req[c].len \in Nat
        /\ mem_start + mem_size < Wrap /\ mem_start <= mem_free_loc
        /\ mem_free_loc <= mem_start + mem_size /\ mem_free_size % 4 = 0
    BY <1>1, <2>1 DEF HeapInv, HeapType, HeapUsed, Requests
  <2>5. mem_free_size' = mem_free_size - req[c].size
    <3>1. mem_free_size - req[c].size \in Nat /\ mem_free_size - req[c].size < Wrap
      BY <2>3, <2>4, <1>5
    <3> QED BY <3>1, <1>4, <1>5, <2>3, SmallMod
  <2>6. mem_free_size' % 4 = 0
    BY <2>3, <2>4, <2>5, WordsLeft
  <2>7. mem_free_loc + mem_free_size' = mem_start + mem_size
    BY <2>3, <2>4, <2>5
  <2>8. /\ \A i \in DOMAIN blocks' :
             (i \in DOMAIN blocks /\ blocks'[i] = blocks[i]) \/ (i = Len(blocks) + 1 /\ blocks'[i] = new)
        /\ DOMAIN blocks' = 1..(Len(blocks) + 1) /\ DOMAIN blocks = 1..Len(blocks)
        /\ Len(blocks) \in Nat
    <3>1. blocks \in Seq(Blocks)
      BY DEF HeapInv, HeapType
    <3> QED BY <3>1, <1>1, <1>2
  <2>9. ASSUME NEW i \in DOMAIN blocks'
        PROVE  /\ mem_start <= blocks'[i].loc
               /\ blocks'[i].loc + blocks'[i].len <= mem_free_loc
    <3>1. CASE i \in DOMAIN blocks /\ blocks'[i] = blocks[i]
      BY <3>1, <2>1 DEF HeapUsed
    <3>2. CASE blocks'[i] = new
      BY <3>2, <1>2, <2>3, <2>4
    <3> QED BY <3>1, <3>2, <2>8
  <2>10. ASSUME NEW i \in DOMAIN blocks', NEW j \in DOMAIN blocks', i < j
         PROVE  Before(blocks'[i], blocks'[j])
    <3>1. i \in DOMAIN blocks /\ blocks'[i] = blocks[i]
      BY <2>8, <2>10
    <3>2. CASE j \in DOMAIN blocks /\ blocks'[j] = blocks[j]
      BY <3>1, <3>2, <2>10, <2>1 DEF HeapUsed
    <3>3. CASE blocks'[j] = new
      BY <3>1, <3>3, <1>2, <2>3 DEF Before
    <3> QED BY <3>2, <3>3, <2>8
  <2>11. HeapUsed'
    <3>1. /\ mem_start' + mem_size' < Wrap
          /\ mem_start' <= mem_free_loc' /\ mem_free_loc' <= mem_start' + mem_size'
      BY <1>1, <2>4
    <3>2. mem_free_loc' + mem_free_size' = mem_start' + mem_size'
      BY <1>1, <2>7
    <3> QED BY <1>1, <2>6, <2>9, <2>10, <3>1, <3>2 DEF HeapUsed, Before
  <2>12. ASSUME NEW d \in Callers PROVE ReadTrue(d)'
    <3>1. req'[d].to = "call"
      <4>1. CASE d = c BY <4>1, <1>2, <1>3
      <4>2. CASE d # c BY <4>2, <1>3, <2>2 DEF Under
      <4> QED BY <4>1, <4>2
    <3> QED BY <3>1 DEF ReadTrue, Under
  <2> QED BY <2>11, <2>12
<1> QED BY <1>1, <1>7, <1>8, <1>9 DEF HeapInv

(* At start-up the idle task's timers follow each other.                   *)
LEMMA TimesMonotone ==
  ASSUME NEW a \in Nat, NEW b \in Nat, NEW n \in Nat, a <= b
  PROVE  a * n \in Nat /\ b * n \in Nat /\ a * n <= b * n
OBVIOUS

(* So many objects of whole words are whole words.                         *)
LEMMA TimesWords ==
  ASSUME NEW a \in Nat, NEW n \in Nat, n % 4 = 0
  PROVE  (a * n) % 4 = 0
<1>1. PICK m \in Nat : n = 4 * m
  BY SMT
<1> DEFINE p == a * m
<1>2. a * n = 4 * p /\ p \in Nat
  BY <1>1, SMT
<1> HIDE DEF p
<1>3. (4 * p) % 4 = 0
  BY <1>2, SMT
<1> QED BY <1>2, <1>3

StartOK == /\ mem_start # 0 /\ mem_start + mem_size < Wrap
           /\ mem_free_loc <= mem_start + mem_size
           /\ \A i \in DOMAIN blocks : /\ mem_start <= blocks[i].loc
                                       /\ blocks[i].loc + blocks[i].len <= mem_free_loc

(* The heap is sound when the kernel has started.                          *)
LEMMA InitStep ==
  ASSUME HeapAssumption, ObjectsAssumption, Init
  PROVE  HeapInv /\ StartOK
<1>1. PICK h \in Heaps : MemInit(h[1], h[2])
  BY DEF Init
<1>2. PICK made \in BootTimers : BootList(made)
  BY DEF Init
<1> DEFINE size == SizeOf["timer"]
           n    == Len(made)
           addr(i) == IF i = 0 THEN NULL ELSE mem_start + (i - 1) * size
<1>3. /\ n \in Nat /\ size \in Nat /\ size % 4 = 0
  BY DEF ObjectsAssumption, Kinds, W
<1>5. /\ n * size <= mem_size
      /\ mem_free_loc = mem_start + n * size
      /\ mem_free_size = mem_size - n * size
      /\ blocks = [i \in 1..n |-> [loc |-> addr(i), len |-> size, use |-> "timer"]]
  BY <1>2 DEF BootList
<1> HIDE DEF size, n
<1>4. /\ mem_start \in Nat /\ mem_size \in Nat /\ mem_start + mem_size < Wrap
      /\ mem_start # 0
  <2>1. /\ Wrap \in Nat /\ h[1] \in Nat /\ h[2] \in Nat
        /\ h[2] >= 4 /\ h[1] + h[2] + 4 < Wrap
    BY DEF HeapAssumption, W
  <2> DEFINE delta == IF h[1] % 4 = 0 THEN 0 ELSE 4 - (h[1] % 4)
  <2>2. delta \in Nat /\ delta <= 4
    BY <2>1
  <2>3. mem_start = h[1] + delta /\ mem_size = (h[2] - delta) % Wrap
    BY <1>1 DEF MemInit, W
  <2>8. mem_start = h[1] + delta
    BY <2>3
  <2> HIDE DEF delta
  <2>4. h[2] - delta \in Nat /\ h[2] - delta < Wrap
    BY <2>1, <2>2
  <2>5. mem_size = h[2] - delta
    BY <2>1, <2>3, <2>4, SmallMod
  <2>9. h[1] # 0
    BY <1>1 DEF MemInit
  <2>6. mem_start \in Nat /\ mem_size \in Nat /\ mem_start # 0
    BY <2>1, <2>2, <2>8, <2>9, <2>4, <2>5
  <2>7. mem_start + mem_size = h[1] + h[2]
    BY <2>1, <2>2, <2>8, <2>5
  <2> QED BY <2>1, <2>6, <2>7
<1>6. n * size \in Nat /\ (n * size) % 4 = 0
  <2>1. n <= n
    BY <1>3
  <2>2. n * size \in Nat
    BY <2>1, <1>3, TimesMonotone
  <2>3. (n * size) % 4 = 0
    BY <1>3, TimesWords
  <2> QED BY <2>2, <2>3
<1>13. /\ mem_free_loc \in Nat /\ mem_free_size \in Nat
       /\ mem_free_loc + mem_free_size = mem_start + mem_size
       /\ mem_start <= mem_free_loc
  <2> DEFINE used == n * size
  <2>1. /\ used \in Nat /\ used <= mem_size
        /\ mem_free_loc = mem_start + used /\ mem_free_size = mem_size - used
    BY <1>5, <1>6
  <2> HIDE DEF used
  <2> QED BY <2>1, <1>4
<1>7. ASSUME NEW i \in 1..n
      PROVE  /\ addr(i) \in Nat /\ mem_start <= addr(i)
             /\ addr(i) + size = mem_start + i * size
             /\ addr(i) + size <= mem_free_loc
  <2>0. i \in Nat /\ i - 1 \in Nat /\ i <= n /\ i # 0
    BY <1>3
  <2>1. (i - 1) * size \in Nat /\ i * size \in Nat /\ i * size <= n * size
    BY <2>0, <1>3, TimesMonotone
  <2>2. (i - 1) * size + size = i * size
    BY <1>3, SMT
  <2>3. addr(i) = mem_start + (i - 1) * size
    OBVIOUS
  <2> HIDE DEF addr
  <2> DEFINE low == (i - 1) * size
             top == i * size
             all == n * size
  <2>4. /\ low \in Nat /\ top \in Nat /\ all \in Nat /\ top <= all
        /\ low + size = top /\ addr(i) = mem_start + low
        /\ mem_free_loc = mem_start + all
    BY <2>1, <2>2, <2>3, <1>5, <1>6
  <2> HIDE DEF low, top, all
  <2>5. /\ addr(i) \in Nat /\ mem_start <= addr(i)
        /\ addr(i) + size = mem_start + top
        /\ addr(i) + size <= mem_free_loc
    BY <2>4, <1>3, <1>4
  <2> QED BY <2>5 DEF top
<1>8. ASSUME NEW i \in 1..n, NEW j \in 1..n, i < j
      PROVE  addr(i) + size <= addr(j)
  <2>0. i \in Nat /\ j - 1 \in Nat /\ i <= j - 1
    BY <1>3, <1>8
  <2>1. i * size <= (j - 1) * size /\ (j - 1) * size \in Nat /\ i * size \in Nat
    BY <2>0, <1>3, TimesMonotone
  <2>2. addr(j) = mem_start + (j - 1) * size
    OBVIOUS
  <2> QED BY <2>1, <2>2, <1>4, <1>7
<1> HIDE DEF addr
<1>9. \A i \in DOMAIN blocks : i \in 1..n /\ blocks[i].loc = addr(i) /\ blocks[i].len = size
  BY <1>5
<1>10. HeapType
  <2>1. blocks \in Seq(Blocks)
    <3>1. \A i \in 1..n : [loc |-> addr(i), len |-> size, use |-> "timer"] \in Blocks
      BY <1>3, <1>7 DEF Blocks, Uses
    <3> QED BY <3>1, <1>3, <1>5
  <2>2. req \in [Callers -> Requests] /\ torn \in BOOLEAN
    BY DEF Init, NoReq, Requests, Uses
  <2> QED BY <1>4, <1>13, <2>1, <2>2 DEF HeapType
<1>11. ASSUME mem_size % 4 = 0 PROVE HeapUsed
  <2>1. mem_free_size % 4 = 0
    BY <1>4, <1>5, <1>6, <1>11, WordsLeft
  <2>2. \A i, j \in DOMAIN blocks : i < j => Before(blocks[i], blocks[j])
    BY <1>8, <1>9 DEF Before
  <2>3. \A i \in DOMAIN blocks : /\ mem_start <= blocks[i].loc
                                 /\ blocks[i].loc + blocks[i].len <= mem_free_loc
    BY <1>7, <1>9
  <2>4. mem_free_loc + mem_free_size = mem_start + mem_size /\ mem_start <= mem_free_loc
    BY <1>13
  <2>5. mem_free_loc <= mem_start + mem_size
    BY <1>13, <2>4
  <2> QED BY <1>4, <2>1, <2>2, <2>3, <2>4, <2>5 DEF HeapUsed
<1>12. Alone /\ \A c \in Callers : ReadTrue(c)
  BY DEF Init, NoReq, ReadTrue, Under, Alone
<1>14. StartOK
  <2>1. mem_free_loc <= mem_start + mem_size
    BY <1>13
  <2> QED BY <2>1, <1>4, <1>7, <1>9 DEF StartOK
<1> QED BY <1>10, <1>11, <1>12, <1>14 DEF HeapInv

(* The heap stays as it must be, whatever the two tasks and the clock do.  *)
LEMMA HeapInvariant ==
  ASSUME HeapAssumption, ObjectsAssumption
  PROVE  Spec => []HeapInv
<1>1. Init => HeapInv
  BY InitStep
<1>2. HeapInv /\ [Next]_vars => HeapInv'
  <2> SUFFICES ASSUME HeapInv, [Next]_vars PROVE HeapInv'
    OBVIOUS
  <2>1. CASE UNCHANGED memVars
    <3> USE <2>1 DEF memVars, heapVars
    <3>1. HeapType' BY DEF HeapInv, HeapType
    <3>2. HeapUsed => HeapUsed' BY DEF HeapUsed
    <3>3. \A c : ReadTrue(c) => ReadTrue(c)' BY DEF ReadTrue, Under
    <3>4. Alone => Alone' BY DEF Alone, Under
    <3> QED BY <3>1, <3>2, <3>3, <3>4 DEF HeapInv
  <2>2. CASE \E c \in Callers : \E n, use : MallocCheck(c, n, use)
    BY <2>2, CheckStep
  <2>3. CASE \E c \in Callers : MallocRead(c) \/ MallocMove(c)
    BY <2>3, ReadStep, MoveStep
  <2>4. CASE \E c \in Callers : MallocShrink(c)
    BY <2>4, ShrinkStep
  <2> QED BY <2>1, <2>2, <2>3, <2>4, HeapSteps
<1> QED BY <1>1, <1>2, PTL DEF Spec

(* The blocks that malloc() hands out lie in the heap and apart from each  *)
(* other, whatever the two tasks and the clock do, unless a malloc() is    *)
(* overtaken by another or the heap's size is no multiple of a word.       *)
THEOREM HeapSound ==
  ASSUME HeapAssumption, ObjectsAssumption
  PROVE  Spec => []BlocksSound
<1>1. HeapInv => BlocksSound
  <2> SUFFICES ASSUME HeapInv, ~torn, mem_size % 4 = 0
               PROVE  /\ \A i \in DOMAIN blocks :
                            /\ mem_start <= blocks[i].loc
                            /\ blocks[i].loc + blocks[i].len <= mem_start + mem_size
                      /\ \A i, j \in DOMAIN blocks : i < j => Before(blocks[i], blocks[j])
    BY DEF BlocksSound, W
  <2>1. HeapUsed BY DEF HeapInv
  <2>2. mem_free_loc <= mem_start + mem_size
    BY <2>1 DEF HeapUsed, HeapInv, HeapType
  <2>3. ASSUME NEW i \in DOMAIN blocks
        PROVE  blocks[i].loc + blocks[i].len <= mem_start + mem_size
    <3>1. blocks[i] \in Blocks BY DEF HeapInv, HeapType
    <3>2. blocks[i].loc + blocks[i].len \in Nat BY <3>1 DEF Blocks
    <3>3. blocks[i].loc + blocks[i].len <= mem_free_loc BY <2>1 DEF HeapUsed
    <3>4. mem_free_loc \in Nat /\ mem_start + mem_size \in Nat BY DEF HeapInv, HeapType
    <3> HIDE DEF HeapInv
    <3> QED BY <2>2, <3>2, <3>3, <3>4
  <2> QED BY <2>1, <2>3 DEF HeapUsed
<1> QED BY <1>1, HeapInvariant, PTL

-----------------------------------------------------------------------------
(* The timers.  One that is not active may have no tics left; none has     *)
(* more than it is set to.                                                 *)
Fields   == {"id", "tics", "type", "func", "active", "tics_now", "next"}
Typed(r) == DOMAIN r = Fields /\ r.tics \in 0..(Wrap - 1)
Armed(r) == r.tics_now \in 0..r.tics /\ (r.active => r.tics_now # 0)

CallTyped(c) == at[c] = "make" /\ op[c].call = "timer_new" => op[c].with \in TimerArgs

TimerInv == /\ DOMAIN at = Callers /\ DOMAIN op = Callers
            /\ \A c \in Callers : CallTyped(c)
            /\ \A t \in DOMAIN timer : Typed(timer[t])
            /\ \A t \in DOMAIN timer \ missed : Armed(timer[t])

(* A timer just made is typed and not active.                              *)
LEMMA NewTimer ==
  ASSUME NEW a, NEW k \in TimerArgs, NEW next
  PROVE  Typed(TimerT(a, k, next)) /\ Armed(TimerT(a, k, next))
BY DEF Typed, Armed, TimerT, TimerArgs, Fields

(* The idle task's timers are armed or missed at start-up.                 *)
LEMMA TimersAtStart ==
  ASSUME ObjectsAssumption, Init
  PROVE  TimerInv
<1>1. PICK made \in BootTimers : BootList(made)
  BY DEF Init
<1>2. made \in Seq(TimerArgs)
  BY DEF ObjectsAssumption
<1> DEFINE addr(i) == IF i = 0 THEN NULL ELSE mem_start + (i - 1) * SizeOf["timer"]
           n == Len(made)
<1>3. timer = [a \in {addr(i) : i \in 1..n} |->
                 LET i == CHOOSE j \in 1..n : addr(j) = a
                 IN  TimerT(a, made[i], addr(i - 1))]
  BY <1>1 DEF BootList
<1> HIDE DEF addr
<1>4. ASSUME NEW a \in DOMAIN timer
      PROVE  Typed(timer[a]) /\ Armed(timer[a])
  <2> DEFINE i == CHOOSE j \in 1..n : addr(j) = a
  <2>1. \E j \in 1..n : addr(j) = a
    BY <1>3
  <2>2. i \in 1..n
    BY <2>1
  <2>3. made[i] \in TimerArgs
    BY <1>2, <2>2
  <2>4. timer[a] = TimerT(a, made[i], addr(i - 1))
    BY <1>3
  <2> QED BY <2>3, <2>4, NewTimer
<1>5. /\ DOMAIN at = Callers /\ DOMAIN op = Callers
      /\ \A c \in Callers : CallTyped(c)
  BY DEF Init, CallTyped
<1> QED BY <1>4, <1>5 DEF TimerInv

(* A step that changes one timer, and leaves it typed and armed or missed. *)
LEMMA OneTimer ==
  ASSUME TimerInv, NEW t, NEW r,
         timer' = [timer EXCEPT ![t] = r], missed \subseteq missed',
         t \in DOMAIN timer => Typed(r) /\ (t \notin missed' => Armed(r))
  PROVE  /\ \A u \in DOMAIN timer' : Typed(timer'[u])
         /\ \A u \in DOMAIN timer' \ missed' : Armed(timer'[u])
<1>1. DOMAIN timer' = DOMAIN timer
  OBVIOUS
<1>2. \A u \in DOMAIN timer : timer'[u] = IF u = t THEN r ELSE timer[u]
  OBVIOUS
<1> QED BY <1>1, <1>2 DEF TimerInv

(* Changing its link, its id or whether it is active leaves a timer typed. *)
LEMMA Untouched ==
  ASSUME NEW r, Typed(r), NEW x
  PROVE  LET a == [r EXCEPT !.id = x]
             b == [r EXCEPT !.next = x]
             d == [r EXCEPT !.active = FALSE]
         IN  /\ Typed(a) /\ (Armed(r) => Armed(a))
             /\ Typed(b) /\ (Armed(r) => Armed(b))
             /\ Typed(d) /\ (Armed(r) => Armed(d))
BY DEF Typed, Armed, Fields

(* timer_delete() changes links and ids only.                              *)
LEMMA UnlinkStep ==
  ASSUME TimerInv, NEW t, NEW r, Unlink(t, r), missed' = missed,
         t \in DOMAIN timer => Typed(r) /\ (t \notin missed => Armed(r))
  PROVE  /\ \A u \in DOMAIN timer' : Typed(timer'[u])
         /\ \A u \in DOMAIN timer' \ missed' : Armed(timer'[u])
<1> DEFINE prev == PrevOf(t)
           gone == [r EXCEPT !.id = 0]
           link == [timer[prev] EXCEPT !.next = r.next]
<1>1. t \in DOMAIN timer => Typed(gone) /\ (t \notin missed => Armed(gone))
  BY Untouched
<1>2. CASE timer' = [timer EXCEPT ![t] = gone]
  <2> HIDE DEF gone
  <2> QED BY <1>1, <1>2, OneTimer
<1>3. CASE timer' = [timer EXCEPT ![prev].next = r.next, ![t] = gone]
  <2>1. prev \in DOMAIN timer => Typed(link) /\ (prev \notin missed => Armed(link))
    BY Untouched DEF TimerInv
  <2>2. DOMAIN timer' = DOMAIN timer
    BY <1>3
  <2>3. \A u \in DOMAIN timer :
           timer'[u] = IF u = t THEN gone ELSE IF u = prev THEN link ELSE timer[u]
    BY <1>3
  <2> HIDE DEF gone, link, prev
  <2> QED BY <1>1, <2>1, <2>2, <2>3 DEF TimerInv
<1> QED BY <1>2, <1>3 DEF Unlink

(* What a timer has left when a tic, or its end, has been counted.         *)
LEMMA CountDown ==
  ASSUME HeapAssumption, NEW r, Typed(r), r.active,
         NEW k, k = (r.tics_now - 1) % Wrap
  PROVE  /\ Typed([r EXCEPT !.tics_now = k]) /\ Typed(Expired(r))
         /\ Armed(r) /\ k # 0 => Armed([r EXCEPT !.tics_now = k])
         /\ Armed(r) => Armed(Expired(r))
<1>1. Wrap \in Nat
  BY DEF HeapAssumption
<1>2. Typed([r EXCEPT !.tics_now = k]) /\ Typed(Expired(r))
  BY DEF Typed, Expired, Fields
<1>3. ASSUME Armed(r), k # 0
      PROVE  Armed([r EXCEPT !.tics_now = k])
  <2> DEFINE now == r.tics_now
             all == r.tics
  <2>1. now \in Nat /\ all \in Nat /\ 1 <= now /\ now <= all /\ all < Wrap
    BY <1>1, <1>3 DEF Armed, Typed
  <2> HIDE DEF now, all
  <2>2. now - 1 \in Nat /\ now - 1 < Wrap
    BY <1>1, <2>1
  <2>3. k = now - 1
    BY <1>1, <2>2, SmallMod DEF now
  <2>4. k \in 0..all
    BY <2>1, <2>3
  <2> QED BY <1>3, <2>4 DEF Armed, Typed, Fields, all
<1>4. Armed(r) => Armed(Expired(r))
  BY <1>1 DEF Armed, Typed, Expired, Fields
<1> QED BY <1>2, <1>3, <1>4

(* The clock's handler leaves every timer armed or missed.                 *)
LEMMA TicKeeps ==
  ASSUME HeapAssumption, TimerInv, TicStep
  PROVE  /\ \A u \in DOMAIN timer' : Typed(timer'[u])
         /\ \A u \in DOMAIN timer' \ missed' : Armed(timer'[u])
<1> DEFINE r == timer[walk]
           k == (r.tics_now - 1) % Wrap
<1>1. walk \in DOMAIN timer => Typed(r) /\ (walk \notin missed => Armed(r))
  BY DEF TimerInv
<1>2. CASE UNCHANGED <<timer, missed>>
  BY <1>2 DEF TimerInv
<1>3. CASE /\ r.active /\ k # 0
           /\ timer' = [timer EXCEPT ![walk].tics_now = k]
           /\ missed' = missed
  <2> DEFINE down == [r EXCEPT !.tics_now = k]
  <2>1. timer' = [timer EXCEPT ![walk] = down]
    BY <1>3
  <2>2. walk \in DOMAIN timer => Typed(down) /\ (walk \notin missed => Armed(down))
    <3> HIDE DEF r
    <3> QED BY <1>1, <1>3, CountDown
  <2> HIDE DEF down
  <2> QED BY <1>3, <2>1, <2>2, OneTimer
<1>4. CASE r.active /\ k = 0 /\ Call(walk, Expired(r))
  <2> DEFINE x == Expired(r)
  <2>1. walk \in DOMAIN timer => Typed(x) /\ (walk \notin missed => Armed(x))
    <3> HIDE DEF r
    <3> QED BY <1>1, <1>4, CountDown
  <2> HIDE DEF x, k
  <2>2. Call(walk, x)
    BY <1>4 DEF x
  <2>3. CASE timer' = [timer EXCEPT ![walk] = x] /\ missed' = missed
    BY <2>1, <2>3, OneTimer
  <2>4. CASE /\ timer' = [timer EXCEPT ![walk] = [x EXCEPT
                     !.tics_now = IF @ = 0 THEN x.tics ELSE @, !.active = TRUE]]
             /\ missed' = IF x.tics_now = 0 /\ x.tics = 0 THEN missed \cup {walk} ELSE missed
    <3> DEFINE y == [x EXCEPT !.tics_now = IF @ = 0 THEN x.tics ELSE @, !.active = TRUE]
    <3>1. Typed(x) => Typed(y)
      BY DEF Typed, Fields
    <3>2. Typed(x) /\ Armed(x) /\ ~(x.tics_now = 0 /\ x.tics = 0) => Armed(y)
      BY DEF Typed, Armed, Fields
    <3>3. missed \subseteq missed' /\ (walk \notin missed' =>
               walk \notin missed /\ ~(x.tics_now = 0 /\ x.tics = 0))
      BY <2>4
    <3>4. timer' = [timer EXCEPT ![walk] = y]
      BY <2>4
    <3> HIDE DEF y
    <3> QED BY <2>1, <3>1, <3>2, <3>3, <3>4, OneTimer
  <2>5. CASE timer' = [timer EXCEPT ![walk] = [x EXCEPT !.active = FALSE]] /\ missed' = missed
    <3> DEFINE y == [x EXCEPT !.active = FALSE]
    <3>1. walk \in DOMAIN timer => Typed(y) /\ (walk \notin missed => Armed(y))
      BY <2>1, Untouched
    <3> HIDE DEF y
    <3> QED BY <2>5, <3>1, OneTimer DEF y
  <2>6. CASE Unlink(walk, x) /\ missed' = missed
    BY <2>1, <2>6, UnlinkStep
  <2> QED BY <2>2, <2>3, <2>4, <2>5, <2>6 DEF Call
<1> QED BY <1>2, <1>3, <1>4 DEF TicStep

(* So do the calls of the tasks.                                           *)
LEMMA CallKeeps ==
  ASSUME ObjectsAssumption, TimerInv, NEW c \in Callers,
         \/ Starts(c) \/ Continues(c)
  PROVE  /\ \A u \in DOMAIN timer' : Typed(timer'[u])
         /\ \A u \in DOMAIN timer' \ missed' : Armed(timer'[u])
<1>1. CASE UNCHANGED <<timer, missed>>
  BY <1>1 DEF TimerInv
<1>2. ASSUME NEW t \in DOMAIN timer, TimerStop(c, t)
      PROVE  /\ \A u \in DOMAIN timer' : Typed(timer'[u])
             /\ \A u \in DOMAIN timer' \ missed' : Armed(timer'[u])
  <2> DEFINE y == [timer[t] EXCEPT !.active = FALSE]
  <2>1. Typed(y) /\ (t \notin missed => Armed(y))
    BY Untouched DEF TimerInv
  <2>2. timer' = [timer EXCEPT ![t] = y] /\ missed' = missed
    BY <1>2 DEF TimerStop
  <2> HIDE DEF y
  <2> QED BY <2>1, <2>2, OneTimer
<1>3. CASE TimerUnlink(c)
  <2> DEFINE t == op[c]
  <2>1. Unlink(t, timer[t]) /\ missed' = missed
    BY <1>3 DEF TimerUnlink
  <2>2. t \in DOMAIN timer => Typed(timer[t]) /\ (t \notin missed => Armed(timer[t]))
    BY DEF TimerInv
  <2> HIDE DEF t
  <2> QED BY <2>1, <2>2, UnlinkStep
<1>4. CASE TimerLoad(c)
  <2> DEFINE t == op[c]
             y == [timer[t] EXCEPT !.tics_now = timer[t].tics]
  <2>1. timer' = [timer EXCEPT ![t] = y] /\ missed' = missed
    BY <1>4 DEF TimerLoad
  <2>2. t \in DOMAIN timer => Typed(y) /\ (t \notin missed => Armed(y))
    BY DEF TimerInv, Typed, Armed, Fields
  <2> HIDE DEF t, y
  <2> QED BY <2>1, <2>2, OneTimer
<1>5. CASE TimerActivate(c)
  <2> DEFINE t == op[c]
             y == [timer[t] EXCEPT !.active = TRUE]
  <2>1. /\ timer' = [timer EXCEPT ![t] = y]
        /\ missed' = IF timer[t].tics_now = 0 THEN missed \cup {t} ELSE missed
    BY <1>5 DEF TimerActivate
  <2>2. t \in DOMAIN timer => Typed(y) /\ (t \notin missed' => Armed(y))
    BY <2>1 DEF TimerInv, Typed, Armed, Fields
  <2>3. missed \subseteq missed'
    BY <2>1
  <2> HIDE DEF t, y
  <2> QED BY <2>1, <2>2, <2>3, OneTimer
<1>6. CASE Link(c) /\ ~UNCHANGED <<timer, missed>>
  <2> DEFINE a == op[c].got[1]
             k == op[c].with
  <2>1. op[c].call = "timer_new" /\ at[c] = "make" /\ TimerLink(a, k)
    BY <1>6 DEF Link, timerVars
  <2>2. k \in TimerArgs
    BY <2>1 DEF TimerInv, CallTyped
  <2> HIDE DEF a, k
  <2>3. /\ missed' = missed
        /\ timer' = [t \in DOMAIN timer \cup {a} |->
                       IF t = a THEN TimerT(a, k, timers) ELSE timer[t]]
    BY <2>1 DEF TimerLink
  <2>4. Typed(TimerT(a, k, timers)) /\ Armed(TimerT(a, k, timers))
    BY <2>2, NewTimer
  <2>5. DOMAIN timer' = DOMAIN timer \cup {a}
    BY <2>3
  <2>6. ASSUME NEW u \in DOMAIN timer'
        PROVE  Typed(timer'[u]) /\ (u \notin missed' => Armed(timer'[u]))
    <3>1. CASE u = a
      BY <2>3, <2>4, <3>1
    <3>2. CASE u # a
      <4>1. u \in DOMAIN timer /\ timer'[u] = timer[u]
        BY <2>3, <2>5, <3>2
      <4> QED BY <4>1, <2>3 DEF TimerInv
    <3> QED BY <3>1, <3>2
  <2> QED BY <2>6
<1> QED
  BY <1>1, <1>2, <1>3, <1>4, <1>5, <1>6
  DEF Starts, Continues, Create, Begin, IntConfig, OnTimer, TimerStart, TimerDelete,
      GiveUp, Take, TakeEnd, timerVars

(* A timer_new() under way holds arguments of timer_new().                 *)
LEMMA CallsTyped ==
  ASSUME ObjectsAssumption, TimerInv, [Next]_vars
  PROVE  /\ DOMAIN at' = Callers /\ DOMAIN op' = Callers
         /\ \A c \in Callers : CallTyped(c)'
<1>1. CASE UNCHANGED callVars
  BY <1>1 DEF callVars, TimerInv, CallTyped
<1>2. ASSUME NEW c \in Callers, NEW call, NEW todo, NEW with, Begin(c, call, todo, with),
             call = "timer_new" => with \in TimerArgs
      PROVE  /\ DOMAIN at' = Callers /\ DOMAIN op' = Callers
             /\ \A d \in Callers : CallTyped(d)'
  BY <1>2 DEF Begin, TimerInv, CallTyped
<1>3. ASSUME NEW c \in Callers, NEW x, NEW y, at' = [at EXCEPT ![c] = x], x # "make",
             op' = op \/ op' = [op EXCEPT ![c] = y]
      PROVE  /\ DOMAIN at' = Callers /\ DOMAIN op' = Callers
             /\ \A d \in Callers : CallTyped(d)'
  BY <1>3 DEF TimerInv, CallTyped
<1>4. ASSUME NEW c \in Callers, NEW loc, Got(c, loc), at' = at
      PROVE  /\ DOMAIN at' = Callers /\ DOMAIN op' = Callers
             /\ \A d \in Callers : CallTyped(d)'
  BY <1>4 DEF Got, TimerInv, CallTyped
<1>5. ASSUME NEW c \in Callers, Create(c)
      PROVE  /\ DOMAIN at' = Callers /\ DOMAIN op' = Callers
             /\ \A d \in Callers : CallTyped(d)'
  <2>1. TimerKinds \subseteq TimerArgs
    BY DEF ObjectsAssumption
  <2> QED BY <1>2, <1>5, <2>1 DEF Create
<1>6. ASSUME NEW c \in Callers, NEW t, TimerStart(c, t) \/ TimerDelete(c, t)
      PROVE  /\ DOMAIN at' = Callers /\ DOMAIN op' = Callers
             /\ \A d \in Callers : CallTyped(d)'
  <2>1. PICK x \in {"load", "activate", "unlink"} :
           at' = [at EXCEPT ![c] = x] /\ op' = [op EXCEPT ![c] = t]
    BY <1>6 DEF TimerStart, TimerDelete
  <2> QED BY <1>3, <2>1
<1>7. ASSUME NEW c \in Callers, Continues(c)
      PROVE  /\ DOMAIN at' = Callers /\ DOMAIN op' = Callers
             /\ \A d \in Callers : CallTyped(d)'
  <2>1. CASE GiveUp(c) \/ Link(c)
    <3>1. at' = [at EXCEPT ![c] = "user"] /\ op' = [op EXCEPT ![c] = NULL]
      BY <2>1 DEF GiveUp, Fails, Link
    <3> QED BY <3>1, <1>3
  <2>2. CASE Take(c)
    BY <2>2, <1>1 DEF Take
  <2>3. CASE TakeEnd(c)
    <3>1. CASE Got(c, req[c].loc) /\ at' = at
      BY <3>1, <1>4
    <3>2. CASE Fails(c)
      BY <3>2, <1>3 DEF Fails
    <3> QED BY <2>3, <3>1, <3>2 DEF TakeEnd
  <2>4. CASE TimerUnlink(c) \/ TimerActivate(c)
    <3>1. at' = [at EXCEPT ![c] = "user"] /\ op' = op
      BY <2>4 DEF TimerUnlink, TimerActivate
    <3> QED BY <3>1, <1>3
  <2>5. CASE TimerLoad(c)
    <3>1. at' = [at EXCEPT ![c] = "activate"] /\ op' = op
      BY <2>5 DEF TimerLoad
    <3> QED BY <3>1, <1>3
  <2> QED BY <1>7, <2>1, <2>2, <2>3, <2>4, <2>5 DEF Continues
<1>8. CASE Tic
  BY <1>1, <1>8 DEF Tic, TicBegin, TicStep, TicEnd
<1>9. ASSUME NEW c \in Callers, Starts(c)
      PROVE  /\ DOMAIN at' = Callers /\ DOMAIN op' = Callers
             /\ \A d \in Callers : CallTyped(d)'
  BY <1>1, <1>5, <1>6, <1>9 DEF Starts, IntConfig, OnTimer, TimerStop
<1> QED BY <1>1, <1>7, <1>8, <1>9 DEF Next, vars

(* Timers stay typed, and armed unless they were missed.                   *)
LEMMA TimerInvariant ==
  ASSUME HeapAssumption, ObjectsAssumption
  PROVE  Spec => []TimerInv
<1>1. Init => TimerInv
  BY TimersAtStart
<1>2. TimerInv /\ [Next]_vars => TimerInv'
  <2> SUFFICES ASSUME TimerInv, [Next]_vars PROVE TimerInv'
    OBVIOUS
  <2>1. CASE UNCHANGED <<timer, missed>>
    BY <2>1, CallsTyped DEF TimerInv
  <2>2. CASE TicStep
    BY <2>2, CallsTyped, TicKeeps DEF TimerInv
  <2>3. CASE \E c \in Callers : Starts(c) \/ Continues(c)
    BY <2>3, CallsTyped, CallKeeps DEF TimerInv
  <2> QED BY <2>1, <2>2, <2>3 DEF Next, Tic, TicBegin, TicEnd, vars, timerVars
<1> QED BY <1>1, <1>2, PTL DEF Spec

(* A timer that runs has between 1 tic and all of its tics left, whatever  *)
(* the tasks do and whenever the clock ticks, unless it was started as it  *)
(* expired.                                                                *)
THEOREM TimersArmed ==
  ASSUME HeapAssumption, ObjectsAssumption
  PROVE  Spec => []TimerArmed
<1>1. TimerInv => TimerArmed
  <2> SUFFICES ASSUME TimerInv, NEW t \in DOMAIN timer \ missed, timer[t].active
               PROVE  timer[t].tics_now \in 1..timer[t].tics
    BY DEF TimerArmed
  <2> DEFINE r == timer[t]
  <2>1. Typed(r) /\ Armed(r)
    BY DEF TimerInv
  <2> HIDE DEF r
  <2>2. r.active
    BY DEF r
  <2>3. r.tics_now \in 1..r.tics
    BY <2>1, <2>2 DEF Typed, Armed
  <2> QED BY <2>3 DEF r
<1> QED BY <1>1, TimerInvariant, PTL

-----------------------------------------------------------------------------
(* The pointers of the list of timers, and of its walk, lead to timers.    *)
Pointer  == {NULL} \cup DOMAIN timer
Pointers == /\ walk \in Pointer /\ timers \in Pointer /\ missed \subseteq DOMAIN timer
            /\ \A t \in DOMAIN timer : timer[t].next \in Pointer
LINKS    == /\ DOMAIN timer' = DOMAIN timer /\ timers' \in Pointer
            /\ \A t \in DOMAIN timer : timer'[t].next \in Pointer

(* A step that changes one timer and takes its link from where there was   *)
(* one.                                                                    *)
LEMMA OneLink ==
  ASSUME Pointers, NEW t, NEW r, timer' = [timer EXCEPT ![t] = r],
         timers' \in Pointer, t \in DOMAIN timer => r.next \in Pointer
  PROVE  LINKS
<1>1. DOMAIN timer' = DOMAIN timer
  OBVIOUS
<1>2. \A u \in DOMAIN timer : timer'[u] = IF u = t THEN r ELSE timer[u]
  OBVIOUS
<1> QED BY <1>1, <1>2 DEF Pointers, LINKS

(* timer_delete() moves links from timer to timer.                         *)
LEMMA UnlinkLinks ==
  ASSUME Pointers, TimerInv, NEW t \in DOMAIN timer, NEW r, Unlink(t, r),
         Typed(r), r.next \in Pointer
  PROVE  LINKS
<1> DEFINE prev == PrevOf(t)
           gone == [r EXCEPT !.id = 0]
           link == [timer[prev] EXCEPT !.next = r.next]
<1>1. gone.next = r.next
  BY DEF Typed, Fields
<1>2. CASE timer' = [timer EXCEPT ![t] = gone] /\ timers' \in Pointer
  <2> HIDE DEF gone
  <2> QED BY <1>1, <1>2, OneLink
<1>3. CASE /\ timer' = [timer EXCEPT ![prev].next = r.next, ![t] = gone]
           /\ timers' \in Pointer
  <2>1. prev \in DOMAIN timer => link.next = r.next
    BY DEF TimerInv, Typed, Fields
  <2>2. DOMAIN timer' = DOMAIN timer
    BY <1>3
  <2>3. \A u \in DOMAIN timer :
           timer'[u] = IF u = t THEN gone ELSE IF u = prev THEN link ELSE timer[u]
    BY <1>3
  <2> HIDE DEF gone, link, prev
  <2> QED BY <1>1, <1>3, <2>1, <2>2, <2>3 DEF Pointers, LINKS
<1> QED BY <1>2, <1>3 DEF Unlink, Pointers

(* Every other change to a timer leaves its link.                          *)
LEMMA SameNext ==
  ASSUME NEW r, Typed(r), NEW x, NEW y
  PROVE  /\ [r EXCEPT !.tics_now = x].next = r.next
         /\ [r EXCEPT !.active = y].next = r.next
         /\ [r EXCEPT !.tics_now = x, !.active = y].next = r.next
         /\ Expired(r).next = r.next
BY DEF Typed, Fields, Expired

(* The clock's handler keeps the pointers.                                 *)
LEMMA TicLinks ==
  ASSUME HeapAssumption, TimerInv, Pointers, TicStep
  PROVE  Pointers'
<1> DEFINE r == timer[walk]
           k == (r.tics_now - 1) % Wrap
<1>1. walk \in DOMAIN timer /\ Typed(r) /\ r.next \in Pointer /\ walk' = r.next
  BY DEF TicStep, TimerInv, Pointers, Pointer
<1>2. ASSUME LINKS, missed' \subseteq missed \cup {walk}
      PROVE  Pointers'
  BY <1>1, <1>2 DEF LINKS, Pointers, Pointer
<1>3. CASE UNCHANGED <<timer, timers, missed>>
  BY <1>2, <1>3 DEF LINKS, Pointers
<1>4. CASE /\ timer' = [timer EXCEPT ![walk].tics_now = k]
           /\ UNCHANGED <<timers, missed>>
  <2> DEFINE down == [r EXCEPT !.tics_now = k]
  <2>1. timer' = [timer EXCEPT ![walk] = down]
    BY <1>4
  <2>2. down.next = r.next
    BY <1>1, SameNext
  <2> HIDE DEF down
  <2> QED BY <1>1, <1>2, <1>4, <2>1, <2>2, OneLink DEF Pointers
<1>5. CASE r.active /\ Call(walk, Expired(r))
  <2> DEFINE x == Expired(r)
  <2>1. Typed(x) /\ x.next = r.next
    <3> HIDE DEF r
    <3> QED BY <1>1, <1>5, SameNext DEF Typed, Expired, Fields
  <2> HIDE DEF x, k
  <2>2. Call(walk, x)
    BY <1>5 DEF x
  <2>3. CASE timer' = [timer EXCEPT ![walk] = x] /\ UNCHANGED <<timers, missed>>
    BY <1>1, <1>2, <2>1, <2>3, OneLink DEF Pointers
  <2>4. CASE /\ timer' = [timer EXCEPT ![walk] = [x EXCEPT
                     !.tics_now = IF @ = 0 THEN x.tics ELSE @, !.active = TRUE]]
             /\ missed' = IF x.tics_now = 0 /\ x.tics = 0 THEN missed \cup {walk} ELSE missed
             /\ UNCHANGED timers
    <3> DEFINE y == [x EXCEPT !.tics_now = IF @ = 0 THEN x.tics ELSE @, !.active = TRUE]
    <3>1. y.next = x.next
      BY <2>1 DEF Typed, Fields
    <3>2. timer' = [timer EXCEPT ![walk] = y]
      BY <2>4
    <3>3. missed' \subseteq missed \cup {walk}
      BY <2>4
    <3> HIDE DEF y
    <3>4. timers' \in Pointer
      BY <2>4 DEF Pointers
    <3>5. y.next \in Pointer
      BY <1>1, <2>1, <3>1
    <3>6. LINKS
      BY <3>2, <3>4, <3>5, OneLink
    <3> QED BY <1>2, <3>3, <3>6
  <2>5. CASE /\ timer' = [timer EXCEPT ![walk] = [x EXCEPT !.active = FALSE]]
             /\ UNCHANGED <<timers, missed>>
    <3> DEFINE y == [x EXCEPT !.active = FALSE]
    <3>1. y.next = x.next
      BY <2>1, SameNext
    <3>2. timer' = [timer EXCEPT ![walk] = y]
      BY <2>5
    <3> HIDE DEF y
    <3> QED BY <1>1, <1>2, <2>1, <2>5, <3>1, <3>2, OneLink DEF Pointers
  <2>6. CASE Unlink(walk, x) /\ UNCHANGED missed
    BY <1>1, <1>2, <2>1, <2>6, UnlinkLinks
  <2> QED BY <2>2, <2>3, <2>4, <2>5, <2>6 DEF Call
<1> QED BY <1>3, <1>4, <1>5 DEF TicStep

-----------------------------------------------------------------------------
(* The objects.  What a call under way has taken so far are blocks of the  *)
(* kinds and sizes that it takes, in their order, and what it has read in  *)
(* a malloc() is for the next one.                                         *)
Parts == [use : Uses, len : Nat]

(* Is full what the call with the arguments and locals o takes?            *)
PlanOf(o, full) ==
  \/ o.call = "malloc" /\ \E n \in MallocSizes : full = <<Part("user", n)>>
  \/ o.call = "sem_new" /\ full = <<Part("sem", SizeOf["sem"])>>
  \/ /\ o.call = "timer_new"
     /\ full = <<Part("timer", SizeOf["timer"])>>
  \/ /\ o.call = "task_new" /\ o.with = 0
     /\ full = <<Part("task", SizeOf["task"]), Part("box", SizeOf["box"])>>
  \/ /\ o.call = "task_new" /\ o.with # 0
     /\ full = <<Part("task", SizeOf["task"]), Part("box", SizeOf["box"]), Part("buf", o.with)>>

Places == Addresses \ {NULL}
Taken(o, full) ==
  /\ o.got \in Seq(Places) /\ Len(o.got) <= Len(full)
  /\ o.todo = SubSeq(full, Len(o.got) + 1, Len(full))
  /\ \A i \in 1..Len(o.got) : Holds(o.got[i], full[i].use, full[i].len)

MakeOK(c) == at[c] = "make" =>
               \E full \in Seq(Parts) : PlanOf(op[c], full) /\ Taken(op[c], full)
AskOK(c)  == Under(c) =>
               /\ Making(c) /\ req[c].loc \in Addresses
               /\ req[c].use = Head(op[c].todo).use /\ req[c].len = Head(op[c].todo).len
TimeOK(c) == at[c] \in {"unlink", "load", "activate"} => op[c] \in DOMAIN timer

CallsOK == \A c \in Callers : MakeOK(c) /\ AskOK(c) /\ TimeOK(c)

(* Blocks are never taken back.                                            *)
LEMMA HoldsStay ==
  ASSUME blocks \in Seq(Blocks), NEW b \in Blocks, blocks' = Append(blocks, b),
         NEW a, NEW use, NEW n, Holds(a, use, n)
  PROVE  Holds(a, use, n)'
<1>1. PICK i \in DOMAIN blocks : blocks[i].loc = a /\ blocks[i].use = use /\ blocks[i].len >= n
  BY DEF Holds
<1>2. i \in DOMAIN blocks' /\ blocks'[i] = blocks[i]
  OBVIOUS
<1> QED BY <1>1, <1>2 DEF Holds

(* A block that was just handed out is held.                               *)
LEMMA HoldsNew ==
  ASSUME blocks \in Seq(Blocks), NEW b \in Blocks, blocks' = Append(blocks, b)
  PROVE  Holds(b.loc, b.use, b.len)'
<1>1. /\ Len(blocks) + 1 \in DOMAIN blocks' /\ blocks'[Len(blocks) + 1] = b
      /\ b.len >= b.len
  BY DEF Blocks
<1> QED BY <1>1 DEF Holds

(* What a task does to timers, other than making them.                     *)
Same == /\ Pointers' /\ DOMAIN timer' = DOMAIN timer
        /\ handler' \in BOOLEAN /\ doubled' \in BOOLEAN

(* The type invariant says of the timers what these lemmas need.           *)
LEMMA TypedPointers ==
  TypeOK => Pointers /\ handler \in BOOLEAN /\ doubled \in BOOLEAN
BY DEF TypeOK, Pointers, Pointer

(* A step that leaves the timers alone keeps them.                         *)
LEMMA TimersSame ==
  ASSUME TypeOK, UNCHANGED timerVars
  PROVE  Same
BY DEF TypeOK, timerVars, Same, Pointers, Pointer

(* The clock makes no timers and leads their pointers nowhere else.        *)
LEMMA TicTimers ==
  ASSUME HeapAssumption, TimerInv, TypeOK, Tic
  PROVE  Same
<1>0. Pointers /\ handler \in BOOLEAN /\ doubled \in BOOLEAN
  BY TypedPointers
<1>1. CASE TicBegin
  BY <1>0, <1>1 DEF TicBegin, Same, Pointers, Pointer
<1>2. CASE TicEnd
  BY <1>0, <1>2 DEF TicEnd, Same, Pointers, Pointer
<1>3. CASE TicStep
  <2>1. Pointers'
    BY <1>0, <1>3, TicLinks
  <2>2. DOMAIN timer' = DOMAIN timer /\ doubled' \in BOOLEAN
    BY <1>0, <1>3 DEF TicStep, Call, Unlink
  <2>3. handler' \in BOOLEAN
    BY <1>0, <1>3 DEF TicStep
  <2> QED BY <2>1, <2>2, <2>3 DEF Same
<1> QED BY <1>1, <1>2, <1>3 DEF Tic

(* Nor do the calls of the tasks on a timer.                               *)
LEMMA CallTimers ==
  ASSUME TimerInv, TypeOK, NEW c \in Callers, TimeOK(c),
         \/ \E t \in DOMAIN timer : TimerStop(c, t)
         \/ TimerUnlink(c) \/ TimerLoad(c) \/ TimerActivate(c)
  PROVE  Same
<1>0. Pointers /\ handler \in BOOLEAN /\ doubled \in BOOLEAN
  BY TypedPointers
<1>1. ASSUME LINKS, UNCHANGED <<handler, walk>>, doubled' \in BOOLEAN,
             NEW t \in DOMAIN timer, missed' \subseteq missed \cup {t}
      PROVE  Same
  BY <1>0, <1>1 DEF LINKS, Pointers, Pointer, Same
<1>2. ASSUME NEW t \in DOMAIN timer, TimerStop(c, t)
      PROVE  Same
  <2> DEFINE y == [timer[t] EXCEPT !.active = FALSE]
  <2>1. timer' = [timer EXCEPT ![t] = y] /\ UNCHANGED <<timers, handler, walk, doubled, missed>>
    BY <1>2 DEF TimerStop
  <2>2. y.next \in Pointer
    BY <1>0, SameNext DEF TimerInv, Pointers
  <2> HIDE DEF y
  <2> QED BY <1>0, <1>1, <2>1, <2>2, OneLink DEF Pointers
<1>3. CASE TimerUnlink(c)
  <2> DEFINE t == op[c]
  <2>1. /\ Unlink(t, timer[t]) /\ t \in DOMAIN timer
        /\ UNCHANGED <<handler, walk, missed>>
    BY <1>3 DEF TimerUnlink, TimeOK
  <2>2. Typed(timer[t]) /\ timer[t].next \in Pointer
    BY <1>0, <2>1 DEF TimerInv, Pointers
  <2> HIDE DEF t
  <2>3. LINKS
    BY <1>0, <2>1, <2>2, UnlinkLinks
  <2>4. doubled' \in BOOLEAN
    BY <1>0, <2>1 DEF Unlink
  <2> QED BY <1>1, <2>1, <2>3, <2>4
<1>4. CASE TimerLoad(c)
  <2> DEFINE t == op[c]
             y == [timer[t] EXCEPT !.tics_now = timer[t].tics]
  <2>1. /\ timer' = [timer EXCEPT ![t] = y] /\ t \in DOMAIN timer
        /\ UNCHANGED <<timers, handler, walk, doubled, missed>>
    BY <1>4 DEF TimerLoad, TimeOK
  <2>2. y.next \in Pointer
    BY <1>0, <2>1, SameNext DEF TimerInv, Pointers
  <2> HIDE DEF t, y
  <2> QED BY <1>0, <1>1, <2>1, <2>2, OneLink DEF Pointers
<1>5. CASE TimerActivate(c)
  <2> DEFINE t == op[c]
             y == [timer[t] EXCEPT !.active = TRUE]
  <2>1. /\ timer' = [timer EXCEPT ![t] = y] /\ t \in DOMAIN timer
        /\ UNCHANGED <<timers, handler, walk, doubled>>
        /\ missed' \subseteq missed \cup {t}
    BY <1>5 DEF TimerActivate, TimeOK
  <2>2. y.next \in Pointer
    BY <1>0, <2>1, SameNext DEF TimerInv, Pointers
  <2> HIDE DEF t, y
  <2> QED BY <1>0, <1>1, <2>1, <2>2, OneLink DEF Pointers
<1> QED BY <1>2, <1>3, <1>4, <1>5

(* Calls under way that a step does not touch stay as they are.            *)
LEMMA CallStays ==
  ASSUME NEW c \in Callers, MakeOK(c) /\ AskOK(c) /\ TimeOK(c),
         at'[c] = at[c], op'[c] = op[c], req'[c] = req[c],
         DOMAIN timer \subseteq DOMAIN timer',
         \A a, use, n : Holds(a, use, n) => Holds(a, use, n)'
  PROVE  MakeOK(c)' /\ AskOK(c)' /\ TimeOK(c)'
BY DEF MakeOK, AskOK, TimeOK, Making, Taken, Under

(* The parts that are still to be taken are the end of the plan.           *)
LEMMA RestOfPlan ==
  ASSUME NEW full \in Seq(Parts), NEW k \in Nat, k <= Len(full),
         NEW rest, rest = SubSeq(full, k + 1, Len(full))
  PROVE  /\ rest = <<>> => k = Len(full)
         /\ rest # <<>> => /\ k < Len(full) /\ Head(rest) = full[k + 1]
                           /\ Tail(rest) = SubSeq(full, k + 2, Len(full))
<1>1. Len(full) \in Nat /\ \A i \in (k + 1)..Len(full) : full[i] \in Parts
  BY LenProperties, ElementOfSeq
<1>2. Len(rest) = IF k + 1 <= Len(full) THEN Len(full) - (k + 1) + 1 ELSE 0
  BY <1>1, SubSeqProperties
<1>3. rest = <<>> => k = Len(full)
  <2>1. Len(<<>>) = 0
    OBVIOUS
  <2>2. rest = <<>> => Len(rest) = 0
    BY <2>1
  <2> HIDE DEF Parts
  <2>3. Len(rest) = 0 => ~(k + 1 <= Len(full))
    BY <1>1, <1>2
  <2> QED BY <1>1, <2>2, <2>3
<1>4. ASSUME rest # <<>>
      PROVE  /\ k < Len(full) /\ Head(rest) = full[k + 1]
             /\ Tail(rest) = SubSeq(full, k + 2, Len(full))
  <2>1. k < Len(full)
    BY <1>1, <1>4, SubSeqEmpty
  <2>2. k + 1 \in 1..Len(full) /\ Len(full) \in (k + 1)..Len(full) /\ (k + 1) + 1 = k + 2
    BY <1>1, <2>1
  <2> QED BY <2>1, <2>2, HeadTailOfSubSeq
<1> QED BY <1>3, <1>4

(* A sequence of two and one more, taken apart and put together.           *)
LEMMA PairAndOne ==
  ASSUME NEW a, NEW b, NEW d
  PROVE  <<a, b>> \o <<d>> = <<a, b, d>>
<1> DEFINE S == {a, b, d}
           x == <<a, b>> \o <<d>>
           y == <<a, b, d>>
<1>1. <<a, b>> \in Seq(S) /\ <<d>> \in Seq(S) /\ y \in Seq(S)
  OBVIOUS
<1>2. /\ x \in Seq(S) /\ Len(x) = 3
      /\ x[1] = a /\ x[2] = b /\ x[3] = d
  <2>1. /\ x \in Seq(S) /\ Len(x) = Len(<<a, b>>) + Len(<<d>>)
        /\ \A i \in 1..Len(<<a, b>>) + Len(<<d>>) :
              x[i] = IF i <= Len(<<a, b>>) THEN <<a, b>>[i] ELSE <<d>>[i - Len(<<a, b>>)]
    BY <1>1, ConcatProperties
  <2> HIDE DEF x, S
  <2> QED BY <2>1
<1>3. Len(y) = 3 /\ y[1] = a /\ y[2] = b /\ y[3] = d
  OBVIOUS
<1> HIDE DEF x, y, S
<1>4. Len(x) = Len(y) /\ \A i \in 1..Len(x) : x[i] = y[i]
  BY <1>2, <1>3
<1>5. x = y
  BY <1>1, <1>2, <1>4, SeqEqual
<1> QED BY <1>5 DEF x, y

(* A call begins with nothing taken of what it is going to take.           *)
LEMMA CallBegins ==
  ASSUME ObjectsAssumption, TimerInv, NEW c \in Callers, CallsOK, Create(c)
  PROVE  MakeOK(c)' /\ AskOK(c)' /\ TimeOK(c)'
<1> USE DEF Parts, Part, Uses
<1>0. /\ SizeOf["sem"] \in Nat /\ SizeOf["timer"] \in Nat
      /\ SizeOf["task"] \in Nat /\ SizeOf["box"] \in Nat
      /\ MallocSizes \subseteq Nat /\ BufSizes \subseteq Nat
  BY DEF ObjectsAssumption, Kinds
<1>1. ASSUME NEW call, NEW with, NEW full \in Seq(Parts), Begin(c, call, full, with),
             PlanOf([call |-> call, todo |-> full, with |-> with, got |-> <<>>], full)
      PROVE  MakeOK(c)' /\ AskOK(c)' /\ TimeOK(c)'
  <2> DEFINE o == [call |-> call, todo |-> full, with |-> with, got |-> <<>>]
  <2>1. at'[c] = "make" /\ op'[c] = o /\ req' = req /\ at[c] = "user"
    BY <1>1 DEF Begin, TimerInv, memVars
  <2>2. ~Under(c)
    BY <2>1 DEF CallsOK, AskOK, Making
  <2>3. full = SubSeq(full, 1, Len(full))
    BY SubSeqFull
  <2>4. Taken(o, full)'
    BY <2>3 DEF Taken
  <2>5. PlanOf(o, full)
    BY <1>1
  <2> HIDE DEF o
  <2>6. MakeOK(c)'
    BY <2>1, <2>4, <2>5 DEF MakeOK, PlanOf
  <2> QED BY <2>1, <2>2, <2>6 DEF AskOK, TimeOK, Under
<1>2. ASSUME NEW n \in MallocSizes, Begin(c, "malloc", <<Part("user", n)>>, NULL)
      PROVE  MakeOK(c)' /\ AskOK(c)' /\ TimeOK(c)'
  <2>1. <<Part("user", n)>> \in Seq(Parts)
    BY <1>0
  <2>2. PlanOf([call |-> "malloc", todo |-> <<Part("user", n)>>, with |-> NULL,
                got |-> <<>>], <<Part("user", n)>>)
    BY DEF PlanOf
  <2> QED BY <1>1, <1>2, <2>1, <2>2
<1>3. CASE Begin(c, "sem_new", <<Part("sem", SizeOf["sem"])>>, NULL)
  <2>1. <<Part("sem", SizeOf["sem"])>> \in Seq(Parts)
    BY <1>0
  <2> QED BY <1>1, <1>3, <2>1 DEF PlanOf
<1>4. ASSUME NEW k \in TimerKinds,
             Begin(c, "timer_new", <<Part("timer", SizeOf["timer"])>>, k)
      PROVE  MakeOK(c)' /\ AskOK(c)' /\ TimeOK(c)'
  <2>1. <<Part("timer", SizeOf["timer"])>> \in Seq(Parts)
    BY <1>0
  <2> QED BY <1>1, <1>4, <2>1 DEF PlanOf
<1>5. ASSUME NEW n \in BufSizes,
             Begin(c, "task_new",
                   <<Part("task", SizeOf["task"]), Part("box", SizeOf["box"])>> \o
                   (IF n = 0 THEN <<>> ELSE <<Part("buf", n)>>), n)
      PROVE  MakeOK(c)' /\ AskOK(c)' /\ TimeOK(c)'
  <2>1. CASE n = 0
    <3> DEFINE full == <<Part("task", SizeOf["task"]), Part("box", SizeOf["box"])>>
    <3>1. full \in Seq(Parts) /\ full \o <<>> = full
      BY <1>0
    <3>2. Begin(c, "task_new", full, n)
      BY <1>5, <2>1, <3>1
    <3> QED BY <1>1, <2>1, <3>1, <3>2 DEF PlanOf
  <2>2. CASE n # 0
    <3> DEFINE full == <<Part("task", SizeOf["task"]), Part("box", SizeOf["box"]),
                         Part("buf", n)>>
    <3>1. /\ full \in Seq(Parts)
          /\ <<Part("task", SizeOf["task"]), Part("box", SizeOf["box"])>> \o <<Part("buf", n)>>
               = full
      BY <1>0, PairAndOne
    <3>2. Begin(c, "task_new", full, n)
      BY <1>5, <2>2, <3>1
    <3> QED BY <1>1, <2>2, <3>1, <3>2 DEF PlanOf
  <2> QED BY <2>1, <2>2
<1> QED BY <1>2, <1>3, <1>4, <1>5 DEF Create

(* A malloc() reads for the next part, ...                                 *)
LEMMA CallAsks ==
  ASSUME HeapAssumption, HeapInv, TypeOK, NEW c \in Callers, MakeOK(c), AskOK(c), Take(c)
  PROVE  MakeOK(c)' /\ AskOK(c)' /\ TimeOK(c)'
<1>1. at[c] = "make" /\ op[c].todo # <<>> /\ UNCHANGED <<at, op, timer, blocks>>
  BY DEF Take, Making, MallocCheck, MallocRead, MallocMove, callVars, timerVars
<1>2. /\ req'[c].use = Head(op[c].todo).use /\ req'[c].len = Head(op[c].todo).len
      /\ req'[c].loc \in Addresses
  <2>0. req \in [Callers -> Requests] /\ mem_free_loc \in Addresses /\ NULL \in Addresses
    BY DEF HeapInv, HeapType, TypeOK, NULL, Addresses, HeapAssumption, W
  <2>1. CASE MallocCheck(c, Head(op[c].todo).len, Head(op[c].todo).use)
    BY <2>0, <2>1 DEF MallocCheck
  <2>2. CASE MallocRead(c)
    BY <2>0, <2>2 DEF MallocRead, AskOK, Under, Requests
  <2>3. CASE MallocMove(c)
    BY <2>0, <2>3 DEF MallocMove, AskOK, Under, Requests
  <2> QED BY <2>1, <2>2, <2>3 DEF Take
<1>3. MakeOK(c)'
  <2>1. PICK full \in Seq(Parts) : PlanOf(op[c], full) /\ Taken(op[c], full)
    BY <1>1 DEF MakeOK
  <2>2. PlanOf(op[c], full)' /\ Taken(op[c], full)'
    BY <1>1, <2>1 DEF PlanOf, Taken, Holds
  <2> QED BY <2>2 DEF MakeOK
<1> QED BY <1>1, <1>2, <1>3 DEF AskOK, TimeOK, Making

(* ... and takes it.                                                       *)
LEMMA CallTakes ==
  ASSUME HeapInv, TimerInv, NEW c \in Callers, MakeOK(c), AskOK(c), TakeEnd(c)
  PROVE  MakeOK(c)' /\ AskOK(c)' /\ TimeOK(c)'
<1>0. PICK b, o, p : /\ b = [loc |-> req[c].loc, len |-> req[c].len, use |-> req[c].use]
                     /\ o = op[c] /\ p = op'[c]
  OBVIOUS
<1>1. /\ at[c] = "make" /\ o.todo # <<>> /\ Under(c)
      /\ blocks' = Append(blocks, b) /\ b \in Blocks /\ blocks \in Seq(Blocks)
      /\ req'[c].to = "call"
  BY <1>0 DEF TakeEnd, Making, MallocShrink, HeapInv, HeapType, Requests, Blocks, NoReq, Under
<1>2. AskOK(c)'
  BY <1>1 DEF AskOK, Under
<1>3. CASE Fails(c)
  <2>1. at'[c] = "user"
    BY <1>3 DEF Fails, TimerInv
  <2> QED BY <1>2, <2>1 DEF MakeOK, TimeOK
<1>4. CASE req[c].loc # NULL /\ Got(c, req[c].loc) /\ UNCHANGED at
  <2>1. PICK full \in Seq(Parts) : PlanOf(o, full) /\ Taken(o, full)
    BY <1>0, <1>1 DEF MakeOK
  <2> DEFINE k == Len(o.got)
  <2>2. /\ p.call = o.call /\ p.with = o.with
        /\ p.todo = Tail(o.todo) /\ p.got = Append(o.got, b.loc)
    BY <1>0, <1>4 DEF Got, TimerInv
  <2>3. /\ o.got \in Seq(Places) /\ k \in Nat /\ k <= Len(full)
        /\ o.todo = SubSeq(full, k + 1, Len(full))
    BY <2>1 DEF Taken
  <2>4. /\ k < Len(full) /\ Head(o.todo) = full[k + 1]
        /\ Tail(o.todo) = SubSeq(full, k + 2, Len(full))
    BY <1>1, <2>3, RestOfPlan
  <2>5. b.loc \in Places /\ b.use = full[k + 1].use /\ b.len = full[k + 1].len
    BY <1>0, <1>1, <1>4, <2>4 DEF AskOK, Places
  <2>6. Holds(b.loc, b.use, b.len)'
    BY <1>1, HoldsNew
  <2>7. \A i \in 1..k : Holds(o.got[i], full[i].use, full[i].len)'
    <3>1. \A i \in 1..k : Holds(o.got[i], full[i].use, full[i].len)
      BY <2>1 DEF Taken
    <3> QED BY <1>1, <3>1, HoldsStay
  <2>8. /\ p.got \in Seq(Places) /\ Len(p.got) = k + 1
        /\ p.got[k + 1] = b.loc /\ \A i \in 1..k : p.got[i] = o.got[i]
    BY <2>2, <2>3, <2>5
  <2>9. ASSUME NEW i \in 1..Len(p.got)
        PROVE  Holds(p.got[i], full[i].use, full[i].len)'
    <3>1. CASE i \in 1..k
      <4>1. p.got[i] = o.got[i]
        BY <2>8, <3>1
      <4> QED BY <2>7, <3>1, <4>1 DEF Holds
    <3>2. CASE i = k + 1
      <4>1. p.got[i] = b.loc /\ full[i].use = b.use /\ full[i].len = b.len
        BY <2>5, <2>8, <3>2
      <4> QED BY <2>6, <4>1 DEF Holds
    <3> QED BY <2>3, <2>8, <3>1, <3>2
  <2>10. Taken(op[c], full)'
    <3>1. p.todo = SubSeq(full, Len(p.got) + 1, Len(full)) /\ Len(p.got) <= Len(full)
      <4>1. Len(p.got) + 1 = k + 2 /\ k + 1 <= Len(full)
        BY <2>3, <2>4, <2>8, LenProperties
      <4> QED BY <2>2, <2>4, <2>8, <4>1
    <3> QED BY <1>0, <2>8, <2>9, <3>1 DEF Taken
  <2>11. PlanOf(op[c], full)'
    BY <1>0, <2>1, <2>2 DEF PlanOf
  <2> QED BY <1>1, <1>2, <1>4, <2>10, <2>11 DEF MakeOK, TimeOK
<1> QED BY <1>3, <1>4 DEF TakeEnd

(* A call that has all its memory has blocks of the right kinds.           *)
LEMMA CallTaken ==
  ASSUME NEW c \in Callers, MakeOK(c), at[c] = "make", op[c].todo = <<>>
  PROVE  LET o == op[c] IN
         /\ o.call = "sem_new" => o.got[1] \in Places /\ Holds(o.got[1], "sem", SizeOf["sem"])
         /\ o.call = "timer_new" =>
              o.got[1] \in Places /\ Holds(o.got[1], "timer", SizeOf["timer"])
         /\ o.call = "task_new" =>
              /\ Holds(o.got[1], "task", SizeOf["task"])
              /\ Holds(o.got[2], "box", SizeOf["box"])
              /\ o.with # 0 => Len(o.got) = 3 /\ Holds(o.got[3], "buf", o.with)
<1> DEFINE o == op[c]
<1>1. PICK full \in Seq(Parts) : PlanOf(o, full) /\ Taken(o, full)
  BY DEF MakeOK
<1>2. /\ o.got \in Seq(Places) /\ Len(o.got) \in Nat /\ Len(o.got) = Len(full)
      /\ \A i \in 1..Len(full) : Holds(o.got[i], full[i].use, full[i].len)
  <2>1. o.got \in Seq(Places) /\ Len(o.got) \in Nat
    BY <1>1, LenProperties DEF Taken
  <2>2. Len(o.got) = Len(full)
    BY <1>1, <2>1, RestOfPlan DEF Taken
  <2> QED BY <1>1, <2>1, <2>2 DEF Taken
<1> HIDE DEF o
<1>3. ASSUME o.call = "sem_new"
      PROVE  o.got[1] \in Places /\ Holds(o.got[1], "sem", SizeOf["sem"])
  <2>1. Len(full) = 1 /\ full[1] = Part("sem", SizeOf["sem"])
    BY <1>1, <1>3 DEF PlanOf
  <2> QED BY <1>2, <2>1, ElementOfSeq DEF Part
<1>4. ASSUME o.call = "timer_new"
      PROVE  o.got[1] \in Places /\ Holds(o.got[1], "timer", SizeOf["timer"])
  <2>1. Len(full) = 1 /\ full[1] = Part("timer", SizeOf["timer"])
    BY <1>1, <1>4 DEF PlanOf
  <2> QED BY <1>2, <2>1, ElementOfSeq DEF Part
<1>5. ASSUME o.call = "task_new"
      PROVE  /\ Holds(o.got[1], "task", SizeOf["task"])
             /\ Holds(o.got[2], "box", SizeOf["box"])
             /\ o.with # 0 => Len(o.got) = 3 /\ Holds(o.got[3], "buf", o.with)
  <2>1. /\ Len(full) \in {2, 3} /\ full[1] = Part("task", SizeOf["task"])
        /\ full[2] = Part("box", SizeOf["box"])
        /\ o.with # 0 => Len(full) = 3 /\ full[3] = Part("buf", o.with)
    BY <1>1, <1>5 DEF PlanOf
  <2> QED BY <1>2, <2>1 DEF Part
<1> QED BY <1>3, <1>4, <1>5 DEF o

(* Linking an object keeps what is known of all of them.                   *)
LEMMA LinkStep ==
  ASSUME TimerInv, TypeOK, OwnMemory, NEW c \in Callers, MakeOK(c), Link(c)
  PROVE  /\ Pointers' /\ DOMAIN timer \subseteq DOMAIN timer'
         /\ DOMAIN timer' \subseteq Places
         /\ handler' \in BOOLEAN /\ doubled' \in BOOLEAN
         /\ sems' \in Seq(Addresses) /\ OwnMemory'
<1>0. PICK o : o = op[c]
  OBVIOUS
<1>1. /\ at[c] = "make" /\ op[c].todo = <<>>
      /\ blocks' = blocks /\ astray' = astray /\ cleared' = cleared
      /\ IF o.call = "timer_new" THEN TimerLink(o.got[1], o.with)
                                 ELSE UNCHANGED timerVars
      /\ sems' = IF o.call = "sem_new" THEN <<o.got[1]>> \o sems ELSE sems
      /\ tasks' = IF o.call = "task_new"
                  THEN tasks \cup {[tcb |-> o.got[1], box |-> o.got[2], room |-> o.with,
                                    buf |-> IF Len(o.got) = 2 THEN NULL ELSE o.got[3]]}
                  ELSE tasks
  BY <1>0 DEF Link, memVars
<1>2. /\ o.call = "sem_new" => o.got[1] \in Places /\ Holds(o.got[1], "sem", SizeOf["sem"])
      /\ o.call = "timer_new" =>
           o.got[1] \in Places /\ Holds(o.got[1], "timer", SizeOf["timer"])
      /\ o.call = "task_new" =>
           /\ Holds(o.got[1], "task", SizeOf["task"])
           /\ Holds(o.got[2], "box", SizeOf["box"])
           /\ o.with # 0 => Len(o.got) = 3 /\ Holds(o.got[3], "buf", o.with)
  BY <1>0, <1>1, CallTaken
<1>3. \A a, use, n : Holds(a, use, n)' <=> Holds(a, use, n)
  BY <1>1 DEF Holds
<1>4. /\ Pointers /\ handler \in BOOLEAN /\ doubled \in BOOLEAN
      /\ DOMAIN timer \subseteq Places /\ sems \in Seq(Addresses)
  BY TypedPointers DEF TypeOK, Places
<1>5. /\ Pointers' /\ DOMAIN timer \subseteq DOMAIN timer'
      /\ DOMAIN timer' \subseteq Places /\ handler' \in BOOLEAN /\ doubled' \in BOOLEAN
      /\ \A a \in DOMAIN timer' : Holds(a, "timer", SizeOf["timer"])
  <2>1. CASE o.call # "timer_new"
    BY <1>1, <1>4, <2>1 DEF timerVars, Pointers, Pointer, OwnMemory
  <2>2. CASE o.call = "timer_new"
    <3> DEFINE a == o.got[1]
    <3>1. /\ timer' = [t \in DOMAIN timer \cup {a} |->
                         IF t = a THEN TimerT(a, o.with, timers) ELSE timer[t]]
          /\ timers' = a /\ UNCHANGED <<handler, walk, doubled, missed>>
      BY <1>1, <2>2 DEF TimerLink
    <3>2. a \in Places /\ Holds(a, "timer", SizeOf["timer"])
      BY <1>2, <2>2
    <3> HIDE DEF a
    <3>3. DOMAIN timer' = DOMAIN timer \cup {a}
      BY <3>1
    <3>4. TimerT(a, o.with, timers).next = timers
      BY DEF TimerT
    <3>5. \A t \in DOMAIN timer' : timer'[t].next \in {NULL} \cup DOMAIN timer'
      BY <1>4, <3>1, <3>3, <3>4 DEF Pointers, Pointer
    <3> QED BY <1>4, <3>1, <3>2, <3>3, <3>5 DEF Pointers, Pointer, OwnMemory
  <2> QED BY <2>1, <2>2
<1>6. /\ sems' \in Seq(Addresses)
      /\ ~astray => \A i \in DOMAIN sems' : Holds(sems'[i], "sem", SizeOf["sem"])
  <2>1. CASE o.call # "sem_new"
    BY <1>1, <1>4, <2>1 DEF OwnMemory
  <2>2. CASE o.call = "sem_new"
    <3>1. <<o.got[1]>> \in Seq(Addresses) /\ sems' = <<o.got[1]>> \o sems
      BY <1>1, <1>2, <2>2 DEF Places
    <3>2. /\ sems' \in Seq(Addresses) /\ DOMAIN sems' = 1..(1 + Len(sems))
          /\ \A i \in 1..(1 + Len(sems)) :
                sems'[i] = IF i <= 1 THEN o.got[1] ELSE sems[i - 1]
      <4>1. /\ sems' \in Seq(Addresses) /\ Len(sems') = Len(<<o.got[1]>>) + Len(sems)
            /\ \A i \in 1..Len(<<o.got[1]>>) + Len(sems) :
                  sems'[i] = IF i <= Len(<<o.got[1]>>) THEN <<o.got[1]>>[i]
                             ELSE sems[i - Len(<<o.got[1]>>)]
        BY <1>4, <3>1, ConcatProperties
      <4> QED BY <1>4, <4>1, LenProperties
    <3>3. \A i \in 1..(1 + Len(sems)) : i <= 1 \/ i - 1 \in DOMAIN sems
      BY <1>4, LenProperties
    <3> QED BY <1>2, <2>2, <3>2, <3>3 DEF OwnMemory
  <2> QED BY <2>1, <2>2
<1>7. \A t \in tasks' : /\ Holds(t.tcb, "task", SizeOf["task"])
                        /\ Holds(t.box, "box", SizeOf["box"])
                        /\ t.room # 0 => Holds(t.buf, "buf", t.room)
  BY <1>1, <1>2 DEF OwnMemory
<1>8. \A a \in cleared' \ {NULL} : Holds(a, "box", SizeOf["box"])
  BY <1>1 DEF OwnMemory
<1> QED BY <1>1, <1>3, <1>5, <1>6, <1>7, <1>8 DEF OwnMemory

(* A call that fails clears a box that it has, or the one that it lacks.   *)
LEMMA FailClears ==
  ASSUME OwnMemory, NEW c \in Callers, MakeOK(c), Making(c), Fails(c)
  PROVE  \A a \in cleared' \ {NULL} : Holds(a, "box", SizeOf["box"])
<1>1. PICK full \in Seq(Parts) : PlanOf(op[c], full) /\ Taken(op[c], full)
  BY DEF MakeOK, Making
<1> DEFINE o == op[c]
           k == Len(o.got)
<1>2. /\ o.got \in Seq(Places) /\ k \in Nat /\ k <= Len(full)
      /\ o.todo = SubSeq(full, k + 1, Len(full)) /\ o.todo # <<>>
  <2>1. /\ o.got \in Seq(Places) /\ Len(o.got) <= Len(full)
        /\ o.todo = SubSeq(full, Len(o.got) + 1, Len(full))
    BY <1>1 DEF Taken
  <2>2. o.todo # <<>>
    BY DEF Making
  <2>3. Len(o.got) \in Nat
    BY <2>1, LenProperties
  <2> QED BY <2>1, <2>2, <2>3
<1>3. k < Len(full) /\ Head(o.todo) = full[k + 1]
  BY <1>1, <1>2, RestOfPlan
<1>4. CASE Head(o.todo).use = "buf"
  <2>0. PICK i \in 1..Len(full) : i = k + 1 /\ full[i].use = "buf"
    <3>1. k + 1 \in 1..Len(full)
      <4>1. k \in Nat /\ k < Len(full)
        BY <1>2, <1>3
      <4>2. Len(full) \in Nat
        BY LenProperties
      <4> HIDE DEF k
      <4> QED BY <4>1, <4>2
    <3>2. full[k + 1].use = "buf"
      BY <1>3, <1>4
    <3> QED BY <3>1, <3>2
  <2>1. Len(full) = 3 /\ k + 1 = 3 /\ full[2] = Part("box", SizeOf["box"])
    <3> HIDE DEF k, o
    <3>1. CASE \E n \in MallocSizes : full = <<Part("user", n)>>
      BY <2>0, <3>1 DEF Part
    <3>2. CASE full = <<Part("sem", SizeOf["sem"])>>
      BY <2>0, <3>2 DEF Part
    <3>3. CASE full = <<Part("timer", SizeOf["timer"])>>
      BY <2>0, <3>3 DEF Part
    <3>4. CASE full = <<Part("task", SizeOf["task"]), Part("box", SizeOf["box"])>>
      BY <2>0, <3>4 DEF Part
    <3>5. CASE full = <<Part("task", SizeOf["task"]), Part("box", SizeOf["box"]),
                        Part("buf", op[c].with)>>
      BY <2>0, <3>5 DEF Part
    <3> QED BY <1>1, <3>1, <3>2, <3>3, <3>4, <3>5 DEF PlanOf
  <2>2. Holds(o.got[2], full[2].use, full[2].len)
    BY <1>1, <1>2, <2>1 DEF Taken
  <2>3. Holds(o.got[2], "box", SizeOf["box"])
    BY <2>1, <2>2 DEF Part
  <2>4. cleared' = cleared \cup {o.got[2]}
    BY <1>4 DEF Fails
  <2> QED BY <2>3, <2>4 DEF OwnMemory
<1>5. CASE Head(o.todo).use # "buf"
  <2>1. cleared' \subseteq cleared \cup {NULL}
    BY <1>5 DEF Fails
  <2> QED BY <2>1 DEF OwnMemory
<1> QED BY <1>4, <1>5

(* Objects that a step leaves alone keep their memory.                     *)
LEMMA OwnStays ==
  ASSUME OwnMemory, UNCHANGED <<sems, tasks, astray>>, DOMAIN timer' = DOMAIN timer,
         \A a \in cleared' \ {NULL} : Holds(a, "box", SizeOf["box"]),
         \A a, use, n : Holds(a, use, n) => Holds(a, use, n)'
  PROVE  OwnMemory'
BY DEF OwnMemory

(* The heap's fields stay addresses, and blocks stay handed out.           *)
LEMMA HeapStays ==
  ASSUME HeapAssumption, HeapInv, TypeOK, [Next]_vars
  PROVE  /\ mem_start' \in Addresses /\ mem_size' \in Addresses
         /\ mem_free_loc' \in Addresses /\ mem_free_size' \in Addresses
         /\ torn' \in BOOLEAN
         /\ \A a, use, n : Holds(a, use, n) => Holds(a, use, n)'
<1>0. /\ mem_start \in Addresses /\ mem_size \in Addresses
      /\ mem_free_loc \in Addresses /\ mem_free_size \in Addresses
      /\ torn \in BOOLEAN
  BY DEF TypeOK
<1>1. CASE UNCHANGED <<heapVars, blocks>> /\ torn' \in BOOLEAN
  BY <1>0, <1>1 DEF heapVars, Holds
<1>2. ASSUME NEW c \in Callers, MallocMove(c)
      PROVE  /\ mem_start' \in Addresses /\ mem_size' \in Addresses
             /\ mem_free_loc' \in Addresses /\ mem_free_size' \in Addresses
             /\ torn' \in BOOLEAN
             /\ \A a, use, n : Holds(a, use, n) => Holds(a, use, n)'
  <2>1. PICK loc \in {req[c].loc, mem_free_loc} : mem_free_loc' = (loc + req[c].size) % Wrap
    BY <1>2 DEF MallocMove
  <2>2. loc + req[c].size \in Int
    BY <2>1 DEF Requests, HeapInv, HeapType
  <2>3. mem_free_loc' \in Addresses
    BY <2>1, <2>2, ModRange DEF HeapAssumption, Addresses, W
  <2> QED BY <1>0, <1>2, <2>3 DEF MallocMove, Holds
<1>3. ASSUME NEW c \in Callers, MallocShrink(c)
      PROVE  /\ mem_start' \in Addresses /\ mem_size' \in Addresses
             /\ mem_free_loc' \in Addresses /\ mem_free_size' \in Addresses
             /\ torn' \in BOOLEAN
             /\ \A a, use, n : Holds(a, use, n) => Holds(a, use, n)'
  <2>0. PICK b : b = [loc |-> req[c].loc, len |-> req[c].len, use |-> req[c].use]
    OBVIOUS
  <2>1. /\ req[c] \in Requests /\ b \in Blocks /\ blocks \in Seq(Blocks)
        /\ blocks' = Append(blocks, b) /\ UNCHANGED <<mem_start, mem_size, mem_free_loc, torn>>
    BY <1>0, <1>3, <2>0 DEF MallocShrink, HeapInv, HeapType, Requests, Blocks
  <2>2. PICK lft \in {req[c].left, mem_free_size} : mem_free_size' = (lft - req[c].size) % Wrap
    BY <1>3 DEF MallocShrink
  <2>3. lft - req[c].size \in Int
    BY <2>1, <2>2 DEF Requests, HeapInv, HeapType
  <2>4. mem_free_size' \in Addresses
    BY <2>2, <2>3, ModRange DEF HeapAssumption, Addresses, W
  <2>5. \A a, use, n : Holds(a, use, n) => Holds(a, use, n)'
    BY <2>1, HoldsStay
  <2> QED BY <1>0, <2>1, <2>4, <2>5
<1>4. ASSUME NEW c \in Callers, NEW n, NEW use, MallocCheck(c, n, use)
      PROVE  UNCHANGED <<heapVars, blocks>> /\ torn' \in BOOLEAN
  <2>1. torn' = (torn \/ Overlaps(c)) /\ UNCHANGED <<heapVars, blocks>>
    BY <1>4 DEF MallocCheck
  <2>2. (torn \/ Overlaps(c)) \in BOOLEAN
    BY <1>0
  <2> QED BY <2>1, <2>2
<1>5. ASSUME NEW c \in Callers, MallocRead(c)
      PROVE  UNCHANGED <<heapVars, blocks>> /\ torn' \in BOOLEAN
  BY <1>0, <1>5 DEF MallocRead
<1>6. CASE UNCHANGED memVars
  BY <1>0, <1>1, <1>6 DEF memVars
<1> QED BY <1>1, <1>2, <1>3, <1>4, <1>5, <1>6, HeapSteps

(* Every step keeps the invariant: one case for each kind of step.         *)
LEMMA ObjectStep ==
  ASSUME HeapAssumption, ObjectsAssumption, HeapInv, TimerInv, TypeOK, OwnMemory,
         CallsOK, [Next]_vars
  PROVE  TypeOK' /\ OwnMemory' /\ CallsOK'
<1> DEFINE Kept == /\ Pointers' /\ DOMAIN timer' \subseteq Places
                   /\ handler' \in BOOLEAN /\ doubled' \in BOOLEAN
                   /\ sems' \in Seq(Addresses) /\ OwnMemory'
                   /\ usr_isr' \in [0..(MaxInts - 1) -> BOOLEAN] /\ astray' \in BOOLEAN
                   /\ at' \in [Callers -> {"user", "make", "unlink", "load", "activate"}]
                   /\ left' \in [Callers -> Nat]
                   /\ CallsOK'
<1>1. /\ mem_start' \in Addresses /\ mem_size' \in Addresses
      /\ mem_free_loc' \in Addresses /\ mem_free_size' \in Addresses
      /\ torn' \in BOOLEAN
      /\ \A a, use, n : Holds(a, use, n) => Holds(a, use, n)'
  BY HeapStays
<1>2. /\ DOMAIN timer \subseteq Places /\ sems \in Seq(Addresses)
      /\ usr_isr \in [0..(MaxInts - 1) -> BOOLEAN] /\ astray \in BOOLEAN
      /\ at \in [Callers -> {"user", "make", "unlink", "load", "activate"}]
      /\ left \in [Callers -> Nat]
      /\ DOMAIN op = Callers /\ req \in [Callers -> Requests]
  BY DEF TypeOK, Places, TimerInv, HeapInv, HeapType
<1>3. ASSUME NEW c \in Callers, at[c] # "make"
      PROVE  ~Under(c)
  BY <1>3 DEF CallsOK, AskOK, Making
<1>4. ASSUME Same, UNCHANGED callVars, UNCHANGED req,
             UNCHANGED <<sems, tasks, astray, usr_isr, cleared>>,
             left' \in [Callers -> Nat]
      PROVE  Kept
  <2>0. \A a \in cleared' \ {NULL} : Holds(a, "box", SizeOf["box"])
    BY <1>4 DEF OwnMemory
  <2>1. \A c \in Callers : MakeOK(c)' /\ AskOK(c)' /\ TimeOK(c)'
    BY <1>1, <1>4, CallStays DEF CallsOK, callVars, Same
  <2>2. OwnMemory'
    BY <1>1, <1>4, <2>0, OwnStays DEF Same
  <2> QED BY <1>2, <1>4, <2>1, <2>2 DEF Same, CallsOK, callVars
<1>5. ASSUME NEW c \in Callers, Same,
             MakeOK(c)' /\ AskOK(c)' /\ TimeOK(c)',
             NEW p, p \in {"user", "make", "unlink", "load", "activate"},
             at' = [at EXCEPT ![c] = p],
             op' = op \/ \E x : op' = [op EXCEPT ![c] = x],
             req' = req \/ \E x : req' = [req EXCEPT ![c] = x],
             UNCHANGED <<sems, tasks, astray, usr_isr>>,
             \A a \in cleared' \ {NULL} : Holds(a, "box", SizeOf["box"]),
             left' \in [Callers -> Nat]
      PROVE  Kept
  <2>1. ASSUME NEW d \in Callers, d # c
        PROVE  MakeOK(d)' /\ AskOK(d)' /\ TimeOK(d)'
    <3>1. at'[d] = at[d] /\ op'[d] = op[d] /\ req'[d] = req[d]
      BY <1>2, <1>5, <2>1
    <3>2. MakeOK(d) /\ AskOK(d) /\ TimeOK(d) /\ DOMAIN timer \subseteq DOMAIN timer'
      BY <1>5 DEF CallsOK, Same
    <3> QED BY <1>1, <3>1, <3>2, CallStays
  <2>2. OwnMemory'
    BY <1>1, <1>5, OwnStays DEF Same
  <2>3. at' \in [Callers -> {"user", "make", "unlink", "load", "activate"}]
    BY <1>2, <1>5
  <2> QED BY <1>2, <1>5, <2>1, <2>2, <2>3 DEF Same, CallsOK
<1>6. ASSUME NEW c \in Callers, Starts(c) PROVE left' \in [Callers -> Nat]
  BY <1>2, <1>6 DEF Starts
<1>0. cleared' = cleared => \A a \in cleared' \ {NULL} : Holds(a, "box", SizeOf["box"])
  BY DEF OwnMemory
<1> HIDE DEF Kept
<1>7. ASSUME Tic PROVE Kept
  <2>1. Same
    BY <1>7, TicTimers
  <2>2. UNCHANGED callVars /\ UNCHANGED req /\ UNCHANGED <<sems, tasks, astray, usr_isr, cleared, left>>
    BY <1>7 DEF Tic, TicBegin, TicStep, TicEnd, objectVars, memVars
  <2>3. left' \in [Callers -> Nat]
    BY <1>2, <2>2
  <2> QED BY <1>4, <2>1, <2>2, <2>3
<1>8. ASSUME NEW c \in Callers, Starts(c), Create(c)
      PROVE  Kept
  <2>1. MakeOK(c)' /\ AskOK(c)' /\ TimeOK(c)'
    BY <1>8, CallBegins
  <2>2. UNCHANGED timerVars /\ UNCHANGED memVars /\ UNCHANGED objectVars
    BY <1>8 DEF Create, Begin
  <2>3. at' = [at EXCEPT ![c] = "make"] /\ \E x : op' = [op EXCEPT ![c] = x]
    BY <1>8 DEF Create, Begin
  <2>4. Same
    BY <2>2, TimersSame
  <2> QED BY <1>0, <1>5, <1>6, <1>8, <2>1, <2>2, <2>3, <2>4 DEF memVars, objectVars
<1>9. ASSUME NEW c \in Callers, Starts(c), IntConfig(c)
      PROVE  Kept
  <2>1. /\ UNCHANGED callVars /\ UNCHANGED timerVars /\ UNCHANGED <<tasks, req, blocks, cleared>>
        /\ \/ UNCHANGED <<sems, astray>>
           \/ sems' = <<NULL>> /\ astray' = TRUE
        /\ usr_isr' \in [0..(MaxInts - 1) -> BOOLEAN]
    BY <1>2, <1>9 DEF IntConfig, memVars
  <2>2. Same
    BY <2>1, TimersSame
  <2>3. \A d \in Callers : MakeOK(d)' /\ AskOK(d)' /\ TimeOK(d)'
    BY <1>1, <2>1, <2>2, CallStays DEF CallsOK, callVars, Same
  <2>4. sems' \in Seq(Addresses) /\ astray' \in BOOLEAN
    <3>1. NULL \in Addresses
      BY DEF NULL, Addresses, HeapAssumption, W
    <3>2. <<NULL>> \in Seq(Addresses)
      BY <3>1
    <3> QED BY <1>2, <2>1, <3>2
  <2>5. OwnMemory'
    BY <1>1, <2>1, <2>2 DEF OwnMemory, Same
  <2> QED BY <1>2, <1>6, <1>9, <2>1, <2>2, <2>3, <2>4, <2>5 DEF Kept, Same, CallsOK, callVars
<1>10. ASSUME NEW c \in Callers, NEW t \in DOMAIN timer, Starts(c), UNCHANGED objectVars,
              TimerStart(c, t) \/ TimerDelete(c, t)
       PROVE  Kept
  <2>1. /\ at[c] = "user" /\ UNCHANGED memVars /\ UNCHANGED timerVars
        /\ op' = [op EXCEPT ![c] = t]
    BY <1>10 DEF TimerStart, TimerDelete
  <2>2. PICK p \in {"unlink", "load", "activate"} : at' = [at EXCEPT ![c] = p]
    BY <1>10 DEF TimerStart, TimerDelete
  <2>3. Same
    BY <2>1, TimersSame
  <2>4. MakeOK(c)' /\ AskOK(c)' /\ TimeOK(c)'
    BY <1>2, <1>3, <2>1, <2>2 DEF MakeOK, AskOK, TimeOK, memVars, timerVars, Under
  <2> QED BY <1>0, <1>5, <1>6, <1>10, <2>1, <2>2, <2>3, <2>4 DEF memVars, objectVars
<1>11. ASSUME NEW c \in Callers, NEW t \in DOMAIN timer, Starts(c), UNCHANGED objectVars,
              TimerStop(c, t)
       PROVE  Kept
  <2>1. UNCHANGED callVars /\ UNCHANGED req
    BY <1>11 DEF TimerStop, memVars
  <2>2. Same
    BY <1>11, CallTimers DEF CallsOK
  <2> QED BY <1>4, <1>6, <1>11, <2>1, <2>2 DEF objectVars
<1>12. ASSUME NEW c \in Callers, UNCHANGED left, GiveUp(c)
       PROVE  Kept
  <2>1. /\ ~Under(c) /\ UNCHANGED memVars /\ UNCHANGED timerVars
        /\ UNCHANGED <<sems, tasks, usr_isr, astray>>
        /\ at' = [at EXCEPT ![c] = "user"] /\ op' = [op EXCEPT ![c] = NULL]
    BY <1>12 DEF GiveUp, Fails
  <2>2. Same
    BY <2>1, TimersSame
  <2>3. MakeOK(c)' /\ AskOK(c)' /\ TimeOK(c)'
    BY <1>2, <2>1 DEF MakeOK, AskOK, TimeOK, memVars, Under
  <2>4. \A a \in cleared' \ {NULL} : Holds(a, "box", SizeOf["box"])
    BY <1>12, FailClears DEF GiveUp, CallsOK
  <2> QED BY <1>2, <1>5, <1>12, <2>1, <2>2, <2>3, <2>4 DEF memVars
<1>13. ASSUME NEW c \in Callers, UNCHANGED left, Take(c)
       PROVE  Kept
  <2>1. UNCHANGED callVars /\ UNCHANGED timerVars /\ UNCHANGED objectVars
    BY <1>13 DEF Take
  <2>2. Same
    BY <2>1, TimersSame
  <2>3. MakeOK(c)' /\ AskOK(c)' /\ TimeOK(c)'
    BY <1>13, CallAsks DEF CallsOK
  <2>4. at' = [at EXCEPT ![c] = at[c]] /\ at[c] \in {"user", "make", "unlink", "load", "activate"}
    BY <1>2, <2>1 DEF callVars
  <2>5. \E x : req' = [req EXCEPT ![c] = x]
    <3>1. CASE MallocCheck(c, Head(op[c].todo).len, Head(op[c].todo).use)
      BY <3>1 DEF MallocCheck
    <3>2. CASE MallocRead(c)
      <4>1. req' = [req EXCEPT ![c] = [req[c] EXCEPT !.loc = mem_free_loc, !.to = "move"]]
        BY <1>2, <3>2 DEF MallocRead
      <4> QED BY <4>1
    <3>3. CASE MallocMove(c)
      <4>1. req' = [req EXCEPT ![c] = [req[c] EXCEPT !.to = "shrink"]]
        BY <1>2, <3>3 DEF MallocMove
      <4> QED BY <4>1
    <3> QED BY <1>13, <3>1, <3>2, <3>3 DEF Take
  <2> QED BY <1>0, <1>2, <1>5, <1>13, <2>1, <2>2, <2>3, <2>4, <2>5 DEF callVars, objectVars
<1>14. ASSUME NEW c \in Callers, UNCHANGED left, TakeEnd(c)
       PROVE  Kept
  <2>1. /\ UNCHANGED timerVars /\ UNCHANGED <<sems, tasks, usr_isr, astray>>
        /\ \E x : req' = [req EXCEPT ![c] = x]
        /\ \E x : op' = [op EXCEPT ![c] = x]
    BY <1>14 DEF TakeEnd, MallocShrink, Fails, Got
  <2>2. Same
    BY <2>1, TimersSame
  <2>3. MakeOK(c)' /\ AskOK(c)' /\ TimeOK(c)'
    BY <1>14, CallTakes DEF CallsOK
  <2>4. PICK p \in {"user", "make"} : at' = [at EXCEPT ![c] = p]
    BY <1>2, <1>14 DEF TakeEnd, Fails, Making
  <2>5. \A a \in cleared' \ {NULL} : Holds(a, "box", SizeOf["box"])
    BY <1>0, <1>14, FailClears DEF TakeEnd, CallsOK
  <2> QED BY <1>2, <1>5, <1>14, <2>1, <2>2, <2>3, <2>4, <2>5
<1>15. ASSUME NEW c \in Callers, UNCHANGED left, Link(c)
       PROVE  Kept
  <2>1. /\ Pointers' /\ DOMAIN timer \subseteq DOMAIN timer' /\ DOMAIN timer' \subseteq Places
        /\ handler' \in BOOLEAN /\ doubled' \in BOOLEAN
        /\ sems' \in Seq(Addresses) /\ OwnMemory'
    BY <1>15, LinkStep DEF CallsOK
  <2>2. /\ at' = [at EXCEPT ![c] = "user"] /\ op' = [op EXCEPT ![c] = NULL]
        /\ UNCHANGED memVars /\ UNCHANGED <<usr_isr, astray>>
        /\ op[c].todo = <<>>
    BY <1>15 DEF Link
  <2>3. ~Under(c)
    BY <2>2 DEF CallsOK, AskOK, Making
  <2>4. MakeOK(c)' /\ AskOK(c)' /\ TimeOK(c)'
    BY <1>2, <2>2, <2>3 DEF MakeOK, AskOK, TimeOK, memVars, Under
  <2>5. ASSUME NEW d \in Callers, d # c
        PROVE  MakeOK(d)' /\ AskOK(d)' /\ TimeOK(d)'
    <3>1. at'[d] = at[d] /\ op'[d] = op[d] /\ req'[d] = req[d]
      BY <1>2, <2>2, <2>5 DEF memVars
    <3>2. MakeOK(d) /\ AskOK(d) /\ TimeOK(d)
      BY DEF CallsOK
    <3> QED BY <1>1, <2>1, <3>1, <3>2, CallStays
  <2>6. at' \in [Callers -> {"user", "make", "unlink", "load", "activate"}]
    BY <1>2, <2>2
  <2> QED BY <1>2, <1>15, <2>1, <2>2, <2>4, <2>5, <2>6 DEF Kept, CallsOK
<1>16. ASSUME NEW c \in Callers, UNCHANGED left, UNCHANGED objectVars,
              TimerUnlink(c) \/ TimerLoad(c) \/ TimerActivate(c)
       PROVE  Kept
  <2>1. Same
    BY <1>16, CallTimers DEF CallsOK
  <2>2. at[c] # "make" /\ UNCHANGED memVars /\ op' = op
    BY <1>16 DEF TimerUnlink, TimerLoad, TimerActivate
  <2>3. PICK p \in {"user", "activate"} :
           /\ at' = [at EXCEPT ![c] = p]
           /\ p = "activate" => at[c] = "load"
    BY <1>16 DEF TimerUnlink, TimerLoad, TimerActivate
  <2>4. MakeOK(c)' /\ AskOK(c)' /\ TimeOK(c)'
    BY <1>2, <1>3, <2>1, <2>2, <2>3 DEF MakeOK, AskOK, TimeOK, memVars, Same, CallsOK, Under
  <2> QED BY <1>0, <1>2, <1>5, <1>16, <2>1, <2>2, <2>3, <2>4 DEF memVars, objectVars
<1>17. ASSUME UNCHANGED vars PROVE Kept
  <2>1. UNCHANGED <<callVars, memVars, objectVars, left>> /\ UNCHANGED timerVars
    BY <1>17 DEF vars
  <2>2. Same
    BY <2>1, TimersSame
  <2>3. /\ UNCHANGED callVars /\ UNCHANGED req
        /\ UNCHANGED <<sems, tasks, astray, usr_isr, cleared>> /\ left' \in [Callers -> Nat]
    BY <1>2, <2>1 DEF memVars, objectVars
  <2> QED BY <1>4, <2>2, <2>3
<1>18. ASSUME NEW c \in Callers, Starts(c) PROVE Kept
  <2>1. Create(c) \/ IntConfig(c) \/ (OnTimer(c) /\ UNCHANGED objectVars)
    BY <1>18 DEF Starts
  <2> QED BY <1>8, <1>9, <1>10, <1>11, <1>18, <2>1 DEF OnTimer
<1>19. ASSUME NEW c \in Callers, Continues(c) PROVE Kept
  <2>1. /\ UNCHANGED left
        /\ \/ GiveUp(c) \/ Take(c) \/ TakeEnd(c) \/ Link(c)
           \/ /\ TimerUnlink(c) \/ TimerLoad(c) \/ TimerActivate(c)
              /\ UNCHANGED objectVars
    BY <1>19 DEF Continues
  <2> QED BY <1>12, <1>13, <1>14, <1>15, <1>16, <2>1
<1>20. Kept
  BY <1>7, <1>17, <1>18, <1>19 DEF Next
<1> QED BY <1>1, <1>20 DEF Kept, TypeOK, Pointers, Pointer, Places

(* At start-up no call is under way, and the idle task's timers are blocks *)
(* one behind the other.                                                   *)
LEMMA ObjectsAtStart ==
  ASSUME HeapAssumption, ObjectsAssumption, Init
  PROVE  TypeOK /\ OwnMemory /\ CallsOK
<1>1. HeapInv /\ StartOK
  BY InitStep
<1>2. PICK made \in BootTimers : BootList(made)
  BY DEF Init
<1> DEFINE size == SizeOf["timer"]
           n    == Len(made)
           addr(i) == IF i = 0 THEN NULL ELSE mem_start + (i - 1) * size
<1>3. /\ n \in Nat /\ size \in Nat
  BY DEF ObjectsAssumption, Kinds
<1>4. /\ blocks = [i \in 1..n |-> [loc |-> addr(i), len |-> size, use |-> "timer"]]
      /\ timers = addr(n)
      /\ timer = [a \in {addr(i) : i \in 1..n} |->
                    LET i == CHOOSE j \in 1..n : addr(j) = a
                    IN  TimerT(a, made[i], addr(i - 1))]
  BY <1>2 DEF BootList
<1>5. addr(0) = NULL
  OBVIOUS
<1> HIDE DEF size, n, addr
<1>6. /\ DOMAIN blocks = 1..n
      /\ \A i \in 1..n : /\ blocks[i].loc = addr(i) /\ blocks[i].len = size
                          /\ blocks[i].use = "timer"
  BY <1>4
<1>7. /\ mem_start \in Nat /\ mem_size \in Nat /\ mem_free_loc \in Nat
      /\ mem_free_size \in Nat /\ Wrap \in Nat /\ Wrap > 0
      /\ mem_start # 0 /\ mem_start + mem_size < Wrap
      /\ mem_free_loc <= mem_start + mem_size
  BY <1>1 DEF HeapInv, HeapType, StartOK, HeapAssumption, W
<1>8. ASSUME NEW i \in 1..n PROVE addr(i) \in Places
  <2>1. addr(i) \in Nat
    <3>1. blocks \in Seq(Blocks) /\ i \in DOMAIN blocks
      BY <1>1, <1>6 DEF HeapInv, HeapType
    <3>2. blocks[i] \in Blocks
      BY <3>1, LenProperties, ElementOfSeq
    <3> QED BY <1>6, <3>2 DEF Blocks
  <2>2. mem_start <= addr(i) /\ addr(i) + size <= mem_free_loc
    BY <1>1, <1>6 DEF StartOK
  <2> QED BY <1>3, <1>7, <2>1, <2>2 DEF Places, Addresses, NULL
<1>9. DOMAIN timer = {addr(i) : i \in 1..n}
  BY <1>4
<1>10. \A i \in 0..n : addr(i) \in {NULL} \cup DOMAIN timer
  BY <1>3, <1>5, <1>9
<1>11. ASSUME NEW a \in DOMAIN timer
       PROVE  timer[a].next \in {NULL} \cup DOMAIN timer
  <2> DEFINE i == CHOOSE j \in 1..n : addr(j) = a
  <2>1. i \in 1..n
    BY <1>9
  <2>2. timer[a] = TimerT(a, made[i], addr(i - 1))
    BY <1>4
  <2> HIDE DEF i
  <2>3. timer[a].next = addr(i - 1)
    BY <2>2 DEF TimerT
  <2>4. i - 1 \in 0..n
    BY <1>3, <2>1
  <2> QED BY <1>10, <2>3, <2>4
<1>12. TypeOK
  <2>1. mem_start \in Addresses /\ mem_size \in Addresses
    BY <1>7 DEF Addresses
  <2>2. mem_free_loc \in Addresses /\ mem_free_size \in Addresses
    <3>1. mem_free_loc < Wrap
      BY <1>7
    <3>2. mem_free_size <= mem_size
      <4>1. n * size <= mem_size /\ mem_free_size = mem_size - n * size
        BY <1>2 DEF BootList, n, size
      <4> DEFINE used == n * size
      <4>2. used \in Nat
        BY <1>3
      <4> HIDE DEF used
      <4>3. mem_free_size = mem_size - used
        BY <4>1 DEF used
      <4> QED BY <1>7, <4>2, <4>3
    <3>3. mem_free_size < Wrap
      BY <1>7, <3>2
    <3> QED BY <1>7, <3>1, <3>3 DEF Addresses
  <2>3. timers \in {NULL} \cup DOMAIN timer
    BY <1>3, <1>4, <1>10
  <2>4. DOMAIN timer \subseteq Addresses \ {NULL}
    BY <1>8, <1>9 DEF Places
  <2>5. left \in [Callers -> Nat] /\ sems \in Seq(Addresses)
    BY DEF Init, ObjectsAssumption
  <2> QED BY <1>11, <2>1, <2>2, <2>3, <2>4, <2>5 DEF Init, TypeOK
<1>13. OwnMemory
  <2>1. ASSUME NEW a \in DOMAIN timer PROVE Holds(a, "timer", SizeOf["timer"])
    <3>1. PICK i \in 1..n : addr(i) = a
      BY <1>9
    <3>2. size >= size
      BY <1>3
    <3> QED BY <1>6, <3>1, <3>2 DEF Holds, size
  <2> QED BY <2>1 DEF Init, OwnMemory
<1>14. CallsOK
  BY DEF Init, CallsOK, MakeOK, AskOK, TimeOK, NoReq, Under
<1> QED BY <1>12, <1>13, <1>14

(* Everything together is kept by every step.                              *)
LEMMA ObjectsInvariant ==
  ASSUME HeapAssumption, ObjectsAssumption
  PROVE  Spec => [](TypeOK /\ OwnMemory /\ CallsOK)
<1> DEFINE IInv == TypeOK /\ OwnMemory /\ CallsOK
<1>1. Init => IInv
  BY ObjectsAtStart
<1>2. IInv /\ HeapInv /\ TimerInv /\ [Next]_vars => IInv'
  BY ObjectStep
<1> QED BY <1>1, <1>2, HeapInvariant, TimerInvariant, PTL DEF Spec

(* In every system the kernel's fields hold what they are declared to      *)
(* hold, and the pointers of the list of timers, of the clock's walk along *)
(* it and of the calls lead to timers that were made, or are NULL.         *)
THEOREM PointersLead ==
  ASSUME HeapAssumption, ObjectsAssumption
  PROVE  Spec => []TypeOK
  BY ObjectsInvariant, PTL

(* In every system, even where a malloc() is overtaken by another and      *)
(* where memory runs out in the middle of a call, what is linked has a     *)
(* block of memory of its kind for each of its parts, and large enough,    *)
(* and what msgbox_init() sets as it fails lies in a box or at NULL.       *)
THEOREM ObjectsHaveMemory ==
  ASSUME HeapAssumption, ObjectsAssumption
  PROVE  Spec => []OwnMemory
  BY ObjectsInvariant, PTL

-----------------------------------------------------------------------------
(* The list of timers, kernel.timers, is what timer_new() and              *)
(* timer_delete() are meant to make of it.                                 *)

(* l[1], ... l[n] are the timers that were not deleted, in the order in    *)
(* which the list leads to them.                                           *)
Order(n, l) ==
  /\ n \in Nat /\ l \in [1..n -> DOMAIN timer]
  /\ \A i, j \in 1..n : l[i] = l[j] => i = j
  /\ \A t \in DOMAIN timer : Valid(t) <=> \E i \in 1..n : l[i] = t
  /\ timers = IF n = 0 THEN NULL ELSE l[1]
  /\ \A i \in 1..n : timer[l[i]].next = IF i = n THEN NULL ELSE l[i + 1]

ListOK == ~torn /\ ~doubled => \E n, l : Order(n, l)

(* Following the list for as many steps as there are timers leads through  *)
(* all of them in their order, and then to its end.                        *)
LEMMA ListWalk ==
  ASSUME DOMAIN timer \subseteq Places, IsFiniteSet(DOMAIN timer),
         NEW n, NEW l, Order(n, l)
  PROVE  /\ Ends
         /\ OnList = {l[i] : i \in 1..n}
         /\ OnList = {t \in DOMAIN timer : Valid(t)}
<1> DEFINE N == Cardinality(DOMAIN timer)
           f == [k \in 0..N |-> IF k < n THEN l[k + 1] ELSE NULL]
           Leads(g) == g = [k \in 0..N |->
                              IF k = 0 THEN timers
                              ELSE IF g[k - 1] = NULL THEN NULL ELSE timer[g[k - 1]].next]
<1>1. N \in Nat
  BY FS_CardinalityType
<1>2. n \in Nat /\ n <= N
  <2>1. n \in Nat /\ l \in [1..n -> DOMAIN timer] /\ \A i, j \in 1..n : l[i] = l[j] => i = j
    BY DEF Order
  <2>2. IsFiniteSet(1..n) /\ Cardinality(1..n) = n
    BY <2>1, FS_Interval
  <2>3. ~(N < n)
    BY <2>1, <2>2, FS_PigeonHole
  <2> QED BY <1>1, <2>1, <2>3
<1>3. \A i \in 1..n : l[i] \in DOMAIN timer /\ l[i] # NULL
  BY DEF Order, Places
<1> HIDE DEF N
<1>4. Leads(f)
  <2> DEFINE g == [k \in 0..N |-> IF k = 0 THEN timers
                                  ELSE IF f[k - 1] = NULL THEN NULL ELSE timer[f[k - 1]].next]
  <2>1. ASSUME NEW k \in 0..N PROVE f[k] = g[k]
    <3>1. CASE k = 0
      BY <1>1, <1>2, <2>1, <3>1 DEF Order
    <3>2. CASE k # 0 /\ k - 1 < n
      <4>1. k \in 1..n /\ k - 1 \in 0..N /\ f[k - 1] = l[k]
        BY <1>1, <1>2, <2>1, <3>2
      <4>2. g[k] = timer[l[k]].next
        BY <1>3, <2>1, <3>2, <4>1
      <4>3. timer[l[k]].next = IF k = n THEN NULL ELSE l[k + 1]
        BY <4>1 DEF Order
      <4> QED BY <1>2, <2>1, <4>1, <4>2, <4>3
    <3>3. CASE k # 0 /\ ~(k - 1 < n)
      <4>1. k - 1 \in 0..N /\ f[k - 1] = NULL /\ f[k] = NULL
        BY <1>1, <1>2, <2>1, <3>3
      <4> QED BY <2>1, <3>3, <4>1
    <3> QED BY <3>1, <3>2, <3>3
  <2> QED BY <2>1
<1>5. Leads(Nth)
  <2>1. Nth = CHOOSE g : Leads(g)
    BY DEF Nth, N
  <2> HIDE DEF Leads, f
  <2> QED BY <1>4, <2>1
<1>6. ASSUME NEW k \in 0..N PROVE Nth[k] = f[k]
  <2> DEFINE T == {j \in 0..N : Nth[j] # f[j]}
  <2>1. SUFFICES ASSUME T # {} PROVE FALSE
    BY <1>6
  <2>2. PICK x \in T : \A y \in T : x <= y
    <3>1. T \in SUBSET Nat
      BY <1>1
    <3> HIDE DEF T
    <3> QED BY <2>1, <3>1, LeastNumber
  <2>3. CASE x = 0
    BY <1>1, <1>4, <1>5, <2>2, <2>3
  <2>4. CASE x # 0
    <3>1. x - 1 \in 0..N /\ x - 1 \notin T
      BY <1>1, <2>2, <2>4
    <3>2. Nth[x - 1] = f[x - 1]
      BY <3>1
    <3>3. Nth[x] = IF Nth[x - 1] = NULL THEN NULL ELSE timer[Nth[x - 1]].next
      BY <1>5, <2>2, <2>4
    <3>4. f[x] = IF f[x - 1] = NULL THEN NULL ELSE timer[f[x - 1]].next
      BY <1>4, <2>2, <2>4
    <3> QED BY <2>2, <3>2, <3>3, <3>4
  <2> QED BY <2>3, <2>4
<1>7. Ends
  BY <1>1, <1>2, <1>6 DEF Ends, N
<1>8. DOMAIN Nth = 0..N
  BY <1>5
<1>9. OnList = {l[i] : i \in 1..n}
  <2>1. ASSUME NEW k \in 0..N, Nth[k] # NULL PROVE \E i \in 1..n : Nth[k] = l[i]
    <3>1. k < n /\ Nth[k] = l[k + 1]
      BY <1>1, <1>2, <1>6, <2>1
    <3>2. k + 1 \in 1..n
      BY <1>2, <3>1
    <3> QED BY <3>1, <3>2
  <2>2. ASSUME NEW i \in 1..n PROVE i - 1 \in 0..N /\ Nth[i - 1] = l[i] /\ l[i] # NULL
    BY <1>1, <1>2, <1>3, <1>6
  <2> HIDE DEF f
  <2> QED BY <1>8, <2>1, <2>2 DEF OnList
<1>10. {l[i] : i \in 1..n} = {t \in DOMAIN timer : Valid(t)}
  BY <1>3 DEF Order
<1> QED BY <1>7, <1>9, <1>10

-----------------------------------------------------------------------------
(* Ids and links as they were.                                             *)
SameLinks == /\ DOMAIN timer' = DOMAIN timer /\ timers' = timers
             /\ \A t \in DOMAIN timer : /\ timer'[t].id = timer[t].id
                                        /\ timer'[t].next = timer[t].next

(* Steps that leave ids and links alone leave the list alone.              *)
LEMMA SameOrder ==
  ASSUME NEW n, NEW l, Order(n, l), SameLinks
  PROVE  Order(n, l)'
BY DEF Order, SameLinks, Valid

(* timer_new() puts its timer in front of the others.                      *)
LEMMA LinkOrder ==
  ASSUME DOMAIN timer \subseteq Places, NEW n, NEW l, Order(n, l),
         NEW a \in Places, a \notin DOMAIN timer, NEW k, TimerLink(a, k)
  PROVE  \E m, g : Order(m, g)'
<1> DEFINE g == [i \in 1..(n + 1) |-> IF i = 1 THEN a ELSE l[i - 1]]
<1>1. /\ n \in Nat /\ l \in [1..n -> DOMAIN timer]
      /\ \A i, j \in 1..n : l[i] = l[j] => i = j
      /\ \A t \in DOMAIN timer : timer[t].id = t <=> \E i \in 1..n : l[i] = t
      /\ timers = IF n = 0 THEN NULL ELSE l[1]
      /\ \A i \in 1..n : timer[l[i]].next = IF i = n THEN NULL ELSE l[i + 1]
  BY DEF Order, Valid
<1>2. /\ DOMAIN timer' = DOMAIN timer \cup {a} /\ timers' = a
      /\ \A t \in DOMAIN timer : timer'[t] = timer[t]
      /\ timer'[a].id = a /\ timer'[a].next = timers
  BY DEF TimerLink, TimerT
<1>3. /\ n + 1 \in Nat /\ n + 1 # 0 /\ 1 \in 1..(n + 1) /\ g[1] = a
      /\ \A i \in 2..(n + 1) : i - 1 \in 1..n /\ g[i] = l[i - 1]
      /\ \A i \in 1..n : i + 1 \in 2..(n + 1)
      /\ \A i \in 1..(n + 1) : i = 1 \/ i \in 2..(n + 1)
  BY <1>1
<1>4. g \in [1..(n + 1) -> DOMAIN timer']
  BY <1>1, <1>2, <1>3
<1> HIDE DEF g
<1>5. \A i, j \in 1..(n + 1) : g[i] = g[j] => i = j
  BY <1>1, <1>3
<1>6. ASSUME NEW t \in DOMAIN timer'
      PROVE  timer'[t].id = t <=> \E i \in 1..(n + 1) : g[i] = t
  <2>1. CASE t = a
    BY <1>2, <1>3, <2>1
  <2>2. CASE t # a
    <3>1. (\E i \in 1..(n + 1) : g[i] = t) <=> \E i \in 1..n : l[i] = t
      <4>1. ASSUME NEW i \in 1..(n + 1), g[i] = t PROVE \E j \in 1..n : l[j] = t
        BY <1>3, <2>2, <4>1
      <4>2. ASSUME NEW i \in 1..n, l[i] = t PROVE \E j \in 1..(n + 1) : g[j] = t
        <5>1. i + 1 \in 1..(n + 1) /\ g[i + 1] = l[(i + 1) - 1] /\ (i + 1) - 1 = i
          BY <1>1, <1>3
        <5> QED BY <4>2, <5>1
      <4> QED BY <4>1, <4>2
    <3> QED BY <1>1, <1>2, <2>2, <3>1
  <2> QED BY <2>1, <2>2
<1>7. ASSUME NEW i \in 1..(n + 1)
      PROVE  timer'[g[i]].next = IF i = n + 1 THEN NULL ELSE g[i + 1]
  <2>1. CASE i = 1
    <3>1. timer'[g[i]].next = timers
      BY <1>2, <1>3, <2>1
    <3>2. CASE n = 0
      BY <1>1, <2>1, <3>1, <3>2
    <3>3. CASE n # 0
      <4>1. 2 \in 2..(n + 1) /\ g[2] = l[1]
        BY <1>1, <1>3, <3>3
      <4> QED BY <1>1, <2>1, <3>1, <3>3, <4>1
    <3> QED BY <3>2, <3>3
  <2>2. CASE i # 1
    <3>1. i - 1 \in 1..n /\ g[i] = l[i - 1] /\ l[i - 1] \in DOMAIN timer
      BY <1>1, <1>3, <2>2
    <3>2. timer'[g[i]].next = IF i - 1 = n THEN NULL ELSE l[i]
      BY <1>1, <1>2, <3>1
    <3>3. i # n + 1 => i + 1 \in 2..(n + 1) /\ g[i + 1] = l[i]
      BY <1>1, <1>3, <3>1
    <3> QED BY <1>1, <3>1, <3>2, <3>3
  <2> QED BY <2>1, <2>2
<1>8. timers' = IF n + 1 = 0 THEN NULL ELSE g[1]
  BY <1>2, <1>3
<1>9. Order(n + 1, g)'
  BY <1>3, <1>4, <1>5, <1>6, <1>7, <1>8 DEF Order, Valid
<1> QED BY <1>9

(* timer_delete() takes a timer out that is on the list, and only that.    *)
LEMMA UnlinkOrder ==
  ASSUME DOMAIN timer \subseteq Places, IsFiniteSet(DOMAIN timer),
         NEW n, NEW l, Order(n, l),
         NEW t \in DOMAIN timer, Valid(t),
         \A u \in DOMAIN timer : Typed(timer[u]),
         NEW r, Typed(r), r.next = timer[t].next, Unlink(t, r)
  PROVE  \E m, g : Order(m, g)'
<1>1. /\ n \in Nat /\ l \in [1..n -> DOMAIN timer]
      /\ \A i, j \in 1..n : l[i] = l[j] => i = j
      /\ \A u \in DOMAIN timer : timer[u].id = u <=> \E i \in 1..n : l[i] = u
      /\ timers = IF n = 0 THEN NULL ELSE l[1]
      /\ \A i \in 1..n : timer[l[i]].next = IF i = n THEN NULL ELSE l[i + 1]
  BY DEF Order, Valid
<1>2. PICK d \in 1..n : l[d] = t
  BY <1>1 DEF Valid
<1>3. OnList = {l[i] : i \in 1..n}
  BY ListWalk
<1>4. \A i \in 1..n : l[i] \in DOMAIN timer /\ l[i] # NULL
  BY <1>1 DEF Places
<1>5. PrevOf(t) = IF d = 1 THEN NULL ELSE l[d - 1]
  <2>1. t \in OnList /\ OnList # {}
    BY <1>2, <1>3
  <2>2. CASE d = 1
    BY <1>1, <1>2, <2>2 DEF PrevOf
  <2>3. CASE d # 1
    <3>1. timers # t /\ d - 1 \in 1..n
      BY <1>1, <1>2, <2>3
    <3>2. PrevOf(t) = CHOOSE p \in OnList : timer[p].next = t
      BY <2>1, <3>1 DEF PrevOf
    <3>3. l[d - 1] \in OnList /\ timer[l[d - 1]].next = t
      BY <1>1, <1>2, <1>3, <3>1
    <3>4. ASSUME NEW p \in OnList, timer[p].next = t PROVE p = l[d - 1]
      <4>1. PICK i \in 1..n : p = l[i]
        BY <1>3
      <4>2. i # n /\ l[i + 1] = t
        BY <1>1, <1>2, <1>4, <3>4, <4>1
      <4>3. i + 1 = d
        BY <1>1, <1>2, <4>2
      <4> QED BY <1>1, <4>1, <4>3
    <3> QED BY <2>3, <3>2, <3>3, <3>4
  <2> QED BY <2>2, <2>3
<1> DEFINE g == [i \in 1..(n - 1) |-> IF i < d THEN l[i] ELSE l[i + 1]]
<1>6. /\ DOMAIN timer' = DOMAIN timer
      /\ \A u \in DOMAIN timer : timer'[u].id = IF u = t THEN 0 ELSE timer[u].id
      /\ \A u \in DOMAIN timer : u # t =>
            timer'[u].next = IF d # 1 /\ u = l[d - 1] THEN timer[t].next ELSE timer[u].next
      /\ timers' = IF d = 1 THEN timer[t].next ELSE timers
  <2> DEFINE gone == [r EXCEPT !.id = 0]
  <2>1. gone.id = 0
    BY DEF Typed, Fields
  <2> HIDE DEF gone
  <2>2. CASE d = 1
    <3>1. timers' = r.next /\ timer' = [timer EXCEPT ![t] = gone]
      BY <1>5, <2>2 DEF Unlink, gone
    <3> QED BY <2>1, <2>2, <3>1
  <2>3. CASE d # 1
    <3> DEFINE p == l[d - 1]
               link == [timer[p] EXCEPT !.next = r.next]
    <3>1. d - 1 \in 1..n /\ p \in DOMAIN timer /\ p # NULL /\ p # t
      BY <1>1, <1>2, <1>4, <2>3
    <3>2. timers' = timers /\ timer' = [timer EXCEPT ![p].next = r.next, ![t] = gone]
      BY <1>5, <2>3, <3>1 DEF Unlink, gone
    <3>3. link.next = r.next /\ link.id = timer[p].id
      BY <3>1 DEF Typed, Fields
    <3>4. /\ DOMAIN timer' = DOMAIN timer
          /\ \A u \in DOMAIN timer :
                timer'[u] = IF u = t THEN gone ELSE IF u = p THEN link ELSE timer[u]
      BY <3>1, <3>2
    <3> HIDE DEF link
    <3> QED BY <2>1, <2>3, <3>1, <3>2, <3>3, <3>4
  <2> QED BY <2>2, <2>3
<1>7. /\ n - 1 \in Nat
      /\ \A i \in 1..(n - 1) : /\ i \in 1..n /\ i + 1 \in 1..n
                               /\ g[i] = IF i < d THEN l[i] ELSE l[i + 1]
                               /\ g[i] \in DOMAIN timer /\ g[i] # t
  BY <1>1, <1>2
<1>8. g \in [1..(n - 1) -> DOMAIN timer']
  BY <1>6, <1>7
<1> HIDE DEF g
<1>9. \A i, j \in 1..(n - 1) : g[i] = g[j] => i = j
  BY <1>1, <1>2, <1>7
<1>10. ASSUME NEW u \in DOMAIN timer'
       PROVE  timer'[u].id = u <=> \E i \in 1..(n - 1) : g[i] = u
  <2>1. CASE u = t
    <3>1. timer'[u].id # u
      BY <1>6, <2>1 DEF Places, NULL
    <3> QED BY <1>7, <2>1, <3>1
  <2>2. CASE u # t
    <3>1. ASSUME NEW i \in 1..n, l[i] = u PROVE \E j \in 1..(n - 1) : g[j] = u
      <4>1. CASE i < d
        <5>1. i \in 1..(n - 1) /\ g[i] = u
          BY <1>1, <1>2, <1>7, <3>1, <4>1
        <5> QED BY <5>1
      <4>2. CASE ~(i < d)
        <5>1. i - 1 \in 1..(n - 1) /\ ~(i - 1 < d)
          BY <1>1, <1>2, <2>2, <3>1, <4>2
        <5>2. g[i - 1] = u
          BY <1>1, <1>7, <3>1, <5>1
        <5> QED BY <5>1, <5>2
      <4> QED BY <4>1, <4>2
    <3>2. ASSUME NEW i \in 1..(n - 1), g[i] = u PROVE \E j \in 1..n : l[j] = u
      BY <1>7, <3>2
    <3> QED BY <1>1, <1>6, <2>2, <3>1, <3>2
  <2> QED BY <2>1, <2>2
<1>11. ASSUME NEW i \in 1..(n - 1)
       PROVE  timer'[g[i]].next = IF i = n - 1 THEN NULL ELSE g[i + 1]
  <2>1. g[i] # t /\ g[i] \in DOMAIN timer
    BY <1>7
  <2>2. CASE i + 1 = d
    <3>1. g[i] = l[d - 1] /\ d # 1 /\ timer'[g[i]].next = timer[t].next
      BY <1>1, <1>6, <1>7, <2>1, <2>2
    <3>2. timer[t].next = IF d = n THEN NULL ELSE l[d + 1]
      BY <1>1, <1>2
    <3>3. i # n - 1 => g[i + 1] = l[d + 1]
      BY <1>1, <1>2, <1>7, <2>2
    <3> QED BY <1>1, <2>2, <3>1, <3>2, <3>3
  <2>3. CASE i + 1 < d
    <3>1. g[i] = l[i] /\ i \in 1..n /\ ~(d # 1 /\ g[i] = l[d - 1])
      BY <1>1, <1>2, <1>7, <2>3
    <3>2. timer'[g[i]].next = l[i + 1]
      BY <1>1, <1>2, <1>6, <2>1, <2>3, <3>1
    <3>3. i # n - 1 /\ g[i + 1] = l[i + 1]
      BY <1>1, <1>2, <1>7, <2>3
    <3> QED BY <3>2, <3>3
  <2>4. CASE ~(i + 1 <= d)
    <3>1. g[i] = l[i + 1] /\ i + 1 \in 1..n /\ ~(d # 1 /\ g[i] = l[d - 1])
      BY <1>1, <1>2, <1>7, <2>4
    <3>2. timer'[g[i]].next = IF i + 1 = n THEN NULL ELSE l[i + 2]
      BY <1>1, <1>2, <1>6, <2>1, <3>1
    <3>3. i # n - 1 => g[i + 1] = l[i + 2]
      BY <1>1, <1>2, <1>7, <2>4
    <3> QED BY <1>1, <3>2, <3>3
  <2> QED BY <1>1, <1>2, <2>2, <2>3, <2>4
<1>12. timers' = IF n - 1 = 0 THEN NULL ELSE g[1]
  <2>1. CASE d = 1
    <3>1. timers' = IF n = 1 THEN NULL ELSE l[2]
      BY <1>1, <1>2, <1>6, <2>1
    <3>2. n # 1 => g[1] = l[2]
      BY <1>1, <1>7, <2>1
    <3> QED BY <1>1, <3>1, <3>2
  <2>2. CASE d # 1
    <3>1. n # 0 /\ n # 1 /\ timers' = l[1] /\ g[1] = l[1]
      BY <1>1, <1>2, <1>6, <1>7, <2>2
    <3> QED BY <1>1, <3>1
  <2> QED BY <2>1, <2>2
<1>13. Order(n - 1, g)'
  BY <1>7, <1>8, <1>9, <1>10, <1>11, <1>12 DEF Order, Valid
<1> QED BY <1>13

-----------------------------------------------------------------------------
(* What a call under way has taken is not on the list yet, and is nobody   *)
(* else's.                                                                 *)
Has(c) == IF at[c] = "make" THEN {op[c].got[i] : i \in DOMAIN op[c].got} ELSE {}

(* What it has taken are addresses.                                        *)
LEMMA HasPlaces ==
  ASSUME HeapAssumption, CallsOK
  PROVE  \A c \in Callers : \A a \in Has(c) : a \in Int
<1> SUFFICES ASSUME NEW c \in Callers, NEW a \in Has(c) PROVE a \in Int
  OBVIOUS
<1>1. at[c] = "make" /\ op[c].got \in Seq(Places)
  BY DEF Has, CallsOK, MakeOK, Taken
<1>2. PICK i \in DOMAIN op[c].got : a = op[c].got[i]
  BY <1>1 DEF Has
<1>3. a \in Places
  BY <1>1, <1>2
<1> QED BY <1>3 DEF Places, Addresses, HeapAssumption

FreshOK ==
  ~torn =>
    /\ \A t \in DOMAIN timer : t < mem_free_loc
    /\ \A c \in Callers : \A a \in Has(c) : a < mem_free_loc /\ a \notin DOMAIN timer
    /\ \A c, d \in Callers : c # d => Has(c) \cap Has(d) = {}
    /\ \A c \in Callers :
          req[c].to = "shrink" => /\ req[c].loc < mem_free_loc
                                  /\ req[c].loc \notin DOMAIN timer
                                  /\ \A d \in Callers : req[c].loc \notin Has(d)

(* A step that makes no timer, and takes no memory, keeps this.            *)
LEMMA FreshStays ==
  ASSUME FreshOK, DOMAIN timer' = DOMAIN timer, mem_free_loc' = mem_free_loc,
         torn => torn',
         \A c \in Callers : Has(c)' \subseteq Has(c),
         \A c \in Callers : req'[c].to = "shrink" => req'[c] = req[c]
  PROVE  FreshOK'
BY DEF FreshOK

(* What malloc() has taken once it has moved mem_free_loc is new.          *)
LEMMA FreshMoved ==
  ASSUME HeapAssumption, HeapInv, TypeOK, CallsOK, FreshOK, mem_size % 4 = 0,
         NEW c \in Callers, Take(c), MallocMove(c)
  PROVE  FreshOK'
<1> SUFFICES ASSUME ~torn' PROVE FreshOK'
  BY DEF FreshOK
<1> DEFINE new == req[c].loc
<1>1. /\ ~torn /\ req[c].to = "move" /\ req[c] \in Requests
      /\ UNCHANGED <<timer, at, op, torn>>
      /\ req' = [req EXCEPT ![c].to = "shrink"]
  BY DEF Take, MallocMove, callVars, timerVars, HeapInv, HeapType
<1>2. HeapUsed /\ ReadTrue(c) /\ Alone
  BY <1>1 DEF HeapInv
<1>3. /\ mem_free_loc \in Nat /\ mem_free_loc' \in Nat
      /\ new = mem_free_loc /\ mem_free_loc <= mem_free_loc'
      /\ req[c].size # 0 => mem_free_loc < mem_free_loc'
  <2>1. PICK loc \in {req[c].loc, mem_free_loc} : mem_free_loc' = (loc + req[c].size) % Wrap
    BY DEF MallocMove
  <2>2. loc = mem_free_loc /\ new = mem_free_loc
    BY <1>1, <1>2, <2>1 DEF ReadTrue
  <2>3. mem_free_loc \in Nat /\ req[c].size \in Nat /\ mem_free_size \in Nat
        /\ mem_start \in Nat /\ mem_size \in Nat
    BY <1>1 DEF HeapInv, HeapType, Requests
  <2>4. req[c].size <= mem_free_size /\ mem_free_loc + mem_free_size < Wrap
    <3>1. \A d \in Callers : req[d].to # "shrink"
      BY <1>1, <1>2 DEF Alone, Under
    <3> QED BY <1>1, <1>2, <3>1 DEF ReadTrue, HeapUsed, Fits, Under
  <2>5. mem_free_loc + req[c].size \in Nat /\ mem_free_loc + req[c].size < Wrap
    BY <2>3, <2>4 DEF HeapAssumption
  <2>6. mem_free_loc' = mem_free_loc + req[c].size
    BY <2>1, <2>2, <2>5, SmallMod DEF HeapAssumption
  <2> QED BY <2>2, <2>3, <2>6
<1>4. req[c].size # 0
  BY <1>1, <1>2 DEF ReadTrue, Under, Fits
<1>5. \A d \in Callers : Has(d)' = Has(d)
  BY <1>1 DEF Has
<1>6. \A d \in Callers : \A a \in Has(d) : a \in Int /\ a < mem_free_loc /\ a \notin DOMAIN timer
  BY <1>1, HasPlaces DEF FreshOK
<1>7. \A t \in DOMAIN timer : t \in Int /\ t < mem_free_loc
  BY <1>1 DEF FreshOK, TypeOK, Addresses, HeapAssumption
<1>8. new \in Int /\ new < mem_free_loc' /\ new \notin DOMAIN timer
      /\ \A d \in Callers : new \notin Has(d)
  BY <1>3, <1>4, <1>6, <1>7
<1>9. /\ req'[c].loc = new
      /\ \A d \in Callers : d # c => req'[d].to # "shrink"
  <2>1. req'[c].loc = new
    BY <1>1 DEF HeapInv, HeapType, Requests
  <2>2. \A d \in Callers : d # c => req'[d] = req[d] /\ ~Under(d)
    BY <1>1, <1>2 DEF HeapInv, HeapType, Alone, Under
  <2> QED BY <2>1, <2>2 DEF Under
<1> HIDE DEF new
<1>10. \A t \in DOMAIN timer' : t < mem_free_loc'
  BY <1>1, <1>3, <1>7
<1>11. \A d \in Callers : \A a \in Has(d)' : a < mem_free_loc' /\ a \notin DOMAIN timer'
  BY <1>1, <1>3, <1>5, <1>6
<1>12. \A d, e \in Callers : d # e => Has(d)' \cap Has(e)' = {}
  BY <1>1, <1>5 DEF FreshOK
<1>13. \A d \in Callers :
          req'[d].to = "shrink" => /\ req'[d].loc < mem_free_loc'
                                   /\ req'[d].loc \notin DOMAIN timer'
                                   /\ \A e \in Callers : req'[d].loc \notin Has(e)'
  BY <1>1, <1>5, <1>8, <1>9
<1> QED BY <1>10, <1>11, <1>12, <1>13 DEF FreshOK

(* The call that asked for it has it then.                                 *)
LEMMA FreshTaken ==
  ASSUME HeapInv, TypeOK, TimerInv, CallsOK, FreshOK, NEW c \in Callers, TakeEnd(c)
  PROVE  FreshOK'
<1> SUFFICES ASSUME ~torn' PROVE FreshOK'
  BY DEF FreshOK
<1> DEFINE new == req[c].loc
<1>1. /\ ~torn /\ req[c].to = "shrink" /\ req' = [req EXCEPT ![c] = NoReq]
      /\ at[c] = "make" /\ UNCHANGED <<timer, mem_free_loc>>
  BY DEF TakeEnd, MallocShrink, Making, timerVars
<1>2. Alone
  BY <1>1 DEF HeapInv
<1>3. \A d \in Callers : req'[d].to # "shrink"
  <2>1. req'[c].to = "call"
    BY <1>1 DEF HeapInv, HeapType, NoReq
  <2>2. \A d \in Callers : d # c => req'[d] = req[d] /\ ~Under(d)
    BY <1>1, <1>2 DEF HeapInv, HeapType, Alone, Under
  <2> QED BY <2>1, <2>2 DEF Under
<1>4. Has(c)' \subseteq Has(c) \cup {new}
  <2>1. CASE req[c].loc = NULL
    <3>1. at'[c] = "user"
      BY <2>1 DEF TakeEnd, Fails, TypeOK
    <3> QED BY <3>1 DEF Has
  <2>2. CASE req[c].loc # NULL
    <3>1. op[c].got \in Seq(Places)
      BY <1>1 DEF CallsOK, MakeOK, Taken
    <3>2. at'[c] = "make" /\ op'[c].got = Append(op[c].got, new)
      BY <1>1, <2>2 DEF TakeEnd, Got, TimerInv
    <3>3. DOMAIN op'[c].got = DOMAIN op[c].got \cup {Len(op[c].got) + 1}
      BY <3>1, <3>2
    <3>4. \A i \in DOMAIN op[c].got : op'[c].got[i] = op[c].got[i]
      BY <3>1, <3>2
    <3>5. op'[c].got[Len(op[c].got) + 1] = new
      BY <3>1, <3>2
    <3> QED BY <1>1, <3>3, <3>4, <3>5 DEF Has
  <2> QED BY <2>1, <2>2
<1>5. ASSUME NEW d \in Callers, d # c PROVE Has(d)' = Has(d)
  <2>1. at'[d] = at[d] /\ op'[d] = op[d]
    BY <1>5 DEF TakeEnd, Fails, Got, TypeOK, TimerInv
  <2> QED BY <2>1 DEF Has
<1>6. /\ new < mem_free_loc /\ new \notin DOMAIN timer
      /\ \A d \in Callers : new \notin Has(d)
      /\ \A d \in Callers : \A a \in Has(d) : a < mem_free_loc /\ a \notin DOMAIN timer
      /\ \A t \in DOMAIN timer : t < mem_free_loc
      /\ \A d, e \in Callers : d # e => Has(d) \cap Has(e) = {}
  BY <1>1 DEF FreshOK
<1>7. \A d \in Callers : d # c => Has(d)' = Has(d)
  BY <1>5
<1> HIDE DEF new
<1>8. ASSUME NEW d \in Callers, NEW a \in Has(d)'
      PROVE  a < mem_free_loc /\ a \notin DOMAIN timer
  <2>1. a \in Has(d) \/ a = new
    BY <1>4, <1>7, <1>8
  <2> QED BY <1>6, <2>1
<1>9. ASSUME NEW d \in Callers, NEW e \in Callers, d # e PROVE Has(d)' \cap Has(e)' = {}
  BY <1>4, <1>6, <1>7, <1>9
<1> QED BY <1>1, <1>3, <1>6, <1>8, <1>9 DEF FreshOK

(* Linking a timer moves it from the call that made it to the list.        *)
LEMMA FreshLinked ==
  ASSUME TypeOK, TimerInv, CallsOK, FreshOK, NEW c \in Callers, Link(c)
  PROVE  /\ FreshOK'
         /\ op[c].call = "timer_new" /\ ~torn =>
              op[c].got[1] \in Places /\ op[c].got[1] \notin DOMAIN timer
<1>1. /\ at[c] = "make" /\ at'[c] = "user" /\ UNCHANGED <<mem_free_loc, torn, req>>
      /\ op[c].todo = <<>>
  BY DEF Link, TypeOK, memVars, heapVars
<1>2. ASSUME NEW d \in Callers, d # c PROVE Has(d)' = Has(d)
  <2>1. at'[d] = at[d] /\ op'[d] = op[d]
    BY <1>2 DEF Link, TypeOK, TimerInv
  <2> QED BY <2>1 DEF Has
<1>3. Has(c)' = {}
  BY <1>1 DEF Has
<1>4. CASE op[c].call # "timer_new"
  <2>1. DOMAIN timer' = DOMAIN timer
    BY <1>4 DEF Link, timerVars
  <2> QED BY <1>1, <1>2, <1>3, <1>4, <2>1, FreshStays
<1>5. CASE op[c].call = "timer_new"
  <2> DEFINE a == op[c].got[1]
  <2>1. a \in Places /\ a \in Has(c)
    <3>1. MakeOK(c)
      BY DEF CallsOK
    <3>2. a \in Places
      BY <1>1, <1>5, <3>1, CallTaken
    <3>3. PICK full \in Seq(Parts) : PlanOf(op[c], full) /\ Taken(op[c], full)
      BY <1>1, <3>1 DEF MakeOK
    <3>4. op[c].got \in Seq(Places) /\ Len(op[c].got) \in Nat /\ Len(op[c].got) = Len(full)
      <4>1. op[c].got \in Seq(Places) /\ Len(op[c].got) \in Nat
        BY <3>3, LenProperties DEF Taken
      <4> QED BY <1>1, <3>3, <4>1, RestOfPlan DEF Taken
    <3>5. Len(full) = 1
      BY <1>5, <3>3 DEF PlanOf
    <3>6. 1 \in DOMAIN op[c].got
      BY <3>4, <3>5
    <3> QED BY <1>1, <3>2, <3>6 DEF Has
  <2>2. DOMAIN timer' = DOMAIN timer \cup {a}
    BY <1>5 DEF Link, TimerLink
  <2> HIDE DEF a
  <2>3. ~torn => a \notin DOMAIN timer /\ a < mem_free_loc
    BY <2>1 DEF FreshOK
  <2>4. FreshOK'
    BY <1>1, <1>2, <1>3, <2>1, <2>2, <2>3 DEF FreshOK
  <2> QED BY <2>1, <2>3, <2>4 DEF a
<1> QED BY <1>4, <1>5

-----------------------------------------------------------------------------
(* At start-up the list leads from the timer made last to the first one.   *)
LEMMA ListAtStart ==
  ASSUME HeapAssumption, ObjectsAssumption, Init, mem_size % 4 = 0
  PROVE  ListOK /\ FreshOK
<1>1. HeapInv /\ StartOK /\ ~torn /\ TypeOK
  BY InitStep, ObjectsAtStart DEF Init
<1>2. PICK made \in BootTimers : BootList(made)
  BY DEF Init
<1> DEFINE size == SizeOf["timer"]
           n    == Len(made)
           addr(i) == IF i = 0 THEN NULL ELSE mem_start + (i - 1) * size
<1>3. /\ n \in Nat /\ size \in Nat /\ size # 0
  BY DEF ObjectsAssumption, Kinds
<1>4. /\ blocks = [i \in 1..n |-> [loc |-> addr(i), len |-> size, use |-> "timer"]]
      /\ timers = addr(n)
      /\ timer = [a \in {addr(i) : i \in 1..n} |->
                    LET i == CHOOSE j \in 1..n : addr(j) = a
                    IN  TimerT(a, made[i], addr(i - 1))]
  BY <1>2 DEF BootList
<1>5. addr(0) = NULL
  OBVIOUS
<1> HIDE DEF size, n, addr
<1>6. /\ DOMAIN blocks = 1..n
      /\ \A i \in 1..n : blocks[i].loc = addr(i) /\ blocks[i].len = size
  BY <1>4
<1>7. HeapUsed /\ mem_free_loc \in Nat
  BY <1>1 DEF HeapInv, HeapType
<1>8. DOMAIN timer = {addr(i) : i \in 1..n}
  BY <1>4
<1>9. \A i \in 1..n : addr(i) \in Nat /\ addr(i) + size <= mem_free_loc
  <2>1. ASSUME NEW i \in 1..n PROVE addr(i) \in Nat
    <3>1. addr(i) \in 0..(Wrap - 1)
      BY <1>1, <1>8 DEF TypeOK, Addresses
    <3> QED BY <3>1
  <2> QED BY <1>6, <1>7, <2>1 DEF HeapUsed
<1>10. \A i, j \in 1..n : i < j => addr(i) + size <= addr(j)
  BY <1>6, <1>7 DEF HeapUsed, Before
<1>11. \A i, j \in 1..n : addr(i) = addr(j) => i = j
  BY <1>3, <1>9, <1>10
<1>12. ASSUME NEW i \in 1..n
       PROVE  timer[addr(i)].id = addr(i) /\ timer[addr(i)].next = addr(i - 1)
  <2>1. (CHOOSE j \in 1..n : addr(j) = addr(i)) = i
    BY <1>11
  <2>2. timer[addr(i)] = TimerT(addr(i), made[i], addr(i - 1))
    BY <1>4, <2>1
  <2> QED BY <2>2 DEF TimerT
<1> DEFINE l == [i \in 1..n |-> addr(n + 1 - i)]
<1>13. \A i \in 1..n : n + 1 - i \in 1..n /\ l[i] = addr(n + 1 - i)
  BY <1>3
<1>14. l \in [1..n -> DOMAIN timer]
  BY <1>8, <1>13
<1> HIDE DEF l
<1>15. \A i, j \in 1..n : l[i] = l[j] => i = j
  BY <1>3, <1>11, <1>13
<1>16. ASSUME NEW t \in DOMAIN timer PROVE Valid(t) <=> \E i \in 1..n : l[i] = t
  <2>1. PICK j \in 1..n : t = addr(j)
    BY <1>8
  <2>2. n + 1 - j \in 1..n /\ n + 1 - (n + 1 - j) = j
    BY <1>3
  <2>3. l[n + 1 - j] = t
    BY <1>13, <2>1, <2>2
  <2> QED BY <1>12, <2>1, <2>2, <2>3 DEF Valid
<1>17. timers = IF n = 0 THEN NULL ELSE l[1]
  <2>1. CASE n = 0
    BY <1>4, <1>5, <2>1
  <2>2. CASE n # 0
    <3>1. 1 \in 1..n /\ n + 1 - 1 = n
      BY <1>3, <2>2
    <3> QED BY <1>4, <1>13, <2>2, <3>1
  <2> QED BY <2>1, <2>2
<1>18. ASSUME NEW i \in 1..n
       PROVE  timer[l[i]].next = IF i = n THEN NULL ELSE l[i + 1]
  <2>1. PICK j \in 1..n : j = n + 1 - i /\ j - 1 = n - i
    BY <1>3
  <2>2. timer[l[i]].next = addr(n - i)
    <3>1. timer[addr(j)].next = addr(j - 1)
      BY <1>12
    <3>2. l[i] = addr(j)
      BY <1>13, <2>1
    <3> QED BY <2>1, <3>1, <3>2
  <2>3. CASE i = n
    <3>1. n - i = 0
      BY <1>3, <2>3
    <3> QED BY <1>5, <2>2, <2>3, <3>1
  <2>4. CASE i # n
    <3>1. i + 1 \in 1..n /\ n + 1 - (i + 1) = n - i
      BY <1>3, <2>4
    <3> QED BY <1>13, <2>2, <2>4, <3>1
  <2> QED BY <2>3, <2>4
<1>19. Order(n, l)
  BY <1>3, <1>14, <1>15, <1>16, <1>17, <1>18 DEF Order
<1>20. FreshOK
  <2>1. \A c \in Callers : Has(c) = {}
    BY DEF Init, Has
  <2>2. \A t \in DOMAIN timer : t < mem_free_loc
    BY <1>3, <1>7, <1>8, <1>9
  <2>3. \A c \in Callers : req[c].to # "shrink"
    BY DEF Init, NoReq
  <2> QED BY <2>1, <2>2, <2>3 DEF FreshOK
<1> QED BY <1>19, <1>20 DEF ListOK

(* Only malloc() ever sets torn, and torn and doubled stay set.            *)
LEMMA ListStays ==
  ASSUME ListOK, SameLinks, torn => torn', doubled => doubled'
  PROVE  ListOK'
<1> SUFFICES ASSUME ~torn', ~doubled' PROVE \E m, g : Order(m, g)'
  BY DEF ListOK
<1>1. PICK n, l : Order(n, l)
  BY DEF ListOK
<1> QED BY <1>1, SameOrder

(* A delete of a timer that is not deleted yet keeps the list.             *)
LEMMA ListUnlinked ==
  ASSUME DOMAIN timer \subseteq Places, IsFiniteSet(DOMAIN timer), ListOK, TimerInv,
         NEW t \in DOMAIN timer, NEW r, Typed(r), r.next = timer[t].next,
         Unlink(t, r), torn' = torn
  PROVE  ListOK'
<1> SUFFICES ASSUME ~torn', ~doubled' PROVE \E m, g : Order(m, g)'
  BY DEF ListOK
<1>1. ~doubled /\ Valid(t)
  BY DEF Unlink
<1>2. PICK n, l : Order(n, l)
  BY <1>1 DEF ListOK
<1> QED BY <1>1, <1>2, UnlinkOrder DEF TimerInv

(* The clock's handler keeps the list, whatever the timers' functions do.  *)
LEMMA TicList ==
  ASSUME DOMAIN timer \subseteq Places, IsFiniteSet(DOMAIN timer), ListOK, TypeOK,
         TimerInv, Tic
  PROVE  ListOK'
<1>1. torn' = torn
  BY DEF Tic, TicBegin, TicStep, TicEnd, memVars
<1>2. CASE TicBegin \/ TicEnd
  BY <1>1, <1>2, ListStays DEF TicBegin, TicEnd, SameLinks
<1>3. CASE TicStep
  <2> DEFINE r == timer[walk]
             k == (r.tics_now - 1) % Wrap
             x == Expired(r)
  <2>1. walk \in DOMAIN timer /\ Typed(r)
    BY <1>3 DEF TicStep, TypeOK, TimerInv
  <2>2. ASSUME NEW y, y.id = r.id, y.next = r.next,
               timer' = [timer EXCEPT ![walk] = y], UNCHANGED <<timers, doubled>>
        PROVE  ListOK'
    <3>1. SameLinks
      BY <2>1, <2>2 DEF SameLinks
    <3> QED BY <1>1, <2>2, <3>1, ListStays
  <2>3. CASE UNCHANGED <<timer, timers, doubled>>
    BY <1>1, <2>3, ListStays DEF SameLinks
  <2>4. CASE timer' = [timer EXCEPT ![walk].tics_now = k] /\ UNCHANGED <<timers, doubled>>
    <3> DEFINE y == [r EXCEPT !.tics_now = k]
    <3>1. y.id = r.id /\ y.next = r.next
      BY <2>1 DEF Typed, Fields
    <3>2. timer' = [timer EXCEPT ![walk] = y]
      BY <2>4
    <3> HIDE DEF y
    <3> QED BY <2>2, <2>4, <3>1, <3>2
  <2>5. CASE Call(walk, x)
    <3>1. Typed(x) /\ x.id = r.id /\ x.next = r.next
      BY <2>1 DEF Expired, Typed, Fields
    <3> HIDE DEF x, r
    <3>2. CASE timer' = [timer EXCEPT ![walk] = x] /\ UNCHANGED <<timers, doubled>>
      BY <2>2, <3>1, <3>2
    <3>3. CASE /\ timer' = [timer EXCEPT ![walk] = [x EXCEPT
                     !.tics_now = IF @ = 0 THEN x.tics ELSE @, !.active = TRUE]]
               /\ UNCHANGED <<timers, doubled>>
      <4> DEFINE y == [x EXCEPT !.tics_now = IF @ = 0 THEN x.tics ELSE @, !.active = TRUE]
      <4>1. y.id = x.id /\ y.next = x.next
        BY <3>1 DEF Typed, Fields
      <4> HIDE DEF y
      <4>2. timer' = [timer EXCEPT ![walk] = y]
        BY <3>3 DEF y
      <4> QED BY <2>2, <3>1, <3>3, <4>1, <4>2
    <3>4. CASE /\ timer' = [timer EXCEPT ![walk] = [x EXCEPT !.active = FALSE]]
               /\ UNCHANGED <<timers, doubled>>
      <4> DEFINE y == [x EXCEPT !.active = FALSE]
      <4>1. y.id = x.id /\ y.next = x.next
        BY <3>1 DEF Typed, Fields
      <4> HIDE DEF y
      <4>2. timer' = [timer EXCEPT ![walk] = y]
        BY <3>4 DEF y
      <4> QED BY <2>2, <3>1, <3>4, <4>1, <4>2
    <3>5. CASE Unlink(walk, x)
      BY <1>1, <2>1, <3>1, <3>5, ListUnlinked DEF r
    <3> QED BY <2>5, <3>2, <3>3, <3>4, <3>5 DEF Call
  <2> QED BY <1>3, <2>3, <2>4, <2>5 DEF TicStep
<1> QED BY <1>2, <1>3 DEF Tic

(* The heap keeps its size.                                                *)
LEMMA HeapSizeStays ==
  ASSUME [Next]_vars
  PROVE  mem_size' = mem_size
<1>1. CASE UNCHANGED memVars
  BY <1>1 DEF memVars, heapVars
<1>2. ASSUME NEW c \in Callers, NEW n, NEW use, MallocCheck(c, n, use)
      PROVE  mem_size' = mem_size
  BY <1>2 DEF MallocCheck, heapVars
<1>3. ASSUME NEW c \in Callers, MallocRead(c) \/ MallocMove(c) \/ MallocShrink(c)
      PROVE  mem_size' = mem_size
  BY <1>3 DEF MallocRead, MallocMove, MallocShrink, heapVars
<1> QED BY <1>1, <1>2, <1>3, HeapSteps

(* Every step keeps the list and what is known of the memory of its next   *)
(* timers.                                                                 *)
LEMMA ListStep ==
  ASSUME HeapAssumption, ObjectsAssumption, mem_size % 4 = 0,
         HeapInv, TimerInv, TypeOK, CallsOK, FreshOK, ListOK, [Next]_vars
  PROVE  FreshOK' /\ ListOK'
<1>1. /\ DOMAIN timer \subseteq Places /\ IsFiniteSet(DOMAIN timer)
      /\ DOMAIN at = Callers /\ DOMAIN op = Callers
  <2>1. IsFiniteSet(Addresses)
    BY FS_Interval DEF Addresses, HeapAssumption
  <2>2. DOMAIN timer \in SUBSET Addresses
    BY DEF TypeOK
  <2> QED BY <2>1, <2>2, FS_Subset DEF TypeOK, Places, TimerInv
<1>2. ASSUME DOMAIN timer' = DOMAIN timer, UNCHANGED <<mem_free_loc, callVars>>,
             torn => torn',
             \A c \in Callers : req'[c].to = "shrink" => req'[c] = req[c]
      PROVE  FreshOK'
  <2>1. \A c \in Callers : Has(c)' \subseteq Has(c)
    BY <1>2 DEF Has, callVars
  <2> QED BY <1>2, <2>1, FreshStays
<1>3. ASSUME NEW c \in Callers, NEW p, at' = [at EXCEPT ![c] = p],
             op' = op \/ \E x : op' = [op EXCEPT ![c] = x],
             p = "make" => op'[c].got = <<>>,
             DOMAIN timer' = DOMAIN timer, UNCHANGED <<mem_free_loc, torn, req>>
      PROVE  FreshOK'
  <2>1. at'[c] = p
    BY <1>1, <1>3
  <2>2. Has(c)' = {}
    <3>1. CASE p = "make"
      <4>1. DOMAIN op'[c].got = {}
        BY <1>3, <3>1
      <4> QED BY <2>1, <4>1 DEF Has
    <3>2. CASE p # "make"
      BY <2>1, <3>2 DEF Has
    <3> QED BY <3>1, <3>2
  <2>3. ASSUME NEW d \in Callers, d # c PROVE Has(d)' = Has(d)
    <3>1. at'[d] = at[d] /\ op'[d] = op[d]
      BY <1>1, <1>3, <2>3
    <3> QED BY <3>1 DEF Has
  <2> QED BY <1>3, <2>2, <2>3, FreshStays
<1>4. ASSUME UNCHANGED <<timers, timer, doubled>>, torn => torn' PROVE ListOK'
  BY <1>4, ListStays DEF SameLinks
<1>5. CASE UNCHANGED vars
  BY <1>2, <1>4, <1>5 DEF vars, memVars, heapVars, timerVars
<1>6. CASE Tic
  <2>1. DOMAIN timer' = DOMAIN timer
    BY <1>6, TicTimers DEF Same
  <2>2. UNCHANGED <<mem_free_loc, torn, callVars, req>>
    BY <1>6 DEF Tic, TicBegin, TicStep, TicEnd, memVars, heapVars
  <2> QED BY <1>1, <1>2, <1>6, <2>1, <2>2, TicList
<1>7. ASSUME NEW c \in Callers, Create(c) PROVE FreshOK' /\ ListOK'
  <2>1. PICK call, todo, with : Begin(c, call, todo, with)
    BY <1>7 DEF Create
  <2>2. /\ UNCHANGED <<timers, timer, doubled, torn, mem_free_loc, req>>
        /\ at' = [at EXCEPT ![c] = "make"]
        /\ op' = [op EXCEPT ![c] = [call |-> call, todo |-> todo, with |-> with,
                                    got |-> <<>>]]
    BY <2>1 DEF Begin, timerVars, memVars, heapVars
  <2>3. op'[c].got = <<>>
    BY <1>1, <2>2
  <2>4. FreshOK'
    BY <1>3, <2>2, <2>3
  <2> QED BY <1>4, <2>2, <2>4
<1>8. ASSUME NEW c \in Callers, IntConfig(c) PROVE FreshOK' /\ ListOK'
  BY <1>2, <1>4, <1>8 DEF IntConfig, timerVars, memVars, heapVars
<1>9. ASSUME NEW c \in Callers, OnTimer(c) PROVE FreshOK' /\ ListOK'
  <2>1. ASSUME NEW t \in DOMAIN timer, TimerStart(c, t) PROVE FreshOK' /\ ListOK'
    <3>1. PICK p \in {"load", "activate"} : at' = [at EXCEPT ![c] = p]
      BY <2>1 DEF TimerStart
    <3>2. FreshOK'
      BY <1>3, <2>1, <3>1 DEF TimerStart, timerVars, memVars, heapVars
    <3> QED BY <1>4, <2>1, <3>2 DEF TimerStart, timerVars, memVars
  <2>2. ASSUME NEW t \in DOMAIN timer, TimerDelete(c, t) PROVE FreshOK' /\ ListOK'
    <3>1. FreshOK'
      BY <1>3, <2>2 DEF TimerDelete, timerVars, memVars, heapVars
    <3> QED BY <1>4, <2>2, <3>1 DEF TimerDelete, timerVars, memVars
  <2>3. ASSUME NEW t \in DOMAIN timer, TimerStop(c, t) PROVE FreshOK' /\ ListOK'
    <3> DEFINE y == [timer[t] EXCEPT !.active = FALSE]
    <3>1. y.id = timer[t].id /\ y.next = timer[t].next
      BY DEF TimerInv, Typed, Fields
    <3>2. timer' = [timer EXCEPT ![t] = y]
          /\ UNCHANGED <<callVars, timers, doubled, torn, mem_free_loc, req>>
      BY <2>3 DEF TimerStop, memVars, heapVars
    <3> HIDE DEF y
    <3>3. SameLinks
      BY <3>1, <3>2 DEF SameLinks
    <3> QED BY <1>2, <3>2, <3>3, ListStays
  <2> QED BY <1>9, <2>1, <2>2, <2>3 DEF OnTimer
<1>10. ASSUME NEW c \in Callers, GiveUp(c) PROVE FreshOK' /\ ListOK'
  <2>1. FreshOK'
    BY <1>3, <1>10 DEF GiveUp, Fails, timerVars, memVars, heapVars
  <2> QED BY <1>4, <1>10, <2>1 DEF GiveUp, timerVars, memVars
<1>11. ASSUME NEW c \in Callers, Take(c) PROVE FreshOK' /\ ListOK'
  <2>1. UNCHANGED <<callVars, timers, timer, doubled>> /\ req[c] \in Requests
        /\ DOMAIN req = Callers
    BY <1>11 DEF Take, timerVars, HeapInv, HeapType
  <2>2. CASE MallocMove(c)
    BY <1>4, <1>11, <2>1, <2>2, FreshMoved DEF MallocMove
  <2>3. CASE \E n, use : MallocCheck(c, n, use)
    <3>1. PICK n, use : MallocCheck(c, n, use)
      BY <2>3
    <3>2. UNCHANGED mem_free_loc /\ (torn => torn')
      BY <3>1 DEF MallocCheck, heapVars
    <3>3. \A d \in Callers : req'[d].to = "shrink" => req'[d] = req[d]
      BY <2>1, <3>1 DEF MallocCheck
    <3> QED BY <1>2, <1>4, <2>1, <3>2, <3>3
  <2>4. CASE MallocRead(c)
    <3>1. UNCHANGED <<mem_free_loc, torn>>
      BY <2>4 DEF MallocRead, heapVars
    <3>2. \A d \in Callers : req'[d].to = "shrink" => req'[d] = req[d]
      BY <2>1, <2>4 DEF MallocRead, Requests
    <3> QED BY <1>2, <1>4, <2>1, <3>1, <3>2
  <2> QED BY <1>11, <2>2, <2>3, <2>4 DEF Take
<1>12. ASSUME NEW c \in Callers, TakeEnd(c) PROVE FreshOK' /\ ListOK'
  BY <1>4, <1>12, FreshTaken DEF TakeEnd, MallocShrink, timerVars
<1>13. ASSUME NEW c \in Callers, Link(c) PROVE FreshOK' /\ ListOK'
  <2>1. FreshOK' /\ torn' = torn
    BY <1>13, FreshLinked DEF Link, memVars
  <2>2. CASE op[c].call # "timer_new"
    BY <1>4, <1>13, <2>1, <2>2 DEF Link, timerVars
  <2>3. CASE op[c].call = "timer_new"
    <3> SUFFICES ASSUME ~torn', ~doubled' PROVE \E m, g : Order(m, g)'
      BY <2>1 DEF ListOK
    <3>1. PICK a, k : a = op[c].got[1] /\ k = op[c].with
      OBVIOUS
    <3>2. TimerLink(a, k) /\ a \in Places /\ a \notin DOMAIN timer
      BY <1>13, <2>1, <2>3, <3>1, FreshLinked DEF Link
    <3>3. PICK n, l : Order(n, l)
      BY <2>1, <3>2 DEF ListOK, TimerLink
    <3> QED BY <1>1, <3>2, <3>3, LinkOrder
  <2> QED BY <2>1, <2>2, <2>3
<1>14. ASSUME NEW c \in Callers, TimerUnlink(c) PROVE FreshOK' /\ ListOK'
  <2>1. op[c] \in DOMAIN timer
    BY <1>14 DEF TimerUnlink, CallsOK, TimeOK
  <2>2. DOMAIN timer' = DOMAIN timer /\ UNCHANGED <<torn, mem_free_loc, req>>
    BY <1>14 DEF TimerUnlink, Unlink, memVars, heapVars
  <2>3. FreshOK'
    BY <1>3, <1>14, <2>2 DEF TimerUnlink
  <2>4. PICK t, r : t = op[c] /\ r = timer[op[c]]
    OBVIOUS
  <2>5. Typed(r) /\ r.next = timer[t].next /\ Unlink(t, r)
    BY <1>14, <2>1, <2>4 DEF TimerUnlink, TimerInv
  <2> QED BY <1>1, <2>1, <2>2, <2>3, <2>4, <2>5, ListUnlinked
<1>15. ASSUME NEW c \in Callers, TimerLoad(c) \/ TimerActivate(c) PROVE FreshOK' /\ ListOK'
  <2> DEFINE t == op[c]
             y == [timer[t] EXCEPT !.tics_now = timer[t].tics]
             z == [timer[t] EXCEPT !.active = TRUE]
  <2>1. t \in DOMAIN timer
    BY <1>15 DEF TimerLoad, TimerActivate, CallsOK, TimeOK
  <2>2. /\ y.id = timer[t].id /\ y.next = timer[t].next
        /\ z.id = timer[t].id /\ z.next = timer[t].next
    BY <2>1 DEF TimerInv, Typed, Fields
  <2>3. /\ timer' = [timer EXCEPT ![t] = y] \/ timer' = [timer EXCEPT ![t] = z]
        /\ UNCHANGED <<timers, doubled, torn, mem_free_loc, op, req>>
    BY <1>15 DEF TimerLoad, TimerActivate, memVars, heapVars
  <2> HIDE DEF y, z
  <2>4. SameLinks
    BY <2>1, <2>2, <2>3 DEF SameLinks
  <2>5. PICK p \in {"activate", "user"} : at' = [at EXCEPT ![c] = p]
    BY <1>15 DEF TimerLoad, TimerActivate
  <2>6. FreshOK'
    BY <1>3, <2>3, <2>4, <2>5 DEF SameLinks
  <2> QED BY <2>3, <2>4, <2>6, ListStays
<1> QED
  BY <1>5, <1>6, <1>7, <1>8, <1>9, <1>10, <1>11, <1>12, <1>13, <1>14, <1>15
  DEF Next, Starts, Continues

(* In every system, following the list of timers leads to its end, and     *)
(* through exactly the timers that were not deleted: whatever calls the    *)
(* tasks make and whatever the functions of the timers do, until a         *)
(* malloc(), or the delete of a timer, is overtaken by another.            *)
THEOREM ListOfTimersSound ==
  ASSUME HeapAssumption, ObjectsAssumption
  PROVE  Spec => []ListSound
<1> DEFINE IInv == mem_size % 4 = 0 => FreshOK /\ ListOK
<1>1. Init => IInv
  BY ListAtStart
<1>2. IInv /\ HeapInv /\ TimerInv /\ TypeOK /\ CallsOK /\ [Next]_vars => IInv'
  BY ListStep, HeapSizeStays
<1>3. IInv /\ TypeOK => ListSound
  <2> SUFFICES ASSUME ListOK, TypeOK, ~torn, ~doubled
               PROVE  Ends /\ OnList = {t \in DOMAIN timer : Valid(t)}
    BY DEF ListSound, NoOverlap, W
  <2>1. PICK n, l : Order(n, l)
    BY DEF ListOK
  <2>2. DOMAIN timer \subseteq Places /\ IsFiniteSet(DOMAIN timer)
    <3>1. IsFiniteSet(Addresses)
      BY FS_Interval DEF Addresses, HeapAssumption
    <3>2. DOMAIN timer \in SUBSET Addresses
      BY DEF TypeOK
    <3> QED BY <3>1, <3>2, FS_Subset DEF TypeOK, Places
  <2> QED BY <2>1, <2>2, ListWalk
<1> QED
  BY <1>1, <1>2, <1>3, HeapInvariant, TimerInvariant, ObjectsInvariant, PTL DEF Spec
=============================================================================
