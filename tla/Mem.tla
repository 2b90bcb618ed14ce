-------------------------------- MODULE Mem ---------------------------------
(***************************************************************************)
(* The heap (kernel/mem.c).  Memory is handed out from the bottom up and   *)
(* never taken back: free() does nothing.  malloc() runs with interrupts   *)
(* enabled and is four steps: it compares, reads, and writes two fields.   *)
(***************************************************************************)
EXTENDS Integers, Sequences

CONSTANTS
  Callers,    \* who calls malloc()
  Wrap,       \* 2^w for the width w of a usys: unsigned arithmetic is % Wrap
  Heaps       \* the <<mem_start, size>> that os_init() may be given

W == 4        \* sizeof (usys)

(* A heap is at least a word, and ends below the last address.             *)
ASSUME HeapAssumption ==
  /\ Wrap \in Nat /\ Wrap > W /\ Wrap % W = 0
  /\ Heaps \subseteq Nat \X Nat
  /\ \A h \in Heaps : h[2] >= W /\ h[1] + h[2] + W < Wrap

VARIABLES
  mem_start, mem_size,            \* kernel_t
  mem_free_loc, mem_free_size,    \* kernel_t
  at,        \* where each caller is: in its own code, or in a call
  op,        \* the arguments and locals of the call it is in
  req,       \* the malloc() it is in: what that has read, and does next
  blocks,    \* history: the blocks handed out, in order
  torn       \* history: a malloc() began while another one was under way

heapVars == <<mem_start, mem_size, mem_free_loc, mem_free_size>>
memVars  == <<heapVars, req, blocks, torn>>
callVars == <<at, op>>

NULL  == 0
Uses  == {"user", "sem", "timer", "task", "box", "buf"}
NoReq == [to |-> "call", size |-> 0, len |-> 0, use |-> "user", loc |-> 0, left |-> 0]

(* mem_init(mem_start, size), when it returns GOOD.  What is free is all.  *)
MemInit(start, size) ==
  LET delta == IF start % W = 0 THEN 0 ELSE W - (start % W)
  IN  /\ start # 0 /\ size # 0
      /\ mem_start = start + delta
      /\ mem_size = (size - delta) % Wrap

RoundUp(n) == IF n % W = 0 THEN n ELSE n + (W - (n % W))

Refused_Bug(n) == n = 0 \/ n > mem_size
Refused(n) == n = 0 \/ n > mem_free_size

(* malloc(n): the size is compared with what is left before it is rounded, *)
(* ...                                                                     *)
Under(c) == req[c].to # "call"
Overlaps(c) == \E d \in Callers \ {c} : Under(d)

MallocCheck(c, n, use) ==
  /\ n \in Nat /\ use \in Uses
  /\ ~Under(c) /\ ~Refused(n)
  /\ req' = [req EXCEPT ![c] = [to |-> "read", size |-> RoundUp(n), len |-> n, use |-> use,
                                loc |-> NULL, left |-> mem_free_size]]
  /\ torn' = (torn \/ Overlaps(c))
  /\ UNCHANGED <<heapVars, blocks>>

(* ... the block is where the free memory begins, ...                      *)
MallocRead(c) ==
  /\ req[c].to = "read"
  /\ req' = [req EXCEPT ![c].loc = mem_free_loc, ![c].to = "move"]
  /\ UNCHANGED <<heapVars, blocks, torn>>

(* ... which moves on, ...                                                 *)
MallocMove_Bug(c) ==
  /\ req[c].to = "move"
  /\ mem_free_loc' = (req[c].loc + W) % Wrap
  /\ req' = [req EXCEPT ![c].to = "shrink"]
  /\ UNCHANGED <<mem_start, mem_size, mem_free_size, blocks, torn>>
MallocMove(c) ==
  /\ req[c].to = "move"
  /\ \E loc \in {req[c].loc, mem_free_loc} :
        mem_free_loc' = (loc + req[c].size) % Wrap
  /\ req' = [req EXCEPT ![c].to = "shrink"]
  /\ UNCHANGED <<mem_start, mem_size, mem_free_size, blocks, torn>>

(* ... and there is less of it.  Both fields are updated from what was     *)
(* read of them before, or are read once more: the compiler may do either. *)
MallocShrink(c) ==
  /\ req[c].to = "shrink"
  /\ \E left \in {req[c].left, mem_free_size} :
        mem_free_size' = (left - req[c].size) % Wrap
  /\ blocks' = Append(blocks, [loc |-> req[c].loc, len |-> req[c].len,
                               use |-> req[c].use])
  /\ req' = [req EXCEPT ![c] = NoReq]
  /\ UNCHANGED <<mem_start, mem_size, mem_free_loc, torn>>

-----------------------------------------------------------------------------
(* The blocks lie in the heap, and none overlaps another.  Two malloc()    *)
(* that overlap break this, wherever in the one the other comes: interrupts*)
(* are enabled in it, and nothing else keeps a second task out.  So does a *)
(* heap whose size is no multiple of a usys: what is left may then wrap    *)
(* around below 0.                                                         *)
Before(b, d) == b.loc + b.len <= d.loc

BlocksSound ==
  ~torn /\ mem_size % W = 0 =>
    /\ \A i \in DOMAIN blocks : /\ mem_start <= blocks[i].loc
                               /\ blocks[i].loc + blocks[i].len <= mem_start + mem_size
    /\ \A i, j \in DOMAIN blocks : i < j => Before(blocks[i], blocks[j])
=============================================================================
