-------------------------------- MODULE Pci ---------------------------------
(***************************************************************************)
(* The PCI configuration space (devices/pci.c) behind its two ports        *)
(* (boards/pc/devices.c): one is told the register, the other one reads or *)
(* writes it.  Two tasks use it; "hi" is the more urgent one and may come  *)
(* between any two accesses of "lo".  A register is its four bytes.        *)
(***************************************************************************)
EXTENDS Cli

CONSTANTS
  Functions,   \* the <<bus, device, function>> that are there
  Callers,     \* the calls: [op, size, fn, addr, val], val being the bytes to write
  Bytes        \* the values of a byte that is read at first

VARIABLES
  port,        \* what 0xcf8 was told last
  regs,        \* the registers of the functions that are there
  call,        \* what each task has called
  at,          \* how far it is
  data,        \* what it has read
  wanted,      \* history: the bytes as the calls should have left them
  answer,      \* history: what a read has just returned, and what it should have
  mixed        \* history: an access of one task met the other one's

pciVars == <<port, regs, call, at, data, wanted, answer, mixed>>

Users == {"lo", "hi"}
Idle == [op |-> "none"]
Ones == [b \in 0..3 |-> 255]

(* What get_addr() leaves of a bus, device, function and register number.  *)
GetAddr_Bug(x) ==
  [fn |-> <<x.fn[1] % 256, x.fn[2] % 32, x.fn[3] % 8>>, addr |-> x.addr % 256]
GetAddr(x) ==
  [fn   |-> <<x.fn[1] % 256, x.fn[2] % 32, x.fn[3] % 8>>,
   addr |-> (x.addr % 256) - (x.addr % 4)]

In(p) == IF p \in DOMAIN regs THEN regs[p] ELSE Ones

(* The bytes that are shifted down and masked, and the ones put in place.  *)
Cut(x, word) == [b \in 0..(x.size - 1) |->
                   IF (x.addr % 4) + b > 3 THEN 0 ELSE word[(x.addr % 4) + b]]
Merge_Bug(x, word) == [b \in 0..3 |-> IF b \in 0..(x.size - 1) THEN x.val[b] ELSE word[b]]
Merge(x, word) ==
  [b \in 0..3 |-> LET k == b - (x.addr % 4)
                  IN  IF k \in 0..(x.size - 1) THEN x.val[k] ELSE word[b]]

Runs(t) == t = "hi" \/ at["hi"] = "done"
Goes(t, from, to) == Runs(t) /\ at[t] = from /\ at' = [at EXCEPT ![t] = to]

(* What a call is about, byte by byte: the reference.                      *)
Mine(x) == [b \in 0..(x.size - 1) |-> <<GetAddr(x).fn, (x.addr % 256) + b>>]
Right(x) == [b \in 0..(x.size - 1) |->
               IF Mine(x)[b] \in DOMAIN wanted THEN wanted[Mine(x)[b]] ELSE 255]

PciCall(t, x) ==
  /\ Goes(t, "done", IF x.op = "w" /\ x.size = 4 THEN "waddr" ELSE "raddr")
  /\ call' = [call EXCEPT ![t] = x]
  /\ UNCHANGED <<port, regs, data, wanted, answer, mixed>>

(* pci_read(): out32(0xcf8), in32(0xcfc).                                  *)
ReadAddr_Bug(t) ==
  /\ Goes(t, "raddr", "rdata")
  /\ port' = IF at["lo"] = "rdata" THEN port ELSE GetAddr(call[t])
  /\ UNCHANGED <<regs, call, data, wanted, answer, mixed>>
ReadAddr(t) ==
  /\ Goes(t, "raddr", "rdata")
  /\ port' = GetAddr(call[t])
  /\ UNCHANGED <<regs, call, data, wanted, answer, mixed>>
ReadData(t) ==
  /\ Goes(t, "rdata", IF call[t].op = "r" THEN "done" ELSE "waddr")
  /\ data' = [data EXCEPT ![t] = In(port)]
  /\ IF call[t].op = "r"
     THEN answer' = [was |-> Cut(call[t], In(port)), right |-> Right(call[t])]
     ELSE UNCHANGED answer
  /\ mixed' = (mixed \/ port # GetAddr(call[t]))
  /\ UNCHANGED <<port, regs, call, wanted>>

(* pci_write(), of the whole register or of what was read of it.           *)
WriteAddr(t) ==
  /\ Goes(t, "waddr", "wdata")
  /\ port' = GetAddr(call[t])
  /\ UNCHANGED <<regs, call, data, wanted, answer, mixed>>
WriteData(t) ==
  LET x == call[t]
      p == GetAddr(x)
  IN  /\ Goes(t, "wdata", "done")
      /\ regs' = IF port \in DOMAIN regs THEN [regs EXCEPT ![port] = Merge(x, data[t])]
                 ELSE regs
      /\ mixed' = (mixed \/ port # p \/ (x.size < 4 /\ data[t] # In(p)))
      /\ wanted' = [w \in DOMAIN wanted |->
                      IF \E b \in 0..(x.size - 1) : Mine(x)[b] = w
                      THEN x.val[CHOOSE b \in 0..(x.size - 1) : Mine(x)[b] = w]
                      ELSE wanted[w]]
      /\ UNCHANGED <<port, call, data, answer>>

PciTask(t) == ReadAddr(t) \/ ReadData(t) \/ WriteAddr(t) \/ WriteData(t)

PciInit ==
  /\ \E f \in [Functions \X {0, 4} -> Bytes] :
       /\ regs = [p \in [fn : Functions, addr : {0, 4}] |->
                    [b \in 0..3 |-> f[p.fn, p.addr]]]
       /\ wanted = [w \in Functions \X (0..7) |-> f[w[1], w[2] - (w[2] % 4)]]
  /\ port \in [fn : Functions, addr : {0}]
  /\ call = [t \in Users |-> Idle] /\ at = [t \in Users |-> "done"]
  /\ data = [t \in Users |-> Ones]
  /\ answer = [was |-> <<>>, right |-> <<>>] /\ mixed = FALSE

-----------------------------------------------------------------------------
(* As long as the two tasks did not meet, a read returns the bytes that    *)
(* were asked for and a write has changed those and no other ones          *)
(* (pci_r8() to pci_w32()).                                                *)
PciRight ==
  mixed \/
  (/\ answer.was = answer.right
   /\ (at["lo"] = "done" /\ at["hi"] = "done") =>
        \A w \in DOMAIN wanted :
          regs[[fn |-> w[1], addr |-> w[2] - (w[2] % 4)]][w[2] % 4] = wanted[w])
=============================================================================
