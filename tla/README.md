# Akalon: models and proofs

Akalon is a small preemptive real-time kernel in C for one processor (IA-32 PC, ARM
AT91SAM9, Raspberry Pi), with drivers, a terminal module, a command line and the
beginnings of a network stack. This directory holds TLA+ modules of the kernel, the
drivers and the modules above them, TLC configurations that check them on small systems,
and proofs that TLAPS checks for systems of every size. Paths below are relative to the
repository (`src/`).

Contents: 1 the system, 2 the modules, 3 how the model relates to the code,
4 the runs, 5 bounds and fairness, 6 the disagreements, 7 the proofs, 8 what is
not modelled, 9 what could follow.

## 1. The system

| Component | State | Operations | What is hard | What makes it correct |
|---|---|---|---|---|
| Task scheduler and queue (`kernel/task.c`) | `kernel.task_q`, a list of TCBs in order of priority; `tcb.state` | find the first ready TCB, switch, add, remove, clean up deleted tasks, the start and end of a task | it trusts its callers to have interrupts off and to have set the caller's own state | only the current task is marked as running; the queue is ordered, complete and without duplicates; nothing returns from a finished task |
| Task API (`kernel/task_api.c`) | TCB: `state`, `timer_active`, `time_count`, `time_out` | `task_new`, `task_delete`, `task_delay`, `task_sleep`, `task_wake` | `task_wake` runs with interrupts enabled; `task_delete` changes one word and leaves timers alone | a deleted task stays deleted; a delay lasts as long as asked |
| Semaphores (`kernel/sem.c`) | `count_now`, `count_max`; TCB: `wait_id`, `got_resource` | `sem_new`, `sem_get` with a time-out, `sem_give` | the giver races the time-out; the giver may be an interrupt handler and may switch inside it | units are conserved; nobody waits for what is there; the most urgent waiter is served |
| Message boxes (`kernel/msgs.c`) | `num_msgs` and a ring per task | `msg_get` with a time-out, `msg_send` | the receiver is made ready whatever it waits for; the count is not looked at again after a wait; making a box may fail half way | a receiver finds a message; the box never overflows |
| Interrupts (`kernel/int.c`, `cpu/*/asm.s`) | `kernel.int_mode`, the processor's flag, saved per task | entry, `int_run`, exit | handlers run on the stack of whatever task they interrupt; a handler that makes a switching call is suspended with that task | the most urgent ready task runs after every interrupt; flags are right after every call |
| Timers and time-outs (`kernel/timer.c`) | a list of timers; the time-out fields of the TCBs | new, delete, start, stop, tic | the list is walked by the clock's handler | a time-out is neither early nor lost |
| Memory (`kernel/mem.c`) | one moving pointer | `malloc`, `free` (does nothing) | called with interrupts enabled, and two fields to update | blocks lie in the heap and do not overlap |
| Idle task and start-up (`kernel/kernel.c`) | priority of the idle task | `os_init`, `task_idle` | creation of tasks at priority 0, then the drop to the lowest | deleted tasks leave the queue |
| Links, boards (`kernel/link.c`, `boards/*/bsp.c`, `devices.c`) | function pointers, set at start-up | link two parts; the handlers that call the drivers' | which driver the standard I/O has differs from board to board | the same modules work over every driver |
| Standard I/O (`modules/stdio/stdio_init.c`) | two rings of characters, a semaphore for each and one for writers | `putchar`, `getchar`, `rx_func`, the output task | writers, the output task and the driver's task switch at every call | no character lost, doubled or reordered; what is put goes out |
| UARTs (`devices/16550a.c`, `boards/*/serial.c`) | two rings with three indexes, the device's FIFOs and enable bits | `tx_func`, receive and transmit tasks, handler, start-up | tasks sleep on conditions that handlers change; enable bits are read, changed and written back; full rings look like empty ones | nothing overwritten; the receiver comes back; places are neither lost nor doubled |
| Keyboard (`devices/keyboard.c`) | one scan code; shift and Caps Lock | handler, task, translation of keys | the next key may come before the last was taken | a key is handed on, as the character it stands for |
| Ethernet (`boards/sam9-l9260/atmel_emac.c`) | descriptors shared with the controller, a `net_buf_t` for each | receive task, handler, `dev_buf_free`, `tx_func` | controller, handler and two tasks change the same descriptors with interrupts enabled | every buffer has one owner; frames stay whole and in order |
| Network (`modules/net`) | the chain at hand, one packet to send, the number of the next one | the task that answers ARP and echo requests, and prints | it reads in the driver's buffers and gives them back piece by piece, and waits for messages and for the output | the answers are those to the frames that came |
| Command line, C library (`modules/cli`, `modules/libs`) | a line buffer | editing, parsing, conversions | boundaries of buffers and of integers | the line run is the line typed; numbers are read and shown as they are |
| Screen, PCI (`boards/pc/dbg_putchar.c`, `devices/pci.c`) | cursor and cells; an address port | show a character; read and write parts of a register | the edges of the screen; a register takes two accesses | the screen shows the line; a write changes its bytes and no other |
| Boot loader, CPU ports, tests | registers | start-up | - | - |

The parts interact through the kernel's API: drivers give semaphores, send
messages or wake tasks from interrupt handlers, and their tasks block in
`sem_get`, `msg_get`, `task_delay` or `task_sleep`.  A character typed at a terminal
goes from the UART to its handler, from there to the driver's receive task, through
a link to the standard I/O's ring and from there to the command line's task; one that
is printed goes the opposite way.  A frame goes from the controller to the Ethernet
driver's task, as a message to the network's task, and an answer back into the
driver; the buffers then go back to the controller.  Everything the API does to
another task it does by changing that task's TCB: the TCBs and `int_mode` are the
shared state of the whole kernel, and are what the first modules are about.
`PROJECT.json` lists every component and, for each line at which something hard
to test can go wrong, the property that would show it.

## 2. The modules

| Module | Models |
|---|---|
| `Task` | The constants, all of the kernel's variables, the scheduling helpers and the start and end of tasks (`task.c`). |
| `Sem` | `sem_get`, `sem_give` (`sem.c`). |
| `Msgs` | `msg_get`, `msg_send` by the number of messages (`msgs.c`). |
| `TaskApi` | `task_new`, `task_delete`, `task_delay`, `task_sleep`, `task_wake` (`task_api.c`). |
| `Int` | Interrupt entry, `int_run`, interrupt exit, and the time-outs that `timer_tic` counts (`int.c`, `timer.c`, `asm.s`). |
| `Kernel` | Start-up and idle task (`kernel.c`, `task_cleanup`), the next-state relation, the fairness, all properties. |
| `KernelRules` | Rules of use: which calls the tasks and handlers of a system may make together.  Hypotheses of theorems, nothing else. |
| `MCKernel` | Small systems: which tasks there are, and which calls they and the handlers make; and which of the systems keep to which rules. |
| `SeqLemmas` | Facts about `InsertAt`, `RemoveAt`, `SubSeq`, `\o` and functions defined by recursion on a number, with proofs. |
| `KernelProofs`, `KernelUseProofs` | The theorems about `Kernel`, with proofs: types, waiters, the running task, the queue and the life of tasks; interrupts, units, messages, time-outs. |
| `Mem` | The heap: `malloc`, `mem_init` (`mem.c`). |
| `Timer` | Timers, their list, and the clock's handler walking it (`timer.c`). |
| `Objects` | Two tasks that make semaphores, timers, message boxes and tasks, use timers, and connect interrupts (`sem_new`, `msgbox_init`, `task_new`, `int_config`). |
| `ObjectsProofs` | The theorems about `Objects`, with proofs: memory, timers and their list. |
| `MsgBox`, `Fifo`, `MsgBoxProofs` | The ring of a message box (`msgs.c`), the queue it promises to be, and the proof that it is. |
| `Sched` | What drivers and modules need of the kernel: semaphores, sleeping and waking, the end of a handler. |
| `Stdio` | The standard I/O and the links it is given (`stdio_init.c`, `link.c`). |
| `Ns16550`, `SamUart`, `PiUart` | The three UART drivers, each with its device; the last two over the first one's variables. |
| `Keyboard` | The keyboard driver's handler and task, and the screen as the PC's output. |
| `Console`, `Channel` | One board with its drivers, the standard I/O and two tasks that use it; and what one direction of it promises. |
| `ConsoleProofs`, `ChannelProofs` | The theorems about `Console`, with proofs: places, types and what is overwritten; the two channels. |
| `Emac` | The Ethernet driver and its controller (`atmel_emac.c`). |
| `NetStack` | The network's task (`modules/net`). |
| `Net` | Both, with the frames on the wire. |
| `NetProofs` | The theorems about `Net`, with proofs. |
| `Libs`, `Keys`, `Screen` | Conversions and words of the C library, the translation of keys, the PC's screen: functions. |
| `Cli` | The command line's task and parser. |
| `Pci` | Register accesses through the PC's two ports. |
| `Pc` | Command line, keys, screen and PCI of the PC. |
| `MCObjects`, `MCConsole`, `MCNet`, `MCPc` | Small instances. |

`Sem`, `Msgs`, `TaskApi` and `Int` each extend `Task`; `Kernel` extends the four.
`KernelUseProofs` extends `KernelProofs`, which extends `Kernel` and `KernelRules`, and
`ChannelProofs` extends `ConsoleProofs`; all of the proofs but `MsgBoxProofs` use
`SeqLemmas`. `Objects` extends `Timer`, which extends `Mem`; `NetProofs` extends `Net`
and `MsgBoxProofs`. `Console` composes `Stdio`, the three UARTs and `Keyboard`, all over
`Sched`; `Net` composes `Emac`, which extends `Sched` and `MsgBox`, with `NetStack`.
`Pc` extends `Pci` and `Cli`, which is over `Keys`, `Libs` and `Screen`.

## 3. How the model relates to the code

**One processor.** `cpu` is the task whose stack is in use: it is what
`task_id_get()` finds by comparing the stack pointer with every TCB.  `pc[t]` is
where `t` is, or where it will go on when it is switched to; together with `arg`
and `below` it stands for the saved stack.

**What is one step.** Code with interrupts disabled is one action up to the point
where it switches to another task.  `sem_get()` that waits is therefore two:
`SemGetWait` (everything up to `cpu_task_switch`) and `SemGetResume` (everything
after, when the task has the processor again); the same for `msg_get`,
`task_delay`, `task_sleep` and for the calls that give way to a more urgent task
(`Switched`).  Code with interrupts enabled is split: `task_wake()`, which never
disables them, is the five actions `TaskWake`, `WakeSet`, `WakeCompare`,
`WakeRunNext`, `WakeSwitch`, and `task_cleanup()` is `CleanupFind` and
`CleanupRemove`.

**Interrupts.** `ints[cpu]` is the processor's flag; for another task it is the
flag its switch saved.  `Interrupt` may happen whenever the flag is on and runs on
the stack of the current task.  The handler then makes any of the calls in
`IsrCalls`, in any order, including none; `TimerTic` is the last thing the clock's
handler does.  `IntRunEnd` is the rest of `int_run()`.  A handler whose call
switches is suspended on the stack of the task it interrupted (`irq[t] > 0`
while `t # cpu`), and since the task that comes next has interrupts enabled,
interrupts can nest across tasks and, when a handler's call enables them again, in
one task.

A handler's call is one step.  `sem_give()` and `msg_send()` disable interrupts
themselves; `task_wake()` and `timer_tic()` rely on the handler having them off, which
it has unless an earlier call in the same handler switched and came back with them
on.  That combination is not refined further.

**Undefined behaviour.** A task that is switched *to itself* restores a stack
pointer from an earlier switch, and `task_start()` has nothing to return to.  Both
lead to `pc = "wild"`, from which nothing is modelled: `NeverWild` says when that
cannot happen.

**Callers.** A task's code is any sequence of the calls in `Calls[t]`: the model
has no application.  Time-outs are 0..`MaxTics` and `WAIT_FOREVER`.

**Abstractions of the kernel modules.** Messages are counted, not stored (`MsgBox`
stores them).  Semaphores exist from the start and memory never runs out (`Objects` is
about both).  The list of timers whose functions `timer_tic()` calls before it counts
the tasks' time-outs is `Timer`'s; the functions' calls are among `IsrCalls`.
`tokens`, `patience` and `waited` are history variables: no guard reads them.

**`Objects`.** `malloc()` runs with interrupts enabled, and is four steps: it compares
the size with what is left (`MallocCheck`), reads where the free memory begins
(`MallocRead`), moves that on (`MallocMove`) and counts what is left (`MallocShrink`).
Both fields are updated from what was read of them before or from what they are now, as
the compiler may do either. `msgbox_init()` stores into its box on the way out when it
fails, though it has just given the box to `free()`, or has none: `cleared` records
where (`Fails`). `timer_start()` and `timer_delete()` are split where an interrupt or a
switch matters, and `timer_tic()` is one step for each timer, the timer's function
included. The more urgent of the two tasks runs whenever it has something to do, as if
it were woken then. Memory below `mem_start` and the word behind the table of interrupts
are not values but facts: `int_config(max_ints)` changes the list of semaphores, because
that is what lies there (`kernel.h`).

**`Console` and `Net`.** `Sched` replaces the kernel by what it promises to tasks that
keep to the discipline of section 4: a call that disables interrupts is one step, the
most urgent ready task runs, a handler's wake-up takes effect at the handler's end.
`net_task()` does not keep to it: it waits for semaphores and is sent messages, so
`NetStack` has both of its waits, and what `msg_send()` and `sem_give()` make of the
`wait_id` it is left with. Everything the drivers do with interrupts enabled is split:
each access to a ring, an index, a semaphore or a register is a step, and a handler may
run between any two. Indexes grow without bound in the model as they do, for 2^32
characters, in the code; places are taken modulo the ring's size. The characters are
numbered, so that a lost, doubled or reordered one shows. `net_task()` prints some of
what it reads, a bounded number of characters (`NetLook`, `NetPrint`, `NetPut`). Each
goes through `putchar()`, which waits for a place of stdio's ring as `sem_get()` does;
`putchar()`'s lock, which no other task of `Net` wants, is left out, and the output task
is `Printed`, a step that gives one place back whenever there is a character. A message
makes `net_task()` ready out of that wait and leaves its `wait_id` (`tty.waits`), so the
place that is given back next may go to `net_task()` wherever it then waits, in
`msg_get()` too; the box's counter then wraps, as `usys` does. What a device does
(`LineIn...`, `LineOut...`, `Begins`, `Fills`, `Sends`) is modelled from how the drivers
use it, and its definitions are marked external in `PROJECT.json`.

**History variables** outside the kernel: `torn`, `doubled`, `missed`, `astray`,
`cleared`, `lost`, `shut`, `dropped`, `spoilt`, `mixed`, `blocks`, `handled`, `wire`,
`got`, `typed`, `wanted`. No guard reads them, except that `MostRead` bounds the length
of `handled`. The properties of section 4 excuse what follows after the ones that stand
for a failure. Each failure can be reached in the runs - it is why it is recorded - and
each is named by the property that it excuses, so that nothing else is.

**`Pc`.** The functions of the C library are TLA+ functions of a text, a sequence of
character codes; the command line's task handles a character in one step, since nothing
else touches its line.

**Arithmetic.** `usys` and `u32` values are taken modulo `Wrap`, the priority -1 of
the idle task is `Wrap - 1`.

Definitions whose name ends in `_Bug` are faulty variants of the definition that
follows them.  No behaviour uses them; replacing the definition by its variant makes
the property that `PROJECT.json` names fail.

## 4. The runs

| Run | System | Checked | Shows |
|---|---|---|---|
| `KernelUse` | three tasks, a handler that ticks and wakes | `MostUrgentRuns`, `TokensConserved`, `TimeoutNotEarly`, `TimerExact`, `InterruptsRestored`, `HandlerNotPreempted`, `GrantsMostUrgent` | used with discipline (below), the kernel keeps all its promises |
| `KernelIsr` | three tasks, handlers that give, poll and send, nested two deep | `OneRunning`, `TokensConserved`, `MessagePresent` | switching inside handlers and nesting lose neither units nor messages |
| `KernelLife` | tasks created by a task, deleted, ended, cleaned up | `QueueOrder`, `NeverWild`, `DeletedStaysDeleted`, `CleanedUp`, `TimedCallsReturn` | the life of a task, with liveness |
| `KernelAny` | two tasks that mix all calls, a handler that gives and ticks | `TypeOK`, `NoWaiterWhileAvailable` | what holds even for misused calls; the system may stop at a task that went wild, so deadlock is not an error here |
| `Objects` | two tasks, three heaps, timers of three kinds | `TypeOK`, `BlocksSound`, `OwnMemory`, `ListSound`, `TimerArmed`, `TicEnds`, `OneshotsEnd` | what is linked, and every timer that ever was, has a block of its kind and size, also after a `malloc()` that failed in the middle of a call; blocks lie in the heap and do not overlap; the list of timers is whole and the clock's handler leaves it; started timers end |
| `Console` | four boards: PC with keyboard and screen, PC with 16550, SAM9, Raspberry Pi; two tasks write and one reads | `TypeOK`, `Places`, `NothingOverwritten`, `ReceiverBack`, `TxChannel`, `RxChannel`, `TxFlows`, `RxFlows` | both directions implement `Channel`; each place of a ring is in one hand; what goes in comes out |
| `Net` | the controller, handler, driver's task, network's task and its output; five mixes of frames | `TypeOK`, `Accounted`, `Answered`, `RxFrames`, `RxFlows` | the way in implements `Channel`; buffers have one owner; every request is answered once, in order |
| `Pc` | keys of six kinds of lines; two tasks that access PCI registers | `LineRight`, `SeenIsRun`, `PciRight` | what is run is what was typed; what is seen is what would be run; a register access changes what it should |
| `KernelTwoRunning`, `KernelStaleTimer`, `KernelDeleted` | two tasks | one property each | disagreements 1 to 3 of section 6 |
| `NetStray` | the system of `Net` | `WokenByMessage` | disagreement 4 |

`Console`, `Net` and `Pc` have bounded input, and stop when it is used up and everything
has come to rest: deadlock is no error there.

**Refinements.** `Channel` is a sequence that characters are put into and come out of,
in order and each once; the newline's carriage return is part of it.  `TxChannel` maps
to it what is in the standard I/O's ring, in the output task's hands, in the driver's
ring, in the device's FIFO and in its shift register; `RxChannel` the same in the
opposite direction, and `RxFrames` the controller's descriptors, the frame being handed
over and the messages in the box.  Every step of the detailed system is a step of the
channel or none.  `Fifo`, the queue a message box promises to be, is implemented by
`MsgBox` for every size, which is proved (section 7).

**What breaks them**, all reached in the runs and recorded as it happens:

- `torn` (`Objects`): a `malloc()` began while the other task's was under way, at any of its
  steps.  `doubled`: two deletions
  of one timer overlap, the list leads back into itself and the clock's handler never
  ends.  `missed`: a timer is made active with no tics left and counts down from 2^w.
  `astray`: `int_config(max_ints)` overwrote the list of semaphores.
- `lost` (`Console`): a character overwritten in a ring or by the line. Where this can
  happen is `NothingOverwritten`: in the 16550's receive ring only after its receive
  task missed a wake-up (`missed`), in its transmit ring never. `shut`: the 16550's
  receiver was shut down between a comparison of the indexes and the step after it.
  `dropped`: `rx_func()` had no room, or wrote over a character not yet read. `missed`:
  a handler woke a task after that had last looked and before it slept.
- `spoilt` (`Net`): `held` (the receive task finds a buffer not yet put out of use and
  sleeps), `refused` (the box was full), `unwoken` (another status bit was set), `part` (a
  frame lost its rest), `cut` (`dev_buf_free()` cleared a link that the receive task had
  just made), `replaced` and `torn` (a descriptor to send was reused before it was sent, or
  sent before it was written), `stray` (a place of the output ring that came free woke
  `net_task()` in `msg_get()`; what follows can be a frame read twice, a buffer given back
  twice and a counter that wraps, so the properties speak of the time before).
- `spoilt` (`Pc`): the line was longer than its buffer, a key had no character, a key
  meant another letter than the driver made of it (the right shift key, every second press
  of Caps Lock), a line was deleted backwards over the top of the screen.  `mixed`: the
  two tasks' PCI accesses met.

*Discipline* in `KernelUse`: no task mixes calls where one leaves something behind
for the other - a finite `msg_get()` leaves its timer running, a timed-out
`sem_get()` leaves `wait_id` set - and a task that receives messages waits nowhere
else.  `KernelRules` states this for any program, as rules that the theorems of section 7
have as hypotheses.  `hi` uses the semaphore with all kinds of time-outs, `mid` receives messages
with a time-out, `lo` gets and gives, sleeps, delays and sends.  Which combinations
break which property is what the violation runs are about.

`InterruptsRestored`, `HandlerNotPreempted`, `MostUrgentRuns`, `TimerExact` and
`GrantsMostUrgent` are checked where handlers only tick and wake: a handler that
switches (as in `KernelIsr`) leaves `int_mode` set for the task it switches to,
whose interrupts then stay off until the next `int_run()` ends.

Where a property would be checked twice it is in one run only: `OneRunning` under
`KernelUse`'s calls is the theorem `OneRunningUnlessWoken`, and `NoWaiterWhileAvailable` is
proved for all systems.  That a message box never holds more than `max_msgs` is part of
`BoxIsFifo`.

## 5. Bounds and fairness

- `MaxTics = 2`: time-outs of 0, 1, 2 tics and none at all; a wait of 2 has a moment
  when the timer is neither fresh nor due.
- `Wrap = 5`: larger than every count, priority and time-out that occurs, so a
  counter that goes below 0 shows as a number no correct run reaches.
- `MaxNest` is 2 in `KernelIsr`, whose handlers' calls can enable interrupts again so
  that one is taken within another on the same stack, and 1 elsewhere; handlers
  suspended on different tasks' stacks are not limited.
- One semaphore with `count_max` 1 and a box of one message: the smallest that can
  be empty, full and contended.  Two tasks share a priority in every system with
  three.
- `KernelUse`, `KernelIsr` and `KernelLife` have three tasks so that two can wait
  while a third gives, deletes or sends.

- `Objects`: heaps of 20, 17 and 14 bytes, one of them not aligned, hold three or four
  objects, so that memory runs out in the middle of a call; `Wrap = 64`, so that a count
  that goes below 0 is far from all others; two timers from the start (one-shot, one
  that starts itself again, periodic that deletes itself) and one kind to make; two calls
  of the one task and one of the other, so that a call of each is overtaken at every
  step; a table of one interrupt.
- `Console`: rings of two places, a FIFO of two, at most three characters in or out at a
  time, four in for the 16550: each ring is empty, full and wraps.  Reading and writing at
  once is checked with one character written and three coming in, four for the 16550, which
  is what it takes to overwrite one after a missed wake-up.
- `Net`: three descriptors (`NUM_BUFS` is 1024, also a ring that the controller wraps by
  itself), a box of two messages, up to four frames of one or two buffers: the ring
  wraps, the box fills, a frame is cut.  One of the kinds of frames is an ARP packet that is
  neither request nor reply, which is answered like a request if it asks for this address.
  What is printed is two characters (`Text`), and stdio's ring for them has one place, so that the
  second waits, for a place or for a message.  `MostRead` is 6, two more than frames come, so that
  `net_task()` can stray and go on; `Word` is 4, so that the box's counter, which holds 0 to 2,
  wraps when it does.  The places of the box that were never written hold 0, that is, lead
  to buffer 0: in the code they hold whatever the memory did.
- `Pc`: lines of up to seven keys in a buffer of six, a screen of two lines of five
  columns (the line wraps on it), integers of 8 bits (`Word = 256`), two
  parameters, two calls of each task on two PCI registers.

`FairSpec` (used by `KernelLife`) assumes: code that has the processor and waits for
nothing goes on (`WF` for the resumed halves of calls, the end of `int_run`, the
start-up); the steps that interrupts can come between go on in spite of them (`SF`
for `task_wake`'s and `task_cleanup`'s steps); and the clock keeps interrupting and
its handler keeps calling `timer_tic()` (`SF`, since interrupts are sometimes
disabled and the processor sometimes elsewhere; the controller keeps the request
pending).  Nothing is assumed of the calls tasks make: a task may compute forever.
`TimedCallsReturn` is therefore about the most urgent task, which no task can keep
from running, and `CleanedUp` is conditional on the idle task running again and
again.

`Objects` assumes that the clock's handler goes on (`WF(Tic)`), and nothing of the
tasks. `Console` and `Net` assume that the running task and a running handler go on
(`WF(Goes)`, `WF(Handles)`, `WF(EmacIsr)`), that a pending interrupt is taken in the end
(`SF(Interrupt)`: handlers and tasks with interrupts disabled can hold it off, but the
request stays), and that the devices send, and fill what began to come in
(`WF(LineOut)`, `WF(Fills)`, `WF(Sends)`), and in `Net` that what is printed goes out in
the end (`WF(Output)`), which is `TxFlows` of `Console`. `WF(Delay)` says that the more
urgent of the two writers delays sooner or later, as the kernel has no time slices and
it would otherwise be the only one to run. Nothing is assumed of what comes in or is
called.

## 6. Where the code and its documents disagree

Each has a run that shows it (`findings` in `PROJECT.json`):

1. `task_wake()` in a task switches with interrupts enabled, against the warning at
   `kernel/task.c:109`.  An interrupt may come when the next task is marked as running
   and not yet switched to: the processor is still the caller's, and `int_run()` marks
   the caller as running again and goes back to it.  The switch then goes to the other
   task, and the caller stays marked as running, though it does not have the processor,
   so that nothing will ever run it again (`KernelTwoRunning`).
2. `msg_send()` leaves the receiver's timer running; a later
   `sem_get(WAIT_FOREVER)` then times out (`KernelStaleTimer`).
3. A deleted task whose timer is active is made ready by the clock and runs on
   (`KernelDeleted`).
4. `msg_send()` makes its receiver ready out of any wait (`kernel/msgs.c:267`).  For
   `net_task()` that is the one in `putchar()`, whose `wait_id` stays set: the next place
   that comes free in stdio's ring wakes it in `msg_get()` with an empty box, and it reads
   an old message again (`NetStray`).

Seen in the code as well, without a run of their own: the manual (section 2.2) promises
round-robin among equal priorities, which no code does; `sem_give()` and `msg_send()`
switch inside interrupt handlers although the manual says that an interrupt cannot be
preempted and `task_wake()` (`kernel/task_api.c:260`) avoids exactly that. A `sem_get()`
that timed out leaves its `wait_id` set as well (`kernel/sem.c:135`): a later
`sem_give()` takes a task that merely delays for a waiter, cuts its delay short and
loses the unit, which is what `UseRules` (section 7) excludes. When there is no memory
for the box itself, `msgbox_init()` stores through NULL on its way out
(`kernel/msgs.c:103`), six lines after it has looked whether there is a box: `Objects`
reaches this, with NULL among the boxes `cleared`. And the 16550's `rx_func()`, which
sends, reads the register that enables both directions and writes it back with
interrupts enabled (`devices/16550a.c:289-291`): a handler that comes between and shuts
the receiver down, as the comment at `devices/16550a.c:365` says it must be while the
ring is full, is undone. `ShutHolds` (section 7) says that this takes a missed wake-up
first. The failures listed in section 4 are of the same kind: what a reader of the code
would not expect, without a document that says otherwise. Of those, the ones that need
no race are the SAM9's transmit task, which gives back one place more than it used
(`boards/sam9-l9260/serial.c:148`), the Raspberry Pi's receive ring without a check for
room (`boards/raspberry-pi/serial.c:215`), Caps Lock, which takes every second press
(`devices/keyboard.c:78`), `int_config()`'s limit (`kernel/int.c:35`) and the bound that
`malloc()` compares with a size before it rounds it up (`kernel/mem.c:40`).

## 7. The proofs

Thirty-two theorems.  Each is about all sets of tasks and semaphores, priorities, counts,
sizes, heaps and bounds that satisfy the named assumptions of the modules, which are
what a program that starts at all satisfies: `KernelAssumption` (`Task`: the idle task
starts at priority 0 and every other one is above the lowest, `count_init <= count_max`,
all of them within the width of an integer, finitely many tasks), `HeapAssumption` (`Mem`),
`ObjectsAssumption` (`Objects`), `BoxAssumption` (`MsgBox`), `ConsoleAssumption` (`Console`:
the tasks and their order of priority, the counts of the semaphores and the sizes of the
rings belonging together, as `stdio_init.c`, `16550a.c` and `serial.c` make them),
`EmacAssumption` (`Emac`) and `NetAssumption` (`Net`).

### The kernel, whatever its tasks do

| Theorem | Says | Argument |
|---|---|---|
| `TypeCorrect` | `Spec => []TypeOK` | `TypeOK /\ ContextOK` is inductive |
| `NoWaiter` | `Spec => []NoWaiterWhileAvailable` | with `WaitOK` added |
| `QueueInOrder` | `Spec => []QueueSorted` | with `BootOK` added |

- `ContextOK` says what is known of a task's interrupts and argument at each of the
  points where it can be.  `TypeOK` needs it in two places: `IntRunEnd` subtracts 1
  from `irq`, which is above 0 because a handler is running, and `WakeSwitch`
  switches to `arg`, which is a task because `WakeRunNext` put it there.  `WakeSwitch`
  can be interrupted, so the invariant has to speak of `below` as well.
- `NoWaiterWhileAvailable` is not inductive by itself: `sem_give()` finds waiters by
  `wait_id` while the property speaks of the call that the task is in.  `WaitOK` ties
  the two together.  It fails for a task that waits elsewhere - a stale
  `wait_id`, section 6 - but that only ever wakes too many.  That a task is never
  interrupted inside `sem_get()` is the part of `WaitOK` that keeps `arg` meaningful.
  The proof also needs that no operation on the queue adds a task that waits
  (`AddToQRange`, `RmFromQRange`, `IdleLowerRange`, from `SeqLemmas`).
- The order of the queue changes when the idle task, which starts the system at priority 0,
  lowers itself.  `BootOK` says that nothing interrupts it before, that it does not come
  back to its start-up, and that a task not made yet is not in the queue, so that
  `task_add_to_q()` puts none there twice.

### The kernel, under rules of use

The other properties of the kernel are false for some programs: section 6.  Their theorems
have hypotheses about `Calls` and `IsrCalls` only, that is, about which calls a program's
tasks and handlers make; they are defined in `KernelRules`, and nothing is assumed of the
order, the arguments in other respects, or the number of the calls.

| Rule | Says | Without it |
|---|---|---|
| `NoTaskWakes` | tasks leave `task_wake()` to handlers | `KernelTwoRunning`; also, a task that wakes a more urgent one may find, after that one ran and slept again, that it is still to switch, and then switches to itself |
| `WakingHandlers` | handlers only tick and wake, as the repository's do | a handler that switches leaves `int_mode` set and is itself suspended |
| `OrderlyEnds` | `NoTaskWakes`; the idle task's code makes no calls and does not end; a task that may end is sent no messages; one that may be deleted makes no timed calls | `KernelDeleted`: a timer, or `msg_send()`, makes ready what was deleted |
| `UseRules` | `NoTaskWakes`; a task that waits for semaphores is sent no messages; one that may give up such a wait waits for nothing else | `KernelStaleTimer`; the stale `wait_id`s of `NetStray` and of a `sem_get()` that timed out |
| `TimeRules` | a task that is sent messages makes no other timed call, and waits for them either with time-outs or without | a timer that `msg_send()` left running ends the next wait |

`MCKernel` states, and TLC evaluates with each run, which systems keep to which rules
(`RulesKept`: those of `KernelUse`, `KernelIsr` and `KernelLife`) and which rule the system
of each disagreement breaks (`RulesBroken`): no hypothesis is empty, and
each separates a system that works from one that does not.

| Theorem | Under | Says | Added to the invariant |
|---|---|---|---|
| `OneRunningUnlessWoken` | `NoTaskWakes` | `Spec => []OneRunning` | `NotWaking`, `RunningIsCurrent` |
| `MostUrgentTaskRuns` | `NoTaskWakes` | `Spec => []MostUrgentRuns` | `UrgentFirst` |
| `QueueComplete` | `OrderlyEnds` | `Spec => []QueueOrder` | `EndOK` |
| `StacksAreLive` | `OrderlyEnds` | `Spec => []NeverWild` | `EndOK` |
| `DeletedForGood` | `OrderlyEnds` | `Spec => DeletedStaysDeleted` | `EndOK` |
| `TimersExact` | `OrderlyEnds` | `Spec => []TimerExact` | `TimerOK` |
| `InterruptsComeBack` | `WakingHandlers` | `Spec => []InterruptsRestored` | `HandlerOK` |
| `HandlersRunOn` | `WakingHandlers` | `Spec => []HandlerNotPreempted` | `HandlerOK` |
| `NoTokenLost` | `UseRules` | `Spec => []TokensConserved` | `BlockOK` |
| `MessageIsThere` | `UseRules` | `Spec => []MessagePresent` | `BlockOK`, `BoxOK` |
| `GrantsTheMostUrgent` | `OrderlyEnds`, `UseRules` | `Spec => GrantsMostUrgent` | all of these |
| `TimeoutsNotEarly` | `OrderlyEnds`, `UseRules`, `TimeRules` | `Spec => []TimeoutNotEarly` | all of these, and `EarlyOK` |

- `MostUrgentRuns` speaks of a task in its own code; `UrgentFirst` says the same of every
  point outside a handler.  It holds because each call that makes a task ready compares
  priorities or calls `task_ready_get()`, whose answer is a most urgent one
  (`NextIsUrgent`, from the order of the queue), and because `int_run()` does so at the end
  of a handler.
- `EndOK`: the current task and the idle task can always run, so `task_ready_get()` finds a
  task and never the caller's own after it gave up the processor; a task that may end
  has no timer running except while it waits, so no time-out brings it back; and what
  `task_cleanup()` has found, before it disables interrupts, has still ended when it goes
  on.
- `HandlerOK`: a handler runs with interrupts disabled and `int_mode` set, on the current
  task's stack and only there.
- `BlockOK` says of each task in a wait what its TCB holds: that the timer, if active, and
  `wait_id`, if set, are those of this wait, that `got_resource` is not set while it
  waits, and that whoever goes on without it has `time_out` set.  It is where
  `UseRules` is used: a TCB has one of each for all that the task may wait for.  With it,
  `task_awaiting()` finds exactly the tasks that the property means
  (`AwaitsIsWaitsFor`), and the tokens are counted by adding one task to a finite set or
  removing one.
- `TimerOK` relates the tics left to those that have passed; `EarlyOK` adds that no timer
  runs in a wait for ever, and which timers `msg_send()` can have left behind.

The proofs have one step for each of the 31 actions and the stuttering step, and
combine them in the last step with temporal logic.

### Memory, timers and message boxes

| Theorem | Says | Argument |
|---|---|---|
| `HeapSound` | `Spec => []BlocksSound` | `HeapInv` is inductive |
| `TimersArmed` | `Spec => []TimerArmed` | `TimerInv` is inductive |
| `PointersLead` | `Spec => []TypeOK` of `Objects` | with `OwnMemory` and `CallsOK`, from the two above |
| `ObjectsHaveMemory` | `Spec => []OwnMemory` | the same |
| `ListOfTimersSound` | `Spec => []ListSound` | with `FreshOK` and `ListOK` added |
| `BoxIsFifo` | `BoxSpec => BoxFifo` | refinement of `Fifo`, with `BoxOK` |

- `BlocksSound` speaks of blocks handed out.  `HeapInv` adds where the free memory is:
  what is used and what is free make up the heap, and what is free stays a multiple of a
  word - that is why rounding a size up after it was compared stays within it.  Until two
  calls of `malloc()` overlap at most one is under way (`Alone`), and what it has done so
  far is known at each of its steps (`ReadTrue`): what it read of the two fields is still
  true, and between its two writes the free memory begins behind its block while what is
  left still counts the block.  Under `Alone`, whether the compiler uses what was read or
  reads once more makes no difference.
- `TimerInv` adds to `TimerArmed` that no timer has more tics left than it is set to, also
  when it is not active, and that the arguments of a `timer_new()` under way are such
  arguments: they get into a timer only when its memory is there.
- `OwnMemory` holds whether two `malloc()` overlapped or not, since two calls that get
  the same memory both get a block. It also says where `msgbox_init()` stores as it
  fails: in the box that the call got before, or through NULL, as `kernel/msgs.c:103`
  does when it has none. `CallsOK` says of a call under way that the parts it has taken
  so far are blocks of the first parts of its plan, in order (`MakeOK`), that what its
  `malloc()` has read is for the next one (`AskOK`), and that a call on a timer is on
  one that exists (`TimeOK`). That `timer_delete()` of a timer that is not on the list
  writes through the pointer of a timer, or none, is part of `PointersLead`.
- `ListSound` follows the list through memory, with the recursive function `Nth`.  `ListOK`
  says that there is an order of the timers, each once, in which the links lead from each
  to the next.  `ListWalk` shows that `Nth` follows any such order: a function that does
  so satisfies `Nth`'s equation, and a first place at which `Nth` went elsewhere would be
  led to from the one before it.  (A least element of a set of numbers stands in for
  induction, `LeastNumber`.)  `LinkOrder` and `UnlinkOrder` show what `timer_new()` and
  `timer_delete()` make of the order.  The rest is that a new timer's memory is not on
  the list: `FreshOK` says that what a call has taken, the block of a `malloc()` that has moved the
  free memory on included, lies below the free memory, is on no list and belongs to no
  other call.  With it came a correction of the property:
  a heap that is no number of words hands out its first blocks a second time when
  `mem_free_size` has wrapped around, and a timer made there leads to itself.  `ListSound`
  and the two liveness properties now say so.
- `BoxOK` ties the two indexes and the counter of a message box together (the place to send
  to is as many places behind the place to take from as there are messages); the rest is
  that the places between them are different (`PlacesDiffer`) and move on together
  (`Follows`).

### The console

For every board, every size of the rings, the FIFO and the priorities that keep their
order, and however many characters are put or come in:

| Theorem | Says | Argument |
|---|---|---|
| `PlacesHold` | `Spec => []Places` | `PlacesInv` is inductive |
| `TypeHolds` | `Spec => []TypeOK` of `Console` | with `RecvOK` added |
| `OverwrittenHolds` | `Spec => []NothingOverwritten` | `ConsoleInv` is inductive |
| `BackHolds` | `Spec => []ReceiverBack` | with `BackOK` added |
| `ShutHolds` | `Spec => [](ShutWhenFull \/ "rx" \in missed)` | `RecvOK` |
| `TxChannelHolds` | `Spec => TxChannel` | refinement of `Channel`, with `TxInv` |
| `RxChannelHolds` | `Spec => RxChannel` | refinement of `Channel`, with `RxInv` |

- `PlacesInv` is `CoreOK /\ DataOK /\ IoOK /\ SendOK`. `CoreOK` is the scheduler's: the
  running task is ready, and outside of handlers none more urgent is, each task is at a
  point of its own code, and one that waits does so where its code waits. `DataOK` has
  the types of rings, device and load. `IoOK` is the standard I/O: `putchar` is a lock,
  the semaphore `tx_buf` counts the places of the ring that are in nobody's hands, and
  `rx` the characters that are there. `SendOK` is the driver's transmit ring: the places
  that are free, filled, and in the hands of the one task that was given one make up the
  ring; no more are given back than were sent, on the SAM9 one more. So what two tasks
  may hold of one ring is said once, by numbers, and the proof for each of the steps is
  arithmetic.
- `RecvOK` is the receive ring: while it is full the receiver is off, and the receive task is
  ready whenever it has something to hand on, unless it missed a wake-up.  From it, a
  character is overwritten only where `NothingOverwritten` says so.  That the indexes
  grow without bound and the places are remainders needs two facts about remainders:
  two numbers less than the ring apart have different ones, and equal ones mean a
  full ring or an empty one.
- The proof corrected the property.  `NothingOverwritten` had said that the 16550's receive
  ring is never overwritten, which the runs with three characters bore out; the step
  that did not go through is the one of section 6, and four characters show it.
- `BackOK` adds to `ReceiverBack` what is known between a comparison of the indexes and what
  follows it: if the receiver is off then, either the comparison found the ring full, or
  the handler came between (`shut`).
- `TxChannel` maps to the channel what is in the device, the driver's ring, the output
  task's hands and the standard I/O's ring, one behind the other.  Every action moves a
  character over one of the boundaries, which is a stutter, takes one from the front
  (`LineOut`, or the PC's screen: `Deliver`), or puts one at the end (`putchar`'s last step:
  `Put`).  `ConsoleInv` has the numbers; `TxInv` adds that what is behind the index when a
  writer moves it on is that writer's character (`WriterOK`, from the lock), and how
  much each board's device holds (`HwOK`).  The rest are the equations of a ring that is
  filled, emptied, or written to outside of what it holds (`RingPut`, `RingNext`,
  `RingUndisturbed`), of concatenations, and of `Expand`, which adds the carriage returns and
  recurses over the ring (`ExpandNext`, `ExpandFirst`).
- `RxChannel` is the same in the other direction, from the line or the keyboard to
  `getchar()`.  A character that the driver's task has copied into the standard I/O's ring is
  still in the driver's ring until the task moves its index on, and on the Raspberry Pi it is
  handed over after the index moved: the place that the driver's ring is read from
  (`From`) accounts for both, and `FromOK` says that it is never before the first.  `KeyOK`
  says that the keyboard's task never hands on the same key twice: it runs only when
  there is one, or one was lost.  Both hold as long as nothing was lost, and what
  was lost once stays recorded (`MarksStay`).

### The network

For every size of both rings and of the box, every set of kinds and any number of frames, and
wherever the controller, the handler and the two tasks come between each other:

| Theorem | Says | Argument |
|---|---|---|
| `NetTypeHolds` | `Spec => []TypeOK` of `Net` | `StackInv` is inductive |
| `AccountedHolds` | `Spec => []Accounted` | `StackInv` |
| `RxFramesHolds` | `Spec => RxFrames` | refinement of `Channel`, with `StackInv` |
| `AnsweredHolds` | `Spec => []Answered` | `ServeInv`: with `AnswerOK` added |

- `net_task()` may be woken in `msg_get()` by what it printed (disagreement 4), and nothing
  is known of the buffers after that.  `StackInv` is what holds always - the scheduler's part
  and the box's two indexes and counter, which wraps (`BoxWord`) - and `NetInv` unless
  `net_task()` has strayed, which stays recorded (`Grows`).  `WaitsOK` is what
  excludes a stray wake-up otherwise: in `msg_get()`, `net_task()` is ready only if there is a
  message, and it waits for the output nowhere but in `putchar()`.
- `NetInv` is the scheduler's part, types, `WaitsOK` and `RxOK`: what the receive ring,
  the chains and the box hold. `RxOK` says that there are numbers `u` and `k` and a
  length for each chain such that from the driver's index on, `u` buffers are filled and
  not yet taken, up to the one that the controller fills next, and no other is
  (`RingOK`); the `k` before them are being linked and belong to one frame (`LinkingOK`,
  `OrderOK`); each packet that was handed over, is in the box or at the network's task
  is a chain of as many buffers as its length says, in the ring's order, and no two of
  them share a buffer (`ChainsOK`); and, unless the box was full, a frame lost its rest
  or a chain was cut, no other buffer is in use (`OwnedOK`). `BoxedOK` and `HeldOK` say
  that no chain is in two places. Each step gives the new `u`, `k` and lengths: the
  controller adds 1 to `u`, the receive task moves 1 from `u` to `k` or makes the `k` a
  chain, and `dev_buf_free()` takes one off a chain's front.
- `RxFrames` maps to the channel what is in the ring, being linked, in the box and in the
  network's task's hands.  What is in flight is one sequence made of these four parts in
  order; each action changes the boundary between two of them, takes from its front or
  adds at its end, and leaves the rest: a step is `Put`, `Deliver` or a stutter.
  Sequences that are selected from the ring are recursive functions; their equations come
  from the function that satisfies them up to each number (`UpTo`, `Unfolds`), and a least
  number stands in for induction, as for the list of timers.
- `Answered` is not inductive: a packet that is queued is not on the wire yet.  `AnswerOK`
  says that some `q` descriptors from the one that the controller sends next hold whole
  packets, the others are free but for the one being written, and that what is on
  the wire, followed by these and by the packet being made, are the answers due to
  the frames that were handled; `ipv4_id` counts the answers.  It holds unless a descriptor
  was reused or sent too early, or `net_task()` strayed, which is what `Answered` excuses too.

TLC checked `RxOK` and `AnswerOK` on the instance of the run before they were proved.

### What is only model-checked

- Liveness (`CleanedUp`, `TimedCallsReturn`, `TicEnds`, `OneshotsEnd`, `TxFlows`, `RxFlows`):
  what is enabled under which fairness is outside of what this prover can do.
- Everything about `Pc`, whose parser and conversions recurse over texts in `RECURSIVE`
  operators, which no module with a theorem uses.

## 8. What is not modelled

- The register frames, descriptor tables and interrupt vectors of the CPU ports, the
  boards' start-up writes, the line parameters of the UARTs (`baud_rate_set`,
  `config_set`): values written once, on which no state of the models depends.
- The boot loader, which runs alone, before the kernel; the test programs.
- `sem_info`, `task_info`, `timer_info`, `pci_show`, `pci_dev` and the commands of
  `std_cmds.c`: they read and print.  Echo requests that are longer than a packet.
- `printf`'s formats, and the loops over bytes of `string.c` except `strlen` and `strcmp`.
- The bytes of network headers, checksums and lengths. Frames are records of what
  decides about them; a fragment is taken for a packet, as `is_fragment()` has no
  effect. A UDP packet's dump is a number of characters; TCP and the sending half of UDP
  are empty, and nothing is ever added to the ARP cache, so there are no entries that
  could age.
- That the standard I/O's output task finds no driver to write to: on every board one
  is linked before the task first runs.
- What lies behind memory that was never the heap's, and what a program does with
  pointers of its own.

## 9. What could follow

- `PciRight` as a theorem, with `Pci` in a specification of its own without the texts.
- That `Kernel`, used by the rules, implements `Sched`.
- Larger instances of `Console` with both directions at full load.
