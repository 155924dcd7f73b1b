# V4-engine: TLA+ specifications

V4-engine is a small Forth-like virtual machine for microcontrollers: a bytecode
interpreter with two stacks, a word dictionary, flat memory with MMIO windows, and an
optional task system with a priority scheduler, sleeping, critical sections and a
message queue. These modules model that code, TLC checks them on small instances, and
TLAPS proves the central properties for every value of the constants. Paths are those of the repository with `src/` in front
(`src/src/core.cpp` is the repository's `src/core.cpp`).

## 1. The system

### Components, their state and operations

| component | source | state | operations |
|---|---|---|---|
| interpreter | `core.cpp` | `DS`/`sp`, `RS`/`rp`, `fp`; `ip` and `old_fp` in C frames | `vm_exec`, `vm_exec_raw` (about 80 opcodes; CALL recurses in C) |
| stack API | `core.cpp` | the same stacks; snapshots owned by the host | `vm_ds_push/pop/clear`, `vm_ds_snapshot/restore/free`, `vm_reset_stacks` |
| dictionary | `core.cpp` | `words[]`, `word_count`; names in an arena or on the heap | `vm_register_word`, `vm_find_word`, `vm_reset_dictionary`, word accessors |
| arena | `arena.cpp` | `buffer`, `size`, `used` | `init`, `alloc`, `reset` |
| memory, MMIO | `memory.cpp` | `mem`, `mmio[]`, `mmio_count` | 8, 16 and 32-bit loads and stores, `vm_register_mmio` |
| scheduler | `scheduler.cpp` | `tasks[]`, `current_task` | `select_next`, `save_context`, `restore_context`, `vm_schedule`, `vm_schedule_from_isr` |
| custom task backend | `task_backend_custom.cpp`, `task.cpp` | `tasks[]`, `task_count`, task stacks on the heap | init, cleanup, spawn, exit, sleep, yield |
| critical sections | `task.cpp` | `critical_nesting` | enter, exit |
| message queue | `task_backend_custom.cpp` | `queue[]`, `read_idx`, `write_idx`, `count` | send, receive |
| blocking receive | `task_backend_custom.cpp` | C locals: start tick, timeout | a loop of receive, look at the clock, sleep |
| FreeRTOS backend | `task_backend_freertos.cpp` | `task_handles[]`, `msg_queue`, the task table; one FreeRTOS task per slot | the backend interface again |
| HAL wrapper | `hal_wrapper.cpp` | `uart_handles[]`, one HAL handle per port | UART init, read, write; reset; the rest forwards to the HAL |
| panic | `panic.cpp` | handler pointer | builds a record, calls the handler |
| task stubs | `task_disabled.cpp` | none | return an error |
| task platform, HAL, SYS handler | outside the repository | ticks, interrupt mask, devices | called by the above |

### How they interact

A word executes opcodes on the VM's stacks. CALL looks the word up in the dictionary and
recurses; LOAD and STORE go to memory, where a window may take the access and call back
into the host. The task opcodes call `task.cpp`, which forwards to a backend; the custom
one changes the task table and calls `vm_schedule`, which copies the stacks of one task
out and those of another in while the C frames of the interpreter stay. A timer interrupt
calls `vm_schedule_from_isr` at any point outside a critical section. All tasks share one
message ring. Dictionary names and other users share an arena. An opcode
that fails calls `vm_panic`, which tells a handler of the host. With the FreeRTOS backend a
V4 task is a FreeRTOS task and nothing above holds: its wrappers and the host's tasks
preempt each other anywhere and share the task table without a lock.

### What is hard here

* **Order of calls.** The scheduler decides what to save from a state that its callers
  have already changed (sleep, exit), and takes the slot `current_task` names to be on the
  CPU even when nothing was ever switched to.
* **Interrupts.** `vm_schedule` is not protected against the interrupt that calls it.
* **C frames across a switch.** `fp`, `ip` and the locals of `receive_blocking` stay when
  the task changes: the rest of a word, or of a wait, runs as another task.
* **Preemption** between any two accesses to shared state of the FreeRTOS backend, and its
  stale `current_task` and handles.
* **Timeouts** against a clock that wraps, late looks at it, and messages that come in
  between.
* **Selective receive from a shared ring**, which shifts messages under two indices.
* **Errors inside nested calls** and opcodes that fail after some of their pops.
* **Widths.** `uint8_t` depths and counters, wrapping ticks, `size_t` sums, `v4_u16`
  lengths.
* **Shared storage.** Names in an arena that somebody else allocates from and resets;
  RAM under a window; HAL handles kept over a reset that frees them.

Correctness, component by component: *interpreter*: stacks stay in their arrays, a
called word cannot touch its caller's cells, an error ends the execution and is reported
once. *Dictionary*:
the newest definition is found. *Arena*: blocks lie apart, inside and aligned. *Memory*:
loads return what was stored, windows stay. *Scheduler*: the policy is computed, one
runner, contexts are kept, sleepers sleep and wake, nobody starves, a switch is whole.
*Queue*: nothing invented, nothing disturbed, FIFO for each receiver. *Critical
sections*: masked exactly inside. *Blocking receive*: a timeout is neither early nor late,
the caller gets its own messages, the call ends. *FreeRTOS backend*: one writer per slot,
slots are given back, nothing runs after a cleanup, the count is right, the queue is FIFO.
*HAL wrapper*: an initialised port works and no byte reaches another port.

`PROJECT.json` lists the hazards line by line with the properties that look at them.

## 2. The modules

`SchedPolicy` is used by `SelectNext` and `Scheduler`; `SchedulerIsr` extends `SelectNext`;
`BlockingReceive` composes `Scheduler` and `MsgQueue`; `Dictionary` extends `Arena`;
`MsgQueue` and `FreeRtosBackend` are both compared with `MsgQueueFifo`. `MCX` gives `X` its
instance where a .cfg cannot. `X_proof` holds the
theorems about `X`; those about `BlockingReceive` follow those about the scheduler in
`Scheduler_proof`, those about `Arena` are in `Dictionary_proof`, and those about
`SchedulerIsr` in `SelectNext_proof`. Definitions marked "Bug:" are faulty variants of the definition they
precede; nothing uses them, they serve to try out whether a property notices the fault.
There is no variable for a function's stack unless something can come between its steps.

**SchedPolicy** states the selection policy as a relation: wake the due sleepers, take
the highest positive priority, among equals the next slot after the current one.
**SelectNext** is the loop of `v4_task_select_next`, one iteration per step, started on
every task table; it has no run of its own, `SchedulerIsr` takes its steps.

**Scheduler** has the task table as one variable per field, the VM's stacks (`live`), the
copies in the table (`saved`) and the allocations (`base`, in cells). Each backend
function is one action that ends in `Schedule`, the translation of `vm_schedule`. A cell
is abstracted to the task that pushed it. Save cuts the depth to a `uint8_t` (`DepthMod`)
and what lies beyond the task's allocation becomes `Junk`, a value nothing can be said
of. Three history variables say what should be: `own` (the stacks a task built by its own
pushes and drops), `due` (how long it still has to sleep) and `lost` (the tasks whose
context the scheduler threw away: it was not RUNNING when it left the CPU, or its stacks
did not fit). A platform either does not mask, masks with a flag, or counts.

**SchedulerIsr** takes `vm_schedule` apart: a task that yields executes it statement by
statement and its selection loop iteration by iteration, and a clock tick or a timer
interrupt that runs `vm_schedule_from_isr` to its end may come between any two. `Guarded`
says whether the program puts yields into critical sections.

**BlockingReceive** is `v4_backend_task_receive_blocking` over both components. `phase`
is the place in its loop: try (`Hit`, `Miss`), look at the clock (`TimeOut`, `Poll`, which
sleeps). A sleep inside it names another `current_task` and returns at once, so the loop
goes on as that task, as the code's does, and no other program code runs before it
returns. Interrupts may tick the clock, schedule, or send from a handler. `waited` is the
true time since the call, `caller` the task that made it.

**MsgQueue** is the ring with its two indices and its counter. A payload is the number
of the send that wrote it. **MsgQueueFifo** is what a reader expects of it: a sequence of
pending messages, a receive takes the first that matches. The refinement maps `pending`
to the window a scan sees.

**Interp** executes arbitrary bytecode: a running word takes any opcode next. Opcodes are
grouped by what they do to the stacks (`Discard(n)`, `Compute(n, v)`, ...); computed,
loaded and received values are any cell. The C stack of nested CALLs is `calls`; an error
makes each level return (`Return`) after it has put `fp` back. An opcode that schedules goes
on with the stacks of the same task or with any pair in `Saved`, while `fp` and `calls`
stay (`TaskYield`, `TaskSleep`, `TaskExit`, `TaskReceiveBlocking`). `Fail` includes
`vm_panic`: `panics` holds the reports the handler got, with the width of their depth
(`DepthMod`) and the `Shown` topmost cells. `TASK_RECEIVE` pushes what
the message functions left in its variables, which is any value when there was no
message. An error an MMIO callback makes up itself is represented by `OobMemory`. `kept`
is history: for each active CALL the cells its caller left on the return stack, less
those that were popped, and none after a switch to another task's stack.

**FreeRtosBackend** has a program counter per FreeRTOS task: the owner of the VM, which
initialises, spawns and cleans up, and one wrapper per control block (`Handles`). Every
access to the task table, `current_task`, `task_handles` and `task_count` is a step of its
own, and `task_count++` is a load and a store (`reg`); FreeRTOS calls are atomic and
external. Spawns can fail at each allocation, cleanup walks the slots one by one, exit and
sleep act on whatever `current_task` says. Any task in `Hosts` sends and receives; `wants`
holds those that wait in `xQueueReceive`. `leaked` (slots lost to a failed `pvPortMalloc` or
a sleep) and `exact` (no update of the count was torn) are history.

**HalWrapper** has the wrapper's table and an external HAL: which handle is open for which
port (`line`), handle values that are used again after a close or a reset, opens and
transfers that fail. `fresh`, `heard` and `source` are history: ports initialised since the
last reset, and where bytes went and came from.

**Arena** is the bump allocator with `size_t` arithmetic (`SizeMod`). **Dictionary** adds
the words. The bytes of the arena buffer are modelled, so that a name that was overwritten
no longer reads as itself; other users of the arena overwrite what they allocate, and
its owner resets it once no word points into it, as the tests do. **Memory** has bytes of
`ByteMod` values, windows with or without callbacks, and devices that answer anything.

## 3. What TLC checks

| run | shows | bounds |
|---|---|---|
| MsgQueue | no phantom messages, receivers do not disturb each other, the FIFO queue but for sends out of sync | ring of 2, 2 tasks and the broadcast address, types 0 and 1, 4 sends between resets: the ring fills, wraps twice and is emptied from either end |
| Sched | one runner, memory of dead slots, contexts kept, delays, priorities, who leaves gives way | 2 tasks, 2 priorities, a delay of 1, a stack of 2 cells with depths modulo 2, so that a full stack wraps as 256 does, counter modulo 2 |
| SchedLive | round robin, sleepers wake, masking on a flag platform | 3 tasks of one priority, sections nested twice |
| IsrGuarded | switches are whole and the loop computes the policy under interrupts | all tables of 3 tasks with one on the CPU, priorities 0..2, all ticks around one deadline, 2 versions of each stack |
| BlockingReceive | timeouts neither early nor late, own messages for a lone caller, the call ends | 2 tasks, a ring of 1, timeouts 0 and 2, polls of 1 ms, a clock of 4 ticks that wraps |
| FreeRtos | one writer per slot, slots given back, cleanup stops all, the count, the FIFO queue but for drops | 2 slots, 2 control blocks that slots reuse, a queue of 2, counter modulo 2, messages by the owner |
| HalWrapper | initialised ports work, bytes stay on their ports | 3 ports, 2 handle values each, so that a value comes back |
| Interp | frames, callers' cells, errors, panic reports | 3 and 2 cells with depths modulo 3 (a full stack wraps), 2 nested calls, 2 values, other tasks with empty and full stacks |
| Dictionary | newest definition found, names freed once, arena blocks apart and aligned | 3 words, names of 2 and 3 bytes, an arena of 8 bytes so that names touch and run out, requests that fit, do not fit, are zero or badly aligned |
| Memory | store and load, windows | 6 bytes, 2 values per byte, overlapping windows, one with an odd size and one beyond RAM |

The interesting limits of the code are all compared with constants (256 cells, 8 slots,
16 messages, 16 windows), so a limit of 2 or 3 reaches the same branches. Bounds that only
keep TLC finite are `MaxSends`, `TickLimit`, `NestLimit`, `CallLimit`, `MaxLag`, `MaxLen`
and `MaxSerial`. FreeRtos uses symmetry over control blocks, which are only compared with
each other, and checks safety only; nowhere else is it used, since the code orders tasks by
slot number. FreeRtos does not look for deadlock: an owner that exits as its own task
deletes itself. In the other systems somebody can always act.

The type invariants of MsgQueue, SchedulerIsr, BlockingReceive, FreeRtosBackend and
HalWrapper, `NoLeak` and `SendsMatchReceives` are proved (section 4) and no run repeats them.

**Fairness.** `FairSpec` of Scheduler assumes that timer interrupts keep coming (strongly
fair, because one that arrives while masked is delivered at the unmask), that the clock
advances, and that programs do not stay in critical sections for ever. Nothing else is
assumed of the tasks: they need not yield. The header `task_platform.h` asks the first two
of the platform; the third is the contract of critical sections. `FairSysSpec` of
BlockingReceive assumes that the CPU keeps executing the loop and that the clock ticks, and
nothing of timer interrupts, handlers or the rest of the program. `WaitEnds` is about calls
with a timeout and calls with a matching broadcast in the queue; one without either may wait
for ever. `start_tick` and `waited` are kept for timed calls only, as the code uses them. `MaxLag` bounds how late
the loop looks at the clock, and timeouts end before the clock comes round:
`MaxLagAssumption`. With longer timeouts `InTime` means nothing, for `elapsed` wraps.

Two runs end in a violation, each of a sentence in a header or a comment:

| run | the code does |
|---|---|
| MsgQueueOnce | `write_idx` is not moved back by a receive: after the next send one message is received twice and another not at all |
| BadSleeperSaved | a sleeping task's stacks are not saved: its state is BLOCKED before `vm_schedule` looks for RUNNING |

The passing properties are stated around these and around other places where the code
does less than its headers say. `NoPhantom`, `SendsMatchReceives` and `FifoInSync` hold for
all clients, `FifoSpec` only for clients that send when the indices agree. The rest:

* `SwitchesWhole` and `LoopComputesPolicy` need yields inside critical sections: with
  `Guarded = FALSE` both fail, for an interrupt inside `vm_schedule` mixes up the stacks.
* `LoneReceivesOwn` is about a caller that is alone. In general (`ReceivesOwn`, which no
  run checks) the sentence of `task.h`, "Receives a message addressed to current task",
  fails: after a sleep the loop tries as the task that took over, and the caller is handed
  that task's message.
* `CallerIntact` leaves out calls that switched to another task: their locals are then
  cells of the other task's return stack (`core.cpp:827`).
* `PanicsOnce` leaves out `OobMemory` and `Unaligned`, which the memory opcodes return
  without `vm_panic` although `panic.h:35` says the handler is "Called when VM encounters a
  fatal error", and stacks of 256 cells, which are reported as empty (`panic.cpp:87`).
* `CountExact` leaves out what follows a torn `task_count++`, an exit by the host (which
  counts off a task that its wrapper counts off too) and a wrapper that outlived a cleanup.
* `SlotsAccounted` leaves out slots taken before a failed `pvPortMalloc`
  (`task_backend_freertos.cpp:171`) and slots a sleep marked, perhaps after their task ended.
* `FifoButDrops`: a receive drops the message it does not want
  (`task_backend_freertos.cpp:344`).
* `FreshWorks` and `NoCrossTalk` need `HandlesApart`: a HAL that never gives two ports the
  same handle value. The wrapper keeps its handles over `v4_hal_system_reset`
  (`hal_wrapper.cpp:217`), and the next init of a port closes what may by then be another
  port's new handle. With one pool of values for all ports both fail.
* `ContextKept` leaves out the tasks the scheduler has lost: sleepers; tasks whose stacks
  are deeper than their allocation (`scheduler.cpp:25` copies without looking at
  `ds_size`) or 256 deep (`uint8_t`); and a task spawned into the slot that `current_task`
  already names, which starts on the main program's cells (`scheduler.cpp:139`).
* `LeaversYield` has an exception: when nobody else can run, a sleeper keeps the CPU and a
  dead slot is marked RUNNING; the latter makes `task_count` drift and, when that slot
  exits again, wrap below zero.
* `RoundRobin` is about positive priorities: a task of priority 0 is never selected
  (`scheduler.cpp:67`, `:96`).
* `SleepsOut` needs ticks that do not wrap: deadlines are compared as raw values
  (`scheduler.cpp:82`). It fails with `TickMod = 3`, `TickLimit = 6`, `Delays = {2}`.
* `CriticalMatches` needs a platform that masks with a flag. With `Platform = "count"` it
  fails: nested sections enter the platform twice and leave it once (`task.cpp:52`, `:66`).
* `PointersAligned` needs an aligned buffer (it fails with `Base = 9`), `BlocksApart`
  requests that do not wrap `size_t` (it fails with a request of 30), `arena.cpp:26`, `:29`.
* `StoreLoads` says nothing of windows for narrow accesses: 8 and 16-bit accesses go to
  RAM under a window (`memory.cpp:105`, `:130`).

## 4. What is proved

All theorems hold for every value of the constants under the named assumptions in
the modules (sizes are natural numbers, mostly positive).

* **MsgQueue_proof**: `TypeCorrect`, `NeverPhantom`, `ReceivesBalance`, `ImplementsFifo`,
  `ImplementsFifoInSync` (the same step lemmas, for every client), `OthersKeepOrder` and
  `OnceInSync`. `NoPhantom` is not inductive: out of sync, a send extends the window to a
  slot it did not write. The invariant adds that `read_idx` stays 0 and that the slots below
  the number of accepted sends all hold genuine messages; the window is never longer than
  that, and the shift only copies genuine slots over genuine slots. The refinement needs
  that in sync the slot written is the one after the window, and that the shift is the
  removal of one element. That removal gives `OthersUndisturbed`, with the map that leaves
  places before the match alone and moves those behind it down. `OnceInSync` is
  `DeliveredOnce` for `InSyncSpec`: the violation that MsgQueueOnce finds takes a send out
  of sync. Its invariant `EachOnce` says that the payloads in the window are distinct and
  none of them has been received.
* **SelectNext_proof**: `LoopCorrect`. The loop invariant says that `selected_task` is
  what the policy would give if only the slots below `i` existed. `GuardedSwitchesWhole` and
  `GuardedLoopCorrect` are about SchedulerIsr, if `Guarded`. Their invariant `IsrInv` says
  for each statement of `vm_schedule` whose stacks are in the VM and which are saved
  (`AtStatement`), that the program is in a critical section all the way, so that interrupts
  change nothing, and the loop invariant while the loop runs.
* **Scheduler_proof**: `TypeCorrect`, `AtMostOneRunner`, `DeadOwnNothingAlways`,
  `ContextsKept`, `TopPriority`, `NobodyWakesEarly` and `LeaversGiveWay` (both if
  `TickLimit < TickMod`), and `FlagPlatformMatches` (if the platform is a flag). Each
  operation is reduced to lemmas about `Schedule`. `ContextsKept` needs the first two
  invariants (only the current task's history may follow the live stacks);
  `NobodyWakesEarly` needs that a deadline lies exactly `due` ahead of the clock and that
  the current task is never left BLOCKED.
  For BlockingReceive: `SystemTypeCorrect`, `NeverEarly`, `TimedInTime`,
  `LoneCallerReceivesOwn`. Every step of the system is a step or a stutter of each of the two
  components, so that their lemmas apply. The clock part rests on `ClockInv`: while a timed
  call is under way the clock is `waited` ahead of `start_tick` modulo its width, and
  `waited` is short of the timeout and the lag; the last theorem needs that the scheduler
  returns to a task that is alone.
* **Interp_proof**: `TypeCorrect`, `FramesOnlyInCalls`, `CallersIntact`,
  `PanicsToldOnce`, `FailuresPopOnly`, `ErrorsEnd`. The invariant adds that a running word
  has no error, that the one report of a failed execution was made of the stack it left, that
  an idle VM has no frame, and that each frame starts at or above the cells its callers
  kept: an opcode that leaves the cells below `fp` alone then preserves everything, and
  only FROMR, CALL and RET need an argument of their own.
* **FreeRtosBackend_proof**: `TypeCorrect`, `OneWriterPerSlot`, `NoSlotLost`,
  `CleanupLeavesNone`, `CountsExact` and `ImplementsFifoButDrops`. The three slot properties
  are not inductive, and are proved together: `SlotInv` adds that the handle in the table is
  that of the wrapper that still writes the slot (`HandleKept`), so that a cleanup deletes the
  right one; that only an exit that is about to delete its caller marks such a slot DEAD
  (`DeadUnwritten`); that a slot taken by a spawn stays taken; and that a cleanup leaves
  nothing behind in the slots it has passed. `CountExact` follows from the types alone: a
  wrapper that ends loses one element of the set the balance counts, which is finite, and
  both the counter and the balance go down by one modulo the counter's width; a load and its
  store agree as long as nothing tore them apart.
* **HalWrapper_proof**: `NothingLeaks` (the types and `NoLeak`), `FreshPortsWork`, `PortsApart`,
  if `HandlesApart`. The invariant takes all of them together and adds that a handle in the
  table is one of its port's: a reset, or an init that closes a stale handle, then
  cannot hit a line that another port has opened.
* **Dictionary_proof**: `TypeCorrect`, `BlocksStayApart`, `HeapStaysOwned` and `NewestFound`,
  if no request and no name can wrap `size_t` in `v4_arena_alloc` (`NoWrap`, `NamesFit`),
  `AlwaysAligned`, if the buffer is aligned as well (`BaseAligned`), and `ArenaBlocksApart` for
  `ArenaSpec`, the arena under any user. All three hypotheses hold in the run. `FindsNewest` is
  about bytes in memory: the invariant `DictInv` says of each word what its pointer `Holds`,
  either a heap block that still has the name or a range of the arena below `used` with the
  name's bytes. An allocation by anybody writes at or above `used`, so the names below stay; a
  heap block is never taken twice, as its number is new.
* **Memory_proof**: `TypeCorrect`, `StoresAreLoaded`, `ServedForGood`. The bytes of a word are
  its digits in base `ByteMod` (`BytesOfWord`), so that the sum a load makes of stored bytes
  is the value modulo the weight of the first byte that was not stored. A search of the
  window table stops at the least index that covers the address (`FirstCovers`), and appending
  adds only greater ones.

All safety properties that the passing runs check are stated by a theorem. Only
model-checked is liveness under fairness (`RoundRobin`, `SleepersWake`, `WaitEnds`), which is
outside what TLAPS does. The theorems with a hypothesis on constants are not true without
it; section 3 says how they fail (a name that wraps `size_t` writes outside the buffer). `Load` is written as a sum of at most four terms and
`Weight` as a case for each power, and `OthersUndisturbed` as the existence of an order
isomorphism, because folds, powers and `SelectSeq` would need induction over data.

## 5. Not modelled

* Instruction decoding and arithmetic: the bytecode is arbitrary and values are opaque, so
  nothing is said of `INT_MIN / -1` (`core.cpp:268`), shifts or sign extension.
* Interrupts in the middle of an opcode other than a yield: SchedulerIsr has the statements
  of `vm_schedule`, Scheduler and Interp take each call and each opcode as one step.
* Which stacks a switch inside a word brings: Interp takes any, Scheduler has the real ones.
* FreeRTOS itself: its calls are atomic. What is undefined there is left out: the use of a
  queue that another task deletes (`task_backend_freertos.cpp:320`) and the deletion of a
  task that is gone. Neither are the heap of the wrapper parameters, which leak with every
  spawn, and the overflow of `pdMS_TO_TICKS`.
* The lengths of words: `vm_word_get_code_len` returns a `v4_u16` of an `int`
  (`core.cpp:1093`).
* Short UART writes: the wrapper reports an error and keeps no count of what went out.
* The text of panics and errors, HAL forwarding of GPIO, timers and console, task stubs, the
  C++ wrapper, the bare-metal demo and the size tools: no state, or formatting and I/O only.
* Null pointer arguments, which every API function refuses first.

## 6. Plan

1. Done: every component with state of its own; every safety property of the runs proved.
2. `Alu`: arithmetic, shifts and the loads with sign extension against reference
   definitions at a small width; operand fetch against the end of the code.
