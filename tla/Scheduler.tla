----------------------------- MODULE Scheduler -----------------------------
(***************************************************************************)
(* The task scheduler of the custom backend: the task table, the context   *)
(* switch, sleeping, and critical sections (src/src/scheduler.cpp,         *)
(* task_backend_custom.cpp and task.cpp).  Each operation is one step;     *)
(* SchedulerIsr looks inside vm_schedule.                                  *)
(*                                                                         *)
(* A stack cell is abstracted to the task that pushed it.  The statistics  *)
(* (exec_count, context_switches, preemptions), time_slice_ms, word_idx    *)
(* and pc are never read by the scheduler and are left out.                *)
(***************************************************************************)
EXTENDS SchedPolicy, Sequences

CONSTANTS
    Prios,          \* the priorities spawns use, out of 0..255
    StackArgs,      \* the ds_size/rs_size arguments spawns use; 0 is the default
    DsCap, RsCap,   \* cells of the VM's own stacks: 256 and 64
    DepthMod,       \* saved depths are uint8_t: 256
    CountMod,       \* task_count is uint8_t: 256
    TickMod,        \* ticks are uint32_t: 2^32
    Delays,         \* the ms_delay arguments of sleeps
    UsedStacks,     \* the stacks the program pushes to
    Platform,       \* how the platform masks interrupts: "none", "flag", "count"
    TickLimit,      \* bound: the clock stops here, no sleep ends later
    NestLimit       \* bound: depth of critical section nesting, which a uint8_t holds

Stacks == {"DS", "RS"}
Cap == [k \in Stacks |-> IF k = "DS" THEN DsCap ELSE RsCap]
Main == MaxTasks            \* the program that called vm_task_init
Junk == MaxTasks + 1        \* a cell whose value the code does not determine
Cells == 0..(MaxTasks + 1)

ASSUME PriosAssumption == Prios \subseteq Nat
ASSUME StackArgsAssumption == StackArgs \subseteq Nat
ASSUME CapAssumption == DsCap \in Nat \ {0} /\ RsCap \in Nat \ {0}
ASSUME DepthModAssumption == DepthMod \in Nat \ {0}
ASSUME CountModAssumption == CountMod \in Nat \ {0}
ASSUME TickModAssumption == TickMod \in Nat \ {0}
ASSUME DelaysAssumption == Delays \subseteq Nat
ASSUME UsedStacksAssumption == UsedStacks \subseteq Stacks
ASSUME PlatformAssumption == Platform \in {"none", "flag", "count"}
ASSUME LimitsAssumption == TickLimit \in Nat /\ NestLimit \in 0..255

VARIABLES
    \* v4_task_t, one component per field, by task slot
    state, priority, sleep_until_tick,
    base,               \* cells allocated for ds_base/rs_base; 0 is nullptr
    saved,              \* the depth and contents saved there
    \* v4_scheduler_t
    current_task, task_count, critical_nesting,
    live,               \* vm->DS up to vm->sp and vm->RS up to vm->rp
    \* the platform
    tick,               \* v4_task_platform_get_tick_ms
    masked,             \* interrupts are masked while positive
    \* history
    own,                \* the stacks each task built by its own pushes and drops
    lost,               \* the tasks whose context the scheduler did not keep
    due                 \* ms a sleeping task still has to sleep

tcbs == <<state, priority, sleep_until_tick, base, saved>>
platform == <<tick, masked>>
vars == <<state, priority, sleep_until_tick, base, saved, current_task,
          task_count, critical_nesting, live, tick, masked, own, lost, due>>

Contents == [Stacks -> Seq(Cells)]
Empty == [k \in Stacks |-> << >>]
NoStacks == [k \in Stacks |-> 0]

TypeOK ==
    /\ state \in [Tasks -> States]
    /\ priority \in [Tasks -> Nat]
    /\ sleep_until_tick \in [Tasks -> 0..(TickMod - 1)]
    /\ base \in [Tasks -> [Stacks -> Nat]]
    /\ saved \in [Tasks -> Contents]
    /\ current_task \in Tasks
    /\ task_count \in 0..(CountMod - 1)
    /\ critical_nesting \in Nat
    /\ live \in Contents
    /\ tick \in 0..(TickMod - 1)
    /\ masked \in Nat
    /\ own \in [Tasks -> Contents]
    /\ lost \subseteq Tasks
    /\ due \in [Tasks -> Nat]

\* v4_backend_task_init on a VM whose program has not used its stacks yet.
Init ==
    /\ state = [t \in Tasks |-> "DEAD"]
    /\ priority = [t \in Tasks |-> 0]
    /\ sleep_until_tick = [t \in Tasks |-> 0]
    /\ base = [t \in Tasks |-> NoStacks]
    /\ saved = [t \in Tasks |-> Empty]
    /\ current_task = 0 /\ task_count = 0 /\ critical_nesting = 0
    /\ live = Empty
    /\ tick = 0 /\ masked = 0
    /\ own = [t \in Tasks |-> Empty]
    /\ lost = {}
    /\ due = [t \in Tasks |-> 0]

-----------------------------------------------------------------------------
(* Context save and restore *)

\* Bug: the depth is saved but the cells are not copied.
SaveDepthOnly(t) ==
    [k \in Stacks |-> [j \in 1..(Len(live[k]) % DepthMod) |-> Junk]]

\* v4_task_save_context: the depth is cut to a uint8_t, and what does not fit
\* the task's own allocation cannot be relied on afterwards.
SaveContext(t) ==
    [k \in Stacks |->
        [j \in 1..(Len(live[k]) % DepthMod) |->
            IF j <= base[t][k] THEN live[k][j] ELSE Junk]]

\* v4_task_restore_context: without a saved copy only the pointers move.
RestoreContext(t, sv, bs) ==
    [k \in Stacks |->
        IF bs[t][k] > 0 THEN sv[t][k]
        ELSE [j \in 1..Len(sv[t][k]) |->
                IF j <= Len(live[k]) THEN live[k][j] ELSE Junk]]

\* Bug: the task that is switched out stays marked as running.
DemotedNot(st) == st

\* vm_schedule makes a running current task ready again.
Demoted(st) ==
    IF st[current_task] = "RUNNING" THEN [st EXCEPT ![current_task] = "READY"]
    ELSE st

\* The live stacks can be saved without loss.
Fits(t) == \A k \in Stacks : Len(live[k]) < DepthMod /\ Len(live[k]) <= base[t][k]

\* The context of a running current task goes to its slot.
SavedAfter(st) ==
    IF st[current_task] = "RUNNING"
    THEN [saved EXCEPT ![current_task] = SaveContext(current_task)]
    ELSE saved

\* No switch is needed.
Stays(next, st) == next = current_task /\ st[current_task] \notin {"DEAD", "BLOCKED"}

\* The current task's context survives if the task keeps the CPU, if it was
\* saved whole, or if the task was spawned into the current slot and has not
\* run yet, its empty context still being in the table.  In all other cases
\* the state was not RUNNING any more and nothing was saved.
Survives(stays, st) ==
    \/ state[current_task] = "RUNNING" /\ stays
    \/ st[current_task] = "RUNNING" /\ Fits(current_task)
    \/ state[current_task] = "READY" /\ st[current_task] # "DEAD" /\ ~stays

(***************************************************************************)
(* vm_schedule, called by an operation that has changed the task states to *)
(* st, the deadlines to wake and the allocations to bs.                    *)
(***************************************************************************)
Schedule(st, wake, bs) ==
    LET awake == Awake(Demoted(st), wake, tick) IN
    \E next \in Tasks :
        /\ IsNext(next, awake, priority, current_task)
        /\ state' = [awake EXCEPT ![next] = "RUNNING"]
        /\ saved' = SavedAfter(st)
        /\ live' = IF Stays(next, awake) THEN live
                   ELSE RestoreContext(next, SavedAfter(st), bs)
        /\ current_task' = next
        /\ lost' = IF Survives(Stays(next, awake), st) THEN lost
                   ELSE lost \cup {current_task}

-----------------------------------------------------------------------------
(* Task operations *)

\* v4_backend_task_spawn: the first dead slot gets new stacks.
Allocated(k, arg) == IF arg = 0 THEN Cap[k] ELSE arg

Spawn(prio, ds_size, rs_size) ==
    \E t \in Tasks :
        /\ state[t] = "DEAD"
        /\ \A u \in Tasks : u < t => state[u] # "DEAD"
        /\ state' = [state EXCEPT ![t] = "READY"]
        /\ priority' = [priority EXCEPT ![t] = prio]
        /\ sleep_until_tick' = [sleep_until_tick EXCEPT ![t] = 0]
        /\ base' = [base EXCEPT ![t] =
                       [k \in Stacks |->
                           Allocated(k, IF k = "DS" THEN ds_size ELSE rs_size)]]
        /\ saved' = [saved EXCEPT ![t] = Empty]
        /\ task_count' = (task_count + 1) % CountMod
        /\ own' = [own EXCEPT ![t] = Empty]
        /\ lost' = lost \ {t}
        /\ due' = [due EXCEPT ![t] = 0]
        /\ UNCHANGED <<current_task, critical_nesting, live, platform>>

\* Bug: when the second malloc fails the first stack is not given back.
SpawnHalf ==
    \E t \in Tasks :
        /\ state[t] = "DEAD"
        /\ \A u \in Tasks : u < t => state[u] # "DEAD"
        /\ base' = [base EXCEPT ![t]["DS"] = DsCap]
        /\ UNCHANGED <<state, priority, sleep_until_tick, saved, current_task,
                       task_count, critical_nesting, live, platform, own, lost,
                       due>>

\* The same when malloc fails for one of the stacks: both are given back.
SpawnNoMemory ==
    \E t \in Tasks :
        /\ state[t] = "DEAD"
        /\ \A u \in Tasks : u < t => state[u] # "DEAD"
        /\ base' = [base EXCEPT ![t] = NoStacks]
        /\ UNCHANGED <<state, priority, sleep_until_tick, saved, current_task,
                       task_count, critical_nesting, live, platform, own, lost,
                       due>>

\* InvalidWordIdx can be returned at any time, TaskLimit when no slot is dead.
SpawnRejected == UNCHANGED vars

\* Bug: the counter is decremented past zero.
ExitNegative ==
    LET cur == current_task
        st == [state EXCEPT ![cur] = "DEAD"]
        bs == [base EXCEPT ![cur] = NoStacks]
    IN /\ base' = bs
       /\ task_count' = task_count - 1
       /\ Schedule(st, sleep_until_tick, bs)
       /\ due' = [due EXCEPT ![cur] = 0]
       /\ UNCHANGED <<priority, sleep_until_tick, critical_nesting, platform, own>>

\* v4_backend_task_exit, by whatever runs as current_task.
Exit ==
    LET cur == current_task
        st == [state EXCEPT ![cur] = "DEAD"]
        bs == [base EXCEPT ![cur] = NoStacks]
    IN /\ base' = bs
       /\ task_count' = (task_count + CountMod - 1) % CountMod
       /\ Schedule(st, sleep_until_tick, bs)
       /\ due' = [due EXCEPT ![cur] = 0]
       /\ UNCHANGED <<priority, sleep_until_tick, critical_nesting, platform, own>>

\* v4_backend_task_sleep.  The task is owed the delay if it leaves the CPU.
Sleep(ms) ==
    LET cur == current_task
        wake == [sleep_until_tick EXCEPT ![cur] = (tick + ms) % TickMod]
        st == [state EXCEPT ![cur] = "BLOCKED"]
    IN /\ tick + ms <= TickLimit
       /\ sleep_until_tick' = wake
       /\ Schedule(st, wake, base)
       /\ due' = [due EXCEPT ![cur] = IF current_task' = cur THEN 0 ELSE ms]
       /\ UNCHANGED <<priority, base, task_count, critical_nesting, platform, own>>

\* v4_backend_task_yield, and vm_schedule called directly.
Yield ==
    /\ Schedule(state, sleep_until_tick, base)
    /\ UNCHANGED <<priority, sleep_until_tick, base, task_count,
                   critical_nesting, platform, own, due>>

\* vm_schedule_from_isr on a timer interrupt, which a masked platform holds back.
TimerIsr ==
    /\ masked = 0
    /\ IF critical_nesting > 0
       THEN UNCHANGED vars
       ELSE Yield

-----------------------------------------------------------------------------
(* Critical sections, task.cpp *)

PlatformEnter ==
    CASE Platform = "none"  -> 0
      [] Platform = "flag"  -> 1
      [] Platform = "count" -> masked + 1

PlatformExit ==
    CASE Platform = "none"  -> 0
      [] Platform = "flag"  -> 0
      [] Platform = "count" -> masked - 1

CriticalEnter ==
    /\ masked < NestLimit /\ critical_nesting < NestLimit
    /\ masked' = PlatformEnter
    /\ critical_nesting' = critical_nesting + 1
    /\ UNCHANGED <<tcbs, current_task, task_count, live, tick, own, lost, due>>

\* Bug: every exit unmasks interrupts, the inner ones too.
CriticalExitAll ==
    /\ critical_nesting > 0
    /\ critical_nesting' = critical_nesting - 1
    /\ masked' = PlatformExit
    /\ UNCHANGED <<tcbs, current_task, task_count, live, tick, own, lost, due>>

\* An exit outside any critical section changes nothing.
CriticalExit ==
    /\ critical_nesting > 0
    /\ critical_nesting' = critical_nesting - 1
    /\ masked' = IF critical_nesting = 1 THEN PlatformExit ELSE masked
    /\ UNCHANGED <<tcbs, current_task, task_count, live, tick, own, lost, due>>

-----------------------------------------------------------------------------
(* The program: pushes and drops on the stacks of whatever is running *)

\* The history of a task follows its pushes and drops while it runs.
Tracked == state[current_task] = "RUNNING" /\ current_task \notin lost

Push(k) ==
    LET cell == IF state[current_task] = "RUNNING" THEN current_task ELSE Main IN
    /\ Len(live[k]) < Cap[k]
    /\ live' = [live EXCEPT ![k] = Append(@, cell)]
    /\ IF Tracked
       THEN own' = [own EXCEPT ![current_task][k] = Append(@, cell)]
       ELSE UNCHANGED own
    /\ UNCHANGED <<tcbs, current_task, task_count, critical_nesting, platform,
                   lost, due>>

DropLast(s) == SubSeq(s, 1, Len(s) - 1)

Drop(k) ==
    /\ live[k] # << >>
    /\ live' = [live EXCEPT ![k] = DropLast(@)]
    /\ IF Tracked
       THEN own' = [own EXCEPT ![current_task][k] = DropLast(@)]
       ELSE UNCHANGED own
    /\ UNCHANGED <<tcbs, current_task, task_count, critical_nesting, platform,
                   lost, due>>

Tick ==
    /\ tick < TickLimit
    /\ tick' = (tick + 1) % TickMod
    /\ due' = [t \in Tasks |-> IF due[t] > 0 THEN due[t] - 1 ELSE 0]
    /\ UNCHANGED <<tcbs, current_task, task_count, critical_nesting, live,
                   masked, own, lost>>

-----------------------------------------------------------------------------
(* Start and stop *)

\* v4_backend_task_cleanup.  current_task, critical_nesting and the depths stay.
Cleanup ==
    /\ base' = [t \in Tasks |-> NoStacks]
    /\ state' = [t \in Tasks |-> "DEAD"]
    /\ task_count' = 0
    /\ due' = [t \in Tasks |-> 0]
    /\ UNCHANGED <<priority, sleep_until_tick, saved, current_task,
                   critical_nesting, live, platform, own, lost>>

\* v4_backend_task_init once more, after a cleanup and outside critical sections.
Restart ==
    /\ \A t \in Tasks : state[t] = "DEAD"
    /\ masked = 0
    /\ priority' = [t \in Tasks |-> 0]
    /\ sleep_until_tick' = [t \in Tasks |-> 0]
    /\ base' = [t \in Tasks |-> NoStacks]
    /\ saved' = [t \in Tasks |-> Empty]
    /\ current_task' = 0 /\ task_count' = 0 /\ critical_nesting' = 0
    /\ UNCHANGED <<state, live, platform, own, lost, due>>

Next ==
    \/ \E p \in Prios, d \in StackArgs, r \in StackArgs : Spawn(p, d, r)
    \/ SpawnNoMemory
    \/ SpawnRejected
    \/ Exit
    \/ \E ms \in Delays : Sleep(ms)
    \/ Yield
    \/ TimerIsr
    \/ CriticalEnter
    \/ CriticalExit
    \/ \E k \in UsedStacks : Push(k) \/ Drop(k)
    \/ Tick
    \/ Cleanup
    \/ Restart

Spec == Init /\ [][Next]_vars

(***************************************************************************)
(* The platform keeps delivering timer interrupts (one that arrives while  *)
(* masked is delivered at the unmask, hence strong fairness), the clock    *)
(* advances, and programs do not stay in critical sections for ever.       *)
(***************************************************************************)
FairSpec ==
    Spec /\ SF_vars(TimerIsr) /\ WF_vars(Tick) /\ []<>(critical_nesting = 0)

-----------------------------------------------------------------------------
\* At most one task is running, and it is the one current_task names.
OneRunner == \A t \in Tasks : state[t] = "RUNNING" => t = current_task

\* A dead slot owns no stacks, so that a spawn that reuses it overwrites no
\* pointer and cleanup frees everything; and a task has both stacks or none.
DeadOwnNothing ==
    \A t \in Tasks :
        /\ state[t] = "DEAD" => base[t] = NoStacks
        /\ base[t]["DS"] = 0 <=> base[t]["RS"] = 0

\* A task's stacks are exactly what its own pushes and drops made them,
\* through any number of switches, unless the task is among the lost ones.
ContextKept ==
    \A t \in Tasks \ lost :
        CASE state[t] = "DEAD" -> TRUE
          [] state[t] = "RUNNING" -> live = own[t]
          [] OTHER -> saved[t] = own[t]

\* A sleeping task stays off the CPU until its delay has passed.
SleepsOut == \A t \in Tasks : due[t] > 0 => state[t] = "BLOCKED"

\* Whenever the scheduler ran, no ready task has a higher priority than the
\* one that got the CPU.
TopPriorityRuns ==
    [][ (Yield \/ Exit \/ \E ms \in Delays : Sleep(ms)) =>
            \A t \in Tasks :
                state'[t] = "READY" => priority[t] <= priority[current_task'] ]_vars

\* Whoever exits or goes to sleep gives the CPU up: vm_schedule returns to it
\* only when no other task of positive priority is ready.  (Then it does so,
\* with the slot marked RUNNING although it is dead or its deadline is ahead.)
LeaversYield ==
    [][ /\ Exit \/ \E ms \in Delays \ {0} : Sleep(ms)
        /\ current_task' = current_task
        => \A t \in Tasks \ {current_task} : state'[t] = "READY" => priority[t] = 0 ]_vars

\* Interrupts are masked exactly inside critical sections.
CriticalMatches == critical_nesting = 0 <=> masked = 0

\* Among tasks of one positive priority nobody starves: a ready task gets the
\* CPU, whatever the others do.
RoundRobin ==
    \A t \in Tasks :
        state[t] = "READY" /\ priority[t] > 0 ~> state[t] # "READY"

\* A sleeping task is woken in the end.
SleepersWake == \A t \in Tasks : state[t] = "BLOCKED" ~> state[t] # "BLOCKED"

-----------------------------------------------------------------------------
(* What a header promises and the code does not keep *)

\* "Saves the execution state of current task to its TCB" (scheduler.hpp): the
\* saved context of a sleeping task is the one it went to sleep with.
SleeperSaved ==
    \A t \in Tasks :
        state[t] = "BLOCKED" /\ base[t] # NoStacks => saved[t] = own[t]
=============================================================================
