----------------------------- MODULE SelectNext -----------------------------
(***************************************************************************)
(* The loop of v4_task_select_next (src/src/scheduler.cpp), one iteration  *)
(* per step, over every task table.                                        *)
(***************************************************************************)
EXTENDS SchedPolicy

CONSTANTS
    MaxPrio,    \* priorities are 0..MaxPrio (255 in the code)
    MaxTick     \* ticks are 0..MaxTick

ASSUME MaxPrioAssumption == MaxPrio \in Nat
ASSUME MaxTickAssumption == MaxTick \in Nat

VARIABLES
    state, priority, sleep_until_tick, current_task, current_tick,
    state0,             \* the task states on entry
    i,                  \* the loop counter; MaxTasks when the loop has ended
    highest_priority,
    selected_task       \* MaxTasks stands for 0xFF, none

vars == <<state, priority, sleep_until_tick, current_task, current_tick,
          state0, i, highest_priority, selected_task>>

None == MaxTasks

TypeOK ==
    /\ state \in [Tasks -> States] /\ state0 \in [Tasks -> States]
    /\ priority \in [Tasks -> 0..MaxPrio]
    /\ sleep_until_tick \in [Tasks -> 0..MaxTick]
    /\ current_task \in Tasks
    /\ current_tick \in 0..MaxTick
    /\ i \in 0..MaxTasks
    /\ highest_priority \in 0..MaxPrio
    /\ selected_task \in 0..MaxTasks

Init ==
    /\ state \in [Tasks -> States] /\ state0 = state
    /\ priority \in [Tasks -> 0..MaxPrio]
    /\ sleep_until_tick \in [Tasks -> 0..MaxTick]
    /\ current_task \in Tasks
    /\ current_tick \in 0..MaxTick
    /\ i = 0
    /\ highest_priority = 0
    /\ selected_task = None

\* One iteration for a task that is dead, or asleep with its deadline ahead.
Skip ==
    /\ i < MaxTasks
    /\ \/ state[i] = "DEAD"
       \/ state[i] = "BLOCKED" /\ current_tick < sleep_until_tick[i]
    /\ i' = i + 1
    /\ UNCHANGED <<state, priority, sleep_until_tick, current_task,
                   current_tick, state0, highest_priority, selected_task>>

\* Bug: an equal priority always replaces the task found before.
BestLast(p) ==
    IF p > highest_priority THEN i
    ELSE IF p = highest_priority /\ selected_task # None
         THEN i
         ELSE selected_task

\* The comparison with the best task so far.
Best(p) ==
    IF p > highest_priority THEN i
    ELSE IF /\ p = highest_priority /\ selected_task # None
            /\ i > current_task /\ selected_task <= current_task
         THEN i
         ELSE selected_task

\* One iteration for a task that can run, woken up if it was asleep.
Consider ==
    /\ i < MaxTasks
    /\ \/ state[i] \in {"READY", "RUNNING"}
       \/ state[i] = "BLOCKED" /\ current_tick >= sleep_until_tick[i]
    /\ state' = [state EXCEPT ![i] = IF @ = "BLOCKED" THEN "READY" ELSE @]
    /\ selected_task' = Best(priority[i])
    /\ highest_priority' = IF priority[i] > highest_priority
                           THEN priority[i] ELSE highest_priority
    /\ i' = i + 1
    /\ UNCHANGED <<priority, sleep_until_tick, current_task, current_tick,
                   state0>>

Next == Skip \/ Consider

Spec == Init /\ [][Next]_vars

\* What the function returns: the current task when it found none.
Result == IF selected_task = None THEN current_task ELSE selected_task

\* When the loop ends it has woken exactly the sleepers whose deadline passed,
\* and the result is a task of the highest positive priority that comes next
\* in round-robin order after the current one, or the current task if no task
\* of positive priority can run.
LoopComputesPolicy ==
    i = MaxTasks =>
        /\ state = Awake(state0, sleep_until_tick, current_tick)
        /\ IsNext(Result, state, priority, current_task)
=============================================================================
