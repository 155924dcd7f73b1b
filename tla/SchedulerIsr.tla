---------------------------- MODULE SchedulerIsr ----------------------------
(***************************************************************************)
(* Inside vm_schedule (src/src/scheduler.cpp): a task that yields executes *)
(* it statement by statement, the loop of v4_task_select_next iteration by *)
(* iteration (SelectNext), and a timer interrupt that runs                 *)
(* vm_schedule_from_isr to its end may come between any two.  Nobody exits *)
(* or goes to sleep; Scheduler has the rest, with vm_schedule as one step. *)
(*                                                                         *)
(* The stacks of a task are abstracted to the task's name and a version    *)
(* that changes when it works on them.                                     *)
(***************************************************************************)
EXTENDS SelectNext

CONSTANTS
    Versions,       \* bound: versions of a task's stacks
    Guarded         \* the program yields only inside critical sections

ASSUME VersionsAssumption == Versions \in Nat \ {0}
ASSUME GuardedAssumption == Guarded \in BOOLEAN

VARIABLES
    saved, critical_nesting,
    tick,           \* v4_task_platform_get_tick_ms
    live,           \* the contents of vm->DS and vm->RS
    pc, cur, next,  \* the yielding task: the next statement, its locals
    own             \* history: the version each task left its stacks in

loop == <<current_tick, state0, i, highest_priority, selected_task>>
fixed == <<priority, sleep_until_tick>>
isrvars == <<vars, saved, critical_nesting, tick, live, pc, cur, next, own>>

Stack == [task : Tasks, version : 0..(Versions - 1)]
Statements == {"program", "save", "demote", "enter_loop", "select", "check",
               "restore", "mark", "publish"}

IsrTypeOK ==
    /\ TypeOK
    /\ saved \in [Tasks -> Stack]
    /\ critical_nesting \in 0..1
    /\ tick \in 0..MaxTick
    /\ live \in Stack
    /\ pc \in Statements
    /\ cur \in Tasks /\ next \in Tasks
    /\ own \in [Tasks -> 0..(Versions - 1)]

\* One of the spawned tasks has the CPU; others wait for it, sleep or are dead.
IsrInit ==
    /\ current_task \in Tasks
    /\ priority \in [Tasks -> 0..MaxPrio]
    /\ \E st \in [Tasks -> States \ {"RUNNING"}] :
          state = [st EXCEPT ![current_task] = "RUNNING"]
    /\ sleep_until_tick \in [Tasks -> 0..MaxTick]
    /\ \A t \in Tasks : state[t] # "BLOCKED" => sleep_until_tick[t] = 0
    /\ current_tick = 0 /\ state0 = state
    /\ i = 0 /\ highest_priority = 0 /\ selected_task = None
    /\ saved = [t \in Tasks |-> [task |-> t, version |-> 0]]
    /\ critical_nesting = 0 /\ tick = 0
    /\ live = [task |-> current_task, version |-> 0]
    /\ pc = "program" /\ cur = 0 /\ next = 0
    /\ own = [t \in Tasks |-> 0]

-----------------------------------------------------------------------------
(* The program that runs as current_task *)

Work ==
    LET v == (live.version + 1) % Versions IN
    /\ pc = "program"
    /\ live' = [live EXCEPT !.version = v]
    /\ own' = [own EXCEPT ![current_task] = v]
    /\ UNCHANGED <<vars, saved, critical_nesting, tick, pc, cur, next>>

CriticalEnter ==
    /\ pc = "program" /\ critical_nesting = 0
    /\ critical_nesting' = 1
    /\ UNCHANGED <<vars, saved, tick, live, pc, cur, next, own>>

CriticalExit ==
    /\ pc = "program" /\ critical_nesting = 1
    /\ critical_nesting' = 0
    /\ UNCHANGED <<vars, saved, tick, live, pc, cur, next, own>>

-----------------------------------------------------------------------------
(* vm_schedule, called by a yield *)

Goto(l) == pc' = l /\ UNCHANGED <<fixed, critical_nesting, tick, own>>

Enter ==
    /\ pc = "program" /\ (Guarded => critical_nesting = 1)
    /\ cur' = current_task
    /\ Goto(IF state[current_task] = "RUNNING" THEN "save" ELSE "enter_loop")
    /\ UNCHANGED <<state, saved, current_task, live, next, loop>>

Save ==
    /\ pc = "save"
    /\ saved' = [saved EXCEPT ![cur] = live]
    /\ Goto("demote")
    /\ UNCHANGED <<state, current_task, live, cur, next, loop>>

Demote ==
    /\ pc = "demote"
    /\ state' = [state EXCEPT ![cur] = "READY"]
    /\ Goto("enter_loop")
    /\ UNCHANGED <<saved, current_task, live, cur, next, loop>>

\* v4_task_select_next reads the clock and sets its locals.
EnterLoop ==
    /\ pc = "enter_loop"
    /\ current_tick' = tick /\ state0' = state
    /\ i' = 0 /\ highest_priority' = 0 /\ selected_task' = None
    /\ Goto("select")
    /\ UNCHANGED <<state, saved, current_task, live, cur, next>>

Iterate ==
    /\ pc = "select"
    /\ Skip \/ Consider
    /\ Goto("select")
    /\ UNCHANGED <<saved, live, cur, next>>

\* The locals of the loop end with it.
LoopEnds ==
    /\ pc = "select" /\ i = MaxTasks
    /\ current_tick' = 0 /\ state0' = state
    /\ i' = 0 /\ highest_priority' = 0 /\ selected_task' = None

Select ==
    /\ LoopEnds
    /\ next' = Result
    /\ Goto("check")
    /\ UNCHANGED <<state, saved, current_task, live, cur>>

Check ==
    /\ pc = "check"
    /\ IF next = current_task
       THEN state' = [state EXCEPT ![cur] = "RUNNING"] /\ Goto("program")
       ELSE UNCHANGED state /\ Goto("restore")
    /\ UNCHANGED <<saved, current_task, live, cur, next, loop>>

Restore ==
    /\ pc = "restore"
    /\ live' = saved[next]
    /\ Goto("mark")
    /\ UNCHANGED <<state, saved, current_task, cur, next, loop>>

Mark ==
    /\ pc = "mark"
    /\ state' = [state EXCEPT ![next] = "RUNNING"]
    /\ Goto("publish")
    /\ UNCHANGED <<saved, current_task, live, cur, next, loop>>

Publish ==
    /\ pc = "publish"
    /\ current_task' = next
    /\ Goto("program")
    /\ UNCHANGED <<state, saved, live, cur, next, loop>>

-----------------------------------------------------------------------------
(* Interrupts *)

\* What vm_schedule does when nothing comes in between.
Switch ==
    LET running == state[current_task] = "RUNNING"
        st == Awake(IF running THEN [state EXCEPT ![current_task] = "READY"]
                    ELSE state, sleep_until_tick, tick)
        sv == IF running THEN [saved EXCEPT ![current_task] = live] ELSE saved
    IN \E n \in Tasks :
          /\ IsNext(n, st, priority, current_task)
          /\ state' = [st EXCEPT ![n] = "RUNNING"]
          /\ saved' = sv
          /\ live' = IF n = current_task THEN live ELSE sv[n]
          /\ current_task' = n

\* Bug: the critical section is not looked at.
IsrAlways ==
    /\ Switch
    /\ UNCHANGED <<fixed, loop, critical_nesting, tick, pc, cur, next, own>>

\* vm_schedule_from_isr
Isr ==
    /\ IF critical_nesting > 0
       THEN UNCHANGED <<state, saved, live, current_task>>
       ELSE Switch
    /\ UNCHANGED <<fixed, loop, critical_nesting, tick, pc, cur, next, own>>

Tick ==
    /\ tick < MaxTick
    /\ tick' = tick + 1
    /\ UNCHANGED <<vars, saved, critical_nesting, live, pc, cur, next, own>>

IsrNext ==
    \/ Work \/ CriticalEnter \/ CriticalExit
    \/ Enter \/ Save \/ Demote \/ EnterLoop \/ Iterate \/ Select \/ Check
    \/ Restore \/ Mark \/ Publish
    \/ Isr \/ Tick

IsrSpec == IsrInit /\ [][IsrNext]_isrvars

-----------------------------------------------------------------------------
\* Outside vm_schedule, one task is running, it is the current one, the stacks
\* are its own, and every other task's stacks are saved as it left them.
SwitchesWhole ==
    pc = "program" =>
        \A t \in Tasks :
            IF t = current_task
            THEN state[t] = "RUNNING" /\ live = [task |-> t, version |-> own[t]]
            ELSE state[t] # "RUNNING" /\ saved[t] = [task |-> t, version |-> own[t]]
=============================================================================
