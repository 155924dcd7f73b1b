-------------------------- MODULE SelectNext_proof --------------------------
(***************************************************************************)
(* The loop of v4_task_select_next computes the scheduling policy, for     *)
(* every number of tasks, every priority and every tick: on its own, and   *)
(* as a part of vm_schedule while interrupts come between its iterations.  *)
(* A program that yields only in critical sections is never switched in    *)
(* the middle.                                                             *)
(***************************************************************************)
EXTENDS SchedulerIsr, TLAPS

USE DEF Tasks, None

\* The tasks among the first n that the loop may select.
Runnable(t) == state[t] \in {"READY", "RUNNING"}

\* The first i entries of the table have been woken, the others are untouched.
WokenSoFar ==
    \A t \in Tasks :
        state[t] = IF t < i /\ state0[t] = "BLOCKED"
                         /\ current_tick >= sleep_until_tick[t]
                   THEN "READY" ELSE state0[t]

\* selected_task is the policy's choice among the first i entries.
BestSoFar ==
    /\ selected_task = None =>
          /\ highest_priority = 0
          /\ \A t \in Tasks : t < i /\ Runnable(t) => priority[t] = 0
    /\ selected_task # None =>
          /\ selected_task \in Tasks /\ selected_task < i
          /\ Runnable(selected_task)
          /\ priority[selected_task] = highest_priority
          /\ highest_priority > 0
          /\ \A t \in Tasks : t < i /\ Runnable(t) =>
                /\ priority[t] <= highest_priority
                /\ priority[t] = highest_priority =>
                      Turn(selected_task, current_task) <= Turn(t, current_task)

LoopInv == TypeOK /\ WokenSoFar /\ BestSoFar

\* The loop starts with nothing woken and nothing selected.
LEMMA LoopInit == Init => LoopInv
BY MaxTasksAssumption, MaxPrioAssumption, MaxTickAssumption
DEF Init, LoopInv, TypeOK, WokenSoFar, BestSoFar

\* Each iteration extends the invariant by one entry.
LEMMA LoopStep == LoopInv /\ [Next]_vars => LoopInv'
<1> USE MaxTasksAssumption, MaxPrioAssumption, MaxTickAssumption
<1> SUFFICES ASSUME LoopInv, [Next]_vars PROVE LoopInv'
  OBVIOUS
<1>0. TypeOK /\ WokenSoFar /\ BestSoFar
  BY DEF LoopInv
<1>1. CASE Skip
  <2>1. TypeOK'
    BY <1>0, <1>1 DEF Skip, TypeOK
  <2>2. ~ Runnable(i)
    BY <1>0, <1>1 DEF Skip, Runnable, TypeOK
  <2>3. i \in Tasks /\ state[i] = state0[i]
    BY <1>0, <1>1 DEF Skip, TypeOK, WokenSoFar
  <2>4. WokenSoFar'
    <3>1. /\ UNCHANGED <<state, state0, sleep_until_tick, current_tick>> /\ i' = i + 1
          /\ i \in Nat /\ ~(state[i] = "BLOCKED" /\ current_tick >= sleep_until_tick[i])
      BY <1>0, <1>1, <2>3 DEF Skip, TypeOK
    <3>2. ASSUME NEW t \in Tasks
          PROVE  state'[t] = IF t < i' /\ state0'[t] = "BLOCKED"
                                       /\ current_tick' >= sleep_until_tick'[t]
                             THEN "READY" ELSE state0'[t]
      <4>1. CASE t = i
        BY <4>1, <2>3, <3>1
      <4>2. CASE t # i
        <5>1. t < i' <=> t < i
          BY <4>2, <3>1
        <5> QED
          BY <5>1, <3>1, <1>0 DEF WokenSoFar
      <4> QED
        BY <4>1, <4>2
    <3> QED
      BY <3>2 DEF WokenSoFar
  <2>5. BestSoFar'
    <3>1. /\ UNCHANGED <<state, priority, current_task, highest_priority, selected_task>>
          /\ i' = i + 1 /\ i \in Tasks
      BY <2>3, <1>1 DEF Skip
    <3>2. \A t \in Tasks : t < i' /\ Runnable(t)' => t < i /\ Runnable(t)
      BY <2>2, <3>1 DEF Runnable
    <3>3. selected_task < i => selected_task < i'
      BY <1>0, <3>1 DEF TypeOK
    <3>4. \A t \in Tasks : Runnable(t)' <=> Runnable(t)
      BY <3>1 DEF Runnable
    <3> QED
      BY <1>0, <3>1, <3>2, <3>3, <3>4 DEF BestSoFar, Turn
  <2> QED
    BY <2>1, <2>4, <2>5 DEF LoopInv
<1>2. CASE Consider
  <2>1. i \in Tasks /\ state[i] = state0[i] /\ i' = i + 1
    BY <1>0, <1>2 DEF Consider, TypeOK, WokenSoFar
  <2>2. TypeOK'
    BY <1>0, <1>2, <2>1 DEF Consider, TypeOK, Best, States
  <2>3. WokenSoFar'
    BY <1>0, <1>2, <2>1 DEF Consider, TypeOK, WokenSoFar
  <2>4. /\ state'[i] \in {"READY", "RUNNING"}
        /\ \A t \in Tasks : t < i => state'[t] = state[t]
    BY SMTT(30), <1>0, <1>2, <2>1 DEF Consider, TypeOK
  <2>5. BestSoFar'
    <3> USE DEF Runnable
    <3>1. CASE priority[i] > highest_priority
      BY SMTT(30), <1>0, <1>2, <2>1, <2>4, <3>1
      DEF Consider, TypeOK, BestSoFar, Best, Turn
    <3>2. CASE priority[i] < highest_priority
      BY SMTT(30), <1>0, <1>2, <2>1, <2>4, <3>2
      DEF Consider, TypeOK, BestSoFar, Best, Turn
    <3>3. CASE priority[i] = highest_priority
      BY <1>0, <1>2, <2>1, <2>4, <3>3
      DEF Consider, TypeOK, BestSoFar, Best, Turn
    <3> QED
      BY <1>0, <2>1, <3>1, <3>2, <3>3 DEF TypeOK
  <2> QED
    BY <2>2, <2>3, <2>5 DEF LoopInv
<1>3. CASE UNCHANGED vars
  BY <1>0, <1>3 DEF vars, LoopInv, TypeOK, WokenSoFar, BestSoFar, Runnable
<1> QED
  BY <1>1, <1>2, <1>3 DEF Next

\* The invariant at the end of the loop is the policy.
LEMMA LoopInvCorrect == LoopInv => LoopComputesPolicy
<1> SUFFICES ASSUME LoopInv, i = MaxTasks
             PROVE  /\ state = Awake(state0, sleep_until_tick, current_tick)
                    /\ IsNext(Result, state, priority, current_task)
  BY DEF LoopComputesPolicy
<1>0. TypeOK /\ WokenSoFar /\ BestSoFar
  BY DEF LoopInv
<1>1. state = Awake(state0, sleep_until_tick, current_tick)
  <2>1. \A t \in Tasks : t < i
    BY MaxTasksAssumption
  <2>2. \A t \in Tasks :
          state[t] = IF state0[t] = "BLOCKED" /\ current_tick >= sleep_until_tick[t]
                     THEN "READY" ELSE state0[t]
    BY <1>0, <2>1 DEF WokenSoFar
  <2> QED
    BY <1>0, <2>2 DEF TypeOK, Awake
<1>2. CASE selected_task = None
  <2>1. \A t \in Tasks : Runnable(t) => priority[t] = 0
    BY <1>0, <1>2, MaxTasksAssumption DEF BestSoFar
  <2>2. Candidates(state, priority) = {}
    BY <2>1 DEF Candidates, Runnable
  <2> QED
    BY <1>1, <1>2, <2>2 DEF Result, IsNext
<1>3. CASE selected_task # None
  <2>1. /\ selected_task \in Candidates(state, priority)
        /\ \A t \in Candidates(state, priority) :
              priority[t] <= priority[selected_task]
        /\ \A t \in Candidates(state, priority) :
              priority[t] = priority[selected_task] =>
                 Turn(selected_task, current_task) <= Turn(t, current_task)
    BY <1>0, <1>3, MaxTasksAssumption
    DEF TypeOK, BestSoFar, Runnable, Candidates
  <2>2. \A t \in TopCandidates(state, priority) :
           t \in Candidates(state, priority)
           /\ priority[t] = priority[selected_task]
    <3> SUFFICES ASSUME NEW t \in TopCandidates(state, priority)
                 PROVE  t \in Candidates(state, priority)
                        /\ priority[t] = priority[selected_task]
      OBVIOUS
    <3>1. /\ t \in Candidates(state, priority)
          /\ priority[selected_task] <= priority[t]
      BY <2>1 DEF TopCandidates
    <3>2. priority[t] \in Nat /\ priority[selected_task] \in Nat
      BY <1>0, <2>1, <3>1 DEF Candidates, TypeOK
    <3> QED
      BY <2>1, <3>1, <3>2
  <2>3. selected_task \in TopCandidates(state, priority)
    BY <2>1 DEF TopCandidates
  <2>4. \A m \in TopCandidates(state, priority) :
           Turn(selected_task, current_task) <= Turn(m, current_task)
    BY <2>1, <2>2
  <2> QED
    BY <1>1, <1>3, <2>1, <2>3, <2>4 DEF Result, IsNext
<1> QED
  BY <1>1, <1>2, <1>3

\* v4_task_select_next returns the next task of the highest positive priority in
\* round-robin order, and wakes the sleepers that are due.
THEOREM LoopCorrect == Spec => []LoopComputesPolicy
BY LoopInit, LoopStep, LoopInvCorrect, PTL DEF Spec

-----------------------------------------------------------------------------
(* vm_schedule with interrupts between its statements *)

\* Task t is not running and its stacks are saved as it left them.
Parked(t) == state[t] # "RUNNING" /\ saved[t] = [task |-> t, version |-> own[t]]

\* The stacks in the VM are those of task t, as it left them.
Mounted(t) == live = [task |-> t, version |-> own[t]]

\* What holds at each statement of vm_schedule.
AtStatement ==
    /\ pc = "program" => SwitchesWhole
    /\ pc = "save" =>
          /\ cur = current_task /\ Mounted(cur)
          /\ \A t \in Tasks \ {cur} : Parked(t)
    /\ pc = "demote" =>
          /\ cur = current_task /\ Mounted(cur)
          /\ saved[cur] = live
          /\ \A t \in Tasks \ {cur} : Parked(t)
    /\ pc \in {"enter_loop", "select", "check", "restore"} =>
          /\ cur = current_task /\ Mounted(cur)
          /\ \A t \in Tasks : Parked(t)
    /\ pc = "mark" => Mounted(next) /\ \A t \in Tasks : Parked(t)
    /\ pc = "publish" =>
          /\ Mounted(next) /\ state[next] = "RUNNING"
          /\ \A t \in Tasks \ {next} : Parked(t)

\* The program is in a critical section all through vm_schedule, and the locals
\* of the loop mean something only in the loop.
IsrInv ==
    /\ IsrTypeOK
    /\ pc # "program" => critical_nesting = 1
    /\ AtStatement
    /\ pc = "select" => WokenSoFar /\ BestSoFar
    /\ pc # "select" => i = 0

LEMMA IsrInitInv == IsrInit => IsrInv
BY MaxTasksAssumption, MaxPrioAssumption, MaxTickAssumption, VersionsAssumption
DEF IsrInit, IsrInv, IsrTypeOK, TypeOK, Stack, Statements, States, AtStatement,
    SwitchesWhole

\* Waking the sleepers makes nobody run.
LEMMA AwakeFacts ==
    ASSUME NEW st \in [Tasks -> States], NEW wake, NEW now
    PROVE  /\ Awake(st, wake, now) \in [Tasks -> States]
           /\ \A t \in Tasks : Awake(st, wake, now)[t] = "RUNNING" <=> st[t] = "RUNNING"
BY DEF Awake, States

LEMMA NextIsTask ==
    ASSUME NEW st, NEW prio, NEW c \in Tasks, NEW n, IsNext(n, st, prio, c)
    PROVE  n \in Tasks
BY DEF IsNext, TopCandidates, Candidates

\* A switch from the program is whole.
LEMMA WholeSwitch ==
    ASSUME IsrInv, pc = "program", Switch, UNCHANGED <<fixed, loop, tick, own>>
    PROVE  /\ state' \in [Tasks -> States] /\ saved' \in [Tasks -> Stack]
           /\ live' \in Stack /\ current_task' \in Tasks
           /\ \A t \in Tasks :
                 IF t = current_task'
                 THEN /\ state'[t] = "RUNNING"
                      /\ live' = [task |-> t, version |-> own[t]]
                 ELSE /\ state'[t] # "RUNNING"
                      /\ saved'[t] = [task |-> t, version |-> own[t]]
<1> DEFINE demoted == [state EXCEPT ![current_task] = "READY"]
           st == Awake(demoted, sleep_until_tick, tick)
           sv == [saved EXCEPT ![current_task] = live]
<1>1. /\ state \in [Tasks -> States] /\ saved \in [Tasks -> Stack]
      /\ live \in Stack /\ current_task \in Tasks
      /\ own \in [Tasks -> 0..(Versions - 1)]
  BY DEF IsrInv, IsrTypeOK, TypeOK
<1>2. /\ state[current_task] = "RUNNING" /\ Mounted(current_task)
      /\ \A t \in Tasks \ {current_task} : Parked(t)
  BY <1>1 DEF IsrInv, AtStatement, SwitchesWhole, Mounted, Parked
<1>3. demoted \in [Tasks -> States] /\ \A t \in Tasks : demoted[t] # "RUNNING"
  BY <1>1, <1>2 DEF States, Parked
<1>4. st \in [Tasks -> States] /\ \A t \in Tasks : st[t] # "RUNNING"
  BY ZenonT(30), <1>3, AwakeFacts
<1>5. /\ sv \in [Tasks -> Stack]
      /\ \A t \in Tasks : sv[t] = [task |-> t, version |-> own[t]]
  BY <1>1, <1>2 DEF Mounted, Parked
<1>6. PICK n : /\ IsNext(n, st, priority, current_task)
               /\ state' = [st EXCEPT ![n] = "RUNNING"]
               /\ saved' = sv
               /\ live' = IF n = current_task THEN live ELSE sv[n]
               /\ current_task' = n
  BY <1>2 DEF Switch
<1>7. n \in Tasks
  BY <1>1, <1>6, NextIsTask
<1>8. QED
  BY <1>1, <1>2, <1>4, <1>5, <1>6, <1>7 DEF States, Mounted

\* The steps outside the loop of v4_task_select_next.
LEMMA StatementInv ==
    ASSUME IsrInv, Guarded,
           \/ Enter \/ Save \/ Demote \/ EnterLoop \/ Select \/ Check
           \/ Restore \/ Mark \/ Publish
    PROVE  IsrInv'
<1> USE MaxTasksAssumption, MaxPrioAssumption, MaxTickAssumption, VersionsAssumption
<1> USE DEF IsrInv, IsrTypeOK, TypeOK, AtStatement, Mounted, Parked, SwitchesWhole,
            Goto, fixed, loop
<1>1. CASE Enter
  BY <1>1 DEF Enter, Statements
<1>2. CASE Save
  BY <1>2 DEF Save, Statements
<1>3. CASE Demote
  BY <1>3 DEF Demote, Statements, States
<1>4. CASE EnterLoop
  BY <1>4 DEF EnterLoop, Statements, WokenSoFar, BestSoFar
<1>5. CASE Select
  <2>1. Result \in Tasks
    BY DEF Result
  <2>2. QED
    BY <1>5, <2>1 DEF Select, LoopEnds, Statements
<1>6. CASE Check
  BY ZenonT(30), <1>6 DEF Check, Statements, States
<1>7. CASE Restore
  BY <1>7 DEF Restore, Statements
<1>8. CASE Mark
  BY <1>8 DEF Mark, Statements, States
<1>9. CASE Publish
  BY <1>9 DEF Publish, Statements
<1>10. QED
  BY <1>1, <1>2, <1>3, <1>4, <1>5, <1>6, <1>7, <1>8, <1>9

\* An iteration of the loop makes nobody run.
LEMMA IterationInv == ASSUME IsrInv, Iterate PROVE IsrInv'
<1>1. LoopInv /\ [Next]_vars /\ pc = "select" /\ pc' = "select"
  BY DEF IsrInv, IsrTypeOK, LoopInv, Iterate, Next, Goto
<1>2. LoopInv'
  BY <1>1, LoopStep
<1>3. /\ UNCHANGED <<current_task, saved, live, cur, next, own, tick, critical_nesting>>
      /\ \A t \in Tasks : state'[t] = "RUNNING" => state[t] = "RUNNING"
  BY <1>1 DEF Iterate, Goto, fixed, Skip, Consider, LoopInv, TypeOK
<1>4. IsrTypeOK'
  BY <1>1, <1>2, <1>3 DEF IsrInv, IsrTypeOK, LoopInv, Statements
<1>5. AtStatement'
  BY <1>1, <1>3 DEF IsrInv, AtStatement, Mounted, Parked
<1>6. QED
  BY <1>1, <1>2, <1>3, <1>4, <1>5 DEF IsrInv, LoopInv

\* An interrupt does nothing in a critical section, and a whole switch outside.
LEMMA InterruptInv == ASSUME IsrInv, Isr PROVE IsrInv'
<1>1. CASE critical_nesting > 0
  <2>1. UNCHANGED isrvars
    BY <1>1 DEF Isr, isrvars, vars, fixed, loop
  <2>2. QED
    BY <2>1 DEF isrvars, vars, IsrInv, IsrTypeOK, TypeOK, AtStatement, Mounted,
                Parked, SwitchesWhole, WokenSoFar, BestSoFar, Runnable
<1>2. CASE ~(critical_nesting > 0)
  <2>1. pc = "program"
    BY <1>2 DEF IsrInv
  <2>2. /\ Switch
        /\ UNCHANGED <<fixed, loop, critical_nesting, tick, pc, cur, next, own>>
    BY <1>2 DEF Isr
  <2>3. /\ state' \in [Tasks -> States] /\ saved' \in [Tasks -> Stack]
        /\ live' \in Stack /\ current_task' \in Tasks /\ SwitchesWhole'
    BY <2>1, <2>2, WholeSwitch DEF SwitchesWhole
  <2>4. IsrTypeOK'
    BY <2>2, <2>3 DEF IsrInv, IsrTypeOK, TypeOK, fixed, loop
  <2>5. QED
    BY <2>1, <2>2, <2>3, <2>4 DEF IsrInv, AtStatement, loop
<1>3. QED
  BY <1>1, <1>2

LEMMA ProgramInv ==
    ASSUME IsrInv, Work \/ CriticalEnter \/ CriticalExit \/ Tick
    PROVE  IsrInv'
<1>1. IsrTypeOK /\ TypeOK /\ live \in Stack /\ own \in [Tasks -> 0..(Versions - 1)]
  BY DEF IsrInv, IsrTypeOK
<1>2. UNCHANGED <<vars, saved, pc, cur, next>>
  BY DEF Work, CriticalEnter, CriticalExit, Tick
<1>3. TypeOK'
  BY <1>1, <1>2 DEF TypeOK, vars
<1>4. live' \in Stack /\ own' \in [Tasks -> 0..(Versions - 1)]
  <2>1. CASE Work
    <3>1. (live.version + 1) % Versions \in 0..(Versions - 1)
      BY <1>1, VersionsAssumption DEF Stack
    <3>2. QED
      BY <1>1, <2>1, <3>1 DEF Work, Stack
  <2>2. CASE CriticalEnter \/ CriticalExit \/ Tick
    BY <1>1, <2>2 DEF CriticalEnter, CriticalExit, Tick
  <2>3. QED
    BY <2>1, <2>2
<1>5. critical_nesting' \in 0..1 /\ tick' \in 0..MaxTick
  BY <1>1, MaxTickAssumption
  DEF IsrTypeOK, Work, CriticalEnter, CriticalExit, Tick
<1>6. IsrTypeOK'
  BY <1>1, <1>2, <1>3, <1>4, <1>5 DEF IsrTypeOK
<1>7. CASE Tick
  BY <1>2, <1>6, <1>7
  DEF Tick, vars, IsrInv, AtStatement, Mounted, Parked, SwitchesWhole,
      WokenSoFar, BestSoFar, Runnable
<1>8. CASE Work \/ CriticalEnter \/ CriticalExit
  <2>1. /\ pc = "program" /\ pc' = "program" /\ i' = i
        /\ UNCHANGED <<state, saved, current_task>>
    BY <1>2, <1>8 DEF vars, Work, CriticalEnter, CriticalExit
  <2>2. SwitchesWhole
    BY <2>1 DEF IsrInv, AtStatement
  <2>3. SwitchesWhole'
    <3>1. CASE Work
      <4> DEFINE v == (live.version + 1) % Versions
      <4>1. live' = [live EXCEPT !.version = v] /\ own' = [own EXCEPT ![current_task] = v]
        BY <3>1 DEF Work
      <4>2. live = [task |-> current_task, version |-> own[current_task]]
        BY <1>1, <2>1, <2>2 DEF SwitchesWhole, TypeOK
      <4>3. live' = [task |-> current_task, version |-> v]
        <5> HIDE DEF v
        <5>1. QED
          BY <4>1, <4>2
      <4>4. own'[current_task] = v /\ \A t \in Tasks \ {current_task} : own'[t] = own[t]
        <5> HIDE DEF v
        <5>1. QED
          BY <1>1, <4>1 DEF TypeOK
      <4>5. QED
        BY <2>1, <2>2, <4>3, <4>4 DEF SwitchesWhole
    <3>2. CASE CriticalEnter \/ CriticalExit
      BY <2>1, <2>2, <3>2 DEF CriticalEnter, CriticalExit, SwitchesWhole
    <3>3. QED
      BY <1>8, <3>1, <3>2
  <2>4. QED
    BY <1>6, <2>1, <2>3 DEF IsrInv, AtStatement
<1>9. QED
  BY <1>7, <1>8

LEMMA GuardedInv == ASSUME Guarded PROVE IsrSpec => []IsrInv
<1>1. IsrInv /\ [IsrNext]_isrvars => IsrInv'
  <2> SUFFICES ASSUME IsrInv, [IsrNext]_isrvars PROVE IsrInv'
    OBVIOUS
  <2>1. CASE UNCHANGED isrvars
    BY <2>1 DEF isrvars, vars, IsrInv, IsrTypeOK, TypeOK, AtStatement, Mounted,
                Parked, SwitchesWhole, WokenSoFar, BestSoFar, Runnable
  <2>2. QED
    BY <2>1, StatementInv, IterationInv, InterruptInv, ProgramInv DEF IsrNext
<1>2. QED
  BY <1>1, IsrInitInv, PTL DEF IsrSpec

\* When a program yields only in critical sections, timer interrupts between any
\* two statements of vm_schedule leave every switch whole: outside vm_schedule
\* the current task is the running one, on its own stacks, and the stacks of
\* every other task are saved as the task left them.
THEOREM GuardedSwitchesWhole ==
    ASSUME Guarded PROVE IsrSpec => [](IsrTypeOK /\ SwitchesWhole)
<1>1. IsrInv => IsrTypeOK /\ SwitchesWhole
  BY DEF IsrInv, AtStatement, SwitchesWhole
<1>2. QED
  BY <1>1, GuardedInv, PTL

\* Nor do they disturb the loop: it computes the policy of the moment when
\* v4_task_select_next read the clock.
THEOREM GuardedLoopCorrect == ASSUME Guarded PROVE IsrSpec => []LoopComputesPolicy
<1>1. IsrInv => LoopComputesPolicy
  <2>1. SUFFICES ASSUME IsrInv, i = MaxTasks PROVE LoopComputesPolicy
    BY DEF LoopComputesPolicy
  <2>2. LoopInv
    BY <2>1, MaxTasksAssumption DEF IsrInv, IsrTypeOK, LoopInv
  <2>3. QED
    BY <2>2, LoopInvCorrect
<1>2. QED
  BY <1>1, GuardedInv, PTL
=============================================================================
