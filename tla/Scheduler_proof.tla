--------------------------- MODULE Scheduler_proof ---------------------------
(***************************************************************************)
(* Proofs about Scheduler, for every number of tasks, every priority, every*)
(* stack size, every clock width and every platform, and, in the second    *)
(* part, about BlockingReceive, which composes it with the message queue,  *)
(* for every queue size, set of timeouts, clock width and poll delay.      *)
(***************************************************************************)
EXTENDS BlockingReceive, TLAPS

USE DEF Tasks

-----------------------------------------------------------------------------
(* Typing *)

\* What a counting platform needs for its counter never to go below zero.
MaskInv == Platform = "count" => critical_nesting <= masked

\* A remainder does not exceed the number it is taken of.
LEMMA ModBound ==
    ASSUME NEW n \in Nat, NEW m \in Nat \ {0}
    PROVE  n % m \in Nat /\ n % m <= n /\ (n < m => n % m = n)
<1>1. n % m \in 0..(m - 1)
  OBVIOUS
<1>2. n < m => n % m = n
  OBVIOUS
<1>3. n >= m => n % m <= n
  BY <1>1
<1> QED
  BY <1>1, <1>2, <1>3

\* Saving a context yields two stacks.
LEMMA SaveType ==
    ASSUME TypeOK, NEW t \in Tasks
    PROVE  SaveContext(t) \in Contents
<1> SUFFICES ASSUME NEW k \in Stacks
             PROVE  [j \in 1..(Len(live[k]) % DepthMod) |->
                        IF j <= base[t][k] THEN live[k][j] ELSE Junk]
                    \in Seq(Cells)
  BY DEF SaveContext, Contents
<1> DEFINE d == Len(live[k]) % DepthMod
<1>1. live[k] \in Seq(Cells) /\ Len(live[k]) \in Nat
  BY DEF TypeOK, Contents
<1>2. d \in Nat /\ d <= Len(live[k])
  BY <1>1, ModBound, DepthModAssumption
<1> HIDE DEF d
<1>3. \A j \in 1..d : (IF j <= base[t][k] THEN live[k][j] ELSE Junk) \in Cells
  BY <1>1, <1>2, MaxTasksAssumption DEF Junk, Cells
<1>4. [j \in 1..d |-> IF j <= base[t][k] THEN live[k][j] ELSE Junk] \in Seq(Cells)
  BY <1>2, <1>3
<1> QED
  BY <1>4 DEF d

\* Restoring a context yields two stacks.
LEMMA RestoreType ==
    ASSUME TypeOK, NEW t \in Tasks, NEW sv \in [Tasks -> Contents], NEW bs
    PROVE  RestoreContext(t, sv, bs) \in Contents
<1> USE MaxTasksAssumption
<1> SUFFICES ASSUME NEW k \in Stacks
             PROVE  (IF bs[t][k] > 0 THEN sv[t][k]
                     ELSE [j \in 1..Len(sv[t][k]) |->
                            IF j <= Len(live[k]) THEN live[k][j] ELSE Junk])
                    \in Seq(Cells)
  BY DEF RestoreContext, Contents
<1>1. live[k] \in Seq(Cells) /\ sv[t][k] \in Seq(Cells)
  BY DEF TypeOK, Contents
<1>2. \A j \in 1..Len(sv[t][k]) :
        (IF j <= Len(live[k]) THEN live[k][j] ELSE Junk) \in Cells
  BY <1>1 DEF Junk, Cells
<1>3. Len(sv[t][k]) \in Nat
  BY <1>1
<1>4. [j \in 1..Len(sv[t][k]) |->
          IF j <= Len(live[k]) THEN live[k][j] ELSE Junk] \in Seq(Cells)
  BY <1>2, <1>3
<1> QED
  BY <1>1, <1>4

\* Demotion and waking keep the states typed.
LEMMA AwakeType ==
    ASSUME NEW st \in [Tasks -> States], NEW wake, NEW now, current_task \in Tasks
    PROVE  Awake(Demoted(st), wake, now) \in [Tasks -> States]
BY DEF Awake, Demoted, States

\* vm_schedule keeps everything it writes typed.
LEMMA ScheduleType ==
    ASSUME TypeOK, NEW st \in [Tasks -> States], NEW wake, NEW bs,
           Schedule(st, wake, bs)
    PROVE  /\ state' \in [Tasks -> States]
           /\ saved' \in [Tasks -> Contents]
           /\ live' \in Contents
           /\ current_task' \in Tasks
           /\ lost' \subseteq Tasks
<1> DEFINE awake == Awake(Demoted(st), wake, tick)
<1>1. PICK next \in Tasks :
        /\ state' = [awake EXCEPT ![next] = "RUNNING"]
        /\ saved' = SavedAfter(st)
        /\ live' = IF Stays(next, awake) THEN live
                   ELSE RestoreContext(next, SavedAfter(st), bs)
        /\ current_task' = next
        /\ lost' = IF Survives(Stays(next, awake), st) THEN lost
                   ELSE lost \cup {current_task}
  BY DEF Schedule
<1>2. current_task \in Tasks
  BY DEF TypeOK
<1>3. awake \in [Tasks -> States]
  BY <1>2, AwakeType
<1>4. SavedAfter(st) \in [Tasks -> Contents]
  BY <1>2, SaveType DEF SavedAfter, TypeOK
<1>5. RestoreContext(next, SavedAfter(st), bs) \in Contents
  BY <1>4, RestoreType
<1>6. live' \in Contents
  BY <1>1, <1>5 DEF TypeOK
<1>7. state' \in [Tasks -> States]
  BY <1>1, <1>3 DEF States
<1>8. lost' \subseteq Tasks
  BY <1>1, <1>2 DEF TypeOK
<1> QED
  BY <1>1, <1>4, <1>6, <1>7, <1>8

\* A sleep of any length keeps the types.
LEMMA SleepType ==
    ASSUME TypeOK, NEW ms \in Nat, Sleep(ms)
    PROVE  TypeOK'
<1> USE TickModAssumption
<1> DEFINE st == [state EXCEPT ![current_task] = "BLOCKED"]
<1> DEFINE wake == [sleep_until_tick EXCEPT ![current_task] = (tick + ms) % TickMod]
<1>1. st \in [Tasks -> States] /\ wake \in [Tasks -> 0..(TickMod - 1)]
  <2>1. (tick + ms) % TickMod \in 0..(TickMod - 1)
    BY DEF TypeOK
  <2> QED
    BY <2>1 DEF TypeOK, States
<1>2. Schedule(st, wake, base)
  BY DEF Sleep
<1>3. /\ sleep_until_tick' = wake
      /\ due' = [due EXCEPT ![current_task] = IF current_task' = current_task THEN 0 ELSE ms]
      /\ UNCHANGED <<priority, base, task_count, critical_nesting, tick, masked, own>>
  BY DEF Sleep, platform
<1> HIDE DEF st, wake
<1>4. /\ state' \in [Tasks -> States] /\ saved' \in [Tasks -> Contents]
      /\ live' \in Contents /\ current_task' \in Tasks /\ lost' \subseteq Tasks
  BY <1>1, <1>2, ScheduleType
<1> QED
  BY <1>1, <1>3, <1>4 DEF TypeOK

\* Replacing one stack by another leaves two stacks.
LEMMA EditType ==
    ASSUME NEW c \in Contents, NEW k \in Stacks, NEW s \in Seq(Cells)
    PROVE  [c EXCEPT ![k] = s] \in Contents
BY DEF Contents

\* Every operation keeps the types.
LEMMA TypeStep == TypeOK /\ MaskInv /\ [Next]_vars => TypeOK' /\ MaskInv'
<1> USE MaxTasksAssumption, CountModAssumption, TickModAssumption,
        DelaysAssumption, PriosAssumption, PlatformAssumption
<1> SUFFICES ASSUME TypeOK, MaskInv, [Next]_vars PROVE TypeOK' /\ MaskInv'
  OBVIOUS
<1>0. Empty \in Contents /\ NoStacks \in [Stacks -> Nat] /\ current_task \in Tasks
  BY DEF Empty, Contents, NoStacks, TypeOK
<1>1. ASSUME NEW p \in Prios, NEW d \in StackArgs, NEW r \in StackArgs,
             Spawn(p, d, r)
      PROVE  TypeOK' /\ MaskInv'
  <2>1. PICK t \in Tasks :
          /\ state' = [state EXCEPT ![t] = "READY"]
          /\ priority' = [priority EXCEPT ![t] = p]
          /\ sleep_until_tick' = [sleep_until_tick EXCEPT ![t] = 0]
          /\ base' = [base EXCEPT ![t] =
                         [k \in Stacks |->
                             Allocated(k, IF k = "DS" THEN d ELSE r)]]
          /\ saved' = [saved EXCEPT ![t] = Empty]
          /\ task_count' = (task_count + 1) % CountMod
          /\ own' = [own EXCEPT ![t] = Empty]
          /\ lost' = lost \ {t}
          /\ due' = [due EXCEPT ![t] = 0]
          /\ UNCHANGED <<current_task, critical_nesting, live, tick, masked>>
    BY <1>1 DEF Spawn, platform
  <2>2. [k \in Stacks |-> Allocated(k, IF k = "DS" THEN d ELSE r)] \in [Stacks -> Nat]
    BY StackArgsAssumption, CapAssumption DEF Allocated, Cap, Stacks
  <2>3. base' \in [Tasks -> [Stacks -> Nat]]
    BY <2>1, <2>2 DEF TypeOK
  <2>4. saved' \in [Tasks -> Contents] /\ own' \in [Tasks -> Contents]
    BY <1>0, <2>1 DEF TypeOK
  <2>5. task_count' \in 0..(CountMod - 1)
    BY <2>1 DEF TypeOK
  <2>6. /\ state' \in [Tasks -> States] /\ priority' \in [Tasks -> Nat]
        /\ sleep_until_tick' \in [Tasks -> 0..(TickMod - 1)]
        /\ due' \in [Tasks -> Nat]
    BY SMTT(30), <2>1 DEF TypeOK, States
  <2> QED
    BY <2>1, <2>3, <2>4, <2>5, <2>6 DEF TypeOK, MaskInv
<1>2. CASE SpawnNoMemory
  BY SMTT(30), <1>0, <1>2 DEF SpawnNoMemory, platform, TypeOK, MaskInv
<1>3. CASE Exit
  <2> DEFINE st == [state EXCEPT ![current_task] = "DEAD"]
  <2> DEFINE bs == [base EXCEPT ![current_task] = NoStacks]
  <2>1. st \in [Tasks -> States] /\ bs \in [Tasks -> [Stacks -> Nat]]
    BY <1>0 DEF TypeOK, States
  <2>2. Schedule(st, sleep_until_tick, bs)
    BY <1>3 DEF Exit
  <2>3. /\ base' = bs
        /\ task_count' = (task_count + CountMod - 1) % CountMod
        /\ due' = [due EXCEPT ![current_task] = 0]
        /\ UNCHANGED <<priority, sleep_until_tick, critical_nesting, tick, masked, own>>
    BY <1>3 DEF Exit, platform
  <2>4. task_count' \in 0..(CountMod - 1)
    BY <2>3 DEF TypeOK
  <2> HIDE DEF st, bs
  <2>5. /\ state' \in [Tasks -> States] /\ saved' \in [Tasks -> Contents]
        /\ live' \in Contents /\ current_task' \in Tasks /\ lost' \subseteq Tasks
    BY <2>1, <2>2, ScheduleType
  <2> QED
    BY <2>1, <2>3, <2>4, <2>5 DEF TypeOK, MaskInv
<1>4. ASSUME NEW ms \in Delays, Sleep(ms)
      PROVE  TypeOK' /\ MaskInv'
  BY <1>4, SleepType DEF Sleep, platform, MaskInv
<1>5. CASE Yield
  <2>1. /\ state' \in [Tasks -> States] /\ saved' \in [Tasks -> Contents]
        /\ live' \in Contents /\ current_task' \in Tasks /\ lost' \subseteq Tasks
    BY <1>5, ScheduleType DEF Yield, TypeOK
  <2> QED
    BY <1>5, <2>1 DEF Yield, platform, TypeOK, MaskInv
<1>6. CASE CriticalEnter
  <2>1. masked' = PlatformEnter /\ critical_nesting' = critical_nesting + 1
    BY <1>6 DEF CriticalEnter
  <2>2. PlatformEnter \in Nat /\ (Platform = "count" => PlatformEnter = masked + 1)
    BY DEF PlatformEnter, TypeOK
  <2>3. MaskInv'
    BY <2>1, <2>2 DEF MaskInv, TypeOK
  <2> QED
    BY SMTT(30), <1>6, <2>1, <2>2, <2>3 DEF CriticalEnter, tcbs, TypeOK
<1>7. CASE CriticalExit
  <2>1. /\ critical_nesting > 0 /\ critical_nesting' = critical_nesting - 1
        /\ masked' = IF critical_nesting = 1 THEN PlatformExit ELSE masked
    BY <1>7 DEF CriticalExit
  <2>2. /\ Platform = "count" => PlatformExit = masked - 1
        /\ Platform # "count" => PlatformExit = 0
    BY DEF PlatformExit
  <2>3. masked' \in Nat /\ critical_nesting' \in Nat /\ MaskInv'
    BY <2>1, <2>2 DEF MaskInv, TypeOK
  <2> QED
    BY <1>7, <2>3 DEF CriticalExit, tcbs, TypeOK
<1>8. ASSUME NEW k \in UsedStacks, Push(k)
      PROVE  TypeOK' /\ MaskInv'
  <2> DEFINE cell == IF state[current_task] = "RUNNING" THEN current_task ELSE Main
  <2>1. k \in Stacks /\ cell \in Cells
    BY <1>0, UsedStacksAssumption DEF Cells, Main
  <2>2. Append(live[k], cell) \in Seq(Cells)
        /\ Append(own[current_task][k], cell) \in Seq(Cells)
    BY <1>0, <2>1 DEF TypeOK, Contents
  <2>3. live' \in Contents /\ own' \in [Tasks -> Contents]
    <3>1. /\ live' = [live EXCEPT ![k] = Append(live[k], cell)]
          /\ \/ own' = [own EXCEPT ![current_task] =
                          [own[current_task] EXCEPT ![k] =
                              Append(own[current_task][k], cell)]]
             \/ own' = own
      BY <1>8 DEF Push
    <3> HIDE DEF cell
    <3>2. [own[current_task] EXCEPT ![k] = Append(own[current_task][k], cell)]
            \in Contents
      BY <1>0, <2>1, <2>2 DEF TypeOK, Contents
    <3>3. live' \in Contents
      <4>1. live \in Contents /\ live[k] \in Seq(Cells)
        BY <2>1 DEF TypeOK, Contents
      <4> QED
        BY <2>1, <2>2, <3>1, <4>1, EditType
    <3>5. own' \in [Tasks -> Contents]
      <4>1. own \in [Tasks -> Contents] /\ current_task \in Tasks
        BY <1>0 DEF TypeOK
      <4> QED
        BY <3>2, <3>1, <4>1
    <3> QED
      BY <3>3, <3>5
  <2> QED
    BY <1>8, <2>3 DEF Push, tcbs, platform, TypeOK, MaskInv
<1>9. ASSUME NEW k \in UsedStacks, Drop(k)
      PROVE  TypeOK' /\ MaskInv'
  <2>1. k \in Stacks
    BY UsedStacksAssumption
  <2>2. live' \in Contents /\ own' \in [Tasks -> Contents]
    <3>1. /\ live' = [live EXCEPT ![k] = DropLast(live[k])]
          /\ live[k] # << >>
          /\ \/ own' = [own EXCEPT ![current_task] =
                          [own[current_task] EXCEPT ![k] =
                              DropLast(own[current_task][k])]]
             \/ own' = own
      BY <1>9 DEF Drop
    <3>2. \A q \in Seq(Cells) : DropLast(q) \in Seq(Cells)
      BY DEF DropLast
    <3>3. [own[current_task] EXCEPT ![k] = DropLast(own[current_task][k])]
            \in Contents
      BY SMTT(30), <1>0, <2>1, <3>2 DEF TypeOK, Contents
    <3>4. live' \in Contents
      <4>1. live \in Contents /\ live[k] \in Seq(Cells)
        BY <2>1 DEF TypeOK, Contents
      <4> QED
        BY <2>1, <3>1, <3>2, <4>1, EditType
    <3>5. own' \in [Tasks -> Contents]
      <4>1. own \in [Tasks -> Contents] /\ current_task \in Tasks
        BY <1>0 DEF TypeOK
      <4> QED
        BY <3>3, <3>1, <4>1
    <3> QED
      BY <3>4, <3>5
  <2> QED
    BY <1>9, <2>2 DEF Drop, tcbs, platform, TypeOK, MaskInv
<1>10. CASE Tick
  <2>1. tick' \in 0..(TickMod - 1)
    BY <1>10 DEF Tick, TypeOK
  <2>2. due' \in [Tasks -> Nat]
    BY SMTT(30), <1>10 DEF Tick, TypeOK
  <2> QED
    BY <1>10, <2>1, <2>2 DEF Tick, tcbs, TypeOK, MaskInv
<1>11. CASE Cleanup
  BY <1>0, <1>11 DEF Cleanup, platform, TypeOK, MaskInv, States
<1>12. CASE Restart
  BY <1>0, <1>12 DEF Restart, platform, TypeOK, MaskInv
<1>13. CASE UNCHANGED vars
  BY <1>13 DEF vars, TypeOK, MaskInv
<1> QED
  BY <1>1, <1>2, <1>3, <1>4, <1>5, <1>6, <1>7, <1>8, <1>9, <1>10, <1>11,
     <1>12, <1>13 DEF Next, SpawnRejected, TimerIsr

\* The state after vm_task_init is typed.
LEMMA TypeInit == Init => TypeOK /\ MaskInv
BY MaxTasksAssumption, CountModAssumption, TickModAssumption
DEF Init, TypeOK, MaskInv, Empty, Contents, NoStacks, States

(***************************************************************************)
(* Type correctness: indices, counters and stack contents stay in range    *)
(* under every sequence of task operations, interrupts and ticks.          *)
(***************************************************************************)
THEOREM TypeCorrect == Spec => []TypeOK
<1>1. Spec => [](TypeOK /\ MaskInv)
  BY TypeInit, TypeStep, PTL DEF Spec
<1> QED
  BY <1>1, PTL

-----------------------------------------------------------------------------
(* One runner, and stacks of dead slots *)

(***************************************************************************)
(* What vm_schedule is given by the operation that calls it: the states st *)
(* and the allocations bs differ from the table only in the current slot,  *)
(* which is running only if it was, and owns its stacks unless it is dead. *)
(***************************************************************************)
Prepared(st, bs) ==
    /\ st \in [Tasks -> States] /\ bs \in [Tasks -> [Stacks -> Nat]]
    /\ \A t \in Tasks \ {current_task} : st[t] = state[t] /\ bs[t] = base[t]
    /\ st[current_task] = "RUNNING" => state[current_task] = "RUNNING"
    /\ st[current_task] = "DEAD" => bs[current_task] = NoStacks
    /\ st[current_task] # "DEAD" => bs[current_task] = base[current_task]

\* How vm_schedule leaves the state of each task.
LEMMA ScheduleStates ==
    ASSUME TypeOK, OneRunner, NEW st, NEW wake, NEW bs, Prepared(st, bs),
           Schedule(st, wake, bs)
    PROVE  /\ current_task' \in Tasks
           /\ state'[current_task'] = "RUNNING"
           /\ \A t \in Tasks \ {current_task'} :
                 /\ state'[t] # "RUNNING"
                 /\ state'[t] = Awake(Demoted(st), wake, tick)[t]
                 /\ state'[t] = "DEAD" <=> st[t] = "DEAD"
                 /\ state'[t] = "BLOCKED" <=> st[t] = "BLOCKED" /\ ~(tick >= wake[t])
<1> DEFINE awake == Awake(Demoted(st), wake, tick)
<1>1. PICK next \in Tasks :
        state' = [awake EXCEPT ![next] = "RUNNING"] /\ current_task' = next
  BY DEF Schedule
<1>2. awake \in [Tasks -> States]
  BY AwakeType DEF Prepared, TypeOK
<1>3. \A t \in Tasks : Demoted(st)[t] # "RUNNING"
  BY DEF Demoted, Prepared, OneRunner, TypeOK
<1>4. \A t \in Tasks :
        /\ awake[t] # "RUNNING"
        /\ awake[t] = "DEAD" <=> st[t] = "DEAD"
        /\ awake[t] = "BLOCKED" <=> st[t] = "BLOCKED" /\ ~(tick >= wake[t])
  BY <1>3 DEF Awake, Demoted, Prepared, TypeOK
<1> QED
  BY <1>1, <1>2, <1>4

\* OneRunner and DeadOwnNothing survive vm_schedule.
LEMMA ScheduleSafe ==
    ASSUME TypeOK, OneRunner, DeadOwnNothing, NEW st, NEW wake, NEW bs,
           Prepared(st, bs), Schedule(st, wake, bs), base' = bs
    PROVE  OneRunner' /\ DeadOwnNothing'
<1>1. OneRunner'
  BY ScheduleStates DEF OneRunner
<1>2. ASSUME NEW t \in Tasks PROVE state'[t] = "DEAD" => bs[t] = NoStacks
  <2>1. state'[t] = "DEAD" => st[t] = "DEAD"
    BY ScheduleStates
  <2>2. st[t] = "DEAD" => bs[t] = NoStacks
    BY DEF Prepared, DeadOwnNothing
  <2> QED
    BY <2>1, <2>2
<1>3. ASSUME NEW t \in Tasks PROVE bs[t]["DS"] = 0 <=> bs[t]["RS"] = 0
  <2>1. bs[t] = base[t] \/ bs[t] = NoStacks
    BY DEF Prepared
  <2> QED
    BY <2>1 DEF DeadOwnNothing, NoStacks, Stacks
<1> QED
  BY <1>1, <1>2, <1>3 DEF DeadOwnNothing

\* The operations call vm_schedule as ScheduleSafe expects.
LEMMA ExitPrepares ==
    ASSUME TypeOK
    PROVE  Prepared([state EXCEPT ![current_task] = "DEAD"],
                    [base EXCEPT ![current_task] = NoStacks])
<1>1. NoStacks \in [Stacks -> Nat]
  BY DEF NoStacks
<1> QED
  BY <1>1 DEF Prepared, TypeOK, States

LEMMA SleepPrepares ==
    ASSUME TypeOK
    PROVE  Prepared([state EXCEPT ![current_task] = "BLOCKED"], base)
BY DEF Prepared, TypeOK, States

LEMMA YieldPrepares ==
    ASSUME TypeOK, DeadOwnNothing
    PROVE  Prepared(state, base)
BY DEF Prepared, TypeOK, DeadOwnNothing

Safe == TypeOK /\ MaskInv /\ OneRunner /\ DeadOwnNothing

\* Every operation keeps OneRunner and DeadOwnNothing.
LEMMA SafeStep == Safe /\ [Next]_vars => Safe'
<1> SUFFICES ASSUME Safe, [Next]_vars PROVE Safe'
  OBVIOUS
<1>0. TypeOK /\ OneRunner /\ DeadOwnNothing /\ TypeOK' /\ MaskInv'
  BY TypeStep DEF Safe
<1> SUFFICES OneRunner' /\ DeadOwnNothing'
  BY <1>0 DEF Safe
<1>1. ASSUME NEW p \in Prios, NEW d \in StackArgs, NEW r \in StackArgs,
             Spawn(p, d, r)
      PROVE  OneRunner' /\ DeadOwnNothing'
  <2>1. PICK t \in Tasks :
          /\ state' = [state EXCEPT ![t] = "READY"]
          /\ base' = [base EXCEPT ![t] =
                         [k \in Stacks |->
                             Allocated(k, IF k = "DS" THEN d ELSE r)]]
          /\ current_task' = current_task
    BY <1>1 DEF Spawn
  <2>2. base'[t]["DS"] # 0 /\ base'[t]["RS"] # 0
    <3>1. base'[t] = [k \in Stacks |-> Allocated(k, IF k = "DS" THEN d ELSE r)]
      BY <1>0, <2>1 DEF TypeOK
    <3> QED
      BY <3>1, StackArgsAssumption, CapAssumption DEF Allocated, Cap, Stacks
  <2>3. \A u \in Tasks \ {t} : state'[u] = state[u] /\ base'[u] = base[u]
    BY <1>0, <2>1 DEF TypeOK
  <2>4. state'[t] = "READY"
    BY <1>0, <2>1 DEF TypeOK
  <2> QED
    BY <1>0, <2>1, <2>2, <2>3, <2>4 DEF OneRunner, DeadOwnNothing
<1>2. CASE SpawnNoMemory
  BY <1>0, <1>2 DEF SpawnNoMemory, OneRunner, DeadOwnNothing, TypeOK, NoStacks, Stacks
<1>3. CASE Exit
  BY <1>0, <1>3, ExitPrepares, ScheduleSafe DEF Exit
<1>4. ASSUME NEW ms \in Delays, Sleep(ms) PROVE OneRunner' /\ DeadOwnNothing'
  BY <1>0, <1>4, SleepPrepares, ScheduleSafe DEF Sleep
<1>5. CASE Yield
  BY <1>0, <1>5, YieldPrepares, ScheduleSafe DEF Yield
<1>6. CASE CriticalEnter
  BY <1>0, <1>6 DEF CriticalEnter, tcbs, OneRunner, DeadOwnNothing
<1>7. CASE CriticalExit
  BY <1>0, <1>7 DEF CriticalExit, tcbs, OneRunner, DeadOwnNothing
<1>8. ASSUME NEW k \in UsedStacks, Push(k) PROVE OneRunner' /\ DeadOwnNothing'
  BY <1>0, <1>8 DEF Push, tcbs, OneRunner, DeadOwnNothing
<1>9. ASSUME NEW k \in UsedStacks, Drop(k) PROVE OneRunner' /\ DeadOwnNothing'
  BY <1>0, <1>9 DEF Drop, tcbs, OneRunner, DeadOwnNothing
<1>10. CASE Tick
  BY <1>0, <1>10 DEF Tick, tcbs, OneRunner, DeadOwnNothing
<1>11. CASE Cleanup
  BY <1>0, <1>11 DEF Cleanup, OneRunner, DeadOwnNothing, NoStacks, Stacks
<1>12. CASE Restart
  BY <1>0, <1>12 DEF Restart, OneRunner, DeadOwnNothing, NoStacks, Stacks
<1>13. CASE UNCHANGED vars
  BY <1>0, <1>13 DEF vars, OneRunner, DeadOwnNothing
<1> QED
  BY <1>1, <1>2, <1>3, <1>4, <1>5, <1>6, <1>7, <1>8, <1>9, <1>10, <1>11,
     <1>12, <1>13 DEF Next, SpawnRejected, TimerIsr

\* The invariants hold in every reachable state.
LEMMA SafeAlways == Spec => []Safe
<1>1. Init => Safe
  <2>1. Init => OneRunner /\ DeadOwnNothing
    BY DEF Init, OneRunner, DeadOwnNothing, NoStacks, Stacks
  <2> QED
    BY <2>1, TypeInit DEF Safe
<1> QED
  BY <1>1, SafeStep, PTL DEF Spec

(***************************************************************************)
(* At most one task is ever marked running, the one current_task names.    *)
(***************************************************************************)
THEOREM AtMostOneRunner == Spec => []OneRunner
<1>1. Safe => OneRunner
  BY DEF Safe
<1> QED
  BY <1>1, SafeAlways, PTL

(***************************************************************************)
(* A dead slot owns no stacks: spawning into it leaks nothing.             *)
(***************************************************************************)
THEOREM DeadOwnNothingAlways == Spec => []DeadOwnNothing
<1>1. Safe => DeadOwnNothing
  BY DEF Safe
<1> QED
  BY <1>1, SafeAlways, PTL

-----------------------------------------------------------------------------
(* Contexts *)

\* A task whose context is not lost has its stacks as long as it lives.
SurvivorsHaveStacks ==
    \A t \in Tasks \ lost :
        state[t] # "DEAD" => \A k \in Stacks : base[t][k] > 0

\* What the slot and the live stacks of one task should hold.
ContextOf(t) ==
    /\ state[t] = "RUNNING" => live = own[t]
    /\ state[t] \in {"READY", "BLOCKED"} => saved[t] = own[t]

\* ContextKept, task by task.
LEMMA ContextByTask ==
    ASSUME TypeOK
    PROVE  ContextKept <=> \A t \in Tasks \ lost : ContextOf(t)
<1>1. ASSUME NEW t \in Tasks
      PROVE  (CASE state[t] = "DEAD" -> TRUE
                [] state[t] = "RUNNING" -> live = own[t]
                [] OTHER -> saved[t] = own[t]) <=> ContextOf(t)
  <2>1. state[t] \in {"READY", "RUNNING", "BLOCKED", "DEAD"}
    BY DEF TypeOK, States
  <2> QED
    BY <2>1 DEF ContextOf
<1> QED
  BY <1>1 DEF ContextKept

\* A context that fits is saved as it is.
LEMMA SaveExact ==
    ASSUME TypeOK, NEW t \in Tasks, Fits(t)
    PROVE  SaveContext(t) = live
<1>1. ASSUME NEW k \in Stacks
      PROVE  [j \in 1..(Len(live[k]) % DepthMod) |->
                 IF j <= base[t][k] THEN live[k][j] ELSE Junk] = live[k]
  <2>0. base[t] \in [Stacks -> Nat] /\ live \in [Stacks -> Seq(Cells)]
    BY DEF TypeOK, Contents
  <2>1. live[k] \in Seq(Cells) /\ Len(live[k]) \in Nat /\ base[t][k] \in Nat
    BY <2>0
  <2>2. Len(live[k]) % DepthMod = Len(live[k])
    BY <2>1, ModBound, DepthModAssumption DEF Fits
  <2>3. \A j \in 1..Len(live[k]) : j <= base[t][k]
    BY <2>1 DEF Fits
  <2>4. [j \in 1..Len(live[k]) |->
            IF j <= base[t][k] THEN live[k][j] ELSE Junk] = live[k]
    BY <2>1, <2>3
  <2> QED
    BY <2>2, <2>4
<1> QED
  BY <1>1 DEF SaveContext, TypeOK, Contents

\* A context with its stacks is restored as it was saved.
LEMMA RestoreExact ==
    ASSUME NEW t \in Tasks, NEW sv \in [Tasks -> Contents],
           NEW bs, \A k \in Stacks : bs[t][k] > 0
    PROVE  RestoreContext(t, sv, bs) = sv[t]
<1>1. RestoreContext(t, sv, bs) = [k \in Stacks |-> sv[t][k]]
  BY DEF RestoreContext
<1> QED
  BY <1>1 DEF Contents

(***************************************************************************)
(* vm_schedule keeps every context that is not lost.  The task that is     *)
(* switched out was running and is saved whole, or never ran; the one that *)
(* is switched in gets back what its slot holds.                           *)
(***************************************************************************)
LEMMA ScheduleContext ==
    ASSUME Safe, SurvivorsHaveStacks, ContextKept,
           NEW st, NEW wake, NEW bs, Prepared(st, bs), Schedule(st, wake, bs),
           base' = bs, own' = own,
           TypeOK'
    PROVE  SurvivorsHaveStacks' /\ ContextKept'
<1> DEFINE awake == Awake(Demoted(st), wake, tick)
<1>0. TypeOK /\ OneRunner /\ current_task \in Tasks /\ st \in [Tasks -> States]
  BY DEF Safe, TypeOK, Prepared
<1>1. PICK next \in Tasks :
        /\ IsNext(next, awake, priority, current_task)
        /\ state' = [awake EXCEPT ![next] = "RUNNING"]
        /\ saved' = SavedAfter(st)
        /\ live' = IF Stays(next, awake) THEN live
                   ELSE RestoreContext(next, SavedAfter(st), bs)
        /\ current_task' = next
        /\ lost' = IF Survives(Stays(next, awake), st) THEN lost
                   ELSE lost \cup {current_task}
  BY DEF Schedule
<1>2. awake \in [Tasks -> States]
  BY <1>0, AwakeType
<1>3. \A t \in Tasks \ {current_task} :
        /\ saved'[t] = saved[t] /\ bs[t] = base[t]
        /\ st[t] = state[t] /\ state[t] # "RUNNING"
        /\ awake[t] = "DEAD" <=> state[t] = "DEAD"
        /\ awake[t] # "RUNNING"
  BY <1>0, <1>1 DEF SavedAfter, Prepared, OneRunner, TypeOK, Awake, Demoted
<1>4. /\ awake[current_task] = "DEAD" <=> st[current_task] = "DEAD"
      /\ awake[current_task] # "RUNNING"
      /\ st[current_task] # "DEAD" => bs[current_task] = base[current_task]
  BY <1>0, <1>2 DEF Awake, Demoted, Prepared, TypeOK
<1>5. next # current_task => awake[next] # "DEAD"
  BY <1>1 DEF IsNext, TopCandidates, Candidates
<1>6. SavedAfter(st) \in [Tasks -> Contents]
  BY <1>1, ScheduleType, <1>0
<1>7. \A t \in Tasks : state'[t] = IF t = next THEN "RUNNING" ELSE awake[t]
  BY <1>1, <1>2
<1>8. ASSUME NEW t \in Tasks \ lost', t # current_task
      PROVE  /\ state'[t] # "DEAD" => \A k \in Stacks : base'[t][k] > 0
             /\ ContextOf(t)'
  <2>1. t \notin lost
    BY <1>1, <1>8
  <2>2. state'[t] # "DEAD" => state[t] # "DEAD"
    BY <1>3, <1>5, <1>7, <1>8
  <2>3. state[t] # "DEAD" =>
           (\A k \in Stacks : bs[t][k] > 0) /\ saved'[t] = own[t]
    <3>1. state[t] # "DEAD" => state[t] \in {"READY", "BLOCKED"}
      BY <1>0, <1>3, <1>8 DEF TypeOK, States
    <3>2. ContextOf(t)
      BY <1>0, <2>1, ContextByTask
    <3> QED
      BY <1>3, <1>8, <2>1, <3>1, <3>2 DEF ContextOf, SurvivorsHaveStacks
  <2>4. ASSUME t = next PROVE live' = own[t]
    <3>1. ~ Stays(next, awake)
      BY <1>8, <2>4 DEF Stays
    <3>2. state'[t] = "RUNNING"
      BY <1>7, <2>4
    <3>3. (\A k \in Stacks : bs[t][k] > 0) /\ saved'[t] = own[t]
      BY <2>2, <2>3, <3>2
    <3> QED
      BY <1>1, <1>6, <2>4, <3>1, <3>3, RestoreExact
  <2>5. t # next => state'[t] # "RUNNING"
    BY <1>3, <1>7, <1>8
  <2> QED
    BY <2>2, <2>3, <2>4, <2>5 DEF ContextOf
<1>9. ASSUME current_task \notin lost'
      PROVE  /\ state'[current_task] # "DEAD" =>
                   \A k \in Stacks : base'[current_task][k] > 0
             /\ state'[current_task] = "RUNNING" => live' = own[current_task]
             /\ state'[current_task] \in {"READY", "BLOCKED"} =>
                   saved'[current_task] = own[current_task]
  <2>1. Survives(Stays(next, awake), st) /\ current_task \notin lost
    BY <1>1, <1>9
  <2>2. ContextOf(current_task)
    BY <1>0, <2>1, ContextByTask
  <2>3. st[current_task] = "RUNNING" => state[current_task] = "RUNNING"
    BY DEF Prepared
  <2>4. state[current_task] # "DEAD" =>
           \A k \in Stacks : base[current_task][k] > 0
    BY <1>0, <2>1 DEF SurvivorsHaveStacks
  <2>5. CASE Stays(next, awake)
    <3>1. state[current_task] = "RUNNING" /\ live = own[current_task]
      BY <2>1, <2>2, <2>3, <2>5 DEF Survives, ContextOf
    <3>2. next = current_task /\ st[current_task] # "DEAD"
      BY <1>4, <2>5 DEF Stays
    <3>3. state'[current_task] = "RUNNING" /\ live' = live
      BY <1>0, <1>1, <1>7, <2>5, <3>2
    <3> QED
      BY <1>4, <2>4, <3>1, <3>2, <3>3
  <2>6. CASE ~ Stays(next, awake) /\ st[current_task] = "RUNNING"
    <3>1. Fits(current_task) /\ state[current_task] = "RUNNING"
      BY <2>1, <2>3, <2>6 DEF Survives
    <3>2. saved'[current_task] = own[current_task]
      <4>1. SaveContext(current_task) = own[current_task]
        BY <1>0, <2>2, <3>1, SaveExact DEF ContextOf
      <4> QED
        BY <1>0, <1>1, <2>6, <4>1 DEF SavedAfter, TypeOK
    <3>3. next # current_task
      BY <1>0, <1>2, <2>6 DEF Stays, Awake, Demoted
    <3> QED
      BY <1>0, <1>4, <1>7, <2>4, <2>6, <3>1, <3>2, <3>3
  <2>7. CASE ~ Stays(next, awake) /\ st[current_task] # "RUNNING"
    <3>1. state[current_task] = "READY" /\ st[current_task] # "DEAD"
      BY <2>1, <2>7 DEF Survives
    <3>2. saved'[current_task] = own[current_task]
      BY <1>1, <2>2, <2>7, <3>1 DEF SavedAfter, ContextOf
    <3>3. \A k \in Stacks : bs[current_task][k] > 0
      BY <1>4, <2>4, <3>1
    <3>4. next = current_task => live' = own[current_task]
      BY <1>0, <1>1, <1>6, <2>7, <3>2, <3>3, RestoreExact
    <3>5. next # current_task => state'[current_task] # "RUNNING"
      BY <1>0, <1>4, <1>7
    <3> QED
      BY <3>2, <3>3, <3>4, <3>5
  <2> QED
    BY <2>5, <2>6, <2>7
<1>10. SurvivorsHaveStacks'
  BY <1>8, <1>9 DEF SurvivorsHaveStacks
<1>11. \A t \in Tasks \ lost' :
         /\ state'[t] = "RUNNING" => live' = own'[t]
         /\ state'[t] \in {"READY", "BLOCKED"} => saved'[t] = own'[t]
  BY <1>8, <1>9 DEF ContextOf
<1>12. \A t \in Tasks : state'[t] \in {"READY", "RUNNING", "BLOCKED", "DEAD"}
  BY DEF TypeOK, States
<1>13. ContextKept'
  BY <1>11, <1>12 DEF ContextKept
<1> QED
  BY <1>10, <1>13

ContextInv == Safe /\ SurvivorsHaveStacks /\ ContextKept

\* A push or a drop on live stacks equal to the history keeps them equal.
LEMMA SameEdit ==
    ASSUME TypeOK, NEW k \in Stacks, NEW v, live = own[current_task],
           live' = [live EXCEPT ![k] = v],
           own' = [own EXCEPT ![current_task][k] = v]
    PROVE  live' = own'[current_task]
BY DEF TypeOK, Contents

\* Every operation keeps the contexts that are not lost.
LEMMA ContextStep == ContextInv /\ [Next]_vars => ContextInv'
<1> SUFFICES ASSUME ContextInv, [Next]_vars PROVE ContextInv'
  OBVIOUS
<1>0. /\ Safe /\ SurvivorsHaveStacks /\ ContextKept /\ Safe'
      /\ TypeOK /\ OneRunner /\ DeadOwnNothing /\ TypeOK'
  BY SafeStep DEF ContextInv, Safe
<1> SUFFICES SurvivorsHaveStacks' /\ ContextKept'
  BY <1>0 DEF ContextInv
<1>1. ASSUME NEW p \in Prios, NEW d \in StackArgs, NEW r \in StackArgs,
             Spawn(p, d, r)
      PROVE  SurvivorsHaveStacks' /\ ContextKept'
  <2>1. PICK t \in Tasks :
          /\ state' = [state EXCEPT ![t] = "READY"]
          /\ base' = [base EXCEPT ![t] =
                         [k \in Stacks |->
                             Allocated(k, IF k = "DS" THEN d ELSE r)]]
          /\ saved' = [saved EXCEPT ![t] = Empty]
          /\ own' = [own EXCEPT ![t] = Empty]
          /\ lost' = lost \ {t}
          /\ live' = live
    BY <1>1 DEF Spawn
  <2>2. /\ state'[t] = "READY" /\ saved'[t] = own'[t]
        /\ base'[t] = [k \in Stacks |-> Allocated(k, IF k = "DS" THEN d ELSE r)]
    BY <1>0, <2>1 DEF TypeOK
  <2>3. \A k \in Stacks : base'[t][k] > 0
    BY <2>2, StackArgsAssumption, CapAssumption DEF Allocated, Cap, Stacks
  <2>4. \A u \in Tasks \ {t} : /\ state'[u] = state[u] /\ base'[u] = base[u]
                               /\ saved'[u] = saved[u] /\ own'[u] = own[u]
    BY <1>0, <2>1 DEF TypeOK
  <2>5. SurvivorsHaveStacks'
    BY <1>0, <2>1, <2>3, <2>4 DEF SurvivorsHaveStacks
  <2>6. ContextKept'
    BY <1>0, <2>1, <2>2, <2>4 DEF ContextKept
  <2> QED
    BY <2>5, <2>6
<1>2. CASE SpawnNoMemory
  <2>1. PICK t \in Tasks :
          state[t] = "DEAD" /\ base' = [base EXCEPT ![t] = NoStacks]
    BY <1>2 DEF SpawnNoMemory
  <2>2. \A u \in Tasks \ {t} : base'[u] = base[u]
    BY <1>0, <2>1 DEF TypeOK
  <2> QED
    BY <1>0, <1>2, <2>1, <2>2 DEF SpawnNoMemory, SurvivorsHaveStacks, ContextKept
<1>3. CASE Exit
  BY <1>0, <1>3, ExitPrepares, ScheduleContext DEF Exit
<1>4. ASSUME NEW ms \in Delays, Sleep(ms)
      PROVE  SurvivorsHaveStacks' /\ ContextKept'
  BY <1>0, <1>4, SleepPrepares, ScheduleContext DEF Sleep
<1>5. CASE Yield
  BY <1>0, <1>5, YieldPrepares, ScheduleContext DEF Yield
<1>6. CASE CriticalEnter
  BY <1>0, <1>6 DEF CriticalEnter, tcbs, SurvivorsHaveStacks, ContextKept
<1>7. CASE CriticalExit
  BY <1>0, <1>7 DEF CriticalExit, tcbs, SurvivorsHaveStacks, ContextKept
<1>8. ASSUME NEW k \in Stacks, NEW v,
             live' = [live EXCEPT ![k] = v],
             Tracked => own' = [own EXCEPT ![current_task][k] = v],
             ~Tracked => own' = own,
             UNCHANGED <<tcbs, lost, current_task>>
      PROVE  SurvivorsHaveStacks' /\ ContextKept'
  <2>1. SurvivorsHaveStacks'
    BY <1>0, <1>8 DEF tcbs, SurvivorsHaveStacks
  <2>2. ASSUME NEW t \in Tasks \ lost, state[t] = "RUNNING"
        PROVE  live' = own'[t]
    <3>1. t = current_task /\ Tracked /\ live = own[current_task]
      BY <1>0, <2>2 DEF OneRunner, Tracked, ContextKept
    <3> QED
      BY <1>0, <1>8, <3>1, SameEdit
  <2>3. ASSUME NEW t \in Tasks \ lost, state[t] # "RUNNING"
        PROVE  own'[t] = own[t]
    <3>1. own \in [Tasks -> Contents]
      BY <1>0 DEF TypeOK
    <3>2. CASE Tracked
      <4>1. t # current_task
        BY <2>3, <3>2 DEF Tracked
      <4> QED
        BY <1>8, <3>1, <3>2, <4>1
    <3>3. CASE ~Tracked
      BY <1>8, <3>3
    <3> QED
      BY <3>2, <3>3
  <2>4. ContextKept'
    <3>1. state' = state /\ saved' = saved /\ lost' = lost
      BY <1>8 DEF tcbs
    <3>2. ASSUME NEW t \in Tasks \ lost
          PROVE  CASE state[t] = "DEAD" -> TRUE
                   [] state[t] = "RUNNING" -> live' = own'[t]
                   [] OTHER -> saved[t] = own'[t]
      <4>1. CASE state[t] = "RUNNING"
        BY <2>2, <4>1
      <4>2. CASE state[t] # "RUNNING"
        BY <1>0, <2>3, <4>2 DEF ContextKept
      <4> QED
        BY <4>1, <4>2
    <3> QED
      BY <3>1, <3>2 DEF ContextKept
  <2> QED
    BY <2>1, <2>4
<1>9. ASSUME NEW k \in UsedStacks, Push(k)
      PROVE  SurvivorsHaveStacks' /\ ContextKept'
  <2> DEFINE cell == IF state[current_task] = "RUNNING" THEN current_task ELSE Main
  <2>1. k \in Stacks
    BY UsedStacksAssumption
  <2>2. Tracked => own[current_task] = live
    BY <1>0 DEF Tracked, ContextKept, TypeOK
  <2>3. /\ live' = [live EXCEPT ![k] = Append(live[k], cell)]
        /\ Tracked => own' = [own EXCEPT ![current_task][k] = Append(live[k], cell)]
        /\ ~Tracked => own' = own
        /\ UNCHANGED <<tcbs, lost, current_task>>
    BY <1>9, <2>2 DEF Push
  <2> QED
    BY <1>8, <2>1, <2>3
<1>10. ASSUME NEW k \in UsedStacks, Drop(k)
       PROVE  SurvivorsHaveStacks' /\ ContextKept'
  <2>1. k \in Stacks
    BY UsedStacksAssumption
  <2>2. Tracked => own[current_task] = live
    BY <1>0 DEF Tracked, ContextKept, TypeOK
  <2>3. /\ live' = [live EXCEPT ![k] = DropLast(live[k])]
        /\ Tracked => own' = [own EXCEPT ![current_task][k] = DropLast(live[k])]
        /\ ~Tracked => own' = own
        /\ UNCHANGED <<tcbs, lost, current_task>>
    BY <1>10, <2>2 DEF Drop
  <2> QED
    BY <1>8, <2>1, <2>3
<1>11. CASE Tick
  BY <1>0, <1>11 DEF Tick, tcbs, SurvivorsHaveStacks, ContextKept
<1>12. CASE Cleanup
  BY <1>0, <1>12 DEF Cleanup, SurvivorsHaveStacks, ContextKept
<1>13. CASE Restart
  BY <1>0, <1>13 DEF Restart, SurvivorsHaveStacks, ContextKept
<1>14. CASE UNCHANGED vars
  BY <1>0, <1>14 DEF vars, SurvivorsHaveStacks, ContextKept
<1> QED
  BY <1>1, <1>2, <1>3, <1>4, <1>5, <1>6, <1>7, <1>9, <1>10, <1>11, <1>12,
     <1>13, <1>14 DEF Next, SpawnRejected, TimerIsr

(***************************************************************************)
(* Through any number of switches, a task has exactly the stacks it built, *)
(* unless it gave up the CPU by a sleep, its context did not fit, or it    *)
(* started in the slot that was current: the causes Survives excludes.     *)
(***************************************************************************)
THEOREM ContextsKept == Spec => []ContextKept
<1>1. Init => ContextInv
  <2>1. Init => Safe
    <3>1. Init => OneRunner /\ DeadOwnNothing
      BY DEF Init, OneRunner, DeadOwnNothing, NoStacks, Stacks
    <3> QED
      BY <3>1, TypeInit DEF Safe
  <2>2. Init => SurvivorsHaveStacks /\ ContextKept
    BY DEF Init, SurvivorsHaveStacks, ContextKept
  <2> QED
    BY <2>1, <2>2 DEF ContextInv
<1>2. ContextInv => ContextKept
  BY DEF ContextInv
<1> QED
  BY <1>1, <1>2, ContextStep, PTL DEF Spec

-----------------------------------------------------------------------------
(* Priorities *)

\* vm_schedule gives the CPU to a task no ready task outranks.
LEMMA ScheduleTop ==
    ASSUME TypeOK, NEW st \in [Tasks -> States], NEW wake, NEW bs,
           Schedule(st, wake, bs),
           NEW t \in Tasks, state'[t] = "READY"
    PROVE  priority[t] <= priority[current_task']
<1> DEFINE awake == Awake(Demoted(st), wake, tick)
<1>0. current_task \in Tasks /\ priority \in [Tasks -> Nat]
  BY DEF TypeOK
<1>1. PICK next \in Tasks :
        /\ IsNext(next, awake, priority, current_task)
        /\ state' = [awake EXCEPT ![next] = "RUNNING"]
        /\ current_task' = next
  BY DEF Schedule
<1>2. awake \in [Tasks -> States]
  BY <1>0, AwakeType
<1>3. awake[t] = "READY"
  BY <1>1, <1>2
<1>4. priority[t] > 0 => t \in Candidates(awake, priority)
  BY <1>3 DEF Candidates
<1>5. t \in Candidates(awake, priority) => priority[t] <= priority[next]
  BY <1>1 DEF IsNext, TopCandidates
<1> QED
  BY <1>0, <1>1, <1>4, <1>5

(***************************************************************************)
(* Whenever the scheduler has run, by a yield, a sleep, an exit or an      *)
(* interrupt, no ready task has a higher priority than the running one.    *)
(***************************************************************************)
THEOREM TopPriority == Spec => TopPriorityRuns
<1>1. TypeOK /\ [Next]_vars =>
        [ (Yield \/ Exit \/ \E ms \in Delays : Sleep(ms)) =>
            \A t \in Tasks :
                state'[t] = "READY" => priority[t] <= priority[current_task'] ]_vars
  <2> SUFFICES ASSUME TypeOK, Yield \/ Exit \/ \E ms \in Delays : Sleep(ms),
                      NEW t \in Tasks, state'[t] = "READY"
               PROVE  priority[t] <= priority[current_task']
    OBVIOUS
  <2>1. \A v \in States : [state EXCEPT ![current_task] = v] \in [Tasks -> States]
    BY DEF TypeOK
  <2>2. CASE Yield
    BY <2>2, ScheduleTop DEF Yield, TypeOK
  <2>3. CASE Exit
    BY <2>1, <2>3, ScheduleTop DEF Exit, States
  <2>4. ASSUME NEW ms \in Delays, Sleep(ms)
        PROVE  priority[t] <= priority[current_task']
    BY <2>1, <2>4, ScheduleTop DEF Sleep, States
  <2> QED
    BY <2>2, <2>3, <2>4
<1> QED
  BY <1>1, TypeCorrect, PTL DEF Spec, TopPriorityRuns

-----------------------------------------------------------------------------
(* Sleeping *)

\* While the clock has not wrapped, a deadline is the tick plus what is due.
\* The current task itself is never left blocked.
DeadlineInv ==
    /\ tick <= TickLimit
    /\ state[current_task] # "BLOCKED"
    /\ \A t \in Tasks :
          due[t] > 0 => /\ state[t] = "BLOCKED"
                        /\ sleep_until_tick[t] = tick + due[t]

\* Scheduling wakes nobody whose deadline lies ahead.
LEMMA ScheduleDeadline ==
    ASSUME Safe, NEW st, NEW wake, NEW bs, Prepared(st, bs),
           Schedule(st, wake, bs),
           NEW t \in Tasks, st[t] = "BLOCKED", ~(tick >= wake[t]),
           t # current_task'
    PROVE  state'[t] = "BLOCKED"
BY ScheduleStates DEF Safe

\* A task that is not current does not get the CPU before its deadline.
LEMMA ScheduleSkipsSleeper ==
    ASSUME Safe, NEW st \in [Tasks -> States], NEW wake, NEW bs,
           Schedule(st, wake, bs),
           NEW t \in Tasks, t # current_task, st[t] = "BLOCKED", ~(tick >= wake[t])
    PROVE  t # current_task'
<1> DEFINE awake == Awake(Demoted(st), wake, tick)
<1>1. PICK next \in Tasks :
        IsNext(next, awake, priority, current_task) /\ current_task' = next
  BY DEF Schedule
<1>2. awake[t] = "BLOCKED"
  BY DEF Awake, Demoted, Safe, TypeOK
<1>3. t \notin Candidates(awake, priority)
  BY <1>2 DEF Candidates
<1> QED
  BY <1>1, <1>3 DEF IsNext, TopCandidates

\* Every operation keeps the deadlines, if no deadline can wrap.
LEMMA DeadlineStep ==
    ASSUME TickLimit < TickMod
    PROVE  Safe /\ Safe' /\ DeadlineInv /\ [Next]_vars => DeadlineInv'
<1> USE TickModAssumption, LimitsAssumption, DelaysAssumption
<1> SUFFICES ASSUME Safe, Safe', DeadlineInv, [Next]_vars PROVE DeadlineInv'
  OBVIOUS
<1>0. /\ TypeOK /\ DeadOwnNothing /\ current_task \in Tasks /\ tick \in Nat
      /\ due \in [Tasks -> Nat]
  BY DEF Safe, TypeOK
<1>1. ASSUME NEW st, NEW wake, NEW bs, Prepared(st, bs), Schedule(st, wake, bs),
             \A t \in Tasks \ {current_task} :
                 wake[t] = sleep_until_tick[t] /\ due'[t] = due[t],
             due'[current_task] > 0 =>
                 /\ st[current_task] = "BLOCKED" /\ current_task' # current_task
                 /\ wake[current_task] = tick + due'[current_task],
             sleep_until_tick' = wake, tick' = tick, due' \in [Tasks -> Nat]
      PROVE  DeadlineInv'
  <2> SUFFICES ASSUME NEW t \in Tasks, due'[t] > 0
               PROVE  state'[t] = "BLOCKED" /\ wake[t] = tick + due'[t]
    <3>1. state'[current_task'] = "RUNNING"
      BY <1>1, ScheduleStates DEF Safe
    <3> QED
      BY <1>1, <3>1 DEF DeadlineInv
  <2>1. st[t] = "BLOCKED" /\ wake[t] = tick + due'[t]
    BY <1>1 DEF DeadlineInv, Prepared
  <2>2. ~(tick >= wake[t])
    BY <1>0, <1>1, <2>1
  <2>3. st \in [Tasks -> States]
    BY <1>1 DEF Prepared
  <2>4. t # current_task'
    BY <1>1, <2>1, <2>2, <2>3, ScheduleSkipsSleeper
  <2> QED
    BY <1>1, <2>1, <2>2, <2>4, ScheduleDeadline
<1>2. ASSUME NEW p \in Prios, NEW d \in StackArgs, NEW r \in StackArgs,
             Spawn(p, d, r)
      PROVE  DeadlineInv'
  BY <1>0, <1>2 DEF Spawn, platform, DeadlineInv, TypeOK
<1>3. CASE SpawnNoMemory
  BY <1>3 DEF SpawnNoMemory, platform, DeadlineInv
<1>4. CASE Exit
  <2> DEFINE st == [state EXCEPT ![current_task] = "DEAD"]
  <2> DEFINE bs == [base EXCEPT ![current_task] = NoStacks]
  <2>1. Prepared(st, bs) /\ Schedule(st, sleep_until_tick, bs)
    BY <1>0, <1>4, ExitPrepares DEF Exit
  <2>2. due' = [due EXCEPT ![current_task] = 0] /\ tick' = tick
        /\ sleep_until_tick' = sleep_until_tick
    BY <1>4 DEF Exit, platform
  <2> HIDE DEF st, bs
  <2>3. due'[current_task] = 0 /\ due' \in [Tasks -> Nat]
        /\ \A t \in Tasks \ {current_task} : due'[t] = due[t]
    BY <1>0, <2>2
  <2> QED
    BY <1>1, <2>1, <2>2, <2>3
<1>5. ASSUME NEW ms \in Delays, Sleep(ms) PROVE DeadlineInv'
  <2> DEFINE st == [state EXCEPT ![current_task] = "BLOCKED"]
  <2> DEFINE wake == [sleep_until_tick EXCEPT ![current_task] = (tick + ms) % TickMod]
  <2>1. Prepared(st, base) /\ Schedule(st, wake, base)
    BY <1>0, <1>5, SleepPrepares DEF Sleep
  <2>2. /\ due' = [due EXCEPT ![current_task] =
                      IF current_task' = current_task THEN 0 ELSE ms]
        /\ tick' = tick /\ sleep_until_tick' = wake /\ tick + ms <= TickLimit
    BY <1>5 DEF Sleep, platform
  <2>3. (tick + ms) % TickMod = tick + ms
    <3>1. tick + ms \in Nat /\ tick + ms < TickMod
      BY <1>0, <2>2
    <3> QED
      BY <3>1, ModBound
  <2>4. st[current_task] = "BLOCKED" /\ wake[current_task] = tick + ms
        /\ \A t \in Tasks \ {current_task} : wake[t] = sleep_until_tick[t]
    BY <1>0, <2>3 DEF TypeOK
  <2> HIDE DEF st, wake
  <2>5. /\ due' \in [Tasks -> Nat]
        /\ due'[current_task] = IF current_task' = current_task THEN 0 ELSE ms
        /\ \A t \in Tasks \ {current_task} : due'[t] = due[t]
    BY <1>0, <2>2
  <2> QED
    BY <1>1, <2>1, <2>2, <2>4, <2>5
<1>6. CASE Yield
  <2>1. Prepared(state, base) /\ Schedule(state, sleep_until_tick, base)
    BY <1>0, <1>6, YieldPrepares DEF Yield
  <2>2. due' = due /\ tick' = tick /\ sleep_until_tick' = sleep_until_tick
    BY <1>6 DEF Yield, platform
  <2>3. ~(due[current_task] > 0)
    BY <1>0 DEF DeadlineInv
  <2> QED
    BY <1>0, <1>1, <2>1, <2>2, <2>3
<1>7. CASE CriticalEnter
  BY <1>7 DEF CriticalEnter, tcbs, DeadlineInv
<1>8. CASE CriticalExit
  BY <1>8 DEF CriticalExit, tcbs, DeadlineInv
<1>9. ASSUME NEW k \in UsedStacks, Push(k) \/ Drop(k) PROVE DeadlineInv'
  BY <1>9 DEF Push, Drop, tcbs, platform, DeadlineInv
<1>10. CASE Tick
  <2>1. tick' = tick + 1
    <3>1. tick + 1 \in Nat /\ tick + 1 < TickMod
      BY <1>0, <1>10 DEF Tick
    <3> QED
      BY <1>10, <3>1, ModBound DEF Tick
  <2>2. \A t \in Tasks : due'[t] = IF due[t] > 0 THEN due[t] - 1 ELSE 0
    BY <1>10 DEF Tick
  <2> QED
    BY <1>0, <1>10, <2>1, <2>2 DEF Tick, tcbs, DeadlineInv
<1>11. CASE Cleanup
  BY <1>0, <1>11 DEF Cleanup, platform, DeadlineInv
<1>12. CASE Restart
  BY <1>0, <1>12, MaxTasksAssumption DEF Restart, platform, DeadlineInv
<1>13. CASE UNCHANGED vars
  BY <1>13 DEF vars, DeadlineInv
<1> QED
  BY <1>2, <1>3, <1>4, <1>5, <1>6, <1>7, <1>8, <1>9, <1>10, <1>11, <1>12,
     <1>13 DEF Next, SpawnRejected, TimerIsr

(***************************************************************************)
(* As long as no deadline wraps around the tick counter, a sleeping task   *)
(* stays off the CPU for the whole delay it asked for.                     *)
(***************************************************************************)
THEOREM NobodyWakesEarly == TickLimit < TickMod => (Spec => []SleepsOut)
<1> SUFFICES ASSUME TickLimit < TickMod PROVE Spec => []SleepsOut
  OBVIOUS
<1>1. Init => DeadlineInv
  BY MaxTasksAssumption, LimitsAssumption DEF Init, DeadlineInv
<1>2. DeadlineInv => SleepsOut
  BY DEF DeadlineInv, SleepsOut
<1>3. Safe /\ Safe' /\ DeadlineInv /\ [Next]_vars => DeadlineInv'
  BY DeadlineStep
<1> QED
  BY <1>1, <1>2, <1>3, SafeAlways, PTL DEF Spec

\* vm_schedule returns to a current task that cannot run only if nobody can.
LEMMA ScheduleLeaves ==
    ASSUME TypeOK, NEW st \in [Tasks -> States], NEW wake, NEW bs,
           Schedule(st, wake, bs),
           \/ st[current_task] = "DEAD"
           \/ st[current_task] = "BLOCKED" /\ ~(tick >= wake[current_task]),
           current_task' = current_task,
           NEW t \in Tasks \ {current_task}, state'[t] = "READY"
    PROVE  priority[t] = 0
<1> DEFINE awake == Awake(Demoted(st), wake, tick)
<1>0. current_task \in Tasks /\ priority \in [Tasks -> Nat] /\ t \in Tasks
  BY DEF TypeOK
<1>1. /\ IsNext(current_task, awake, priority, current_task)
      /\ state' = [awake EXCEPT ![current_task] = "RUNNING"]
  BY DEF Schedule
<1>2. awake \in [Tasks -> States]
  BY <1>0, AwakeType
<1>3. awake[current_task] = st[current_task]
  BY <1>0 DEF Demoted, Awake
<1>4. current_task \notin Candidates(awake, priority)
  BY <1>3 DEF Candidates
<1>5. Candidates(awake, priority) = {}
  BY <1>1, <1>4 DEF IsNext, TopCandidates
<1>6. awake[t] = "READY"
  BY <1>0, <1>1, <1>2
<1>7. ~(priority[t] > 0)
  BY <1>0, <1>5, <1>6 DEF Candidates
<1> QED
  BY <1>0, <1>7

(***************************************************************************)
(* While the clock has not wrapped, a task that exits or goes to sleep     *)
(* keeps the CPU only if no other task of positive priority is ready.      *)
(***************************************************************************)
THEOREM LeaversGiveWay == TickLimit < TickMod => (Spec => LeaversYield)
<1> DEFINE Left == \A t \in Tasks \ {current_task} :
                      state'[t] = "READY" => priority[t] = 0
<1> SUFFICES ASSUME TickLimit < TickMod PROVE Spec => LeaversYield
  OBVIOUS
<1>1. TypeOK /\ [Next]_vars =>
        [ /\ Exit \/ \E ms \in Delays \ {0} : Sleep(ms)
          /\ current_task' = current_task
          => Left ]_vars
  <2> SUFFICES ASSUME TypeOK, Exit \/ \E ms \in Delays \ {0} : Sleep(ms),
                      current_task' = current_task,
                      NEW t \in Tasks \ {current_task}, state'[t] = "READY"
               PROVE  priority[t] = 0
    OBVIOUS
  <2>1. \A v \in States : /\ [state EXCEPT ![current_task] = v] \in [Tasks -> States]
                          /\ [state EXCEPT ![current_task] = v][current_task] = v
    BY DEF TypeOK
  <2>2. CASE Exit
    BY <2>1, <2>2, ScheduleLeaves DEF Exit, States
  <2>3. ASSUME NEW ms \in Delays \ {0}, Sleep(ms)
        PROVE  priority[t] = 0
    <3> DEFINE wake == [sleep_until_tick EXCEPT ![current_task] = (tick + ms) % TickMod]
               st == [state EXCEPT ![current_task] = "BLOCKED"]
    <3>1. tick \in Nat /\ ms \in Nat /\ ms > 0 /\ tick + ms < TickMod
      BY <2>3, DelaysAssumption, LimitsAssumption, TickModAssumption DEF Sleep, TypeOK
    <3>2. (tick + ms) % TickMod = tick + ms
      BY <3>1, TickModAssumption
    <3>3. wake[current_task] = tick + ms
      BY <3>2 DEF TypeOK
    <3>4. ~(tick >= wake[current_task])
      BY <3>1, <3>3
    <3>5. Schedule(st, wake, base)
      BY <2>3 DEF Sleep
    <3>6. st \in [Tasks -> States] /\ st[current_task] = "BLOCKED"
      BY <2>1 DEF States
    <3> HIDE DEF wake, st
    <3> QED
      BY <3>4, <3>5, <3>6, ScheduleLeaves
  <2> QED
    BY <2>2, <2>3
<1> QED
  BY <1>1, TypeCorrect, PTL DEF Spec, LeaversYield

-----------------------------------------------------------------------------
(* Critical sections *)

(***************************************************************************)
(* On a platform whose interrupt mask is a flag, interrupts are masked     *)
(* exactly inside critical sections, however deeply they nest.             *)
(***************************************************************************)
THEOREM FlagPlatformMatches == Platform = "flag" => (Spec => []CriticalMatches)
<1> SUFFICES ASSUME Platform = "flag" PROVE Spec => []CriticalMatches
  OBVIOUS
<1>1. Init => CriticalMatches
  BY DEF Init, CriticalMatches
<1>2. Safe /\ CriticalMatches /\ [Next]_vars => CriticalMatches'
  <2> SUFFICES ASSUME Safe, CriticalMatches, [Next]_vars PROVE CriticalMatches'
    OBVIOUS
  <2>0. critical_nesting \in Nat /\ masked \in Nat
    BY DEF Safe, TypeOK
  <2>1. CASE CriticalEnter
    BY <2>0, <2>1 DEF CriticalEnter, PlatformEnter, CriticalMatches
  <2>2. CASE CriticalExit
    <3>1. PlatformExit = 0
      BY DEF PlatformExit
    <3> QED
      BY <2>0, <2>2, <3>1 DEF CriticalExit, CriticalMatches
  <2>3. CASE Restart
    BY <2>3 DEF Restart, platform, CriticalMatches
  <2>4. CASE UNCHANGED <<critical_nesting, masked>>
    BY <2>4 DEF CriticalMatches
  <2>5. CASE Next /\ ~ (CriticalEnter \/ CriticalExit \/ Restart)
    <3>1. UNCHANGED <<critical_nesting, masked>>
      BY <2>5 DEF Next, Spawn, SpawnNoMemory, SpawnRejected, Exit, Sleep, Yield,
                  TimerIsr, Push, Drop, Tick, Cleanup, platform, vars
    <3> QED
      BY <2>4, <3>1
  <2> QED
    BY <2>1, <2>2, <2>3, <2>4, <2>5 DEF vars
<1> QED
  BY <1>1, <1>2, SafeAlways, PTL DEF Spec

-----------------------------------------------------------------------------
(* The blocking receive *)

\* The lemmas about the message queue, for the queue of the composition.
QP == INSTANCE MsgQueue_proof

-----------------------------------------------------------------------------
(* Typing: the calls and the interrupts are operations of the two components *)

\* What the scheduler sees is one of its operations, or a poll's sleep.
LEMMA SchedulerStep ==
    ASSUME SysNext
    PROVE  [Next]_vars \/ Sleep(PollDelay)
<1>1. ASSUME NEW ty \in Q!Types, NEW ms \in Timeouts, ReceiveBlocking(ty, ms)
      PROVE  UNCHANGED vars
  BY <1>1 DEF ReceiveBlocking, sched
<1>2. CASE Loop
  BY <1>2 DEF Loop, Hit, Miss, TimeOut, Poll, sched
<1>3. CASE Program
  BY <1>3 DEF Program, Next, sched
<1>4. CASE Timer
  BY <1>4 DEF Timer, Next
<1>5. CASE HandlerSend
  BY <1>5 DEF HandlerSend, sched
<1>6. CASE ClockTick
  BY <1>6 DEF ClockTick, Next
<1> QED
  BY <1>1, <1>2, <1>3, <1>4, <1>5, <1>6 DEF SysNext

\* What the queue sees is one of its calls.
LEMMA QueueStep ==
    ASSUME SysNext, current_task \in Tasks, msg_type \in Q!Types
    PROVE  [Q!Next]_msgs
<1>1. ASSUME NEW ty \in Q!Types, NEW ms \in Timeouts, ReceiveBlocking(ty, ms)
      PROVE  UNCHANGED msgs
  BY <1>1 DEF ReceiveBlocking
<1> USE DEF Q!Tasks, Tasks
<1>2. CASE Loop
  <2>1. ASSUME Q!Receive(current_task, msg_type)
               \/ Q!ReceiveNothing(current_task, msg_type)
        PROVE  Q!Next
    BY <2>1 DEF Q!Next
  <2> QED
    BY <1>2, <2>1 DEF Loop, Hit, Miss, TimeOut, Poll
<1>3. ASSUME \E dst \in 0..Broadcast, ty \in Q!Types :
                Q!Send(current_task, dst, ty) \/ Q!SendRejected(dst)
      PROVE  Q!Next
  BY <1>3 DEF Q!Next
<1>4. ASSUME \E ty \in Q!Types :
                Q!Receive(current_task, ty) \/ Q!ReceiveNothing(current_task, ty)
      PROVE  Q!Next
  BY <1>4 DEF Q!Next
<1>5. CASE Program
  BY <1>3, <1>4, <1>5 DEF Program, Q!Next
<1>6. CASE HandlerSend
  BY <1>3, <1>6 DEF HandlerSend
<1>7. CASE Timer \/ ClockTick
  BY <1>7 DEF Timer, ClockTick
<1> QED
  BY <1>1, <1>2, <1>5, <1>6, <1>7 DEF SysNext

\* The two instances of the queue are the same module.
LEMMA SameQueue ==
    /\ Q!Init <=> QP!Init
    /\ Q!TypeOK <=> QP!TypeOK
    /\ Q!TypeOK' <=> QP!TypeOK'
    /\ [Q!Next]_msgs => [QP!Next]_(QP!vars)
<1> USE DEF Q!Tasks, QP!Tasks, Q!Types, QP!Types
<1>1. Q!ZeroMessage = QP!ZeroMessage /\ Q!Message = QP!Message
      /\ Q!Slots = QP!Slots /\ Q!ClearedSlots = QP!ClearedSlots
  BY DEF Q!ZeroMessage, QP!ZeroMessage, Q!Message, QP!Message, Q!Slots,
         QP!Slots, Q!ClearedSlots, QP!ClearedSlots
<1>2. Q!Init <=> QP!Init
  BY <1>1 DEF Q!Init, QP!Init
<1>3. (Q!TypeOK <=> QP!TypeOK) /\ (Q!TypeOK' <=> QP!TypeOK')
  BY <1>1 DEF Q!TypeOK, QP!TypeOK
<1>4. ASSUME NEW me, NEW dst, NEW ty
      PROVE  /\ Q!Send(me, dst, ty) <=> QP!Send(me, dst, ty)
             /\ Q!SendRejected(dst) <=> QP!SendRejected(dst)
  BY DEF Q!Send, QP!Send, Q!SendRejected, QP!SendRejected, Q!vars, QP!vars
<1>5. ASSUME NEW me, NEW ty
      PROVE  /\ Q!Receive(me, ty) <=> QP!Receive(me, ty)
             /\ Q!ReceiveNothing(me, ty) <=> QP!ReceiveNothing(me, ty)
  <2>1. \A i : Q!SlotOf(i) = QP!SlotOf(i) /\ Q!Shifted(i) = QP!Shifted(i)
    BY <1>1 DEF Q!SlotOf, QP!SlotOf, Q!Shifted, QP!Shifted
  <2>2. Q!Hits(me, ty) = QP!Hits(me, ty)
    BY <2>1 DEF Q!Hits, QP!Hits, Q!Matches, QP!Matches
  <2> QED
    BY <1>1, <2>1, <2>2 DEF Q!Receive, QP!Receive, Q!ReceiveNothing,
       QP!ReceiveNothing, Q!ring, QP!ring
<1>6. Q!Reset <=> QP!Reset
  BY <1>1 DEF Q!Reset, QP!Reset
<1> QED
  BY <1>2, <1>3, <1>4, <1>5, <1>6 DEF Q!Next, QP!Next, msgs, QP!vars

\* The types of the queue, kept by every step that is a call of it.
LEMMA QueueType ==
    /\ Q!Init => Q!TypeOK
    /\ Q!TypeOK /\ [Q!Next]_msgs => Q!TypeOK'
<1>1. QP!Init => QP!TypeOK
  BY QP!InitTypeOK, QueueAssumption, MaxTasksAssumption
<1>2. QP!TypeOK /\ [QP!Next]_(QP!vars) => QP!TypeOK'
  BY QP!TypeStep, QueueAssumption, MaxTasksAssumption
<1> QED
  BY <1>1, <1>2, SameQueue

-----------------------------------------------------------------------------
(* The clock *)

\* A program step, a switch and a message leave the clock alone.
LEMMA ClockOnly ==
    ASSUME SysNext, ~ClockTick
    PROVE  tick' = tick
<1>1. ASSUME NEW ty \in Q!Types, NEW ms \in Timeouts, ReceiveBlocking(ty, ms)
      PROVE  tick' = tick
  BY <1>1 DEF ReceiveBlocking, sched, vars
<1>2. CASE Loop
  BY <1>2 DEF Loop, Hit, Miss, TimeOut, Poll, Sleep, sched, vars, platform
<1>3. CASE Program
  BY <1>3 DEF Program, Spawn, Exit, Sleep, Yield, Cleanup, Restart, sched, vars,
              platform
<1>4. CASE Timer
  BY <1>4 DEF Timer, TimerIsr, Yield, vars, platform
<1>5. CASE HandlerSend
  BY <1>5 DEF HandlerSend, sched, vars
<1> QED
  BY <1>1, <1>2, <1>3, <1>4, <1>5 DEF SysNext

(***************************************************************************)
(* While a timed receive is under way, the difference of the two ticks is  *)
(* the time that has passed, although the clock may have wrapped between   *)
(* them; and it had not reached the timeout when the call last looked.     *)
(***************************************************************************)
ClockInv ==
    /\ tick \in 0..(TickMod - 1) /\ start_tick \in 0..(TickMod - 1)
    /\ waited \in 0..(TickMod - 1) /\ lag \in 0..MaxLag /\ timeout_ms \in Timeouts \cup {0}
    /\ timeout_ms > 0 =>
          /\ Elapsed = waited
          /\ lag <= waited /\ waited - lag < timeout_ms

\* The difference of two ticks, without the remainder.
LEMMA ElapsedCases ==
    ASSUME NEW a \in 0..(TickMod - 1), NEW b \in 0..(TickMod - 1)
    PROVE  (a + TickMod - b) % TickMod =
              IF a >= b THEN a - b ELSE a + TickMod - b
<1>1. a >= b => (a + TickMod - b) % TickMod = a - b
  <2>1. a >= b => a + TickMod - b = 1 * TickMod + (a - b) /\ a - b \in 0..(TickMod - 1)
    BY TickModAssumption
  <2> QED
    BY <2>1, TickModAssumption
<1>2. a < b => (a + TickMod - b) % TickMod = a + TickMod - b
  BY TickModAssumption
<1> QED
  BY <1>1, <1>2

\* The clock moves by one, round its width.
LEMMA TickCases ==
    ASSUME NEW a \in 0..(TickMod - 1)
    PROVE  (a + 1) % TickMod = IF a = TickMod - 1 THEN 0 ELSE a + 1
BY TickModAssumption

LEMMA ClockInit == SysInit => ClockInv
BY TickModAssumption, MaxLagAssumption DEF SysInit, Init, ClockInv

LEMMA ClockStep == ClockInv /\ [SysNext]_sysvars => ClockInv'
<1> USE TickModAssumption, MaxLagAssumption, TimeoutsAssumption
<1> SUFFICES ASSUME ClockInv, [SysNext]_sysvars PROVE ClockInv'
  OBVIOUS
<1>0. timeout_ms \in Nat
  BY DEF ClockInv
<1>1. ASSUME NEW ty \in Q!Types, NEW ms \in Timeouts, ReceiveBlocking(ty, ms)
      PROVE  ClockInv'
  <2>1. tick' = tick /\ start_tick' = IF ms > 0 THEN tick ELSE 0
    BY <1>1 DEF ReceiveBlocking, sched, vars
  <2>2. ms > 0 => Elapsed' = 0
    BY <2>1, ElapsedCases DEF ClockInv, Elapsed
  <2> QED
    BY <1>1, <2>1, <2>2 DEF ReceiveBlocking, ClockInv
<1>2. CASE Hit \/ TimeOut
  <2>1. tick' = tick
    BY <1>2 DEF Hit, TimeOut, sched, vars
  <2> QED
    BY <1>2, <2>1 DEF Hit, TimeOut, Return, ClockInv
<1>3. CASE Miss
  <2>1. tick' = tick /\ phase = "try"
    BY <1>3 DEF Miss, sched, vars
  <2> QED
    BY <1>3, <2>1 DEF Miss, ClockInv, clock, Elapsed
<1>4. CASE Poll
  <2>1. tick' = tick
    BY <1>4 DEF Poll, Sleep, platform
  <2>2. Elapsed' = Elapsed
    BY <1>4, <2>1 DEF Poll, Elapsed
  <2>3. timeout_ms > 0 => Elapsed < timeout_ms
    BY <1>0, <1>4, ElapsedCases DEF Poll, Expired, ClockInv, Elapsed
  <2> QED
    BY <1>0, <1>4, <2>1, <2>2, <2>3 DEF Poll, ClockInv
<1>5. CASE ClockTick
  <2>1. tick' = (tick + 1) % TickMod
    BY <1>5 DEF ClockTick, Tick
  <2>2. start_tick' = start_tick /\ timeout_ms' = timeout_ms /\ phase' = phase
    BY <1>5 DEF ClockTick, call
  <2>3. tick' \in 0..(TickMod - 1)
    BY <2>1, TickCases DEF ClockInv
  <2>4. CASE timeout_ms = 0
    BY <1>5, <2>2, <2>3, <2>4 DEF ClockTick, ClockInv, clock
  <2>5. CASE timeout_ms > 0
    <3>1. lag < MaxLag /\ lag' = lag + 1 /\ waited' = waited + 1
      BY <1>5, <2>5 DEF ClockTick
    <3>2. lag' \in 0..MaxLag
      BY <3>1 DEF ClockInv
    <3>3. /\ Elapsed' = waited' /\ waited' \in 0..(TickMod - 1)
          /\ lag' <= waited' /\ waited' - lag' < timeout_ms
      <4>1. Elapsed = waited /\ lag <= waited /\ waited - lag < timeout_ms
        BY <2>5 DEF ClockInv
      <4>2. timeout_ms + MaxLag < TickMod
        BY <2>5 DEF ClockInv
      <4>3. waited + 1 < TickMod /\ waited' = waited + 1
        BY <1>0, <3>1, <4>1, <4>2 DEF ClockInv
      <4>4. Elapsed = IF tick >= start_tick THEN tick - start_tick
                      ELSE tick + TickMod - start_tick
        BY ElapsedCases DEF ClockInv, Elapsed
      <4>5. Elapsed' = IF tick' >= start_tick THEN tick' - start_tick
                       ELSE tick' + TickMod - start_tick
        BY <2>2, <2>3, ElapsedCases DEF ClockInv, Elapsed
      <4>6. tick' = IF tick = TickMod - 1 THEN 0 ELSE tick + 1
        BY <2>1, TickCases DEF ClockInv
      <4>7. Elapsed' = Elapsed + 1
        <5>1. Elapsed + 1 < TickMod
          BY <4>1, <4>3
        <5>2. tick \in 0..(TickMod - 1) /\ start_tick \in 0..(TickMod - 1)
          BY DEF ClockInv
        <5> HIDE DEF ClockInv, Elapsed
        <5> QED
          BY <4>4, <4>5, <4>6, <5>1, <5>2
      <4> QED
        BY <3>1, <4>1, <4>3, <4>7 DEF ClockInv
    <3> QED
      BY <1>0, <2>2, <2>3, <3>2, <3>3 DEF ClockInv
  <2> QED
    BY <1>0, <2>4, <2>5
<1>6. CASE Program \/ Timer \/ HandlerSend
  <2>1. UNCHANGED <<phase, start_tick, timeout_ms, waited, lag>>
    BY <1>6 DEF Program, Timer, HandlerSend, call, clock
  <2>2. tick' = tick
    <3>1. CASE Program
      BY <3>1 DEF Program, Spawn, Exit, Sleep, Yield, Cleanup, Restart, sched,
                  vars, platform
    <3>2. CASE Timer
      BY <3>2 DEF Timer, TimerIsr, Yield, vars, platform
    <3>3. CASE HandlerSend
      BY <3>3 DEF HandlerSend, sched, vars
    <3> QED
      BY <1>6, <3>1, <3>2, <3>3
  <2> QED
    BY <2>1, <2>2 DEF ClockInv, Elapsed
<1>7. CASE UNCHANGED sysvars
  BY <1>7 DEF sysvars, sched, vars, call, clock, ClockInv, Elapsed
<1> QED
  BY <1>1, <1>2, <1>3, <1>4, <1>5, <1>6, <1>7 DEF SysNext, Loop

(***************************************************************************)
(* A timed receive is over by its timeout plus the time between two looks  *)
(* at the clock, for every timeout that leaves room for one before the     *)
(* clock comes round.                                                      *)
(***************************************************************************)
THEOREM TimedInTime == SysSpec => []InTime
<1>1. ClockInv => InTime
  BY TimeoutsAssumption, MaxLagAssumption DEF ClockInv, InTime
<1> QED
  BY <1>1, ClockInit, ClockStep, PTL DEF SysSpec

(***************************************************************************)
(* No receive times out before its time, wherever the clock wraps.         *)
(***************************************************************************)
THEOREM NeverEarly == SysSpec => NotEarly
<1>1. ClockInv => (TimeOut => waited >= timeout_ms)
  BY TimeoutsAssumption DEF ClockInv, TimeOut, Expired
<1> QED
  BY <1>1, ClockInit, ClockStep, PTL DEF SysSpec, NotEarly

-----------------------------------------------------------------------------
(* The caller *)

(***************************************************************************)
(* Why a lone caller gets its own messages: it stays the current task.     *)
(***************************************************************************)
StaysCurrent == phase # "idle" /\ Lone => current_task = caller

\* A switch that starts from the caller and finds nobody else keeps it; it
\* makes no dead task alive but the one it selects.
LEMMA LoneSchedule ==
    ASSUME NEW st, NEW wake, NEW bs, Schedule(st, wake, bs),
           NEW c \in Tasks,
           \A t \in Tasks \ {c} : st[t] = "DEAD" \/ priority[t] = 0,
           current_task = c
    PROVE  current_task' = c
<1> DEFINE awake == Awake(Demoted(st), wake, tick)
<1>1. PICK next \in Tasks : IsNext(next, awake, priority, current_task)
                            /\ current_task' = next
  BY DEF Schedule
<1>2. \A t \in Tasks \ {c} : st[t] = "DEAD" => awake[t] = "DEAD"
  BY DEF Awake, Demoted
<1>3. Candidates(awake, priority) \subseteq {c}
  BY <1>2 DEF Candidates
<1> QED
  BY <1>1, <1>3 DEF IsNext, TopCandidates

\* Schedule leaves a task that is not dead not dead.
LEMMA ScheduleAlive ==
    ASSUME NEW st, NEW wake, NEW bs, Schedule(st, wake, bs), NEW t \in Tasks,
           state'[t] = "DEAD"
    PROVE  st[t] = "DEAD"
BY DEF Schedule, Awake, Demoted

LEMMA CallerInit == SysInit => StaysCurrent
BY DEF SysInit, StaysCurrent

LEMMA CallerStep ==
    SysTypeOK /\ StaysCurrent /\ [SysNext]_sysvars => StaysCurrent'
<1> SUFFICES ASSUME SysTypeOK, StaysCurrent, [SysNext]_sysvars,
                    phase' # "idle", Lone'
             PROVE  current_task' = caller'
  BY DEF StaysCurrent
<1>0. caller \in Tasks /\ current_task \in Tasks /\ state \in [Tasks -> States]
  BY DEF SysTypeOK, TypeOK
<1>1. ASSUME NEW ty \in Q!Types, NEW ms \in Timeouts, ReceiveBlocking(ty, ms)
      PROVE  current_task' = caller'
  BY <1>1 DEF ReceiveBlocking, sched, vars
<1>2. CASE Hit \/ TimeOut \/ Program
  BY <1>2 DEF Hit, TimeOut, Return, Program, call
<1>3. CASE Miss \/ HandlerSend \/ ClockTick \/ UNCHANGED sysvars
  <2>1. UNCHANGED <<state, priority, current_task, caller>> /\ phase # "idle"
    BY <1>3 DEF Miss, HandlerSend, ClockTick, Tick, sysvars, sched, vars, call, tcbs
  <2> QED
    BY <2>1 DEF Lone, StaysCurrent
<1>4. CASE Poll
  <2> DEFINE st == [state EXCEPT ![current_task] = "BLOCKED"]
  <2>1. PICK wake : Schedule(st, wake, base)
    BY <1>4 DEF Poll, Sleep
  <2>2. caller' = caller /\ priority' = priority /\ phase # "idle"
    BY <1>4 DEF Poll, Sleep
  <2>3. \A t \in Tasks : state'[t] = "DEAD" => st[t] = "DEAD"
    BY <2>1, ScheduleAlive
  <2>4. \A t \in Tasks \ {caller} : st[t] = "DEAD" \/ priority[t] = 0
    BY <2>2, <2>3 DEF Lone
  <2>5. current_task = caller
    BY <1>0, <2>2, <2>4 DEF StaysCurrent, Lone
  <2> QED
    BY <1>0, <2>1, <2>2, <2>4, <2>5, LoneSchedule
<1>5. CASE Timer
  <2>1. CASE UNCHANGED vars
    BY <1>5, <2>1 DEF Timer, vars, call, Lone, StaysCurrent
  <2>2. CASE Yield
    <3>1. Schedule(state, sleep_until_tick, base)
      BY <2>2 DEF Yield
    <3>2. caller' = caller /\ priority' = priority /\ phase' = phase
      BY <1>5, <2>2 DEF Timer, Yield, call
    <3>3. \A t \in Tasks : state'[t] = "DEAD" => state[t] = "DEAD"
      BY <3>1, ScheduleAlive
    <3>4. \A t \in Tasks \ {caller} : state[t] = "DEAD" \/ priority[t] = 0
      BY <3>2, <3>3 DEF Lone
    <3>5. current_task = caller
      BY <3>2, <3>4 DEF StaysCurrent, Lone
    <3> QED
      BY <1>0, <3>1, <3>2, <3>4, <3>5, LoneSchedule
  <2> QED
    BY <1>5, <2>1, <2>2 DEF Timer, TimerIsr
<1> QED
  BY <1>1, <1>2, <1>3, <1>4, <1>5 DEF SysNext, Loop

-----------------------------------------------------------------------------
(* Both invariants together *)

SysInv == SysTypeOK /\ MaskInv /\ ClockInv /\ StaysCurrent

LEMMA SysInvInit == SysInit => SysInv
<1>1. SysInit => SysTypeOK /\ MaskInv
  BY TypeInit, QueueType, MaxLagAssumption, TickModAssumption,
     MaxTasksAssumption, QueueAssumption
  DEF SysInit, SysTypeOK, Tasks
<1> QED
  BY <1>1, ClockInit, CallerInit DEF SysInv

LEMMA SysInvStep == SysInv /\ [SysNext]_sysvars => SysInv'
<1> SUFFICES ASSUME SysInv, [SysNext]_sysvars PROVE SysInv'
  OBVIOUS
<1>1. ClockInv' /\ StaysCurrent'
  BY ClockStep, CallerStep DEF SysInv
<1>2. TypeOK' /\ MaskInv'
  <2>1. CASE [Next]_vars
    BY <2>1, TypeStep DEF SysInv, SysTypeOK
  <2>2. CASE Sleep(PollDelay)
    BY <2>2, SleepType, PollDelayAssumption
    DEF SysInv, SysTypeOK, MaskInv, Sleep, platform
  <2> QED
    BY <2>1, <2>2, SchedulerStep DEF sysvars, sched
<1>3. Q!TypeOK'
  <2>1. current_task \in Tasks /\ msg_type \in Q!Types
    BY DEF SysInv, SysTypeOK, TypeOK, Q!Types
  <2>2. [Q!Next]_msgs
    BY <2>1, QueueStep DEF sysvars
  <2> QED
    BY <2>2, QueueType DEF SysInv, SysTypeOK
<1>4. /\ phase' \in {"idle", "try", "check"}
      /\ msg_type' \in 0..MaxType
      /\ timeout_ms' \in Timeouts \cup {0}
      /\ caller' \in Tasks
  <2> USE DEF SysInv, SysTypeOK, TypeOK
  <2>1. ASSUME NEW ty \in Q!Types, NEW ms \in Timeouts, ReceiveBlocking(ty, ms)
        PROVE  /\ phase' \in {"idle", "try", "check"}
               /\ msg_type' \in 0..MaxType
               /\ timeout_ms' \in Timeouts \cup {0}
               /\ caller' \in Tasks
    BY <2>1 DEF ReceiveBlocking, Q!Types
  <2>2. CASE Hit \/ TimeOut
    <3>1. Return
      BY <2>2 DEF Hit, TimeOut
    <3>2. 0 \in Tasks /\ 0 \in 0..MaxType
      BY MaxTasksAssumption, QueueAssumption DEF Tasks
    <3> QED
      BY <3>1, <3>2 DEF Return
  <2>3. CASE Miss \/ Poll
    BY <2>3 DEF Miss, Poll
  <2>4. CASE Program \/ Timer \/ HandlerSend \/ ClockTick \/ UNCHANGED sysvars
    BY <2>4 DEF Program, Timer, HandlerSend, ClockTick, sysvars, call
  <2> QED
    BY <2>1, <2>2, <2>3, <2>4 DEF SysNext, Loop
<1>5. /\ start_tick' \in 0..(TickMod - 1) /\ lag' \in 0..MaxLag
      /\ waited' \in 0..(TickMod - 1)
  BY <1>1 DEF ClockInv
<1> QED
  BY <1>1, <1>2, <1>3, <1>4, <1>5 DEF SysInv, SysTypeOK

\* The type invariant of scheduler, queue and call together.
THEOREM SystemTypeCorrect == SysSpec => []SysTypeOK
<1>1. SysInv => SysTypeOK
  BY DEF SysInv
<1> QED
  BY <1>1, SysInvInit, SysInvStep, PTL DEF SysSpec

(***************************************************************************)
(* A caller that no other task can displace is handed its own messages and *)
(* broadcasts only: the switch of every sleep selects it again, so that    *)
(* the receive goes on as the task that made the call.                     *)
(***************************************************************************)
THEOREM LoneCallerReceivesOwn == SysSpec => LoneReceivesOwn
<1>1. SysInv /\ Hit /\ Lone => got'.dst \in {caller, Broadcast}
  <2> SUFFICES ASSUME SysInv, Hit, Lone PROVE got'.dst \in {caller, Broadcast}
    OBVIOUS
  <2>1. current_task = caller
    BY DEF Hit, SysInv, StaysCurrent
  <2>2. PICK i \in Q!Hits(current_task, msg_type) : got' = queue[Q!SlotOf(i)]
    BY DEF Hit, Q!Receive
  <2>3. Q!Matches(queue[Q!SlotOf(i)], current_task, msg_type)
    BY <2>2 DEF Q!Hits
  <2> QED
    BY <2>1, <2>2, <2>3 DEF Q!Matches
<1> QED
  BY <1>1, SysInvInit, SysInvStep, PTL DEF SysSpec, LoneReceivesOwn
=============================================================================
