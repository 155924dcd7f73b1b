------------------------ MODULE FreeRtosBackend_proof ------------------------
(***************************************************************************)
(* Proofs about the FreeRTOS backend, for every number of slots, control   *)
(* blocks and application tasks.  The inductive invariant SlotInv says     *)
(* which wrapper a slot belongs to at every point of the owner's           *)
(* operations: the handle in the table is that of the wrapper that still   *)
(* writes the slot, so that a cleanup deletes the right one, and only an   *)
(* exit that is about to delete its own caller marks such a slot DEAD.     *)
(***************************************************************************)
EXTENDS FreeRtosBackend, FiniteSetTheorems, WellFoundedInduction, TLAPS

\* In its slot, a wrapper that is not over has its handle, until the owner has
\* deleted itself.
HandleKept ==
    \A h \in Handles : Writes(h) /\ pc[Owner] # "gone" => task_handles[slot[h]] = h

\* A slot with a writer is DEAD only by an exit, which then ends the owner.
DeadUnwritten ==
    \A h \in Handles : Writes(h) /\ state[slot[h]] = "DEAD" =>
        \/ pc[Owner] = "gone"
        \/ pc[Owner] \in {"dec", "decStore"} /\ slot[Owner] = slot[h]

\* The slot a spawn has taken is its own.
SlotTaken == pc[Owner] = "create" => state[slot[Owner]] # "DEAD"

\* The slots a cleanup has passed stay DEAD and without a wrapper.
CleanedUp ==
    pc[Owner] = "cleanup" =>
        /\ \A t \in Tasks : t < slot[Owner] => state[t] = "DEAD"
        /\ \A h \in Handles : Writes(h) => slot[h] >= slot[Owner]

\* Without a queue the owner does nothing and there is no message.
Closed == ~queue_open => pc[Owner] = "idle" /\ msg_queue = << >>

Slots ==
    /\ HandleKept /\ DeadUnwritten /\ SlotTaken /\ CleanedUp /\ Closed
    /\ OneWriter /\ SlotsAccounted /\ CleanupStops

SlotInv == TypeOK /\ Slots

-----------------------------------------------------------------------------
(* Types *)

LEMMA LeastElement ==
    ASSUME NEW S, S \subseteq Nat, S # {}
    PROVE  \E t \in S : \A u \in S : t <= u
<1> DEFINE Less == {p \in Nat \X Nat : p[1] < p[2]}
<1>1. IsWellFoundedOn(Less, Nat)
  BY NatLessThanWellFounded DEF OpToRel
<1>2. PICK t \in S : \A u \in S : ~(<<u, t>> \in Less)
  <2> HIDE DEF Less
  <2>1. QED
    BY <1>1, WFMin
<1>3. ASSUME NEW u \in S PROVE t <= u
  <2>1. t \in Nat /\ u \in Nat /\ ~(u < t)
    BY <1>2, <1>3
  <2>2. QED
    BY <2>1
<1>4. QED
  BY <1>3

\* The first slot with a handle is a slot.
LEMMA CurrentIsTask ==
    ASSUME task_handles \in [Tasks -> Handles \cup {Null}], NEW c
    PROVE  Current(c) \in Tasks
<1>1. CASE \E t \in Tasks : task_handles[t] = c
  <2> DEFINE S == {t \in Tasks : task_handles[t] = c}
  <2>1. PICK t \in S : \A u \in S : t <= u
    <3>1. S \subseteq Nat /\ S # {}
      BY <1>1, MaxTasksAssumption DEF Tasks
    <3>2. QED
      BY <3>1, LeastElement
  <2>2. /\ t \in Tasks /\ task_handles[t] = c
        /\ \A u \in Tasks : u < t => task_handles[u] # c
    <3>1. \A u \in Tasks : u \in Int /\ t \in Int
      BY <2>1, MaxTasksAssumption DEF Tasks
    <3>2. QED
      BY <2>1, <3>1
  <2>3. QED
    BY <1>1, <2>2 DEF Current
<1>2. CASE ~ \E t \in Tasks : task_handles[t] = c
  BY <1>2, MaxTasksAssumption DEF Current, Tasks
<1>3. QED
  BY <1>1, <1>2

LEMMA TaskNat == Tasks \subseteq Nat
BY MaxTasksAssumption DEF Tasks

LEMMA Members ==
    /\ 0 \in Tasks /\ \A i \in Tasks : i \in Nat /\ (i + 1 < MaxTasks => i + 1 \in Tasks)
    /\ Owner \in Threads /\ Handles \subseteq Threads /\ Owner \notin Handles
    /\ \A p \in Threads : p = Owner \/ p \in Handles
BY MaxTasksAssumption, ThreadsAssumption DEF Tasks, Threads

LEMMA StoreTypes ==
    ASSUME TypeOK, NEW p \in Threads, NEW n \in 0..(CountMod - 1),
           Store(p, n + 1) \/ Store(p, n + CountMod - 1)
    PROVE  task_count' \in 0..(CountMod - 1) /\ reg' \in [Threads -> 0..(CountMod - 1)]
           /\ exact' \in BOOLEAN
<1>1. n + 1 \in Nat /\ n + CountMod - 1 \in Nat /\ 0 \in 0..(CountMod - 1)
  BY CountModAssumption
<1>2. \A k \in Nat : k % CountMod \in 0..(CountMod - 1)
  BY CountModAssumption
<1>3. task_count' \in 0..(CountMod - 1)
  BY <1>1, <1>2 DEF Store
<1>4. reg' \in [Threads -> 0..(CountMod - 1)] /\ exact' \in BOOLEAN
  BY <1>1 DEF Store, TypeOK
<1>5. QED
  BY <1>3, <1>4

\* Where a thread goes on, and with which slot.
PlacesOK ==
    /\ pc \in [Threads -> WrapperPcs \cup OwnerPcs]
    /\ pc[Owner] \in OwnerPcs
    /\ \A h \in Handles : pc[h] \in WrapperPcs
    /\ slot \in [Threads -> Tasks]

LEMMA DonePlaces ==
    ASSUME PlacesOK, NEW p \in Threads, NEW l, Done(p, l),
           l \in IF p = Owner THEN OwnerPcs ELSE WrapperPcs
    PROVE  PlacesOK'
<1>1. slot' \in [Threads -> Tasks]
  BY Members DEF PlacesOK, Done
<1>2. /\ pc' \in [Threads -> WrapperPcs \cup OwnerPcs]
      /\ pc'[p] = l /\ \A q \in Threads \ {p} : pc'[q] = pc[q]
  BY DEF PlacesOK, Done
<1>3. QED
  BY <1>1, <1>2, Members DEF PlacesOK

LEMMA GotoPlaces ==
    ASSUME PlacesOK, NEW p \in Threads, NEW l, Goto(p, l), UNCHANGED slot,
           l \in IF p = Owner THEN OwnerPcs ELSE WrapperPcs
    PROVE  PlacesOK'
<1>1. /\ pc' \in [Threads -> WrapperPcs \cup OwnerPcs]
      /\ pc'[p] = l /\ \A q \in Threads \ {p} : pc'[q] = pc[q]
  BY DEF PlacesOK, Goto
<1>2. QED
  BY <1>1, Members DEF PlacesOK

\* The owner's steps keep the threads at their places.
LEMMA OwnerPlaces == ASSUME TypeOK, OwnerNext PROVE PlacesOK'
<1>1. PlacesOK
  BY DEF TypeOK, PlacesOK
<1>2. CASE Initialise \/ InitNoMemory
  BY <1>1, <1>2 DEF Initialise, InitNoMemory, InitTable, locals, PlacesOK
<1>3. CASE CleanupBegin \/ SpawnBegin
  <2>1. \E l \in {"cleanup", "scan"} : pc' = [pc EXCEPT ![Owner] = l]
    BY <1>3 DEF CleanupBegin, SpawnBegin, Goto
  <2>2. slot' = [slot EXCEPT ![Owner] = 0]
    BY <1>3 DEF CleanupBegin, SpawnBegin
  <2>3. QED
    BY <1>1, <2>1, <2>2, DonePlaces, Members DEF Done, OwnerPcs
<1>4. CASE CleanupSlot
  <2> DEFINE h == task_handles[slot[Owner]]
             w == Deleted(h)
  <2>1. slot' \in [Threads -> Tasks]
    BY <1>1, <1>4, Members DEF CleanupSlot, PlacesOK
  <2>2. /\ w \in [Threads -> WrapperPcs \cup OwnerPcs]
        /\ w[Owner] \in OwnerPcs /\ \A g \in Handles : w[g] \in WrapperPcs
    <3>1. CASE h = Null
      BY <1>1, <3>1 DEF Deleted, PlacesOK
    <3>2. CASE h # Null
      <4>1. h \in Handles
        BY <1>1, <3>2, Members DEF TypeOK, PlacesOK
      <4>2. QED
        BY <1>1, <3>2, <4>1, Members DEF Deleted, PlacesOK, WrapperPcs
    <3>3. QED
      BY <3>1, <3>2
  <2>3. pc' = w \/ pc' = [w EXCEPT ![Owner] = "idle"]
    BY <1>4 DEF CleanupSlot
  <2>4. QED
    <3> HIDE DEF w
    <3>1. QED
      BY <2>1, <2>2, <2>3, Members DEF PlacesOK, OwnerPcs
<1>5. CASE SpawnScan
  <2>1. slot' \in [Threads -> Tasks]
    BY <1>1, <1>5, Members DEF SpawnScan, PlacesOK
  <2>2. \E l \in {"create", "scan", "idle"} : pc' = [pc EXCEPT ![Owner] = l]
    BY <1>5 DEF SpawnScan, Goto
  <2>3. QED
    BY <1>1, <2>1, <2>2, Members DEF PlacesOK, OwnerPcs
<1>6. CASE SpawnNoParams \/ SpawnNoTask \/ SleepEnd \/ ExitStore
  <2>1. Done(Owner, "idle") \/ Done(Owner, "gone")
    BY <1>6 DEF SpawnNoParams, SpawnNoTask, SleepEnd, ExitStore
  <2>2. QED
    BY <1>1, <2>1, DonePlaces, Members DEF OwnerPcs
<1>7. CASE SpawnCreate
  <2>1. PICK h \in Handles :
            /\ slot' = [slot EXCEPT ![h] = slot[Owner], ![Owner] = 0]
            /\ pc' = [pc EXCEPT ![Owner] = "inc", ![h] = "enter"]
    BY <1>7 DEF SpawnCreate
  <2>2. slot' \in [Threads -> Tasks]
    BY <1>1, <2>1, Members DEF PlacesOK
  <2>3. /\ pc' \in [Threads -> WrapperPcs \cup OwnerPcs]
        /\ pc'[Owner] = "inc" /\ \A g \in Handles : pc'[g] \in WrapperPcs
    BY <1>1, <2>1, Members DEF PlacesOK, OwnerPcs, WrapperPcs
  <2>4. QED
    BY <2>2, <2>3 DEF PlacesOK, OwnerPcs
<1>8. CASE SpawnInc \/ SpawnDone \/ ExitLoad
  <2>1. UNCHANGED slot /\ \E l \in OwnerPcs : Goto(Owner, l)
    BY <1>8 DEF SpawnInc, SpawnDone, ExitLoad, Load, Store, OwnerPcs
  <2>2. QED
    BY <1>1, <2>1, GotoPlaces, Members
<1>9. CASE Exit \/ Sleep
  <2>1. slot' = [slot EXCEPT ![Owner] = current_task] /\ current_task \in Tasks
    BY <1>9 DEF Exit, Sleep, TypeOK
  <2>2. \E l \in {"dec", "delay"} : pc' = [pc EXCEPT ![Owner] = l]
    BY <1>9 DEF Exit, Sleep, Goto
  <2>3. QED
    BY <1>1, <2>1, <2>2, Members DEF PlacesOK, OwnerPcs
<1>10. QED
  BY <1>2, <1>3, <1>4, <1>5, <1>6, <1>7, <1>8, <1>9 DEF OwnerNext

LEMMA OwnerTypes == ASSUME TypeOK, OwnerNext PROVE TypeOK'
<1>0. slot[Owner] \in Tasks /\ reg[Owner] \in 0..(CountMod - 1) /\ 0 \in 0..(CountMod - 1)
  BY Members, CountModAssumption DEF TypeOK
<1>1. /\ state' \in [Tasks -> {"DEAD", "READY", "RUNNING", "BLOCKED"}]
      /\ current_task' \in Tasks
  BY <1>0, Members DEF TypeOK, OwnerNext, Initialise, InitNoMemory, InitTable,
     CleanupBegin, CleanupSlot, SpawnBegin, SpawnScan, SpawnNoParams, SpawnCreate,
     SpawnNoTask, SpawnInc, SpawnDone, Exit, ExitLoad, ExitStore, Sleep, SleepEnd,
     Load, Store, table
<1>2. task_handles' \in [Tasks -> Handles \cup {Null}]
  BY <1>0 DEF TypeOK, OwnerNext, Initialise, InitNoMemory, InitTable, CleanupBegin,
     CleanupSlot, SpawnBegin, SpawnScan, SpawnNoParams, SpawnCreate, SpawnNoTask,
     SpawnInc, SpawnDone, Exit, ExitLoad, ExitStore, Sleep, SleepEnd, Load, Store, table
<1>3. leaked' \subseteq Tasks
  BY <1>0 DEF TypeOK, OwnerNext, Initialise, InitNoMemory, InitTable, CleanupBegin,
     CleanupSlot, SpawnBegin, SpawnScan, SpawnNoParams, SpawnCreate, SpawnNoTask,
     SpawnInc, SpawnDone, Exit, ExitLoad, ExitStore, Sleep, SleepEnd, Load, Store,
     history
<1>4. /\ queue_open' \in BOOLEAN /\ msg_queue' \in Seq(Message)
      /\ Len(msg_queue') <= QSize
  <2>1. << >> \in Seq(Message) /\ Len(<< >>) <= QSize
    BY QueueAssumption
  <2>2. \/ UNCHANGED <<queue_open, msg_queue>>
        \/ queue_open' \in BOOLEAN /\ msg_queue' = << >>
    BY DEF OwnerNext, Initialise, InitNoMemory, InitTable, CleanupBegin, CleanupSlot,
       SpawnBegin, SpawnScan, SpawnNoParams, SpawnCreate, SpawnNoTask, SpawnInc,
       SpawnDone, Exit, ExitLoad, ExitStore, Sleep, SleepEnd, Load, Store, comm
  <2>3. QED
    BY <2>1, <2>2 DEF TypeOK
<1>5. UNCHANGED <<wants, got>>
  BY DEF OwnerNext, Initialise, InitNoMemory, InitTable, CleanupBegin, CleanupSlot,
     SpawnBegin, SpawnScan, SpawnNoParams, SpawnCreate, SpawnNoTask, SpawnInc,
     SpawnDone, Exit, ExitLoad, ExitStore, Sleep, SleepEnd, Load, Store, comm
<1>6. /\ task_count' \in 0..(CountMod - 1) /\ exact' \in BOOLEAN
      /\ reg' \in [Threads -> 0..(CountMod - 1)]
  <2>1. CASE SpawnDone
    BY <1>0, <2>1, StoreTypes, Members DEF SpawnDone
  <2>2. CASE ExitStore
    <3>1. (reg[Owner] + CountMod - 1) % CountMod \in 0..(CountMod - 1)
      BY <1>0, CountModAssumption
    <3>2. QED
      BY <1>0, <2>2, <3>1 DEF ExitStore, TypeOK
  <2>3. CASE SpawnInc \/ ExitLoad
    BY <2>3 DEF SpawnInc, ExitLoad, Load, TypeOK, table, history
  <2>4. CASE Initialise \/ InitNoMemory
    BY <1>0, <2>4 DEF Initialise, InitNoMemory, InitTable, locals, TypeOK
  <2>5. CASE \/ CleanupBegin \/ CleanupSlot \/ SpawnBegin \/ SpawnScan
             \/ SpawnNoParams \/ SpawnCreate \/ SpawnNoTask \/ Exit \/ Sleep
             \/ SleepEnd
    BY <1>0, <2>5 DEF CleanupBegin, CleanupSlot, SpawnBegin, SpawnScan,
       SpawnNoParams, SpawnCreate, SpawnNoTask, Exit, Sleep, SleepEnd, TypeOK,
       table, history
  <2>6. QED
    BY <2>1, <2>2, <2>3, <2>4, <2>5 DEF OwnerNext
<1>7. QED
  BY <1>1, <1>2, <1>3, <1>4, <1>5, <1>6, OwnerPlaces DEF TypeOK, PlacesOK

LEMMA WrapperTypes ==
    ASSUME TypeOK, NEW h \in Handles, WrapperNext(h) PROVE TypeOK'
<1>1. PlacesOK /\ h \in Threads /\ h # Owner /\ slot[h] \in Tasks
  BY Members DEF TypeOK, PlacesOK
<1>2. reg[h] \in 0..(CountMod - 1)
  BY <1>1 DEF TypeOK
<1>3. CASE WrapperEnter(h)
  <2>1. PlacesOK'
    BY <1>1, <1>3, GotoPlaces DEF WrapperEnter, WrapperPcs
  <2>2. QED
    BY <1>1, <1>3, <2>1 DEF WrapperEnter, TypeOK, PlacesOK, comm, history
<1>4. CASE WrapperRun(h)
  <2>1. PlacesOK'
    BY <1>1, <1>4, GotoPlaces DEF WrapperRun, WrapperPcs
  <2>2. QED
    BY <1>1, <1>4, <2>1 DEF WrapperRun, TypeOK, PlacesOK, comm, history
<1>5. CASE WrapperDead(h)
  <2>1. PlacesOK'
    BY <1>1, <1>5, DonePlaces DEF WrapperDead, WrapperPcs
  <2>2. QED
    BY <1>1, <1>5, <2>1 DEF WrapperDead, TypeOK, PlacesOK, comm
<1>6. CASE WrapperLoad(h)
  <2>1. PlacesOK'
    BY <1>1, <1>6, GotoPlaces DEF WrapperLoad, Load, WrapperPcs
  <2>2. QED
    BY <1>1, <1>6, <2>1 DEF WrapperLoad, Load, TypeOK, PlacesOK, table, comm, history
<1>7. CASE WrapperEnd(h)
  <2>1. PlacesOK'
    BY <1>1, <1>7, GotoPlaces DEF WrapperEnd, Store, WrapperPcs
  <2>2. /\ task_count' \in 0..(CountMod - 1) /\ exact' \in BOOLEAN
        /\ reg' \in [Threads -> 0..(CountMod - 1)]
    BY <1>1, <1>2, <1>7, StoreTypes DEF WrapperEnd
  <2>3. QED
    BY <1>7, <2>1, <2>2 DEF WrapperEnd, Store, TypeOK, PlacesOK, comm
<1>8. QED
  BY <1>3, <1>4, <1>5, <1>6, <1>7 DEF WrapperNext

LEMMA TakeTypes ==
    ASSUME TypeOK, NEW c, NEW ty, Take(c, ty)
    PROVE  /\ msg_queue' \in Seq(Message) /\ Len(msg_queue') <= QSize
           /\ got' \in Message \cup {Null}
<1>1. msg_queue \in Seq(Message) /\ msg_queue # << >> /\ Len(msg_queue) <= QSize
  BY DEF TypeOK, Take
<1>2. /\ Head(msg_queue) \in Message /\ Tail(msg_queue) \in Seq(Message)
      /\ Len(Tail(msg_queue)) = Len(msg_queue) - 1
  BY <1>1
<1>3. QED
  BY <1>1, <1>2, QueueAssumption DEF Take

LEMMA MessageTypes ==
    ASSUME TypeOK, NEW c \in Hosts, MessageNext(c) PROVE TypeOK'
<1>1. ASSUME NEW dst \in 0..Broadcast, NEW ty \in Types, Send(c, dst, ty)
      PROVE  TypeOK'
  <2> DEFINE m == [src |-> Current(c), dst |-> dst, type |-> ty]
  <2>1. Current(c) \in Tasks
    BY CurrentIsTask DEF TypeOK
  <2>2. m \in Message
    BY <1>1, <2>1 DEF Send, Message
  <2>3. msg_queue' = Append(msg_queue, m) /\ Len(msg_queue) < QSize
    BY <1>1 DEF Send
  <2>4. msg_queue' \in Seq(Message) /\ Len(msg_queue') <= QSize
    <3> HIDE DEF m
    <3>1. QED
      BY <2>2, <2>3, QueueAssumption DEF TypeOK
  <2>5. UNCHANGED <<table, locals, queue_open, wants, got, history>>
    BY <1>1 DEF Send
  <2>6. QED
    BY <2>4, <2>5 DEF TypeOK, table, locals, history
<1>2. ASSUME NEW ty \in Types, Receive(c, ty) PROVE TypeOK'
  <2>1. /\ msg_queue' \in Seq(Message) /\ Len(msg_queue') <= QSize
        /\ got' \in Message \cup {Null}
    <3>1. CASE Take(c, ty)
      BY <3>1, TakeTypes
    <3>2. CASE got' = Null /\ UNCHANGED msg_queue
      BY <3>2 DEF TypeOK
    <3>3. QED
      BY <1>2, <3>1, <3>2 DEF Receive
  <2>2. UNCHANGED <<table, locals, queue_open, wants, history>>
    BY <1>2 DEF Receive
  <2>3. QED
    BY <2>1, <2>2 DEF TypeOK, table, locals, history
<1>3. ASSUME NEW ty \in Types, ReceiveBlocking(c, ty) PROVE TypeOK'
  BY <1>3 DEF ReceiveBlocking, TypeOK, table, locals, history
<1>4. CASE Woken(c)
  <2>1. /\ msg_queue' \in Seq(Message) /\ Len(msg_queue') <= QSize
        /\ got' \in Message \cup {Null}
    BY <1>4, TakeTypes DEF Woken
  <2>2. QED
    BY <1>4, <2>1 DEF Woken, TypeOK, table, locals, history
<1>5. CASE TimedOut(c)
  BY <1>5 DEF TimedOut, TypeOK, table, locals, history
<1>6. CASE UNCHANGED vars
  BY <1>6 DEF vars, TypeOK
<1>7. QED
  BY <1>1, <1>2, <1>3, <1>4, <1>5, <1>6 DEF MessageNext, SendRejected

-----------------------------------------------------------------------------
(* The slots through every step *)

\* A step in which only the owner moves, to l with slot i.
OwnerTo(l, i) ==
    /\ pc'[Owner] = l /\ slot'[Owner] = i
    /\ \A h \in Handles : pc'[h] = pc[h] /\ slot'[h] = slot[h]

LEMMA OwnerMoves ==
    ASSUME TypeOK, NEW l, NEW i, pc' = [pc EXCEPT ![Owner] = l],
           \/ slot' = [slot EXCEPT ![Owner] = i]
           \/ UNCHANGED slot /\ i = slot[Owner]
    PROVE  OwnerTo(l, i)
BY Members DEF TypeOK, OwnerTo

\* Only wrapper h moves, to l.
WrapperTo(h, l) ==
    /\ pc'[h] = l /\ \A p \in Threads \ {h} : pc'[p] = pc[p] /\ slot'[p] = slot[p]
    /\ l \in {"enter", "running", "dead"} => slot'[h] = slot[h]

LEMMA WrapperMoves ==
    ASSUME TypeOK, NEW h \in Handles, NEW l, pc' = [pc EXCEPT ![h] = l],
           \/ slot' = [slot EXCEPT ![h] = 0] /\ l \notin {"enter", "running", "dead"}
           \/ UNCHANGED slot
    PROVE  WrapperTo(h, l)
BY Members DEF TypeOK, WrapperTo

\* Steps of the owner that change no slot.
LEMMA OwnerQuiet ==
    ASSUME SlotInv, NEW l, NEW i, OwnerTo(l, i),
           UNCHANGED <<state, task_handles, queue_open, msg_queue, leaked>>,
           queue_open \/ l = "idle",
           \/ /\ pc[Owner] \notin {"create", "cleanup", "dec", "decStore", "gone"}
              /\ l \notin {"create", "cleanup", "gone"}
           \/ pc[Owner] = "dec" /\ l = "decStore" /\ i = slot[Owner]
           \/ pc[Owner] = "idle" /\ l = "cleanup" /\ i = 0
    PROVE  Slots'
<1>1. \A h \in Handles : Writes(h)' <=> Writes(h)
  BY DEF OwnerTo, Writes
<1>2. \A h \in Handles : slot'[h] = slot[h] /\ slot[h] \in Nat
  BY Members DEF OwnerTo, SlotInv, TypeOK
<1>3. HandleKept' /\ DeadUnwritten' /\ CleanupStops'
  BY <1>1, <1>2 DEF OwnerTo, SlotInv, Slots, HandleKept, DeadUnwritten, CleanupStops
<1>4. SlotTaken' /\ Closed'
  BY DEF OwnerTo, SlotInv, Slots, SlotTaken, Closed
<1>5. CleanedUp'
  <2>1. CASE l = "cleanup"
    <3>1. i = 0 /\ slot'[Owner] = 0
      BY <2>1 DEF OwnerTo
    <3>2. QED
      BY <1>2, <3>1, TaskNat DEF CleanedUp
  <2>2. CASE l # "cleanup"
    BY <2>2 DEF OwnerTo, CleanedUp
  <2>3. QED
    BY <2>1, <2>2
<1>6. OneWriter' /\ SlotsAccounted'
  BY <1>1, <1>2 DEF OwnerTo, SlotInv, Slots, OneWriter, SlotsAccounted
<1>7. QED
  BY <1>3, <1>4, <1>5, <1>6 DEF Slots

\* A new table has no wrapper.
LEMMA InitTableSlots ==
    ASSUME SlotInv, Initialise \/ InitNoMemory
    PROVE  Slots'
<1>1. /\ \A t \in Tasks : state'[t] = "DEAD"
      /\ UNCHANGED <<pc, slot>> /\ pc[Owner] = "idle"
      /\ msg_queue' = << >>
  BY DEF Initialise, InitNoMemory, InitTable, Free, locals, SlotInv, Slots, Closed
<1>2. \A h \in Handles : ~Writes(h) /\ ~Writes(h)'
  BY <1>1 DEF SlotInv, Slots, CleanupStops, Writes, Initialise, InitNoMemory, InitTable
<1>3. QED
  BY <1>1, <1>2 DEF Slots, HandleKept, DeadUnwritten, SlotTaken, CleanedUp, Closed,
                    OneWriter, SlotsAccounted, CleanupStops

\* A cleanup deletes the wrapper that still has the slot, whichever of the
\* handles in the table are stale.
LEMMA CleanupSlots == ASSUME SlotInv, CleanupSlot PROVE Slots'
<1> DEFINE i == slot[Owner]
           g == task_handles[i]
<1>1. i \in Tasks /\ pc[Owner] = "cleanup" /\ queue_open
  BY Members DEF SlotInv, Slots, TypeOK, Closed, CleanupSlot
<1>2. \A h \in Handles :
          Writes(h)' => Writes(h) /\ h # g
  <2>1. SUFFICES ASSUME NEW h \in Handles, Writes(h)' PROVE Writes(h) /\ h # g
    OBVIOUS
  <2>2. pc' = Deleted(g) \/ pc' = [Deleted(g) EXCEPT ![Owner] = "idle"]
    BY DEF CleanupSlot
  <2>3. g \in Handles \cup {Null}
    BY <1>1 DEF SlotInv, TypeOK
  <2>4. h # Owner /\ h \in Threads /\ h # Null
    BY Members, ThreadsAssumption
  <2>5. CASE h = g
    <3>1. g # Null /\ pc'[g] = "none"
      BY <2>2, <2>4, <2>5 DEF Deleted, SlotInv, TypeOK
    <3>2. QED
      BY <2>1, <2>5, <3>1 DEF Writes
  <2>6. CASE h # g
    <3>1. pc'[h] = pc[h]
      BY <2>2, <2>4, <2>6 DEF Deleted, SlotInv, TypeOK
    <3>2. QED
      BY <2>1, <2>6, <3>1 DEF Writes
  <2>7. QED
    BY <2>5, <2>6
<1>3. \A h \in Handles : slot'[h] = slot[h] /\ slot[h] \in Tasks
  BY Members DEF CleanupSlot, SlotInv, TypeOK
\* The wrapper of slot i is the one that its handle names.
<1>4. \A h \in Handles : Writes(h)' => slot[h] > i
  <2>1. SUFFICES ASSUME NEW h \in Handles, Writes(h)' PROVE slot[h] > i
    OBVIOUS
  <2>2. Writes(h) /\ h # g
    BY <1>2, <2>1
  <2>3. task_handles[slot[h]] = h /\ slot[h] >= i
    BY <1>1, <2>2 DEF SlotInv, Slots, HandleKept, CleanedUp
  <2>4. slot[h] # i /\ slot[h] \in Nat /\ i \in Nat
    BY <1>1, <1>3, <2>2, <2>3, Members
  <2>5. QED
    BY <2>3, <2>4
<1>5. /\ state' = [state EXCEPT ![i] = "DEAD"]
      /\ task_handles' = [task_handles EXCEPT ![i] = Null]
      /\ leaked' = leaked \ {i}
  BY DEF CleanupSlot
<1>6. /\ \A t \in Tasks : t < i + 1 => state'[t] = "DEAD"
      /\ \A t \in Tasks \ {i} : state'[t] = state[t] /\ task_handles'[t] = task_handles[t]
  <2>1. \A t \in Tasks : t < i + 1 => t = i \/ t < i
    <3>1. i \in Nat /\ \A t \in Tasks : t \in Nat
      BY <1>1, TaskNat
    <3>2. QED
      BY <3>1
  <2>2. QED
    BY <1>1, <1>5, <2>1 DEF SlotInv, TypeOK, Slots, CleanedUp
<1>7. /\ HandleKept' /\ OneWriter'
  <2>1. \A h \in Handles : Writes(h)' =>
            Writes(h) /\ slot'[h] = slot[h] /\ slot[h] \in Tasks \ {i}
    BY <1>1, <1>2, <1>3, <1>4, Members
  <2>2. pc'[Owner] # "create"
    <3>1. g \in Handles \cup {Null}
      BY <1>1 DEF SlotInv, TypeOK
    <3>2. Deleted(g)[Owner] = "cleanup" /\ Deleted(g) \in [Threads -> WrapperPcs \cup OwnerPcs]
      BY <1>1, <3>1, Members DEF Deleted, SlotInv, TypeOK, WrapperPcs
    <3>3. QED
      BY <3>2, Members DEF CleanupSlot
  <2>3. HandleKept'
    BY <1>1, <1>6, <2>1 DEF HandleKept, SlotInv, Slots
  <2>4. OneWriter'
    BY <2>1, <2>2 DEF OneWriter, SlotInv, Slots
  <2>5. QED
    BY <2>3, <2>4
<1>8. CASE i + 1 < MaxTasks
  <2>1. /\ pc' = Deleted(g) /\ slot'[Owner] = i + 1
        /\ UNCHANGED <<queue_open, msg_queue>>
    BY <1>1, <1>8, Members DEF CleanupSlot, SlotInv, TypeOK
  <2>2. pc'[Owner] = "cleanup"
    <3>1. g \in Handles \cup {Null}
      BY <1>1 DEF SlotInv, TypeOK
    <3>2. QED
      BY <1>1, <2>1, <3>1, Members DEF Deleted, SlotInv, TypeOK
  <2>3. CleanedUp'
    <3>1. \A h \in Handles : Writes(h)' => slot'[h] >= slot'[Owner]
      BY <1>1, <1>3, <1>4, <2>1, Members
    <3>2. QED
      BY <1>6, <2>1, <3>1 DEF CleanedUp
  <2>4. DeadUnwritten'
    <3>1. SUFFICES ASSUME NEW h \in Handles, Writes(h)', state'[slot'[h]] = "DEAD"
                   PROVE  FALSE
      BY DEF DeadUnwritten
    <3>2. Writes(h) /\ slot'[h] = slot[h] /\ slot[h] \in Tasks \ {i}
      <4>1. Writes(h) /\ slot'[h] = slot[h] /\ slot[h] \in Tasks /\ slot[h] > i
        BY <1>2, <1>3, <1>4, <3>1
      <4>2. slot[h] \in Nat /\ i \in Nat
        BY <1>1, <4>1, TaskNat
      <4>3. QED
        BY <4>1, <4>2
    <3>3. QED
      BY <1>1, <1>6, <3>1, <3>2 DEF SlotInv, Slots, DeadUnwritten
  <2>5. QED
    BY <1>1, <1>7, <2>1, <2>2, <2>3, <2>4
    DEF Slots, SlotTaken, Closed, SlotsAccounted, CleanupStops
<1>9. CASE ~(i + 1 < MaxTasks)
  <2>1. /\ pc' = [Deleted(g) EXCEPT ![Owner] = "idle"] /\ msg_queue' = << >>
    BY <1>9 DEF CleanupSlot
  <2>2. pc'[Owner] = "idle"
    BY <1>1, <2>1, Members DEF Deleted, SlotInv, TypeOK
  <2>3. \A h \in Handles : ~Writes(h)'
    BY <1>1, <1>3, <1>4, <1>9, Members, MaxTasksAssumption DEF Tasks
  <2>4. \A t \in Tasks : state'[t] = "DEAD"
    BY <1>1, <1>6, <1>9, Members, MaxTasksAssumption DEF Tasks
  <2>5. QED
    BY <1>7, <2>1, <2>2, <2>3, <2>4
    DEF Slots, DeadUnwritten, SlotTaken, CleanedUp, Closed, SlotsAccounted, CleanupStops
<1>10. QED
  BY <1>8, <1>9

\* A spawn takes a DEAD slot: it has no writer.
LEMMA ScanSlots == ASSUME SlotInv, SpawnScan PROVE Slots'
<1> DEFINE i == slot[Owner]
<1>1. i \in Tasks /\ pc[Owner] = "scan" /\ queue_open
  BY Members DEF SlotInv, Slots, TypeOK, Closed, SpawnScan
<1>2. CASE state[i] = "DEAD"
  <2>1. OwnerTo("create", i)
    BY <1>2, OwnerMoves DEF SpawnScan, Goto, SlotInv
  <2>2. \A h \in Handles : Writes(h)' <=> Writes(h)
    BY <2>1 DEF OwnerTo, Writes
  <2>3. /\ state'[i] = "READY"
        /\ \A t \in Tasks \ {i} : state'[t] = state[t]
        /\ UNCHANGED <<task_handles, queue_open, msg_queue, leaked>>
    BY <1>1, <1>2 DEF SpawnScan, SlotInv, TypeOK, comm, history
  <2>4. \A h \in Handles : Writes(h) => slot[h] \in Tasks \ {i} /\ slot'[h] = slot[h]
    BY <1>1, <1>2, <2>1, Members
    DEF OwnerTo, SlotInv, TypeOK, Slots, DeadUnwritten
  <2>5. HandleKept' /\ DeadUnwritten' /\ CleanupStops'
    BY <1>1, <2>1, <2>2, <2>3, <2>4
    DEF OwnerTo, SlotInv, Slots, HandleKept, DeadUnwritten, CleanupStops
  <2>6. SlotTaken' /\ Closed' /\ CleanedUp'
    BY <1>1, <2>1, <2>3 DEF OwnerTo, SlotTaken, Closed, CleanedUp
  <2>7. OneWriter' /\ SlotsAccounted'
    BY <1>1, <2>1, <2>2, <2>3, <2>4 DEF OwnerTo, SlotInv, Slots, OneWriter, SlotsAccounted
  <2>8. QED
    BY <2>5, <2>6, <2>7 DEF Slots
<1>3. CASE state[i] # "DEAD"
  <2>1. \E l \in {"scan", "idle"}, k \in Tasks : OwnerTo(l, k)
    <3>1. PICK l \in {"scan", "idle"}, k \in Tasks :
              pc' = [pc EXCEPT ![Owner] = l] /\ slot' = [slot EXCEPT ![Owner] = k]
      BY <1>1, <1>3, Members DEF SpawnScan, Goto
    <3>2. QED
      BY <3>1, OwnerMoves DEF SlotInv
  <2>2. UNCHANGED <<state, task_handles, queue_open, msg_queue, leaked>>
    BY <1>3 DEF SpawnScan, comm, history
  <2>3. QED
    BY <1>1, <2>1, <2>2, OwnerQuiet
<1>4. QED
  BY <1>2, <1>3

\* xTaskCreate: the slot gets the new wrapper, which has no other one.
LEMMA CreateSlots == ASSUME SlotInv, SpawnCreate PROVE Slots'
<1> DEFINE i == slot[Owner]
<1>1. i \in Tasks /\ pc[Owner] = "create" /\ queue_open
  BY Members DEF SlotInv, Slots, TypeOK, Closed, SpawnCreate
<1>2. PICK h \in Handles :
          /\ pc[h] = "none"
          /\ task_handles' = [task_handles EXCEPT ![i] = h]
          /\ slot' = [slot EXCEPT ![h] = i, ![Owner] = 0]
          /\ pc' = [pc EXCEPT ![Owner] = "inc", ![h] = "enter"]
          /\ UNCHANGED <<state, current_task, task_count, reg, comm, history>>
  BY DEF SpawnCreate
<1>3. /\ pc'[Owner] = "inc" /\ pc'[h] = "enter" /\ slot'[h] = i
      /\ \A g \in Handles \ {h} : pc'[g] = pc[g] /\ slot'[g] = slot[g]
      /\ task_handles'[i] = h
      /\ \A t \in Tasks \ {i} : task_handles'[t] = task_handles[t]
      /\ UNCHANGED <<state, queue_open, msg_queue, leaked>>
  BY <1>1, <1>2, Members DEF SlotInv, TypeOK, comm, history
<1>4. /\ Writes(h)' /\ ~Writes(h)
      /\ \A g \in Handles \ {h} : Writes(g)' <=> Writes(g)
  BY <1>2, <1>3 DEF Writes
<1>5. \A g \in Handles : Writes(g) => slot[g] \in Tasks \ {i}
  BY <1>1, Members DEF SlotInv, TypeOK, Slots, OneWriter
<1>6. HandleKept'
  BY <1>1, <1>3, <1>4, <1>5 DEF SlotInv, Slots, HandleKept
<1>7. DeadUnwritten'
  BY <1>1, <1>3, <1>4, <1>5 DEF SlotInv, Slots, DeadUnwritten, SlotTaken
<1>8. OneWriter'
  BY <1>1, <1>3, <1>4, <1>5 DEF SlotInv, Slots, OneWriter
<1>9. SlotsAccounted'
  <2>1. SUFFICES ASSUME NEW t \in Tasks \ leaked, state[t] # "DEAD"
                 PROVE  \E g \in Handles : Writes(g)' /\ slot'[g] = t
    BY <1>3 DEF SlotsAccounted
  <2>2. CASE t = i
    BY <1>3, <1>4, <2>2
  <2>3. CASE t # i
    <3>1. PICK g \in Handles : Writes(g) /\ slot[g] = t
      BY <1>1, <2>1, <2>3 DEF SlotInv, Slots, SlotsAccounted
    <3>2. g # h
      BY <1>4, <3>1
    <3>3. QED
      BY <1>3, <1>4, <3>1, <3>2
  <2>4. QED
    BY <2>2, <2>3
<1>10. QED
  BY <1>1, <1>3, <1>6, <1>7, <1>8, <1>9
  DEF Slots, SlotTaken, CleanedUp, Closed, CleanupStops

\* The owner's other steps that write a slot: it gives a slot back, puts it to
\* sleep, or marks it DEAD on an exit.
LEMMA OwnerWriteSlots ==
    ASSUME SlotInv, NEW l, NEW j, OwnerTo(l, j), NEW i \in Tasks, queue_open,
           NEW v, state' = [state EXCEPT ![i] = v], queue_open' = queue_open,
           UNCHANGED <<task_handles, msg_queue>>,
           \/ /\ v # "DEAD" /\ leaked' = leaked \cup {i}
              /\ pc[Owner] \in {"idle", "delay"} /\ l \in {"delay", "idle"}
           \/ /\ v = "DEAD" /\ leaked' = leaked /\ i = slot[Owner]
              /\ pc[Owner] = "create" /\ l = "idle"
           \/ /\ v = "DEAD" /\ leaked' = leaked \ {i} /\ j = i
              /\ pc[Owner] = "idle" /\ l = "dec"
    PROVE  Slots'
<1>1. \A h \in Handles : /\ Writes(h)' <=> Writes(h)
                         /\ slot'[h] = slot[h] /\ slot[h] \in Tasks
  BY Members DEF OwnerTo, Writes, SlotInv, TypeOK
<1>2. state'[i] = v /\ \A t \in Tasks \ {i} : state'[t] = state[t]
  BY DEF SlotInv, TypeOK
<1>3. HandleKept' /\ CleanupStops' /\ SlotTaken' /\ CleanedUp' /\ Closed'
  BY <1>1 DEF OwnerTo, SlotInv, Slots, HandleKept, CleanupStops, SlotTaken,
              CleanedUp, Closed
<1>4. DeadUnwritten'
  <2>1. SUFFICES ASSUME NEW h \in Handles, Writes(h), state'[slot[h]] = "DEAD"
                 PROVE  l = "gone" \/ (l = "dec" /\ j = slot[h])
    BY <1>1 DEF DeadUnwritten, OwnerTo
  <2>2. CASE slot[h] # i
    BY <1>1, <1>2, <2>1, <2>2 DEF SlotInv, Slots, DeadUnwritten
  <2>3. CASE slot[h] = i
    BY <1>2, <2>1, <2>3 DEF SlotInv, Slots, OneWriter
  <2>4. QED
    BY <2>2, <2>3
<1>5. OneWriter'
  BY <1>1 DEF OwnerTo, SlotInv, Slots, OneWriter
<1>6. SlotsAccounted'
  BY <1>1, <1>2 DEF OwnerTo, SlotInv, Slots, SlotsAccounted
<1>7. QED
  BY <1>3, <1>4, <1>5, <1>6 DEF Slots

LEMMA SleepSlots ==
    ASSUME SlotInv, NEW l \in {"delay", "idle"}, NEW j, OwnerTo(l, j),
           NEW i \in Tasks, queue_open, pc[Owner] \in {"idle", "delay"},
           NEW v \in {"BLOCKED", "READY"}, state' = [state EXCEPT ![i] = v],
           leaked' = leaked \cup {i},
           UNCHANGED <<task_handles, queue_open, msg_queue>>
    PROVE  Slots'
<1>1. v # "DEAD"
  OBVIOUS
<1>2. QED
  BY <1>1, OwnerWriteSlots

\* Out of memory, a spawn leaves its slot behind.
LEMMA NoParamsSlots == ASSUME SlotInv, SpawnNoParams PROVE Slots'
<1>1. OwnerTo("idle", 0)
  BY OwnerMoves DEF SpawnNoParams, Done, SlotInv
<1>2. /\ leaked' = leaked \cup {slot[Owner]} /\ pc[Owner] = "create" /\ queue_open
      /\ UNCHANGED <<state, task_handles, queue_open, msg_queue>>
  BY DEF SpawnNoParams, table, comm, SlotInv, Slots, Closed
<1>3. \A h \in Handles : /\ Writes(h)' <=> Writes(h) /\ slot'[h] = slot[h]
  BY <1>1 DEF OwnerTo, Writes
<1>4. QED
  BY <1>1, <1>2, <1>3
  DEF OwnerTo, SlotInv, Slots, HandleKept, DeadUnwritten, SlotTaken, CleanedUp,
      Closed, OneWriter, SlotsAccounted, CleanupStops

\* An exit forgets the handle of its slot.  If that was a handle, the owner is
\* gone; if it was none, no wrapper had the slot.
LEMMA ExitSlots == ASSUME SlotInv, ExitStore PROVE Slots'
<1> DEFINE i == slot[Owner]
<1>1. i \in Tasks /\ pc[Owner] = "decStore" /\ queue_open
  BY Members DEF SlotInv, Slots, TypeOK, Closed, ExitStore
<1>2. OwnerTo(IF task_handles[i] # Null THEN "gone" ELSE "idle", 0)
  BY OwnerMoves DEF ExitStore, Done, SlotInv
<1>3. /\ task_handles' = [task_handles EXCEPT ![i] = Null]
      /\ UNCHANGED <<state, queue_open, msg_queue, leaked>>
  BY DEF ExitStore, comm
<1>4. \A h \in Handles : /\ Writes(h)' <=> Writes(h)
                         /\ slot'[h] = slot[h] /\ slot[h] \in Tasks
  BY <1>2, Members DEF OwnerTo, Writes, SlotInv, TypeOK
<1>5. ASSUME task_handles[i] = Null, NEW h \in Handles, Writes(h) PROVE slot[h] # i
  BY <1>1, <1>5, ThreadsAssumption DEF SlotInv, Slots, HandleKept
<1>6. HandleKept' /\ DeadUnwritten'
  BY SMTT(30), <1>1, <1>2, <1>3, <1>4, <1>5
  DEF OwnerTo, SlotInv, TypeOK, Slots, HandleKept, DeadUnwritten
<1>7. QED
  BY SMTT(30), <1>1, <1>2, <1>3, <1>4, <1>6
  DEF OwnerTo, SlotInv, Slots, SlotTaken, CleanedUp, Closed, OneWriter,
      SlotsAccounted, CleanupStops

LEMMA OwnerSlots == ASSUME SlotInv, OwnerNext PROVE Slots'
<1>1. TypeOK /\ current_task \in Tasks /\ slot[Owner] \in Tasks
  BY Members DEF SlotInv, TypeOK
<1>2. pc[Owner] # "idle" => queue_open
  BY DEF SlotInv, Slots, Closed
<1>3. CASE Initialise \/ InitNoMemory
  BY <1>3, InitTableSlots
<1>4. CASE CleanupBegin \/ SpawnBegin
  <2>1. PICK l \in {"cleanup", "scan"} : OwnerTo(l, 0)
    BY <1>1, <1>4, OwnerMoves DEF CleanupBegin, SpawnBegin, Goto
  <2>2. /\ pc[Owner] = "idle" /\ queue_open
        /\ UNCHANGED <<state, task_handles, queue_open, msg_queue, leaked>>
    BY <1>4 DEF CleanupBegin, SpawnBegin, Free, table, comm, history
  <2>3. QED
    BY <2>1, <2>2, OwnerQuiet
<1>5. CASE CleanupSlot
  BY <1>5, CleanupSlots
<1>6. CASE SpawnScan
  BY <1>6, ScanSlots
<1>7. CASE SpawnNoParams
  BY <1>7, NoParamsSlots
<1>8. CASE SpawnCreate
  BY <1>8, CreateSlots
<1>9. CASE SpawnNoTask
  <2>1. OwnerTo("idle", 0)
    BY <1>1, <1>9, OwnerMoves DEF SpawnNoTask, Done
  <2>2. QED
    BY <1>1, <1>2, <1>9, <2>1, OwnerWriteSlots DEF SpawnNoTask, comm, history
<1>10. CASE SpawnInc \/ SpawnDone \/ ExitLoad
  <2>1. /\ \/ /\ pc[Owner] \in {"inc", "incStore"}
              /\ \E l \in {"incStore", "idle"} : OwnerTo(l, slot[Owner])
           \/ pc[Owner] = "dec" /\ OwnerTo("decStore", slot[Owner])
        /\ UNCHANGED <<state, task_handles, queue_open, msg_queue, leaked>>
    BY <1>1, <1>10, OwnerMoves
    DEF SpawnInc, SpawnDone, ExitLoad, Load, Store, Goto, table, comm, history
  <2>2. QED
    BY <1>2, <2>1, OwnerQuiet
<1>11. CASE Exit
  <2>1. OwnerTo("dec", current_task)
    BY <1>1, <1>11, OwnerMoves DEF Exit, Goto
  <2>2. QED
    BY <1>1, <1>11, <2>1, OwnerWriteSlots DEF Exit, Free, comm
<1>12. CASE ExitStore
  BY <1>12, ExitSlots
<1>13. CASE Sleep
  <2>1. OwnerTo("delay", current_task)
    BY <1>1, <1>13, OwnerMoves DEF Sleep, Goto
  <2>2. /\ state' = [state EXCEPT ![current_task] = "BLOCKED"] /\ pc[Owner] = "idle"
        /\ leaked' = leaked \cup {current_task} /\ queue_open
        /\ UNCHANGED <<task_handles, queue_open, msg_queue>>
    BY <1>13 DEF Sleep, Free, comm
  <2>3. QED
    BY <1>1, <2>1, <2>2, SleepSlots
<1>14. CASE SleepEnd
  <2>1. OwnerTo("idle", 0)
    BY <1>1, <1>14, OwnerMoves DEF SleepEnd, Done
  <2>2. /\ state' = [state EXCEPT ![slot[Owner]] = "READY"] /\ pc[Owner] = "delay"
        /\ leaked' = leaked \cup {slot[Owner]} /\ queue_open
        /\ UNCHANGED <<task_handles, queue_open, msg_queue>>
    BY <1>2, <1>14 DEF SleepEnd, comm
  <2>3. QED
    BY <1>1, <2>1, <2>2, SleepSlots
<1>15. QED
  BY <1>3, <1>4, <1>5, <1>6, <1>7, <1>8, <1>9, <1>10, <1>11, <1>12, <1>13, <1>14
  DEF OwnerNext

\* A wrapper that goes on without being done with its slot, or after it was.
LEMMA WrapperQuiet ==
    ASSUME SlotInv, NEW h \in Handles, NEW l, WrapperTo(h, l),
           Writes(h) <=> l \in {"enter", "running", "dead"},
           UNCHANGED <<state, task_handles, queue_open, msg_queue, leaked>>
    PROVE  Slots'
<1>1. \A g \in Handles : /\ Writes(g)' <=> Writes(g)
                         /\ Writes(g) => slot'[g] = slot[g]
  BY Members DEF WrapperTo, Writes
<1>2. pc'[Owner] = pc[Owner] /\ slot'[Owner] = slot[Owner]
  BY Members DEF WrapperTo
<1>3. QED
  BY <1>1, <1>2
  DEF SlotInv, Slots, HandleKept, DeadUnwritten, SlotTaken, CleanedUp, Closed,
      OneWriter, SlotsAccounted, CleanupStops

\* A wrapper writes the state of its own slot only.
LEMMA WrapperWriteSlots ==
    ASSUME SlotInv, NEW h \in Handles, Writes(h), NEW l, WrapperTo(h, l), NEW v,
           state' = [state EXCEPT ![slot[h]] = v],
           UNCHANGED <<task_handles, queue_open, msg_queue>>,
           \/ v = "RUNNING" /\ l = "dead" /\ leaked' = leaked
           \/ v = "DEAD" /\ l = "load" /\ leaked' = leaked \ {slot[h]}
    PROVE  Slots'
<1> DEFINE i == slot[h]
<1>1. /\ i \in Tasks /\ pc'[Owner] = pc[Owner] /\ slot'[Owner] = slot[Owner]
      /\ queue_open
  BY Members DEF WrapperTo, SlotInv, TypeOK, Slots, CleanupStops
<1>2. state'[i] = v /\ \A t \in Tasks \ {i} : state'[t] = state[t]
  BY <1>1 DEF SlotInv, TypeOK
<1>3. /\ \A g \in Handles \ {h} : /\ Writes(g)' <=> Writes(g)
                                  /\ slot'[g] = slot[g] /\ slot[g] \in Tasks
      /\ Writes(h)' <=> l = "dead"
      /\ Writes(h)' => slot'[h] = i
  BY Members DEF WrapperTo, Writes, SlotInv, TypeOK
<1>4. \A g \in Handles \ {h} : Writes(g) => slot[g] # i
  BY DEF SlotInv, Slots, OneWriter
<1>5. pc[Owner] = "create" => slot[Owner] \in Tasks \ {i}
  BY Members DEF SlotInv, TypeOK, Slots, OneWriter
<1>6. HandleKept' /\ OneWriter' /\ CleanupStops' /\ Closed'
  BY <1>1, <1>3, <1>4
  DEF SlotInv, Slots, HandleKept, OneWriter, CleanupStops, Closed
<1>7. DeadUnwritten' /\ SlotTaken'
  BY <1>1, <1>2, <1>3, <1>4, <1>5 DEF SlotInv, Slots, DeadUnwritten, SlotTaken
<1>8. CleanedUp'
  <2>1. SUFFICES ASSUME pc[Owner] = "cleanup" PROVE CleanedUp'
    BY <1>1 DEF CleanedUp
  <2>2. i >= slot[Owner] /\ i \in Nat /\ slot[Owner] \in Nat
    BY <1>1, <2>1, Members, TaskNat DEF SlotInv, TypeOK, Slots, CleanedUp
  <2>3. \A t \in Tasks : t < slot[Owner] => t # i
    BY <2>2
  <2>4. QED
    BY <1>1, <1>2, <1>3, <2>1, <2>3 DEF SlotInv, Slots, CleanedUp
<1>9. SlotsAccounted'
  <2>1. SUFFICES ASSUME NEW t \in Tasks \ leaked', state'[t] # "DEAD",
                        pc[Owner] # "cleanup"
                 PROVE  \/ \E g \in Handles : Writes(g)' /\ slot'[g] = t
                        \/ pc[Owner] = "create" /\ slot[Owner] = t
    BY <1>1 DEF SlotsAccounted
  <2>2. CASE t = i
    BY <1>2, <1>3, <2>1, <2>2
  <2>3. CASE t # i
    <3>1. \/ \E g \in Handles : Writes(g) /\ slot[g] = t
          \/ pc[Owner] = "create" /\ slot[Owner] = t
      BY <1>2, <2>1, <2>3 DEF SlotInv, Slots, SlotsAccounted
    <3>2. QED
      BY <1>3, <2>3, <3>1
  <2>4. QED
    BY <2>2, <2>3
<1>10. QED
  BY <1>6, <1>7, <1>8, <1>9 DEF Slots

LEMMA WrapperSlots ==
    ASSUME SlotInv, NEW h \in Handles, WrapperNext(h) PROVE Slots'
<1>1. TypeOK
  BY DEF SlotInv
<1>2. CASE WrapperEnter(h)
  <2>1. WrapperTo(h, "running")
    BY <1>1, <1>2, WrapperMoves DEF WrapperEnter, Goto
  <2>2. QED
    BY <1>2, <2>1, WrapperQuiet DEF WrapperEnter, Writes, comm, history
<1>3. CASE WrapperRun(h)
  <2>1. WrapperTo(h, "dead") /\ Writes(h)
    BY <1>1, <1>3, WrapperMoves DEF WrapperRun, Goto, Writes
  <2>2. QED
    BY <1>3, <2>1, WrapperWriteSlots DEF WrapperRun, comm, history
<1>4. CASE WrapperDead(h)
  <2>1. WrapperTo(h, "load") /\ Writes(h)
    BY <1>1, <1>4, WrapperMoves DEF WrapperDead, Done, Writes
  <2>2. QED
    BY <1>4, <2>1, WrapperWriteSlots DEF WrapperDead, comm
<1>5. CASE WrapperLoad(h)
  <2>1. WrapperTo(h, "store")
    BY <1>1, <1>5, WrapperMoves DEF WrapperLoad, Load, Goto
  <2>2. QED
    BY <1>5, <2>1, WrapperQuiet DEF WrapperLoad, Load, Writes, table, comm, history
<1>6. CASE WrapperEnd(h)
  <2>1. WrapperTo(h, "none")
    BY <1>1, <1>6, WrapperMoves DEF WrapperEnd, Store, Goto
  <2>2. QED
    BY <1>6, <2>1, WrapperQuiet DEF WrapperEnd, Store, Writes, comm
<1>7. QED
  BY <1>2, <1>3, <1>4, <1>5, <1>6 DEF WrapperNext

\* A message needs a queue, and touches no slot.
LEMMA MessageSlots ==
    ASSUME SlotInv, \E c \in Hosts : MessageNext(c)
    PROVE  Slots'
<1>1. /\ UNCHANGED <<state, task_handles, pc, slot, queue_open, leaked>>
      /\ ~queue_open => msg_queue' = msg_queue
  <2>1. SUFFICES ASSUME NEW c, MessageNext(c)
                 PROVE  /\ UNCHANGED <<state, task_handles, pc, slot, queue_open, leaked>>
                        /\ ~queue_open => msg_queue' = msg_queue
    OBVIOUS
  <2>2. ~queue_open => msg_queue = << >>
    BY DEF SlotInv, Slots, Closed
  <2>3. QED
    BY <2>1, <2>2
    DEF MessageNext, Send, SendRejected, Receive, ReceiveBlocking, Woken, TimedOut,
        Take, table, locals, history, vars
<1>2. QED
  BY <1>1
  DEF SlotInv, Slots, HandleKept, DeadUnwritten, SlotTaken, CleanedUp, Closed,
      OneWriter, SlotsAccounted, CleanupStops, Writes

LEMMA InitSlots == Init => SlotInv
<1> SUFFICES ASSUME Init PROVE SlotInv
  OBVIOUS
<1>1. TypeOK
  <2>1. << >> \in Seq(Message) /\ Len(<< >>) <= QSize /\ 0 \in 0..(CountMod - 1)
    BY QueueAssumption, CountModAssumption
  <2>2. QED
    BY <2>1, Members DEF Init, TypeOK, OwnerPcs, WrapperPcs
<1>2. pc[Owner] = "idle" /\ \A h \in Handles : ~Writes(h)
  BY Members DEF Init, Writes
<1>3. QED
  BY <1>1, <1>2
  DEF Init, SlotInv, Slots, HandleKept, DeadUnwritten, SlotTaken, CleanedUp, Closed,
      OneWriter, SlotsAccounted, CleanupStops

LEMMA NextSlots == SlotInv /\ [Next]_vars => SlotInv'
<1> SUFFICES ASSUME SlotInv, [Next]_vars PROVE SlotInv'
  OBVIOUS
<1>1. CASE OwnerNext
  BY <1>1, OwnerTypes, OwnerSlots DEF SlotInv
<1>2. CASE \E h \in Handles : WrapperNext(h)
  BY <1>2, WrapperTypes, WrapperSlots DEF SlotInv
<1>3. CASE \E c \in Hosts : MessageNext(c)
  BY <1>3, MessageTypes, MessageSlots DEF SlotInv
<1>4. CASE UNCHANGED vars
  BY <1>4 DEF vars, SlotInv, TypeOK, Slots, HandleKept, DeadUnwritten, SlotTaken,
              CleanedUp, Closed, OneWriter, SlotsAccounted, CleanupStops, Writes
<1>5. QED
  BY <1>1, <1>2, <1>3, <1>4 DEF Next

LEMMA AlwaysSlots == Spec => []SlotInv
BY InitSlots, NextSlots, PTL DEF Spec

THEOREM TypeCorrect == Spec => []TypeOK
<1>1. SlotInv => TypeOK
  BY DEF SlotInv
<1>2. QED
  BY <1>1, AlwaysSlots, PTL

\* At most one FreeRTOS task writes the state of a slot, and none while a spawn
\* holds the slot.
THEOREM OneWriterPerSlot == Spec => []OneWriter
<1>1. SlotInv => OneWriter
  BY DEF SlotInv, Slots
<1>2. QED
  BY <1>1, AlwaysSlots, PTL

\* No slot is lost but those that a failed malloc or a sleep leaves behind.
THEOREM NoSlotLost == Spec => []SlotsAccounted
<1>1. SlotInv => SlotsAccounted
  BY DEF SlotInv, Slots
<1>2. QED
  BY <1>1, AlwaysSlots, PTL

\* A cleanup leaves no wrapper behind that would still write a slot.
THEOREM CleanupLeavesNone == Spec => []CleanupStops
<1>1. SlotInv => CleanupStops
  BY DEF SlotInv, Slots
<1>2. QED
  BY <1>1, AlwaysSlots, PTL

-----------------------------------------------------------------------------
(***************************************************************************)
(* The count.  A store adds one to, or takes one from, what task_count is  *)
(* modulo its width, and the balance moves the same way; all other steps   *)
(* leave both alone.                                                       *)
(***************************************************************************)

Alive == {h \in Handles : pc[h] # "none"}
Uncounted == IF pc[Owner] \in {"inc", "incStore"} THEN 1 ELSE 0

CountInv == TypeOK /\ CountExact

\* The remainder of a number that is written as a multiple and a remainder.
LEMMA Remainder ==
    ASSUME NEW q \in Nat, NEW r \in 0..(CountMod - 1)
    PROVE  (CountMod * q + r) % CountMod = r
BY CountModAssumption

LEMMA Quotient ==
    ASSUME NEW n \in Nat
    PROVE  \E q \in Nat : n = CountMod * q + (n % CountMod)
BY CountModAssumption

\* Adding one and taking one, modulo the width of task_count.
LEMMA Succ ==
    ASSUME NEW n \in Nat
    PROVE  ((n % CountMod) + 1) % CountMod = (n + 1) % CountMod
<1>1. PICK q \in Nat : n = CountMod * q + (n % CountMod)
  BY Quotient
<1>2. n % CountMod \in 0..(CountMod - 1)
  BY CountModAssumption
<1> DEFINE r == n % CountMod
<1> HIDE DEF r
<1>3. CASE r + 1 < CountMod
  <2>1. r + 1 \in 0..(CountMod - 1) /\ n + 1 = CountMod * q + (r + 1)
    BY <1>1, <1>2, <1>3, CountModAssumption DEF r
  <2>2. (r + 1) % CountMod = r + 1
    BY <2>1, CountModAssumption
  <2>3. QED
    BY <2>1, <2>2, Remainder DEF r
<1>4. CASE r + 1 = CountMod
  <2>1. n + 1 = CountMod * (q + 1) + 0 /\ q + 1 \in Nat
    BY <1>1, <1>4, CountModAssumption DEF r
  <2>2. 0 \in 0..(CountMod - 1) /\ CountMod = CountMod * 1 + 0
    BY CountModAssumption
  <2>3. (r + 1) % CountMod = 0
    BY <1>4, <2>2, Remainder
  <2>4. QED
    BY <2>1, <2>2, <2>3, Remainder DEF r
<1>5. QED
  BY <1>2, <1>3, <1>4, CountModAssumption DEF r

LEMMA Pred ==
    ASSUME NEW n \in Nat
    PROVE  (((n + 1) % CountMod) + CountMod - 1) % CountMod = n % CountMod
<1>1. PICK q \in Nat : n = CountMod * q + (n % CountMod)
  BY Quotient
<1>2. n % CountMod \in 0..(CountMod - 1)
  BY CountModAssumption
<1> DEFINE r == n % CountMod
<1> HIDE DEF r
<1>3. (n + 1) % CountMod = (r + 1) % CountMod
  BY Succ DEF r
<1>4. CASE r + 1 < CountMod
  <2>1. (r + 1) % CountMod = r + 1
    BY <1>2, <1>4, CountModAssumption DEF r
  <2>2. r + 1 + CountMod - 1 = CountMod * 1 + r /\ r \in 0..(CountMod - 1)
    BY <1>2, CountModAssumption DEF r
  <2>3. QED
    BY <1>3, <2>1, <2>2, Remainder DEF r
<1>5. CASE r + 1 = CountMod
  <2>1. 0 \in 0..(CountMod - 1) /\ CountMod = CountMod * 1 + 0
    BY CountModAssumption
  <2>2. (r + 1) % CountMod = 0
    BY <1>5, <2>1, Remainder
  <2>3. 0 + CountMod - 1 = r /\ r % CountMod = r
    BY <1>2, <1>5, CountModAssumption DEF r
  <2>4. QED
    BY <1>3, <2>2, <2>3 DEF r
<1>6. QED
  BY <1>2, <1>4, <1>5, CountModAssumption DEF r

LEMMA AliveFinite == IsFiniteSet(Alive) /\ Cardinality(Alive) \in Nat
<1>1. Alive \subseteq Handles /\ IsFiniteSet(Handles)
  BY ThreadsAssumption DEF Alive
<1>2. QED
  BY <1>1, FS_Subset, FS_CardinalityType

LEMMA Balance ==
    /\ CountBalance \in Nat
    /\ CountBalance = Cardinality(Alive) + CountMod - Uncounted
    /\ Uncounted \in {0, 1}
<1>1. CountBalance = Cardinality(Alive) + CountMod - Uncounted
  BY DEF CountBalance, Alive, Uncounted
<1>2. Uncounted \in {0, 1}
  BY DEF Uncounted
<1>3. QED
  BY <1>1, <1>2, AliveFinite, CountModAssumption

\* What counts, counts as before.
LEMMA CountQuiet ==
    ASSUME CountExact, UNCHANGED task_count, Alive' = Alive, Uncounted' = Uncounted,
           queue_open' => queue_open /\ pc[Owner] # "cleanup",
           exact' => exact
    PROVE  CountExact'
<1>1. CountBalance' = CountBalance
  BY Balance DEF CountBalance, Alive, Uncounted
<1>2. QED
  BY <1>1 DEF CountExact

\* A step of the owner that says nothing of the count.
LEMMA OwnerCounts ==
    ASSUME CountInv, NEW l \in OwnerPcs \ {"cleanup"},
           pc[Owner] \notin {"cleanup", "inc", "incStore"}, Goto(Owner, l),
           l \notin {"inc", "incStore"},
           UNCHANGED <<task_count, queue_open, exact>>
    PROVE  CountExact'
<1>1. pc'[Owner] = l /\ \A h \in Handles : pc'[h] = pc[h]
  BY Members DEF Goto, CountInv, TypeOK
<1>2. Alive' = Alive /\ Uncounted' = Uncounted
  BY <1>1 DEF Alive, Uncounted
<1>3. QED
  BY <1>2, CountQuiet DEF CountInv

LEMMA InitialiseCounts == ASSUME CountInv, Initialise PROVE CountExact'
<1>1. pc' = pc /\ task_count' = 0 /\ pc[Owner] = "idle"
  BY DEF Initialise, InitTable, Free, locals
<1>2. CASE exact'
  <2>1. Alive' = {}
    BY <1>1, <1>2 DEF Initialise, Alive
  <2>2. Cardinality(Alive') = 0 /\ Uncounted' = 0
    BY <1>1, <2>1, FS_EmptySet DEF Uncounted
  <2>3. CountBalance' = CountMod
    BY <2>1, <2>2, FS_EmptySet, CountModAssumption DEF CountBalance, Alive, Uncounted
  <2>4. CountMod % CountMod = 0
    BY CountModAssumption
  <2>5. QED
    BY <1>1, <2>3, <2>4 DEF CountExact
<1>3. CASE ~exact'
  BY <1>3 DEF CountExact
<1>4. QED
  BY <1>2, <1>3

LEMMA CreateCounts == ASSUME CountInv, SpawnCreate PROVE CountExact'
<1>1. PICK h \in Handles :
          /\ pc[Owner] = "create" /\ pc[h] = "none"
          /\ pc' = [pc EXCEPT ![Owner] = "inc", ![h] = "enter"]
  BY DEF SpawnCreate
<1>2. /\ pc'[Owner] = "inc" /\ pc'[h] = "enter"
      /\ \A g \in Handles \ {h} : pc'[g] = pc[g]
  BY <1>1, Members DEF CountInv, TypeOK
<1>3. Alive' = Alive \cup {h} /\ h \notin Alive
  BY <1>1, <1>2 DEF Alive
<1>4. Cardinality(Alive \cup {h}) = Cardinality(Alive) + 1
  BY <1>3, AliveFinite, FS_AddElement
<1>5. Uncounted = 0 /\ Uncounted' = 1
  BY <1>1, <1>2 DEF Uncounted
<1>6. CountBalance' = Cardinality(Alive') + CountMod - Uncounted'
  BY DEF CountBalance, Alive, Uncounted
<1>7. CountBalance' = CountBalance
  BY <1>3, <1>4, <1>5, <1>6, Balance, AliveFinite, CountModAssumption
<1>8. UNCHANGED <<task_count, queue_open, exact>>
  BY DEF SpawnCreate, comm, history
<1>9. QED
  BY <1>1, <1>7, <1>8 DEF CountExact, CountInv

LEMMA IncCounts == ASSUME CountInv, SpawnInc PROVE CountExact'
<1>1. /\ pc[Owner] = "inc" /\ Goto(Owner, "incStore")
      /\ UNCHANGED <<task_count, queue_open, exact>>
  BY DEF SpawnInc, Load, table, comm, history
<1>2. pc'[Owner] = "incStore" /\ \A h \in Handles : pc'[h] = pc[h]
  BY <1>1, Members DEF Goto, CountInv, TypeOK
<1>3. Alive' = Alive /\ Uncounted' = Uncounted
  BY <1>1, <1>2 DEF Alive, Uncounted
<1>4. QED
  BY <1>1, <1>3, CountQuiet DEF CountInv

\* The store of a spawn: one more is counted.
LEMMA SpawnCounts == ASSUME CountInv, SpawnDone PROVE CountExact'
<1>1. /\ pc[Owner] = "incStore" /\ Goto(Owner, "idle") /\ UNCHANGED queue_open
      /\ task_count' = (reg[Owner] + 1) % CountMod
      /\ exact' = (exact /\ reg[Owner] = task_count)
  BY DEF SpawnDone, Store, comm
<1>2. pc'[Owner] = "idle" /\ \A h \in Handles : pc'[h] = pc[h]
  BY <1>1, Members DEF Goto, CountInv, TypeOK
<1>3. Alive' = Alive /\ Uncounted = 1 /\ Uncounted' = 0
  BY <1>1, <1>2 DEF Alive, Uncounted
<1>4. CountBalance' = Cardinality(Alive') + CountMod - Uncounted'
  BY DEF CountBalance, Alive, Uncounted
<1>5. CountBalance' = CountBalance + 1
  BY <1>3, <1>4, Balance, AliveFinite, CountModAssumption
<1>6. CASE queue_open' /\ exact'
  <2>1. reg[Owner] = CountBalance % CountMod
    BY <1>1, <1>6 DEF CountInv, CountExact
  <2>2. task_count' = (CountBalance + 1) % CountMod
    BY <1>1, <2>1, Balance, Succ
  <2>3. QED
    BY <1>5, <2>2 DEF CountExact
<1>7. QED
  BY <1>6 DEF CountExact

\* The store of a wrapper: one less is alive.
LEMMA EndCounts ==
    ASSUME CountInv, NEW h \in Handles, WrapperEnd(h) PROVE CountExact'
<1>1. /\ pc[h] = "store" /\ Goto(h, "none") /\ UNCHANGED queue_open
      /\ task_count' = (reg[h] + CountMod - 1) % CountMod
      /\ exact' = (exact /\ reg[h] = task_count)
  BY DEF WrapperEnd, Store, comm
<1>2. /\ pc'[Owner] = pc[Owner] /\ pc'[h] = "none"
      /\ \A g \in Handles \ {h} : pc'[g] = pc[g]
  BY <1>1, Members DEF Goto, CountInv, TypeOK
<1>3. Alive' = Alive \ {h} /\ h \in Alive /\ Uncounted' = Uncounted
  BY <1>1, <1>2 DEF Alive, Uncounted
<1>4. Cardinality(Alive \ {h}) = Cardinality(Alive) - 1
  BY <1>3, AliveFinite, FS_RemoveElement
<1>5. CountBalance' = Cardinality(Alive') + CountMod - Uncounted'
  BY DEF CountBalance, Alive, Uncounted
<1>6. CountBalance = CountBalance' + 1 /\ CountBalance' \in Nat
  <2>1. Cardinality(Alive \ {h}) \in Nat
    BY AliveFinite, FS_RemoveElement, FS_CardinalityType
  <2>2. QED
    BY <1>3, <1>4, <1>5, <2>1, Balance, AliveFinite, CountModAssumption
<1>7. CASE queue_open' /\ exact' /\ pc'[Owner] # "cleanup"
  <2>1. reg[h] = CountBalance % CountMod
    BY <1>1, <1>2, <1>7 DEF CountInv, CountExact
  <2>2. task_count' = (((CountBalance' + 1) % CountMod) + CountMod - 1) % CountMod
    BY <1>1, <1>6, <2>1
  <2>3. task_count' = CountBalance' % CountMod
    <3> DEFINE n == CountBalance'
    <3> HIDE DEF n
    <3>1. n \in Nat /\ task_count' = (((n + 1) % CountMod) + CountMod - 1) % CountMod
      BY <1>6, <2>2 DEF n
    <3>2. QED
      BY <3>1, Pred DEF n
  <2>4. QED
    BY <2>3 DEF CountExact
<1>8. QED
  BY <1>7 DEF CountExact

LEMMA CleanupCounts == ASSUME CountInv, CleanupSlot PROVE CountExact'
<1> DEFINE h == task_handles[slot[Owner]]
<1>1. pc[Owner] = "cleanup" /\ slot[Owner] \in Tasks
  BY Members DEF CleanupSlot, CountInv, TypeOK
<1>2. CASE slot[Owner] + 1 < MaxTasks
  <2>1. h \in Handles \cup {Null} /\ pc' = Deleted(h)
    BY <1>1, <1>2 DEF CleanupSlot, CountInv, TypeOK
  <2>2. pc'[Owner] = "cleanup"
    BY <1>1, <2>1, Members DEF Deleted, CountInv, TypeOK
  <2>3. QED
    BY <2>2 DEF CountExact
<1>3. CASE ~(slot[Owner] + 1 < MaxTasks)
  BY <1>1, <1>3 DEF CleanupSlot, CountExact
<1>4. QED
  BY <1>2, <1>3

LEMMA OwnerNextCounts == ASSUME CountInv, OwnerNext PROVE CountExact'
<1>1. CASE Initialise
  BY <1>1, InitialiseCounts
<1>2. CASE InitNoMemory
  BY <1>2 DEF InitNoMemory, InitTable, CountExact
<1>3. CASE CleanupBegin
  <2>1. pc'[Owner] = "cleanup"
    BY <1>3, Members DEF CleanupBegin, Goto, CountInv, TypeOK
  <2>2. QED
    BY <2>1 DEF CountExact
<1>4. CASE CleanupSlot
  BY <1>4, CleanupCounts
<1>5. CASE SpawnCreate
  BY <1>5, CreateCounts
<1>6. CASE SpawnInc
  BY <1>6, IncCounts
<1>7. CASE SpawnDone
  BY <1>7, SpawnCounts
<1>8. CASE ExitStore
  BY <1>8 DEF ExitStore, CountExact
<1>9. CASE SpawnBegin \/ SpawnScan \/ SpawnNoParams \/ SpawnNoTask \/ Exit \/ ExitLoad
           \/ Sleep \/ SleepEnd
  <2>1. UNCHANGED <<task_count, queue_open, exact>>
    BY <1>9 DEF SpawnBegin, SpawnScan, SpawnNoParams, SpawnNoTask, Exit, ExitLoad,
       Sleep, SleepEnd, Load, table, comm, history
  <2>2. pc[Owner] \in {"idle", "scan", "create", "dec", "delay"}
    BY <1>9 DEF SpawnBegin, SpawnScan, SpawnNoParams, SpawnNoTask, Exit, ExitLoad,
       Sleep, SleepEnd, Free
  <2>3. \E l \in {"idle", "scan", "create", "dec", "decStore", "delay"} : Goto(Owner, l)
    BY <1>9 DEF SpawnBegin, SpawnScan, SpawnNoParams, SpawnNoTask, Exit, ExitLoad,
       Sleep, SleepEnd, Load, Goto, Done
  <2>4. QED
    BY <2>1, <2>2, <2>3, OwnerCounts DEF OwnerPcs
<1>10. QED
  BY <1>1, <1>2, <1>3, <1>4, <1>5, <1>6, <1>7, <1>8, <1>9 DEF OwnerNext

LEMMA WrapperNextCounts ==
    ASSUME CountInv, NEW h \in Handles, WrapperNext(h) PROVE CountExact'
<1>1. CASE WrapperEnd(h)
  BY <1>1, EndCounts
<1>2. CASE WrapperEnter(h) \/ WrapperRun(h) \/ WrapperDead(h) \/ WrapperLoad(h)
  <2>1. UNCHANGED <<task_count, queue_open, exact>> /\ pc[h] # "none"
    BY <1>2 DEF WrapperEnter, WrapperRun, WrapperDead, WrapperLoad, Load, table, comm,
       history
  <2>2. PICK l \in {"running", "dead", "load", "store"} : Goto(h, l)
    BY <1>2 DEF WrapperEnter, WrapperRun, WrapperDead, WrapperLoad, Load, Goto, Done
  <2>3. pc'[Owner] = pc[Owner] /\ \A g \in Handles : pc'[g] # "none" <=> pc[g] # "none"
    BY <2>1, <2>2, Members DEF Goto, CountInv, TypeOK
  <2>4. Alive' = Alive /\ Uncounted' = Uncounted
    BY <2>3 DEF Alive, Uncounted
  <2>5. CASE pc[Owner] = "cleanup"
    BY <2>3, <2>5 DEF CountExact
  <2>6. CASE pc[Owner] # "cleanup"
    BY <2>1, <2>4, <2>6, CountQuiet DEF CountInv
  <2>7. QED
    BY <2>5, <2>6
<1>3. QED
  BY <1>1, <1>2 DEF WrapperNext

LEMMA NextCounts == CountInv /\ [Next]_vars => CountInv'
<1> SUFFICES ASSUME CountInv, [Next]_vars PROVE CountInv'
  OBVIOUS
<1>1. CASE OwnerNext
  BY <1>1, OwnerTypes, OwnerNextCounts DEF CountInv
<1>2. CASE \E h \in Handles : WrapperNext(h)
  BY <1>2, WrapperTypes, WrapperNextCounts DEF CountInv
<1>3. CASE \E c \in Hosts : MessageNext(c)
  <2>1. UNCHANGED <<pc, task_count, queue_open, exact>>
    BY <1>3 DEF MessageNext, Send, SendRejected, Receive, ReceiveBlocking, Woken,
       TimedOut, table, locals, history, vars
  <2>2. CountExact'
    BY <2>1 DEF CountInv, CountExact, CountBalance
  <2>3. QED
    BY <1>3, <2>2, MessageTypes DEF CountInv
<1>4. CASE UNCHANGED vars
  BY <1>4 DEF vars, CountInv, TypeOK, CountExact, CountBalance
<1>5. QED
  BY <1>1, <1>2, <1>3, <1>4 DEF Next

\* task_count is the number of tasks that have not ended, although it is updated
\* by a load and a store that anything may come between: unless an update was
\* torn, the host called exit, or a wrapper outlived a cleanup.
THEOREM CountsExact == Spec => []CountExact
<1>1. Init => CountInv
  <2>1. Init => TypeOK /\ CountExact
    BY InitSlots DEF SlotInv, Init, CountExact
  <2>2. QED
    BY <2>1 DEF CountInv
<1>2. CountInv => CountExact
  BY DEF CountInv
<1>3. QED
  BY <1>1, <1>2, NextCounts, PTL DEF Spec

-----------------------------------------------------------------------------
(* The queue *)

LEMMA SeqIsFunction ==
    ASSUME NEW S, NEW s \in Seq(S)
    PROVE  s = [j \in 1..Len(s) |-> s[j]]
OBVIOUS

\* A message that is taken was the oldest one; if it is for somebody else, or of
\* another type, it is dropped.
LEMMA TakeFifo ==
    ASSUME SlotInv, NEW c, NEW ty \in Types, Take(c, ty), queue_open'
    PROVE  Dropped \/ Fifo!Next
<1> DEFINE me == Current(c)
<1>1. me \in Tasks
  BY CurrentIsTask DEF SlotInv, TypeOK
<1>2. /\ msg_queue \in Seq(Message) /\ msg_queue # << >>
      /\ Len(msg_queue) \in Nat /\ 1 <= Len(msg_queue)
      /\ Head(msg_queue) = msg_queue[1]
  BY DEF SlotInv, TypeOK, Take
<1>3. /\ msg_queue' = Tail(msg_queue) /\ Len(Tail(msg_queue)) = Len(msg_queue) - 1
      /\ \A j \in 1..(Len(msg_queue) - 1) : Tail(msg_queue)[j] = msg_queue[j + 1]
      /\ Tail(msg_queue) \in Seq(Message)
  BY <1>2 DEF Take
<1>4. CASE ~Matches(msg_queue[1], me, ty)
  <2>1. got' = Null
    BY <1>2, <1>4 DEF Take
  <2>2. Len(msg_queue') < Len(msg_queue)
    BY <1>2, <1>3
  <2>3. QED
    BY <2>1, <2>2 DEF Dropped
<1>5. CASE Matches(msg_queue[1], me, ty)
  <2>1. got' = msg_queue[1]
    BY <1>2, <1>5 DEF Take
  <2>2. 1 \in Fifo!Hits(me, ty) /\ \A j \in Fifo!Hits(me, ty) : 1 <= j
    BY <1>2, <1>5 DEF Fifo!Hits
  <2>3. msg_queue' = Fifo!Without(1)
    <3>1. Fifo!Without(1) = [j \in 1..(Len(msg_queue) - 1) |-> msg_queue[j + 1]]
      BY <1>2 DEF Fifo!Without
    <3>2. Tail(msg_queue) = [j \in 1..(Len(msg_queue) - 1) |-> Tail(msg_queue)[j]]
      BY <1>3, SeqIsFunction
    <3>3. QED
      BY <1>3, <3>1, <3>2
  <2>4. Fifo!Receive(me, ty)
    BY <2>1, <2>2, <2>3 DEF Fifo!Receive
  <2>5. QED
    <3> HIDE DEF me
    <3>1. QED
      BY <1>1, <2>4 DEF Fifo!Next
<1>6. QED
  BY <1>4, <1>5

LEMMA NothingFifo ==
    ASSUME msg_queue = << >>, got' = Null, UNCHANGED msg_queue
    PROVE  Fifo!Next
<1>1. 0 \in Tasks /\ 0 \in Types
  BY Members, QueueAssumption DEF Types
<1>2. Fifo!Hits(0, 0) = {}
  BY DEF Fifo!Hits
<1>3. Fifo!ReceiveNothing(0, 0)
  BY <1>2 DEF Fifo!ReceiveNothing
<1>4. QED
  BY <1>1, <1>3 DEF Fifo!Next

LEMMA OwnerFifo ==
    ASSUME OwnerNext PROVE Fifo!Next \/ UNCHANGED <<msg_queue, got>>
<1>1. got' = got /\ (msg_queue' = << >> \/ msg_queue' = msg_queue)
  BY DEF OwnerNext, Initialise, InitNoMemory, InitTable, CleanupBegin, CleanupSlot,
     SpawnBegin, SpawnScan, SpawnNoParams, SpawnCreate, SpawnNoTask, SpawnInc,
     SpawnDone, Exit, ExitLoad, ExitStore, Sleep, SleepEnd, Load, Store, comm
<1>2. QED
  BY <1>1 DEF Fifo!Next, Fifo!Reset

LEMMA MessageFifo ==
    ASSUME SlotInv, NEW c \in Hosts, MessageNext(c)
    PROVE  Dropped \/ Fifo!Next \/ UNCHANGED <<msg_queue, got>>
<1>1. ASSUME NEW dst \in 0..Broadcast, NEW ty \in Types, Send(c, dst, ty)
      PROVE  Fifo!Next
  <2> DEFINE m == [src |-> Current(c), dst |-> dst, type |-> ty]
  <2>1. Current(c) \in Tasks
    BY CurrentIsTask DEF SlotInv, TypeOK
  <2>2. m \in Message
    BY <1>1, <2>1 DEF Send, Message
  <2>3. Fifo!Send(m)
    BY <1>1 DEF Send, Fifo!Send
  <2>4. QED
    BY <2>2, <2>3 DEF Fifo!Next
<1>2. queue_open' = queue_open
  BY DEF MessageNext, Send, SendRejected, Receive, ReceiveBlocking, Woken, TimedOut,
         locals, table, history, vars
<1>3. msg_queue # << >> => queue_open
  BY DEF SlotInv, Slots, Closed
<1>4. ASSUME NEW ty \in Types, Receive(c, ty) PROVE Dropped \/ Fifo!Next
  <2>1. CASE Take(c, ty)
    BY <1>2, <1>3, <2>1, TakeFifo DEF Take
  <2>2. CASE msg_queue = << >> /\ got' = Null /\ UNCHANGED msg_queue
    BY <2>2, NothingFifo
  <2>3. QED
    BY <1>4, <2>1, <2>2 DEF Receive
<1>5. CASE Woken(c)
  <2>1. wants[c] \in Types /\ Take(c, wants[c])
    BY <1>5 DEF Woken, SlotInv, TypeOK
  <2>2. QED
    BY <1>2, <1>3, <2>1, TakeFifo DEF Take
<1>6. CASE TimedOut(c)
  BY <1>6, NothingFifo DEF TimedOut
<1>7. CASE (\E ty \in Types : ReceiveBlocking(c, ty)) \/ UNCHANGED vars
  BY <1>7 DEF ReceiveBlocking, vars
<1>8. QED
  BY <1>1, <1>4, <1>5, <1>6, <1>7 DEF MessageNext, SendRejected

\* Whatever the other tasks are doing, the FreeRTOS queue is the selective FIFO
\* queue of the interface but for the messages it drops.
THEOREM ImplementsFifoButDrops == Spec => FifoButDrops
<1>1. Init => Fifo!Init
  BY DEF Init, Fifo!Init
<1>2. SlotInv /\ [Next]_vars => [Dropped \/ Fifo!Next]_<<msg_queue, got>>
  BY OwnerFifo, MessageFifo
  DEF Next, WrapperNext, WrapperEnter, WrapperRun, WrapperDead, WrapperLoad,
      WrapperEnd, Load, Store, comm, vars
<1>3. QED
  BY <1>1, <1>2, AlwaysSlots, PTL DEF Spec, FifoButDrops
=============================================================================
