--------------------------- MODULE FreeRtosBackend ---------------------------
(***************************************************************************)
(* The FreeRTOS task backend (src/src/task_backend_freertos.cpp).  A V4    *)
(* task is a FreeRTOS task running v4_freertos_task_wrapper, which leaves  *)
(* the V4 word out.  The backend is called by application tasks that are   *)
(* no V4 tasks: Owner, the one that owns the VM, and Hosts, which exchange *)
(* messages (the owner may be one of them).  Nothing is locked and         *)
(* FreeRTOS preempts anywhere (on ESP-IDF there are two cores), so every   *)
(* access to shared state that matters is a step; a FreeRTOS call is one.  *)
(*                                                                         *)
(* Word indices, priorities and stack sizes are handed to FreeRTOS and     *)
(* never read again; they and the payloads of messages are left out.       *)
(***************************************************************************)
EXTENDS Naturals, Sequences, FiniteSets

CONSTANTS
    MaxTasks,   \* V4_MAX_TASKS
    QSize,      \* V4_MSG_QUEUE_SIZE
    Broadcast,  \* 0xFF: a destination that is no task
    MaxType,    \* message types are 0..MaxType; 0 on a receive means any
    CountMod,   \* task_count is uint8_t: 256
    Handles,    \* the task control blocks FreeRTOS has memory for
    Owner,      \* the application task that initialises, spawns and cleans up
    Hosts,      \* the application tasks that send and receive
    Null

Tasks == 0..(MaxTasks - 1)
Types == 0..MaxType
Threads == {Owner} \cup Handles

ASSUME MaxTasksAssumption == MaxTasks \in Nat \ {0}
ASSUME QueueAssumption ==
    /\ QSize \in Nat \ {0} /\ MaxType \in Nat
    /\ Broadcast \in Nat /\ Broadcast >= MaxTasks
ASSUME CountModAssumption == CountMod \in Nat \ {0}
ASSUME ThreadsAssumption ==
    /\ IsFiniteSet(Handles)
    /\ Owner \notin Handles /\ Handles \cap Hosts = {}
    /\ Null \notin Handles \cup Types

Message == [src : Tasks, dst : Tasks \cup {Broadcast}, type : Types]

VARIABLES
    state,          \* vm->scheduler.tasks[].state
    current_task, task_count,
    task_handles,
    queue_open,     \* msg_queue is not NULL
    msg_queue,      \* its messages, oldest first
    pc,             \* by thread: the next statement
    slot, reg,      \* by thread: task_id or i, and the loaded task_count
    wants,          \* by host: the type its blocking receive waits for, or Null
    got,            \* the message of the last receive; Null if it returned 0
    leaked,         \* history: slots that lost their task without becoming DEAD
    exact           \* history: no update of task_count was torn or doubled

comm == <<queue_open, msg_queue, got, wants>>
table == <<state, current_task, task_count, task_handles>>
locals == <<pc, slot, reg>>
history == <<leaked, exact>>
vars == <<state, current_task, task_count, task_handles, queue_open, msg_queue,
          pc, slot, reg, wants, got, leaked, exact>>

WrapperPcs == {"none", "enter", "running", "dead", "load", "store"}
OwnerPcs == {"idle", "scan", "create", "inc", "incStore",
             "delay", "dec", "decStore", "cleanup", "gone"}

TypeOK ==
    /\ state \in [Tasks -> {"DEAD", "READY", "RUNNING", "BLOCKED"}]
    /\ current_task \in Tasks
    /\ task_count \in 0..(CountMod - 1)
    /\ task_handles \in [Tasks -> Handles \cup {Null}]
    /\ queue_open \in BOOLEAN
    /\ msg_queue \in Seq(Message) /\ Len(msg_queue) <= QSize
    /\ pc \in [Threads -> WrapperPcs \cup OwnerPcs]
    /\ pc[Owner] \in OwnerPcs
    /\ \A h \in Handles : pc[h] \in WrapperPcs
    /\ slot \in [Threads -> Tasks]
    /\ reg \in [Threads -> 0..(CountMod - 1)]
    /\ wants \in [Hosts -> Types \cup {Null}]
    /\ got \in Message \cup {Null}
    /\ leaked \subseteq Tasks
    /\ exact \in BOOLEAN

\* vm_create has cleared the scheduler; v4_backend_task_init was not called yet.
Init ==
    /\ state = [t \in Tasks |-> "DEAD"]
    /\ current_task = 0 /\ task_count = 0
    /\ task_handles = [t \in Tasks |-> Null]
    /\ queue_open = FALSE /\ msg_queue = << >>
    /\ pc = [p \in Threads |-> IF p = Owner THEN "idle" ELSE "none"]
    /\ slot = [p \in Threads |-> 0]
    /\ reg = [p \in Threads |-> 0]
    /\ wants = [c \in Hosts |-> Null]
    /\ got = Null
    /\ leaked = {} /\ exact = TRUE

Goto(p, l) == pc' = [pc EXCEPT ![p] = l]
\* The same at the end of an operation, when the slot is of no more use.
Done(p, l) == pc' = [pc EXCEPT ![p] = l] /\ slot' = [slot EXCEPT ![p] = 0]

\* The owner starts an operation: it is in no other one.
Free == pc[Owner] = "idle" /\ (Owner \in Hosts => wants[Owner] = Null)

-----------------------------------------------------------------------------
(* task_count++ and task_count--: a load, then a store *)

Load(p, next) ==
    /\ reg' = [reg EXCEPT ![p] = task_count]
    /\ Goto(p, next)
    /\ UNCHANGED <<table, slot, comm, history>>

\* An update is torn if somebody else stored since the load.
Store(p, value) ==
    /\ task_count' = value % CountMod
    /\ reg' = [reg EXCEPT ![p] = 0]
    /\ exact' = (exact /\ reg[p] = task_count)
    /\ UNCHANGED <<state, current_task, task_handles, slot, comm, leaked>>

-----------------------------------------------------------------------------
(* v4_backend_task_init and v4_backend_task_cleanup, by the owner *)

\* The host initialises a VM that is new or cleaned up.  Without memory for the
\* queue, msg_queue is NULL and InitNoMemory does the rest of the same.
InitTable ==
    /\ Free /\ ~queue_open
    /\ state' = [t \in Tasks |-> "DEAD"]
    /\ current_task' = 0 /\ task_count' = 0
    /\ task_handles' = [t \in Tasks |-> Null]
    /\ leaked' = {}
    /\ UNCHANGED <<locals, wants, got>>

\* A wrapper that outlived a cleanup will still decrement the new count.
Initialise ==
    /\ InitTable
    /\ queue_open' = TRUE /\ msg_queue' = << >>
    /\ exact' = \A h \in Handles : pc[h] = "none"

InitNoMemory ==
    /\ InitTable
    /\ UNCHANGED <<queue_open, msg_queue, exact>>

\* Nobody may be waiting in a queue that is deleted.
CleanupBegin ==
    /\ Free /\ queue_open
    /\ \A c \in Hosts : wants[c] = Null
    /\ Goto(Owner, "cleanup")
    /\ slot' = [slot EXCEPT ![Owner] = 0]
    /\ UNCHANGED <<table, reg, comm, history>>

\* vTaskDelete.  On a block that was given back it is undefined; here it then
\* changes nothing.
Deleted(h) == IF h = Null THEN pc ELSE [pc EXCEPT ![h] = "none"]

\* One slot: its task is deleted, whatever it is doing.  After the last slot
\* the queue is deleted and the count reset.
CleanupSlot ==
    LET i == slot[Owner] h == task_handles[i] IN
    /\ pc[Owner] = "cleanup"
    /\ state' = [state EXCEPT ![i] = "DEAD"]
    /\ task_handles' = [task_handles EXCEPT ![i] = Null]
    /\ slot' = [slot EXCEPT ![Owner] = IF i + 1 < MaxTasks THEN i + 1 ELSE 0]
    /\ leaked' = leaked \ {i}
    /\ IF i + 1 < MaxTasks
       THEN /\ pc' = Deleted(h)
            /\ UNCHANGED <<queue_open, msg_queue, task_count>>
       ELSE /\ pc' = [Deleted(h) EXCEPT ![Owner] = "idle"]
            /\ queue_open' = FALSE /\ msg_queue' = << >>
            /\ task_count' = 0
    /\ UNCHANGED <<current_task, reg, got, wants, exact>>

-----------------------------------------------------------------------------
(* v4_backend_task_spawn, by the owner *)

\* An invalid word index is refused before anything happens.
SpawnBegin ==
    /\ Free /\ queue_open
    /\ Goto(Owner, "scan")
    /\ slot' = [slot EXCEPT ![Owner] = 0]
    /\ UNCHANGED <<table, reg, comm, history>>

\* Bug: a slot counts as free when nothing runs in it.
SpawnScanIdle ==
    LET i == slot[Owner] IN
    /\ pc[Owner] = "scan"
    /\ IF state[i] # "RUNNING"
       THEN /\ state' = [state EXCEPT ![i] = "READY"]
            /\ Goto(Owner, "create")
            /\ UNCHANGED slot
       ELSE /\ Goto(Owner, IF i + 1 < MaxTasks THEN "scan" ELSE "idle")
            /\ slot' = [slot EXCEPT ![Owner] = IF i + 1 < MaxTasks THEN i + 1 ELSE 0]
            /\ UNCHANGED state
    /\ UNCHANGED <<current_task, task_count, task_handles, reg, comm, history>>

\* The search for a dead slot, which is taken as READY; TaskLimit at the end.
SpawnScan ==
    LET i == slot[Owner] IN
    /\ pc[Owner] = "scan"
    /\ IF state[i] = "DEAD"
       THEN /\ state' = [state EXCEPT ![i] = "READY"]
            /\ Goto(Owner, "create")
            /\ UNCHANGED slot
       ELSE /\ Goto(Owner, IF i + 1 < MaxTasks THEN "scan" ELSE "idle")
            /\ slot' = [slot EXCEPT ![Owner] = IF i + 1 < MaxTasks THEN i + 1 ELSE 0]
            /\ UNCHANGED state
    /\ UNCHANGED <<current_task, task_count, task_handles, reg, comm, history>>

\* pvPortMalloc fails: NoMemory, but the slot was already taken and stays READY.
SpawnNoParams ==
    /\ pc[Owner] = "create"
    /\ Done(Owner, "idle")
    /\ leaked' = leaked \cup {slot[Owner]}
    /\ UNCHANGED <<table, reg, comm, exact>>

\* Bug: the handle is not stored.
SpawnCreateLost ==
    \E h \in Handles :
        /\ pc[Owner] = "create" /\ pc[h] = "none"
        /\ slot' = [slot EXCEPT ![h] = slot[Owner], ![Owner] = 0]
        /\ pc' = [pc EXCEPT ![Owner] = "inc", ![h] = "enter"]
        /\ UNCHANGED <<table, reg, comm, history>>

\* xTaskCreate stores the handle and makes the task ready: it may run before
\* the spawn goes on.
SpawnCreate ==
    \E h \in Handles :
        /\ pc[Owner] = "create" /\ pc[h] = "none"
        /\ task_handles' = [task_handles EXCEPT ![slot[Owner]] = h]
        /\ slot' = [slot EXCEPT ![h] = slot[Owner], ![Owner] = 0]
        /\ pc' = [pc EXCEPT ![Owner] = "inc", ![h] = "enter"]
        /\ UNCHANGED <<state, current_task, task_count, reg, comm, history>>

\* Bug: the slot is not given back.
SpawnNoTaskKept ==
    /\ pc[Owner] = "create"
    /\ Goto(Owner, "idle")
    /\ UNCHANGED <<table, slot, reg, comm, history>>

\* FreeRTOS has no memory for the task: the slot is given back.
SpawnNoTask ==
    /\ pc[Owner] = "create"
    /\ Done(Owner, "idle")
    /\ state' = [state EXCEPT ![slot[Owner]] = "DEAD"]
    /\ UNCHANGED <<current_task, task_count, task_handles, reg, comm, history>>

SpawnInc == pc[Owner] = "inc" /\ Load(Owner, "incStore")

SpawnDone ==
    /\ pc[Owner] = "incStore"
    /\ Store(Owner, reg[Owner] + 1)
    /\ Goto(Owner, "idle")

-----------------------------------------------------------------------------
(* v4_freertos_task_wrapper, as task h *)

WrapperEnter(h) ==
    /\ pc[h] = "enter"
    /\ current_task' = slot[h]
    /\ Goto(h, "running")
    /\ UNCHANGED <<state, task_count, task_handles, slot, reg, comm, history>>

\* The word would be executed after this step.
WrapperRun(h) ==
    /\ pc[h] = "running"
    /\ state' = [state EXCEPT ![slot[h]] = "RUNNING"]
    /\ Goto(h, "dead")
    /\ UNCHANGED <<current_task, task_count, task_handles, slot, reg, comm,
                   history>>

WrapperDead(h) ==
    /\ pc[h] = "dead"
    /\ state' = [state EXCEPT ![slot[h]] = "DEAD"]
    /\ leaked' = leaked \ {slot[h]}
    /\ Done(h, "load")
    /\ UNCHANGED <<current_task, task_count, task_handles, reg, comm, exact>>

WrapperLoad(h) == pc[h] = "load" /\ Load(h, "store")

\* Bug: the count is not decremented.
WrapperUncounted(h) ==
    /\ pc[h] = "store"
    /\ Store(h, reg[h])
    /\ Goto(h, "none")

\* vTaskDelete(NULL) follows; task_handles keeps the handle.
WrapperEnd(h) ==
    /\ pc[h] = "store"
    /\ Store(h, reg[h] + CountMod - 1)
    /\ Goto(h, "none")

-----------------------------------------------------------------------------
(* v4_backend_task_exit and v4_backend_task_sleep: they act on current_task, *)
(* the last wrapper that started, and on the calling FreeRTOS task.          *)

Exit ==
    /\ Free /\ queue_open
    /\ slot' = [slot EXCEPT ![Owner] = current_task]
    /\ state' = [state EXCEPT ![current_task] = "DEAD"]
    /\ leaked' = leaked \ {current_task}
    /\ Goto(Owner, "dec")
    /\ UNCHANGED <<current_task, task_count, task_handles, reg, comm, exact>>

ExitLoad == pc[Owner] = "dec" /\ Load(Owner, "decStore")

\* A count for a task that its wrapper counts off as well.  Then, if the slot
\* has a handle, vTaskDelete(NULL) deletes the owner itself.
ExitStore ==
    LET t == slot[Owner] IN
    /\ pc[Owner] = "decStore"
    /\ task_count' = (reg[Owner] + CountMod - 1) % CountMod
    /\ task_handles' = [task_handles EXCEPT ![t] = Null]
    /\ Done(Owner, IF task_handles[t] # Null THEN "gone" ELSE "idle")
    /\ reg' = [reg EXCEPT ![Owner] = 0]
    /\ exact' = FALSE
    /\ UNCHANGED <<state, current_task, comm, leaked>>

Sleep ==
    /\ Free /\ queue_open
    /\ slot' = [slot EXCEPT ![Owner] = current_task]
    /\ state' = [state EXCEPT ![current_task] = "BLOCKED"]
    /\ leaked' = leaked \cup {current_task}
    /\ Goto(Owner, "delay")
    /\ UNCHANGED <<current_task, task_count, task_handles, reg, comm, exact>>

\* The slot reads READY, although its task may have ended meanwhile.
SleepEnd ==
    /\ pc[Owner] = "delay"
    /\ state' = [state EXCEPT ![slot[Owner]] = "READY"]
    /\ leaked' = leaked \cup {slot[Owner]}
    /\ Done(Owner, "idle")
    /\ UNCHANGED <<current_task, task_count, task_handles, reg, comm, exact>>

-----------------------------------------------------------------------------
(* Messages, by any host *)

\* v4_backend_task_current: a caller that is in no slot passes for task 0.
Current(caller) ==
    IF \E t \in Tasks : task_handles[t] = caller
    THEN CHOOSE t \in Tasks :
            /\ task_handles[t] = caller
            /\ \A u \in Tasks : u < t => task_handles[u] # caller
    ELSE 0

\* The test both receives make on the message they took out.
Matches(m, me, ty) ==
    /\ m.dst = me \/ m.dst = Broadcast
    /\ ty = 0 \/ m.type = ty

\* A host in no other operation of the backend.
Ready(c) == wants[c] = Null /\ (c = Owner => pc[Owner] = "idle")

\* v4_backend_task_send.  InvalidArg and MsgQueueFull change nothing.
Send(c, dst, ty) ==
    LET m == [src |-> Current(c), dst |-> dst, type |-> ty]
    IN /\ Ready(c) /\ queue_open
       /\ dst \in Tasks \/ dst = Broadcast
       /\ Len(msg_queue) < QSize
       /\ msg_queue' = Append(msg_queue, m)
       /\ UNCHANGED <<table, locals, queue_open, wants, got, history>>

SendRejected(c, dst) ==
    /\ Ready(c)
    /\ \/ ~queue_open
       \/ dst >= MaxTasks /\ dst # Broadcast
       \/ Len(msg_queue) >= QSize
    /\ UNCHANGED vars

\* Bug: a message that does not match goes to the end of the queue.
TakePutBack(c, ty) ==
    /\ msg_queue # << >>
    /\ LET m == Head(msg_queue) IN
       IF Matches(m, Current(c), ty)
       THEN got' = m /\ msg_queue' = Tail(msg_queue)
       ELSE got' = Null /\ msg_queue' = Append(Tail(msg_queue), m)

\* xQueueReceive takes the head; if it does not match it is gone.
Take(c, ty) ==
    /\ msg_queue # << >>
    /\ got' = IF Matches(Head(msg_queue), Current(c), ty)
              THEN Head(msg_queue) ELSE Null
    /\ msg_queue' = Tail(msg_queue)

\* v4_backend_task_receive; without a queue it finds nothing.
Receive(c, ty) ==
    /\ Ready(c)
    /\ \/ Take(c, ty)
       \/ msg_queue = << >> /\ got' = Null /\ UNCHANGED msg_queue
    /\ UNCHANGED <<table, locals, queue_open, wants, history>>

\* v4_backend_task_receive_blocking: the caller waits in xQueueReceive.
ReceiveBlocking(c, ty) ==
    /\ Ready(c) /\ queue_open
    /\ wants' = [wants EXCEPT ![c] = ty]
    /\ UNCHANGED <<table, locals, queue_open, msg_queue, got, history>>

\* The first message that comes ends the wait, whoever it is for.
Woken(c) ==
    /\ wants[c] # Null
    /\ Take(c, wants[c])
    /\ wants' = [wants EXCEPT ![c] = Null]
    /\ UNCHANGED <<table, locals, queue_open, history>>

\* A wait with a timeout may also end on an empty queue.
TimedOut(c) ==
    /\ wants[c] # Null /\ msg_queue = << >>
    /\ got' = Null
    /\ wants' = [wants EXCEPT ![c] = Null]
    /\ UNCHANGED <<table, locals, queue_open, msg_queue, history>>

-----------------------------------------------------------------------------
OwnerNext ==
    \/ Initialise \/ InitNoMemory \/ CleanupBegin \/ CleanupSlot
    \/ SpawnBegin \/ SpawnScan \/ SpawnNoParams
    \/ SpawnCreate \/ SpawnNoTask \/ SpawnInc \/ SpawnDone
    \/ Exit \/ ExitLoad \/ ExitStore
    \/ Sleep \/ SleepEnd

WrapperNext(h) ==
    WrapperEnter(h) \/ WrapperRun(h) \/ WrapperDead(h) \/ WrapperLoad(h)
    \/ WrapperEnd(h)

MessageNext(c) ==
    \/ \E dst \in 0..Broadcast, ty \in Types : Send(c, dst, ty)
    \/ \E dst \in 0..Broadcast : SendRejected(c, dst)
    \/ \E ty \in Types : Receive(c, ty) \/ ReceiveBlocking(c, ty)
    \/ Woken(c) \/ TimedOut(c)

Next ==
    \/ OwnerNext
    \/ \E h \in Handles : WrapperNext(h)
    \/ \E c \in Hosts : MessageNext(c)

Spec == Init /\ [][Next]_vars

-----------------------------------------------------------------------------
\* Wrapper h has yet to write its slot's state.
Writes(h) == pc[h] \in {"enter", "running", "dead"}

\* A slot has at most one FreeRTOS task that still writes its state, and none
\* while a spawn holds the slot: a late wrapper never overwrites the state of
\* its successor.
OneWriter ==
    \A h \in Handles : Writes(h) =>
        /\ \A g \in Handles \ {h} : Writes(g) => slot[g] # slot[h]
        /\ pc[Owner] = "create" => slot[Owner] # slot[h]

\* Every slot that is not DEAD has a task on its way to mark it DEAD, or a spawn
\* is at work on it; but for the slots lost to a failed malloc or to a sleep.
SlotsAccounted ==
    \A t \in Tasks \ leaked :
        state[t] # "DEAD" /\ pc[Owner] # "cleanup" =>
            \/ \E h \in Handles : Writes(h) /\ slot[h] = t
            \/ pc[Owner] = "create" /\ slot[Owner] = t

\* "Delete all FreeRTOS tasks": after a cleanup no wrapper is left that would
\* still enter the scheduler or write a slot, whatever the others were doing
\* while the slots were cleared one by one.
CleanupStops ==
    ~queue_open => \A h \in Handles : ~Writes(h)

\* The wrappers that have not counted themselves off, less the one the owner
\* has not counted yet.
CountBalance ==
    Cardinality({h \in Handles : pc[h] # "none"})
        + CountMod - (IF pc[Owner] \in {"inc", "incStore"} THEN 1 ELSE 0)

\* task_count is the number of tasks, even when a wrapper ends before its spawn
\* counted it: only torn updates, an exit by the host or a wrapper that
\* outlived a cleanup make it wrong.
CountExact ==
    queue_open /\ exact /\ pc[Owner] # "cleanup" =>
        task_count = CountBalance % CountMod

Fifo == INSTANCE MsgQueueFifo
            WITH pending <- msg_queue, Nothing <- Null

\* A message was taken out and given to nobody.
Dropped == msg_queue' # msg_queue /\ Len(msg_queue') < Len(msg_queue)
               /\ got' = Null /\ queue_open'

\* Both backends have one interface: but for the messages it drops, this one
\* also is the queue that MsgQueueFifo describes.
FifoButDrops ==
    Fifo!Init /\ [][Dropped \/ Fifo!Next]_<<msg_queue, got>>
=============================================================================
