------------------------------ MODULE MsgQueue ------------------------------
(***************************************************************************)
(* The inter-task message queue of the custom task backend                 *)
(* (src/src/task_backend_custom.cpp, v4_msg_queue_t): one ring buffer      *)
(* shared by all tasks, with selective receive.                            *)
(*                                                                         *)
(* A payload is abstracted to the number of the send that wrote it (0 for  *)
(* a slot that memset cleared), so that two messages are never confused.   *)
(* The reserved byte "flags", always 0, is left out.                       *)
(***************************************************************************)
EXTENDS Naturals, Sequences

CONSTANTS
    QSize,      \* V4_MSG_QUEUE_SIZE
    MaxTasks,   \* V4_MAX_TASKS
    Broadcast,  \* 0xFF: a destination that is no task
    MaxType,    \* message types are 0..MaxType; 0 on a receive means any
    MaxSends    \* bound: sends accepted between two resets

Tasks == 0..(MaxTasks - 1)
Types == 0..MaxType
Slots == 0..(QSize - 1)

ASSUME QSizeAssumption == QSize \in Nat \ {0}
ASSUME MaxTasksAssumption == MaxTasks \in Nat \ {0}
ASSUME BroadcastAssumption == Broadcast \in Nat /\ Broadcast >= MaxTasks
ASSUME MaxTypeAssumption == MaxType \in Nat
ASSUME MaxSendsAssumption == MaxSends \in Nat

Message == [src : Tasks, dst : Tasks \cup {Broadcast}, type : Types,
            data : 0..MaxSends]

\* A slot after memset: it reads as a message from task 0 to task 0.
ZeroMessage == [src |-> 0, dst |-> 0, type |-> 0, data |-> 0]

VARIABLES
    queue,      \* the slots of the ring
    read_idx,
    write_idx,
    count,
    got,        \* out-parameters of the last receive; ZeroMessage if it returned 0
    log,        \* history: the messages accepted since the last reset
    taken       \* history: the payloads received since the last reset

ring == <<queue, read_idx, write_idx, count>>
vars == <<queue, read_idx, write_idx, count, got, log, taken>>

TypeOK ==
    /\ queue \in [Slots -> Message]
    /\ read_idx \in Slots
    /\ write_idx \in Slots
    /\ count \in 0..QSize
    /\ got \in Message
    /\ log \in Seq(Message)
    /\ taken \in Seq(0..MaxSends)

ClearedSlots == [s \in Slots |-> ZeroMessage]

Init ==
    /\ queue = ClearedSlots
    /\ read_idx = 0 /\ write_idx = 0 /\ count = 0
    /\ got = ZeroMessage
    /\ log = << >> /\ taken = << >>

\* The slot a scan of the queue visits in its i-th iteration, i < count.
SlotOf(i) == (read_idx + i) % QSize

\* Bug: the destination is not looked at.
MatchesAnyone(m, me, ty) == ty = 0 \/ m.type = ty

\* The test v4_backend_task_receive makes on each message.
Matches(m, me, ty) ==
    /\ m.dst = me \/ m.dst = Broadcast
    /\ ty = 0 \/ m.type = ty

(***************************************************************************)
(* v4_backend_task_send.  InvalidArg and MsgQueueFull return before        *)
(* anything is written.                                                    *)
(***************************************************************************)
SendRejected(dst) ==
    /\ (dst >= MaxTasks /\ dst # Broadcast) \/ count >= QSize
    /\ UNCHANGED vars

Send(me, dst, ty) ==
    LET m == [src |-> me, dst |-> dst, type |-> ty, data |-> Len(log) + 1] IN
    /\ dst \in Tasks \/ dst = Broadcast
    /\ count < QSize
    /\ Len(log) < MaxSends
    /\ queue' = [queue EXCEPT ![write_idx] = m]
    /\ write_idx' = (write_idx + 1) % QSize
    /\ count' = count + 1
    /\ log' = Append(log, m)
    /\ UNCHANGED <<read_idx, got, taken>>

(***************************************************************************)
(* v4_backend_task_receive: the first match in scan order is copied out    *)
(* and the messages behind it move one slot down.                          *)
(***************************************************************************)
Hits(me, ty) == {i \in 0..(count - 1) : Matches(queue[SlotOf(i)], me, ty)}

\* Bug: the shift loop stops one message early.
ShiftedShort(i) ==
    [s \in Slots |->
        IF \E j \in i..(count - 3) : s = SlotOf(j)
        THEN queue[(s + 1) % QSize]
        ELSE queue[s]]

\* Bug: the shift loop runs one message too far.
ShiftedLong(i) ==
    [s \in Slots |->
        IF \E j \in i..(count - 1) : s = SlotOf(j)
        THEN queue[(s + 1) % QSize]
        ELSE queue[s]]

\* The ring after the shift loop for a match in iteration i.  The window is
\* at most QSize long, so no slot is read after it was overwritten.
Shifted(i) ==
    [s \in Slots |->
        IF \E j \in i..(count - 2) : s = SlotOf(j)
        THEN queue[(s + 1) % QSize]
        ELSE queue[s]]

\* Bug: the scan does not stop at the first match.
ReceiveNewest(me, ty) ==
    \E i \in Hits(me, ty) :
        /\ \A h \in Hits(me, ty) : i >= h
        /\ got' = queue[SlotOf(i)]
        /\ queue' = Shifted(i)
        /\ count' = count - 1
        /\ taken' = Append(taken, queue[SlotOf(i)].data)
        /\ UNCHANGED <<read_idx, write_idx, log>>

Receive(me, ty) ==
    \E i \in Hits(me, ty) :
        /\ \A h \in Hits(me, ty) : i <= h
        /\ got' = queue[SlotOf(i)]
        /\ queue' = Shifted(i)
        /\ count' = count - 1
        /\ taken' = Append(taken, queue[SlotOf(i)].data)
        /\ UNCHANGED <<read_idx, write_idx, log>>

ReceiveNothing(me, ty) ==
    /\ Hits(me, ty) = {}
    /\ got' = ZeroMessage
    /\ UNCHANGED <<ring, log, taken>>

\* The memset of vm_task_init and vm_task_cleanup.
Reset ==
    /\ queue' = ClearedSlots
    /\ read_idx' = 0 /\ write_idx' = 0 /\ count' = 0
    /\ log' = << >> /\ taken' = << >>
    /\ UNCHANGED got

Next ==
    \/ \E me \in Tasks, dst \in 0..Broadcast, ty \in Types : Send(me, dst, ty)
    \/ \E dst \in 0..Broadcast : SendRejected(dst)
    \/ \E me \in Tasks, ty \in Types : Receive(me, ty) \/ ReceiveNothing(me, ty)
    \/ Reset

Spec == Init /\ [][Next]_vars

-----------------------------------------------------------------------------
(***************************************************************************)
(* Clients that send only while the write index is where the window ends.  *)
(* The ring keeps read_idx and moves messages down on a receive, but does  *)
(* not move write_idx back, so this is a real restriction: after r         *)
(* receives it holds exactly when r is a multiple of QSize.                *)
(***************************************************************************)
InSync == write_idx = (read_idx + count) % QSize

InSyncNext ==
    \/ /\ InSync
       /\ \E me \in Tasks, dst \in 0..Broadcast, ty \in Types : Send(me, dst, ty)
    \/ \E dst \in 0..Broadcast : SendRejected(dst)
    \/ \E me \in Tasks, ty \in Types : Receive(me, ty) \/ ReceiveNothing(me, ty)
    \/ Reset

InSyncSpec == Init /\ [][InSyncNext]_vars

\* What a scan of the ring sees, oldest first.
Window == [k \in 1..count |-> queue[SlotOf(k - 1)]]

Fifo == INSTANCE MsgQueueFifo
            WITH pending <- Window, Nothing <- ZeroMessage

\* In-sync clients get a FIFO queue with selective receive: the shift loop,
\* the wrap of the indices and the full test implement MsgQueueFifo.
FifoSpec == Fifo!Spec

\* A send while the write index is not where the window ends.
OutOfSyncSend == ~InSync /\ count' = count + 1

\* The same for all clients: whatever happened before, the only calls that do
\* not do what MsgQueueFifo says are the sends out of sync.
FifoInSync == Fifo!Init /\ [][OutOfSyncSend \/ [Fifo!Next]_Fifo!vars]_vars

-----------------------------------------------------------------------------
\* A scan only ever sees messages that some task sent since the last reset,
\* unchanged: never a cleared slot (which would look like a message from task
\* 0), never a half-moved one.  This holds for every client.
NoPhantom ==
    \A i \in 0..(count - 1) :
        LET m == queue[SlotOf(i)] IN
        m.data \in 1..Len(log) /\ m = log[m.data]

\* Every accepted send allows exactly one successful receive: what has been
\* received and what count says is waiting add up to what was sent.
SendsMatchReceives == Len(taken) + count = Len(log)

\* The places in the window of the messages addressed to task t alone.
Posts(t) == {k \in 1..count : Window[k].dst = t}

\* A receive by one task loses, adds or changes none of the messages addressed
\* to another task alone and lets none overtake another, whatever slots the
\* shift loop moves them to.
OthersUndisturbed ==
    [][\A me \in Tasks, ty \in Types :
          Receive(me, ty) =>
              \A t \in Tasks \ {me} : \E moved \in [Posts(t) -> Posts(t)'] :
                  /\ \A k \in Posts(t) : Window'[moved[k]] = Window[k]
                  /\ \A j, k \in Posts(t) : j < k => moved[j] < moved[k]
                  /\ \A k \in Posts(t)' : \E j \in Posts(t) : moved[j] = k]_vars

\* A received message is gone: no payload is handed out twice ("Remove message
\* from queue by shifting").  The code breaks this when a send follows a receive.
DeliveredOnce ==
    \A j, k \in 1..Len(taken) : taken[j] = taken[k] => j = k
=============================================================================
