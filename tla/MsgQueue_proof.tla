--------------------------- MODULE MsgQueue_proof ---------------------------
(***************************************************************************)
(* Proofs about MsgQueue, for every queue size, number of tasks, number of *)
(* types and number of sends.                                              *)
(***************************************************************************)
EXTENDS MsgQueue, TLAPS

USE DEF Tasks, Types, Slots

\* An index inside the ring is its own remainder.
LEMMA SmallMod == \A a \in Nat : a < QSize => a % QSize = a
BY QSizeAssumption

\* A remainder is an index inside the ring.
LEMMA ModInRing == \A a \in Nat : a % QSize \in Slots
BY QSizeAssumption

\* Shifting keeps the slots typed.
LEMMA ShiftedType ==
    ASSUME TypeOK, NEW i \in 0..(count - 1)
    PROVE  Shifted(i) \in [Slots -> Message]
<1>1. \A s \in Slots : (s + 1) % QSize \in Slots
  BY ModInRing, QSizeAssumption
<1> QED
  BY <1>1 DEF TypeOK, Shifted

\* read_idx never leaves 0, so the window is the first count slots.
LEMMA WindowSlot ==
    ASSUME TypeOK, read_idx = 0, NEW i \in 0..(count - 1)
    PROVE  SlotOf(i) = i /\ i \in Slots
<1>1. i \in Nat /\ i < QSize /\ read_idx + i = i
  BY QSizeAssumption DEF TypeOK
<1>2. SlotOf(i) = i
  BY <1>1, SmallMod, Zenon DEF SlotOf
<1> QED
  BY <1>1, <1>2, QSizeAssumption

\* The cleared queue is typed.
LEMMA InitTypeOK == Init => TypeOK
<1>1. ZeroMessage \in Message
  BY MaxTasksAssumption, MaxTypeAssumption, MaxSendsAssumption
  DEF ZeroMessage, Message
<1> QED
  BY <1>1, QSizeAssumption DEF Init, TypeOK, ClearedSlots

\* Every call keeps the queue typed.
LEMMA TypeStep == TypeOK /\ [Next]_vars => TypeOK'
<1> USE QSizeAssumption, MaxTasksAssumption, BroadcastAssumption,
        MaxTypeAssumption, MaxSendsAssumption
<1>0. ZeroMessage \in Message
  BY DEF ZeroMessage, Message
<1> SUFFICES ASSUME TypeOK, [Next]_vars PROVE TypeOK'
  OBVIOUS
<1>1. ASSUME NEW me \in Tasks, NEW dst \in 0..Broadcast, NEW ty \in Types,
             Send(me, dst, ty)
      PROVE  TypeOK'
  <2> DEFINE m == [src |-> me, dst |-> dst, type |-> ty, data |-> Len(log) + 1]
  <2>0. dst \in Tasks \cup {Broadcast} /\ Len(log) + 1 \in 0..MaxSends
    BY <1>1 DEF Send, TypeOK
  <2>1. m \in Message
    BY <2>0 DEF Message
  <2>2. (write_idx + 1) % QSize \in Slots
    <3>1. write_idx + 1 \in Nat
      BY DEF TypeOK
    <3> QED
      BY <3>1, ModInRing, Zenon
  <2>3. queue' \in [Slots -> Message] /\ log' \in Seq(Message)
    BY <1>1, <2>1 DEF Send, TypeOK
  <2> QED
    BY <1>1, <2>2, <2>3 DEF Send, TypeOK
<1>2. ASSUME NEW me \in Tasks, NEW ty \in Types, Receive(me, ty)
      PROVE  TypeOK'
  <2>1. PICK i \in Hits(me, ty) :
          /\ got' = queue[SlotOf(i)]
          /\ queue' = Shifted(i)
          /\ count' = count - 1
          /\ taken' = Append(taken, queue[SlotOf(i)].data)
          /\ UNCHANGED <<read_idx, write_idx, log>>
    BY <1>2 DEF Receive
  <2>2. i \in 0..(count - 1) /\ SlotOf(i) \in Slots
    <3>1. i \in 0..(count - 1) /\ read_idx + i \in Nat
      BY DEF Hits, TypeOK
    <3> QED
      BY <3>1, ModInRing, Zenon DEF SlotOf
  <2>3. queue[SlotOf(i)] \in Message /\ queue[SlotOf(i)].data \in 0..MaxSends
    BY <2>2 DEF TypeOK, Message
  <2> QED
    BY <2>1, <2>2, <2>3, ShiftedType DEF TypeOK
<1>3. ASSUME NEW me \in Tasks, NEW ty \in Types, ReceiveNothing(me, ty)
      PROVE  TypeOK'
  BY <1>3, <1>0 DEF ReceiveNothing, TypeOK, ring
<1>4. CASE Reset
  BY <1>4, <1>0 DEF Reset, TypeOK, ClearedSlots
<1>5. CASE UNCHANGED vars
  BY <1>5 DEF vars, TypeOK
<1> QED
  BY <1>1, <1>2, <1>3, <1>4, <1>5 DEF Next, SendRejected

(***************************************************************************)
(* Type correctness of the queue under every sequence of calls: the        *)
(* indices stay inside the array and count never leaves 0..QSize.          *)
(***************************************************************************)
THEOREM TypeCorrect == Spec => []TypeOK
BY InitTypeOK, TypeStep, PTL DEF Spec

-----------------------------------------------------------------------------
(***************************************************************************)
(* The inductive invariant behind NoPhantom.  The window is 0..count-1     *)
(* because read_idx never moves, and the slots that were ever written are  *)
(* a prefix of the ring as long as the number of accepted sends; since     *)
(* count cannot exceed that number, the window never reaches a cleared     *)
(* slot, however far write_idx has run ahead of the window.                *)
(***************************************************************************)
Genuine(m) == m.data \in 1..Len(log) /\ m = log[m.data]

IInv ==
    /\ TypeOK
    /\ read_idx = 0
    /\ Len(log) < QSize => write_idx = Len(log)
    /\ SendsMatchReceives
    /\ \A s \in Slots : s < Len(log) => Genuine(queue[s])

LEMMA IInvInit == Init => IInv
<1> SUFFICES ASSUME Init PROVE IInv
  OBVIOUS
<1>1. TypeOK
  BY InitTypeOK
<1>2. Len(log) = 0 /\ Len(taken) = 0
  BY DEF Init
<1> QED
  BY <1>1, <1>2, QSizeAssumption DEF Init, IInv, SendsMatchReceives

\* Every call keeps the invariant.
LEMMA IInvStep == IInv /\ [Next]_vars => IInv'
<1> USE QSizeAssumption
<1> SUFFICES ASSUME IInv, [Next]_vars PROVE IInv'
  OBVIOUS
<1>0. TypeOK /\ TypeOK'
  BY TypeStep DEF IInv
<1>1. ASSUME NEW me \in Tasks, NEW dst \in 0..Broadcast, NEW ty \in Types,
             Send(me, dst, ty)
      PROVE  IInv'
  <2> DEFINE m == [src |-> me, dst |-> dst, type |-> ty, data |-> Len(log) + 1]
  <2>1. /\ queue' = [queue EXCEPT ![write_idx] = m]
        /\ write_idx' = (write_idx + 1) % QSize
        /\ count' = count + 1
        /\ log' = Append(log, m)
        /\ UNCHANGED <<read_idx, taken>>
    BY <1>1 DEF Send
  <2>2. Len(log) \in Nat /\ Len(log') = Len(log) + 1
    BY <1>0, <2>1 DEF TypeOK
  <2>3. Len(log') < QSize => write_idx' = Len(log')
    BY <2>1, <2>2, SmallMod DEF IInv
  <2>4. SendsMatchReceives'
    BY <1>0, <2>1, <2>2 DEF IInv, SendsMatchReceives, TypeOK
  <2>5. log'[Len(log) + 1] = m /\ \A k \in 1..Len(log) : log'[k] = log[k]
    BY <1>0, <2>1 DEF TypeOK
  <2>6. ASSUME NEW s \in Slots, s < Len(log') PROVE Genuine(queue[s])'
    <3>1. CASE s = write_idx
      <4>1. queue'[s] = m
        BY <1>0, <2>1, <3>1 DEF TypeOK
      <4> QED
        BY <2>2, <2>5, <4>1 DEF Genuine
    <3>2. CASE s # write_idx
      <4>1. s < Len(log)
        BY <2>2, <2>6, <3>2 DEF IInv
      <4>2. queue'[s] = queue[s]
        BY <1>0, <2>1, <3>2 DEF TypeOK
      <4>3. Genuine(queue[s])
        BY <4>1 DEF IInv
      <4> QED
        BY <2>2, <2>5, <4>2, <4>3 DEF Genuine
    <3> QED
      BY <3>1, <3>2
  <2> QED
    BY <1>0, <2>1, <2>3, <2>4, <2>6 DEF IInv
<1>2. ASSUME NEW me \in Tasks, NEW ty \in Types, Receive(me, ty)
      PROVE  IInv'
  <2>1. PICK i \in Hits(me, ty) :
          /\ queue' = Shifted(i)
          /\ count' = count - 1
          /\ taken' = Append(taken, queue[SlotOf(i)].data)
          /\ UNCHANGED <<read_idx, write_idx, log>>
    BY <1>2 DEF Receive
  <2>2. count \in Nat /\ Len(log) \in Nat /\ Len(taken) \in Nat
        /\ Len(taken') = Len(taken) + 1
    BY <1>0, <2>1 DEF TypeOK
  <2>3. SendsMatchReceives'
    BY <2>1, <2>2 DEF IInv, SendsMatchReceives
  <2>4. ASSUME NEW s \in Slots, s < Len(log) PROVE Genuine(queue'[s])
    <3>1. CASE \E j \in i..(count - 2) : s = SlotOf(j)
      <4>1. PICK j \in i..(count - 2) : s = SlotOf(j)
        BY <3>1
      <4>2. i \in Nat /\ j \in Nat /\ j < count - 1 /\ count <= QSize
        BY <1>0, <4>1 DEF Hits, TypeOK
      <4>3. s = j /\ (s + 1) % QSize = s + 1
        <5>1. j \in 0..(count - 1) /\ j + 1 \in 0..(count - 1)
          BY <2>2, <4>2
        <5>2. SlotOf(j) = j
          BY <1>0, <5>1, WindowSlot DEF IInv
        <5>3. j + 1 \in Nat /\ j + 1 < QSize
          BY <1>0, <4>2 DEF TypeOK
        <5> QED
          BY <4>1, <5>2, <5>3, SmallMod, Zenon
      <4>4. queue'[s] = queue[s + 1]
        BY <2>1, <3>1, <4>3 DEF Shifted
      <4>5. s + 1 \in Slots /\ s + 1 < Len(log)
        BY <2>2, <4>2, <4>3 DEF IInv, SendsMatchReceives
      <4> QED
        BY <4>4, <4>5 DEF IInv
    <3>2. CASE ~ \E j \in i..(count - 2) : s = SlotOf(j)
      <4>1. queue'[s] = queue[s]
        BY <2>1, <3>2 DEF Shifted
      <4> QED
        BY <2>4, <4>1 DEF IInv
    <3> QED
      BY <3>1, <3>2
  <2> QED
    BY <1>0, <2>1, <2>3, <2>4 DEF IInv, Genuine
<1>3. ASSUME NEW me \in Tasks, NEW ty \in Types, ReceiveNothing(me, ty)
      PROVE  IInv'
  BY <1>0, <1>3 DEF ReceiveNothing, ring, IInv, SendsMatchReceives, Genuine
<1>4. CASE Reset
  <2>1. Len(log') = 0 /\ Len(taken') = 0
    BY <1>4 DEF Reset
  <2> QED
    BY <1>0, <1>4, <2>1 DEF Reset, IInv, SendsMatchReceives
<1>5. CASE UNCHANGED vars
  BY <1>0, <1>5 DEF vars, IInv, SendsMatchReceives, Genuine
<1> QED
  BY <1>1, <1>2, <1>3, <1>4, <1>5 DEF Next, SendRejected

\* Every call sequence keeps the inductive invariant.
LEMMA Inductive == Spec => []IInv
BY IInvInit, IInvStep, PTL DEF Spec

\* What a scan sees was sent: the window lies in the slots that were written.
LEMMA GenuineWindow == IInv => NoPhantom
<1> SUFFICES ASSUME IInv, NEW i \in 0..(count - 1)
             PROVE  Genuine(queue[SlotOf(i)])
  BY DEF NoPhantom, Genuine
<1>1. /\ count \in 0..QSize /\ Len(log) \in Nat /\ Len(taken) \in Nat
      /\ Len(taken) + count = Len(log)
  BY DEF IInv, TypeOK, SendsMatchReceives
<1>2. SlotOf(i) = i
  BY WindowSlot DEF IInv
<1>3. i \in Slots /\ i < Len(log)
  BY <1>1, QSizeAssumption
<1> QED
  BY <1>2, <1>3 DEF IInv

(***************************************************************************)
(* A receive never hands out a slot that no send wrote, and never a        *)
(* message that differs from what was sent: for every queue size and every *)
(* sequence of sends, receives and resets.                                 *)
(***************************************************************************)
THEOREM NeverPhantom == Spec => []NoPhantom
BY GenuineWindow, Inductive, PTL

(***************************************************************************)
(* Accepted sends, successful receives and count always balance.           *)
(***************************************************************************)
THEOREM ReceivesBalance == Spec => []SendsMatchReceives
<1>1. IInv => SendsMatchReceives
  BY DEF IInv
<1> QED
  BY <1>1, Inductive, PTL
-----------------------------------------------------------------------------
(***************************************************************************)
(* With in-sync clients the ring implements MsgQueueFifo.  The refinement  *)
(* mapping is the window; the steps below are the ones that change it.     *)
(***************************************************************************)
PlainWindow ==
    /\ Window = [k \in 1..count |-> queue[k - 1]]
    /\ Len(Window) = count

\* Since read_idx is 0, the window needs no modulo.
LEMMA WindowAt == IInv => PlainWindow
<1> SUFFICES ASSUME IInv PROVE PlainWindow
  OBVIOUS
<1>0. TypeOK /\ read_idx = 0
  BY DEF IInv
<1>1. \A k \in 1..count : SlotOf(k - 1) = k - 1
  <2> SUFFICES ASSUME NEW k \in 1..count PROVE SlotOf(k - 1) = k - 1
    OBVIOUS
  <2>1. k - 1 \in 0..(count - 1)
    BY <1>0 DEF TypeOK
  <2> QED
    BY <1>0, <2>1, WindowSlot
<1>2. Window = [k \in 1..count |-> queue[k - 1]]
  BY <1>1 DEF Window
<1> QED
  BY <1>0, <1>2 DEF PlainWindow, TypeOK

\* An in-sync send appends to the window.
LEMMA SendRefines ==
    ASSUME IInv, IInv', InSync, NEW me \in Tasks, NEW dst \in 0..Broadcast,
           NEW ty \in Types, Send(me, dst, ty)
    PROVE  \E m \in Message : m.data = Len(log) + 1 /\ Fifo!Send(m)
<1> USE QSizeAssumption
<1> DEFINE m == [src |-> me, dst |-> dst, type |-> ty, data |-> Len(log) + 1]
<1>1. /\ queue' = [queue EXCEPT ![write_idx] = m]
      /\ count' = count + 1 /\ count < QSize /\ UNCHANGED got
  BY DEF Send
<1>2. count \in Nat /\ queue \in [Slots -> Message]
  BY DEF IInv, TypeOK
<1>3. write_idx = count
  <2>1. read_idx + count = count
    BY <1>2 DEF IInv
  <2> QED
    BY <1>1, <1>2, <2>1, SmallMod, Zenon DEF InSync
<1>4. /\ Window = [k \in 1..count |-> queue[k - 1]]
      /\ Len(Window) = count
      /\ Window' = [k \in 1..(count + 1) |-> queue'[k - 1]]
  <2>1. PlainWindow /\ PlainWindow'
    BY WindowAt, PTL
  <2> QED
    BY <1>1, <2>1 DEF PlainWindow
<1>5. m \in Message
  <2>1. dst \in Tasks \cup {Broadcast} /\ Len(log) + 1 \in 0..MaxSends
    BY MaxSendsAssumption DEF Send, IInv, TypeOK
  <2> QED
    BY <2>1 DEF Message
<1>6. Window' = Append(Window, m)
  <2>1. queue'[count] = m /\ \A k \in 1..count : queue'[k - 1] = queue[k - 1]
    BY <1>1, <1>2, <1>3
  <2>2. Window \in Seq(Message)
    BY <1>1, <1>2, <1>4
  <2> QED
    BY <1>2, <1>4, <1>5, <2>1, <2>2
<1> QED
  BY <1>1, <1>4, <1>5, <1>6 DEF Fifo!Send

\* A receive takes the oldest match out of the window.
LEMMA ReceiveRefines ==
    ASSUME IInv, IInv', NEW me \in Tasks, NEW ty \in Types, Receive(me, ty)
    PROVE  Fifo!Receive(me, ty)
<1> USE QSizeAssumption
<1>1. PICK i \in Hits(me, ty) :
        /\ \A h \in Hits(me, ty) : i <= h
        /\ got' = queue[SlotOf(i)]
        /\ queue' = Shifted(i)
        /\ count' = count - 1
  BY DEF Receive
<1>2. /\ count \in 0..QSize /\ queue \in [Slots -> Message]
      /\ TypeOK /\ read_idx = 0
  BY DEF IInv, TypeOK
<1>3. PlainWindow /\ PlainWindow'
  BY WindowAt, PTL
<1>4. \A h : h \in Hits(me, ty) <=>
              h \in 0..(count - 1) /\ Matches(queue[h], me, ty)
  BY <1>2, WindowSlot DEF Hits
<1>5. \A k : k \in Fifo!Hits(me, ty) <=>
              k \in 1..count /\ Matches(queue[k - 1], me, ty)
  BY <1>3 DEF Fifo!Hits, PlainWindow
<1>6. i \in 0..(count - 1) /\ SlotOf(i) = i
  BY <1>2, <1>4, WindowSlot
<1>7. i + 1 \in Fifo!Hits(me, ty)
  BY <1>2, <1>4, <1>5, <1>6
<1>8. \A j \in Fifo!Hits(me, ty) : i + 1 <= j
  <2> SUFFICES ASSUME NEW j \in Fifo!Hits(me, ty) PROVE i + 1 <= j
    OBVIOUS
  <2>1. j \in 1..count /\ j - 1 \in 0..(count - 1)
    BY <1>2, <1>5
  <2>2. j - 1 \in Hits(me, ty)
    BY <1>4, <1>5, <2>1
  <2> QED
    BY <1>1, <1>6, <2>1, <2>2
<1>9. got' = Window[i + 1]
  BY <1>1, <1>2, <1>3, <1>6 DEF PlainWindow
<1>10. Window' = Fifo!Without(i + 1)
  <2>1. \A k \in 1..(count - 1) :
           queue'[k - 1] = IF k < i + 1 THEN queue[k - 1] ELSE queue[k]
    <3> SUFFICES ASSUME NEW k \in 1..(count - 1)
                 PROVE  queue'[k - 1] = IF k < i + 1 THEN queue[k - 1]
                                        ELSE queue[k]
      OBVIOUS
    <3>1. /\ k \in Nat /\ k < QSize /\ k - 1 \in Slots
          /\ k - 1 \in 0..(count - 1) /\ k - 1 + 1 = k
      BY <1>2
    <3>2. k % QSize = k
      BY <3>1, SmallMod, Zenon
    <3>3. (\E j \in i..(count - 2) : k - 1 = SlotOf(j)) <=> k >= i + 1
      <4>1. \A j \in i..(count - 2) : SlotOf(j) = j
        BY <1>2, <1>6, WindowSlot
      <4> QED
        BY <1>2, <1>6, <3>1, <4>1
    <3> QED
      BY <1>1, <1>6, <3>1, <3>2, <3>3 DEF Shifted
  <2>2. Window' = [k \in 1..(count - 1) |-> queue'[k - 1]]
    BY <1>1, <1>3 DEF PlainWindow
  <2>3. \A k \in 1..(count - 1) : Window[k] = queue[k - 1] /\ Window[k + 1] = queue[k]
    BY <1>2, <1>3 DEF PlainWindow
  <2>4. Len(Window) = count
    BY <1>3 DEF PlainWindow
  <2> QED
    BY <2>1, <2>2, <2>3, <2>4 DEF Fifo!Without
<1> QED
  BY <1>7, <1>8, <1>9, <1>10 DEF Fifo!Receive

\* Every step but a send out of sync is one of MsgQueueFifo.
LEMMA InSyncRefines ==
    ASSUME IInv, IInv', [InSyncNext]_vars
    PROVE  [Fifo!Next]_Fifo!vars
<1>1. ASSUME InSync, NEW me \in Tasks, NEW dst \in 0..Broadcast,
             NEW ty \in Types, Send(me, dst, ty)
      PROVE  Fifo!Next
  BY <1>1, SendRefines DEF Fifo!Next
<1>2. ASSUME NEW me \in Tasks, NEW ty \in Types, Receive(me, ty)
      PROVE  Fifo!Next
  BY <1>2, ReceiveRefines DEF Fifo!Next
<1>3. ASSUME NEW me \in Tasks, NEW ty \in Types, ReceiveNothing(me, ty)
      PROVE  Fifo!Next
  <2>1. Window' = Window
    BY <1>3 DEF ReceiveNothing, ring, Window, SlotOf
  <2>2. Fifo!Hits(me, ty) = {}
    <3>1. PlainWindow
      BY WindowAt
    <3>2. \A h \in 0..(count - 1) : SlotOf(h) = h
      BY WindowSlot DEF IInv
    <3>3. \A h \in 0..(count - 1) : ~ Matches(queue[h], me, ty)
      BY <1>3, <3>2 DEF ReceiveNothing, Hits
    <3> QED
      BY <3>1, <3>3 DEF Fifo!Hits, PlainWindow, IInv, TypeOK
  <2> QED
    BY <1>3, <2>1, <2>2 DEF ReceiveNothing, Fifo!ReceiveNothing, Fifo!Next
<1>4. CASE Reset
  <2>1. Window' = << >>
    BY <1>4 DEF Reset, Window
  <2> QED
    BY <1>4, <2>1 DEF Reset, Fifo!Reset, Fifo!Next
<1>5. CASE UNCHANGED vars
  BY <1>5 DEF vars, Fifo!vars, Window, SlotOf
<1> QED
  BY <1>1, <1>2, <1>3, <1>4, <1>5 DEF InSyncNext, SendRejected

\* The empty ring is the empty queue.
LEMMA InitRefines == Init => Fifo!Init
<1> SUFFICES ASSUME Init PROVE Fifo!Init
  OBVIOUS
<1>1. Window = << >>
  BY DEF Init, Window
<1> QED
  BY <1>1 DEF Init, Fifo!Init

(***************************************************************************)
(* In-sync clients get the FIFO queue with selective receive that          *)
(* MsgQueueFifo describes, for every queue size: the shift loop, the       *)
(* wrapping indices and the full test implement it.                        *)
(***************************************************************************)
THEOREM ImplementsFifo == InSyncSpec => FifoSpec
<1>1. [InSyncNext]_vars => [Next]_vars
  BY DEF InSyncNext, Next
<1>2. IInv /\ IInv' /\ [InSyncNext]_vars => [Fifo!Next]_Fifo!vars
  BY InSyncRefines
<1> QED
  BY <1>1, <1>2, InitRefines, IInvInit, IInvStep, PTL
  DEF InSyncSpec, FifoSpec, Fifo!Spec

(***************************************************************************)
(* And for all clients: sends out of sync are the only calls by which the  *)
(* ring differs from MsgQueueFifo.                                         *)
(***************************************************************************)
THEOREM ImplementsFifoInSync == Spec => FifoInSync
<1>1. [Next]_vars => OutOfSyncSend \/ [InSyncNext]_vars
  BY DEF Next, InSyncNext, OutOfSyncSend, Send
<1>2. IInv /\ IInv' /\ [Next]_vars
        => [OutOfSyncSend \/ [Fifo!Next]_Fifo!vars]_vars
  BY <1>1, InSyncRefines
<1> QED
  BY <1>2, InitRefines, Inductive, PTL DEF Spec, FifoInSync

\* What a receive takes was addressed to the caller or to everybody, so the
\* messages of the others move along with the shift loop: those behind the
\* match by one place, those before it not at all (v4_backend_task_receive).
THEOREM OthersKeepOrder == Spec => OthersUndisturbed
<1>1. IInv /\ IInv' /\ [Next]_vars =>
        \A me \in Tasks, ty \in Types :
            Receive(me, ty) =>
                \A t \in Tasks \ {me} : \E moved \in [Posts(t) -> Posts(t)'] :
                    /\ \A k \in Posts(t) : Window'[moved[k]] = Window[k]
                    /\ \A j, k \in Posts(t) : j < k => moved[j] < moved[k]
                    /\ \A k \in Posts(t)' : \E j \in Posts(t) : moved[j] = k
  <2> SUFFICES ASSUME IInv, IInv', NEW me \in Tasks, NEW ty \in Types,
                      Receive(me, ty), NEW t \in Tasks \ {me}
               PROVE  \E moved \in [Posts(t) -> Posts(t)'] :
                          /\ \A k \in Posts(t) : Window'[moved[k]] = Window[k]
                          /\ \A j, k \in Posts(t) : j < k => moved[j] < moved[k]
                          /\ \A k \in Posts(t)' : \E j \in Posts(t) : moved[j] = k
    OBVIOUS
  <2>1. PICK h \in Fifo!Hits(me, ty) : Window' = Fifo!Without(h)
    BY ReceiveRefines DEF Fifo!Receive
  <2>2. /\ count \in Nat /\ Len(Window) = count
        /\ count' \in Nat /\ Len(Window') = count'
    <3>1. PlainWindow /\ PlainWindow'
      BY WindowAt, PTL
    <3> QED
      BY <3>1, QSizeAssumption DEF PlainWindow, IInv, TypeOK
  <2>3. h \in 1..count /\ Matches(Window[h], me, ty)
    BY <2>2 DEF Fifo!Hits
  <2>4. Window[h].dst # t
    BY <2>3, MaxTasksAssumption, BroadcastAssumption DEF Matches, Tasks
  <2>5. count' = count - 1
    BY DEF Receive
  <2>6. \A k \in 1..(count - 1) :
            Window'[k] = IF k < h THEN Window[k] ELSE Window[k + 1]
    BY <2>1, <2>2 DEF Fifo!Without
  <2>7. /\ \A k : k \in Posts(t) <=> k \in 1..count /\ Window[k].dst = t
        /\ \A k : k \in Posts(t)' <=> k \in 1..(count - 1) /\ Window'[k].dst = t
    BY <2>5 DEF Posts
  <2> DEFINE place(k) == IF k < h THEN k ELSE k - 1
             moved == [k \in Posts(t) |-> place(k)]
  <2>8. ASSUME NEW k \in Posts(t)
        PROVE  place(k) \in Posts(t)' /\ Window'[place(k)] = Window[k] /\ k # h
    <3>1. k \in 1..count /\ Window[k].dst = t /\ k # h
      BY <2>4, <2>7
    <3>2. place(k) \in 1..(count - 1)
      BY <2>2, <2>3, <3>1
    <3>3. Window'[place(k)] = Window[k]
      <4>1. CASE k < h
        BY <2>6, <3>2, <4>1
      <4>2. CASE k > h
        <5>1. place(k) = k - 1 /\ ~(k - 1 < h) /\ (k - 1) + 1 = k
          BY <2>2, <2>3, <3>1, <4>2
        <5> QED
          BY <2>6, <3>2, <5>1
      <4> QED
        BY <2>2, <2>3, <3>1, <4>1, <4>2
    <3> QED
      BY <2>7, <3>1, <3>2, <3>3
  <2>9. ASSUME NEW j \in Posts(t), NEW k \in Posts(t), j < k
        PROVE  place(j) < place(k)
    <3>1. j \in 1..count /\ k \in 1..count /\ j # h /\ k # h
      BY <2>7, <2>8
    <3> QED
      BY <2>2, <2>3, <2>9, <3>1
  <2>10. ASSUME NEW k \in Posts(t)' PROVE \E j \in Posts(t) : place(j) = k
    <3>1. k \in 1..(count - 1) /\ Window'[k].dst = t
      BY <2>7
    <3>2. CASE k < h
      <4>1. k \in Posts(t) /\ place(k) = k
        BY <2>2, <2>6, <2>7, <3>1, <3>2
      <4> QED
        BY <4>1
    <3>3. CASE ~(k < h)
      <4>1. k + 1 \in 1..count /\ ~(k + 1 < h) /\ (k + 1) - 1 = k
        BY <2>2, <2>3, <3>1, <3>3
      <4>2. Window[k + 1].dst = t
        BY <2>6, <3>1, <3>3
      <4> QED
        BY <2>7, <4>1, <4>2
    <3> QED
      BY <3>2, <3>3
  <2> HIDE DEF place
  <2>11. moved \in [Posts(t) -> Posts(t)']
    BY <2>8
  <2> QED
    BY <2>8, <2>9, <2>10, <2>11
<1> QED
  BY <1>1, Inductive, PTL DEF Spec, OthersUndisturbed

-----------------------------------------------------------------------------
(* A message is delivered once, if the clients stay in sync *)

\* Payloads are distinct in the window, none of them has been received, and
\* those received were sent.
EachOnce ==
    /\ \A j, k \in 1..Len(Window) : Window[j].data = Window[k].data => j = k
    /\ \A j \in 1..Len(Window), k \in 1..Len(taken) : Window[j].data # taken[k]
    /\ \A k \in 1..Len(taken) : taken[k] <= Len(log)
    /\ DeliveredOnce

\* What the window holds was sent.
LEMMA WindowSent ==
    ASSUME IInv
    PROVE  /\ Window \in Seq(Message) /\ taken \in Seq(Nat) /\ Len(log) \in Nat
           /\ \A k \in 1..Len(Window) : Window[k].data \in 1..Len(log)
<1>1. PlainWindow /\ count \in Nat /\ TypeOK /\ read_idx = 0
  BY WindowAt, QSizeAssumption DEF IInv, TypeOK
<1>2. ASSUME NEW k \in 1..count PROVE Window[k].data \in 1..Len(log)
  <2>1. k - 1 \in 0..(count - 1) /\ Window[k] = queue[SlotOf(k - 1)]
    BY <1>1, <1>2 DEF Window
  <2> QED
    BY <2>1, GenuineWindow DEF NoPhantom
<1>3. Window \in Seq(Message)
  <2>1. \A k \in 1..count : k - 1 \in Slots
    BY <1>1, QSizeAssumption DEF TypeOK
  <2>2. \A k \in 1..count : queue[k - 1] \in Message
    BY <1>1, <2>1 DEF TypeOK
  <2>3. Window = [k \in 1..count |-> queue[k - 1]]
    BY <1>1 DEF PlainWindow
  <2> QED
    BY <1>1, <2>2, <2>3
<1> QED
  BY <1>1, <1>2, <1>3, MaxSendsAssumption DEF PlainWindow, TypeOK

\* An in-sync send adds a payload that nothing before it had.
LEMMA SendOnce ==
    ASSUME IInv, IInv', EachOnce, InSync, NEW me \in Tasks, NEW dst \in 0..Broadcast,
           NEW ty \in Types, Send(me, dst, ty)
    PROVE  EachOnce'
<1>1. PICK m \in Message : m.data = Len(log) + 1 /\ Fifo!Send(m)
  BY SendRefines
<1> DEFINE n == Len(Window)
<1>2. /\ Window \in Seq(Message) /\ n \in Nat
      /\ taken \in Seq(Nat) /\ Len(log) \in Nat
      /\ \A k \in 1..n : Window[k].data \in 1..Len(log)
  BY WindowSent
<1>3. /\ Len(Window') = n + 1 /\ Window'[n + 1] = m
      /\ \A k \in 1..n : Window'[k] = Window[k]
  <2>1. Window' = Append(Window, m)
    BY <1>1 DEF Fifo!Send
  <2> QED
    BY <1>2, <2>1
<1>4. taken' = taken /\ Len(log') = Len(log) + 1
  BY DEF Send, IInv, TypeOK
<1> HIDE DEF n
<1>5. \A k \in 1..(n + 1) :
          \/ k \in 1..n /\ Window'[k].data = Window[k].data
          \/ k = n + 1 /\ Window'[k].data = Len(log) + 1
  <2>1. \A k \in 1..(n + 1) : k \in 1..n \/ k = n + 1
    BY <1>2
  <2> QED
    BY <1>1, <1>3, <2>1
<1>6. ASSUME NEW j \in 1..(n + 1), NEW k \in 1..(n + 1),
             Window'[j].data = Window'[k].data
      PROVE  j = k
  <2>1. \A i \in 1..n : Window[i].data # Len(log) + 1
    BY <1>2
  <2>2. CASE j \in 1..n /\ k \in 1..n
    <3>1. j # n + 1 /\ k # n + 1
      BY <1>2, <2>2
    <3>2. Window[j].data = Window[k].data
      BY <1>5, <1>6, <3>1
    <3> QED
      BY <2>2, <3>2 DEF EachOnce, n
  <2> QED
    BY <1>5, <1>6, <2>1, <2>2
<1>7. ASSUME NEW j \in 1..(n + 1), NEW k \in 1..Len(taken)
      PROVE  Window'[j].data # taken[k]
  <2>1. taken[k] \in Nat /\ taken[k] <= Len(log)
    BY <1>2 DEF EachOnce
  <2> QED
    BY <1>2, <1>5, <2>1 DEF EachOnce, n
<1>8. \A k \in 1..Len(taken) : taken[k] <= Len(log) + 1
  <2>1. \A k \in 1..Len(taken) : taken[k] \in Nat
    BY <1>2
  <2> QED
    BY <1>2, <2>1 DEF EachOnce
<1> QED
  BY <1>3, <1>4, <1>6, <1>7, <1>8 DEF EachOnce, DeliveredOnce

\* A receive moves one payload from the window to the received ones.
LEMMA ReceiveOnce ==
    ASSUME IInv, IInv', EachOnce, NEW me \in Tasks, NEW ty \in Types, Receive(me, ty)
    PROVE  EachOnce'
<1> DEFINE n == Len(Window)
           d == got'.data
<1>1. PICK h \in Fifo!Hits(me, ty) : got' = Window[h] /\ Window' = Fifo!Without(h)
  BY ReceiveRefines DEF Fifo!Receive
<1>2. /\ Window \in Seq(Message) /\ n \in Nat
      /\ taken \in Seq(Nat) /\ Len(log) \in Nat
      /\ \A k \in 1..n : Window[k].data \in 1..Len(log)
  BY WindowSent
<1>3. h \in 1..n /\ d = Window[h].data /\ d \in 1..Len(log)
  BY <1>1, <1>2 DEF Fifo!Hits
<1>4. taken' = Append(taken, d) /\ log' = log
  BY DEF Receive
<1>5. /\ Len(Window') = n - 1
      /\ \A k \in 1..(n - 1) :
            Window'[k] = IF k < h THEN Window[k] ELSE Window[k + 1]
  <2>1. n - 1 \in Nat
    BY <1>2, <1>3
  <2> QED
    BY <1>1, <2>1 DEF Fifo!Without
<1> HIDE DEF n, d
<1>6. \A k \in 1..(n - 1) :
          \E j \in 1..n : /\ j # h /\ Window'[k] = Window[j]
                         /\ j = IF k < h THEN k ELSE k + 1
  <2> SUFFICES ASSUME NEW k \in 1..(n - 1)
               PROVE  \E j \in 1..n : /\ j # h /\ Window'[k] = Window[j]
                                     /\ j = IF k < h THEN k ELSE k + 1
    OBVIOUS
  <2>1. CASE k < h
    <3>1. k \in 1..n /\ k # h
      BY <1>2, <1>3, <2>1
    <3> QED
      BY <1>5, <2>1, <3>1
  <2>2. CASE ~(k < h)
    <3>1. k + 1 \in 1..n /\ k + 1 # h
      BY <1>2, <1>3, <2>2
    <3> QED
      BY <1>5, <2>2, <3>1
  <2> QED
    BY <2>1, <2>2
<1>7. ASSUME NEW j \in 1..(n - 1), NEW k \in 1..(n - 1), Window'[j].data = Window'[k].data
      PROVE  j = k
  <2>1. PICK i \in 1..n : Window'[j] = Window[i] /\ i = IF j < h THEN j ELSE j + 1
    BY <1>6
  <2>2. PICK l \in 1..n : Window'[k] = Window[l] /\ l = IF k < h THEN k ELSE k + 1
    BY <1>6
  <2>3. i = l
    BY <1>7, <2>1, <2>2 DEF EachOnce, n
  <2> QED
    BY <1>2, <1>3, <2>1, <2>2, <2>3
<1>8. /\ Len(taken') = Len(taken) + 1 /\ Len(taken) \in Nat
      /\ \A k \in 1..(Len(taken) + 1) :
            \/ k \in 1..Len(taken) /\ taken'[k] = taken[k]
            \/ k = Len(taken) + 1 /\ taken'[k] = d
  BY <1>2, <1>3, <1>4
<1>9. ASSUME NEW j \in 1..(n - 1), NEW k \in 1..(Len(taken) + 1)
      PROVE  Window'[j].data # taken'[k]
  <2>1. PICK i \in 1..n : i # h /\ Window'[j] = Window[i]
    BY <1>6
  <2>2. Window[i].data # d
    BY <1>3, <2>1 DEF EachOnce, n
  <2> QED
    BY <1>8, <2>1, <2>2 DEF EachOnce, n
<1>10. \A k \in 1..Len(taken) : taken[k] # d
  BY <1>3 DEF EachOnce, n
<1>11. \A k \in 1..(Len(taken) + 1) : taken'[k] <= Len(log)
  BY <1>3, <1>8 DEF EachOnce
<1>12. \A j, k \in 1..(Len(taken) + 1) : taken'[j] = taken'[k] => j = k
  BY <1>8, <1>10 DEF EachOnce, DeliveredOnce
<1> QED
  BY <1>4, <1>5, <1>7, <1>8, <1>9, <1>11, <1>12 DEF EachOnce, DeliveredOnce

\* While every send is in sync no message is handed out twice.  The general
\* specification does not have this: the comment on the shift of
\* v4_backend_task_receive holds for these clients only.
THEOREM OnceInSync == InSyncSpec => []DeliveredOnce
<1>1. Init => EachOnce
  <2> SUFFICES ASSUME Init PROVE EachOnce
    OBVIOUS
  <2>1. Len(Window) = 0 /\ Len(taken) = 0
    BY DEF Init, Window
  <2> QED
    BY <2>1 DEF EachOnce, DeliveredOnce
<1>2. IInv /\ IInv' /\ EachOnce /\ [InSyncNext]_vars => EachOnce'
  <2> SUFFICES ASSUME IInv, IInv', EachOnce, [InSyncNext]_vars PROVE EachOnce'
    OBVIOUS
  <2>1. ASSUME NEW me \in Tasks, NEW ty \in Types, ReceiveNothing(me, ty)
        PROVE  EachOnce'
    <3>1. Window' = Window /\ taken' = taken /\ log' = log
      BY <2>1 DEF ReceiveNothing, ring, Window, SlotOf
    <3> QED
      BY <3>1 DEF EachOnce, DeliveredOnce
  <2>2. CASE Reset
    <3>1. Len(Window') = 0 /\ Len(taken') = 0
      BY <2>2 DEF Reset, Window
    <3> QED
      BY <3>1 DEF EachOnce, DeliveredOnce
  <2>3. CASE UNCHANGED vars
    <3>1. Window' = Window /\ taken' = taken /\ log' = log
      BY <2>3 DEF vars, Window, SlotOf
    <3> QED
      BY <3>1 DEF EachOnce, DeliveredOnce
  <2> QED
    BY <2>1, <2>2, <2>3, SendOnce, ReceiveOnce DEF InSyncNext, SendRejected
<1>3. [InSyncNext]_vars => [Next]_vars
  BY DEF InSyncNext, Next
<1>4. EachOnce => DeliveredOnce
  BY DEF EachOnce
<1> QED
  BY <1>1, <1>2, <1>3, <1>4, IInvInit, IInvStep, PTL DEF InSyncSpec
=============================================================================
