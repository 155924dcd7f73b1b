---------------------------- MODULE MsgQueueFifo ----------------------------
(***************************************************************************)
(* What a V4 message queue promises its users: at most QSize messages are  *)
(* pending, they are kept in the order they were sent, and a receive takes *)
(* the oldest pending message that is addressed to the caller (or to       *)
(* everybody) and has the requested type.  The ring buffer of              *)
(* task_backend_custom.cpp is compared with this in MsgQueue.              *)
(***************************************************************************)
EXTENDS Naturals, Sequences

CONSTANTS QSize, Tasks, Types, Message, Matches(_, _, _), Nothing

VARIABLES
    pending,    \* accepted and not yet received, oldest first
    got         \* answer of the last receive: a message, or Nothing

vars == <<pending, got>>

Init == pending = << >> /\ got = Nothing

Send(m) ==
    /\ Len(pending) < QSize
    /\ pending' = Append(pending, m)
    /\ UNCHANGED got

\* The positions of the pending messages that (me, ty) may receive.
Hits(me, ty) == {k \in 1..Len(pending) : Matches(pending[k], me, ty)}

\* The pending messages without the one at position k.
Without(k) == [j \in 1..(Len(pending) - 1) |->
                 IF j < k THEN pending[j] ELSE pending[j + 1]]

Receive(me, ty) ==
    \E k \in Hits(me, ty) :
        /\ \A j \in Hits(me, ty) : k <= j
        /\ got' = pending[k]
        /\ pending' = Without(k)

ReceiveNothing(me, ty) ==
    /\ Hits(me, ty) = {}
    /\ got' = Nothing
    /\ UNCHANGED pending

\* vm_task_init and vm_task_cleanup empty the queue.
Reset == pending' = << >> /\ UNCHANGED got

Next ==
    \/ \E me \in Tasks, ty \in Types : Receive(me, ty) \/ ReceiveNothing(me, ty)
    \/ Reset
    \/ \E m \in Message : Send(m)

Spec == Init /\ [][Next]_vars
=============================================================================
