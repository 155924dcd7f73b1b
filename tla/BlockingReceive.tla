-------------------------- MODULE BlockingReceive --------------------------
(***************************************************************************)
(* The blocking receive of the custom backend, which is where the          *)
(* scheduler and the message queue meet: v4_backend_task_receive_blocking  *)
(* (src/src/task_backend_custom.cpp) tries, looks at the clock and sleeps  *)
(* for PollDelay, in a loop.                                               *)
(*                                                                         *)
(* The loop is one C call: a sleep inside it names another current_task    *)
(* and returns at once, and the loop goes on as that task.  No other       *)
(* program code runs before the call returns; between any two steps of it  *)
(* interrupts may move the clock, call vm_schedule_from_isr or, from a     *)
(* handler of the program, send a message.                                 *)
(***************************************************************************)
EXTENDS Scheduler

CONSTANTS
    QSize, Broadcast, MaxType, MaxSends,    \* of the message queue
    Timeouts,       \* the timeout_ms arguments; 0 waits for ever
    PollDelay,      \* ms a try that failed sleeps: 10
    MaxLag          \* bound: ms that pass between two looks at the clock

ASSUME QueueAssumption ==
    /\ QSize \in Nat \ {0}
    /\ Broadcast \in Nat /\ Broadcast >= MaxTasks
    /\ MaxType \in Nat /\ MaxSends \in Nat
ASSUME TimeoutsAssumption == Timeouts \subseteq Nat
ASSUME PollDelayAssumption == PollDelay \in Nat
\* Timeouts end before the clock comes round, with room for one late look.
ASSUME MaxLagAssumption ==
    MaxLag \in Nat \ {0} /\ \A ms \in Timeouts : ms + MaxLag < TickMod

VARIABLES
    queue, read_idx, write_idx, count, got, log, taken,     \* MsgQueue
    phase,          \* where the call is; "idle" while the program runs
    msg_type, timeout_ms, start_tick,                       \* its locals
    caller,         \* history: the current task that made the call
    waited,         \* history: ms since a timed call was made
    lag             \* history: ms since a timed call looked at the clock

Q == INSTANCE MsgQueue

sched == vars
msgs == <<queue, read_idx, write_idx, count, got, log, taken>>
call == <<phase, msg_type, timeout_ms, start_tick, caller>>
clock == <<waited, lag>>
sysvars == <<sched, msgs, call, clock>>

SysTypeOK ==
    /\ TypeOK /\ Q!TypeOK
    /\ phase \in {"idle", "try", "check"}
    /\ msg_type \in 0..MaxType
    /\ timeout_ms \in Timeouts \cup {0}
    /\ start_tick \in 0..(TickMod - 1)
    /\ caller \in Tasks
    /\ waited \in 0..(TickMod - 1)
    /\ lag \in 0..MaxLag

SysInit ==
    /\ Init /\ Q!Init
    /\ phase = "idle"
    /\ msg_type = 0 /\ timeout_ms = 0 /\ start_tick = 0 /\ caller = 0
    /\ waited = 0 /\ lag = 0

-----------------------------------------------------------------------------
(* The call *)

\* The call starts by reading the clock; only a timed call uses that reading.
ReceiveBlocking(ty, ms) ==
    /\ phase = "idle"
    /\ phase' = "try"
    /\ msg_type' = ty /\ timeout_ms' = ms /\ caller' = current_task
    /\ start_tick' = IF ms > 0 THEN tick ELSE 0
    /\ waited' = 0 /\ lag' = 0
    /\ UNCHANGED <<sched, msgs>>

\* The locals and the histories of a call end with it.
Return ==
    /\ phase' = "idle"
    /\ msg_type' = 0 /\ timeout_ms' = 0 /\ start_tick' = 0 /\ caller' = 0
    /\ waited' = 0 /\ lag' = 0

\* The non-blocking receive, as whatever task is current by now.
Hit ==
    /\ phase = "try"
    /\ Q!Receive(current_task, msg_type)
    /\ Return
    /\ UNCHANGED sched

Miss ==
    /\ phase = "try"
    /\ Q!ReceiveNothing(current_task, msg_type)
    /\ phase' = "check"
    /\ UNCHANGED <<sched, msg_type, timeout_ms, start_tick, caller, clock>>

\* Bug: the ticks are compared without allowing for the wrap of the clock.
ElapsedUnwrapped == IF tick >= start_tick THEN tick - start_tick ELSE TickMod

\* uint32_t elapsed = current_tick - start_tick
Elapsed == (tick + TickMod - start_tick) % TickMod

Expired == timeout_ms > 0 /\ Elapsed >= timeout_ms

TimeOut ==
    /\ phase = "check"
    /\ Expired
    /\ Return
    /\ UNCHANGED <<sched, msgs>>

\* Bug: each poll starts the timeout afresh.
PollAfresh ==
    /\ phase = "check"
    /\ ~Expired
    /\ Sleep(PollDelay)
    /\ phase' = "try"
    /\ start_tick' = tick
    /\ lag' = 0
    /\ UNCHANGED <<msgs, msg_type, timeout_ms, caller, waited>>

\* Bug: only a timed receive polls again.
PollTimed ==
    /\ phase = "check"
    /\ ~Expired
    /\ timeout_ms > 0
    /\ Sleep(PollDelay)
    /\ phase' = "try"
    /\ lag' = 0
    /\ UNCHANGED <<msgs, msg_type, timeout_ms, start_tick, caller, waited>>

Poll ==
    /\ phase = "check"
    /\ ~Expired
    /\ Sleep(PollDelay)
    /\ phase' = "try"
    /\ lag' = 0
    /\ UNCHANGED <<msgs, msg_type, timeout_ms, start_tick, caller, waited>>

Loop == Hit \/ Miss \/ TimeOut \/ Poll

-----------------------------------------------------------------------------
(* The rest of the program, between calls *)

Program ==
    /\ phase = "idle"
    /\ UNCHANGED <<call, clock>>
    /\ \/ /\ \/ \E p \in Prios, d \in StackArgs, r \in StackArgs : Spawn(p, d, r)
             \/ Exit
             \/ \E ms \in Delays : Sleep(ms)
             \/ Yield
          /\ UNCHANGED msgs
       \/ /\ \/ \E dst \in 0..Broadcast, ty \in Q!Types :
                    Q!Send(current_task, dst, ty) \/ Q!SendRejected(dst)
             \/ \E ty \in Q!Types :
                    \/ Q!Receive(current_task, ty)
                    \/ Q!ReceiveNothing(current_task, ty)
          /\ UNCHANGED sched
       \/ (Cleanup \/ Restart) /\ Q!Reset

(* Interrupts *)

Timer == TimerIsr /\ UNCHANGED <<msgs, call, clock>>

HandlerSend ==
    /\ phase # "idle"
    /\ \E dst \in 0..Broadcast, ty \in Q!Types :
            Q!Send(current_task, dst, ty) \/ Q!SendRejected(dst)
    /\ UNCHANGED <<sched, call, clock>>

\* Only a timed call looks at the clock, so only its steps bound the lag.
ClockTick ==
    /\ Tick
    /\ IF timeout_ms = 0
       THEN UNCHANGED clock
       ELSE /\ lag < MaxLag
            /\ lag' = lag + 1 /\ waited' = waited + 1
    /\ UNCHANGED <<msgs, call>>

SysNext ==
    \/ \E ty \in Q!Types, ms \in Timeouts : ReceiveBlocking(ty, ms)
    \/ Loop
    \/ Program
    \/ Timer
    \/ HandlerSend
    \/ ClockTick

SysSpec == SysInit /\ [][SysNext]_sysvars

(***************************************************************************)
(* The CPU keeps running the call and the clock keeps going.  Nothing is   *)
(* assumed of the program, the timer interrupt or the handlers.            *)
(***************************************************************************)
FairSysSpec == SysSpec /\ WF_sysvars(Loop) /\ WF_sysvars(ClockTick)

-----------------------------------------------------------------------------
\* A receive reports a timeout only when timeout_ms have really passed since
\* the call, whatever tasks it ran as and wherever the clock wrapped.
NotEarly == [][TimeOut => waited >= timeout_ms]_sysvars

\* A timed receive is never under way for longer than its timeout and the time
\* to the next look at the clock: no switch, wake or poll restarts the wait.
InTime ==
    phase # "idle" /\ timeout_ms > 0 => waited < timeout_ms + MaxLag

\* No other task can be given the CPU by the sleeps of the call.
Lone ==
    \A t \in Tasks \ {caller} : state[t] = "DEAD" \/ priority[t] = 0

\* "Receives a message addressed to current task" (task.h): a caller that is
\* the only task with a positive priority gets its own messages and broadcasts
\* only, through any number of sleeps and interrupts.
LoneReceivesOwn ==
    [][Hit /\ Lone => got'.dst \in {caller, Broadcast}]_sysvars

\* A broadcast that the call asks for is in the queue.
BroadcastWaits ==
    \E i \in 0..(count - 1) :
        LET m == queue[Q!SlotOf(i)] IN
        m.dst = Broadcast /\ (msg_type = 0 \/ m.type = msg_type)

\* No call stays under way for ever that is timed, or that has in the queue a
\* broadcast that it asks for, which only its own receive takes out; whichever
\* tasks it runs as meanwhile, and however often it is interrupted.
WaitEnds ==
    ~<>[](phase # "idle" /\ (timeout_ms > 0 \/ BroadcastWaits))

\* The same header line for every caller, which the code does not keep: a task
\* that took over in a sleep of the call gets its messages in the caller's place.
ReceivesOwn == [][Hit => got'.dst \in {caller, Broadcast}]_sysvars
=============================================================================
