------------------------------- MODULE Interp -------------------------------
(***************************************************************************)
(* The bytecode interpreter (src/src/core.cpp): the data and the return    *)
(* stack, the frame pointer that CALL moves and the local variables it     *)
(* addresses, errors, what the panic handler hears of them (panic.cpp) and *)
(* how they unwind nested calls, and the stack API the host uses between   *)
(* executions.                                                             *)
(*                                                                         *)
(* The bytecode is arbitrary: a running word executes any opcode next.     *)
(* What an operator computes and what memory holds is any value; only the  *)
(* cells an opcode moves are followed.  An opcode that calls the scheduler *)
(* may go on with both stacks of another task; which one that is, and what *)
(* its stacks hold, is the subject of Scheduler.                           *)
(***************************************************************************)
EXTENDS Naturals, Sequences

CONSTANTS
    Cells,          \* the values of stack cells, with 0 the false flag
    DsCap, RsCap,   \* 256 and 64 cells
    DepthMod,       \* the depths in a panic report are uint8_t: 256
    Shown,          \* the cells in a panic report: 4
    Locals,         \* the operands of the local variable opcodes
    Saved,          \* the pairs of stacks that tasks have in the task table
    Null,           \* the null frame pointer, and no snapshot
    CallLimit       \* bound: active calls; the code has no limit of its own

ASSUME CapAssumption == DsCap \in Nat /\ RsCap \in Nat
ASSUME ReportAssumption == DepthMod \in Nat \ {0} /\ Shown \in Nat
ASSUME SavedAssumption ==
    \A s \in Saved :
        /\ s.ds \in Seq(Cells) /\ Len(s.ds) <= DsCap
        /\ s.rs \in Seq(Cells) /\ Len(s.rs) <= RsCap
ASSUME LocalsAssumption == Locals \subseteq Nat
ASSUME NullAssumption == Null \notin Nat
ASSUME CallLimitAssumption == CallLimit \in Nat

VARIABLES
    ds,         \* vm->DS up to vm->sp
    rs,         \* vm->RS up to vm->rp
    fp,         \* vm->fp as an index into RS
    calls,      \* old_fp of each active CALL, on the C stack
    phase,      \* "idle", "running" or "returning" from vm_exec_raw
    err,        \* the value vm_exec_raw is returning or last returned
    panics,     \* what the panic handler was told in this execution
    snap,       \* the snapshot the host holds
    kept        \* history: for each active CALL, the cells its caller left on
                \* the return stack, less those that were popped since;
                \* none after a switch to another task's stack

exec == <<fp, calls, kept, snap>>
status == <<phase, err, panics>>
vars == <<ds, rs, fp, calls, phase, err, panics, snap, kept>>

Errors ==
    {"StackUnderflow", "StackOverflow", "TruncatedLiteral", "TruncatedJump",
     "JumpOutOfRange", "DivByZero", "OobMemory", "Unaligned", "InvalidWordIdx",
     "InvalidArg", "UnknownOp", "FellOffEnd"}

TypeOK ==
    /\ ds \in Seq(Cells) /\ Len(ds) <= DsCap
    /\ rs \in Seq(Cells) /\ Len(rs) <= RsCap
    /\ fp \in (0..RsCap) \cup {Null}
    /\ calls \in Seq((0..RsCap) \cup {Null})
    /\ phase \in {"idle", "running", "returning"}
    /\ err \in Errors \cup {"OK"}
    /\ snap \in Seq(Cells) \cup {Null}
    /\ snap # Null => Len(snap) <= DsCap
    /\ kept \in Seq(Seq(Cells)) /\ Len(kept) = Len(calls)

\* vm_create
Init ==
    /\ ds = << >> /\ rs = << >>
    /\ fp = Null /\ calls = << >>
    /\ phase = "idle" /\ err = "OK" /\ panics = << >>
    /\ snap = Null
    /\ kept = << >>

-----------------------------------------------------------------------------
(* One opcode: it goes on with new stacks, or vm_exec_raw returns an error *)

Top(i) == ds[Len(ds) - i]
Rest(n) == SubSeq(ds, 1, Len(ds) - n)

Continue(d, r) ==
    /\ ds' = d /\ rs' = r
    /\ UNCHANGED status

\* What vm_panic tells the handler: the error, the depth of the data stack and
\* its topmost cells.
Report(e, d) ==
    LET n == Len(d) % DepthMod IN
    [code |-> e, depth |-> n,
     stack |-> [i \in {j \in 1..Shown : j <= n} |-> d[Len(d) + 1 - i]]]

\* The errors of memory accesses are returned without vm_panic.
Unreported == {"OobMemory", "Unaligned"}

Fail(e, d, r) ==
    /\ ds' = d /\ rs' = r
    /\ phase' = "returning" /\ err' = e
    /\ panics' = IF e \in Unreported THEN panics
                 ELSE Append(panics, Report(e, d))

\* The pops of an opcode are made one by one: a failing one has consumed all.
Underflow == Fail("StackUnderflow", << >>, rs)

PushOn(d, v) ==
    IF Len(d) < DsCap THEN Continue(Append(d, v), rs)
    ELSE Fail("StackOverflow", d, rs)

\* LIT and the compact literals, TASK_SELF, TASK_COUNT
Lit(v) == PushOn(ds, v) /\ UNCHANGED exec

\* DUP is Pick(0) and OVER is Pick(1): a failing peek consumes nothing.
Pick(i) ==
    /\ IF Len(ds) <= i THEN Fail("StackUnderflow", ds, rs)
       ELSE PushOn(ds, Top(i))
    /\ UNCHANGED exec

Swap ==
    /\ IF Len(ds) < 2 THEN Underflow
       ELSE Continue(Rest(2) \o <<Top(0), Top(1)>>, rs)
    /\ UNCHANGED exec

\* DROP, JZ and JNZ that go on (1), STORE, STORE8 and STORE16 (2)
Discard(n) ==
    /\ IF Len(ds) < n THEN Underflow ELSE Continue(Rest(n), rs)
    /\ UNCHANGED exec

\* INC, DEC, INVERT and the loads (1), the binary operators and shifts (2),
\* TASK_SEND (3), SYS and TASK_SPAWN (4)
Compute(n, v) ==
    /\ IF Len(ds) < n THEN Underflow ELSE PushOn(Rest(n), v)
    /\ UNCHANGED exec

Select ==
    /\ IF Len(ds) < 3 THEN Underflow
       ELSE PushOn(Rest(3), IF Top(2) # 0 THEN Top(0) ELSE Top(1))
    /\ UNCHANGED exec

\* The pushes of data, source and result; those that fit stay.
PushMessage(d, r, msg) ==
    IF Len(d) + 3 <= DsCap THEN Continue(d \o msg, r)
    ELSE Fail("StackOverflow", d \o SubSeq(msg, 1, DsCap - Len(d)), r)

TaskReceive(data, src, result) ==
    /\ IF ds = << >> THEN Underflow
       ELSE PushMessage(Rest(1), rs, <<data, src, result>>)
    /\ UNCHANGED exec

\* An opcode that is refused after its n pops.
Reject(n, e) ==
    /\ IF Len(ds) < n THEN Underflow ELSE Fail(e, Rest(n), rs)
    /\ UNCHANGED exec

\* JMP and the critical section opcodes leave the stacks alone, and a bad
\* operand, opcode or jump is refused before any pop.
Refusals ==
    {"TruncatedLiteral", "TruncatedJump", "JumpOutOfRange", "InvalidWordIdx",
     "InvalidArg", "UnknownOp", "FellOffEnd"}

DivByZero == ds # << >> /\ Top(0) = 0 /\ Reject(2, "DivByZero")

ToR ==
    /\ IF ds = << >> THEN Underflow
       ELSE IF Len(rs) < RsCap THEN Continue(Rest(1), Append(rs, Top(0)))
       ELSE Fail("StackOverflow", Rest(1), rs)
    /\ UNCHANGED exec

FromR ==
    LET popped == SubSeq(rs, 1, Len(rs) - 1) IN
    /\ IF rs = << >> THEN Fail("StackUnderflow", ds, rs) /\ UNCHANGED kept
       ELSE /\ IF Len(ds) < DsCap
               THEN Continue(Append(ds, rs[Len(rs)]), popped)
               ELSE Fail("StackOverflow", ds, popped)
            /\ kept' = [n \in 1..Len(kept) |->
                           IF Len(kept[n]) < Len(rs) THEN kept[n] ELSE popped]
    /\ UNCHANGED <<fp, calls, snap>>

RFetch ==
    /\ IF rs = << >> THEN Fail("StackUnderflow", ds, rs)
       ELSE PushOn(ds, rs[Len(rs)])
    /\ UNCHANGED exec

-----------------------------------------------------------------------------
(* vm_schedule inside a word: the task goes on, or both stacks become those *)
(* of another one, while fp and the C frames of the word and its callers    *)
(* stay.                                                                    *)

Switch(s) ==
    /\ ds' = s.ds /\ rs' = s.rs
    /\ kept' = [n \in 1..Len(kept) |-> << >>]
    /\ UNCHANGED <<fp, calls, snap>>

\* The same task goes on with data stack d.
Stay(d) == ds' = d /\ UNCHANGED <<rs, exec>>

TaskYield ==
    /\ Stay(ds) \/ \E s \in Saved : Switch(s)
    /\ UNCHANGED status

TaskSleep ==
    \/ ds = << >> /\ Underflow /\ UNCHANGED exec
    \/ /\ ds # << >>
       /\ Stay(Rest(1)) \/ \E s \in Saved : Switch(s)
       /\ UNCHANGED status

\* The word of the task that exits returns; its caller goes on.
TaskExit ==
    /\ Stay(ds) \/ \E s \in Saved : Switch(s)
    /\ phase' = "returning"
    /\ UNCHANGED <<err, panics>>

\* The call may come back to the stacks of another task, which then get the
\* message.
TaskReceiveBlocking(msg) ==
    \/ Len(ds) < 2 /\ Underflow /\ UNCHANGED exec
    \/ Len(ds) >= 2 /\ PushMessage(Rest(2), rs, msg) /\ UNCHANGED exec
    \/ /\ Len(ds) >= 2
       /\ \E s \in Saved : PushMessage(s.ds, s.rs, msg)
       /\ kept' = [n \in 1..Len(kept) |-> << >>]
       /\ UNCHANGED <<fp, calls, snap>>

-----------------------------------------------------------------------------
(* Local variables: the cells from fp up to rp *)

IsLocal(i) == fp # Null /\ fp + i < Len(rs)

NoLocal(i) ==
    /\ ~IsLocal(i)
    /\ Fail(IF fp = Null THEN "InvalidArg" ELSE "StackUnderflow", ds, rs)

WithLocal(i, v) == [rs EXCEPT ![fp + i + 1] = v]

\* LGET, LGET0, LGET1
LGet(i) ==
    /\ NoLocal(i) \/ (IsLocal(i) /\ PushOn(ds, rs[fp + i + 1]))
    /\ UNCHANGED exec

\* Bug: the local is written although there is nothing to pop.
LSetUnchecked(i) ==
    /\ \/ NoLocal(i)
       \/ IsLocal(i) /\ ds = << >> /\ Fail("StackUnderflow", ds, WithLocal(i, 0))
       \/ IsLocal(i) /\ ds # << >> /\ Continue(Rest(1), WithLocal(i, Top(0)))
    /\ UNCHANGED exec

\* LSET, LSET0, LSET1
LSet(i) ==
    /\ \/ NoLocal(i)
       \/ IsLocal(i) /\ ds = << >> /\ Underflow
       \/ IsLocal(i) /\ ds # << >> /\ Continue(Rest(1), WithLocal(i, Top(0)))
    /\ UNCHANGED exec

LTee(i) ==
    /\ \/ NoLocal(i)
       \/ IsLocal(i) /\ ds = << >> /\ Underflow
       \/ IsLocal(i) /\ ds # << >> /\ Continue(ds, WithLocal(i, Top(0)))
    /\ UNCHANGED exec

\* LINC, LDEC
LStep(i, v) ==
    /\ NoLocal(i) \/ (IsLocal(i) /\ Continue(ds, WithLocal(i, v)))
    /\ UNCHANGED exec

-----------------------------------------------------------------------------
(* Calls and returns *)

\* Bug: the frame of the called word starts at the bottom of the stack.
CallAtBottom ==
    /\ Len(calls) < CallLimit
    /\ calls' = Append(calls, fp)
    /\ fp' = 0
    /\ kept' = Append(kept, rs)
    /\ UNCHANGED <<ds, rs, status, snap>>

Call ==
    /\ Len(calls) < CallLimit
    /\ calls' = Append(calls, fp)
    /\ fp' = Len(rs)
    /\ kept' = Append(kept, rs)
    /\ UNCHANGED <<ds, rs, status, snap>>

Ret ==
    /\ phase' = "returning"
    /\ UNCHANGED <<ds, rs, err, panics, exec>>

\* Bug: the frame pointer is restored only when the called word succeeds.
ReturnEarly ==
    /\ phase = "returning" /\ calls # << >>
    /\ fp' = IF err = "OK" THEN calls[Len(calls)] ELSE fp
    /\ calls' = SubSeq(calls, 1, Len(calls) - 1)
    /\ kept' = SubSeq(kept, 1, Len(kept) - 1)
    /\ phase' = IF err = "OK" THEN "running" ELSE "returning"
    /\ UNCHANGED <<ds, rs, err, panics, snap>>

\* Bug: an error of the called word is ignored.
ReturnResuming ==
    /\ phase = "returning" /\ calls # << >>
    /\ fp' = calls[Len(calls)]
    /\ calls' = SubSeq(calls, 1, Len(calls) - 1)
    /\ kept' = SubSeq(kept, 1, Len(kept) - 1)
    /\ phase' = "running"
    /\ UNCHANGED <<ds, rs, err, panics, snap>>

\* Bug: the error of the called word is raised again.
ReturnPanicking ==
    /\ phase = "returning" /\ calls # << >>
    /\ fp' = calls[Len(calls)]
    /\ calls' = SubSeq(calls, 1, Len(calls) - 1)
    /\ kept' = SubSeq(kept, 1, Len(kept) - 1)
    /\ IF err = "OK"
       THEN phase' = "running" /\ UNCHANGED <<ds, rs, err, panics>>
       ELSE Fail(err, ds, rs)
    /\ UNCHANGED snap

\* The rest of CALL, once the called word has returned.
Return ==
    /\ phase = "returning" /\ calls # << >>
    /\ fp' = calls[Len(calls)]
    /\ calls' = SubSeq(calls, 1, Len(calls) - 1)
    /\ kept' = SubSeq(kept, 1, Len(kept) - 1)
    /\ phase' = IF err = "OK" THEN "running" ELSE "returning"
    /\ UNCHANGED <<ds, rs, err, panics, snap>>

-----------------------------------------------------------------------------
(* The host, between executions *)

\* vm_exec runs the entry word without a frame of its own.
Exec ==
    /\ phase' = "running" /\ err' = "OK"
    /\ UNCHANGED <<ds, rs, panics, exec>>

Finish ==
    /\ phase = "returning" /\ calls = << >>
    /\ phase' = "idle" /\ panics' = << >>
    /\ UNCHANGED <<ds, rs, err, exec>>

\* Bug: the bound of the stack is off by one.
ApiPushPast(v) ==
    /\ Len(ds) <= DsCap
    /\ ds' = Append(ds, v)
    /\ UNCHANGED <<rs, status, exec>>

\* vm_ds_push; a full stack is reported and nothing changes.
ApiPush(v) ==
    /\ Len(ds) < DsCap
    /\ ds' = Append(ds, v)
    /\ UNCHANGED <<rs, status, exec>>

\* vm_ds_pop
ApiPop ==
    /\ ds # << >>
    /\ ds' = Rest(1)
    /\ UNCHANGED <<rs, status, exec>>

\* vm_ds_clear
ApiClear ==
    /\ ds' = << >>
    /\ UNCHANGED <<rs, status, exec>>

\* vm_reset_stacks
ResetStacks ==
    /\ ds' = << >> /\ rs' = << >> /\ fp' = Null
    /\ UNCHANGED <<calls, status, snap, kept>>

\* vm_ds_snapshot and vm_ds_snapshot_free
Snapshot == snap' = ds /\ UNCHANGED <<ds, rs, status, fp, calls, kept>>
SnapshotFree == snap' = Null /\ UNCHANGED <<ds, rs, status, fp, calls, kept>>

\* vm_ds_restore; a snapshot deeper than the stack is refused.
Restore ==
    /\ snap # Null /\ Len(snap) <= DsCap
    /\ ds' = snap
    /\ UNCHANGED <<rs, status, exec>>

-----------------------------------------------------------------------------
Step ==
    \/ \E v \in Cells : Lit(v)
    \/ \E i \in 0..1 : Pick(i)
    \/ Swap
    \/ \E n \in 1..2 : Discard(n)
    \/ \E n \in 1..4, v \in Cells : Compute(n, v)
    \/ Select
    \/ \E d \in Cells, s \in Cells, r \in Cells :
          TaskReceive(d, s, r) \/ TaskReceiveBlocking(<<d, s, r>>)
    \/ TaskYield \/ TaskSleep \/ TaskExit
    \/ \E e \in Refusals : Reject(0, e)
    \/ Reject(1, "JumpOutOfRange")
    \/ \E n \in 1..2, e \in {"OobMemory", "Unaligned"} : Reject(n, e)
    \/ DivByZero
    \/ ToR
    \/ FromR
    \/ RFetch
    \/ \E i \in Locals : LGet(i) \/ LSet(i) \/ LTee(i)
    \/ \E i \in Locals, v \in Cells : LStep(i, v)
    \/ Call
    \/ Ret

Host ==
    \/ Exec
    \/ \E v \in Cells : ApiPush(v)
    \/ ApiPop
    \/ ApiClear
    \/ ResetStacks
    \/ Snapshot
    \/ SnapshotFree
    \/ Restore

Next ==
    \/ phase = "running" /\ Step
    \/ Return
    \/ Finish
    \/ phase = "idle" /\ Host

Spec == Init /\ [][Next]_vars

-----------------------------------------------------------------------------
\* There is a frame exactly while a CALL is active, however the calls before
\* ended, so that a local variable opcode of a later execution cannot address
\* the frame of an earlier one.
FrameOnlyInCall == fp = Null <=> calls = << >>

\* The cells a caller left on the return stack are still what they were when
\* its CALL returns, whatever the called words did to their own locals, unless
\* one of them popped the cells off or switched to another task's stack.
CallerIntact ==
    \A n \in 1..Len(kept) :
        Len(kept[n]) <= Len(rs) /\ SubSeq(rs, 1, Len(kept[n])) = kept[n]

\* An opcode that fails has at most popped cells: it has pushed nothing and
\* written no local.  Only the two opcodes that receive a message can fail
\* halfway through their pushes.
FailurePopsOnly ==
    [][ err = "OK" /\ err' # "OK" =>
            \/ \E d, s, r \in Cells :
                  TaskReceive(d, s, r) \/ TaskReceiveBlocking(<<d, s, r>>)
            \/ /\ Len(ds') <= Len(ds) /\ ds' = SubSeq(ds, 1, Len(ds'))
               /\ Len(rs') <= Len(rs) /\ rs' = SubSeq(rs, 1, Len(rs')) ]_vars

\* An error ends the whole execution: no caller runs on after it, the stacks
\* stay as the failing opcode left them, and the host gets that error.
ErrorEnds ==
    [][ err # "OK" /\ phase # "idle" =>
            ds' = ds /\ rs' = rs /\ err' = err /\ phase' # "running" ]_vars

\* "Called when VM encounters a fatal error" (panic.h): an execution that fails
\* has called the panic handler once, with its own error, and not again while
\* the calls unwound; what the handler was told of the stack is what the host
\* finds afterwards.  The code does not report the errors of memory accesses,
\* and reports a stack of DepthMod cells as empty.
PanicsOnce ==
    IF phase # "returning" \/ err \in Unreported \cup {"OK"}
    THEN panics = << >>
    ELSE /\ Len(panics) = 1
         /\ panics[1].code = err
         /\ Len(ds) < DepthMod =>
               /\ panics[1].depth = Len(ds)
               /\ \A i \in 1..Shown :
                     i <= Len(ds) => panics[1].stack[i] = ds[Len(ds) + 1 - i]
=============================================================================
