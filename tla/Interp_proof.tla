---------------------------- MODULE Interp_proof ----------------------------
(***************************************************************************)
(* Proofs about the interpreter, for stacks, cells and nesting of any      *)
(* size.  The inductive invariant IInv adds to the type invariant how the  *)
(* frame pointers saved by nested calls relate to the cells their callers  *)
(* left: every frame starts above all cells that are still kept, so that a *)
(* write to a local cannot reach them.                                     *)
(***************************************************************************)
EXTENDS Interp, TLAPS

\* PanicsOnce, with the report in full.
ReportedOnce ==
    panics = IF phase # "returning" \/ err \in Unreported \cup {"OK"} THEN << >>
             ELSE <<Report(err, ds)>>

\* The outcome of an execution is an error only once it is returning.
Codes ==
    /\ ReportedOnce
    /\ phase \in {"idle", "running", "returning"}
    /\ err \in Errors \cup {"OK"}
    /\ phase = "running" => err = "OK"
    /\ phase = "idle" => calls = << >>

\* The running word's frame, and the frames of its callers, start above
\* everything that is kept for callers further out.
FramesAbove ==
    /\ calls = << >> => fp = Null
    /\ calls # << >> => fp \in Nat /\ calls[1] = Null
    /\ \A m \in 1..Len(calls) : m > 1 => calls[m] \in Nat
    /\ \A n \in 1..Len(calls) : Len(kept[n]) <= fp
    /\ \A n, m \in 1..Len(calls) : n < m => Len(kept[n]) <= calls[m]

\* CallerIntact, cell by cell.
CellsKept ==
    \A n \in 1..Len(kept) :
        /\ Len(kept[n]) <= Len(rs)
        /\ \A j \in 1..Len(kept[n]) : rs[j] = kept[n][j]

IInv == TypeOK /\ Codes /\ FramesAbove /\ CellsKept

\* The stacks after an opcode, and the cells below the frame that it must not
\* touch.
StacksAfter ==
    /\ ds' \in Seq(Cells) /\ Len(ds') <= DsCap
    /\ rs' \in Seq(Cells) /\ Len(rs') <= RsCap
    /\ phase' \in {"running", "returning"}
    /\ err' \in Errors \cup {"OK"}
    /\ phase' = "running" => err' = "OK"
    /\ panics' = IF phase' # "returning" \/ err' \in Unreported \cup {"OK"}
                 THEN << >> ELSE <<Report(err', ds')>>

BelowFrame ==
    \A j \in 1..Len(rs) :
        fp \in Nat /\ j <= fp => j <= Len(rs') /\ rs'[j] = rs[j]

\* What FailurePopsOnly asks of a failing opcode.
PopsOnly ==
    /\ Len(ds') <= Len(ds) /\ ds' = SubSeq(ds, 1, Len(ds'))
    /\ Len(rs') <= Len(rs) /\ rs' = SubSeq(rs, 1, Len(rs'))

\* An opcode that leaves the frames alone.
Plain == StacksAfter /\ BelowFrame /\ UNCHANGED exec /\ (err' # "OK" => PopsOnly)

\* An opcode in which the task was switched.
Switched ==
    /\ StacksAfter
    /\ kept' = [n \in 1..Len(kept) |-> << >>]
    /\ UNCHANGED <<fp, calls, snap>>

-----------------------------------------------------------------------------
(* Facts about the helpers *)

LEMMA PrefixFacts ==
    ASSUME NEW S, NEW s \in Seq(S), NEW k \in 0..Len(s)
    PROVE  /\ SubSeq(s, 1, k) \in Seq(S)
           /\ Len(SubSeq(s, 1, k)) = k
           /\ \A j \in 1..k : SubSeq(s, 1, k)[j] = s[j]
OBVIOUS

LEMMA WholeSeq == ASSUME NEW S, NEW s \in Seq(S) PROVE SubSeq(s, 1, Len(s)) = s
OBVIOUS

LEMMA ConcatFacts ==
    ASSUME NEW S, NEW s \in Seq(S), NEW t \in Seq(S)
    PROVE  s \o t \in Seq(S) /\ Len(s \o t) = Len(s) + Len(t)
OBVIOUS

LEMMA EmptySeq ==
    ASSUME NEW S, NEW s \in Seq(S) PROVE s = << >> <=> Len(s) = 0
OBVIOUS

LEMMA NothingFits ==
    << >> \in Seq(Cells) /\ Len(<< >>) <= DsCap /\ Len(<< >>) <= RsCap
BY CapAssumption

LEMMA RestFacts ==
    ASSUME ds \in Seq(Cells), Len(ds) <= DsCap, NEW n \in Nat, n <= Len(ds)
    PROVE  /\ Rest(n) \in Seq(Cells) /\ Len(Rest(n)) = Len(ds) - n
           /\ Len(Rest(n)) <= DsCap
           /\ \A j \in 1..Len(Rest(n)) : Rest(n)[j] = ds[j]
<1>1. Len(ds) - n \in 0..Len(ds)
  OBVIOUS
<1>2. QED
  BY <1>1, PrefixFacts, CapAssumption DEF Rest

LEMMA TopFacts ==
    ASSUME ds \in Seq(Cells), NEW i \in Nat, i < Len(ds)
    PROVE  Top(i) \in Cells
<1>1. Len(ds) - i \in 1..Len(ds)
  OBVIOUS
<1>2. QED
  BY <1>1 DEF Top

LEMMA SmallModulus ==
    ASSUME NEW n \in Nat, NEW m \in Nat \ {0}, n < m
    PROVE  n % m = n
OBVIOUS

\* The two outcomes of an opcode establish what StacksAfter says.
LEMMA ContinueFacts ==
    ASSUME TypeOK, Codes, phase = "running",
           NEW d \in Seq(Cells), Len(d) <= DsCap,
           NEW r \in Seq(Cells), Len(r) <= RsCap,
           Continue(d, r)
    PROVE  StacksAfter /\ ds' = d /\ rs' = r /\ err' = "OK"
BY DEF TypeOK, Codes, ReportedOnce, Continue, status, StacksAfter

LEMMA FailFacts ==
    ASSUME Codes, phase = "running",
           NEW d \in Seq(Cells), Len(d) <= DsCap,
           NEW r \in Seq(Cells), Len(r) <= RsCap,
           NEW e \in Errors, Fail(e, d, r)
    PROVE  StacksAfter /\ ds' = d /\ rs' = r
<1>1. panics = << >>
  BY DEF Codes, ReportedOnce
<1>2. /\ ds' = d /\ rs' = r /\ phase' = "returning" /\ err' = e
      /\ panics' = IF e \in Unreported THEN << >> ELSE <<Report(e, d)>>
  BY <1>1 DEF Fail
<1>3. e # "OK"
  BY DEF Errors
<1>4. QED
  BY <1>2, <1>3 DEF StacksAfter

LEMMA UnderflowFacts ==
    ASSUME TypeOK, Codes, phase = "running", Underflow
    PROVE  StacksAfter /\ ds' = << >> /\ rs' = rs
<1>1. << >> \in Seq(Cells) /\ Len(<< >>) <= DsCap
  BY NothingFits
<1>2. "StackUnderflow" \in Errors
  BY DEF Errors
<1>3. QED
  BY <1>1, <1>2, FailFacts DEF Underflow, TypeOK

LEMMA PushOnFacts ==
    ASSUME TypeOK, Codes, phase = "running",
           NEW d \in Seq(Cells), Len(d) <= DsCap, NEW v \in Cells,
           PushOn(d, v)
    PROVE  /\ StacksAfter /\ rs' = rs
           /\ err' # "OK" => ds' = d
<1>1. CASE Len(d) < DsCap
  <2>1. Append(d, v) \in Seq(Cells) /\ Len(Append(d, v)) <= DsCap
    BY <1>1, CapAssumption
  <2>2. Continue(Append(d, v), rs)
    BY <1>1 DEF PushOn
  <2>3. QED
    BY <2>1, <2>2, ContinueFacts DEF TypeOK
<1>2. CASE ~(Len(d) < DsCap)
  <2>1. Fail("StackOverflow", d, rs) /\ "StackOverflow" \in Errors
    BY <1>2 DEF PushOn, Errors
  <2>2. QED
    BY <2>1, FailFacts DEF TypeOK
<1>3. QED
  BY <1>1, <1>2

LEMMA SameReturnStack == ASSUME TypeOK, rs' = rs PROVE BelowFrame
BY DEF TypeOK, BelowFrame

LEMMA EmptyPops ==
    ASSUME TypeOK, ds' = << >>, rs' = rs
    PROVE  PopsOnly
<1>1. SubSeq(ds, 1, 0) = << >>
  BY DEF TypeOK
<1>2. SubSeq(rs, 1, Len(rs)) = rs
  BY WholeSeq DEF TypeOK
<1>3. QED
  BY <1>1, <1>2 DEF PopsOnly, TypeOK

LEMMA RestPops ==
    ASSUME TypeOK, NEW n \in Nat, n <= Len(ds), ds' = Rest(n), rs' = rs
    PROVE  PopsOnly
<1>1. Len(Rest(n)) = Len(ds) - n
  BY RestFacts DEF TypeOK
<1>2. SubSeq(rs, 1, Len(rs)) = rs
  BY WholeSeq DEF TypeOK
<1>3. QED
  BY <1>1, <1>2 DEF PopsOnly, Rest, TypeOK

LEMMA SamePops ==
    ASSUME TypeOK, ds' = ds, rs' = rs
    PROVE  PopsOnly
<1>1. SubSeq(ds, 1, Len(ds)) = ds /\ SubSeq(rs, 1, Len(rs)) = rs
  BY WholeSeq DEF TypeOK
<1>2. QED
  BY <1>1 DEF PopsOnly, TypeOK

\* An opcode that pops n cells and underflows, and one that pushes after n pops.
LEMMA UnderflowPlain ==
    ASSUME TypeOK, Codes, phase = "running", Underflow, UNCHANGED exec
    PROVE  Plain
BY UnderflowFacts, SameReturnStack, EmptyPops DEF Plain

LEMMA PushRestPlain ==
    ASSUME TypeOK, Codes, phase = "running", UNCHANGED exec,
           NEW n \in Nat, n <= Len(ds), NEW v \in Cells, PushOn(Rest(n), v)
    PROVE  Plain
<1>1. StacksAfter /\ rs' = rs /\ (err' # "OK" => ds' = Rest(n))
  BY RestFacts, PushOnFacts DEF TypeOK
<1>2. QED
  BY <1>1, SameReturnStack, RestPops DEF Plain

LEMMA PushPlain ==
    ASSUME TypeOK, Codes, phase = "running", UNCHANGED exec,
           NEW v \in Cells, PushOn(ds, v)
    PROVE  Plain
<1>1. StacksAfter /\ rs' = rs /\ (err' # "OK" => ds' = ds)
  BY PushOnFacts DEF TypeOK
<1>2. QED
  BY <1>1, SameReturnStack, SamePops DEF Plain

LEMMA RestPlain ==
    ASSUME TypeOK, Codes, phase = "running", UNCHANGED exec,
           NEW n \in Nat, n <= Len(ds),
           Continue(Rest(n), rs) \/ \E e \in Errors : Fail(e, Rest(n), rs)
    PROVE  Plain
<1>1. StacksAfter /\ rs' = rs /\ ds' = Rest(n)
  BY RestFacts, ContinueFacts, FailFacts DEF TypeOK
<1>2. QED
  BY <1>1, SameReturnStack, RestPops DEF Plain

LEMMA FailPlain ==
    ASSUME TypeOK, Codes, phase = "running", UNCHANGED exec,
           NEW e \in Errors, Fail(e, ds, rs)
    PROVE  Plain
<1>1. StacksAfter /\ rs' = rs /\ ds' = ds
  BY FailFacts DEF TypeOK
<1>2. QED
  BY <1>1, SameReturnStack, SamePops DEF Plain

-----------------------------------------------------------------------------
(* One lemma per group of opcodes *)

LEMMA DataOpcodes ==
    ASSUME TypeOK, Codes, phase = "running",
           \/ \E v \in Cells : Lit(v)
           \/ \E i \in 0..1 : Pick(i)
           \/ \E n \in 1..2 : Discard(n)
           \/ \E n \in 1..4, v \in Cells : Compute(n, v)
           \/ Select
           \/ RFetch
    PROVE  Plain
<1>1. ASSUME NEW v \in Cells, Lit(v) PROVE Plain
  BY <1>1, PushPlain DEF Lit
<1>2. ASSUME NEW i \in 0..1, Pick(i) PROVE Plain
  <2>1. CASE Len(ds) <= i
    BY <1>2, <2>1, FailPlain DEF Pick, Errors
  <2>2. CASE ~(Len(ds) <= i)
    <3>1. Top(i) \in Cells
      BY <2>2, TopFacts DEF TypeOK
    <3>2. QED
      BY <1>2, <2>2, <3>1, PushPlain DEF Pick
  <2>3. QED
    BY <2>1, <2>2
<1>3. ASSUME NEW n \in 1..2, Discard(n) PROVE Plain
  <2>1. CASE Len(ds) < n
    BY <1>3, <2>1, UnderflowPlain DEF Discard
  <2>2. CASE ~(Len(ds) < n)
    BY <1>3, <2>2, RestPlain DEF Discard, TypeOK
  <2>3. QED
    BY <2>1, <2>2
<1>4. ASSUME NEW n \in 1..4, NEW v \in Cells, Compute(n, v) PROVE Plain
  <2>1. CASE Len(ds) < n
    BY <1>4, <2>1, UnderflowPlain DEF Compute
  <2>2. CASE ~(Len(ds) < n)
    BY <1>4, <2>2, PushRestPlain DEF Compute, TypeOK
  <2>3. QED
    BY <2>1, <2>2
<1>5. ASSUME Select PROVE Plain
  <2>1. CASE Len(ds) < 3
    BY <1>5, <2>1, UnderflowPlain DEF Select
  <2>2. CASE ~(Len(ds) < 3)
    <3>1. Top(0) \in Cells /\ Top(1) \in Cells
      BY <2>2, TopFacts DEF TypeOK
    <3>2. PICK v \in Cells : PushOn(Rest(3), v)
      BY <1>5, <2>2, <3>1 DEF Select
    <3>3. 3 \in Nat /\ 3 <= Len(ds) /\ UNCHANGED exec
      BY <1>5, <2>2 DEF Select, TypeOK
    <3>4. QED
      BY <3>2, <3>3, PushRestPlain
  <2>3. QED
    BY <2>1, <2>2
<1>6. ASSUME RFetch PROVE Plain
  <2>1. CASE rs = << >>
    BY <1>6, <2>1, FailPlain DEF RFetch, Errors
  <2>2. CASE rs # << >>
    <3>1. rs[Len(rs)] \in Cells
      BY <2>2 DEF TypeOK
    <3>2. QED
      BY <1>6, <2>2, <3>1, PushPlain DEF RFetch
  <2>3. QED
    BY <2>1, <2>2
<1>7. QED
  BY <1>1, <1>2, <1>3, <1>4, <1>5, <1>6

LEMMA SwapOpcode ==
    ASSUME TypeOK, Codes, phase = "running", Swap
    PROVE  Plain
<1>1. CASE Len(ds) < 2
  BY <1>1, UnderflowPlain DEF Swap
<1>2. CASE ~(Len(ds) < 2)
  <2>1. Top(0) \in Cells /\ Top(1) \in Cells
    BY <1>2, TopFacts DEF TypeOK
  <2>2. Rest(2) \in Seq(Cells) /\ Len(Rest(2)) = Len(ds) - 2
    BY <1>2, RestFacts DEF TypeOK
  <2>3. /\ Rest(2) \o <<Top(0), Top(1)>> \in Seq(Cells)
        /\ Len(Rest(2) \o <<Top(0), Top(1)>>) <= DsCap
    BY <1>2, <2>1, <2>2, CapAssumption DEF TypeOK
  <2>4. StacksAfter /\ rs' = rs /\ err' = "OK"
    BY <1>2, <2>3, ContinueFacts DEF Swap, TypeOK
  <2>5. QED
    BY <2>4, SameReturnStack DEF Plain, Swap
<1>3. QED
  BY <1>1, <1>2

LEMMA RefusedOpcodes ==
    ASSUME TypeOK, Codes, phase = "running",
           NEW n \in Nat, NEW e \in Errors, Reject(n, e)
    PROVE  Plain
<1>1. CASE Len(ds) < n
  BY <1>1, UnderflowPlain DEF Reject
<1>2. CASE ~(Len(ds) < n)
  BY <1>2, RestPlain DEF Reject, TypeOK
<1>3. QED
  BY <1>1, <1>2

LEMMA PushMessageFacts ==
    ASSUME TypeOK, Codes, phase = "running",
           NEW d \in Seq(Cells), Len(d) <= DsCap,
           NEW r \in Seq(Cells), Len(r) <= RsCap,
           NEW msg \in Seq(Cells), Len(msg) = 3, PushMessage(d, r, msg)
    PROVE  StacksAfter /\ rs' = r
<1>1. CASE Len(d) + 3 <= DsCap
  <2>1. d \o msg \in Seq(Cells) /\ Len(d \o msg) = Len(d) + 3
    BY ConcatFacts
  <2>2. Continue(d \o msg, r)
    BY <1>1 DEF PushMessage
  <2>3. QED
    BY <1>1, <2>1, <2>2, ContinueFacts
<1>2. CASE ~(Len(d) + 3 <= DsCap)
  <2> DEFINE room == DsCap - Len(d)
  <2>1. room \in 0..Len(msg)
    BY <1>2, CapAssumption
  <2>2. SubSeq(msg, 1, room) \in Seq(Cells) /\ Len(SubSeq(msg, 1, room)) = room
    BY <2>1, PrefixFacts
  <2>3. /\ d \o SubSeq(msg, 1, room) \in Seq(Cells)
        /\ Len(d \o SubSeq(msg, 1, room)) <= DsCap
    BY <2>1, <2>2, CapAssumption
  <2>4. /\ Fail("StackOverflow", d \o SubSeq(msg, 1, room), r)
        /\ "StackOverflow" \in Errors
    BY <1>2 DEF PushMessage, Errors
  <2>5. QED
    BY <2>3, <2>4, FailFacts
<1>3. QED
  BY <1>1, <1>2

LEMMA ReceiveOpcode ==
    ASSUME TypeOK, Codes, phase = "running",
           NEW d \in Cells, NEW s \in Cells, NEW r \in Cells,
           TaskReceive(d, s, r)
    PROVE  StacksAfter /\ BelowFrame /\ UNCHANGED exec
<1>1. CASE ds = << >>
  BY <1>1, UnderflowPlain DEF TaskReceive, Plain
<1>2. CASE ds # << >>
  <2>1. 1 <= Len(ds)
    BY <1>2 DEF TypeOK
  <2>2. Rest(1) \in Seq(Cells) /\ Len(Rest(1)) <= DsCap
    BY <2>1, RestFacts DEF TypeOK
  <2>3. <<d, s, r>> \in Seq(Cells) /\ Len(<<d, s, r>>) = 3
    OBVIOUS
  <2>4. PushMessage(Rest(1), rs, <<d, s, r>>) /\ UNCHANGED exec
    BY <1>2 DEF TaskReceive
  <2>5. QED
    BY <2>2, <2>3, <2>4, PushMessageFacts, SameReturnStack DEF TypeOK
<1>3. QED
  BY <1>1, <1>2

\* The stacks of another task are stacks.
LEMMA SwitchFacts ==
    ASSUME Codes, phase = "running", NEW s \in Saved, Switch(s),
           UNCHANGED <<err, panics>>, phase' \in {"running", "returning"}
    PROVE  Switched
<1>1. err = "OK" /\ panics = << >>
  BY DEF Codes, ReportedOnce
<1>2. QED
  BY <1>1, SavedAssumption DEF Switch, Switched, StacksAfter

LEMMA StayFacts ==
    ASSUME TypeOK, Codes, phase = "running", NEW d \in {ds, Rest(1)},
           d = ds \/ ds # << >>, Stay(d),
           UNCHANGED <<err, panics>>, phase' \in {"running", "returning"}
    PROVE  Plain
<1>1. err = "OK" /\ panics = << >>
  BY DEF Codes, ReportedOnce
<1>2. d \in Seq(Cells) /\ Len(d) <= DsCap
  <2>1. CASE d = ds
    BY <2>1 DEF TypeOK
  <2>2. CASE d = Rest(1) /\ ds # << >>
    <3>1. 1 <= Len(ds)
      BY <2>2 DEF TypeOK
    <3>2. QED
      BY <2>2, <3>1, RestFacts DEF TypeOK
  <2>3. QED
    BY <2>1, <2>2
<1>3. StacksAfter /\ rs' = rs
  BY <1>1, <1>2 DEF Stay, StacksAfter, TypeOK
<1>4. QED
  BY <1>1, <1>3, SameReturnStack DEF Plain, Stay

LEMMA SwitchOpcodes ==
    ASSUME TypeOK, Codes, phase = "running", TaskYield \/ TaskSleep \/ TaskExit
    PROVE  Plain \/ (Switched /\ err' = "OK")
<1>1. CASE TaskSleep /\ ds = << >>
  BY <1>1, UnderflowPlain DEF TaskSleep
<1>2. CASE (TaskYield \/ TaskExit) \/ (TaskSleep /\ ds # << >>)
  <2>1. UNCHANGED <<err, panics>> /\ phase' \in {"running", "returning"}
    BY <1>2 DEF TaskYield, TaskSleep, TaskExit, status
  <2>2. \/ \E d \in {ds, Rest(1)} : (d = ds \/ ds # << >>) /\ Stay(d)
        \/ \E s \in Saved : Switch(s)
    BY <1>2 DEF TaskYield, TaskSleep, TaskExit
  <2>3. ASSUME NEW d \in {ds, Rest(1)}, d = ds \/ ds # << >>, Stay(d) PROVE Plain
    BY <2>1, <2>3, StayFacts
  <2>4. ASSUME NEW s \in Saved, Switch(s) PROVE Switched /\ err' = "OK"
    BY <2>1, <2>4, SwitchFacts DEF Codes
  <2>5. QED
    BY <2>2, <2>3, <2>4
<1>3. QED
  BY <1>1, <1>2

LEMMA BlockingOpcode ==
    ASSUME TypeOK, Codes, phase = "running",
           NEW msg \in Seq(Cells), Len(msg) = 3, TaskReceiveBlocking(msg)
    PROVE  (StacksAfter /\ BelowFrame /\ UNCHANGED exec) \/ Switched
<1>1. CASE Len(ds) < 2 /\ Underflow /\ UNCHANGED exec
  BY <1>1, UnderflowPlain DEF Plain
<1>2. CASE Len(ds) >= 2 /\ PushMessage(Rest(2), rs, msg) /\ UNCHANGED exec
  <2>1. Rest(2) \in Seq(Cells) /\ Len(Rest(2)) <= DsCap
    BY <1>2, RestFacts DEF TypeOK
  <2>2. StacksAfter /\ rs' = rs
    BY <1>2, <2>1, PushMessageFacts DEF TypeOK
  <2>3. QED
    BY <1>2, <2>2, SameReturnStack
<1>3. ASSUME NEW s \in Saved, PushMessage(s.ds, s.rs, msg)
      PROVE  StacksAfter
  BY <1>3, SavedAssumption, PushMessageFacts
<1>4. CASE /\ \E s \in Saved : PushMessage(s.ds, s.rs, msg)
           /\ kept' = [n \in 1..Len(kept) |-> << >>]
           /\ UNCHANGED <<fp, calls, snap>>
  BY <1>3, <1>4 DEF Switched
<1>5. QED
  BY <1>1, <1>2, <1>4 DEF TaskReceiveBlocking

LEMMA ToROpcode ==
    ASSUME TypeOK, Codes, phase = "running", ToR
    PROVE  Plain
<1>1. CASE ds = << >>
  BY <1>1, UnderflowPlain DEF ToR
<1>2. CASE ds # << >> /\ Len(rs) < RsCap
  <2>1. 1 <= Len(ds) /\ 0 < Len(ds)
    BY <1>2 DEF TypeOK
  <2>2. Top(0) \in Cells /\ Rest(1) \in Seq(Cells) /\ Len(Rest(1)) <= DsCap
    BY <2>1, TopFacts, RestFacts DEF TypeOK
  <2>3. Append(rs, Top(0)) \in Seq(Cells) /\ Len(Append(rs, Top(0))) <= RsCap
    BY <1>2, <2>2, CapAssumption DEF TypeOK
  <2>4. StacksAfter /\ rs' = Append(rs, Top(0)) /\ err' = "OK"
    BY <1>2, <2>2, <2>3, ContinueFacts DEF ToR
  <2>5. BelowFrame
    BY <2>2, <2>4 DEF BelowFrame, TypeOK
  <2>6. QED
    BY <2>4, <2>5 DEF Plain, ToR
<1>3. CASE ds # << >> /\ ~(Len(rs) < RsCap)
  <2>1. 1 <= Len(ds)
    BY <1>3 DEF TypeOK
  <2>2. "StackOverflow" \in Errors /\ Fail("StackOverflow", Rest(1), rs) /\ UNCHANGED exec
    BY <1>3 DEF ToR, Errors
  <2>3. QED
    BY <2>1, <2>2, RestPlain
<1>4. QED
  BY <1>1, <1>2, <1>3

\* A write to a local stays above the frame pointer.
LEMMA LocalWrite ==
    ASSUME TypeOK, NEW i \in Nat, IsLocal(i), NEW v \in Cells
    PROVE  /\ WithLocal(i, v) \in Seq(Cells)
           /\ Len(WithLocal(i, v)) <= RsCap
           /\ rs' = WithLocal(i, v) => BelowFrame
<1>1. fp \in Nat /\ fp + i + 1 \in 1..Len(rs) /\ fp + i + 1 > fp
  BY CapAssumption DEF IsLocal, TypeOK
<1>2. WithLocal(i, v) \in Seq(Cells) /\ Len(WithLocal(i, v)) = Len(rs)
  BY <1>1 DEF WithLocal, TypeOK
<1>3. \A j \in 1..Len(rs) : j <= fp => WithLocal(i, v)[j] = rs[j]
  BY <1>1 DEF WithLocal, TypeOK
<1>4. QED
  BY <1>2, <1>3 DEF BelowFrame, TypeOK

LEMMA NoLocalPlain ==
    ASSUME TypeOK, Codes, phase = "running", NEW i \in Nat, NoLocal(i),
           UNCHANGED exec
    PROVE  Plain
<1>1. CASE fp = Null
  BY <1>1, FailPlain DEF NoLocal, Errors
<1>2. CASE fp # Null
  BY <1>2, FailPlain DEF NoLocal, Errors
<1>3. QED
  BY <1>1, <1>2

LEMMA LocalOpcodes ==
    ASSUME TypeOK, Codes, phase = "running", NEW i \in Nat,
           \/ LGet(i) \/ LSet(i) \/ LTee(i)
           \/ \E v \in Cells : LStep(i, v)
    PROVE  Plain
<1>1. UNCHANGED exec
  BY DEF LGet, LSet, LTee, LStep
<1>2. CASE NoLocal(i)
  BY <1>1, <1>2, NoLocalPlain
<1>3. CASE IsLocal(i) /\ LGet(i)
  <2>1. ~NoLocal(i)
    BY <1>3 DEF NoLocal
  <2>2. PushOn(ds, rs[fp + i + 1])
    BY <1>3, <2>1 DEF LGet
  <2>3. rs[fp + i + 1] \in Cells
    <3>1. fp + i + 1 \in 1..Len(rs)
      BY <1>3, CapAssumption DEF IsLocal, TypeOK
    <3>2. QED
      BY <3>1 DEF TypeOK
  <2>4. QED
    BY <1>1, <2>2, <2>3, PushPlain
<1>4. CASE IsLocal(i) /\ ds = << >> /\ (LSet(i) \/ LTee(i))
  <2>1. Underflow
    BY <1>4 DEF LSet, LTee, NoLocal
  <2>2. QED
    BY <1>1, <2>1, UnderflowPlain
<1>5. CASE IsLocal(i) /\ ds # << >> /\ (LSet(i) \/ LTee(i))
  <2>1. 1 <= Len(ds) /\ 0 < Len(ds)
    BY <1>5 DEF TypeOK
  <2>2. Top(0) \in Cells /\ Rest(1) \in Seq(Cells) /\ Len(Rest(1)) <= DsCap
    BY <2>1, TopFacts, RestFacts DEF TypeOK
  <2>3. PICK d \in {ds, Rest(1)} : Continue(d, WithLocal(i, Top(0)))
    BY <1>5 DEF LSet, LTee, NoLocal
  <2>4. d \in Seq(Cells) /\ Len(d) <= DsCap
    BY <2>2 DEF TypeOK
  <2>5. StacksAfter /\ rs' = WithLocal(i, Top(0)) /\ err' = "OK"
    BY <1>5, <2>2, <2>3, <2>4, LocalWrite, ContinueFacts
  <2>6. BelowFrame
    BY <1>5, <2>2, <2>5, LocalWrite
  <2>7. QED
    BY <1>1, <2>5, <2>6 DEF Plain
<1>6. ASSUME IsLocal(i), NEW v \in Cells, LStep(i, v) PROVE Plain
  <2>1. Continue(ds, WithLocal(i, v))
    BY <1>6 DEF LStep, NoLocal
  <2>2. StacksAfter /\ rs' = WithLocal(i, v) /\ err' = "OK"
    BY <1>6, <2>1, LocalWrite, ContinueFacts DEF TypeOK
  <2>3. BelowFrame
    BY <1>6, <2>2, LocalWrite
  <2>4. QED
    BY <1>1, <2>2, <2>3 DEF Plain
<1>7. CASE ~IsLocal(i)
  <2>1. NoLocal(i)
    BY <1>7 DEF LGet, LSet, LTee, LStep
  <2>2. QED
    BY <1>2, <2>1
<1>8. QED
  BY <1>3, <1>4, <1>5, <1>6, <1>7

-----------------------------------------------------------------------------
(* The invariant through every step *)

LEMMA InitInv == Init => IInv
BY CapAssumption DEF Init, IInv, TypeOK, Codes, ReportedOnce, FramesAbove, CellsKept

\* An opcode that keeps the cells below the frame keeps what callers left.
LEMMA BelowFrameInv ==
    ASSUME IInv, phase = "running", StacksAfter, BelowFrame, UNCHANGED exec
    PROVE  IInv'
<1>1. TypeOK'
  BY DEF IInv, TypeOK, StacksAfter, exec
<1>2. Codes'
  BY DEF IInv, Codes, ReportedOnce, Report, StacksAfter, exec
<1>3. FramesAbove'
  BY DEF IInv, FramesAbove, exec
<1>4. CellsKept'
  <2>1. SUFFICES ASSUME NEW n \in 1..Len(kept)
                 PROVE  /\ Len(kept[n]) <= Len(rs')
                        /\ \A j \in 1..Len(kept[n]) : rs'[j] = kept[n][j]
    BY DEF CellsKept, exec
  <2>2. /\ kept[n] \in Seq(Cells) /\ Len(kept[n]) \in Nat /\ n \in 1..Len(calls)
        /\ Len(rs) \in Nat /\ Len(rs') \in Nat
    BY DEF IInv, TypeOK, StacksAfter
  <2>3. fp \in Nat /\ Len(kept[n]) <= fp
    BY <2>2 DEF IInv, FramesAbove
  <2>4. Len(kept[n]) <= Len(rs) /\ \A j \in 1..Len(kept[n]) : rs[j] = kept[n][j]
    BY DEF IInv, CellsKept
  <2>5. \A j \in 1..Len(kept[n]) : j <= Len(rs') /\ rs'[j] = rs[j]
    BY <2>2, <2>3, <2>4 DEF BelowFrame
  <2>6. Len(kept[n]) <= Len(rs')
    <3>1. CASE Len(kept[n]) = 0
      BY <2>2, <3>1
    <3>2. CASE Len(kept[n]) # 0
      BY <2>2, <2>5, <3>2
    <3>3. QED
      BY <3>1, <3>2
  <2>7. QED
    BY <2>4, <2>5, <2>6
<1>5. QED
  BY <1>1, <1>2, <1>3, <1>4 DEF IInv

\* After a switch nothing is kept for the callers.
LEMMA SwitchInv ==
    ASSUME IInv, phase = "running", Switched
    PROVE  IInv'
<1>1. /\ kept' = [n \in 1..Len(kept) |-> << >>]
      /\ fp' = fp /\ calls' = calls /\ snap' = snap
      /\ StacksAfter
  BY DEF Switched
<1>2. /\ kept' \in Seq(Seq(Cells)) /\ Len(kept') = Len(kept)
      /\ \A n \in 1..Len(kept') : kept'[n] = << >> /\ Len(kept'[n]) = 0
  BY <1>1 DEF IInv, TypeOK
<1>3. TypeOK'
  BY <1>1, <1>2 DEF IInv, TypeOK, StacksAfter
<1>4. Codes'
  BY <1>1 DEF IInv, Codes, ReportedOnce, Report, StacksAfter
<1>5. Len(kept) = Len(calls) /\ fp \in Nat \cup {Null}
  BY CapAssumption DEF IInv, TypeOK
<1>6. FramesAbove'
  <2>1. \A n \in 1..Len(calls) : Len(kept'[n]) <= fp'
    BY <1>1, <1>2, <1>5 DEF IInv, FramesAbove
  <2>2. \A n, m \in 1..Len(calls) : n < m => Len(kept'[n]) <= calls[m]
    BY <1>2, <1>5 DEF IInv, FramesAbove
  <2>3. QED
    BY <1>1, <2>1, <2>2 DEF IInv, FramesAbove
<1>7. CellsKept'
  BY <1>1, <1>2 DEF CellsKept, StacksAfter
<1>8. QED
  BY <1>3, <1>4, <1>6, <1>7 DEF IInv

\* FROMR takes the cell away from every caller that still had it.
LEMMA FromRInv ==
    ASSUME IInv, phase = "running", FromR
    PROVE  IInv' /\ (err' # "OK" => PopsOnly)
<1> DEFINE popped == SubSeq(rs, 1, Len(rs) - 1)
<1>1. CASE rs = << >>
  <2>1. /\ Fail("StackUnderflow", ds, rs) /\ "StackUnderflow" \in Errors
        /\ UNCHANGED exec
    BY <1>1 DEF FromR, Errors, exec
  <2>2. Plain
    BY <2>1, FailPlain DEF IInv
  <2>3. QED
    BY <2>2, BelowFrameInv DEF Plain
<1>2. CASE rs # << >>
  <2>1. Len(rs) \in Nat /\ Len(rs) > 0 /\ Len(rs) - 1 \in 0..Len(rs) /\ rs \in Seq(Cells)
    BY <1>2 DEF IInv, TypeOK
  <2>2. /\ popped \in Seq(Cells) /\ Len(popped) = Len(rs) - 1
        /\ \A j \in 1..(Len(rs) - 1) : popped[j] = rs[j]
    BY <2>1, PrefixFacts
  <2>3. rs[Len(rs)] \in Cells /\ Len(popped) <= RsCap
    BY <2>1, <2>2, CapAssumption DEF IInv, TypeOK
  <2>4. StacksAfter /\ rs' = popped /\ (err' # "OK" => ds' = ds)
    <3>1. CASE Len(ds) < DsCap
      <4>1. /\ Append(ds, rs[Len(rs)]) \in Seq(Cells)
            /\ Len(Append(ds, rs[Len(rs)])) <= DsCap
        BY <2>3, <3>1, CapAssumption DEF IInv, TypeOK
      <4>2. Continue(Append(ds, rs[Len(rs)]), popped)
        BY <1>2, <3>1 DEF FromR
      <4>3. QED
        BY <2>2, <2>3, <4>1, <4>2, ContinueFacts DEF IInv
    <3>2. CASE ~(Len(ds) < DsCap)
      <4>1. Fail("StackOverflow", ds, popped) /\ "StackOverflow" \in Errors
        BY <1>2, <3>2 DEF FromR, Errors
      <4>2. QED
        BY <2>2, <2>3, <4>1, FailFacts DEF IInv, TypeOK
    <3>3. QED
      BY <3>1, <3>2
  <2>5. /\ kept' = [n \in 1..Len(kept) |->
                      IF Len(kept[n]) < Len(rs) THEN kept[n] ELSE popped]
        /\ UNCHANGED <<fp, calls, snap>>
    BY <1>2 DEF FromR
  <2>6. \A n \in 1..Len(kept) :
            /\ kept[n] \in Seq(Cells) /\ Len(kept[n]) \in Nat
            /\ Len(kept[n]) <= Len(rs)
            /\ \A j \in 1..Len(kept[n]) : rs[j] = kept[n][j]
    BY DEF IInv, TypeOK, CellsKept
  <2>7. /\ kept' \in Seq(Seq(Cells)) /\ Len(kept') = Len(kept)
        /\ \A n \in 1..Len(kept) :
              kept'[n] = IF Len(kept[n]) < Len(rs) THEN kept[n] ELSE popped
    BY <2>2, <2>5, <2>6 DEF IInv, TypeOK
  <2>8. \A n \in 1..Len(kept) :
            /\ Len(kept'[n]) <= Len(kept[n]) /\ Len(kept'[n]) <= Len(popped)
            /\ Len(kept'[n]) \in Nat
            /\ \A j \in 1..Len(kept'[n]) : popped[j] = kept'[n][j]
    <3>1. SUFFICES ASSUME NEW n \in 1..Len(kept)
                   PROVE  /\ Len(kept'[n]) <= Len(kept[n])
                          /\ Len(kept'[n]) <= Len(popped)
                          /\ Len(kept'[n]) \in Nat
                          /\ \A j \in 1..Len(kept'[n]) : popped[j] = kept'[n][j]
      OBVIOUS
    <3>2. CASE Len(kept[n]) < Len(rs)
      <4>1. kept'[n] = kept[n]
        BY <2>7, <3>2
      <4>2. QED
        BY <2>1, <2>2, <2>6, <3>2, <4>1
    <3>3. CASE ~(Len(kept[n]) < Len(rs))
      <4>1. kept'[n] = popped
        BY <2>7, <3>3
      <4>2. QED
        BY <2>1, <2>2, <2>6, <3>3, <4>1
    <3>4. QED
      BY <3>2, <3>3
  <2>9. TypeOK'
    BY <2>4, <2>5, <2>7 DEF IInv, TypeOK, StacksAfter
  <2>10. Codes'
    BY <2>4, <2>5 DEF IInv, Codes, ReportedOnce, Report, StacksAfter
  <2>11. FramesAbove'
    <3>1. \A n \in 1..Len(calls) :
              /\ Len(kept'[n]) <= Len(kept[n])
              /\ Len(kept'[n]) \in Nat /\ Len(kept[n]) \in Nat
      BY <2>6, <2>8 DEF IInv, TypeOK
    <3>2. \A n \in 1..Len(calls) : Len(kept'[n]) <= fp
      BY <3>1 DEF IInv, FramesAbove
    <3>3. \A n, m \in 1..Len(calls) : n < m => Len(kept'[n]) <= calls[m]
      <4>1. SUFFICES ASSUME NEW n \in 1..Len(calls), NEW m \in 1..Len(calls), n < m
                     PROVE  Len(kept'[n]) <= calls[m]
        OBVIOUS
      <4>2. calls[m] \in Nat /\ Len(kept[n]) <= calls[m]
        BY <4>1 DEF IInv, FramesAbove, TypeOK
      <4>3. QED
        BY <3>1, <4>2
    <3>4. QED
      BY <2>5, <3>2, <3>3 DEF IInv, FramesAbove
  <2>12. CellsKept'
    BY <2>4, <2>7, <2>8 DEF CellsKept
  <2>13. ASSUME err' # "OK" PROVE PopsOnly
    <3>1. SubSeq(ds, 1, Len(ds)) = ds
      BY WholeSeq DEF IInv, TypeOK
    <3>2. QED
      BY <2>1, <2>2, <2>4, <2>13, <3>1 DEF PopsOnly, IInv, TypeOK
  <2>14. QED
    BY <2>9, <2>10, <2>11, <2>12, <2>13 DEF IInv
<1>3. QED
  BY <1>1, <1>2

LEMMA CallInv ==
    ASSUME IInv, phase = "running", Call
    PROVE  IInv'
<1> DEFINE L == Len(calls)
<1>1. /\ L \in Nat /\ Len(kept) = L /\ Len(rs) \in 0..RsCap
      /\ rs \in Seq(Cells) /\ kept \in Seq(Seq(Cells))
      /\ fp \in (0..RsCap) \cup {Null}
      /\ calls \in Seq((0..RsCap) \cup {Null})
  BY CapAssumption DEF IInv, TypeOK
<1>2. /\ calls' = Append(calls, fp) /\ fp' = Len(rs) /\ kept' = Append(kept, rs)
      /\ UNCHANGED <<ds, rs, phase, err, panics, snap>>
  BY DEF Call, status
<1>3. /\ Len(calls') = L + 1 /\ Len(kept') = L + 1
      /\ \A m \in 1..L : calls'[m] = calls[m] /\ kept'[m] = kept[m]
      /\ calls'[L + 1] = fp /\ kept'[L + 1] = rs
      /\ calls' \in Seq((0..RsCap) \cup {Null}) /\ kept' \in Seq(Seq(Cells))
  BY <1>1, <1>2
<1>4. TypeOK'
  BY <1>1, <1>2, <1>3 DEF IInv, TypeOK
<1>5. Codes'
  BY <1>2 DEF IInv, Codes, ReportedOnce, Report
<1>6. FramesAbove'
  <2>1. calls'[1] = Null
    <3>1. CASE L = 0
      BY <1>1, <1>3, <3>1 DEF IInv, FramesAbove
    <3>2. CASE L # 0
      BY <1>1, <1>3, <3>2 DEF IInv, FramesAbove
    <3>3. QED
      BY <3>1, <3>2
  <2>2. \A m \in 1..(L + 1) : m > 1 => calls'[m] \in Nat
    <3>1. SUFFICES ASSUME NEW m \in 1..(L + 1), m > 1 PROVE calls'[m] \in Nat
      OBVIOUS
    <3>2. CASE m = L + 1
      BY <1>1, <1>3, <3>1, <3>2 DEF IInv, FramesAbove
    <3>3. CASE m # L + 1
      <4>1. m \in 1..L /\ calls'[m] = calls[m]
        BY <1>1, <1>3, <3>3
      <4>2. QED
        BY <3>1, <4>1 DEF IInv, FramesAbove
    <3>4. QED
      BY <3>2, <3>3
  <2>3. \A n \in 1..(L + 1) : Len(kept'[n]) <= fp'
    <3>1. SUFFICES ASSUME NEW n \in 1..(L + 1) PROVE Len(kept'[n]) <= fp'
      OBVIOUS
    <3>2. CASE n = L + 1
      BY <1>1, <1>2, <1>3, <3>2
    <3>3. CASE n # L + 1
      <4>1. n \in 1..L /\ kept'[n] = kept[n]
        BY <1>1, <1>3, <3>3
      <4>2. Len(kept[n]) <= Len(rs)
        BY <1>1, <4>1 DEF IInv, CellsKept
      <4>3. QED
        BY <1>2, <4>1, <4>2
    <3>4. QED
      BY <3>2, <3>3
  <2>4. \A n, m \in 1..(L + 1) : n < m => Len(kept'[n]) <= calls'[m]
    <3>1. SUFFICES ASSUME NEW n \in 1..(L + 1), NEW m \in 1..(L + 1), n < m
                   PROVE  Len(kept'[n]) <= calls'[m]
      OBVIOUS
    <3>2. n \in 1..L
      BY <1>1, <3>1
    <3>3. CASE m = L + 1
      BY SMTT(30), <1>3, <3>2, <3>3 DEF IInv, FramesAbove
    <3>4. CASE m # L + 1
      <4>1. m \in 1..L /\ calls'[m] = calls[m] /\ kept'[n] = kept[n]
        BY SMTT(30), <1>1, <1>3, <3>2, <3>4
      <4>2. QED
        BY <3>1, <3>2, <4>1 DEF IInv, FramesAbove
    <3>5. QED
      BY <3>3, <3>4
  <2>5. QED
    BY <1>1, <1>2, <1>3, <2>1, <2>2, <2>3, <2>4 DEF FramesAbove
<1>7. CellsKept'
  <2>1. SUFFICES ASSUME NEW n \in 1..(L + 1)
                 PROVE  /\ Len(kept'[n]) <= Len(rs)
                        /\ \A j \in 1..Len(kept'[n]) : rs[j] = kept'[n][j]
    BY <1>2, <1>3 DEF CellsKept
  <2>2. CASE n = L + 1
    BY <1>1, <1>3, <2>2
  <2>3. CASE n # L + 1
    <3>1. n \in 1..Len(kept) /\ kept'[n] = kept[n]
      BY <1>1, <1>3, <2>3
    <3>2. QED
      BY <3>1 DEF IInv, CellsKept
  <2>4. QED
    BY <2>2, <2>3
<1>8. QED
  BY <1>4, <1>5, <1>6, <1>7 DEF IInv

LEMMA ReturnInv ==
    ASSUME IInv, Return
    PROVE  IInv'
<1> DEFINE L == Len(calls)
<1>1. /\ L \in Nat /\ L > 0 /\ L - 1 \in 0..L /\ Len(kept) = L
      /\ kept \in Seq(Seq(Cells))
      /\ calls \in Seq((0..RsCap) \cup {Null})
  BY DEF IInv, TypeOK, Return
<1>2. /\ fp' = calls[L] /\ calls' = SubSeq(calls, 1, L - 1)
      /\ kept' = SubSeq(kept, 1, L - 1)
      /\ phase' = IF err = "OK" THEN "running" ELSE "returning"
      /\ UNCHANGED <<ds, rs, err, panics, snap>>
  BY <1>1 DEF Return
<1>3. /\ Len(calls') = L - 1
      /\ \A m \in 1..(L - 1) : calls'[m] = calls[m]
      /\ calls' \in Seq((0..RsCap) \cup {Null})
  BY <1>1, <1>2, PrefixFacts
<1>4. /\ Len(kept') = L - 1
      /\ \A m \in 1..(L - 1) : kept'[m] = kept[m]
      /\ kept' \in Seq(Seq(Cells))
  BY <1>1, <1>2, PrefixFacts
<1>5. TypeOK'
  BY <1>1, <1>2, <1>3, <1>4 DEF IInv, TypeOK
<1>6. Codes'
  BY <1>2 DEF IInv, Codes, ReportedOnce, Report, Return
<1>7. FramesAbove'
  <2>1. CASE L = 1
    <3>1. calls' = << >> /\ Len(calls') = 0
      BY <1>1, <1>3, <2>1, EmptySeq
    <3>2. fp' = Null
      BY <1>1, <1>2, <2>1 DEF IInv, FramesAbove
    <3>3. QED
      BY <3>1, <3>2 DEF FramesAbove
  <2>2. CASE L # 1
    <3>1. fp' \in Nat /\ calls' # << >> /\ calls'[1] = Null
      <4>1. L \in 1..Len(calls) /\ L > 1 /\ 1 \in 1..(L - 1) /\ calls # << >>
        BY <1>1, <2>2
      <4>2. calls' # << >>
        BY <1>3, <4>1, EmptySeq
      <4>3. QED
        BY <1>2, <1>3, <4>1, <4>2 DEF IInv, FramesAbove
    <3>2. \A m \in 1..(L - 1) : m > 1 => calls'[m] \in Nat
      BY <1>1, <1>3 DEF IInv, FramesAbove
    <3>3. \A n \in 1..(L - 1) : Len(kept'[n]) <= fp'
      BY <1>1, <1>2, <1>4 DEF IInv, FramesAbove
    <3>4. \A n, m \in 1..(L - 1) : n < m => Len(kept'[n]) <= calls'[m]
      <4>1. \A n \in 1..(L - 1) : n \in 1..Len(calls)
        BY <1>1
      <4>2. QED
        BY <1>3, <1>4, <4>1 DEF IInv, FramesAbove
    <3>5. QED
      BY <1>3, <3>1, <3>2, <3>3, <3>4 DEF FramesAbove
  <2>3. QED
    BY <2>1, <2>2
<1>8. CellsKept'
  <2>1. SUFFICES ASSUME NEW n \in 1..(L - 1)
                 PROVE  /\ Len(kept[n]) <= Len(rs)
                        /\ \A j \in 1..Len(kept[n]) : rs[j] = kept[n][j]
    BY <1>2, <1>4 DEF CellsKept
  <2>2. n \in 1..Len(kept)
    BY <1>1
  <2>3. QED
    BY <2>2 DEF IInv, CellsKept
<1>9. QED
  BY <1>5, <1>6, <1>7, <1>8 DEF IInv

\* The host only acts when no call is active: there is nothing to keep.
LEMMA HostInv ==
    ASSUME IInv, phase = "idle", Host
    PROVE  IInv'
<1>1. calls = << >> /\ kept = << >> /\ fp = Null
  <2>1. calls = << >> /\ fp = Null
    BY DEF IInv, Codes, FramesAbove
  <2>2. kept \in Seq(Seq(Cells)) /\ Len(kept) = 0
    BY <2>1 DEF IInv, TypeOK
  <2>3. QED
    BY <2>1, <2>2, EmptySeq
<1>2. calls' = << >> /\ kept' = << >> /\ fp' = Null
  BY <1>1 DEF Host, Exec, ApiPush, ApiPop, ApiClear, ResetStacks, Snapshot,
              SnapshotFree, Restore, exec, status
<1>3. Codes' /\ FramesAbove' /\ CellsKept'
  <2>1. phase' \in {"idle", "running"} /\ err' \in Errors \cup {"OK"}
        /\ (phase' = "running" => err' = "OK") /\ panics' = << >>
    BY DEF IInv, Codes, ReportedOnce, Host, Exec, ApiPush, ApiPop, ApiClear,
           ResetStacks, Snapshot, SnapshotFree, Restore, status
  <2>2. QED
    BY <1>2, <2>1 DEF Codes, ReportedOnce, FramesAbove, CellsKept
<1>4. snap' \in Seq(Cells) \cup {Null} /\ (snap' # Null => Len(snap') <= DsCap)
  BY DEF IInv, TypeOK, Host, Exec, ApiPush, ApiPop, ApiClear, ResetStacks,
         Snapshot, SnapshotFree, Restore, exec
<1>5. rs' \in Seq(Cells) /\ Len(rs') <= RsCap
  <2>1. rs' = rs \/ rs' = << >>
    BY DEF Host, Exec, ApiPush, ApiPop, ApiClear, ResetStacks, Snapshot,
           SnapshotFree, Restore
  <2>2. QED
    BY <2>1, NothingFits DEF IInv, TypeOK
<1>6. ds' \in Seq(Cells) /\ Len(ds') <= DsCap
  <2>1. ASSUME NEW v \in Cells, ApiPush(v) PROVE ds' \in Seq(Cells) /\ Len(ds') <= DsCap
    BY <2>1, CapAssumption DEF IInv, TypeOK, ApiPush
  <2>2. CASE ApiPop
    <3>1. 1 <= Len(ds) /\ ds' = Rest(1)
      BY <2>2 DEF IInv, TypeOK, ApiPop
    <3>2. QED
      BY <3>1, RestFacts DEF IInv, TypeOK
  <2>3. CASE Exec \/ Snapshot \/ SnapshotFree
    BY <2>3 DEF IInv, TypeOK, Exec, Snapshot, SnapshotFree
  <2>4. CASE ApiClear \/ ResetStacks
    BY <2>4, NothingFits DEF ApiClear, ResetStacks
  <2>5. CASE Restore
    BY <2>5 DEF IInv, TypeOK, Restore
  <2>6. QED
    BY <2>1, <2>2, <2>3, <2>4, <2>5 DEF Host
<1>7. TypeOK'
  BY <1>2, <1>3, <1>4, <1>5, <1>6 DEF TypeOK, Codes
<1>8. QED
  BY <1>3, <1>7 DEF IInv

\* Every opcode but CALL, RET, FROMR and those that receive or switch is plain.
LEMMA StepShapes ==
    ASSUME IInv, phase = "running", Step
    PROVE  \/ Plain \/ FromR \/ Call \/ Ret
           \/ Switched /\ err' = "OK"
           \/ \E d, s, r \in Cells :
                 TaskReceive(d, s, r) \/ TaskReceiveBlocking(<<d, s, r>>)
<1>1. TypeOK /\ Codes
  BY DEF IInv
<1>2. ASSUME \/ \E v \in Cells : Lit(v)
             \/ \E i \in 0..1 : Pick(i)
             \/ \E n \in 1..2 : Discard(n)
             \/ \E n \in 1..4, v \in Cells : Compute(n, v)
             \/ Select
             \/ RFetch
      PROVE  Plain
  BY <1>1, <1>2, DataOpcodes
<1>3. ASSUME \/ \E e \in Refusals : Reject(0, e)
             \/ Reject(1, "JumpOutOfRange")
             \/ \E n \in 1..2, e \in {"OobMemory", "Unaligned"} : Reject(n, e)
             \/ DivByZero
      PROVE  Plain
  <2>1. PICK n \in Nat, e \in Errors : Reject(n, e)
    <3>1. Refusals \subseteq Errors
      BY DEF Refusals, Errors
    <3>2. CASE \E e \in Refusals : Reject(0, e)
      BY <3>1, <3>2
    <3>3. CASE Reject(1, "JumpOutOfRange") \/ Reject(2, "DivByZero")
      BY <3>3 DEF Errors
    <3>4. CASE \E n \in 1..2, e \in {"OobMemory", "Unaligned"} : Reject(n, e)
      BY <3>4 DEF Errors
    <3>5. QED
      BY <1>3, <3>2, <3>3, <3>4 DEF DivByZero
  <2>2. QED
    BY <1>1, <2>1, RefusedOpcodes
<1>4. ASSUME Swap \/ ToR PROVE Plain
  BY <1>1, <1>4, SwapOpcode, ToROpcode
<1>5. ASSUME \/ \E i \in Locals : LGet(i) \/ LSet(i) \/ LTee(i)
             \/ \E i \in Locals, v \in Cells : LStep(i, v)
      PROVE  Plain
  BY <1>1, <1>5, LocalOpcodes, LocalsAssumption
<1>6. CASE TaskYield \/ TaskSleep \/ TaskExit
  BY <1>1, <1>6, SwitchOpcodes
<1>7. QED
  BY <1>2, <1>3, <1>4, <1>5, <1>6 DEF Step

LEMMA StepInv ==
    ASSUME IInv, phase = "running", Step
    PROVE  IInv'
<1>1. CASE Plain
  BY <1>1, BelowFrameInv DEF Plain
<1>2. CASE FromR
  BY <1>2, FromRInv
<1>3. CASE Call
  BY <1>3, CallInv
<1>4. CASE Ret
  <2>1. StacksAfter
    BY <1>4 DEF IInv, TypeOK, Codes, ReportedOnce, Ret, StacksAfter
  <2>2. QED
    BY <1>4, <2>1, SameReturnStack, BelowFrameInv DEF IInv, Ret
<1>5. ASSUME NEW d \in Cells, NEW s \in Cells, NEW r \in Cells, TaskReceive(d, s, r)
      PROVE  IInv'
  BY <1>5, ReceiveOpcode, BelowFrameInv DEF IInv
<1>6. ASSUME NEW d \in Cells, NEW s \in Cells, NEW r \in Cells,
             TaskReceiveBlocking(<<d, s, r>>)
      PROVE  IInv'
  <2>1. <<d, s, r>> \in Seq(Cells) /\ Len(<<d, s, r>>) = 3
    OBVIOUS
  <2>2. (StacksAfter /\ BelowFrame /\ UNCHANGED exec) \/ Switched
    BY <1>6, <2>1, BlockingOpcode DEF IInv
  <2>3. QED
    BY <2>2, BelowFrameInv, SwitchInv
<1>7. CASE Switched
  BY <1>7, SwitchInv
<1>8. QED
  BY <1>1, <1>2, <1>3, <1>4, <1>5, <1>6, <1>7, StepShapes

LEMMA NextInv == IInv /\ [Next]_vars => IInv'
<1> SUFFICES ASSUME IInv, [Next]_vars PROVE IInv'
  OBVIOUS
<1>1. CASE phase = "running" /\ Step
  BY <1>1, StepInv
<1>2. CASE Return
  BY <1>2, ReturnInv
<1>3. CASE Finish
  BY <1>3 DEF Finish, exec, IInv, TypeOK, Codes, ReportedOnce, FramesAbove, CellsKept
<1>4. CASE phase = "idle" /\ Host
  BY <1>4, HostInv
<1>5. CASE UNCHANGED vars
  BY <1>5 DEF vars, IInv, TypeOK, Codes, ReportedOnce, Report, FramesAbove, CellsKept
<1>6. QED
  BY <1>1, <1>2, <1>3, <1>4, <1>5 DEF Next

LEMMA AlwaysInv == Spec => []IInv
BY InitInv, NextInv, PTL DEF Spec

-----------------------------------------------------------------------------
(* The theorems *)

\* The stack pointers of vm_exec_raw stay within the stacks, whatever the
\* bytecode and the host do.
THEOREM TypeCorrect == Spec => []TypeOK
<1>1. IInv => TypeOK
  BY DEF IInv
<1>2. QED
  BY <1>1, AlwaysInv, PTL

\* fp is null exactly outside CALL, after executions that failed as well.
THEOREM FramesOnlyInCalls == Spec => []FrameOnlyInCall
<1>1. IInv => FrameOnlyInCall
  BY NullAssumption DEF IInv, FramesAbove, FrameOnlyInCall
<1>2. QED
  BY <1>1, AlwaysInv, PTL

\* The locals of called words never overlap what their callers keep on the
\* return stack.
THEOREM CallersIntact == Spec => []CallerIntact
<1>1. ASSUME IInv PROVE CallerIntact
  <2>1. SUFFICES ASSUME NEW n \in 1..Len(kept)
                 PROVE  Len(kept[n]) <= Len(rs) /\ SubSeq(rs, 1, Len(kept[n])) = kept[n]
    BY DEF CallerIntact
  <2>2. /\ kept[n] \in Seq(Cells) /\ rs \in Seq(Cells)
        /\ Len(kept[n]) \in 0..Len(rs)
        /\ \A j \in 1..Len(kept[n]) : rs[j] = kept[n][j]
    BY <1>1 DEF IInv, TypeOK, CellsKept
  <2>3. /\ SubSeq(rs, 1, Len(kept[n])) \in Seq(Cells)
        /\ Len(SubSeq(rs, 1, Len(kept[n]))) = Len(kept[n])
        /\ \A j \in 1..Len(kept[n]) : SubSeq(rs, 1, Len(kept[n]))[j] = rs[j]
    BY <2>2, PrefixFacts
  <2>4. SubSeq(rs, 1, Len(kept[n])) = kept[n]
    BY <2>2, <2>3
  <2>5. QED
    BY <2>2, <2>4
<1>2. QED
  BY <1>1, AlwaysInv, PTL

\* However deep the calls, the handler hears of a failed execution once, with
\* the error that the host gets and the stack that the host finds.
THEOREM PanicsToldOnce == Spec => []PanicsOnce
<1>1. ASSUME IInv PROVE PanicsOnce
  <2>1. CASE phase # "returning" \/ err \in Unreported \cup {"OK"}
    BY <1>1, <2>1 DEF IInv, Codes, ReportedOnce, PanicsOnce
  <2>2. CASE ~(phase # "returning" \/ err \in Unreported \cup {"OK"})
    <3>1. panics = <<Report(err, ds)>>
      BY <1>1, <2>2 DEF IInv, Codes, ReportedOnce
    <3>2. Len(panics) = 1 /\ panics[1] = Report(err, ds)
      BY <3>1
    <3>3. Report(err, ds).code = err /\ Report(err, ds).depth = Len(ds) % DepthMod
      BY DEF Report
    <3>4. ASSUME Len(ds) < DepthMod
          PROVE  /\ Report(err, ds).depth = Len(ds)
                 /\ \A i \in 1..Shown :
                       i <= Len(ds) => Report(err, ds).stack[i] = ds[Len(ds) + 1 - i]
      <4>1. Len(ds) \in Nat /\ DepthMod \in Nat \ {0}
        BY <1>1, ReportAssumption DEF IInv, TypeOK
      <4>2. Len(ds) % DepthMod = Len(ds)
        BY <3>4, <4>1, SmallModulus
      <4>3. Report(err, ds).stack =
                [i \in {j \in 1..Shown : j <= Len(ds)} |-> ds[Len(ds) + 1 - i]]
        BY <4>2 DEF Report
      <4>4. QED
        BY <3>3, <4>2, <4>3
    <3>5. QED
      BY <2>2, <3>2, <3>3, <3>4 DEF PanicsOnce
  <2>3. QED
    BY <2>1, <2>2
<1>2. QED
  BY <1>1, AlwaysInv, PTL

\* A failing opcode leaves no half-done effect but pops, the two opcodes that
\* push a received message apart.
THEOREM FailuresPopOnly == Spec => FailurePopsOnly
<1> DEFINE Halfway ==
             \E d, s, r \in Cells :
                TaskReceive(d, s, r) \/ TaskReceiveBlocking(<<d, s, r>>)
<1>1. ASSUME IInv, [Next]_vars, err = "OK", err' # "OK"
      PROVE  Halfway \/ PopsOnly
  <2>1. CASE phase = "running" /\ Step
    <3>1. CASE Plain
      BY <1>1, <3>1 DEF Plain
    <3>2. CASE FromR
      BY <1>1, <2>1, <3>2, FromRInv
    <3>3. CASE Call \/ Ret
      BY <1>1, <3>3 DEF Call, Ret, status
    <3>4. QED
      BY <1>1, <2>1, <3>1, <3>2, <3>3, StepShapes
  <2>2. CASE Return \/ Finish
    BY <1>1, <2>2 DEF Return, Finish
  <2>3. CASE phase = "idle" /\ Host
    BY <1>1, <2>3 DEF Host, Exec, ApiPush, ApiPop, ApiClear, ResetStacks,
                      Snapshot, SnapshotFree, Restore, status
  <2>4. CASE UNCHANGED vars
    BY <1>1, <2>4 DEF vars
  <2>5. QED
    BY <1>1, <2>1, <2>2, <2>3, <2>4 DEF Next
<1>2. IInv /\ [Next]_vars =>
        [err = "OK" /\ err' # "OK" =>
            \/ \E d, s, r \in Cells :
                  TaskReceive(d, s, r) \/ TaskReceiveBlocking(<<d, s, r>>)
            \/ /\ Len(ds') <= Len(ds) /\ ds' = SubSeq(ds, 1, Len(ds'))
               /\ Len(rs') <= Len(rs) /\ rs' = SubSeq(rs, 1, Len(rs'))]_vars
  BY <1>1 DEF PopsOnly
<1>3. QED
  BY <1>2, AlwaysInv, PTL DEF Spec, FailurePopsOnly

\* Once an opcode has failed, the nested CALLs unwind to the host without
\* another opcode being executed.
THEOREM ErrorsEnd == Spec => ErrorEnds
<1>1. IInv /\ [Next]_vars =>
        [err # "OK" /\ phase # "idle" =>
            ds' = ds /\ rs' = rs /\ err' = err /\ phase' # "running"]_vars
  <2>1. SUFFICES ASSUME IInv, [Next]_vars, err # "OK", phase # "idle"
                 PROVE  \/ ds' = ds /\ rs' = rs /\ err' = err /\ phase' # "running"
                        \/ UNCHANGED vars
    OBVIOUS
  <2>2. phase # "running"
    BY <2>1 DEF IInv, Codes
  <2>3. CASE Return \/ Finish
    BY <2>1, <2>3 DEF Return, Finish
  <2>4. QED
    BY <2>1, <2>2, <2>3 DEF Next
<1>2. QED
  BY <1>1, AlwaysInv, PTL DEF Spec, ErrorEnds
=============================================================================
