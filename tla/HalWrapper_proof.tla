-------------------------- MODULE HalWrapper_proof --------------------------
(***************************************************************************)
(* Proofs about HalWrapper, for any number of ports and any HAL that gives *)
(* each port handle values of its own.                                     *)
(*                                                                         *)
(* None of the safety properties is inductive alone: a port keeps its own  *)
(* line because whatever is open is held by the port it is open for        *)
(* (NoLeak), because a port only ever holds handles from its own set       *)
(* (OwnHandle, also over a reset), and because those sets do not meet      *)
(* (HandlesApart).                                                         *)
(***************************************************************************)
EXTENDS HalWrapper, TLAPS

\* A port holds a handle of its own, open or not.
OwnHandle ==
    \A p \in Ports : uart_handles[p] # Null => uart_handles[p] \in HandlesFor[p]

IInv == TypeOK /\ OwnHandle /\ FreshWorks /\ NoLeak /\ NoCrossTalk

\* Closing a port's handle leaves the lines of all other ports alone, and then
\* nothing is open for the port.
LEMMA ClosedLines ==
    ASSUME HandlesApart, IInv, NEW port \in Ports
    PROVE  /\ Closed(port) \in [Handles -> Ports \cup {Null}]
           /\ \A h \in Handles :
                 Closed(port)[h] = IF line[h] = port THEN Null ELSE line[h]
  <1>1. Closed(port) \in [Handles -> Ports \cup {Null}]
    BY DEF IInv, TypeOK, Closed
  <1>2. ASSUME NEW h \in Handles, line[h] = port
        PROVE  Closed(port)[h] = Null
    BY <1>2, NullAssumption DEF IInv, NoLeak, Closed
  <1>3. ASSUME NEW h \in Handles, line[h] # port
        PROVE  Closed(port)[h] = line[h]
    <2>1. CASE line[h] = Null
      BY <2>1 DEF Closed
    <2>2. CASE line[h] # Null
      <3>1. line[h] \in Ports /\ uart_handles[line[h]] = h
        BY <2>2 DEF IInv, TypeOK, NoLeak
      <3>2. h \in HandlesFor[line[h]]
        BY <3>1, NullAssumption DEF IInv, OwnHandle
      <3>3. h # uart_handles[port]
        BY <1>3, <3>1, <3>2, NullAssumption DEF IInv, OwnHandle, HandlesApart
      <3> QED BY <3>3 DEF Closed
    <2> QED BY <2>1, <2>2
  <1> QED BY <1>1, <1>2, <1>3

LEMMA InitHolds == Init => IInv
  BY NullAssumption
  DEF Init, IInv, TypeOK, OwnHandle, FreshWorks, NoLeak, NoCrossTalk

\* The HAL opened h for the port.
LEMMA InitPreserves ==
    ASSUME HandlesApart, IInv, NEW port, UartInit(port)
    PROVE  IInv'
  <1>1. port \in Ports
    BY DEF UartInit
  <1>2. PICK h \in HandlesFor[port] :
            /\ Closed(port)[h] = Null
            /\ line' = [Closed(port) EXCEPT ![h] = port]
            /\ uart_handles' = [uart_handles EXCEPT ![port] = h]
    BY DEF UartInit
  <1>3. /\ fresh' = fresh \cup {port}
        /\ heard' = heard /\ source' = source
    BY DEF UartInit
  <1>4. h \in Handles /\ h # Null
    BY <1>1, NullAssumption DEF Handles
  <1>5. /\ Closed(port) \in [Handles -> Ports \cup {Null}]
        /\ \A g \in Handles :
              Closed(port)[g] = IF line[g] = port THEN Null ELSE line[g]
    BY <1>1, ClosedLines
  <1>6. TypeOK'
    BY <1>1, <1>2, <1>3, <1>4, <1>5 DEF IInv, TypeOK
  <1>7. OwnHandle'
    BY <1>1, <1>2 DEF IInv, TypeOK, OwnHandle
  <1>8. FreshWorks'
    <2>1. ASSUME NEW p \in fresh', p # port
          PROVE  uart_handles'[p] # Null /\ line'[uart_handles'[p]] = p
      <3>1. p \in Ports /\ uart_handles[p] # Null /\ line[uart_handles[p]] = p
        BY <1>3, <2>1 DEF IInv, TypeOK, FreshWorks
      <3>2. uart_handles'[p] = uart_handles[p] /\ uart_handles[p] \in Handles
        BY <1>2, <2>1, <3>1 DEF IInv, TypeOK
      <3>3. Closed(port)[uart_handles[p]] = p
        BY <1>5, <2>1, <3>1, <3>2
      <3>4. uart_handles[p] # h
        BY <1>2, <3>1, <3>3, NullAssumption
      <3> QED BY <1>2, <1>5, <3>1, <3>2, <3>3, <3>4
    <2>2. uart_handles'[port] = h /\ line'[h] = port
      BY <1>1, <1>2, <1>4, <1>5 DEF IInv, TypeOK
    <2> QED BY <1>4, <2>1, <2>2 DEF FreshWorks
  <1>9. NoLeak'
    <2> SUFFICES ASSUME NEW g \in Handles, line'[g] # Null
                 PROVE  uart_handles'[line'[g]] = g
      BY DEF NoLeak
    <2>1. CASE g = h
      BY <1>1, <1>2, <1>4, <1>5, <2>1 DEF IInv, TypeOK
    <2>2. CASE g # h
      <3>1. line'[g] = line[g] /\ line[g] # port
        BY <1>2, <1>5, <2>2
      <3>2. line[g] \in Ports /\ uart_handles[line[g]] = g
        BY <3>1 DEF IInv, TypeOK, NoLeak
      <3> QED BY <1>2, <3>1, <3>2 DEF IInv, TypeOK
    <2> QED BY <2>1, <2>2
  <1>10. NoCrossTalk'
    BY <1>3 DEF IInv, NoCrossTalk
  <1> QED BY <1>6, <1>7, <1>8, <1>9, <1>10 DEF IInv

LEMMA InitFailsPreserves ==
    ASSUME HandlesApart, IInv, NEW port, UartInitFails(port)
    PROVE  IInv'
  <1>1. /\ port \in Ports
        /\ line' = Closed(port)
        /\ uart_handles' = [uart_handles EXCEPT ![port] = Null]
        /\ fresh' = fresh \ {port}
        /\ heard' = heard /\ source' = source
    BY DEF UartInitFails
  <1>2. /\ Closed(port) \in [Handles -> Ports \cup {Null}]
        /\ \A g \in Handles :
              Closed(port)[g] = IF line[g] = port THEN Null ELSE line[g]
    BY <1>1, ClosedLines
  <1>3. TypeOK'
    BY <1>1, <1>2 DEF IInv, TypeOK
  <1>4. OwnHandle'
    BY <1>1 DEF IInv, TypeOK, OwnHandle
  <1>5. FreshWorks'
    <2> SUFFICES ASSUME NEW p \in fresh'
                 PROVE  uart_handles'[p] # Null /\ line'[uart_handles'[p]] = p
      BY DEF FreshWorks
    <2>1. p # port /\ p \in Ports /\ uart_handles[p] # Null
              /\ line[uart_handles[p]] = p
      BY <1>1 DEF IInv, TypeOK, FreshWorks
    <2>2. uart_handles'[p] = uart_handles[p] /\ uart_handles[p] \in Handles
      BY <1>1, <2>1 DEF IInv, TypeOK
    <2> QED BY <1>1, <1>2, <2>1, <2>2
  <1>6. NoLeak'
    <2> SUFFICES ASSUME NEW g \in Handles, line'[g] # Null
                 PROVE  uart_handles'[line'[g]] = g
      BY DEF NoLeak
    <2>1. line'[g] = line[g] /\ line[g] # port
      BY <1>1, <1>2
    <2>2. line[g] \in Ports /\ uart_handles[line[g]] = g
      BY <2>1 DEF IInv, TypeOK, NoLeak
    <2> QED BY <1>1, <2>1, <2>2 DEF IInv, TypeOK
  <1>7. NoCrossTalk'
    BY <1>1 DEF IInv, NoCrossTalk
  <1> QED BY <1>3, <1>4, <1>5, <1>6, <1>7 DEF IInv

\* What a port's handle is open for, if anything, is the port.
LEMMA OwnLine ==
    ASSUME HandlesApart, IInv, NEW p \in Ports, uart_handles[p] # Null
    PROVE  line[uart_handles[p]] \in {p, Null}
  <1>1. uart_handles[p] \in HandlesFor[p] /\ uart_handles[p] \in Handles
    BY DEF IInv, TypeOK, OwnHandle
  <1>2. CASE line[uart_handles[p]] # Null
    <2> DEFINE q == line[uart_handles[p]]
    <2>1. q \in Ports /\ uart_handles[q] = uart_handles[p]
      BY <1>1, <1>2 DEF IInv, TypeOK, NoLeak
    <2>2. uart_handles[p] \in HandlesFor[q]
      BY <2>1 DEF IInv, OwnHandle
    <2> QED BY <1>1, <2>1, <2>2 DEF HandlesApart
  <1> QED BY <1>2

LEMMA WritePreserves ==
    ASSUME HandlesApart, IInv, NEW port, NEW len, UartWrite(port, len)
    PROVE  IInv'
  <1>1. port \in Ports /\ uart_handles[port] # Null
    BY DEF UartWrite, Usable
  <1>2. PICK n \in 0..len :
            heard' = [q \in Ports |->
                         IF n > 0 /\ q = line[uart_handles[port]]
                         THEN heard[q] \cup {port} ELSE heard[q]]
    BY DEF UartWrite
  <1>3. /\ uart_handles' = uart_handles /\ line' = line
        /\ fresh' = fresh /\ source' = source
    BY DEF UartWrite
  <1>4. line[uart_handles[port]] \in {port, Null}
    BY <1>1, OwnLine
  <1>5. \A q \in Ports :
            heard'[q] = heard[q] \/ (q = port /\ heard'[q] = heard[q] \cup {q})
    BY <1>2, <1>4, NullAssumption
  <1>6. TypeOK' /\ NoCrossTalk'
    <2>1. heard' \in [Ports -> SUBSET Ports]
      BY <1>1, <1>2 DEF IInv, TypeOK
    <2>2. \A q \in Ports : heard'[q] \subseteq {q}
      BY <1>5 DEF IInv, NoCrossTalk
    <2> QED BY <1>3, <2>1, <2>2 DEF IInv, TypeOK, NoCrossTalk
  <1>7. OwnHandle' /\ FreshWorks' /\ NoLeak'
    BY <1>3 DEF IInv, OwnHandle, FreshWorks, NoLeak
  <1> QED BY <1>6, <1>7 DEF IInv

LEMMA ReadPreserves ==
    ASSUME HandlesApart, IInv, NEW port, NEW len, UartRead(port, len)
    PROVE  IInv'
  <1>1. port \in Ports /\ uart_handles[port] # Null
    BY DEF UartRead, Usable
  <1>2. line[uart_handles[port]] \in {port, Null}
    BY <1>1, OwnLine
  <1>3. source' = source \/ source' = [source EXCEPT ![port] = @ \cup {port}]
    BY <1>2 DEF UartRead
  <1>4. /\ uart_handles' = uart_handles /\ line' = line
        /\ fresh' = fresh /\ heard' = heard
    BY DEF UartRead
  <1>5. TypeOK' /\ NoCrossTalk'
    BY <1>1, <1>3, <1>4 DEF IInv, TypeOK, NoCrossTalk
  <1>6. OwnHandle' /\ FreshWorks' /\ NoLeak'
    BY <1>4 DEF IInv, OwnHandle, FreshWorks, NoLeak
  <1> QED BY <1>5, <1>6 DEF IInv

LEMMA ResetPreserves ==
    ASSUME IInv, SystemReset
    PROVE  IInv'
  BY DEF SystemReset, IInv, TypeOK, OwnHandle, FreshWorks, NoLeak, NoCrossTalk

LEMMA StepPreserves == HandlesApart /\ IInv /\ [Next]_vars => IInv'
  <1> SUFFICES ASSUME HandlesApart, IInv, [Next]_vars
               PROVE  IInv'
    OBVIOUS
  <1>1. ASSUME NEW port \in PortArgs, UartInit(port)
        PROVE  IInv'
    BY <1>1, InitPreserves
  <1>2. ASSUME NEW port \in PortArgs, UartInitFails(port)
        PROVE  IInv'
    BY <1>2, InitFailsPreserves
  <1>3. ASSUME NEW port \in PortArgs, UartInitRefused(port) \/ Refused(port)
        PROVE  UNCHANGED vars
    BY <1>3 DEF UartInitRefused, Refused
  <1>4. ASSUME NEW port \in PortArgs, NEW len \in 0..MaxLen, UartWrite(port, len)
        PROVE  IInv'
    BY <1>4, WritePreserves
  <1>5. ASSUME NEW port \in PortArgs, NEW len \in 0..MaxLen, UartRead(port, len)
        PROVE  IInv'
    BY <1>5, ReadPreserves
  <1>6. CASE SystemReset
    BY <1>6, ResetPreserves
  <1>7. CASE UNCHANGED vars
    BY <1>7
    DEF vars, IInv, TypeOK, OwnHandle, FreshWorks, NoLeak, NoCrossTalk
  <1> QED BY <1>1, <1>2, <1>3, <1>4, <1>5, <1>6, <1>7 DEF Next

LEMMA AlwaysInv ==
    ASSUME HandlesApart
    PROVE  Spec => []IInv
  <1>1. IInv /\ [Next]_vars => IInv'
    BY StepPreserves
  <1> QED BY <1>1, InitHolds, PTL DEF Spec

(***************************************************************************)
(* The three theorems below are over a HAL that keeps the handles of the   *)
(* ports apart (hal_uart_open is outside this repository).                 *)
(***************************************************************************)

\* The wrapper holds whatever is left open, so that it can close it.
THEOREM NothingLeaks ==
    ASSUME HandlesApart
    PROVE  Spec => [](TypeOK /\ NoLeak)
  <1>1. IInv => TypeOK /\ NoLeak
    BY DEF IInv
  <1> QED BY <1>1, AlwaysInv, PTL

\* Every port that v4_hal_uart_init succeeded for since the last reset works,
\* whatever resets and initialisations of other ports came before and after it.
THEOREM FreshPortsWork ==
    ASSUME HandlesApart
    PROVE  Spec => []FreshWorks
  <1>1. IInv => FreshWorks
    BY DEF IInv
  <1> QED BY <1>1, AlwaysInv, PTL

\* No byte reaches, or comes from, another port's line.
THEOREM PortsApart ==
    ASSUME HandlesApart
    PROVE  Spec => []NoCrossTalk
  <1>1. IInv => NoCrossTalk
    BY DEF IInv
  <1> QED BY <1>1, AlwaysInv, PTL
=============================================================================
