----------------------------- MODULE HalWrapper -----------------------------
(***************************************************************************)
(* The UART ports of the HAL bridge (src/src/hal_wrapper.cpp): the VM's    *)
(* v4_hal_* functions name a port, the HAL below wants the handle that     *)
(* hal_uart_open returned, and the wrapper keeps one handle per port.      *)
(*                                                                         *)
(* The HAL is external.  It keeps a set of open handles, may fail to open, *)
(* may transfer less than it was asked to, refuses a handle it has         *)
(* released, and may use the value of such a handle again.  GPIO, console  *)
(* and timer calls forward to it and leave nothing behind in the wrapper.  *)
(***************************************************************************)
EXTENDS Naturals

CONSTANTS
    NPorts,         \* the entries of uart_handles: 4
    HandlesFor,     \* the handle values the HAL may give to each port
    Null,           \* nullptr
    MaxLen          \* bound: bytes of one transfer

Ports == 0..(NPorts - 1)
\* The port arguments: the last one is out of range.
PortArgs == 0..NPorts
Handles == UNION {HandlesFor[p] : p \in Ports}

ASSUME NPortsAssumption == NPorts \in Nat \ {0}
ASSUME HandlesForAssumption == DOMAIN HandlesFor = Ports
ASSUME NullAssumption == Null \notin Handles /\ Null \notin Ports
ASSUME MaxLenAssumption == MaxLen \in Nat

VARIABLES
    uart_handles,
    line,           \* HAL: the port each handle is open for, or Null
    fresh,          \* history: the ports initialised since the last reset
    heard,          \* history: the ports whose writes went out on each line
    source          \* history: the lines each port's reads came from

vars == <<uart_handles, line, fresh, heard, source>>

TypeOK ==
    /\ uart_handles \in [Ports -> Handles \cup {Null}]
    /\ line \in [Handles -> Ports \cup {Null}]
    /\ fresh \subseteq Ports
    /\ heard \in [Ports -> SUBSET Ports]
    /\ source \in [Ports -> SUBSET Ports]

Init ==
    /\ uart_handles = [p \in Ports |-> Null]
    /\ line = [h \in Handles |-> Null]
    /\ fresh = {}
    /\ heard = [p \in Ports |-> {}]
    /\ source = [p \in Ports |-> {}]

\* The check every call makes first.
Usable(port) == port \in Ports /\ uart_handles[port] # Null

\* HAL_ERR_PARAM: the HAL is not called.
Refused(port) == ~Usable(port) /\ UNCHANGED vars

-----------------------------------------------------------------------------
(* v4_hal_uart_init *)

\* The HAL's open handles after the port's handle was closed, if it had one.
Closed(port) ==
    [h \in Handles |-> IF h = uart_handles[port] THEN Null ELSE line[h]]

\* Bug: the old handle is closed only after the new one took its place.
InitCloseLate(port) ==
    /\ port \in Ports
    /\ \E h \in HandlesFor[port] :
          /\ line[h] = Null
          /\ uart_handles' = [uart_handles EXCEPT ![port] = h]
          /\ line' = IF uart_handles[port] = Null
                     THEN [line EXCEPT ![h] = port] ELSE line
    /\ fresh' = fresh \cup {port}
    /\ UNCHANGED <<heard, source>>

UartInit(port) ==
    /\ port \in Ports
    /\ \E h \in HandlesFor[port] :
          /\ Closed(port)[h] = Null
          /\ line' = [Closed(port) EXCEPT ![h] = port]
          /\ uart_handles' = [uart_handles EXCEPT ![port] = h]
    /\ fresh' = fresh \cup {port}
    /\ UNCHANGED <<heard, source>>

\* HAL_ERR_NODEV: the port is closed all the same.
UartInitFails(port) ==
    /\ port \in Ports
    /\ line' = Closed(port)
    /\ uart_handles' = [uart_handles EXCEPT ![port] = Null]
    /\ fresh' = fresh \ {port}
    /\ UNCHANGED <<heard, source>>

\* HAL_ERR_PARAM.
UartInitRefused(port) == port \notin Ports /\ UNCHANGED vars

-----------------------------------------------------------------------------
(* v4_hal_uart_putc and write, getc and read *)

\* Bug: every port writes to the first one.
UartWriteFirst(port, len) ==
    /\ Usable(port) /\ uart_handles[0] # Null
    /\ \E n \in 0..len :
          heard' = [q \in Ports |->
                       IF n > 0 /\ q = line[uart_handles[0]]
                       THEN heard[q] \cup {port} ELSE heard[q]]
    /\ UNCHANGED <<uart_handles, line, fresh, source>>

\* Any part of the bytes may have gone out when the call returns, with HAL_OK
\* if all of them did; none if the handle is not open.
UartWrite(port, len) ==
    /\ Usable(port)
    /\ \E n \in 0..len :
          heard' = [q \in Ports |->
                       IF n > 0 /\ q = line[uart_handles[port]]
                       THEN heard[q] \cup {port} ELSE heard[q]]
    /\ UNCHANGED <<uart_handles, line, fresh, source>>

UartRead(port, len) ==
    LET q == line[uart_handles[port]] IN
    /\ Usable(port)
    /\ \E n \in 0..len :
          source' = IF n > 0 /\ q # Null
                    THEN [source EXCEPT ![port] = @ \cup {q}] ELSE source
    /\ UNCHANGED <<uart_handles, line, fresh, heard>>

-----------------------------------------------------------------------------
\* v4_hal_system_reset: hal_deinit releases every handle, hal_init follows.
\* The wrapper keeps the handles it has.
SystemReset ==
    /\ line' = [h \in Handles |-> Null]
    /\ fresh' = {}
    /\ UNCHANGED <<uart_handles, heard, source>>

Next ==
    \/ \E port \in PortArgs :
          \/ UartInit(port) \/ UartInitFails(port) \/ UartInitRefused(port)
          \/ Refused(port)
          \/ \E len \in 0..MaxLen : UartWrite(port, len) \/ UartRead(port, len)
    \/ SystemReset

Spec == Init /\ [][Next]_vars

-----------------------------------------------------------------------------
\* The HAL gives no port a handle value that another port may have.
HandlesApart ==
    \A p, q \in Ports : p # q => HandlesFor[p] \cap HandlesFor[q] = {}

\* A port that was initialised since the last reset works, whatever resets and
\* initialisations of other ports there were before and after it.  This needs
\* HandlesApart: the wrapper closes a handle it kept over a reset, which may by
\* then be the new handle of another port.
FreshWorks ==
    \A p \in fresh : uart_handles[p] # Null /\ line[uart_handles[p]] = p

\* The wrapper can still close everything that is open.
NoLeak ==
    \A h \in Handles : line[h] # Null => uart_handles[line[h]] = h

\* What is written to a port goes out on that port's line, and what is read
\* from it came in there; also through handles kept over a reset.
NoCrossTalk ==
    \A p \in Ports : heard[p] \subseteq {p} /\ source[p] \subseteq {p}
=============================================================================
