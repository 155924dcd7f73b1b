------------------------------- MODULE Memory -------------------------------
(***************************************************************************)
(* The VM's address space (src/src/memory.cpp): RAM accessed in 1, 2 and 4 *)
(* bytes, and MMIO windows that take 32-bit accesses away from RAM.  A     *)
(* byte has ByteMod values.  The devices behind the windows are external:  *)
(* a callback answers with any value or with an error.                     *)
(***************************************************************************)
EXTENDS Integers, Sequences, FiniteSetsExt

CONSTANTS
    MemSize,        \* vm->mem_size
    Addrs,          \* the addresses that are accessed
    Vals,           \* the values that are written, and that devices return
    ByteMod,        \* 256
    Windows,        \* the windows that hosts register
    MaxMmio         \* V4_MAX_MMIO: 16

\* The weight of byte k of a word, ByteMod^k: a shift by 8 * k bits.
Weight(k) ==
    CASE k = 0 -> 1
      [] k = 1 -> ByteMod
      [] k = 2 -> ByteMod * ByteMod
      [] k = 3 -> ByteMod * ByteMod * ByteMod
      [] k = 4 -> ByteMod * ByteMod * ByteMod * ByteMod

Bytes == 0..(ByteMod - 1)
Words == 0..(Weight(4) - 1)

ASSUME SizesAssumption == MemSize \in Nat /\ ByteMod \in Nat \ {0} /\ MaxMmio \in Nat
ASSUME AddrsAssumption == Addrs \subseteq Nat
ASSUME ValsAssumption == Vals \subseteq Words
ASSUME WindowsAssumption ==
    Windows \subseteq [base : Nat, size : Nat, read32 : BOOLEAN, write32 : BOOLEAN]

Widths == {1, 2, 4}

VARIABLES
    mem,        \* vm->mem
    mmio,       \* vm->mmio up to mmio_count
    res         \* the error code and value of the last access

vars == <<mem, mmio, res>>

TypeOK ==
    /\ mem \in [0..(MemSize - 1) -> Bytes]
    /\ mmio \in Seq(Windows) /\ Len(mmio) <= MaxMmio
    /\ res \in [err : {"OK", "OobMemory", "Unaligned", "InvalidArg",
                        "Device"},
               val : Words]

Done(val) == [err |-> "OK", val |-> val]
Refused(e) == [err |-> e, val |-> 0]

\* vm_create: a static table longer than ours is cut.
Init ==
    /\ mem = [a \in 0..(MemSize - 1) |-> 0]
    /\ \E list \in {<< >>} \cup {<<w>> : w \in Windows} :
          mmio = SubSeq(list, 1, Min({Len(list), MaxMmio}))
    /\ res = Done(0)

-----------------------------------------------------------------------------
(* Little-endian loads and stores *)

ByteOf(val, k) == (val \div Weight(k)) % ByteMod

Load(addr, n) ==
    LET byte(k) == IF k < n THEN mem[addr + k] * Weight(k) ELSE 0
    IN byte(0) + byte(1) + byte(2) + byte(3)

\* Bug: the bytes of a word are stored in the opposite order.
StoreBigEndian(addr, n, val) ==
    [a \in DOMAIN mem |->
        IF a >= addr /\ a < addr + n THEN ByteOf(val, n - 1 - (a - addr)) ELSE mem[a]]

Store(addr, n, val) ==
    [a \in DOMAIN mem |->
        IF a >= addr /\ a < addr + n THEN ByteOf(val, a - addr) ELSE mem[a]]

-----------------------------------------------------------------------------
(* Where an access goes *)

Covers(w, addr) == addr >= w.base /\ addr - w.base < w.size

\* Bug: the search does not stop at the first window.
FindMmioLast(addr) ==
    LET hits == {i \in DOMAIN mmio : Covers(mmio[i], addr)}
    IN IF hits = {} THEN -1 ELSE Max(hits)

\* find_mmio: the first window that covers the address, -1 if there is none.
FindMmio(addr) ==
    LET hits == {i \in DOMAIN mmio : Covers(mmio[i], addr)}
    IN IF hits = {} THEN -1 ELSE Min(hits)

\* v4_is_in_ram adds in 64 bits, so the sum does not wrap.
InRam(addr, n) == addr + n <= MemSize

\* The checks of a RAM access: 4-byte accesses must be aligned, and being out
\* of range wins over being unaligned.
RamError(addr, n) ==
    IF ~InRam(addr, n) THEN "OobMemory"
    ELSE IF n = 4 /\ addr % 4 # 0 THEN "Unaligned"
    ELSE "OK"

\* In a window the alignment is checked first, then whether the operation is
\* allowed there.
MmioError(addr, allowed) ==
    IF addr % 4 # 0 THEN "Unaligned"
    ELSE IF ~allowed THEN "OobMemory"
    ELSE "OK"

Window(addr, n) == IF n = 4 THEN FindMmio(addr) ELSE -1

\* v4_mem_read8_core, v4_mem_read16_core, v4_mem_read32_core
Read(addr, n) ==
    LET i == Window(addr, n)
        e == IF i > 0 THEN MmioError(addr, mmio[i].read32) ELSE RamError(addr, n)
    IN /\ \/ e # "OK" /\ res' = Refused(e)
          \/ e = "OK" /\ i > 0 /\ \E v \in Vals : res' \in {Done(v), Refused("Device")}
          \/ e = "OK" /\ i < 0 /\ res' = Done(Load(addr, n))
       /\ UNCHANGED <<mem, mmio>>

\* v4_mem_write8_core, v4_mem_write16_core, v4_mem_write32_core
Write(addr, n, val) ==
    LET i == Window(addr, n)
        e == IF i > 0 THEN MmioError(addr, mmio[i].write32) ELSE RamError(addr, n)
    IN /\ \/ e # "OK" /\ res' = Refused(e)
          \/ e = "OK" /\ i > 0 /\ res' \in {Done(0), Refused("Device")}
          \/ e = "OK" /\ i < 0 /\ res' = Done(0)
       /\ mem' = IF e = "OK" /\ i < 0 THEN Store(addr, n, val) ELSE mem
       /\ UNCHANGED mmio

\* Bug: the capacity of the table is not checked.
RegisterUnchecked(list) ==
    /\ mmio' = mmio \o list
    /\ res' = Done(0)
    /\ UNCHANGED mem

\* vm_register_mmio: windows that still fit are appended even when it fails.
Register(list) ==
    LET room == MaxMmio - Len(mmio)
        n == Min({room, Len(list)})
    IN /\ mmio' = mmio \o SubSeq(list, 1, n)
       /\ res' = IF n = Len(list) THEN Done(0) ELSE Refused("InvalidArg")
       /\ UNCHANGED mem

Next ==
    \/ \E a \in Addrs, n \in Widths : Read(a, n)
    \/ \E a \in Addrs, n \in Widths, v \in Vals : Write(a, n, v)
    \/ \E v \in Windows : Register(<<v>>)
    \/ \E v, w \in Windows : Register(<<v, w>>)

Spec == Init /\ [][Next]_vars

-----------------------------------------------------------------------------
\* What was stored is what a load of the same width and address returns, cut
\* to the width; no byte outside the access changes, and a window that took
\* the access leaves RAM alone.
StoreLoads ==
    [][ \A a \in Addrs, n \in Widths, v \in Vals :
            Write(a, n, v) =>
                /\ res'.err = "OK" /\ Window(a, n) < 0 => Load(a, n)' = v % Weight(n)
                /\ \A b \in DOMAIN mem :
                      mem'[b] # mem[b] =>
                          res'.err = "OK" /\ b \in a..(a + n - 1) /\ Window(a, n) < 0
      ]_vars

\* An address that a window serves is served by the same window for good:
\* registering more windows, also in a call that fails halfway, does not
\* redirect it.
WindowsStay ==
    [][ \A a \in Addrs : FindMmio(a) > 0 => FindMmio(a)' = FindMmio(a) ]_vars
=============================================================================
