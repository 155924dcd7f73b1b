------------------------------ MODULE MCMemory ------------------------------
(* Memory with a readable and writable window over RAM, a read-only one that *)
(* overlaps it and reaches beyond RAM, and one whose size is no multiple of 4. *)
EXTENDS Memory

SomeWindows ==
    {[base |-> 4, size |-> 4, read32 |-> TRUE, write32 |-> TRUE],
     [base |-> 4, size |-> 8, read32 |-> TRUE, write32 |-> FALSE],
     [base |-> 8, size |-> 2, read32 |-> FALSE, write32 |-> TRUE]}
=============================================================================
