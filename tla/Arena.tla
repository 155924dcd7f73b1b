------------------------------- MODULE Arena -------------------------------
(***************************************************************************)
(* The bump allocator of src/src/arena.cpp, with the width of size_t.      *)
(***************************************************************************)
EXTENDS Naturals, Sequences

CONSTANTS
    Size,       \* arena->size
    Base,       \* the address of arena->buffer
    SizeMod,    \* size_t wraps here
    Requests,   \* the sizes callers ask for
    Aligns      \* the alignments they ask for

ASSUME SizeAssumption == SizeMod \in Nat /\ Size \in 0..(SizeMod - 1) /\ Base \in Nat
ASSUME RequestsAssumption == Requests \subseteq 0..(SizeMod - 1)
ASSUME AlignsAssumption == Aligns \subseteq 0..(SizeMod - 1)

VARIABLES
    used,       \* arena->used
    blocks      \* history: what was handed out since the last reset, in order

arena == <<used, blocks>>

Block == [start : Nat, len : Nat, align : Nat]

ArenaTypeOK == used \in 0..(SizeMod - 1) /\ blocks \in Seq(Block)

\* v4_arena_init
ArenaInit == used = 0 /\ blocks = << >>

\* Bug: the start of a block is rounded down.
AlignedDown(align) == used - (used % align)

\* Bug: the block starts where the last one ended.
AlignedNot(align) == used

\* (used + align - 1) & ~(align - 1)
Aligned(align) ==
    LET top == (used + align - 1) % SizeMod IN top - (top % align)

PowerOf2(align) == \E k \in 0..align : align = 2^k

\* v4_arena_alloc refuses no bytes, a bad alignment, and what does not fit.
Fits(bytes, align) ==
    /\ bytes > 0 /\ PowerOf2(align)
    /\ (Aligned(align) + bytes) % SizeMod <= Size

Alloc(bytes, align) ==
    /\ Fits(bytes, align)
    /\ used' = (Aligned(align) + bytes) % SizeMod
    /\ blocks' = Append(blocks, [start |-> Aligned(align), len |-> bytes,
                                 align |-> align])

\* A null pointer is returned and nothing changes.
AllocFails(bytes, align) == ~Fits(bytes, align) /\ UNCHANGED arena

\* v4_arena_reset
ArenaReset == used' = 0 /\ blocks' = << >>

ArenaNext ==
    \/ \E n \in Requests, a \in Aligns : Alloc(n, a) \/ AllocFails(n, a)
    \/ ArenaReset

ArenaSpec == ArenaInit /\ [][ArenaNext]_arena

-----------------------------------------------------------------------------
\* Blocks follow each other in the buffer: none overlaps another, none leaves
\* the buffer, and used covers them all.
BlocksApart ==
    /\ \A i, j \in 1..Len(blocks) :
          i < j => blocks[i].start + blocks[i].len <= blocks[j].start
    /\ \A i \in 1..Len(blocks) : blocks[i].start + blocks[i].len <= used
    /\ used <= Size

\* "Allocates memory with specified alignment" (arena.h): the pointer that is
\* handed out is a multiple of the alignment.
PointersAligned ==
    \A i \in 1..Len(blocks) : (Base + blocks[i].start) % blocks[i].align = 0
=============================================================================
