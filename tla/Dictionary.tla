----------------------------- MODULE Dictionary -----------------------------
(***************************************************************************)
(* The word dictionary (src/src/core.cpp) and the storage of word names,   *)
(* which is either an arena shared with other users or malloc.             *)
(*                                                                         *)
(* A name of len characters takes len + 1 bytes.  Byte k of a copy of name *)
(* n is the pair <<n, k>>, so that a pointer reads n back only while all   *)
(* its bytes are untouched.                                                *)
(***************************************************************************)
EXTENDS Arena, FiniteSetsExt

CONSTANTS
    Names,          \* the names programs register
    NameLen,        \* their lengths in bytes, the final NUL included
    MaxWords,       \* V4_MAX_WORDS: 256
    MaxSerial       \* bound: names ever put on the heap

Anonymous == "anonymous"

ASSUME NamesAssumption ==
    NameLen \in [Names -> 1..(SizeMod - 1)] /\ Anonymous \notin Names
ASSUME MaxWordsAssumption == MaxWords \in Nat /\ MaxSerial \in Nat

VARIABLES
    has_arena,   \* vm->arena was given to vm_create
    words,      \* vm->words up to word_count: the name pointers
    buf,        \* the bytes of the arena buffer
    heap,       \* the names on the malloc heap: allocation number to name
    serial,     \* the next allocation number
    defs        \* history: the name of each word as registered

dict == <<has_arena, words, heap, serial, defs>>
vars == <<has_arena, words, buf, heap, serial, defs, used, blocks>>

\* A name pointer: nullptr, an offset into the arena, or an allocation.
Null == [kind |-> "null", at |-> 0]
InArena(at) == [kind |-> "arena", at |-> at]
OnHeap(n) == [kind |-> "heap", at |-> n]

Pointer == [kind : {"null", "arena", "heap"}, at : Nat]

Byte == (Names \X (1..Size)) \cup {<<Anonymous, 0>>}

TypeOK ==
    /\ ArenaTypeOK /\ has_arena \in BOOLEAN
    /\ words \in Seq(Pointer) /\ Len(words) <= MaxWords
    /\ defs \in Seq(Names \cup {Anonymous}) /\ Len(defs) = Len(words)
    /\ \A i \in DOMAIN words :
          /\ words[i].kind = "arena" => has_arena
          /\ words[i].kind = "heap" => ~has_arena
    /\ buf \in [0..(Size - 1) -> Byte]
    /\ serial \in Nat /\ DOMAIN heap \subseteq 1..serial

Init ==
    /\ ArenaInit /\ has_arena \in BOOLEAN
    /\ words = << >> /\ defs = << >>
    /\ buf = [o \in 0..(Size - 1) |-> <<Anonymous, 0>>]
    /\ heap = << >> /\ serial = 0

-----------------------------------------------------------------------------
(* vm_register_word *)

Define(ptr, n) ==
    /\ words' = Append(words, ptr)
    /\ defs' = Append(defs, n)
    /\ UNCHANGED has_arena

\* Bug: the table is taken to be full one word too late.
RegisterPastEnd ==
    /\ Len(words) <= MaxWords
    /\ Define(Null, Anonymous)
    /\ UNCHANGED <<buf, heap, serial, arena>>

RegisterAnonymous ==
    /\ Len(words) < MaxWords
    /\ Define(Null, Anonymous)
    /\ UNCHANGED <<buf, heap, serial, arena>>

\* The name is copied into the arena at alignment 1.
Written(n, at) ==
    [o \in 0..(Size - 1) |->
        IF o >= at /\ o < at + NameLen[n] THEN <<n, o - at + 1>> ELSE buf[o]]

RegisterInArena(n) ==
    /\ has_arena /\ Len(words) < MaxWords
    /\ Alloc(NameLen[n], 1)
    /\ buf' = Written(n, Aligned(1))
    /\ Define(InArena(Aligned(1)), n)
    /\ UNCHANGED <<heap, serial>>

RegisterOnHeap(n) ==
    /\ ~has_arena /\ Len(words) < MaxWords
    /\ serial' = serial + 1
    /\ heap' = [k \in DOMAIN heap \cup {serial + 1} |->
                   IF k = serial + 1 THEN n ELSE heap[k]]
    /\ Define(OnHeap(serial + 1), n)
    /\ UNCHANGED <<buf, arena>>

\* DictionaryFull, or no memory for the name: the table stays as it is.
RegisterFails(n) ==
    /\ Len(words) >= MaxWords \/ ~has_arena \/ ~Fits(NameLen[n], 1)
    /\ UNCHANGED vars

-----------------------------------------------------------------------------
(* Reset, and the other users of the arena *)

Freed == {words[i].at : i \in {i \in DOMAIN words : words[i].kind = "heap"}}

\* Bug: the names are not given back.
ResetLeaking ==
    /\ words' = << >> /\ defs' = << >>
    /\ UNCHANGED <<has_arena, buf, heap, serial, arena>>

\* vm_reset_dictionary, vm_reset and vm_destroy: names on the heap are freed,
\* names in the arena are left to its owner.
ResetDictionary ==
    /\ words' = << >> /\ defs' = << >>
    /\ heap' = [k \in DOMAIN heap \ Freed |-> heap[k]]
    /\ UNCHANGED <<has_arena, buf, serial, arena>>

\* The owner resets the arena once no dictionary points into it any more.
OwnerReset ==
    /\ has_arena /\ words = << >>
    /\ ArenaReset
    /\ UNCHANGED <<buf, dict>>

\* Another user of the arena writes over the block it gets.
OwnerAlloc(bytes, align) ==
    /\ has_arena
    /\ Alloc(bytes, align)
    /\ buf' = [o \in 0..(Size - 1) |->
                  IF o >= Aligned(align) /\ o < Aligned(align) + bytes
                  THEN <<Anonymous, 0>> ELSE buf[o]]
    /\ UNCHANGED dict

OwnerAllocFails(bytes, align) ==
    /\ has_arena
    /\ AllocFails(bytes, align)
    /\ UNCHANGED <<buf, dict>>

Next ==
    \/ RegisterAnonymous
    \/ \E n \in Names : RegisterInArena(n)
    \/ serial < MaxSerial /\ \E n \in Names : RegisterOnHeap(n)
    \/ \E n \in Names : RegisterFails(n)
    \/ ResetDictionary
    \/ OwnerReset
    \/ \E b \in Requests, a \in Aligns : OwnerAlloc(b, a) \/ OwnerAllocFails(b, a)

Spec == Init /\ [][Next]_vars

-----------------------------------------------------------------------------
(* vm_find_word *)

\* strcmp of the stored name with n: every byte up to the NUL is still there.
Reads(ptr, n) ==
    \/ ptr.kind = "heap" /\ ptr.at \in DOMAIN heap /\ heap[ptr.at] = n
    \/ /\ ptr.kind = "arena"
       /\ \A k \in 1..NameLen[n] : buf[ptr.at + k - 1] = <<n, k>>

\* Bug: the search runs upwards and finds the oldest definition.
FindOldest(n) ==
    LET hits == {i \in DOMAIN words : Reads(words[i], n)}
    IN IF hits = {} THEN 0 ELSE Min(hits)

\* The search runs downwards; 0 stands for -1 and i for index i - 1.
FindWord(n) ==
    LET hits == {i \in DOMAIN words : Reads(words[i], n)}
    IN IF hits = {} THEN 0 ELSE Max(hits)

-----------------------------------------------------------------------------
\* vm_find_word returns the newest word that was registered under the name,
\* whatever was registered, reset and allocated around it.
FindsNewest ==
    \A n \in Names :
        LET same == {i \in DOMAIN defs : defs[i] = n}
        IN FindWord(n) = IF same = {} THEN 0 ELSE Max(same)

\* The heap holds exactly the names of the words: none leaks, none is freed
\* while a word still has it.
HeapOwned == DOMAIN heap = Freed
=============================================================================
