-------------------------- MODULE Dictionary_proof --------------------------
(***************************************************************************)
(* Proofs about the arena and the word dictionary, for every buffer, every *)
(* set of names and every sequence of requests, as long as the requests    *)
(* are too small for the sums of v4_arena_alloc to wrap around.            *)
(*                                                                         *)
(* The inductive invariant says of each word what its name pointer holds:  *)
(* the name it was defined under, in bytes of the arena below used, where  *)
(* no later block goes, or in an allocation that is not freed.             *)
(***************************************************************************)
EXTENDS Dictionary, TLAPS

\* No sum wraps around.
NoWrap == \A n \in Requests, a \in Aligns : Size + a + n < SizeMod
NamesFit == \A n \in Names : Size + 1 + NameLen[n] < SizeMod

-----------------------------------------------------------------------------
(* Remainders *)

LEMMA ModFacts ==
    ASSUME NEW n \in Nat, NEW m \in Nat, m > 0
    PROVE  n % m \in 0..(m - 1) /\ (n < m => n % m = n)
<1>1. n % m \in 0..(m - 1)
  OBVIOUS
<1>2. n < m => n % m = n
  OBVIOUS
<1> QED
  BY <1>1, <1>2

LEMMA Quotient ==
    ASSUME NEW n \in Nat, NEW m \in Nat, m > 0
    PROVE  \E q \in Nat : n = m * q + (n % m)
<1>1. m \in Nat \ {0}
  OBVIOUS
<1>2. n \div m \in Nat
  BY <1>1
<1>3. n = m * (n \div m) + (n % m)
  BY <1>1
<1> QED
  BY <1>2, <1>3

\* The sum of two multiples is one.
LEMMA MultiplesAdd ==
    ASSUME NEW m \in Nat, m > 0, NEW b \in Nat, NEW n \in Nat, b % m = 0
    PROVE  (b + (n - (n % m))) % m = 0
<1>1. PICK p \in Nat : b = m * p + (b % m)
  BY Quotient
<1>2. PICK q \in Nat : n = m * q + (n % m)
  BY Quotient
<1> DEFINE r == n % m
<1>3. r \in Nat
  BY ModFacts
<1> HIDE DEF r
<1>4. m * (p + q) = m * p + m * q
  OBVIOUS
<1>5. m * p \in Nat /\ m * q \in Nat
  OBVIOUS
<1>6. b = m * p /\ n = m * q + r
  BY <1>1, <1>2, <1>5 DEF r
<1>7. b + (n - r) = m * (p + q)
  BY <1>3, <1>4, <1>5, <1>6
<1>8. \A k \in Nat : (m * k) % m = 0
  OBVIOUS
<1> QED
  BY <1>7, <1>8 DEF r

-----------------------------------------------------------------------------
(* The arena *)

\* Rounding up reaches a start at or above used, by less than the alignment.
LEMMA AlignedFacts ==
    ASSUME NEW a \in Nat, a > 0, used \in Nat, used + a < SizeMod, SizeMod \in Nat
    PROVE  /\ Aligned(a) \in Nat /\ used <= Aligned(a) /\ Aligned(a) < used + a
           /\ \E top \in Nat : Aligned(a) = top - (top % a)
<1> DEFINE top == used + a - 1
           r == top % a
<1>1. top \in Nat /\ top < SizeMod /\ SizeMod > 0
  OBVIOUS
<1>2. top % SizeMod = top
  BY <1>1, ModFacts
<1>3. r \in 0..(a - 1)
  BY <1>1, ModFacts
<1>4. Aligned(a) = top - r
  BY <1>2 DEF Aligned
<1>5. top \in Nat /\ Aligned(a) = top - (top % a)
  BY <1>1, <1>4
<1> HIDE DEF r, top
<1>6. \E t \in Nat : Aligned(a) = t - (t % a)
  BY <1>5
<1> QED
  BY <1>3, <1>4, <1>6 DEF top

LEMMA PositiveAlign == ASSUME NEW a \in Nat, PowerOf2(a) PROVE a > 0
<1>1. ASSUME a = 0 PROVE FALSE
  <2>1. PICK k \in 0..a : a = 2^k
    BY DEF PowerOf2
  <2>2. k = 0
    BY <1>1, <2>1
  <2>3. 2^0 = 1
    OBVIOUS
  <2>4. QED
    BY <1>1, <2>1, <2>2, <2>3
<1>2. QED
  BY <1>1

IInv == ArenaTypeOK /\ BlocksApart

\* What a successful allocation does.
LEMMA AllocFacts ==
    ASSUME IInv, NEW n \in Nat, NEW a \in Nat, Size + a + n < SizeMod, Alloc(n, a)
    PROVE  /\ a > 0 /\ n > 0
           /\ Aligned(a) \in Nat /\ used <= Aligned(a) /\ Aligned(a) + n <= Size
           /\ used' = Aligned(a) + n
           /\ used \in Nat /\ Size \in Nat
<1> DEFINE at == Aligned(a)
<1>1. /\ n > 0 /\ SizeMod \in Nat /\ Size \in Nat /\ used \in Nat /\ used <= Size
  BY SizeAssumption DEF IInv, ArenaTypeOK, BlocksApart, Alloc, Fits
<1>2. a > 0
  BY PositiveAlign DEF Alloc, Fits
<1>3. at \in Nat /\ used <= at /\ at < used + a
  BY <1>1, <1>2, AlignedFacts
<1>4. at + n \in Nat /\ at + n < SizeMod
  BY <1>1, <1>3
<1>5. (at + n) % SizeMod = at + n
  BY <1>1, <1>4, ModFacts
<1>6. used' = at + n /\ at + n <= Size
  BY <1>5 DEF Alloc, Fits
<1> QED
  BY <1>1, <1>2, <1>3, <1>6

LEMMA AllocStep ==
    ASSUME IInv, NEW n \in Nat, NEW a \in Nat, Size + a + n < SizeMod, Alloc(n, a)
    PROVE  IInv'
<1> DEFINE at == Aligned(a)
           L == Len(blocks)
           b == [start |-> at, len |-> n, align |-> a]
<1>1. /\ SizeMod \in Nat /\ used \in Nat /\ used <= Size
      /\ blocks \in Seq(Block) /\ L \in Nat
  BY SizeAssumption DEF IInv, ArenaTypeOK, BlocksApart
<1>2. /\ at \in Nat /\ used <= at /\ at + n <= Size /\ used' = at + n
      /\ Size \in Nat
  BY AllocFacts
<1>3. blocks' = Append(blocks, b)
  BY DEF Alloc
<1> HIDE DEF at
<1>4. b \in Block
  BY <1>2 DEF Block
<1>5. /\ Len(blocks') = L + 1 /\ blocks' \in Seq(Block)
      /\ blocks'[L + 1] = b
      /\ \A i \in 1..L : blocks'[i] = blocks[i]
  BY <1>1, <1>3, <1>4
<1>6. \A i \in 1..L : blocks[i].start \in Nat /\ blocks[i].len \in Nat
  <2>1. \A i \in 1..L : blocks[i] \in Block
    BY <1>1
  <2> QED
    BY <2>1 DEF Block
<1>7. \A i \in 1..L : blocks[i].start + blocks[i].len <= used
  BY DEF IInv, BlocksApart
<1>8. \A i \in 1..(L + 1) : blocks'[i].start + blocks'[i].len <= used'
  <2>1. SUFFICES ASSUME NEW i \in 1..(L + 1)
                 PROVE  blocks'[i].start + blocks'[i].len <= used'
    OBVIOUS
  <2>2. CASE i = L + 1
    BY <1>1, <1>2, <1>5, <2>2
  <2>3. CASE i # L + 1
    <3>1. i \in 1..L /\ blocks'[i] = blocks[i]
      BY <1>1, <1>5, <2>3
    <3>2. QED
      BY <1>1, <1>2, <1>6, <1>7, <3>1
  <2>4. QED
    BY <2>2, <2>3
<1>9. \A i, j \in 1..(L + 1) :
          i < j => blocks'[i].start + blocks'[i].len <= blocks'[j].start
  <2>1. SUFFICES ASSUME NEW i \in 1..(L + 1), NEW j \in 1..(L + 1), i < j
                 PROVE  blocks'[i].start + blocks'[i].len <= blocks'[j].start
    OBVIOUS
  <2>2. i \in 1..L /\ blocks'[i] = blocks[i]
    <3>1. i \in 1..L
      BY <1>1, <2>1
    <3> QED
      BY <1>5, <3>1
  <2>3. CASE j = L + 1
    <3>1. blocks'[j].start = at
      BY <1>5, <2>3
    <3>2. /\ blocks[i].start \in Nat /\ blocks[i].len \in Nat
          /\ blocks[i].start + blocks[i].len <= used
      BY <1>6, <1>7, <2>2
    <3>3. used \in Nat
      BY SizeAssumption DEF IInv, ArenaTypeOK
    <3> QED
      BY <1>2, <2>2, <3>1, <3>2, <3>3
  <2>4. CASE j # L + 1
    <3>1. j \in 1..L /\ blocks'[j] = blocks[j]
      BY <1>1, <1>5, <2>4
    <3>2. QED
      BY <2>1, <2>2, <3>1 DEF IInv, BlocksApart
  <2>5. QED
    BY <2>3, <2>4
<1>10. used' \in 0..(SizeMod - 1) /\ used' <= Size
  BY <1>1, <1>2, SizeAssumption
<1> QED
  BY <1>5, <1>8, <1>9, <1>10 DEF IInv, ArenaTypeOK, BlocksApart

LEMMA InitInv == ArenaInit => IInv
<1>1. SizeMod \in Nat /\ SizeMod > 0 /\ Size \in Nat
  BY SizeAssumption
<1> QED
  BY <1>1 DEF ArenaInit, IInv, ArenaTypeOK, BlocksApart

LEMMA ResetStep == ArenaReset => IInv'
<1>1. SizeMod \in Nat /\ SizeMod > 0 /\ Size \in Nat
  BY SizeAssumption
<1>2. << >> \in Seq(Block) /\ Len(<< >>) = 0
  OBVIOUS
<1> QED
  BY <1>1, <1>2 DEF ArenaReset, IInv, ArenaTypeOK, BlocksApart

LEMMA RequestFacts ==
    ASSUME NoWrap, NEW n \in Requests, NEW a \in Aligns
    PROVE  n \in Nat /\ a \in Nat /\ Size + a + n < SizeMod
BY SizeAssumption, RequestsAssumption, AlignsAssumption DEF NoWrap

LEMMA NameFacts ==
    ASSUME NamesFit, NEW n \in Names
    PROVE  /\ NameLen[n] \in Nat /\ NameLen[n] >= 1 /\ 1 \in Nat
           /\ Size + 1 + NameLen[n] < SizeMod
BY SizeAssumption, NamesAssumption DEF NamesFit

\* The allocator by itself: it never hands out bytes twice, nor bytes outside the
\* buffer, whatever the order of its allocations and resets.
THEOREM ArenaBlocksApart == ASSUME NoWrap PROVE ArenaSpec => []BlocksApart
<1>1. ASSUME IInv, [ArenaNext]_arena PROVE IInv'
  <2>1. CASE \E n \in Requests, a \in Aligns : Alloc(n, a)
    BY <1>1, <2>1, RequestFacts, AllocStep
  <2>2. CASE ArenaReset
    BY <2>2, ResetStep
  <2>3. CASE UNCHANGED arena
    BY <1>1, <2>3 DEF arena, IInv, ArenaTypeOK, BlocksApart
  <2>4. QED
    BY <1>1, <2>1, <2>2, <2>3 DEF ArenaNext, AllocFails
<1>2. IInv => BlocksApart
  BY DEF IInv
<1> QED
  BY <1>1, <1>2, InitInv, PTL DEF ArenaSpec

-----------------------------------------------------------------------------
(* Alignment.  v4_arena_alloc aligns offsets, so that the pointers are only *)
(* aligned in a buffer that is.                                             *)

BaseAligned == \A a \in Aligns \cup {1} : PowerOf2(a) => Base % a = 0

LEMMA AllocAligned ==
    ASSUME BaseAligned, IInv, PointersAligned, NEW n \in Nat, NEW a \in Nat,
           a \in Aligns \cup {1}, Size + a + n < SizeMod, Alloc(n, a)
    PROVE  PointersAligned'
<1> DEFINE L == Len(blocks)
           at == Aligned(a)
           b == [start |-> at, len |-> n, align |-> a]
<1>1. blocks \in Seq(Block) /\ L \in Nat /\ blocks' = Append(blocks, b)
  BY DEF IInv, ArenaTypeOK, Alloc
<1>2. at \in Nat /\ a > 0 /\ used \in Nat /\ used <= Size /\ Size \in Nat
  BY AllocFacts DEF IInv, BlocksApart
<1>3. PICK top \in Nat : at = top - (top % a)
  BY <1>2, AlignedFacts, SizeAssumption
<1>4. Base % a = 0 /\ Base \in Nat
  BY SizeAssumption DEF BaseAligned, Alloc, Fits
<1>5. (Base + at) % a = 0
  <2>1. (Base + (top - (top % a))) % a = 0
    BY <1>2, <1>4, MultiplesAdd
  <2> QED
    BY <1>3, <2>1
<1> HIDE DEF at
<1>6. /\ Len(blocks') = L + 1 /\ blocks'[L + 1] = b
      /\ \A i \in 1..L : blocks'[i] = blocks[i]
  BY <1>1
<1>7. ASSUME NEW i \in 1..(L + 1)
      PROVE  (Base + blocks'[i].start) % blocks'[i].align = 0
  <2>1. CASE i = L + 1
    BY <1>5, <1>6, <2>1
  <2>2. CASE i # L + 1
    <3>1. i \in 1..L /\ blocks'[i] = blocks[i]
      BY <1>1, <1>6, <2>2
    <3>2. QED
      BY <3>1 DEF PointersAligned
  <2>3. QED
    BY <2>1, <2>2
<1> QED
  BY <1>6, <1>7 DEF PointersAligned

LEMMA NoBlocksAligned == blocks = << >> => PointersAligned
<1>1. Len(<< >>) = 0
  OBVIOUS
<1> QED
  BY <1>1 DEF PointersAligned

-----------------------------------------------------------------------------
(* The dictionary *)

NameOrNone == Names \cup {Anonymous}

\* What pointer ptr of a word that was defined as n holds, given the heap hp, the
\* fill us of the arena and its bytes bf.
Holds(ptr, n, hp, us, bf) ==
    \/ ptr.kind = "null" /\ n = Anonymous
    \/ /\ ptr.kind = "heap" /\ n \in Names
       /\ ptr.at \in DOMAIN hp /\ hp[ptr.at] = n
    \/ /\ ptr.kind = "arena" /\ n \in Names
       /\ ptr.at + NameLen[n] <= us
       /\ \A k \in 1..NameLen[n] : bf[ptr.at + k - 1] = <<n, k>>

\* Every word still has its name.
WordsHold == \A i \in 1..Len(words) : Holds(words[i], defs[i], heap, used, buf)

DictInv == IInv /\ TypeOK /\ WordsHold /\ HeapOwned

LEMMA WordTypes ==
    ASSUME TypeOK
    PROVE  /\ words \in Seq(Pointer) /\ defs \in Seq(NameOrNone)
           /\ Len(words) \in Nat /\ Len(defs) = Len(words)
           /\ DOMAIN words = 1..Len(words) /\ DOMAIN defs = 1..Len(words)
           /\ \A i \in 1..Len(words) : words[i] \in Pointer /\ defs[i] \in NameOrNone
           /\ \A i \in 1..Len(words) : words[i].at \in Nat
<1>1. words \in Seq(Pointer) /\ defs \in Seq(NameOrNone) /\ Len(defs) = Len(words)
  BY DEF TypeOK, NameOrNone
<1>2. /\ Len(words) \in Nat /\ DOMAIN words = 1..Len(words)
      /\ DOMAIN defs = 1..Len(words)
      /\ \A i \in 1..Len(words) : words[i] \in Pointer /\ defs[i] \in NameOrNone
  BY <1>1
<1> QED
  BY <1>1, <1>2 DEF Pointer

\* A name stays where it is while allocations are only added and no byte of the
\* arena below used is written.
LEMMA HoldsOn ==
    ASSUME NEW ptr \in Pointer, NEW n \in NameOrNone,
           NEW hp, NEW hp2, NEW us \in Nat, NEW us2 \in Nat, NEW bf, NEW bf2,
           Holds(ptr, n, hp, us, bf),
           \A k \in DOMAIN hp : k \in DOMAIN hp2 /\ hp2[k] = hp[k],
           us <= us2,
           \A o \in 0..(us - 1) : bf2[o] = bf[o]
    PROVE  Holds(ptr, n, hp2, us2, bf2)
<1>0. ptr.at \in Nat
  BY DEF Pointer
<1>1. CASE ptr.kind = "null" /\ n = Anonymous
  BY <1>1 DEF Holds
<1>2. CASE ptr.kind = "heap" /\ n \in Names /\ ptr.at \in DOMAIN hp /\ hp[ptr.at] = n
  BY <1>2 DEF Holds
<1>3. CASE /\ ptr.kind = "arena" /\ n \in Names
           /\ ptr.at + NameLen[n] <= us
           /\ \A k \in 1..NameLen[n] : bf[ptr.at + k - 1] = <<n, k>>
  <2>1. NameLen[n] \in Nat
    BY <1>3, NamesAssumption, SizeAssumption
  <2>2. \A k \in 1..NameLen[n] : bf2[ptr.at + k - 1] = <<n, k>>
    <3>1. \A k \in 1..NameLen[n] : ptr.at + k - 1 \in 0..(us - 1)
      BY <1>0, <1>3, <2>1
    <3>2. QED
      BY <1>3, <3>1
  <2>3. ptr.at + NameLen[n] <= us2
    BY <1>0, <1>3, <2>1
  <2>4. QED
    BY <1>3, <2>2, <2>3 DEF Holds
<1> QED
  BY <1>1, <1>2, <1>3 DEF Holds

\* What a definition adds to the table.
LEMMA DefineFacts ==
    ASSUME TypeOK, NEW ptr \in Pointer, NEW n \in NameOrNone, Define(ptr, n)
    PROVE  /\ words' \in Seq(Pointer) /\ defs' \in Seq(NameOrNone)
           /\ Len(words') = Len(words) + 1 /\ Len(defs') = Len(words')
           /\ words'[Len(words) + 1] = ptr /\ defs'[Len(words) + 1] = n
           /\ \A i \in 1..Len(words) : words'[i] = words[i] /\ defs'[i] = defs[i]
           /\ DOMAIN words' = 1..(Len(words) + 1) /\ Len(words) \in Nat
<1>1. words' = Append(words, ptr) /\ defs' = Append(defs, n)
  BY DEF Define
<1> QED
  BY <1>1, WordTypes

\* A definition whose pointer holds the name keeps the invariant, if the names
\* of the other words are left alone.
LEMMA DefineStep ==
    ASSUME DictInv, IInv', NEW ptr \in Pointer, NEW n \in NameOrNone, Define(ptr, n),
           Len(words) < MaxWords,
           Holds(ptr, n, heap', used', buf'),
           ptr.kind = "arena" => has_arena, ptr.kind = "heap" => ~has_arena,
           buf' \in [0..(Size - 1) -> Byte],
           serial' \in Nat, DOMAIN heap' \subseteq 1..serial',
           \A k \in DOMAIN heap : heap'[k] = heap[k],
           DOMAIN heap' = DOMAIN heap \cup (IF ptr.kind = "heap" THEN {ptr.at} ELSE {}),
           used <= used',
           \A o \in 0..(used - 1) : buf'[o] = buf[o]
    PROVE  DictInv'
<1> DEFINE L == Len(words)
<1>0. TypeOK /\ WordsHold /\ HeapOwned /\ IInv
  BY DEF DictInv
<1>1. /\ words' \in Seq(Pointer) /\ defs' \in Seq(NameOrNone)
      /\ Len(words') = L + 1 /\ Len(defs') = L + 1
      /\ words'[L + 1] = ptr /\ defs'[L + 1] = n
      /\ \A i \in 1..L : words'[i] = words[i] /\ defs'[i] = defs[i]
      /\ DOMAIN words' = 1..(L + 1) /\ L \in Nat
  BY <1>0, DefineFacts
<1>2. has_arena' = has_arena
  BY DEF Define
<1>3. TypeOK'
  <2>1. \A i \in DOMAIN words' :
            /\ words'[i].kind = "arena" => has_arena'
            /\ words'[i].kind = "heap" => ~has_arena'
    <3>1. ASSUME NEW i \in 1..L
          PROVE  /\ words'[i].kind = "arena" => has_arena'
                 /\ words'[i].kind = "heap" => ~has_arena'
      <4>1. i \in DOMAIN words /\ words'[i] = words[i]
        BY <1>0, <1>1 DEF TypeOK
      <4> QED
        BY <1>0, <1>2, <4>1 DEF TypeOK
    <3>2. /\ words'[L + 1].kind = "arena" => has_arena'
          /\ words'[L + 1].kind = "heap" => ~has_arena'
      BY <1>1, <1>2
    <3>3. \A i \in DOMAIN words' : i \in 1..L \/ i = L + 1
      BY <1>1
    <3> QED
      BY <3>1, <3>2, <3>3
  <2>2. Len(words') <= MaxWords
    BY <1>1, MaxWordsAssumption
  <2>3. ArenaTypeOK' /\ has_arena' \in BOOLEAN
    BY <1>0, <1>2 DEF IInv, TypeOK
  <2> QED
    BY SMTT(30), <1>1, <2>1, <2>2, <2>3 DEF TypeOK, NameOrNone
<1>4. used \in Nat /\ used' \in Nat
  BY <1>0, SizeAssumption DEF IInv, ArenaTypeOK
<1>h. ASSUME NEW p \in Pointer, NEW m \in NameOrNone, Holds(p, m, heap, used, buf)
      PROVE  Holds(p, m, heap', used', buf')
  <2>1. \A k \in DOMAIN heap : k \in DOMAIN heap' /\ heap'[k] = heap[k]
    OBVIOUS
  <2>2. used <= used' /\ \A o \in 0..(used - 1) : buf'[o] = buf[o]
    OBVIOUS
  <2> QED
    BY ONLY <1>4, <1>h, <2>1, <2>2, HoldsOn
<1>5. WordsHold'
  <2>1. ASSUME NEW i \in 1..(L + 1)
      PROVE  Holds(words'[i], defs'[i], heap', used', buf')
    <3>1. CASE i = L + 1
      BY <1>1, <3>1
    <3>2. CASE i # L + 1
      <4>1. i \in 1..L /\ words'[i] = words[i] /\ defs'[i] = defs[i]
        BY <1>1, <3>2
      <4>2. Holds(words[i], defs[i], heap, used, buf)
        BY <1>0, <4>1 DEF WordsHold
      <4>3. words[i] \in Pointer /\ defs[i] \in NameOrNone
        BY <1>0, <4>1, WordTypes
      <4>4. Holds(words[i], defs[i], heap', used', buf')
        BY <1>h, <4>2, <4>3
      <4>5. QED
        BY <4>1, <4>4
    <3>3. QED
      BY <3>1, <3>2
  <2> QED
    BY <1>1, <2>1 DEF WordsHold
<1>6. HeapOwned'
  <2>1. Freed' = Freed \cup (IF ptr.kind = "heap" THEN {ptr.at} ELSE {})
    <3>1. \A m : m \in Freed <=>
                 \E i \in 1..L : words[i].kind = "heap" /\ words[i].at = m
      BY <1>0, WordTypes DEF Freed
    <3>2. \A m : m \in Freed' <=>
                 \E i \in 1..(L + 1) : words'[i].kind = "heap" /\ words'[i].at = m
      BY <1>1 DEF Freed
    <3>3. \A m : (\E i \in 1..(L + 1) : words'[i].kind = "heap" /\ words'[i].at = m)
             <=> \/ \E i \in 1..L : words[i].kind = "heap" /\ words[i].at = m
                 \/ ptr.kind = "heap" /\ ptr.at = m
      <4>1. \A i : i \in 1..(L + 1) <=> i \in 1..L \/ i = L + 1
        BY <1>1
      <4>2. QED
        BY <1>1, <4>1
    <3>4. \A m : m \in Freed' <=> m \in Freed \/ (ptr.kind = "heap" /\ ptr.at = m)
      BY <3>1, <3>2, <3>3
    <3> HIDE DEF L
    <3>5. QED
      BY <3>4
  <2> QED
    BY <1>0, <2>1 DEF HeapOwned
<1> QED
  BY <1>3, <1>5, <1>6 DEF DictInv

LEMMA AnonymousStep == ASSUME DictInv, RegisterAnonymous PROVE DictInv'
<1>0. TypeOK /\ IInv
  BY DEF DictInv
<1>1. /\ Define(Null, Anonymous) /\ Len(words) < MaxWords
      /\ UNCHANGED <<buf, heap, serial, used, blocks>>
  BY DEF RegisterAnonymous, arena
<1>2. Null \in Pointer /\ Null.kind = "null" /\ Anonymous \in NameOrNone
  BY DEF Null, Pointer, NameOrNone
<1>3. Holds(Null, Anonymous, heap', used', buf')
  BY <1>2 DEF Holds
<1>4. IInv' /\ used \in Nat
  BY <1>0, <1>1, SizeAssumption DEF IInv, ArenaTypeOK, BlocksApart
<1>5. buf' \in [0..(Size - 1) -> Byte] /\ serial' \in Nat /\ DOMAIN heap' \subseteq 1..serial'
  BY <1>0, <1>1 DEF TypeOK
<1>6. /\ \A k \in DOMAIN heap : heap'[k] = heap[k]
      /\ DOMAIN heap' = DOMAIN heap \cup (IF Null.kind = "heap" THEN {Null.at} ELSE {})
      /\ used <= used' /\ \A o \in 0..(used - 1) : buf'[o] = buf[o]
  BY <1>1, <1>2, <1>4
<1>7. Null.kind # "arena" /\ Null.kind # "heap"
  BY <1>2
<1> QED
  BY <1>1, <1>2, <1>3, <1>4, <1>5, <1>6, <1>7, DefineStep

LEMMA HeapStep == ASSUME DictInv, NEW n \in Names, RegisterOnHeap(n) PROVE DictInv'
<1> DEFINE s == serial + 1
           ptr == OnHeap(s)
<1>0. TypeOK /\ IInv
  BY DEF DictInv
<1>1. serial \in Nat /\ DOMAIN heap \subseteq 1..serial
  BY <1>0 DEF TypeOK
<1>2. /\ Define(ptr, n) /\ Len(words) < MaxWords /\ ~has_arena
      /\ UNCHANGED <<buf, used, blocks>> /\ serial' = s
      /\ heap' = [k \in DOMAIN heap \cup {s} |-> IF k = s THEN n ELSE heap[k]]
  BY DEF RegisterOnHeap, arena
<1>3. s \in Nat /\ s \notin DOMAIN heap /\ 1..serial \subseteq 1..s /\ s \in 1..s
  BY <1>1
<1>4. ptr \in Pointer /\ ptr.kind = "heap" /\ ptr.at = s /\ n \in NameOrNone
  BY <1>3 DEF OnHeap, Pointer, NameOrNone
<1> HIDE DEF s, ptr
<1>5. /\ DOMAIN heap' = DOMAIN heap \cup {s} /\ heap'[s] = n
      /\ \A k \in DOMAIN heap : heap'[k] = heap[k]
  BY <1>2, <1>3
<1>6. Holds(ptr, n, heap', used', buf')
  BY <1>4, <1>5 DEF Holds
<1>7. IInv' /\ used \in Nat
  BY <1>0, <1>2, SizeAssumption DEF IInv, ArenaTypeOK, BlocksApart
<1>8. buf' \in [0..(Size - 1) -> Byte] /\ serial' \in Nat /\ DOMAIN heap' \subseteq 1..serial'
  <2>1. buf' \in [0..(Size - 1) -> Byte]
    BY <1>0, <1>2 DEF TypeOK
  <2> QED
    BY <1>1, <1>2, <1>3, <1>5, <2>1
<1>9. /\ DOMAIN heap' = DOMAIN heap \cup (IF ptr.kind = "heap" THEN {ptr.at} ELSE {})
      /\ used <= used' /\ \A o \in 0..(used - 1) : buf'[o] = buf[o]
  BY <1>2, <1>4, <1>5, <1>7
<1>10. ptr.kind # "arena" /\ ~has_arena
  BY <1>2, <1>4
<1> QED
  BY <1>2, <1>4, <1>5, <1>6, <1>7, <1>8, <1>9, <1>10, DefineStep

LEMMA ArenaNameStep ==
    ASSUME NamesFit, DictInv, NEW n \in Names, RegisterInArena(n)
    PROVE  DictInv'
<1> DEFINE at == Aligned(1)
           len == NameLen[n]
           ptr == InArena(at)
<1>0. TypeOK /\ IInv
  BY DEF DictInv
<1>1. len \in Nat /\ len >= 1 /\ 1 \in Nat /\ Size + 1 + len < SizeMod
  BY NameFacts
<1>2. /\ has_arena /\ Len(words) < MaxWords /\ Alloc(len, 1)
      /\ Define(ptr, n) /\ UNCHANGED <<heap, serial>>
      /\ buf' = Written(n, at)
  BY DEF RegisterInArena
<1>3. /\ at \in Nat /\ used <= at /\ at + len <= Size /\ used' = at + len
      /\ used \in Nat /\ Size \in Nat
  BY <1>0, <1>1, <1>2, AllocFacts
<1>4. IInv'
  BY <1>0, <1>1, <1>2, AllocStep
<1>5. ptr \in Pointer /\ ptr.kind = "arena" /\ ptr.at = at /\ n \in NameOrNone
  BY <1>3 DEF InArena, Pointer, NameOrNone
<1> HIDE DEF at, ptr
<1>6. buf' = [o \in 0..(Size - 1) |->
                 IF o >= at /\ o < at + len THEN <<n, o - at + 1>> ELSE buf[o]]
  BY <1>2 DEF Written
<1> HIDE DEF len
<1>7. buf' \in [0..(Size - 1) -> Byte]
  <2>1. ASSUME NEW o \in 0..(Size - 1), o >= at, o < at + len
        PROVE  <<n, o - at + 1>> \in Byte
    <3>1. o - at + 1 \in 1..Size
      BY <1>1, <1>3, <2>1
    <3> QED
      BY <3>1 DEF Byte
  <2>2. buf \in [0..(Size - 1) -> Byte]
    BY <1>0 DEF TypeOK
  <2> QED
    BY <1>6, <2>1, <2>2
<1>8. \A k \in 1..len : buf'[at + k - 1] = <<n, k>>
  <2>1. ASSUME NEW k \in 1..len PROVE buf'[at + k - 1] = <<n, k>>
    <3>1. /\ at + k - 1 \in 0..(Size - 1) /\ at + k - 1 >= at
          /\ at + k - 1 < at + len /\ (at + k - 1) - at + 1 = k
      BY <1>1, <1>3, <2>1
    <3> QED
      BY <1>6, <3>1
  <2> QED
    BY <2>1
<1>9. \A o \in 0..(used - 1) : buf'[o] = buf[o]
  <2>1. ASSUME NEW o \in 0..(used - 1) PROVE buf'[o] = buf[o]
    <3>1. o \in 0..(Size - 1) /\ ~(o >= at)
      BY <1>1, <1>3, <2>1
    <3> QED
      BY <1>6, <3>1
  <2> QED
    BY <2>1
<1>10. Holds(ptr, n, heap', used', buf')
  BY <1>3, <1>5, <1>8 DEF Holds, len
<1>11. /\ serial' \in Nat /\ DOMAIN heap' \subseteq 1..serial'
       /\ DOMAIN heap' = DOMAIN heap /\ \A k \in DOMAIN heap : heap'[k] = heap[k]
  BY <1>0, <1>2 DEF TypeOK
<1>12. used <= used'
  BY <1>1, <1>3
<1> QED
  BY <1>2, <1>4, <1>5, <1>7, <1>9, <1>10, <1>11, <1>12, DefineStep

\* Another block of the arena lies behind the names.
LEMMA OwnerAllocStep ==
    ASSUME DictInv, NEW n \in Nat, NEW a \in Nat, Size + a + n < SizeMod, OwnerAlloc(n, a)
    PROVE  DictInv'
<1> DEFINE at == Aligned(a)
           none == <<Anonymous, 0>>
<1>0. TypeOK /\ IInv /\ WordsHold /\ HeapOwned
  BY DEF DictInv
<1>1. /\ Alloc(n, a)
      /\ buf' = [o \in 0..(Size - 1) |->
                    IF o >= at /\ o < at + n THEN none ELSE buf[o]]
      /\ UNCHANGED <<has_arena, words, heap, serial, defs>>
  BY DEF OwnerAlloc, dict
<1>2. /\ at \in Nat /\ used <= at /\ at + n <= Size /\ used' = at + n
      /\ used \in Nat /\ Size \in Nat
  BY <1>0, <1>1, AllocFacts
<1>3. IInv'
  BY <1>0, <1>1, AllocStep
<1>4. none \in Byte
  BY DEF Byte
<1> HIDE DEF at, none
<1>5. buf' \in [0..(Size - 1) -> Byte]
  BY <1>0, <1>1, <1>4 DEF TypeOK
<1>6. TypeOK'
  BY <1>0, <1>1, <1>3, <1>5 DEF TypeOK, IInv
<1>7. \A o \in 0..(used - 1) : buf'[o] = buf[o]
  <2>1. ASSUME NEW o \in 0..(used - 1) PROVE buf'[o] = buf[o]
    <3>1. o \in 0..(Size - 1) /\ ~(o >= at)
      BY <1>2, <2>1
    <3> QED
      BY <1>1, <3>1
  <2> QED
    BY <2>1
<1>8. used' \in Nat /\ used <= used'
  BY <1>2
<1>9. ASSUME NEW i \in 1..Len(words)
      PROVE  Holds(words[i], defs[i], heap', used', buf')
  <2>1. Holds(words[i], defs[i], heap, used, buf)
    BY <1>0 DEF WordsHold
  <2>2. words[i] \in Pointer /\ defs[i] \in NameOrNone
    BY <1>0, WordTypes
  <2> QED
    BY <1>1, <1>2, <1>7, <1>8, <2>1, <2>2, HoldsOn
<1>10. WordsHold' /\ HeapOwned'
  BY <1>0, <1>1, <1>9 DEF WordsHold, HeapOwned, Freed
<1> QED
  BY <1>3, <1>6, <1>10 DEF DictInv

\* No words, and nothing left on the heap.
LEMMA NoWords ==
    ASSUME words = << >>, defs = << >>, DOMAIN heap = {}, serial \in Nat,
           IInv, has_arena \in BOOLEAN, buf \in [0..(Size - 1) -> Byte]
    PROVE  DictInv
<1>1. /\ words \in Seq(Pointer) /\ defs \in Seq(Names \cup {Anonymous})
      /\ Len(words) = 0 /\ Len(defs) = 0 /\ DOMAIN words = {}
  OBVIOUS
<1>2. TypeOK
  BY <1>1, MaxWordsAssumption DEF TypeOK, IInv
<1>3. WordsHold
  BY <1>1 DEF WordsHold
<1>4. HeapOwned
  BY <1>1 DEF HeapOwned, Freed
<1> QED
  BY <1>2, <1>3, <1>4 DEF DictInv

LEMMA InitDict == Init => DictInv
<1> SUFFICES ASSUME Init PROVE DictInv
  OBVIOUS
<1>1. IInv
  BY InitInv DEF Init
<1>2. DOMAIN heap = {} /\ serial \in Nat
  BY DEF Init
<1>3. buf \in [0..(Size - 1) -> Byte]
  BY DEF Init, Byte
<1> QED
  BY <1>1, <1>2, <1>3, NoWords DEF Init

LEMMA ResetDictionaryStep == ASSUME DictInv, ResetDictionary PROVE DictInv'
<1>0. TypeOK /\ IInv /\ HeapOwned
  BY DEF DictInv
<1>1. /\ words' = << >> /\ defs' = << >>
      /\ UNCHANGED <<has_arena, buf, serial, used, blocks>>
      /\ DOMAIN heap' = DOMAIN heap \ Freed
  BY DEF ResetDictionary, arena
<1>2. DOMAIN heap' = {}
  BY <1>0, <1>1 DEF HeapOwned
<1>3. /\ words' \in Seq(Pointer) /\ defs' \in Seq(Names \cup {Anonymous})
      /\ Len(words') = 0 /\ Len(defs') = 0 /\ DOMAIN words' = {}
  BY <1>1
<1>4. IInv'
  BY <1>0, <1>1 DEF IInv, ArenaTypeOK, BlocksApart
<1>5. TypeOK'
  BY <1>0, <1>1, <1>2, <1>3, <1>4, MaxWordsAssumption DEF TypeOK, IInv
<1>6. WordsHold'
  BY <1>3 DEF WordsHold
<1>7. HeapOwned'
  BY <1>2, <1>3 DEF HeapOwned, Freed
<1> QED
  BY <1>4, <1>5, <1>6, <1>7 DEF DictInv

LEMMA OwnerResetStep == ASSUME DictInv, OwnerReset PROVE DictInv'
<1>0. TypeOK /\ HeapOwned
  BY DEF DictInv
<1>1. /\ words' = << >> /\ words = << >>
      /\ UNCHANGED <<has_arena, words, heap, serial, defs, buf>>
  BY DEF OwnerReset, dict
<1>2. IInv'
  BY ResetStep DEF OwnerReset
<1>3. Len(words') = 0
  BY <1>1
<1>4. TypeOK'
  BY <1>0, <1>1, <1>2 DEF TypeOK, IInv
<1>5. WordsHold'
  BY <1>3 DEF WordsHold
<1>6. HeapOwned'
  BY <1>0, <1>1 DEF HeapOwned, Freed
<1> QED
  BY <1>2, <1>4, <1>5, <1>6 DEF DictInv

LEMMA NextDict ==
    ASSUME NoWrap, NamesFit
    PROVE  DictInv /\ [Next]_vars => DictInv'
<1> SUFFICES ASSUME DictInv, [Next]_vars PROVE DictInv'
  OBVIOUS
<1>1. CASE RegisterAnonymous
  BY <1>1, AnonymousStep
<1>2. CASE \E n \in Names : RegisterInArena(n)
  BY <1>2, ArenaNameStep
<1>3. CASE \E n \in Names : RegisterOnHeap(n)
  BY <1>3, HeapStep
<1>4. CASE ResetDictionary
  BY <1>4, ResetDictionaryStep
<1>5. CASE OwnerReset
  BY <1>5, OwnerResetStep
<1>6. CASE \E n \in Requests, a \in Aligns : OwnerAlloc(n, a)
  BY <1>6, OwnerAllocStep, RequestFacts
<1>7. CASE UNCHANGED vars
  BY <1>7 DEF vars, DictInv, IInv, TypeOK, ArenaTypeOK, BlocksApart, WordsHold,
              HeapOwned, Freed
<1>8. CASE \/ \E n \in Names : RegisterFails(n)
           \/ \E n \in Requests, a \in Aligns : OwnerAllocFails(n, a)
  <2>1. UNCHANGED vars
    BY <1>8 DEF RegisterFails, OwnerAllocFails, AllocFails, arena, dict, vars
  <2> QED
    BY <1>7, <2>1
<1> QED
  BY <1>1, <1>2, <1>3, <1>4, <1>5, <1>6, <1>7, <1>8 DEF Next

LEMMA AlwaysDict == ASSUME NoWrap, NamesFit PROVE Spec => []DictInv
<1>1. DictInv /\ [Next]_vars => DictInv'
  BY NextDict
<1> QED
  BY <1>1, InitDict, PTL DEF Spec

-----------------------------------------------------------------------------
(* The theorems: the sums of v4_arena_alloc do not wrap around. *)

THEOREM TypeCorrect == ASSUME NoWrap, NamesFit PROVE Spec => []TypeOK
<1>1. DictInv => TypeOK
  BY DEF DictInv
<1> QED
  BY <1>1, AlwaysDict, PTL

\* v4_arena_alloc never hands out bytes twice, nor bytes outside the buffer,
\* whoever asks for them.
THEOREM BlocksStayApart == ASSUME NoWrap, NamesFit PROVE Spec => []BlocksApart
<1>1. DictInv => BlocksApart
  BY DEF DictInv, IInv
<1> QED
  BY <1>1, AlwaysDict, PTL

\* The names on the heap are those of the words: each is freed once, with its
\* word, and not before.
THEOREM HeapStaysOwned == ASSUME NoWrap, NamesFit PROVE Spec => []HeapOwned
<1>1. DictInv => HeapOwned
  BY DEF DictInv
<1> QED
  BY <1>1, AlwaysDict, PTL

\* A stored name compares equal to the name it was defined under and to no
\* other, so that the search sees the definitions themselves.
THEOREM NewestFound == ASSUME NoWrap, NamesFit PROVE Spec => []FindsNewest
<1>1. ASSUME DictInv, NEW n \in Names, NEW i \in 1..Len(words)
      PROVE  Reads(words[i], n) <=> defs[i] = n
  <2>1. Holds(words[i], defs[i], heap, used, buf)
    BY <1>1 DEF DictInv, WordsHold
  <2>2. words[i].at \in Nat /\ n # Anonymous
    BY <1>1, WordTypes, NamesAssumption DEF DictInv
  <2>3. \A m \in Names : NameLen[m] \in Nat /\ 1 \in 1..NameLen[m]
    BY NameFacts
  <2>4. CASE words[i].kind = "null" /\ defs[i] = Anonymous
    BY <2>2, <2>4 DEF Reads
  <2>5. CASE /\ words[i].kind = "heap" /\ words[i].at \in DOMAIN heap
             /\ heap[words[i].at] = defs[i]
    BY <2>5 DEF Reads
  <2>6. CASE /\ words[i].kind = "arena" /\ defs[i] \in Names
             /\ \A k \in 1..NameLen[defs[i]] : buf[words[i].at + k - 1] = <<defs[i], k>>
    <3>1. Reads(words[i], n) <=>
              \A k \in 1..NameLen[n] : buf[words[i].at + k - 1] = <<n, k>>
      BY <2>6 DEF Reads
    <3>2. (\A k \in 1..NameLen[n] : buf[words[i].at + k - 1] = <<n, k>>) => defs[i] = n
      <4>1. buf[words[i].at + 1 - 1] = <<defs[i], 1>>
        BY <2>3, <2>6
      <4>2. (\A k \in 1..NameLen[n] : buf[words[i].at + k - 1] = <<n, k>>)
                => buf[words[i].at + 1 - 1] = <<n, 1>>
        BY <2>3
      <4>3. QED
        BY <4>1, <4>2
    <3>3. QED
      BY <2>6, <3>1, <3>2
  <2>7. QED
    BY <2>1, <2>4, <2>5, <2>6 DEF Holds
<1>2. ASSUME DictInv PROVE FindsNewest
  <2>1. ASSUME NEW n \in Names
        PROVE  {i \in DOMAIN words : Reads(words[i], n)} = {i \in DOMAIN defs : defs[i] = n}
    <3>1. DOMAIN words = 1..Len(words) /\ DOMAIN defs = 1..Len(words)
      BY <1>2, WordTypes DEF DictInv
    <3>2. \A i \in 1..Len(words) : Reads(words[i], n) <=> defs[i] = n
      BY <1>1, <1>2
    <3> QED
      BY <3>1, <3>2
  <2> QED
    BY <2>1 DEF FindsNewest, FindWord
<1> QED
  BY <1>2, AlwaysDict, PTL

\* In a buffer that is aligned itself, every pointer the arena hands out is.
THEOREM AlwaysAligned ==
    ASSUME NoWrap, NamesFit, BaseAligned
    PROVE  Spec => []PointersAligned
<1>1. Init => PointersAligned
  BY NoBlocksAligned DEF Init, ArenaInit
<1>2. ASSUME DictInv, PointersAligned, [Next]_vars PROVE PointersAligned'
  <2>1. IInv
    BY <1>2 DEF DictInv
  <2>2. CASE \E n \in Names : RegisterInArena(n)
    <3>1. PICK n \in Names : Alloc(NameLen[n], 1)
      BY <2>2 DEF RegisterInArena
    <3> QED
      BY <1>2, <2>1, <3>1, NameFacts, AllocAligned
  <2>3. CASE \E n \in Requests, a \in Aligns : OwnerAlloc(n, a)
    <3>1. PICK n \in Requests, a \in Aligns : Alloc(n, a)
      BY <2>3 DEF OwnerAlloc
    <3> QED
      BY <1>2, <2>1, <3>1, RequestFacts, AllocAligned
  <2>4. CASE OwnerReset
    <3>1. blocks' = << >> /\ Len(<< >>) = 0
      BY <2>4 DEF OwnerReset, ArenaReset
    <3> QED
      BY <3>1 DEF PointersAligned
  <2>5. CASE UNCHANGED blocks
    BY <1>2, <2>5 DEF PointersAligned
  <2>6. QED
    BY <1>2, <2>2, <2>3, <2>4, <2>5
    DEF Next, RegisterAnonymous, RegisterOnHeap, RegisterFails, ResetDictionary,
        OwnerAllocFails, AllocFails, arena, vars
<1> QED
  BY <1>1, <1>2, AlwaysDict, PTL DEF Spec
=============================================================================
