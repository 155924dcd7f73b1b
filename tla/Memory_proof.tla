---------------------------- MODULE Memory_proof ----------------------------
(***************************************************************************)
(* Proofs about Memory, for every RAM size, byte width, set of accesses,   *)
(* set of windows and table capacity.                                      *)
(***************************************************************************)
EXTENDS Memory, WellFoundedInduction, TLAPS

-----------------------------------------------------------------------------
(* Numbers written in bytes *)

\* A number is its last digit and the digits before it.
LEMMA Digit ==
    ASSUME NEW b \in Nat \ {0}, NEW x \in Nat
    PROVE  /\ x % b \in 0..(b - 1) /\ x \div b \in Nat
           /\ x = (x % b) + b * (x \div b)
OBVIOUS

\* The last digit and the digits before it are determined by the number.
LEMMA DigitUnique ==
    ASSUME NEW b \in Nat \ {0}, NEW q \in Nat, NEW r \in 0..(b - 1)
    PROVE  (b * q + r) % b = r /\ (b * q + r) \div b = q
OBVIOUS

\* Two shifts are one shift.
LEMMA ShiftTwice ==
    ASSUME NEW b \in Nat \ {0}, NEW c \in Nat \ {0}, NEW x \in Nat
    PROVE  (x \div b) \div c = x \div (b * c)
OBVIOUS

\* What the weights of the bytes are.
LEMMA Weights ==
    /\ Weight(0) = 1 /\ Weight(1) = ByteMod
    /\ Weight(2) = ByteMod * ByteMod
    /\ Weight(3) = ByteMod * ByteMod * ByteMod
    /\ Weight(4) = ByteMod * ByteMod * ByteMod * ByteMod
    /\ \A k \in 0..4 : Weight(k) \in Nat \ {0}
<1>1. /\ Weight(0) = 1 /\ Weight(1) = ByteMod
      /\ Weight(2) = ByteMod * ByteMod
      /\ Weight(3) = ByteMod * ByteMod * ByteMod
      /\ Weight(4) = ByteMod * ByteMod * ByteMod * ByteMod
  BY DEF Weight
<1>2. ASSUME NEW a \in Nat \ {0}, NEW b \in Nat \ {0} PROVE a * b \in Nat \ {0}
  OBVIOUS
<1>3. /\ ByteMod \in Nat \ {0}
      /\ ByteMod * ByteMod \in Nat \ {0}
      /\ ByteMod * ByteMod * ByteMod \in Nat \ {0}
      /\ ByteMod * ByteMod * ByteMod * ByteMod \in Nat \ {0}
  <2>1. ByteMod \in Nat \ {0}
    BY SizesAssumption
  <2>2. ByteMod * ByteMod \in Nat \ {0}
    BY <2>1, <1>2
  <2>3. ByteMod * ByteMod * ByteMod \in Nat \ {0}
    BY <2>1, <2>2, <1>2
  <2> QED
    BY <2>1, <2>2, <2>3, <1>2
<1>4. \A k \in 0..4 : k \in {0, 1, 2, 3, 4}
  OBVIOUS
<1> QED
  BY <1>1, <1>3, <1>4

\* A weight is a positive number.
LEMMA WeightNat == \A k \in 0..4 : Weight(k) \in Nat \ {0}
BY Weights

\* A byte appended below a number of n bytes gives one of n + 1 bytes.
LEMMA OneMoreByte ==
    ASSUME NEW w \in Nat \ {0}, NEW x \in 0..(w - 1), NEW d \in Bytes
    PROVE  x + d * w \in 0..(w * ByteMod - 1)
<1>1. d \in Nat /\ ByteMod \in Nat /\ d <= ByteMod - 1
  BY SizesAssumption DEF Bytes
<1>2. d * w \in Nat /\ d * w <= (ByteMod - 1) * w
  BY <1>1
<1>3. (ByteMod - 1) * w = w * ByteMod - w
  BY <1>1
<1> QED
  BY <1>1, <1>2, <1>3

\* A byte of a number is a byte.
LEMMA ByteOfType ==
    ASSUME NEW x \in Nat, NEW k \in 0..3
    PROVE  ByteOf(x, k) \in Bytes
<1>1. Weight(k) \in Nat \ {0}
  BY Weights
<1>2. x \div Weight(k) \in Nat
  BY <1>1
<1> QED
  BY <1>2, SizesAssumption DEF ByteOf, Bytes

\* The bytes of a word, put together by their weights, are the word cut to
\* their number.
LEMMA BytesOfWord ==
    ASSUME NEW x \in Words
    PROVE  /\ ByteOf(x, 0) * Weight(0) = x % Weight(1)
           /\ ByteOf(x, 0) * Weight(0) + ByteOf(x, 1) * Weight(1) = x % Weight(2)
           /\ ByteOf(x, 0) * Weight(0) + ByteOf(x, 1) * Weight(1)
                 + ByteOf(x, 2) * Weight(2) + ByteOf(x, 3) * Weight(3)
              = x % Weight(4)
<1> DEFINE b == ByteMod
           q1 == x \div b
           q2 == q1 \div b
           q3 == q2 \div b
<1>b. b \in Nat \ {0}
  BY SizesAssumption
<1>w. b * b \in Nat \ {0} /\ b * b * b \in Nat \ {0}
  BY Weights
<1>x. x \in Nat /\ x < b * b * b * b
  BY Weights DEF Words
<1> HIDE DEF b
<1>1. x % b \in 0..(b - 1) /\ q1 \in Nat /\ x = (x % b) + b * q1
  BY <1>b, <1>x, Digit
<1>2. q1 % b \in 0..(b - 1) /\ q2 \in Nat /\ q1 = (q1 % b) + b * q2
  BY <1>b, <1>1, Digit
<1>3. q2 % b \in 0..(b - 1) /\ q3 \in Nat /\ q2 = (q2 % b) + b * q3
  BY <1>b, <1>2, Digit
<1>4. x \div (b * b) = q2 /\ x \div (b * b * b) = q3
  <2>1. x \div (b * b) = q2
    BY <1>b, <1>x, ShiftTwice
  <2>2. x \div (b * b * b) = (x \div (b * b)) \div b
    BY <1>b, <1>w, <1>x, ShiftTwice
  <2> QED
    BY <2>1, <2>2
<1> HIDE DEF q1, q2, q3
<1>5. x = (x % b) + b * ((q1 % b) + b * q2)
  BY <1>1, <1>2
<1>6. x = (x % b) + (q1 % b) * b + (b * b) * q2
  BY <1>5, <1>b, <1>1, <1>2
<1>7. q3 % b = q3
  <2>1. CASE q3 >= b
    <3>1. q2 >= b * b
      <4>1. b * q3 >= b * b
        BY <2>1, <1>b, <1>3
      <4> QED
        BY <4>1, <1>3, <1>b, <1>w
    <3>2. (b * b) * q2 >= (b * b) * (b * b)
      BY <3>1, <1>2, <1>w
    <3>3. x >= (b * b) * (b * b)
      <4>1. (q1 % b) * b \in Nat /\ x % b \in Nat
        BY <1>b, <1>1, <1>2
      <4>2. (b * b) * q2 \in Nat /\ (b * b) * (b * b) \in Nat
        BY <1>w, <1>2
      <4> QED
        BY <4>1, <4>2, <3>2, <1>6
    <3>4. (b * b) * (b * b) = b * b * b * b
      BY <1>b
    <3> QED
      BY <3>3, <3>4, <1>x, <1>b, <1>w
  <2>2. CASE q3 < b
    BY <2>2, <1>b, <1>3
  <2> QED
    BY <2>1, <2>2, <1>b, <1>3
<1>8. x % (b * b) = (x % b) + (q1 % b) * b
  <2>1. (x % b) + (q1 % b) * b \in 0..(b * b - 1)
    BY <1>1, <1>2, <1>b, OneMoreByte DEF Bytes, b
  <2> QED
    BY <2>1, <1>6, <1>w, <1>2, DigitUnique
<1>9. x = (x % b) + (q1 % b) * b + (q2 % b) * (b * b) + q3 * (b * b * b)
  <2>1. (b * b) * q2 = (q2 % b) * (b * b) + q3 * (b * b * b)
    BY <1>3, <1>b
  <2> QED
    BY <2>1, <1>6, <1>b, <1>1, <1>2, <1>3
<1>10. x % (b * b * b * b) = x
  BY <1>x, <1>b, Weights DEF b
<1>11. /\ ByteOf(x, 0) = x % b /\ ByteOf(x, 1) = q1 % b
       /\ ByteOf(x, 2) = q2 % b /\ ByteOf(x, 3) = q3 % b
  <2>1. x \div 1 = x
    BY <1>x
  <2> QED
    BY <2>1, <1>4, Weights DEF ByteOf, b, q1
<1> QED
  BY <1>1, <1>7, <1>8, <1>9, <1>10, <1>11, Weights DEF b

-----------------------------------------------------------------------------
(* Loads and stores *)

\* The bytes an access stores are those of its value, the others stay.
LEMMA StoreBytes ==
    ASSUME TypeOK, NEW addr \in Nat, NEW n \in Widths, NEW x \in Words
    PROVE  /\ Store(addr, n, x) \in [0..(MemSize - 1) -> Bytes]
           /\ \A k \in 0..3 :
                 k < n /\ InRam(addr, n) =>
                     /\ addr + k \in 0..(MemSize - 1)
                     /\ Store(addr, n, x)[addr + k] = ByteOf(x, k)
           /\ \A a \in 0..(MemSize - 1) :
                 Store(addr, n, x)[a] # mem[a] => a \in addr..(addr + n - 1)
<1>1. mem \in [0..(MemSize - 1) -> Bytes] /\ MemSize \in Nat /\ x \in Nat
  BY SizesAssumption, Weights DEF TypeOK, Words
<1>2. n \in {1, 2, 4}
  BY DEF Widths
<1>3. ASSUME NEW a \in 0..(MemSize - 1), a >= addr /\ a < addr + n
      PROVE  ByteOf(x, a - addr) \in Bytes
  <2>1. a - addr \in 0..3
    BY <1>2, <1>3
  <2> QED
    BY <2>1, <1>1, ByteOfType
<1>4. Store(addr, n, x) \in [0..(MemSize - 1) -> Bytes]
  BY <1>1, <1>3 DEF Store
<1>5. ASSUME NEW k \in 0..3, k < n, InRam(addr, n)
      PROVE  /\ addr + k \in 0..(MemSize - 1)
             /\ Store(addr, n, x)[addr + k] = ByteOf(x, k)
  <2>1. addr + k \in 0..(MemSize - 1) /\ (addr + k) - addr = k
    BY <1>1, <1>2, <1>5 DEF InRam
  <2>2. addr + k >= addr /\ addr + k < addr + n
    BY <1>2, <1>5
  <2> QED
    BY <1>1, <2>1, <2>2 DEF Store
<1>6. ASSUME NEW a \in 0..(MemSize - 1), Store(addr, n, x)[a] # mem[a]
      PROVE  a \in addr..(addr + n - 1)
  <2>1. a >= addr /\ a < addr + n
    BY <1>1, <1>6 DEF Store
  <2> QED
    BY <2>1, <1>2
<1> QED
  BY <1>4, <1>5, <1>6

\* The digits a load puts together, for any content of the RAM.
LoadOf(m, addr, n) ==
    LET byte(k) == IF k < n THEN m[addr + k] * Weight(k) ELSE 0
    IN byte(0) + byte(1) + byte(2) + byte(3)

\* A load of one, two or four bytes.
LEMMA LoadCases ==
    ASSUME NEW m \in [0..(MemSize - 1) -> Bytes], NEW addr \in Nat,
           NEW n \in Widths, InRam(addr, n)
    PROVE  /\ \A k \in 0..3 : k < n => m[addr + k] \in Bytes
           /\ n = 1 => LoadOf(m, addr, n) = m[addr + 0] * Weight(0)
           /\ n = 2 => LoadOf(m, addr, n)
                        = m[addr + 0] * Weight(0) + m[addr + 1] * Weight(1)
           /\ n = 4 => LoadOf(m, addr, n)
                        = m[addr + 0] * Weight(0) + m[addr + 1] * Weight(1)
                          + m[addr + 2] * Weight(2) + m[addr + 3] * Weight(3)
<1>1. n \in {1, 2, 4} /\ MemSize \in Nat
  BY SizesAssumption DEF Widths
<1>2. ASSUME NEW k \in 0..3, k < n
      PROVE  m[addr + k] \in Bytes
  <2>1. addr + k \in 0..(MemSize - 1)
    BY <1>1, <1>2 DEF InRam
  <2> QED
    BY <2>1
<1>3. ASSUME NEW k \in 0..3, k < n
      PROVE  m[addr + k] * Weight(k) \in Nat
  <2>1. m[addr + k] \in Nat /\ Weight(k) \in Nat
    <3>1. m[addr + k] \in Bytes
      BY <1>2, <1>3
    <3>2. k \in 0..4
      OBVIOUS
    <3>3. Weight(k) \in Nat
      BY <3>2, WeightNat
    <3>4. Bytes \subseteq Nat
      BY SizesAssumption DEF Bytes
    <3> QED
      BY <3>1, <3>3, <3>4
  <2> QED
    BY <2>1
<1> QED
  BY <1>1, <1>2, <1>3 DEF LoadOf

\* The bytes of a load, put together, fit its width.
LEMMA Assemble ==
    ASSUME NEW d0 \in Bytes, NEW d1 \in Bytes, NEW d2 \in Bytes, NEW d3 \in Bytes
    PROVE  /\ d0 * Weight(0) \in 0..(Weight(1) - 1)
           /\ d0 * Weight(0) + d1 * Weight(1) \in 0..(Weight(2) - 1)
           /\ d0 * Weight(0) + d1 * Weight(1) + d2 * Weight(2) + d3 * Weight(3)
              \in 0..(Weight(4) - 1)
<1>1. /\ Weight(1) \in Nat \ {0} /\ Weight(2) \in Nat \ {0}
      /\ Weight(3) \in Nat \ {0}
  BY WeightNat
<1>2. /\ Weight(2) = Weight(1) * ByteMod /\ Weight(3) = Weight(2) * ByteMod
      /\ Weight(4) = Weight(3) * ByteMod
  BY Weights
<1>3. d0 * Weight(0) \in 0..(Weight(1) - 1)
  <2>1. d0 \in 0..(ByteMod - 1) /\ d0 * 1 = d0
    BY SizesAssumption DEF Bytes
  <2> QED
    BY <2>1, Weights
<1>4. d0 * Weight(0) + d1 * Weight(1) \in 0..(Weight(1) * ByteMod - 1)
  BY <1>1, <1>3, OneMoreByte
<1>5. d0 * Weight(0) + d1 * Weight(1) \in 0..(Weight(2) - 1)
  BY <1>2, <1>4
<1>6. d0 * Weight(0) + d1 * Weight(1) + d2 * Weight(2)
      \in 0..(Weight(2) * ByteMod - 1)
  BY <1>1, <1>5, OneMoreByte
<1>7. d0 * Weight(0) + d1 * Weight(1) + d2 * Weight(2) \in 0..(Weight(3) - 1)
  BY <1>2, <1>6
<1>8. d0 * Weight(0) + d1 * Weight(1) + d2 * Weight(2) + d3 * Weight(3)
      \in 0..(Weight(3) * ByteMod - 1)
  BY <1>1, <1>7, OneMoreByte
<1> QED
  BY <1>2, <1>3, <1>5, <1>8

\* A shorter number fits a word.
LEMMA Widen == Weight(1) <= Weight(4) /\ Weight(2) <= Weight(4)
<1>1. ASSUME NEW w \in Nat \ {0} PROVE w <= w * ByteMod /\ w * ByteMod \in Nat \ {0}
  BY SizesAssumption
<1>2. Weight(1) \in Nat \ {0}
  BY WeightNat
<1>3. Weight(1) * ByteMod = Weight(2) /\ Weight(2) * ByteMod = Weight(3)
      /\ Weight(3) * ByteMod = Weight(4)
  BY Weights
<1>4. Weight(1) <= Weight(2) /\ Weight(2) \in Nat \ {0}
  BY <1>1, <1>2, <1>3
<1>5. Weight(2) <= Weight(3) /\ Weight(3) \in Nat \ {0}
  BY <1>1, <1>4, <1>3
<1>6. Weight(3) <= Weight(4) /\ Weight(4) \in Nat \ {0}
  BY <1>1, <1>5, <1>3
<1> QED
  BY <1>2, <1>4, <1>5, <1>6

\* What a load returns fits a word.
LEMMA LoadType ==
    ASSUME NEW m \in [0..(MemSize - 1) -> Bytes], NEW addr \in Nat,
           NEW n \in Widths, InRam(addr, n)
    PROVE  LoadOf(m, addr, n) \in Words
<1>1. \A k \in 0..3 : k < n => m[addr + k] \in Bytes
  BY LoadCases
<1>2. 0 \in Bytes
  BY SizesAssumption DEF Bytes
<1>3. Weight(1) \in Nat /\ Weight(2) \in Nat /\ Weight(4) \in Nat
  BY WeightNat
<1>4. CASE n = 1
  <2>1. m[addr + 0] \in Bytes
    BY <1>1, <1>4
  <2>2. m[addr + 0] * Weight(0) \in 0..(Weight(1) - 1)
    BY <2>1, <1>2, Assemble
  <2>3. LoadOf(m, addr, n) = m[addr + 0] * Weight(0)
    BY <1>4, LoadCases
  <2> QED
    BY <2>2, <2>3, <1>3, Widen DEF Words
<1>5. CASE n = 2
  <2>1. m[addr + 0] \in Bytes /\ m[addr + 1] \in Bytes
    BY <1>1, <1>5
  <2>2. m[addr + 0] * Weight(0) + m[addr + 1] * Weight(1) \in 0..(Weight(2) - 1)
    BY <2>1, <1>2, Assemble
  <2>3. LoadOf(m, addr, n) = m[addr + 0] * Weight(0) + m[addr + 1] * Weight(1)
    BY <1>5, LoadCases
  <2> QED
    BY <2>2, <2>3, <1>3, Widen DEF Words
<1>6. CASE n = 4
  <2>1. /\ m[addr + 0] \in Bytes /\ m[addr + 1] \in Bytes
        /\ m[addr + 2] \in Bytes /\ m[addr + 3] \in Bytes
    BY <1>1, <1>6
  <2>2. LoadOf(m, addr, n)
        = m[addr + 0] * Weight(0) + m[addr + 1] * Weight(1)
          + m[addr + 2] * Weight(2) + m[addr + 3] * Weight(3)
    BY <1>6, LoadCases
  <2>3. m[addr + 0] * Weight(0) + m[addr + 1] * Weight(1)
          + m[addr + 2] * Weight(2) + m[addr + 3] * Weight(3)
        \in 0..(Weight(4) - 1)
    BY <2>1, Assemble
  <2> QED
    BY <2>2, <2>3 DEF Words
<1> QED
  BY <1>4, <1>5, <1>6 DEF Widths

\* A load of what was just stored.
LEMMA LoadStored ==
    ASSUME TypeOK, NEW addr \in Nat, NEW n \in Widths, NEW x \in Words,
           InRam(addr, n)
    PROVE  LoadOf(Store(addr, n, x), addr, n) = x % Weight(n)
<1> DEFINE m == Store(addr, n, x)
<1>1. m \in [0..(MemSize - 1) -> Bytes]
  BY StoreBytes
<1>2. \A k \in 0..3 : k < n => m[addr + k] = ByteOf(x, k)
  BY StoreBytes
<1> HIDE DEF m
<1>3. CASE n = 1
  BY <1>1, <1>2, <1>3, LoadCases, BytesOfWord DEF m
<1>4. CASE n = 2
  BY <1>1, <1>2, <1>4, LoadCases, BytesOfWord DEF m
<1>5. CASE n = 4
  BY <1>1, <1>2, <1>5, LoadCases, BytesOfWord DEF m
<1> QED
  BY <1>3, <1>4, <1>5 DEF Widths

-----------------------------------------------------------------------------
(* The window table *)

\* The smaller of two numbers.
LEMMA MinTwo ==
    ASSUME NEW a \in Nat, NEW b \in Nat
    PROVE  Min({a, b}) \in {a, b} /\ Min({a, b}) <= a /\ Min({a, b}) <= b
<1>1. \E x \in {a, b} : \A y \in {a, b} : x <= y
  <2>1. CASE a <= b
    BY <2>1
  <2>2. CASE b <= a
    BY <2>2
  <2> QED
    BY <2>1, <2>2
<1> QED
  BY <1>1 DEF Min

\* A set of natural numbers that is not empty has a least element.
LEMMA LeastHit ==
    ASSUME NEW S, S \subseteq Nat, S # {}
    PROVE  Min(S) \in S /\ \A u \in S : Min(S) <= u
<1> DEFINE Less == {p \in Nat \X Nat : p[1] < p[2]}
<1>1. IsWellFoundedOn(Less, Nat)
  BY NatLessThanWellFounded DEF OpToRel
<1>2. PICK t \in S : \A u \in S : ~(<<u, t>> \in Less)
  <2> HIDE DEF Less
  <2> QED
    BY <1>1, WFMin
<1>3. ASSUME NEW u \in S PROVE t <= u
  <2>1. t \in Nat /\ u \in Nat /\ ~(u < t)
    BY <1>2, <1>3
  <2> QED
    BY <2>1
<1> QED
  BY <1>3 DEF Min

\* The first window of a table that covers an address, -1 if there is none.
First(list, addr) ==
    LET hits == {i \in DOMAIN list : Covers(list[i], addr)}
    IN IF hits = {} THEN -1 ELSE Min(hits)

\* The search stops at a window that covers the address and has none before it.
LEMMA FirstCovers ==
    ASSUME NEW list \in Seq(Windows), NEW addr \in Nat
    PROVE  \/ First(list, addr) = -1 /\ \A i \in DOMAIN list : ~Covers(list[i], addr)
           \/ /\ First(list, addr) \in DOMAIN list
              /\ Covers(list[First(list, addr)], addr)
              /\ \A i \in DOMAIN list :
                    Covers(list[i], addr) => First(list, addr) <= i
<1> DEFINE hits == {i \in DOMAIN list : Covers(list[i], addr)}
<1>1. hits \subseteq Nat
  OBVIOUS
<1>2. CASE hits = {}
  BY <1>2 DEF First
<1>3. CASE hits # {}
  <2>1. Min(hits) \in hits /\ \A u \in hits : Min(hits) <= u
    <3> HIDE DEF hits
    <3> QED
      BY <1>1, <1>3, LeastHit
  <2>2. First(list, addr) = Min(hits)
    BY <1>3 DEF First
  <2> HIDE DEF Covers
  <2> QED
    BY <2>1, <2>2
<1> QED
  BY <1>2, <1>3

\* The search yields an index or -1.
LEMMA WindowType ==
    ASSUME TypeOK, NEW addr \in Nat, NEW n PROVE Window(addr, n) \in Int
<1>1. First(mmio, addr) = -1 \/ First(mmio, addr) \in 1..Len(mmio)
  BY FirstCovers DEF TypeOK
<1>2. FindMmio(addr) = First(mmio, addr)
  BY DEF FindMmio, First
<1>3. Window(addr, n) = FindMmio(addr) \/ Window(addr, n) = -1
  BY DEF Window
<1> QED
  BY <1>1, <1>2, <1>3

\* Windows appended to the table do not change where a served address goes.
LEMMA FirstAppend ==
    ASSUME NEW list \in Seq(Windows), NEW more \in Seq(Windows), NEW addr \in Nat,
           First(list, addr) > 0
    PROVE  First(list \o more, addr) = First(list, addr)
<1> DEFINE f == First(list, addr)
           g == First(list \o more, addr)
<1>1. list \o more \in Seq(Windows)
  OBVIOUS
<1>2. /\ f \in 1..Len(list) /\ Covers(list[f], addr)
      /\ \A i \in 1..Len(list) : Covers(list[i], addr) => f <= i
  BY FirstCovers
<1>3. \A i \in 1..Len(list) : i \in DOMAIN (list \o more) /\ (list \o more)[i] = list[i]
  OBVIOUS
<1>4. f \in DOMAIN (list \o more) /\ Covers((list \o more)[f], addr)
  BY <1>2, <1>3
<1>5. /\ g \in DOMAIN (list \o more) /\ Covers((list \o more)[g], addr)
      /\ g <= f
  BY <1>1, <1>4, FirstCovers
<1> HIDE DEF f, g
<1>6. g \in 1..Len(list)
  BY <1>2, <1>5
<1>7. f <= g
  BY <1>2, <1>3, <1>5, <1>6
<1>8. f \in Nat /\ g \in Nat
  BY <1>2, <1>6
<1>9. f = g
  BY <1>5, <1>7, <1>8
<1> QED
  BY <1>9 DEF f, g

\* Registering appends as many windows as fit.
LEMMA RegisterAppends ==
    ASSUME TypeOK, NEW list \in Seq(Windows), Register(list)
    PROVE  \E more \in Seq(Windows) :
              /\ mmio' = mmio \o more
              /\ Len(mmio) + Len(more) <= MaxMmio
<1> DEFINE room == MaxMmio - Len(mmio)
           n == Min({room, Len(list)})
<1>1. room \in Nat /\ Len(list) \in Nat
  BY SizesAssumption DEF TypeOK
<1>2. n \in Nat /\ n <= room /\ n <= Len(list)
  <2> HIDE DEF room
  <2> QED
    BY <1>1, MinTwo
<1>3. mmio' = mmio \o SubSeq(list, 1, n)
  BY DEF Register
<1> HIDE DEF n
<1>4. SubSeq(list, 1, n) \in Seq(Windows) /\ Len(SubSeq(list, 1, n)) = n
  BY <1>1, <1>2
<1>5. Len(mmio) + Len(SubSeq(list, 1, n)) <= MaxMmio
  BY <1>1, <1>2, <1>4, SizesAssumption DEF TypeOK
<1> QED
  BY <1>3, <1>4, <1>5

-----------------------------------------------------------------------------
(* Typing *)

LEMMA TypeInit == Init => TypeOK
<1> SUFFICES ASSUME Init PROVE TypeOK
  OBVIOUS
<1>1. mem \in [0..(MemSize - 1) -> Bytes]
  <2>1. 0 \in Bytes
    BY SizesAssumption DEF Bytes
  <2> QED
    BY <2>1 DEF Init
<1>2. mmio \in Seq(Windows) /\ Len(mmio) <= MaxMmio
  <2>1. PICK list \in {<< >>} \cup {<<w>> : w \in Windows} :
           mmio = SubSeq(list, 1, Min({Len(list), MaxMmio}))
    BY DEF Init
  <2>2. list \in Seq(Windows)
    <3>1. CASE list = << >>
      BY <3>1
    <3>2. ASSUME NEW w \in Windows, list = <<w>> PROVE list \in Seq(Windows)
      BY <3>2
    <3> QED
      BY <3>1, <3>2
  <2> DEFINE n == Min({Len(list), MaxMmio})
  <2>3. n \in Nat /\ n <= Len(list) /\ n <= MaxMmio
    BY <2>2, MinTwo, SizesAssumption
  <2> HIDE DEF n
  <2>4. SubSeq(list, 1, n) \in Seq(Windows) /\ Len(SubSeq(list, 1, n)) = n
    BY <2>2, <2>3
  <2> QED
    BY <2>1, <2>3, <2>4 DEF n
<1>3. 0 \in Words
  BY WeightNat DEF Words
<1> QED
  BY <1>1, <1>2, <1>3 DEF Init, TypeOK, Done

\* A load that is answered from RAM is a load the range check let through.
LEMMA RamOk ==
    ASSUME NEW addr \in Nat, NEW n \in Widths, RamError(addr, n) = "OK"
    PROVE  InRam(addr, n)
BY DEF RamError

LEMMA TypeStep == TypeOK /\ [Next]_vars => TypeOK'
<1> SUFFICES ASSUME TypeOK, [Next]_vars PROVE TypeOK'
  OBVIOUS
<1> DEFINE Errors == {"OK", "OobMemory", "Unaligned", "InvalidArg", "Device"}
<1>0. 0 \in Words
  BY WeightNat DEF Words
<1>1. ASSUME NEW a \in Addrs, NEW n \in Widths, Read(a, n) PROVE TypeOK'
  <2> DEFINE i == Window(a, n)
             e == IF i > 0 THEN MmioError(a, mmio[i].read32) ELSE RamError(a, n)
  <2>1. e \in Errors
    BY DEF MmioError, RamError
  <2>2. CASE e # "OK" /\ res' = Refused(e)
    <3> HIDE DEF e
    <3> QED
      BY <1>0, <1>1, <2>1, <2>2 DEF TypeOK, Read, Refused
  <2>3. ASSUME NEW v \in Vals, res' \in {Done(v), Refused("Device")} PROVE TypeOK'
    BY <1>0, <1>1, <2>3, ValsAssumption DEF TypeOK, Read, Done, Refused
  <2>4. CASE e = "OK" /\ i < 0 /\ res' = Done(Load(a, n))
    <3>1. a \in Nat /\ i \in Int
      BY AddrsAssumption, WindowType
    <3>2. RamError(a, n) = "OK"
      BY <2>4, <3>1
    <3>3. Load(a, n) \in Words
      BY <3>1, <3>2, RamOk, LoadType DEF TypeOK, Load, LoadOf
    <3> QED
      BY <1>1, <2>4, <3>3 DEF TypeOK, Read, Done
  <2> QED
    BY <1>1, <2>2, <2>3, <2>4 DEF Read
<1>2. ASSUME NEW a \in Addrs, NEW n \in Widths, NEW x \in Vals, Write(a, n, x)
      PROVE  TypeOK'
  <2> DEFINE i == Window(a, n)
             e == IF i > 0 THEN MmioError(a, mmio[i].write32) ELSE RamError(a, n)
  <2>1. e \in Errors
    BY DEF MmioError, RamError
  <2>2. mem' \in [0..(MemSize - 1) -> Bytes]
    <3>1. Store(a, n, x) \in [0..(MemSize - 1) -> Bytes]
      BY AddrsAssumption, ValsAssumption, StoreBytes
    <3>2. mem' = Store(a, n, x) \/ mem' = mem
      BY <1>2 DEF Write
    <3> QED
      BY <3>1, <3>2 DEF TypeOK
  <2>3. res' \in {Refused(e), Done(0), Refused("Device")}
    BY <1>2 DEF Write
  <2> HIDE DEF e
  <2> QED
    BY <1>0, <1>2, <2>1, <2>2, <2>3 DEF TypeOK, Write, Done, Refused
<1>3. ASSUME NEW list \in Seq(Windows), Register(list) PROVE TypeOK'
  <2>1. PICK more \in Seq(Windows) :
           mmio' = mmio \o more /\ Len(mmio) + Len(more) <= MaxMmio
    BY <1>3, RegisterAppends
  <2>2. mmio' \in Seq(Windows) /\ Len(mmio') <= MaxMmio
    BY <2>1 DEF TypeOK
  <2>3. res' \in {Done(0), Refused("InvalidArg")} /\ mem' = mem
    BY <1>3 DEF Register
  <2> QED
    BY <1>0, <2>2, <2>3 DEF TypeOK, Done, Refused
<1>4. \A v, w \in Windows : <<v>> \in Seq(Windows) /\ <<v, w>> \in Seq(Windows)
  OBVIOUS
<1>5. CASE UNCHANGED vars
  BY <1>5 DEF TypeOK, vars
<1> QED
  BY <1>1, <1>2, <1>3, <1>4, <1>5 DEF Next

\* RAM holds bytes, the table at most V4_MAX_MMIO windows, and an access ends
\* with one of the codes of v4_mem_read32_core and its siblings and a word.
THEOREM TypeCorrect == Spec => []TypeOK
BY TypeInit, TypeStep, PTL DEF Spec

-----------------------------------------------------------------------------
(* What a step may never do *)

\* A loaded value is the stored one cut to its width, little-endian, and no
\* other byte changes (v4_mem_write32_core and its siblings, ld_le32, st_le32).
THEOREM StoresAreLoaded == Spec => StoreLoads
<1>1. TypeOK /\ [Next]_vars =>
        \A a \in Addrs, n \in Widths, v \in Vals :
            Write(a, n, v) =>
                /\ res'.err = "OK" /\ Window(a, n) < 0 => Load(a, n)' = v % Weight(n)
                /\ \A b \in DOMAIN mem :
                      mem'[b] # mem[b] =>
                          res'.err = "OK" /\ b \in a..(a + n - 1) /\ Window(a, n) < 0
  <2> SUFFICES ASSUME TypeOK, NEW a \in Addrs, NEW n \in Widths, NEW v \in Vals,
                      Write(a, n, v)
               PROVE  /\ res'.err = "OK" /\ Window(a, n) < 0
                            => Load(a, n)' = v % Weight(n)
                      /\ \A b \in DOMAIN mem :
                            mem'[b] # mem[b] =>
                                /\ res'.err = "OK" /\ b \in a..(a + n - 1)
                                /\ Window(a, n) < 0
    OBVIOUS
  <2> DEFINE i == Window(a, n)
             e == IF i > 0 THEN MmioError(a, mmio[i].write32) ELSE RamError(a, n)
  <2>1. a \in Nat /\ v \in Words
    BY AddrsAssumption, ValsAssumption
  <2>2. i \in Int
    BY <2>1, WindowType
  <2>3. /\ e = "OK" /\ i < 0 => mem' = Store(a, n, v) /\ res' = Done(0)
        /\ ~(e = "OK" /\ i < 0) => mem' = mem
        /\ e # "OK" => res' = Refused(e)
    BY <2>2 DEF Write
  <2>4. res'.err = "OK" /\ i < 0 => Load(a, n)' = v % Weight(n)
    <3> SUFFICES ASSUME res'.err = "OK", i < 0 PROVE Load(a, n)' = v % Weight(n)
      OBVIOUS
    <3>1. e = "OK"
      <4> HIDE DEF e
      <4> QED
        BY <2>3 DEF Refused
    <3>2. RamError(a, n) = "OK"
      BY <2>2, <3>1
    <3>3. mem' = Store(a, n, v) /\ InRam(a, n)
      BY <2>1, <2>3, <3>1, <3>2, RamOk
    <3>4. Load(a, n)' = LoadOf(mem', a, n)
      BY DEF Load, LoadOf
    <3> QED
      BY <2>1, <3>3, <3>4, LoadStored
  <2>5. ASSUME NEW b \in DOMAIN mem, mem'[b] # mem[b]
        PROVE  res'.err = "OK" /\ b \in a..(a + n - 1) /\ i < 0
    <3>1. e = "OK" /\ i < 0 /\ mem' = Store(a, n, v) /\ res' = Done(0)
      BY <2>3, <2>5
    <3>2. b \in 0..(MemSize - 1)
      BY <2>5 DEF TypeOK
    <3>3. b \in a..(a + n - 1)
      BY <2>1, <2>5, <3>1, <3>2, StoreBytes
    <3> QED
      BY <3>1, <3>3 DEF Done
  <2> QED
    BY <2>4, <2>5
<1> QED
  BY <1>1, TypeCorrect, PTL DEF Spec, StoreLoads

\* An address keeps the window that serves it while vm_register_mmio appends
\* others, also when it runs out of room halfway (find_mmio).
THEOREM ServedForGood == Spec => WindowsStay
<1>1. TypeOK /\ [Next]_vars =>
        \A a \in Addrs : FindMmio(a) > 0 => FindMmio(a)' = FindMmio(a)
  <2> SUFFICES ASSUME TypeOK, [Next]_vars, NEW a \in Addrs, FindMmio(a) > 0
               PROVE  FindMmio(a)' = FindMmio(a)
    OBVIOUS
  <2>1. FindMmio(a) = First(mmio, a) /\ FindMmio(a)' = First(mmio', a)
    BY DEF FindMmio, First
  <2>2. CASE mmio' = mmio
    BY <2>1, <2>2
  <2>3. ASSUME NEW list \in Seq(Windows), Register(list)
        PROVE  FindMmio(a)' = FindMmio(a)
    <3>1. PICK more \in Seq(Windows) : mmio' = mmio \o more
      BY <2>3, RegisterAppends
    <3>2. First(mmio \o more, a) = First(mmio, a)
      BY <2>1, <3>1, FirstAppend, AddrsAssumption DEF TypeOK
    <3> QED
      BY <2>1, <3>1, <3>2
  <2>4. \A v, w \in Windows : <<v>> \in Seq(Windows) /\ <<v, w>> \in Seq(Windows)
    OBVIOUS
  <2> QED
    BY <2>2, <2>3, <2>4 DEF Next, Read, Write, vars
<1> QED
  BY <1>1, TypeCorrect, PTL DEF Spec, WindowsStay
=============================================================================
