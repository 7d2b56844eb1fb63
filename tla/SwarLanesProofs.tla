--------------------------- MODULE SwarLanesProofs ----------------------------
(***************************************************************************)
(* Theorems about SwarLanes: the lowest lane a mask flags is the first     *)
(* byte it looks for, for every block of every width.  Above that lane a   *)
(* carry or a borrow may flag anything; below it there is none.  The last  *)
(* section has what the users of both share: which bytes of a text are     *)
(* escaped, in the sense of Lexemes.                                       *)
(***************************************************************************)
EXTENDS SwarLanes, Lexemes, FiniteSetTheorems, WellFoundedInduction, TLAPS

-----------------------------------------------------------------------------
(* A mask with a flag has a lowest one: what countr_zero finds.            *)
LEMMA LowestMember ==
  ASSUME NEW n \in Nat, NEW S \in SUBSET (1..n), S # {}
  PROVE  \E i \in S : \A j \in S : i <= j
<1> DEFINE Less == OpToRel(<, Nat)
<1>1. S \subseteq Nat
  OBVIOUS
<1>2. IsWellFoundedOn(Less, Nat)
  BY NatLessThanWellFounded, Zenon
<1> HIDE DEF Less
<1>3. PICK i \in S : \A j \in S : ~(<<j, i>> \in Less)
  BY <1>1, <1>2, WFMin
<1>4. \A j \in S : ~(j < i)
  BY <1>1, <1>3, Zenon DEF OpToRel, Less
<1> QED
  BY <1>1, <1>3, <1>4

-----------------------------------------------------------------------------
(* One lane.                                                               *)

(* A word loaded from the text.  (Named so that the steps below need not   *)
(* see that it is a sequence.)                                             *)
Block(block) == block \in Seq(Byte)

(* A byte, without its range.                                              *)
LEMMA Bytes ==
  ASSUME NEW b
  PROVE  b \in Byte <=> b \in Int /\ 0 <= b /\ b <= 255
BY DEF Byte

(* Membership in a range of bytes, as two comparisons.                     *)
LEMMA Between ==
  ASSUME NEW b \in Byte, NEW m \in Nat, NEW n \in Nat
  PROVE  b \in m..n <=> m <= b /\ b <= n
BY DEF Byte

(* What the complements of the classes are.                                *)
LEMMA Outside ==
  ASSUME NEW b \in Byte
  PROVE  /\ b \notin 0..31 => b >= 32
         /\ b \notin 33..255 => b + 95 <= 255
         /\ b \notin Byte \ 48..57 => b \in 48..57
         /\ b \in 33..255 <=> b >= 33
BY DEF Byte

(* An element of a sequence.                                               *)
LEMMA ElementOf ==
  ASSUME NEW S, NEW s \in Seq(S), NEW k \in 1..Len(s)
  PROVE  s[k] \in S
OBVIOUS

(* The lanes below a lane, and the byte in each.                           *)
LEMMA LanesOf ==
  ASSUME NEW block, Block(block), NEW i \in Lanes(block)
  PROVE  /\ i \in Nat \ {0} /\ block[i] \in Byte
         /\ \A j \in 1..(i-1) : j \in Nat \ {0} /\ j \in Lanes(block) /\ block[j] \in Byte
<1>1. Len(block) \in Nat /\ Lanes(block) = 1..Len(block)
  BY DEF Lanes, Block
<1>2. \A k \in Lanes(block) : block[k] \in Byte
  BY <1>1, ElementOf DEF Block
<1>3. i \in 1..Len(block)
  BY <1>1
<1>4. \A j \in 1..(i-1) : j \in 1..Len(block) /\ j \in Nat \ {0}
  BY <1>1, <1>3
<1> QED BY <1>1, <1>2, <1>3, <1>4

(* One lane of a subtraction without a borrow.                             *)
LEMMA ByteMinus ==
  ASSUME NEW b \in Byte, NEW c \in Byte
  PROVE  (b - c - 0) % 256 = IF b < c THEN b - c + 256 ELSE b - c
<1>1. CASE b < c
  <2>1. b - c + 256 \in 0..255
    BY <1>1 DEF Byte
  <2>2. (b - c - 0) % 256 = (b - c + 256) % 256
    BY DEF Byte
  <2> QED BY <1>1, <2>1, <2>2
<1>2. CASE ~(b < c)
  BY <1>2 DEF Byte
<1> QED BY <1>1, <1>2

(* One lane of a sum without a carry.                                      *)
LEMMA BytePlus ==
  ASSUME NEW b \in Byte, NEW c \in Byte
  PROVE  (b + c + 0) % 256 = IF b + c > 255 THEN b + c - 256 ELSE b + c
BY DEF Byte

(* No borrow and no carry comes out of lanes the operand leaves in range.  *)
LEMMA NoBorrow ==
  ASSUME NEW block, Block(block), NEW c \in Byte, NEW i \in Lanes(block),
         \A j \in 1..(i-1) : block[j] >= c
  PROVE  Minus(block, c)[i] = IF block[i] < c THEN block[i] - c + 256 ELSE block[i] - c
<1>1. ~Borrow(block, c, i)
  <2>1. \A j \in 1..(i-1) : ~(block[j] < c)
    BY LanesOf, Bytes
  <2> QED BY <2>1 DEF Borrow
<1>2. Minus(block, c)[i] = (block[i] - c - 0) % 256
  BY <1>1 DEF Minus
<1>3. block[i] \in Byte
  BY LanesOf
<1> QED BY <1>2, <1>3, ByteMinus

(* No carry comes out of lanes whose sum stays within a byte.              *)
LEMMA NoCarry ==
  ASSUME NEW block, NEW c \in Byte, NEW i \in Lanes(block), block[i] \in Byte,
         \A j \in 1..(i-1) : block[j] \in Byte /\ block[j] + c <= 255
  PROVE  Plus(block, c)[i] = IF block[i] + c > 255 THEN block[i] + c - 256 ELSE block[i] + c
<1>1. ~Carry(block, c, i)
  BY DEF Carry, Byte
<1>2. Plus(block, c)[i] = (block[i] + c + 0) % 256
  BY <1>1 DEF Plus
<1> QED BY <1>2, BytePlus

-----------------------------------------------------------------------------
(* The masks.                                                              *)

(* utils::find_zero_byte_mask: the lowest flag is at the first zero byte,  *)
(* although a borrow out of it may flag bytes of 1 above it.               *)
THEOREM FindsZeroByte ==
  ASSUME NEW v, Block(v)
  PROVE  FirstMatches(FindZeroByteMask(v), v, {0})
<1> SUFFICES ASSUME NEW i \in Lanes(v), \A j \in 1..(i-1) : v[j] \notin {0}
             PROVE  i \in FindZeroByteMask(v) <=> v[i] \in {0}
  BY DEF FirstMatches
<1>0. 1 \in Byte
  BY Bytes
<1>1. /\ v[i] \in Int /\ 0 <= v[i] /\ v[i] <= 255
      /\ \A j \in 1..(i-1) : v[j] >= 1
  BY LanesOf, Bytes
<1>2. Minus(v, 1)[i] = IF v[i] < 1 THEN v[i] - 1 + 256 ELSE v[i] - 1
  BY <1>0, <1>1, NoBorrow
<1> QED BY <1>1, <1>2 DEF FindZeroByteMask, Msb

(* The scan of a string stops at the first control character, although     *)
(* the mask may flag bytes from the space up above it.                     *)
THEOREM FindsControl ==
  ASSUME NEW block, Block(block)
  PROVE  FirstMatches(ControlMask(block), block, 0..31)
<1> SUFFICES ASSUME NEW i \in Lanes(block), \A j \in 1..(i-1) : block[j] \notin 0..31
             PROVE  i \in ControlMask(block) <=> block[i] \in 0..31
  BY DEF FirstMatches
<1>0. 32 \in Byte
  BY Bytes
<1>1. /\ block[i] \in Byte /\ block[i] \in Int /\ 0 <= block[i] /\ block[i] <= 255
      /\ \A j \in 1..(i-1) : block[j] >= 32
  BY LanesOf, Bytes, Outside
<1>2. Minus(block, 32)[i] = IF block[i] < 32 THEN block[i] - 32 + 256 ELSE block[i] - 32
  BY <1>0, <1>1, NoBorrow
<1>3. block[i] \in 0..31 <=> block[i] < 32
  BY <1>1, Between
<1> QED BY <1>1, <1>2, <1>3 DEF ControlMask, Msb

(* skip_whitespace of the SWAR engine stops at the first byte above the    *)
(* space, bytes with the top bit set included, and at no other.            *)
THEOREM FindsNonSpace ==
  ASSUME NEW block, Block(block)
  PROVE  FirstMatches(NonSpaceMask(block), block, 33..255)
<1> SUFFICES ASSUME NEW i \in Lanes(block), \A j \in 1..(i-1) : block[j] \notin 33..255
             PROVE  i \in NonSpaceMask(block) <=> block[i] \in 33..255
  BY DEF FirstMatches
<1>0. 95 \in Byte
  BY Bytes
<1>1. /\ block[i] \in Byte /\ block[i] \in Int /\ 0 <= block[i] /\ block[i] <= 255
      /\ \A j \in 1..(i-1) : block[j] \in Byte /\ block[j] + 95 <= 255
  BY LanesOf, Bytes, Outside
<1>2. Plus(block, 95)[i] = IF block[i] + 95 > 255 THEN block[i] + 95 - 256 ELSE block[i] + 95
  BY <1>0, <1>1, NoCarry
<1>3. block[i] \in 33..255 <=> block[i] >= 33
  BY <1>1, Outside
<1> QED BY <1>1, <1>2, <1>3 DEF NonSpaceMask, Msb

(* skip_digits and parse_int take exactly the leading digits of a block.   *)
THEOREM FindsNonDigit ==
  ASSUME NEW block, Block(block)
  PROVE  FirstMatches(NonDigitMask(block), block, Byte \ 48..57)
<1> SUFFICES ASSUME NEW i \in Lanes(block), \A j \in 1..(i-1) : block[j] \notin Byte \ 48..57
             PROVE  i \in NonDigitMask(block) <=> block[i] \in Byte \ 48..57
  BY DEF FirstMatches
<1> DEFINE val == Minus(block, 48)
<1>1. /\ i \in Nat \ {0} /\ block[i] \in Int /\ 0 <= block[i] /\ block[i] <= 255
      /\ \A j \in 1..(i-1) : j \in Lanes(block) /\ block[j] \in 48..57
  BY LanesOf, Bytes
<1>2. val[i] = IF block[i] < 48 THEN block[i] - 48 + 256 ELSE block[i] - 48
  BY <1>1, NoBorrow, Bytes
<1>3. ASSUME NEW j \in 1..(i-1) PROVE val[j] \in 0..9
  <2>1. \A k \in 1..(j-1) : block[k] >= 48
    BY <1>1
  <2>2. val[j] = IF block[j] < 48 THEN block[j] - 48 + 256 ELSE block[j] - 48
    BY <1>1, <2>1, NoBorrow, Bytes
  <2> QED BY <1>1, <2>2
<1>4. Lanes(val) = Lanes(block)
  BY DEF Lanes, Minus
<1> HIDE DEF val
<1>5. val[i] \in Int /\ 0 <= val[i] /\ val[i] <= 255
  BY <1>1, <1>2
<1>6. Plus(val, 118)[i] = IF val[i] + 118 > 255 THEN val[i] + 118 - 256 ELSE val[i] + 118
  BY <1>3, <1>4, <1>5, NoCarry, Bytes
<1>7. i \in NonDigitMask(block) <=> val[i] >= 10
  BY <1>4, <1>5, <1>6 DEF NonDigitMask, Msb, val
<1> QED BY <1>1, <1>2, <1>7, Bytes

-----------------------------------------------------------------------------
(* Exclusive or.                                                           *)

(* A byte is the sum of its bits.                                          *)
LEMMA ByteBits ==
  ASSUME NEW a \in Byte
  PROVE  a = (a % 2) + 2 * ((a \div 2) % 2) + 4 * ((a \div 4) % 2) + 8 * ((a \div 8) % 2)
             + 16 * ((a \div 16) % 2) + 32 * ((a \div 32) % 2) + 64 * ((a \div 64) % 2)
             + 128 * ((a \div 128) % 2)
BY DEF Byte

(* XOR is zero on equal bytes alone.                                       *)
LEMMA XorZero ==
  ASSUME NEW a \in Byte, NEW b \in Byte
  PROVE  XorByte(a, b) \in Byte /\ (XorByte(a, b) = 0 <=> a = b)
<1> DEFINE Same(w) == (a \div w) % 2 = (b \div w) % 2
           D(w) == IF Same(w) THEN 0 ELSE w
<1>1. XorByte(a, b) = D(1) + D(2) + D(4) + D(8) + D(16) + D(32) + D(64) + D(128)
  BY DEF XorByte
<1>2. Same(1) /\ Same(2) /\ Same(4) /\ Same(8) /\ Same(16) /\ Same(32) /\ Same(64) /\ Same(128)
      <=> a = b
  <2>1. a \div 1 = a /\ b \div 1 = b
    BY DEF Byte
  <2> QED BY <2>1, ByteBits
<1> HIDE DEF Same
<1> QED BY <1>1, <1>2 DEF Byte

(* The same for every lane of a word.                                      *)
LEMMA XorLanes ==
  ASSUME NEW block, Block(block), NEW c \in Byte
  PROVE  /\ Block(Xor(block, c)) /\ Lanes(Xor(block, c)) = Lanes(block)
         /\ \A i \in Lanes(block) : Xor(block, c)[i] = 0 <=> block[i] = c
<1>1. \A i \in Lanes(block) : block[i] \in Byte
  BY LanesOf
<1>2. Xor(block, c) \in [1..Len(block) -> Byte]
  BY <1>1, XorZero DEF Xor, Lanes
<1>3. Xor(block, c) \in Seq(Byte) /\ Len(Xor(block, c)) = Len(block)
  BY <1>2
<1> QED BY <1>1, <1>3, XorZero DEF Xor, Lanes, Block

(* The mask of the bytes equal to c.                                       *)
THEOREM FindsByte ==
  ASSUME NEW block, Block(block), NEW c \in Byte
  PROVE  FirstMatches(FindZeroByteMask(Xor(block, c)), block, {c})
<1>1. FirstMatches(FindZeroByteMask(Xor(block, c)), Xor(block, c), {0})
  <2>1. Block(Xor(block, c))
    BY XorLanes
  <2> QED BY <2>1, FindsZeroByte
<1> SUFFICES ASSUME NEW i \in Lanes(block), \A j \in 1..(i-1) : block[j] # c
             PROVE  i \in FindZeroByteMask(Xor(block, c)) <=> block[i] = c
  BY DEF FirstMatches
<1>2. \A j \in 1..(i-1) : Xor(block, c)[j] # 0
  <2>1. \A j \in Lanes(block) : block[j] # c => Xor(block, c)[j] # 0
    BY XorLanes
  <2>2. \A j \in 1..(i-1) : j \in Lanes(block)
    BY LanesOf
  <2> QED BY <2>1, <2>2
<1> QED BY <1>1, <1>2, XorLanes DEF FirstMatches

(* Where read_string of the lexer and serializeString stop: at the first   *)
(* quote, backslash or control character, whatever the three masks, joined *)
(* into one, flag above it.                                                *)
THEOREM FindsStringEnd ==
  ASSUME NEW block, Block(block)
  PROVE  FirstMatches(StringMask(block), block, {Quote, Backslash} \cup 0..31)
<1>1. Quote \in Byte /\ Backslash \in Byte
  BY DEF Quote, Backslash, Byte
<1>2. /\ FirstMatches(FindZeroByteMask(Xor(block, Quote)), block, {Quote})
      /\ FirstMatches(FindZeroByteMask(Xor(block, Backslash)), block, {Backslash})
      /\ FirstMatches(ControlMask(block), block, 0..31)
  BY <1>1, FindsByte, FindsControl
<1> SUFFICES ASSUME NEW i \in Lanes(block),
                    \A j \in 1..(i-1) : block[j] \notin {Quote, Backslash} \cup 0..31
             PROVE  i \in StringMask(block) <=> block[i] \in {Quote, Backslash} \cup 0..31
  BY DEF FirstMatches
<1> QED BY <1>2 DEF FirstMatches, StringMask

-----------------------------------------------------------------------------
(* What the scans conclude of a mask.                                      *)

(* A mask flags lanes of its block.                                        *)
LEMMA MasksWithin ==
  ASSUME NEW block, Block(block)
  PROVE  /\ NonSpaceMask(block) \subseteq Lanes(block)
         /\ NonDigitMask(block) \subseteq Lanes(block)
         /\ StringMask(block) \subseteq Lanes(block)
         /\ \A c \in Byte : FindZeroByteMask(Xor(block, c)) \subseteq Lanes(block)
<1>1. \A c \in Byte : FindZeroByteMask(Xor(block, c)) \subseteq Lanes(block)
  BY XorLanes DEF FindZeroByteMask
<1>2. Quote \in Byte /\ Backslash \in Byte
  BY DEF Quote, Backslash, Byte
<1>3. Lanes(Minus(block, 48)) = Lanes(block)
  BY DEF Lanes, Minus
<1> QED BY <1>1, <1>2, <1>3 DEF NonSpaceMask, NonDigitMask, StringMask, ControlMask

(* A mask with a flag has a lowest one, where countr_zero finds it.        *)
LEMMA LowestLane ==
  ASSUME NEW block, Block(block), NEW mask \in SUBSET Lanes(block), mask # {}
  PROVE  \E i \in mask : (\A j \in mask : i <= j) /\ FirstLane(mask) = i - 1
<1>1. Len(block) \in Nat /\ Lanes(block) = 1..Len(block)
  BY DEF Lanes, Block
<1>2. PICK m \in mask : \A j \in mask : m <= j
  BY <1>1, LowestMember
<1>3. \A i \in mask : (\A j \in mask : i <= j) => i = m
  BY <1>1, <1>2
<1> QED BY <1>2, <1>3 DEF FirstLane

(* An empty mask means a block without the bytes; the offset of the lowest *)
(* flag is that of the first of them: nothing is stepped over.             *)
THEOREM ScanStopsAtFirst ==
  ASSUME NEW block, Block(block), NEW bytes, NEW mask \in SUBSET Lanes(block),
         FirstMatches(mask, block, bytes)
  PROVE  /\ mask = {} => \A i \in Lanes(block) : block[i] \notin bytes
         /\ mask # {} => /\ FirstLane(mask) + 1 \in Lanes(block)
                         /\ block[FirstLane(mask) + 1] \in bytes
                         /\ \A i \in 1..FirstLane(mask) : block[i] \notin bytes
<1> DEFINE n == Len(block)
           Hits == {i \in 1..n : block[i] \in bytes}
<1>1. n \in Nat /\ Lanes(block) = 1..n /\ Hits \in SUBSET (1..n)
  BY DEF Lanes
<1>2. ASSUME Hits # {}
      PROVE  \E i \in mask : block[i] \in bytes /\ \A j \in 1..(i-1) : block[j] \notin bytes
  <2>1. PICK i \in Hits : \A j \in Hits : i <= j
    <3> HIDE DEF Hits, n
    <3> QED BY <1>1, <1>2, LowestMember
  <2>2. \A j \in 1..(i-1) : block[j] \notin bytes
    BY <1>1, <2>1
  <2> QED BY <1>1, <2>1, <2>2 DEF FirstMatches
<1>3. CASE mask = {}
  BY <1>1, <1>2, <1>3
<1>4. CASE mask # {}
  <2>1. PICK m \in mask : (\A j \in mask : m <= j) /\ FirstLane(mask) = m - 1
    BY <1>4, LowestLane
  <2>2. FirstLane(mask) = m - 1
    BY <2>1
  <2>3. ASSUME NEW k \in 1..(m-1) PROVE block[k] \notin bytes
    <3>1. SUFFICES ASSUME block[k] \in bytes PROVE FALSE
      OBVIOUS
    <3>2. k \in Hits
      BY <1>1, <2>1, <3>1
    <3>3. PICK i \in Hits : \A j \in Hits : i <= j
      <4> HIDE DEF Hits, n
      <4> QED BY <1>1, <3>2, LowestMember
    <3>4. \A j \in 1..(i-1) : block[j] \notin bytes
      BY <1>1, <3>3
    <3>5. i \in mask
      BY <1>1, <3>3, <3>4 DEF FirstMatches
    <3> QED BY <1>1, <2>1, <3>2, <3>3, <3>5
  <2>4. block[m] \in bytes
    BY <1>1, <2>1, <2>3 DEF FirstMatches
  <2> QED BY <1>1, <1>4, <2>1, <2>2, <2>3, <2>4
<1> QED BY <1>3, <1>4

(* On one block the word arithmetic of the SWAR engine and the byte        *)
(* comparison of the AVX2 engine stop the scan of a string at one place,   *)
(* or both take the whole block.                                           *)
THEOREM StringScansAgree ==
  ASSUME NEW block, Block(block), NEW exact,
         exact = {i \in Lanes(block) : block[i] \in {Quote, Backslash} \cup 0..31}
  PROVE  /\ StringMask(block) = {} <=> exact = {}
         /\ exact # {} => FirstLane(StringMask(block)) = FirstLane(exact)
<1> DEFINE bytes == {Quote, Backslash} \cup 0..31
           swar == StringMask(block)
<1>1. FirstMatches(swar, block, bytes) /\ swar \in SUBSET Lanes(block)
  BY FindsStringEnd, MasksWithin
<1>2. FirstMatches(exact, block, bytes) /\ exact \in SUBSET Lanes(block)
  BY DEF FirstMatches
<1>3. \A i \in Lanes(block) : i \in exact <=> block[i] \in bytes
  OBVIOUS
<1> HIDE DEF bytes, swar
<1>4. ASSUME NEW m \in SUBSET Lanes(block), FirstMatches(m, block, bytes)
      PROVE  /\ m = {} => \A i \in Lanes(block) : block[i] \notin bytes
             /\ m # {} => /\ FirstLane(m) + 1 \in Lanes(block)
                          /\ block[FirstLane(m) + 1] \in bytes
                          /\ \A i \in 1..FirstLane(m) : block[i] \notin bytes
  BY <1>4, ScanStopsAtFirst
<1>5. swar = {} <=> exact = {}
  <2>1. swar = {} => exact = {}
    BY <1>1, <1>2, <1>3, <1>4
  <2>2. swar # {} => exact # {}
    BY <1>1, <1>3, <1>4
  <2> QED BY <2>1, <2>2
<1>6. ASSUME exact # {} PROVE FirstLane(swar) = FirstLane(exact)
  <2> DEFINE p == FirstLane(swar)
             q == FirstLane(exact)
  <2>1. /\ p + 1 \in Lanes(block) /\ block[p + 1] \in bytes
        /\ \A i \in 1..p : block[i] \notin bytes
    BY <1>1, <1>4, <1>5, <1>6
  <2>2. /\ q + 1 \in Lanes(block) /\ block[q + 1] \in bytes
        /\ \A i \in 1..q : block[i] \notin bytes
    BY <1>2, <1>4, <1>6
  <2>3. p \in Nat /\ q \in Nat
    <3>1. ASSUME NEW m \in SUBSET Lanes(block), m # {} PROVE FirstLane(m) \in Nat
      <4>1. PICK i \in m : FirstLane(m) = i - 1
        BY <3>1, LowestLane
      <4> QED BY <4>1, LanesOf
    <3> QED BY <1>1, <1>2, <1>5, <1>6, <3>1
  <2> HIDE DEF p, q
  <2>4. ~(p < q)
    <3>1. p < q => p + 1 \in 1..q
      BY <2>3
    <3> QED BY <2>1, <2>2, <3>1
  <2>5. ~(q < p)
    <3>1. q < p => q + 1 \in 1..p
      BY <2>3
    <3> QED BY <2>1, <2>2, <3>1
  <2>6. p = q
    BY <2>3, <2>4, <2>5
  <2> QED BY <2>6 DEF p, q
<1> QED BY <1>5, <1>6 DEF swar

-----------------------------------------------------------------------------
(* Escapes.  Whether a byte is escaped is settled by the byte before it.   *)

Backslashes(t, from, q) == {k \in from..(q-1) : \A j \in k..(q-1) : Ch(t, j) = 92}

(* No run ends before a byte that follows another one than a backslash.    *)
LEMMA NoRun ==
  ASSUME NEW t, NEW from \in Nat, NEW q \in Nat, from <= q, q = from \/ Ch(t, q - 1) # 92
  PROVE  ~Escaped(t, from, q)
<1>1. Backslashes(t, from, q) = {}
  BY DEF Backslashes
<1>2. Cardinality(Backslashes(t, from, q)) = 0
  BY <1>1, FS_EmptySet
<1>3. Cardinality(Backslashes(t, from, q)) % 2 # 1
  BY <1>2
<1> QED
  BY <1>3 DEF Escaped, Backslashes

(* After a backslash it is the other way round.                            *)
LEMMA EscapeAlternates ==
  ASSUME NEW t, NEW from \in Nat, NEW q \in Nat, from <= q, Ch(t, q) = 92
  PROVE  Escaped(t, from, q + 1) <=> ~Escaped(t, from, q)
<1> DEFINE R == Backslashes(t, from, q)
           S == Backslashes(t, from, q + 1)
<1>1. R \in SUBSET (from..(q-1)) /\ q \notin R
  BY DEF Backslashes
<1>2. S = R \cup {q}
  <2>1. ASSUME NEW k \in from..q
        PROVE  k \in S <=> k \in R \/ k = q
    BY <2>1 DEF Backslashes
  <2>2. S \subseteq from..q /\ R \subseteq from..q /\ q \in from..q
    BY DEF Backslashes
  <2> QED
    BY <2>1, <2>2
<1> HIDE DEF R, S
<1>3. IsFiniteSet(R)
  <2>1. IsFiniteSet(from..(q-1))
    BY FS_Interval
  <2> QED
    BY <1>1, <2>1, FS_Subset
<1>4. Cardinality(S) = Cardinality(R) + 1 /\ Cardinality(R) \in Nat
  BY <1>1, <1>2, <1>3, FS_AddElement, FS_CardinalityType
<1>5. Cardinality(S) % 2 = 1 <=> ~(Cardinality(R) % 2 = 1)
  BY <1>4
<1> QED
  BY <1>5 DEF Escaped, Backslashes, R, S

(* A byte is escaped by a backslash that is not escaped itself.            *)
LEMMA EscapedNext ==
  ASSUME NEW t, NEW from \in Nat, NEW q \in Nat, from <= q
  PROVE  Escaped(t, from, q + 1) <=> Ch(t, q) = 92 /\ ~Escaped(t, from, q)
<1>1. CASE Ch(t, q) = 92
  BY <1>1, EscapeAlternates
<1>2. CASE Ch(t, q) # 92
  <2>1. q + 1 \in Nat /\ from <= q + 1 /\ (q + 1) - 1 = q
    OBVIOUS
  <2>2. ~Escaped(t, from, q + 1)
    BY <1>2, <2>1, NoRun
  <2> QED BY <1>2, <2>2
<1> QED BY <1>1, <1>2

(* Only the bytes before it decide.                                        *)
LEMMA EscapedAlike ==
  ASSUME NEW s, NEW t, NEW q \in Nat, \A j \in 0..(q - 1) : Ch(s, j) = Ch(t, j)
  PROVE  Escaped(s, 0, q) <=> Escaped(t, 0, q)
<1>1. \A k \in 0..(q - 1) : \A j \in k..(q - 1) : Ch(s, j) = Ch(t, j)
  OBVIOUS
<1>2. Backslashes(s, 0, q) = Backslashes(t, 0, q)
  BY <1>1 DEF Backslashes
<1> QED BY <1>2 DEF Escaped, Backslashes
=============================================================================
