------------------------------ MODULE SwarLanes ------------------------------
(***************************************************************************)
(* SIMD within a register: the byte tests of zuu_json on a machine word    *)
(* loaded from the text (internal/utils/swar.hpp, constants/swar.hpp).  A  *)
(* block is the sequence of its bytes, the lowest lane first.  A word is   *)
(* added and subtracted as a whole: carries and borrows run from one lane  *)
(* into the next and can flag lanes that do not match.  Every user of a    *)
(* mask looks only at its lowest flagged lane (countr_zero(mask) >> 3).    *)
(***************************************************************************)
EXTENDS Integers, Sequences

Byte  == 0..255
Lanes(block) == 1..Len(block)

(* The word `block - repeat_byte(c)`: a borrow reaches a lane when a lower *)
(* lane is below c and every lane between them equals c.                   *)
Borrow(block, c, i) ==
  \E j \in 1..(i-1) : /\ block[j] < c
                      /\ \A k \in (j+1)..(i-1) : block[k] = c

Minus(block, c) ==
  [i \in Lanes(block) |-> (block[i] - c - (IF Borrow(block, c, i) THEN 1 ELSE 0)) % 256]

(* The word `block + repeat_byte(c)`, with carries alike.                  *)
Carry(block, c, i) ==
  \E j \in 1..(i-1) : /\ block[j] + c > 255
                      /\ \A k \in (j+1)..(i-1) : block[k] + c = 255

Plus(block, c) ==
  [i \in Lanes(block) |-> (block[i] + c + (IF Carry(block, c, i) THEN 1 ELSE 0)) % 256]

(* `block ^ repeat_byte(c)`                                                *)
XorByte(a, b) ==
  LET Diff(weight) == IF (a \div weight) % 2 = (b \div weight) % 2 THEN 0 ELSE weight
  IN  Diff(1) + Diff(2) + Diff(4) + Diff(8) + Diff(16) + Diff(32) + Diff(64) + Diff(128)

Xor(block, c) == [i \in Lanes(block) |-> XorByte(block[i], c)]

Msb(b) == b >= 128

-----------------------------------------------------------------------------
(* The masks, as sets of flagged lanes.                                    *)

(* Fault: a lane with the top bit set counts as zero.                     *)
FindSmallByteMask(v) == {i \in Lanes(v) : Msb(Minus(v, 1)[i])}

(* utils::find_zero_byte_mask: (v - 0x01..) & ~v & 0x80..                  *)
FindZeroByteMask(v) == {i \in Lanes(v) : Msb(Minus(v, 1)[i]) /\ ~Msb(v[i])}

(* (block - 0x20..) & ~block & 0x80..: bytes below the space.              *)
ControlMask(block) == {i \in Lanes(block) : Msb(Minus(block, 32)[i]) /\ ~Msb(block[i])}

(* Fault: the sum alone, which wraps for bytes with the top bit set.      *)
NonSpaceSumMask(block) == {i \in Lanes(block) : Msb(Plus(block, 95)[i])}

(* ((block + '_'..) | block) & 0x80..: bytes above the space.              *)
NonSpaceMask(block) == {i \in Lanes(block) : Msb(Plus(block, 95)[i]) \/ Msb(block[i])}

(* val = block - '0'.., then ((val + 0x76..) | val) & 0x80..               *)
NonDigitMask(block) ==
  LET val == Minus(block, 48)
  IN  {i \in Lanes(block) : Msb(Plus(val, 118)[i]) \/ Msb(val[i])}

Quote     == 34
Backslash == 92

(* What stops the scan of a string, in the lexer and in the serializer.    *)
StringMask(block) ==
  FindZeroByteMask(Xor(block, Quote)) \cup FindZeroByteMask(Xor(block, Backslash))
    \cup ControlMask(block)

(* countr_zero(mask) >> 3: the offset of the lowest flagged lane.          *)
FirstLane(mask) == (CHOOSE i \in mask : \A j \in mask : i <= j) - 1

(* memcpy of width bytes from offset at of the text.                       *)
Load(text, at, width) == SubSeq(text, at + 1, at + width)

-----------------------------------------------------------------------------
(* What a mask is used for: its lowest flagged lane is the first byte of   *)
(* the block that belongs to bytes, whatever is flagged above it.          *)
FirstMatches(mask, block, bytes) ==
  \A i \in Lanes(block) :
    (\A j \in 1..(i-1) : block[j] \notin bytes) => (i \in mask <=> block[i] \in bytes)
=============================================================================
