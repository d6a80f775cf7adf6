-------------------------------- MODULE Neon --------------------------------
(***************************************************************************)
(* The semantics of the AArch64 NEON intrinsics that                       *)
(* src/src/util/arch/arm/simd_utils.h calls.  This is the hardware the     *)
(* header is written against, not code of the repository.                   *)
(*                                                                         *)
(* A 128-bit register is a function from byte positions 0..15 to bytes     *)
(* 0..255.  Lanes are little-endian: the lane k of width w bytes holds      *)
(* bytes w*k .. w*k+w-1, byte w*k least significant.  Reinterpreting casts  *)
(* ((uint32x4_t)a and the like) are therefore the identity on this form;    *)
(* every intrinsic names the lane width it works on.  Lane values are       *)
(* never formed as integers where they could exceed 2^31, which TLC cannot  *)
(* represent: lane operations work bit by bit on the bytes.                 *)
(***************************************************************************)
EXTENDS Integers, Bitwise

Pos   == 0..15
Byte  == 0..255
M128  == [Pos -> Byte]

\* The bit p (0..127) of register a, and bit k of byte x.
BitOf(x, k) == (x \div 2^k) % 2
Bit(a, p)   == BitOf(a[p \div 8], p % 8)

\* The register whose bit p is f[p]
FromBits(f) == [i \in Pos |->
                  f[8*i] + 2*f[8*i+1] + 4*f[8*i+2] + 8*f[8*i+3]
                  + 16*f[8*i+4] + 32*f[8*i+5] + 64*f[8*i+6] + 128*f[8*i+7]]

\* The byte positions of the lane of width w that holds byte i
LaneOf(i, w) == ((i \div w) * w) .. ((i \div w) * w + w - 1)

vdupq_n_u8(c)  == [i \in Pos |-> c]
vandq(a, b)    == [i \in Pos |-> a[i] & b[i]]
vorrq(a, b)    == [i \in Pos |-> a[i] | b[i]]
veorq(a, b)    == [i \in Pos |-> a[i] ^^ b[i]]
vmvnq(a)       == [i \in Pos |-> 255 - a[i]]

\* vceqq_{u8,u32,u64}: each lane of width w all ones where the lanes are equal
vceqq(a, b, w) == [i \in Pos |-> IF \A j \in LaneOf(i, w) : a[j] = b[j]
                                   THEN 255 ELSE 0]

\* vextq_u8(a, b, n): bytes n..15 of a followed by bytes 0..n-1 of b
vextq(a, b, n) == [i \in Pos |-> IF i + n < 16 THEN a[i + n] ELSE b[i + n - 16]]

\* vqtbl1q_u8(t, idx): table lookup, an index of 16 or more gives 0
vqtbl1q(t, idx) == [i \in Pos |-> IF idx[i] < 16 THEN t[idx[i]] ELSE 0]

\* vshlq_n / vshrq_n on lanes of w bytes, shifting in zeroes, 0 <= n < 8w
vshlq_n(a, w, n) ==
    FromBits([p \in 0..127 |-> IF p % (8*w) >= n THEN Bit(a, p - n) ELSE 0])
vshrq_n(a, w, n) ==
    FromBits([p \in 0..127 |-> IF (p % (8*w)) + n < 8*w THEN Bit(a, p + n) ELSE 0])

\* vshrn_n_u16(a, n): each u16 lane shifted right by n, narrowed to its low
\* byte; the eight results form a 64-bit register (positions 0..7).
vshrn_n_u16(a, n) == [k \in 0..7 |-> ((a[2*k] + 256 * a[2*k+1]) \div 2^n) % 256]

\* vpaddlq_u{8,16,32}: adjacent lanes of w bytes added into lanes of 2w bytes.
\* Used only where the sums stay below 2^8, as in movemask128, so the low byte
\* of each wide lane carries the sum and its other bytes are zero.
vpaddlq(a, w) ==
    [i \in Pos |-> LET lo == (i \div (2*w)) * (2*w)
                   IN  IF i = lo THEN a[lo] + a[lo + w] ELSE 0]

\* vaddvq_u{32,64}: the sum of the lanes of w bytes (lanes whose value fits
\* in their low byte, as where the header uses it)
vaddvq(a, w) == IF w = 4 THEN a[0] + a[4] + a[8] + a[12] ELSE a[0] + a[8]

\* vgetq_lane_u{32,64}(a, k): the lane as its w bytes, least significant first
vgetq_lane(a, w, k) == [j \in 0..w-1 |-> a[w*k + j]]
\* The carry into byte i of a lane-wise add of lanes of w bytes: none into
\* the first byte of a lane, else the carry out of byte i - 1.
RECURSIVE CarryIn(_, _, _, _)
CarryIn(a, b, w, i) ==
    IF i % w = 0 THEN 0 ELSE (a[i-1] + b[i-1] + CarryIn(a, b, w, i-1)) \div 256

\* The borrow into byte i of a lane-wise subtract
RECURSIVE BorrowIn(_, _, _, _)
BorrowIn(a, b, w, i) ==
    IF i % w = 0 THEN 0 ELSE IF a[i-1] - b[i-1] - BorrowIn(a, b, w, i-1) < 0 THEN 1 ELSE 0

\* vaddq_u{8,..,64} / vsubq_u{8,..,64}: lanes of w bytes, modulo 2^(8w)
vaddq(a, b, w) == [i \in Pos |-> (a[i] + b[i] + CarryIn(a, b, w, i)) % 256]
vsubq(a, b, w) == [i \in Pos |-> (a[i] - b[i] - BorrowIn(a, b, w, i)) % 256]

\* vmaxq_u8, vminq_u8, vqaddq_u8 (unsigned saturating)
vmaxq_u8(a, b)  == [i \in Pos |-> IF a[i] >= b[i] THEN a[i] ELSE b[i]]
vminq_u8(a, b)  == [i \in Pos |-> IF a[i] <= b[i] THEN a[i] ELSE b[i]]
vqaddq_u8(a, b) == [i \in Pos |-> IF a[i] + b[i] > 255 THEN 255 ELSE a[i] + b[i]]

\* vdupq_n_u{32,64}(x): x, given as its w bytes, in every lane
vdupq_n(x, w) == [i \in Pos |-> x[i % w]]

\* vsetq_lane_u64(x, a, k): a with lane k of w bytes replaced by x
vsetq_lane(x, a, w, k) == [i \in Pos |-> IF i \div w = k THEN x[i % w] ELSE a[i]]

\* vld1q_u{32,64}(data): the lanes data[1], data[2], ... from the lowest
vld1q(data, w) == [i \in Pos |-> data[i \div w + 1][i % w]]
==============================================================================
