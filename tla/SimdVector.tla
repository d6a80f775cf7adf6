----------------------------- MODULE SimdVector -----------------------------
(***************************************************************************)
(* A caller of the ARM SIMD primitives holding one m128 in memory, `vec`,   *)
(* and calling the header's functions on it in any order: setbit128 and     *)
(* clearbit128 through the pointer, and the byte shifts, lane shifts,       *)
(* palignr and pshufb_m128 with the result stored back.                     *)
(*                                                                         *)
(* `bits` is the reference: the set of bit positions the vector holds under *)
(* the x86 SSE semantics the header emulates (the same function names in    *)
(* util/arch/x86 are SSE2/SSSE3 instructions).  Each action moves `bits` by *)
(* the SSE definition on bit positions, written independently of the NEON  *)
(* code, and the invariants compare the two after every call.              *)
(***************************************************************************)
EXTENDS SimdUtils
LOCAL INSTANCE FiniteSetsExt

CONSTANTS
    SetBits,     \* bit positions passed to setbit128 / clearbit128
    ByteShifts,  \* counts passed to lshiftbyte_m128 / rshiftbyte_m128
    BitShifts,   \* counts passed to the lane shifts
    Amounts,     \* amounts passed to variable_byte_shift_m128
    Aligns,      \* offsets passed to palignr
    Ctls,        \* control vectors passed to pshufb_m128
    Lens,        \* byte counts passed to storebytes128 / loadbytes128
    Probe        \* bit positions the invariants test with testbit128

ASSUME /\ Amounts \subseteq -16..16 /\ SetBits \subseteq 0..127
       /\ Aligns \subseteq 0..16  /\ Lens \subseteq 0..16

VARIABLES vec, bits
vars == <<vec, bits>>

Bits128 == 0..127

\* The register holding exactly the bit positions S
RefVec(S) == FromBits([p \in Bits128 |-> IF p \in S THEN 1 ELSE 0])

---------------------------------------------------------------------------
(* The SSE reference, on bit positions                                     *)

\* PSLLDQ / PSRLDQ: whole-register byte shifts
LShiftBytesRef(S, b) == {n + 8*b : n \in S} \cap Bits128
RShiftBytesRef(S, b) == {n - 8*b : n \in {m \in S : m >= 8*b}}

\* PSLLD / PSRLD / PSLLQ / PSRLQ: shifts within lanes of lw bits
LShiftLanesRef(S, lw, b) == {n + b : n \in {m \in S : (m % lw) + b < lw}}
RShiftLanesRef(S, lw, b) == {n - b : n \in {m \in S : m % lw >= b}}

\* PALIGNR r, l, off: bytes off.. of the 32-byte concatenation r:l
PalignrRef(R, L, off) ==
    {p \in Bits128 : LET j == p \div 8 + off
                     IN  \/ j < 16 /\ 8*j + (p % 8) \in L
                         \/ j \in 16..31 /\ 8*(j - 16) + (p % 8) \in R}

\* PSHUFB: lane i is zero if bit 7 of ctl[i] is set, else lane ctl[i] & 0xf
PshufbRef(S, ctl) ==
    {p \in Bits128 : ctl[p \div 8] < 128 /\ 8*(ctl[p \div 8] % 16) + (p % 8) \in S}

---------------------------------------------------------------------------
Init == vec = zeroes128 /\ bits = {}

SetBit(n)    == vec' = setbit128(vec, n)   /\ bits' = bits \cup {n}
ClearBit(n)  == vec' = clearbit128(vec, n) /\ bits' = bits \ {n}
\* vec = xor128(mask1bit128(n), vec), as the x86 callers flip one bit
ToggleBit(n) == vec' = xor128(mask1bit128(n), vec)
                /\ bits' = (bits \ {n}) \cup ({n} \ bits)

\* vec = low64from128(vec) or high64from128(vec)
TakeHalf == \/ vec' = low64from128(vec)  /\ bits' = {p \in bits : p < 64}
            \/ vec' = high64from128(vec) /\ bits' = {p - 64 : p \in {q \in bits : q >= 64}}

\* storebytes128 of vec into a zeroed buffer, then loadbytes128 of n bytes
StoreLoadBytes(n) == vec' = loadbytes128(storebytes128(zeroes128, vec, n), n)
                     /\ bits' = {p \in bits : p < 8*n}

ShiftLeftBytes(b)  == vec' = lshiftbyte_m128(vec, b) /\ bits' = LShiftBytesRef(bits, b)
ShiftRightBytes(b) == vec' = rshiftbyte_m128(vec, b) /\ bits' = RShiftBytesRef(bits, b)

VariableShift(amount) ==
    /\ vec' = variable_byte_shift_m128(vec, amount)
    /\ bits' = IF amount < 0 THEN RShiftBytesRef(bits, -amount)
                             ELSE LShiftBytesRef(bits, amount)

ShiftLanes(b) ==
    \/ vec' = lshift_m128(vec, b)   /\ bits' = LShiftLanesRef(bits, 32, b)
    \/ vec' = rshift_m128(vec, b)   /\ bits' = RShiftLanesRef(bits, 32, b)
    \/ vec' = lshift64_m128(vec, b) /\ bits' = LShiftLanesRef(bits, 64, b)
    \/ vec' = rshift64_m128(vec, b) /\ bits' = RShiftLanesRef(bits, 64, b)

Align(off) == vec' = palignr(vec, vec, off) /\ bits' = PalignrRef(bits, bits, off)

Shuffle(ctl) == vec' = pshufb_m128(vec, ctl) /\ bits' = PshufbRef(bits, ctl)

Next ==
    \/ \E n \in SetBits : SetBit(n) \/ ClearBit(n) \/ ToggleBit(n)
    \/ TakeHalf
    \/ \E n \in Lens : StoreLoadBytes(n)
    \/ \E b \in ByteShifts : ShiftLeftBytes(b) \/ ShiftRightBytes(b)
    \/ \E a \in Amounts : VariableShift(a)
    \/ \E b \in BitShifts : ShiftLanes(b)
    \/ \E o \in Aligns : Align(o)
    \/ \E c \in Ctls : Shuffle(c)

Spec == Init /\ [][Next]_vars

---------------------------------------------------------------------------
(* Properties                                                              *)

\* After any sequence of calls the stored vector holds exactly the bits the
\* SSE semantics give: mask1bit128's LUT index, the palignr operand order of
\* the byte shifts, the switch bounds of the lane shifts and pshufb's 0x8f
\* translation all agree with the instructions they stand for.
VecIsRef == vec = RefVec(bits)

\* testbit128 (mask1bit128, and128, then diff128's vshrn narrowing) reports
\* a bit as set exactly when the reference holds it: tested on every set bit
\* and on the probed edges of bytes and lanes.
TestbitAgrees == \A n \in Probe \cup bits : testbit128(vec, n) = IF n \in bits THEN 1 ELSE 0

\* movemask128 of a byte compare (bytes 0x00 / 0xFF, how its callers use it)
\* is PMOVMSKB: bit i set exactly when byte i of vec is zero.
MovemaskOfZeroBytes ==
    movemask128(eq128(vec, zeroes128)) =
        SumSet({2^i : i \in {j \in Pos : \A k \in 0..7 : 8*j + k \notin bits}})

\* The lane w of width n bytes of the reference register, least significant
\* byte first; an index out of range gives 0
RefLane(S, n, w) == [j \in 0..n-1 |-> IF w < 16 \div n THEN RefVec(S)[n*w + j] ELSE 0]

\* diffrich128 sets bit w for each 32-bit word holding a set bit, and
\* diffrich64_128 bit 2d for each 64-bit half d, as on x86; movd, movq and
\* extract32from128 / extract64from128 read the lanes the reference holds,
\* and 0 for a lane index past the last.
LaneViewsAgree ==
    /\ movd(vec) = RefLane(bits, 4, 0)
    /\ movq(vec) = RefLane(bits, 8, 0)
    /\ \A w \in 0..4 : extract32from128(vec, w) = RefLane(bits, 4, w)
    /\ \A w \in 0..2 : extract64from128(vec, w) = RefLane(bits, 8, w)
    /\ diffrich128(vec, zeroes128) =
         SumSet({2^w : w \in {x \in 0..3 : \E p \in bits : p \div 32 = x}})
    /\ diffrich64_128(vec, zeroes128) =
         SumSet({4^d : d \in {x \in 0..1 : \E p \in bits : p \div 64 = x}})
==============================================================================
