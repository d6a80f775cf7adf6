------------------------------ MODULE SimdArith ------------------------------
(***************************************************************************)
(* A caller of the arithmetic, constructor and load/store primitives of    *)
(* simd_utils.h, holding one m128 as SimdVector does and calling them in   *)
(* any order, up to MaxCalls calls.                                         *)
(*                                                                         *)
(* `bits` is again the SSE2 reference on bit positions: PADDQ and PSUBQ as *)
(* a ripple-carry adder over the bits of each 64-bit lane (PSUBQ adding    *)
(* the two's complement), PMAXUB, PMINUB, PADDUSB and PSUBB on byte values, *)
(* PCMPEQQ, and the set/load constructors as sets of bit positions.  None  *)
(* of it shares the byte-wise carry chains of module Neon.                  *)
(***************************************************************************)
EXTENDS SimdVector

CONSTANTS
    Addends,   \* second operands of the lane and byte arithmetic, as bit sets
    Bytes8,    \* values passed to set1_16x8
    Words32,   \* u32 values passed to set1_4x32 / set4x32, as bit sets
    Words64,   \* u64 values passed to set1_2x64 / set2x64 / load_m128_from_u64a
    MaxCalls   \* the number of calls a behaviour makes

ASSUME /\ \A c \in Addends : c \subseteq Bits128
       /\ \A c \in Words32 : c \subseteq 0..31
       /\ \A c \in Words64 : c \subseteq 0..63
       /\ Bytes8 \subseteq Byte

VARIABLE calls
cvars == <<vec, bits, calls>>

---------------------------------------------------------------------------
(* The SSE reference, on bit positions                                     *)

\* A u32 or u64 argument held as bit set C, as the w bytes it is stored in
LaneBytes(C, w) == [j \in 0..w-1 |-> RefVec(C)[j]]

\* S + T + cin per lane of lw bits, by carry lookahead: a carry enters bit
\* p when a lower bit of the lane has both bits set and every bit between
\* has exactly one, or when cin enters the lane and every bit below p has
\* exactly one.
CarryInto(S, T, lw, cin, p) ==
    LET first    == (p \div lw) * lw
        Prop(j)  == (j \in S) # (j \in T)
    IN  \/ \E k \in first..(p - 1) : k \in S /\ k \in T /\ \A j \in (k + 1)..(p - 1) : Prop(j)
        \/ cin = 1 /\ \A j \in first..(p - 1) : Prop(j)

Ripple(S, T, lw, cin) ==
    {p \in Bits128 : (p \in S) # ((p \in T) # CarryInto(S, T, lw, cin, p))}

PaddqRef(S, T) == Ripple(S, T, 64, 0)
PsubqRef(S, T) == Ripple(S, Bits128 \ T, 64, 1)

\* Byte j of S as a number, and the bit set of a function of byte values
ByteVal(S, j)   == RefVec(S)[j]
FromBytes(f)    == {p \in Bits128 : BitOf(f[p \div 8], p % 8) = 1}
BytewiseRef(S, T, op(_, _)) == FromBytes([j \in Pos |-> op(ByteVal(S, j), ByteVal(T, j))])

PcmpeqqRef(S, T) ==
    {p \in Bits128 : \A q \in Bits128 : q \div 64 = p \div 64 => (q \in S <=> q \in T)}

\* The lanes of width lw, lowest first, holding the bit sets of tuple X
LanesRef(X, lw) == {p \in Bits128 : p % lw \in X[p \div lw + 1]}

---------------------------------------------------------------------------
Call(v, b) == vec' = v /\ bits' = b

AddLanes(c) ==
    \/ Call(add_2x64(vec, RefVec(c)), PaddqRef(bits, c))
    \/ Call(add128(vec, RefVec(c)),   PaddqRef(bits, c))
    \/ Call(sub_2x64(vec, RefVec(c)), PsubqRef(bits, c))

ByteArith(c) ==
    \/ Call(max_u8_m128(vec, RefVec(c)),  BytewiseRef(bits, c, LAMBDA x, y : IF x > y THEN x ELSE y))
    \/ Call(min_u8_m128(vec, RefVec(c)),  BytewiseRef(bits, c, LAMBDA x, y : IF x < y THEN x ELSE y))
    \/ Call(sadd_u8_m128(vec, RefVec(c)), BytewiseRef(bits, c, LAMBDA x, y : IF x + y < 256 THEN x + y ELSE 255))
    \/ Call(sub_u8_m128(vec, RefVec(c)),  BytewiseRef(bits, c, LAMBDA x, y : (x - y) % 256))

Compare(c) == Call(eq64_m128(vec, RefVec(c)), PcmpeqqRef(bits, c))

Complement ==
    \/ Call(ones128, Bits128)
    \/ Call(not128(vec), Bits128 \ bits)

\* The constructors, their result stored into the vector
Construct8(x) == Call(set1_16x8(x), FromBytes([j \in Pos |-> x]))

Construct32(hi, lo) ==
    \/ Call(set1_4x32(LaneBytes(lo, 4)), LanesRef(<<lo, lo, lo, lo>>, 32))
    \/ Call(set4x32(LaneBytes(hi, 4), LaneBytes(lo, 4), LaneBytes(hi, 4), LaneBytes(lo, 4)),
            LanesRef(<<lo, hi, lo, hi>>, 32))

Construct64(hi, lo) ==
    \/ Call(set1_2x64(LaneBytes(lo, 8)), LanesRef(<<lo, lo>>, 64))
    \/ Call(set2x64(LaneBytes(hi, 8), LaneBytes(lo, 8)), LanesRef(<<lo, hi>>, 64))
    \/ Call(load_m128_from_u64a(LaneBytes(lo, 8)), lo)

\* A zeroed 32-byte buffer; aligned pointers into it, and unaligned ones
\* at either end and across the 16-byte boundary
Buffer        == [j \in 0..31 |-> 0]
AlignedPtrs   == {0, 16}
UnalignedPtrs == {1, 8, 15, 16}

\* vec stored through store128 / storeu128 at ptr and read back from ptr
\* with load128 / loadu128
StoreLoad ==
    \/ \E ptr \in AlignedPtrs :
         Call(load128(store128(Buffer, ptr, vec), ptr), bits)
    \/ \E ptr \in UnalignedPtrs :
         Call(loadu128(storeu128(Buffer, ptr, vec), ptr), bits)

ArithInit == Init /\ calls = 0

ArithNext ==
    /\ calls < MaxCalls
    /\ calls' = calls + 1
    /\ \/ \E n \in SetBits : SetBit(n)
       \/ \E c \in Addends : AddLanes(c) \/ ByteArith(c) \/ Compare(c)
       \/ Complement
       \/ \E x \in Bytes8 : Construct8(x)
       \/ \E hi, lo \in Words32 : Construct32(hi, lo)
       \/ \E hi, lo \in Words64 : Construct64(hi, lo)
       \/ StoreLoad

ArithSpec == ArithInit /\ [][ArithNext]_cvars
==============================================================================
