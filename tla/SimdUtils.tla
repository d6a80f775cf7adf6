------------------------------ MODULE SimdUtils ------------------------------
(***************************************************************************)
(* The 128-bit vector primitives of src/src/util/arch/arm/simd_utils.h,     *)
(* one operator per function, written over the NEON semantics of module    *)
(* Neon.  A u32 or u64 result is given as its bytes, least significant      *)
(* first, so that no value wider than TLC's integers is ever formed.        *)
(* Functions whose __builtin_constant_p branch calls the intrinsic          *)
(* directly agree with their switch on every argument that compiles, so one *)
(* operator stands for both branches.                                       *)
(***************************************************************************)
EXTENDS Neon

LOCAL INSTANCE TLC

\* simd_onebit_masks: two ZEROES_32, then for each bit 0..7 ZEROES_31, the
\* bit, ZEROES_32, then two ZEROES_32.  The bit b sits at index 95 + 64*b.
simd_onebit_masks ==
    [i \in 0..639 |-> IF i >= 95 /\ (i - 95) % 64 = 0 /\ (i - 95) \div 64 < 8
                      THEN 2^((i - 95) \div 64) ELSE 0]

zeroes128 == vdupq_n_u8(0)

ones128   == vdupq_n_u8(255)
not128(a) == vmvnq(a)

\* Mutant: the result compared with a 32-bit ~0u instead of ~0ull
diff128_u32_ones(a, b) ==
    LET res == vshrn_n_u16(vceqq(a, b, 4), 4)
    IN  IF \A k \in 0..7 : res[k] = (IF k < 4 THEN 255 ELSE 0) THEN 0 ELSE 1

\* diff128: narrow the 32-bit compare by 4 bits per u16 lane and test the
\* resulting 64 bits against all ones
diff128(a, b) == LET res == vshrn_n_u16(vceqq(a, b, 4), 4)
                 IN  IF \A k \in 0..7 : res[k] = 255 THEN 0 ELSE 1

isnonzero128(a) == diff128(a, zeroes128)

\* diffrich128: lanes {1, 2, 4, 8} of the inverted 32-bit compare, summed
diffrich128(a, b) ==
    vaddvq(vandq(vmvnq(vceqq(a, b, 4)), [i \in Pos |-> IF i % 4 = 0 THEN 2^(i \div 4) ELSE 0]), 4)

\* Mutant: the 32-bit weights carried over, {1, 2} instead of {1, 4}
diffrich64_128_mask12(a, b) ==
    vaddvq(vandq(vmvnq(vceqq(a, b, 8)), [i \in Pos |-> CASE i = 0 -> 1 [] i = 8 -> 2 [] OTHER -> 0]), 8)

\* diffrich64_128: lanes {1, 4} of the inverted 64-bit compare, summed
diffrich64_128(a, b) ==
    vaddvq(vandq(vmvnq(vceqq(a, b, 8)), [i \in Pos |-> CASE i = 0 -> 1 [] i = 8 -> 4 [] OTHER -> 0]), 8)

\* The four lane shifts: case 0 returns a, the cases 1..31 (1..63) shift,
\* the default returns zeroes128().
lshift_m128(a, b)   == CASE b = 0 -> a [] b \in 1..31 -> vshlq_n(a, 4, b) [] OTHER -> zeroes128
rshift_m128(a, b)   == CASE b = 0 -> a [] b \in 1..31 -> vshrq_n(a, 4, b) [] OTHER -> zeroes128
lshift64_m128(a, b) == CASE b = 0 -> a [] b \in 1..63 -> vshlq_n(a, 8, b) [] OTHER -> zeroes128
rshift64_m128(a, b) == CASE b = 0 -> a [] b \in 1..63 -> vshrq_n(a, 8, b) [] OTHER -> zeroes128

\* Mutant: the lanes added as uint32x4_t, dropping the carry out of bit 31
add_2x64_u32(a, b) == vaddq(a, b, 4)

\* add_2x64 / sub_2x64: two u64 lanes, each modulo 2^64
add_2x64(a, b) == vaddq(a, b, 8)
sub_2x64(a, b) == vsubq(a, b, 8)

eq128(a, b)     == vceqq(a, b, 1)
eq64_m128(a, b) == vceqq(a, b, 8)

\* Mutant: the upper half mask moved down with vextq by 8, not 7
movemask128_ext8(a) ==
    LET powers == [i \in Pos |-> 2^(i % 8)]
        mask   == vpaddlq(vpaddlq(vpaddlq(vandq(a, powers), 1), 2), 4)
        m      == vorrq(mask, vextq(mask, zeroes128, 8))
    IN  m[0] + 256 * m[1]

\* movemask128: keep bit i%8 of byte i, add pairwise three times so that
\* bytes 0 and 8 hold the two half masks, move byte 8 down to byte 1 with
\* vextq by 7, and store the low u16.
movemask128(a) ==
    LET powers == [i \in Pos |-> 2^(i % 8)]
        mask   == vpaddlq(vpaddlq(vpaddlq(vandq(a, powers), 1), 2), 4)
        mask1  == vextq(mask, zeroes128, 7)
        m      == vorrq(mask, mask1)
    IN  m[0] + 256 * m[1]

\* set1_16x8 / set1_4x32 / set1_2x64: c in every lane (c as its bytes)
set1_16x8(c) == vdupq_n_u8(c)
set1_4x32(c) == vdupq_n(c, 4)
set1_2x64(c) == vdupq_n(c, 8)

movd(in) == vgetq_lane(in, 4, 0)
movq(in) == vgetq_lane(in, 8, 0)

\* extract32from128 / extract64from128: a lane index out of range gives 0
extract32from128(in, imm) == IF imm \in 0..3 THEN vgetq_lane(in, 4, imm) ELSE [j \in 0..3 |-> 0]
extract64from128(in, imm) == IF imm \in 0..1 THEN vgetq_lane(in, 8, imm) ELSE [j \in 0..7 |-> 0]

\* load_m128_from_u64a: *p in the low lane of zeroes128()
load_m128_from_u64a(p) == vsetq_lane(p, zeroes128, 8, 0)

low64from128(in)  == [i \in Pos |-> IF i < 8 THEN in[i] ELSE 0]
high64from128(in) == [i \in Pos |-> IF i < 8 THEN in[i + 8] ELSE 0]

add128(a, b)    == vaddq(a, b, 8)
and128(a, b)    == vandq(a, b)
xor128(a, b)    == veorq(a, b)
or128(a, b)     == vorrq(a, b)
andnot128(a, b) == vandq(vmvnq(a), b)

\* Memory is a function from byte addresses to bytes and ptr an address in
\* it.  vld1q_s32 / vst1q_s32 move four int32 lanes, little-endian, so
\* byte i of the register is the byte at ptr + i.  load128 and store128
\* assert that ptr is aligned to alignof(m128).
ISALIGNED_16(ptr) == ptr % 16 = 0

loadu128(mem, ptr)     == [i \in Pos |-> mem[ptr + i]]
storeu128(mem, ptr, a) == [j \in DOMAIN mem |-> IF j - ptr \in Pos THEN a[j - ptr] ELSE mem[j]]

load128(mem, ptr) ==
    IF ISALIGNED_16(ptr) THEN loadu128(mem, ptr)
    ELSE Assert(FALSE, "load128: ptr not aligned to alignof(m128)")
store128(mem, ptr, a) ==
    IF ISALIGNED_16(ptr) THEN storeu128(mem, ptr, a)
    ELSE Assert(FALSE, "store128: ptr not aligned to alignof(m128)")

\* palignr_imm: 0 gives l, 1..15 vextq(l, r, offset), 16 gives r, any other
\* offset zeroes128()
palignr_imm(r, l, offset) ==
    CASE offset = 0        -> l
      [] offset \in 1..15  -> vextq(l, r, offset)
      [] offset = 16       -> r
      [] OTHER             -> zeroes128

palignr(r, l, offset) == palignr_imm(r, l, offset)

\* b is unsigned: 16 - b for b > 16 converts to a negative int offset
rshiftbyte_m128(a, b) == IF b = 0 THEN a ELSE palignr(zeroes128, a, b)
lshiftbyte_m128(a, b) == IF b = 0 THEN a ELSE palignr(a, zeroes128, 16 - b)

\* variable_byte_shift_m128, under its assert -16 <= amount <= 16
variable_byte_shift_m128(in, amount) ==
    IF amount < 0 THEN palignr_imm(zeroes128, in, -amount)
                  ELSE palignr_imm(in, zeroes128, 16 - amount)

\* mask1bit128: an unaligned 16-byte load from the LUT at
\* (n % 8) * 64 + 95 - n / 8, under the assert n < 128
mask1bit128(n) ==
    LET mask_idx == ((n % 8) * 64 + 95) - n \div 8
    IN  [j \in Pos |-> simd_onebit_masks[mask_idx + j]]

\* setbit128 / clearbit128 store into *ptr: here they return the new value
setbit128(v, n)    == or128(mask1bit128(n), v)
clearbit128(v, n)  == andnot128(mask1bit128(n), v)
testbit128(val, n) == isnonzero128(and128(mask1bit128(n), val))

\* Mutant: the control masked with 0x0f, dropping Intel's zeroing bit
pshufb_m128_mask0f(a, b) == vqtbl1q(a, [i \in Pos |-> b[i] & 15])

\* pshufb_m128: translate Intel's control (0x80 zeroes the lane, else the
\* low nibble selects) into a NEON table index with & 0x8f
pshufb_m128(a, b) == vqtbl1q(a, [i \in Pos |-> b[i] & 143])

\* storebytes128: memcpy of the first n bytes of a over the buffer ptr;
\* loadbytes128: zeroes128() with the first n bytes of ptr copied in.  Both
\* under the assert n <= 16.
storebytes128(ptr, a, n) == [i \in Pos |-> IF i < n THEN a[i] ELSE ptr[i]]
loadbytes128(ptr, n)     == [i \in Pos |-> IF i < n THEN ptr[i] ELSE 0]

\* max_u8_m128 / min_u8_m128 / sadd_u8_m128 / sub_u8_m128: unsigned bytes
max_u8_m128(a, b)  == vmaxq_u8(a, b)
min_u8_m128(a, b)  == vminq_u8(a, b)
sadd_u8_m128(a, b) == vqaddq_u8(a, b)
sub_u8_m128(a, b)  == vsubq(a, b, 1)

\* set4x32 / set2x64: the arguments stored lowest lane first and loaded
set4x32(x3, x2, x1, x0) == vld1q(<<x0, x1, x2, x3>>, 4)
set2x64(hi, lo)         == vld1q(<<lo, hi>>, 8)
==============================================================================
