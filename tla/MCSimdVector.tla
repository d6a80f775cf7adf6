---------------------------- MODULE MCSimdVector ----------------------------
(***************************************************************************)
(* TLC instance of SimdVector.  Bits are set at the edges of bytes, words  *)
(* and halves, and the shifts carry them to every other position.  Shift  *)
(* counts sit on the boundaries of the header's switches (0, the last case, *)
(* the first default), and the pshufb controls exercise each bit of the    *)
(* 0x8f translation.                                                       *)
(***************************************************************************)
EXTENDS SimdVector, FiniteSets

\* At most MaxBits bits set: enough for two bits to meet in one byte, word
\* or lane, and for a shift to move one across a lane while another stays.
MaxBits == 2

\* the first and last bit of the register, of a byte, of each 32-bit word
\* and of each 64-bit half
MCSetBits    == {0, 7, 8, 31, 32, 63, 64, 127}
MCProbe      == {0, 8, 63, 64, 127}
MCByteShifts == {0, 1, 15, 16, 17}
MCBitShifts  == {0, 1, 31, 32, 63, 64}
MCAmounts    == {-16, -15, -1, 0, 1, 15, 16}
MCAligns     == {0, 1, 8, 15, 16}
MCLens       == {0, 1, 8, 15, 16}

\* pshufb controls: bits 4..6 set (ignored by PSHUFB), bit 7 set on the low
\* half (zeroes those lanes), a reversal, and a rotation.
MCCtls == { [i \in Pos |-> 112 + i],
            [i \in Pos |-> IF i < 8 THEN 128 + i ELSE i],
            [i \in Pos |-> 15 - i],
            [i \in Pos |-> ((i + 3) % 16) + (IF i % 2 = 1 THEN 64 ELSE 0)] }

BitsBound == Cardinality(bits) <= MaxBits
==============================================================================
