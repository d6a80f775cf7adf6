---------------------------- MODULE MCSimdArith ----------------------------
(***************************************************************************)
(* TLC instance of SimdArith.  The operands sit where carries and borrows  *)
(* cross a boundary: bit 7 (a carry into the next byte of the lane, and a  *)
(* byte of 128 or more for the unsigned byte operations), bit 31 (a carry  *)
(* out of a u32 half of a u64 lane), bit 63 (the carry out of the low lane *)
(* that must not reach the high one) and bit 0 (a borrow through a whole   *)
(* lane from zero).                                                        *)
(***************************************************************************)
EXTENDS SimdArith

MCSetBits  == {0, 7, 31, 63, 127}
MCAddends  == {{0}, {7}, {31}, {63}}
MCBytes8   == {1, 128, 255}
MCWords32  == {{}, {0, 31}}
MCWords64  == {{7, 32}, {63}}

\* SimdVector's parameters of the calls SimdArith does not make
MCNone     == {}
MCProbe    == {0}
==============================================================================
