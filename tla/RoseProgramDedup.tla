--------------------------- MODULE RoseProgramDedup ---------------------------
(***************************************************************************)
(* Programs built by the lowering, compared the way the bytecode builder's *)
(* program cache compares them: RoseProgramHash picks the bucket and       *)
(* RoseProgramEquivalence decides a match.  Composes RoseProgram (the     *)
(* container) with RoseLayout (hash and equivalence).                      *)
(***************************************************************************)
EXTENDS RoseProgram, RoseLayout

Equivalent(p, q) == RoseProgramEquivalence(instr, prog[p], instr, prog[q])

(***************************************************************************)
(* Hash compatibility (spec section 8, property 4): two programs that      *)
(* RoseProgramEquivalence calls equivalent have the same RoseProgramHash,  *)
(* as an unordered_map keyed by both requires.  It rests on every          *)
(* instruction's equiv_to comparing at least the fields its hash() mixes   *)
(* in.                                                                     *)
(***************************************************************************)
EquivImpliesSameHash ==
  \A p, q \in Live :
    p # q /\ Equivalent(p, q) => RoseProgramHash(instr, prog[p]) = RoseProgramHash(instr, prog[q])
=============================================================================
