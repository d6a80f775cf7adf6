--------------------------- MODULE MCRoseProgram ---------------------------
(***************************************************************************)
(* Model-checking instance of RoseProgram: program variables of the        *)
(* lowering building blocks and splicing them into each other, over a      *)
(* small heap.  Programs and addresses are model values, interchangeable:  *)
(* nothing in the code orders them.                                        *)
(***************************************************************************)
EXTENDS RoseProgram

CONSTANTS p1, p2, p3, a1, a2, a3, a4, a5, a6

MCProgs == {p1, p2, p3}

MCAddrs == {a1, a2, a3, a4, a5}

MCSymmetry ==
  {f @@ g : f \in Permutations(MCProgs), g \in Permutations(MCAddrs)}
=============================================================================
