------------------------- MODULE MCRoseProgramDedup -------------------------
(***************************************************************************)
(* Two program variables built independently with two payload values, to  *)
(* compare the programs they hold.                                         *)
(***************************************************************************)
EXTENDS RoseProgramDedup

CONSTANTS p1, p2, a1, a2, a3, a4

MCProgs == {p1, p2}

MCAddrs == {a1, a2, a3, a4}

MCSymmetry ==
  {f @@ g : f \in Permutations(MCProgs), g \in Permutations(MCAddrs)}
=============================================================================
