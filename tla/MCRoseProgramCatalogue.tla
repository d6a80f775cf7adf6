----------------------- MODULE MCRoseProgramCatalogue -----------------------
(***************************************************************************)
(* Two programs of one instruction before END, of any class but the sparse *)
(* iterator pair, with two values per scalar member: every pair of         *)
(* instructions of one class that differ in one member is reached.         *)
(***************************************************************************)
EXTENDS RoseProgramDedup

CONSTANTS p1, p2, a1, a2, a3, a4

MCProgs == {p1, p2}

MCAddrs == {a1, a2, a3, a4}

\* Every class the lowering builds except SPARSE_ITER_BEGIN (see the
\* equiv_hash run) and SPARSE_ITER_NEXT, which needs a BEGIN before it.
MCModelOps == Opcodes \ {END_OP, BEGIN_OP, NEXT_OP}

\* Bound on a program's length, END included.
MaxProgLen == 2

MCConstraint == \A p \in Progs : Len(prog[p]) <= MaxProgLen

MCSymmetry ==
  {f @@ g : f \in Permutations(MCProgs), g \in Permutations(MCAddrs)}
=============================================================================
