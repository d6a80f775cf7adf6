-------------------------- MODULE MCRoseAssembler --------------------------
(***************************************************************************)
(* Two program variables built, written and deduplicated against one      *)
(* engine blob, over a heap of four instructions: room for a program of a *)
(* SPARSE_ITER_BEGIN, a NEXT and an END beside an empty second program, or *)
(* two programs of a BEGIN (or a REPORT) and an END each.  The blob is given empty or holding a header (the engine   *)
(* blob starts past the bytecode header, so offset 0 is never an          *)
(* iterator's in the engine).                                              *)
(***************************************************************************)
EXTENDS RoseAssembler

CONSTANTS p1, p2, a1, a2, a3, a4

MCProgs == {p1, p2}

MCAddrs == {a1, a2, a3, a4}

MCBlobInit == {<<>>, <<Payload("header", None, <<>>)>>}

MCSymmetry ==
  {f @@ g : f \in Permutations(MCProgs), g \in Permutations(MCAddrs)}
=============================================================================
