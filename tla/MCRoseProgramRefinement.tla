----------------------- MODULE MCRoseProgramRefinement -----------------------
(***************************************************************************)
(* The program_container instance of RoseProgram, checked against the      *)
(* position-level specification ProgramSeq.                                *)
(***************************************************************************)
EXTENDS MCRoseProgram, RoseProgramRefinement
=============================================================================
