------------------------- MODULE RoseProgramRefinement -------------------------
(***************************************************************************)
(* RoseProgram implements ProgramSeq.  The refinement mapping reads each   *)
(* program's vector of owned objects through the heap and replaces every   *)
(* pointer member (target, begin, jump-table entry) by the position of the *)
(* object it names in the same program.  A pointer to an object outside    *)
(* the program maps to position 0, which no ProgramSeq step produces, so a  *)
(* dangling jump shows up as a refinement failure.                          *)
(***************************************************************************)
EXTENDS RoseProgram

\* Position of address a in program s, 0 if s does not hold it
PosOr0(s, a) == IF a \in ToSet(s) THEN PosIn(s, a) ELSE 0

\* The instruction record r of program s, with pointers read as positions
AbsInstr(r, s) ==
  [op    |-> r.op,
   f     |-> [m \in DOMAIN r.f |->
                IF m \in Class[r.op].targets THEN PosOr0(s, r.f[m]) ELSE r.f[m]],
   jumps |-> [i \in DOMAIN r.jumps |-> <<r.jumps[i][1], PosOr0(s, r.jumps[i][2])>>]]

AbsProg == [p \in Progs |-> [i \in DOMAIN prog[p] |-> AbsInstr(instr[prog[p][i]], prog[p])]]

PS == INSTANCE ProgramSeq WITH aprog <- AbsProg, adead <- dead

\* Every step of the container, seen through the mapping, is a ProgramSeq
\* splice: insert, insert(it, block), add_block and replace move each jump
\* with the instruction it names, and the END rewrites of the block splices
\* name exactly the instruction the position-level splice says.  Replacing
\* the END by another END leaves every position where it was, a stutter.
ProgramSeqRefined == PS!ASpec
=============================================================================
