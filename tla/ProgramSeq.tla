----------------------------- MODULE ProgramSeq -----------------------------
(***************************************************************************)
(* What the RoseProgram container promises, without pointers: a program is *)
(* a sequence of instructions, and a jump (a target, a SPARSE_ITER_NEXT's   *)
(* begin, a jump-table entry) is the position of the instruction it names. *)
(* Every operation is a splice, and the positions it moves are renumbered: *)
(*                                                                         *)
(*   insert(it, ri)          ri goes in at pos; jumps at or after pos move  *)
(*                           up one.                                       *)
(*   insert(it, block)       the block, without its END, goes in before    *)
(*                           pos; its jumps to its END now name the         *)
(*                           instruction that was at pos.                   *)
(*   add_block(block)        the block replaces our END; our jumps to the   *)
(*                           END now name the block's first instruction.    *)
(*   replace(it, ri)         ri takes the place of the instruction at pos,  *)
(*                           which every jump to pos now names.             *)
(*                                                                         *)
(* The instruction a caller builds is whatever the next state holds at its *)
(* position, restricted to jumps inside the program.  RoseProgram          *)
(* implements this specification under the mapping in RoseProgramRefinement.*)
(***************************************************************************)
EXTENDS RoseInstr, Integers, Sequences, SequencesExt

CONSTANT Progs

VARIABLES aprog, adead

avars == <<aprog, adead>>

ALive == Progs \ adead

EndInstr == [op |-> END_OP, f |-> <<>>, jumps |-> <<>>]

\* The jump positions of instruction r
Jumps(r) == {r.f[m] : m \in Class[r.op].targets} \cup {e[2] : e \in ToSet(r.jumps)}

\* r with every jump position x renumbered to g(x)
Retarget(r, g(_)) ==
  [r EXCEPT !.f     = [m \in DOMAIN r.f |->
                         IF m \in Class[r.op].targets THEN g(r.f[m]) ELSE r.f[m]],
            !.jumps = [i \in DOMAIN r.jumps |-> <<r.jumps[i][1], g(r.jumps[i][2])>>]]

Renumber(s, g(_)) == [i \in DOMAIN s |-> Retarget(s[i], g)]

\* A new instruction placed into a program of n instructions
Placed(r, n) == r.op # END_OP /\ Jumps(r) \subseteq 1..n

-----------------------------------------------------------------------------
Construct(p) ==
  /\ p \in adead
  /\ aprog' = [aprog EXCEPT ![p] = <<EndInstr>>]
  /\ adead' = adead \ {p}

Insert(p, pos) ==
  /\ p \in ALive
  /\ pos \in 1..Len(aprog[p])
  /\ Len(aprog'[p]) = Len(aprog[p]) + 1
  /\ LET r == aprog'[p][pos]
     IN  /\ Placed(r, Len(aprog[p]) + 1)
         /\ aprog' = [aprog EXCEPT ![p] =
               InsertAt(Renumber(@, LAMBDA x : IF x >= pos THEN x + 1 ELSE x), pos, r)]
  /\ UNCHANGED adead

SpliceBlock(p, pos, b) ==
  /\ {p, b} \subseteq ALive /\ p # b
  /\ pos \in 1..Len(aprog[p])
  /\ Len(aprog[b]) > 1
  /\ LET k    == Len(aprog[b]) - 1
         body == Renumber(Front(aprog[b]), LAMBDA y : y + pos - 1)
         mine == Renumber(aprog[p], LAMBDA x : IF x >= pos THEN x + k ELSE x)
     IN  aprog' = [aprog EXCEPT
                     ![p] = SubSeq(mine, 1, pos - 1) \o body \o SubSeq(mine, pos, Len(mine)),
                     ![b] = <<>>]
  /\ adead' = adead \cup {b}

AppendBlock(p, b) ==
  /\ {p, b} \subseteq ALive /\ p # b
  /\ Len(aprog[b]) > 1
  /\ LET n == Len(aprog[p])
     IN  aprog' = [aprog EXCEPT
                     ![p] = Front(@) \o Renumber(aprog[b], LAMBDA y : y + n - 1),
                     ![b] = <<>>]
  /\ adead' = adead \cup {b}

Replace(p, pos) ==
  /\ p \in ALive
  /\ pos \in 1..(Len(aprog[p]) - 1)
  /\ Len(aprog'[p]) = Len(aprog[p])
  /\ LET r == aprog'[p][pos]
     IN  /\ Placed(r, Len(aprog[p]))
         /\ aprog' = [aprog EXCEPT ![p][pos] = r]
  /\ UNCHANGED adead

AInit == aprog = [p \in Progs |-> <<>>] /\ adead = Progs

ANext ==
  \E p \in Progs :
    \/ Construct(p)
    \/ \E pos \in 1..Len(aprog[p]) : Insert(p, pos) \/ Replace(p, pos)
    \/ \E b \in Progs : AppendBlock(p, b) \/ \E pos \in 1..Len(aprog[p]) : SpliceBlock(p, pos, b)

ASpec == AInit /\ [][ANext]_avars
=============================================================================
