---------------------------- MODULE RoseProgram ----------------------------
(***************************************************************************)
(* The program container RoseProgram (src/rose/rose_build_program.h,       *)
(* class RoseProgram) and the graph lowering that drives it.               *)
(*                                                                         *)
(* State:                                                                  *)
(*   instr   the heap: address -> instruction record, for every object a   *)
(*           program owns.  Objects are freed when a program pops its END  *)
(*           or replace drops the old instruction; the allocator hands out *)
(*           any free address, so a freed address may be reused.           *)
(*   prog    per program variable, its std::vector<unique_ptr> as the      *)
(*           sequence of owned identities.                                 *)
(*   dead    program variables that hold no program: never constructed,    *)
(*           or moved from by insert/add_block (their vector then holds    *)
(*           null pointers and may not be used until rebuilt).             *)
(*                                                                         *)
(* The lowering constructs instructions the way the compiler does: their   *)
(* jump targets are instructions of the same program that will follow     *)
(* them, and a SPARSE_ITER_NEXT's begin is a SPARSE_ITER_BEGIN before it.  *)
(***************************************************************************)
EXTENDS RoseInstr, Integers, Sequences, SequencesExt, FiniteSets, TLC

CONSTANTS
  Progs,       \* the program variables of the lowering (model values)
  ModelOps,    \* the instruction classes the lowering constructs
  Vals,        \* values of the scalar members
  Keys,        \* sparse-iterator key indices of jump-table entries
  Addrs        \* the heap's addresses: bounds the live instructions

ASSUME /\ ModelOps \subseteq Opcodes \ {END_OP}
       /\ Keys \subseteq Nat /\ Vals \subseteq Nat /\ None \notin Addrs

VARIABLES instr, prog, dead

vars == <<instr, prog, dead>>

Ids == DOMAIN instr

\* Addresses make_unique may return.
FreeAddrs == Addrs \ Ids

Live == Progs \ dead

NewRec(op, f, jumps) == [op |-> op, f |-> f, jumps |-> jumps]

\* The begin member of a SPARSE_ITER_NEXT, None for any other class.
BeginOf(r) == IF "begin" \in DOMAIN r.f THEN r.f["begin"] ELSE None

\* Allocate a new object at free address a holding record r (make_unique).
Alloc(a, r) == instr' = instr @@ (a :> r)

\* update_targets(begin, end, old, new) over the identities in ids, applied
\* to the heap h.
update_targets(h, ids, old, new) ==
  [i \in DOMAIN h |-> IF i \in ids THEN update_target(h[i], old, new)
                                   ELSE h[i]]

\* The heap h with the object at address a destroyed.
Free(h, a) == [i \in DOMAIN h \ {a} |-> h[i]]

\* empty(): only the END instruction is left.
empty(p) == Len(prog[p]) = 1

\* end_instruction()
end_instruction(p) == Last(prog[p])

(***************************************************************************)
(* The instructions the lowering may construct for program p: any class of *)
(* ModelOps with its constructor's scalar members from Vals and its        *)
(* members written by write() zero; jump targets among the instructions at *)
(* position fwd_from or later; a SPARSE_ITER_NEXT's begin among the        *)
(* SPARSE_ITER_BEGINs before position back; a SPARSE_ITER_BEGIN's jump     *)
(* table empty or one entry.                                               *)
(***************************************************************************)
\* The scalar members of a new instruction of class op.
CtorValues == [op \in ModelOps |->
                 {sc @@ [m \in Class[op].mutable |-> 0] :
                    sc \in [CtorScalars(op) -> Vals]}]

NewInstrs(p, fwd_from, back) ==
  LET s      == prog[p]
      fwd    == {s[i] : i \in fwd_from..Len(s)}
      begins == {s[i] : i \in {j \in 1..(back - 1) : instr[s[j]].op = BEGIN_OP}}
      Ptrs(op) == {g \in [Class[op].targets -> fwd \cup begins] :
                     \A t \in DOMAIN g : g[t] \in IF t = "begin" THEN begins
                                                           ELSE fwd}
      Tables(op) == IF op = BEGIN_OP
                      THEN {<<>>} \cup {<<<<k, t>>>> : k \in Keys, t \in fwd}
                      ELSE {<<>>}
  IN UNION {{NewRec(op, sc @@ g, jt) :
               sc \in CtorValues[op], g \in Ptrs(op), jt \in Tables(op)} :
             op \in ModelOps}

(***************************************************************************)
(* RoseProgram(): a new program holding only a new END.                     *)
(***************************************************************************)
RoseProgramCtor(p, a) ==
  /\ p \in dead
  /\ Alloc(a, NewRec(END_OP, <<>>, <<>>))
  /\ prog' = [prog EXCEPT ![p] = <<a>>]
  /\ dead' = dead \ {p}

(***************************************************************************)
(* insert(it, ri): ri is placed before position pos; no target moves.       *)
(***************************************************************************)
insert(p, pos, r, a) ==
  /\ p \in Live
  /\ pos \in 1..Len(prog[p])
  /\ Alloc(a, r)
  /\ prog' = [prog EXCEPT ![p] = InsertAt(@, pos, a)]
  /\ UNCHANGED dead

\* add_before_end(ri) == insert(std::prev(prog.end()), ri)
add_before_end(p, r, a) == insert(p, Len(prog[p]), r, a)

\* Seeded fault: the block is spliced in after the instruction at pos.
insert_block_after(p, pos, b) ==
  /\ p \in Live /\ b \in Live /\ p # b
  /\ pos \in 1..Len(prog[p])
  /\ ~empty(b)
  /\ LET end_ptr    == end_instruction(b)
         body       == Front(prog[b])
         new_target == prog[p][pos]
     IN /\ instr' = update_targets(Free(instr, end_ptr), ToSet(body),
                                   end_ptr, new_target)
        /\ prog' = [prog EXCEPT
                      ![p] = SubSeq(@, 1, pos) \o body \o SubSeq(@, pos + 1, Len(@)),
                      ![b] = <<>>]
  /\ dead' = dead \cup {b}

\* Seeded fault: jumps to the block's END are rewritten to our END, not to
\* the instruction the block is inserted before.
insert_block_to_end(p, pos, b) ==
  /\ p \in Live /\ b \in Live /\ p # b
  /\ pos \in 1..Len(prog[p])
  /\ ~empty(b)
  /\ LET end_ptr    == end_instruction(b)
         body       == Front(prog[b])
     IN /\ instr' = update_targets(Free(instr, end_ptr), ToSet(body),
                                   end_ptr, end_instruction(p))
        /\ prog' = [prog EXCEPT
                      ![p] = SubSeq(@, 1, pos - 1) \o body \o SubSeq(@, pos, Len(@)),
                      ![b] = <<>>]
  /\ dead' = dead \cup {b}

(***************************************************************************)
(* insert(it, block): block's END is popped, targets in the block that     *)
(* pointed at it are rewritten to the instruction at pos, and the rest of  *)
(* the block is spliced in before pos.  block is moved from.  An empty     *)
(* block returns at once and changes nothing (a stuttering step).          *)
(***************************************************************************)
insert_block(p, pos, b) ==
  /\ p \in Live /\ b \in Live /\ p # b
  /\ pos \in 1..Len(prog[p])
  /\ ~empty(b)
  /\ LET end_ptr    == end_instruction(b)
         body       == Front(prog[b])
         new_target == prog[p][pos]
     IN /\ instr' = update_targets(Free(instr, end_ptr), ToSet(body),
                                   end_ptr, new_target)
        /\ prog' = [prog EXCEPT
                      ![p] = SubSeq(@, 1, pos - 1) \o body \o SubSeq(@, pos, Len(@)),
                      ![b] = <<>>]
  /\ dead' = dead \cup {b}

\* add_before_end(block): empty blocks return early, else insert before END.
add_before_end_block(p, b) == insert_block(p, Len(prog[p]), b)

\* Seeded fault: our END is not popped before the block is appended.
add_block_keep_end(p, b) ==
  /\ p \in Live /\ b \in Live /\ p # b
  /\ ~empty(b)
  /\ LET end_ptr == end_instruction(p)
     IN /\ instr' = update_targets(instr, ToSet(Front(prog[p])),
                                   end_ptr, Head(prog[b]))
        /\ prog' = [prog EXCEPT ![p] = @ \o prog[b], ![b] = <<>>]
  /\ dead' = dead \cup {b}

\* Seeded fault: the moved-from block keeps its instructions.
add_block_no_clear(p, b) ==
  /\ p \in Live /\ b \in Live /\ p # b
  /\ ~empty(b)
  /\ LET end_ptr == end_instruction(p)
         rest    == Front(prog[p])
     IN /\ instr' = update_targets(Free(instr, end_ptr), ToSet(rest),
                                   end_ptr, Head(prog[b]))
        /\ prog' = [prog EXCEPT ![p] = rest \o prog[b]]
  /\ dead' = dead \cup {b}

(***************************************************************************)
(* add_block(block): our END is popped, every target in the program that   *)
(* pointed at it now points at the block's first instruction, and the      *)
(* whole block, its END included, is appended.                              *)
(***************************************************************************)
add_block(p, b) ==
  /\ p \in Live /\ b \in Live /\ p # b
  /\ ~empty(b)
  /\ LET end_ptr == end_instruction(p)
         rest    == Front(prog[p])
     IN /\ instr' = update_targets(Free(instr, end_ptr), ToSet(rest),
                                   end_ptr, Head(prog[b]))
        /\ prog' = [prog EXCEPT ![p] = rest \o prog[b], ![b] = <<>>]
  /\ dead' = dead \cup {b}

\* Seeded fault: the old instruction is released, not destroyed.
replace_leak(p, pos, r, new_ptr) ==
  /\ p \in Live
  /\ pos \in 1..Len(prog[p])
  /\ pos = Len(prog[p]) => r.op = END_OP
  /\ LET old_ptr == prog[p][pos]
         s       == [prog[p] EXCEPT ![pos] = new_ptr]
     IN /\ (\E i \in 1..Len(prog[p]) : BeginOf(instr[prog[p][i]]) = old_ptr)
              => r.op = BEGIN_OP
        /\ instr' = update_targets(instr @@ (new_ptr :> r),
                                   ToSet(s), old_ptr, new_ptr)
        /\ prog' = [prog EXCEPT ![p] = s]
  /\ UNCHANGED dead

(***************************************************************************)
(* replace(it, ri): the instruction at pos is swapped for r and every      *)
(* target in the program that pointed at the old one is rewritten to r.    *)
(* The END may only be replaced by another END (replace asserts END stays *)
(* last), and a SPARSE_ITER_BEGIN that a NEXT refers to only by another    *)
(* SPARSE_ITER_BEGIN (update_target asserts this for the NEXT's begin).    *)
(***************************************************************************)
replace(p, pos, r, new_ptr) ==
  /\ p \in Live
  /\ pos \in 1..Len(prog[p])
  /\ pos = Len(prog[p]) => r.op = END_OP
  /\ LET old_ptr == prog[p][pos]
         s       == [prog[p] EXCEPT ![pos] = new_ptr]
     IN /\ (\E i \in 1..Len(prog[p]) : BeginOf(instr[prog[p][i]]) = old_ptr)
              => r.op = BEGIN_OP
        /\ instr' = update_targets(Free(instr, old_ptr) @@ (new_ptr :> r),
                                   ToSet(s), old_ptr, new_ptr)
        /\ prog' = [prog EXCEPT ![p] = s]
  /\ UNCHANGED dead

-----------------------------------------------------------------------------
Init ==
  /\ instr = <<>>
  /\ prog = [p \in Progs |-> <<>>]
  /\ dead = Progs

Next ==
  \/ \E p \in Progs, a \in FreeAddrs : RoseProgramCtor(p, a)
  \/ \E p \in Live, a \in FreeAddrs : \E pos \in 1..Len(prog[p]) :
        \E r \in NewInstrs(p, pos, pos) : insert(p, pos, r, a)
  \/ \E p \in Live, a \in FreeAddrs :
        \E r \in NewInstrs(p, Len(prog[p]), Len(prog[p])) :
          add_before_end(p, r, a)
  \/ \E p, b \in Live : \E pos \in 1..Len(prog[p]) : insert_block(p, pos, b)
  \/ \E p, b \in Live : add_before_end_block(p, b)
  \/ \E p, b \in Live : add_block(p, b)
  \/ \E p \in Live, a \in FreeAddrs : \E pos \in 1..(Len(prog[p]) - 1) :
        \E r \in NewInstrs(p, pos + 1, pos) : replace(p, pos, r, a)
  \/ \E p \in Live, a \in FreeAddrs :
        replace(p, Len(prog[p]), NewRec(END_OP, <<>>, <<>>), a)

Spec == Init /\ [][Next]_vars

-----------------------------------------------------------------------------
\* An instruction record of class op as the lowering can build it.
WellFormed(r) ==
  /\ r.op \in Opcodes
  /\ DOMAIN r.f = Scalars(r.op) \cup Class[r.op].targets
  /\ \A m \in Scalars(r.op) : r.f[m] \in Vals \cup {0}
  /\ \A t \in Class[r.op].targets : r.f[t] \in Addrs
  /\ r.jumps \in Seq(Keys \X Addrs)

TypeOK ==
  /\ Ids \subseteq Addrs /\ \A i \in Ids : WellFormed(instr[i])
  /\ dead \subseteq Progs
  /\ prog \in [Progs -> Seq(Addrs)]
  /\ \A p \in dead : prog[p] = <<>>

\* Position of identity id in sequence s.
PosIn(s, id) == CHOOSE i \in DOMAIN s : s[i] = id

(***************************************************************************)
(* END invariant (empty(), end_instruction() and every mutation assert     *)
(* it): a program's last instruction is an END and no other is; popping    *)
(* the old END in add_block and the block's END in insert(it, block) is    *)
(* what keeps a second END out of the middle of the program.               *)
(***************************************************************************)
EndTerminated ==
  \A p \in Live :
    /\ prog[p] # <<>>
    /\ instr[Last(prog[p])].op = END_OP
    /\ \A i \in 1..(Len(prog[p]) - 1) : instr[prog[p][i]].op # END_OP

(***************************************************************************)
(* Target closure: after any sequence of insert, add_before_end,           *)
(* add_block and replace, every target, begin and jump-table entry of an   *)
(* instruction in a program is an instruction of that same program.  A     *)
(* target left at a popped END or a replaced instruction dangles.          *)
(***************************************************************************)
TargetClosure ==
  \A p \in Live : \A i \in DOMAIN prog[p] :
    TargetsOf(instr[prog[p][i]]) \subseteq ToSet(prog[p])

(***************************************************************************)
(* Exclusive ownership (unique_ptr): every live object is owned by exactly *)
(* one program and appears in it once; a block handed to insert or         *)
(* add_block gives up every instruction it held, and the popped END and    *)
(* the replaced instruction are destroyed, not leaked.                     *)
(***************************************************************************)
ExclusiveOwnership ==
  /\ Ids = UNION {ToSet(prog[p]) : p \in Live}
  /\ \A p \in Live : IsInjective(prog[p])
  /\ \A p, q \in Live : p # q => ToSet(prog[p]) \cap ToSet(prog[q]) = {}

(***************************************************************************)
(* Feed-forward control flow: every jump (target, jump-table entry) goes   *)
(* to a later instruction, and a SPARSE_ITER_NEXT's begin is an earlier    *)
(* SPARSE_ITER_BEGIN, so the assembler, walking in program order, writes   *)
(* a BEGIN before the NEXTs that reuse its iterator.  The splice point of  *)
(* insert(it, block) and the END rewrite of add_block decide this.         *)
(***************************************************************************)
TargetsOrdered ==
  \A p \in Live : \A i \in DOMAIN prog[p] :
    LET r == instr[prog[p][i]]
        s == prog[p]
    IN /\ \A t \in {r.f[m] : m \in Class[r.op].targets \ {"begin"}} \cup JumpTargets(r) :
            t \in ToSet(s) => PosIn(s, t) > i
       /\ BeginOf(r) \in ToSet(s) =>
            /\ PosIn(s, BeginOf(r)) < i
            /\ instr[BeginOf(r)].op = BEGIN_OP
=============================================================================
