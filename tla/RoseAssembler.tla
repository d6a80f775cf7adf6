---------------------------- MODULE RoseAssembler ----------------------------
(***************************************************************************)
(* The write pass of the assembler (C5), the auxiliary blob (C4) and the   *)
(* program cache that deduplicates programs before they are written,       *)
(* composed with the container of RoseProgram.                             *)
(*                                                                         *)
(* The bodies of write() and of writeProgram are in rose_build_program.cpp *)
(* and rose_build_bytecode.cpp, which are not among the sources; they are  *)
(* modelled from the specification (sections 3, 4.3, 4.5, 8 and 9).  What  *)
(* the header fixes is modelled from it: SPARSE_ITER_BEGIN's mutable       *)
(* is_written, iter_offset and jump_table_offset, and equiv_to comparing   *)
(* iter_offset.  iter_offset lives in the heap record, where RoseInstr's   *)
(* equiv reads it; the other two live in `sparse`.                         *)
(*                                                                         *)
(* State added to RoseProgram's:                                           *)
(*   blob      the payloads appended so far, [kind, owner]; a payload's    *)
(*             offset is its index - 1                                     *)
(*   sparse    per BEGIN address written, [is_written, jump_table_offset]  *)
(*   bytecode  per program variable written, its emitted records           *)
(*   cache     program variables the cache holds; they are moved into the  *)
(*             cache and never mutated again                               *)
(*   ret       per program variable, the cached program whose offset its   *)
(*             last writeProgram returned (the caller keeps the offset)    *)
(***************************************************************************)
EXTENDS RoseProgramDedup

CONSTANT BlobInit   \* the blobs the assembler may be given: empty, or
                    \* already holding side data of other programs

VARIABLES blob, sparse, bytecode, cache, ret

avars == <<instr, prog, dead, blob, sparse, bytecode, cache, ret>>

\* SPARSE_ITER_BEGIN's mutable members before write(): is_written = false,
\* jump_table_offset = 0 (iter_offset = 0 is in the record).
NotWritten == [is_written |-> FALSE, jump_table_offset |-> 0]

SparseOf(w, a) == IF a \in DOMAIN w THEN w[a] ELSE NotWritten

\* A payload appended to the blob: its kind, the BEGIN that added it, and
\* its contents.  Its offset is its index minus one.
Payload(kind, owner, data) == [kind |-> kind, owner |-> owner, data |-> data]

(***************************************************************************)
(* The packed record of the instruction at address a under the offset map *)
(* offs, the heap h and the sparse state w: its opcode, its targets as     *)
(* offsets, its jump table with targets as offsets, and the two blob       *)
(* offsets.  A BEGIN's offsets are its own mutable members; a NEXT copies  *)
(* its begin's (after assert(begin->is_written)).  The scalar members it   *)
(* also serialises are read from the heap (Serialised), where a cached     *)
(* program's instructions stay unchanged.                                  *)
(***************************************************************************)
\* The jump table of r as (key, target offset) pairs
JumpTable(r, offs) == [k \in DOMAIN r.jumps |-> <<r.jumps[k][1], offs[r.jumps[k][2]]>>]

RecordOf(a, offs, h, w) ==
  LET r  == h[a]
      d  == Class[r.op]
      io == CASE r.op = BEGIN_OP -> r.f["iter_offset"]
              [] r.op = NEXT_OP  -> h[r.f["begin"]].f["iter_offset"]
              [] OTHER           -> 0
      jo == CASE r.op = BEGIN_OP -> SparseOf(w, a).jump_table_offset
              [] r.op = NEXT_OP  -> SparseOf(w, r.f["begin"]).jump_table_offset
              [] OTHER           -> 0
  IN  [op    |-> r.op,
       tgt   |-> [m \in d.targets |-> offs[r.f[m]]],
       jumps |-> JumpTable(r, offs),
       iter  |-> io, jt |-> jo]

\* Mutant: a NEXT builds and appends its own iterator and jump table
EmitOne_next_reemit(a, offs, h, w, b) ==
  LET r == h[a]
  IN  IF r.op \in {BEGIN_OP, NEXT_OP}
        THEN LET h2 == [h EXCEPT ![a].f = [m \in DOMAIN @ |->
                          IF m = "iter_offset" THEN Len(b) ELSE @[m]]]
                 w2 == w @@ (a :> [is_written |-> TRUE, jump_table_offset |-> Len(b) + 1])
                 b2 == b \o <<Payload("iter", a, r.f), Payload("jump_table", a, r.jumps)>>
             IN  [h |-> h2, w |-> w2, b |-> b2,
                  rec |-> [RecordOf(a, offs, h2, w2) EXCEPT !.iter = Len(b), !.jt = Len(b) + 1]]
        ELSE [h |-> h, w |-> w, b |-> b, rec |-> RecordOf(a, offs, h, w)]

(***************************************************************************)
(* write() of the instruction at address a.  A BEGIN builds its iterator  *)
(* (num_keys and the jump keys) and its jump table (key, offset) pairs,    *)
(* appends both to the blob, and stores their offsets in iter_offset and   *)
(* jump_table_offset with is_written = true; every other class appends     *)
(* nothing.                                                                *)
(***************************************************************************)
EmitOne(a, offs, h, w, b) ==
  LET r     == h[a]
      begin == r.op = BEGIN_OP
      h2 == IF begin THEN [h EXCEPT ![a].f["iter_offset"] = Len(b)] ELSE h
      w2 == IF begin THEN w @@ (a :> [is_written |-> TRUE, jump_table_offset |-> Len(b) + 1])
                     ELSE w
      b2 == IF begin THEN b \o <<Payload("iter", a, <<r.f["num_keys"], [k \in DOMAIN r.jumps |-> r.jumps[k][1]]>>),
                                 Payload("jump_table", a, JumpTable(r, offs))>>
                     ELSE b
  IN  [h |-> h2, w |-> w2, b |-> b2, rec |-> RecordOf(a, offs, h2, w2)]

\* Pass 2: write s[i..] in program order, threading heap, sparse and blob.
RECURSIVE EmitFrom(_, _, _, _, _, _, _)
EmitFrom(s, i, offs, h, w, b, recs) ==
  IF i > Len(s) THEN [h |-> h, w |-> w, b |-> b, recs |-> recs]
  ELSE LET e == EmitOne(s[i], offs, h, w, b)
       IN  EmitFrom(s, i + 1, offs, e.h, e.w, e.b, Append(recs, e.rec))

\* The programs the cache holds that match p: the bucket RoseProgramHash
\* picks, and RoseProgramEquivalence within it (tested first here, as the
\* cheaper of the two to evaluate).
CacheMatch(p) ==
  {q \in cache : Equivalent(q, p)
                 /\ RoseProgramHash(instr, prog[q]) = RoseProgramHash(instr, prog[p])}

(***************************************************************************)
(* writeProgram(bc, program): an empty program returns 0 and writes        *)
(* nothing (no step).  A program the cache holds an equivalent of returns  *)
(* that one's offset, and the moved-from program is destroyed.  Otherwise  *)
(* pass 1 (offset_map) and pass 2 (EmitFrom) run, the bytecode is added   *)
(* to the blob after the side data its write() calls added                *)
(* (engine_blob.add), and the program is moved into the cache, never to    *)
(* change again.                                                           *)
(***************************************************************************)
writeProgramCached(p) ==
  /\ p \in Live \ cache
  /\ ~empty(p)
  /\ CacheMatch(p) # {}
  /\ instr' = [a \in Ids \ ToSet(prog[p]) |-> instr[a]]
  /\ prog' = [prog EXCEPT ![p] = <<>>]
  /\ dead' = dead \cup {p}
  /\ ret' = [ret EXCEPT ![p] = CHOOSE q \in CacheMatch(p) : TRUE]
  /\ UNCHANGED <<blob, sparse, bytecode, cache>>

writeProgram(p) ==
  /\ p \in Live \ cache
  /\ ~empty(p)
  /\ CacheMatch(p) = {}
  /\ LET e == EmitFrom(prog[p], 1, offset_map(instr, prog[p]), instr, sparse, blob, <<>>)
     IN  /\ instr' = e.h
         /\ sparse' = e.w
         /\ blob' = Append(e.b, Payload("program", p, e.recs))
         /\ bytecode' = bytecode @@ (p :> e.recs)
  /\ cache' = cache \cup {p}
  /\ ret' = [ret EXCEPT ![p] = p]
  /\ UNCHANGED <<prog, dead>>

\* The lowering keeps building the programs it has not moved into the cache.
Build ==
  /\ Next
  /\ \A q \in cache : prog'[q] = prog[q] /\ q \notin dead'
  /\ UNCHANGED <<blob, sparse, bytecode, cache, ret>>

AInit == Init /\ blob \in BlobInit /\ sparse = <<>> /\ bytecode = <<>> /\ cache = {}
        /\ ret = [p \in Progs |-> None]

ANext == Build \/ \E p \in Progs : writeProgram(p) \/ writeProgramCached(p)

ASpec == AInit /\ [][ANext]_avars

-----------------------------------------------------------------------------
(* Properties                                                              *)

\* The blob offsets of the payloads of kind k that the BEGIN at a added
PayloadsOf(k, a) == {i - 1 : i \in {j \in DOMAIN blob : blob[j].kind = k /\ blob[j].owner = a}}

(***************************************************************************)
(* Sparse-iterator sharing (spec section 8 property 8, scenario S6): in    *)
(* every program written, each SPARSE_ITER_BEGIN added exactly one         *)
(* iterator and one jump table to the blob, its record holds their         *)
(* offsets, every SPARSE_ITER_NEXT's record holds the same two offsets as  *)
(* its begin's, and no other instruction added anything.  It rests on      *)
(* write() running in program order, BEGIN setting is_written and its      *)
(* offsets, and NEXT reading them instead of building its own.             *)
(***************************************************************************)
SparseIterSharing ==
  \A p \in cache : \A i \in DOMAIN bytecode[p] :
    LET rec == bytecode[p][i]
        a   == prog[p][i]
    IN  /\ rec.op = BEGIN_OP =>
             PayloadsOf("iter", a) = {rec.iter} /\ PayloadsOf("jump_table", a) = {rec.jt}
        /\ rec.op = NEXT_OP =>
             \E j \in 1..(i - 1) : /\ prog[p][j] = instr[a].f["begin"]
                                   /\ bytecode[p][j].iter = rec.iter
                                   /\ bytecode[p][j].jt = rec.jt
        /\ rec.op # BEGIN_OP =>
             PayloadsOf("iter", a) \cup PayloadsOf("jump_table", a) = {}

\* Instruction r as it was before any write(), its iter_offset back at 0
PreWrite(r) == IF r.op = BEGIN_OP THEN [r EXCEPT !.f["iter_offset"] = 0] ELSE r

\* RoseProgramEquivalence of two programs of the heap as they were before
\* any write() (offset_map does not read iter_offset); the ops compared
\* first, as equiv does, before the offset maps are built
EquivalentBeforeWrite(s1, s2) ==
  /\ Len(s1) = Len(s2)
  /\ \A i \in DOMAIN s1 : instr[s1[i]].op = instr[s2[i]].op
  /\ LET off1 == offset_map(instr, s1)
         off2 == offset_map(instr, s2)
     IN \A i \in DOMAIN s1 : equiv(PreWrite(instr[s1[i]]), PreWrite(instr[s2[i]]), off1, off2)

\* A record without its blob offsets, and the contents of the payloads it
\* names in blob b
Stripped(rec)       == [rec EXCEPT !.iter = 0, !.jt = 0]
PayloadIn(b, rec)   == IF rec.op = BEGIN_OP
                         THEN <<b[rec.iter + 1].data, b[rec.jt + 1].data>>
                         ELSE <<>>
PayloadData(rec)    == PayloadIn(blob, rec)

\* The scalar members write() serialises from instruction r (section 4.3):
\* all but its pointers and the members write() itself sets
Serialised(r) ==
  LET d == Class[r.op] IN [m \in DOMAIN r.f \ (d.targets \cup d.mutable) |-> r.f[m]]

\* Programs p and q emitted the same records up to the blob offsets, and
\* the payloads those offsets name hold the same data
EmittedAlike(p, q) ==
  /\ DOMAIN bytecode[p] = DOMAIN bytecode[q]
  /\ \A i \in DOMAIN bytecode[p] :
       /\ Stripped(bytecode[p][i]) = Stripped(bytecode[q][i])
       /\ PayloadData(bytecode[p][i]) = PayloadData(bytecode[q][i])

(***************************************************************************)
(* A cache hit is sound: when writeProgram(p) returns the offset of a      *)
(* cached program q instead of writing p, the records p's write() calls   *)
(* would have emitted at that moment, the scalar members they serialise,   *)
(* and the iterator and jump table they would have added, are those of q's *)
(* bytecode, blob offsets aside.  The                                      *)
(* cache key is RoseProgramHash and RoseProgramEquivalence, and            *)
(* SPARSE_ITER_BEGIN's equiv_to does not compare num_keys, which write()   *)
(* serialises into the iterator; only the hash keeps two BEGINs that       *)
(* differ in it apart.                                                     *)
(***************************************************************************)
CacheHitSound ==
  [][\A p \in Progs :
       p \in dead' \ dead /\ writeProgramCached(p) =>
         LET e == EmitFrom(prog[p], 1, offset_map(instr, prog[p]), instr, sparse, blob, <<>>)
             q == ret'[p]
         IN  /\ Len(e.recs) = Len(bytecode[q])
             /\ \A i \in DOMAIN e.recs :
                  /\ Stripped(e.recs[i]) = Stripped(bytecode[q][i])
                  /\ Serialised(instr[prog[p][i]]) = Serialised(instr[prog[q][i]])
                  /\ PayloadIn(e.b, e.recs[i]) = PayloadData(bytecode[q][i])]_avars

(***************************************************************************)
(* Assembly round-trip (spec section 8 property 5): a program written     *)
(* while the cache holds one it was equivalent to before emission, at      *)
(* other addresses, emits the same records up to the blob offsets, and the *)
(* payloads those offsets name hold the same iterator and the same jump    *)
(* table.  Targets and jump tables must be encoded as offsets within the   *)
(* program.  Two such programs are both written only when the cache missed *)
(* them.  The specification's equivalence compares every non-target field; *)
(* equiv_to of SPARSE_ITER_BEGIN omits num_keys while hash() mixes it in,  *)
(* so two BEGINs that differ only in num_keys are equivalent, miss each    *)
(* other in the cache and are both written with different iterators: this *)
(* is expected to fail.                                                    *)
(***************************************************************************)
EquivalentProgramsEmitAlike ==
  [][\A p \in Progs : p \notin cache /\ p \in cache' =>
       \A q \in cache : EmittedAlike(p, q)' \/ ~EquivalentBeforeWrite(prog[p], prog[q])]_avars

(***************************************************************************)
(* Spec section 9 mandates that program equivalence ignore the emission    *)
(* state (choice (a)): writing a program does not change which programs    *)
(* are equivalent.  equiv_to of SPARSE_ITER_BEGIN compares iter_offset,    *)
(* which write() sets, so this is expected to fail.                        *)
(***************************************************************************)
EquivalenceIgnoresEmission ==
  [][\A w \in Progs : writeProgram(w) =>
        \A p, q \in Live : Equivalent(p, q)' = Equivalent(p, q)]_avars
=============================================================================
