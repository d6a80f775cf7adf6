----------------------------- MODULE RoseInstr -----------------------------
(***************************************************************************)
(* The Rose instruction value (src/rose/rose_build_program.h, classes      *)
(* RoseInstruction .. RoseInstrEnd).                                       *)
(*                                                                         *)
(* Every concrete class is described by a class descriptor that records    *)
(* what its member functions do with its members:                          *)
(*   hashed     the members hash() mixes in after the opcode, in order;    *)
(*   compared   the members equiv_to compares by value;                    *)
(*   targets    the RoseInstruction pointer members;                       *)
(*   rewritten  the pointer members update_target rewrites;               *)
(*   jump_hash, jump_cmp, jump_rw  whether hash(), equiv_to and            *)
(*              update_target use the jump table (SPARSE_ITER_BEGIN);      *)
(*   mutable    members not set by the constructor (written by write()).   *)
(* equiv_to compares every pointer member by the offset it resolves to.    *)
(*                                                                         *)
(* An instruction is a record [op, f, jumps]: f maps each member to its    *)
(* value (scalars abstracted to small integers; a std::array, vector or    *)
(* som_operation part to one integer), pointers to instruction identities; *)
(* jumps is the jump table, a sequence of <<key, identity>>.  The identity *)
(* (the C++ object address) is not part of the record: programs hold      *)
(* identities and a heap maps an identity to its record.                   *)
(***************************************************************************)
EXTENDS Integers, Sequences, SequencesExt, Bitwise

CONSTANTS
  None,        \* a null RoseInstruction pointer
  HashBits     \* width of size_t in the model's hash (64 in the build)

ASSUME HashBits \in 8..20

\* Descriptor of a class with neither targets nor jump table.
NoTargets(op, hashed) ==
  [op |-> op, hashed |-> hashed, compared |-> ToSet(hashed),
   targets |-> {}, rewritten |-> {}, mutable |-> {},
   jump_hash |-> FALSE, jump_cmp |-> FALSE, jump_rw |-> FALSE]

\* RoseInstrBaseTrivial: no members; hash() is the opcode, equiv_to TRUE.
RoseInstrBaseTrivial(op) == NoTargets(op, <<>>)

\* RoseInstrBaseOneTarget: one member "target", rewritten by update_target.
RoseInstrBaseOneTarget(op, hashed) ==
  [NoTargets(op, hashed) EXCEPT !.targets = {"target"},
                                !.rewritten = {"target"}]

RoseInstrAnchoredDelay   == RoseInstrBaseOneTarget("ANCHORED_DELAY", <<"groups">>)
RoseInstrCheckLitEarly   == NoTargets("CHECK_LIT_EARLY", <<"min_offset">>)
RoseInstrCheckGroups     == NoTargets("CHECK_GROUPS", <<"groups">>)
RoseInstrCheckOnlyEod    == RoseInstrBaseOneTarget("CHECK_ONLY_EOD", <<>>)
RoseInstrCheckBounds     ==
  RoseInstrBaseOneTarget("CHECK_BOUNDS", <<"min_bound", "max_bound">>)
RoseInstrCheckNotHandled == RoseInstrBaseOneTarget("CHECK_NOT_HANDLED", <<"key">>)
RoseInstrCheckLookaround ==
  RoseInstrBaseOneTarget("CHECK_LOOKAROUND", <<"index", "count">>)
RoseInstrCheckMask       ==
  RoseInstrBaseOneTarget("CHECK_MASK",
                         <<"and_mask", "cmp_mask", "neg_mask", "offset">>)
RoseInstrCheckMask32     ==
  RoseInstrBaseOneTarget("CHECK_MASK_32",
                         <<"and_mask", "cmp_mask", "neg_mask", "offset">>)
RoseInstrCheckByte       ==
  RoseInstrBaseOneTarget("CHECK_BYTE",
                         <<"and_mask", "cmp_mask", "negation", "offset">>)
RoseInstrCheckInfix      ==
  RoseInstrBaseOneTarget("CHECK_INFIX", <<"queue", "lag", "report">>)
RoseInstrCheckPrefix     ==
  RoseInstrBaseOneTarget("CHECK_PREFIX", <<"queue", "lag", "report">>)
RoseInstrPushDelayed     == NoTargets("PUSH_DELAYED", <<"delay", "index">>)
RoseInstrRecordAnchored  == NoTargets("RECORD_ANCHORED", <<"id">>)
RoseInstrCatchUp         == RoseInstrBaseTrivial("CATCH_UP")
RoseInstrCatchUpMpv      == RoseInstrBaseTrivial("CATCH_UP_MPV")
RoseInstrSomAdjust       == NoTargets("SOM_ADJUST", <<"distance">>)
RoseInstrSomLeftfix      == NoTargets("SOM_LEFTFIX", <<"queue", "lag">>)

\* The SOM classes hash som.type and som.onmatch, but equiv_to memcmp's the
\* whole som_operation, its aux member included.
SomClass(op) ==
  [NoTargets(op, <<"som_type", "som_onmatch">>)
     EXCEPT !.compared = {"som_type", "som_onmatch", "som_aux"}]

RoseInstrSomFromReport   == SomClass("SOM_FROM_REPORT")
RoseInstrSomZero         == RoseInstrBaseTrivial("SOM_ZERO")
RoseInstrTriggerInfix    ==
  NoTargets("TRIGGER_INFIX", <<"cancel", "queue", "event">>)
RoseInstrTriggerSuffix   == NoTargets("TRIGGER_SUFFIX", <<"queue", "event">>)
RoseInstrDedupe          ==
  RoseInstrBaseOneTarget("DEDUPE", <<"quash_som", "dkey", "offset_adjust">>)
RoseInstrDedupeSom       ==
  RoseInstrBaseOneTarget("DEDUPE_SOM", <<"quash_som", "dkey", "offset_adjust">>)
RoseInstrReportChain     ==
  NoTargets("REPORT_CHAIN", <<"event", "top_squash_distance">>)
RoseInstrReportSomInt    == SomClass("REPORT_SOM_INT")
RoseInstrReportSomAware  == SomClass("REPORT_SOM_AWARE")
\* Seeded fault: equiv_to forgets offset_adjust, which hash() mixes in.
RoseInstrReport_no_offset_adjust ==
  [NoTargets("REPORT", <<"onmatch", "offset_adjust">>)
     EXCEPT !.compared = {"onmatch"}]
RoseInstrReport          == NoTargets("REPORT", <<"onmatch", "offset_adjust">>)
RoseInstrReportExhaust   ==
  NoTargets("REPORT_EXHAUST", <<"onmatch", "offset_adjust", "ekey">>)
RoseInstrReportSom       == NoTargets("REPORT_SOM", <<"onmatch", "offset_adjust">>)
RoseInstrReportSomExhaust ==
  NoTargets("REPORT_SOM_EXHAUST", <<"onmatch", "offset_adjust", "ekey">>)
RoseInstrDedupeAndReport ==
  RoseInstrBaseOneTarget("DEDUPE_AND_REPORT",
                         <<"quash_som", "dkey", "onmatch", "offset_adjust">>)
RoseInstrFinalReport     == NoTargets("FINAL_REPORT", <<"onmatch", "offset_adjust">>)
RoseInstrCheckExhausted  == RoseInstrBaseOneTarget("CHECK_EXHAUSTED", <<"ekey">>)
RoseInstrCheckMinLength  ==
  RoseInstrBaseOneTarget("CHECK_MIN_LENGTH", <<"end_adj", "min_length">>)
RoseInstrSetState        == NoTargets("SET_STATE", <<"index">>)
RoseInstrSetGroups       == NoTargets("SET_GROUPS", <<"groups">>)
RoseInstrSquashGroups    == NoTargets("SQUASH_GROUPS", <<"groups">>)
RoseInstrCheckState      == RoseInstrBaseOneTarget("CHECK_STATE", <<"index">>)

\* Seeded fault: update_target leaves the jump table pointing at the old
\* instruction.
RoseInstrSparseIterBegin_no_jump_rewrite ==
  [RoseInstrBaseOneTarget("SPARSE_ITER_BEGIN", <<"num_keys">>)
     EXCEPT !.compared = {"iter_offset"}, !.mutable = {"iter_offset"},
            !.jump_hash = TRUE, !.jump_cmp = TRUE]

\* hash() mixes num_keys and every jump key; update_target rewrites target
\* and the jump table; equiv_to compares iter_offset (set by write()), the
\* target and the jump table, and not num_keys.
RoseInstrSparseIterBegin ==
  [RoseInstrBaseOneTarget("SPARSE_ITER_BEGIN", <<"num_keys">>)
     EXCEPT !.compared = {"iter_offset"}, !.mutable = {"iter_offset"},
            !.jump_hash = TRUE, !.jump_cmp = TRUE, !.jump_rw = TRUE]

\* begin is the companion SPARSE_ITER_BEGIN; update_target rewrites it too.
RoseInstrSparseIterNext  ==
  [RoseInstrBaseOneTarget("SPARSE_ITER_NEXT", <<"state">>)
     EXCEPT !.targets = {"target", "begin"}, !.rewritten = {"target", "begin"}]

RoseInstrSparseIterAny   ==
  RoseInstrBaseOneTarget("SPARSE_ITER_ANY", <<"num_keys", "keys">>)
RoseInstrEnginesEod      == NoTargets("ENGINES_EOD", <<"iter_offset">>)
RoseInstrSuffixesEod     == RoseInstrBaseTrivial("SUFFIXES_EOD")
RoseInstrMatcherEod      == RoseInstrBaseTrivial("MATCHER_EOD")
RoseInstrEnd             == RoseInstrBaseTrivial("END")

(***************************************************************************)
(* The class catalogue, in the order of the opcode enumeration of the     *)
(* specification's catalogue; the opcode is the position less one.        *)
(***************************************************************************)
Catalogue ==
  << RoseInstrAnchoredDelay, RoseInstrCheckLitEarly, RoseInstrCheckGroups,
     RoseInstrCheckOnlyEod, RoseInstrCheckBounds, RoseInstrCheckNotHandled,
     RoseInstrCheckLookaround, RoseInstrCheckMask, RoseInstrCheckMask32,
     RoseInstrCheckByte, RoseInstrCheckInfix, RoseInstrCheckPrefix,
     RoseInstrPushDelayed, RoseInstrRecordAnchored, RoseInstrCatchUp,
     RoseInstrCatchUpMpv, RoseInstrSomAdjust, RoseInstrSomLeftfix,
     RoseInstrSomFromReport, RoseInstrSomZero, RoseInstrTriggerInfix,
     RoseInstrTriggerSuffix, RoseInstrDedupe, RoseInstrDedupeSom,
     RoseInstrReportChain, RoseInstrReportSomInt, RoseInstrReportSomAware,
     RoseInstrReport, RoseInstrReportExhaust, RoseInstrReportSom,
     RoseInstrReportSomExhaust, RoseInstrDedupeAndReport,
     RoseInstrFinalReport, RoseInstrCheckExhausted, RoseInstrCheckMinLength,
     RoseInstrSetState, RoseInstrSetGroups, RoseInstrSquashGroups,
     RoseInstrCheckState, RoseInstrSparseIterBegin, RoseInstrSparseIterNext,
     RoseInstrSparseIterAny, RoseInstrEnginesEod, RoseInstrSuffixesEod,
     RoseInstrMatcherEod, RoseInstrEnd >>

Opcodes == {Catalogue[i].op : i \in DOMAIN Catalogue}

\* The descriptor of each opcode.
Class == [op \in Opcodes |-> Catalogue[CHOOSE i \in DOMAIN Catalogue :
                                          Catalogue[i].op = op]]

\* RoseInstruction::code(): the 8-bit opcode, the seed of hash().
Code == [op \in Opcodes |-> (CHOOSE i \in DOMAIN Catalogue :
                                 Catalogue[i].op = op) - 1]

code(op) == Code[op]

END_OP   == "END"
BEGIN_OP == "SPARSE_ITER_BEGIN"
NEXT_OP  == "SPARSE_ITER_NEXT"

\* The scalar members the constructor sets, and every scalar member.
CtorScalars(op) == ToSet(Class[op].hashed) \cup
                   (Class[op].compared \ Class[op].mutable)
Scalars(op)     == ToSet(Class[op].hashed) \cup Class[op].compared

(***************************************************************************)
(* The instructions an instruction refers to: its pointer members and its  *)
(* jump-table entries.                                                     *)
(***************************************************************************)
JumpTargets(r) == {r.jumps[k][2] : k \in DOMAIN r.jumps}

TargetsOf(r) == ({r.f[t] : t \in Class[r.op].targets} \ {None})
                  \cup JumpTargets(r)

(***************************************************************************)
(* update_target(old_target, new_target): every rewritten pointer member   *)
(* equal to old_target, and with jump_rw every jump-table entry, becomes   *)
(* new_target.  RoseInstrBaseNoTargets/Trivial leave the record alone.     *)
(***************************************************************************)
update_target(r, old, new) ==
  LET d == Class[r.op] IN
  [r EXCEPT
     !.f     = [m \in DOMAIN @ |->
                  IF m \in d.rewritten /\ @[m] = old THEN new ELSE @[m]],
     !.jumps = IF d.jump_rw
                 THEN [k \in DOMAIN @ |->
                         IF @[k][2] = old THEN <<@[k][1], new>> ELSE @[k]]
                 ELSE @]

(***************************************************************************)
(* hash(): v = opcode, then boost::hash_combine(v, m) for every hashed     *)
(* member in order, then (jump_hash) for every jump key.  The combining    *)
(* step is the one the specification gives,                                *)
(*   seed ^= v + 0x9e3779b9 + (seed << 6) + (seed >> 2),                   *)
(* computed modulo 2^HashBits; hash_value of an integer is the integer.    *)
(***************************************************************************)
HashMod == 2^HashBits

\* 0x9e3779b9 reduced to the model's width (its low 20 bits are 0x779b9).
GoldenRatio == 489913 % HashMod

hash_combine(seed, v) ==
  seed ^^ ((v + GoldenRatio + seed * 64 + seed \div 4) % HashMod)

\* Mutant: the member loop starts one member late, so a class's first
\* hashed member is left out
HashedValues_skip_first(r) ==
  LET d == Class[r.op] IN
  [i \in 1..(Len(d.hashed) - 1) |-> r.f[d.hashed[i + 1]]]
    \o (IF d.jump_hash THEN [k \in DOMAIN r.jumps |-> r.jumps[k][1]] ELSE <<>>)

HashedValues(r) ==
  LET d == Class[r.op] IN
  [i \in DOMAIN d.hashed |-> r.f[d.hashed[i]]]
    \o (IF d.jump_hash THEN [k \in DOMAIN r.jumps |-> r.jumps[k][1]] ELSE <<>>)

\* boost::hash_combine applied to seed and each value of vs in turn.
RECURSIVE CombineAll(_, _)
CombineAll(seed, vs) ==
  IF vs = <<>> THEN seed ELSE CombineAll(hash_combine(seed, Head(vs)), Tail(vs))

hash(r) == CombineAll(code(r.op), HashedValues(r))

(***************************************************************************)
(* equiv(other, offsets, other_offsets): equiv_impl's dynamic_cast needs  *)
(* the same class; equiv_to then compares the compared members by value,   *)
(* the pointer members by the offsets they resolve to under the two        *)
(* offset maps, and (jump_cmp) the jump tables entry by entry.             *)
(***************************************************************************)
equiv(r1, r2, off1, off2) ==
  /\ r1.op = r2.op
  /\ LET d == Class[r1.op] IN
     /\ \A m \in d.compared : r1.f[m] = r2.f[m]
     /\ \A t \in d.targets : off1[r1.f[t]] = off2[r2.f[t]]
     /\ d.jump_cmp =>
          /\ Len(r1.jumps) = Len(r2.jumps)
          /\ \A k \in DOMAIN r1.jumps :
               /\ r1.jumps[k][1] = r2.jumps[k][1]
               /\ off1[r1.jumps[k][2]] = off2[r2.jumps[k][2]]
=============================================================================
