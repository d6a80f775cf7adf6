----------------------------- MODULE RoseLayout -----------------------------
(***************************************************************************)
(* Whole-program hash and equivalence (C6).                                 *)
(*                                                                         *)
(* RoseProgramHash is in src/rose/rose_build_program.h.  The offset map    *)
(* (pass 1 of writeProgram), the record lengths and                        *)
(* RoseProgramEquivalence::operator() are defined in rose_build_program.cpp *)
(* and rose_program.h, which are not part of the sources here; they follow *)
(* the specification (sections 4.3 and 4.5, wire format in section 6).     *)
(*                                                                         *)
(* h is a heap (address -> record), s a program (sequence of addresses).   *)
(***************************************************************************)
EXTENDS RoseInstr, Integers, Sequences, FiniteSets

\* ROSE_INSTR_MIN_ALIGN
MinAlign == 8

\* ROUNDUP_N
RoundUp(n, a) == ((n + a - 1) \div a) * a

\* byte_length() == sizeof(impl_type): the u8 code, padded to 4 when a
\* member follows, then one u32 per member (a pointer member is written as
\* a u32 offset).  CHECK_MASK_32 has the layout section 6 gives: the code,
\* two inline 32-byte masks, padding to 68, then neg_mask, offset and the
\* target, 80 bytes.
ByteLength ==
  [op \in Opcodes |->
     LET n == Cardinality(Scalars(op) \cup Class[op].targets)
     IN CASE op = "CHECK_MASK_32" -> RoundUp(1 + 32 + 32, 4) + 3 * 4
          [] n = 0                -> 1
          [] OTHER                -> 4 + 4 * n]

byte_length(op) == ByteLength[op]

(***************************************************************************)
(* Pass 1: each record starts at the running total rounded up to           *)
(* MinAlign.  Offsets(h, s)[i] is the offset of s[i]; TotalLength the size *)
(* of the buffer pass 2 allocates.                                        *)
(***************************************************************************)
RECURSIVE Offsets(_, _)
Offsets(h, s) ==
  IF s = <<>> THEN <<>>
  ELSE LET front == Offsets(h, SubSeq(s, 1, Len(s) - 1))
           prev  == IF Len(front) = 0 THEN 0
                    ELSE front[Len(front)] + byte_length(h[s[Len(s) - 1]].op)
       IN Append(front, RoundUp(prev, MinAlign))

\* The buffer ends at the end of the last record padded to MinAlign
\* (section 6: records, END included, are padded to INSTR_MIN_ALIGN; S1: an
\* empty program assembles to one END record of INSTR_MIN_ALIGN bytes).
TotalLength(h, s) ==
  IF s = <<>> THEN 0
  ELSE RoundUp(Offsets(h, s)[Len(s)] + byte_length(h[s[Len(s)]].op), MinAlign)

\* The OffsetMap: instruction address -> offset.
offset_map(h, s) == [a \in {s[i] : i \in DOMAIN s} |->
                       Offsets(h, s)[CHOOSE i \in DOMAIN s : s[i] = a]]

(***************************************************************************)
(* RoseProgramHash::operator(): hash_combine of every instruction's hash,  *)
(* END included, in program order, from 0.                                 *)
(***************************************************************************)
RECURSIVE HashFold(_, _, _)
HashFold(h, seed, s) ==
  IF s = <<>> THEN seed
  ELSE HashFold(h, hash_combine(seed, hash(h[Head(s)])), Tail(s))

RoseProgramHash(h, s) == HashFold(h, 0, s)

(***************************************************************************)
(* RoseProgramEquivalence::operator(): same size, then every position's    *)
(* instructions equivalent under the two offset maps.  A target outside    *)
(* the program has no offset (offsets.at throws), so both programs must be *)
(* closed; the container's TargetClosure invariant guarantees it.          *)
(***************************************************************************)
RoseProgramEquivalence(h1, s1, h2, s2) ==
  /\ Len(s1) = Len(s2)
  /\ LET off1 == offset_map(h1, s1)
         off2 == offset_map(h2, s2)
     IN \A i \in DOMAIN s1 : equiv(h1[s1[i]], h2[s2[i]], off1, off2)
=============================================================================
