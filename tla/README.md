# TLA+ models of the Rose program builder (vectorscan)

This directory holds TLA+ models of the two implementation files in the
sources: the bytecode-program builder of the Rose engine,
`src/src/rose/rose_build_program.h`, and the ARM NEON vector primitives,
`src/src/util/arch/arm/simd_utils.h`.

## The system

The Rose compiler lowers a literal-matching graph into *programs*. A program
is a sequence of instructions that the runtime interprets.

- **Instructions (C2).** There are 46 concrete classes, from
  `RoseInstrAnchoredDelay` to `RoseInstrEnd`.
  - Each class holds scalar members and zero or more pointers to other
    instructions: `target`, a SPARSE_ITER_NEXT's `begin`, and a
    SPARSE_ITER_BEGIN's jump table.
  - Every class has `code()`, `hash()`, `equiv_to()` (reached through
    `equiv`/`equiv_impl`), `update_target()` and `write()`.
  - `hash()` must ignore pointers. `equiv_to` compares pointers by the byte
    offset they resolve to in each program.
- **RoseProgram (C3).** A `std::vector<std::unique_ptr<RoseInstruction>>`
  that always ends with one END instruction.
  - Its operations are the constructor, `insert(it, ri)`,
    `insert(it, block)`, the two `add_before_end` overloads, `add_block`,
    `replace`, `empty` and `end_instruction`.
  - Splicing a block into a program destroys the block's END. Every jump to
    that END must then be rewritten (`update_targets`).
  - A block handed over is moved from.
- **Program hash and equivalence (C6).** `RoseProgramHash` folds the
  instruction hashes together.
  - `RoseProgramEquivalence` lays both programs out and compares them position
    by position.
  - The bytecode builder keys a cache of written programs by these two, so
    equivalence must imply equal hashes.
- **Assembly (C5) and blob (C4).** `writeProgram` lays instructions out at
  8-byte-aligned offsets (the offset map), then writes each one into the
  engine blob.
  - A SPARSE_ITER_BEGIN remembers the iterator offset it wrote (mutable
    `iter_offset`, `is_written`), and the SPARSE_ITER_NEXTs that point at it
    reuse that offset.
  - The bodies of these are in `rose_build_program.cpp` and `rose_program.h`,
    which are not among the sources.
  - The bytecode builder's `writeProgram` keeps a cache of written programs
    and returns the offset of an equivalent one instead of writing again.
- **ARM SIMD utilities.** `src/src/util/arch/arm/simd_utils.h` implements the
  128-bit vector primitives (byte shifts, `palignr`, `pshufb`, `movemask`,
  bit set/test) on NEON. These are pure functions, but each stands in for an
  x86 SSE instruction of the same name (`util/arch/x86`), and the rest of
  the engine is written against those semantics.
- **Build environment.** `src/cmake/setenv-arm64-cross.sh` only exports
  toolchain variables.

## Modules

| Module | Models | State / operators |
|---|---|---|
| `RoseInstr` | every instruction class | one class descriptor per class; generic `hash`, `equiv`, `update_target` over descriptors |
| `RoseProgram` | class `RoseProgram` and the lowering that drives it | `instr` (heap), `prog`, `dead`; one action per operation |
| `RoseLayout` | offset map, `RoseProgramHash`, `RoseProgramEquivalence` | pure operators over a heap and a program |
| `RoseProgramDedup` | the composition the program cache relies on | `RoseProgram` + `RoseLayout`; `EquivImpliesSameHash` |
| `ProgramSeq` | the container's contract, over positions | `aprog`, `adead`; one action per splice |
| `RoseProgramRefinement` | the refinement mapping | `INSTANCE ProgramSeq WITH aprog <- AbsProg`; `ProgramSeqRefined` |
| `RoseAssembler` | the write pass, the engine blob and the program cache, composed with the container | adds `blob`, `sparse`, `bytecode`, `cache`, `ret`; `writeProgram`, `writeProgramCached`, `Build` |
| `Neon` | the NEON intrinsics the header calls (hardware, not repository code) | operators on 16-byte registers |
| `SimdUtils` | every function of `simd_utils.h` that is modelled | one operator per function |
| `SimdArith` | the arithmetic, compare, constructor and load/store functions, called in any order | adds `calls`; one action per group of functions |
| `SimdVector` | a caller holding one `m128` and calling the primitives in any order | `vec` (the vector), `bits` (the SSE reference) |
| `MCRoseProgram`, `MCRoseProgramDedup`, `MCRoseProgramCatalogue`, `MCRoseProgramRefinement`, `MCRoseAssembler`, `MCSimdVector`, `MCSimdArith` | TLC instantiations | model values, symmetry, bounds |

### RoseInstr

Each class is one definition named after it, for example
`RoseInstrCheckBounds`. The descriptor records:

- `hashed`: the members `hash()` mixes in, in order after the opcode.
- `compared`: the members `equiv_to` compares by value.
- `targets`: the pointer members. `equiv_to` compares each of them by offset.
- `rewritten`: the pointer members `update_target` rewrites.
- Whether the jump table takes part in hashing, comparison and rewriting.
- `mutable`: members set by `write()` rather than by the constructor.

The base templates `RoseInstrBaseTrivial`, `RoseInstrBaseOneTarget` and
`RoseInstrBaseNoTargets` are descriptor builders. `SomClass` captures the
three SOM classes: their `hash()` uses `som.type` and `som.onmatch`, while
`equiv_to` memcmp's the whole `som_operation`. Two descriptors are
exceptions:

- SPARSE_ITER_BEGIN hashes `num_keys` and the jump keys. It compares
  `iter_offset`, the target and the jump table, but **not `num_keys`**.
- SPARSE_ITER_NEXT has two rewritten pointers.

`hash` is the `boost::hash_combine` fold given in the specification,
`seed ^= v + 0x9e3779b9 + (seed<<6) + (seed>>2)`, computed modulo
`2^HashBits`. An instruction value is a record `[op, f, jumps]`.

### RoseProgram

Instruction objects live in a heap, `instr`, which maps addresses (model
values) to records. Programs hold addresses.

- `Alloc` is `make_unique`, and `Free` is the destruction of a popped END or
  a replaced instruction.
- Because a freed address can be handed out again, a dangling pointer can
  come to name an unrelated new object, as it can in the process.
- `dead` holds the program variables that were never constructed or were
  moved from.

Each operation is one action translating the whole member function: guards
from its asserts and early returns, the END pop, `update_targets`, the splice
and the move.

`NewInstrs` stands for the lowering. It builds instructions of the classes
`ModelOps`, in three parts:

- scalar members from `Vals`;
- jumps to instructions that follow the insertion point;
- a SPARSE_ITER_NEXT's `begin` among the earlier BEGINs, and a BEGIN's jump
  table empty or of one entry.

This is the discipline under which the asserts of `update_target` and
`replace` hold.

### ProgramSeq and the refinement

`ProgramSeq` says what the container promises without pointers. A program is
a sequence of instruction records, and every jump (target, `begin`,
jump-table entry) is the position of the instruction it names. Each
operation is a splice that renumbers the positions it moves:

- `Insert` puts an instruction in at `pos`; jumps at or after `pos` move up
  one.
- `SpliceBlock` is `insert(it, block)`: the block without its END goes in
  before `pos`, and the block's jumps shift by `pos - 1`, so a jump to its
  END now names the instruction that was at `pos`.
- `AppendBlock` is `add_block`: the block replaces our END, so our jumps to
  the END now name the block's first instruction.
- `Replace` keeps every position.

The instruction a caller supplies is read from the next state, restricted to
jumps inside the program. `RoseProgramRefinement` maps each program to
positions (`AbsInstr` reads every pointer member as `PosIn`; a pointer
outside the program maps to 0, which no splice produces). `ProgramSeqRefined
== PS!ASpec` is checked as a `PROPERTY`, following the `INSTANCE ... WITH`
refinement idiom.

The mapping is exact about where a rewritten jump lands. For instance, a
variant of `insert(it, block)` that rewrites the block's END jumps to our
END keeps `TargetClosure` and `TargetsOrdered`, yet fails the refinement.
Rewiring `add_block`'s jumps to the block's END, by contrast, is the splice
`insert(end, block)` and is rightly accepted.

### RoseAssembler

`RoseAssembler` extends `RoseProgramDedup`. It adds the assembler's write
pass and the bytecode builder's program cache, composed with the lowering
that keeps building programs. The bodies of `write()` and of the two
`writeProgram` functions are in `.cpp` files outside the sources, so they
follow the specification (sections 4.3, 4.5 and 9). What the header fixes is
taken from it:

- SPARSE_ITER_BEGIN's mutable `is_written`, `iter_offset` and
  `jump_table_offset` (lines 1482-1489), which `write()`, a `const` method,
  sets;
- `equiv_to` comparing `iter_offset` (line 1463);
- the cache key, `RoseProgramHash` and `RoseProgramEquivalence`.

The heap record holds `iter_offset`, where `equiv` reads it. The variable
`sparse` holds the other two members for each BEGIN that has been written.

| Variable or action | Code |
|---|---|
| `blob` | `RoseEngineBlob`: payloads `[kind, owner, data]`, each at offset index - 1; given empty or holding a header (`BlobInit`) |
| `bytecode[p]` | the records written for a cached program: opcode, targets and jumps as offsets, iterator and jump-table offsets (the scalar members are read from the cached program's instructions, which stay unchanged) |
| `cache` | the programs moved into `program_cache` |
| `ret[p]` | the cached program whose offset the last `writeProgram` of `p` returned |
| `EmitOne`, `EmitFrom` | `write()` of each instruction in program order, after pass 1's `offset_map` |
| `writeProgram(p)` | cache miss: emit, add the bytecode to the blob after the side data (`engine_blob.add`), then move the program into the cache |
| `writeProgramCached(p)` | cache hit (same hash and equivalent): return the cached one; the moved-from program is destroyed |
| `Build` | any `RoseProgram` operation on programs not moved into the cache; the lowering never touches a program it has moved into the cache, which `Build` takes as its guard |

### SimdUtils, SimdVector and SimdArith

A register is a function from byte positions 0..15 to bytes. Lanes are
little-endian, so NEON's reinterpreting casts are the identity.

- `Neon` gives each intrinsic by what it does: `vextq`, `vqtbl1q`,
  `vceqq` per lane width, `vshrn_n_u16`, the pairwise long adds, and the
  lane shifts bit by bit.
- `SimdUtils` writes each header function over these, its `switch`
  defaults and early returns included.
- A u32/u64 result is kept as its bytes, because TLC's integers stop at
  2^31.
- The `__builtin_constant_p` branches call the same intrinsic as the switch
  case, so one operator stands for both.

`SimdVector` is a caller that keeps one vector in memory and applies the
following in any order:

- `setbit128`, `clearbit128`, and `xor128` of a `mask1bit128`;
- `lshiftbyte_m128`/`rshiftbyte_m128` and `variable_byte_shift_m128`;
- the four lane shifts;
- `palignr(vec, vec, off)` and `pshufb_m128`;
- `low64from128`/`high64from128`;
- `storebytes128` of n bytes followed by `loadbytes128` of n bytes.

Each action also moves `bits` by the SSE definition of the same operation,
written on bit positions (PSLLDQ, PSLLD/PSLLQ, PALIGNR, PSHUFB), independently
of the NEON code.

`SimdArith` extends `SimdVector` with the rest of the header, which
`SimdVector` never calls:

- `add_2x64`, `add128` and `sub_2x64`;
- `max`/`min`/`sadd`/`sub_u8_m128`;
- `eq64_m128`, `ones128` and `not128`;
- the constructors `set1_16x8`, `set1_4x32`, `set1_2x64`, `set4x32`,
  `set2x64` and `load_m128_from_u64a`;
- `store128`/`load128` and `storeu128`/`loadu128`, through a 32-byte buffer
  at aligned pointers (0, 16) and unaligned ones (1, 8, 15, 16). Byte i of
  the register is the byte at ptr + i. The aligned pair's
  `assert(ISALIGNED_N(ptr, 16))` is a TLC `Assert`.

`Neon` computes lane adds and subtracts byte by byte, carrying or borrowing
into the next byte of the same lane (`CarryIn`, `BorrowIn`), so no 64-bit
integer is ever formed.

The reference is independent of that byte chain:

- PADDQ is a carry-lookahead adder on bit positions.
- PSUBQ adds the two's complement with a carry-in of 1.
- The byte operations work on byte values.
- The constructors give sets of lane bits.

A variable `calls` bounds the number of calls (`MaxCalls`). The run stops
at that bound, which is why it does not check deadlock.

## Runs

| Run | Config | Expect | Shows |
|---|---|---|---|
| `program_container` | `MCRoseProgram.cfg` | pass | Any interleaving of the operations keeps the program invariants: `EndTerminated`, `TargetClosure`, `ExclusiveOwnership`, `TargetsOrdered` and `TypeOK`. |
| `catalogue_hash` | `MCRoseProgramCatalogue.cfg` | pass | For the 43 classes other than END and the sparse-iterator pair (programs end in END), equivalent programs hash equally. |
| `equiv_hash` | `MCRoseProgramDedup.cfg` | violation | Two SPARSE_ITER_BEGINs differing only in `num_keys` are equivalent but hash differently. |
| `container_refinement` | `MCRoseProgramRefinement.cfg` | pass | `ProgramSeqRefined`: every container step is a position-level splice, with block END jumps landing where the splice says. |
| `assembler` | `MCRoseAssembler.cfg` | pass | `SparseIterSharing`: each written BEGIN added exactly one iterator and one jump table, and its NEXTs carry the same two offsets. `CacheHitSound` (action property on the cache-hit step): the cached program returned in place of p has the records, the scalar members, the iterator and the jump table that p's own write() calls would have produced at that moment, blob offsets aside. The cache key must separate everything write() serialises; SPARSE_ITER_BEGIN's `num_keys` is separated by the hash alone. |
| `assembler_equiv_emission` | `MCRoseAssemblerEquiv.cfg` | violation | `EquivalenceIgnoresEmission`: writing a program changes which programs are equivalent. |
| `assembler_roundtrip` | `MCRoseAssemblerRoundTrip.cfg` | violation | `EquivalentProgramsEmitAlike` (spec section 8 property 5): two programs equivalent before emission, both written, emit different iterators. |
| `simd_arith` | `MCSimdArith.cfg` | pass | `VecIsRef` after any four arithmetic, compare, complement, constructor or load/store calls: carries stay inside their u64 lane, borrows wrap, and the byte operations are unsigned and saturating as on x86. |
| `simd_vector` | `MCSimdVector.cfg` | pass | `VecIsRef`, `TestbitAgrees`, `MovemaskOfZeroBytes`, `LaneViewsAgree`: the NEON vector always equals the SSE reference, and testbit, movemask of a compare, diffrich and the lane extracts read it as x86 does. |

### Bounds

**program_container** uses:

- three program variables and five addresses, which allow up to five live
  instructions;
- `ModelOps` REPORT (no targets), CHECK_EXHAUSTED (one target),
  SPARSE_ITER_BEGIN (target and jump table) and SPARSE_ITER_NEXT (target and
  begin), one class per way of handling targets;
- `Vals = {1}` and one jump key.

Three programs let a block be spliced into a program that has already absorbed
another block. Five addresses allow programs such as
`BEGIN; NEXT; CHECK; END` plus a second program, and force address reuse
after frees. The check explores 33,134 distinct states in a few seconds.
Symmetry permutes the program variables and the addresses, which are model
values used only for identity.

**catalogue_hash** uses two programs, at most one instruction before END each
(`MaxProgLen`), and `Vals = {0, 1}`. That reaches every pair of same-class
instructions differing in any one member.

**equiv_hash** uses `Vals = {1, 2}`. TLC finds the violation at depth 5.

**container_refinement** uses the instance of `program_container`.

**assembler**, **assembler_equiv_emission** and **assembler_roundtrip** use:

- two program variables and four addresses;
- `ModelOps` REPORT, SPARSE_ITER_BEGIN and SPARSE_ITER_NEXT;
- `Vals = {1, 2}`, so two BEGINs or two REPORTs can differ in one scalar
  member;
- the blob given empty or holding one header payload.

Four addresses allow a program `BEGIN; NEXT; END` beside an empty second
program, or two programs `BEGIN; END` or `REPORT; END`. The two-program
shapes produce both cache hits and cache misses. The engine blob never starts empty (the bytecode header comes
first), and the empty blob is kept so that the offset 0 coincidence is
explored too. The pass run explores 23,354 distinct states, 24 of its
steps cache hits, in about 20 s. Five addresses take too long once TLC
also gathers coverage.

**simd_arith** makes up to four calls (`MaxCalls = 4`). Its operands sit
where carries and borrows cross a boundary:

- bit 7 carries into the next byte, and makes a byte of 128, the case
  where signed and unsigned byte operations differ;
- bit 31 carries out of a u32 half of a lane, where a `uint32x4_t` cast
  would lose it;
- bit 63 wraps at the top of the low lane and must not reach the high lane;
- bit 0 subtracted from zero borrows through a whole lane.

The byte values given to `set1_16x8` are 1, 128 and 255. The words are
`{}` and `{0, 31}` for 32 bits, and `{7, 32}` and `{63}` for 64 bits. Four
calls let a value be built, complemented, added to and subtracted from. The
run explores 4,321 states in about 20 s.

**simd_vector** uses the following bounds:

- `setbit128`/`clearbit128`/`xor128` act on the first and last bit of the
  register, of a byte, of each word and of each half.
- The shifts carry those bits to every other position.
- Shift counts sit on the switch boundaries: 0, 1, 15, 16 and 17 bytes; 0,
  1, 31, 32, 63 and 64 bits.
- Variable amounts are ±16, ±15, ±1 and 0.
- `palignr` offsets are 0, 1, 8, 15 and 16, and store/load lengths are 0,
  1, 8, 15 and 16.
- The four `pshufb` controls are: bits 4..6 set (which PSHUFB ignores and a
  0xff mask would not); bit 7 set on the low half (which a 0x0f mask would
  not zero); a reversal; and a rotation.
- `CONSTRAINT BitsBound` keeps at most two bits set. That is enough for two
  bits to share a byte, a word or a lane, and for a shift to move one across
  a boundary while the other stays.

The run reaches all 8,257 vectors with at most two bits set, in about 95 s.
`TestbitAgrees` tests every set bit plus the probe edges.

`CHECK_DEADLOCK FALSE`: the lowering builds a finite program and stops. With
all addresses used, no operation is enabled, and that is a legitimate final
state.

No liveness is claimed. The builder is single-threaded, and every operation
is a terminating call.

## Findings

`RoseInstrSparseIterBegin::equiv_to` (`rose_build_program.h:1461`) does not
compare `num_keys`, yet `hash()` (line 1437) mixes it in. As a result,
`RoseProgramEquivalence` can call programs equivalent that `RoseProgramHash`
separates. That breaks the contract an `unordered_map` keyed by both relies
on.

In the builder's cache flow, a program already written, whose `iter_offset`
has been set, is usually compared with an unwritten one. The differing
`iter_offset` then hides the bug.

`RoseInstrSparseIterBegin::equiv_to` compares `iter_offset`
(`rose_build_program.h:1463`), which `write()` sets to the iterator's blob
offset. This diverges from spec section 9, which says equivalence must
ignore emission state. In `assembler_equiv_emission`, TLC builds two
identical `BEGIN; END` programs over a blob holding a header. It writes the
first, and the two are then no longer equivalent. The program cache
therefore misses for the second, and its iterator and jump table go into
the blob a second time.

Spec section 8 property 5 says equivalent programs assemble to the same
bytes. Because `equiv_to` leaves out `num_keys`, which `write()` puts into
the multibit iterator, this fails. In `assembler_roundtrip`, TLC builds
`BEGIN(num_keys 1); END` and `BEGIN(num_keys 2); END`, which are equivalent
before either is written. Both are written, with different iterators. The
cache itself stays sound (`CacheHitSound` passes in `assembler`): the hash
mixes `num_keys` in, so the two never meet in one bucket. With 64-bit
hashes a collision is improbable, but only the hash stands between such a
collision and a cache hit that returns an iterator with the wrong key
count.

## What is not modelled, and the plan

Every function of `simd_utils.h` is modelled, the alignment asserts of
`load128`/`store128` included. `storebytes128`/`loadbytes128` take their
buffer as its 16 bytes, without an address.

`palignr_imm` returns zeroes for offsets 17..31, where PALIGNR does not.
The only caller in the sources that reaches those offsets is
`rshiftbyte_m128` with a count of 17 or more. Its first operand is
`zeroes128()`, so the result is right, and `simd_vector` checks it with a
shift of 17.
`movemask128` is checked only on compare results (0x00/0xFF bytes), the
inputs its callers give it.

Of the assembler, the values of the member bytes inside each record (the
subclasses' `write()` bodies and the `ROSE_STRUCT_*` layouts are outside the
sources), the alignment of payloads
inside the blob, the multibit encoder and blob capacity exhaustion are not
modelled. Records are compared field by field, and blob offsets are payload
indices.

Record alignment, zero padding and the buffer size are not checked.
`RoseLayout`'s `Offsets` and `TotalLength` follow section 6 because the
code that computes them is outside the sources, so a check of the buffer
against them would compare the specification with itself.

The following stay out of the model:

- Padding bytes of `som_operation`, which lie below the model's abstraction.
- The u32 parameter of `RoseInstrReportChain`'s constructor, whose callers
  are not in the sources.
- The cross-build shell script.
- Callers that misuse the container: an instruction inserted with a target
  outside its program or before its own position, a SPARSE_ITER_NEXT whose
  begin follows it, or a BEGIN that a NEXT refers to replaced by another
  class. `NewInstrs` and `replace`'s guard (the code's `update_target`
  assert) build only what the lowering builds, so these hazards
  (`rose_build_program.h:1688`, `:1525`, `:1485`) are listed without a
  property.
