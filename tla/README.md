# A TLA+ model of the Duration message and the Rust generator

This directory models two parts of the repository's source:

- `src/src/google/protobuf/duration.pb.cc` is the generated C++ class of the message `google.protobuf.Duration`. Its fields are `int64 seconds = 1` and `int32 nanos = 2`.
- `src/src/google/protobuf/compiler/rust/generator.cc` is the protoc plugin that writes Rust code.

The two parts do not call each other. They share the wire format: the generator writes the code that reads and writes messages like Duration.

For each part the directory holds TLA+ modules, TLC configurations that check them on small instances, and TLAPS proofs for all instances.

## The system and its parts

| Part | Source | Module(s) | Status |
|---|---|---|---|
| Duration fields, has bits, unknown fields: `Clear`, `MergeImpl`, `CopyFrom`, `InternalSwap`, the parse table `_table_`, `_InternalSerialize`, `ByteSizeLong` | `duration.pb.cc` 30-34, 123-156, 210-387 | `Duration`, `DurationValue`, `MCDuration`, `DurationProofs`, `DurationRefinementProofs` | partly |
| Wire-format helpers: varint sizes, int conversions, record sizes, the parse loop, setters | not under `src/` (WireFormatLite, TcParser, `duration.pb.h`) | `WireFormat`, parts of `Duration` | spec_modelled |
| Descriptor table, reflection offsets, registration | `duration.pb.cc` 57-110, 389-403 | none | not modelled: constant tables |
| `_cached_size_`: stored by `ByteSizeLong`, copied by the copy constructor, reset on construction | `duration.pb.cc` 29-33, 143-146, 340-341 | `DurationCachedSize`, `MCDurationCachedSize`, `DurationCachedSizeProofs` | modelled |
| Construction, destruction, class data | `duration.pb.cc` 123-208 | `Duration` (Init), `DurationCachedSize` (rebuild, copy constructor) | partly |
| Rust generator: `Generate`, `EmitPublicImports`, `EmitEntryPointRsFile` | `generator.cc` 47-266 | `RustGenerator`, `MCRustGenerator` | modelled |

### Duration (`Duration.tla`)

**State.** `msg[m]` is one message instance from the set `Msg`. It is a record:

- `seconds` and `nanos` are the values.
- `hasbits` is a subset of `{0, 1}`, standing for `_has_bits_[0]`.
- `unknown` is a sequence of wire records, standing for the unknown-field set.

`parser` holds the parse call in progress: its target and the records not yet read.

**Actions.** Each public operation that changes a message is one action:

- `SetSeconds`, `SetNanos`, `ClearSeconds` and `ClearNanos` are the setters.
- `Clear` applies `ClearFields`. The memset runs only when `has_bits & 0x3`; the bits and the unknown fields are then cleared.
- `MergeFrom` applies `MergeImpl`. A value is copied only when its bit is set and the value is non-zero. The bits are OR'd. Unknown fields are appended.
- `CopyFrom` returns early on self-copy, and otherwise does `Clear` then `MergeImpl`.
- `InternalSwap` exchanges the two instances' contents.
- `ParseFromString` and `MergeFromString` start a parse: the first clears its target, the second keeps it.
- `ParseStep` applies one entry of the parse table. Field 1 or field 2 as a varint stores the value and sets the bit. Anything else goes to `GenericFallback` and is kept as an unknown field.
- `ParseDone` ends a parse at the end of the input. `ParseFail` ends it early and leaves what was read so far.

No other call runs while a parse is in progress, because a message is used by one thread at a time.

**Pure functions.** `_InternalSerialize` and `ByteSizeLong` are functions of the state: `InternalSerialize` and `ByteSizeLong`.

**Release builds.** The self-merge `ABSL_DCHECK_NE` is compiled out, so `MergeFrom(m, m)` is allowed.

### Cached size (`DurationCachedSize.tla`)

This module extends `Duration` with one variable: `cachedSize[m]` is `_impl_._cached_size_`. It starts at 0 (`Impl_`'s constructors).

**Actions.**

- `ClassStep` is any step of `Duration`'s `Next`, with `_cached_size_` left alone. `InternalSwap` is one of them: it swaps fields, has bits and unknown fields, but not the cached sizes.
- `ByteSize` is a call of `ByteSizeLong`, which ends by storing its total (`StoreCachedSize`, lines 340-341).
- `Recreate` destroys a heap instance (`~Duration`, `SharedDtor`) and builds a new one in its place (`SharedCtor`).
- `CopyConstruct` rebuilds an instance with the copy constructor. It copies `Impl_` whole, `_cached_size_` included, and merges the source's unknown fields.

**The cached size itself is not checked.** An enclosing message reads `_cached_size_` in the writing pass of the same serialization call whose sizing pass stored it. Nothing can run on the instance in between. So the stale sizes that `InternalSwap` and the copy constructor leave are always overwritten before a serializer reads them. A property about the length prefix would only restate the store at lines 340-341. What this module checks is that the life cycle (rebuild, copy construction, sizing) keeps the observed values as `DurationValue` says.

### The abstract specification (`DurationValue.tla`)

`DurationValue.tla` states what the class promises, at the level a user can observe: seconds, nanos and unknown fields, without has bits.

- Merge: a non-zero field of the source replaces the destination's field.
- Parse: the last varint occurrence of each field wins, and every other record is kept in order.
- A failed parse leaves a value from which the unread tail of an input would have led to the complete result.

`Duration` implements this specification. The refinement mapping gives each instance's observed value. While a parse runs, its target is mapped to the value the remaining records will produce.

### Wire format (`WireFormat.tla`)

The wire format is scaled down for TLC:

- `VarintBits` is the number of payload bits per varint byte (7 in the real format).
- `Width32` and `Width64` are the widths of int32 and int64 (32 and 64).

A field occurrence is a record `[num, wt, val]`. Its encoded length is computed, not written byte by byte. The conversions are modelled by what they do:

- an int64 becomes its two's-complement `uint64`;
- a negative int32 is sign-extended, so it takes the longest varint;
- the int32 parse keeps the low `Width32` bits.

### Rust generator (`RustGenerator.tla`)

protoc calls `Generate` once per file of the crate, in the order of `ListParsedFiles`. One call of `Generate` is one step, and it does one of three things:

- it fails before opening anything, because the options do not parse or the crate-name map cannot be read;
- or it appends to `written` the files it opens, in the order it opens them: the `.rs` file, then the entry point (only for the crate's front file), then the thunks file (C++ kernel only).

**What a file contains.** Each file is a sequence of items.

- An `.rs` file holds the version assertion, then the `pub use` re-exports that `EmitPublicImports` produces, then one item per message and per enum.
- `EmitPublicImports` is `PublicImportsRun`. It is the code's worklist: pop the last file, re-export it if it is outside the crate, and push its public dependencies, without a visited set.

**Import graphs.** The import graph is a variable chosen in `Init` from `PublicDepGraphs`. The MC module supplies all 64 acyclic graphs over four files.

## Runs

| Run | Config | Expect | Properties | What it shows |
|---|---|---|---|---|
| `duration_core` | `MCDuration.cfg` | pass | TypeOK, HasBitCoversValue, RoundTrip, SizeMatchesSerialization, MergeAssociative, RefinesDurationValue | Two instances under every interleaving of all operations, failing parses included (24,540 distinct states, about 20 s). |
| `duration_unknown_order` | `MCDurationUnknown.cfg` | pass | RefinesDurationValue | With three distinct kinds of unknown field, merges, copies, swaps and parses keep unknown fields in the specified order (1,007 states). |
| `duration_lifecycle` | `MCDurationLifecycle.cfg` | pass | RefinesDurationValue | With instances also destroyed and rebuilt, copy-constructed from one another and sized, the observed values still evolve as `DurationValue` says, with an unknown record and a truncated nanos as parse inputs (45,600 distinct states, about 35 s). |
| `rust_generator` | `MCRustGenerator.cfg` | pass | ReexportsPublicClosure, OutputsWrittenOnce, CrateOutputsComplete | Over every acyclic public-import graph of four files, both option outcomes and every failure point (448 states). |
| `rust_duplicate_reexport` | `MCRustGeneratorDup.cfg` | violation | NoDuplicateReexport | Finds a graph (a→b, b→c,d, c→d) on which one `.rs` file gets `pub use D1` twice. |

### The properties

**HasBitCoversValue.** A non-zero value always has its has bit set. `Clear`, serialization, size and merge all skip a field whose bit is clear. So a value hidden behind a clear bit would survive `Clear()` and vanish from the wire.

**RoundTrip.** Parsing what `_InternalSerialize` writes gives back the observed values. This covers sign extension and the int32 truncation.

**SizeMatchesSerialization.** `ByteSizeLong` equals the length of the serialization. A parent message writes its length prefix from this size.

**MergeAssociative.** This is spec §8's merge associativity for the whole message (values, has bits and unknown fields). Merging `b` and then `c` into `a` gives the same message as merging `(c into b)` into `a`, for any three instances. It holds only because the has bits cover the values. If `b` held a non-zero value behind a clear bit, the two orders would differ: one skips the value and the other copies it.

**RefinesDurationValue.** The class implements the value-level specification. In `duration_core` every unknown record is the same, so this run cannot see their order. `duration_unknown_order` uses three distinct records, and checks that merges, copies, swaps and parses keep them in the order `DurationValue` prescribes.

**The generator's properties:**

- **ReexportsPublicClosure.** Each `.rs` file re-exports exactly the types of the files reachable by public imports that lie outside the crate. It is checked against `ReflexiveTransitiveClosure` from the community module Relation. It compares sets, so it cannot see a type re-exported twice; `NoDuplicateReexport` (the violation run) does.
- **OutputsWrittenOnce.** No output file is opened twice.
- **CrateOutputsComplete.** Once the crate is done, the entry point declares every file once.

### Mutants

Each property of a passing run is broken by a plausible bug in the code it is about. The mutant operators sit in the modules next to the definitions they replace.

| Property | Definition | Mutated to |
|---|---|---|
| TypeOK | `Int32FromWire` | forgets the sign |
| HasBitCoversValue | `MergeImpl` | drops the OR of the bits |
| RoundTrip | `InternalSerialize` | tests the wrong bit for nanos |
| SizeMatchesSerialization | `KnownFieldsSize` | counts nanos whenever its bit is set, even when it is 0 |
| RefinesDurationValue | `ClearFields` | guards the memset with the seconds bit only |
| RefinesDurationValue (unknown-order run) | `MergeImpl` | puts from's unknown fields first |
| ReexportsPublicClosure | `PublicImportsRun` | stops at crate files |
| OutputsWrittenOnce | `Outputs` | writes the entry point on every call |
| CrateOutputsComplete | `EntryItems` | starts at the second file |
| MergeAssociative | `MergeImpl` | drops the OR of the bits |
| RefinesDurationValue (lifecycle run) | `CopyConstruct` | does not merge from's unknown fields into the new instance |

## Bounds and why they are enough

**Duration (`duration_core`).** The wire format runs at widths 5/6/12, so the varint sizes run from 1 to 3 bytes.

- Seconds 40 needs two varint bytes, and -1 the longest varint.
- Nanos -3 is negative, so it is sign-extended; 5 is small.
- The parse inputs include:
  - 4095, which truncates to -1 as an int32 and is -1 as an int64;
  - a zero nanos record, which sets the bit but writes nothing;
  - a known field number with the wrong wire type, which becomes an unknown field;
  - two occurrences of one field, where the last wins.
- There are two instances, which lets the run reach merges, copies and swaps between instances and with an instance itself. Symmetry over the instances is sound because nothing in the model names an instance.
- `MaxUnknown = 2` bounds each unknown-field store. Every action that would exceed it is disabled.

**Duration (`duration_unknown_order`).** This run uses three distinct unknown-field kinds and no known values, so any reordering is visible.

**Duration (`duration_lifecycle`).** The cached sizes multiply the states of the two instances, and the refinement check multiplies the cost of each state. So this run uses one seconds value (-1, the longest varint), one nanos value (5), and two parse inputs: an unknown record, which a copy constructor that dropped the metadata would lose, and a nanos that is truncated. It also sets `MaxUnknown = 1`.

**Rust generator.** Four crate and dependency files are enough to form a diamond, a chain of length three and a crate-internal file in the middle of a chain. `MaxVisits = 8` is large enough for every graph: this is the assumption `WorklistBound`, which TLC checks.

## Fairness

Neither model assumes fairness, and no property is a liveness property.

- protoc calls `Generate` for each file in turn until one call returns false. What the generator promises is about the files written, so its properties are safety properties. That every call returns is not modelled: the worklist of `EmitPublicImports` ends because protoc rejects import cycles, which the model assumes (`WorklistBound`, checked by TLC on the instance).
- The generator really stops, so `rust_generator` does not check for deadlock. Its end states are a failed call and the last file done.
- Nothing in the Duration class must eventually happen. Its properties are safety properties and refinement.

## What is proved (`DurationProofs.tla`, TLAPS)

- **`TypeCorrect`** proves `Spec => []TypeOK`.
- **`HasBitsCoverValues`** proves `Spec => []HasBitCoversValue`.
- **`MergeAssociativity`** proves `Spec => []MergeAssociative`.

**Assumptions.** All three hold for every value of the constants that satisfies the module's assumptions:

- `WidthAssumption`;
- `DurationAssumption`: the instance set is non-empty and the value and input sets are typed;
- `PowerAssumption`: `2^(Width32-1)` and `2^(Width64-1)` are positive integers. The provers do not interpret `^`, so the ranges are stated through `Half32` and `Half64`.

**The argument for TypeCorrect.**

- There is one lemma per helper: `ClearFieldsType`, `MergeImplType`, `SwapFieldsType` and `ParseFieldType`.
- `ParseFieldType` rests on `Int32FromWireType` and `Int64FromWireType`. These are the arithmetic facts that every 64-bit varint value converts into range, however large.
- The helper lemmas are built on lemmas that update a single field (`ExceptSeconds` and the others), because the SMT backend does not handle multi-field record `EXCEPT` directly.
- `TypeOKStep` then has one case per disjunct of `Next`.

**The argument for HasBitsCoverValues.** `HasBitCoversValue` is inductive relative to `TypeOK`. The inductive invariant is `TypeOK /\ HasBitCoversValue`, and `TypeOK` is needed for one case: `Clear()` skips the memset when no bit is set. The values are then already 0 only because the has bits are a subset of `{0, 1}` (so "no bit in the mask" means "no bit"), together with the invariant itself. That is lemma `ClearFieldsCovers`. `MergeImplCovers`, `SwapFieldsCovers` and `ParseFieldCovers` give the other cases, and `CoversStep` combines them per action.

**The argument for MergeAssociativity.** `MergeAssociative` follows in every state from `TypeOK /\ HasBitCoversValue`, so no new inductive invariant is needed. The work is in lemma `MergeImplAssociative`: `MergeImpl` is associative on messages whose middle operand has covering bits.
- Both orders take a value from the last operand that emits it. When `c` does not emit, the right-hand order tests `b`'s value under `b`'s and `c`'s bits. Covering bits make that the same as testing `b` alone.
- The bits are a union.
- The unknown fields are a concatenation (`ConcatAssociative`).

## The refinement of `DurationValue` (`DurationRefinementProofs.tla`, TLAPS)

**`NoParseRefinesDurationValue`** proves `SpecNoParse => RefinesDurationValue`.

- `SpecNoParse` is `Duration`'s `Spec` with the parse operations left out: `NextNoParse` keeps the setters, `clear_seconds`, `clear_nanos`, `Clear`, `MergeFrom`, `CopyFrom` and `InternalSwap`.
- The refinement mapping is the one `RefinesDurationValue` uses.
- It holds for every value of the constants allowed by the assumptions above.

**The inductive invariant `RInv`** is `TypeOK /\ HasBitCoversValue /\ ~parser.busy`. With no parse running, an instance observes as its own getters (`ObservedIdle`).

**The argument.** There is one lemma per operation, each showing the step is the abstract action:

- `SetSecondsMaps`, `SetNanosMaps`, `ClearSecondsMaps` and `ClearNanosMaps` map to `Set`. The has bits are not observed.
- `ClearMaps` maps `Clear()` to `ClearValue`. It needs `HasBitCoversValue`: the memset is skipped when no bit is set, and the values are then 0 only because the bits cover them.
- `MergeFromMaps` maps `MergeFrom` to `Merge`, self-merge included, through `MergeImplObserved`. `EmitsIsNonZero` shows that, under covering bits, MergeImpl's test "bit set and value non-zero" is the abstract test "value non-zero".
- `CopyFromMaps` maps `CopyFrom` to `Copy`, which merges into the empty value.
- `InternalSwapMaps` maps `InternalSwap` to `Swap`.
- `RefinementStep` combines the lemmas, `InitMaps` maps the initial state, and `RInvStep` reuses `TypeOKStep` and `CoversStep`.

**Why the parse steps are not covered.** The mapping observes a parse in progress through `ParseInto(msg[t], rest)`, a recursive function. tlapm does not unfold a recursive function definition, not even at the empty sequence. Relating it to `ParseValue` needs induction over the input. So the parse steps of the refinement stay with TLC.

## What is proved about the cached size (`DurationCachedSizeProofs.tla`, TLAPS)

**`CachedNoParseRefinesDurationValue`** proves `SpecCachedNoParse => RefinesDurationValue`. This is the refinement for the component with its life cycle, with the parse operations left out:
- `RecreateMaps`: destroying an instance and rebuilding it is the abstract `ClearValue`.
- `CopyConstructMaps`: the copy constructor is the abstract `Copy`. `Impl_` is copied whole and from's unknown fields are merged into the new, empty metadata.
- `ByteSizeLong` changes no observed value.
- The operations of the class reuse `RefinementStep`.
- The inductive invariant is again `RInv`. `RInvCachedStep` adds the rebuild and copy cases to `RInvStep`.

## What is proved about the generator (`RustGeneratorProofs.tla`, TLAPS)

The module reaches no `RECURSIVE` operator: the worklist is a recursive function, and the proofs never expand it.

**`WrittenOnce`** proves `Spec => []OutputsWrittenOnce` for every crate, import graph and kernel allowed by `GeneratorAssumption`. That assumption says the crate's files are distinct, which is what protoc's file list guarantees.

**The inductive invariant `IInv`.** `OutputsWrittenOnce` alone is not inductive: a step's new files must also be shown absent from what earlier calls wrote. `IInv` adds two facts:

- every path written so far is in `Done(next)`, the files of the calls for `CrateFiles[1 .. next-1]`;
- `written` is a sequence of the entries a call can produce.

**The argument.**

- `OutputsFacts`: one call opens pairwise distinct paths, all in `NewPaths(f)`. The proof splits on the front file and the kernel, with `ConcatPair` and `ConcatTriple` for the tuple concatenations.
- `NewPathsFresh`: those paths are not in `Done(n)`. This holds by injectivity of `CrateFiles`, and because only the first call, when `Done(1)` is empty, opens the entry point.
- `DoneGrows`: after the step, every written path is in `Done(n + 1)`.
- `GenerateIInv` combines them over the indices of `written \o Outputs(f)` (`ConcatProperties` of the library).

**`OutputsComplete`** proves `Spec => []CrateOutputsComplete`. Its inductive invariant is `IInv /\ Progress`. `Progress` says what the calls before `next` have written: the entry point once the front file is done, and the `.rs` file of every file done. `ProgressStep` shows a step keeps every old entry at its index and appends the new ones. `EntryItemsFacts` gives the entry point's distinct declarations, again by injectivity of `CrateFiles`.

TLC also checks `IInv` and `Progress` as invariants of the `rust_generator` instance.

## Checked only by TLC

**Why recursion is out of reach.** tlapm turns a recursive function definition into `CHOOSE f : f = [x \in D |-> ...]`. Using its defining equation needs a proof that such an `f` exists. That proof takes a library theorem with an operator parameter (`RecursiveFcnOfNat`, `NatInduction`), and neither installed backend (SMT, Zenon) instantiates one. We tried both, and neither proves even `ParseInto(r, << >>) = r`. So every property below that mentions `ParseInto`, `WireSize` or `PublicImportsRun` stays with TLC.

- **RoundTrip, SizeMatchesSerialization and the parse steps of the refinement.** These go through `ParseInto` and `WireSize`, which are recursive functions over sequences. What they compute for every input needs induction over data, which is out of the provers' reach. The refinement is proved for all other operations (`NoParseRefinesDurationValue`, and `CachedNoParseRefinesDurationValue` with the life cycle).
- **ReexportsPublicClosure.** It rests on the closure of the import relation and on the worklist, a recursive function.

## Not modelled

- **The arena.** Arena-owned instances are never destroyed one by one, and allocation (`PlacementNew_`, `InternalNewImpl_`) has no state that a property distinguishes. The instance set is fixed; `DurationCachedSize` rebuilds instances in place.
- **`GetCachedSize()` read by a user without sizing first.** That is outside the API's contract.
- **The descriptor and reflection tables.** They are constant.
- **The bytes of the wire format, and the text the generator writes.** A field occurrence is a record, and generated code is abstracted to items.

## Plan for later work

1. A byte-level varint encoder and decoder, checked against `VarintSize` and the conversions over bounded inputs.
2. Lemmas about `DurationValue`'s `ParseValue` on its own. It uses `SelectSeq`, which is also a recursive function, so it shares the limit that keeps the parse steps with TLC. Any such lemma should be limited to what needs no unfolding.
