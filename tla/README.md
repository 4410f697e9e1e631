# async-chunker in TLA+

A verification development kept beside the `async-chunker` crate (`src/src`). The crate splits byte
streams into content-defined chunks: one *profile* per format knows the format's structure, cuts at
structural boundaries and places content-defined cuts inside large regions. It also *decomposes*
archives into their members, recursively, and has an asynchronous front end.

The modules here are TLA+ translations of the code's control, the `.cfg` files are bounded instances
that TLC checks, and the `*Proofs` modules hold theorems that TLAPS checks for every value of the
constants.

## 1. Inventory

| Component (source) | State | Operations | Interaction | What makes it correct |
|---|---|---|---|---|
| `BoundaryAssembler` (`chunker/assembler.rs`) | chunk under construction, held chunk, gear hash, gate | `boundary`, `large_unit_starts`, `push`, `finish`, `clear`, `set_gate` | called by the container drivers, calls the emit callback | chunks partition the bytes; at most two chunks stored; the hash covers the chunk under construction only; small units coalesce, large ones begin a chunk |
| Container drivers (`chunker/{zip,isobmff,matroska,pdf}/chunker.rs`) | walker, assembler, rejected | `push`, `finish` | walker first, then assembler, per byte | the promise of `Chunker`; rejection is final; a finished chunker is new |
| `Chunker`, `ProfileChunker` (`chunker/profile_chunker.rs`) | the profile's chunker | `push`, `finish` | forwards | as above |
| Walkers (`chunker/zip/walker`, `isobmff/walker.rs`, `matroska/walker.rs`, `pdf/walker.rs`) | position in the format's grammar, open containers | `consume`, `finish`, boundary query | report boundaries and large units to the driver | containers nest, no byte is charged twice, truncation is refused |
| OOXML canonicalizer (`chunker/office/canonical`) | queue of canonical steps, member, decoder, entries | ZIP events, `close` | between the ZIP walker and the assembler | canonical bytes are those announced; sizes and CRCs agree |
| Seam chunkers (`generic.rs`, `structured_text`, `mpegts`, `framed_audio`) | buffer, hash, parser state | `push`, `finish` | emit directly | partition, envelope, cuts at seams only |
| `AsyncChunker` (`stream/chunker.rs`), `Detector::probe` (`stream/probe.rs`), `PrefixReplay` (`replay.rs`) | prefix, replay position, read window, pending chunk | the generator's loop | reads an `AsyncRead`, drives a chunker, yields to a consumer | every byte is delivered once, read-ahead is bounded, every stream ends |
| Detection (`probe/`) | none | `detect`, `resolve`, `reconcile` | selects the profile | a declaration is only refused on a contradiction |
| `Decomposer` (`decompose/decomposer.rs`) | phase, stack of levels, total count | `push`, `finish` | readers produce events, events go to the sink or to a nested level | the sink hears one well-formed walk; depth and counts are bounded; calls return |
| TAR, gzip, ZIP readers (`decompose/{tar,gzip,zip}.rs`), inflater (`inflate.rs`) | framing state | `push`, `finish` | feed the decomposer | every member's bytes and length are those of the archive |
| Canonical writers (`decompose/writer`) | offsets, entries | `member`, `finish` | used by consumers of a walk | layout |
| Registry, media types, profiles | tables | lookup, parse | select a profile | pure data |

What is hard here: many small state machines that feed each other one byte at a time; buffers whose
contents move between three places while chunks are emitted; a generator suspended in the middle of a
window; recursion between levels of an archive; faults at any byte; reuse after `finish`. The hazards
are listed, each at its line, in `PROJECT.json`.

## 2. Modules

| Module | Models | Kind |
|---|---|---|
| `Assembler` | `BoundaryAssembler`: one operator per method, on a record | operators |
| `UnitWalker` | what a driver may hear from a walker about a byte | operators |
| `ContainerChunker` | a driver, its abstract walker and the assembler | state machine, composition |
| `WalkerReports` | the contract between a walker and its driver | abstract specification |
| `IsobmffWalker`, `MatroskaWalker` | the box walker and the EBML walker, byte by byte | state machines |
| `ZipWalker` | the ZIP walker: members, descriptors, directory, end records | state machine |
| `PdfScanner`, `PdfWalker` | the object scanner, and the document walker around it | operators, state machine |
| `ChunkStream` | the promise of the `Chunker` trait | abstract specification |
| `AsyncChunker` | probe, replay and generator, driving `ContainerChunker` | state machine, composition |
| `DecompositionSink` | what a sink may rely on | abstract specification |
| `Decomposer` | the recursion driver over abstract readers | state machine |
| `ReaderEvents`, `ReaderContract` | what a reader reports, and what the decomposer relies on | operators, abstract specification |
| `TarReader` | the TAR walker and the reader around it | state machine |
| `Inflater` | the staged loop around the deflate decoder | operators |
| `GzipReader` | the gzip walker, its inflater and the late decision of its kind | state machine, composition |
| `CanonicalPackage` | the OOXML canonicalizer: core, decoder, writer, observer, package check | state machine, composition |
| `MC*` | instances for TLC and the refinements | |
| `*Proofs` | lemmas and theorems | proofs |

The specifications meet at three contracts. Above, `ContainerChunker` implements `ChunkStream` and
`AsyncChunker` drives it. In the middle, `ContainerChunker` takes its reports from `UnitWalker`, and the
concrete walkers of boxes, EBML elements and ZIP members implement `WalkerReports`, which admits exactly those
reports: what holds of the assembler under every such walker holds under them. Below, the TAR and gzip readers
implement `ReaderContract`, which is what the abstract readers inside `Decomposer` report too, and the
decomposer implements `DecompositionSink`. `Inflater` is shared by `GzipReader` and `CanonicalPackage`, as
`inflate.rs` is by their code.

**Bytes** are identified by their position in the stream, so a lost, repeated or misplaced byte is
visible in a sequence. In `Decomposer`, where a compressed byte becomes several bytes of another
stream, contents are abstracted to lengths. Where the code matches bytes (`ZipWalker` in the scan for a
descriptor, `PdfWalker` in keywords) they carry a value from a small alphabet.

**The gear hash** is abstracted to the bytes it has absorbed since its last reset, which is what its
value is a function of; whether it then meets the mask in force is an input of `Push`. Nothing
checked here depends on the hash's values. **Checksums** are likewise the sequence of what was summed.

**Walkers in `ContainerChunker`.** A walker is a record `[at, header, owed, open]` and operators (`UnitWalker`)
that say what it may make of the next byte. They keep what the four walkers have in common and the
assembler depends on: boundaries occur only where a unit ends; a large unit is reported on the last
byte of its header, which is at most `HeaderMax` long; a large unit of known size reaches the unit
minimum before anything else begins; a unit of unknown size ends with the stream (`mdat` to the end),
in the header of the next unit, with its Segment (Matroska clusters) or at a boundary (OOXML members).
The five profiles of `MCContainerChunker` are the five drivers; `ProfilesAssumption` says which profiles there can be.

**Calls.** Four drivers give the assembler one byte for each byte they are given. `OoxmlChunker::push` drains whatever
the canonicalizer has ready, so a step of its profile is a canonical byte, and `CallBegins` leaves open whether it
comes in a new call or in that of the byte before; `emitted` counts the chunks of the call under way. In `ChunkStream`
`least` is the minimum size of the stream's chunks but the trailing one: `Promise` sets it to the unit minimum for the profiles
without large units, and to 1 for the others, which do not keep the trait's (section 5).

**The concrete walkers.** `IsobmffWalker`, `MatroskaWalker` and `ZipWalker` have the code's state: what is being
collected, the stack of open containers with what each has left or the place in the archive's sequence, the flags,
the offset; ghosts record where each container and payload ends in the stream, what the observer of the office
profiles has heard (`tap`), how many members it heard to their end and where the directory began (`account`), and the
fields of the end record that was accepted (`claims`). `consume` is one action per kind of state, with
`debit`, `open_box` / `open_element`, `close_exhausted` and the dispatch of a completed record inside; a fault and the
two outcomes of `finish` are actions of their own. What a header says (type, form of the size, sizes, flags) is chosen
when its last byte is in, from everything that can be said; a header's length follows from what was chosen. `Heard`
maps a walker's state to the record of `UnitWalker`.

**`PdfWalker`** reads tokens where the code reads letters: a delimiter, a name, a number, a line end is one input,
except for `endstream`, whose letters are matched one by one since the restart of that match is a hazard. `PdfScanner`
has the scanner's stack of brackets and the candidate for `/Length`; the ghosts remember the dictionary's direct
entry and the payload.

**`TarReader`** is `TarWalker` and the `TarReader` that wraps it, in one step per byte as in the code. Of the pax
records only `size` is kept, the one that changes the framing.

**`Inflater`** keeps the staged input, the window and the dictionary of `inflate.rs`. The decoder it drives is
external: what a compressed byte grows to is chosen from `Growth` when it is read, and what the dictionary has no
room for stays inside the decoder. `DrainLoop` is the code's loop, a function of the inflater's state.

**`GzipReader`** is the walker with its members, the reader and `GzipLevel`: bytes inflated before the kind of the
level is decided are kept in a probe and handed over with the decision, which falls at a threshold or at the
end of the stream.

**`CanonicalPackage`** takes the events of the ZIP walker, as `ZipWalker` produces them, and answers with canonical
steps: local header, decoded data, directory and end record, in 32-bit or ZIP64 form by the sizes. Lengths count
canonical bytes, so an offset the directory gives can be compared with where the header went. The events of a byte reach
the core and its observer before the byte can be refused, by the core or by the walker; `Reject` keeps what they left,
also the steps that are never drained, and `Written` is what was drained with them.

**`Decomposer`** unrolls the mutual recursion of `feed_level`, `dispatch`, `route_bytes`,
`decide_member`, `close_member` and `finish_levels_from`. A level keeps the bytes it was given and has
not read (`input`) and the events its reader produced and the driver has not handled (`queue`): these
are the contents of the call frames of the code. The deepest level with work is the one that runs,
which is the order of the recursion.

## 3. Runs

| Run | Question | Bounds |
|---|---|---|
| `container` | do all drivers keep the assembler's properties and the promise of the trait, its minimum size where there are no large units? | envelope 3/4/6, headers to 4 bytes, streams to 12 bytes, five profiles |
| `async` | is the pipeline exact, bounded and live? | envelope 2/2/3, streams to 9 bytes, prefix 3, window 2, two profiles |
| `decomposer` | does the driver keep the sink's protocol, its stack and its liveness? | depth 2, 3 members in total, probe 2, inflation 2, compounds to 4 bytes |
| `isobmff` | does the box walker keep its counters, refuse what is cut short, and report as its driver relies on? | depth 3, sizes to 8, headers of 2 to 4 bytes, streams to 14 bytes |
| `matroska` | the same of the EBML walker, with Segments and Clusters of unknown size | IDs and sizes of up to 2 bytes, payloads to 7, streams to 16 bytes |
| `zip` | is every byte of a member told once, does it end at the first descriptor that describes it, do the members heard, the directory and both end records of an accepted archive agree, and are the reports those relied on? | bytes of 3 values, fixed parts of 1 or 2 bytes, variable parts to 2, sizes to 3, six extra areas, streams to 18 bytes with scans to 8 |
| `pdf` | is the length trusted the direct one, does a payload end only with the whole keyword and not before its declared length, is an accepted document whole? | a keyword of 4 letters that holds its own first letter, lengths 0 to 2, brackets 2 deep, 6 words per dictionary, lines of 3 tokens |
| `tar` | do walker and reader agree, are blocks kept, are the events those relied on? | blocks of 3 bytes, sizes to 4, overrides to 3, archives to 20 bytes |
| `gzip` | does what leaves the window equal what was compressed, is each member checked against its own trailer, are the events those relied on? | stage 4, window 2, dictionary 4, growth 0, 1 or 3, threshold 3, length field modulo 4, 7 bytes inflated in all |
| `canonical` | is the directory true of the canonical stream, does the observer hear what is written, refused bytes included, are sound packages accepted and others refused? | stage 2, window 2, growth 0 or 3, 2 members of 3 source bytes, 32-bit limit 6, 16-bit limit 2, 2 packages |
| `panic` | can the pipeline panic outside a byte? | as `async`: **violated** |
| `zip_descriptor` | does a member that announces a descriptor end at it? | as `zip`: **violated** |

The bounds are small but the cases the properties are about occur within them. For the drivers, an envelope with
`min < target < max` and `2 * min <= max` makes attachments that fit and that do not, cuts below and
above the target, and forced cuts; 12 bytes are two maximum chunks, so a held chunk, an attachment and a
realignment occur together and the chunker is used for a second stream. For the pipeline, 9 bytes are
three times the prefix and more than four windows, so a window falls across every boundary. For the
decomposer, a gzip byte may inflate past the probe's threshold, depth 2 reaches the depth limit, and
three members reach the count limit with a member open. For the walkers of boxes and elements, 14 and 16 bytes hold
three nested containers with a payload and a sibling behind them, sizes on both sides of the minimum, and children
that overrun any of their ancestors. For ZIP, 18 bytes hold a member with a descriptor, its directory entry and
both end records with their locator; a scan of 8 bytes holds a false descriptor with the true one beginning
inside it; the marker stands for 0xFFFFFFFF, and extra areas hold too few values, enough and a broken field before
them. For PDF, a keyword with a repeated letter is one whose match can be restarted wrongly. For TAR, 20 bytes hold an
override with its padding, a member with its own and the end marker, and sizes below, at and above one block. For
gzip, growth 3 in a window of 2 leaves output pending behind the end mark, and 7 bytes make two members with a
length field that wraps. For packages, limits of 6 and 2 are crossed by sizes, offsets and the number of entries, and
the second package shows what the first leaves behind.

Every property has a mutant, a definition beside the original that a plausible bug would leave
there (marked *Mutant* in the modules), under which TLC finds the property violated.

Only `container` checks for deadlock, since its chunker can always be used again. The other machines really
stop: when a stream has ended or was refused, a bound is reached, or a decomposer was rejected.

**Fairness.** `AsyncChunker` assumes that the executor polls the task, that the reader answers each read in the
end (with bytes, or with its end), and that the consumer asks for the next item: weak fairness of
`Reader`, `Generator` and `Yield`. A failure of the reader is possible at any read and never required.
`Decomposer` assumes that a call in progress runs on (`Step`); it is a synchronous function. The walkers and readers
are functions called once per byte and have no liveness of their own.

## 4. What is proved

Every theorem holds for all values of the constants that satisfy the named assumption of its module: every
envelope `1 < ChunkMin <= ChunkTarget <= ChunkMax`, every unit minimum up to `ChunkMin`, every set of profiles, every
header layout, nesting depth and block length, every byte alphabet and record length of the
ZIP model, and every bound on sizes and streams.

**`ChunkerProofs`** proves of the container drivers `Partition`, `Envelope`, `HashIsLocal`, `OneChunkPerByte`, `UnitsAlign` and
`ImplementsPromise`. The first four, and beside them `TypeOK` and `RejectedForGood` (which no run checks), follow
from one inductive invariant, `Inv`. Of the checked invariants none is inductive alone: `Partition` speaks only of
open and ended streams, and needs that a rejected assembler is empty and that an ended one holds nothing
(`Quiet`); `OneChunkPerByte` needs `Envelope` and that the hash and the buffer agree. The first part of the module
states, for each method of the assembler, that it preserves the strengthened conjuncts (`Whole`, `Bounded`,
`Sound`) and what it does to the chunks emitted; the proof that a step of the driver preserves `Inv` composes
these lemmas, one step per action.

The argument for `OneChunkPerByte` is short: a boundary emits only if it closes,
and leaves the buffer empty; then one byte makes a buffer of length one, below the minimum, so no cut and no
realignment can emit again. It is where `1 < ChunkMin` is needed. It speaks of a byte given to the assembler; for the
four drivers that give it one byte per byte of the caller it is also what `AsyncChunker` asserts of a call, and for
`ooxml-v1` it is not (section 5).

`UnitsAlign` needs `AlignInv` beside it. A large unit that has not begun a chunk can only be one whose header a
cut divided; that no other chunk spans its beginning depends on the walker: since a large unit of known size pays
the unit minimum (`Paid`) before the next begins, the chunk it began is long enough to be closed there and is
never held and extended over the next one (`Apart`). Bytes are known by their positions, so `Placed` reduces
chunks to where they begin. Where no unit is large, `Coalesced` says instead that nothing short of the unit
minimum is held or sent. The proof showed that a walker which reports no large units must report none of unknown
size, now the second conjunct of `ProfilesAssumption`, true of the five profiles. `DriversKeepThePromise` maps
each action of a driver to a call of `ChunkStream`; its clause on the minimum size follows from `Coalesced` for the
profiles without large units, and is not claimed of the others.

Of the pipeline it proves that it implements its driver (`PipelineKeepsTheCalls`), so every
theorem above holds inside it, and `ReadAheadIsExact` and `DeliversEveryByte`. The invariant `AsyncInv` says that
chunker, window and what is left to replay are consecutive bytes of the reader (`InOrder`), where the task can be
in each state of the buffers (`TaskIsAt`), and what was delivered of what the assembler sent (`Settled`). A failed
stream lacks at most the one chunk that the faulting byte's boundary completed: the first of the points met while
modelling (section 5), as a theorem.

**`DecomposerProofs`** proves `StackIsThePath` and `ImplementsSink`, from one inductive invariant, `StackInv`.
Neither can be seen from the stack alone: the driver opens and closes levels by the events that wait in their
queues, so the invariant says of each level that its queue holds the events of whole members in order, but for the
member open before the first and the one the reader is inside of, with ends that tell the bytes before them
(`Follows`), and that the container is announced before them all (`Fresh`). `ClosingInv` is what makes
`feed_level` safe: a level whose reader was finished, and a nested member that has lost its level, stand above
nothing but an end that waits (`Quiet`), so no bytes can be passed to a level that is not there. The refinement
maps levels to what the sink was told (`SinkStack`, `Seen`): a level counts from its announcement, a member from
the decision about it. Most steps move bytes inside the driver and stutter. Its one hypothesis is `Lengths = Nat`:
the code bounds no run of bytes, and `Lengths` exists to give TLC finitely many.

**`IsobmffWalkerProofs`** proves `ExtentsNest`, `BoundaryIsLive`, `FinishedWhole`, `PayloadNeverOverruns` and
`ImplementsReports`. The invariant at the centre is `Nested`: each counter is the distance to the end of its
container, and ends nest. It is preserved by a charged byte, by taking a prefix of the stack and by opening a
box that fits its parent. A payload that fits the innermost container then fits them all, so it is never
cut off by a fault; and when the stack is empty or open-ended, nothing that was declared lies beyond the
offset. How many exhausted containers are popped is a least element of a set of numbers, whose existence is
proved from the well-foundedness of `<` (`LeastNat`). The refinement shows, action by action, that the reports are
among those of `UnitWalker`.

**`MatroskaWalkerProofs`** proves `ExtentsNest`, `PayloadNeverOverruns`, `FinishedWhole` and `ImplementsReports`.
The walker keeps a stack, but it is never more than a Segment and a Cluster of unknown size, so the invariant
determines all of it from one number: the end of the Segment (`Standing`). Charging a byte moves that description
by one (`DebitedIs`); closing what is exhausted leaves all of it or nothing (`LiveIs`), since a Cluster without a
size is exhausted exactly when its Segment is. `Account` carries what acceptance needs: no header claims a byte
beyond the Segment, or, where nothing has a size, beyond the payload under way.

`ImplementsReports` needs, beside the invariant, `Ledger`: a
payload that was reported as large is never inside a Cluster of unknown size, and is at least as long as the unit
minimum, so the walker cannot reach a boundary while the driver is still owed bytes.

**`TarReaderProofs`** proves `TypeOK`, `FramingAgrees`, `OnlyOverridesSkew` and `KeepsContract`. Beside the first
two the invariant needs that a state that counts a payload has a byte of it or of its padding to come (`Due`):
otherwise the padding, which the code decrements without a check, could run below zero. `AtBlocks` adds that the
offset and what is left of payload and padding are together a number of blocks, which is false from the first
overridden size on (`skewed`) and true before.

**`PdfWalkerProofs`** proves `PayloadEndsAtEndstream`, `LengthIsTheDirectOne` and `FinishedWhole`, for every
non-empty keyword (`PdfAssumption`). `PayloadInv` says that the letters matched are the last that came, also where
the match is carried from the counted bytes to the search, and that what was seen and what remains are the
declared length. `LengthInv` relates the scanner's candidate, four states of a small automaton, to the words
behind the last `/Length` read as a PDF reader reads them (`Matches`), word by word and across nested
dictionaries. `Marked` says that the flag for the end mark tells the last item.

**`ZipWalkerProofs`** proves `MembersAreFramed`, `FinishedWhole`, `ScanIsLeftmost`, `ScanTellsTheData` and
`ImplementsReports` from `ZipAssumption`, whose last conjunct says that the ZIP64 values of an extra area are numbers
(`u64` in the code). `MembersAreFramed` follows from one inductive invariant with five parts: what each state records
(`Shape`), which records each phase reads (`Order`), where the observer stands and how many bytes of the member it was
told (`Followed`), where the directory lies (`Placed`), and that the counts agreed when the end record was accepted
(`Sealed`). `FinishedWhole` needs `Tally` beside it: the members the walker counted are those the observer heard to
their end and the one in flight, and from the accepted end record on its fields, each alone or through the ZIP64
record, say that count, the directory's length and its place. `ScanIsLeftmost` and `ScanTellsTheData` need another
invariant, over the bytes of the scan: whatever was given up is no descriptor that covers the member (`Passed`), and
what came so far holds none (`NoneIn`). Its step, `ScanAdvance`, is the argument the code relies on without stating
it. A byte can only complete a descriptor that ends with it; if the held bytes are too short or do not match, they
leave one by one up to the least number that leaves a possible descriptor (`ReleasedStops`), so a descriptor that
begins inside a false one is still found.

For `ImplementsReports`, `Measured` says that the bytes of a local header are
those since the record began, so the length reported at its last byte is that of the whole header with its
signature, and what is owed of a large member's data falls by one with each byte.

**`InflaterProofs`** is about the inflater and the two components built on it, for every stage, window, dictionary and
growth. The drain is a loop, in the model a function defined by itself, and nothing can be proved of such a function
before it is known to exist: `LoopExists` builds it as the least relation between where a loop begins and where it
stops (`Ends`), for loops that stop and loops that do not. That this one stops is an induction on what is staged and
held (`LoopStops`): a turn that goes on has read or written something. What it leaves is told by an account of
the stream (`Sane`): what was produced, what the decoder holds and what is staged make up what was given
(`SanePushed`), and the close of a whole stream produces all of it without a fault (`SaneClosed`). That is where the
proof needs a window, and a dictionary, of at least a byte (`InflaterAssumption`).

Of the gzip reader it proves `MemberIsWhole`, `TrailerFollowsBody` and `KeepsContract`. `MemberInv` says for each
part of the framing what is still to come: before the body nothing came (`Untouched`), inside it the decoder holds
exactly what was decoded and not yet summed (`InBody`), and from the trailer on it holds nothing (`Settled`).

Of the canonicalizer it proves `DirectoryIsTrue`, `ObserverHearsIt`, `SoundMembersPass` and `AcceptedIsOffice`, from
one inductive invariant, `CanonInv`: while nothing is refused the steps are drained and what follows holds (`Steady`),
and of a rejected stream what the observer heard is still what was enqueued (`Refused`), since each event that ends in
a fault notes what it told before (`RefusedAlike`, `MemberNoted`). No property is inductive alone, for each speaks of
what the core will write or has forgotten. The invariant says what the core's notes mean of the stream it writes: some
pieces of it are the local headers, in order (`Marked`); each entry tells where its header is and what lies between it
and the next record (`EntriesTrue`), what the observer heard is the same (`HeardTrue`), and what the check saw are the
names (`CheckTrue`). Inside a member, the decoder's sum is the content written so far and what it has yet to give up
(`OpenTrue`), and the source's is the same while it is sound (`Linked`); the walker tells which of the three the core
stands in (`Stands`). The step is proved piece by piece: a record, a window of content or a mark is appended, and what
a longer stream leaves as it was of a shorter one is a lemma on sums of lengths (`PartKept`, `ContentKept`). A byte of
the source may tell two events, so the invariant is kept of the core between them as well (`Tells`). At the end
`FieldsHold` says that what the writer defers to a ZIP64 value, and only that, does not fit the field.

Only model-checked: liveness, `StreamEnds` and `CallsReturn`. Liveness under fairness, recursion over data and
`ENABLED` are out of the prover's reach and stay with TLC.

## 5. Findings

Two properties stated by the documentation are violated by the code and have a run.

1. `panic`: the pipeline panics at the end of any container stream that leaves both a held chunk and a buffer: the
   assembler's `finish` emits two chunks, and the pipeline asserts there that none is pending.
2. `zip_descriptor`: a local header with the descriptor flag, the ZIP64 marker as its compressed size and a ZIP64
   field of zero, which is what a writer of unseekable ZIP64 output leaves there, is taken at its word. The member ends
   at once, without its data and its descriptor.

Three more are stated at the end of `ContainerChunker`. They are not in a run's configuration, and checking any of them
in place of the properties of `container` shows it violated within a few steps:

3. `OneChunkPerCall`: the pipeline asserts that a call of `push` with one byte emits one chunk at most
   (`stream/chunker.rs:132`; its doc, lines 105-106, calls two a violation of the chunker contract). One byte of an OOXML
   package can make `ooxml-v1` emit several: the inflater stages 4 KiB (`inflate.rs:68-71`) and the directory is
   written at once (`office/canonical/core.rs:258`), and `OoxmlChunker::push` drains all of it in that call
   (`office/canonical/chunker.rs:112-119`). So `AsyncChunker` can panic in the middle of such a stream, not only at its
   end. `OneChunkPerByte` therefore excepts the canonical profile from its second conjunct.
4. `OneChunkOfState`: the trait promises "at most one maximum-size chunk of state" (`profile_chunker.rs:20-21`), the
   assembler says "memory is two chunks at most" (`assembler.rs:62`), and the two docs disagree. The code does what the
   assembler says: a held chunk of almost the maximum may wait beside a buffer of almost the maximum. `Envelope` states
   the weaker bound.
5. `OnlyTrailingIsSmall`: the trait says that the trailing chunk is "the only one that may fall below the minimum
   size" (`profile_chunker.rs:40-41`), read here as the minimum of the profile, its unit minimum. A realignment to a
   large unit closes whatever came before it, also when that is below the unit minimum and cannot attach to the held
   chunk (`assembler.rs:140`; lines 54-55 say so), so any profile with large units sends small chunks in mid-stream.
   `ImplementsPromise` holds these profiles to chunks that are not empty, and the others to the minimum.

Met while modelling, and not stated as a property:

- A chunk that the boundary before a byte completes is dropped when the walker refuses that byte
  (`stream/chunker.rs:133`): the item is the error.
- A Matroska cluster of unknown size is treated as small until its length shows (`assembler.rs:134`), so it may be
  attached backward.
- The observer of `ooxml-v1` hears content of a member that is then refused, which no chunk will hold: its calls come
  before the fault (`office/canonical/core.rs:116-121`, `170-172`). It is told no end of such a member.
- The total of members is counted before the sink hears of one (`decompose/decomposer.rs:603`), which no property
  separates from counting it later.
- A Segment of known size that ends with an empty Cluster of unknown size is refused as truncated
  (`matroska/walker.rs:257`).
- Behind a member whose size a pax record overrides, the TAR walker pads by the header's size field
  (`tar.rs:281`) and leaves the block structure. `OnlyOverridesSkew` states that nothing else does.
- The PDF scan for the end of a payload starts over after a mismatch without retrying the byte against anything but
  the first letter, and a final `%%EOF` without a line end is refused as a missing mark; a `trailer` line that goes
  on with its dictionary is refused as cross-reference geometry.
- The canonical OOXML chunker's `finish` replaces itself by one that expects any package kind and has no observer
  (`office/canonical/chunker.rs:134`). `AcceptedIsOffice` states what remains of the check in a second use.

## 6. Not modelled, and why

- **Seam chunkers** (`generic.rs`, `structured_text`, `mpegts`, `framed_audio`): each decides by the values of bytes
  (gear hash, line starts, sync bytes, frame headers) and emits its one buffer. Their state is that buffer; a model
  without the values would leave nothing but the buffer, and `Assembler` has the harder one.
- **Detection** (`probe/`): pure functions of one prefix. Its outcome is a choice in `AsyncChunker`.
- **Media inference and the decomposition ZIP reader** are partly modelled: the prefix recognition is a
  choice bounded by the prefix's length in `Decomposer`, and the reader's walker is `ZipWalker`; names, attributes and
  the labels chosen are data no behaviour depends on.
- **The part-to-gate table** of the BER-named OOXML profile is data; the gate itself is an operation of `Assembler`.
- **Canonical writers** (`decompose/writer`): layout of fixed records by a writer that is told everything before.
- **Registry, media types, profile names, error wording and the examples**: tables, parsing of labels, text.
- **The pipeline over `ooxml-v1`**: `AsyncChunker` is instantiated with drivers that push one byte per byte read; a call
  of `ooxml-v1` may emit several chunks, which the pipeline cannot hold (section 5, point 3).
- **External**: the deflate decoder, CRC, digests and the asynchronous runtime. What the code relies on is in
  `Inflater` and `AsyncChunker`.
