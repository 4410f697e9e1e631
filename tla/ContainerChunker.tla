--------------------------- MODULE ContainerChunker ---------------------------
(***************************************************************************)
(* A container profile chunker: a structure walker that reports unit       *)
(* boundaries and large units, driving the BoundaryAssembler byte by byte. *)
(* ZipChunker, IsobmffChunker, MatroskaChunker and PdfChunker are this     *)
(* loop with their own walker, and push one byte per byte they are given;  *)
(* OoxmlChunker drives the assembler the same way with the bytes of the    *)
(* canonical package, of which one call of push may drain any number       *)
(* (`emitted` counts the chunks of the call).  A source byte that brings   *)
(* no canonical byte leaves all this as it is.  The walker is the one of   *)
(* UnitWalker: it may report whatever such a walker can report.            *)
(*                                                                         *)
(* The caller may push and finish in any order, and may use a chunker for  *)
(* another stream once it has finished one.  A byte of a stream is         *)
(* identified by its position, so that a lost, repeated or misplaced byte  *)
(* is visible.                                                             *)
(***************************************************************************)
EXTENDS Assembler, UnitWalker

CONSTANTS
  Profiles,   \* the drivers; see ProfilesAssumption
  MaxBytes    \* bound on the length of one stream

(***************************************************************************)
(* What distinguishes the drivers: the length from which a boundary closes *)
(* a chunk; whether the walker reports large units; what ends a unit of    *)
(* unknown size it reports as large (see UnitWalker); whether blanks may   *)
(* stand between units (PDF); and whether the bytes are those of the       *)
(* canonical package (OOXML: the gate follows the member, and a fault is   *)
(* found before the assembler is touched).  A walker that reports no large *)
(* units reports none of unknown size.                                     *)
(***************************************************************************)
ASSUME ProfilesAssumption ==
  /\ Profiles \subseteq [unitMin : 1..ChunkMin, large : BOOLEAN, unknown : Unknowns,
                         blanks : BOOLEAN, canonical : BOOLEAN]
  /\ \A p \in Profiles : p.unknown # "none" => p.large

ASSUME BoundsAssumption == HeaderMax \in Nat /\ MaxBytes \in Nat

VARIABLES
  profile,  \* the profile of this chunker
  asm,      \* its assembler
  walker,   \* its walker: [at, header, owed, open]
  phase,    \* "open", "ended" (finished, not used again yet), "rejected"
  result,   \* what the last call returned: "ok", "malformed", "refused"
  emitted,  \* how many chunks the last call emitted; a history of the calls
            \* that no step reads but to go on counting
  fed,      \* the bytes of the current stream the chunker accepted
  larges    \* the large units reported, except those emitted before the
            \* current call: where one starts, its header's length, whether
            \* its size is known, and whether it ended an open unit

vars == <<profile, asm, walker, phase, result, emitted, fed, larges>>

Init ==
  /\ profile \in Profiles
  /\ asm = Fresh(profile.unitMin)
  /\ walker = NewWalker
  /\ phase = "open"
  /\ result = "ok"
  /\ emitted = 0
  /\ fed = <<>>
  /\ larges = {}

\* A byte of the assembler starts with nothing emitted yet.
Called(a) == [a EXCEPT !.out = <<>>]

\* Whether a byte, or the end of the stream, may be the first that its call
\* gives to the assembler.  A call of the canonical bridge drains what is
\* ready: a canonical byte may come in the same call as the one before.
CallBegins == IF profile.canonical THEN BOOLEAN ELSE {TRUE}

\* The chunks of this step count to those of its call.
Counts(begins) == emitted' = (IF begins THEN 0 ELSE emitted) + Len(asm'.out)

\* What the driver does before the walker consumes the byte.  The canonical
\* bridge selects the gate of the member that begins at a boundary.
Announced(a, isUnit, gate) ==
  IF isUnit THEN SetGate(Boundary(Called(a)), gate) ELSE Called(a)

\* One accepted byte: boundary, consume, push, and the realignment.
Accept(byte, isUnit, seen) ==
  /\ \E gate \in IF profile.canonical THEN Gates ELSE {"PerByte"},
        seam \in Seams, hit \in BOOLEAN :
       LET pushed == Push(Announced(asm, isUnit, gate), byte, seam, hit)
       IN asm' = IF seen.large > 0 THEN LargeUnitStarts(pushed, seen.large)
                                   ELSE pushed
  /\ \E begins \in CallBegins : Counts(begins)
  /\ walker' = seen.next
  /\ fed' = Append(fed, byte)
  /\ larges' = {l \in larges : l.at > Len(asm.sent)}
               \cup IF seen.large > 0
                    THEN {[at |-> Len(fed) + 2 - seen.large,
                           header |-> seen.large, known |-> ~seen.next.open]}
                    ELSE {}
  /\ result' = "ok"
  /\ UNCHANGED <<profile, phase>>

PushByte(byte) ==
  /\ phase = "open"
  /\ Len(fed) < MaxBytes
  /\ \/ \E seen \in HeaderBytes(profile, walker) \cup PayloadBytes(profile, walker) :
          Accept(byte, walker.at, seen)
     \/ \E seen \in BlankBytes(profile, walker) : Accept(byte, FALSE, seen)

\* The walker refuses the byte, after the boundary before it was announced.
PushFault ==
  /\ phase = "open"
  /\ asm' = Clear(Announced(asm, walker.at /\ ~profile.canonical, asm.gate))
  /\ Counts(TRUE)
  /\ phase' = "rejected"
  /\ result' = "malformed"
  /\ UNCHANGED <<profile, walker, fed, larges>>

\* The stream ends where the walker accepts an end.
FinishOk ==
  /\ phase = "open"
  /\ fed # <<>> /\ walker.header = 0 /\ walker.owed = 0
  /\ asm' = SetGate(Finish(Called(asm)), "PerByte")
  /\ \E begins \in CallBegins : Counts(begins)
  /\ walker' = NewWalker
  /\ phase' = "ended"
  /\ result' = "ok"
  /\ UNCHANGED <<profile, fed, larges>>

\* The stream ends inside a unit.
FinishTruncated ==
  /\ phase = "open"
  /\ asm' = Clear(Called(asm))
  /\ Counts(TRUE)
  /\ phase' = "rejected"
  /\ result' = "malformed"
  /\ UNCHANGED <<profile, walker, fed, larges>>

\* A finished chunker is given another stream: no code runs, the caller's
\* account of the stream starts over.
NextStream ==
  /\ phase = "ended"
  /\ phase' = "open"
  /\ emitted' = 0
  /\ fed' = <<>>
  /\ larges' = {}
  /\ asm' = [asm EXCEPT !.out = <<>>, !.sent = <<>>]
  /\ UNCHANGED <<profile, walker, result>>

\* push or finish on a rejected stream returns before it does anything.
Refuse ==
  /\ phase = "rejected"
  /\ asm' = Called(asm)
  /\ Counts(TRUE)
  /\ result' = "refused"
  /\ UNCHANGED <<profile, walker, phase, fed, larges>>

Next ==
  \/ PushByte(Len(fed) + 1)
  \/ PushFault
  \/ FinishOk
  \/ FinishTruncated
  \/ NextStream
  \/ Refuse

Spec == Init /\ [][Next]_vars

------------------------------------------------------------------------------
(***************************************************************************)
(* Properties.                                                             *)
(***************************************************************************)
Bytes == 1..MaxBytes

Walkers == [at : BOOLEAN, header : 0..HeaderMax, owed : 0..ChunkMin,
            open : BOOLEAN]

(* The types of the variables. *)
TypeOK ==
  /\ profile \in Profiles
  /\ asm \in Assemblers(Bytes)
  /\ walker \in Walkers
  /\ phase \in {"open", "ended", "rejected"}
  /\ result \in {"ok", "malformed", "refused"}
  /\ emitted \in Nat
  /\ fed \in Seq(Bytes)
  /\ larges \in SUBSET [at : Bytes, header : 1..HeaderMax,
                       known : BOOLEAN]

(* The chunks are a partition of the stream: while a stream is open, what   *)
(* was emitted, the held chunk and the buffer are together the bytes        *)
(* accepted, each once and in order, whatever attaches or splits in between *)
(* and whatever stream the chunker served before; and a finished stream is  *)
(* emitted to its last byte (Chunker: "Emitted chunks concatenate to the    *)
(* profile's canonical form of the input").                                 *)
Partition ==
  /\ phase = "open" => asm.sent \o asm.held \o asm.buffer = fed
  /\ phase = "ended" => asm.sent = fed

(* No chunk is empty or longer than the maximum, although a held chunk      *)
(* grows backward; the assembler stores less than two maximum chunks        *)
(* (assembler.rs:62, "memory is two chunks at most").  The trait says less, *)
(* "holding at most one maximum-size chunk of state"                        *)
(* (profile_chunker.rs:20-21): see OneChunkOfState.                         *)
Envelope ==
  /\ \A i \in DOMAIN asm.out : Len(asm.out[i]) \in 1..ChunkMax
  /\ Len(asm.held) <= ChunkMax
  /\ Len(asm.buffer) < ChunkMax

(* The gear hash covers exactly the chunk under construction, so a cut is a *)
(* function of the bytes since the last cut and of nothing before it; every *)
(* close, attachment and realignment must restart it.                       *)
HashIsLocal == asm.hashed = asm.buffer

(* One accepted byte completes at most one chunk, although the boundary,    *)
(* the content cut and the realignment of that byte may each emit; and      *)
(* where a call of push gives the assembler one byte, that is what          *)
(* AsyncChunker asserts of the call (stream/chunker.rs:131-134).  ooxml-v1, *)
(* whose calls drain any number of bytes, is excepted: see OneChunkPerCall. *)
OneChunkPerByte ==
  phase # "ended" =>
    /\ Len(asm.out) <= 1
    /\ ~profile.canonical => emitted <= 1

(* A large unit of known size begins a chunk, unless a cut fell inside its  *)
(* header: no chunk that leaves the assembler, nor the held one, spans its  *)
(* first byte and goes on beyond its header.  A later backward attachment   *)
(* may not undo the realignment.                                            *)
Spans(chunk, l) ==
  /\ chunk # <<>>
  /\ chunk[1] < l.at
  /\ chunk[Len(chunk)] >= l.at + l.header

LargeUnitBeginsChunk ==
  \A l \in larges :
    l.known => /\ ~Spans(asm.held, l)
               /\ \A i \in DOMAIN asm.out : ~Spans(asm.out[i], l)

(* Where no large unit interferes, small units coalesce: no chunk below the *)
(* unit minimum leaves the assembler before the end of the stream, so a     *)
(* run of small objects never becomes a run of small chunks.                *)
SmallUnitsCoalesce ==
  phase = "open" /\ ~profile.large =>
    /\ asm.held # <<>> => Len(asm.held) >= asm.unitMin
    /\ \A i \in DOMAIN asm.out : Len(asm.out[i]) >= asm.unitMin

(* Units align with chunks in both ways: large ones begin a chunk, small    *)
(* ones do not become one (assembler.rs, boundary and large_unit_starts).   *)
UnitsAlign == LargeUnitBeginsChunk /\ SmallUnitsCoalesce

(* Rejection is for good: it empties the assembler, nothing is emitted for  *)
(* the stream any more, and every later call is refused.                    *)
RejectedForGood ==
  [][phase = "rejected" =>
       /\ phase' = "rejected" /\ result' = "refused"
       /\ asm'.out = <<>> /\ asm'.sent = asm.sent
       /\ asm'.held = <<>> /\ asm'.buffer = <<>>]_vars

\* What the trait promises of this chunker's calls.  Its minimum size is kept
\* by the profiles without large units only; the others are held to chunks
\* that are not empty.
Promise ==
  INSTANCE ChunkStream WITH MaxChunk <- ChunkMax,
                            least <- IF profile.large THEN 1 ELSE profile.unitMin,
                            sent <- asm.sent, out <- asm.out

(* Every driver keeps the promise of the trait, except that the drivers     *)
(* with large units break its minimum size (OnlyTrailingIsSmall): the       *)
(* assembler's held chunk, backward attachment and realignment are          *)
(* invisible to the caller except for where the cuts fall.                  *)
ImplementsPromise == Promise!Spec

(***************************************************************************)
(* What the repository says and the code does not do.  Each of these is    *)
(* violated within a few steps of MCContainerChunker; no run lists them.   *)
(***************************************************************************)
(* The trait on the state a chunker holds: "at most one maximum-size chunk" *)
(* (profile_chunker.rs:20-21).  The held chunk and the buffer may both be   *)
(* nearly full (Envelope).                                                  *)
OneChunkOfState == Len(asm.held) + Len(asm.buffer) <= ChunkMax

(* The assertion on every call of push: "a chunker emitted two chunks for   *)
(* one byte" (stream/chunker.rs:132).  One call of ooxml-v1 may drain as    *)
(* many canonical bytes as complete two chunks (OneChunkPerByte).           *)
OneChunkPerCall == phase # "ended" => emitted <= 1

(* The trait on the minimum size: the trailing chunk is "the only one that  *)
(* may fall below" it (profile_chunker.rs:40-41).  A realignment to a large *)
(* unit closes a shorter one (assembler.rs:54-55, 140; ImplementsPromise).  *)
OnlyTrailingIsSmall ==
  \A i \in DOMAIN asm.out :
    (phase = "ended" /\ i = Len(asm.out)) \/ Len(asm.out[i]) >= profile.unitMin
==============================================================================
