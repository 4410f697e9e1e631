------------------------------ MODULE Assembler ------------------------------
(***************************************************************************)
(* The chunk-assembly policy that the container profiles share:            *)
(* BoundaryAssembler of chunker/assembler.rs.  An assembler is one value,  *)
(* a record; each method of the source is an operator from an assembler to *)
(* the assembler it leaves behind, so that a driver which calls several    *)
(* methods for one input byte is a composition of operators.               *)
(*                                                                         *)
(* Bytes are opaque values.  The gear hash is abstracted to the bytes it   *)
(* has absorbed since it was last reset (what the hash value is a function *)
(* of); whether it then satisfies the mask in force is an input of Push.   *)
(***************************************************************************)
EXTENDS Integers, Sequences

CONSTANTS
  ChunkMin,     \* no content-defined cut is judged below this length
  ChunkTarget,  \* soft text seams are judged from this length on
  ChunkMax      \* the length at which a cut is forced

ASSUME EnvelopeAssumption ==
  /\ ChunkMin \in Nat /\ ChunkTarget \in Nat /\ ChunkMax \in Nat
  /\ 1 < ChunkMin /\ ChunkMin <= ChunkTarget /\ ChunkTarget <= ChunkMax

Gates == {"PerByte", "TextSeam"}

\* The candidate class of a pushed byte: a line end or tag close, another
\* blank or structural terminator, or neither.
Seams == {"Strict", "Soft", "None"}

(***************************************************************************)
(* held    a closed chunk that small trailing units may still join         *)
(* buffer  the chunk under construction                                    *)
(* hashed  the bytes the gear hash has absorbed since its last reset       *)
(* out     the chunks given to the emit callback during the current call   *)
(* sent    all the bytes given to the callback since the stream began      *)
(***************************************************************************)
Fresh(unitMin) ==
  [held |-> <<>>, buffer |-> <<>>, hashed |-> <<>>, gate |-> "PerByte",
   unitMin |-> unitMin, out |-> <<>>, sent |-> <<>>]

Assemblers(Byte) ==
  [held : Seq(Byte), buffer : Seq(Byte), hashed : Seq(Byte), gate : Gates,
   unitMin : 1..ChunkMin, out : Seq(Seq(Byte)), sent : Seq(Byte)]

Emit(a, chunk) == [a EXCEPT !.out = Append(@, chunk), !.sent = @ \o chunk]

EmitHeld(a) ==
  IF a.held = <<>> THEN a ELSE [Emit(a, a.held) EXCEPT !.held = <<>>]

EmitBuffer(a) ==
  IF a.buffer = <<>> THEN a ELSE [Emit(a, a.buffer) EXCEPT !.buffer = <<>>]

SetGate(a, gate) == [a EXCEPT !.gate = gate]

\* The held chunk goes out and the one under construction takes its place.
CloseChunk(a) ==
  [EmitHeld(a) EXCEPT !.held = a.buffer, !.buffer = <<>>, !.hashed = <<>>]

\* Mutant: the maximum is not looked at.
JoinsAnyHeld(a) == a.held # <<>>

\* Whether the gathered bytes may join the held chunk.
JoinsHeld(a) ==
  a.held # <<>> /\ Len(a.held) + Len(a.buffer) <= ChunkMax

\* Mutants: the hash is not restarted; the bytes are attached in front.
AttachNoReset(a) == [a EXCEPT !.held = @ \o a.buffer, !.buffer = <<>>]
AttachInFront(a) ==
  [a EXCEPT !.held = a.buffer \o @, !.buffer = <<>>, !.hashed = <<>>]

AttachBackward(a) ==
  [a EXCEPT !.held = @ \o a.buffer, !.buffer = <<>>, !.hashed = <<>>]

\* The next byte begins a structural unit.
Boundary(a) ==
  IF Len(a.buffer) >= a.unitMin THEN CloseChunk(a)
  ELSE IF a.buffer # <<>> /\ JoinsHeld(a) THEN AttachBackward(a)
  ELSE a

\* Mutant: realigned only where the bytes before the unit can attach.
LargeUnitStartsIfJoined(a, header) ==
  IF Len(a.buffer) <= header THEN a
  ELSE LET start == Len(a.buffer) - header
           head == SubSeq(a.buffer, start + 1, Len(a.buffer))
           before == [a EXCEPT !.buffer = SubSeq(@, 1, start)]
       IN IF JoinsHeld(before)
          THEN [AttachBackward(before) EXCEPT !.buffer = head, !.hashed = head]
          ELSE a

\* The last `header` bytes were the header of a large unit: realign to it.
LargeUnitStarts(a, header) ==
  IF Len(a.buffer) <= header THEN a
  ELSE LET start == Len(a.buffer) - header
           head == SubSeq(a.buffer, start + 1, Len(a.buffer))
           before == [a EXCEPT !.buffer = SubSeq(@, 1, start)]
           realigned == IF JoinsHeld(before) THEN AttachBackward(before)
                                             ELSE CloseChunk(before)
       IN [realigned EXCEPT !.buffer = head, !.hashed = head]

\* Mutant: a cut is judged at any length.
CutHereUnbounded(a, seam, hit) ==
  \/ Len(a.buffer) >= ChunkMax
  \/ a.gate = "PerByte" /\ hit
  \/ a.gate = "TextSeam" /\ hit /\ seam = "Strict"

\* `hit`: the hash satisfies the mask the length and the gate select.
CutHere(a, seam, hit) ==
  LET len == Len(a.buffer) IN
  /\ len >= ChunkMin
  /\ \/ len >= ChunkMax
     \/ a.gate = "PerByte" /\ hit
     \/ a.gate = "TextSeam" /\ hit /\ seam = "Strict"
     \/ a.gate = "TextSeam" /\ hit /\ seam = "Soft" /\ len >= ChunkTarget

Absorb(a, byte) ==
  [a EXCEPT !.buffer = Append(@, byte), !.hashed = Append(@, byte)]

Push(a, byte, seam, hit) ==
  LET grown == Absorb(a, byte)
  IN IF CutHere(grown, seam, hit) THEN CloseChunk(grown) ELSE grown

\* Mutant: the chunk under construction overtakes the held one.
FinishReversed(a) == [EmitHeld(EmitBuffer(a)) EXCEPT !.hashed = <<>>]

\* The stream ended well formed: the held chunk goes out, then the last one.
Finish(a) == [EmitBuffer(EmitHeld(a)) EXCEPT !.hashed = <<>>]

\* The stream was rejected.
Clear(a) == [a EXCEPT !.held = <<>>, !.buffer = <<>>, !.hashed = <<>>]
==============================================================================
