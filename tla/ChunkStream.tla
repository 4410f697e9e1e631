----------------------------- MODULE ChunkStream -----------------------------
(***************************************************************************)
(* What a chunking profile promises its caller (trait Chunker of           *)
(* chunker/profile_chunker.rs), without saying where it cuts: bytes of the *)
(* canonical form go in one at a time, chunks come out in order and        *)
(* concatenate to the stream, none but the trailing one falls below the    *)
(* minimum size, a finished stream has come out to the last byte and       *)
(* leaves the chunker as good as new, and a rejected stream is rejected    *)
(* for good.                                                               *)
(***************************************************************************)
EXTENDS Naturals, SequencesExt

CONSTANT MaxChunk  \* the longest chunk allowed

VARIABLES
  least,   \* the minimum size: only a trailing chunk may fall below it
  phase,   \* "open", "ended", "rejected"
  result,  \* what the last call returned
  fed,     \* the bytes accepted from the current stream
  sent,    \* the bytes of the current stream that came out
  out      \* the chunks that came out during the last call

vars == <<least, phase, result, fed, sent, out>>

Init ==
  /\ least \in 1..MaxChunk
  /\ phase = "open" /\ result = "ok"
  /\ fed = <<>> /\ sent = <<>> /\ out = <<>>

\* The chunks of this call follow what came out before.
Deliver(chunks) ==
  /\ \A i \in DOMAIN chunks : Len(chunks[i]) \in 1..MaxChunk
  /\ out' = chunks
  /\ sent' = sent \o FlattenSeq(chunks)

\* No chunk up to the n-th of this call falls below the minimum size.
NoneSmall(n) == \A i \in DOMAIN out' : i <= n => Len(out'[i]) >= least

AcceptByte ==
  /\ phase = "open" /\ phase' = "open" /\ result' = "ok"
  /\ fed' = Append(fed, Len(fed) + 1)
  /\ Deliver(out') /\ NoneSmall(Len(out'))
  /\ IsPrefix(sent', fed')
  /\ UNCHANGED least

\* "Flush the trailing chunk (the only one that may fall below the minimum
\* size)".
EndStream ==
  /\ phase = "open" /\ phase' = "ended" /\ result' = "ok"
  /\ fed' = fed
  /\ Deliver(out') /\ NoneSmall(Len(out') - 1)
  /\ sent' = fed
  /\ UNCHANGED least

\* The chunk that the refused byte completed may still come out.
Reject ==
  /\ phase = "open" /\ phase' = "rejected" /\ result' = "malformed"
  /\ fed' = fed
  /\ Deliver(out') /\ NoneSmall(Len(out'))
  /\ IsPrefix(sent', fed)
  /\ UNCHANGED least

Refuse ==
  /\ phase = "rejected" /\ result' = "refused"
  /\ out' = <<>>
  /\ UNCHANGED <<least, phase, fed, sent>>

Reuse ==
  /\ phase = "ended" /\ phase' = "open"
  /\ fed' = <<>> /\ sent' = <<>> /\ out' = <<>>
  /\ UNCHANGED <<least, result>>

Next == AcceptByte \/ EndStream \/ Reject \/ Refuse \/ Reuse

Spec == Init /\ [][Next]_vars
==============================================================================
