----------------------------- MODULE AsyncChunker -----------------------------
(***************************************************************************)
(* The asynchronous pipeline of stream/chunker.rs: the detector reads a    *)
(* bounded prefix (stream/probe.rs), PrefixReplay gives it back before the *)
(* rest (replay.rs), and the generator of AsyncChunker::chunk reads        *)
(* windows, pushes them into the chunker byte by byte and yields a chunk   *)
(* as soon as it is complete.  It drives the steps of ContainerChunker,    *)
(* for the profiles whose canonical form is the input: a byte given to     *)
(* push is a byte given to the assembler.                                  *)
(*                                                                         *)
(* The reader holds the bytes 1, 2, ... `length`; it answers a read with   *)
(* any part of what is asked for, and may fail at any read.                *)
(***************************************************************************)
EXTENDS ContainerChunker

CONSTANTS
  ProbeMax,  \* PROBE_PREFIX_MAX_BYTES
  WindowMax  \* READ_WINDOW_BYTES

ASSUME PipelineAssumption ==
  /\ ProbeMax \in Nat \ {0} /\ WindowMax \in Nat \ {0}
  /\ \A p \in Profiles : ~p.canonical

VARIABLES
  length,    \* the number of bytes the reader holds
  taken,     \* how many of them it has given
  prefix,    \* the probed bytes, and how many of them were replayed
  replayed,
  window,    \* the bytes of the last read that were not pushed yet
  pending,   \* the completed chunk that was not yielded yet, or <<>>
  delivered, \* the bytes of the chunks the consumer received
  task       \* where the task is

pipe == <<length, taken, prefix, replayed, window, pending, delivered, task>>
asyncVars == <<vars, pipe>>

\* "refused", "failed", "panicked" and "done" are final.
Final == {"refused", "failed", "panicked", "done"}
Tasks == {"probing", "detecting", "reading", "pushing", "yielding", "draining"}
         \cup Final

AsyncInit ==
  /\ Init
  /\ length \in 0..MaxBytes
  /\ taken = 0 /\ prefix = <<>> /\ replayed = 0
  /\ window = <<>> /\ pending = <<>> /\ delivered = <<>>
  /\ task \in {"probing", "reading"}  \* chunk_detected, or chunk alone

AtMost(m, n) == IF m < n THEN m ELSE n
Span(from, n) == [i \in 1..n |-> from + i]

\* What one read of at most `room` bytes may take from the reader.
Reads(room) == 1..AtMost(room, length - taken)

ProbeRead ==
  /\ task = "probing" /\ Len(prefix) < ProbeMax
  /\ \E n \in Reads(ProbeMax - Len(prefix)) :
       /\ prefix' = prefix \o Span(taken, n)
       /\ taken' = taken + n
  /\ UNCHANGED <<vars, length, replayed, window, pending, delivered, task>>

\* The prefix is full, or the reader is at its end.
ProbeEnd ==
  /\ task = "probing"
  /\ Len(prefix) = ProbeMax \/ taken = length
  /\ task' = "detecting"
  /\ UNCHANGED <<vars, length, taken, prefix, replayed, window, pending, delivered>>

\* The prefix selects this profile, or is ambiguous or contradicts the
\* declaration.
Detect ==
  /\ task = "detecting"
  /\ task' \in {"reading", "refused"}
  /\ UNCHANGED <<vars, length, taken, prefix, replayed, window, pending, delivered>>

\* Mutant: a window that reaches past the prefix drops what it did not take.
ReplayReadOnce ==
  /\ task = "reading" /\ replayed < Len(prefix)
  /\ LET n == AtMost(WindowMax, Len(prefix) - replayed) IN
       window' = SubSeq(prefix, replayed + 1, replayed + n)
  /\ replayed' = Len(prefix)
  /\ task' = "pushing"
  /\ UNCHANGED <<vars, length, taken, prefix, pending, delivered>>

\* What is left of the prefix comes before the rest of the reader.
ReplayRead ==
  /\ task = "reading" /\ replayed < Len(prefix)
  /\ LET n == AtMost(WindowMax, Len(prefix) - replayed) IN
       /\ window' = SubSeq(prefix, replayed + 1, replayed + n)
       /\ replayed' = replayed + n
  /\ task' = "pushing"
  /\ UNCHANGED <<vars, length, taken, prefix, pending, delivered>>

InnerRead ==
  /\ task = "reading" /\ replayed = Len(prefix)
  /\ \E n \in Reads(WindowMax) :
       /\ window' = Span(taken, n)
       /\ taken' = taken + n
  /\ task' = "pushing"
  /\ UNCHANGED <<vars, length, prefix, replayed, pending, delivered>>

\* The reader fails: the error is the last item of the stream.
ReadFails ==
  /\ task = "probing" \/ (task = "reading" /\ replayed = Len(prefix))
  /\ task' = "failed"
  /\ UNCHANGED <<vars, length, taken, prefix, replayed, window, pending, delivered>>

\* Mutant: a chunk waits until the window is used up.
KeptUntilWindowEnd(then, yield) ==
  IF asm'.out = <<>> \/ Len(window) > 1
  THEN task' = then /\ pending' = pending
  ELSE task' = yield /\ pending' = asm'.out[1]

(***************************************************************************)
(* The emit callback: it keeps the chunk, and asserts that none is kept    *)
(* already.  `then` is where the task goes with no chunk to yield, and     *)
(* `yield` where it goes with one.                                         *)
(***************************************************************************)
Kept(then, yield) ==
  IF Len(asm'.out) > 1
  THEN task' = "panicked" /\ pending' = asm'.out[1]
  ELSE IF asm'.out = <<>>
  THEN task' = then /\ pending' = <<>>
  ELSE task' = yield /\ pending' = asm'.out[1]

PushNext ==
  /\ task = "pushing" /\ window # <<>>
  /\ PushByte(Head(window))
  /\ window' = Tail(window)
  /\ Kept("pushing", "yielding")
  /\ UNCHANGED <<length, taken, prefix, replayed, delivered>>

\* The error of push leaves the generator; a chunk kept for this byte is
\* dropped with it.
PushFails ==
  /\ task = "pushing" /\ window # <<>>
  /\ PushFault
  /\ task' = "failed" /\ pending' = <<>>
  /\ UNCHANGED <<length, taken, prefix, replayed, window, delivered>>

WindowDone ==
  /\ task = "pushing" /\ window = <<>>
  /\ task' = "reading"
  /\ UNCHANGED <<vars, length, taken, prefix, replayed, window, pending, delivered>>

\* Mutant: the loop goes on after the end.
EndOfInputNoBreak ==
  /\ task = "reading" /\ replayed = Len(prefix) /\ taken = length
  /\ \/ FinishOk /\ Kept("reading", "yielding")
     \/ FinishTruncated /\ task' = "failed" /\ pending' = <<>>
  /\ UNCHANGED <<length, taken, prefix, replayed, window, delivered>>

\* The reader is at its end: finish, and yield the trailing chunk.
EndOfInput ==
  /\ task = "reading" /\ replayed = Len(prefix) /\ taken = length
  /\ \/ FinishOk /\ Kept("done", "draining")
     \/ FinishTruncated /\ task' = "failed" /\ pending' = <<>>
  /\ UNCHANGED <<length, taken, prefix, replayed, window, delivered>>

\* The consumer asks for the next item.
Yield ==
  /\ task \in {"yielding", "draining"}
  /\ delivered' = delivered \o pending
  /\ pending' = <<>>
  /\ task' = IF task = "yielding" THEN "pushing" ELSE "done"
  /\ UNCHANGED <<vars, length, taken, prefix, replayed, window>>

Reader == ProbeRead \/ ReplayRead \/ InnerRead
Generator ==
  ProbeEnd \/ Detect \/ PushNext \/ PushFails \/ WindowDone \/ EndOfInput

AsyncNext == Reader \/ ReadFails \/ Generator \/ Yield

\* The executor polls the task, the reader answers every read in the end,
\* and the consumer goes on asking for items.
AsyncSpec ==
  /\ AsyncInit /\ [][AsyncNext]_asyncVars
  /\ WF_asyncVars(Reader) /\ WF_asyncVars(Generator) /\ WF_asyncVars(Yield)

------------------------------------------------------------------------------
(***************************************************************************)
(* Properties.                                                             *)
(***************************************************************************)
(* Probing and buffering never lose a byte: what was pushed and what waits   *)
(* between the reader and the chunker are together what the reader gave, in *)
(* order (PrefixReplay: "probing never loses bytes and the chunker sees the *)
(* stream exactly as stored"). With the consumer idle no more than one read *)
(* waits there, however short the reads of the probe were.                  *)
ReadAheadIsExact ==
  LET waiting == window \o SubSeq(prefix, replayed + 1, Len(prefix)) IN
  /\ fed \o waiting = Span(0, taken)
  /\ Len(waiting) <= IF ProbeMax > WindowMax THEN ProbeMax ELSE WindowMax

(* A stream that ended has delivered its source to the last byte, and one   *)
(* still under way has delivered every chunk completed so far but the one   *)
(* the consumer has not asked for. A failed one has delivered a prefix of   *)
(* its source, short of what the chunker completed by at most one chunk:    *)
(* the one the faulting byte completed.                                     *)
DeliversEveryByte ==
  /\ task = "done" => delivered = Span(0, length)
  /\ task \notin {"failed", "panicked"} => delivered \o pending = asm.sent
  /\ task = "failed" =>
       LET lost == Len(asm.sent) - Len(delivered) IN
       /\ delivered = Span(0, Len(delivered))
       /\ lost = 0 \/ (Len(asm.out) = 1 /\ lost = Len(asm.out[1]))

(* Every stream comes to an end: done, or an error (or the panic).          *)
StreamEnds == <>(task \in Final)

(* What the documentation of AsyncChunker::chunk says: it panics only when  *)
(* a profile emits two chunks while processing one input byte.              *)
PanicsOnlyInsideAByte == task = "panicked" => phase # "ended"
==============================================================================
