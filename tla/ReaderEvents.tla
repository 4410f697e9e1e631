----------------------------- MODULE ReaderEvents -----------------------------
(***************************************************************************)
(* What a reader of one container level reports to the decomposer          *)
(* (ReaderEvent, decompose/decomposer.rs), and how a sequence of reports   *)
(* moves from member to member.  Contents are lengths.                     *)
(***************************************************************************)
EXTENDS Integers, Sequences

\* A declared size, when the format declares one.
Declared(n) == [known |-> TRUE, bytes |-> n]
Undeclared == [known |-> FALSE, bytes |-> 0]

Entry(ordinal) == [kind |-> "entry", ordinal |-> ordinal]
Start(ordinal, size) == [kind |-> "start", ordinal |-> ordinal, size |-> size]
Data(length) == [kind |-> "data", length |-> length]
End(length) == [kind |-> "end", length |-> length]

\* The member in flight: whether there is one, its announced size, the bytes
\* reported of it, and the ordinal of what comes next.
Idle(ordinal) ==
  [open |-> FALSE, size |-> Undeclared, got |-> 0, ordinal |-> ordinal]

Admits(m, event) ==
  CASE event.kind \in {"entry", "start"} -> ~m.open /\ event.ordinal = m.ordinal
    [] event.kind = "data" ->
         m.open /\ (m.size.known => m.got + event.length <= m.size.bytes)
    [] event.kind = "end" ->
         /\ m.open /\ event.length = m.got
         /\ m.size.known => m.got = m.size.bytes

After(m, event) ==
  CASE event.kind = "entry" -> [m EXCEPT !.ordinal = @ + 1]
    [] event.kind = "start" ->
         [open |-> TRUE, size |-> event.size, got |-> 0, ordinal |-> m.ordinal + 1]
    [] event.kind = "data" -> [m EXCEPT !.got = @ + event.length]
    [] event.kind = "end" -> Idle(m.ordinal)

\* The members in flight around the events of a batch.
Along(m, batch) ==
  LET around[i \in 0..Len(batch)] ==
        IF i = 0 THEN m ELSE After(around[i - 1], batch[i])
  IN around
==============================================================================
