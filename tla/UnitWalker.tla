------------------------------ MODULE UnitWalker ------------------------------
(***************************************************************************)
(* What a container driver may hear from its structure walker, byte by     *)
(* byte.  The walkers of the four formats parse very different headers;    *)
(* the assembler depends on none of that, only on when a unit begins and   *)
(* when a large unit's header has been seen.  The walkers of               *)
(* IsobmffWalker, MatroskaWalker and ZipWalker are shown to report nothing *)
(* else.                                                                   *)
(***************************************************************************)
EXTENDS Naturals

CONSTANT HeaderMax   \* bound on a unit header's length

\* What ends a unit of unknown size that was reported as large: there is no
\* such unit, the stream, the header of the next unit or the end of an
\* enclosing one, or a boundary.
Unknowns == {"none", "stream", "header", "boundary"}

(***************************************************************************)
(* The walker: `at` says the next byte begins a unit, `header` counts the  *)
(* bytes of a header under collection, `owed` the payload bytes a large    *)
(* unit of known size still has before it reaches the unit minimum, and    *)
(* `open` says the unit under way has no known size.                       *)
(***************************************************************************)
NewWalker == [at |-> TRUE, header |-> 0, owed |-> 0, open |-> FALSE]

\* What the walker makes of a byte: its next state and the header length of
\* the large unit it reports, if any.
Seen(at, header, owed, open, large) ==
  [next |-> [at |-> at, header |-> header, owed |-> owed, open |-> open],
   large |-> large]

\* The byte belongs to a header: of the unit that begins here, of one under
\* way, or, in a unit of unknown size, of the next unit or of a child.
HeaderBytes(p, w) ==
  LET len == w.header + 1 IN
  IF \/ len > HeaderMax
     \/ ~(w.at \/ w.header > 0 \/ (w.open /\ p.unknown = "header"))
  THEN {}
  ELSE {Seen(FALSE, len, 0, w.open, 0)}
       \cup {Seen(at, 0, 0, FALSE, 0) : at \in BOOLEAN}
       \cup (IF w.open THEN {Seen(FALSE, 0, 0, TRUE, 0)} ELSE {})
       \cup (IF p.large THEN {Seen(FALSE, 0, p.unitMin, FALSE, len)} ELSE {})
       \cup (IF p.unknown # "none" THEN {Seen(FALSE, 0, 0, TRUE, len)} ELSE {})

\* The byte belongs to a payload.  A unit of unknown size ends with the
\* Matroska segment around it, or at a boundary.
PayloadBytes(p, w) ==
  IF w.at \/ w.header > 0 THEN {}
  ELSE IF w.owed > 1 THEN {Seen(FALSE, 0, w.owed - 1, FALSE, 0)}
  ELSE {Seen(FALSE, 0, 0, w.open, 0)}
       \cup (IF w.open /\ p.unknown = "stream" THEN {}
             ELSE {Seen(TRUE, 0, 0, FALSE, 0)})

\* A blank between two PDF items begins no item.
BlankBytes(p, w) ==
  IF w.at /\ p.blanks THEN {Seen(TRUE, 0, 0, FALSE, 0)} ELSE {}
==============================================================================
