---------------------------- MODULE MatroskaWalker ----------------------------
(***************************************************************************)
(* The EBML/Matroska walker (chunker/matroska/walker.rs): the EBML header, *)
(* then Segments, descending only into a Segment and into a Cluster of     *)
(* unknown size, which the next segment-level element closes.              *)
(*                                                                         *)
(* The lengths of the two variable-length integers of a header are chosen  *)
(* at their first bytes, the element and its size when the header is       *)
(* complete.  Payload bytes carry nothing.                                 *)
(***************************************************************************)
EXTENDS Integers, Sequences

CONSTANTS
  IdMax,     \* the longest element ID
  SizeMax,   \* the longest size
  ChunkMin,  \* GENERIC_CDC_CHUNK_MIN_BYTES
  MaxSize,   \* bound on a declared payload
  MaxBytes   \* bound on the length of the stream

ASSUME MatroskaAssumption ==
  /\ IdMax \in Nat \ {0} /\ SizeMax \in Nat \ {0} /\ ChunkMin \in Nat \ {0}
  /\ MaxSize \in Nat /\ MaxBytes \in Nat

(***************************************************************************)
(* The vocabulary (elements.rs).  A Void is a cluster child and admissible *)
(* at top level, a Cluster is a segment-level element.                     *)
(***************************************************************************)
Elements == {"EbmlHeader", "Segment", "Void", "Cluster", "Info", "SimpleBlock", "Other"}
IsSegmentLevel(id) == id \in {"Cluster", "Info"}
IsClusterChild(id) == id \in {"Void", "SimpleBlock"}

\* A payload size, or what is left of a container.
Known(n) == [known |-> TRUE, bytes |-> n]
Unknown == [known |-> FALSE, bytes |-> 0]
Sizes(limit) == {Known(n) : n \in 0..limit} \cup {Unknown}

VARIABLES
  state,       \* [kind, len, idLen, sizeLen, remaining]: Id, Size or Payload
  open,        \* the open containers, innermost last: [kind, left]
  offset,      \* bytes consumed
  seenHeader, seenSegment,
  report,      \* what the last consume returned: a large unit's header length
  phase,       \* "walking", "ended", "faulted" or "truncated"
  ends,        \* ghost: where each open container ends
  unit,        \* ghost: where the last payload begins and ends, and whether
               \* it was reported as large
  declared     \* ghost: the farthest byte an accepted header claims

vars == <<state, open, offset, seenHeader, seenSegment, report, phase, ends,
          unit, declared>>

State(kind, len, idLen, sizeLen, remaining) ==
  [kind |-> kind, len |-> len, idLen |-> idLen, sizeLen |-> sizeLen,
   remaining |-> remaining]
AtElement == State("id", 0, 0, 0, 0)

Init ==
  /\ state = AtElement
  /\ open = <<>> /\ ends = <<>>
  /\ offset = 0
  /\ seenHeader = FALSE /\ seenSegment = FALSE
  /\ report = 0 /\ phase = "walking"
  /\ unit = [begin |-> 0, end |-> 0, large |-> FALSE]
  /\ declared = 0

\* The innermost container is of this kind.
Inside(kind) == open # <<>> /\ open[Len(open)].kind = kind

AtUnitBoundary == state = AtElement /\ ~Inside("Cluster")

\* Mutant: only the innermost container is charged.
DebitedInnermost ==
  [i \in DOMAIN open |->
     IF open[i].left.known /\ i = Len(open)
     THEN [open[i] EXCEPT !.left.bytes = @ - 1] ELSE open[i]]

\* A byte is charged against every container of known size.
Overrun == \E i \in DOMAIN open : open[i].left.known /\ open[i].left.bytes < 1
Debited ==
  [i \in DOMAIN open |->
     IF open[i].left.known THEN [open[i] EXCEPT !.left.bytes = @ - 1] ELSE open[i]]

\* The i-th container, or the nearest around it that has a size, is the j-th.
Bounds(stack, i, j) ==
  /\ j \in 1..i /\ stack[j].left.known
  /\ \A k \in j+1..i : ~stack[k].left.known

\* Nothing is left of the container, or of the nearest around it.
Exhausted(stack, i) == \E j \in 1..i : Bounds(stack, i, j) /\ stack[j].left.bytes = 0

\* How many containers stay open at a boundary.
Live(stack) ==
  CHOOSE n \in 0..Len(stack) :
    /\ \A i \in n+1..Len(stack) : Exhausted(stack, i)
    /\ n > 0 => ~Exhausted(stack, n)

Keep(stack, extents, n) ==
  open' = SubSeq(stack, 1, n) /\ ends' = SubSeq(extents, 1, n)

\* The walker goes on in `next`; close_exhausted follows at a boundary.
GoOn(next, stack, extents) ==
  /\ state' = next
  /\ Keep(stack, extents, IF next = AtElement THEN Live(stack) ELSE Len(stack))

Consumed(reported) ==
  /\ phase = "walking" /\ UNCHANGED phase
  /\ offset < MaxBytes /\ offset' = offset + 1
  /\ report' = reported

(***************************************************************************)
(* A complete element header: open_element.                                *)
(***************************************************************************)
\* Mutant: only the innermost container is consulted.
OverrunsInnermost(payload) ==
  open # <<>> /\ Debited[Len(open)].left.known /\ payload > Debited[Len(open)].left.bytes

\* A payload may not be longer than the nearest container of known size.
OverrunsParent(payload) ==
  \E j \in DOMAIN open :
    Bounds(Debited, Len(open), j) /\ payload > Debited[j].left.bytes

\* Unknown size is for a Segment at top level and a Cluster in a Segment.
Admitted(id, size) ==
  IF open = <<>>
  THEN IF ~seenHeader THEN id = "EbmlHeader" /\ size.known
       ELSE id = "Segment" \/ (id = "Void" /\ size.known)
  ELSE IF Inside("Cluster") /\ IsClusterChild(id) THEN size.known
  ELSE /\ Inside("Cluster") => IsSegmentLevel(id)
       /\ size.known \/ id = "Cluster"

ElementRejected(id, size) ==
  ~Admitted(id, size) \/ (size.known /\ OverrunsParent(size.bytes))

\* Where an extent of this size ends that begins after the next byte.
EndOf(size) == IF size.known THEN Known(offset + 1 + size.bytes) ELSE Unknown

\* Mutant: an element of an open cluster may be reported.
ReportsAny(id, size) == size.bytes >= ChunkMin

\* Only a unit, an element in a Segment, is reported as large.
ReportsLarge(id, size) ==
  open # <<>> /\ ~(Inside("Cluster") /\ IsClusterChild(id)) /\ size.bytes >= ChunkMin

\* The containers around the element: a segment-level one leaves the cluster.
Parents(id) ==
  IF Inside("Cluster") /\ ~IsClusterChild(id) THEN Len(open) - 1 ELSE Len(open)

BeginPayload(id, size, headerLen) ==
  LET n == Parents(id)
      next == IF size.bytes = 0 THEN AtElement
              ELSE State("payload", 0, 0, 0, size.bytes) IN
  /\ GoOn(next, SubSeq(Debited, 1, n), SubSeq(ends, 1, n))
  /\ Consumed(IF ReportsLarge(id, size) THEN headerLen ELSE 0)
  /\ unit' = [begin |-> offset + 1, end |-> offset + 1 + size.bytes,
              large |-> ReportsLarge(id, size)]

OpenSegment(size) ==
  /\ GoOn(AtElement, Append(Debited, [kind |-> "Segment", left |-> size]),
          Append(ends, EndOf(size)))
  /\ Consumed(0)
  /\ UNCHANGED unit

\* The one place that reaches a boundary without close_exhausted.
OpenCluster(headerLen) ==
  LET n == Parents("Cluster") IN
  /\ state' = AtElement
  /\ Keep(Append(SubSeq(Debited, 1, n), [kind |-> "Cluster", left |-> Unknown]),
          Append(SubSeq(ends, 1, n), Unknown), n + 1)
  /\ Consumed(headerLen)
  /\ UNCHANGED unit

OpenElement(headerLen) ==
  \E id \in Elements, size \in Sizes(MaxSize) :
    /\ ~ElementRejected(id, size)
    /\ seenHeader' = TRUE
    /\ seenSegment' = (seenSegment \/ (open = <<>> /\ id = "Segment"))
    /\ LET end == offset + 1 + size.bytes IN
       declared' = IF end > declared THEN end ELSE declared
    /\ IF open = <<>> /\ id = "Segment" THEN OpenSegment(size)
       ELSE IF size.known THEN BeginPayload(id, size, headerLen)
       ELSE OpenCluster(headerLen)

(***************************************************************************)
(* The bytes.                                                              *)
(***************************************************************************)
Grow(next) ==
  /\ GoOn(next, Debited, ends)
  /\ Consumed(0)
  /\ UNCHANGED <<seenHeader, seenSegment, unit, declared>>

IdByte ==
  /\ state.kind = "id" /\ ~Overrun
  /\ \E idLen \in IF state.len = 0 THEN 1..IdMax ELSE {state.idLen} :
       Grow(IF state.len + 1 = idLen THEN State("size", 0, idLen, 0, 0)
            ELSE State("id", state.len + 1, idLen, 0, 0))

SizeByte ==
  /\ state.kind = "size" /\ ~Overrun
  /\ \E sizeLen \in IF state.len = 0 THEN 1..SizeMax ELSE {state.sizeLen} :
       IF state.len + 1 = sizeLen THEN OpenElement(state.idLen + sizeLen)
       ELSE Grow(State("size", state.len + 1, state.idLen, sizeLen, 0))

PayloadByte ==
  /\ state.kind = "payload" /\ ~Overrun
  /\ Grow(IF state.remaining = 1 THEN AtElement
          ELSE [state EXCEPT !.remaining = @ - 1])

\* The walker refuses a byte or the end; the driver never calls it again.
Refuse(moved, fault) ==
  /\ phase = "walking" /\ phase' = fault
  /\ offset' = offset + moved /\ report' = 0
  /\ UNCHANGED <<state, open, ends, seenHeader, seenSegment, unit, declared>>

\* The byte is beyond a container, begins no variable-length integer, or
\* completes a header that is not admitted.
RefuseByte ==
  /\ offset < MaxBytes
  /\ \/ Overrun
     \/ state.kind \in {"id", "size"} /\ state.len = 0
     \/ /\ state.kind = "size"
        /\ \E sizeLen \in IF state.len = 0 THEN 1..SizeMax ELSE {state.sizeLen} :
             state.len + 1 = sizeLen
        /\ \E id \in Elements, size \in Sizes(MaxSize) : ElementRejected(id, size)
  /\ Refuse(1, "faulted")

(***************************************************************************)
(* The end of the stream: finish.                                          *)
(***************************************************************************)
\* Mutant: containers of known size may be cut short.
EndsAtAnyElement == state = AtElement /\ seenSegment

EndsWell ==
  /\ state = AtElement /\ seenSegment
  /\ \A i \in DOMAIN open : ~open[i].left.known

FinishOk ==
  /\ phase = "walking" /\ EndsWell
  /\ phase' = "ended"
  /\ UNCHANGED <<state, open, offset, seenHeader, seenSegment, report, ends,
                 unit, declared>>

FinishTruncated == ~EndsWell /\ Refuse(0, "truncated")

Next ==
  \/ IdByte \/ SizeByte \/ PayloadByte
  \/ RefuseByte \/ FinishOk \/ FinishTruncated

Spec == Init /\ [][Next]_vars

------------------------------------------------------------------------------
(***************************************************************************)
(* Properties.                                                             *)
(***************************************************************************)
HeaderMax == IdMax + SizeMax

(* The types of the variables, and the shape of the stack: nothing, a       *)
(* Segment, or a Segment and in it a Cluster of unknown size ("at most one  *)
(* Segment and one Cluster").                                               *)
TypeOK ==
  /\ state \in [kind : {"id", "size", "payload"}, len : 0..HeaderMax,
                idLen : 0..IdMax, sizeLen : 0..SizeMax, remaining : 0..MaxSize]
  /\ \E segment \in Sizes(MaxSize) :
       open \in {<<>>, <<[kind |-> "Segment", left |-> segment]>>,
                 <<[kind |-> "Segment", left |-> segment],
                   [kind |-> "Cluster", left |-> Unknown]>>}
  /\ Len(ends) = Len(open)
  /\ \A i \in DOMAIN ends : ends[i] \in Sizes(MaxBytes + MaxSize)
  /\ offset \in 0..MaxBytes
  /\ seenHeader \in BOOLEAN /\ seenSegment \in BOOLEAN
  /\ report \in 0..HeaderMax
  /\ phase \in {"walking", "ended", "faulted", "truncated"}
  /\ unit \in [begin : 0..MaxBytes, end : 0..(MaxBytes + MaxSize), large : BOOLEAN]
  /\ declared \in 0..(MaxBytes + MaxSize)

(* The counters tell the truth: what the Segment has left is the distance   *)
(* to its declared end, also after bytes charged through a Cluster of       *)
(* unknown size and after the elements that close one; and a payload under  *)
(* way ends inside it.                                                      *)
ExtentsNest ==
  phase = "walking" =>
    /\ \A i \in DOMAIN open :
         open[i].left = IF ends[i].known THEN Known(ends[i].bytes - offset) ELSE Unknown
    /\ state.kind = "payload" =>
         /\ unit.end = offset + state.remaining
         /\ \A i \in DOMAIN ends : ends[i].known => unit.end <= ends[i].bytes

(* A payload that was accepted runs to its end: the check against the       *)
(* nearest container of known size covers every byte of it.                 *)
PayloadNeverOverruns ==
  [][state.kind = "payload" /\ offset' = offset + 1 => phase' # "faulted"]_vars

(* A stream is accepted only if everything that has a size is complete.     *)
FinishedWhole == phase = "ended" => declared = offset

(***************************************************************************)
(* What the driver of ContainerChunker hears of it.                        *)
(***************************************************************************)
Owed ==
  IF state.kind = "payload" /\ unit.large /\ offset - unit.begin < ChunkMin
  THEN ChunkMin - (offset - unit.begin) ELSE 0

Heard ==
  [at |-> AtUnitBoundary,
   header |-> IF state.kind = "id" THEN state.len
              ELSE IF state.kind = "size" THEN state.idLen + state.len ELSE 0,
   owed |-> Owed,
   open |-> Inside("Cluster")]

Matroska == [unitMin |-> ChunkMin, large |-> TRUE, unknown |-> "header",
             blanks |-> FALSE, canonical |-> FALSE]

Reports == INSTANCE WalkerReports WITH
             profile <- Matroska, walker <- Heard,
             phase <- IF phase = "truncated" THEN "faulted" ELSE phase

(* The walker reports units as the driver relies on: a large unit at the    *)
(* byte that completes its header, with the header's length; a Cluster of   *)
(* unknown size as open until a segment-level element or its Segment ends   *)
(* it; nothing of what happens inside.                                      *)
ImplementsReports == Reports!Spec
==============================================================================
