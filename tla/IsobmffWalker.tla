---------------------------- MODULE IsobmffWalker ----------------------------
(***************************************************************************)
(* The ISO BMFF box walker (chunker/isobmff/walker.rs): it collects box    *)
(* headers, descends into containers, counts every other payload, and      *)
(* charges every byte against all the containers open around it.           *)
(*                                                                         *)
(* A stream is whatever headers say it is: the form of the size field and  *)
(* the type are chosen when the compact header is complete, the size when  *)
(* the whole header is.  Payload bytes carry nothing.                      *)
(***************************************************************************)
EXTENDS Integers, Sequences

CONSTANTS
  HeaderMin,   \* HEADER_MIN: the compact header, size and type
  LargeExtra,  \* the bytes of a 64-bit size
  UuidExtra,   \* the bytes of a usertype
  MaxDepth,    \* MAX_DEPTH
  ChunkMin,    \* GENERIC_CDC_CHUNK_MIN_BYTES
  MaxSize,     \* bound on a declared box size
  MaxBytes     \* bound on the length of the stream

ASSUME HeaderAssumption ==
  /\ HeaderMin \in Nat \ {0} /\ LargeExtra \in Nat /\ UuidExtra \in Nat
  /\ MaxDepth \in Nat /\ ChunkMin \in Nat \ {0}
  /\ MaxSize \in Nat /\ MaxBytes \in Nat

\* What the four characters decide: `first` may begin a stream, `container`
\* is descended into, `uuid` has a usertype (boxes.rs).
Types ==
  {t \in [first : BOOLEAN, container : BOOLEAN, uuid : BOOLEAN] :
     t.uuid => ~t.first /\ ~t.container}

\* The size field: a 32-bit size, 1 (a 64-bit size follows) or 0 (to the end).
Forms == {"compact", "large", "toEnd"}

Boxes == [type : Types, form : Forms]

\* A size: that of a box, what is left of a container; open-ended has none.
Known(n) == [known |-> TRUE, bytes |-> n]
ToEnd == [known |-> FALSE, bytes |-> 0]
Sizes(limit) == {Known(n) : n \in 0..limit} \cup {ToEnd}

VARIABLES
  state,     \* [kind, len, box, remaining]: Header, Payload or PayloadToEnd;
             \* box is the type and size form once HeaderMin bytes are in
  open,      \* what is left of each open container, innermost last
  offset,    \* bytes consumed
  seenFirst, \* whether the first box was accepted
  report,    \* what the last consume returned: a large box's header length
  phase,     \* "walking", "ended" or "faulted"
  ends,      \* ghost: where each open container ends in the stream
  unit,      \* ghost: where the last opaque payload begins and ends
  declared   \* ghost: the farthest byte an accepted header claims

vars == <<state, open, offset, seenFirst, report, phase, ends, unit, declared>>

NoBox == [type |-> [first |-> FALSE, container |-> FALSE, uuid |-> FALSE],
          form |-> "compact"]
State(kind, len, box, remaining) ==
  [kind |-> kind, len |-> len, box |-> box, remaining |-> remaining]
Boundary == State("header", 0, NoBox, 0)

HeaderLen(box) ==
  HeaderMin + (IF box.form = "large" THEN LargeExtra ELSE 0)
            + (IF box.type.uuid THEN UuidExtra ELSE 0)

AtBoxBoundary == state = Boundary

Init ==
  /\ state = Boundary
  /\ open = <<>> /\ ends = <<>>
  /\ offset = 0 /\ seenFirst = FALSE
  /\ report = 0 /\ phase = "walking"
  /\ unit = [begin |-> 0, end |-> Known(0)]
  /\ declared = 0

\* Mutant: only the innermost container is charged.
DebitedInnermost ==
  [i \in DOMAIN open |->
     IF open[i].known /\ i = Len(open) THEN Known(open[i].bytes - 1) ELSE open[i]]

\* Whether a byte can be charged against every open container, and what is
\* left of them afterwards.
Overrun == \E i \in DOMAIN open : open[i].known /\ open[i].bytes < 1
Debited ==
  [i \in DOMAIN open |->
     IF open[i].known THEN Known(open[i].bytes - 1) ELSE ToEnd]

\* Mutant: only one container is popped.
LiveOnce(stack) ==
  IF stack # <<>> /\ stack[Len(stack)] = Known(0) THEN Len(stack) - 1 ELSE Len(stack)

\* Which of the containers stay open at a boundary: the exhausted ones at the
\* top of the stack are popped.
Live(stack) ==
  CHOOSE n \in 0..Len(stack) :
    /\ \A i \in n+1..Len(stack) : stack[i] = Known(0)
    /\ n > 0 => stack[n] # Known(0)

\* The walker goes on in `next` with these containers, of which exhausted
\* ones close if the next byte begins a box.
GoOn(next, stack, extents) ==
  LET n == IF next = Boundary THEN Live(stack) ELSE Len(stack) IN
  /\ state' = next
  /\ open' = SubSeq(stack, 1, n)
  /\ ends' = SubSeq(extents, 1, n)

\* consume counts the byte whether or not step accepts it.
Consumed(reported) ==
  /\ phase = "walking" /\ UNCHANGED phase
  /\ offset < MaxBytes /\ offset' = offset + 1
  /\ report' = reported

(***************************************************************************)
(* A complete header: open_box.                                            *)
(***************************************************************************)
DeclaredSizes(form) ==
  CASE form = "compact" -> {Known(n) : n \in 2..MaxSize}
    [] form = "large" -> {Known(n) : n \in 0..MaxSize}
    [] form = "toEnd" -> {ToEnd}

\* Mutant: the parent is not consulted.
OverrunsNobody(payload, stack) == FALSE

\* A child may not be longer than what its parent has left once the header
\* is charged; an open-ended parent bounds nothing.
OverrunsParent(payload, stack) ==
  LET parent == stack[Len(stack)] IN
  stack # <<>> /\ parent.known /\ payload > parent.bytes

TooDeep(box) == box.type.container /\ Len(open) = MaxDepth

BoxRejected(box, size) ==
  \/ ~seenFirst /\ ~box.type.first
  \/ ~size.known /\ open # <<>>
  \/ size.known /\ (size.bytes < HeaderLen(box)
                    \/ OverrunsParent(size.bytes - HeaderLen(box), Debited))
  \/ TooDeep(box)

Payload(box, size) ==
  IF size.known THEN Known(size.bytes - HeaderLen(box)) ELSE ToEnd

\* Where a payload that begins after the next byte ends.
EndOf(payload) ==
  IF payload.known THEN Known(offset + 1 + payload.bytes) ELSE ToEnd

\* Mutant: the whole box is compared with the minimum, not its payload.
IsLargeBox(payload) == ~payload.known \/ payload.bytes + HeaderMin >= ChunkMin

IsLarge(payload) == ~payload.known \/ payload.bytes >= ChunkMin

Declare(payload) ==
  LET end == offset + 1 + payload.bytes IN
  declared' = IF end > declared THEN end ELSE declared

Descend(payload) ==
  /\ GoOn(Boundary, Append(Debited, payload), Append(ends, EndOf(payload)))
  /\ Consumed(0)
  /\ UNCHANGED unit

CountPayload(box, payload) ==
  /\ GoOn(CASE ~payload.known -> State("toEnd", 0, NoBox, 0)
            [] payload = Known(0) -> Boundary
            [] OTHER -> State("payload", 0, NoBox, payload.bytes),
          Debited, ends)
  /\ Consumed(IF IsLarge(payload) THEN HeaderLen(box) ELSE 0)
  /\ unit' = [begin |-> offset + 1, end |-> EndOf(payload)]

OpenBox(box) ==
  \E size \in DeclaredSizes(box.form) :
    /\ ~BoxRejected(box, size)
    /\ seenFirst' = TRUE
    /\ Declare(Payload(box, size))
    /\ IF box.type.container THEN Descend(Payload(box, size))
       ELSE CountPayload(box, Payload(box, size))

(***************************************************************************)
(* The bytes.                                                              *)
(***************************************************************************)
\* The size form and the type of the box whose header grows to `len` bytes.
BoxAt(len) == IF len = HeaderMin THEN Boxes ELSE {state.box}

Completes(len, box) == len >= HeaderMin /\ len = HeaderLen(box)

HeaderByte ==
  LET len == state.len + 1 IN
  /\ state.kind = "header" /\ ~Overrun
  /\ \E box \in BoxAt(len) :
       IF Completes(len, box) THEN OpenBox(box)
       ELSE /\ GoOn(State("header", len, box, 0), Debited, ends)
            /\ Consumed(0)
            /\ UNCHANGED <<seenFirst, unit, declared>>

PayloadByte ==
  /\ state.kind = "payload" /\ ~Overrun
  /\ GoOn(IF state.remaining = 1 THEN Boundary
          ELSE [state EXCEPT !.remaining = @ - 1], Debited, ends)
  /\ Consumed(0)
  /\ UNCHANGED <<seenFirst, unit, declared>>

\* The rest of the stream belongs to an open-ended box.
PayloadToEndByte ==
  /\ state.kind = "toEnd"
  /\ Consumed(0)
  /\ UNCHANGED <<state, open, ends, seenFirst, unit, declared>>

\* The walker refuses the byte; the driver never calls it again.
Refuse(moved) ==
  /\ phase = "walking" /\ phase' = "faulted"
  /\ offset' = offset + moved /\ report' = 0
  /\ UNCHANGED <<state, open, ends, seenFirst, unit, declared>>

\* A container is too short for the byte.
OverrunFault ==
  /\ state.kind \in {"header", "payload"} /\ Overrun
  /\ offset < MaxBytes
  /\ Refuse(1)

\* A complete header declares what cannot be.
HeaderFault ==
  LET len == state.len + 1 IN
  /\ state.kind = "header" /\ ~Overrun
  /\ offset < MaxBytes
  /\ \E box \in BoxAt(len) :
       /\ Completes(len, box)
       /\ \E size \in DeclaredSizes(box.form) : BoxRejected(box, size)
  /\ Refuse(1)

(***************************************************************************)
(* The end of the stream: finish.                                          *)
(***************************************************************************)
AllClosed == \A i \in DOMAIN open : ~open[i].known

\* Mutant: any box boundary will do.
EndsAtAnyBoundary == (AtBoxBoundary /\ seenFirst) \/ state.kind = "toEnd"

EndsWell == (AtBoxBoundary /\ AllClosed /\ seenFirst) \/ state.kind = "toEnd"

FinishOk ==
  /\ phase = "walking" /\ EndsWell
  /\ phase' = "ended"
  /\ UNCHANGED <<state, open, offset, seenFirst, report, ends, unit, declared>>

FinishTruncated == ~EndsWell /\ Refuse(0)

Next ==
  \/ HeaderByte \/ PayloadByte \/ PayloadToEndByte
  \/ OverrunFault \/ HeaderFault
  \/ FinishOk \/ FinishTruncated

Spec == Init /\ [][Next]_vars

------------------------------------------------------------------------------
(***************************************************************************)
(* Properties.                                                             *)
(***************************************************************************)
HeaderMax == HeaderMin + LargeExtra + UuidExtra

(* The types of the variables.  The stack never outgrows the capacity the   *)
(* walker reserves for it.                                                  *)
TypeOK ==
  /\ state \in [kind : {"header", "payload", "toEnd"}, len : 0..HeaderMax,
                box : Boxes, remaining : 0..MaxSize]
  /\ open \in Seq(Sizes(MaxSize)) /\ Len(open) <= MaxDepth
  /\ ends \in Seq(Sizes(MaxBytes + MaxSize)) /\ Len(ends) = Len(open)
  /\ offset \in 0..MaxBytes
  /\ seenFirst \in BOOLEAN
  /\ report \in 0..HeaderMax
  /\ phase \in {"walking", "ended", "faulted"}
  /\ unit \in [begin : 0..MaxBytes, end : Sizes(MaxBytes + MaxSize)]
  /\ declared \in 0..(MaxBytes + MaxSize)

(* The counters tell the truth about the nesting: what a container has left *)
(* is the distance to its declared end, whatever was charged at whatever    *)
(* depth; a container ends where its parent does or before; only the        *)
(* outermost may be open-ended; and the payload under way ends inside the   *)
(* innermost.                                                               *)
ExtentsNest ==
  phase = "walking" =>
    /\ \A i \in DOMAIN open :
         open[i] = IF ends[i].known THEN Known(ends[i].bytes - offset) ELSE ToEnd
    /\ \A i, j \in DOMAIN ends :
         i < j => /\ ends[j].known
                  /\ ends[i].known => ends[j].bytes <= ends[i].bytes
    /\ state.kind = "payload" =>
         /\ unit.end = Known(offset + state.remaining)
         /\ \A i \in DOMAIN ends :
              ends[i].known => offset + state.remaining <= ends[i].bytes

(* At a box boundary no exhausted container is left open, so that the next  *)
(* box belongs to a container that still has room for it: the box after an  *)
(* exhausted container is its sibling and never its child.                  *)
BoundaryIsLive ==
  phase = "walking" /\ AtBoxBoundary =>
    \A i \in DOMAIN open : open[i] # Known(0)

(* A payload that was accepted runs to its end: the size check of its       *)
(* header against the innermost container alone is enough for every byte of *)
(* the payload to be covered by all of them, so the walker never faults     *)
(* inside a payload.                                                        *)
PayloadNeverOverruns ==
  [][state.kind = "payload" /\ offset' = offset + 1 => phase' # "faulted"]_vars

(* A stream is accepted only if it ends exactly where its boxes say, unless *)
(* a box is open to the end: no declared box is cut short.                  *)
FinishedWhole ==
  phase = "ended" /\ state.kind # "toEnd" => declared = offset

(***************************************************************************)
(* What the driver of ContainerChunker hears of it.                        *)
(***************************************************************************)
InLargePayload ==
  state.kind = "payload" /\ unit.end.bytes - unit.begin >= ChunkMin

Owed ==
  IF InLargePayload /\ offset - unit.begin < ChunkMin
  THEN ChunkMin - (offset - unit.begin) ELSE 0

Heard ==
  [at |-> AtBoxBoundary,
   header |-> IF state.kind = "header" THEN state.len ELSE 0,
   owed |-> Owed,
   open |-> state.kind = "toEnd"]

Isobmff == [unitMin |-> ChunkMin, large |-> TRUE, unknown |-> "stream",
            blanks |-> FALSE, canonical |-> FALSE]

Reports == INSTANCE WalkerReports WITH profile <- Isobmff, walker <- Heard

(* The walker reports boxes as the driver relies on: a large box at the     *)
(* byte that completes its header, with the header's length, and at least   *)
(* the unit minimum of payload before the next boundary.                    *)
ImplementsReports == Reports!Spec
==============================================================================
