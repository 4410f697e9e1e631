------------------------------ MODULE GzipReader ------------------------------
(***************************************************************************)
(* The gzip level of the decomposer: GzipReader (decompose/gzip.rs), which *)
(* frames concatenated members around the inflater, and GzReader           *)
(* (decompose/decomposer.rs), which holds the output back until it knows   *)
(* whether it is a TAR archive or one plain member.                        *)
(*                                                                         *)
(* What a header or a trailer says is chosen when its last byte is in.     *)
(* Output is a length, and a CRC-32 how much output it has absorbed.       *)
(***************************************************************************)
EXTENDS Inflater, ReaderEvents, Functions

CONSTANTS
  HeaderLen, TrailerLen, \* the fixed header, and CRC-32 with ISIZE
  NameMax,               \* NAME_MAX
  Threshold,             \* PROBE_PREFIX_MAX_BYTES, and one TAR block
  Wrap,                  \* ISIZE counts modulo 2^32
  MaxExtra,              \* bound on an extra field
  MaxOut                 \* bound on the output

ASSUME GzipAssumption ==
  /\ {HeaderLen, TrailerLen} \subseteq Nat \ {0, 1}
  /\ {Wrap, Threshold} \subseteq Nat \ {0}
  /\ {NameMax, MaxExtra, MaxOut} \subseteq Nat

VARIABLES
  state,     \* what the reader is collecting
  flags,     \* the optional parts of the header
  nameLen,   \* bytes of the first member's name
  first,     \* whether this is the first member
  inflater,
  sums,      \* the running checks of this member: CRC-32 and ISIZE
  inner,     \* what the output is taken for, and how much came of it
  events,    \* what the last byte made the reader report
  phase,     \* "reading", "ended" or "faulted"
  decoded,   \* ghost: what this member's body decodes to so far
  total,     \* ghost: what all bodies decode to so far
  beyond     \* ghost: bytes behind the end of this member's body

framing == <<state, flags, nameLen, first>>
ghosts == <<decoded, total, beyond>>
vars == <<framing, inflater, sums, inner, events, phase, ghosts>>

Header(len) == [kind |-> "header", len |-> len]
ExtraLen(len) == [kind |-> "extraLen", len |-> len]
Extra(remaining) == [kind |-> "extra", len |-> remaining]
Name == [kind |-> "name", len |-> 0]
Comment == [kind |-> "comment", len |-> 0]
HeaderCrc(len) == [kind |-> "headerCrc", len |-> len]
Body == [kind |-> "body", len |-> 0]
Trailer(len) == [kind |-> "trailer", len |-> len]
Between == [kind |-> "between", len |-> 0]

Inner(kind, len) == [kind |-> kind, len |-> len]
NewSums == [crc |-> 0, isize |-> 0]

Init ==
  /\ state = Header(0) /\ flags = {} /\ nameLen = 0 /\ first = TRUE
  /\ inflater = NewInflater /\ sums = NewSums
  /\ inner = Inner("detect", 0)
  /\ events = <<>> /\ phase = "reading"
  /\ decoded = 0 /\ total = 0 /\ beyond = 0

Reading == phase = "reading" /\ UNCHANGED phase

Refuse ==
  /\ phase = "reading" /\ phase' = "faulted"
  /\ events' = <<>>
  /\ UNCHANGED <<framing, inflater, sums, inner, ghosts>>

\* A byte of the framing: no output.
Framed(next) ==
  /\ Reading
  /\ state' = next /\ events' = <<>>
  /\ UNCHANGED <<inflater, inner>>

(***************************************************************************)
(* The header.                                                             *)
(***************************************************************************)
\* The parts that flags call for, in the order they are written.
Parts == <<"extra", "name", "comment", "crc">>

PartState ==
  [extra |-> ExtraLen(0), name |-> Name, comment |-> Comment, crc |-> HeaderCrc(0)]

\* next_part: the first flagged part behind the first `done` of them.
NextPart(flagged, done) ==
  LET left == {i \in (done + 1)..Len(Parts) : Parts[i] \in flagged} IN
  IF left = {} THEN Body
  ELSE PartState[Parts[CHOOSE i \in left : \A j \in left : i <= j]]

HeaderByte ==
  /\ state.kind = "header"
  /\ \/ /\ state.len + 1 < HeaderLen
        /\ Framed(Header(state.len + 1)) /\ UNCHANGED flags
     \/ /\ state.len + 1 = HeaderLen
        /\ flags' \in SUBSET Range(Parts)
        /\ Framed(NextPart(flags', 0))
  /\ UNCHANGED <<nameLen, first, sums, ghosts>>

\* Not a gzip header, another method, or reserved flags.
BadHeader == state.kind = "header" /\ state.len + 1 = HeaderLen /\ Refuse

ExtraByte ==
  /\ \/ /\ state = ExtraLen(0) /\ Framed(ExtraLen(1))
     \/ /\ state = ExtraLen(1)
        /\ \E n \in 0..MaxExtra : Framed(IF n = 0 THEN NextPart(flags, 1) ELSE Extra(n))
     \/ /\ state.kind = "extra"
        /\ Framed(IF state.len = 1 THEN NextPart(flags, 1) ELSE Extra(state.len - 1))
  /\ UNCHANGED <<flags, nameLen, first, sums, ghosts>>

\* Only the first member's name is kept, and only up to a bound.
NameByte ==
  /\ state = Name
  /\ \/ /\ Framed(NextPart(flags, 2)) /\ UNCHANGED nameLen
     \/ /\ first /\ nameLen < NameMax
        /\ Framed(Name) /\ nameLen' = nameLen + 1
     \/ /\ ~first
        /\ Framed(Name) /\ UNCHANGED nameLen
  /\ UNCHANGED <<flags, first, sums, ghosts>>

NameTooLong == state = Name /\ first /\ nameLen >= NameMax /\ Refuse

CommentByte ==
  /\ state = Comment
  /\ \E next \in {Comment, NextPart(flags, 3)} : Framed(next)
  /\ UNCHANGED <<flags, nameLen, first, sums, ghosts>>

HeaderCrcByte ==
  /\ state.kind = "headerCrc"
  /\ Framed(IF state.len = 0 THEN HeaderCrc(1) ELSE Body)
  /\ UNCHANGED <<flags, nameLen, first, sums, ghosts>>

(***************************************************************************)
(* What the output is: GzReader::route and decide.                         *)
(***************************************************************************)
\* push_bytes leaves out an empty window.
Bytes(n) == IF n = 0 THEN <<>> ELSE <<Data(n)>>

\* The possible levels and what each reports.  What a TAR archive reports is
\* the contract of TarReader.
Routing(kind, len, reported) == [inner |-> Inner(kind, len), events |-> reported]

\* Mutant: what was held back is not counted.
SingleUncounted(len) == Routing("single", 0, <<Start(0, Undeclared)>> \o Bytes(len))

\* One plain member begins with all that was held back.
Single(len) == Routing("single", len, <<Start(0, Undeclared)>> \o Bytes(len))

Decisions(len) ==
  {Single(len)} \cup (IF len >= Threshold THEN {Routing("tar", len, <<>>)} ELSE {})

Routings(out) ==
  LET len == inner.len + out IN
  IF out = 0 THEN {Routing(inner.kind, inner.len, <<>>)}
  ELSE IF inner.kind = "single" THEN {Routing("single", len, Bytes(out))}
  ELSE IF inner.kind = "detect" /\ len >= Threshold THEN Decisions(len)
  ELSE {Routing(inner.kind, len, <<>>)}

(***************************************************************************)
(* The body and the trailer.                                               *)
(***************************************************************************)
\* Mutant: what the inflater read too much is lost.
UnreplayedState(inflated) == IF inflated.done THEN Trailer(0) ELSE Body

\* What the inflater read too much is read again as the trailer's.
BodyState(inflated) == IF inflated.done THEN Trailer(Len(inflated.staged)) ELSE Body

Over == inflater.decoder.over

BodyByte ==
  /\ state = Body /\ Reading
  /\ \E byte \in {b \in CompressedByte : ~Over => total + b.grows <= MaxOut} :
       LET inflated == DrainNow(PushByte(inflater, byte))
           out == inflated.pending
       IN /\ inflated.fault = "none"
          /\ state' = BodyState(inflated)
          /\ inflater' = TakePending(IF inflated.done THEN TakeTrailing(inflated) ELSE inflated)
          /\ sums' = [crc |-> sums.crc + out, isize |-> sums.isize + out]
          /\ \E routing \in Routings(out) :
               inner' = routing.inner /\ events' = routing.events
          /\ decoded' = IF Over THEN decoded ELSE decoded + byte.grows
          /\ total' = IF Over THEN total ELSE total + byte.grows
          /\ beyond' = IF Over THEN beyond + 1 ELSE 0
  /\ UNCHANGED <<flags, nameLen, first>>

\* A body that is not deflate's, or a TAR archive that is not one.
BadBody == state = Body /\ Refuse

\* What a trailer may say, and whether it is what was inflated.
Claims == [crc : 0..MaxOut, isize : 0..(Wrap - 1)]
Matches(claim) == claim.crc = sums.crc /\ claim.isize = sums.isize % Wrap

TrailerByte ==
  /\ state.kind = "trailer"
  /\ \/ /\ state.len + 1 < TrailerLen
        /\ Framed(Trailer(state.len + 1))
     \/ /\ state.len + 1 = TrailerLen
        /\ \E claim \in Claims : Matches(claim)
        /\ Framed(Between)
  /\ beyond' = beyond + 1
  /\ UNCHANGED <<flags, nameLen, first, sums, decoded, total>>

BadTrailer ==
  /\ state.kind = "trailer" /\ state.len + 1 = TrailerLen
  /\ \E claim \in Claims : ~Matches(claim)
  /\ Refuse

\* Mutant: the next member's length counts on from this one's.
FreshCrc(old) == [old EXCEPT !.crc = 0]

Fresh(old) == NewSums

\* A concatenated member begins with this byte.
NextMember ==
  /\ state = Between /\ Reading
  /\ state' = Header(1) /\ events' = <<>>
  /\ inflater' = NewInflater /\ sums' = Fresh(sums) /\ first' = FALSE
  /\ decoded' = 0 /\ beyond' = 0
  /\ UNCHANGED <<flags, nameLen, inner, total>>

(***************************************************************************)
(* The end of the input.                                                   *)
(***************************************************************************)
FinishOk ==
  /\ phase = "reading" /\ phase' = "ended"
  /\ state = Between
  /\ \E level \in (IF inner.kind = "detect" THEN Decisions(inner.len)
                   ELSE {Routing(inner.kind, inner.len, <<>>)}) :
       /\ inner' = level.inner
       /\ events' = level.events
                    \o (IF level.inner.kind = "single" THEN <<End(level.inner.len)>> ELSE <<>>)
  /\ UNCHANGED <<framing, inflater, sums, ghosts>>

\* Inside a member, or inside the TAR archive.
FinishTruncated == (state # Between \/ inner.kind = "tar") /\ Refuse

Next ==
  \/ HeaderByte \/ BadHeader \/ ExtraByte \/ NameByte \/ NameTooLong
  \/ CommentByte \/ HeaderCrcByte \/ BodyByte \/ BadBody \/ TrailerByte
  \/ BadTrailer \/ NextMember \/ FinishOk \/ FinishTruncated

Spec == Init /\ [][Next]_vars

(***************************************************************************)
(* Properties.                                                             *)
(***************************************************************************)
\* When a member's trailer is compared, and between members, all that its body
\* decodes to has left the inflater, was summed once, and was handed on: a
\* correct trailer is never refused, and no wrong one passes for what was held
\* back (drain_inflater and the Between state).
MemberIsWhole ==
  state.kind \in {"trailer", "between"} =>
    /\ sums.crc = decoded /\ sums.isize = decoded
    /\ inner.len = total

\* The trailer begins with the byte behind the body's last, also when the
\* inflater sees the end only while it holds bytes that are not its own
\* (take_trailing and the replay queue).
TrailerFollowsBody ==
  /\ state = Body => beyond = 0
  /\ state.kind = "trailer" => state.len = beyond

(***************************************************************************)
(* What the decomposer hears of it.                                        *)
(***************************************************************************)
Member ==
  IF inner.kind # "single" THEN Idle(0)
  ELSE IF phase = "ended" THEN Idle(1)
  ELSE [open |-> TRUE, size |-> Undeclared, got |-> inner.len, ordinal |-> 1]

Contract == INSTANCE ReaderContract WITH member <- Member

\* The reader keeps the contract of its events: the member is announced before
\* its first byte however late that is decided, and ends with the count of all
\* that was handed on, from every concatenated member.
KeepsContract == Contract!Spec
==============================================================================
