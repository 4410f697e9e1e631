------------------------------ MODULE ZipWalker ------------------------------
(***************************************************************************)
(* The ZIP walker (chunker/zip/walker): local headers and member data,     *)
(* data descriptors, the central directory and the end records, read once  *)
(* in stream order.                                                        *)
(*                                                                         *)
(* A record is its signature, a fixed part and, for headers, a variable    *)
(* part; what it declares is chosen when the part is complete.  Bytes      *)
(* carry a value only where the walker matches them: behind a member that  *)
(* ends with a data descriptor.                                            *)
(***************************************************************************)
EXTENDS Integers, SequencesExt

CONSTANTS
  FixedLen,    \* the length of the fixed part of each kind of record
  Base,        \* bytes are the numbers below Base
  Methods,     \* compression methods
  Ratio, Slack,\* MAX_DEFLATE_RATIO and DEFLATE_RATIO_SLACK
  ChunkMin,    \* GENERIC_CDC_CHUNK_MIN_BYTES
  Areas,       \* extra areas: sequences of fields
  MaxSize,     \* bound on a size a header declares
  MaxVariable, \* bound on the variable part of a header
  MaxSkip,     \* bound on a comment and on ZIP64 extensible data
  MaxScan,     \* bound on the bytes of one scan
  MaxBytes     \* bound on the length of the stream

Records == {"local", "central", "end", "zip64End", "zip64Locator"}

\* A field of an extra area: ZIP64 values, something else, or broken.
ExtraFields == [kind : {"zip64"}, values : Seq(Nat)] \cup [kind : {"other", "malformed"}]

ASSUME ZipAssumption ==
  /\ FixedLen \in [Records -> Nat \ {0}]
  /\ Base \in Nat /\ Base >= 2
  /\ Methods \subseteq {"stored", "deflate", "other"}
  /\ {Ratio, Slack, MaxSize, MaxVariable, MaxSkip, MaxScan, MaxBytes} \subseteq Nat
  /\ ChunkMin \in Nat \ {0}
  /\ Areas \subseteq Seq(ExtraFields)

VARIABLES
  state,        \* what the walker is collecting
  phase,        \* where it stands in the end-of-archive sequence
  offset,       \* bytes consumed
  localCount, centralCount,
  centralStart, \* where the central directory begins, None before
  centralEnd,   \* where it ended
  zip64End,     \* the ZIP64 end record, or None
  claims,       \* ghost: the fields of the end record that was accepted
  report,       \* what the last consume returned: a large member's header length
  events,       \* what the last consume told the observer
  status,       \* "walking", "ended" or "faulted"
  stream,       \* ghost: the bytes since the scan began
  begun,        \* ghost: where the record or member under way began
  tap,          \* ghost: where the observer stands
  account       \* ghost: how many members the observer heard to their end,
                \* and where it heard the directory begin

archive == <<localCount, centralCount, centralStart, centralEnd, zip64End, claims>>
vars == <<state, phase, offset, archive, report, events, status, stream, begun, tap,
          account>>

None == -1
NoEnd == [entries |-> None, size |-> None, offset |-> None]

\* The 32-bit and 16-bit fields that defer to a ZIP64 value hold it.
Marker == MaxBytes + MaxSize + 1

Bytes == 0..(Base - 1)

\* The signature of a data descriptor: two different bytes (four in the code).
DataDescriptor == <<Base - 2, Base - 1>>
SigLen == Len(DataDescriptor)

(***************************************************************************)
(* The states.                                                             *)
(***************************************************************************)
Signature(len) == [kind |-> "signature", len |-> len]
Fixed(record, len) == [kind |-> "fixed", record |-> record, len |-> len]
Variable(record, total, len) ==
  [kind |-> "variable", record |-> record, total |-> total, len |-> len]
Data(remaining, total, uncompressed, method, descriptor, zip64) ==
  [kind |-> "data", remaining |-> remaining, total |-> total,
   uncompressed |-> uncompressed, method |-> method,
   descriptor |-> descriptor, zip64 |-> zip64]
DataScan(consumed, method, zip64, held) ==
  [kind |-> "scan", consumed |-> consumed, method |-> method, zip64 |-> zip64,
   held |-> held]
Descriptor(dataLen, method, zip64, held) ==
  [kind |-> "descriptor", dataLen |-> dataLen, method |-> method,
   zip64 |-> zip64, held |-> held]
Skip(remaining, then) == [kind |-> "skip", remaining |-> remaining, then |-> then]

AtRecord == Signature(0)

AtMemberBoundary == state = AtRecord /\ phase = "members"

(***************************************************************************)
(* What the observer of the office profiles hears.                         *)
(***************************************************************************)
Silent == [header |-> {}, data |-> <<>>, end |-> {}, central |-> FALSE]
Told(field, value) == [Silent EXCEPT ![field] = value]

\* A member's end: its sizes, and whether they are those of its descriptor.
Ended(compressed, uncompressed, described) ==
  {[compressed |-> compressed, uncompressed |-> uncompressed, described |-> described]}

Tapped(t, e) ==
  LET opened == IF e.header = {} THEN t
                ELSE [at |-> IF t.at = "between" THEN "member" ELSE "broken",
                      data |-> 0, described |-> \A h \in e.header : h.descriptor]
      fed == IF e.data = <<>> THEN opened
             ELSE [opened EXCEPT !.data = @ + Len(e.data),
                                 !.at = IF @ = "member" THEN @ ELSE "broken"]
      closed == IF e.end = {} THEN fed
                ELSE [fed EXCEPT !.at = IF @ = "member" THEN "between" ELSE "broken"]
  IN IF ~e.central THEN closed
     ELSE [closed EXCEPT !.at = IF @ = "between" THEN "central" ELSE "broken"]

Init ==
  /\ state = AtRecord /\ phase = "members"
  /\ offset = 0
  /\ localCount = 0 /\ centralCount = 0
  /\ centralStart = None /\ centralEnd = 0 /\ zip64End = NoEnd /\ claims = NoEnd
  /\ report = 0 /\ events = Silent /\ status = "walking"
  /\ stream = <<>> /\ begun = 0
  /\ tap = [at |-> "between", data |-> 0, described |-> FALSE]
  /\ account = [members |-> 0, directory |-> None]

(***************************************************************************)
(* Every byte goes through one of these.                                   *)
(***************************************************************************)
\* Where the record begins whose signature the next byte completes.
RecordStart == offset + 1 - SigLen

Accounted(told) ==
  [members |-> account.members + (IF told.end = {} THEN 0 ELSE 1),
   directory |-> IF told.central THEN RecordStart ELSE account.directory]

Consumed(reported, told) ==
  /\ status = "walking" /\ UNCHANGED status
  /\ offset < MaxBytes /\ offset' = offset + 1
  /\ report' = reported
  /\ events' = told /\ tap' = Tapped(tap, told) /\ account' = Accounted(told)
  /\ begun' = IF state = AtRecord THEN offset ELSE begun

\* The step fails; the driver never calls the walker again.
Refuse(told) ==
  /\ status = "walking" /\ status' = "faulted"
  /\ offset < MaxBytes /\ offset' = offset + 1
  /\ report' = 0
  /\ events' = told /\ tap' = Tapped(tap, told)
  /\ UNCHANGED <<state, phase, archive, stream, begun, account>>

GoOn(next, reported, told) ==
  /\ state' = next
  /\ Consumed(reported, told)

(***************************************************************************)
(* The values of a header.                                                 *)
(***************************************************************************)
\* Zip64Extra::find: the first ZIP64 field, unless the area is broken before.
Find(area) ==
  LET hits == {i \in DOMAIN area : area[i].kind # "other"} IN
  IF hits = {} THEN [kind |-> "missing"] ELSE area[CHOOSE i \in hits : \A j \in hits : i <= j]

\* The i-th field takes the next ZIP64 value if it holds the marker.
Rank(fields, i) == Cardinality({j \in 1..i : fields[j] = Marker})

Deferred(fields) == \E i \in DOMAIN fields : fields[i] = Marker
Resolvable(fields, area) ==
  Deferred(fields) =>
    /\ Find(area).kind = "zip64"
    /\ Rank(fields, Len(fields)) <= Len(Find(area).values)
Resolved(fields, area) ==
  [i \in DOMAIN fields |->
     IF fields[i] = Marker THEN Find(area).values[Rank(fields, i)] ELSE fields[i]]

\* MemberSizes::check.
Plausible(method, compressed, uncompressed) ==
  /\ method = "stored" => compressed = uncompressed
  /\ method = "deflate" => uncompressed <= compressed * Ratio + Slack

Fields == (0..MaxSize) \cup {Marker}

LocalHeaders ==
  [method : Methods, descriptor : BOOLEAN, compressed : Fields, uncompressed : Fields]
NeedsZip64(header) == Deferred(<<header.uncompressed, header.compressed>>)

\* An extra area lies in the variable part.
AreasIn(total) == {area \in Areas : Len(area) <= total}

(***************************************************************************)
(* Data descriptors.                                                       *)
(***************************************************************************)
Width(zip64) == IF zip64 THEN 2 ELSE 1
BodyLen(zip64) == 1 + 2 * Width(zip64)
LittleEndian(bytes) == FoldRight(LAMBDA byte, high : byte + Base * high, bytes, 0)
Compressed(body, zip64) == LittleEndian(SubSeq(body, 2, 1 + Width(zip64)))
Uncompressed(body, zip64) ==
  LittleEndian(SubSeq(body, 2 + Width(zip64), BodyLen(zip64)))

\* A whole descriptor that covers `consumed` bytes.
Closes(held, consumed, zip64) ==
  /\ Len(held) >= SigLen + BodyLen(zip64)
  /\ Compressed(SubSeq(held, SigLen + 1, Len(held)), zip64) = consumed

\* Mutant: only the first byte of the signature is compared.
StartsLikeDescriptor(held) == Len(held) < SigLen \/ held[1] = DataDescriptor[1]

LooksLikeDescriptor(held) ==
  Len(held) < SigLen \/ SubSeq(held, 1, SigLen) = DataDescriptor

\* Mutant: a false descriptor is given up as a whole.
AllOrNothing(held, consumed, zip64) ==
  IF /\ LooksLikeDescriptor(held)
     /\ Len(held) < SigLen + BodyLen(zip64) \/ Closes(held, consumed, zip64)
  THEN 0 ELSE Len(held)

\* How many of the held bytes are member data: they leave one by one until
\* the rest may still become a descriptor or is one.
Released(held, consumed, zip64) ==
  CHOOSE n \in 0..Len(held) :
    LET Holds(k) ==
          LET rest == SubSeq(held, k + 1, Len(held)) IN
          /\ LooksLikeDescriptor(rest)
          /\ \/ Len(rest) < SigLen + BodyLen(zip64)
             \/ Closes(rest, consumed + k, zip64)
    IN Holds(n) /\ \A k \in 0..n-1 : ~Holds(k)

ScanByte ==
  /\ state.kind = "scan" /\ Len(stream) < MaxScan
  /\ UNCHANGED <<phase, archive>>
  /\ \E byte \in Bytes :
       LET zip64 == state.zip64
           held == Append(state.held, byte)
           n == Released(held, state.consumed, zip64)
           rest == SubSeq(held, n + 1, Len(held))
           body == SubSeq(rest, SigLen + 1, Len(rest))
           consumed == state.consumed + n
           data == Told("data", SubSeq(held, 1, n)) IN
       /\ stream' = Append(stream, byte)
       /\ IF ~Closes(rest, consumed, zip64)
          THEN GoOn(DataScan(consumed, state.method, state.zip64, rest), 0, data)
          ELSE /\ Plausible(state.method, consumed, Uncompressed(body, zip64))
               /\ GoOn(AtRecord, 0,
                       [data EXCEPT !.end = Ended(consumed, Uncompressed(body, zip64), TRUE)])

ScanRefused ==
  /\ state.kind = "scan"
  /\ \E byte \in Bytes :
       LET zip64 == state.zip64
           held == Append(state.held, byte)
           n == Released(held, state.consumed, zip64)
           rest == SubSeq(held, n + 1, Len(held))
           body == SubSeq(rest, SigLen + 1, Len(rest)) IN
       /\ Closes(rest, state.consumed + n, zip64)
       /\ ~Plausible(state.method, state.consumed + n, Uncompressed(body, zip64))
       /\ Refuse(Told("data", SubSeq(held, 1, n)))

\* try_close_descriptor: behind data of known size the signature is optional.
DescriptorByte ==
  /\ state.kind = "descriptor"
  /\ \E byte \in Bytes :
       LET zip64 == state.zip64
           held == Append(state.held, byte)
           signed == SubSeq(held, 1, SigLen) = DataDescriptor
           total == (IF signed THEN SigLen ELSE 0) + BodyLen(zip64)
           body == SubSeq(held, total - BodyLen(zip64) + 1, total) IN
       IF Len(held) < SigLen \/ Len(held) < total
       THEN GoOn([state EXCEPT !.held = held], 0, Silent)
            /\ UNCHANGED <<phase, archive, stream>>
       ELSE IF /\ Compressed(body, zip64) = state.dataLen
               /\ Plausible(state.method, state.dataLen, Uncompressed(body, zip64))
       THEN /\ GoOn(AtRecord, 0,
                    Told("end", Ended(state.dataLen, Uncompressed(body, zip64), TRUE)))
            /\ UNCHANGED <<phase, archive, stream>>
       ELSE Refuse(Silent)

(***************************************************************************)
(* Signatures.                                                             *)
(***************************************************************************)
SignatureByte ==
  /\ state.kind = "signature" /\ phase # "complete"
  /\ state.len + 1 < SigLen
  /\ GoOn(Signature(state.len + 1), 0, Silent)
  /\ stream' = <<>> /\ UNCHANGED <<phase, archive>>

TrailingByte == state.kind = "signature" /\ phase = "complete" /\ Refuse(Silent)

\* begin_end_sequence.
EndSequenceBegins ==
  /\ centralStart' = IF centralStart = None THEN RecordStart ELSE centralStart
  /\ centralEnd' = RecordStart
  /\ UNCHANGED <<localCount, centralCount, zip64End, claims>>

DirectoryBegins ==
  /\ centralStart' = RecordStart
  /\ UNCHANGED <<localCount, centralCount, centralEnd, zip64End, claims>>

InDirectory == phase \in {"members", "central"}

\* Mutant: every record of the directory is told.
TellsAny(record) == record # "local"

\* The first record that is no member tells that the directory begins.
TellsDirectory(record) == phase = "members" /\ record # "local"

\* dispatch_signature, and the records the phase admits.
DispatchSignature ==
  /\ state = Signature(SigLen - 1) /\ phase # "complete"
  /\ UNCHANGED stream
  /\ \E record \in Records :
       /\ GoOn(Fixed(record, 0), 0,
               Told("central", TellsDirectory(record)))
       /\ \/ record = "local" /\ phase = "members" /\ UNCHANGED <<phase, archive>>
          \/ record = "central" /\ phase = "members" /\ phase' = "central" /\ DirectoryBegins
          \/ record = "central" /\ phase = "central" /\ UNCHANGED <<phase, archive>>
          \/ record = "zip64End" /\ InDirectory /\ phase' = "zip64EndSeen" /\ EndSequenceBegins
          \/ /\ record = "zip64Locator" /\ phase = "zip64EndSeen"
             /\ phase' = "locatorSeen" /\ UNCHANGED archive
          \/ record = "end" /\ InDirectory /\ UNCHANGED phase /\ EndSequenceBegins
          \/ record = "end" /\ phase = "locatorSeen" /\ UNCHANGED <<phase, archive>>

\* No known signature, or one out of its place in the sequence.
SignatureRefused ==
  state = Signature(SigLen - 1) /\ phase # "complete" /\ Refuse(Silent)

(***************************************************************************)
(* Fixed and variable parts.                                               *)
(***************************************************************************)
FixedByte ==
  /\ state.kind = "fixed" /\ state.len + 1 < FixedLen[state.record]
  /\ GoOn([state EXCEPT !.len = @ + 1], 0, Silent)
  /\ UNCHANGED <<phase, archive, stream>>

Completes(record) == state = Fixed(record, FixedLen[record] - 1)

VariableByte ==
  /\ state.kind = "variable" /\ state.len + 1 < state.total
  /\ GoOn([state EXCEPT !.len = @ + 1], 0, Silent)
  /\ UNCHANGED <<phase, archive, stream>>

\* A header is counted when its fixed part is complete.
Counted(record) ==
  LET one(kind) == IF record = kind /\ Completes(kind) THEN 1 ELSE 0 IN
  /\ localCount' = localCount + one("local")
  /\ centralCount' = centralCount + one("central")
  /\ UNCHANGED <<centralStart, centralEnd, zip64End, claims>>

\* begin_variable.
BeginVariable ==
  /\ \E record \in {"local", "central"}, total \in 1..MaxVariable :
       /\ Completes(record) /\ Counted(record)
       /\ GoOn(Variable(record, total, 0), 0, Silent)
  /\ UNCHANGED <<phase, stream>>

\* The length of the variable part of a header of this kind that completes now.
Totals(record) ==
  IF Completes(record) THEN {0}
  ELSE IF state.kind = "variable" /\ state.record = record /\ state.len + 1 = state.total
  THEN {state.total} ELSE {}

\* Mutant: the signature is not counted.
LengthUnsigned(total) == FixedLen["local"] + total

HeaderLength(total) == SigLen + FixedLen["local"] + total

\* The header of a member of known size.
KnownMember(header, sizes, total) ==
  LET compressed == sizes[2]
      told == Told("header", {[descriptor |-> header.descriptor]}) IN
  /\ Plausible(header.method, compressed, sizes[1])
  /\ IF compressed = 0
     THEN GoOn(AtRecord, 0, [told EXCEPT !.end = Ended(0, sizes[1], FALSE)])
     ELSE GoOn(Data(compressed, compressed, sizes[1], header.method,
                    header.descriptor, NeedsZip64(header)),
               IF compressed >= ChunkMin THEN HeaderLength(total) ELSE 0, told)

LocalComplete ==
  /\ \E total \in Totals("local") : \E header \in LocalHeaders, area \in AreasIn(total) :
       LET fields == <<header.uncompressed, header.compressed>> IN
       IF header.descriptor /\ header.compressed = 0
       THEN GoOn(DataScan(0, header.method, NeedsZip64(header), <<>>), 0,
                 Told("header", {[descriptor |-> TRUE]}))
       ELSE /\ Resolvable(fields, area)
            /\ KnownMember(header, Resolved(fields, area), total)
  /\ Counted("local") /\ stream' = <<>>
  /\ UNCHANGED phase

LocalRefused ==
  \E total \in Totals("local") : \E header \in LocalHeaders, area \in AreasIn(total) :
    LET fields == <<header.uncompressed, header.compressed>> IN
    /\ ~(header.descriptor /\ header.compressed = 0)
    /\ IF ~Resolvable(fields, area) THEN Refuse(Silent)
       ELSE LET sizes == Resolved(fields, area) IN
            /\ ~Plausible(header.method, sizes[2], sizes[1])
            /\ Refuse(Told("header", {[descriptor |-> header.descriptor]}))

\* The entries of the directory: their sizes are only checked for what no
\* member can carry, and they lie before the directory.
CentralComplete ==
  \E total \in Totals("central") : \E method \in Methods, area \in AreasIn(total) :
    \E fields \in Fields \X Fields \X {0, centralStart, Marker} :
      IF /\ Resolvable(fields, area)
         /\ LET sizes == Resolved(fields, area) IN
            /\ Plausible(method, sizes[2], sizes[1])
            /\ sizes[3] < centralStart
      THEN /\ GoOn(AtRecord, 0, Silent)
           /\ Counted("central") /\ UNCHANGED <<phase, stream>>
      ELSE Refuse(Silent)

(***************************************************************************)
(* Data of known size, and bytes that are skipped.                         *)
(***************************************************************************)
DataByte ==
  /\ state.kind = "data"
  /\ UNCHANGED <<phase, archive, stream>>
  /\ LET data == Told("data", <<0>>) IN
     IF state.remaining > 1
     THEN GoOn([state EXCEPT !.remaining = @ - 1], 0, data)
     ELSE IF state.descriptor
     THEN GoOn(Descriptor(state.total, state.method, state.zip64, <<>>), 0, data)
     ELSE GoOn(AtRecord, 0,
               [data EXCEPT !.end = Ended(state.total, state.uncompressed, FALSE)])

\* skip: `then` holds once nothing is left.
SkipOver(remaining, then) ==
  /\ phase' = IF remaining = 0 THEN then ELSE phase
  /\ GoOn(IF remaining = 0 THEN AtRecord ELSE Skip(remaining, then), 0, Silent)
  /\ UNCHANGED stream

SkipByte ==
  /\ state.kind = "skip"
  /\ SkipOver(state.remaining - 1, state.then)
  /\ UNCHANGED archive

(***************************************************************************)
(* The end records.                                                        *)
(***************************************************************************)
\* A field that claims this number: right, or not.
Near(n) == {n, n + 1}

Zip64EndComplete ==
  /\ Completes("zip64End")
  /\ \E entries \in Near(centralCount), size \in Near(centralEnd - centralStart),
        at \in Near(centralStart), extensible \in 0..MaxSkip :
       /\ zip64End' = [entries |-> entries, size |-> size, offset |-> at]
       /\ SkipOver(extensible, "zip64EndSeen")
  /\ UNCHANGED <<localCount, centralCount, centralStart, centralEnd, claims>>

\* The record's size is shorter than its fixed part.
Zip64EndRefused == Completes("zip64End") /\ Refuse(Silent)

LocatorComplete ==
  /\ Completes("zip64Locator")
  /\ GoOn(AtRecord, 0, Silent)
  /\ UNCHANGED <<phase, archive, stream>>

\* Mutant: where the directory lies is not compared.
ReconcilesCounts(entries, size, at) == entries = centralCount /\ entries = localCount

Reconciles(entries, size, at) ==
  /\ entries = centralCount /\ entries = localCount
  /\ at = centralStart /\ size = centralEnd - centralStart

\* reconcile_end: a marker defers to the ZIP64 record, if there was one.
Effective(field, wide) == IF zip64End # NoEnd /\ field = Marker THEN wide ELSE field

EndComplete ==
  /\ Completes("end")
  /\ \E entries \in Near(centralCount) \cup {Marker},
        size \in Near(centralEnd - centralStart) \cup {Marker},
        at \in Near(centralStart) \cup {Marker}, comment \in 0..MaxSkip :
       IF Reconciles(Effective(entries, zip64End.entries),
                     Effective(size, zip64End.size), Effective(at, zip64End.offset))
       THEN /\ SkipOver(comment, "complete")
            /\ claims' = [entries |-> entries, size |-> size, offset |-> at]
            /\ UNCHANGED <<localCount, centralCount, centralStart, centralEnd, zip64End>>
       ELSE Refuse(Silent)

(***************************************************************************)
(* The end of the stream: finish.                                          *)
(***************************************************************************)
EndsWell == phase = "complete" /\ state = AtRecord

FinishOk ==
  /\ status = "walking" /\ EndsWell
  /\ status' = "ended"
  /\ UNCHANGED <<state, phase, offset, archive, report, events, stream, begun, tap,
                 account>>

FinishTruncated ==
  /\ status = "walking" /\ ~EndsWell
  /\ status' = "faulted" /\ report' = 0
  /\ UNCHANGED <<state, phase, offset, archive, events, stream, begun, tap, account>>

Next ==
  \/ SignatureByte \/ TrailingByte \/ DispatchSignature \/ SignatureRefused
  \/ FixedByte \/ BeginVariable \/ VariableByte
  \/ LocalComplete \/ LocalRefused \/ CentralComplete
  \/ DataByte \/ ScanByte \/ ScanRefused \/ DescriptorByte
  \/ SkipByte \/ Zip64EndComplete \/ Zip64EndRefused \/ LocatorComplete \/ EndComplete
  \/ FinishOk \/ FinishTruncated

Spec == Init /\ [][Next]_vars

------------------------------------------------------------------------------
(***************************************************************************)
(* Properties.                                                             *)
(***************************************************************************)
\* A whole descriptor begins behind the first `at` bytes and covers them.
DescriptorAt(bytes, at, zip64) ==
  LET held == SubSeq(bytes, at + 1, at + SigLen + BodyLen(zip64)) IN
  /\ at + SigLen + BodyLen(zip64) <= Len(bytes)
  /\ SubSeq(held, 1, SigLen) = DataDescriptor
  /\ Closes(held, at, zip64)

(* The types of the variables.                                              *)
TypeOK ==
  /\ offset \in 0..MaxBytes /\ begun \in 0..MaxBytes
  /\ phase \in {"members", "central", "zip64EndSeen", "locatorSeen", "complete"}
  /\ state.kind \in {"signature", "fixed", "variable", "data", "scan", "descriptor", "skip"}
  /\ state.kind = "data" => state.remaining \in 1..state.total
  /\ state.kind = "skip" => state.remaining \in 1..MaxSkip
  /\ state.kind \in {"scan", "descriptor"} =>
       Len(state.held) < SigLen + BodyLen(state.zip64)
  /\ {localCount, centralCount, centralEnd} \subseteq 0..MaxBytes
  /\ centralStart \in {None} \cup 0..MaxBytes
  /\ status \in {"walking", "ended", "faulted"}

(* The scan for the descriptor of a member of unknown size loses and        *)
(* invents nothing: the data told so far and the bytes held back are the    *)
(* bytes that came, and no descriptor was passed over, also none that       *)
(* begins inside a false one.                                               *)
ScanIsLeftmost ==
  state.kind = "scan" =>
    /\ tap.data = state.consumed
    /\ state.held = SubSeq(stream, state.consumed + 1, Len(stream))
    /\ \A at \in 0..Len(stream) : ~DescriptorAt(stream, at, state.zip64)

(* The scan tells the bytes of the member in their order, and ends it only  *)
(* at a descriptor, the first, that covers exactly what was told.           *)
ScanTellsTheData ==
  [][state.kind = "scan" /\ status' = "walking" =>
       /\ events'.data = SubSeq(stream', tap.data + 1, tap'.data)
       /\ events'.end # {} =>
            /\ DescriptorAt(stream', tap'.data, state.zip64)
            /\ tap'.data + SigLen + BodyLen(state.zip64) = Len(stream')]_vars

(* The observer hears a walk over an archive: a header, the data and the    *)
(* end of one member after the other, as many bytes as the end says, then   *)
(* once that the directory begins.                                          *)
MembersAreFramed ==
  /\ tap.at # "broken"
  /\ \A sizes \in events.end : sizes.compressed = tap.data

\* A field of the end record says a number: itself, or by the ZIP64 record
\* that came before.
Says(field, wide, n) ==
  field = n \/ (field = Marker /\ zip64End # NoEnd /\ wide = n)

(* An accepted archive has an entry for every member the observer heard to  *)
(* its end, and the end record says so; the directory is where the end      *)
(* record says, whichever of the two end records said it: it begins where   *)
(* the observer heard it begin and ends where the first end record does.    *)
FinishedWhole ==
  status = "ended" =>
    /\ tap.at = "central" /\ centralCount = account.members
    /\ account.directory \in 0..centralEnd /\ centralEnd < offset
    /\ Says(claims.entries, zip64End.entries, account.members)
    /\ Says(claims.size, zip64End.size, centralEnd - account.directory)
    /\ Says(claims.offset, zip64End.offset, account.directory)

(* "Descriptor members learn both here" (events.rs): a member whose header  *)
(* announces a descriptor ends at the descriptor.                           *)
DescriptorCloses == \A sizes \in events.end : tap.described => sizes.described

(***************************************************************************)
(* What the driver of ContainerChunker hears of it.                        *)
(***************************************************************************)
InHeader ==
  /\ phase = "members" /\ state.kind \in {"signature", "fixed", "variable"}
  /\ state.kind # "signature" => state.record = "local"

Heard ==
  [at |-> AtMemberBoundary,
   header |-> IF InHeader /\ ~AtMemberBoundary THEN offset - begun ELSE 0,
   owed |-> IF state.kind = "data" /\ state.total >= ChunkMin
               /\ state.total - state.remaining < ChunkMin
            THEN ChunkMin - (state.total - state.remaining) ELSE 0,
   open |-> FALSE]

ZipV1 == [unitMin |-> ChunkMin, large |-> TRUE, unknown |-> "none",
          blanks |-> FALSE, canonical |-> FALSE]

Reports == INSTANCE WalkerReports WITH
             HeaderMax <- SigLen + FixedLen["local"] + MaxVariable,
             profile <- ZipV1, walker <- Heard, phase <- status

(* The walker reports members as the driver relies on: a large one at the   *)
(* byte that completes its header, with the length of the whole header and  *)
(* its signature, and its data before the next boundary.                    *)
ImplementsReports == Reports!Spec
=============================================================================
