--------------------------- MODULE CanonicalPackage ---------------------------
(***************************************************************************)
(* The ooxml-v1 canonicalizer (chunker/office/canonical): what the ZIP     *)
(* walker tells of the source package becomes the canonical package, whose *)
(* members are inflated and whose records are written anew; and the checks *)
(* both Office profiles make of a package (chunker/office/ber.rs).         *)
(*                                                                         *)
(* The canonical stream is the sequence of what is written: records with   *)
(* their fields and lengths, and windows of content, which are lengths.    *)
(* A CRC-32 is how much content it has absorbed.  The walker is its tap,   *)
(* see ZipWalker; how steps are cut into chunks is ContainerChunker's.     *)
(***************************************************************************)
EXTENDS Inflater, Integers, SequencesExt

CONSTANTS
  NameLen,      \* member names, and their lengths
  Mains,        \* the names that are some kind's main part
  ContentTypes, \* the name a package begins with
  Signatures,   \* the names in the signature directory
  Asked,        \* the kinds of package a caller may ask for
  MaxMembers, MaxNameBytes, \* MAX_MEMBERS and MAX_NAME_BYTES
  LargeMin,     \* DOCUMENT_UNIT_CHUNK_MIN_BYTES
  Limit32, Limit16, \* the greatest values of a 32-bit and a 16-bit field
  LocalLen, CentralLen, \* the lengths of the records, names and extras apart
  MaxSource,    \* bound on the bytes of a member in the source
  Claimed,      \* the sizes a source may claim
  MaxPackages   \* bound on the packages one chunker is fed

AnyKind == "any"
None == -1

ASSUME CanonicalAssumption ==
  /\ NameLen \in [DOMAIN NameLen -> Nat]
  /\ Mains \cup {ContentTypes} \cup Signatures \subseteq DOMAIN NameLen
  /\ Asked \subseteq Mains \cup {AnyKind} /\ AnyKind \notin Mains
  /\ {MaxMembers, MaxNameBytes, LargeMin, Limit32, Limit16, LocalLen, CentralLen,
      MaxSource, MaxPackages} \cup Claimed \subseteq Nat

VARIABLES
  core,      \* CanonCore
  canonical, \* ghost: all that was drained into the assembler
  walker,    \* where the ZIP walker stands: "between", "member" or "central"
  source,    \* ghost: what the member under way really holds
  status,    \* "reading", "ended", or why the stream was rejected
  asked,     \* the kind the chunker was constructed for
  nth        \* which package the chunker is fed

canonVars == <<core, canonical, walker, source, status, asked, nth>>

(***************************************************************************)
(* PackageCheck.                                                           *)
(***************************************************************************)
NewCheck(expected) ==
  [expected |-> expected, seen |-> 0, mains |-> {}, signed |-> FALSE]

\* A name goes into the check; the first must be [Content_Types].xml.
Misplaced(check, name) == check.seen = 0 /\ name # ContentTypes

Checked(check, name) ==
  [check EXCEPT !.seen = @ + 1,
                !.mains = @ \cup ({name} \cap Mains),
                !.signed = @ \/ name \in Signatures]

\* Mutant: the main part of any kind will do.
CheckClosesAny(check) ==
  IF check.seen = 0 THEN "NotOoxmlPackage"
  ELSE IF check.mains = {} THEN "MissingMainPart" ELSE "none"

CheckCloses(check) ==
  IF check.seen = 0 THEN "NotOoxmlPackage"
  ELSE IF check.expected = AnyKind
  THEN (IF check.mains = {} THEN "UnrecognizedPackage" ELSE "none")
  ELSE (IF check.expected \notin check.mains THEN "MissingMainPart" ELSE "none")

(***************************************************************************)
(* MemberDecoder.                                                          *)
(***************************************************************************)
Stored == "stored"
Deflate == "deflate"

NewMemberDecoder(method) ==
  [method |-> method, inflater |-> NewInflater, crc |-> 0, pending |-> 0]

\* What the inflater produced is summed and handed on.
Absorbed(decoder, inflater) ==
  [decoder EXCEPT !.inflater = TakePending(inflater),
                  !.crc = @ + inflater.pending,
                  !.pending = @ + inflater.pending]

PushSource(decoder, byte) ==
  IF decoder.method = Stored
  THEN [decoder EXCEPT !.crc = @ + 1, !.pending = @ + 1]
  ELSE Absorbed(decoder, PushByte(decoder.inflater, byte))

CloseDecoder(decoder) ==
  IF decoder.method = Stored THEN decoder
  ELSE Absorbed(decoder, CloseInflater(decoder.inflater))

DecodedLen(decoder) ==
  IF decoder.method = Stored THEN decoder.crc ELSE decoder.inflater.produced

(***************************************************************************)
(* The writer: a field is its 32 bits and the ZIP64 value it may defer to. *)
(***************************************************************************)
\* Mutant: the greatest value is written as it is.
NeedsZip64Late(n) == n > Limit32

NeedsZip64(n) == n >= Limit32

Field(n, zip64) ==
  [low |-> IF zip64 THEN Limit32 ELSE n % (Limit32 + 1), wide |-> IF zip64 THEN n ELSE None]

\* A ZIP64 extra: its head and one 8-byte value for each field; lengths are
\* counted in units of it.
Zip64Len(fields) == IF fields = 0 THEN 0 ELSE 1 + fields

LocalKnown(name, crc, n) ==
  [kind |-> "local", name |-> name, known |-> TRUE, crc |-> crc,
   size |-> Field(n, NeedsZip64(n)),
   length |-> LocalLen + NameLen[name] + Zip64Len(IF NeedsZip64(n) THEN 2 ELSE 0)]

LocalUnknown(name) ==
  [kind |-> "local", name |-> name, known |-> FALSE, crc |-> 0,
   size |-> Field(0, FALSE), length |-> LocalLen + NameLen[name]]

DescriptorRecord(crc, n) ==
  [kind |-> "descriptor", crc |-> crc, size |-> n, length |-> 1]

CentralHeader(entry) ==
  LET wideLen == NeedsZip64(entry.len)
      wideAt == NeedsZip64(entry.at)
  IN [name |-> entry.name, crc |-> entry.crc, descriptor |-> entry.descriptor,
      size |-> Field(entry.len, wideLen), at |-> Field(entry.at, wideAt),
      length |-> CentralLen + NameLen[entry.name]
                 + Zip64Len((IF wideLen THEN 2 ELSE 0) + (IF wideAt THEN 1 ELSE 0))]

Lengths(pieces) ==
  LET sum[n \in 0..Len(pieces)] == IF n = 0 THEN 0 ELSE sum[n - 1] + pieces[n].length
  IN sum[Len(pieces)]

\* The directory and the end records; ZIP64 when anything calls for it.
TailRecords(entries, at) ==
  LET directory == [i \in DOMAIN entries |-> CentralHeader(entries[i])]
      size == Lengths(directory)
      zip64 == \/ Len(entries) >= Limit16 \/ NeedsZip64(size) \/ NeedsZip64(at)
               \/ \E i \in DOMAIN entries :
                    NeedsZip64(entries[i].len) \/ NeedsZip64(entries[i].at)
  IN [kind |-> "tail", directory |-> directory, zip64 |-> zip64,
      count |-> IF zip64 THEN [low |-> Limit16, wide |-> Len(entries)]
                ELSE [low |-> Len(entries) % (Limit16 + 1), wide |-> None],
      size |-> Field(size, zip64), at |-> Field(at, zip64),
      length |-> size + (IF zip64 THEN 2 ELSE 1)]

(***************************************************************************)
(* CanonCore.                                                              *)
(***************************************************************************)
NoMember == [name |-> "none"]
NoDecoder == [method |-> "none"]
Nothing == [members |-> <<>>, end |-> None]

\* heard is what the observer was told of each member.
NewCore(expected, observed) ==
  [check |-> NewCheck(expected), decoder |-> NoDecoder, member |-> NoMember,
   entries |-> <<>>, names |-> 0, offset |-> 0, tail |-> FALSE, fault |-> "none",
   steps |-> <<>>, observed |-> observed, heard |-> Nothing]

Fail(c, fault) == [c EXCEPT !.fault = IF @ = "none" THEN fault ELSE @]

Boundary == [kind |-> "boundary", length |-> 0]
LargeUnit(length) == [kind |-> "large", header |-> length, length |-> 0]
Content(n) == [kind |-> "content", length |-> n]

Enqueue(c, piece) ==
  [c EXCEPT !.offset = @ + piece.length, !.steps = Append(@, piece)]

Step(c, step) == [c EXCEPT !.steps = Append(@, step)]

HeardBytes(c, n) ==
  IF ~c.observed THEN c
  ELSE [c EXCEPT !.heard.members[Len(c.heard.members)].bytes = @ + n]

DrainDecoder(c) ==
  LET n == c.decoder.pending IN
  IF n = 0 THEN c
  ELSE Enqueue(HeardBytes([c EXCEPT !.decoder.pending = 0], n), Content(n))

\* The checks of local_header in order: the first that fails is the fault.
HeaderFault(c, h) ==
  CASE h.encrypted -> "UnsupportedMethod"
    [] ~h.encrypted /\ Misplaced(c.check, h.name) -> "NotOoxmlPackage"
    [] ~h.encrypted /\ ~Misplaced(c.check, h.name) ->
         IF Checked(c.check, h.name).signed THEN "SignedPackage"
         ELSE IF \/ Len(c.entries) >= MaxMembers
                 \/ c.names + NameLen[h.name] > MaxNameBytes THEN "MetadataOverBound"
         ELSE IF h.method \notin {Stored, Deflate} THEN "UnsupportedMethod" ELSE "none"

OnHeader(c, h) ==
  LET fault == HeaderFault(c, h)
      record == IF h.known THEN LocalKnown(h.name, h.crc, h.len) ELSE LocalUnknown(h.name)
      begun == [c EXCEPT
        !.check = Checked(@, h.name), !.names = @ + NameLen[h.name],
        !.decoder = NewMemberDecoder(h.method),
        !.member = [name |-> h.name, at |-> c.offset, known |-> h.known, crc |-> h.crc],
        !.heard.members = IF c.observed
                          THEN Append(@, [at |-> c.offset, bytes |-> 0, len |-> None]) ELSE @]
      written == Enqueue(Step(begun, Boundary), record)
  IN IF fault # "none" THEN Fail(c, fault)
     ELSE IF ~h.known \/ h.len >= LargeMin THEN Step(written, LargeUnit(record.length))
     ELSE written

Pushed(c) ==
  IF c.decoder.inflater.fault # "none" THEN Fail(c, c.decoder.inflater.fault)
  ELSE DrainDecoder(c)

OnData(c, byte) ==
  IF c.decoder = NoDecoder THEN c
  ELSE Pushed([c EXCEPT !.decoder = PushSource(@, byte)])

\* The member is complete: its entry, and its descriptor when it needs one.
Closed(c, n) ==
  LET m == c.member
      entry == [name |-> m.name, crc |-> c.decoder.crc, len |-> n, at |-> m.at,
                descriptor |-> ~m.known]
      described == IF m.known THEN c ELSE Enqueue(c, DescriptorRecord(c.decoder.crc, n))
  IN [described EXCEPT
        !.entries = Append(@, entry), !.member = NoMember, !.decoder = NoDecoder,
        !.heard.members = IF c.observed
          THEN [@ EXCEPT ![Len(c.heard.members)].len = n] ELSE @]

\* What the source claims, in its header or its descriptor, must be so.
ClaimFault(c, claim, n) ==
  CASE n # claim.len -> "InflatedSizeMismatch"
    [] n = claim.len /\ (c.decoder.crc # claim.crc
                         \/ (c.member.known /\ c.decoder.crc # c.member.crc)) -> "CrcMismatch"
    [] OTHER -> IF ~c.member.known /\ n > Limit32 THEN "UnknownSizeMemberTooLarge" ELSE "none"

\* Mutant: what the closing call produced stays in the decoder.
FlushedNot(c) == [c EXCEPT !.decoder = CloseDecoder(@)]

Flushed(c) == DrainDecoder([c EXCEPT !.decoder = CloseDecoder(@)])

\* The closed decoder's fault comes first, then what the claims say of n bytes.
Ending(c, flushed, fault, claim, n) ==
  IF fault # "none" THEN Fail(c, fault)
  ELSE IF ClaimFault(flushed, claim, n) # "none" THEN Fail(flushed, ClaimFault(flushed, claim, n))
  ELSE Closed(flushed, n)

OnEnd(c, claim) ==
  IF c.decoder = NoDecoder THEN c
  ELSE Ending(c, Flushed(c), CloseDecoder(c.decoder).inflater.fault, claim,
              DecodedLen(CloseDecoder(c.decoder)))

\* The directory is written once, when the source's begins.
OnCentral(c) ==
  IF c.tail THEN c
  ELSE LET told == IF c.observed THEN [c EXCEPT !.heard.end = c.check.seen] ELSE c IN
       Enqueue(Step([told EXCEPT !.tail = TRUE], Boundary), TailRecords(c.entries, c.offset))

\* Behind a fault nothing of an event is taken in.
OnEvent(c, event) ==
  IF c.fault # "none" THEN c
  ELSE CASE event.kind = "header" -> OnHeader(c, event.of)
         [] event.kind = "data" -> OnData(c, event.of)
         [] event.kind = "end" -> OnEnd(c, event.of)
         [] event.kind = "central" -> OnCentral(c)

\* The events of a batch, which has one or two.
Told(c, batch) ==
  IF Len(batch) = 1 THEN OnEvent(c, batch[1]) ELSE OnEvent(OnEvent(c, batch[1]), batch[2])

(***************************************************************************)
(* What the walker may tell for one byte of the source.                    *)
(***************************************************************************)
Event(kind, of) == [kind |-> kind, of |-> of]

\* A claimed CRC-32 is that of content of the claimed length, or of none.
ClaimedCrc(n) == {n, None}

Headers ==
  {[name |-> name, method |-> method, encrypted |-> encrypted, known |-> claim.known,
    len |-> claim.len, crc |-> claim.crc] :
     name \in DOMAIN NameLen, method \in {Stored, Deflate, "other"},
     encrypted \in BOOLEAN,
     claim \in {[known |-> FALSE, len |-> 0, crc |-> 0]}
       \cup UNION {{[known |-> TRUE, len |-> n, crc |-> crc] : crc \in ClaimedCrc(n)} :
                    n \in Claimed}}

\* The claims at a member's end: the header's, or any when it made none.
EndClaims(known, n) ==
  UNION {{[len |-> len, crc |-> crc] : crc \in ClaimedCrc(len)} :
           len \in IF known THEN {n} ELSE Claimed}

SourceBytes(method) ==
  IF method = Stored THEN {[grows |-> 1, kind |-> "block"]} ELSE CompressedByte

\* Begun, fed or ended by one byte: a member without data begins and ends at
\* once, the last of counted data ends its member, and a scan that gives bytes
\* up as data gives up several.
Batches ==
  CASE walker = "between" ->
         {<<Event("central", {})>>}
         \cup {<<Event("header", h)>> : h \in Headers}
         \cup UNION {{<<Event("header", h), Event("end", claim)>> :
                        claim \in EndClaims(TRUE, h.len)} : h \in {g \in Headers : g.known}}
    [] walker = "member" ->
         LET datas == {Event("data", b) : b \in SourceBytes(source.method)}
             ends == {Event("end", claim) : claim \in EndClaims(source.known, source.claim)}
         IN {<<d>> : d \in datas}
            \cup (IF source.known THEN {<<d, e>> : d \in datas, e \in ends}
                  ELSE {<<e>> : e \in ends} \cup {<<d1, d2>> : d1 \in datas, d2 \in datas})
    [] OTHER -> {}

(***************************************************************************)
(* Ghost: what the member under way really holds.                          *)
(***************************************************************************)
NoSource ==
  [method |-> "none", known |-> FALSE, claim |-> 0, crc |-> 0, bytes |-> 0, len |-> 0,
   over |-> FALSE, sound |-> TRUE]

Held(s, event) ==
  LET byte == event.of claim == event.of IN
  CASE event.kind = "header" ->
         [method |-> event.of.method, known |-> event.of.known, claim |-> event.of.len,
          crc |-> event.of.crc, bytes |-> 0, len |-> 0, over |-> FALSE, sound |-> TRUE]
    [] event.kind = "data" ->
         [s EXCEPT !.bytes = @ + 1, !.len = @ + byte.grows, !.over = (byte.kind = "last"),
                   !.sound = @ /\ ~s.over /\ byte.kind # "bad"]
    [] event.kind = "end" ->
         [s EXCEPT !.sound =
            /\ @ /\ (s.method = Deflate => s.over)
            /\ claim.len = s.len /\ claim.crc = s.len /\ (s.known => s.crc = s.len)]
    [] OTHER -> s

HeldAll(s, batch) ==
  IF Len(batch) = 1 THEN Held(s, batch[1]) ELSE Held(Held(s, batch[1]), batch[2])

(***************************************************************************)
(* OoxmlChunker.                                                           *)
(***************************************************************************)
CanonInit ==
  /\ asked \in Asked /\ nth = 1
  /\ core = NewCore(asked, TRUE)
  /\ canonical = <<>> /\ walker = "between" /\ source = NoSource
  /\ status = "reading"

\* The byte that is refused has been told: its events have reached the core and
\* its observer, and the steps they left are never drained.  A chunker that was
\* rejected feeds its walker no more.
Reject(told, fault) ==
  /\ status' = fault /\ core' = told
  /\ UNCHANGED <<canonical, walker, asked, nth>>

\* Where the walker stands behind a batch.
WalkerAfter(batch) ==
  CASE Last(batch).kind = "header" -> "member"
    [] Last(batch).kind = "data" -> "member"
    [] Last(batch).kind = "end" -> "between"
    [] Last(batch).kind = "central" -> "central"

\* A byte the walker accepts: its events, then the fault, then the drain.
ConsumeByte ==
  /\ status = "reading"
  /\ \E batch \in Batches :
       LET told == Told(core, batch) IN
       /\ source' = HeldAll(source, batch) /\ source'.bytes <= MaxSource
       /\ IF told.fault # "none" THEN Reject([told EXCEPT !.fault = "none"], told.fault)
          ELSE /\ core' = [told EXCEPT !.steps = <<>>]
               /\ canonical' = canonical \o told.steps
               /\ walker' = WalkerAfter(batch)
               /\ UNCHANGED <<status, asked, nth>>

\* A fault of the walker's own, which passes over any of the core's.  The one
\* event it may have told of that byte is a header whose sizes it then refuses.
WalkerRefuses ==
  /\ status = "reading"
  /\ \/ Reject(core, "Zip") /\ UNCHANGED source
     \/ /\ walker = "between"
        /\ \E h \in {g \in Headers : g.known} :
             /\ source' = Held(source, Event("header", h))
             /\ Reject(OnEvent(core, Event("header", h)), "Zip")

\* The walker ends well only behind the directory.
Finish ==
  /\ status = "reading" /\ walker = "central"
  /\ IF CheckCloses(core.check) # "none" THEN Reject(core, CheckCloses(core.check))
     ELSE /\ status' = "ended"
          /\ UNCHANGED <<core, canonical, walker, asked, nth>>
  /\ UNCHANGED source

\* finish leaves a new chunker behind: one for any kind, with no observer.
Reuse ==
  /\ status = "ended" /\ nth < MaxPackages
  /\ core' = NewCore(AnyKind, FALSE)
  /\ canonical' = <<>> /\ walker' = "between" /\ source' = NoSource
  /\ status' = "reading" /\ nth' = nth + 1
  /\ UNCHANGED asked

CanonNext == ConsumeByte \/ WalkerRefuses \/ Finish \/ Reuse

CanonSpec == CanonInit /\ [][CanonNext]_canonVars

(***************************************************************************)
(* Properties.                                                             *)
(***************************************************************************)
\* What a reader finds in a field.
Value(field, limit) == IF field.low = limit THEN field.wide ELSE field.low

\* Of a stream s: where its ith piece begins, its local headers, and the nth.
StartOf(s, i) == Lengths(SubSeq(s, 1, i - 1))

Locals(s) == {i \in DOMAIN s : s[i].kind = "local"}

NthLocal(s, n) == CHOOSE i \in Locals(s) : Cardinality({j \in Locals(s) : j <= i}) = n

\* The content behind a local header, up to the next record.
ContentOf(s, i) ==
  LET next == {j \in DOMAIN s :
                 j > i /\ s[j].kind \in {"local", "descriptor", "tail", "boundary"}}
      upto == IF next = {} THEN Len(s) ELSE Min(next) - 1
  IN Lengths(SubSeq(s, i + 1, upto))

\* All that the core has enqueued, with what a rejected chunker never drains.
Written == canonical \o core.steps

\* The canonical package can be read by its directory: each entry names the
\* header that begins at its offset and the length of the content behind it,
\* the claims written before the content came are true of it, and the end
\* record finds the directory, however many of the values need ZIP64 fields
\* (writer.rs, and canonical_offset in core.rs).
DirectoryIsTrue ==
  core.tail =>
    LET t == Len(canonical)
        tail == canonical[t]
        count == Cardinality(Locals(canonical))
    IN /\ Value(tail.count, Limit16) = count /\ Len(tail.directory) = count
       /\ Value(tail.at, Limit32) = StartOf(canonical, t)
       /\ Value(tail.size, Limit32) = Lengths(tail.directory)
       /\ \A n \in 1..count :
            LET i == NthLocal(canonical, n)
                entry == tail.directory[n]
                length == ContentOf(canonical, i)
            IN /\ entry.name = canonical[i].name
               /\ Value(entry.at, Limit32) = StartOf(canonical, i)
               /\ Value(entry.size, Limit32) = length /\ entry.crc = length
               /\ canonical[i].known => Value(canonical[i].size, Limit32) = length
               /\ entry.descriptor = ~canonical[i].known

\* The observer hears the package as the core enqueues it, behind every byte,
\* the byte for which the stream is rejected as well: a member at the offset of
\* its header, the bytes of its content that were enqueued and no other, and the
\* length of a member only once that has its entry for the directory.  So of a
\* refused member it hears the start, and bytes that no chunk will hold, but no
\* end (observer.rs; core.rs:116-121 and 170-172 run before the fault returns).
ObserverHearsIt ==
  core.observed =>
    LET heard == core.heard.members
        ended == Len(core.entries)
        count == Cardinality(Locals(Written))
    IN /\ Len(heard) = count
       /\ \/ ended = count
          \/ ended = count - 1 /\ (walker = "member" \/ status \notin {"reading", "ended"})
       /\ \A n \in 1..count :
            LET i == NthLocal(Written, n) IN
            /\ heard[n].at = StartOf(Written, i)
            /\ heard[n].bytes = ContentOf(Written, i)
            /\ heard[n].len = IF n <= ended THEN ContentOf(Written, i) ELSE None
       /\ core.tail => core.heard.end = count

DecodeFaults == {"Malformed", "Geometry", "InflatedSizeMismatch", "CrcMismatch"}

\* A member is refused for its content only if its stream is not whole or a
\* claim is not true of it, however much of it was left in the decoder when
\* its last byte came (inflate.rs, close).
SoundMembersPass == status \in DecodeFaults => ~source.sound

\* An accepted package begins with [Content_Types].xml, is not signed, and has
\* the main part of the kind the caller asked for; only a package behind
\* another may be of any kind, for finish forgets what was asked.
AcceptedIsOffice ==
  status = "ended" =>
    LET names == [n \in DOMAIN core.entries |-> core.entries[n].name] IN
    /\ Len(names) > 0 /\ names[1] = ContentTypes
    /\ Range(names) \cap Signatures = {}
    /\ IF nth = 1 /\ asked # AnyKind THEN asked \in Range(names)
       ELSE Range(names) \cap Mains # {}
==============================================================================
