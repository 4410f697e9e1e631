--------------------------- MODULE ZipWalkerProofs ---------------------------
(***************************************************************************)
(* The ZIP walker, for every record length, byte alphabet, extra area and  *)
(* bound: the observer hears a well-formed walk that gives each member all *)
(* its bytes, the scan for a descriptor passes none over, and an accepted  *)
(* archive has the directory its end record describes.                     *)
(***************************************************************************)
EXTENDS ZipWalker, SequenceTheorems, FiniteSetTheorems, WellFoundedInduction, TLAPS

(***************************************************************************)
(* Constants and constructors.                                             *)
(***************************************************************************)
(* A signature has two bytes, and a descriptor more than that.              *)
LEMMA Lengths ==
  /\ DataDescriptor \in Seq(Bytes) /\ Len(DataDescriptor) = 2 /\ SigLen = 2
  /\ \A z : BodyLen(z) \in Nat /\ BodyLen(z) >= 3
<1>1. Base - 2 \in Bytes /\ Base - 1 \in Bytes
  BY ZipAssumption DEF Bytes
<1> QED BY <1>1 DEF DataDescriptor, SigLen, BodyLen, Width

(* The fields of the states.                                                *)
LEMMA StateFields ==
  /\ \A n : Signature(n).kind = "signature" /\ Signature(n).len = n
  /\ \A r, n : /\ Fixed(r, n).kind = "fixed"
               /\ Fixed(r, n).record = r /\ Fixed(r, n).len = n
  /\ \A r, t, n : /\ Variable(r, t, n).kind = "variable"
                  /\ Variable(r, t, n).record = r
                  /\ Variable(r, t, n).total = t /\ Variable(r, t, n).len = n
  /\ \A r, t, u, m, d, z :
       LET s == Data(r, t, u, m, d, z) IN
       /\ s.kind = "data" /\ s.remaining = r /\ s.total = t
       /\ s.uncompressed = u /\ s.method = m /\ s.descriptor = d /\ s.zip64 = z
  /\ \A c, m, z, h :
       LET s == DataScan(c, m, z, h) IN
       s.kind = "scan" /\ s.consumed = c /\ s.method = m /\ s.zip64 = z /\ s.held = h
  /\ \A n, m, z, h :
       LET s == Descriptor(n, m, z, h) IN
       s.kind = "descriptor" /\ s.dataLen = n /\ s.method = m /\ s.zip64 = z /\ s.held = h
  /\ \A n, t : Skip(n, t).kind = "skip" /\ Skip(n, t).remaining = n /\ Skip(n, t).then = t
  /\ AtRecord = Signature(0) /\ AtRecord.kind = "signature" /\ AtRecord.len = 0
  BY DEF Signature, Fixed, Variable, Data, DataScan, Descriptor, Skip, AtRecord

\* The observer's place, taken apart.
Tap(at, data, described) == [at |-> at, data |-> data, described |-> described]

(* What the observer makes of each kind of report.                          *)
LEMMA TapSilent ==
  ASSUME NEW t PROVE Tapped(t, Silent) = t
  BY DEF Tapped, Silent

LEMMA TapCentral ==
  /\ \A b \in BOOLEAN : Told("central", b).end = {}
  /\ \A n, d : Tapped(Tap("between", n, d), Told("central", TRUE)) = Tap("central", n, d)
  /\ \A at, n, d : Tapped(Tap(at, n, d), Told("central", FALSE)) = Tap(at, n, d)
<1>1. ASSUME NEW b \in BOOLEAN
      PROVE  LET told == Told("central", b) IN
             told.header = {} /\ told.data = <<>> /\ told.end = {} /\ told.central = b
  <2> DEFINE told == Told("central", b)
  <2>1. told.header = {} /\ told.data = <<>> /\ told.end = {}
    BY DEF Told, Silent
  <2>2. told.central = b
    BY Zenon DEF Told, Silent
  <2> QED BY <2>1, <2>2
<1>2. ASSUME NEW n, NEW d
      PROVE  Tapped(Tap("between", n, d), Told("central", TRUE)) = Tap("central", n, d)
  <2> DEFINE told == Told("central", TRUE)
  <2>1. told.header = {} /\ told.data = <<>> /\ told.end = {} /\ told.central
    BY <1>1, Zenon
  <2> HIDE DEF told
  <2>2. Tapped(Tap("between", n, d), told) = Tap("central", n, d)
    BY <2>1 DEF Tapped, Tap
  <2> QED BY <2>2 DEF told
<1>3. ASSUME NEW at, NEW n, NEW d
      PROVE  Tapped(Tap(at, n, d), Told("central", FALSE)) = Tap(at, n, d)
  <2> DEFINE told == Told("central", FALSE)
  <2>1. told.header = {} /\ told.data = <<>> /\ told.end = {} /\ ~told.central
    BY <1>1, Zenon
  <2> HIDE DEF told
  <2>2. Tapped(Tap(at, n, d), told) = Tap(at, n, d)
    BY <2>1 DEF Tapped, Tap
  <2> QED BY <2>2 DEF told
<1> QED BY <1>1, <1>2, <1>3, Zenon

\* The report of a header, alone and with the end of an empty member.
Opening(h) == Told("header", {h})
OpeningEnd(h, e) == [Opening(h) EXCEPT !.end = e]

LEMMA TapHeader ==
  ASSUME NEW n, NEW d, NEW h
  PROVE  /\ Opening(h).end = {}
         /\ \E y : Tapped(Tap("between", n, d), Opening(h)) = Tap("member", 0, y)
  BY DEF Tapped, Told, Silent, Tap, Opening

LEMMA TapHeaderEnd ==
  ASSUME NEW n, NEW d, NEW h, NEW e, e # {}
  PROVE  /\ OpeningEnd(h, e).end = e
         /\ \E y : Tapped(Tap("between", n, d), OpeningEnd(h, e)) = Tap("between", 0, y)
  BY DEF Tapped, Told, Silent, Tap, Opening, OpeningEnd

LEMMA TapData ==
  ASSUME NEW n \in Nat, NEW d, NEW S, NEW bytes \in Seq(S)
  PROVE  /\ Told("data", bytes).end = {} /\ Told("data", bytes).data = bytes
         /\ Tapped(Tap("member", n, d), Told("data", bytes)) = Tap("member", n + Len(bytes), d)
<1>1. CASE bytes = <<>>
  BY <1>1 DEF Tapped, Told, Silent, Tap
<1>2. CASE bytes # <<>>
  BY <1>2 DEF Tapped, Told, Silent, Tap
<1> QED BY <1>1, <1>2

LEMMA TapDataEnd ==
  ASSUME NEW n \in Nat, NEW d, NEW S, NEW bytes \in Seq(S), NEW e, e # {}
  PROVE  LET told == [Told("data", bytes) EXCEPT !.end = e] IN
         /\ told.end = e /\ told.data = bytes
         /\ Tapped(Tap("member", n, d), told) = Tap("between", n + Len(bytes), d)
<1>1. CASE bytes = <<>>
  BY <1>1 DEF Tapped, Told, Silent, Tap
<1>2. CASE bytes # <<>>
  BY <1>2 DEF Tapped, Told, Silent, Tap
<1> QED BY <1>1, <1>2

LEMMA TapEnd ==
  ASSUME NEW n, NEW d, NEW e, e # {}
  PROVE  /\ Told("end", e).end = e
         /\ Tapped(Tap("member", n, d), Told("end", e)) = Tap("between", n, d)
  BY DEF Tapped, Told, Silent, Tap

(***************************************************************************)
(* The inductive invariant.                                                *)
(***************************************************************************)
\* A descriptor and its signature, whole.
Whole(zip64) == SigLen + BodyLen(zip64)

\* What each state is made of.
Shape ==
  /\ state.kind \in {"signature", "fixed", "variable", "data", "scan", "descriptor", "skip"}
  /\ state.kind = "signature" =>
       state = Signature(state.len) /\ state.len \in 0..(SigLen - 1)
  /\ state.kind = "fixed" => state = Fixed(state.record, state.len)
  /\ state.kind = "variable" => state = Variable(state.record, state.total, state.len)
  /\ state.kind = "data" =>
       /\ state = Data(state.remaining, state.total, state.uncompressed, state.method,
                       state.descriptor, state.zip64)
       /\ state.total \in Nat /\ state.remaining \in 1..state.total
  /\ state.kind = "scan" =>
       /\ state = DataScan(state.consumed, state.method, state.zip64, state.held)
       /\ state.consumed \in Nat /\ state.held \in Seq(Bytes)
       /\ Len(state.held) < Whole(state.zip64)
  /\ state.kind = "descriptor" =>
       state = Descriptor(state.dataLen, state.method, state.zip64, state.held)
  /\ state.kind = "skip" =>
       /\ state = Skip(state.remaining, state.then)
       /\ state.remaining \in Nat \ {0} /\ state.then \in {"zip64EndSeen", "complete"}

InMember == state.kind \in {"data", "scan", "descriptor"}
AtHeader(record) == state.kind \in {"fixed", "variable"} /\ state.record = record

\* Which records each phase reads; the end record comes in any, and stays in it.
Order ==
  /\ phase \in {"members", "central", "zip64EndSeen", "locatorSeen", "complete"}
  /\ InMember => phase = "members"
  /\ state.kind = "fixed" => state.record \in Records
  /\ state.kind = "variable" => state.record \in {"local", "central"}
  /\ AtHeader("local") => phase = "members"
  /\ AtHeader("central") => phase = "central"
  /\ AtHeader("zip64End") => phase = "zip64EndSeen"
  /\ AtHeader("zip64Locator") => phase = "locatorSeen"
  /\ state.kind = "skip" /\ state.then = "zip64EndSeen" => phase = "zip64EndSeen"

\* The members are behind.
Behind == phase # "members" \/ state.kind = "skip" \/ AtHeader("end")

\* The bytes of the member under way that were told.
ToldBytes ==
  CASE state.kind = "data" -> state.total - state.remaining
    [] state.kind = "scan" -> state.consumed
    [] state.kind = "descriptor" -> state.dataLen

\* The observer stands where the walker does.
Followed ==
  /\ tap = Tap(tap.at, tap.data, tap.described)
  /\ tap.data \in Nat /\ tap.at # "broken"
  /\ status # "faulted" =>
       /\ tap.at = IF InMember THEN "member" ELSE IF Behind THEN "central" ELSE "between"
       /\ InMember => tap.data = ToldBytes
  /\ \A sizes \in events.end : sizes.compressed = tap.data

\* The bytes of a signature begun.
Past == IF state.kind = "signature" THEN state.len ELSE 0

\* The directory lies behind nothing that comes later, and was closed before
\* an end record is read.
Placed ==
  /\ offset \in Nat /\ Past <= offset
  /\ centralStart # None => centralStart \in 0..(offset - Past)
  /\ phase = "central" => centralStart # None
  /\ phase \notin {"members", "central"} \/ state.kind = "skip" \/ AtHeader("end") =>
       /\ centralStart # None /\ centralEnd \in Nat
       /\ centralStart <= centralEnd /\ centralEnd < offset

\* What was accepted adds up.
Sealed ==
  /\ phase = "complete" \/ (state.kind = "skip" /\ state.then = "complete") =>
       localCount = centralCount
  /\ status = "ended" => phase = "complete" /\ state.kind = "signature"

Inv == Shape /\ Order /\ Followed /\ Placed /\ Sealed

(* A step that is not refused.                                              *)
LEMMA GoesOn ==
  ASSUME NEW next, NEW reported, NEW told, GoOn(next, reported, told)
  PROVE  /\ state' = next /\ offset' = offset + 1
         /\ status = "walking" /\ status' = "walking"
         /\ events' = told /\ tap' = Tapped(tap, told)
  BY DEF GoOn, Consumed

LEMMA SignatureByteStep ==
  ASSUME Inv, SignatureByte PROVE Inv'
<1>1. /\ state.kind = "signature" /\ phase # "complete" /\ state.len + 1 < SigLen
      /\ GoOn(Signature(state.len + 1), 0, Silent)
      /\ UNCHANGED <<phase, archive>>
  BY DEF SignatureByte
<1>2. /\ state' = Signature(state.len + 1) /\ offset' = offset + 1
      /\ status' = "walking" /\ status = "walking" /\ events' = Silent /\ tap' = tap
  BY <1>1, GoesOn, TapSilent
<1>3. state'.kind = "signature" /\ state'.len = state.len + 1
  BY <1>2, StateFields
<1>4. Shape'
  BY <1>1, <1>2, <1>3, Lengths DEF Inv, Shape
<1>5. Order'
  BY <1>1, <1>3 DEF Inv, Order, InMember, AtHeader
<1>6. Followed'
  BY <1>1, <1>2, <1>3 DEF Inv, Followed, InMember, Behind, AtHeader, Silent
<1>7. Placed' /\ Sealed'
  BY <1>1, <1>2, <1>3, Lengths DEF Inv, Shape, Placed, Sealed, Past, AtHeader, archive
<1> QED BY <1>4, <1>5, <1>6, <1>7 DEF Inv

LEMMA DispatchStep ==
  ASSUME Inv, DispatchSignature PROVE Inv'
<1>1. state = Signature(SigLen - 1) /\ phase # "complete"
  BY DEF DispatchSignature
<1>2. PICK record \in Records :
        /\ GoOn(Fixed(record, 0), 0, Told("central", TellsDirectory(record)))
        /\ \/ record = "local" /\ phase = "members" /\ UNCHANGED <<phase, archive>>
           \/ record = "central" /\ phase = "members" /\ phase' = "central" /\ DirectoryBegins
           \/ record = "central" /\ phase = "central" /\ UNCHANGED <<phase, archive>>
           \/ record = "zip64End" /\ InDirectory /\ phase' = "zip64EndSeen" /\ EndSequenceBegins
           \/ /\ record = "zip64Locator" /\ phase = "zip64EndSeen"
              /\ phase' = "locatorSeen" /\ UNCHANGED archive
           \/ record = "end" /\ InDirectory /\ UNCHANGED phase /\ EndSequenceBegins
           \/ record = "end" /\ phase = "locatorSeen" /\ UNCHANGED <<phase, archive>>
  BY DEF DispatchSignature
<1> DEFINE told == Told("central", TellsDirectory(record))
<1>3. /\ state' = Fixed(record, 0) /\ offset' = offset + 1
      /\ status' = "walking" /\ status = "walking" /\ events' = told
      /\ tap' = Tapped(tap, told)
  BY <1>2, GoesOn
<1>4. /\ state'.kind = "fixed" /\ state'.record = record /\ state'.len = 0
      /\ state.kind = "signature" /\ state.len = 1
  BY <1>1, <1>3, StateFields, Lengths
<1>5. Shape'
  BY <1>3, <1>4 DEF Shape
<1>6. Order'
  BY <1>2, <1>4 DEF Inv, Order, InMember, AtHeader, InDirectory, Records
<1>7. Followed'
  <2>1. tap = Tap(IF phase = "members" THEN "between" ELSE "central", tap.data, tap.described)
    BY <1>3, <1>4 DEF Inv, Followed, InMember, Behind, AtHeader
  <2>2. TellsDirectory(record) \in BOOLEAN
    BY DEF TellsDirectory
  <2>3. told.end = {}
    BY <2>2, TapCentral, Zenon
  <2>4. tap' = Tap(IF phase = "members" /\ record = "local" THEN "between" ELSE "central",
                   tap.data, tap.described)
    <3>1. CASE phase = "members" /\ record # "local"
      <4>1. TellsDirectory(record) = TRUE
        BY <3>1, Zenon DEF TellsDirectory
      <4>2. told = Told("central", TRUE)
        BY <4>1, Zenon
      <4>3. tap' = Tapped(Tap("between", tap.data, tap.described), Told("central", TRUE))
        BY <1>3, <2>1, <3>1, <4>2, Zenon
      <4> QED BY <3>1, <4>3, TapCentral, Zenon
    <3>2. CASE ~(phase = "members" /\ record # "local")
      <4>1. TellsDirectory(record) = FALSE
        BY <3>2, Zenon DEF TellsDirectory
      <4>2. told = Told("central", FALSE)
        BY <4>1, Zenon
      <4>3. tap' = Tapped(Tap(IF phase = "members" THEN "between" ELSE "central",
                              tap.data, tap.described), Told("central", FALSE))
        BY <1>3, <2>1, <4>2, Zenon
      <4>4. tap' = Tap(IF phase = "members" THEN "between" ELSE "central",
                       tap.data, tap.described)
        BY <4>3, TapCentral, Zenon
      <4>5. phase = "members" => record = "local"
        BY <3>2
      <4> QED BY <4>4, <4>5, Zenon
    <3> QED BY <3>1, <3>2
  <2>5. Behind' <=> ~(phase = "members" /\ record = "local")
    BY <1>2, <1>4 DEF Behind, AtHeader, InDirectory, Records
  <2> HIDE DEF told
  <2>6. tap.data \in Nat
    BY DEF Inv, Followed
  <2> QED BY <1>3, <1>4, <2>3, <2>4, <2>5, <2>6 DEF Followed, Tap, InMember
<1>8. RecordStart = offset - 1 /\ RecordStart \in Nat
      /\ (centralStart # None => centralStart \in 0..RecordStart)
  BY <1>4, Lengths DEF Inv, Placed, RecordStart, Past
<1>9. Placed' /\ Sealed'
  BY <1>2, <1>3, <1>4, <1>8
     DEF Inv, Placed, Sealed, Past, AtHeader, archive, InDirectory, Order,
         DirectoryBegins, EndSequenceBegins, Records, None
<1> QED BY <1>5, <1>6, <1>7, <1>9 DEF Inv

(* Headers are read byte by byte.                                           *)
LEMMA FixedByteStep ==
  ASSUME Inv, FixedByte PROVE Inv'
<1>1. /\ state.kind = "fixed" /\ state = Fixed(state.record, state.len)
      /\ GoOn([state EXCEPT !.len = @ + 1], 0, Silent)
      /\ UNCHANGED <<phase, archive>>
  BY DEF FixedByte, Inv, Shape
<1>2. /\ state' = Fixed(state.record, state.len + 1) /\ offset' = offset + 1
      /\ status' = "walking" /\ status = "walking" /\ events' = Silent /\ tap' = tap
  <2>1. [state EXCEPT !.len = @ + 1] = Fixed(state.record, state.len + 1)
    BY <1>1 DEF Fixed
  <2> QED BY <1>1, <2>1, GoesOn, TapSilent
<1>3. state'.kind = "fixed" /\ state'.record = state.record
  BY <1>2, StateFields
<1>4. Shape'
  BY <1>2, <1>3, StateFields DEF Shape
<1>5. Order'
  BY <1>1, <1>3 DEF Inv, Order, InMember, AtHeader
<1>6. Followed'
  BY <1>1, <1>2, <1>3 DEF Inv, Followed, InMember, Behind, AtHeader, Silent
<1>7. Placed' /\ Sealed'
  BY <1>1, <1>2, <1>3 DEF Inv, Placed, Sealed, Past, AtHeader, archive, None
<1> QED BY <1>4, <1>5, <1>6, <1>7 DEF Inv

LEMMA VariableByteStep ==
  ASSUME Inv, VariableByte PROVE Inv'
<1>1. /\ state.kind = "variable" /\ state = Variable(state.record, state.total, state.len)
      /\ GoOn([state EXCEPT !.len = @ + 1], 0, Silent)
      /\ UNCHANGED <<phase, archive>>
  BY DEF VariableByte, Inv, Shape
<1>2. /\ state' = Variable(state.record, state.total, state.len + 1) /\ offset' = offset + 1
      /\ status' = "walking" /\ status = "walking" /\ events' = Silent /\ tap' = tap
  <2>1. [state EXCEPT !.len = @ + 1] = Variable(state.record, state.total, state.len + 1)
    BY <1>1 DEF Variable
  <2> QED BY <1>1, <2>1, GoesOn, TapSilent
<1>3. state'.kind = "variable" /\ state'.record = state.record
  BY <1>2, StateFields
<1>4. Shape'
  BY <1>2, <1>3, StateFields DEF Shape
<1>5. Order'
  BY <1>1, <1>3 DEF Inv, Order, InMember, AtHeader
<1>6. Followed'
  BY <1>1, <1>2, <1>3 DEF Inv, Followed, InMember, Behind, AtHeader, Silent
<1>7. Placed' /\ Sealed'
  BY <1>1, <1>2, <1>3 DEF Inv, Placed, Sealed, Past, AtHeader, archive, None
<1> QED BY <1>4, <1>5, <1>6, <1>7 DEF Inv

(***************************************************************************)
(* Refusals.                                                               *)
(***************************************************************************)
LEMMA RefusedStep ==
  ASSUME Inv, NEW told, Refuse(told), told.end = {},
         NEW at, NEW n \in Nat, NEW d, tap' = Tap(at, n, d), at # "broken"
  PROVE  Inv'
<1>1. /\ status = "walking" /\ status' = "faulted" /\ offset' = offset + 1
      /\ events' = told /\ UNCHANGED <<state, phase, archive>>
  BY DEF Refuse
<1>2. Shape' /\ Order'
  BY <1>1 DEF Inv, Shape, Order, InMember, AtHeader
<1>3. Followed'
  BY <1>1 DEF Followed, Tap
<1>4. Placed' /\ Sealed'
  <2>1. state' = state /\ phase' = phase /\ localCount' = localCount
        /\ centralCount' = centralCount /\ centralStart' = centralStart
        /\ centralEnd' = centralEnd
    BY <1>1 DEF archive
  <2>2. (\A n0 \in {offset} : n0 \in Nat) /\ Past' = Past /\ Past \in Nat
    BY <2>1 DEF Inv, Placed, Past, Shape
  <2>3. Placed'
    BY <1>1, <2>1, <2>2 DEF Inv, Placed, AtHeader
  <2>4. Sealed'
    BY <1>1, <2>1 DEF Inv, Sealed
  <2> QED BY <2>3, <2>4
<1> QED BY <1>2, <1>3, <1>4 DEF Inv

LEMMA SilentRefusal ==
  ASSUME Inv, Refuse(Silent) PROVE Inv'
<1>1. tap' = tap
  BY TapSilent DEF Refuse
<1>2. tap' = Tap(tap.at, tap.data, tap.described) /\ tap.data \in Nat /\ tap.at # "broken"
  BY <1>1 DEF Inv, Followed
<1>3. Silent.end = {}
  BY DEF Silent
<1> HIDE DEF Inv
<1> QED BY <1>2, <1>3, RefusedStep

LEMMA TotalsAt ==
  ASSUME NEW record, NEW total \in Totals(record) PROVE AtHeader(record)
<1>1. CASE Completes(record)
  BY <1>1, StateFields DEF Completes, AtHeader
<1>2. CASE ~Completes(record)
  BY <1>2 DEF Totals, AtHeader
<1> QED BY <1>1, <1>2

(* Before a header is complete, the observer stands between members.        *)
LEMMA AtLocal ==
  ASSUME Inv, AtHeader("local"), status = "walking"
  PROVE  /\ phase = "members" /\ tap = Tap("between", tap.data, tap.described)
         /\ tap.data \in Nat
  BY DEF Inv, Order, Followed, InMember, Behind, AtHeader

LEMMA LocalRefusedStep ==
  ASSUME Inv, LocalRefused PROVE Inv'
<1>1. PICK total \in Totals("local"), header \in LocalHeaders :
        Refuse(Silent) \/ Refuse(Opening([descriptor |-> header.descriptor]))
  BY Zenon DEF LocalRefused, Opening
<1>2. CASE Refuse(Silent)
  BY <1>2, SilentRefusal
<1>3. CASE Refuse(Opening([descriptor |-> header.descriptor]))
  <2> DEFINE h == [descriptor |-> header.descriptor]
  <2>1. AtHeader("local") /\ status = "walking" /\ tap' = Tapped(tap, Opening(h))
    BY <1>1, <1>3, TotalsAt DEF Refuse
  <2>2. PICK n, d : tap = Tap("between", n, d)
    BY <2>1, AtLocal
  <2> HIDE DEF h, Inv
  <2>a. tap' = Tapped(Tap("between", n, d), Opening(h))
    BY <2>1, <2>2
  <2>b. Opening(h).end = {} /\ \E y : Tapped(Tap("between", n, d), Opening(h)) = Tap("member", 0, y)
    BY TapHeader
  <2>3. Opening(h).end = {} /\ \E y : tap' = Tap("member", 0, y)
    BY <2>a, <2>b
  <2>4. Refuse(Opening(h)) /\ "member" # "broken" /\ 0 \in Nat
    BY <1>3 DEF h
  <2> QED BY <2>3, <2>4, RefusedStep
<1> QED BY <1>1, <1>2, <1>3

(***************************************************************************)
(* Members.                                                                *)
(***************************************************************************)
(* What a step among the members has to show.                               *)
LEMMA MemberStep ==
  ASSUME Inv, phase = "members", phase' = "members", centralStart' = centralStart,
         offset' = offset + 1, status' = "walking",
         state' = AtRecord \/ InMember', Shape',
         NEW n \in Nat, NEW d,
         tap' = Tap(IF InMember' THEN "member" ELSE "between", n, d),
         InMember' => n = ToldBytes',
         \A sizes \in events'.end : sizes.compressed = n
  PROVE  Inv'
<1>1. /\ state'.kind \in {"signature", "data", "scan", "descriptor"}
      /\ state'.kind = "signature" => ~InMember' /\ state'.len = 0
  BY StateFields DEF InMember
<1>2. Order'
  BY <1>1 DEF Order, AtHeader
<1>3. ~Behind'
  BY <1>1 DEF Behind, AtHeader
<1>4. Followed'
  BY <1>3 DEF Followed, Tap
<1>5. Placed'
  BY <1>1 DEF Inv, Placed, Past, AtHeader, Shape
<1>6. Sealed'
  BY <1>1 DEF Sealed
<1> QED BY <1>2, <1>4, <1>5, <1>6 DEF Inv

(***************************************************************************)
(* The values of a header.                                                 *)
(***************************************************************************)
(* Every non-empty set of numbers has a least one.                          *)
LEMMA LeastNat ==
  ASSUME NEW T \in SUBSET Nat, T # {}
  PROVE  \E x \in T : \A y \in T : x <= y
<1> DEFINE R == OpToRel(<, Nat)
<1>1. IsWellFoundedOn(R, Nat)
  BY NatLessThanWellFounded
<1>2. \A x, y \in Nat : x < y => <<x, y>> \in R
  BY DEF OpToRel
<1> HIDE DEF R
<1>3. PICK x \in T : \A y \in T : ~ (<<y, x>> \in R)
  BY <1>1, WFMin
<1>4. ASSUME NEW y \in T PROVE x <= y
  <2>1. x \in Nat /\ y \in Nat /\ ~(y < x)
    BY <1>2, <1>3
  <2> QED BY <2>1
<1> QED BY <1>4

(* The ZIP64 field that is found holds numbers.                             *)
LEMMA Found ==
  ASSUME NEW area \in Areas, Find(area).kind = "zip64"
  PROVE  Find(area).values \in Seq(Nat)
<1> DEFINE hits == {i \in DOMAIN area : area[i].kind # "other"}
<1>1. area \in Seq(ExtraFields)
  BY ZipAssumption
<1>2. hits \in SUBSET Nat
  BY <1>1
<1>3. hits # {}
  BY DEF Find
<1> DEFINE first == CHOOSE i \in hits : \A j \in hits : i <= j
<1>4. Find(area) = area[first]
  BY <1>3 DEF Find
<1> HIDE DEF hits
<1>5. first \in hits
  BY <1>2, <1>3, LeastNat
<1>6. area[first] \in ExtraFields
  BY <1>1, <1>5 DEF hits
<1> HIDE DEF first
<1> QED BY <1>4, <1>6 DEF ExtraFields

(* A field that is resolved is a number.                                    *)
LEMMA ResolvedIsNat ==
  ASSUME NEW a \in Fields, NEW b \in Fields, NEW area \in Areas,
         Resolvable(<<a, b>>, area)
  PROVE  Resolved(<<a, b>>, area)[2] \in Nat
<1> DEFINE fields == <<a, b>>
           marked == {j \in 1..2 : fields[j] = Marker}
<1>1. Resolved(fields, area)[2] = IF b = Marker THEN Find(area).values[Rank(fields, 2)] ELSE b
  BY DEF Resolved
<1>2. CASE b # Marker
  BY <1>1, <1>2, ZipAssumption DEF Fields
<1>3. CASE b = Marker
  <2>1. Find(area).kind = "zip64" /\ Rank(fields, 2) <= Len(Find(area).values)
    BY <1>3 DEF Resolvable, Deferred
  <2>2. Rank(fields, 2) = Cardinality(marked)
    BY DEF Rank
  <2>3. IsFiniteSet(marked) /\ marked # {}
    <3>a. IsFiniteSet(1..2)
      BY FS_Interval, 1 \in Int, 2 \in Int
    <3>1. IsFiniteSet(1..2) /\ marked \in SUBSET (1..2)
      BY <3>a
    <3>2. 2 \in marked
      BY <1>3
    <3> HIDE DEF marked
    <3> QED BY <3>1, <3>2, FS_Subset
  <2>4. Rank(fields, 2) \in Nat \ {0}
    <3> HIDE DEF marked, fields
    <3> QED BY <2>2, <2>3, FS_CardinalityType, FS_EmptySet
  <2>5. Find(area).values \in Seq(Nat)
    BY <2>1, Found
  <2>6. Find(area).values[Rank(fields, 2)] \in Nat
    <3> HIDE DEF fields
    <3> QED BY <2>1, <2>4, <2>5
  <2> QED BY <1>1, <1>3, <2>6
<1> QED BY <1>2, <1>3

LEMMA DataStarts ==
  ASSUME NEW n \in Nat, n # 0, NEW u, NEW m, NEW d, NEW z, state' = Data(n, n, u, m, d, z)
  PROVE  Shape' /\ InMember' /\ ToldBytes' = 0
<1>1. /\ state'.kind = "data" /\ state'.remaining = n /\ state'.total = n
      /\ state'.uncompressed = u /\ state'.method = m
      /\ state'.descriptor = d /\ state'.zip64 = z
  BY DEF Data
<1>2. Shape'
  <2>1. state' = Data(state'.remaining, state'.total, state'.uncompressed, state'.method,
                      state'.descriptor, state'.zip64)
    BY <1>1, Zenon
  <2>2. state'.total \in Nat /\ state'.remaining \in 1..state'.total
    BY <1>1
  <2> QED BY <1>1, <2>1, <2>2 DEF Shape
<1>3. InMember' /\ ToldBytes' = 0
  BY <1>1 DEF InMember, ToldBytes
<1> QED BY <1>2, <1>3

LEMMA ScanStarts ==
  ASSUME NEW m, NEW z, state' = DataScan(0, m, z, <<>>)
  PROVE  Shape' /\ InMember' /\ ToldBytes' = 0
<1>1. /\ state'.kind = "scan" /\ state'.consumed = 0 /\ state'.method = m
      /\ state'.zip64 = z /\ state'.held = <<>>
  BY DEF DataScan
<1>2. Shape'
  <2>1. state' = DataScan(state'.consumed, state'.method, state'.zip64, state'.held)
    BY <1>1, Zenon
  <2>2. Whole(state'.zip64) \in Nat /\ Whole(state'.zip64) > 0
    BY Lengths DEF Whole
  <2>a. 0 \in Nat /\ <<>> \in Seq(Bytes) /\ Len(<<>>) = 0
    OBVIOUS
  <2>3. state'.consumed \in Nat /\ state'.held \in Seq(Bytes) /\ Len(state'.held) = 0
    BY <1>1, <2>a, Zenon
  <2> QED BY <1>1, <2>1, <2>2, <2>3 DEF Shape
<1>3. InMember' /\ ToldBytes' = 0
  BY <1>1 DEF InMember, ToldBytes
<1> QED BY <1>2, <1>3

LEMMA RecordBegins ==
  ASSUME state' = AtRecord
  PROVE  Shape' /\ ~InMember'
BY StateFields, Lengths DEF Shape, InMember

LEMMA LocalCompleteStep ==
  ASSUME Inv, LocalComplete PROVE Inv'
<1>1. PICK total \in Totals("local") : \E header \in LocalHeaders, area \in AreasIn(total) :
        LET fields == <<header.uncompressed, header.compressed>> IN
        IF header.descriptor /\ header.compressed = 0
        THEN GoOn(DataScan(0, header.method, NeedsZip64(header), <<>>), 0,
                  Told("header", {[descriptor |-> TRUE]}))
        ELSE /\ Resolvable(fields, area)
             /\ KnownMember(header, Resolved(fields, area), total)
  BY DEF LocalComplete
<1>2. PICK header \in LocalHeaders, area \in AreasIn(total) :
        LET fields == <<header.uncompressed, header.compressed>> IN
        IF header.descriptor /\ header.compressed = 0
        THEN GoOn(DataScan(0, header.method, NeedsZip64(header), <<>>), 0,
                  Told("header", {[descriptor |-> TRUE]}))
        ELSE /\ Resolvable(fields, area)
             /\ KnownMember(header, Resolved(fields, area), total)
  BY <1>1
<1>3. Counted("local") /\ phase' = phase
  BY DEF LocalComplete
<1>4. centralStart' = centralStart
  BY <1>3 DEF Counted
<1> DEFINE fields == <<header.uncompressed, header.compressed>>
           sizes == Resolved(fields, area)
           known == [descriptor |-> header.descriptor]
<1>5. CASE header.descriptor /\ header.compressed = 0
  <2> DEFINE told == [descriptor |-> TRUE]
  <2>1. GoOn(DataScan(0, header.method, NeedsZip64(header), <<>>), 0, Opening(told))
    BY <1>2, <1>5, Zenon DEF Opening
  <2> HIDE DEF told, Inv
  <2>2. /\ state' = DataScan(0, header.method, NeedsZip64(header), <<>>)
        /\ offset' = offset + 1 /\ status = "walking" /\ status' = "walking"
        /\ events' = Opening(told) /\ tap' = Tapped(tap, Opening(told))
    BY <2>1, Zenon DEF GoOn, Consumed
  <2>3. Shape' /\ InMember' /\ ToldBytes' = 0
    BY <2>2, ScanStarts, Zenon
  <2>4. phase = "members" /\ \E n, d : tap = Tap("between", n, d)
    BY <1>1, <2>2, TotalsAt, AtLocal
  <2>5. events'.end = {} /\ \E y : tap' = Tap("member", 0, y)
    BY <2>2, <2>4, TapHeader
  <2> QED BY <1>3, <1>4, <2>2, <2>3, <2>4, <2>5, MemberStep
<1>6. CASE ~(header.descriptor /\ header.compressed = 0)
  <2>1. Resolvable(fields, area) /\ KnownMember(header, sizes, total)
    BY <1>2, <1>6, Zenon
  <2>2. sizes[2] \in Nat
    <3>1. header.uncompressed \in Fields /\ header.compressed \in Fields /\ area \in Areas
      BY DEF LocalHeaders, AreasIn
    <3> QED BY <2>1, <3>1, ResolvedIsNat
  <2> HIDE DEF fields, sizes, known, Inv
  <2>3. CASE sizes[2] = 0
    <3>1. GoOn(AtRecord, 0, OpeningEnd(known, Ended(0, sizes[1], FALSE)))
      BY <2>1, <2>3, Zenon DEF KnownMember, OpeningEnd, Opening, known
    <3> DEFINE e == Ended(0, sizes[1], FALSE)
    <3>2. e # {} /\ \A s \in e : s.compressed = 0
      BY DEF Ended
    <3> HIDE DEF e
    <3>3. /\ state' = AtRecord
          /\ offset' = offset + 1 /\ status = "walking" /\ status' = "walking"
          /\ events' = OpeningEnd(known, e) /\ tap' = Tapped(tap, OpeningEnd(known, e))
      BY <3>1, Zenon DEF GoOn, Consumed, e
    <3>4. Shape' /\ ~InMember'
      BY <3>3, RecordBegins
    <3>5. phase = "members" /\ \E n, d : tap = Tap("between", n, d)
      BY <1>1, <3>3, TotalsAt, AtLocal
    <3>6. events'.end = e /\ \E y : tap' = Tap("between", 0, y)
      BY <3>2, <3>3, <3>5, TapHeaderEnd
    <3> QED BY <1>3, <1>4, <3>2, <3>3, <3>4, <3>5, <3>6, MemberStep
  <2>4. CASE sizes[2] # 0
    <3>1. \E r : GoOn(Data(sizes[2], sizes[2], sizes[1], header.method,
                      header.descriptor, NeedsZip64(header)), r, Opening(known))
      BY <2>1, <2>4, Zenon DEF KnownMember, Opening, known
    <3>3. /\ state' = Data(sizes[2], sizes[2], sizes[1], header.method,
                           header.descriptor, NeedsZip64(header))
          /\ offset' = offset + 1 /\ status = "walking" /\ status' = "walking"
          /\ events' = Opening(known) /\ tap' = Tapped(tap, Opening(known))
      BY <3>1, Zenon DEF GoOn, Consumed
    <3>4. Shape' /\ InMember' /\ ToldBytes' = 0
      BY <2>2, <2>4, <3>3, DataStarts, Zenon
    <3>5. phase = "members" /\ \E n, d : tap = Tap("between", n, d)
      BY <1>1, <3>3, TotalsAt, AtLocal
    <3>6. events'.end = {} /\ \E y : tap' = Tap("member", 0, y)
      BY <3>3, <3>5, TapHeader
    <3> QED BY <1>3, <1>4, <3>3, <3>4, <3>5, <3>6, MemberStep
  <2> QED BY <2>3, <2>4
<1> QED BY <1>5, <1>6

LEMMA CompletesAt ==
  ASSUME NEW record, Completes(record)
  PROVE  AtHeader(record) /\ state.kind = "fixed"
BY StateFields DEF Completes, AtHeader

LEMMA BeginVariableStep ==
  ASSUME Inv, BeginVariable PROVE Inv'
<1>1. PICK record \in {"local", "central"}, total \in 1..MaxVariable :
        /\ Completes(record) /\ Counted(record)
        /\ GoOn(Variable(record, total, 0), 0, Silent)
  BY DEF BeginVariable
<1>2. AtHeader(record) /\ phase' = phase /\ centralStart' = centralStart
  BY <1>1, CompletesAt DEF BeginVariable, Counted
<1>3. /\ state' = Variable(record, total, 0) /\ offset' = offset + 1
      /\ status' = "walking" /\ status = "walking" /\ events' = Silent /\ tap' = tap
  BY <1>1, GoesOn, TapSilent
<1>4. state'.kind = "variable" /\ state'.record = record
  BY <1>3, StateFields
<1>5. Shape'
  BY <1>3, <1>4, StateFields DEF Shape
<1>6. phase = (IF record = "local" THEN "members" ELSE "central")
  BY <1>2 DEF Inv, Order
<1>7. Order'
  BY <1>2, <1>4, <1>6 DEF Order, InMember, AtHeader
<1>8. Followed'
  BY <1>2, <1>3, <1>4, <1>6 DEF Inv, Followed, InMember, Behind, AtHeader, Silent
<1>9. Placed' /\ Sealed'
  BY <1>2, <1>3, <1>4, <1>6 DEF Inv, Placed, Sealed, Past, AtHeader, None
<1> QED BY <1>5, <1>7, <1>8, <1>9 DEF Inv

(* The directory and the locator leave only their record behind.            *)
LEMMA RecordEnds ==
  ASSUME Inv, GoOn(AtRecord, 0, Silent), UNCHANGED <<phase, centralStart, centralEnd>>,
         AtHeader("central") \/ AtHeader("zip64Locator")
  PROVE  Inv'
<1>1. /\ state' = AtRecord /\ offset' = offset + 1
      /\ status' = "walking" /\ status = "walking" /\ events' = Silent /\ tap' = tap
  BY GoesOn, TapSilent
<1>2. phase \in {"central", "locatorSeen"}
  BY DEF Inv, Order
<1>3. Shape' /\ ~InMember'
  BY <1>1, RecordBegins
<1>4. state'.kind = "signature" /\ state'.len = 0
  BY <1>1, StateFields
<1>5. Order'
  BY <1>2, <1>4 DEF Order, InMember, AtHeader
<1>6. Followed'
  BY <1>1, <1>2, <1>4 DEF Inv, Followed, InMember, Behind, AtHeader, Silent
<1>7. Placed' /\ Sealed'
  BY <1>1, <1>2, <1>4 DEF Inv, Placed, Sealed, Past, AtHeader, None
<1> QED BY <1>3, <1>5, <1>6, <1>7 DEF Inv

LEMMA CentralCompleteStep ==
  ASSUME Inv, CentralComplete PROVE Inv'
<1>1. PICK total \in Totals("central") :
        \/ /\ GoOn(AtRecord, 0, Silent)
           /\ Counted("central") /\ UNCHANGED <<phase, stream>>
        \/ Refuse(Silent)
  BY Zenon DEF CentralComplete
<1>2. CASE Refuse(Silent)
  BY <1>2, SilentRefusal
<1>3. CASE GoOn(AtRecord, 0, Silent) /\ Counted("central") /\ UNCHANGED <<phase, stream>>
  <2>1. AtHeader("central") /\ UNCHANGED <<phase, centralStart, centralEnd>>
    BY <1>3, TotalsAt DEF Counted
  <2> HIDE DEF Inv
  <2> QED BY <1>3, <2>1, RecordEnds
<1> QED BY <1>1, <1>2, <1>3

LEMMA LocatorCompleteStep ==
  ASSUME Inv, LocatorComplete PROVE Inv'
<1>1. AtHeader("zip64Locator") /\ GoOn(AtRecord, 0, Silent)
      /\ UNCHANGED <<phase, centralStart, centralEnd>>
  BY CompletesAt DEF LocatorComplete, archive
<1> HIDE DEF Inv
<1> QED BY <1>1, RecordEnds

(* In a member, the observer has heard what the state says.                 *)

(* In a member, the observer has heard what the state says.                 *)
LEMMA InData ==
  ASSUME Inv, InMember, status = "walking"
  PROVE  /\ phase = "members" /\ tap.data \in Nat /\ tap.data = ToldBytes
         /\ \E d : tap = Tap("member", tap.data, d)
BY DEF Inv, Order, Followed

(* A step that tells data, and one that ends the member as well.            *)
LEMMA FeedsOn ==
  ASSUME Inv, InMember, NEW S, NEW bytes \in Seq(S), NEW next,
         GoOn(next, 0, Told("data", bytes))
  PROVE  /\ phase = "members" /\ tap.data \in Nat /\ tap.data = ToldBytes
         /\ state' = next /\ offset' = offset + 1 /\ status' = "walking"
         /\ events'.end = {} /\ events'.data = bytes
         /\ \E d : tap' = Tap("member", tap.data + Len(bytes), d)
<1> DEFINE told == Told("data", bytes)
<1>1. /\ state' = next /\ offset' = offset + 1 /\ status = "walking" /\ status' = "walking"
      /\ events' = told /\ tap' = Tapped(tap, told)
  BY Zenon DEF GoOn, Consumed
<1>2. /\ phase = "members" /\ tap.data \in Nat /\ tap.data = ToldBytes
      /\ \E d : tap = Tap("member", tap.data, d)
  BY <1>1, InData
<1>3. PICK n, d : n \in Nat /\ n = tap.data /\ tap = Tap("member", n, d)
  BY <1>2
<1>4. /\ told.end = {} /\ told.data = bytes
      /\ Tapped(Tap("member", n, d), told) = Tap("member", n + Len(bytes), d)
  <2>1. n \in Nat
    BY <1>3
  <2> QED BY <2>1, TapData
<1>5. tap' = Tap("member", n + Len(bytes), d)
  BY <1>1, <1>3, <1>4, Zenon
<1> QED BY <1>1, <1>2, <1>3, <1>4, <1>5, Zenon

LEMMA FeedsEnd ==
  ASSUME Inv, InMember, NEW S, NEW bytes \in Seq(S), NEW next, NEW e, e # {},
         GoOn(next, 0, [Told("data", bytes) EXCEPT !.end = e])
  PROVE  /\ phase = "members" /\ tap.data \in Nat /\ tap.data = ToldBytes
         /\ state' = next /\ offset' = offset + 1 /\ status' = "walking"
         /\ events'.end = e /\ events'.data = bytes
         /\ \E d : tap' = Tap("between", tap.data + Len(bytes), d)
<1> DEFINE told == [Told("data", bytes) EXCEPT !.end = e]
<1>1. /\ state' = next /\ offset' = offset + 1 /\ status = "walking" /\ status' = "walking"
      /\ events' = told /\ tap' = Tapped(tap, told)
  BY Zenon DEF GoOn, Consumed
<1>2. /\ phase = "members" /\ tap.data \in Nat /\ tap.data = ToldBytes
      /\ \E d : tap = Tap("member", tap.data, d)
  BY <1>1, InData
<1>3. PICK n, d : n \in Nat /\ n = tap.data /\ tap = Tap("member", n, d)
  BY <1>2
<1>4. /\ told.end = e /\ told.data = bytes
      /\ Tapped(Tap("member", n, d), told) = Tap("between", n + Len(bytes), d)
  <2>1. n \in Nat
    BY <1>3
  <2> QED BY <2>1, TapDataEnd
<1>5. tap' = Tap("between", n + Len(bytes), d)
  BY <1>1, <1>3, <1>4, Zenon
<1> QED BY <1>1, <1>2, <1>3, <1>4, <1>5, Zenon

LEMMA DescriptorShape ==
  ASSUME NEW n, NEW m, NEW z, NEW h, state' = Descriptor(n, m, z, h)
  PROVE  Shape' /\ InMember' /\ ToldBytes' = n
<1>1. /\ state'.kind = "descriptor" /\ state'.dataLen = n /\ state'.method = m
      /\ state'.zip64 = z /\ state'.held = h
  BY DEF Descriptor
<1> QED BY <1>1 DEF Shape, InMember, ToldBytes

LEMMA DataByteStep ==
  ASSUME Inv, DataByte PROVE Inv'
<1> DEFINE data == Told("data", <<0>>)
<1>1. /\ state.kind = "data" /\ InMember
      /\ phase' = phase /\ centralStart' = centralStart
  BY DEF DataByte, archive, InMember
<1>2. /\ state = Data(state.remaining, state.total, state.uncompressed, state.method,
                      state.descriptor, state.zip64)
      /\ state.total \in Nat /\ state.remaining \in 1..state.total
      /\ ToldBytes = state.total - state.remaining
  BY <1>1 DEF Inv, Shape, ToldBytes
<1>3. IF state.remaining > 1
      THEN GoOn([state EXCEPT !.remaining = @ - 1], 0, data)
      ELSE IF state.descriptor
      THEN GoOn(Descriptor(state.total, state.method, state.zip64, <<>>), 0, data)
      ELSE GoOn(AtRecord, 0,
                [data EXCEPT !.end = Ended(state.total, state.uncompressed, FALSE)])
  BY Zenon DEF DataByte
<1>4. <<0>> \in Seq(Nat) /\ Len(<<0>>) = 1
  OBVIOUS
<1>5. CASE state.remaining > 1
  <2> DEFINE r == state.remaining - 1 t == state.total u == state.uncompressed
             m == state.method b == state.descriptor z == state.zip64
             next == Data(r, t, u, m, b, z)
  <2>1. next = [state EXCEPT !.remaining = @ - 1]
    BY <1>2 DEF Data
  <2>2. GoOn(next, 0, data)
    BY <1>3, <1>5, <2>1, Zenon
  <2>3. r \in 1..t /\ t \in Nat
    BY <1>2, <1>5
  <2>4. /\ phase = "members" /\ tap.data \in Nat /\ tap.data = ToldBytes
        /\ state' = next /\ offset' = offset + 1 /\ status' = "walking" /\ events'.end = {}
        /\ \E d : tap' = Tap("member", tap.data + 1, d)
    <3> HIDE DEF next, Inv
    <3> QED BY <1>1, <1>4, <2>2, FeedsOn
  <2>5. tap.data + 1 = t - r
    BY <1>2, <2>4
  <2> HIDE DEF r, t, u, m, b, z, Inv
  <2>7. /\ state'.kind = "data" /\ state'.remaining = r /\ state'.total = t
        /\ state'.uncompressed = u /\ state'.method = m
        /\ state'.descriptor = b /\ state'.zip64 = z
    BY <2>4 DEF Data
  <2>8. Shape' /\ InMember' /\ ToldBytes' = t - r
    <3>1. state' = Data(state'.remaining, state'.total, state'.uncompressed, state'.method,
                        state'.descriptor, state'.zip64)
      BY <2>4, <2>7, Zenon
    <3> QED BY <2>3, <2>7, <3>1 DEF Shape, InMember, ToldBytes
  <2> HIDE DEF next
  <2>9. PICK n, d : n \in Nat /\ n = t - r /\ tap' = Tap("member", n, d)
    BY <2>3, <2>4, <2>5
  <2> QED BY <1>1, <2>4, <2>8, <2>9, MemberStep
<1>6. CASE ~(state.remaining > 1) /\ state.descriptor
  <2> DEFINE next == Descriptor(state.total, state.method, state.zip64, <<>>)
  <2>1. GoOn(next, 0, data)
    BY <1>3, <1>6, Zenon
  <2>2. /\ phase = "members" /\ tap.data \in Nat /\ tap.data = ToldBytes
        /\ state' = next /\ offset' = offset + 1 /\ status' = "walking" /\ events'.end = {}
        /\ \E d : tap' = Tap("member", tap.data + 1, d)
    <3> HIDE DEF next, Inv
    <3> QED BY <1>1, <1>4, <2>1, FeedsOn
  <2>3. tap.data + 1 = state.total
    BY <1>2, <1>6, <2>2
  <2>4. Shape' /\ InMember' /\ ToldBytes' = state.total
    BY <2>2, DescriptorShape, Zenon
  <2> HIDE DEF next, Inv
  <2>5. PICK n, d : n \in Nat /\ n = state.total /\ tap' = Tap("member", n, d)
    BY <1>2, <2>2, <2>3
  <2> QED BY <1>1, <2>2, <2>4, <2>5, MemberStep
<1>7. CASE ~(state.remaining > 1) /\ ~state.descriptor
  <2> DEFINE e == Ended(state.total, state.uncompressed, FALSE)
  <2>1. GoOn(AtRecord, 0, [data EXCEPT !.end = e])
    BY <1>3, <1>7, Zenon
  <2>2. e # {} /\ \A s \in e : s.compressed = state.total
    BY DEF Ended
  <2>3. /\ phase = "members" /\ tap.data \in Nat /\ tap.data = ToldBytes
        /\ state' = AtRecord /\ offset' = offset + 1 /\ status' = "walking" /\ events'.end = e
        /\ \E d : tap' = Tap("between", tap.data + 1, d)
    <3> HIDE DEF e, Inv
    <3> QED BY <1>1, <1>4, <2>1, <2>2, FeedsEnd
  <2>4. tap.data + 1 = state.total
    BY <1>2, <1>7, <2>3
  <2>5. Shape' /\ ~InMember'
    BY <2>3, RecordBegins
  <2> HIDE DEF e, Inv
  <2>6. PICK n, d : n \in Nat /\ n = state.total /\ tap' = Tap("between", n, d)
    BY <1>2, <2>3, <2>4
  <2> QED BY <1>1, <2>2, <2>3, <2>5, <2>6, MemberStep
<1> QED BY <1>5, <1>6, <1>7

LEMMA DescriptorByteStep ==
  ASSUME Inv, DescriptorByte PROVE Inv'
<1>1. state.kind = "descriptor" /\ InMember
      /\ state = Descriptor(state.dataLen, state.method, state.zip64, state.held)
      /\ ToldBytes = state.dataLen
  BY DEF DescriptorByte, InMember, Inv, Shape, ToldBytes
<1>2. \/ \E held : /\ GoOn([state EXCEPT !.held = held], 0, Silent)
                   /\ UNCHANGED <<phase, archive, stream>>
      \/ \E u : /\ GoOn(AtRecord, 0, Told("end", Ended(state.dataLen, u, TRUE)))
                /\ UNCHANGED <<phase, archive, stream>>
      \/ Refuse(Silent)
  BY Zenon DEF DescriptorByte
<1>3. ASSUME NEW held, GoOn([state EXCEPT !.held = held], 0, Silent),
             UNCHANGED <<phase, archive, stream>>
      PROVE  Inv'
  <2> DEFINE next == Descriptor(state.dataLen, state.method, state.zip64, held)
  <2>1. next = [state EXCEPT !.held = held]
    BY <1>1 DEF Descriptor
  <2>2. /\ state' = next /\ offset' = offset + 1 /\ status = "walking" /\ status' = "walking"
        /\ events' = Silent /\ tap' = tap /\ phase' = phase /\ centralStart' = centralStart
    BY <1>3, <2>1, TapSilent DEF GoOn, Consumed, archive
  <2>3. /\ phase = "members" /\ tap.data \in Nat /\ tap.data = state.dataLen
        /\ \E d : tap = Tap("member", tap.data, d)
    BY <1>1, <2>2, InData
  <2>4. Shape' /\ InMember' /\ ToldBytes' = state.dataLen
    BY <2>2, DescriptorShape, Zenon
  <2>5. events'.end = {}
    BY <2>2 DEF Silent
  <2> HIDE DEF next, Inv
  <2>6. PICK n, d : n \in Nat /\ n = state.dataLen /\ tap' = Tap("member", n, d)
    BY <2>2, <2>3
  <2> QED BY <2>2, <2>3, <2>4, <2>5, <2>6, MemberStep
<1>4. ASSUME NEW u, GoOn(AtRecord, 0, Told("end", Ended(state.dataLen, u, TRUE))),
             UNCHANGED <<phase, archive, stream>>
      PROVE  Inv'
  <2> DEFINE e == Ended(state.dataLen, u, TRUE)
             told == Told("end", e)
  <2>1. /\ state' = AtRecord /\ offset' = offset + 1 /\ status = "walking" /\ status' = "walking"
        /\ events' = told /\ tap' = Tapped(tap, told)
        /\ phase' = phase /\ centralStart' = centralStart
    BY <1>4, Zenon DEF GoOn, Consumed, archive
  <2>2. e # {} /\ \A s \in e : s.compressed = state.dataLen
    BY DEF Ended
  <2>3. /\ phase = "members" /\ tap.data \in Nat /\ tap.data = state.dataLen
        /\ \E d : tap = Tap("member", tap.data, d)
    BY <1>1, <2>1, InData
  <2>4. Shape' /\ ~InMember'
    BY <2>1, RecordBegins
  <2>5. PICK n, d : n \in Nat /\ n = state.dataLen /\ tap = Tap("member", n, d)
    BY <2>3
  <2> HIDE DEF e, Inv
  <2>6. told.end = e /\ Tapped(Tap("member", n, d), told) = Tap("between", n, d)
    BY <2>2, TapEnd
  <2> HIDE DEF told
  <2>7. events'.end = e /\ tap' = Tap("between", n, d)
    BY <2>1, <2>5, <2>6
  <2> QED BY <2>1, <2>2, <2>3, <2>4, <2>5, <2>7, MemberStep
<1> QED BY <1>2, <1>3, <1>4, SilentRefusal

(***************************************************************************)
(* The end records.                                                        *)
(***************************************************************************)
(* Where an end record has been begun, the directory is closed.             *)
LEMMA EndBegun ==
  ASSUME Inv, AtHeader("zip64End") \/ AtHeader("end") \/ state.kind = "skip"
  PROVE  /\ Behind /\ ~InMember
         /\ centralStart \in Nat /\ centralStart # None /\ centralEnd \in Nat
         /\ centralStart <= centralEnd /\ centralEnd < offset /\ offset \in Nat
BY DEF Inv, Order, Placed, AtHeader, Behind, InMember, None

LEMMA SkipOverStep ==
  ASSUME Inv, NEW n \in Nat, NEW then \in {"zip64EndSeen", "complete"}, SkipOver(n, then),
         AtHeader("zip64End") \/ AtHeader("end") \/ state.kind = "skip",
         UNCHANGED <<localCount, centralCount, centralStart, centralEnd>>,
         then = "zip64EndSeen" => phase = "zip64EndSeen",
         then = "complete" => localCount = centralCount
  PROVE  Inv'
<1>1. /\ phase' = IF n = 0 THEN then ELSE phase
      /\ state' = IF n = 0 THEN AtRecord ELSE Skip(n, then)
      /\ offset' = offset + 1 /\ status = "walking" /\ status' = "walking"
      /\ events' = Silent /\ tap' = tap
  BY TapSilent DEF SkipOver, GoOn, Consumed
<1>2. /\ n = 0 => state'.kind = "signature" /\ state'.len = 0 /\ state' = Signature(0)
      /\ n # 0 => /\ state'.kind = "skip" /\ state'.remaining = n /\ state'.then = then
                  /\ state' = Skip(n, then)
  BY <1>1, StateFields
<1>3. Shape'
  BY <1>2, Lengths DEF Shape
<1>4. Order'
  BY <1>1, <1>2 DEF Inv, Order, InMember, AtHeader
<1>5. Followed'
  BY <1>1, <1>2, EndBegun DEF Inv, Followed, InMember, Behind, AtHeader, Silent
<1>6. Placed'
  BY <1>1, <1>2, EndBegun DEF Placed, Past, AtHeader, None
<1>7. Sealed'
  BY <1>1, <1>2 DEF Inv, Sealed
<1> QED BY <1>3, <1>4, <1>5, <1>6, <1>7 DEF Inv

LEMMA SkipByteStep ==
  ASSUME Inv, SkipByte PROVE Inv'
<1> DEFINE n == state.remaining - 1  then == state.then
<1>1. /\ state.kind = "skip" /\ SkipOver(n, then)
      /\ UNCHANGED <<localCount, centralCount, centralStart, centralEnd>>
  BY DEF SkipByte, archive
<1>2. n \in Nat /\ then \in {"zip64EndSeen", "complete"}
  BY <1>1 DEF Inv, Shape
<1>3. /\ then = "zip64EndSeen" => phase = "zip64EndSeen"
      /\ then = "complete" => localCount = centralCount
  BY <1>1 DEF Inv, Order, Sealed
<1> HIDE DEF n, then, Inv
<1> QED BY <1>1, <1>2, <1>3, SkipOverStep

LEMMA Zip64EndCompleteStep ==
  ASSUME Inv, Zip64EndComplete PROVE Inv'
<1>1. PICK n \in 0..MaxSkip : SkipOver(n, "zip64EndSeen")
  BY DEF Zip64EndComplete
<1>2. /\ AtHeader("zip64End")
      /\ UNCHANGED <<localCount, centralCount, centralStart, centralEnd>>
  BY CompletesAt DEF Zip64EndComplete
<1>3. phase = "zip64EndSeen" /\ n \in Nat
  BY <1>2, ZipAssumption DEF Inv, Order
<1> HIDE DEF Inv
<1> QED BY <1>1, <1>2, <1>3, SkipOverStep

LEMMA EndCompleteStep ==
  ASSUME Inv, EndComplete PROVE Inv'
<1>1. AtHeader("end")
  BY CompletesAt DEF EndComplete
<1>2. PICK n \in 0..MaxSkip :
        \/ /\ SkipOver(n, "complete") /\ localCount = centralCount
           /\ UNCHANGED <<localCount, centralCount, centralStart, centralEnd, zip64End>>
        \/ Refuse(Silent)
  BY Zenon DEF EndComplete, Reconciles
<1>3. CASE Refuse(Silent)
  BY <1>3, SilentRefusal
<1>4. CASE /\ SkipOver(n, "complete") /\ localCount = centralCount
           /\ UNCHANGED <<localCount, centralCount, centralStart, centralEnd, zip64End>>
  <2>1. UNCHANGED <<localCount, centralCount, centralStart, centralEnd>> /\ n \in Nat
    BY <1>4, ZipAssumption
  <2> HIDE DEF Inv
  <2> QED BY <1>1, <1>4, <2>1, SkipOverStep
<1> QED BY <1>2, <1>3, <1>4

LEMMA FinishStep ==
  ASSUME Inv, FinishOk \/ FinishTruncated PROVE Inv'
<1>1. UNCHANGED <<state, phase, offset, archive, events, tap>> /\ status' \in {"ended", "faulted"}
  BY DEF FinishOk, FinishTruncated
<1>2. /\ Shape' /\ Order' /\ Placed'
      /\ Behind' = Behind /\ InMember' = InMember /\ ToldBytes' = ToldBytes
  BY <1>1 DEF Inv, Shape, Order, Placed, Past, Behind, InMember, AtHeader, ToldBytes, archive
<1>3. Followed'
  BY <1>1, <1>2 DEF Inv, Followed, FinishOk, FinishTruncated
<1>4. Sealed'
  BY <1>1, StateFields DEF Inv, Sealed, FinishOk, FinishTruncated, EndsWell, archive
<1> QED BY <1>2, <1>3, <1>4 DEF Inv

(***************************************************************************)
(* The scan for a descriptor.                                              *)
(***************************************************************************)
(* Pieces of sequences of bytes.                                            *)
LEMMA Cut ==
  ASSUME NEW s \in Seq(Bytes), NEW i \in 1..Len(s)+1, NEW j \in i-1..Len(s)
  PROVE  /\ SubSeq(s, i, j) \in Seq(Bytes) /\ Len(SubSeq(s, i, j)) = j - i + 1
         /\ \A x \in 1..j-i+1 : SubSeq(s, i, j)[x] = s[i+x-1]
<1>1. i \in Int /\ j \in Int /\ \A x \in i..j : s[x] \in Bytes
  OBVIOUS
<1>2. /\ SubSeq(s, i, j) \in Seq(Bytes)
      /\ Len(SubSeq(s, i, j)) = IF i <= j THEN j-i+1 ELSE 0
      /\ \A x \in 1..j-i+1 : SubSeq(s, i, j)[x] = s[i+x-1]
  BY <1>1, SubSeqProperties
<1> QED BY <1>2

LEMMA CutOfCut ==
  ASSUME NEW s \in Seq(Bytes), NEW i \in 1..Len(s)+1, NEW j \in i-1..Len(s),
         NEW m \in 1..(j-i+1)+1, NEW n \in m-1..j-i+1
  PROVE  SubSeq(SubSeq(s, i, j), m, n) = SubSeq(s, i+m-1, i+n-1)
<1> DEFINE outer == SubSeq(s, i, j)
           left == SubSeq(outer, m, n)
           right == SubSeq(s, i+m-1, i+n-1)
<1>1. /\ outer \in Seq(Bytes) /\ Len(outer) = j - i + 1
      /\ \A x \in 1..j-i+1 : outer[x] = s[i+x-1]
  BY Cut
<1>2. /\ right \in Seq(Bytes) /\ Len(right) = n - m + 1
      /\ \A x \in 1..n-m+1 : right[x] = s[(i+m-1)+x-1]
  <2> DEFINE a == i+m-1  b == i+n-1
  <2>1. a \in 1..Len(s)+1 /\ b \in a-1..Len(s)
    OBVIOUS
  <2>2. b - a + 1 = n - m + 1
    OBVIOUS
  <2> HIDE DEF a, b
  <2>3. /\ SubSeq(s, a, b) \in Seq(Bytes) /\ Len(SubSeq(s, a, b)) = b - a + 1
        /\ \A x \in 1..b-a+1 : SubSeq(s, a, b)[x] = s[a+x-1]
    BY <2>1, Cut
  <2> QED BY <2>2, <2>3 DEF a, b
<1> HIDE DEF outer
<1>3. m \in 1..Len(outer)+1 /\ n \in m-1..Len(outer)
  BY <1>1
<1>4. /\ left \in Seq(Bytes) /\ Len(left) = n - m + 1
      /\ \A x \in 1..n-m+1 : left[x] = outer[m+x-1]
  BY <1>1, <1>3, Cut
<1> HIDE DEF left, right
<1>5. ASSUME NEW x \in 1..Len(left) PROVE left[x] = right[x]
  <2>1. x \in 1..n-m+1 /\ m+x-1 \in 1..j-i+1
    BY <1>4
  <2>2. left[x] = s[i+(m+x-1)-1] /\ right[x] = s[(i+m-1)+x-1]
    BY <1>1, <1>2, <1>4, <2>1
  <2>3. i+(m+x-1)-1 = (i+m-1)+x-1
    BY <2>1
  <2> QED BY <2>2, <2>3
<1>6. left = right
  BY <1>2, <1>4, <1>5, SeqEqual
<1> QED BY <1>6 DEF left, right, outer

LEMMA CutOfAppend ==
  ASSUME NEW s \in Seq(Bytes), NEW b \in Bytes, NEW i \in 1..Len(s)+1, NEW j \in i-1..Len(s)
  PROVE  SubSeq(Append(s, b), i, j) = SubSeq(s, i, j)
<1> DEFINE t == Append(s, b)  left == SubSeq(t, i, j)  right == SubSeq(s, i, j)
<1>1. t \in Seq(Bytes) /\ Len(t) = Len(s) + 1 /\ \A x \in 1..Len(s) : t[x] = s[x]
  BY AppendProperties
<1> HIDE DEF t
<1>2. /\ left \in Seq(Bytes) /\ Len(left) = j - i + 1
      /\ \A x \in 1..j-i+1 : left[x] = t[i+x-1]
  BY <1>1, Cut
<1>3. /\ right \in Seq(Bytes) /\ Len(right) = j - i + 1
      /\ \A x \in 1..j-i+1 : right[x] = s[i+x-1]
  BY Cut
<1> HIDE DEF left, right
<1>4. ASSUME NEW x \in 1..Len(left) PROVE left[x] = right[x]
  <2>1. x \in 1..j-i+1 /\ i+x-1 \in 1..Len(s)
    BY <1>2
  <2> QED BY <1>1, <1>2, <1>3, <2>1
<1>5. left = right
  BY <1>2, <1>3, <1>4, SeqEqual
<1> QED BY <1>5 DEF left, right, t

LEMMA AppendToCut ==
  ASSUME NEW s \in Seq(Bytes), NEW b \in Bytes, NEW i \in 1..Len(s)+1
  PROVE  Append(SubSeq(s, i, Len(s)), b) = SubSeq(Append(s, b), i, Len(s) + 1)
<1> DEFINE t == Append(s, b)  tail == SubSeq(s, i, Len(s))
           left == Append(tail, b)  right == SubSeq(t, i, Len(s) + 1)
<1>1. /\ t \in Seq(Bytes) /\ Len(t) = Len(s) + 1
      /\ \A x \in 1..Len(s) : t[x] = s[x]
      /\ t[Len(s) + 1] = b
  BY AppendProperties
<1>2. /\ tail \in Seq(Bytes) /\ Len(tail) = Len(s) - i + 1
      /\ \A x \in 1..Len(s)-i+1 : tail[x] = s[i+x-1]
  <2>1. Len(s) \in i-1..Len(s)
    OBVIOUS
  <2> QED BY <2>1, Cut
<1> HIDE DEF t, tail
<1>3. /\ left \in Seq(Bytes) /\ Len(left) = Len(tail) + 1
      /\ \A x \in 1..Len(tail) : left[x] = tail[x]
      /\ left[Len(tail) + 1] = b
  BY <1>2, AppendProperties
<1>4. /\ right \in Seq(Bytes) /\ Len(right) = Len(s) + 1 - i + 1
      /\ \A x \in 1..Len(s)+1-i+1 : right[x] = t[i+x-1]
  <2>1. i \in 1..Len(t)+1 /\ Len(s) + 1 \in i-1..Len(t)
    BY <1>1
  <2> QED BY <1>1, <2>1, Cut
<1> HIDE DEF left, right
<1>5. ASSUME NEW x \in 1..Len(left) PROVE left[x] = right[x]
  <2>1. CASE x \in 1..Len(tail)
    <3>1. /\ x \in 1..Len(s)-i+1 /\ x \in 1..Len(s)+1-i+1
          /\ i+x-1 \in 1..Len(s)
      BY <1>2, <2>1
    <3>2. left[x] = s[i+x-1] /\ right[x] = t[i+x-1]
      BY <1>2, <1>3, <1>4, <2>1, <3>1
    <3> QED BY <1>1, <3>1, <3>2
  <2>2. CASE x = Len(tail) + 1
    <3>1. right[x] = t[i+x-1] /\ i+x-1 = Len(s) + 1
      BY <1>2, <1>4, <2>2
    <3> QED BY <1>1, <1>3, <2>2, <3>1
  <2> QED BY <1>2, <1>3, <2>1, <2>2
<1>6. Len(left) = Len(right)
  BY <1>2, <1>3, <1>4
<1>7. left = right
  BY <1>3, <1>4, <1>5, <1>6, SeqEqual
<1> QED BY <1>7 DEF left, right, t, tail

\* What the loop of the scan looks for: the bytes behind k may be a descriptor.
Holds(held, consumed, zip64, k) ==
  LET rest == SubSeq(held, k + 1, Len(held)) IN
  /\ LooksLikeDescriptor(rest)
  /\ Len(rest) < Whole(zip64) \/ Closes(rest, consumed + k, zip64)

(* The loop stops, at the first such place.                                 *)
LEMMA ReleasedStops ==
  ASSUME NEW held \in Seq(Bytes), NEW consumed, NEW zip64
  PROVE  LET n == Released(held, consumed, zip64) IN
         /\ n \in 0..Len(held) /\ Holds(held, consumed, zip64, n)
         /\ \A k \in 0..n-1 : ~Holds(held, consumed, zip64, k)
<1> DEFINE H(k) == Holds(held, consumed, zip64, k)
           T == {k \in 0..Len(held) : H(k)}
<1>1. H(Len(held))
  <2>1. SubSeq(held, Len(held) + 1, Len(held)) = <<>>
    BY SubSeqEmpty, Len(held) \in Int
  <2>2. Len(<<>>) < SigLen /\ Len(<<>>) < Whole(zip64)
    BY Lengths DEF Whole
  <2> QED BY <2>1, <2>2 DEF Holds, LooksLikeDescriptor
<1> HIDE DEF H
<1>2. T # {} /\ T \in SUBSET Nat
  BY <1>1
<1> HIDE DEF T
<1>3. PICK n \in T : \A k \in T : n <= k
  BY <1>2, LeastNat
<1>4. n \in 0..Len(held) /\ H(n) /\ \A k \in 0..n-1 : ~H(k)
  <2>1. n \in 0..Len(held) /\ H(n)
    BY <1>3 DEF T
  <2>2. ASSUME NEW k \in 0..n-1, H(k) PROVE FALSE
    <3>1. k \in T
      BY <2>1, <2>2 DEF T
    <3>2. n <= k
      BY <1>3, <3>1
    <3> QED BY <2>1, <3>2
  <2> QED BY <2>1, <2>2
<1>5. Released(held, consumed, zip64) =
        CHOOSE m \in 0..Len(held) : H(m) /\ \A k \in 0..m-1 : ~H(k)
  BY DEF Released, H, Holds, Whole
<1> DEFINE m == Released(held, consumed, zip64)
<1>6. m \in 0..Len(held) /\ H(m) /\ \A k \in 0..m-1 : ~H(k)
  BY <1>4, <1>5
<1> QED BY <1>6 DEF H

(* One byte of the scan: what is given up, and what is kept.                *)
LEMMA ScanMove ==
  ASSUME NEW held \in Seq(Bytes), NEW consumed \in Nat, NEW zip64, Len(held) <= Whole(zip64)
  PROVE  LET n == Released(held, consumed, zip64)
             rest == SubSeq(held, n + 1, Len(held)) IN
         /\ n \in 0..Len(held)
         /\ rest \in Seq(Bytes) /\ Len(rest) = Len(held) - n
         /\ SubSeq(held, 1, n) \in Seq(Bytes) /\ Len(SubSeq(held, 1, n)) = n
         /\ ~Closes(rest, consumed + n, zip64) => Len(rest) < Whole(zip64)
         /\ Closes(rest, consumed + n, zip64) => n = 0 /\ Len(held) = Whole(zip64) /\ rest = held
<1> DEFINE n == Released(held, consumed, zip64)
           rest == SubSeq(held, n + 1, Len(held))
<1>1. n \in 0..Len(held) /\ Holds(held, consumed, zip64, n)
  BY ReleasedStops
<1> HIDE DEF n
<1>2. Whole(zip64) \in Nat
  BY Lengths DEF Whole
<1>3. rest \in Seq(Bytes) /\ Len(rest) = Len(held) - n
  <2>1. n + 1 \in 1..Len(held)+1 /\ Len(held) \in (n+1)-1..Len(held)
    BY <1>1
  <2>2. Len(rest) = Len(held) - (n + 1) + 1 /\ rest \in Seq(Bytes)
    BY <2>1, Cut
  <2> HIDE DEF rest
  <2> QED BY <1>1, <2>2
<1>4. SubSeq(held, 1, n) \in Seq(Bytes) /\ Len(SubSeq(held, 1, n)) = n
  <2>1. 1 \in 1..Len(held)+1 /\ n \in 1-1..Len(held)
    BY <1>1
  <2>2. Len(SubSeq(held, 1, n)) = n - 1 + 1 /\ SubSeq(held, 1, n) \in Seq(Bytes)
    BY <2>1, Cut
  <2> QED BY <1>1, <2>2
<1>5. ~Closes(rest, consumed + n, zip64) => Len(rest) < Whole(zip64)
  BY <1>1 DEF Holds
<1>6. ASSUME Closes(rest, consumed + n, zip64)
      PROVE  n = 0 /\ Len(held) = Whole(zip64) /\ rest = held
  <2>1. Len(rest) >= Whole(zip64)
    BY <1>6 DEF Closes, Whole
  <2> HIDE DEF rest
  <2>2. n = 0 /\ Len(held) = Whole(zip64)
    BY <1>1, <1>2, <1>3, <2>1
  <2>3. rest = held
    BY <2>2, SubSeqFull DEF rest
  <2> QED BY <2>2, <2>3
<1> QED BY <1>1, <1>3, <1>4, <1>5, <1>6 DEF n

LEMMA ScanByteStep ==
  ASSUME Inv, ScanByte PROVE Inv'
<1>1. PICK byte \in Bytes :
       LET zip64 == state.zip64
           held == Append(state.held, byte)
           n == Released(held, state.consumed, zip64)
           rest == SubSeq(held, n + 1, Len(held))
           body == SubSeq(rest, SigLen + 1, Len(rest))
           consumed == state.consumed + n
           data == Told("data", SubSeq(held, 1, n)) IN
       /\ stream' = Append(stream, byte)
       /\ IF ~Closes(rest, consumed, zip64)
          THEN GoOn(DataScan(consumed, state.method, state.zip64, rest), 0, data)
          ELSE /\ Plausible(state.method, consumed, Uncompressed(body, zip64))
               /\ GoOn(AtRecord, 0,
                       [data EXCEPT !.end = Ended(consumed, Uncompressed(body, zip64), TRUE)])
  BY DEF ScanByte
<1> DEFINE z == state.zip64
           m == state.method
           c == state.consumed
           held == Append(state.held, byte)
           n == Released(held, c, z)
           rest == SubSeq(held, n + 1, Len(held))
           bytes == SubSeq(held, 1, n)
           u == Uncompressed(SubSeq(rest, SigLen + 1, Len(rest)), z)
<1>2. \/ ~Closes(rest, c + n, z) /\ GoOn(DataScan(c + n, m, z, rest), 0, Told("data", bytes))
      \/ /\ Closes(rest, c + n, z)
         /\ GoOn(AtRecord, 0, [Told("data", bytes) EXCEPT !.end = Ended(c + n, u, TRUE)])
  BY <1>1, Zenon
<1>3. /\ state.kind = "scan" /\ InMember /\ phase' = phase /\ centralStart' = centralStart
      /\ ToldBytes = c
  BY DEF ScanByte, InMember, archive, ToldBytes
<1>4. c \in Nat /\ held \in Seq(Bytes) /\ Len(held) <= Whole(z) /\ Whole(z) \in Nat
  <2>1. c \in Nat /\ state.held \in Seq(Bytes) /\ Len(state.held) < Whole(z)
    BY <1>3 DEF Inv, Shape
  <2>2. Whole(z) \in Nat
    BY Lengths DEF Whole
  <2>3. held \in Seq(Bytes) /\ Len(held) = Len(state.held) + 1
    BY <2>1, AppendProperties
  <2> HIDE DEF held
  <2> QED BY <2>1, <2>2, <2>3
<1> HIDE DEF held, z, m, c, u
<1>5. /\ n \in 0..Len(held)
      /\ rest \in Seq(Bytes) /\ Len(rest) = Len(held) - n
      /\ bytes \in Seq(Bytes) /\ Len(bytes) = n
      /\ ~Closes(rest, c + n, z) => Len(rest) < Whole(z)
  BY <1>4, ScanMove
<1> HIDE DEF n, rest, bytes, Inv
<1>6. n \in Nat /\ c + n \in Nat
  BY <1>4, <1>5
<1>7. CASE ~Closes(rest, c + n, z) /\ GoOn(DataScan(c + n, m, z, rest), 0, Told("data", bytes))
  <2> DEFINE next == DataScan(c + n, m, z, rest)
  <2> HIDE DEF next
  <2>1. /\ phase = "members" /\ tap.data \in Nat /\ tap.data = c
        /\ state' = next /\ offset' = offset + 1 /\ status' = "walking" /\ events'.end = {}
        /\ \E d : tap' = Tap("member", tap.data + n, d)
    BY <1>3, <1>5, <1>7, FeedsOn DEF next
  <2>2. /\ state'.kind = "scan" /\ state'.consumed = c + n /\ state'.method = m
        /\ state'.zip64 = z /\ state'.held = rest
    BY <2>1 DEF next, DataScan
  <2>3. Shape' /\ InMember' /\ ToldBytes' = c + n
    <3>1. state' = DataScan(state'.consumed, state'.method, state'.zip64, state'.held)
      BY <2>1, <2>2, Zenon DEF next
    <3> QED BY <1>5, <1>6, <1>7, <2>2, <3>1 DEF Shape, InMember, ToldBytes
  <2>4. PICK d : tap' = Tap("member", c + n, d)
    BY <2>1
  <2> QED BY <1>3, <1>6, <2>1, <2>3, <2>4, MemberStep
<1>8. CASE /\ Closes(rest, c + n, z)
           /\ GoOn(AtRecord, 0, [Told("data", bytes) EXCEPT !.end = Ended(c + n, u, TRUE)])
  <2> DEFINE e == Ended(c + n, u, TRUE)
  <2>1. e # {} /\ \A s \in e : s.compressed = c + n
    BY DEF Ended
  <2> HIDE DEF e
  <2>2. /\ phase = "members" /\ tap.data \in Nat /\ tap.data = c
        /\ state' = AtRecord /\ offset' = offset + 1 /\ status' = "walking" /\ events'.end = e
        /\ \E d : tap' = Tap("between", tap.data + n, d)
    BY <1>3, <1>5, <1>8, <2>1, FeedsEnd DEF e
  <2>3. Shape' /\ ~InMember'
    BY <2>2, RecordBegins
  <2>4. PICK d : tap' = Tap("between", c + n, d)
    BY <2>2
  <2> QED BY <1>3, <1>6, <2>1, <2>2, <2>3, <2>4, MemberStep
<1> QED BY <1>2, <1>7, <1>8

LEMMA ScanRefusedStep ==
  ASSUME Inv, ScanRefused PROVE Inv'
<1>1. PICK byte \in Bytes :
        Refuse(Told("data", SubSeq(Append(state.held, byte), 1,
                 Released(Append(state.held, byte), state.consumed, state.zip64))))
  BY DEF ScanRefused
<1> DEFINE held == Append(state.held, byte)
           n == Released(held, state.consumed, state.zip64)
           bytes == SubSeq(held, 1, n)
           told == Told("data", bytes)
<1>2. state.kind = "scan" /\ InMember /\ status = "walking" /\ tap' = Tapped(tap, told)
  BY <1>1 DEF ScanRefused, InMember, Refuse
<1>3. /\ state.consumed \in Nat /\ held \in Seq(Bytes) /\ Len(held) <= Whole(state.zip64)
  <2>1. /\ state.consumed \in Nat /\ state.held \in Seq(Bytes)
        /\ Len(state.held) < Whole(state.zip64)
    BY <1>2 DEF Inv, Shape
  <2>2. Whole(state.zip64) \in Nat
    BY Lengths DEF Whole
  <2>3. held \in Seq(Bytes) /\ Len(held) = Len(state.held) + 1
    BY <2>1, AppendProperties
  <2> HIDE DEF held
  <2> QED BY <2>1, <2>2, <2>3
<1> HIDE DEF held
<1>4. n \in 0..Len(held) /\ bytes \in Seq(Bytes) /\ Len(bytes) = n
  BY <1>3, ScanMove
<1> HIDE DEF n, bytes
<1>5. PICK k, d : k \in Nat /\ tap = Tap("member", k, d)
  BY <1>2, InData
<1>6. told.end = {} /\ Tapped(Tap("member", k, d), told) = Tap("member", k + Len(bytes), d)
  <2>1. k \in Nat
    BY <1>5
  <2> QED BY <1>4, <2>1, TapData
<1> HIDE DEF told, Inv
<1>7. Refuse(told)
  BY <1>1 DEF told, bytes, n, held
<1>8. tap' = Tap("member", k + Len(bytes), d)
  <2>1. tap' = Tapped(Tap("member", k, d), told)
    BY <1>2, <1>5
  <2> QED BY <1>6, <2>1
<1>9. k + Len(bytes) \in Nat /\ "member" # "broken"
  BY <1>4, <1>5
<1> QED BY <1>6, <1>7, <1>8, <1>9, RefusedStep

(***************************************************************************)
(* The specification.                                                      *)
(***************************************************************************)
LEMMA InitInv ==
  ASSUME Init PROVE Inv
<1>1. state = Signature(0) /\ state.kind = "signature" /\ state.len = 0
  BY StateFields DEF Init
<1>2. tap = Tap("between", 0, FALSE)
  BY DEF Init, Tap
<1>3. tap.at = "between" /\ tap.data = 0
  BY <1>2 DEF Tap
<1>4. tap = Tap(tap.at, tap.data, tap.described)
  BY DEF Init, Tap
<1>5. Shape /\ Order
  BY <1>1, Lengths DEF Init, Shape, Order, InMember, AtHeader
<1>6. Followed
  BY <1>1, <1>3, <1>4 DEF Init, Followed, InMember, Behind, AtHeader, Silent
<1>7. Placed /\ Sealed
  BY <1>1 DEF Init, Placed, Sealed, Past, AtHeader, None
<1> QED BY <1>5, <1>6, <1>7 DEF Inv

LEMMA StepInv ==
  ASSUME Inv, [Next]_vars PROVE Inv'
<1>1. CASE SignatureByte
  BY <1>1, SignatureByteStep
<1>2. CASE DispatchSignature
  BY <1>2, DispatchStep
<1>3. CASE TrailingByte \/ SignatureRefused \/ Zip64EndRefused
  BY <1>3, SilentRefusal DEF TrailingByte, SignatureRefused, Zip64EndRefused
<1>4. CASE FixedByte \/ BeginVariable \/ VariableByte
  BY <1>4, FixedByteStep, BeginVariableStep, VariableByteStep
<1>5. CASE LocalComplete \/ LocalRefused \/ CentralComplete
  BY <1>5, LocalCompleteStep, LocalRefusedStep, CentralCompleteStep
<1>6. CASE DataByte \/ ScanByte \/ ScanRefused \/ DescriptorByte
  BY <1>6, DataByteStep, ScanByteStep, ScanRefusedStep, DescriptorByteStep
<1>7. CASE SkipByte \/ Zip64EndComplete \/ LocatorComplete \/ EndComplete
  BY <1>7, SkipByteStep, Zip64EndCompleteStep, LocatorCompleteStep, EndCompleteStep
<1>8. CASE FinishOk \/ FinishTruncated
  BY <1>8, FinishStep
<1>9. CASE UNCHANGED vars
  BY <1>9 DEF vars, archive, Inv, Shape, Order, Followed, Placed, Sealed, InMember, AtHeader,
              Behind, ToldBytes, Past
<1> QED BY <1>1, <1>2, <1>3, <1>4, <1>5, <1>6, <1>7, <1>8, <1>9 DEF Next

LEMMA AlwaysInv == Spec => []Inv
<1>1. Init => Inv
  BY InitInv
<1>2. Inv /\ [Next]_vars => Inv'
  BY StepInv
<1> QED BY <1>1, <1>2, PTL DEF Spec

(* For every layout of the records, the observer hears one member after the *)
(* other, each with as many bytes as its end says, then the directory: also *)
(* when a member ends by its sizes, by a descriptor behind them, or by one  *)
(* that was searched for (events.rs).                                       *)
THEOREM MembersComeWhole == Spec => []MembersAreFramed
<1>1. Inv => MembersAreFramed
  BY DEF Inv, Followed, MembersAreFramed
<1> QED BY <1>1, AlwaysInv, PTL

(***************************************************************************)
(* What the observer was told, and what the end record claims.             *)
(***************************************************************************)
\* A member is counted when its fixed part is complete, and heard to its end
\* later: one may be on its way.
InFlight == InMember \/ (state.kind = "variable" /\ state.record = "local")
Flying == IF InFlight THEN 1 ELSE 0

Ends(told) == IF told.end = {} THEN 0 ELSE 1

\* The end record was accepted.
Accepting == phase = "complete" \/ (state.kind = "skip" /\ state.then = "complete")

\* What the walker counts and places is what the observer was told, and what
\* the accepted end record claims.
Tally ==
  status # "faulted" =>
    /\ localCount \in Nat /\ account.members \in Nat
    /\ localCount = account.members + Flying
    /\ account.directory = centralStart
    /\ ~Behind => centralStart = None
    /\ Accepting =>
         /\ Says(claims.entries, zip64End.entries, localCount)
         /\ Says(claims.size, zip64End.size, centralEnd - centralStart)
         /\ Says(claims.offset, zip64End.offset, centralStart)

(* Reports of members tell of no directory.                                 *)
LEMMA NoDirectory ==
  /\ Silent.end = {} /\ Silent.central = FALSE
  /\ \A h : Opening(h).end = {} /\ Opening(h).central = FALSE
  /\ \A h, e : OpeningEnd(h, e).end = e /\ OpeningEnd(h, e).central = FALSE
  /\ \A b : Told("data", b).end = {} /\ Told("data", b).central = FALSE
  /\ \A b, e : LET told == [Told("data", b) EXCEPT !.end = e] IN
               told.end = e /\ told.central = FALSE
  /\ \A e : Told("end", e).end = e /\ Told("end", e).central = FALSE
BY DEF Silent, Told, Opening, OpeningEnd

LEMMA FlyingIs == Flying \in {0, 1} /\ Flying' \in {0, 1}
BY DEF Flying

(* What a step that does not touch the directory has to show.               *)
LEMMA TallyKept ==
  ASSUME Tally, NEW next, NEW reported, NEW told, GoOn(next, reported, told),
         told.central = FALSE,
         UNCHANGED <<centralStart, centralEnd, zip64End, claims>>,
         NEW n \in Nat, localCount' = n,
         n + Flying = localCount + Flying' + Ends(told),
         Behind => Behind', Accepting' => Accepting /\ n = localCount
  PROVE  Tally'
<1> DEFINE ended == Ends(told)
<1>1. status = "walking" /\ account' = Accounted(told)
  BY DEF GoOn, Consumed
<1>2. account'.members = account.members + ended /\ account'.directory = account.directory
  BY <1>1 DEF Accounted, Ends
<1>3. /\ localCount \in Nat /\ account.members \in Nat
      /\ localCount = account.members + Flying
      /\ account.directory = centralStart
      /\ ~Behind => centralStart = None
  BY <1>1 DEF Tally
<1>4. ended \in {0, 1} /\ n + Flying = localCount + Flying' + ended
  BY DEF Ends
<1> HIDE DEF ended
<1>5. account'.members \in Nat /\ localCount' = account'.members + Flying'
  BY <1>2, <1>3, <1>4, FlyingIs
<1>6. Accepting' =>
        /\ Says(claims.entries, zip64End.entries, localCount)'
        /\ Says(claims.size, zip64End.size, centralEnd - centralStart)'
        /\ Says(claims.offset, zip64End.offset, centralStart)'
  BY <1>1 DEF Tally, Says
<1> QED BY <1>2, <1>3, <1>5, <1>6 DEF Tally

\* A member under way goes on or is over.
MemberGoes(next, reported, told) ==
  /\ GoOn(next, reported, told) /\ told.central = FALSE
  /\ \/ next.kind \in {"data", "scan", "descriptor"} /\ told.end = {}
     \/ next = AtRecord /\ told.end # {}

LEMMA TallyOfMember ==
  ASSUME Inv, Tally, InMember, NEW next, NEW reported, NEW told,
         MemberGoes(next, reported, told), UNCHANGED <<phase, archive>>
  PROVE  Tally'
<1>1. status = "walking" /\ state' = next
  BY GoesOn DEF MemberGoes
<1>2. localCount \in Nat /\ localCount' = localCount
  BY <1>1 DEF Tally, archive
<1>3. phase = "members" /\ phase' = "members" /\ Flying = 1
  BY DEF Inv, Order, Flying, InFlight
<1>4. Flying' + Ends(told) = 1 /\ Ends(told) \in {0, 1}
  BY <1>1, StateFields DEF MemberGoes, Ends, Flying, InFlight, InMember
<1>5. localCount + Flying = localCount + Flying' + Ends(told)
  BY <1>2, <1>3, <1>4, FlyingIs
<1>6. ~Behind /\ ~Accepting'
  BY <1>1, <1>3, StateFields DEF MemberGoes, Behind, AtHeader, Accepting, InMember
<1> QED BY <1>2, <1>5, <1>6, TallyKept DEF archive, MemberGoes

(* The reports of a member's data and of its end.                           *)
LEMMA GoesWithData ==
  ASSUME NEW next, NEW reported, NEW b, GoOn(next, reported, Told("data", b)),
         next.kind \in {"data", "scan", "descriptor"}
  PROVE  \E n, r, t : MemberGoes(n, r, t)
<1>1. MemberGoes(next, reported, Told("data", b))
  BY NoDirectory DEF MemberGoes
<1> QED BY <1>1, Zenon

LEMMA GoesSilently ==
  ASSUME NEW next, NEW reported, GoOn(next, reported, Silent),
         next.kind \in {"data", "scan", "descriptor"}
  PROVE  \E n, r, t : MemberGoes(n, r, t)
<1>1. MemberGoes(next, reported, Silent)
  BY NoDirectory DEF MemberGoes
<1> QED BY <1>1, Zenon

LEMMA GoesWithHeader ==
  ASSUME NEW next, NEW reported, NEW h, GoOn(next, reported, Opening(h)),
         next.kind \in {"data", "scan", "descriptor"}
  PROVE  \E n, r, t : MemberGoes(n, r, t)
<1>1. MemberGoes(next, reported, Opening(h))
  BY NoDirectory DEF MemberGoes
<1> QED BY <1>1, Zenon

LEMMA EndsMember ==
  ASSUME NEW reported, NEW told, GoOn(AtRecord, reported, told),
         told.end # {}, told.central = FALSE
  PROVE  \E n, r, t : MemberGoes(n, r, t)
<1>1. MemberGoes(AtRecord, reported, told)
  BY DEF MemberGoes
<1> QED BY <1>1, Zenon

LEMMA MemberTally ==
  ASSUME Inv, Tally, DataByte \/ ScanByte \/ DescriptorByte, status' # "faulted"
  PROVE  Tally'
<1>1. InMember /\ UNCHANGED <<phase, archive>>
  <2>1. CASE DataByte \/ ScanByte
    BY <2>1 DEF DataByte, ScanByte, InMember
  <2>2. CASE DescriptorByte
    BY <2>2 DEF DescriptorByte, InMember, Refuse
  <2> QED BY <2>1, <2>2
<1>2. \E next, reported, told : MemberGoes(next, reported, told)
  <2>1. CASE DataByte
    <3>1. state = Data(state.remaining, state.total, state.uncompressed, state.method,
                       state.descriptor, state.zip64)
      BY <2>1 DEF DataByte, Inv, Shape
    <3>2. [state EXCEPT !.remaining = @ - 1].kind = "data"
      BY <3>1 DEF Data
    <3>3. \/ GoOn([state EXCEPT !.remaining = @ - 1], 0, Told("data", <<0>>))
          \/ GoOn(Descriptor(state.total, state.method, state.zip64, <<>>), 0,
                  Told("data", <<0>>))
          \/ GoOn(AtRecord, 0, [Told("data", <<0>>) EXCEPT
                    !.end = Ended(state.total, state.uncompressed, FALSE)])
      BY <2>1, Zenon DEF DataByte
    <3>4. Descriptor(state.total, state.method, state.zip64, <<>>).kind = "descriptor"
      BY StateFields
    <3>5. CASE GoOn([state EXCEPT !.remaining = @ - 1], 0, Told("data", <<0>>))
      BY <3>2, <3>5, GoesWithData
    <3>6. CASE GoOn(Descriptor(state.total, state.method, state.zip64, <<>>), 0,
                    Told("data", <<0>>))
      BY <3>4, <3>6, GoesWithData
    <3>7. CASE GoOn(AtRecord, 0, [Told("data", <<0>>) EXCEPT
                      !.end = Ended(state.total, state.uncompressed, FALSE)])
      <4> DEFINE told == [Told("data", <<0>>) EXCEPT
                            !.end = Ended(state.total, state.uncompressed, FALSE)]
      <4>a. told.end = Ended(state.total, state.uncompressed, FALSE) /\ told.central = FALSE
        BY NoDirectory, Zenon
      <4>b. Ended(state.total, state.uncompressed, FALSE) # {}
        BY DEF Ended
      <4>1. told.end # {} /\ told.central = FALSE
        BY <4>a, <4>b
      <4>2. GoOn(AtRecord, 0, told)
        BY <3>7
      <4> HIDE DEF told
      <4> QED BY <4>1, <4>2, EndsMember
    <3> QED BY <3>3, <3>5, <3>6, <3>7
  <2>2. CASE ScanByte
    <3>1. \E c, m, z, rest, b, u :
            \/ GoOn(DataScan(c, m, z, rest), 0, Told("data", b))
            \/ GoOn(AtRecord, 0, [Told("data", b) EXCEPT !.end = Ended(c, u, TRUE)])
      BY <2>2, Zenon DEF ScanByte
    <3>2. PICK c, m, z, rest, b, u :
            \/ GoOn(DataScan(c, m, z, rest), 0, Told("data", b))
            \/ GoOn(AtRecord, 0, [Told("data", b) EXCEPT !.end = Ended(c, u, TRUE)])
      BY <3>1
    <3>3. DataScan(c, m, z, rest).kind = "scan"
      BY StateFields
    <3>4. CASE GoOn(DataScan(c, m, z, rest), 0, Told("data", b))
      BY <3>3, <3>4, GoesWithData
    <3>5. CASE GoOn(AtRecord, 0, [Told("data", b) EXCEPT !.end = Ended(c, u, TRUE)])
      <4> DEFINE told == [Told("data", b) EXCEPT !.end = Ended(c, u, TRUE)]
      <4>a. told.end = Ended(c, u, TRUE) /\ told.central = FALSE
        BY NoDirectory, Zenon
      <4>b. Ended(c, u, TRUE) # {}
        BY DEF Ended
      <4>1. told.end # {} /\ told.central = FALSE
        BY <4>a, <4>b
      <4>2. GoOn(AtRecord, 0, told)
        BY <3>5
      <4> HIDE DEF told
      <4> QED BY <4>1, <4>2, EndsMember
    <3> QED BY <3>2, <3>4, <3>5
  <2>3. CASE DescriptorByte
    <3>1. state = Descriptor(state.dataLen, state.method, state.zip64, state.held)
      BY <2>3 DEF DescriptorByte, Inv, Shape
    <3>2. \A held : [state EXCEPT !.held = held].kind = "descriptor"
      BY <3>1 DEF Descriptor
    <3>3. \/ \E held : GoOn([state EXCEPT !.held = held], 0, Silent)
          \/ \E u : GoOn(AtRecord, 0, Told("end", Ended(state.dataLen, u, TRUE)))
          \/ Refuse(Silent)
      BY <2>3, Zenon DEF DescriptorByte
    <3>4. ~Refuse(Silent)
      BY DEF Refuse
    <3>5. ASSUME NEW held, GoOn([state EXCEPT !.held = held], 0, Silent)
          PROVE  \E next, reported, told : MemberGoes(next, reported, told)
      BY <3>2, <3>5, GoesSilently
    <3>6. ASSUME NEW u, GoOn(AtRecord, 0, Told("end", Ended(state.dataLen, u, TRUE)))
          PROVE  \E next, reported, told : MemberGoes(next, reported, told)
      <4> DEFINE told == Told("end", Ended(state.dataLen, u, TRUE))
      <4>a. told.end = Ended(state.dataLen, u, TRUE) /\ told.central = FALSE
        BY NoDirectory, Zenon
      <4>b. Ended(state.dataLen, u, TRUE) # {}
        BY DEF Ended
      <4>1. told.end # {} /\ told.central = FALSE
        BY <4>a, <4>b
      <4>2. GoOn(AtRecord, 0, told)
        BY <3>6
      <4> HIDE DEF told
      <4> QED BY <4>1, <4>2, EndsMember
    <3> QED BY <3>3, <3>4, <3>5, <3>6
  <2> QED BY <2>1, <2>2, <2>3
<1>3. PICK next, reported, told : MemberGoes(next, reported, told)
  BY <1>2
<1> HIDE DEF Inv, Tally
<1> QED BY <1>1, <1>3, TallyOfMember

(* Headers.                                                                 *)
LEMMA HeaderTally ==
  ASSUME Inv, Tally, SignatureByte \/ FixedByte \/ VariableByte \/ LocatorComplete
  PROVE  Tally'
<1>1. PICK next :
        /\ GoOn(next, 0, Silent) /\ UNCHANGED <<phase, archive>>
        /\ \/ state.kind = "signature" /\ next.kind = "signature" /\ phase # "complete"
           \/ AtHeader("zip64Locator") /\ next.kind = "signature"
           \/ state.kind = "fixed" /\ next.kind = "fixed" /\ next.record = state.record
           \/ state.kind = "variable" /\ next.kind = "variable" /\ next.record = state.record
  <2>1. CASE SignatureByte
    BY <2>1, StateFields DEF SignatureByte
  <2>2. CASE FixedByte
    <3>1. state = Fixed(state.record, state.len) /\ state.kind = "fixed"
      BY <2>2 DEF FixedByte, Inv, Shape
    <3>2. /\ [state EXCEPT !.len = @ + 1].kind = "fixed"
          /\ [state EXCEPT !.len = @ + 1].record = state.record
      BY <3>1 DEF Fixed
    <3> QED BY <2>2, <3>1, <3>2 DEF FixedByte
  <2>3. CASE VariableByte
    <3>1. state = Variable(state.record, state.total, state.len) /\ state.kind = "variable"
      BY <2>3 DEF VariableByte, Inv, Shape
    <3>2. /\ [state EXCEPT !.len = @ + 1].kind = "variable"
          /\ [state EXCEPT !.len = @ + 1].record = state.record
      BY <3>1 DEF Variable
    <3> QED BY <2>3, <3>1, <3>2 DEF VariableByte
  <2>4. CASE LocatorComplete
    BY <2>4, CompletesAt, StateFields DEF LocatorComplete
  <2> QED BY <2>1, <2>2, <2>3, <2>4
<1>2. status = "walking" /\ state' = next
  BY <1>1, GoesOn
<1>3. localCount \in Nat /\ localCount' = localCount
  BY <1>1, <1>2 DEF Tally, archive
<1>4. Flying' = Flying
  BY <1>1, <1>2 DEF Flying, InFlight, InMember, AtHeader, Inv, Order
<1>5. localCount + Flying = localCount + Flying' + Ends(Silent)
  BY <1>3, <1>4, NoDirectory, FlyingIs DEF Ends
<1>6. (Behind => Behind') /\ (Accepting' => Accepting)
  BY <1>1, <1>2 DEF Behind, AtHeader, Accepting, Inv, Order
<1> QED BY <1>1, <1>3, <1>5, <1>6, NoDirectory, TallyKept DEF archive

(* A header whose fixed part is complete is counted.                        *)
LEMMA CountedOnce ==
  ASSUME Tally, status = "walking", NEW record \in {"local", "central"}, Counted(record),
         Completes(record) \/ (/\ state.kind = "variable" /\ state.record = record)
  PROVE  /\ localCount \in Nat /\ localCount' \in Nat
         /\ localCount' + Flying = IF record = "local" THEN localCount + 1 ELSE localCount
         /\ UNCHANGED <<centralStart, centralEnd, zip64End, claims>>
<1>1. localCount \in Nat
  BY DEF Tally
<1>2. UNCHANGED <<centralStart, centralEnd, zip64End, claims>>
  BY DEF Counted
<1>3. localCount' = localCount + (IF record = "local" /\ Completes("local") THEN 1 ELSE 0)
  BY DEF Counted
<1>4. CASE Completes(record)
  <2>1. state.kind = "fixed" /\ Flying = 0
    BY <1>4, CompletesAt DEF Flying, InFlight, InMember
  <2>2. record = "local" <=> (record = "local" /\ Completes("local"))
    BY <1>4
  <2> QED BY <1>1, <1>2, <1>3, <2>1, <2>2
<1>5. CASE ~Completes(record)
  <2>1. state.kind = "variable" /\ state.record = record
    BY <1>5
  <2>2. Flying = IF record = "local" THEN 1 ELSE 0
    BY <2>1 DEF Flying, InFlight, InMember
  <2>3. localCount' = localCount
    BY <1>1, <1>3, <1>5
  <2> QED BY <1>1, <1>2, <2>2, <2>3
<1> QED BY <1>4, <1>5

LEMMA Regroup ==
  \A n, m \in Nat, f, g, e \in {0, 1} :
    n + f = m + 1 /\ g + e = 1 => n + f = m + g + e
OBVIOUS

LEMMA CountingTally ==
  ASSUME Inv, Tally, BeginVariable \/ LocalComplete \/ CentralComplete, status' # "faulted"
  PROVE  Tally'
<1>1. CASE BeginVariable
  <2>1. PICK record \in {"local", "central"}, total \in 1..MaxVariable :
          /\ Completes(record) /\ Counted(record)
          /\ GoOn(Variable(record, total, 0), 0, Silent)
    BY <1>1 DEF BeginVariable
  <2>2. /\ status = "walking" /\ state'.kind = "variable" /\ state'.record = record
        /\ phase' = phase /\ AtHeader(record)
    BY <1>1, <2>1, GoesOn, StateFields, CompletesAt DEF BeginVariable
  <2>3. /\ localCount \in Nat /\ localCount' \in Nat
        /\ localCount' + Flying = IF record = "local" THEN localCount + 1 ELSE localCount
        /\ UNCHANGED <<centralStart, centralEnd, zip64End, claims>>
    BY <2>1, <2>2, CountedOnce
  <2>4. Flying' = IF record = "local" THEN 1 ELSE 0
    BY <2>2 DEF Flying, InFlight, InMember
  <2>5. localCount' + Flying = localCount + Flying' + Ends(Silent)
    BY <2>3, <2>4, NoDirectory DEF Ends
  <2>6. (Behind => Behind') /\ ~Accepting'
    BY <2>2 DEF Inv, Order, Behind, AtHeader, Accepting
  <2> QED BY <2>1, <2>3, <2>5, <2>6, NoDirectory, TallyKept
<1>2. CASE LocalComplete
  <2>0. PICK total \in Totals("local") : \E header \in LocalHeaders, area \in AreasIn(total) :
          LET fields == <<header.uncompressed, header.compressed>> IN
          IF header.descriptor /\ header.compressed = 0
          THEN GoOn(DataScan(0, header.method, NeedsZip64(header), <<>>), 0,
                    Told("header", {[descriptor |-> TRUE]}))
          ELSE /\ Resolvable(fields, area)
               /\ KnownMember(header, Resolved(fields, area), total)
    BY <1>2 DEF LocalComplete
  <2>1. PICK header \in LocalHeaders, area \in AreasIn(total) :
          LET fields == <<header.uncompressed, header.compressed>> IN
          IF header.descriptor /\ header.compressed = 0
          THEN GoOn(DataScan(0, header.method, NeedsZip64(header), <<>>), 0,
                    Told("header", {[descriptor |-> TRUE]}))
          ELSE /\ Resolvable(fields, area)
               /\ KnownMember(header, Resolved(fields, area), total)
    BY <2>0
  <2>2. \E next, reported, told : MemberGoes(next, reported, told)
    <3> DEFINE sizes == Resolved(<<header.uncompressed, header.compressed>>, area)
               h == [descriptor |-> header.descriptor]
    <3>1. \/ GoOn(DataScan(0, header.method, NeedsZip64(header), <<>>), 0,
                  Opening([descriptor |-> TRUE]))
          \/ GoOn(AtRecord, 0, OpeningEnd(h, Ended(0, sizes[1], FALSE)))
          \/ \E r : GoOn(Data(sizes[2], sizes[2], sizes[1], header.method,
                              header.descriptor, NeedsZip64(header)), r, Opening(h))
      BY <2>1, Zenon DEF KnownMember, Opening, OpeningEnd
    <3> HIDE DEF sizes, h
    <3>2. /\ DataScan(0, header.method, NeedsZip64(header), <<>>).kind = "scan"
          /\ Data(sizes[2], sizes[2], sizes[1], header.method,
                  header.descriptor, NeedsZip64(header)).kind = "data"
      BY StateFields
    <3>3. CASE GoOn(DataScan(0, header.method, NeedsZip64(header), <<>>), 0,
                    Opening([descriptor |-> TRUE]))
      BY <3>2, <3>3, GoesWithHeader
    <3>4. CASE GoOn(AtRecord, 0, OpeningEnd(h, Ended(0, sizes[1], FALSE)))
      <4> DEFINE told == OpeningEnd(h, Ended(0, sizes[1], FALSE))
      <4>a. told.end = Ended(0, sizes[1], FALSE) /\ told.central = FALSE
        BY NoDirectory, Zenon
      <4>b. Ended(0, sizes[1], FALSE) # {}
        BY DEF Ended
      <4>1. told.end # {} /\ told.central = FALSE
        BY <4>a, <4>b
      <4>2. GoOn(AtRecord, 0, told)
        BY <3>4
      <4> HIDE DEF told
      <4> QED BY <4>1, <4>2, EndsMember
    <3>5. CASE \E r : GoOn(Data(sizes[2], sizes[2], sizes[1], header.method,
                                header.descriptor, NeedsZip64(header)), r, Opening(h))
      BY <3>2, <3>5, GoesWithHeader
    <3> QED BY <3>1, <3>3, <3>4, <3>5
  <2>a. PICK next, reported, told : MemberGoes(next, reported, told)
    BY <2>2
  <2>b. /\ GoOn(next, reported, told) /\ told.central = FALSE
        /\ \/ next.kind \in {"data", "scan", "descriptor"} /\ told.end = {}
           \/ next = AtRecord /\ told.end # {}
    BY <2>a DEF MemberGoes
  <2>3. Counted("local") /\ phase' = phase /\ status = "walking" /\ state' = next
    BY <1>2, <2>b, GoesOn DEF LocalComplete
  <2>4. AtHeader("local")
    BY <2>0, TotalsAt
  <2>5. Completes("local") \/ (state.kind = "variable" /\ state.record = "local")
    BY <2>0 DEF Totals
  <2>6. /\ localCount \in Nat /\ localCount' \in Nat
        /\ localCount' + Flying = localCount + 1
        /\ UNCHANGED <<centralStart, centralEnd, zip64End, claims>>
    BY <2>3, <2>5, CountedOnce
  <2>7. Flying' + Ends(told) = 1 /\ Ends(told) \in {0, 1}
    BY <2>b, <2>3, StateFields DEF Ends, Flying, InFlight, InMember
  <2>8. localCount' + Flying = localCount + Flying' + Ends(told)
    <3>1. PICK e \in {0, 1} : e = Ends(told)
      BY <2>7
    <3>2. Flying' + e = 1
      BY <2>7, <3>1
    <3>3. PICK f \in {0, 1}, g \in {0, 1}, m \in Nat, n \in Nat :
            f = Flying /\ g = Flying' /\ m = localCount /\ n = localCount'
      BY <2>6, FlyingIs
    <3>4. n + f = m + 1 /\ g + e = 1
      BY <2>6, <3>2, <3>3
    <3>5. n + f = m + g + e
      BY <3>4, Regroup
    <3> QED BY <3>1, <3>3, <3>5
  <2>9. ~Behind /\ ~Accepting'
    BY <2>b, <2>3, <2>4, StateFields DEF Inv, Order, Behind, AtHeader, Accepting
  <2> QED BY <2>b, <2>6, <2>8, <2>9, TallyKept
<1>3. CASE CentralComplete
  <2>1. PICK total \in Totals("central") :
          \/ /\ GoOn(AtRecord, 0, Silent)
             /\ Counted("central") /\ UNCHANGED <<phase, stream>>
          \/ Refuse(Silent)
    BY <1>3, Zenon DEF CentralComplete
  <2>2. GoOn(AtRecord, 0, Silent) /\ Counted("central") /\ phase' = phase
    BY <2>1 DEF Refuse
  <2>3. /\ AtHeader("central") /\ status = "walking" /\ state' = AtRecord
        /\ Completes("central") \/ (state.kind = "variable" /\ state.record = "central")
    BY <2>1, <2>2, TotalsAt, GoesOn DEF Totals
  <2>4. /\ localCount \in Nat /\ localCount' \in Nat
        /\ localCount' + Flying = localCount
        /\ UNCHANGED <<centralStart, centralEnd, zip64End, claims>>
    BY <2>2, <2>3, CountedOnce
  <2>5. Flying' = 0
    BY <2>3, StateFields DEF Flying, InFlight, InMember
  <2>6. localCount' + Flying = localCount + Flying' + Ends(Silent)
    BY <2>4, <2>5, NoDirectory DEF Ends
  <2>7. Behind' /\ ~Accepting'
    BY <2>2, <2>3, StateFields DEF Inv, Order, Behind, AtHeader, Accepting
  <2> QED BY <2>2, <2>4, <2>6, <2>7, NoDirectory, TallyKept
<1> QED BY <1>1, <1>2, <1>3

(* The observer is told of the directory where the walker finds it.         *)
LEMMA DispatchTally ==
  ASSUME Inv, Tally, DispatchSignature PROVE Tally'
<1>1. PICK record \in Records :
        /\ GoOn(Fixed(record, 0), 0, Told("central", TellsDirectory(record)))
        /\ \/ record = "local" /\ phase = "members" /\ UNCHANGED <<phase, archive>>
           \/ record = "central" /\ phase = "members" /\ phase' = "central" /\ DirectoryBegins
           \/ record = "central" /\ phase = "central" /\ UNCHANGED <<phase, archive>>
           \/ record = "zip64End" /\ InDirectory /\ phase' = "zip64EndSeen" /\ EndSequenceBegins
           \/ /\ record = "zip64Locator" /\ phase = "zip64EndSeen"
              /\ phase' = "locatorSeen" /\ UNCHANGED archive
           \/ record = "end" /\ InDirectory /\ UNCHANGED phase /\ EndSequenceBegins
           \/ record = "end" /\ phase = "locatorSeen" /\ UNCHANGED <<phase, archive>>
  BY DEF DispatchSignature
<1> DEFINE told == Told("central", TellsDirectory(record))
<1>2. /\ status = "walking" /\ state'.kind = "fixed" /\ state'.record = record
      /\ account' = Accounted(told) /\ state.kind = "signature"
  BY <1>1, StateFields DEF GoOn, Consumed, DispatchSignature
<1>3. told.end = {} /\ told.central = TellsDirectory(record)
  BY Zenon DEF Told, Silent
<1> HIDE DEF told
<1>4. /\ account'.members = account.members
      /\ account'.directory = IF TellsDirectory(record) THEN RecordStart ELSE account.directory
  <2>1. account.members \in Nat
    BY <1>2 DEF Tally
  <2> QED BY <1>2, <1>3, <2>1 DEF Accounted
<1>5. Flying = 0 /\ Flying' = 0
  BY <1>2 DEF Flying, InFlight, InMember
<1>6. /\ localCount \in Nat /\ account.members \in Nat
      /\ localCount = account.members + Flying /\ account.directory = centralStart
      /\ ~Behind => centralStart = None
  BY <1>2 DEF Tally
<1>7. localCount' = localCount
  BY <1>1 DEF archive, DirectoryBegins, EndSequenceBegins
<1>8. phase = "members" => centralStart = None
  BY <1>2, <1>6 DEF Behind, AtHeader
<1>9. phase = "central" => centralStart # None
  BY DEF Inv, Placed
<1>10. centralStart' = IF TellsDirectory(record) THEN RecordStart ELSE centralStart
  BY <1>1, <1>8, <1>9
     DEF archive, DirectoryBegins, EndSequenceBegins, TellsDirectory, InDirectory
<1>11. ~Behind' => centralStart' = None
  BY <1>1, <1>2, <1>8, <1>10
     DEF Behind, AtHeader, TellsDirectory, Records, InDirectory
<1>12. ~Accepting'
  BY <1>1, <1>2 DEF Accepting, InDirectory
<1> QED BY <1>4, <1>5, <1>6, <1>7, <1>10, <1>11, <1>12 DEF Tally

(* The end records, and what follows them.                                  *)
LEMMA SkipOverGoesOn ==
  ASSUME NEW n, NEW then, SkipOver(n, then)
  PROVE  /\ status = "walking" /\ phase' = IF n = 0 THEN then ELSE phase
         /\ \E next : /\ GoOn(next, 0, Silent) /\ state' = next
                      /\ next = IF n = 0 THEN AtRecord ELSE Skip(n, then)
BY GoesOn DEF SkipOver

LEMMA EndTally ==
  ASSUME Inv, Tally, NEW n, NEW then, SkipOver(n, then),
         AtHeader("zip64End") \/ AtHeader("end") \/ state.kind = "skip",
         UNCHANGED <<localCount, centralStart, centralEnd>>, then # "members",
         Accepting' =>
           /\ Says(claims.entries, zip64End.entries, localCount)'
           /\ Says(claims.size, zip64End.size, centralEnd - centralStart)'
           /\ Says(claims.offset, zip64End.offset, centralStart)'
  PROVE  Tally'
<1>1. /\ status = "walking" /\ phase' = IF n = 0 THEN then ELSE phase
      /\ \E next : /\ GoOn(next, 0, Silent) /\ state' = next
                   /\ next = IF n = 0 THEN AtRecord ELSE Skip(n, then)
  BY SkipOverGoesOn
<1>2. account' = Accounted(Silent)
  BY <1>1 DEF GoOn, Consumed
<1>3. /\ localCount \in Nat /\ account.members \in Nat
      /\ localCount = account.members + Flying
      /\ account.directory = centralStart
  BY <1>1 DEF Tally
<1>4. account'.members = account.members /\ account'.directory = account.directory
  BY <1>2, <1>3, NoDirectory DEF Accounted
<1>5. Flying = 0
  BY EndBegun DEF Flying, InFlight, AtHeader
<1>6. Flying' = 0 /\ Behind'
  BY <1>1, StateFields DEF Flying, InFlight, InMember, Behind
<1> QED BY <1>3, <1>4, <1>5, <1>6 DEF Tally

LEMMA SkipByteTally ==
  ASSUME Inv, Tally, SkipByte PROVE Tally'
<1> DEFINE n == state.remaining - 1  then == state.then
<1>1. state.kind = "skip" /\ SkipOver(n, then) /\ UNCHANGED archive
  BY DEF SkipByte
<1>2. then \in {"zip64EndSeen", "complete"} /\ (then = "zip64EndSeen" => phase = "zip64EndSeen")
  BY <1>1 DEF Inv, Shape, Order
<1>3. /\ status = "walking" /\ phase' = IF n = 0 THEN then ELSE phase
      /\ \E next : /\ GoOn(next, 0, Silent) /\ state' = next
                   /\ next = IF n = 0 THEN AtRecord ELSE Skip(n, then)
  BY <1>1, SkipOverGoesOn
<1> HIDE DEF n
<1>4. Accepting' => Accepting
  BY <1>1, <1>2, <1>3, StateFields DEF Accepting
<1>5. Accepting' =>
        /\ Says(claims.entries, zip64End.entries, localCount)'
        /\ Says(claims.size, zip64End.size, centralEnd - centralStart)'
        /\ Says(claims.offset, zip64End.offset, centralStart)'
  BY <1>1, <1>3, <1>4 DEF Tally, archive, Says
<1>6. UNCHANGED <<localCount, centralStart, centralEnd>> /\ then # "members"
  BY <1>1, <1>2 DEF archive
<1> HIDE DEF Inv, Tally, then
<1> QED BY <1>1, <1>5, <1>6, EndTally

LEMMA Zip64EndTally ==
  ASSUME Inv, Tally, Zip64EndComplete PROVE Tally'
<1>1. PICK n \in 0..MaxSkip : SkipOver(n, "zip64EndSeen")
  BY DEF Zip64EndComplete
<1>2. AtHeader("zip64End") /\ UNCHANGED <<localCount, centralStart, centralEnd>>
  BY CompletesAt DEF Zip64EndComplete
<1>3. phase = "zip64EndSeen"
  BY <1>2 DEF Inv, Order
<1>4. ~Accepting'
  BY <1>1, <1>3, SkipOverGoesOn, StateFields DEF Accepting
<1> HIDE DEF Inv, Tally
<1> QED BY <1>1, <1>2, <1>4, EndTally

(* The comparison of reconcile_end: what the record says, it says itself or *)
(* by the ZIP64 record.                                                     *)
LEMMA EffectiveSays ==
  ASSUME NEW field, NEW wide, NEW n, Effective(field, wide) = n
  PROVE  Says(field, wide, n)
BY DEF Effective, Says

LEMMA EndCompleteTally ==
  ASSUME Inv, Tally, EndComplete, status' # "faulted" PROVE Tally'
<1>1. AtHeader("end") /\ ~Refuse(Silent)
  BY CompletesAt DEF EndComplete, Refuse
<1>2. PICK entries, size, at, n :
        /\ Reconciles(Effective(entries, zip64End.entries), Effective(size, zip64End.size),
                      Effective(at, zip64End.offset))
        /\ SkipOver(n, "complete")
        /\ claims' = [entries |-> entries, size |-> size, offset |-> at]
        /\ UNCHANGED <<localCount, centralCount, centralStart, centralEnd, zip64End>>
  BY <1>1, Zenon DEF EndComplete
<1>3. /\ claims'.entries = entries /\ claims'.size = size /\ claims'.offset = at
  BY <1>2
<1>4. /\ Says(entries, zip64End.entries, localCount)
      /\ Says(size, zip64End.size, centralEnd - centralStart)
      /\ Says(at, zip64End.offset, centralStart)
  BY <1>2, EffectiveSays DEF Reconciles
<1>5. /\ Says(claims.entries, zip64End.entries, localCount)'
      /\ Says(claims.size, zip64End.size, centralEnd - centralStart)'
      /\ Says(claims.offset, zip64End.offset, centralStart)'
  BY <1>2, <1>3, <1>4 DEF Says
<1>6. UNCHANGED <<localCount, centralStart, centralEnd>> /\ "complete" # "members"
  BY <1>2
<1> HIDE DEF Inv, Tally
<1> QED BY <1>1, <1>2, <1>5, <1>6, EndTally

LEMMA StepTally ==
  ASSUME Inv, Tally, [Next]_vars PROVE Tally'
<1>1. CASE status' = "faulted"
  BY <1>1 DEF Tally
<1>2. CASE status' # "faulted"
  <2>1. CASE SignatureByte \/ FixedByte \/ VariableByte \/ LocatorComplete
    BY <2>1, HeaderTally
  <2>2. CASE DispatchSignature
    BY <2>2, DispatchTally
  <2>3. CASE BeginVariable \/ LocalComplete \/ CentralComplete
    BY <1>2, <2>3, CountingTally
  <2>4. CASE DataByte \/ ScanByte \/ DescriptorByte
    BY <1>2, <2>4, MemberTally
  <2>5. CASE SkipByte \/ Zip64EndComplete \/ EndComplete
    BY <1>2, <2>5, SkipByteTally, Zip64EndTally, EndCompleteTally
  <2>6. CASE TrailingByte \/ SignatureRefused \/ Zip64EndRefused \/ LocalRefused \/ ScanRefused
    <3>1. \E told : Refuse(told)
      BY <2>6, Zenon
         DEF TrailingByte, SignatureRefused, LocalRefused, ScanRefused, Zip64EndRefused
    <3> QED BY <1>2, <3>1 DEF Refuse
  <2>7. CASE FinishTruncated
    BY <1>2, <2>7 DEF FinishTruncated
  <2>8. CASE FinishOk \/ UNCHANGED vars
    <3>1. /\ UNCHANGED <<state, phase, archive, account>>
          /\ status # "faulted" \/ status' = status
      BY <2>8 DEF FinishOk, vars
    <3> QED BY <1>2, <3>1
         DEF archive, Tally, Flying, InFlight, InMember, Behind, AtHeader, Accepting, Says
  <2> QED BY <2>1, <2>2, <2>3, <2>4, <2>5, <2>6, <2>7, <2>8 DEF Next
<1> QED BY <1>1, <1>2

LEMMA AlwaysTally == Spec => [](Inv /\ Tally)
<1>1. Init => Tally
  BY StateFields DEF Init, Tally, Flying, InFlight, InMember, Accepting
<1>2. Inv /\ Tally /\ [Next]_vars => Tally'
  BY StepTally
<1> QED BY <1>1, <1>2, AlwaysInv, PTL DEF Spec

(* An accepted archive has an entry for every member the observer heard to  *)
(* its end, and its end record, or the ZIP64 record before it, says so and  *)
(* says where the directory is that the observer heard begin (dispatch.rs). *)
THEOREM AcceptedArchivesAddUp == Spec => []FinishedWhole
<1>1. Inv /\ Tally => FinishedWhole
  <2> SUFFICES ASSUME Inv, Tally, status = "ended" PROVE FinishedWhole
    BY DEF FinishedWhole
  <2>1. phase = "complete" /\ state.kind = "signature" /\ localCount = centralCount
    BY DEF Inv, Sealed
  <2>2. tap.at = "central"
    BY <2>1 DEF Inv, Followed, InMember, Behind
  <2>3. centralStart \in 0..centralEnd /\ centralEnd < offset
    BY <2>1 DEF Inv, Placed, None
  <2>4. Flying = 0 /\ Accepting
    BY <2>1 DEF Flying, InFlight, InMember, Accepting
  <2>5. /\ localCount = account.members /\ account.directory = centralStart
        /\ Says(claims.entries, zip64End.entries, localCount)
        /\ Says(claims.size, zip64End.size, centralEnd - centralStart)
        /\ Says(claims.offset, zip64End.offset, centralStart)
    BY <2>4 DEF Tally
  <2> QED BY <2>1, <2>2, <2>3, <2>5 DEF FinishedWhole
<1> QED BY <1>1, AlwaysTally, PTL

(***************************************************************************)
(* No descriptor is passed over.                                           *)
(***************************************************************************)
\* What was given up is no descriptor, or was looked at whole.
Passed(bytes, upto, zip64) ==
  \A at \in 0..upto-1 :
    /\ at + SigLen <= Len(bytes)
    /\ \/ SubSeq(bytes, at + 1, at + SigLen) # DataDescriptor
       \/ at + Whole(zip64) <= Len(bytes)

NoneIn(bytes, zip64) == \A at \in 0..Len(bytes) : ~DescriptorAt(bytes, at, zip64)

\* The bytes since the scan began, given up and held.
Scanning ==
  state.kind = "scan" =>
    /\ stream \in Seq(Bytes) /\ state.consumed \in 0..Len(stream)
    /\ state.held = SubSeq(stream, state.consumed + 1, Len(stream))
    /\ tap.data = state.consumed
    /\ Passed(stream, state.consumed, state.zip64)
    /\ NoneIn(stream, state.zip64)

\* What one byte of the scan makes of the bytes since it began.
Advanced(old, c, z, byte) ==
  LET new == Append(old, byte)
      held == Append(SubSeq(old, c + 1, Len(old)), byte)
      n == Released(held, c, z)
      rest == SubSeq(held, n + 1, Len(held)) IN
  /\ new \in Seq(Bytes) /\ c + n \in 0..Len(new)
  /\ rest = SubSeq(new, c + n + 1, Len(new))
  /\ SubSeq(held, 1, n) = SubSeq(new, c + 1, c + n)
  /\ Passed(new, c + n, z)
  /\ ~Closes(rest, c + n, z) => NoneIn(new, z)
  /\ Closes(rest, c + n, z) =>
       DescriptorAt(new, c + n, z) /\ c + n + Whole(z) = Len(new)

LEMMA ScanAdvance ==
  ASSUME NEW old \in Seq(Bytes), NEW c \in 0..Len(old), NEW z, NEW byte \in Bytes,
         Len(SubSeq(old, c + 1, Len(old))) < Whole(z), Passed(old, c, z), NoneIn(old, z)
  PROVE  Advanced(old, c, z, byte)
<1> DEFINE new == Append(old, byte)
           L == Len(old)
           W == Whole(z)
           held == Append(SubSeq(old, c + 1, Len(old)), byte)
           n == Released(held, c, z)
           rest == SubSeq(held, n + 1, Len(held))
<1>1. new \in Seq(Bytes) /\ Len(new) = L + 1 /\ L \in Nat /\ c \in Nat /\ c <= L
  BY AppendProperties
<1>2. held = SubSeq(new, c + 1, L + 1)
  <2>1. c + 1 \in 1..Len(old)+1
    OBVIOUS
  <2> QED BY <2>1, AppendToCut
<1>3. W \in Nat /\ W >= SigLen /\ SigLen = 2 /\ W = SigLen + BodyLen(z)
  BY Lengths DEF Whole
<1>a. \A x \in Nat : x + SigLen + BodyLen(z) = x + W
  <2>1. BodyLen(z) \in Nat
    BY Lengths
  <2> QED BY <1>3, <2>1
<1>b. c + 0 = c
  BY <1>1
<1>4. L - c < W
  <2>1. c + 1 \in 1..Len(old)+1 /\ Len(old) \in (c+1)-1..Len(old)
    OBVIOUS
  <2>2. Len(SubSeq(old, c + 1, Len(old))) = Len(old) - (c + 1) + 1
    BY <2>1, Cut
  <2> QED BY <1>1, <1>3, <2>2
<1>5. \A i \in 1..L+1 : \A j \in i-1..L : SubSeq(new, i, j) = SubSeq(old, i, j)
  BY CutOfAppend
<1> HIDE DEF new, held, L, W
<1>6. held \in Seq(Bytes) /\ Len(held) = L + 1 - c
  <2>1. c + 1 \in 1..Len(new)+1 /\ L + 1 \in (c+1)-1..Len(new)
    BY <1>1
  <2>2. /\ SubSeq(new, c + 1, L + 1) \in Seq(Bytes)
        /\ Len(SubSeq(new, c + 1, L + 1)) = (L + 1) - (c + 1) + 1
    BY <1>1, <2>1, Cut
  <2> QED BY <1>1, <1>2, <2>2
<1>7. /\ n \in 0..Len(held) /\ Holds(held, c, z, n)
      /\ \A k \in 0..n-1 : ~Holds(held, c, z, k)
  BY <1>6, ReleasedStops
<1> HIDE DEF n
<1>8. n \in Nat /\ c + n \in 0..Len(new) /\ n <= L + 1 - c
  BY <1>1, <1>6, <1>7
\* Pieces of what is held are pieces of the stream.
<1>9. \A i \in 1..(L+1-c)+1 : \A j \in i-1..(L+1-c) :
        SubSeq(held, i, j) = SubSeq(new, (c + 1) + i - 1, (c + 1) + j - 1)
  <2>1. c + 1 \in 1..Len(new)+1 /\ L + 1 \in (c+1)-1..Len(new)
        /\ (L + 1) - (c + 1) + 1 = L + 1 - c
    BY <1>1
  <2> QED BY <1>1, <1>2, <2>1, CutOfCut
<1>10. \A k \in 0..n : SubSeq(held, k + 1, Len(held)) = SubSeq(new, c + k + 1, L + 1)
  <2> SUFFICES ASSUME NEW k \in 0..n
               PROVE  SubSeq(held, k + 1, Len(held)) = SubSeq(new, c + k + 1, L + 1)
    OBVIOUS
  <2>1. k + 1 \in 1..(L+1-c)+1 /\ L + 1 - c \in (k+1)-1..(L+1-c)
    BY <1>1, <1>8
  <2>2. SubSeq(held, k + 1, L + 1 - c)
          = SubSeq(new, (c + 1) + (k + 1) - 1, (c + 1) + (L + 1 - c) - 1)
    BY <1>9, <2>1
  <2>3. (c + 1) + (k + 1) - 1 = c + k + 1 /\ (c + 1) + (L + 1 - c) - 1 = L + 1
    BY <1>1, <1>8
  <2> QED BY <1>6, <2>2, <2>3
<1>11. rest = SubSeq(new, c + n + 1, Len(new))
  <2>1. n \in 0..n
    BY <1>8
  <2> QED BY <1>1, <1>10, <2>1
<1>12. SubSeq(held, 1, n) = SubSeq(new, c + 1, c + n)
  <2>1. 1 \in 1..(L+1-c)+1 /\ n \in 1-1..(L+1-c)
    BY <1>1, <1>8
  <2>2. SubSeq(held, 1, n) = SubSeq(new, (c + 1) + 1 - 1, (c + 1) + n - 1)
    BY <1>9, <2>1
  <2>3. (c + 1) + 1 - 1 = c + 1 /\ (c + 1) + n - 1 = c + n
    BY <1>1, <1>8
  <2> QED BY <2>2, <2>3
<1>13. Passed(new, c + n, z)
  <2> SUFFICES ASSUME NEW at \in 0..(c+n)-1
               PROVE  /\ at + SigLen <= L + 1
                      /\ \/ SubSeq(new, at + 1, at + SigLen) # DataDescriptor
                         \/ at + W <= L + 1
    BY <1>1 DEF Passed, W
  <2>1. CASE at < c
    <3>1. at \in 0..c-1
      BY <1>1, <1>8, <2>1
    <3>2. /\ at + SigLen <= L
          /\ SubSeq(old, at + 1, at + SigLen) # DataDescriptor \/ at + W <= L
      BY <3>1 DEF Passed, L, W
    <3>3. at + 1 \in 1..L+1 /\ at + SigLen \in (at+1)-1..L
      BY <1>1, <1>3, <3>1, <3>2
    <3>4. SubSeq(new, at + 1, at + SigLen) = SubSeq(old, at + 1, at + SigLen)
      BY <1>5, <3>3
    <3> QED BY <1>1, <1>3, <3>1, <3>2, <3>4
  <2>2. CASE at >= c
    <3> DEFINE k == at - c  tail == SubSeq(new, at + 1, L + 1)
    <3>1. k \in 0..n-1 /\ k \in 0..n /\ c + k + 1 = at + 1 /\ c + k = at /\ at \in Nat /\ at <= L
      BY <1>1, <1>8, <2>2
    <3>2. SubSeq(held, k + 1, Len(held)) = tail
      BY <1>10, <3>1
    <3>3. at + 1 \in 1..Len(new)+1 /\ L + 1 \in (at+1)-1..Len(new)
      BY <1>1, <3>1
    <3>4. Len(tail) = L + 1 - at
      <4>1. Len(tail) = (L + 1) - (at + 1) + 1
        BY <1>1, <3>3, Cut
      <4> QED BY <1>1, <3>1, <4>1
    <3>5. ~LooksLikeDescriptor(tail) \/ ~(Len(tail) < W)
      BY <1>7, <3>1, <3>2 DEF Holds, W
    <3>6. CASE ~LooksLikeDescriptor(tail)
      <4>1. Len(tail) >= SigLen /\ SubSeq(tail, 1, SigLen) # DataDescriptor
        BY <1>1, <1>3, <3>1, <3>4, <3>6 DEF LooksLikeDescriptor
      <4>2. SigLen <= L + 1 - at
        BY <3>4, <4>1
      <4>3. 1 \in 1..((L+1)-(at+1)+1)+1 /\ SigLen \in 1-1..(L+1)-(at+1)+1
        BY <1>1, <1>3, <3>1, <4>2
      <4>4. SubSeq(tail, 1, SigLen) = SubSeq(new, (at+1) + 1 - 1, (at+1) + SigLen - 1)
        BY <1>1, <3>3, <4>3, CutOfCut
      <4>5. (at+1) + 1 - 1 = at + 1 /\ (at+1) + SigLen - 1 = at + SigLen
        BY <1>3, <3>1
      <4>6. SubSeq(new, at + 1, at + SigLen) # DataDescriptor
        BY <4>1, <4>4, <4>5
      <4> QED BY <1>1, <1>3, <3>1, <4>2, <4>6
    <3>7. CASE ~(Len(tail) < W)
      BY <1>1, <1>3, <3>1, <3>4, <3>7
    <3> QED BY <3>5, <3>6, <3>7
  <2> QED BY <1>1, <1>8, <2>1, <2>2
<1>14. ASSUME NEW at \in 0..Len(new), DescriptorAt(new, at, z), ~Closes(rest, c + n, z)
       PROVE  FALSE
  <2> DEFINE D == SubSeq(new, at + 1, at + SigLen + BodyLen(z))
  <2>1. /\ at + SigLen + BodyLen(z) <= Len(new)
        /\ SubSeq(D, 1, SigLen) = DataDescriptor /\ Closes(D, at, z)
    BY <1>14 DEF DescriptorAt
  <2>2. at \in Nat /\ at + SigLen + BodyLen(z) = at + W /\ at + W <= L + 1
    <3>1. at \in Nat
      BY <1>1
    <3>2. at + SigLen + BodyLen(z) = at + W
      BY <1>a, <3>1
    <3> QED BY <1>1, <2>1, <3>1, <3>2
  <2>3. CASE at + W <= L
    <3>1. at + 1 \in 1..L+1 /\ at + W \in (at+1)-1..L
      BY <1>1, <1>3, <2>2, <2>3
    <3>2. D = SubSeq(old, at + 1, at + SigLen + BodyLen(z))
      BY <1>5, <2>2, <3>1
    <3>3. DescriptorAt(old, at, z)
      BY <2>1, <2>2, <2>3, <3>2 DEF DescriptorAt, L
    <3>4. at \in 0..Len(old)
      BY <1>1, <1>3, <2>2, <2>3 DEF L
    <3> QED BY <3>3, <3>4 DEF NoneIn
  <2>4. CASE at + W = L + 1
    <3>1. at <= c
      BY <1>1, <1>3, <1>4, <2>2, <2>4
    <3>2. CASE at < c
      <4>1. at \in 0..c-1
        BY <1>1, <2>2, <3>2
      <4>2. /\ at + SigLen <= L
            /\ SubSeq(old, at + 1, at + SigLen) # DataDescriptor \/ at + W <= L
        BY <4>1 DEF Passed, L, W
      <4>3. at + 1 \in 1..L+1 /\ at + SigLen \in (at+1)-1..L
        BY <1>1, <1>3, <4>1, <4>2
      <4>a. SubSeq(new, at + 1, at + SigLen) = SubSeq(old, at + 1, at + SigLen)
        BY <1>5, <4>3
      <4>b. ~(at + W <= L)
        BY <1>1, <1>3, <2>2, <2>4
      <4>4. SubSeq(new, at + 1, at + SigLen) # DataDescriptor
        BY <4>2, <4>a, <4>b
      <4>5. /\ at + 1 \in 1..Len(new)+1 /\ at + W \in (at+1)-1..Len(new)
            /\ 1 \in 1..((at+W)-(at+1)+1)+1 /\ SigLen \in 1-1..(at+W)-(at+1)+1
        BY <1>1, <1>3, <2>2
      <4>6. SubSeq(SubSeq(new, at + 1, at + W), 1, SigLen)
              = SubSeq(new, (at+1) + 1 - 1, (at+1) + SigLen - 1)
        BY <1>1, <4>5, CutOfCut
      <4>7. (at+1) + 1 - 1 = at + 1 /\ (at+1) + SigLen - 1 = at + SigLen
        BY <1>3, <2>2
      <4> QED BY <2>1, <2>2, <4>4, <4>6, <4>7
    <3>3. CASE at = c
      <4>1. D = held
        BY <1>2, <2>2, <2>4, <3>3
      <4>2. SubSeq(held, 0 + 1, Len(held)) = held
        BY <1>6, SubSeqFull
      <4>a. LooksLikeDescriptor(held) /\ Closes(held, c + 0, z)
        BY <1>b, <2>1, <3>3, <4>1, Zenon DEF LooksLikeDescriptor
      <4>3. Holds(held, c, z, 0)
        BY <4>2, <4>a, Zenon DEF Holds
      <4>4. n = 0
        BY <1>7, <1>8, <4>3
      <4>5. Closes(rest, c + n, z)
        BY <4>2, <4>4, <4>a, Zenon
      <4> QED BY <1>14, <4>5
    <3> QED BY <1>1, <2>2, <3>1, <3>2, <3>3
  <2> QED BY <1>1, <1>3, <2>2, <2>3, <2>4
<1>15. ASSUME Closes(rest, c + n, z)
       PROVE  DescriptorAt(new, c + n, z) /\ c + n + W = Len(new)
  <2>1. n = 0 /\ Len(held) = W /\ rest = held
    <3>1. Len(held) <= Whole(z)
      BY <1>1, <1>3, <1>4, <1>6 DEF W
    <3> QED BY <1>1, <1>6, <1>15, <3>1, ScanMove DEF W, n
  <2>a. L + 1 - c = W
    BY <1>6, <2>1, Zenon
  <2>2. c + W = L + 1 /\ c + n = c
    BY <1>1, <1>b, <2>1, <2>a
  <2>3. held = SubSeq(new, c + 1, c + SigLen + BodyLen(z)) /\ c + SigLen + BodyLen(z) = L + 1
    <3>2. c + SigLen + BodyLen(z) = L + 1
      BY <1>1, <1>a, <2>2
    <3> QED BY <1>2, <3>2
  <2>4. LooksLikeDescriptor(held)
    BY <1>7, <2>1 DEF Holds
  <2>5. SubSeq(held, 1, SigLen) = DataDescriptor
    BY <1>3, <2>1, <2>4 DEF LooksLikeDescriptor
  <2>6. Closes(held, c, z)
    BY <1>15, <2>1, <2>2
  <2>7. c + SigLen + BodyLen(z) <= Len(new)
    BY <1>1, <2>3
  <2>8. DescriptorAt(new, c, z)
    BY <2>3, <2>5, <2>6, <2>7, Zenon DEF DescriptorAt
  <2> QED BY <1>1, <2>2, <2>8
<1> QED BY <1>1, <1>8, <1>11, <1>12, <1>13, <1>14, <1>15 DEF Advanced, NoneIn, new, W, n, held

\* What a byte of the scan tells.
Tells ==
  /\ events'.data = SubSeq(stream', tap.data + 1, tap'.data)
  /\ events'.end # {} =>
       /\ DescriptorAt(stream', tap'.data, state.zip64)
       /\ tap'.data + SigLen + BodyLen(state.zip64) = Len(stream')

LEMMA ScanByteScans ==
  ASSUME Inv, Scanning, ScanByte PROVE Scanning' /\ Tells
<1>1. PICK byte \in Bytes :
       LET zip64 == state.zip64
           held == Append(state.held, byte)
           n == Released(held, state.consumed, zip64)
           rest == SubSeq(held, n + 1, Len(held))
           body == SubSeq(rest, SigLen + 1, Len(rest))
           consumed == state.consumed + n
           data == Told("data", SubSeq(held, 1, n)) IN
       /\ stream' = Append(stream, byte)
       /\ IF ~Closes(rest, consumed, zip64)
          THEN GoOn(DataScan(consumed, state.method, state.zip64, rest), 0, data)
          ELSE /\ Plausible(state.method, consumed, Uncompressed(body, zip64))
               /\ GoOn(AtRecord, 0,
                       [data EXCEPT !.end = Ended(consumed, Uncompressed(body, zip64), TRUE)])
  BY DEF ScanByte
<1> DEFINE z == state.zip64
           m == state.method
           c == state.consumed
           held == Append(state.held, byte)
           n == Released(held, c, z)
           rest == SubSeq(held, n + 1, Len(held))
           bytes == SubSeq(held, 1, n)
           u == Uncompressed(SubSeq(rest, SigLen + 1, Len(rest)), z)
<1>2. \/ ~Closes(rest, c + n, z) /\ GoOn(DataScan(c + n, m, z, rest), 0, Told("data", bytes))
      \/ /\ Closes(rest, c + n, z)
         /\ GoOn(AtRecord, 0, [Told("data", bytes) EXCEPT !.end = Ended(c + n, u, TRUE)])
  BY <1>1, Zenon
<1>3. state.kind = "scan" /\ InMember /\ ToldBytes = c /\ status = "walking"
  BY <1>1, Zenon DEF ScanByte, InMember, ToldBytes, GoOn, Consumed
<1>4. /\ stream \in Seq(Bytes) /\ c \in 0..Len(stream)
      /\ state.held = SubSeq(stream, c + 1, Len(stream))
      /\ Passed(stream, c, z) /\ NoneIn(stream, z)
      /\ Len(state.held) < Whole(z)
  BY <1>3 DEF Scanning, Inv, Shape
<1>5. stream' = Append(stream, byte)
  BY <1>1, Zenon
<1>6. tap.data = c
  BY <1>3, InData
<1> HIDE DEF z, m, c, u
<1>7. /\ stream' \in Seq(Bytes) /\ c + n \in 0..Len(stream')
      /\ rest = SubSeq(stream', c + n + 1, Len(stream'))
      /\ bytes = SubSeq(stream', c + 1, c + n)
      /\ Passed(stream', c + n, z)
      /\ ~Closes(rest, c + n, z) => NoneIn(stream', z)
      /\ Closes(rest, c + n, z) =>
           DescriptorAt(stream', c + n, z) /\ c + n + Whole(z) = Len(stream')
  <2> DEFINE new == Append(stream, byte)
             tail == Append(SubSeq(stream, c + 1, Len(stream)), byte)
             k == Released(tail, c, z)
             left == SubSeq(tail, k + 1, Len(tail))
  <2>1. Len(SubSeq(stream, c + 1, Len(stream))) < Whole(z)
    BY <1>4
  <2>2. /\ new \in Seq(Bytes) /\ c + k \in 0..Len(new)
        /\ left = SubSeq(new, c + k + 1, Len(new))
        /\ SubSeq(tail, 1, k) = SubSeq(new, c + 1, c + k)
        /\ Passed(new, c + k, z)
        /\ ~Closes(left, c + k, z) => NoneIn(new, z)
        /\ Closes(left, c + k, z) =>
             DescriptorAt(new, c + k, z) /\ c + k + Whole(z) = Len(new)
    <3>1. Advanced(stream, c, z, byte)
      BY <1>4, <2>1, ScanAdvance
    <3> QED BY <3>1, Zenon DEF Advanced
  <2>3. new = stream'
    BY <1>5
  <2>4. tail = held
    BY <1>4
  <2> HIDE DEF new, tail, held
  <2> QED BY <2>2, <2>3, <2>4, Zenon
<1> HIDE DEF n, rest, bytes, held
<1>8. Inv'
  BY ScanByteStep
<1> HIDE DEF Inv
<1>9. CASE ~Closes(rest, c + n, z) /\ GoOn(DataScan(c + n, m, z, rest), 0, Told("data", bytes))
  <2>1. state' = DataScan(c + n, m, z, rest) /\ events' = Told("data", bytes)
        /\ status' = "walking"
    BY <1>9, Zenon DEF GoOn, Consumed
  <2>2. state'.kind = "scan" /\ state'.consumed = c + n /\ state'.zip64 = z /\ state'.held = rest
    BY <2>1 DEF DataScan
  <2>3. events'.data = bytes /\ events'.end = {}
    BY <2>1 DEF Told, Silent
  <2>4. tap'.data = c + n
    BY <1>8, <2>1, <2>2 DEF Inv, Followed, InMember, ToldBytes
  <2>5. Scanning'
    BY <1>7, <1>9, <2>2, <2>4 DEF Scanning
  <2>6. Tells
    BY <1>6, <1>7, <2>3, <2>4 DEF Tells
  <2> QED BY <2>5, <2>6
<1>10. CASE /\ Closes(rest, c + n, z)
            /\ GoOn(AtRecord, 0, [Told("data", bytes) EXCEPT !.end = Ended(c + n, u, TRUE)])
  <2> DEFINE e == Ended(c + n, u, TRUE)
  <2>1. state' = AtRecord /\ events' = [Told("data", bytes) EXCEPT !.end = e]
    BY <1>10, Zenon DEF GoOn, Consumed
  <2>2. e # {} /\ \A s \in e : s.compressed = c + n
    BY DEF Ended
  <2> HIDE DEF e
  <2>3. events'.data = bytes /\ events'.end = e
    BY <2>1 DEF Told, Silent
  <2>4. tap'.data = c + n
    BY <1>8, <2>2, <2>3 DEF Inv, Followed
  <2>5. Scanning'
    BY <2>1, StateFields DEF Scanning
  <2>6. c + n + SigLen + BodyLen(z) = c + n + Whole(z)
    <3>1. c + n \in Nat /\ BodyLen(z) \in Nat /\ SigLen = 2
      BY <1>7, Lengths
    <3> HIDE DEF c
    <3> QED BY <3>1 DEF Whole
  <2>7. Tells
    BY <1>6, <1>7, <1>10, <2>3, <2>4, <2>6 DEF Tells, z
  <2> QED BY <2>5, <2>7
<1> QED BY <1>2, <1>9, <1>10

(* No other step goes on with a scan, and one begins with nothing.          *)
LEMMA OthersDoNotScan ==
  ASSUME Inv, Next, ~ScanByte, status' = "walking"
  PROVE  state.kind # "scan"
<1>1. CASE SignatureByte \/ DispatchSignature
  BY <1>1, StateFields DEF SignatureByte, DispatchSignature
<1>2. CASE TrailingByte \/ SignatureRefused \/ LocalRefused \/ ScanRefused \/ Zip64EndRefused
  <2>1. \E told : Refuse(told)
    BY <1>2, Zenon DEF TrailingByte, SignatureRefused, LocalRefused, ScanRefused, Zip64EndRefused
  <2> QED BY <2>1 DEF Refuse
<1>3. CASE FixedByte \/ VariableByte \/ DataByte \/ DescriptorByte \/ SkipByte
  BY <1>3 DEF FixedByte, VariableByte, DataByte, DescriptorByte, SkipByte
<1>4. CASE BeginVariable \/ Zip64EndComplete \/ LocatorComplete \/ EndComplete
  <2>1. \E record : Completes(record)
    BY <1>4, Zenon DEF BeginVariable, Zip64EndComplete, LocatorComplete, EndComplete
  <2> QED BY <2>1, CompletesAt DEF AtHeader
<1>5. CASE LocalComplete \/ CentralComplete
  <2>1. \E record : \E total \in Totals(record) : TRUE
    BY <1>5, Zenon DEF LocalComplete, CentralComplete
  <2> QED BY <2>1, TotalsAt DEF AtHeader
<1>6. CASE FinishOk \/ FinishTruncated
  BY <1>6 DEF FinishOk, FinishTruncated
<1> QED BY <1>1, <1>2, <1>3, <1>4, <1>5, <1>6 DEF Next

(* A member is only refused at its descriptor, and then nothing was told.   *)
LEMMA ScanRefusedTells ==
  ASSUME Inv, ScanRefused PROVE tap' = tap
<1>1. PICK byte \in Bytes :
        LET held == Append(state.held, byte)
            n == Released(held, state.consumed, state.zip64)
            rest == SubSeq(held, n + 1, Len(held)) IN
        /\ Closes(rest, state.consumed + n, state.zip64)
        /\ Refuse(Told("data", SubSeq(held, 1, n)))
  BY Zenon DEF ScanRefused
<1> DEFINE held == Append(state.held, byte)
           n == Released(held, state.consumed, state.zip64)
           rest == SubSeq(held, n + 1, Len(held))
<1>2. state.kind = "scan" /\ InMember /\ status = "walking"
  BY <1>1, Zenon DEF ScanRefused, InMember, Refuse
<1>3. /\ state.consumed \in Nat /\ held \in Seq(Bytes) /\ Len(held) <= Whole(state.zip64)
  <2>1. /\ state.consumed \in Nat /\ state.held \in Seq(Bytes)
        /\ Len(state.held) < Whole(state.zip64)
    BY <1>2 DEF Inv, Shape
  <2>2. Whole(state.zip64) \in Nat
    BY Lengths DEF Whole
  <2>3. held \in Seq(Bytes) /\ Len(held) = Len(state.held) + 1
    BY <2>1, AppendProperties
  <2> HIDE DEF held
  <2> QED BY <2>1, <2>2, <2>3
<1>4. Closes(rest, state.consumed + n, state.zip64) /\ Refuse(Told("data", SubSeq(held, 1, n)))
  BY <1>1, Zenon
<1> HIDE DEF held
<1>5. n = 0
  BY <1>3, <1>4, ScanMove
<1>6. SubSeq(held, 1, n) = <<>>
  BY <1>5, SubSeqEmpty
<1>7. tap' = Tapped(tap, Told("data", <<>>))
  BY <1>4, <1>6, Zenon DEF Refuse
<1>8. Told("data", <<>>) = Silent
  BY DEF Told, Silent
<1> QED BY <1>7, <1>8, TapSilent

LEMMA ScanningStep ==
  ASSUME Inv, Scanning, [Next]_vars PROVE Scanning'
<1>1. CASE ScanByte
  BY <1>1, ScanByteScans
<1>2. CASE LocalComplete
  <2>1. stream' = <<>>
    BY <1>2 DEF LocalComplete
  <2>2. SUFFICES ASSUME state'.kind = "scan" PROVE Scanning'
    BY DEF Scanning
  <2>3. PICK m, z : state' = DataScan(0, m, z, <<>>)
    <3>1. PICK total \in Totals("local") : \E header \in LocalHeaders, area \in AreasIn(total) :
            \/ \E told : GoOn(DataScan(0, header.method, NeedsZip64(header), <<>>), 0, told)
            \/ \E sizes : KnownMember(header, sizes, total)
      BY <1>2, Zenon DEF LocalComplete
    <3>2. PICK header \in LocalHeaders :
            \/ \E told : GoOn(DataScan(0, header.method, NeedsZip64(header), <<>>), 0, told)
            \/ \E sizes : KnownMember(header, sizes, total)
      BY <3>1, Zenon
    <3>3. ASSUME NEW sizes, KnownMember(header, sizes, total) PROVE FALSE
      <4>1. state' = AtRecord \/ \E n, u, q, d, z : state' = Data(n, n, u, q, d, z)
        BY <3>3, Zenon DEF KnownMember, GoOn
      <4>2. state'.kind # "scan"
        BY <4>1, StateFields DEF Data
      <4> QED BY <2>2, <4>2
    <3> QED BY <3>2, <3>3, Zenon DEF GoOn
  <2>4. state'.consumed = 0 /\ state'.zip64 = z /\ state'.held = <<>>
    BY <2>3 DEF DataScan
  <2>8. tap'.data = 0
    <3>1. Inv'
      BY <1>2, LocalCompleteStep
    <3>2. status' = "walking"
      BY <1>2, Zenon DEF LocalComplete, KnownMember, GoOn, Consumed
    <3> QED BY <2>2, <2>4, <3>1, <3>2 DEF Inv, Followed, InMember, ToldBytes
  <2>5. <<>> \in Seq(Bytes) /\ Len(<<>>) = 0 /\ SubSeq(<<>>, 0 + 1, 0) = <<>>
    BY SubSeqEmpty
  <2>6. Passed(<<>>, 0, z)
    BY DEF Passed
  <2>7. NoneIn(<<>>, z)
    <3>1. SigLen = 2 /\ BodyLen(z) \in Nat
      BY Lengths
    <3>2. \A at \in 0..0 : ~(at + SigLen + BodyLen(z) <= 0)
      BY <3>1
    <3> QED BY <2>5, <3>2 DEF NoneIn, DescriptorAt
  <2> QED BY <2>1, <2>4, <2>5, <2>6, <2>7, <2>8 DEF Scanning
<1>3. CASE /\ Next /\ ~ScanByte /\ ~LocalComplete
  <2>1. \/ state'.kind # "scan"
        \/ state' = state /\ stream' = stream /\ tap' = tap
    <3>1. CASE SignatureByte \/ DispatchSignature
      BY <3>1, StateFields DEF SignatureByte, DispatchSignature, GoOn
    <3>2. CASE TrailingByte \/ SignatureRefused \/ Zip64EndRefused
      BY <3>2, TapSilent DEF TrailingByte, SignatureRefused, Zip64EndRefused, Refuse
    <3>8. CASE LocalRefused
      <4>1. \E total \in Totals("local") : \E told : Refuse(told)
        BY <3>8, Zenon DEF LocalRefused
      <4>2. state.kind # "scan" /\ \E told : Refuse(told)
        BY <4>1, TotalsAt DEF AtHeader
      <4> QED BY <4>2 DEF Refuse
    <3>9. CASE ScanRefused
      <4>1. \E told : Refuse(told)
        BY <3>9, Zenon DEF ScanRefused
      <4> QED BY <3>9, <4>1, ScanRefusedTells DEF Refuse
    <3>3. CASE FixedByte \/ VariableByte
      <4>1. \E n : \/ state.kind = "fixed" /\ state' = [state EXCEPT !.len = n]
                   \/ state.kind = "variable" /\ state' = [state EXCEPT !.len = n]
        BY <3>3, Zenon DEF FixedByte, VariableByte, GoOn
      <4>2. /\ state.kind = "fixed" => state = Fixed(state.record, state.len)
            /\ state.kind = "variable" => state = Variable(state.record, state.total, state.len)
        BY DEF Inv, Shape
      <4>3. PICK n : \/ state.kind = "fixed" /\ state' = [state EXCEPT !.len = n]
                     \/ state.kind = "variable" /\ state' = [state EXCEPT !.len = n]
        BY <4>1
      <4>4. CASE state.kind = "fixed" /\ state' = [state EXCEPT !.len = n]
        BY <4>2, <4>4 DEF Fixed
      <4>5. CASE state.kind = "variable" /\ state' = [state EXCEPT !.len = n]
        BY <4>2, <4>5 DEF Variable
      <4> QED BY <4>3, <4>4, <4>5
    <3>4. CASE DataByte
      <4>1. \/ \E r : state' = [state EXCEPT !.remaining = r]
            \/ \E n, m, z, h : state' = Descriptor(n, m, z, h)
            \/ state' = AtRecord
        BY <3>4, Zenon DEF DataByte, GoOn
      <4>2. state.kind = "data" /\ state = Data(state.remaining, state.total, state.uncompressed,
                                               state.method, state.descriptor, state.zip64)
        BY <3>4 DEF DataByte, Inv, Shape
      <4>3. ASSUME NEW r, state' = [state EXCEPT !.remaining = r] PROVE state'.kind # "scan"
        BY <4>2, <4>3 DEF Data
      <4> QED BY <4>1, <4>3, StateFields DEF Descriptor
    <3>5. CASE DescriptorByte
      <4>1. \/ \E h : state' = [state EXCEPT !.held = h]
            \/ state' = AtRecord
            \/ Refuse(Silent)
        BY <3>5, Zenon DEF DescriptorByte, GoOn
      <4>2. state.kind = "descriptor"
            /\ state = Descriptor(state.dataLen, state.method, state.zip64, state.held)
        BY <3>5 DEF DescriptorByte, Inv, Shape
      <4>3. ASSUME NEW h, state' = [state EXCEPT !.held = h] PROVE state'.kind # "scan"
        BY <4>2, <4>3 DEF Descriptor
      <4> QED BY <4>1, <4>3, StateFields, TapSilent DEF Refuse
    <3>6. CASE SkipByte \/ Zip64EndComplete \/ LocatorComplete \/ EndComplete \/ BeginVariable
               \/ CentralComplete
      <4>1. \/ state' = AtRecord \/ \E n, t : state' = Skip(n, t)
            \/ \E r, t : state' = Variable(r, t, 0)
            \/ Refuse(Silent)
        BY <3>6, Zenon DEF SkipByte, Zip64EndComplete, LocatorComplete, EndComplete,
             BeginVariable, CentralComplete, SkipOver, GoOn
      <4> QED BY <4>1, StateFields, TapSilent DEF Refuse
    <3>7. CASE FinishOk \/ FinishTruncated
      BY <3>7 DEF FinishOk, FinishTruncated
    <3> QED BY <1>3, <3>1, <3>2, <3>3, <3>4, <3>5, <3>6, <3>7, <3>8, <3>9 DEF Next
  <2>2. CASE state'.kind # "scan"
    BY <2>2 DEF Scanning
  <2>3. CASE state' = state /\ stream' = stream /\ tap' = tap
    BY <2>3 DEF Scanning
  <2> QED BY <2>1, <2>2, <2>3
<1>4. CASE UNCHANGED vars
  BY <1>4 DEF vars, Scanning
<1> QED BY <1>1, <1>2, <1>3, <1>4

LEMMA AlwaysScanning == Spec => [](Inv /\ Scanning)
<1>1. Init => Scanning
  BY StateFields DEF Init, Scanning
<1>2. Scanning /\ Inv /\ [Next]_vars => Scanning'
  BY ScanningStep
<1> QED BY <1>1, <1>2, AlwaysInv, PTL DEF Spec

(* For every alphabet and every descriptor width, no descriptor that covers *)
(* the member's data is passed over, also none that begins inside a false   *)
(* one: what was given up held no whole descriptor, and what is held is too *)
(* short for one (descriptor.rs).                                           *)
THEOREM NoDescriptorIsPassed == Spec => []ScanIsLeftmost
<1>1. Inv /\ Scanning => ScanIsLeftmost
  BY DEF Scanning, ScanIsLeftmost, NoneIn
<1> QED BY <1>1, AlwaysScanning, PTL

(* The scan tells the bytes it gives up in their order, and ends a member   *)
(* only at a descriptor of just the bytes told (descriptor.rs).             *)
THEOREM ScanTellsItAll == Spec => ScanTellsTheData
<1>1. Inv /\ Scanning /\ [Next]_vars =>
        [state.kind = "scan" /\ status' = "walking" => Tells]_vars
  <2> SUFFICES ASSUME Inv, Scanning, Next, state.kind = "scan", status' = "walking" PROVE Tells
    BY Zenon
  <2>1. ScanByte
    BY OthersDoNotScan
  <2> QED BY <2>1, ScanByteScans
<1> QED BY <1>1, AlwaysScanning, PTL DEF Spec, ScanTellsTheData, Tells

(***************************************************************************)
(* The contract with the driver: the reports are among those that          *)
(* ContainerChunker provides for.                                          *)
(***************************************************************************)
LEMMA ConstantFacts ==
  /\ FixedLen \in [Records -> Nat \ {0}] /\ FixedLen["local"] \in Nat \ {0}
  /\ SigLen = 2 /\ MaxVariable \in Nat /\ ChunkMin \in Nat \ {0}
BY ZipAssumption, Lengths DEF Records

(***************************************************************************)
(* How long a header under way is.                                         *)
(***************************************************************************)
Measured ==
  /\ offset \in Nat /\ begun \in Nat
  /\ status # "faulted" =>
       /\ state.kind = "signature" /\ state.len > 0 => offset = begun + state.len
       /\ state.kind = "fixed" =>
            /\ state.len \in 0..FixedLen[state.record]-1
            /\ state.record = "local" => offset = begun + SigLen + state.len
       /\ state.kind = "variable" =>
            /\ state.total \in 1..MaxVariable /\ state.len \in 0..state.total-1
            /\ state.record = "local" =>
                 offset = begun + SigLen + FixedLen["local"] + state.len

LEMMA Moves ==
  ASSUME NEW next, NEW reported, NEW told, GoOn(next, reported, told)
  PROVE  /\ state' = next /\ report' = reported /\ offset' = offset + 1
         /\ status = "walking" /\ status' = "walking"
         /\ begun' = IF state = AtRecord THEN offset ELSE begun
BY Zenon DEF GoOn, Consumed

(* Nothing is measured where no header is under way.                        *)
LEMMA Unmeasured ==
  ASSUME Measured, NEW next, NEW reported, NEW told, GoOn(next, reported, told),
         next = AtRecord \/ next.kind \in {"data", "scan", "descriptor", "skip"}
  PROVE  Measured'
<1>1. offset' \in Nat /\ begun' \in Nat /\ state' = next
  BY Moves DEF Measured
<1>2. /\ state'.kind = "signature" => state'.len = 0
      /\ state'.kind \notin {"fixed", "variable"}
  BY <1>1, StateFields
<1> QED BY <1>1, <1>2 DEF Measured

LEMMA StillMeasured ==
  ASSUME Measured, offset' \in Nat, begun' = begun, status' = "faulted"
  PROVE  Measured'
BY DEF Measured

(* Where a byte leads that belongs to no member header and no data of known *)
(* size.                                                                    *)
Elsewhere ==
  CentralComplete \/ ScanByte \/ DescriptorByte \/ SkipByte \/ Zip64EndComplete
    \/ LocatorComplete \/ EndComplete

LEMMA ElsewhereLeads ==
  ASSUME Inv, Elsewhere
  PROVE  \/ Refuse(Silent)
         \/ \E next, told :
              GoOn(next, 0, told)
                /\ (next = AtRecord \/ next.kind \in {"scan", "descriptor", "skip"})
<1>1. CASE CentralComplete \/ LocatorComplete
  BY <1>1, Zenon DEF CentralComplete, LocatorComplete
<1>2. CASE ScanByte
  <2>1. \E next, told :
          GoOn(next, 0, told) /\ (next = AtRecord \/ \E c, m, z, h : next = DataScan(c, m, z, h))
    BY <1>2, Zenon DEF ScanByte
  <2> QED BY <2>1 DEF DataScan
<1>3. CASE DescriptorByte
  <2>1. \/ Refuse(Silent)
        \/ \E next, told :
             /\ GoOn(next, 0, told)
             /\ next = AtRecord \/ \E h : next = [state EXCEPT !.held = h]
    BY <1>3, Zenon DEF DescriptorByte
  <2>2. state.kind = "descriptor"
        /\ state = Descriptor(state.dataLen, state.method, state.zip64, state.held)
    BY <1>3 DEF DescriptorByte, Inv, Shape
  <2>3. \A h : [state EXCEPT !.held = h].kind = "descriptor"
    BY <2>2 DEF Descriptor
  <2> QED BY <2>1, <2>3
<1>4. CASE SkipByte \/ Zip64EndComplete \/ EndComplete
  <2>1. \/ Refuse(Silent)
        \/ \E next, told :
             GoOn(next, 0, told) /\ (next = AtRecord \/ \E n, t : next = Skip(n, t))
    BY <1>4, Zenon DEF SkipByte, Zip64EndComplete, EndComplete, SkipOver
  <2> QED BY <2>1 DEF Skip
<1> QED BY <1>1, <1>2, <1>3, <1>4 DEF Elsewhere

(* A complete header leads to the next record, to a scan, or to data.       *)
LEMMA LocalLeads ==
  ASSUME Inv, LocalComplete
  PROVE  \E total \in Totals("local") : \E next, reported, told :
           /\ GoOn(next, reported, told)
           /\ \/ reported = 0 /\ (next = AtRecord \/ next.kind = "scan")
              \/ \E n \in Nat \ {0} : \E u, m, d, z :
                   /\ next = Data(n, n, u, m, d, z)
                   /\ reported = IF n >= ChunkMin THEN HeaderLength(total) ELSE 0
<1>1. PICK total \in Totals("local") : \E header \in LocalHeaders, area \in AreasIn(total) :
        LET fields == <<header.uncompressed, header.compressed>> IN
        IF header.descriptor /\ header.compressed = 0
        THEN GoOn(DataScan(0, header.method, NeedsZip64(header), <<>>), 0,
                  Told("header", {[descriptor |-> TRUE]}))
        ELSE /\ Resolvable(fields, area)
             /\ KnownMember(header, Resolved(fields, area), total)
  BY DEF LocalComplete
<1>2. PICK header \in LocalHeaders, area \in AreasIn(total) :
        LET fields == <<header.uncompressed, header.compressed>> IN
        IF header.descriptor /\ header.compressed = 0
        THEN GoOn(DataScan(0, header.method, NeedsZip64(header), <<>>), 0,
                  Told("header", {[descriptor |-> TRUE]}))
        ELSE /\ Resolvable(fields, area)
             /\ KnownMember(header, Resolved(fields, area), total)
  BY <1>1
<1> DEFINE fields == <<header.uncompressed, header.compressed>>
           sizes == Resolved(fields, area)
<1>3. CASE header.descriptor /\ header.compressed = 0
  <2>1. \E told : GoOn(DataScan(0, header.method, NeedsZip64(header), <<>>), 0, told)
    BY <1>2, <1>3, Zenon
  <2>2. DataScan(0, header.method, NeedsZip64(header), <<>>).kind = "scan"
    BY DEF DataScan
  <2> QED BY <2>1, <2>2, Zenon
<1>4. CASE ~(header.descriptor /\ header.compressed = 0)
  <2>1. Resolvable(fields, area) /\ KnownMember(header, sizes, total)
    BY <1>2, <1>4, Zenon
  <2>2. sizes[2] \in Nat
    <3>1. header.uncompressed \in Fields /\ header.compressed \in Fields /\ area \in Areas
      BY DEF LocalHeaders, AreasIn
    <3> QED BY <2>1, <3>1, ResolvedIsNat
  <2> HIDE DEF fields, sizes
  <2>3. CASE sizes[2] = 0
    <3>1. \E told : GoOn(AtRecord, 0, told)
      BY <2>1, <2>3, Zenon DEF KnownMember
    <3>2. PICK told : GoOn(AtRecord, 0, told)
      BY <3>1
    <3> WITNESS total \in Totals("local")
    <3> WITNESS AtRecord, 0, told
    <3> QED BY <3>2
  <2>4. CASE sizes[2] # 0
    <3> DEFINE large == IF sizes[2] >= ChunkMin THEN HeaderLength(total) ELSE 0
    <3>1. PICK u, m, d, z, told : GoOn(Data(sizes[2], sizes[2], u, m, d, z), large, told)
      BY <2>1, <2>4, Zenon DEF KnownMember
    <3>2. sizes[2] \in Nat \ {0}
      BY <2>2, <2>4
    <3>3. \E n \in Nat \ {0} : \E uu, mm, dd, zz :
            /\ Data(sizes[2], sizes[2], u, m, d, z) = Data(n, n, uu, mm, dd, zz)
            /\ large = IF n >= ChunkMin THEN HeaderLength(total) ELSE 0
      <4> WITNESS sizes[2] \in Nat \ {0}
      <4> WITNESS u, m, d, z
      <4> QED OBVIOUS
    <3> WITNESS total \in Totals("local")
    <3> WITNESS Data(sizes[2], sizes[2], u, m, d, z), large, told
    <3> QED BY <3>1, <3>3
  <2> QED BY <2>3, <2>4
<1> QED BY <1>3, <1>4

(* A byte of data leads on in the data, or behind it.                       *)
LEMMA DataLeads ==
  ASSUME Inv, DataByte
  PROVE  /\ state.kind = "data" /\ state.total \in Nat /\ state.remaining \in 1..state.total
         /\ \E next, told :
              /\ GoOn(next, 0, told)
              /\ IF state.remaining > 1
                 THEN /\ next.kind = "data" /\ next.total = state.total
                      /\ next.remaining = state.remaining - 1
                 ELSE next = AtRecord \/ next.kind = "descriptor"
<1>1. /\ state.kind = "data" /\ state.total \in Nat /\ state.remaining \in 1..state.total
      /\ state = Data(state.remaining, state.total, state.uncompressed,
                      state.method, state.descriptor, state.zip64)
  BY DEF DataByte, Inv, Shape
<1>2. CASE state.remaining > 1
  <2> DEFINE next == [state EXCEPT !.remaining = @ - 1]
  <2>1. \E told : GoOn(next, 0, told)
    BY <1>2, Zenon DEF DataByte
  <2>2. next.kind = "data" /\ next.total = state.total /\ next.remaining = state.remaining - 1
    BY <1>1 DEF Data
  <2> HIDE DEF next
  <2> QED BY <1>1, <1>2, <2>1, <2>2
<1>3. CASE ~(state.remaining > 1)
  <2>1. \E next, told :
          GoOn(next, 0, told)
            /\ (next = AtRecord \/ \E n, m, z, h : next = Descriptor(n, m, z, h))
    BY <1>3, Zenon DEF DataByte
  <2>2. \A n, m, z, h : Descriptor(n, m, z, h).kind = "descriptor"
    BY DEF Descriptor
  <2>3. \E next, told :
          GoOn(next, 0, told) /\ (next = AtRecord \/ next.kind = "descriptor")
    BY <2>1, <2>2, Zenon
  <2> QED BY <1>1, <1>3, <2>3
<1> QED BY <1>2, <1>3

LEMMA MeasuredStep ==
  ASSUME Inv, Measured, [Next]_vars PROVE Measured'
<1>1. ASSUME NEW told, Refuse(told) PROVE Measured'
  <2>1. offset' = offset + 1 /\ begun' = begun /\ status' = "faulted"
    BY <1>1 DEF Refuse
  <2> QED BY <2>1, StillMeasured DEF Measured
<1>2. CASE TrailingByte \/ SignatureRefused \/ LocalRefused \/ ScanRefused \/ Zip64EndRefused
  <2>1. \E told : Refuse(told)
    BY <1>2, Zenon DEF TrailingByte, SignatureRefused, LocalRefused, ScanRefused, Zip64EndRefused
  <2> QED BY <1>1, <2>1
<1>3. CASE Elsewhere \/ LocalComplete \/ DataByte
  <2>1. \/ Refuse(Silent)
        \/ \E next, reported, told :
             /\ GoOn(next, reported, told)
             /\ next = AtRecord \/ next.kind \in {"data", "scan", "descriptor", "skip"}
    <3>1. CASE Elsewhere
      BY <3>1, ElsewhereLeads
    <3>2. CASE LocalComplete
      <4>1. \A n, u, m, d, z : Data(n, n, u, m, d, z).kind = "data"
        BY DEF Data
      <4> QED BY <3>2, <4>1, LocalLeads
    <3>3. CASE DataByte
      BY <3>3, DataLeads
    <3> QED BY <1>3, <3>1, <3>2, <3>3
  <2> QED BY <1>1, <2>1, Unmeasured
<1>4. CASE SignatureByte
  <2>1. GoOn(Signature(state.len + 1), 0, Silent) /\ state.kind = "signature" /\ state.len = 0
        /\ state = AtRecord
    BY <1>4, ConstantFacts DEF SignatureByte, Inv, Shape, AtRecord
  <2>2. state' = Signature(1) /\ offset' = offset + 1 /\ begun' = offset
    BY <2>1, Moves
  <2> QED BY <2>2, StateFields DEF Measured
<1>5. CASE DispatchSignature
  <2>1. PICK record \in Records : GoOn(Fixed(record, 0), 0, Told("central", TellsDirectory(record)))
    BY <1>5 DEF DispatchSignature
  <2>2. state.kind = "signature" /\ state.len = 1 /\ state # AtRecord
    BY <1>5, ConstantFacts, StateFields DEF DispatchSignature
  <2>3. /\ state' = Fixed(record, 0) /\ offset' = offset + 1 /\ begun' = begun
        /\ status = "walking"
    BY <2>1, <2>2, Moves
  <2>4. state'.kind = "fixed" /\ state'.record = record /\ state'.len = 0
    BY <2>3, StateFields
  <2>5. FixedLen[record] \in Nat \ {0}
    BY ConstantFacts
  <2> QED BY <2>2, <2>3, <2>4, <2>5, ConstantFacts DEF Measured
<1>6. CASE FixedByte
  <2>1. /\ state.kind = "fixed" /\ state = Fixed(state.record, state.len)
        /\ state.len + 1 < FixedLen[state.record] /\ state.record \in Records
        /\ GoOn([state EXCEPT !.len = @ + 1], 0, Silent)
    BY <1>6 DEF FixedByte, Inv, Shape, Order
  <2>2. [state EXCEPT !.len = @ + 1] = Fixed(state.record, state.len + 1)
    BY <2>1 DEF Fixed
  <2>3. state # AtRecord
    BY <2>1, StateFields
  <2>4. /\ state' = Fixed(state.record, state.len + 1) /\ offset' = offset + 1
        /\ begun' = begun /\ status = "walking"
    BY <2>1, <2>2, <2>3, Moves
  <2>5. state'.kind = "fixed" /\ state'.record = state.record /\ state'.len = state.len + 1
    BY <2>4, StateFields
  <2>6. FixedLen[state.record] \in Nat
    BY <2>1, ConstantFacts
  <2> QED BY <2>1, <2>4, <2>5, <2>6, ConstantFacts DEF Measured
<1>7. CASE BeginVariable
  <2>1. PICK record \in {"local", "central"}, total \in 1..MaxVariable :
          Completes(record) /\ GoOn(Variable(record, total, 0), 0, Silent)
    BY <1>7 DEF BeginVariable
  <2>2. /\ state.kind = "fixed" /\ state.record = record /\ state.len = FixedLen[record] - 1
        /\ state # AtRecord
    BY <2>1, StateFields DEF Completes
  <2>3. /\ state' = Variable(record, total, 0) /\ offset' = offset + 1 /\ begun' = begun
        /\ status = "walking"
    BY <2>1, <2>2, Moves
  <2>4. state'.kind = "variable" /\ state'.record = record /\ state'.total = total /\ state'.len = 0
    BY <2>3, StateFields
  <2> QED BY <2>2, <2>3, <2>4, ConstantFacts DEF Measured
<1>8. CASE VariableByte
  <2>1. /\ state.kind = "variable" /\ state = Variable(state.record, state.total, state.len)
        /\ state.len + 1 < state.total
        /\ GoOn([state EXCEPT !.len = @ + 1], 0, Silent)
    BY <1>8 DEF VariableByte, Inv, Shape
  <2>2. [state EXCEPT !.len = @ + 1] = Variable(state.record, state.total, state.len + 1)
    BY <2>1 DEF Variable
  <2>3. state # AtRecord
    BY <2>1, StateFields
  <2>4. /\ state' = Variable(state.record, state.total, state.len + 1) /\ offset' = offset + 1
        /\ begun' = begun /\ status = "walking"
    BY <2>1, <2>2, <2>3, Moves
  <2>5. /\ state'.kind = "variable" /\ state'.record = state.record
        /\ state'.total = state.total /\ state'.len = state.len + 1
    BY <2>4, StateFields
  <2> QED BY <2>1, <2>4, <2>5, ConstantFacts DEF Measured
<1>9. CASE FinishOk \/ FinishTruncated
  <2>1. UNCHANGED <<state, offset, begun>> /\ status = "walking"
    BY <1>9 DEF FinishOk, FinishTruncated
  <2> QED BY <2>1 DEF Measured
<1>10. CASE UNCHANGED vars
  BY <1>10 DEF vars, Measured
<1> QED BY <1>2, <1>3, <1>4, <1>5, <1>6, <1>7, <1>8, <1>9, <1>10 DEF Next, Elsewhere

LEMMA AlwaysMeasured == Spec => [](Inv /\ Measured)
<1>1. Init => Measured
  BY StateFields DEF Init, Measured
<1>2. Measured /\ Inv /\ [Next]_vars => Measured'
  BY MeasuredStep
<1> QED BY <1>1, <1>2, AlwaysInv, PTL DEF Spec

(***************************************************************************)
(* What the driver hears.                                                  *)
(***************************************************************************)
HeaderSeen == IF InHeader /\ ~AtMemberBoundary THEN offset - begun ELSE 0
OwedBytes == IF state.kind = "data" /\ state.total >= ChunkMin
                /\ state.total - state.remaining < ChunkMin
             THEN ChunkMin - (state.total - state.remaining) ELSE 0

HeaderMost == SigLen + FixedLen["local"] + MaxVariable

LEMMA HeardIs ==
  Heard = [at |-> AtMemberBoundary, header |-> HeaderSeen, owed |-> OwedBytes, open |-> FALSE]
BY Zenon DEF Heard, HeaderSeen, OwedBytes

LEMMA HeardFields ==
  /\ Heard.at = AtMemberBoundary /\ Heard.header = HeaderSeen
  /\ Heard.owed = OwedBytes /\ Heard.open = FALSE
BY HeardIs

\* What a byte makes the driver hear.
Hears(seen) == Heard' = seen.next /\ report' = seen.large

LEMMA HearsIf ==
  ASSUME NEW at \in BOOLEAN, NEW header, NEW owed, NEW large,
         AtMemberBoundary' <=> at, HeaderSeen' = header, OwedBytes' = owed, report' = large
  PROVE  Hears(Reports!Seen(at, header, owed, FALSE, large))
<1>1. AtMemberBoundary' \in BOOLEAN
  BY Zenon DEF AtMemberBoundary
<1>2. AtMemberBoundary' = at
  BY <1>1, Zenon
<1>3. Heard' = [at |-> at, header |-> header, owed |-> owed, open |-> FALSE]
  BY <1>2, Zenon DEF Heard, HeaderSeen, OwedBytes
<1> QED BY <1>3, Zenon DEF Hears, Reports!Seen

LEMMA ConsumeStep ==
  ASSUME status = "walking", status' = "walking",
         NEW seen \in Reports!HeaderBytes(ZipV1, Heard) \cup Reports!PayloadBytes(ZipV1, Heard),
         Hears(seen)
  PROVE  Reports!Next
BY DEF Hears, Reports!Next, Reports!Consume

LEMMA RefuseHeard ==
  ASSUME NEW told, Refuse(told) PROVE Reports!Next
BY DEF Refuse, Reports!Next, Reports!Fault

(* A byte outside the headers and the data that is owed.                    *)
LEMMA RestHeard ==
  ASSUME status = "walking", status' = "walking", ~AtMemberBoundary, HeaderSeen = 0,
         ~(OwedBytes > 1), HeaderSeen' = 0, OwedBytes' = 0, report' = 0
  PROVE  Reports!Next
<1>1. /\ ~Heard.at /\ ~(Heard.header > 0) /\ ~(Heard.owed > 1) /\ Heard.open = FALSE
  BY HeardFields
<1>2. Reports!PayloadBytes(ZipV1, Heard) =
        {Reports!Seen(FALSE, 0, 0, FALSE, 0)} \cup {Reports!Seen(TRUE, 0, 0, FALSE, 0)}
  BY <1>1, Zenon DEF Reports!PayloadBytes
<1>3. CASE AtMemberBoundary'
  <2>1. Hears(Reports!Seen(TRUE, 0, 0, FALSE, 0))
    BY <1>3, HearsIf
  <2> QED BY <1>2, <2>1, ConsumeStep
<1>4. CASE ~AtMemberBoundary'
  <2>1. Hears(Reports!Seen(FALSE, 0, 0, FALSE, 0))
    BY <1>4, HearsIf
  <2> QED BY <1>2, <2>1, ConsumeStep
<1> QED BY <1>3, <1>4

(* A byte of a member's header: it goes on, ends, or reports a large member. *)
LEMMA HeaderHeard ==
  ASSUME status = "walking", status' = "walking", HeaderSeen \in Nat,
         AtMemberBoundary \/ HeaderSeen > 0, HeaderSeen + 1 <= HeaderMost,
         \/ /\ ~AtMemberBoundary' /\ HeaderSeen' = HeaderSeen + 1
            /\ OwedBytes' = 0 /\ report' = 0
         \/ HeaderSeen' = 0 /\ OwedBytes' = 0 /\ report' = 0
         \/ /\ ~AtMemberBoundary' /\ HeaderSeen' = 0
            /\ OwedBytes' = ChunkMin /\ report' = HeaderSeen + 1
  PROVE  Reports!Next
<1> DEFINE len == HeaderSeen + 1
<1>1. /\ Heard.header = HeaderSeen /\ Heard.open = FALSE
      /\ Heard.at \/ Heard.header > 0
  BY HeardFields, Zenon
<1>2. /\ ZipV1.large = TRUE /\ ZipV1.unknown = "none" /\ ZipV1.unitMin = ChunkMin
  BY DEF ZipV1
<1>3. ~(len > HeaderMost)
  BY ConstantFacts DEF HeaderMost
<1>4. Reports!HeaderBytes(ZipV1, Heard) =
        {Reports!Seen(FALSE, len, 0, FALSE, 0)}
        \cup {Reports!Seen(at, 0, 0, FALSE, 0) : at \in BOOLEAN}
        \cup {Reports!Seen(FALSE, 0, ChunkMin, FALSE, len)}
  BY <1>1, <1>2, <1>3 DEF Reports!HeaderBytes, HeaderMost
<1>5. CASE ~AtMemberBoundary' /\ HeaderSeen' = len /\ OwedBytes' = 0 /\ report' = 0
  <2>1. Hears(Reports!Seen(FALSE, len, 0, FALSE, 0))
    BY <1>5, HearsIf
  <2> QED BY <1>4, <2>1, ConsumeStep
<1>6. CASE HeaderSeen' = 0 /\ OwedBytes' = 0 /\ report' = 0
  <2>1. PICK at \in BOOLEAN : AtMemberBoundary' <=> at
    BY Zenon
  <2>2. Hears(Reports!Seen(at, 0, 0, FALSE, 0))
    BY <1>6, <2>1, HearsIf
  <2> QED BY <1>4, <2>2, ConsumeStep
<1>7. CASE /\ ~AtMemberBoundary' /\ HeaderSeen' = 0
           /\ OwedBytes' = ChunkMin /\ report' = len
  <2>1. Hears(Reports!Seen(FALSE, 0, ChunkMin, FALSE, len))
    BY <1>7, HearsIf
  <2> QED BY <1>4, <2>1, ConsumeStep
<1> QED BY <1>5, <1>6, <1>7

(***************************************************************************)
(* The header under way.                                                   *)
(***************************************************************************)
(* What was counted of it.                                                  *)
LEMMA HeaderMeasured ==
  ASSUME Inv, Measured, status = "walking", phase = "members"
  PROVE  /\ state = AtRecord => AtMemberBoundary /\ HeaderSeen = 0
         /\ state.kind = "signature" /\ state.len = 1 => ~AtMemberBoundary /\ HeaderSeen = 1
         /\ state.kind = "fixed" /\ state.record = "local" =>
              ~AtMemberBoundary /\ HeaderSeen = SigLen + state.len
         /\ state.kind = "variable" /\ state.record = "local" =>
              ~AtMemberBoundary /\ HeaderSeen = SigLen + FixedLen["local"] + state.len
<1>1. state = AtRecord => AtMemberBoundary /\ HeaderSeen = 0
  BY DEF HeaderSeen, AtMemberBoundary
<1>2. CASE state.kind = "signature" /\ state.len = 1
  <2>1. state # AtRecord /\ offset = begun + 1 /\ begun \in Nat
    BY <1>2, StateFields DEF Measured
  <2> QED BY <1>2, <2>1 DEF HeaderSeen, InHeader, AtMemberBoundary
<1>3. CASE state.kind = "fixed" /\ state.record = "local"
  <2>1. /\ state # AtRecord /\ offset = begun + SigLen + state.len /\ begun \in Nat
        /\ state.len \in Nat /\ SigLen \in Nat
    BY <1>3, StateFields, ConstantFacts DEF Measured
  <2>2. HeaderSeen = offset - begun
    BY <1>3, <2>1 DEF HeaderSeen, InHeader, AtMemberBoundary
  <2> QED BY <1>3, <2>1, <2>2 DEF AtMemberBoundary
<1>4. CASE state.kind = "variable" /\ state.record = "local"
  <2>1. /\ state # AtRecord /\ offset = begun + SigLen + FixedLen["local"] + state.len
        /\ begun \in Nat /\ state.len \in Nat /\ SigLen \in Nat /\ FixedLen["local"] \in Nat
    BY <1>4, StateFields, ConstantFacts DEF Measured
  <2>2. HeaderSeen = offset - begun
    BY <1>4, <2>1 DEF HeaderSeen, InHeader, AtMemberBoundary
  <2> QED BY <1>4, <2>1, <2>2 DEF AtMemberBoundary
<1> QED BY <1>1, <1>2, <1>3, <1>4

(* Where nothing of a member's header has come, none is counted.            *)
LEMMA NoHeader ==
  /\ phase # "members" => HeaderSeen = 0 /\ ~AtMemberBoundary
  /\ state.kind # "signature" /\ ~AtHeader("local") => HeaderSeen = 0 /\ ~AtMemberBoundary
  /\ state.kind # "data" => OwedBytes = 0
BY StateFields DEF HeaderSeen, InHeader, AtMemberBoundary, AtHeader, OwedBytes

LEMMA NoHeaderAfter ==
  /\ phase' # "members" => HeaderSeen' = 0 /\ ~AtMemberBoundary'
  /\ state'.kind # "signature" /\ ~AtHeader("local")' => HeaderSeen' = 0 /\ ~AtMemberBoundary'
  /\ state' = AtRecord => HeaderSeen' = 0
  /\ state'.kind # "data" => OwedBytes' = 0
BY StateFields DEF HeaderSeen, InHeader, AtMemberBoundary, AtHeader, OwedBytes

(* A byte that is not counted, and leads to none that is.                   *)
LEMMA PlainHeard ==
  ASSUME NEW next, NEW told, GoOn(next, 0, told),
         ~AtMemberBoundary, HeaderSeen = 0, ~(OwedBytes > 1),
         \/ next = AtRecord
         \/ next.kind \in {"scan", "descriptor", "skip"}
         \/ next.kind \in {"signature", "fixed", "variable"} /\ phase' # "members"
         \/ next.kind \in {"fixed", "variable"} /\ next.record # "local"
  PROVE  Reports!Next
<1>1. state' = next /\ report' = 0 /\ status = "walking" /\ status' = "walking"
  BY Moves
<1>2. HeaderSeen' = 0 /\ OwedBytes' = 0
  BY <1>1, NoHeaderAfter, StateFields DEF AtHeader
<1> QED BY <1>1, <1>2, RestHeard

LEMMA ElsewhereHeard ==
  ASSUME Inv, Elsewhere PROVE Reports!Next
<1>1. /\ state.kind \notin {"signature", "data"} /\ ~AtHeader("local")
  <2>1. CASE CentralComplete
    <3>1. AtHeader("central")
      BY <2>1, TotalsAt DEF CentralComplete
    <3> QED BY <3>1 DEF AtHeader
  <2>2. CASE Zip64EndComplete \/ LocatorComplete \/ EndComplete
    <3>1. AtHeader("zip64End") \/ AtHeader("zip64Locator") \/ AtHeader("end")
      BY <2>2, CompletesAt DEF Zip64EndComplete, LocatorComplete, EndComplete
    <3> QED BY <3>1 DEF AtHeader
  <2>3. CASE ScanByte \/ DescriptorByte \/ SkipByte
    BY <2>3 DEF ScanByte, DescriptorByte, SkipByte, AtHeader
  <2> QED BY <2>1, <2>2, <2>3 DEF Elsewhere
<1>2. ~AtMemberBoundary /\ HeaderSeen = 0 /\ ~(OwedBytes > 1)
  BY <1>1, NoHeader
<1> QED BY <1>2, ElsewhereLeads, PlainHeard, RefuseHeard

(* A byte of data: of those that are owed, or behind them.                  *)
LEMMA DataHeard ==
  ASSUME Inv, DataByte PROVE Reports!Next
<1>1. /\ state.kind = "data" /\ state.total \in Nat /\ state.remaining \in 1..state.total
  BY DataLeads
<1>2. PICK next, told :
        /\ GoOn(next, 0, told)
        /\ IF state.remaining > 1
           THEN /\ next.kind = "data" /\ next.total = state.total
                /\ next.remaining = state.remaining - 1
           ELSE next = AtRecord \/ next.kind = "descriptor"
  BY DataLeads
<1>3. state' = next /\ report' = 0 /\ status = "walking" /\ status' = "walking"
  BY <1>2, Moves
<1>4. ~AtMemberBoundary /\ HeaderSeen = 0
  BY <1>1, NoHeader DEF AtHeader
<1> DEFINE total == state.total  came == state.total - state.remaining
<1>5. OwedBytes = IF total >= ChunkMin /\ came < ChunkMin THEN ChunkMin - came ELSE 0
  BY <1>1 DEF OwedBytes
<1>6. total \in Nat /\ came \in Nat /\ came < total /\ ChunkMin \in Nat
  BY <1>1, ConstantFacts
<1>7. CASE state.remaining > 1
  <2>1. /\ state'.kind = "data" /\ state'.total = total
        /\ state'.total - state'.remaining = came + 1
    BY <1>1, <1>2, <1>3, <1>7
  <2>2. OwedBytes' = IF total >= ChunkMin /\ came + 1 < ChunkMin
                     THEN ChunkMin - (came + 1) ELSE 0
    BY <2>1 DEF OwedBytes
  <2>3. HeaderSeen' = 0 /\ ~AtMemberBoundary'
    BY <2>1, NoHeaderAfter DEF AtHeader
  <2> HIDE DEF total, came
  <2>4. CASE OwedBytes > 1
    <3>1. OwedBytes' = OwedBytes - 1
      BY <1>5, <1>6, <2>2, <2>4
    <3>2. ~Heard.at /\ ~(Heard.header > 0) /\ Heard.owed = OwedBytes
      BY <1>4, HeardFields
    <3>3. Reports!PayloadBytes(ZipV1, Heard) = {Reports!Seen(FALSE, 0, OwedBytes - 1, FALSE, 0)}
      BY <2>4, <3>2, Zenon DEF Reports!PayloadBytes
    <3>4. Hears(Reports!Seen(FALSE, 0, OwedBytes - 1, FALSE, 0))
      BY <1>3, <2>3, <3>1, HearsIf
    <3> QED BY <1>3, <3>3, <3>4, ConsumeStep
  <2>5. CASE ~(OwedBytes > 1)
    <3>1. OwedBytes' = 0
      BY <1>5, <1>6, <2>2, <2>5
    <3> QED BY <1>3, <1>4, <2>3, <2>5, <3>1, RestHeard
  <2> QED BY <2>4, <2>5
<1>8. CASE ~(state.remaining > 1)
  <2>1. came + 1 = total
    BY <1>1, <1>8
  <2> HIDE DEF total, came
  <2>2. ~(OwedBytes > 1)
    BY <1>5, <1>6, <2>1
  <2> QED BY <1>2, <1>4, <1>8, <2>2, PlainHeard
<1> QED BY <1>7, <1>8

(***************************************************************************)
(* The bytes of headers.                                                   *)
(***************************************************************************)
LEMMA SignatureHeard ==
  ASSUME Inv, Measured, SignatureByte PROVE Reports!Next
<1>1. /\ GoOn(Signature(state.len + 1), 0, Silent) /\ state.kind = "signature" /\ state.len = 0
      /\ state = AtRecord /\ phase' = phase
  BY ConstantFacts DEF SignatureByte, Inv, Shape, AtRecord
<1>2. /\ state' = Signature(1) /\ report' = 0 /\ offset' = offset + 1 /\ begun' = offset
      /\ status = "walking" /\ status' = "walking"
  BY <1>1, Moves
<1>3. /\ state'.kind = "signature" /\ state' # AtRecord /\ OwedBytes' = 0 /\ ~(OwedBytes > 1)
  BY <1>1, <1>2, StateFields, NoHeader, NoHeaderAfter
<1>4. CASE phase = "members"
  <2>1. AtMemberBoundary /\ HeaderSeen = 0
    BY <1>1, <1>2, <1>4, HeaderMeasured
  <2>2. HeaderSeen' = 1 /\ ~AtMemberBoundary'
    BY <1>1, <1>2, <1>3, <1>4 DEF HeaderSeen, InHeader, AtMemberBoundary, Measured
  <2> QED BY <1>2, <1>3, <2>1, <2>2, ConstantFacts, HeaderHeard DEF HeaderMost
<1>5. CASE phase # "members"
  BY <1>1, <1>2, <1>3, <1>5, NoHeader, NoHeaderAfter, RestHeard
<1> QED BY <1>4, <1>5

(* Inside a member's header, a byte that completes nothing is counted.      *)
LEMMA CountedHeard ==
  ASSUME Inv, Measured, NEW next, NEW told, GoOn(next, 0, told),
         phase = "members", phase' = "members", ~AtMemberBoundary, HeaderSeen = offset - begun,
         HeaderSeen \in Nat, HeaderSeen > 0, HeaderSeen + 1 <= HeaderMost,
         next.kind \in {"fixed", "variable"}, next.record = "local"
  PROVE  Reports!Next
<1>1. /\ state' = next /\ report' = 0 /\ offset' = offset + 1 /\ begun' = begun
      /\ status = "walking" /\ status' = "walking"
  BY Moves DEF AtMemberBoundary
<1>2. HeaderSeen' = HeaderSeen + 1 /\ ~AtMemberBoundary' /\ OwedBytes' = 0
  BY <1>1, StateFields, NoHeaderAfter DEF HeaderSeen, InHeader, AtMemberBoundary, Measured
<1> QED BY <1>1, <1>2, HeaderHeard

LEMMA DispatchHeard ==
  ASSUME Inv, Measured, DispatchSignature PROVE Reports!Next
<1>1. PICK record \in Records :
        /\ GoOn(Fixed(record, 0), 0, Told("central", TellsDirectory(record)))
        /\ record = "local" => phase = "members" /\ phase' = "members"
  BY DEF DispatchSignature
<1>2. /\ state.kind = "signature" /\ state.len = 1 /\ state # AtRecord
  BY ConstantFacts, StateFields DEF DispatchSignature
<1>3. /\ state' = Fixed(record, 0) /\ report' = 0
      /\ status = "walking" /\ status' = "walking"
  BY <1>1, Moves
<1>4. Fixed(record, 0).kind = "fixed" /\ Fixed(record, 0).record = record
  BY StateFields
<1>5. CASE record = "local"
  <2>1. ~AtMemberBoundary /\ HeaderSeen = 1 /\ phase = "members" /\ phase' = "members"
    BY <1>1, <1>2, <1>3, <1>5, HeaderMeasured
  <2>2. HeaderSeen = offset - begun
    BY <1>2, <2>1 DEF HeaderSeen, InHeader
  <2>3. HeaderSeen \in Nat /\ HeaderSeen > 0 /\ HeaderSeen + 1 <= HeaderMost
    BY <2>1, ConstantFacts DEF HeaderMost
  <2> QED BY <1>1, <1>4, <1>5, <2>1, <2>2, <2>3, CountedHeard
<1>6. CASE record # "local" /\ phase = "members"
  <2>1. ~AtMemberBoundary /\ HeaderSeen = 1
    BY <1>2, <1>3, <1>6, HeaderMeasured
  <2>2. HeaderSeen' = 0 /\ OwedBytes' = 0
    BY <1>3, <1>4, <1>6, NoHeaderAfter DEF AtHeader
  <2>3. HeaderSeen \in Nat /\ HeaderSeen > 0 /\ HeaderSeen + 1 <= HeaderMost
    BY <2>1, ConstantFacts DEF HeaderMost
  <2> QED BY <1>3, <2>2, <2>3, HeaderHeard
<1>7. CASE record # "local" /\ phase # "members"
  <2>1. ~AtMemberBoundary /\ HeaderSeen = 0 /\ ~(OwedBytes > 1)
    BY <1>2, <1>7, NoHeader
  <2> QED BY <1>1, <1>4, <1>7, <2>1, PlainHeard
<1> QED BY <1>5, <1>6, <1>7

LEMMA FixedHeard ==
  ASSUME Inv, Measured, FixedByte PROVE Reports!Next
<1>1. /\ state.kind = "fixed" /\ state = Fixed(state.record, state.len)
      /\ state.len + 1 < FixedLen[state.record]
      /\ GoOn([state EXCEPT !.len = @ + 1], 0, Silent) /\ phase' = phase
  BY DEF FixedByte, Inv, Shape
<1> DEFINE next == [state EXCEPT !.len = @ + 1]
<1>2. next.kind = "fixed" /\ next.record = state.record
  BY <1>1 DEF Fixed
<1>3. GoOn(next, 0, Silent) /\ status = "walking"
  BY <1>1, Moves
<1> HIDE DEF next
<1>4. CASE state.record = "local"
  <2>1. phase = "members"
    BY <1>1, <1>4 DEF Inv, Order, AtHeader
  <2>2. ~AtMemberBoundary /\ HeaderSeen = SigLen + state.len
    BY <1>1, <1>3, <1>4, <2>1, HeaderMeasured
  <2>3. HeaderSeen = offset - begun
    BY <1>1, <1>4, <2>1, <2>2 DEF HeaderSeen, InHeader
  <2>4. state.len \in Nat
    BY <1>1, <1>3, <1>4, ConstantFacts DEF Measured
  <2>5. HeaderSeen \in Nat /\ HeaderSeen > 0 /\ HeaderSeen + 1 <= HeaderMost
    BY <1>1, <1>4, <2>2, <2>4, ConstantFacts DEF HeaderMost
  <2> QED BY <1>1, <1>2, <1>3, <1>4, <2>1, <2>2, <2>3, <2>5, CountedHeard
<1>5. CASE state.record # "local"
  <2>1. ~AtMemberBoundary /\ HeaderSeen = 0 /\ ~(OwedBytes > 1)
    BY <1>1, <1>5, NoHeader DEF AtHeader
  <2> QED BY <1>2, <1>3, <1>5, <2>1, PlainHeard
<1> QED BY <1>4, <1>5

LEMMA BeginVariableHeard ==
  ASSUME Inv, Measured, BeginVariable PROVE Reports!Next
<1>1. PICK record \in {"local", "central"}, total \in 1..MaxVariable :
        Completes(record) /\ GoOn(Variable(record, total, 0), 0, Silent)
  BY DEF BeginVariable
<1>2. /\ state.kind = "fixed" /\ state.record = record /\ state.len = FixedLen[record] - 1
      /\ phase' = phase /\ status = "walking"
      /\ Variable(record, total, 0).kind = "variable"
      /\ Variable(record, total, 0).record = record
  BY <1>1, StateFields, Moves DEF Completes, BeginVariable
<1>4. CASE record = "local"
  <2>1. phase = "members"
    BY <1>2, <1>4 DEF Inv, Order, AtHeader
  <2>2. ~AtMemberBoundary /\ HeaderSeen = SigLen + state.len
    BY <1>2, <1>4, <2>1, HeaderMeasured
  <2>3. HeaderSeen = offset - begun
    BY <1>2, <1>4, <2>1, <2>2 DEF HeaderSeen, InHeader
  <2>5. HeaderSeen \in Nat /\ HeaderSeen > 0 /\ HeaderSeen + 1 <= HeaderMost
    BY <1>2, <1>4, <2>2, ConstantFacts DEF HeaderMost
  <2> QED BY <1>1, <1>2, <1>4, <2>1, <2>2, <2>3, <2>5, CountedHeard
<1>5. CASE record # "local"
  <2>1. ~AtMemberBoundary /\ HeaderSeen = 0 /\ ~(OwedBytes > 1)
    BY <1>2, <1>5, NoHeader DEF AtHeader
  <2> QED BY <1>1, <1>2, <1>5, <2>1, PlainHeard
<1> QED BY <1>4, <1>5

LEMMA VariableHeard ==
  ASSUME Inv, Measured, VariableByte PROVE Reports!Next
<1>1. /\ state.kind = "variable" /\ state = Variable(state.record, state.total, state.len)
      /\ state.len + 1 < state.total
      /\ GoOn([state EXCEPT !.len = @ + 1], 0, Silent) /\ phase' = phase
  BY DEF VariableByte, Inv, Shape
<1> DEFINE next == [state EXCEPT !.len = @ + 1]
<1>2. next.kind = "variable" /\ next.record = state.record
  BY <1>1 DEF Variable
<1>3. GoOn(next, 0, Silent) /\ status = "walking"
  BY <1>1, Moves
<1> HIDE DEF next
<1>4. CASE state.record = "local"
  <2>1. phase = "members"
    BY <1>1, <1>4 DEF Inv, Order, AtHeader
  <2>2. ~AtMemberBoundary /\ HeaderSeen = SigLen + FixedLen["local"] + state.len
    BY <1>1, <1>3, <1>4, <2>1, HeaderMeasured
  <2>3. HeaderSeen = offset - begun
    BY <1>1, <1>4, <2>1, <2>2 DEF HeaderSeen, InHeader
  <2>4. state.len \in Nat /\ state.total \in 1..MaxVariable
    BY <1>1, <1>3, ConstantFacts DEF Measured
  <2>5. HeaderSeen \in Nat /\ HeaderSeen > 0 /\ HeaderSeen + 1 <= HeaderMost
    BY <1>1, <2>2, <2>4, ConstantFacts DEF HeaderMost
  <2> QED BY <1>1, <1>2, <1>3, <1>4, <2>1, <2>2, <2>3, <2>5, CountedHeard
<1>5. CASE state.record # "local"
  <2>1. ~AtMemberBoundary /\ HeaderSeen = 0 /\ ~(OwedBytes > 1)
    BY <1>1, <1>5, NoHeader DEF AtHeader
  <2> QED BY <1>2, <1>3, <1>5, <2>1, PlainHeard
<1> QED BY <1>4, <1>5

(* The byte that completes the header of a member.                          *)
LEMMA CompleteHeard ==
  ASSUME Inv, Measured, LocalComplete PROVE Reports!Next
<1>0. PICK total \in Totals("local") : \E next, reported, told :
        /\ GoOn(next, reported, told)
        /\ \/ reported = 0 /\ (next = AtRecord \/ next.kind = "scan")
           \/ \E n \in Nat \ {0} : \E u, m, d, z :
                /\ next = Data(n, n, u, m, d, z)
                /\ reported = IF n >= ChunkMin THEN HeaderLength(total) ELSE 0
  BY LocalLeads
<1>1. PICK next, reported, told :
        /\ GoOn(next, reported, told)
        /\ \/ reported = 0 /\ (next = AtRecord \/ next.kind = "scan")
           \/ \E n \in Nat \ {0} : \E u, m, d, z :
                /\ next = Data(n, n, u, m, d, z)
                /\ reported = IF n >= ChunkMin THEN HeaderLength(total) ELSE 0
  BY <1>0
<1>2. state' = next /\ report' = reported /\ status = "walking" /\ status' = "walking"
  BY <1>1, Moves
<1>3. AtHeader("local") /\ phase = "members"
  BY <1>0, TotalsAt DEF Inv, Order
<1>4. HeaderSeen + 1 = HeaderLength(total) /\ total \in 0..MaxVariable
      /\ HeaderSeen \in Nat /\ ~AtMemberBoundary
  <2>1. CASE Completes("local")
    <3>1. /\ state.kind = "fixed" /\ state.record = "local"
          /\ state.len = FixedLen["local"] - 1 /\ total = 0
      BY <1>0, <2>1, StateFields DEF Completes, Totals
    <3>2. HeaderSeen = SigLen + state.len /\ ~AtMemberBoundary
      BY <1>2, <1>3, <3>1, HeaderMeasured
    <3> QED BY <3>1, <3>2, ConstantFacts DEF HeaderLength
  <2>2. CASE ~Completes("local")
    <3>1. /\ state.kind = "variable" /\ state.record = "local"
          /\ state.len + 1 = state.total /\ total = state.total
      BY <1>0, <2>2 DEF Totals
    <3>2. HeaderSeen = SigLen + FixedLen["local"] + state.len /\ ~AtMemberBoundary
      BY <1>2, <1>3, <3>1, HeaderMeasured
    <3>3. state.len \in Nat /\ state.total \in 1..MaxVariable
      BY <1>2, <3>1, ConstantFacts DEF Measured
    <3> QED BY <3>1, <3>2, <3>3, ConstantFacts DEF HeaderLength
  <2> QED BY <2>1, <2>2
<1>5. HeaderSeen > 0 /\ HeaderSeen + 1 <= HeaderMost
  BY <1>4, ConstantFacts DEF HeaderLength, HeaderMost
<1>6. CASE reported = 0 /\ (next = AtRecord \/ next.kind = "scan")
  <2>1. HeaderSeen' = 0 /\ OwedBytes' = 0
    BY <1>2, <1>6, NoHeaderAfter, StateFields DEF AtHeader
  <2> QED BY <1>2, <1>4, <1>5, <1>6, <2>1, HeaderHeard
<1>7. CASE \E n \in Nat \ {0} : \E u, m, d, z :
             /\ next = Data(n, n, u, m, d, z)
             /\ reported = IF n >= ChunkMin THEN HeaderLength(total) ELSE 0
  <2>1. PICK n \in Nat \ {0} :
          /\ state'.kind = "data" /\ state'.total = n /\ state'.remaining = n
          /\ reported = IF n >= ChunkMin THEN HeaderLength(total) ELSE 0
    BY <1>2, <1>7 DEF Data
  <2>2. HeaderSeen' = 0 /\ ~AtMemberBoundary'
    BY <2>1, NoHeaderAfter DEF AtHeader
  <2>3. OwedBytes' = IF n >= ChunkMin THEN ChunkMin ELSE 0
    BY <2>1, ConstantFacts DEF OwedBytes
  <2> QED BY <1>2, <1>4, <1>5, <2>1, <2>2, <2>3, HeaderHeard
<1> QED BY <1>1, <1>6, <1>7

(***************************************************************************)
(* The refinement.                                                         *)
(***************************************************************************)
LEMMA StepHeard ==
  ASSUME Inv, Measured, [Next]_vars
  PROVE  Reports!Next \/ UNCHANGED <<Heard, report, status>>
<1>1. CASE SignatureByte \/ DispatchSignature \/ FixedByte \/ BeginVariable \/ VariableByte
  BY <1>1, SignatureHeard, DispatchHeard, FixedHeard, BeginVariableHeard, VariableHeard
<1>2. CASE LocalComplete \/ DataByte \/ Elsewhere
  BY <1>2, CompleteHeard, DataHeard, ElsewhereHeard
<1>3. CASE TrailingByte \/ SignatureRefused \/ LocalRefused \/ ScanRefused \/ Zip64EndRefused
  <2>1. \E told : Refuse(told)
    BY <1>3, Zenon DEF TrailingByte, SignatureRefused, LocalRefused, ScanRefused, Zip64EndRefused
  <2> QED BY <2>1, RefuseHeard
<1>4. CASE FinishTruncated
  BY <1>4 DEF FinishTruncated, Reports!Next, Reports!Fault
<1>5. CASE FinishOk
  <2>1. /\ status = "walking" /\ status' = "ended" /\ phase = "complete" /\ state = AtRecord
        /\ UNCHANGED <<state, phase, offset, begun, report>>
    BY <1>5 DEF FinishOk, EndsWell
  <2>2. Heard' = Heard
    BY <2>1 DEF Heard, InHeader, AtMemberBoundary
  <2>3. Heard.header = 0 /\ Heard.owed = 0
    BY <2>1, HeardFields, NoHeader, StateFields
  <2> QED BY <2>1, <2>2, <2>3 DEF Reports!Next, Reports!End
<1>6. CASE UNCHANGED vars
  BY <1>6 DEF vars, Heard, InHeader, AtMemberBoundary
<1> QED BY <1>1, <1>2, <1>3, <1>4, <1>5, <1>6 DEF Next, Elsewhere

(* For every layout of the records the walker reports members as the driver *)
(* relies on: a large one at the byte that completes its header, with the   *)
(* length of the whole header and its signature, and its data before the    *)
(* next boundary (chunker/zip/walker/dispatch.rs).                          *)
THEOREM MembersAreReported == Spec => ImplementsReports
<1>1. Init => Reports!Init
  <2> SUFFICES ASSUME Init PROVE Reports!Init
    OBVIOUS
  <2>1. state = AtRecord /\ state.kind = "signature" /\ phase = "members"
        /\ report = 0 /\ status = "walking"
    BY StateFields DEF Init
  <2>2. AtMemberBoundary = TRUE /\ HeaderSeen = 0 /\ OwedBytes = 0
    BY <2>1 DEF AtMemberBoundary, HeaderSeen, OwedBytes
  <2>3. Heard = Reports!NewWalker
    BY <2>2, HeardIs, Zenon DEF Reports!NewWalker
  <2> QED BY <2>1, <2>3 DEF Reports!Init
<1>2. Inv /\ Measured /\ [Next]_vars => [Reports!Next]_<<Heard, report, status>>
  BY StepHeard
<1> QED BY <1>1, <1>2, AlwaysMeasured, PTL DEF Spec, ImplementsReports, Reports!Spec
=============================================================================
