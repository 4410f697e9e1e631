------------------------------ MODULE TarReader ------------------------------
(***************************************************************************)
(* The TAR reader of the decomposer: TarWalker (decompose/tar.rs), which   *)
(* frames blocks, overrides, data and padding, and TarReader               *)
(* (decompose/decomposer.rs), which keeps a count of its own to tell where *)
(* a member ends.                                                          *)
(*                                                                         *)
(* What a header or an override says is chosen when its last byte is in.   *)
(* Paths, link targets, modes and times are left out, and of the pax       *)
(* records all but "size", which is the one that changes the framing.      *)
(***************************************************************************)
EXTENDS ReaderEvents

CONSTANTS
  Block,        \* BLOCK
  OverrideMax,  \* OVERRIDE_MAX
  MaxSize,      \* bound on a declared size
  MaxBytes      \* bound on the length of the archive

ASSUME TarAssumption ==
  /\ Block \in Nat \ {0} /\ OverrideMax \in Nat
  /\ MaxSize \in Nat /\ MaxBytes \in Nat

VARIABLES
  state,        \* Header, Data, OverrideData, FirstZero or Ended, with the
                \* bytes and the padding that remain and the override's kind
  block,        \* bytes of a header block collected
  buffer,       \* bytes of an override collected
  override,     \* the pending size override
  sawEntry,     \* whether an entry was seen
  offset,       \* bytes consumed
  left,         \* TarReader: what is left of the member in flight, and its
  size,         \* size
  ordinal,      \* TarReader: the next entry's ordinal
  events,       \* what the last byte made the reader report
  phase,        \* "reading", "ended" or "faulted"
  skewed        \* ghost: some padding was not that of the data before it

vars == <<state, block, buffer, override, sawEntry, offset, left, size, ordinal,
          events, phase, skewed>>

Overrides == {"PaxNext", "PaxGlobal", "GnuName", "GnuLink"}

State(kind, remaining, padding, what) ==
  [kind |-> kind, remaining |-> remaining, padding |-> padding, what |-> what]
Header == State("Header", 0, 0, "none")
FirstZero == State("FirstZero", 0, 0, "none")
Ended == State("Ended", 0, 0, "none")

Init ==
  /\ state = Header
  /\ block = 0 /\ buffer = 0
  /\ override = Undeclared
  /\ sawEntry = FALSE /\ offset = 0
  /\ left = Undeclared /\ size = 0 /\ ordinal = 0
  /\ events = <<>> /\ phase = "reading" /\ skewed = FALSE

Padding(n) == (Block - (n % Block)) % Block

Consumed(reported) ==
  /\ phase = "reading" /\ UNCHANGED phase
  /\ offset < MaxBytes /\ offset' = offset + 1
  /\ events' = reported

ReaderIdle == UNCHANGED <<left, size, ordinal>>

(***************************************************************************)
(* A complete header block: close_header.                                  *)
(***************************************************************************)
InHeader == state.kind \in {"Header", "FirstZero"}

\* begin_override: an empty override applies nothing.
BeginOverride ==
  \E n \in 0..MaxSize, what \in Overrides :
    /\ state' = IF n = 0 THEN Header
                ELSE State("OverrideData", n, Padding(n), what)
    /\ buffer' = 0
    /\ Consumed(<<>>) /\ ReaderIdle
    /\ UNCHANGED <<override, sawEntry, skewed>>

TakesOverride == override' = Undeclared

\* What build_entry makes of the size field: the override, if there is one.
EntrySize(field) == IF override.known THEN override.bytes ELSE field

\* A regular member: its size may be overridden, the padding is that of the
\* header's size field.
BeginMember ==
  \E field \in 0..MaxSize :
    LET n == EntrySize(field) IN
    /\ state' = IF n > 0 THEN State("Data", n, Padding(field), "none") ELSE Header
    /\ skewed' = (skewed \/ (n > 0 /\ Padding(n) # Padding(field)))
    /\ TakesOverride /\ sawEntry' = TRUE
    /\ ordinal' = ordinal + 1
    /\ Consumed(<<Start(ordinal, Declared(n))>>
                \o (IF n = 0 THEN <<End(0)>> ELSE <<>>))
    /\ IF n = 0 THEN UNCHANGED <<left, size>> ELSE left' = Declared(n) /\ size' = n
    /\ UNCHANGED buffer

\* A directory, link or device: its size field is zero.
MetadataEntry ==
  /\ state' = Header
  /\ TakesOverride /\ sawEntry' = TRUE
  /\ ordinal' = ordinal + 1
  /\ Consumed(<<Entry(ordinal)>>)
  /\ UNCHANGED <<left, size, buffer, skewed>>

ZeroBlock ==
  /\ state' = IF state = FirstZero THEN Ended ELSE FirstZero
  /\ Consumed(<<>>) /\ ReaderIdle
  /\ UNCHANGED <<buffer, override, sawEntry, skewed>>

BlockByte ==
  /\ InHeader /\ block + 1 < Block
  /\ block' = block + 1
  /\ Consumed(<<>>) /\ ReaderIdle
  /\ UNCHANGED <<state, buffer, override, sawEntry, skewed>>

CloseHeader ==
  /\ InHeader /\ block + 1 = Block
  /\ block' = 0
  /\ \/ ZeroBlock
     \/ state = Header /\ (BeginOverride \/ BeginMember \/ MetadataEntry)

(***************************************************************************)
(* Data, overrides and padding.                                            *)
(***************************************************************************)
\* Mutant: the padding is skipped.
CountedUnpadded ==
  IF state.remaining = 1 THEN Header ELSE [state EXCEPT !.remaining = @ - 1]

\* The state after one byte of data or of an override.
Counted ==
  IF state.remaining = 1 /\ state.padding = 0 THEN Header
  ELSE [state EXCEPT !.remaining = @ - 1]

\* Mutant: the reader ends a member one byte early.
LeftAfterEarly == IF left.bytes <= 2 THEN Undeclared ELSE Declared(left.bytes - 1)

\* The reader's own count after a byte of data.
LeftAfter == IF left.bytes = 1 THEN Undeclared ELSE Declared(left.bytes - 1)

DataByte ==
  /\ state.kind = "Data" /\ state.remaining > 0
  /\ state' = Counted
  /\ IF left.known
     THEN /\ left' = LeftAfter
          /\ Consumed(<<Data(1)>>
                      \o (IF LeftAfter.known THEN <<>> ELSE <<End(size)>>))
     ELSE UNCHANGED left /\ Consumed(<<Data(1)>>)
  /\ UNCHANGED <<size, ordinal, block, buffer, override, sawEntry, skewed>>

\* apply_override: only the pax records of the next header may carry a size.
ApplyOverride ==
  /\ buffer' = 0
  /\ IF state.what = "PaxNext"
     THEN override' \in {override} \cup {Declared(n) : n \in 0..MaxSize}
     ELSE UNCHANGED override

\* Mutant: the check lets one byte more in.
BufferFullLate == buffer > OverrideMax

BufferFull == buffer >= OverrideMax

OverrideByte ==
  /\ state.kind = "OverrideData" /\ state.remaining > 0 /\ ~BufferFull
  /\ state' = Counted
  /\ IF Counted = Header THEN ApplyOverride
     ELSE buffer' = buffer + 1 /\ UNCHANGED override
  /\ Consumed(<<>>) /\ ReaderIdle
  /\ UNCHANGED <<block, sawEntry, skewed>>

PaddingByte ==
  /\ state.kind \in {"Data", "OverrideData"} /\ state.remaining = 0
  /\ state' = IF state.padding = 1 THEN Header ELSE [state EXCEPT !.padding = @ - 1]
  /\ IF state.padding = 1 /\ state.kind = "OverrideData" THEN ApplyOverride
     ELSE UNCHANGED <<buffer, override>>
  /\ Consumed(<<>>) /\ ReaderIdle
  /\ UNCHANGED <<block, sawEntry, skewed>>

\* A zero byte behind the end marker.
TrailingByte ==
  /\ state = Ended
  /\ Consumed(<<>>) /\ ReaderIdle
  /\ UNCHANGED <<state, block, buffer, override, sawEntry, skewed>>

Refuse(moved) ==
  /\ phase = "reading" /\ phase' = "faulted"
  /\ offset' = offset + moved
  /\ events' = <<>> /\ ReaderIdle
  /\ UNCHANGED <<state, block, buffer, override, sawEntry, skewed>>

\* A header that is not one or that is behind a lone zero block, an override
\* that is too long or not well-formed, or a byte that should be zero.
RefuseByte ==
  /\ \/ InHeader /\ block + 1 = Block
     \/ /\ state.kind = "OverrideData" /\ state.remaining > 0
        /\ BufferFull \/ (Counted = Header /\ state.what = "PaxNext")
     \/ state.kind \in {"Data", "OverrideData"} /\ state.remaining = 0
     \/ state = Ended
  /\ offset < MaxBytes
  /\ Refuse(1)

(***************************************************************************)
(* The end of the input: finish of the walker, then of the reader.         *)
(***************************************************************************)
WalkerEnds == state = Ended \/ (InHeader /\ sawEntry /\ block = 0)

EndsWell == WalkerEnds /\ ~left.known

FinishOk ==
  /\ phase = "reading" /\ EndsWell
  /\ phase' = "ended" /\ events' = <<>>
  /\ UNCHANGED <<state, block, buffer, override, sawEntry, offset, left, size,
                 ordinal, skewed>>

FinishTruncated == ~EndsWell /\ Refuse(0)

Next ==
  \/ BlockByte \/ CloseHeader \/ DataByte \/ OverrideByte \/ PaddingByte
  \/ TrailingByte \/ RefuseByte \/ FinishOk \/ FinishTruncated

Spec == Init /\ [][Next]_vars

------------------------------------------------------------------------------
(***************************************************************************)
(* Properties.                                                             *)
(***************************************************************************)
(* The types of the variables; what is retained of a header block or of an  *)
(* override is bounded.                                                     *)
TypeOK ==
  /\ state \in [kind : {"Header", "Data", "OverrideData", "FirstZero", "Ended"},
                remaining : 0..MaxSize, padding : 0..Block,
                what : Overrides \cup {"none"}]
  /\ block \in 0..(Block - 1) /\ buffer \in 0..OverrideMax
  /\ override \in {Declared(n) : n \in 0..MaxSize} \cup {Undeclared}
  /\ sawEntry \in BOOLEAN /\ offset \in 0..MaxBytes
  /\ left \in {Declared(n) : n \in 1..MaxSize} \cup {Undeclared}
  /\ size \in 0..MaxSize /\ ordinal \in 0..MaxBytes
  /\ phase \in {"reading", "ended", "faulted"}
  /\ skewed \in BOOLEAN

(* The reader and the walker count the same member: the reader has one in   *)
(* flight exactly while the walker has data left of it, and they agree how  *)
(* much; so the walker never hands on a byte that belongs to no member.     *)
FramingAgrees ==
  left = IF state.kind = "Data" /\ state.remaining > 0 THEN Declared(state.remaining)
         ELSE Undeclared

(* Headers begin where blocks do, whatever came before: data, overrides,    *)
(* padding, entries without data; except behind a member whose size was     *)
(* overridden: close_header takes the padding from the header's size.       *)
OnlyOverridesSkew ==
  phase = "reading" /\ InHeader /\ ~skewed => (offset - block) % Block = 0

(***************************************************************************)
(* What the decomposer hears of it.                                        *)
(***************************************************************************)
Member ==
  IF left.known
  THEN [open |-> TRUE, size |-> Declared(size), got |-> size - left.bytes,
        ordinal |-> ordinal]
  ELSE Idle(ordinal)

Contract == INSTANCE ReaderContract WITH member <- Member

(* The reader keeps the contract of its events: ordinals count up, one      *)
(* member at a time, its bytes as announced and ended at the last, and no   *)
(* accepted end inside a member.                                            *)
KeepsContract == Contract!Spec
==============================================================================
