--------------------------- MODULE TarReaderProofs ---------------------------
(***************************************************************************)
(* Theorems about TarReader, for every block length, bound on overrides    *)
(* and archive: the types, that the walker and the reader around it count  *)
(* the same member, that headers begin where blocks do, and the contract   *)
(* with the decomposer.                                                    *)
(***************************************************************************)
EXTENDS TarReader, SequenceTheorems, WellFoundedInduction, TLAPS

States ==
  [kind : {"Header", "Data", "OverrideData", "FirstZero", "Ended"},
   remaining : 0..MaxSize, padding : 0..Block, what : Overrides \cup {"none"}]

Options == {Declared(n) : n \in 0..MaxSize} \cup {Undeclared}

\* A state with a payload has a byte of it, or of its padding, to come, which
\* keeps the counters from running below zero; and every ordinal took a byte.
Due ==
  /\ state.kind \in {"Data", "OverrideData"} => state.remaining > 0 \/ state.padding > 0
  /\ ordinal <= offset

Inv == TypeOK /\ FramingAgrees /\ Due

LEMMA ConstantFacts ==
  /\ Block \in Nat /\ Block >= 1 /\ OverrideMax \in Nat
  /\ MaxSize \in Nat /\ MaxBytes \in Nat
BY TarAssumption

LEMMA DeclaredFields ==
  /\ \A n : Declared(n).known = TRUE /\ Declared(n).bytes = n
  /\ Undeclared.known = FALSE
  /\ \A n : Declared(n) # Undeclared
  /\ \A m, n : Declared(m) = Declared(n) => m = n
BY DEF Declared, Undeclared

\* Padding fills a block and is shorter than one.
LEMMA PaddingShort ==
  ASSUME NEW n \in 0..MaxSize
  PROVE  Padding(n) \in 0..Block
<1>1. n % Block \in 0..(Block - 1)
  BY ConstantFacts
<1>2. Block - (n % Block) \in Nat
  BY <1>1, ConstantFacts
<1>3. (Block - (n % Block)) % Block \in 0..(Block - 1)
  BY <1>2, ConstantFacts
<1> QED BY <1>3, ConstantFacts DEF Padding

LEMMA StateFields ==
  ASSUME NEW kind, NEW remaining, NEW padding, NEW what
  PROVE  /\ State(kind, remaining, padding, what).kind = kind
         /\ State(kind, remaining, padding, what).remaining = remaining
         /\ State(kind, remaining, padding, what).padding = padding
         /\ State(kind, remaining, padding, what).what = what
BY DEF State

LEMMA IdleStates ==
  /\ Header \in States /\ FirstZero \in States /\ Ended \in States
  /\ Header.kind = "Header" /\ FirstZero.kind = "FirstZero" /\ Ended.kind = "Ended"
BY ConstantFacts DEF Header, FirstZero, Ended, State, States

\* The state after a counted byte: a step of the same payload, or a header.
LEMMA CountedStates ==
  ASSUME state \in States, state.kind \in {"Data", "OverrideData"},
         state.remaining > 0
  PROVE  /\ Counted \in States
         /\ \/ Counted = Header /\ state.remaining = 1
            \/ /\ Counted.kind = state.kind
               /\ Counted.remaining = state.remaining - 1
               /\ Counted.remaining > 0 \/ Counted.padding > 0
<1>1. CASE state.remaining = 1 /\ state.padding = 0
  BY <1>1, IdleStates DEF Counted
<1>2. CASE ~(state.remaining = 1 /\ state.padding = 0)
  <2>1. Counted = [state EXCEPT !.remaining = state.remaining - 1]
    BY <1>2 DEF Counted
  <2>2. state.remaining - 1 \in 0..MaxSize /\ state.padding \in 0..Block
    BY ConstantFacts DEF States
  <2>3. Counted \in States
    BY <2>1, <2>2 DEF States
  <2>4. /\ Counted.kind = state.kind /\ Counted.remaining = state.remaining - 1
        /\ Counted.padding = state.padding
    BY <2>1 DEF States
  <2> QED BY <1>2, <2>2, <2>3, <2>4, ConstantFacts DEF States
<1> QED BY <1>1, <1>2

LEMMA InitInv == Init => Inv
<1> SUFFICES ASSUME Init PROVE Inv
  OBVIOUS
<1>1. state \in States /\ FramingAgrees /\ Due
  BY IdleStates DEF Init, FramingAgrees, Due
<1>2. /\ block \in 0..(Block - 1) /\ buffer \in 0..OverrideMax /\ offset \in 0..MaxBytes
      /\ size \in 0..MaxSize /\ ordinal \in 0..MaxBytes
  BY ConstantFacts DEF Init
<1>3. /\ sawEntry \in BOOLEAN /\ skewed \in BOOLEAN
      /\ phase \in {"reading", "ended", "faulted"}
  BY DEF Init
<1>4. /\ override \in {Declared(n) : n \in 0..MaxSize} \cup {Undeclared}
      /\ left \in {Declared(n) : n \in 1..MaxSize} \cup {Undeclared}
  BY DEF Init
<1> QED BY <1>1, <1>2, <1>3, <1>4 DEF Inv, TypeOK, States

\* What every byte leaves well typed: the offset and the phase.
LEMMA ByteTyped ==
  ASSUME Inv, NEW reported, Consumed(reported)
  PROVE  /\ phase = "reading" /\ phase' = "reading"
         /\ offset \in Nat /\ offset' = offset + 1 /\ offset' \in 0..MaxBytes
         /\ ordinal \in Nat /\ ordinal <= offset
BY ConstantFacts DEF Inv, TypeOK, Due, Consumed

\* A byte that leaves the reader alone keeps the invariant if it leads from a
\* state without a member's data to such a state.
LEMMA FramingByte ==
  ASSUME Inv, Consumed(<<>>), ReaderIdle,
         ~(state.kind = "Data" /\ state.remaining > 0),
         state' \in States, ~(state'.kind = "Data" /\ state'.remaining > 0),
         state'.kind \in {"Data", "OverrideData"} =>
           state'.remaining > 0 \/ state'.padding > 0,
         block' \in 0..(Block - 1), buffer' \in 0..OverrideMax,
         override' \in Options, sawEntry' \in BOOLEAN, skewed' \in BOOLEAN
  PROVE  Inv'
<1>1. FramingAgrees'
  BY DEF Inv, FramingAgrees, ReaderIdle
<1>2. Due'
  BY ByteTyped DEF Due, ReaderIdle
<1>3. offset' \in 0..MaxBytes /\ phase' \in {"reading", "ended", "faulted"}
  BY ByteTyped
<1>4. /\ left' \in {Declared(n) : n \in 1..MaxSize} \cup {Undeclared}
      /\ size' \in 0..MaxSize /\ ordinal' \in 0..MaxBytes
  BY DEF Inv, TypeOK, ReaderIdle
<1> QED BY <1>1, <1>2, <1>3, <1>4 DEF Inv, TypeOK, States, Options

LEMMA BlockByteInv ==
  ASSUME Inv, BlockByte
  PROVE  Inv'
<1>1. /\ state' = state /\ state \in States /\ state.kind \in {"Header", "FirstZero"}
      /\ Consumed(<<>>) /\ ReaderIdle
  BY DEF BlockByte, Inv, TypeOK, InHeader, States
<1>2. block' \in 0..(Block - 1)
  BY ConstantFacts DEF BlockByte, Inv, TypeOK
<1>3. /\ buffer' \in 0..OverrideMax /\ override' \in Options
      /\ sawEntry' \in BOOLEAN /\ skewed' \in BOOLEAN
  BY DEF BlockByte, Inv, TypeOK, Options
<1> QED BY <1>1, <1>2, <1>3, FramingByte

LEMMA ZeroBlockInv ==
  ASSUME Inv, InHeader, block' = 0, ZeroBlock
  PROVE  Inv'
<1>1. /\ state' \in {FirstZero, Ended} /\ state.kind \in {"Header", "FirstZero"}
      /\ Consumed(<<>>) /\ ReaderIdle
  BY DEF ZeroBlock, InHeader
<1>2. /\ buffer' \in 0..OverrideMax /\ override' \in Options
      /\ sawEntry' \in BOOLEAN /\ skewed' \in BOOLEAN
  BY DEF ZeroBlock, Inv, TypeOK, Options
<1>3. block' \in 0..(Block - 1)
  BY ConstantFacts
<1> QED BY <1>1, <1>2, <1>3, IdleStates, FramingByte

LEMMA BeginOverrideInv ==
  ASSUME Inv, state = Header, block' = 0, BeginOverride
  PROVE  Inv'
<1>1. PICK n \in 0..MaxSize, what \in Overrides :
        /\ state' = IF n = 0 THEN Header
                    ELSE State("OverrideData", n, Padding(n), what)
        /\ buffer' = 0
        /\ Consumed(<<>>) /\ ReaderIdle
        /\ UNCHANGED <<override, sawEntry, skewed>>
  BY DEF BeginOverride
<1>2. /\ state' \in States /\ state'.kind # "Data"
      /\ state'.kind = "OverrideData" => state'.remaining > 0
  <2>1. CASE n = 0
    BY <2>1, <1>1, IdleStates
  <2>2. CASE n # 0
    BY <2>2, <1>1, PaddingShort, StateFields, ConstantFacts DEF State, States
  <2> QED BY <2>1, <2>2
<1>3. /\ buffer' \in 0..OverrideMax /\ block' \in 0..(Block - 1)
  BY <1>1, ConstantFacts
<1>4. override' \in Options /\ sawEntry' \in BOOLEAN /\ skewed' \in BOOLEAN
  BY <1>1 DEF Inv, TypeOK, Options
<1> QED BY <1>1, <1>2, <1>3, <1>4, IdleStates, FramingByte

\* A member begins: what the walker counts is what the reader counts.
LEMMA BeginMemberInv ==
  ASSUME Inv, state = Header, block' = 0, BeginMember
  PROVE  Inv'
<1>1. PICK field \in 0..MaxSize :
        LET n == EntrySize(field) IN
        /\ state' = IF n > 0 THEN State("Data", n, Padding(field), "none") ELSE Header
        /\ skewed' = (skewed \/ (n > 0 /\ Padding(n) # Padding(field)))
        /\ TakesOverride /\ sawEntry' = TRUE
        /\ ordinal' = ordinal + 1
        /\ Consumed(<<Start(ordinal, Declared(n))>>
                    \o (IF n = 0 THEN <<End(0)>> ELSE <<>>))
        /\ IF n = 0 THEN UNCHANGED <<left, size>> ELSE left' = Declared(n) /\ size' = n
        /\ UNCHANGED buffer
  BY DEF BeginMember
<1> DEFINE n == EntrySize(field)
<1>2. n \in 0..MaxSize
  BY DeclaredFields DEF EntrySize, Inv, TypeOK
<1>3. /\ offset' = offset + 1 /\ offset \in Nat /\ offset' \in 0..MaxBytes
      /\ phase' = "reading" /\ ordinal \in Nat /\ ordinal <= offset
  BY <1>1, ByteTyped
<1>4. /\ sawEntry' \in BOOLEAN /\ override' \in Options
      /\ buffer' \in 0..OverrideMax /\ block' \in 0..(Block - 1)
      /\ ordinal' \in 0..MaxBytes /\ ordinal' <= offset'
  BY <1>1, <1>3, ConstantFacts DEF TakesOverride, Options, Inv, TypeOK
<1>5. skewed' \in BOOLEAN
  <2>1. skewed' = (skewed \/ (n > 0 /\ Padding(n) # Padding(field)))
    BY <1>1
  <2> QED BY <2>1, Zenon DEF Inv, TypeOK
<1>6. /\ state' \in States /\ FramingAgrees'
      /\ state'.kind \in {"Data", "OverrideData"} => state'.remaining > 0
      /\ left' \in {Declared(m) : m \in 1..MaxSize} \cup {Undeclared}
      /\ size' \in 0..MaxSize
  <2>1. CASE n = 0
    <3>1. state' = Header /\ UNCHANGED <<left, size>>
      BY <2>1, <1>1
    <3>2. left = Undeclared
      BY IdleStates DEF Inv, FramingAgrees
    <3> QED BY <3>1, <3>2, IdleStates DEF FramingAgrees, Inv, TypeOK
  <2>2. CASE n > 0
    <3>1. /\ state' = State("Data", n, Padding(field), "none")
          /\ left' = Declared(n) /\ size' = n
      BY <2>2, <1>1, <1>2, ConstantFacts
    <3>2. state' \in States /\ state'.kind = "Data" /\ state'.remaining = n
      BY <3>1, <1>2, PaddingShort DEF State, States
    <3> QED BY <3>1, <3>2, <2>2, <1>2, ConstantFacts DEF FramingAgrees
  <2> QED BY <1>2, <2>1, <2>2, ConstantFacts
<1> QED BY <1>3, <1>4, <1>5, <1>6 DEF Inv, TypeOK, Due, States, Options

LEMMA MetadataEntryInv ==
  ASSUME Inv, state = Header, block' = 0, MetadataEntry
  PROVE  Inv'
<1>1. /\ offset' = offset + 1 /\ offset \in Nat /\ offset' \in 0..MaxBytes
      /\ phase' = "reading" /\ ordinal \in Nat /\ ordinal <= offset
  BY ByteTyped DEF MetadataEntry
<1>2. /\ sawEntry' \in BOOLEAN /\ skewed' \in BOOLEAN /\ override' \in Options
      /\ buffer' \in 0..OverrideMax /\ block' \in 0..(Block - 1)
      /\ ordinal' \in 0..MaxBytes /\ ordinal' <= offset'
  BY <1>1, ConstantFacts DEF MetadataEntry, TakesOverride, Options, Inv, TypeOK
<1>3. state' = Header /\ UNCHANGED <<left, size>> /\ left = Undeclared
  BY IdleStates DEF MetadataEntry, Inv, FramingAgrees
<1>4. FramingAgrees' /\ state' \in States
  BY <1>3, IdleStates DEF FramingAgrees
<1> QED BY <1>1, <1>2, <1>3, <1>4, IdleStates DEF Inv, TypeOK, Due, States, Options

\* The walker takes a byte off the member, and so does the reader.
LEMMA DataByteInv ==
  ASSUME Inv, DataByte
  PROVE  Inv'
<1>1. /\ state \in States /\ state.kind = "Data" /\ state.remaining > 0
      /\ state' = Counted
  BY DEF DataByte, Inv, TypeOK, States
<1>2. left = Declared(state.remaining) /\ left.known /\ left.bytes = state.remaining
  BY <1>1, DeclaredFields DEF Inv, FramingAgrees
<1>3. left' = LeftAfter
  BY <1>2 DEF DataByte
<1>4. /\ offset' = offset + 1 /\ offset \in Nat /\ offset' \in 0..MaxBytes
      /\ phase' = "reading" /\ ordinal \in Nat /\ ordinal <= offset
  BY ByteTyped DEF DataByte
<1>5. state.remaining \in 1..MaxSize
  BY <1>1, ConstantFacts DEF States
<1>6. /\ FramingAgrees' /\ state' \in States
      /\ state'.kind \in {"Data", "OverrideData"} =>
           state'.remaining > 0 \/ state'.padding > 0
      /\ left' \in {Declared(m) : m \in 1..MaxSize} \cup {Undeclared}
  <2>1. Counted \in States
    BY <1>1, CountedStates
  <2>2. CASE state.remaining = 1
    <3>1. left' = Undeclared
      BY <2>2, <1>2, <1>3 DEF LeftAfter
    <3>2. \/ Counted = Header
          \/ Counted.kind = "Data" /\ Counted.remaining = 0 /\ Counted.padding > 0
      BY <1>1, <2>2, CountedStates, ConstantFacts
    <3> QED BY <2>1, <3>1, <3>2, <1>1, IdleStates DEF FramingAgrees
  <2>3. CASE state.remaining # 1
    <3>1. left' = Declared(state.remaining - 1)
      BY <2>3, <1>2, <1>3 DEF LeftAfter
    <3>2. Counted.kind = "Data" /\ Counted.remaining = state.remaining - 1
      BY <1>1, <2>3, CountedStates
    <3>3. state.remaining - 1 \in 1..MaxSize /\ Counted.remaining > 0
      BY <2>3, <1>5, <3>2, ConstantFacts
    <3> QED BY <2>1, <3>1, <3>2, <3>3, <1>1 DEF FramingAgrees
  <2> QED BY <2>2, <2>3
<1>7. UNCHANGED <<size, ordinal, block, buffer, override, sawEntry, skewed>>
  BY DEF DataByte
<1>8. ordinal' <= offset'
  BY <1>4, <1>7
<1> QED BY <1>4, <1>6, <1>7, <1>8 DEF Inv, TypeOK, Due, States

LEMMA ApplyTyped ==
  ASSUME Inv, ApplyOverride
  PROVE  buffer' \in 0..OverrideMax /\ override' \in Options
BY ConstantFacts DEF ApplyOverride, Inv, TypeOK, Options

LEMMA OverrideByteInv ==
  ASSUME Inv, OverrideByte
  PROVE  Inv'
<1>1. /\ state \in States /\ state.kind = "OverrideData" /\ state.remaining > 0
      /\ state' = Counted /\ Consumed(<<>>) /\ ReaderIdle
      /\ UNCHANGED <<block, sawEntry, skewed>>
  BY DEF OverrideByte, Inv, TypeOK, States
<1>2. buffer' \in 0..OverrideMax /\ override' \in Options
  <2>1. CASE Counted = Header
    BY <2>1, ApplyTyped DEF OverrideByte
  <2>2. CASE Counted # Header
    BY <2>2, ConstantFacts DEF OverrideByte, BufferFull, Inv, TypeOK, Options
  <2> QED BY <2>1, <2>2
<1>3. /\ state' \in States /\ state'.kind # "Data"
      /\ state'.kind \in {"Data", "OverrideData"} =>
           state'.remaining > 0 \/ state'.padding > 0
  BY <1>1, CountedStates, IdleStates
<1>4. block' \in 0..(Block - 1) /\ sawEntry' \in BOOLEAN /\ skewed' \in BOOLEAN
  BY <1>1 DEF Inv, TypeOK
<1> QED BY <1>1, <1>2, <1>3, <1>4, FramingByte

LEMMA PaddingByteInv ==
  ASSUME Inv, PaddingByte
  PROVE  Inv'
<1>1. /\ state \in States /\ state.kind \in {"Data", "OverrideData"}
      /\ state.remaining = 0 /\ Consumed(<<>>) /\ ReaderIdle
      /\ UNCHANGED <<block, sawEntry, skewed>>
      /\ state' = IF state.padding = 1 THEN Header
                  ELSE [state EXCEPT !.padding = state.padding - 1]
  BY DEF PaddingByte, Inv, TypeOK, States
<1>2. state.padding \in 1..Block
  BY <1>1, ConstantFacts DEF Inv, Due, States
<1>3. buffer' \in 0..OverrideMax /\ override' \in Options
  <2>1. CASE state.padding = 1 /\ state.kind = "OverrideData"
    BY <2>1, ApplyTyped DEF PaddingByte
  <2>2. CASE ~(state.padding = 1 /\ state.kind = "OverrideData")
    BY <2>2 DEF PaddingByte, Inv, TypeOK, Options
  <2> QED BY <2>1, <2>2
<1>4. /\ state' \in States /\ ~(state'.kind = "Data" /\ state'.remaining > 0)
      /\ state'.kind \in {"Data", "OverrideData"} => state'.padding > 0
  <2>1. CASE state.padding = 1
    BY <2>1, <1>1, IdleStates
  <2>2. CASE state.padding # 1
    <3>1. state.padding - 1 \in 1..Block
      BY <2>2, <1>2, ConstantFacts
    <3>2. state' = [state EXCEPT !.padding = state.padding - 1]
      BY <2>2, <1>1
    <3> QED BY <3>1, <3>2, <1>1, ConstantFacts DEF States
  <2> QED BY <2>1, <2>2
<1>5. block' \in 0..(Block - 1) /\ sawEntry' \in BOOLEAN /\ skewed' \in BOOLEAN
  BY <1>1 DEF Inv, TypeOK
<1>6. state.kind = "Data" /\ state.remaining > 0 => FALSE
  BY <1>1
<1> QED BY <1>1, <1>3, <1>4, <1>5, <1>6, FramingByte

LEMMA TrailingByteInv ==
  ASSUME Inv, TrailingByte
  PROVE  Inv'
<1>1. /\ state' = Ended /\ state = Ended /\ Consumed(<<>>) /\ ReaderIdle
      /\ UNCHANGED <<block, buffer, override, sawEntry, skewed>>
  BY DEF TrailingByte
<1>2. /\ block' \in 0..(Block - 1) /\ buffer' \in 0..OverrideMax
      /\ override' \in Options /\ sawEntry' \in BOOLEAN /\ skewed' \in BOOLEAN
  BY <1>1 DEF Inv, TypeOK, Options
<1> QED BY <1>1, <1>2, IdleStates, FramingByte

LEMMA RefuseInv ==
  ASSUME Inv, NEW moved \in {0, 1}, offset + moved <= MaxBytes, Refuse(moved)
  PROVE  Inv'
<1>1. /\ offset \in Nat /\ ordinal \in Nat /\ ordinal <= offset
  BY DEF Inv, TypeOK, Due
<1>2. /\ offset' \in 0..MaxBytes /\ ordinal' <= offset'
      /\ phase' \in {"reading", "ended", "faulted"}
  BY <1>1, ConstantFacts DEF Refuse, ReaderIdle
<1>3. UNCHANGED <<state, block, buffer, override, sawEntry, skewed, left, size, ordinal>>
  BY DEF Refuse, ReaderIdle
<1> QED BY <1>2, <1>3 DEF Inv, TypeOK, FramingAgrees, Due

LEMMA NextInv == Inv /\ [Next]_vars => Inv'
<1> SUFFICES ASSUME Inv, [Next]_vars PROVE Inv'
  OBVIOUS
<1>1. CASE BlockByte
  BY <1>1, BlockByteInv
<1>2. CASE CloseHeader
  BY <1>2, ZeroBlockInv, BeginOverrideInv, BeginMemberInv, MetadataEntryInv
     DEF CloseHeader
<1>3. CASE DataByte
  BY <1>3, DataByteInv
<1>4. CASE OverrideByte
  BY <1>4, OverrideByteInv
<1>5. CASE PaddingByte
  BY <1>5, PaddingByteInv
<1>6. CASE TrailingByte
  BY <1>6, TrailingByteInv
<1>7. CASE RefuseByte \/ FinishTruncated
  <2>1. offset \in Nat /\ offset <= MaxBytes
    BY ConstantFacts DEF Inv, TypeOK
  <2>2. CASE RefuseByte
    <3>1. Refuse(1) /\ offset + 1 <= MaxBytes
      BY <2>1, <2>2, ConstantFacts DEF RefuseByte
    <3> QED BY <3>1, RefuseInv
  <2>3. CASE FinishTruncated
    <3>1. Refuse(0) /\ offset + 0 <= MaxBytes
      BY <2>1, <2>3 DEF FinishTruncated
    <3> QED BY <3>1, RefuseInv
  <2> QED BY <1>7, <2>2, <2>3
<1>8. CASE FinishOk
  BY <1>8 DEF FinishOk, Inv, TypeOK, FramingAgrees, Due
<1>9. CASE UNCHANGED vars
  BY <1>9 DEF vars, Inv, TypeOK, FramingAgrees, Due
<1> QED BY <1>1, <1>2, <1>3, <1>4, <1>5, <1>6, <1>7, <1>8, <1>9 DEF Next

LEMMA Invariance == Spec => []Inv
<1> QED BY InitInv, NextInv, PTL DEF Spec

(* What the walker retains is bounded and no counter runs below zero, for   *)
(* every block length and every archive.                                    *)
THEOREM TypeCorrect == Spec => []TypeOK
<1>1. Inv => TypeOK
  BY DEF Inv
<1> QED BY <1>1, Invariance, PTL

(* The walker and the reader around it count the same member, whatever its  *)
(* size was overridden to.                                                  *)
THEOREM ReaderCountsWithTheWalker == Spec => []FramingAgrees
<1>1. Inv => FramingAgrees
  BY DEF Inv
<1> QED BY <1>1, Invariance, PTL

(* Products, quotients and remainders.                                      *)
LEMMA MulMono ==
  ASSUME NEW b \in Nat \ {0}, NEW k \in Nat \ {0} PROVE b * k >= b
OBVIOUS

(* A quotient and a remainder.                                              *)
LEMMA DivMod ==
  ASSUME NEW b \in Nat \ {0}, NEW a \in Nat
  PROVE  /\ a \div b \in Nat /\ a % b \in 0..(b-1)
         /\ a = b * (a \div b) + (a % b)
OBVIOUS

(* A multiple leaves no remainder.                                          *)
LEMMA MultipleMod ==
  ASSUME NEW b \in Nat \ {0}, NEW k \in Nat
  PROVE (b * k) % b = 0
<1> DEFINE a == b * k
           q == a \div b
           r == a % b
<1>1. a \in Nat
  OBVIOUS
<1>2. q \in Nat /\ r \in 0..(b-1) /\ a = b * q + r
  BY <1>1, DivMod
<1>3. a = b * k OBVIOUS
<1> HIDE DEF a, q, r
<1>4. CASE k > q
  <2>1. PICK d \in Nat \ {0} : k = q + d
    <3>1. k - q \in Nat \ {0} /\ k = q + (k - q) BY <1>2, <1>4
    <3> QED BY <3>1
  <2>2. b * (q + d) = b * q + b * d  BY <1>2
  <2>3. b * d >= b /\ b * d \in Nat /\ b * q \in Nat BY MulMono, <1>2
  <2> QED BY <2>1, <2>2, <2>3, <1>2, <1>3
<1>5. CASE k < q
  <2>1. PICK d \in Nat \ {0} : q = k + d
    <3>1. q - k \in Nat \ {0} /\ q = k + (q - k) BY <1>2, <1>5
    <3> QED BY <3>1
  <2>2. b * (k + d) = b * k + b * d  BY <1>2
  <2>3. b * d >= b /\ b * d \in Nat /\ b * k \in Nat BY MulMono, <1>2
  <2> QED BY <2>1, <2>2, <2>3, <1>2, <1>3
<1>6. CASE k = q
  <2>1. b * k \in Nat OBVIOUS
  <2>2. r = 0  BY <2>1, <1>2, <1>3, <1>6
  <2> QED BY <2>2 DEF r, a
<1> QED BY <1>2, <1>4, <1>5, <1>6

(***************************************************************************)
(* Where blocks begin.                                                     *)
(***************************************************************************)
Aligned(n) == n % Block = 0

(* A position is aligned if it is so many blocks.                           *)
LEMMA AlignedBlocks ==
  ASSUME NEW n \in Nat
  PROVE  Aligned(n) <=> \E k \in Nat : n = Block * k
<1>1. ASSUME Aligned(n) PROVE \E k \in Nat : n = Block * k
  <2>1. n \div Block \in Nat /\ n = Block * (n \div Block) + (n % Block)
    BY ConstantFacts, DivMod
  <2>2. Block * (n \div Block) \in Nat
    BY <2>1, ConstantFacts
  <2>3. n = Block * (n \div Block)
    BY <1>1, <2>1, <2>2 DEF Aligned
  <2> QED BY <2>1, <2>3
<1>2. ASSUME NEW k \in Nat, n = Block * k PROVE Aligned(n)
  BY <1>2, ConstantFacts, MultipleMod DEF Aligned
<1> QED BY <1>1, <1>2

(* Whole blocks behind whole blocks.                                        *)
LEMMA AlignedSum ==
  ASSUME NEW m \in Nat, NEW n \in Nat, Aligned(m), Aligned(n)
  PROVE  Aligned(m + n)
<1>1. PICK k \in Nat : m = Block * k
  BY AlignedBlocks
<1>2. PICK l \in Nat : n = Block * l
  BY AlignedBlocks
<1>3. m + n = Block * (k + l) /\ k + l \in Nat /\ m + n \in Nat
  BY <1>1, <1>2, ConstantFacts
<1> QED BY <1>3, AlignedBlocks

(* No block and one block are whole blocks.                                 *)
LEMMA OneBlock == Aligned(0) /\ Aligned(Block)
<1>1. Block * 0 = 0 /\ Block * 1 = Block
  BY ConstantFacts
<1> QED BY <1>1, AlignedBlocks, ConstantFacts

(* The padding of a payload fills its last block.                           *)
LEMMA PaddingFills ==
  ASSUME NEW n \in Nat
  PROVE  Padding(n) \in 0..(Block - 1) /\ Aligned(n + Padding(n))
<1> DEFINE q == n \div Block
           r == n % Block
<1>b. Block \in Nat \ {0}
  BY TarAssumption
<1>1. q \in Nat /\ r \in 0..(Block - 1) /\ n = Block * q + r /\ Block * q \in Nat
  <2>1. q \in Nat /\ r \in 0..(Block - 1) /\ n = Block * q + r
    BY <1>b, DivMod
  <2> HIDE DEF q, r
  <2> QED BY <2>1, <1>b
<1>p. Padding(n) = (Block - r) % Block
  BY DEF Padding
<1> HIDE DEF q, r
<1>2. CASE r = 0
  <2>1. Padding(n) = 0
    <3>1. Block - r = Block
      BY <1>2, ConstantFacts
    <3> QED BY <1>p, <3>1, OneBlock DEF Aligned
  <2>2. n + Padding(n) = Block * q
    BY <1>1, <1>2, <2>1
  <2>3. Aligned(Block * q)
    BY <1>1, AlignedBlocks
  <2> QED BY <2>1, <2>2, <2>3, ConstantFacts
<1>3. CASE r > 0
  <2> DEFINE s == Block - r
  <2>1. s \in 0..(Block - 1) /\ s \in Nat
    BY <1>1, <1>3, ConstantFacts
  <2>2. /\ s \div Block \in Nat /\ s % Block \in 0..(Block - 1)
        /\ s = Block * (s \div Block) + (s % Block)
    BY <2>1, <1>b, DivMod
  <2>3. s \div Block = 0
    <3>1. CASE s \div Block # 0
      <4>1. \A k \in Nat \ {0} : Block * k >= Block
        BY <1>b, MulMono
      <4>2. Block * (s \div Block) >= Block
        BY <3>1, <2>2, <4>1
      <4> QED BY <4>2, <2>1, <2>2, <1>b
    <3> QED BY <3>1
  <2>4. Padding(n) = s
    <3>1. Block * 0 = 0
      BY ConstantFacts
    <3> QED BY <3>1, <2>1, <2>2, <2>3, <1>p
  <2>5. n + Padding(n) = Block * q + Block
    BY <2>4, <1>1, ConstantFacts
  <2>6. Aligned(Block * q)
    BY <1>1, AlignedBlocks
  <2>7. Aligned(Block * q + Block)
    BY <2>6, <1>1, OneBlock, AlignedSum, ConstantFacts
  <2> QED BY <2>1, <2>4, <2>5, <2>7
<1> QED BY <1>1, <1>2, <1>3

(* Headers begin where blocks do, and so do the payloads and what pads them,*)
(* while no padding was another's.                                          *)
AtBlocks ==
  phase = "reading" =>
    /\ block <= offset /\ (~InHeader => block = 0)
    /\ ~skewed =>
         /\ InHeader => Aligned(offset - block)
         /\ state.kind \in {"Data", "OverrideData"} =>
              Aligned(offset + state.remaining + state.padding)

\* A byte of a payload: what is counted and the bytes consumed move together.
LEMMA CountedAtBlocks ==
  ASSUME Inv, AtBlocks, NEW reported, Consumed(reported), UNCHANGED <<block, skewed>>,
         state.kind \in {"Data", "OverrideData"}, state.remaining > 0, state' = Counted
  PROVE  AtBlocks'
<1>1. /\ state \in States /\ phase = "reading" /\ phase' = "reading"
      /\ offset \in Nat /\ offset' = offset + 1 /\ block = 0 /\ block' = 0
  BY ByteTyped DEF Inv, TypeOK, States, AtBlocks, InHeader
<1>2. state.remaining \in Nat /\ state.padding \in Nat
  BY <1>1, ConstantFacts DEF States
<1>3. ~skewed => Aligned(offset + state.remaining + state.padding)
  BY <1>1 DEF AtBlocks
<1>4. CASE state.remaining = 1 /\ state.padding = 0
  <2>1. state' = Header
    BY <1>4 DEF Counted
  <2>2. offset + state.remaining + state.padding = offset' - block'
    BY <1>1, <1>2, <1>4
  <2>3. block' <= offset' /\ InHeader'
    BY <1>1, <2>1, IdleStates DEF InHeader
  <2> QED BY <1>1, <1>3, <2>1, <2>2, <2>3, IdleStates DEF AtBlocks
<1>5. CASE ~(state.remaining = 1 /\ state.padding = 0)
  <2>1. state' = [state EXCEPT !.remaining = state.remaining - 1]
    BY <1>5 DEF Counted
  <2>2. /\ state'.kind = state.kind /\ state'.remaining = state.remaining - 1
        /\ state'.padding = state.padding
    BY <1>1, <2>1 DEF States
  <2>3. offset + state.remaining + state.padding
          = offset' + state'.remaining + state'.padding
    BY <1>1, <1>2, <2>2
  <2>4. block' <= offset' /\ ~InHeader'
    BY <1>1, <2>2 DEF InHeader
  <2> QED BY <1>1, <1>3, <2>2, <2>3, <2>4 DEF AtBlocks
<1> QED BY <1>4, <1>5

\* A byte of padding.
LEMMA PaddingAtBlocks ==
  ASSUME Inv, AtBlocks, PaddingByte
  PROVE  AtBlocks'
<1>1. /\ state \in States /\ state.kind \in {"Data", "OverrideData"}
      /\ state.remaining = 0 /\ Consumed(<<>>) /\ UNCHANGED <<block, skewed>>
      /\ state' = IF state.padding = 1 THEN Header
                  ELSE [state EXCEPT !.padding = state.padding - 1]
  BY DEF PaddingByte, Inv, TypeOK, States
<1>2. /\ phase = "reading" /\ phase' = "reading"
      /\ offset \in Nat /\ offset' = offset + 1 /\ block = 0 /\ block' = 0
  BY <1>1, ByteTyped DEF AtBlocks, InHeader
<1>3. state.padding \in 1..Block
  BY <1>1, ConstantFacts DEF Inv, Due, States
<1>4. ~skewed => Aligned(offset + state.remaining + state.padding)
  BY <1>1, <1>2 DEF AtBlocks
<1>5. CASE state.padding = 1
  <2>1. state' = Header
    BY <1>1, <1>5
  <2>2. offset + state.remaining + state.padding = offset' - block'
    BY <1>1, <1>2, <1>5
  <2>3. block' <= offset' /\ InHeader'
    BY <1>2, <2>1, IdleStates DEF InHeader
  <2> QED BY <1>1, <1>2, <1>4, <2>1, <2>2, <2>3, IdleStates DEF AtBlocks
<1>6. CASE state.padding # 1
  <2>1. state' = [state EXCEPT !.padding = state.padding - 1]
    BY <1>1, <1>6
  <2>2. /\ state'.kind = state.kind /\ state'.remaining = 0
        /\ state'.padding = state.padding - 1
    BY <1>1, <2>1 DEF States
  <2>3. offset + state.remaining + state.padding
          = offset' + state'.remaining + state'.padding
    BY <1>1, <1>2, <1>3, <2>2
  <2>4. block' <= offset' /\ ~InHeader'
    BY <1>1, <1>2, <2>2 DEF InHeader
  <2> QED BY <1>1, <1>2, <1>4, <2>2, <2>3, <2>4 DEF AtBlocks
<1> QED BY <1>5, <1>6

\* The last byte of a header: what follows begins where a block does.
LEMMA HeaderEnds ==
  ASSUME Inv, AtBlocks, NEW reported, Consumed(reported), InHeader,
         block + 1 = Block, block' = 0
  PROVE  /\ phase = "reading" /\ offset' \in Nat /\ block' <= offset'
         /\ ~skewed => Aligned(offset') /\ Aligned(offset' - block')
<1>1. /\ phase = "reading" /\ offset \in Nat /\ offset' = offset + 1
      /\ block <= offset /\ block \in Nat
  BY ByteTyped, ConstantFacts DEF Inv, TypeOK, AtBlocks
<1>2. ASSUME ~skewed PROVE Aligned(offset')
  <2>1. Aligned(offset - block)
    BY <1>1, <1>2 DEF AtBlocks
  <2>2. \E m \in Nat : m = offset - block
    BY <1>1
  <2>3. PICK m \in Nat : m = offset - block
    BY <2>2
  <2>4. Aligned(m + Block)
    BY <2>1, <2>3, OneBlock, AlignedSum, ConstantFacts
  <2>5. offset' = m + Block
    BY <1>1, <2>3, ConstantFacts
  <2> QED BY <2>4, <2>5
<1>3. offset' \in Nat /\ offset' - block' = offset' /\ block' <= offset'
  BY <1>1
<1> QED BY <1>1, <1>2, <1>3

\* A payload of `n` bytes with its own padding ends where a block does.
LEMMA PayloadAtBlocks ==
  ASSUME NEW kind \in {"Data", "OverrideData"}, NEW n \in Nat, NEW what,
         state' = State(kind, n, Padding(n), what), offset' \in Nat, Aligned(offset')
  PROVE  /\ ~InHeader'
         /\ Aligned(offset' + state'.remaining + state'.padding)
<1>1. state'.kind = kind /\ state'.remaining = n /\ state'.padding = Padding(n)
  BY StateFields
<1>2. PICK at \in Nat : at = offset'
  OBVIOUS
<1>3. Padding(n) \in Nat /\ Aligned(n + Padding(n))
  BY PaddingFills, ConstantFacts
<1>4. PICK p \in Nat : p = Padding(n)
  BY <1>3
<1>5. Aligned(at + (n + p))
  BY <1>2, <1>3, <1>4, AlignedSum
<1>6. at + (n + p) = (at + n) + p
  BY <1>2, <1>4
<1> QED BY <1>1, <1>2, <1>4, <1>5, <1>6 DEF InHeader

\* The last byte of a header, whatever it turns out to be.
LEMMA CloseHeaderAtBlocks ==
  ASSUME Inv, AtBlocks, CloseHeader
  PROVE  AtBlocks'
<1>1. InHeader /\ block + 1 = Block /\ block' = 0
  BY DEF CloseHeader
<1>2. CASE ZeroBlock
  <2>1. Consumed(<<>>) /\ state' \in {FirstZero, Ended} /\ skewed' = skewed
    BY <1>2 DEF ZeroBlock
  <2> QED BY <1>1, <2>1, HeaderEnds, IdleStates DEF AtBlocks, InHeader
<1>3. CASE BeginOverride
  <2>1. PICK n \in 0..MaxSize, what \in Overrides :
          /\ state' = IF n = 0 THEN Header
                      ELSE State("OverrideData", n, Padding(n), what)
          /\ Consumed(<<>>) /\ skewed' = skewed
    BY <1>3 DEF BeginOverride
  <2>2. CASE n = 0
    <3>1. state' = Header
      BY <2>1, <2>2
    <3> QED BY <1>1, <2>1, <3>1, HeaderEnds, IdleStates DEF AtBlocks, InHeader
  <2>3. CASE n # 0
    <3>1. state' = State("OverrideData", n, Padding(n), what) /\ n \in Nat
      BY <2>1, <2>3, ConstantFacts
    <3>2. /\ block' <= offset' /\ offset' \in Nat
          /\ ~skewed => Aligned(offset')
      BY <1>1, <2>1, HeaderEnds
    <3>3. state'.kind = "OverrideData"
      BY <3>1, StateFields
    <3>4. ASSUME ~skewed
          PROVE  Aligned(offset' + state'.remaining + state'.padding)
      <4>1. Aligned(offset') /\ offset' \in Nat
        BY <3>2, <3>4
      <4>2. "OverrideData" \in {"Data", "OverrideData"}
        OBVIOUS
      <4> QED BY <3>1, <4>1, <4>2, PayloadAtBlocks
    <3>5. ~InHeader'
      BY <3>3 DEF InHeader
    <3> QED BY <1>1, <2>1, <3>2, <3>4, <3>5 DEF AtBlocks
  <2> QED BY <2>2, <2>3
<1>4. CASE BeginMember
  <2>1. PICK field \in 0..MaxSize :
          LET n == EntrySize(field) IN
          /\ state' = IF n > 0 THEN State("Data", n, Padding(field), "none") ELSE Header
          /\ skewed' = (skewed \/ (n > 0 /\ Padding(n) # Padding(field)))
          /\ Consumed(<<Start(ordinal, Declared(n))>>
                      \o (IF n = 0 THEN <<End(0)>> ELSE <<>>))
    BY <1>4 DEF BeginMember
  <2> DEFINE n == EntrySize(field)
  <2>2. n \in Nat
    BY DeclaredFields, ConstantFacts DEF EntrySize, Inv, TypeOK
  <2>3. /\ block' <= offset' /\ offset' \in Nat
        /\ ~skewed => Aligned(offset') /\ Aligned(offset' - block')
    BY <1>1, <2>1, HeaderEnds
  <2>4. ~skewed' => ~skewed /\ (n > 0 => Padding(n) = Padding(field))
    BY <2>1
  <2>5. CASE n = 0
    <3>1. state' = Header
      BY <2>1, <2>5
    <3> QED BY <1>1, <2>3, <2>4, <3>1, IdleStates DEF AtBlocks, InHeader
  <2>6. CASE n > 0
    <3>1. state' = State("Data", n, Padding(field), "none")
      BY <2>1, <2>6
    <3>2. state'.kind = "Data"
      BY <3>1, StateFields
    <3>3. ~skewed' => state' = State("Data", n, Padding(n), "none") /\ Aligned(offset')
      BY <2>3, <2>4, <2>6, <3>1
    <3>4. ~skewed' => Aligned(offset' + state'.remaining + state'.padding)
      <4> HIDE DEF n
      <4> QED BY <2>2, <2>3, <3>3, PayloadAtBlocks
    <3> QED BY <1>1, <2>3, <3>2, <3>4 DEF AtBlocks, InHeader
  <2> QED BY <2>2, <2>5, <2>6
<1>5. CASE MetadataEntry
  <2>1. Consumed(<<Entry(ordinal)>>) /\ state' = Header /\ skewed' = skewed
    BY <1>5 DEF MetadataEntry
  <2> QED BY <1>1, <2>1, HeaderEnds, IdleStates DEF AtBlocks, InHeader
<1> QED BY <1>2, <1>3, <1>4, <1>5 DEF CloseHeader

\* The invariant holds at first,
LEMMA AtBlocksInit == Init => AtBlocks
<1> SUFFICES ASSUME Init PROVE AtBlocks
  OBVIOUS
<1>1. state = Header /\ block = 0 /\ offset = 0 /\ offset - block = 0
  BY DEF Init
<1>2. InHeader /\ block <= offset
  BY <1>1, IdleStates DEF InHeader
<1> QED BY <1>1, <1>2, OneBlock, IdleStates DEF AtBlocks

\* and every step keeps it.
LEMMA AtBlocksNext == Inv /\ AtBlocks /\ [Next]_vars => AtBlocks'
<1> SUFFICES ASSUME Inv, AtBlocks, [Next]_vars PROVE AtBlocks'
  OBVIOUS
<1>1. CASE BlockByte
  <2>1. /\ state' = state /\ InHeader /\ InHeader' /\ phase = "reading" /\ skewed' = skewed
        /\ block' = block + 1 /\ offset' = offset + 1
    BY <1>1, ByteTyped DEF BlockByte, InHeader
  <2>2. block \in Nat /\ offset \in Nat
    BY ConstantFacts DEF Inv, TypeOK
  <2>3. block <= offset
    BY <2>1 DEF AtBlocks
  <2>4. offset' - block' = offset - block /\ block' <= offset'
    BY <2>1, <2>2, <2>3
  <2> QED BY <2>1, <2>4 DEF AtBlocks, InHeader
<1>2. CASE CloseHeader
  BY <1>2, CloseHeaderAtBlocks
<1>3. CASE DataByte
  <2>1. PICK reported : Consumed(reported)
    BY <1>3 DEF DataByte
  <2> QED BY <1>3, <2>1, CountedAtBlocks DEF DataByte
<1>4. CASE OverrideByte
  BY <1>4, CountedAtBlocks DEF OverrideByte
<1>5. CASE PaddingByte
  BY <1>5, PaddingAtBlocks
<1>6. CASE TrailingByte
  <2>1. /\ state' = state /\ state = Ended /\ phase = "reading" /\ skewed' = skewed
        /\ block' = block /\ offset' = offset + 1
    BY <1>6, ByteTyped DEF TrailingByte
  <2>2. block \in Nat /\ offset \in Nat
    BY ConstantFacts DEF Inv, TypeOK
  <2>3. block <= offset /\ block = 0
    BY <2>1, IdleStates DEF AtBlocks, InHeader
  <2>4. block' <= offset'
    BY <2>1, <2>2, <2>3
  <2> QED BY <2>1, <2>3, <2>4, IdleStates DEF AtBlocks, InHeader
<1>7. CASE RefuseByte \/ FinishTruncated \/ FinishOk
  <2>1. phase' # "reading"
    BY <1>7 DEF RefuseByte, FinishTruncated, FinishOk, Refuse
  <2> QED BY <2>1 DEF AtBlocks
<1>8. CASE UNCHANGED vars
  BY <1>8 DEF vars, AtBlocks, InHeader
<1> QED BY <1>1, <1>2, <1>3, <1>4, <1>5, <1>6, <1>7, <1>8 DEF Next

(* Headers begin where blocks do, for every block length and archive, until *)
(* an overridden size has taken the padding of the header's.                *)
THEOREM HeadersAtBlocks == Spec => []OnlyOverridesSkew
<1>1. AtBlocks => OnlyOverridesSkew
  BY DEF AtBlocks, OnlyOverridesSkew, Aligned
<1>2. Spec => []AtBlocks
  BY AtBlocksInit, AtBlocksNext, Invariance, PTL DEF Spec
<1> QED BY <1>1, <1>2, PTL

(***************************************************************************)
(* What the decomposer hears.                                              *)
(***************************************************************************)
(* Every non-empty set of numbers has a least one.                          *)
LEMMA LeastNat ==
  ASSUME NEW T \in SUBSET Nat, T # {}
  PROVE  \E x \in T : \A y \in T : x <= y
<1> DEFINE R == OpToRel(<, Nat)
<1>1. IsWellFoundedOn(R, Nat)
  BY NatLessThanWellFounded
<1>2. \A x, y \in Nat : x < y => <<x, y>> \in R
  BY DEF OpToRel
<1> HIDE DEF R
<1>3. PICK x \in T : \A y \in T : ~ (<<y, x>> \in R)
  BY <1>1, WFMin
<1>4. ASSUME NEW y \in T PROVE x <= y
  <2>1. x \in Nat /\ y \in Nat /\ ~(y < x)
    BY <1>2, <1>3
  <2> QED BY <2>1
<1> QED BY <1>4

\* A function that follows the members around the first `n` events.
Follows(f, n, m, batch) ==
  f = [i \in 0..n |-> IF i = 0 THEN m ELSE After(f[i - 1], batch[i])]

(* There is one for every number of events.                                 *)
LEMMA FollowersExist ==
  ASSUME NEW m, NEW batch
  PROVE  \A n \in Nat : \E f : Follows(f, n, m, batch)
<1> DEFINE T == {n \in Nat : ~\E f : Follows(f, n, m, batch)}
<1>1. SUFFICES ASSUME T # {} PROVE FALSE
  OBVIOUS
<1>2. PICK n \in T : \A k \in T : n <= k
  <2>1. T \in SUBSET Nat
    OBVIOUS
  <2> HIDE DEF T
  <2> QED BY <2>1, <1>1, LeastNat
<1>3. n \in Nat /\ ~\E f : Follows(f, n, m, batch)
  OBVIOUS
<1>4. CASE n = 0
  <2> DEFINE f == [i \in 0..0 |-> m]
  <2>1. f = [i \in 0..0 |-> IF i = 0 THEN m ELSE After(f[i - 1], batch[i])]
    OBVIOUS
  <2>2. Follows(f, n, m, batch)
    BY <2>1, <1>4 DEF Follows
  <2> QED BY <2>2, <1>3
<1>5. CASE n # 0
  <2>1. n - 1 \in Nat /\ ~(n <= n - 1)
    BY <1>3, <1>5
  <2>2. PICK f : Follows(f, n - 1, m, batch)
    BY <2>1, <1>2
  <2> DEFINE g == [i \in 0..n |-> IF i = n THEN After(f[n - 1], batch[n]) ELSE f[i]]
  <2>3. ASSUME NEW i \in 0..n
        PROVE  g[i] = IF i = 0 THEN m ELSE After(g[i - 1], batch[i])
    <3>1. f = [j \in 0..n - 1 |-> IF j = 0 THEN m ELSE After(f[j - 1], batch[j])]
      BY <2>2 DEF Follows
    <3>2. CASE i = n
      <4>1. g[i] = After(f[n - 1], batch[n])
        BY <3>2
      <4>2. n - 1 \in 0..n /\ n - 1 # n
        BY <1>3, <1>5
      <4>3. g[n - 1] = f[n - 1]
        BY <4>2
      <4> QED BY <4>1, <4>3, <3>2, <1>5
    <3>3. CASE i # n
      <4>1. i \in 0..n - 1
        BY <3>3, <1>3
      <4>2. g[i] = f[i]
        BY <3>3
      <4>3. f[i] = IF i = 0 THEN m ELSE After(f[i - 1], batch[i])
        BY <3>1, <4>1
      <4>4. CASE i = 0
        BY <4>2, <4>3, <4>4
      <4>5. CASE i # 0
        <5>1. i - 1 \in 0..n /\ i - 1 # n
          BY <4>1, <4>5, <1>3
        <5>2. g[i - 1] = f[i - 1]
          BY <5>1
        <5> QED BY <4>2, <4>3, <4>5, <5>2
      <4> QED BY <4>4, <4>5
    <3> QED BY <3>2, <3>3
  <2>4. g = [i \in 0..n |-> IF i = 0 THEN m ELSE After(g[i - 1], batch[i])]
    <3>1. \A i \in 0..n :
            g[i] = [j \in 0..n |-> IF j = 0 THEN m ELSE After(g[j - 1], batch[j])][i]
      BY <2>3
    <3>2. g = [i \in 0..n |-> g[i]]
      OBVIOUS
    <3> HIDE DEF g
    <3> QED BY <3>1, <3>2
  <2>5. Follows(g, n, m, batch)
    BY <2>4 DEF Follows
  <2> QED BY <2>5, <1>3
<1> QED BY <1>4, <1>5

(* The members around the events of a batch, one event after the other.     *)
LEMMA AlongSteps ==
  ASSUME NEW m, NEW batch, Len(batch) \in Nat
  PROVE  /\ Along(m, batch)[0] = m
         /\ \A i \in 1..Len(batch) :
              Along(m, batch)[i] = After(Along(m, batch)[i - 1], batch[i])
<1> DEFINE a == Along(m, batch)
<1>1. \E f : f = [i \in 0..Len(batch) |->
                    IF i = 0 THEN m ELSE After(f[i - 1], batch[i])]
  <2>1. \A n \in Nat : \E f : Follows(f, n, m, batch)
    BY FollowersExist
  <2>2. PICK f : Follows(f, Len(batch), m, batch)
    BY <2>1
  <2> QED BY <2>2 DEF Follows
<1>2. a = [i \in 0..Len(batch) |-> IF i = 0 THEN m ELSE After(a[i - 1], batch[i])]
  BY <1>1 DEF Along
<1> HIDE DEF a
<1>3. a[0] = m
  BY <1>2
<1>4. ASSUME NEW i \in 1..Len(batch) PROVE a[i] = After(a[i - 1], batch[i])
  <2>1. i \in 0..Len(batch) /\ i # 0
    OBVIOUS
  <2> QED BY <1>2, <2>1
<1> QED BY <1>3, <1>4 DEF a

(* The contract speaks of the same events.                                  *)
LEMMA ContractEvents ==
  /\ \A m, batch : Contract!Along(m, batch) = Along(m, batch)
  /\ \A m, event : Contract!Admits(m, event) <=> Admits(m, event)
  /\ \A n : Contract!Idle(n) = Idle(n)
BY DEF Contract!Along, Along, Contract!After, After, Contract!Idle, Idle,
       Contract!Admits, Admits, Contract!Undeclared, Undeclared

\* A call that reports nothing,
LEMMA NothingHeard ==
  ASSUME phase = "reading", phase' \in {"reading", "ended"}, events' = <<>>,
         Member' = Member, phase' = "ended" => ~Member.open
  PROVE  Contract!Next
<1>1. Contract!Along(Member, <<>>)[0] = Member
  BY AlongSteps, ContractEvents
<1> HIDE DEF Member
<1> QED BY <1>1 DEF Contract!Next, Contract!Report

\* one event,
LEMMA OneHeard ==
  ASSUME phase = "reading", phase' = "reading", NEW e, events' = <<e>>,
         Admits(Member, e), Member' = After(Member, e)
  PROVE  Contract!Next
<1>1. /\ Contract!Along(Member, <<e>>)[0] = Member
      /\ Contract!Along(Member, <<e>>)[1] = After(Member, e)
  <2>1. Len(<<e>>) = 1 /\ 1 \in 1..Len(<<e>>) /\ <<e>>[1] = e /\ 1 - 1 = 0
    OBVIOUS
  <2>2. /\ Along(Member, <<e>>)[0] = Member
        /\ Along(Member, <<e>>)[1] = After(Along(Member, <<e>>)[0], e)
    BY <2>1, AlongSteps
  <2> QED BY <2>2, ContractEvents
<1>2. Contract!Admits(Member, e)
  BY ContractEvents
<1>3. DOMAIN <<e>> = {1} /\ Len(<<e>>) = 1 /\ <<e>>[1] = e /\ 1 - 1 = 0
  OBVIOUS
<1> QED BY <1>1, <1>2, <1>3 DEF Contract!Next, Contract!Report

\* or two of them.
LEMMA TwoHeard ==
  ASSUME phase = "reading", phase' = "reading", NEW d, NEW e, events' = <<d, e>>,
         Admits(Member, d), Admits(After(Member, d), e),
         Member' = After(After(Member, d), e)
  PROVE  Contract!Next
<1>1. /\ Contract!Along(Member, <<d, e>>)[0] = Member
      /\ Contract!Along(Member, <<d, e>>)[1] = After(Member, d)
      /\ Contract!Along(Member, <<d, e>>)[2] = After(After(Member, d), e)
  <2>1. /\ Len(<<d, e>>) = 2 /\ 1 \in 1..Len(<<d, e>>) /\ 2 \in 1..Len(<<d, e>>)
        /\ <<d, e>>[1] = d /\ <<d, e>>[2] = e /\ 1 - 1 = 0 /\ 2 - 1 = 1
    OBVIOUS
  <2>2. /\ Along(Member, <<d, e>>)[0] = Member
        /\ Along(Member, <<d, e>>)[1] = After(Along(Member, <<d, e>>)[0], d)
        /\ Along(Member, <<d, e>>)[2] = After(Along(Member, <<d, e>>)[1], e)
    BY <2>1, AlongSteps
  <2> QED BY <2>2, ContractEvents
<1>2. Contract!Admits(Member, d) /\ Contract!Admits(After(Member, d), e)
  BY ContractEvents
<1>3. /\ DOMAIN <<d, e>> = {1, 2} /\ Len(<<d, e>>) = 2
      /\ <<d, e>>[1] = d /\ <<d, e>>[2] = e /\ 1 - 1 = 0 /\ 2 - 1 = 1
  OBVIOUS
<1> QED BY <1>1, <1>2, <1>3 DEF Contract!Next, Contract!Report

(* Two sequences of one.                                                    *)
LEMMA TwoInARow ==
  ASSUME NEW d, NEW e
  PROVE  <<d>> \o <<e>> = <<d, e>>
<1> DEFINE S == {d, e}
           p == <<d>> \o <<e>>
           q == <<d, e>>
<1>1. <<d>> \in Seq(S) /\ <<e>> \in Seq(S) /\ Len(<<d>>) = 1 /\ Len(<<e>>) = 1
  OBVIOUS
<1>2. q \in Seq(S) /\ Len(q) = 2 /\ q[1] = d /\ q[2] = e
  OBVIOUS
<1>3. p \in Seq(S) /\ Len(p) = 2 /\ p[1] = d /\ p[2] = e
  BY <1>1, ConcatProperties
<1> HIDE DEF p, q, S
<1>4. \A i \in 1..Len(p) : p[i] = q[i]
  BY <1>2, <1>3
<1> QED BY <1>2, <1>3, <1>4, SeqEqual DEF p, q

\* A member under way: its announced size and what was reported of it.
Under(n, got, next) == [open |-> TRUE, size |-> Declared(n), got |-> got, ordinal |-> next]

(* How a member moves, and which events it takes.                           *)
LEMMA MemberMoves ==
  /\ \A n : ~Idle(n).open /\ Idle(n).ordinal = n
  /\ \A n, got, next : Under(n, got, next).open
  /\ \A o : /\ Admits(Idle(o), Entry(o)) /\ After(Idle(o), Entry(o)) = Idle(o + 1)
            /\ \A n : /\ Admits(Idle(o), Start(o, Declared(n)))
                      /\ After(Idle(o), Start(o, Declared(n))) = Under(n, 0, o + 1)
  /\ \A n, got, next \in Int :
       /\ got < n => Admits(Under(n, got, next), Data(1))
       /\ After(Under(n, got, next), Data(1)) = Under(n, got + 1, next)
  /\ \A n, next \in Int : /\ Admits(Under(n, n, next), End(n))
                          /\ After(Under(n, n, next), End(n)) = Idle(next)
<1>1. \A n : ~Idle(n).open /\ Idle(n).ordinal = n
  BY DEF Idle
<1>2. \A n, got, next : Under(n, got, next).open
  BY DEF Under
<1>3. ASSUME NEW o
      PROVE  /\ Admits(Idle(o), Entry(o)) /\ After(Idle(o), Entry(o)) = Idle(o + 1)
             /\ \A n : /\ Admits(Idle(o), Start(o, Declared(n)))
                       /\ After(Idle(o), Start(o, Declared(n))) = Under(n, 0, o + 1)
  BY DEF Idle, Entry, Start, Admits, After, Under
<1>4. ASSUME NEW n \in Int, NEW got \in Int, NEW next \in Int
      PROVE  /\ got < n => Admits(Under(n, got, next), Data(1))
             /\ After(Under(n, got, next), Data(1)) = Under(n, got + 1, next)
  <2>1. got < n => Admits(Under(n, got, next), Data(1))
    BY DEF Under, Admits, Data, Declared
  <2>2. After(Under(n, got, next), Data(1)) = Under(n, got + 1, next)
    BY DEF Under, After, Data
  <2> QED BY <2>1, <2>2
<1>5. ASSUME NEW n \in Int, NEW next \in Int
      PROVE  /\ Admits(Under(n, n, next), End(n))
             /\ After(Under(n, n, next), End(n)) = Idle(next)
  <2>1. Admits(Under(n, n, next), End(n))
    BY DEF Under, Admits, End, Declared
  <2>2. After(Under(n, n, next), End(n)) = Idle(next)
    BY DEF Under, After, End
  <2> QED BY <2>1, <2>2
<1> QED BY <1>1, <1>2, <1>3, <1>4, <1>5

\* What the decomposer sees of a member is what the reader counts.
LEMMA MemberSeen ==
  /\ ~left.known => Member = Idle(ordinal)
  /\ left.known => Member = Under(size, size - left.bytes, ordinal)
BY DEF Member, Under

\* A member is announced, and ended at once if it is empty.
LEMMA BeginMemberHeard ==
  ASSUME Inv, state = Header, BeginMember
  PROVE  Contract!Next
<1>1. PICK field \in 0..MaxSize :
        LET n == EntrySize(field) IN
        /\ ordinal' = ordinal + 1
        /\ Consumed(<<Start(ordinal, Declared(n))>>
                    \o (IF n = 0 THEN <<End(0)>> ELSE <<>>))
        /\ IF n = 0 THEN UNCHANGED <<left, size>> ELSE left' = Declared(n) /\ size' = n
  BY DEF BeginMember
<1> DEFINE n == EntrySize(field)
<1>2. n \in 0..MaxSize /\ n \in Int
  BY DeclaredFields, ConstantFacts DEF EntrySize, Inv, TypeOK
<1>3. left = Undeclared /\ ~left.known
  BY IdleStates, DeclaredFields DEF Inv, FramingAgrees
<1>4. /\ phase = "reading" /\ phase' = "reading"
      /\ events' = <<Start(ordinal, Declared(n))>>
                     \o (IF n = 0 THEN <<End(0)>> ELSE <<>>)
  BY <1>1 DEF Consumed
<1>5. Member = Idle(ordinal) /\ ordinal \in Int /\ ordinal + 1 \in Int
  BY <1>3, MemberSeen, ConstantFacts DEF Inv, TypeOK
<1>6. CASE n = 0
  <2>1. events' = <<Start(ordinal, Declared(0)), End(0)>>
    <3> HIDE DEF n
    <3>1. \A d, e : <<d>> \o <<e>> = <<d, e>>
      BY TwoInARow
    <3> QED BY <1>4, <1>6, <3>1
  <2>2. left' = left /\ size' = size
    BY <1>1, <1>6
  <2>3. Member' = Idle(ordinal + 1)
    BY <1>1, <1>3, <2>2 DEF Member
  <2>4. /\ Admits(Idle(ordinal), Start(ordinal, Declared(0)))
        /\ After(Idle(ordinal), Start(ordinal, Declared(0))) = Under(0, 0, ordinal + 1)
        /\ Admits(Under(0, 0, ordinal + 1), End(0))
        /\ After(Under(0, 0, ordinal + 1), End(0)) = Idle(ordinal + 1)
    <3>1. \A next \in Int : /\ Admits(Under(0, 0, next), End(0))
                            /\ After(Under(0, 0, next), End(0)) = Idle(next)
      <4>1. \A k, next \in Int : /\ Admits(Under(k, k, next), End(k))
                                /\ After(Under(k, k, next), End(k)) = Idle(next)
        BY MemberMoves, Zenon
      <4>2. 0 \in Int
        OBVIOUS
      <4> QED BY <4>1, <4>2, Zenon
    <3>2. \A o : /\ Admits(Idle(o), Start(o, Declared(0)))
                 /\ After(Idle(o), Start(o, Declared(0))) = Under(0, 0, o + 1)
      BY MemberMoves, Zenon
    <3> HIDE DEF n
    <3> QED BY <1>5, <3>1, <3>2
  <2> QED BY <1>4, <1>5, <2>1, <2>3, <2>4, TwoHeard
<1>7. CASE n # 0
  <2>1. events' = <<Start(ordinal, Declared(n))>>
    <3> HIDE DEF n
    <3>1. \A e : <<e>> \o <<>> = <<e>>
      OBVIOUS
    <3> QED BY <1>4, <1>7, <3>1
  <2>2. left' = Declared(n) /\ size' = n /\ ordinal' = ordinal + 1
    BY <1>1, <1>7
  <2>3. Member' = Under(n, 0, ordinal + 1)
    <3> HIDE DEF n
    <3>1. n - n = 0
      BY <1>2
    <3> QED BY <2>2, <3>1, DeclaredFields DEF Member, Under
  <2>4. /\ Admits(Idle(ordinal), Start(ordinal, Declared(n)))
        /\ After(Idle(ordinal), Start(ordinal, Declared(n))) = Under(n, 0, ordinal + 1)
    BY MemberMoves
  <2> HIDE DEF n
  <2> QED BY <1>4, <1>5, <2>1, <2>3, <2>4, OneHeard
<1> QED BY <1>6, <1>7

\* A byte of the member in flight, with its end behind the last.
LEMMA DataByteHeard ==
  ASSUME Inv, DataByte
  PROVE  Contract!Next
<1>1. /\ state.remaining \in 1..MaxSize /\ left = Declared(state.remaining)
      /\ left.known /\ left.bytes = state.remaining
  BY DeclaredFields, ConstantFacts DEF DataByte, Inv, FramingAgrees, TypeOK
<1>2. /\ left' = LeftAfter /\ phase = "reading" /\ phase' = "reading"
      /\ events' = <<Data(1)>> \o (IF LeftAfter.known THEN <<>> ELSE <<End(size)>>)
      /\ size' = size /\ ordinal' = ordinal
  BY <1>1 DEF DataByte, Consumed
<1>3. size \in Int /\ ordinal \in Int /\ left.bytes \in Int /\ left.bytes >= 1
  BY <1>1, ConstantFacts DEF Inv, TypeOK
<1> DEFINE got == size - left.bytes
<1>4. /\ Member = Under(size, got, ordinal) /\ got \in Int /\ got < size
      /\ got + 1 \in Int
  BY <1>1, <1>3, MemberSeen
<1>5. /\ Admits(Under(size, got, ordinal), Data(1))
      /\ After(Under(size, got, ordinal), Data(1)) = Under(size, got + 1, ordinal)
  <2> HIDE DEF got
  <2> QED BY <1>3, <1>4, MemberMoves
<1>6. CASE left.bytes = 1
  <2>1. LeftAfter = Undeclared
    BY <1>6 DEF LeftAfter
  <2>2. events' = <<Data(1), End(size)>>
    <3>1. \A d, e : <<d>> \o <<e>> = <<d, e>>
      BY TwoInARow
    <3> QED BY <1>2, <2>1, <3>1, DeclaredFields
  <2>3. Member' = Idle(ordinal)
    BY <1>2, <2>1, DeclaredFields DEF Member
  <2>4. got + 1 = size
    BY <1>3, <1>6
  <2>5. /\ Admits(Under(size, size, ordinal), End(size))
        /\ After(Under(size, size, ordinal), End(size)) = Idle(ordinal)
    BY <1>3, MemberMoves
  <2> HIDE DEF got
  <2> QED BY <1>2, <1>4, <1>5, <2>2, <2>3, <2>4, <2>5, TwoHeard
<1>7. CASE left.bytes # 1
  <2>1. LeftAfter = Declared(left.bytes - 1)
    BY <1>7 DEF LeftAfter
  <2>2. events' = <<Data(1)>>
    <3>1. \A e : <<e>> \o <<>> = <<e>>
      OBVIOUS
    <3> QED BY <1>2, <2>1, <3>1, DeclaredFields
  <2>3. Member' = Under(size, got + 1, ordinal)
    <3>1. size - (left.bytes - 1) = got + 1
      BY <1>3
    <3>2. left'.known /\ left'.bytes = left.bytes - 1
      BY <1>2, <2>1, DeclaredFields
    <3> HIDE DEF got
    <3> QED BY <1>2, <3>1, <3>2 DEF Member, Under
  <2> HIDE DEF got
  <2> QED BY <1>2, <1>4, <1>5, <2>2, <2>3, OneHeard
<1> QED BY <1>6, <1>7

\* A byte that is nothing of a member.
LEMMA QuietByte ==
  ASSUME Consumed(<<>>), ReaderIdle
  PROVE  Contract!Next
<1>1. phase = "reading" /\ phase' = "reading" /\ events' = <<>>
  BY DEF Consumed
<1>2. Member' = Member
  BY DEF ReaderIdle, Member
<1> HIDE DEF Member
<1> QED BY <1>1, <1>2, NothingHeard

\* A refusal.
LEMMA RefusalHeard ==
  ASSUME NEW moved, Refuse(moved)
  PROVE  Contract!Next
<1>1. Member' = Member
  BY DEF Refuse, ReaderIdle, Member
<1> HIDE DEF Member
<1> QED BY <1>1 DEF Refuse, Contract!Next, Contract!Fault

\* Every step is one the contract provides for.
LEMMA StepsHeard ==
  Inv /\ [Next]_vars => [Contract!Next]_<<events, Member, phase>>
<1> SUFFICES ASSUME Inv, [Next]_vars
             PROVE  Contract!Next \/ UNCHANGED <<events, Member, phase>>
  OBVIOUS
<1>1. CASE BlockByte \/ OverrideByte \/ PaddingByte \/ TrailingByte
  BY <1>1, QuietByte DEF BlockByte, OverrideByte, PaddingByte, TrailingByte
<1>2. CASE CloseHeader
  <2>1. CASE ZeroBlock \/ BeginOverride
    BY <2>1, QuietByte DEF ZeroBlock, BeginOverride
  <2>2. CASE state = Header /\ BeginMember
    BY <2>2, BeginMemberHeard
  <2>3. CASE state = Header /\ MetadataEntry
    <3>1. left = Undeclared /\ ~left.known
      BY <2>3, IdleStates, DeclaredFields DEF Inv, FramingAgrees
    <3>2. /\ phase = "reading" /\ phase' = "reading" /\ events' = <<Entry(ordinal)>>
          /\ left' = left /\ ordinal' = ordinal + 1
      BY <2>3 DEF MetadataEntry, Consumed
    <3>3. Member = Idle(ordinal) /\ Member' = Idle(ordinal + 1)
      BY <3>1, <3>2 DEF Member
    <3> HIDE DEF Member
    <3> QED BY <3>2, <3>3, MemberMoves, OneHeard
  <2> QED BY <1>2, <2>1, <2>2, <2>3 DEF CloseHeader
<1>3. CASE DataByte
  BY <1>3, DataByteHeard
<1>4. CASE RefuseByte
  BY <1>4, RefusalHeard DEF RefuseByte
<1>5. CASE FinishTruncated
  BY <1>5, RefusalHeard DEF FinishTruncated
<1>6. CASE FinishOk
  <2>1. /\ phase = "reading" /\ phase' = "ended" /\ events' = <<>>
        /\ ~left.known /\ UNCHANGED <<left, size, ordinal>>
    BY <1>6 DEF FinishOk, EndsWell
  <2>2. Member' = Member /\ ~Member.open
    BY <2>1, MemberMoves DEF Member
  <2> HIDE DEF Member
  <2> QED BY <2>1, <2>2, NothingHeard
<1>7. CASE UNCHANGED vars
  BY <1>7 DEF vars, Member
<1> QED BY <1>1, <1>2, <1>3, <1>4, <1>5, <1>6, <1>7 DEF Next

(* The reader keeps the contract of its events, for every block length,     *)
(* size and archive.                                                        *)
THEOREM ReaderKeepsItsContract == Spec => KeepsContract
<1>1. Init => Contract!Init
  BY ContractEvents, DeclaredFields DEF Init, Contract!Init, Member
<1> QED BY <1>1, StepsHeard, Invariance, PTL DEF Spec, KeepsContract, Contract!Spec
==============================================================================
