------------------------- MODULE IsobmffWalkerProofs -------------------------
(***************************************************************************)
(* The box walker, for every header layout, depth, chunk minimum and       *)
(* stream: the counters of the open containers tell the truth, an accepted *)
(* payload runs to its end, an accepted stream ends where its boxes say,   *)
(* and the driver hears of boxes only what it relies on.                   *)
(***************************************************************************)
EXTENDS IsobmffWalker, SequenceTheorems, WellFoundedInduction, TLAPS

\* What a container that ends at `e` has left when `at` bytes are consumed.
Left(e, at) == IF e.known THEN Known(e.bytes - at) ELSE ToEnd

\* An extent lies inside another.
Within(inner, outer) ==
  inner.known /\ (outer.known => inner.bytes <= outer.bytes)

\* Containers and their extents after `at` bytes.
Nested(stack, extents, at) ==
  /\ stack \in Seq(Sizes(MaxSize))
  /\ extents \in Seq(Sizes(MaxBytes + MaxSize))
  /\ Len(extents) = Len(stack) /\ Len(stack) <= MaxDepth
  /\ \A i \in 1..Len(stack) : stack[i] = Left(extents[i], at)
  /\ \A i, j \in 1..Len(stack) : i < j => Within(extents[j], extents[i])

\* A payload of `n` bytes fits in every container.
Fits(extents, at, n) ==
  \A i \in 1..Len(extents) :
    extents[i].known => at + n <= extents[i].bytes

(* The fields of a size.                                                    *)
LEMMA SizeFields ==
  /\ \A n : Known(n).known = TRUE /\ Known(n).bytes = n
  /\ ToEnd.known = FALSE /\ ToEnd.bytes = 0
  /\ \A limit \in Nat : \A s \in Sizes(limit) :
       /\ s.known \in BOOLEAN /\ s.bytes \in 0..limit
       /\ s = IF s.known THEN Known(s.bytes) ELSE ToEnd
  /\ \A limit \in Nat : \A n \in 0..limit : Known(n) \in Sizes(limit)
  /\ \A limit : ToEnd \in Sizes(limit)
<1>1. \A n : Known(n).known = TRUE /\ Known(n).bytes = n
  BY DEF Known
<1>2. ToEnd.known = FALSE /\ ToEnd.bytes = 0
  BY DEF ToEnd
<1>3. ASSUME NEW limit \in Nat, NEW s \in Sizes(limit)
      PROVE  /\ s.known \in BOOLEAN /\ s.bytes \in 0..limit
             /\ s = IF s.known THEN Known(s.bytes) ELSE ToEnd
  <2>1. CASE s = ToEnd
    <3>1. s.known = FALSE /\ s.bytes = 0 /\ 0 \in 0..limit
      BY <1>2, <2>1
    <3> QED BY <2>1, <3>1, Zenon
  <2>2. ASSUME NEW n \in 0..limit, s = Known(n)
        PROVE  /\ s.known \in BOOLEAN /\ s.bytes \in 0..limit
               /\ s = IF s.known THEN Known(s.bytes) ELSE ToEnd
    <3>1. s.known = TRUE /\ s.bytes = n
      BY <1>1, <2>2
    <3> QED BY <2>2, <3>1, Zenon
  <2> QED BY <2>1, <2>2 DEF Sizes
<1>4. \A limit \in Nat : \A n \in 0..limit : Known(n) \in Sizes(limit)
  BY DEF Sizes
<1>5. \A limit : ToEnd \in Sizes(limit)
  BY DEF Sizes
<1> QED BY <1>1, <1>2, <1>3, <1>4, <1>5

(* Every non-empty set of numbers has a least one.                          *)
LEMMA LeastNat ==
  ASSUME NEW T \in SUBSET Nat, T # {}
  PROVE  \E x \in T : \A y \in T : x <= y
<1> DEFINE R == OpToRel(<, Nat)
<1>1. IsWellFoundedOn(R, Nat)
  BY NatLessThanWellFounded
<1>2. \A x, y \in Nat : x < y => <<x, y>> \in R
  BY DEF OpToRel
<1> HIDE DEF R
<1>3. PICK x \in T : \A y \in T : ~ (<<y, x>> \in R)
  BY <1>1, WFMin
<1>4. ASSUME NEW y \in T PROVE x <= y
  <2>1. x \in Nat /\ y \in Nat /\ ~(y < x)
    BY <1>2, <1>3
  <2> QED BY <2>1
<1> QED BY <1>4

(* The loop that pops exhausted containers stops, and where.                *)
LEMMA LiveStops ==
  ASSUME NEW S, NEW stack \in Seq(S)
  PROVE  /\ Live(stack) \in 0..Len(stack)
         /\ \A i \in Live(stack)+1..Len(stack) : stack[i] = Known(0)
         /\ Live(stack) > 0 => stack[Live(stack)] # Known(0)
<1> DEFINE Gone(n) == \A i \in n+1..Len(stack) : stack[i] = Known(0)
           T == {n \in 0..Len(stack) : Gone(n)}
<1>1. Len(stack) \in Nat
  BY LenProperties
<1>2. T \in SUBSET Nat /\ Len(stack) \in T
  BY <1>1
<1>3. PICK n \in T : \A m \in T : n <= m
  <2> HIDE DEF T
  <2> QED BY <1>2, LeastNat
<1>4. n > 0 => stack[n] # Known(0)
  <2> SUFFICES ASSUME n > 0, stack[n] = Known(0) PROVE FALSE
    OBVIOUS
  <2>1. n - 1 \in 0..Len(stack) /\ n \in 1..Len(stack)
    BY <1>1, <1>2
  <2>2. Gone(n - 1)
    <3> SUFFICES ASSUME NEW i \in n..Len(stack) PROVE stack[i] = Known(0)
      BY <2>1
    <3>1. i = n \/ i \in n+1..Len(stack)
      BY <2>1, <1>1
    <3> QED BY <3>1
  <2>3. n - 1 \in T /\ n \in Int
    BY <2>1, <2>2
  <2>4. n <= n - 1
    BY <1>3, <2>3
  <2> QED BY <2>3, <2>4
<1>5. \E k \in 0..Len(stack) :
        /\ \A i \in k+1..Len(stack) : stack[i] = Known(0)
        /\ k > 0 => stack[k] # Known(0)
  BY <1>4
<1> QED BY <1>5 DEF Live

(* Charging a byte keeps every container's account.                         *)
LEMMA DebitNested ==
  ASSUME Nested(open, ends, offset), ~Overrun, offset \in Nat
  PROVE  Nested(Debited, ends, offset + 1)
<1>a. /\ open \in Seq(Sizes(MaxSize)) /\ Len(open) \in Nat
      /\ DOMAIN open = 1..Len(open) /\ MaxSize \in Nat
      /\ \A i \in 1..Len(open) : open[i] \in Sizes(MaxSize)
      /\ ends \in Seq(Sizes(MaxBytes + MaxSize)) /\ Len(ends) = Len(open)
      /\ MaxBytes + MaxSize \in Nat
      /\ \A i \in 1..Len(open) : ends[i] \in Sizes(MaxBytes + MaxSize)
  BY LenProperties, ElementOfSeq, HeaderAssumption DEF Nested
<1>1. ASSUME NEW i \in 1..Len(open)
      PROVE  /\ Debited[i] \in Sizes(MaxSize)
             /\ Debited[i] = Left(ends[i], offset + 1)
  <2>1. /\ open[i] \in Sizes(MaxSize) /\ ends[i] \in Sizes(MaxBytes + MaxSize)
        /\ open[i] = Left(ends[i], offset)
        /\ Debited[i] = IF open[i].known THEN Known(open[i].bytes - 1) ELSE ToEnd
        /\ open[i].known => ~(open[i].bytes < 1)
    BY <1>a DEF Nested, Debited, Overrun
  <2>2. /\ ends[i].known \in BOOLEAN /\ ends[i].bytes \in Nat
        /\ open[i].known \in BOOLEAN /\ open[i].bytes \in 0..MaxSize
    BY <1>a, <2>1, SizeFields
  <2>3. CASE ends[i].known
    <3>1. open[i] = Known(ends[i].bytes - offset)
      BY <2>1, <2>3 DEF Left
    <3>2. open[i].known /\ open[i].bytes = ends[i].bytes - offset
      BY <3>1, SizeFields
    <3>3. Debited[i] = Known(ends[i].bytes - (offset + 1))
          /\ ends[i].bytes - (offset + 1) \in 0..MaxSize
      <4>1. open[i].bytes - 1 = ends[i].bytes - (offset + 1)
            /\ open[i].bytes - 1 \in 0..MaxSize
        BY <1>a, <2>1, <2>2, <3>2
      <4> QED BY <2>1, <3>2, <4>1
    <3> QED BY <1>a, <2>3, <3>3, SizeFields DEF Left
  <2>4. CASE ~ends[i].known
    <3>1. open[i] = ToEnd /\ ~open[i].known
      BY <2>1, <2>4, SizeFields DEF Left
    <3> QED BY <2>1, <2>4, <3>1, SizeFields DEF Left
  <2> QED BY <2>2, <2>3, <2>4
<1>2. Debited \in Seq(Sizes(MaxSize)) /\ Len(Debited) = Len(open)
  <2>1. Debited \in [1..Len(open) -> Sizes(MaxSize)]
    BY <1>1, <1>a DEF Debited
  <2> HIDE DEF Debited
  <2>2. Len(open) \in Nat
    BY <1>a, Zenon
  <2>3. Debited \in Seq(Sizes(MaxSize))
    BY <2>1, <2>2, SeqDef, Zenon
  <2>4. DOMAIN Debited = 1..Len(open)
    BY <2>1
  <2>5. Len(Debited) \in Nat /\ DOMAIN Debited = 1..Len(Debited)
    BY <2>3, LenProperties
  <2> QED BY <2>2, <2>3, <2>4, <2>5
<1> QED BY <1>1, <1>2 DEF Nested

(* Popping keeps the account of what stays.                                 *)
LEMMA PrefixNested ==
  ASSUME NEW stack, NEW extents, NEW at, Nested(stack, extents, at),
         NEW n \in 0..Len(stack)
  PROVE  /\ Nested(SubSeq(stack, 1, n), SubSeq(extents, 1, n), at)
         /\ Len(SubSeq(stack, 1, n)) = n /\ Len(SubSeq(extents, 1, n)) = n
         /\ \A i \in 1..n : /\ SubSeq(stack, 1, n)[i] = stack[i]
                            /\ SubSeq(extents, 1, n)[i] = extents[i]
<1>a. /\ Len(stack) \in Nat /\ n \in Int /\ Len(extents) = Len(stack)
      /\ MaxDepth \in Nat
      /\ \A i \in 1..n : /\ stack[i] \in Sizes(MaxSize)
                         /\ extents[i] \in Sizes(MaxBytes + MaxSize)
  BY LenProperties, ElementOfSeq, HeaderAssumption DEF Nested
<1> DEFINE s == SubSeq(stack, 1, n)
           e == SubSeq(extents, 1, n)
<1>1. /\ s \in Seq(Sizes(MaxSize)) /\ Len(s) = n
      /\ \A i \in 1..n : s[i] = stack[i]
  BY <1>a, SubSeqProperties
<1>2. /\ e \in Seq(Sizes(MaxBytes + MaxSize)) /\ Len(e) = n
      /\ \A i \in 1..n : e[i] = extents[i]
  BY <1>a, SubSeqProperties
<1> HIDE DEF s, e
<1>3. /\ \A i \in 1..n : i \in 1..Len(stack)
      /\ Len(e) = Len(s) /\ Len(s) <= MaxDepth
  BY <1>1, <1>2, <1>a DEF Nested
<1>4. \A i \in 1..Len(s) : s[i] = Left(e[i], at)
  BY <1>1, <1>2, <1>3 DEF Nested
<1>5. \A i, j \in 1..Len(s) : i < j => Within(e[j], e[i])
  BY <1>1, <1>2, <1>3 DEF Nested
<1>6. Nested(s, e, at)
  BY <1>1, <1>2, <1>3, <1>4, <1>5 DEF Nested
<1> QED BY <1>1, <1>2, <1>6 DEF s, e

(* A container that fits inside the others may be pushed on top of them.    *)
LEMMA PushNested ==
  ASSUME NEW stack, NEW extents, NEW at, Nested(stack, extents, at),
         Len(stack) < MaxDepth,
         NEW payload \in Sizes(MaxSize), NEW e \in Sizes(MaxBytes + MaxSize),
         payload = Left(e, at),
         \A i \in 1..Len(stack) : Within(e, extents[i])
  PROVE  /\ Nested(Append(stack, payload), Append(extents, e), at)
         /\ Len(Append(stack, payload)) = Len(stack) + 1
         /\ \A i \in 1..Len(stack) : Append(extents, e)[i] = extents[i]
         /\ Append(extents, e)[Len(stack) + 1] = e
<1>a. Len(stack) \in Nat /\ Len(extents) = Len(stack) /\ MaxDepth \in Nat
  BY LenProperties, HeaderAssumption DEF Nested
<1> DEFINE s == Append(stack, payload)
           f == Append(extents, e)
           n == Len(stack)
<1>1. /\ s \in Seq(Sizes(MaxSize)) /\ Len(s) = n + 1
      /\ \A i \in 1..n : s[i] = stack[i]
      /\ s[n + 1] = payload
  BY <1>a, AppendProperties DEF Nested
<1>2. /\ f \in Seq(Sizes(MaxBytes + MaxSize)) /\ Len(f) = n + 1
      /\ \A i \in 1..n : f[i] = extents[i]
      /\ f[n + 1] = e
  BY <1>a, AppendProperties DEF Nested
<1> HIDE DEF s, f
<1>3. \A i \in 1..(n + 1) : i \in 1..n \/ i = n + 1
  BY <1>a
<1>4. \A i \in 1..Len(s) : s[i] = Left(f[i], at)
  BY <1>1, <1>2, <1>3 DEF Nested
<1>5. ASSUME NEW i \in 1..Len(s), NEW j \in 1..Len(s), i < j
      PROVE  Within(f[j], f[i])
  <2>1. i \in 1..n /\ (j \in 1..n \/ j = n + 1)
    BY <1>1, <1>a, <1>5
  <2> QED BY <1>2, <1>5, <2>1 DEF Nested
<1>6. Nested(s, f, at)
  BY <1>1, <1>2, <1>4, <1>5, <1>a DEF Nested
<1> QED BY <1>1, <1>2, <1>6 DEF s, f

(* Where the walker goes on: what closes has reached its end, and at a      *)
(* boundary nothing that has stays open.                                    *)
LEMMA GoOnKeeps ==
  ASSUME NEW next, NEW stack, NEW extents, NEW at \in Nat,
         Nested(stack, extents, at), GoOn(next, stack, extents)
  PROVE  /\ state' = next /\ Nested(open', ends', at)
         /\ Len(open') \in 0..Len(stack) /\ Len(ends') = Len(open')
         /\ \A i \in 1..Len(open') : ends'[i] = extents[i]
         /\ \A i \in Len(open')+1..Len(stack) : extents[i] = Known(at)
         /\ next # Boundary => Len(open') = Len(stack)
         /\ next = Boundary => \A i \in 1..Len(open') : open'[i] # Known(0)
<1> DEFINE n == IF next = Boundary THEN Live(stack) ELSE Len(stack)
<1>a. /\ Len(stack) \in Nat /\ stack \in Seq(Sizes(MaxSize))
      /\ MaxSize \in Nat /\ MaxBytes + MaxSize \in Nat
      /\ Len(extents) = Len(stack)
      /\ \A i \in 1..Len(stack) : /\ stack[i] \in Sizes(MaxSize)
                                  /\ extents[i] \in Sizes(MaxBytes + MaxSize)
                                  /\ stack[i] = Left(extents[i], at)
  BY LenProperties, ElementOfSeq, HeaderAssumption DEF Nested
<1>1. /\ n \in 0..Len(stack)
      /\ \A i \in n+1..Len(stack) : stack[i] = Known(0)
      /\ next = Boundary /\ n > 0 => stack[n] # Known(0)
  BY <1>a, LiveStops
<1>2. /\ state' = next /\ open' = SubSeq(stack, 1, n)
      /\ ends' = SubSeq(extents, 1, n)
  BY DEF GoOn
<1>n. next # Boundary => n = Len(stack)
  OBVIOUS
<1> HIDE DEF n
<1>3. /\ Nested(open', ends', at) /\ Len(open') = n /\ Len(ends') = n
      /\ \A i \in 1..n : open'[i] = stack[i] /\ ends'[i] = extents[i]
  BY <1>1, <1>2, PrefixNested
<1>4. ASSUME NEW i \in 1..Len(stack), stack[i] = Known(0)
      PROVE  extents[i] = Known(at)
  <2>1. stack[i] = Left(extents[i], at) /\ extents[i] \in Sizes(MaxBytes + MaxSize)
    BY <1>a
  <2>2. extents[i].known
    BY <1>4, <2>1, SizeFields DEF Left
  <2>3. Known(extents[i].bytes - at).bytes = Known(0).bytes
    BY <1>4, <2>1, <2>2 DEF Left
  <2>4. extents[i].bytes - at = 0 /\ extents[i].bytes \in Nat
    BY <1>a, <2>1, <2>3, SizeFields
  <2>5. extents[i].bytes = at
    BY <2>4
  <2>6. extents[i] = Known(extents[i].bytes)
    BY <1>a, <2>1, <2>2, SizeFields
  <2> QED BY <2>5, <2>6
<1>5. ASSUME next = Boundary, NEW i \in 1..n
      PROVE  open'[i] # Known(0)
  <2> SUFFICES ASSUME stack[i] = Known(0) PROVE FALSE
    BY <1>3
  <2>1. extents[i] = Known(at) /\ n \in 1..Len(stack) /\ i \in 1..Len(stack)
    BY <1>1, <1>4, <1>a
  <2>2. i < n
    BY <1>1, <1>5, <2>1
  <2>3. Within(extents[n], extents[i])
    BY <2>1, <2>2 DEF Nested
  <2>4. extents[n].known /\ extents[n].bytes <= at
    BY <2>1, <2>3, SizeFields DEF Within
  <2>5. stack[n] = Known(extents[n].bytes - at) /\ stack[n] \in Sizes(MaxSize)
        /\ extents[n].bytes \in Nat
    BY <1>a, <2>1, <2>4, SizeFields DEF Left
  <2>6. extents[n].bytes - at = 0
    BY <1>a, <2>4, <2>5, SizeFields
  <2> QED BY <1>1, <1>5, <2>1, <2>5, <2>6
<1>6. \A i \in n+1..Len(stack) : extents[i] = Known(at)
  BY <1>1, <1>4, <1>a
<1> QED BY <1>1, <1>2, <1>3, <1>5, <1>6, <1>n

(***************************************************************************)
(* The inductive invariant.                                                *)
(***************************************************************************)
States == [kind : {"header", "payload", "toEnd"}, len : 0..HeaderMax,
           box : Boxes, remaining : 0..MaxSize]
Units == [begin : 0..MaxBytes, end : Sizes(MaxBytes + MaxSize)]

\* A header under collection is begun and not complete.
Short(s) ==
  s.kind = "header" =>
    /\ s.len < HeaderMin \/ s.len < HeaderLen(s.box)
    /\ s = Boundary \/ s.len >= 1

\* Nothing is claimed beyond what was consumed and what is still open.
Covered(extents, at, claim) ==
  \/ claim <= at
  \/ \E i \in 1..Len(extents) : extents[i].known /\ claim <= extents[i].bytes

\* The payload under way and the containers around it, the containers and
\* the farthest claim.
Account(s, extents, at, u, claim) ==
  /\ s.kind = "payload" =>
       /\ s.remaining >= 1
       /\ u.end = Known(at + s.remaining) /\ u.begin <= at
       /\ Fits(extents, at, s.remaining)
       /\ at + s.remaining <= claim
  /\ s = Boundary => claim >= at
  /\ s.kind = "toEnd" => Len(extents) = 0
  /\ \A i \in 1..Len(extents) : extents[i].known => extents[i].bytes <= claim
  /\ \/ Covered(extents, at, claim)
     \/ s.kind = "payload" /\ claim <= at + s.remaining

Inv ==
  /\ TypeOK
  /\ Short(state)
  /\ phase = "walking" =>
       /\ Nested(open, ends, offset)
       /\ state = Boundary => \A i \in 1..Len(open) : open[i] # Known(0)
       /\ Account(state, ends, offset, unit, declared)
  /\ phase = "ended" /\ state.kind # "toEnd" => declared = offset

(* The boundary state, the header lengths and the other constants.          *)
LEMMA ConstantFacts ==
  /\ HeaderMin \in Nat /\ HeaderMin >= 1 /\ HeaderMax \in Nat
  /\ MaxDepth \in Nat /\ ChunkMin \in Nat /\ ChunkMin >= 1
  /\ MaxSize \in Nat /\ MaxBytes \in Nat
  /\ MaxBytes + MaxSize \in Nat
  /\ NoBox \in Boxes
  /\ Boundary \in States /\ Boundary.kind = "header" /\ Boundary.len = 0
  /\ Short(Boundary)
  /\ \A box \in Boxes : HeaderLen(box) \in HeaderMin..HeaderMax
<1>1. /\ HeaderMin \in Nat /\ HeaderMin >= 1 /\ HeaderMax \in Nat
      /\ MaxDepth \in Nat /\ ChunkMin \in Nat /\ ChunkMin >= 1
      /\ MaxSize \in Nat /\ MaxBytes \in Nat /\ MaxBytes + MaxSize \in Nat
      /\ LargeExtra \in Nat /\ UuidExtra \in Nat
  BY HeaderAssumption DEF HeaderMax
<1>2. NoBox \in Boxes
  <2>1. [first |-> FALSE, container |-> FALSE, uuid |-> FALSE] \in Types
    BY DEF Types
  <2> QED BY <2>1 DEF NoBox, Boxes, Forms
<1>3. Boundary = [kind |-> "header", len |-> 0, box |-> NoBox, remaining |-> 0]
  BY DEF Boundary, State
<1>4. /\ Boundary \in States /\ Boundary.kind = "header" /\ Boundary.len = 0
      /\ Short(Boundary)
  BY <1>1, <1>2, <1>3 DEF States, Short
<1>5. ASSUME NEW box \in Boxes PROVE HeaderLen(box) \in HeaderMin..HeaderMax
  BY <1>1 DEF HeaderLen, HeaderMax
<1> QED BY <1>1, <1>2, <1>4, <1>5

(* One accepted byte, in general: the walker goes on, and what it goes on   *)
(* with accounts for itself.                                                *)
LEMMA WalkOn ==
  ASSUME Inv, phase = "walking", offset < MaxBytes,
         NEW next \in States, NEW stack, NEW extents,
         Nested(stack, extents, offset + 1), GoOn(next, stack, extents),
         offset' = offset + 1, phase' = "walking",
         report' \in 0..HeaderMax, seenFirst' \in BOOLEAN, unit' \in Units,
         declared' \in 0..(MaxBytes + MaxSize), Short(next),
         Account(next, extents, offset + 1, unit', declared')
  PROVE  Inv'
<1>a. offset \in Nat /\ offset + 1 \in 0..MaxBytes
  BY ConstantFacts DEF Inv, TypeOK
<1>b. Len(stack) \in Nat /\ Len(extents) = Len(stack)
  BY LenProperties DEF Nested
<1>1. /\ state' = next /\ Nested(open', ends', offset + 1)
      /\ Len(open') \in 0..Len(stack) /\ Len(ends') = Len(open')
      /\ \A i \in 1..Len(open') : ends'[i] = extents[i]
      /\ \A i \in Len(open')+1..Len(stack) : extents[i] = Known(offset + 1)
      /\ next = Boundary => \A i \in 1..Len(open') : open'[i] # Known(0)
  BY <1>a, GoOnKeeps
<1>2. \A i \in 1..Len(ends') : i \in 1..Len(extents) /\ ends'[i] = extents[i]
  BY <1>1, <1>b
<1>3. Covered(extents, offset + 1, declared') => Covered(ends', offset + 1, declared')
  <2> SUFFICES ASSUME NEW i \in 1..Len(extents), extents[i].known,
                      declared' <= extents[i].bytes
               PROVE  Covered(ends', offset + 1, declared')
    BY DEF Covered
  <2>1. CASE i \in 1..Len(open')
    BY <1>1, <2>1 DEF Covered
  <2>2. CASE i \in Len(open')+1..Len(stack)
    <3>1. extents[i].bytes = offset + 1
      BY <1>1, <2>2, SizeFields
    <3> QED BY <3>1 DEF Covered
  <2> QED BY <1>1, <1>b, <2>1, <2>2
<1>c. Len(extents) = 0 => Len(ends') = 0
  BY <1>1, <1>b
<1>4. Account(next, ends', offset + 1, unit', declared')
  BY <1>2, <1>3, <1>c DEF Account, Fits
<1>5. TypeOK'
  BY <1>1, <1>a DEF TypeOK, States, Units, Nested
<1> QED BY <1>1, <1>4, <1>5 DEF Inv

LEMMA InitInv == Init => Inv
<1> SUFFICES ASSUME Init PROVE Inv
  OBVIOUS
<1>1. /\ <<>> \in Seq(Sizes(MaxSize)) /\ <<>> \in Seq(Sizes(MaxBytes + MaxSize))
      /\ Len(<<>>) = 0
  BY EmptySeq
<1>2. unit \in Units
  BY ConstantFacts, SizeFields DEF Init, Units
<1>3. TypeOK
  <2>1. state \in States
    BY ConstantFacts DEF Init
  <2>2. /\ open \in Seq(Sizes(MaxSize)) /\ Len(open) <= MaxDepth
        /\ ends \in Seq(Sizes(MaxBytes + MaxSize)) /\ Len(ends) = Len(open)
    BY <1>1, ConstantFacts DEF Init
  <2>3. /\ offset \in 0..MaxBytes
        /\ report \in 0..HeaderMax /\ declared \in 0..(MaxBytes + MaxSize)
    BY ConstantFacts DEF Init
  <2>4. seenFirst \in BOOLEAN /\ phase \in {"walking", "ended", "faulted"}
    BY Zenon DEF Init
  <2> QED BY <1>2, <2>1, <2>2, <2>3, <2>4, Zenon DEF TypeOK, States, Units
<1>4. Nested(open, ends, offset)
  BY <1>1, ConstantFacts DEF Init, Nested
<1>5. Account(state, ends, offset, unit, declared)
  BY <1>1, ConstantFacts DEF Init, Account, Covered
<1> QED BY <1>1, <1>3, <1>4, <1>5, ConstantFacts DEF Init, Inv

(* What a byte that charges the containers may assume.                      *)
LEMMA BeforeByte ==
  ASSUME Inv, phase = "walking"
  PROVE  /\ offset \in Nat /\ declared \in Nat
         /\ state \in States /\ unit \in Units /\ seenFirst \in BOOLEAN
         /\ declared \in 0..(MaxBytes + MaxSize)
         /\ Nested(open, ends, offset)
         /\ Len(open) \in Nat /\ Len(ends) = Len(open) /\ Len(open) <= MaxDepth
         /\ \A i \in 1..Len(open) : ends[i] \in Sizes(MaxBytes + MaxSize)
         /\ ~Overrun => /\ Nested(Debited, ends, offset + 1)
                        /\ Len(Debited) = Len(open)
<1>1. Nested(open, ends, offset) /\ offset \in Nat /\ TypeOK
  BY ConstantFacts DEF Inv, TypeOK
<1>2. ~Overrun => Nested(Debited, ends, offset + 1)
  BY <1>1, DebitNested
<1>3. /\ declared \in 0..(MaxBytes + MaxSize) /\ declared \in Nat
      /\ state \in States /\ unit \in Units /\ seenFirst \in BOOLEAN
  BY <1>1, ConstantFacts DEF TypeOK, States, Units
<1>4. /\ open \in Seq(Sizes(MaxSize)) /\ ends \in Seq(Sizes(MaxBytes + MaxSize))
      /\ Len(ends) = Len(open) /\ Len(open) <= MaxDepth
  BY <1>1 DEF Nested
<1>5. Len(open) \in Nat
  BY <1>4, LenProperties
<1>6. \A i \in 1..Len(open) : ends[i] \in Sizes(MaxBytes + MaxSize)
  BY <1>4, ElementOfSeq
<1>7. Nested(Debited, ends, offset + 1) => Len(Debited) = Len(open)
  BY <1>4 DEF Nested
<1> QED BY <1>1, <1>2, <1>3, <1>4, <1>5, <1>6, <1>7

(* A header that is not complete stays below its length.                    *)
LEMMA HeaderGrows ==
  ASSUME Inv, phase = "walking", state.kind = "header",
         NEW box \in BoxAt(state.len + 1), ~Completes(state.len + 1, box)
  PROVE  LET len == state.len + 1 IN
         /\ len < HeaderMin \/ len < HeaderLen(box)
         /\ box \in Boxes /\ len \in 1..HeaderMax
<1> DEFINE len == state.len + 1
<1>1. box \in Boxes /\ state.len \in Nat
  BY BeforeByte, ConstantFacts DEF BoxAt, States
<1>2. /\ HeaderLen(box) \in HeaderMin..HeaderMax /\ HeaderMin \in Nat
      /\ HeaderMax \in Nat
  BY <1>1, ConstantFacts
<1>3. Short(state)
  BY DEF Inv
<1>4. len < HeaderMin \/ len < HeaderLen(box)
  <2>1. CASE len = HeaderMin
    BY <1>1, <1>2, <2>1 DEF Completes
  <2>2. CASE len # HeaderMin
    <3>1. box = state.box
      BY <2>2 DEF BoxAt
    <3> QED BY <1>1, <1>2, <1>3, <2>2, <3>1 DEF Completes, Short
  <2> QED BY <2>1, <2>2
<1> QED BY <1>1, <1>2, <1>4

(* A byte of a header that is still incomplete.                             *)
LEMMA GrowInv ==
  ASSUME Inv, phase = "walking", state.kind = "header", ~Overrun,
         NEW box \in BoxAt(state.len + 1), ~Completes(state.len + 1, box),
         GoOn(State("header", state.len + 1, box, 0), Debited, ends),
         Consumed(0), UNCHANGED <<seenFirst, unit, declared>>
  PROVE  Inv'
<1> DEFINE len == state.len + 1
           next == State("header", len, box, 0)
<1>a. /\ offset \in Nat /\ declared \in 0..(MaxBytes + MaxSize)
      /\ state \in States /\ unit \in Units /\ seenFirst \in BOOLEAN
      /\ Nested(Debited, ends, offset + 1)
  BY BeforeByte
<1>b. /\ next.kind = "header" /\ next.len = len /\ next.box = box
      /\ next.remaining = 0
      /\ next = [kind |-> "header", len |-> len, box |-> box, remaining |-> 0]
  BY DEF State
<1>1. /\ len < HeaderMin \/ len < HeaderLen(box)
      /\ box \in Boxes /\ len \in 1..HeaderMax /\ MaxSize \in Nat
  BY HeaderGrows, ConstantFacts
<1>2. next \in States /\ Short(next)
  <2>1. len \in 0..HeaderMax /\ 0 \in 0..MaxSize /\ len >= 1
    BY <1>1
  <2> QED BY <1>1, <1>b, <2>1 DEF States, Short
<1>3. next # Boundary
  BY <1>1, <1>b, ConstantFacts
<1>4. Account(next, ends, offset + 1, unit, declared)
  <2>1. Account(state, ends, offset, unit, declared)
    BY DEF Inv
  <2> QED BY <1>a, <1>b, <1>3, <2>1 DEF Account, Covered
<1>5. /\ offset < MaxBytes /\ offset' = offset + 1 /\ phase' = "walking"
      /\ report' \in 0..HeaderMax
  BY ConstantFacts DEF Consumed
<1> HIDE DEF next
<1>6. /\ unit' = unit /\ declared' = declared /\ seenFirst' = seenFirst
      /\ GoOn(next, Debited, ends)
  BY DEF next
<1>7. Account(next, ends, offset + 1, unit', declared')
  BY <1>4, <1>6
<1> QED BY <1>a, <1>2, <1>5, <1>6, <1>7, WalkOn

(* A payload byte is covered by every container.                            *)
LEMMA PayloadCovered ==
  ASSUME Inv, phase = "walking", state.kind = "payload"
  PROVE  ~Overrun /\ state.remaining \in Nat /\ state.remaining >= 1
<1>1. /\ Nested(open, ends, offset) /\ offset \in Nat /\ state \in States
      /\ Len(open) \in Nat /\ Len(ends) = Len(open)
      /\ \A i \in 1..Len(open) : ends[i] \in Sizes(MaxBytes + MaxSize)
  BY BeforeByte
<1>2. /\ state.remaining >= 1 /\ state.remaining \in Nat
      /\ Fits(ends, offset, state.remaining)
  BY <1>1 DEF Inv, Account, States
<1>3. SUFFICES ASSUME NEW i \in DOMAIN open, open[i].known
               PROVE  open[i].bytes >= 1
  BY <1>1, <1>2, ElementOfSeq, LenProperties, SizeFields, ConstantFacts
     DEF Overrun, Nested
<1>4. i \in 1..Len(open) /\ open[i] = Left(ends[i], offset)
  BY <1>1, LenProperties DEF Nested
<1>5. ends[i].known /\ ends[i].bytes \in Nat /\ open[i].bytes = ends[i].bytes - offset
  BY <1>1, <1>3, <1>4, SizeFields, ConstantFacts DEF Left
<1>6. offset + state.remaining <= ends[i].bytes
  BY <1>1, <1>2, <1>4, <1>5 DEF Fits
<1> QED BY <1>1, <1>2, <1>5, <1>6

LEMMA PayloadInv ==
  ASSUME Inv, PayloadByte
  PROVE  Inv'
<1> DEFINE next == IF state.remaining = 1 THEN Boundary
                   ELSE [state EXCEPT !.remaining = @ - 1]
<1>0. phase = "walking" /\ state.kind = "payload"
  BY DEF PayloadByte, Consumed
<1>a. /\ offset \in Nat /\ declared \in 0..(MaxBytes + MaxSize)
      /\ state \in States /\ unit \in Units /\ seenFirst \in BOOLEAN
      /\ Nested(Debited, ends, offset + 1)
      /\ state.remaining \in Nat /\ state.remaining >= 1
      /\ Len(ends) = Len(open) /\ Len(open) \in Nat
      /\ \A i \in 1..Len(open) : ends[i] \in Sizes(MaxBytes + MaxSize)
  BY <1>0, BeforeByte, PayloadCovered
<1>b. /\ unit.end = Known(offset + state.remaining) /\ unit.begin <= offset
      /\ Fits(ends, offset, state.remaining)
      /\ offset + state.remaining <= declared
      /\ \A i \in 1..Len(ends) : ends[i].known => ends[i].bytes <= declared
      /\ \/ Covered(ends, offset, declared)
         \/ declared <= offset + state.remaining
  BY <1>0 DEF Inv, Account
<1>c. unit.begin \in Nat
  BY <1>a, ConstantFacts DEF Units
<1>1. CASE state.remaining = 1
  <2>1. next = Boundary /\ next \in States /\ Short(next) /\ next.kind = "header"
    BY <1>1, ConstantFacts
  <2>2. Account(next, ends, offset + 1, unit, declared)
    BY <1>1, <1>a, <1>b, <2>1 DEF Account, Covered
  <2> HIDE DEF next
  <2>5. /\ GoOn(next, Debited, ends) /\ offset < MaxBytes /\ offset' = offset + 1
        /\ phase' = "walking" /\ report' \in 0..HeaderMax
        /\ unit' = unit /\ declared' = declared /\ seenFirst' = seenFirst
    BY <1>0, ConstantFacts DEF PayloadByte, Consumed, next
  <2>6. Account(next, ends, offset + 1, unit', declared')
    BY <2>2, <2>5
  <2> QED BY <1>0, <1>a, <2>1, <2>5, <2>6, WalkOn
<1>2. CASE state.remaining # 1
  <2>1. /\ next \in States /\ next.kind = "payload"
        /\ next.remaining = state.remaining - 1
    <3>1. next = [state EXCEPT !.remaining = state.remaining - 1]
      BY <1>2
    <3>2. state.remaining - 1 \in 0..MaxSize
      BY <1>a, <1>2, ConstantFacts DEF States
    <3> HIDE DEF next
    <3> QED BY <1>0, <1>a, <3>1, <3>2 DEF States
  <2>2. Short(next) /\ next # Boundary
    BY <2>1, ConstantFacts DEF Short
  <2>3. /\ offset + 1 + next.remaining = offset + state.remaining
        /\ next.remaining >= 1
    BY <1>2, <1>a, <2>1
  <2> HIDE DEF next
  <2>4. Account(next, ends, offset + 1, unit, declared)
    <3>1. /\ unit.end = Known(offset + 1 + next.remaining)
          /\ unit.begin <= offset + 1
          /\ Fits(ends, offset + 1, next.remaining)
          /\ offset + 1 + next.remaining <= declared
      BY <1>a, <1>b, <1>c, <2>3 DEF Fits
    <3>2. \/ Covered(ends, offset + 1, declared)
          \/ declared <= offset + 1 + next.remaining
      BY <1>a, <1>b, <2>3 DEF Covered
    <3> QED BY <1>b, <2>1, <2>2, <2>3, <3>1, <3>2 DEF Account
  <2>5. /\ GoOn(next, Debited, ends) /\ offset < MaxBytes /\ offset' = offset + 1
        /\ phase' = "walking" /\ report' \in 0..HeaderMax
        /\ unit' = unit /\ declared' = declared /\ seenFirst' = seenFirst
    BY <1>0, ConstantFacts DEF PayloadByte, Consumed, next
  <2>6. Account(next, ends, offset + 1, unit', declared')
    BY <2>4, <2>5
  <2> QED BY <1>0, <1>a, <2>1, <2>2, <2>5, <2>6, WalkOn
<1> QED BY <1>1, <1>2

(* What an accepted header declares fits inside everything open.            *)
LEMMA AcceptedBoxFits ==
  ASSUME Inv, phase = "walking", ~Overrun, offset < MaxBytes,
         NEW box \in Boxes, NEW size \in DeclaredSizes(box.form),
         ~BoxRejected(box, size)
  PROVE  LET payload == Payload(box, size)
             e == EndOf(payload) IN
         /\ payload \in Sizes(MaxSize) /\ e \in Sizes(MaxBytes + MaxSize)
         /\ payload = Left(e, offset + 1) /\ e.known = payload.known
         /\ payload.known => e.bytes = offset + 1 + payload.bytes
         /\ ~payload.known => payload = ToEnd /\ open = <<>>
         /\ \A i \in 1..Len(open) : Within(e, ends[i])
<1> DEFINE payload == Payload(box, size)
           e == EndOf(payload)
<1>a. /\ offset \in Nat /\ Nested(open, ends, offset)
      /\ Nested(Debited, ends, offset + 1) /\ Len(Debited) = Len(open)
      /\ Len(open) \in Nat /\ Len(ends) = Len(open)
      /\ \A i \in 1..Len(open) : ends[i] \in Sizes(MaxBytes + MaxSize)
  BY BeforeByte
<1>b. size \in Sizes(MaxSize)
  BY SizeFields, ConstantFacts DEF DeclaredSizes, Boxes, Forms
<1>c. HeaderLen(box) \in Nat
  BY ConstantFacts
<1>1. CASE ~size.known
  <2>1. payload = ToEnd /\ e = ToEnd /\ open = <<>> /\ Len(open) = 0
    BY <1>1, SizeFields, EmptySeq DEF Payload, EndOf, BoxRejected
  <2> QED BY <2>1, SizeFields DEF Left
<1>2. CASE size.known
  <2> DEFINE n == size.bytes - HeaderLen(box)
  <2>1. /\ size.bytes \in 0..MaxSize /\ ~(size.bytes < HeaderLen(box))
        /\ ~OverrunsParent(n, Debited)
    BY <1>2, <1>b, SizeFields, ConstantFacts DEF BoxRejected
  <2>2. n \in 0..MaxSize
    BY <2>1, <1>c, ConstantFacts
  <2>3. payload = Known(n)
    BY <1>2 DEF Payload
  <2> HIDE DEF n
  <2>4. payload \in Sizes(MaxSize) /\ payload.known /\ payload.bytes = n
    BY <2>2, <2>3, SizeFields, ConstantFacts
  <2>5. e = Known(offset + 1 + n)
    BY <2>4 DEF EndOf
  <2>6. /\ e.known /\ e.bytes = offset + 1 + n
        /\ offset + 1 + n \in 0..(MaxBytes + MaxSize)
        /\ (offset + 1 + n) - (offset + 1) = n
    BY <1>a, <2>2, <2>5, SizeFields, ConstantFacts
  <2>7. e \in Sizes(MaxBytes + MaxSize)
    BY <2>5, <2>6, SizeFields, ConstantFacts
  <2>8. payload = Left(e, offset + 1)
    BY <2>3, <2>6 DEF Left
  <2>9. ASSUME NEW i \in 1..Len(open) PROVE Within(e, ends[i])
    <3> DEFINE top == Len(open)
    <3>1. top \in 1..Len(open) /\ Debited # <<>> /\ i <= top
      BY <1>a, EmptySeq, LenProperties
    <3>2. Debited[top] = Left(ends[top], offset + 1)
      BY <1>a, <3>1 DEF Nested
    <3>3. ends[top].known => e.bytes <= ends[top].bytes
      <4> SUFFICES ASSUME ends[top].known PROVE e.bytes <= ends[top].bytes
        OBVIOUS
      <4>1. /\ Debited[top].known
            /\ Debited[top].bytes = ends[top].bytes - (offset + 1)
            /\ ends[top].bytes \in Nat
        <5>1. ends[top] \in Sizes(MaxBytes + MaxSize) /\ MaxBytes + MaxSize \in Nat
          BY <1>a, <3>1, ConstantFacts
        <5>2. ends[top].bytes \in Nat
          BY <5>1, SizeFields
        <5>3. Debited[top] = Known(ends[top].bytes - (offset + 1))
          BY <3>2 DEF Left
        <5> QED BY <5>2, <5>3, SizeFields
      <4>2. ~(n > Debited[top].bytes)
        BY <1>a, <2>1, <3>1, <4>1 DEF OverrunsParent
      <4> QED BY <1>a, <2>2, <2>6, <4>1, <4>2, ConstantFacts
    <3>4. CASE i = top
      BY <2>6, <3>3, <3>4 DEF Within
    <3>5. CASE i # top
      <4>1. i < top
        BY <1>a, <3>1, <3>5
      <4>2. Within(ends[top], ends[i])
        BY <1>a, <3>1, <4>1 DEF Nested
      <4>3. ends[i].bytes \in Nat /\ ends[top].bytes \in Nat
        <5>1. /\ ends[i] \in Sizes(MaxBytes + MaxSize)
              /\ ends[top] \in Sizes(MaxBytes + MaxSize)
              /\ MaxBytes + MaxSize \in Nat
          BY <1>a, <3>1, ConstantFacts
        <5> QED BY <5>1, SizeFields
      <4>4. e.bytes \in Nat
        BY <2>6, ConstantFacts
      <4> QED BY <2>6, <3>3, <4>2, <4>3, <4>4 DEF Within
    <3> QED BY <3>4, <3>5
  <2> QED BY <2>4, <2>6, <2>7, <2>8, <2>9
<1> QED BY <1>1, <1>2

(* The claim of an accepted header.                                         *)
LEMMA ClaimGrows ==
  ASSUME Inv, phase = "walking", offset < MaxBytes,
         NEW payload \in Sizes(MaxSize), Declare(payload)
  PROVE  /\ declared' \in 0..(MaxBytes + MaxSize)
         /\ offset + 1 + payload.bytes <= declared' /\ declared <= declared'
         /\ declared' = declared \/ declared' = offset + 1 + payload.bytes
<1>1. /\ payload.bytes \in 0..MaxSize /\ offset \in Nat
      /\ declared \in 0..(MaxBytes + MaxSize)
  BY BeforeByte, SizeFields, ConstantFacts
<1> QED BY <1>1, ConstantFacts DEF Declare

(* A header opens a container.                                              *)
LEMMA DescendInv ==
  ASSUME Inv, phase = "walking", state.kind = "header", ~Overrun,
         NEW box \in Boxes, NEW size \in DeclaredSizes(box.form),
         ~BoxRejected(box, size), box.type.container,
         seenFirst' = TRUE, Declare(Payload(box, size)),
         Descend(Payload(box, size))
  PROVE  Inv'
<1> DEFINE payload == Payload(box, size)
           e == EndOf(payload)
           stack == Append(Debited, payload)
           extents == Append(ends, e)
<1>0. /\ offset < MaxBytes /\ offset' = offset + 1 /\ phase' = "walking"
      /\ report' = 0 /\ unit' = unit /\ GoOn(Boundary, stack, extents)
  BY DEF Descend, Consumed
<1>a. /\ offset \in Nat /\ declared \in Nat /\ unit \in Units
      /\ Nested(Debited, ends, offset + 1) /\ Len(Debited) = Len(open)
      /\ Len(open) \in Nat /\ Len(ends) = Len(open) /\ Len(open) <= MaxDepth
      /\ \A i \in 1..Len(open) : ends[i] \in Sizes(MaxBytes + MaxSize)
  BY BeforeByte
<1>b. Len(Debited) < MaxDepth
  BY <1>a, ConstantFacts DEF BoxRejected, TooDeep
<1>c. /\ payload \in Sizes(MaxSize) /\ e \in Sizes(MaxBytes + MaxSize)
      /\ payload = Left(e, offset + 1) /\ e.known = payload.known
      /\ payload.known => e.bytes = offset + 1 + payload.bytes
      /\ ~payload.known => payload = ToEnd
      /\ \A i \in 1..Len(open) : Within(e, ends[i])
  BY <1>0, AcceptedBoxFits
<1> HIDE DEF payload, e
<1>1. /\ Nested(stack, extents, offset + 1)
      /\ \A i \in 1..Len(open) : extents[i] = ends[i]
      /\ extents[Len(open) + 1] = e
      /\ Len(stack) = Len(open) + 1
  BY <1>a, <1>b, <1>c, PushNested
<1>2. Len(extents) = Len(open) + 1
  BY <1>1 DEF Nested
<1> HIDE DEF stack, extents
<1>3. /\ declared' \in 0..(MaxBytes + MaxSize)
      /\ offset + 1 + payload.bytes <= declared' /\ declared <= declared'
      /\ declared' = declared \/ declared' = offset + 1 + payload.bytes
      /\ payload.bytes \in Nat /\ e.bytes \in Nat
  <2>1. Declare(payload)
    BY DEF payload
  <2> QED BY <1>0, <1>c, <2>1, ClaimGrows, SizeFields, ConstantFacts
<1>4. Account(Boundary, extents, offset + 1, unit, declared')
  <2>1. /\ \A i \in 1..Len(ends) : ends[i].known => ends[i].bytes <= declared
        /\ Covered(ends, offset, declared)
    BY DEF Inv, Account
  <2>2. \A i \in 1..Len(extents) : i \in 1..Len(open) \/ i = Len(open) + 1
    BY <1>2, <1>a
  <2>3. ASSUME NEW i \in 1..Len(extents), extents[i].known
        PROVE  extents[i].bytes <= declared'
    <3>1. CASE i \in 1..Len(open)
      <4>1. extents[i] = ends[i] /\ ends[i].known /\ i \in 1..Len(ends)
        BY <1>1, <1>a, <2>3, <3>1
      <4>2. ends[i].bytes <= declared
        BY <2>1, <4>1
      <4>3. ends[i] \in Sizes(MaxBytes + MaxSize) /\ MaxBytes + MaxSize \in Nat
        BY <1>a, <3>1, ConstantFacts
      <4>4. ends[i].bytes \in Nat
        BY <4>3, SizeFields
      <4> QED BY <1>3, <1>a, <4>1, <4>2, <4>4
    <3>2. CASE i = Len(open) + 1
      BY <1>1, <1>c, <1>3, <2>3, <3>2
    <3> QED BY <2>2, <3>1, <3>2
  <2>4. Covered(extents, offset + 1, declared')
    <3>1. CASE declared' = declared
      <4>1. CASE declared <= offset
        BY <1>a, <3>1, <4>1 DEF Covered
      <4>2. ASSUME NEW i \in 1..Len(ends), ends[i].known, declared <= ends[i].bytes
            PROVE  Covered(extents, offset + 1, declared')
        <5>1. i \in 1..Len(extents) /\ extents[i] = ends[i]
          BY <1>1, <1>2, <1>a, <4>2
        <5> QED BY <3>1, <4>2, <5>1 DEF Covered
      <4> QED BY <2>1, <4>1, <4>2 DEF Covered
    <3>2. CASE declared' = offset + 1 + payload.bytes
      <4>1. CASE payload.known
        <5>1. Len(open) + 1 \in 1..Len(extents)
          BY <1>2, <1>a
        <5> QED BY <1>1, <1>c, <1>3, <3>2, <4>1, <5>1 DEF Covered
      <4>2. CASE ~payload.known
        <5>1. payload.bytes = 0
          BY <1>c, <4>2, SizeFields
        <5> QED BY <1>a, <3>2, <5>1 DEF Covered
      <4> QED BY <4>1, <4>2
    <3> QED BY <1>3, <3>1, <3>2
  <2>5. /\ Boundary.kind # "payload" /\ Boundary.kind # "toEnd"
        /\ declared' \in Nat
    BY <1>3, ConstantFacts
  <2>6. declared' >= offset + 1
    BY <1>a, <1>3
  <2> QED BY <2>3, <2>4, <2>5, <2>6 DEF Account
<1>5. /\ Boundary \in States /\ Short(Boundary) /\ report' \in 0..HeaderMax
      /\ seenFirst' \in BOOLEAN /\ unit' \in Units
  BY <1>0, <1>a, ConstantFacts
<1>6. Account(Boundary, extents, offset + 1, unit', declared')
  BY <1>0, <1>4
<1> QED BY <1>0, <1>1, <1>3, <1>5, <1>6, WalkOn

\* Where the walker goes on after the header of an opaque box.
AfterHeader(payload) ==
  CASE ~payload.known -> State("toEnd", 0, NoBox, 0)
    [] payload = Known(0) -> Boundary
    [] OTHER -> State("payload", 0, NoBox, payload.bytes)

LEMMA AfterHeaderFields ==
  ASSUME NEW payload \in Sizes(MaxSize)
  PROVE  /\ AfterHeader(payload) \in States /\ Short(AfterHeader(payload))
         /\ ~payload.known => AfterHeader(payload).kind = "toEnd"
         /\ payload.known /\ payload.bytes = 0 => AfterHeader(payload) = Boundary
         /\ payload.known /\ payload.bytes # 0 =>
              /\ AfterHeader(payload).kind = "payload"
              /\ AfterHeader(payload).remaining = payload.bytes
              /\ payload.bytes \in Nat \ {0}
<1>a. /\ payload.known \in BOOLEAN /\ payload.bytes \in 0..MaxSize
      /\ payload = IF payload.known THEN Known(payload.bytes) ELSE ToEnd
      /\ MaxSize \in Nat /\ HeaderMax \in Nat /\ NoBox \in Boxes
  BY SizeFields, ConstantFacts
<1>b. payload.bytes \in Nat
  BY <1>a
<1>1. CASE ~payload.known
  <2>0. payload # Known(0)
    BY <1>1, SizeFields
  <2>1. AfterHeader(payload) = State("toEnd", 0, NoBox, 0)
    BY <1>1, <2>0 DEF AfterHeader
  <2>2. /\ State("toEnd", 0, NoBox, 0) \in States
        /\ State("toEnd", 0, NoBox, 0).kind = "toEnd"
    BY <1>a DEF State, States
  <2> QED BY <1>1, <2>1, <2>2 DEF Short
<1>2. CASE payload.known /\ payload.bytes = 0
  <2>1. AfterHeader(payload) = Boundary
    BY <1>2, <1>a DEF AfterHeader
  <2> QED BY <1>2, <2>1, ConstantFacts
<1>3. CASE payload.known /\ payload.bytes # 0
  <2>1. payload # Known(0)
    BY <1>3, SizeFields
  <2>2. AfterHeader(payload) = State("payload", 0, NoBox, payload.bytes)
    BY <1>3, <2>1 DEF AfterHeader
  <2> QED BY <1>3, <1>a, <2>2 DEF State, States, Short
<1> QED BY <1>a, <1>1, <1>2, <1>3

(* A header begins an opaque payload.                                       *)
LEMMA CountPayloadInv ==
  ASSUME Inv, phase = "walking", state.kind = "header", ~Overrun,
         NEW box \in Boxes, NEW size \in DeclaredSizes(box.form),
         ~BoxRejected(box, size),
         seenFirst' = TRUE, Declare(Payload(box, size)),
         CountPayload(box, Payload(box, size))
  PROVE  Inv'
<1> DEFINE payload == Payload(box, size)
           e == EndOf(payload)
           next == AfterHeader(payload)
<1>0. /\ offset < MaxBytes /\ offset' = offset + 1 /\ phase' = "walking"
      /\ report' \in {0, HeaderLen(box)}
      /\ unit' = [begin |-> offset + 1, end |-> e] /\ GoOn(next, Debited, ends)
  BY DEF CountPayload, Consumed, AfterHeader
<1>a. /\ offset \in Nat /\ declared \in Nat
      /\ Nested(Debited, ends, offset + 1)
      /\ Len(open) \in Nat /\ Len(ends) = Len(open)
      /\ \A i \in 1..Len(open) : ends[i] \in Sizes(MaxBytes + MaxSize)
  BY BeforeByte
<1>c. /\ payload \in Sizes(MaxSize) /\ e \in Sizes(MaxBytes + MaxSize)
      /\ e.known = payload.known
      /\ payload.known => e.bytes = offset + 1 + payload.bytes
      /\ ~payload.known => payload = ToEnd /\ open = <<>>
      /\ \A i \in 1..Len(open) : Within(e, ends[i])
  BY <1>0, AcceptedBoxFits
<1>3. /\ declared' \in 0..(MaxBytes + MaxSize)
      /\ offset + 1 + payload.bytes <= declared' /\ declared <= declared'
      /\ declared' = declared \/ declared' = offset + 1 + payload.bytes
  <2>1. Declare(payload)
    OBVIOUS
  <2> HIDE DEF payload
  <2> QED BY <1>0, <1>c, <2>1, ClaimGrows
<1>d. /\ next \in States /\ Short(next)
      /\ ~payload.known => next.kind = "toEnd"
      /\ payload.known /\ payload.bytes = 0 => next = Boundary
      /\ payload.known /\ payload.bytes # 0 =>
           /\ next.kind = "payload" /\ next.remaining = payload.bytes
           /\ payload.bytes \in Nat \ {0}
  <2> HIDE DEF payload
  <2> QED BY <1>c, AfterHeaderFields
<1> HIDE DEF payload, e, next
<1>e. e = IF e.known THEN Known(e.bytes) ELSE ToEnd
  BY <1>c, SizeFields, ConstantFacts
<1>f. payload.bytes \in Nat /\ payload.known \in BOOLEAN
  BY <1>c, SizeFields, ConstantFacts
<1>4. Account(next, ends, offset + 1, unit', declared')
  <2>1. /\ \A i \in 1..Len(ends) : ends[i].known => ends[i].bytes <= declared
        /\ Covered(ends, offset, declared)
    BY DEF Inv, Account
  <2>2. \A i \in 1..Len(ends) : ends[i].known => ends[i].bytes <= declared'
    <3> SUFFICES ASSUME NEW i \in 1..Len(ends), ends[i].known
                 PROVE  ends[i].bytes <= declared'
      OBVIOUS
    <3>1. ends[i].bytes \in Nat /\ ends[i].bytes <= declared
      BY <1>a, <2>1, SizeFields, ConstantFacts
    <3> QED BY <1>a, <1>3, <3>1, ConstantFacts
  <2>3. Boundary.kind = "header" /\ unit'.begin = offset + 1 /\ unit'.end = e
    BY <1>0, ConstantFacts
  <2>4. next.kind = "payload" =>
          /\ next.remaining >= 1
          /\ unit'.end = Known(offset + 1 + next.remaining)
          /\ unit'.begin <= offset + 1
          /\ Fits(ends, offset + 1, next.remaining)
          /\ offset + 1 + next.remaining <= declared'
    <3> SUFFICES ASSUME next.kind = "payload"
                 PROVE  /\ next.remaining >= 1
                        /\ unit'.end = Known(offset + 1 + next.remaining)
                        /\ Fits(ends, offset + 1, next.remaining)
                        /\ offset + 1 + next.remaining <= declared'
      BY <1>a, <2>3
    <3>1. payload.known /\ payload.bytes # 0
      BY <1>d, <1>f, <2>3
    <3>2. next.remaining = payload.bytes /\ next.remaining >= 1
      BY <1>d, <3>1
    <3>3. unit'.end = Known(offset + 1 + next.remaining)
      BY <1>c, <1>e, <2>3, <3>1, <3>2
    <3>4. Fits(ends, offset + 1, next.remaining)
      BY <1>a, <1>c, <3>1, <3>2 DEF Fits, Within
    <3> QED BY <1>3, <3>2, <3>3, <3>4
  <2>5. next = Boundary => declared' >= offset + 1
    BY <1>3, <1>a, <1>f, ConstantFacts
  <2>6. \/ Covered(ends, offset + 1, declared')
        \/ next.kind = "payload" /\ declared' <= offset + 1 + next.remaining
    <3>1. CASE declared' = declared
      BY <1>a, <2>1, <3>1 DEF Covered
    <3>2. CASE declared' = offset + 1 + payload.bytes
      <4>1. CASE payload.bytes = 0
        BY <1>a, <3>2, <4>1 DEF Covered
      <4>2. CASE payload.bytes # 0
        <5>1. payload.known
          BY <1>c, <4>2, SizeFields
        <5> QED BY <1>a, <1>d, <1>f, <3>2, <4>2, <5>1
      <4> QED BY <4>1, <4>2
    <3> QED BY <1>3, <3>1, <3>2
  <2>7. next.kind = "toEnd" => Len(ends) = 0
    <3>1. next.kind = "toEnd" => ~payload.known
      BY <1>d, <1>f, <2>3
    <3> QED BY <1>a, <1>c, <3>1, EmptySeq
  <2> QED BY <2>2, <2>4, <2>5, <2>6, <2>7 DEF Account
<1>5. /\ report' \in 0..HeaderMax /\ seenFirst' \in BOOLEAN
  BY <1>0, ConstantFacts
<1>6. unit' \in Units
  BY <1>0, <1>a, <1>c, ConstantFacts DEF Units
<1> QED BY <1>0, <1>a, <1>3, <1>4, <1>5, <1>6, <1>d, WalkOn

(* A byte of the header, of either kind.                                    *)
LEMMA HeaderInv ==
  ASSUME Inv, HeaderByte
  PROVE  Inv'
<1> DEFINE len == state.len + 1
<1>1. PICK box \in BoxAt(len) :
        IF Completes(len, box) THEN OpenBox(box)
        ELSE /\ GoOn(State("header", len, box, 0), Debited, ends)
             /\ Consumed(0)
             /\ UNCHANGED <<seenFirst, unit, declared>>
  BY DEF HeaderByte
<1>2. state.kind = "header" /\ ~Overrun
  BY DEF HeaderByte
<1>3. CASE Completes(len, box)
  <2>1. PICK size \in DeclaredSizes(box.form) :
          /\ ~BoxRejected(box, size)
          /\ seenFirst' = TRUE
          /\ Declare(Payload(box, size))
          /\ IF box.type.container THEN Descend(Payload(box, size))
             ELSE CountPayload(box, Payload(box, size))
    BY <1>1, <1>3 DEF OpenBox
  <2>2. phase = "walking"
    BY <2>1 DEF Descend, CountPayload, Consumed
  <2>3. box \in Boxes
    BY <2>2, BeforeByte DEF BoxAt, States
  <2>4. CASE box.type.container
    BY <1>2, <2>1, <2>2, <2>3, <2>4, DescendInv
  <2>5. CASE ~box.type.container
    BY <1>2, <2>1, <2>2, <2>3, <2>5, CountPayloadInv
  <2> QED BY <2>4, <2>5
<1>4. CASE ~Completes(len, box)
  <2>1. phase = "walking"
    BY <1>1, <1>4 DEF Consumed
  <2> QED BY <1>1, <1>2, <1>4, <2>1, GrowInv
<1> QED BY <1>3, <1>4

(* The rest of a box that is open to the end.                               *)
LEMMA ToEndInv ==
  ASSUME Inv, PayloadToEndByte
  PROVE  Inv'
<1>1. /\ phase = "walking" /\ state.kind = "toEnd" /\ offset < MaxBytes
      /\ phase' = "walking" /\ offset' = offset + 1 /\ report' = 0
      /\ state' = state /\ open' = open /\ ends' = ends
      /\ seenFirst' = seenFirst /\ unit' = unit /\ declared' = declared
  BY DEF PayloadToEndByte, Consumed
<1>2. /\ Nested(open, ends, offset) /\ offset \in Nat /\ Len(open) = 0
      /\ Len(ends) = 0 /\ declared \in Nat
      /\ Account(state, ends, offset, unit, declared)
  BY <1>1, BeforeByte DEF Inv, Account
<1>3. Nested(open, ends, offset + 1)
  BY <1>2 DEF Nested
<1>4. Account(state, ends, offset + 1, unit, declared)
  BY <1>1, <1>2, ConstantFacts DEF Account, Covered
<1>5. TypeOK'
  BY <1>1, <1>2, ConstantFacts DEF Inv, TypeOK
<1> QED BY <1>1, <1>2, <1>3, <1>4, <1>5 DEF Inv

(* The walker refuses the byte or the end.                                  *)
LEMMA RefuseInv ==
  ASSUME Inv, NEW moved \in {0, 1}, offset + moved <= MaxBytes, Refuse(moved)
  PROVE  Inv'
<1>1. offset \in Nat /\ offset + moved \in 0..MaxBytes
  BY ConstantFacts DEF Inv, TypeOK
<1>2. TypeOK'
  BY <1>1, ConstantFacts DEF Inv, TypeOK, Refuse
<1> QED BY <1>2 DEF Inv, Refuse

(* The stream ends where its boxes say.                                     *)
LEMMA FinishInv ==
  ASSUME Inv, FinishOk
  PROVE  Inv'
<1>1. /\ phase = "walking" /\ EndsWell /\ phase' = "ended"
      /\ UNCHANGED <<state, open, offset, seenFirst, report, ends, unit, declared>>
  BY DEF FinishOk
<1>2. TypeOK'
  BY <1>1 DEF Inv, TypeOK
<1>3. ASSUME state.kind # "toEnd" PROVE declared = offset
  <2>1. state = Boundary /\ AllClosed /\ state.kind = "header"
    BY <1>1, <1>3, ConstantFacts DEF EndsWell, AtBoxBoundary
  <2>2. /\ Nested(open, ends, offset) /\ Len(ends) = Len(open)
        /\ offset \in Nat /\ declared \in Nat
        /\ \A i \in 1..Len(open) : ends[i] \in Sizes(MaxBytes + MaxSize)
        /\ DOMAIN open = 1..Len(open)
    BY <1>1, BeforeByte, LenProperties DEF Nested
  <2>3. declared >= offset /\ Covered(ends, offset, declared)
    BY <1>1, <2>1 DEF Inv, Account
  <2>4. ASSUME NEW i \in 1..Len(ends) PROVE ~ends[i].known
    <3>1. open[i] = Left(ends[i], offset) /\ ~open[i].known
      BY <2>1, <2>2 DEF Nested, AllClosed
    <3> QED BY <3>1, SizeFields DEF Left
  <2> QED BY <2>2, <2>3, <2>4 DEF Covered
<1> QED BY <1>1, <1>2, <1>3 DEF Inv

LEMMA NextInv == Inv /\ [Next]_vars => Inv'
<1> SUFFICES ASSUME Inv, [Next]_vars PROVE Inv'
  OBVIOUS
<1>0. offset \in Nat /\ MaxBytes \in Nat /\ offset <= MaxBytes
  BY ConstantFacts DEF Inv, TypeOK
<1>1. ASSUME HeaderByte PROVE Inv'
  BY <1>1, HeaderInv
<1>2. ASSUME PayloadByte PROVE Inv'
  BY <1>2, PayloadInv
<1>3. ASSUME PayloadToEndByte PROVE Inv'
  BY <1>3, ToEndInv
<1>4. ASSUME OverrunFault \/ HeaderFault PROVE Inv'
  <2>1. offset < MaxBytes /\ Refuse(1)
    BY <1>4 DEF OverrunFault, HeaderFault
  <2> QED BY <1>0, <2>1, RefuseInv
<1>5. ASSUME FinishOk PROVE Inv'
  BY <1>5, FinishInv
<1>6. ASSUME FinishTruncated PROVE Inv'
  BY <1>0, <1>6, RefuseInv DEF FinishTruncated
<1>7. ASSUME UNCHANGED vars PROVE Inv'
  BY <1>7 DEF vars, Inv, TypeOK, Short, Account, Nested, Covered, Fits, Left
<1> QED BY <1>1, <1>2, <1>3, <1>4, <1>5, <1>6, <1>7 DEF Next

LEMMA Invariance == Spec => []Inv
<1> QED BY InitInv, NextInv, PTL DEF Spec

(* The types, and the depth of the stack, for every layout and stream.      *)
THEOREM TypeCorrect == Spec => []TypeOK
<1>1. Inv => TypeOK
  BY DEF Inv
<1> QED BY <1>1, Invariance, PTL

(* The counters of the open containers tell the truth about the nesting.    *)
THEOREM CountersTellTheNesting == Spec => []ExtentsNest
<1>1. Inv => ExtentsNest
  <2> SUFFICES ASSUME Inv, phase = "walking"
               PROVE  ExtentsNest
    BY DEF ExtentsNest
  <2>1. /\ Nested(open, ends, offset) /\ Len(ends) = Len(open)
        /\ DOMAIN open = 1..Len(open) /\ DOMAIN ends = 1..Len(open)
        /\ offset \in Nat
    BY BeforeByte, LenProperties DEF Nested
  <2> QED BY <2>1 DEF Inv, Account, Fits, Nested, Left, Within, ExtentsNest
<1> QED BY <1>1, Invariance, PTL

(* At a boundary no exhausted container is open.                            *)
THEOREM BoundariesAreLive == Spec => []BoundaryIsLive
<1>1. Inv => BoundaryIsLive
  BY LenProperties DEF Inv, BoundaryIsLive, AtBoxBoundary, Nested
<1> QED BY <1>1, Invariance, PTL

(* An accepted stream ends where its boxes say.                             *)
THEOREM AcceptedStreamsAreWhole == Spec => []FinishedWhole
<1>1. Inv => FinishedWhole
  BY DEF Inv, FinishedWhole
<1> QED BY <1>1, Invariance, PTL

(* The size check of a header is enough for every byte of its payload.      *)
THEOREM PayloadsRunToTheirEnd == Spec => PayloadNeverOverruns
<1>1. Inv /\ [Next]_vars =>
        [state.kind = "payload" /\ offset' = offset + 1 => phase' # "faulted"]_vars
  <2> SUFFICES ASSUME Inv, Next, state.kind = "payload", offset' = offset + 1,
                      phase' = "faulted"
               PROVE  FALSE
    BY DEF vars
  <2>1. phase = "walking" => ~Overrun
    BY PayloadCovered
  <2>2. offset \in Nat
    BY ConstantFacts DEF Inv, TypeOK
  <2> QED BY <2>1, <2>2
          DEF Next, HeaderByte, PayloadByte, PayloadToEndByte, OverrunFault,
              HeaderFault, FinishOk, FinishTruncated, Refuse, Consumed
<1> QED BY <1>1, Invariance, PTL DEF Spec, PayloadNeverOverruns

(***************************************************************************)
(* The refinement.                                                         *)
(***************************************************************************)
\* What a byte makes the driver hear.
Hears(seen) == Heard' = seen.next /\ report' = seen.large

LEMMA HeardFields ==
  /\ Heard.at = (state = Boundary) /\ Heard.owed = Owed
  /\ Heard.open = (state.kind = "toEnd")
  /\ state.kind = "header" => Heard.header = state.len
  /\ state.kind # "header" => Heard.header = 0
  /\ state.kind # "payload" => Owed = 0
BY DEF Heard, AtBoxBoundary, Owed, InLargePayload

(* A byte the driver hears as one the contract allows is a step of it.      *)
LEMMA ConsumeStep ==
  ASSUME phase = "walking", phase' = "walking",
         NEW seen \in Reports!HeaderBytes(Isobmff, Heard)
                        \cup Reports!PayloadBytes(Isobmff, Heard),
         Hears(seen)
  PROVE  Reports!Next
BY DEF Hears, Reports!Next, Reports!Consume

(* The bytes a header allows.                                               *)
LEMMA HeaderAllows ==
  ASSUME Inv, phase = "walking", state.kind = "header"
  PROVE  LET len == state.len + 1 IN
         len <= HeaderMax =>
           \A seen \in {Reports!Seen(FALSE, len, 0, FALSE, 0),
                        Reports!Seen(TRUE, 0, 0, FALSE, 0),
                        Reports!Seen(FALSE, 0, 0, FALSE, 0),
                        Reports!Seen(FALSE, 0, ChunkMin, FALSE, len),
                        Reports!Seen(FALSE, 0, 0, TRUE, len)} :
             seen \in Reports!HeaderBytes(Isobmff, Heard)
<1> DEFINE len == state.len + 1
<1>1. /\ Heard.header = state.len /\ Heard.open = FALSE
      /\ Heard.at \/ Heard.header > 0
      /\ state.len \in Nat
  <2>1. state.len \in Nat /\ (state = Boundary \/ state.len >= 1)
    BY ConstantFacts DEF Inv, TypeOK, Short
  <2>2. Heard.header = state.len /\ Heard.at = (state = Boundary)
    BY HeardFields
  <2>3. Heard.open = FALSE
    BY HeardFields
  <2>4. CASE state = Boundary
    BY <2>1, <2>2, <2>3, <2>4, Zenon
  <2>5. CASE state.len >= 1
    BY <2>1, <2>2, <2>3, <2>5
  <2> QED BY <2>1, <2>4, <2>5
<1>2. Isobmff.large = TRUE /\ Isobmff.unknown = "stream" /\ Isobmff.unitMin = ChunkMin
  BY DEF Isobmff
<1>3. SUFFICES ASSUME len <= HeaderMax
      PROVE  \A seen \in {Reports!Seen(FALSE, len, 0, FALSE, 0),
                          Reports!Seen(TRUE, 0, 0, FALSE, 0),
                          Reports!Seen(FALSE, 0, 0, FALSE, 0),
                          Reports!Seen(FALSE, 0, ChunkMin, FALSE, len),
                          Reports!Seen(FALSE, 0, 0, TRUE, len)} :
               seen \in Reports!HeaderBytes(Isobmff, Heard)
  OBVIOUS
<1>4. ~(len > HeaderMax)
  BY <1>1, <1>3, ConstantFacts
<1>5. Reports!HeaderBytes(Isobmff, Heard) =
        {Reports!Seen(FALSE, len, 0, FALSE, 0)}
        \cup {Reports!Seen(at, 0, 0, FALSE, 0) : at \in BOOLEAN}
        \cup {Reports!Seen(FALSE, 0, ChunkMin, FALSE, len)}
        \cup {Reports!Seen(FALSE, 0, 0, TRUE, len)}
  BY <1>1, <1>2, <1>4 DEF Reports!HeaderBytes
<1> QED BY <1>5

(* What the driver hears of a byte.                                         *)
LEMMA HearsIf ==
  ASSUME NEW at \in BOOLEAN, NEW header, NEW owed, NEW toEnd \in BOOLEAN, NEW large,
         state' = Boundary <=> at, state'.kind = "toEnd" <=> toEnd,
         header = IF state'.kind = "header" THEN state'.len ELSE 0,
         owed = Owed', large = report'
  PROVE  Hears(Reports!Seen(at, header, owed, toEnd, large))
<1>1. (state' = Boundary) = at /\ (state'.kind = "toEnd") = toEnd
  BY Zenon
<1>2. Heard' = [at |-> at, header |-> header, owed |-> owed, open |-> toEnd]
  BY <1>1, Zenon DEF Heard, AtBoxBoundary
<1> QED BY <1>2, Zenon DEF Hears, Reports!Seen

LEMMA NothingOwed == state'.kind # "payload" => Owed' = 0
BY DEF Owed, InLargePayload

(* A header byte that completes nothing.                                    *)
LEMMA GrowHeard ==
  ASSUME Inv, phase = "walking", state.kind = "header",
         NEW box \in BoxAt(state.len + 1), ~Completes(state.len + 1, box),
         GoOn(State("header", state.len + 1, box, 0), Debited, ends),
         Consumed(0)
  PROVE  Reports!Next
<1> DEFINE len == state.len + 1
           seen == Reports!Seen(FALSE, len, 0, FALSE, 0)
<1>1. /\ state' = State("header", len, box, 0) /\ phase' = "walking"
      /\ report' = 0
  BY DEF GoOn, Consumed
<1>2. /\ state'.kind = "header" /\ state'.len = len
  BY <1>1 DEF State
<1>3. len <= HeaderMax /\ len # 0
  BY HeaderGrows
<1>4. state' # Boundary
  BY <1>2, <1>3, ConstantFacts
<1>5. Hears(seen)
  BY <1>1, <1>2, <1>4, HearsIf, NothingOwed
<1>6. seen \in Reports!HeaderBytes(Isobmff, Heard)
  BY <1>3, HeaderAllows
<1> QED BY <1>1, <1>5, <1>6, ConsumeStep

(* A completed header: descended into, or counted.                          *)
LEMMA OpenHeard ==
  ASSUME Inv, phase = "walking", state.kind = "header", ~Overrun,
         NEW box \in BoxAt(state.len + 1), Completes(state.len + 1, box),
         OpenBox(box)
  PROVE  Reports!Next
<1> DEFINE len == state.len + 1
<1>1. PICK size \in DeclaredSizes(box.form) :
        /\ ~BoxRejected(box, size)
        /\ IF box.type.container THEN Descend(Payload(box, size))
           ELSE CountPayload(box, Payload(box, size))
  BY DEF OpenBox
<1>2. box \in Boxes /\ len = HeaderLen(box)
  BY BeforeByte DEF BoxAt, States, Completes
<1>3. len <= HeaderMax /\ len \in Nat
  BY <1>2, ConstantFacts
<1>4. \A seen \in {Reports!Seen(TRUE, 0, 0, FALSE, 0),
                   Reports!Seen(FALSE, 0, 0, FALSE, 0),
                   Reports!Seen(FALSE, 0, ChunkMin, FALSE, len),
                   Reports!Seen(FALSE, 0, 0, TRUE, len)} :
        phase' = "walking" /\ Hears(seen) => Reports!Next
  BY <1>3, HeaderAllows, ConsumeStep
<1>b. Boundary.kind = "header" /\ Boundary.len = 0
  BY ConstantFacts
<1>5. CASE box.type.container
  <2>1. state' = Boundary /\ report' = 0 /\ phase' = "walking"
    BY <1>1, <1>5 DEF Descend, GoOn, Consumed
  <2>2. Hears(Reports!Seen(TRUE, 0, 0, FALSE, 0))
    BY <1>b, <2>1, HearsIf, NothingOwed
  <2> QED BY <1>4, <2>1, <2>2
<1>6. CASE ~box.type.container
  <2> DEFINE payload == Payload(box, size)
  <2>1. /\ state' = AfterHeader(payload) /\ phase' = "walking"
        /\ report' = IF IsLarge(payload) THEN len ELSE 0
        /\ unit' = [begin |-> offset + 1, end |-> EndOf(payload)]
        /\ offset' = offset + 1 /\ offset < MaxBytes
    BY <1>1, <1>2, <1>6 DEF CountPayload, GoOn, Consumed, AfterHeader
  <2>2. /\ payload \in Sizes(MaxSize)
        /\ payload.known => EndOf(payload).bytes = offset + 1 + payload.bytes
    BY <1>1, <1>2, <2>1, AcceptedBoxFits
  <2> HIDE DEF payload
  <2>3. /\ payload.known \in BOOLEAN /\ payload.bytes \in Nat
        /\ offset \in Nat /\ ChunkMin \in Nat /\ ChunkMin >= 1
    <3>1. payload.known \in BOOLEAN /\ payload.bytes \in Nat
      BY <2>2, SizeFields, ConstantFacts
    <3>2. offset \in Nat
      BY BeforeByte
    <3> QED BY <3>1, <3>2, ConstantFacts
  <2>4. CASE ~payload.known
    <3>1. state'.kind = "toEnd" /\ report' = len /\ state' # Boundary
      BY <1>b, <2>1, <2>2, <2>4, AfterHeaderFields DEF IsLarge
    <3>2. Hears(Reports!Seen(FALSE, 0, 0, TRUE, len))
      BY <3>1, HearsIf, NothingOwed
    <3> QED BY <1>4, <2>1, <3>2
  <2>5. CASE payload.known /\ payload.bytes = 0
    <3>1. state' = Boundary /\ report' = 0
      BY <2>1, <2>2, <2>3, <2>5, AfterHeaderFields DEF IsLarge
    <3>2. Hears(Reports!Seen(TRUE, 0, 0, FALSE, 0))
      BY <1>b, <3>1, HearsIf, NothingOwed
    <3> QED BY <1>4, <2>1, <3>2
  <2>6. CASE payload.known /\ payload.bytes # 0
    <3>1. state'.kind = "payload" /\ state' # Boundary
      BY <1>b, <2>1, <2>2, <2>6, AfterHeaderFields
    <3>2. /\ unit'.end.bytes - unit'.begin = payload.bytes
          /\ offset' - unit'.begin = 0
      BY <2>1, <2>2, <2>3, <2>6
    <3>3. Owed' = IF payload.bytes >= ChunkMin THEN ChunkMin ELSE 0
      BY <2>3, <3>1, <3>2 DEF Owed, InLargePayload
    <3>4. CASE payload.bytes >= ChunkMin
      <4>1. Owed' = ChunkMin /\ report' = len
        BY <2>1, <3>3, <3>4 DEF IsLarge
      <4>2. Hears(Reports!Seen(FALSE, 0, ChunkMin, FALSE, len))
        BY <3>1, <4>1, HearsIf, NothingOwed
      <4> QED BY <1>4, <2>1, <4>2
    <3>5. CASE ~(payload.bytes >= ChunkMin)
      <4>1. Owed' = 0 /\ report' = 0
        BY <2>1, <2>6, <3>3, <3>5 DEF IsLarge
      <4>2. Hears(Reports!Seen(FALSE, 0, 0, FALSE, 0))
        BY <3>1, <4>1, HearsIf, NothingOwed
      <4> QED BY <1>4, <2>1, <4>2
    <3> QED BY <3>4, <3>5
  <2> QED BY <2>3, <2>4, <2>5, <2>6
<1> QED BY <1>5, <1>6

(* A payload byte.                                                          *)
LEMMA PayloadHeard ==
  ASSUME Inv, PayloadByte
  PROVE  Reports!Next
<1> DEFINE next == IF state.remaining = 1 THEN Boundary
                   ELSE [state EXCEPT !.remaining = @ - 1]
<1>0. /\ phase = "walking" /\ phase' = "walking" /\ state.kind = "payload"
      /\ report' = 0 /\ offset' = offset + 1 /\ unit' = unit /\ state' = next
  BY DEF PayloadByte, Consumed, GoOn
<1>a. /\ offset \in Nat /\ state \in States /\ unit \in Units
      /\ state.remaining \in Nat /\ state.remaining >= 1
      /\ ChunkMin \in Nat /\ unit.begin \in Nat
  BY <1>0, BeforeByte, PayloadCovered, ConstantFacts DEF Units
<1>b. /\ unit.end.bytes = offset + state.remaining /\ unit.begin <= offset
      /\ Boundary.kind = "header" /\ Boundary.len = 0
  BY <1>0, SizeFields, ConstantFacts DEF Inv, Account
<1>1. /\ state.remaining = 1 => state' = Boundary
      /\ state.remaining # 1 => state'.kind = "payload" /\ state' # Boundary
  BY <1>0, <1>a, <1>b DEF States
<1> HIDE DEF next
<1> DEFINE large == offset + state.remaining - unit.begin >= ChunkMin
           seen == offset - unit.begin
<1>2. Owed = IF large /\ seen < ChunkMin THEN ChunkMin - seen ELSE 0
  BY <1>0, <1>a, <1>b DEF Owed, InLargePayload
<1>3. state.remaining # 1 =>
        Owed' = IF large /\ seen + 1 < ChunkMin THEN ChunkMin - (seen + 1) ELSE 0
  <2> SUFFICES ASSUME state.remaining # 1
               PROVE  Owed' = IF large /\ seen + 1 < ChunkMin
                              THEN ChunkMin - (seen + 1) ELSE 0
    OBVIOUS
  <2>1. state'.kind = "payload" /\ unit'.end.bytes = offset + state.remaining
        /\ unit'.begin = unit.begin /\ offset' - unit.begin = seen + 1
    BY <1>0, <1>1, <1>a, <1>b
  <2> QED BY <1>a, <2>1 DEF Owed, InLargePayload
<1>4. /\ ~Heard.at /\ ~(Heard.header > 0) /\ Heard.open = FALSE
      /\ Heard.owed = Owed
  <2>1. state # Boundary /\ state.kind # "toEnd" /\ state.kind # "header"
    BY <1>0, <1>b
  <2>2. ~Heard.at /\ Heard.open = FALSE /\ Heard.owed = Owed /\ Heard.header = 0
    BY <2>1, HeardFields, Zenon
  <2> QED BY <2>2
<1>5. CASE Owed > 1
  <2>1. state.remaining # 1 /\ Owed' = Owed - 1
    BY <1>2, <1>3, <1>5, <1>a, <1>b
  <2>2. Hears(Reports!Seen(FALSE, 0, Owed - 1, FALSE, 0))
    BY <1>0, <1>1, <2>1, HearsIf
  <2>3. Reports!Seen(FALSE, 0, Owed - 1, FALSE, 0)
          \in Reports!PayloadBytes(Isobmff, Heard)
    <3>1. Reports!PayloadBytes(Isobmff, Heard) =
            {Reports!Seen(FALSE, 0, Heard.owed - 1, FALSE, 0)}
      BY <1>4, <1>5, Zenon DEF Reports!PayloadBytes
    <3> QED BY <1>4, <3>1
  <2> QED BY <1>0, <2>2, <2>3, ConsumeStep
<1>6. CASE ~(Owed > 1)
  <2>1. Reports!PayloadBytes(Isobmff, Heard) =
          {Reports!Seen(FALSE, 0, 0, FALSE, 0)}
          \cup {Reports!Seen(TRUE, 0, 0, FALSE, 0)}
    BY <1>4, <1>6, Zenon DEF Reports!PayloadBytes
  <2>2. CASE state.remaining = 1
    <3>1. Hears(Reports!Seen(TRUE, 0, 0, FALSE, 0))
      BY <1>0, <1>1, <1>b, <2>2, HearsIf, NothingOwed
    <3> QED BY <1>0, <2>1, <3>1, ConsumeStep
  <2>3. CASE state.remaining # 1
    <3>1. Owed' = 0
      BY <1>2, <1>3, <1>6, <1>a, <1>b, <2>3
    <3>2. Hears(Reports!Seen(FALSE, 0, 0, FALSE, 0))
      BY <1>0, <1>1, <2>3, <3>1, HearsIf
    <3> QED BY <1>0, <2>1, <3>2, ConsumeStep
  <2> QED BY <2>2, <2>3
<1> QED BY <1>5, <1>6

(* A byte of a box that is open to the end.                                 *)
LEMMA ToEndHeard ==
  ASSUME Inv, PayloadToEndByte
  PROVE  Reports!Next
<1>1. /\ phase = "walking" /\ phase' = "walking" /\ state.kind = "toEnd"
      /\ report' = 0 /\ state' = state /\ state # Boundary
  BY ConstantFacts DEF PayloadToEndByte, Consumed
<1>2. Hears(Reports!Seen(FALSE, 0, 0, TRUE, 0))
  BY <1>1, HearsIf, NothingOwed
<1>3. /\ ~Heard.at /\ ~(Heard.header > 0) /\ Heard.open = TRUE
      /\ ~(Heard.owed > 1) /\ Isobmff.unknown = "stream"
  <2>1. state.kind # "header" /\ state.kind # "payload"
    BY <1>1
  <2>2. ~Heard.at /\ Heard.open = TRUE /\ Heard.owed = 0 /\ Heard.header = 0
    BY <1>1, <2>1, HeardFields, Zenon
  <2> QED BY <2>2 DEF Isobmff
<1>4. Reports!Seen(FALSE, 0, 0, TRUE, 0) \in Reports!PayloadBytes(Isobmff, Heard)
  <2>1. Reports!PayloadBytes(Isobmff, Heard) =
          {Reports!Seen(FALSE, 0, 0, Heard.open, 0)}
          \cup (IF Heard.open /\ Isobmff.unknown = "stream" THEN {}
                ELSE {Reports!Seen(TRUE, 0, 0, FALSE, 0)})
    BY <1>3, Zenon DEF Reports!PayloadBytes
  <2> QED BY <1>3, <2>1, Zenon
<1> QED BY <1>1, <1>2, <1>4, ConsumeStep

(* The stream ends where nothing is owed.                                   *)
LEMMA FinishHeard ==
  ASSUME Inv, FinishOk
  PROVE  Reports!Next
<1>1. /\ phase = "walking" /\ phase' = "ended" /\ EndsWell
      /\ UNCHANGED <<state, offset, report, unit>>
  BY DEF FinishOk
<1>2. Heard' = Heard
  BY <1>1 DEF Heard, AtBoxBoundary, Owed, InLargePayload
<1>3. state = Boundary \/ state.kind = "toEnd"
  BY <1>1 DEF EndsWell, AtBoxBoundary
<1>4. Heard.header = 0 /\ Heard.owed = 0
  BY <1>3, HeardFields, ConstantFacts
<1> QED BY <1>1, <1>2, <1>4 DEF Reports!Next, Reports!End

(* The walker keeps its contract with the driver: every header, payload and *)
(* refused byte of a box stream is one that ContainerChunker provides for.  *)
THEOREM WalkerKeepsItsContract == Spec => ImplementsReports
<1>1. Init => Reports!Init
  <2> SUFFICES ASSUME Init PROVE Reports!Init
    OBVIOUS
  <2>1. state = Boundary /\ report = 0 /\ phase = "walking"
        /\ Boundary.kind = "header" /\ Boundary.len = 0
    BY ConstantFacts DEF Init
  <2>2. (state = Boundary) = TRUE /\ (state.kind = "toEnd") = FALSE
    BY <2>1
  <2>3. Owed = 0
    BY <2>1, HeardFields
  <2>4. Heard = [at |-> TRUE, header |-> 0, owed |-> 0, open |-> FALSE]
    BY <2>1, <2>2, <2>3, Zenon DEF Heard, AtBoxBoundary
  <2> QED BY <2>1, <2>4 DEF Reports!Init, Reports!NewWalker
<1>2. Inv /\ [Next]_vars => [Reports!Next]_<<Heard, report, phase>>
  <2> SUFFICES ASSUME Inv, [Next]_vars
               PROVE  Reports!Next \/ UNCHANGED <<Heard, report, phase>>
    OBVIOUS
  <2>1. CASE HeaderByte
    <3>1. PICK box \in BoxAt(state.len + 1) :
            IF Completes(state.len + 1, box) THEN OpenBox(box)
            ELSE /\ GoOn(State("header", state.len + 1, box, 0), Debited, ends)
                 /\ Consumed(0)
      BY <2>1 DEF HeaderByte
    <3>2. state.kind = "header" /\ ~Overrun
      BY <2>1 DEF HeaderByte
    <3>3. phase = "walking"
      BY <3>1 DEF OpenBox, Descend, CountPayload, Consumed
    <3> QED BY <3>1, <3>2, <3>3, GrowHeard, OpenHeard
  <2>2. CASE PayloadByte
    BY <2>2, PayloadHeard
  <2>3. CASE PayloadToEndByte
    BY <2>3, ToEndHeard
  <2>4. CASE OverrunFault \/ HeaderFault \/ FinishTruncated
    BY <2>4 DEF OverrunFault, HeaderFault, FinishTruncated, Refuse,
                Reports!Next, Reports!Fault
  <2>5. CASE FinishOk
    BY <2>5, FinishHeard
  <2>6. CASE UNCHANGED vars
    BY <2>6 DEF vars, Heard, AtBoxBoundary, Owed, InLargePayload
  <2> QED BY <2>1, <2>2, <2>3, <2>4, <2>5, <2>6 DEF Next
<1>3. Spec => Reports!Spec
  BY <1>1, <1>2, Invariance, PTL DEF Spec, Reports!Spec
<1> QED BY <1>3 DEF ImplementsReports
==============================================================================
