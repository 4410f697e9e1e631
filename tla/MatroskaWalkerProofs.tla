------------------------ MODULE MatroskaWalkerProofs ------------------------
(***************************************************************************)
(* Proofs about the EBML/Matroska walker, for every length of IDs, sizes   *)
(* and streams.  The stack is a Segment, in it perhaps a Cluster of        *)
(* unknown size, or nothing; the end of the Segment determines the rest.   *)
(***************************************************************************)
EXTENDS MatroskaWalker, SequenceTheorems, TLAPS

(***************************************************************************)
(* Sizes, states and stacks.                                               *)
(***************************************************************************)
\* Where an extent ends, and what is left of it.
IsExtent(e) == e = Unknown \/ \E n \in Nat : e = Known(n)
Left(e, at) == IF e.known THEN Known(e.bytes - at) ELSE Unknown

Seg(left) == [kind |-> "Segment", left |-> left]
Clu == [kind |-> "Cluster", left |-> Unknown]

\* The open containers, `d` of them, when the Segment ends at `e`.
Nest(d, e, at) ==
  IF d = 0 THEN <<>> ELSE IF d = 1 THEN <<Seg(Left(e, at))>> ELSE <<Seg(Left(e, at)), Clu>>
Ends(d, e) == IF d = 0 THEN <<>> ELSE IF d = 1 THEN <<e>> ELSE <<e, Unknown>>

LEMMA SizeFields ==
  /\ \A n : Known(n).known = TRUE /\ Known(n).bytes = n
  /\ Unknown.known = FALSE /\ Unknown.bytes = 0
  /\ \A l : Seg(l).kind = "Segment" /\ Seg(l).left = l
  /\ Clu.kind = "Cluster" /\ Clu.left = Unknown
  /\ \A m, n : Known(m) = Known(n) => m = n
BY DEF Known, Unknown, Seg, Clu

LEMMA StateFields ==
  /\ \A k, n, i, s, r :
       LET st == State(k, n, i, s, r) IN
       /\ st.kind = k /\ st.len = n /\ st.idLen = i /\ st.sizeLen = s /\ st.remaining = r
  /\ AtElement = State("id", 0, 0, 0, 0) /\ AtElement.kind = "id" /\ AtElement.len = 0
BY DEF State, AtElement

LEMMA NestFields ==
  ASSUME NEW d \in 0..2, NEW e, NEW at
  PROVE  /\ Len(Nest(d, e, at)) = d /\ Len(Ends(d, e)) = d
         /\ d > 0 => Nest(d, e, at)[1] = Seg(Left(e, at)) /\ Ends(d, e)[1] = e
         /\ d = 2 => Nest(d, e, at)[2] = Clu /\ Ends(d, e)[2] = Unknown
         /\ DOMAIN Nest(d, e, at) = 1..d /\ DOMAIN Ends(d, e) = 1..d
         /\ Nest(d, e, at) = <<>> <=> d = 0
<1>1. CASE d = 0
  BY <1>1 DEF Nest, Ends
<1>2. CASE d = 1
  BY <1>2 DEF Nest, Ends
<1>3. CASE d = 2
  BY <1>3 DEF Nest, Ends
<1> QED BY <1>1, <1>2, <1>3

LEMMA NestLength ==
  \A d \in 0..2 : \A e, at : Len(Nest(d, e, at)) = d /\ DOMAIN Nest(d, e, at) = 1..d
<1>1. ASSUME NEW d \in 0..2, NEW e, NEW at
      PROVE  Len(Nest(d, e, at)) = d /\ DOMAIN Nest(d, e, at) = 1..d
  BY NestFields
<1> QED BY <1>1, Zenon

LEMMA NestContents ==
  \A d \in 0..2 : \A e, at :
    /\ DOMAIN Nest(d, e, at) = 1..d /\ DOMAIN Ends(d, e) = 1..d
    /\ d > 0 => Nest(d, e, at)[1] = Seg(Left(e, at)) /\ Ends(d, e)[1] = e
    /\ d = 2 => Nest(d, e, at)[2] = Clu /\ Ends(d, e)[2] = Unknown
<1>1. ASSUME NEW d \in 0..2, NEW e, NEW at
      PROVE  /\ DOMAIN Nest(d, e, at) = 1..d /\ DOMAIN Ends(d, e) = 1..d
             /\ d > 0 => Nest(d, e, at)[1] = Seg(Left(e, at)) /\ Ends(d, e)[1] = e
             /\ d = 2 => Nest(d, e, at)[2] = Clu /\ Ends(d, e)[2] = Unknown
  <2>1. DOMAIN Nest(d, e, at) = 1..d /\ DOMAIN Ends(d, e) = 1..d
    BY NestFields
  <2>2. d > 0 => Nest(d, e, at)[1] = Seg(Left(e, at)) /\ Ends(d, e)[1] = e
    BY NestFields
  <2>3. d = 2 => Nest(d, e, at)[2] = Clu /\ Ends(d, e)[2] = Unknown
    BY NestFields
  <2> QED BY <2>1, <2>2, <2>3
<1> QED BY <1>1, Zenon

LEMMA NestCut ==
  ASSUME NEW d \in 0..2, NEW e, NEW at, NEW n \in 0..d
  PROVE  /\ SubSeq(Nest(d, e, at), 1, n) = Nest(n, e, at)
         /\ SubSeq(Ends(d, e), 1, n) = Ends(n, e)
<1>1. CASE n = d
  <2> DEFINE x == Seg(Left(e, at))
  <2>a. <<>> \in Seq({x, Clu}) /\ <<x>> \in Seq({x, Clu}) /\ <<x, Clu>> \in Seq({x, Clu})
    OBVIOUS
  <2>b. <<>> \in Seq({e, Unknown}) /\ <<e>> \in Seq({e, Unknown})
        /\ <<e, Unknown>> \in Seq({e, Unknown})
    OBVIOUS
  <2>1. /\ Nest(d, e, at) \in Seq({x, Clu}) /\ Len(Nest(d, e, at)) = d
        /\ Ends(d, e) \in Seq({e, Unknown}) /\ Len(Ends(d, e)) = d
    BY <2>a, <2>b, NestFields, Zenon DEF Nest, Ends
  <2> HIDE DEF x
  <2> QED BY <1>1, <2>1, SubSeqFull
<1>2. CASE n = 0
  BY <1>2 DEF Nest, Ends
<1>3. CASE n = 1 /\ d = 2
  <2>1. ASSUME NEW x, NEW y PROVE SubSeq(<<x, y>>, 1, 1) = <<x>>
    <3> DEFINE s == <<x, y>>
    <3>1. s \in Seq({x, y}) /\ Len(s) = 2 /\ s[1] = x
      OBVIOUS
    <3> HIDE DEF s
    <3>2. 1 \in 1..Len(s) /\ 1 \in 1..Len(s)
      BY <3>1
    <3>3. SubSeq(s, 1, 1) = <<s[1]>> \o SubSeq(s, 1 + 1, 1)
      BY <3>1, <3>2, SubSeqRecursiveFirst
    <3>4. SubSeq(s, 1 + 1, 1) = <<>>
      BY SubSeqEmpty
    <3>5. <<s[1]>> \o <<>> = <<s[1]>>
      OBVIOUS
    <3>6. SubSeq(s, 1, 1) = <<x>>
      BY <3>1, <3>3, <3>4, <3>5
    <3> QED BY <3>6 DEF s
  <2>2. Nest(d, e, at) = <<Seg(Left(e, at)), Clu>> /\ Nest(n, e, at) = <<Seg(Left(e, at))>>
        /\ Ends(d, e) = <<e, Unknown>> /\ Ends(n, e) = <<e>>
    BY <1>3 DEF Nest, Ends
  <2> QED BY <1>3, <2>1, <2>2, Zenon
<1>4. n = d \/ n = 0 \/ (n = 1 /\ d = 2)
  OBVIOUS
<1> QED BY <1>1, <1>2, <1>3, <1>4

LEMMA NestIsFunction ==
  ASSUME NEW d \in 0..2, NEW e, NEW at
  PROVE  Nest(d, e, at) = [i \in 1..d |-> IF i = 1 THEN Seg(Left(e, at)) ELSE Clu]
<1>1. CASE d = 0
  BY <1>1 DEF Nest
<1>2. CASE d = 1
  BY <1>2 DEF Nest
<1>3. CASE d = 2
  BY <1>3 DEF Nest
<1> QED BY <1>1, <1>2, <1>3

LEMMA OneLess ==
  ASSUME NEW n PROVE [Seg(Known(n)) EXCEPT !.left.bytes = @ - 1] = Seg(Known(n - 1))
<1>1. ASSUME NEW m PROVE [Known(n) EXCEPT !.bytes = m] = Known(m)
  <2>1. ASSUME NEW b, NEW r, r = [known |-> b, bytes |-> n]
        PROVE  [r EXCEPT !.bytes = m] = [known |-> b, bytes |-> m]
    BY <2>1
  <2>2. \A b : [[known |-> b, bytes |-> n] EXCEPT !.bytes = m] = [known |-> b, bytes |-> m]
    BY <2>1
  <2> QED BY <2>2, Zenon DEF Known
<1>2. \A l, y : [Seg(l) EXCEPT !.left = y] = Seg(y)
  BY DEF Seg
<1> DEFINE s == Seg(Known(n))
<1>3. s.left = Known(n) /\ Known(n).bytes = n
  BY SizeFields
<1> HIDE DEF s
<1>4. [s EXCEPT !.left.bytes = @ - 1]
        = [s EXCEPT !.left = [s.left EXCEPT !.bytes = s.left.bytes - 1]]
  OBVIOUS
<1>5. [s EXCEPT !.left.bytes = @ - 1] = [s EXCEPT !.left = Known(n - 1)]
  BY <1>1, <1>3, <1>4
<1> QED BY <1>2, <1>5 DEF s

(* A byte that overruns nothing is charged against the Segment.             *)
LEMMA DebitedIs ==
  ASSUME NEW d \in 0..2, NEW e, IsExtent(e), NEW at \in Nat,
         open = Nest(d, e, at), d > 0 /\ e.known => at <= e.bytes, ~Overrun
  PROVE  Debited = Nest(d, e, at + 1) /\ (d > 0 /\ e.known => at + 1 <= e.bytes)
<1>1. DOMAIN open = 1..d /\ (d > 0 => open[1] = Seg(Left(e, at))) /\ (d = 2 => open[2] = Clu)
  <2> DEFINE x == Nest(d, e, at)
  <2>1. DOMAIN x = 1..d
    BY NestFields
  <2>2. d > 0 => x[1] = Seg(Left(e, at))
    BY NestFields
  <2>3. d = 2 => x[2] = Clu
    BY NestFields
  <2> QED BY <2>1, <2>2, <2>3
<1>2. d > 0 /\ e.known =>
        /\ e.bytes \in Nat /\ at + 1 <= e.bytes
        /\ [Seg(Left(e, at)) EXCEPT !.left.bytes = @ - 1] = Seg(Left(e, at + 1))
  <2> SUFFICES ASSUME d > 0, e.known
               PROVE  /\ e.bytes \in Nat /\ at + 1 <= e.bytes
                      /\ [Seg(Left(e, at)) EXCEPT !.left.bytes = @ - 1] = Seg(Left(e, at + 1))
    OBVIOUS
  <2>1. PICK n \in Nat : e = Known(n) /\ e.bytes = n
    BY SizeFields DEF IsExtent
  <2>2. Left(e, at) = Known(n - at) /\ Left(e, at + 1) = Known(n - (at + 1))
    BY <2>1 DEF Left
  <2>3. open[1].left.known /\ open[1].left.bytes = n - at
    BY <1>1, <2>2, SizeFields
  <2>4. 1 \in DOMAIN open
    BY <1>1
  <2>5. ~(n - at < 1)
    BY <2>3, <2>4 DEF Overrun
  <2>6. (n - at) - 1 = n - (at + 1)
    BY <2>1
  <2>7. [Seg(Known(n - at)) EXCEPT !.left.bytes = @ - 1] = Seg(Known((n - at) - 1))
    BY OneLess
  <2> QED BY <2>1, <2>2, <2>5, <2>6, <2>7
<1>3. ~e.known => Left(e, at) = Unknown /\ Left(e, at + 1) = Unknown
  BY DEF Left
<1>4. Debited = [i \in 1..d |-> IF i = 1 THEN Seg(Left(e, at + 1)) ELSE Clu]
  <2>1. ASSUME NEW i \in 1..d
        PROVE  (IF open[i].left.known THEN [open[i] EXCEPT !.left.bytes = @ - 1] ELSE open[i])
                 = IF i = 1 THEN Seg(Left(e, at + 1)) ELSE Clu
    <3>1. CASE i = 1 /\ e.known
      <4>1. open[i] = Seg(Left(e, at)) /\ d > 0
        BY <1>1, <3>1
      <4>2. open[i].left.known
        BY <3>1, <4>1, SizeFields DEF Left
      <4> QED BY <1>2, <3>1, <4>1, <4>2
    <3>2. CASE i = 1 /\ ~e.known
      <4>1. open[i] = Seg(Unknown)
        BY <1>1, <1>3, <3>2
      <4>2. ~open[i].left.known
        BY <4>1, SizeFields
      <4> QED BY <1>3, <3>2, <4>1, <4>2
    <3>3. CASE i # 1
      <4>1. open[i] = Clu
        BY <1>1, <3>3
      <4>2. ~open[i].left.known
        BY <4>1, SizeFields
      <4> QED BY <3>3, <4>1, <4>2
    <3> QED BY <3>1, <3>2, <3>3
  <2> QED BY <1>1, <2>1, Zenon DEF Debited
<1>5. Debited = Nest(d, e, at + 1)
  BY <1>4, NestIsFunction
<1> QED BY <1>2, <1>5

(* A stack is exhausted from the Segment on, or nowhere.                    *)
LEMMA ExhaustedIs ==
  ASSUME NEW d \in 0..2, NEW e, IsExtent(e), NEW at \in Nat, NEW i \in 1..d
  PROVE  Exhausted(Nest(d, e, at), i) <=> e = Known(at)
<1> DEFINE x == Nest(d, e, at)
<1>1. x[1] = Seg(Left(e, at)) /\ (d = 2 => x[2] = Clu)
  BY NestFields
<1> HIDE DEF x
<1>2. CASE e = Unknown
  <2>1. \A j \in 1..i : ~x[j].left.known
    BY <1>1, <1>2, SizeFields DEF Left
  <2>2. e # Known(at)
    BY <1>2, SizeFields
  <2> QED BY <2>1, <2>2 DEF Exhausted, Bounds, x
<1>3. ASSUME NEW n \in Nat, e = Known(n)
      PROVE  Exhausted(x, i) <=> e = Known(at)
  <2>1. x[1].left.known /\ x[1].left.bytes = n - at
    BY <1>1, <1>3, SizeFields DEF Left
  <2>2. \A j \in 2..i : ~x[j].left.known
    BY <1>1, SizeFields
  <2>3. \A j : Bounds(x, i, j) <=> j = 1
    BY <2>1, <2>2 DEF Bounds
  <2>4. Exhausted(x, i) <=> n - at = 0
    BY <2>1, <2>3 DEF Exhausted
  <2>5. e = Known(at) <=> n = at
    BY <1>3, SizeFields
  <2> QED BY <2>4, <2>5
<1> QED BY <1>2, <1>3 DEF IsExtent, x

LEMMA LiveIs ==
  ASSUME NEW d \in 0..2, NEW e, IsExtent(e), NEW at \in Nat
  PROVE  Live(Nest(d, e, at)) = IF e = Known(at) THEN 0 ELSE d
<1> DEFINE x == Nest(d, e, at)
           live == IF e = Known(at) THEN 0 ELSE d
           Fits(n) == /\ \A i \in n+1..Len(x) : Exhausted(x, i)
                      /\ n > 0 => ~Exhausted(x, n)
<1>1. Len(x) = d /\ \A i \in 1..d : Exhausted(x, i) <=> e = Known(at)
  BY NestFields, ExhaustedIs
<1> HIDE DEF x
<1>2. live \in 0..Len(x) /\ Fits(live)
  BY <1>1
<1>3. \A n \in 0..Len(x) : Fits(n) => n = live
  BY <1>1
<1>4. Live(x) = CHOOSE n \in 0..Len(x) : Fits(n)
  BY Zenon DEF Live
<1> HIDE DEF Fits, live
<1>5. Live(x) = live
  BY <1>2, <1>3, <1>4
<1> QED BY <1>5 DEF x, live

(***************************************************************************)
(* The invariant.                                                          *)
(***************************************************************************)
\* What each state collects.
Shape ==
  \/ state = AtElement
  \/ \E idLen \in 1..IdMax : \E len \in 1..idLen-1 : state = State("id", len, idLen, 0, 0)
  \/ \E idLen \in 1..IdMax : state = State("size", 0, idLen, 0, 0)
  \/ \E idLen \in 1..IdMax, sizeLen \in 1..SizeMax : \E len \in 1..sizeLen-1 :
       state = State("size", len, idLen, sizeLen, 0)
  \/ \E n \in Nat \ {0} : state = State("payload", 0, 0, 0, n)

\* The open containers are those of a Segment that ends at `e`, not yet passed.
Standing(d, e) ==
  /\ d \in 0..2 /\ IsExtent(e)
  /\ open = Nest(d, e, offset) /\ ends = Ends(d, e)
  /\ d > 0 /\ e.known => offset <= e.bytes

\* The payload under way, and the farthest byte claimed.
Account(d, e) ==
  /\ state.kind = "payload" =>
       /\ unit.end = offset + state.remaining /\ unit.end <= declared
       /\ d > 0 /\ e.known => unit.end <= e.bytes
  /\ state = AtElement => offset <= declared
  /\ declared <= IF d > 0 /\ e.known THEN e.bytes
                 ELSE IF state.kind = "payload" THEN unit.end ELSE offset

Inv ==
  /\ offset \in Nat /\ declared \in Nat
  /\ phase = "walking" => Shape /\ \E d, e : Standing(d, e) /\ Account(d, e)
  /\ phase = "ended" => declared = offset

LEMMA ShapeFields ==
  ASSUME Shape
  PROVE  /\ state.kind \in {"id", "size", "payload"}
         /\ state.kind = "payload" => /\ state.remaining \in Nat \ {0}
                                      /\ state = State("payload", 0, 0, 0, state.remaining)
         /\ state.kind = "id" => state.len \in Nat
         /\ state.kind = "size" => state.len \in Nat /\ state.idLen \in 1..IdMax
<1>1. CASE state = AtElement
  BY <1>1, StateFields
<1>2. ASSUME NEW idLen \in 1..IdMax, NEW len \in 1..idLen-1, state = State("id", len, idLen, 0, 0)
      PROVE  state.kind = "id" /\ state.len \in Nat
  BY <1>2, StateFields
<1>3. ASSUME NEW idLen \in 1..IdMax, NEW sizeLen, NEW len \in Nat,
             state = State("size", len, idLen, sizeLen, 0)
      PROVE  state.kind = "size" /\ state.len \in Nat /\ state.idLen \in 1..IdMax
  BY <1>3, StateFields
<1>4. ASSUME NEW n \in Nat \ {0}, state = State("payload", 0, 0, 0, n)
      PROVE  state.kind = "payload" /\ state.remaining = n
  BY <1>4, StateFields
<1>5. CASE \E n \in Nat \ {0} : state = State("payload", 0, 0, 0, n)
  BY <1>4, <1>5
<1>6. CASE \E idLen \in 1..IdMax : \E len \in 1..idLen-1 : state = State("id", len, idLen, 0, 0)
  BY <1>2, <1>6
<1>7. CASE \/ \E idLen \in 1..IdMax : state = State("size", 0, idLen, 0, 0)
           \/ \E idLen \in 1..IdMax, sizeLen \in 1..SizeMax : \E len \in 1..sizeLen-1 :
                state = State("size", len, idLen, sizeLen, 0)
  <2>1. 0 \in Nat /\ \A m : 1..m-1 \subseteq Nat
    OBVIOUS
  <2>2. \E idLen \in 1..IdMax : \E sizeLen, len : len \in Nat /\ state = State("size", len, idLen, sizeLen, 0)
    BY <1>7, <2>1
  <2> QED BY <1>3, <2>2
<1> QED BY <1>1, <1>5, <1>6, <1>7 DEF Shape

(* What the byte before a boundary leaves open.                             *)
LEMMA Settles ==
  ASSUME NEW d \in 0..2, NEW e, IsExtent(e), offset \in Nat, d > 0 /\ e.known => offset + 1 <= e.bytes,
         NEW next, GoOn(next, Nest(d, e, offset + 1), Ends(d, e)), offset' = offset + 1
  PROVE  \E dd \in 0..2 :
           /\ Standing(dd, e)'
           /\ dd = d \/ (d > 0 /\ dd = 0 /\ e = Known(offset + 1) /\ next = AtElement)
<1> DEFINE n == IF next = AtElement THEN Live(Nest(d, e, offset + 1)) ELSE Len(Nest(d, e, offset + 1))
<1>1. open' = SubSeq(Nest(d, e, offset + 1), 1, n) /\ ends' = SubSeq(Ends(d, e), 1, n)
  BY Zenon DEF GoOn, Keep
<1>2. offset + 1 \in Nat
  OBVIOUS
<1>3. Len(Nest(d, e, offset + 1)) = d
        /\ Live(Nest(d, e, offset + 1)) = IF e = Known(offset + 1) THEN 0 ELSE d
  <2>1. Len(Nest(d, e, offset + 1)) = d
    BY NestFields
  <2> QED BY <1>2, <2>1, LiveIs
<1>4. PICK dd \in 0..d :
        /\ dd = n
        /\ dd = d \/ (d > 0 /\ dd = 0 /\ e = Known(offset + 1) /\ next = AtElement)
  BY <1>3
<1> HIDE DEF n
<1>5. open' = Nest(dd, e, offset + 1) /\ ends' = Ends(dd, e)
  BY <1>1, <1>4, NestCut
<1>6. dd \in 0..2 /\ (dd > 0 /\ e.known => offset' <= e.bytes)
  BY <1>4
<1>7. open' = Nest(dd, e, offset')
  BY <1>5
<1>8. Standing(dd, e)'
  BY <1>5, <1>6, <1>7 DEF Standing
<1> QED BY <1>4, <1>6, <1>8

\* Whether a cluster is open after the byte.
LEMMA InsideNext ==
  ASSUME NEW d, NEW e, Standing(d, e)'
  PROVE  Inside("Cluster")' <=> d = 2
<1>1. d \in 0..2 /\ open' = Nest(d, e, offset')
  BY DEF Standing
<1>2. Len(open') = d /\ (open' = <<>> <=> d = 0)
  <2>1. Len(Nest(d, e, offset')) = d
    BY <1>1, NestFields
  <2>2. Nest(d, e, offset') = <<>> <=> d = 0
    BY <1>1, NestFields
  <2> QED BY <1>1, <2>1, <2>2
<1>3. d = 1 => open'[1].kind = "Segment"
  <2>1. d = 1 => Nest(d, e, offset')[1] = Seg(Left(e, offset'))
    BY <1>1, NestFields
  <2> QED BY <1>1, <2>1, SizeFields
<1>4. d = 2 => open'[2].kind = "Cluster"
  <2>1. d = 2 => Nest(d, e, offset')[2] = Clu
    BY <1>1, NestFields
  <2> QED BY <1>1, <2>1, SizeFields
<1> QED BY <1>1, <1>2, <1>3, <1>4 DEF Inside

LEMMA Stays ==
  ASSUME NEW d \in 0..2, NEW e, IsExtent(e), offset \in Nat, d > 0 /\ e.known => offset + 1 <= e.bytes,
         NEW next, GoOn(next, Nest(d, e, offset + 1), Ends(d, e)), offset' = offset + 1
  PROVE  /\ Inside("Cluster")' => d = 2
         /\ next # AtElement => (Inside("Cluster")' <=> d = 2)
<1>1. PICK dd \in 0..2 :
        /\ Standing(dd, e)'
        /\ dd = d \/ (d > 0 /\ dd = 0 /\ e = Known(offset + 1) /\ next = AtElement)
  BY Settles
<1>2. Inside("Cluster")' <=> dd = 2
  BY <1>1, InsideNext
<1> QED BY <1>1, <1>2

LEMMA Rests ==
  ASSUME NEW d \in 0..2, NEW e, IsExtent(e), offset \in Nat, d > 0 /\ e.known => offset + 1 <= e.bytes,
         NEW next, GoOn(next, Nest(d, e, offset + 1), Ends(d, e)), offset' = offset + 1,
         Account(d, e)'
  PROVE  \E dd, ee : Standing(dd, ee)' /\ Account(dd, ee)'
<1>1. PICK dd \in 0..2 :
        /\ Standing(dd, e)'
        /\ dd = d \/ (d > 0 /\ dd = 0 /\ e = Known(offset + 1) /\ next = AtElement)
  BY Settles
<1>2. CASE dd = d
  BY <1>1, <1>2
<1>3. CASE d > 0 /\ dd = 0 /\ e = Known(offset + 1) /\ next = AtElement
  <2>1. state' = AtElement /\ state'.kind # "payload" /\ e.known /\ e.bytes = offset'
    BY <1>3, SizeFields, StateFields DEF GoOn
  <2>2. Account(dd, e)'
    BY <1>3, <2>1 DEF Account
  <2> QED BY <1>1, <2>2
<1> QED BY <1>1, <1>2, <1>3

(***************************************************************************)
(* The bytes.                                                              *)
(***************************************************************************)
LEMMA Going ==
  ASSUME NEW reported, Consumed(reported)
  PROVE  /\ phase = "walking" /\ phase' = "walking" /\ offset' = offset + 1
         /\ report' = reported
BY DEF Consumed

(* The stack before a byte that overruns nothing, and what it is charged.   *)
LEMMA Before ==
  ASSUME Inv, phase = "walking", ~Overrun
  PROVE  /\ offset \in Nat /\ declared \in Nat /\ Shape
         /\ \E d, e : /\ Standing(d, e) /\ Account(d, e)
                      /\ Debited = Nest(d, e, offset + 1) /\ ends = Ends(d, e)
                      /\ d > 0 /\ e.known => offset + 1 <= e.bytes
<1>1. PICK d, e : Standing(d, e) /\ Account(d, e)
  BY DEF Inv
<1>2. offset \in Nat /\ declared \in Nat /\ Shape
  BY DEF Inv
<1>3. /\ d \in 0..2 /\ IsExtent(e) /\ open = Nest(d, e, offset) /\ ends = Ends(d, e)
      /\ d > 0 /\ e.known => offset <= e.bytes
  BY <1>1 DEF Standing
<1>4. Debited = Nest(d, e, offset + 1) /\ (d > 0 /\ e.known => offset + 1 <= e.bytes)
  BY <1>2, <1>3, DebitedIs
<1> QED BY <1>1, <1>2, <1>3, <1>4

(* A byte of a header that does not complete it.                            *)
LEMMA HeaderGrows ==
  ASSUME Inv, ~Overrun, state.kind \in {"id", "size"}, NEW next, Grow(next),
         next.kind \in {"id", "size"}, next # AtElement,
         state' = next => Shape'
  PROVE  Inv'
<1>1. /\ phase = "walking" /\ phase' = "walking" /\ offset' = offset + 1
      /\ state' = next /\ unit' = unit /\ declared' = declared
      /\ GoOn(next, Debited, ends)
  BY Going DEF Grow, GoOn
<1>2. /\ offset \in Nat /\ declared \in Nat
  BY <1>1, Before
<1>3. PICK d, e : /\ Standing(d, e) /\ Account(d, e)
                  /\ Debited = Nest(d, e, offset + 1) /\ ends = Ends(d, e)
                  /\ d > 0 /\ e.known => offset + 1 <= e.bytes
  BY <1>1, Before
<1>4. d \in 0..2 /\ IsExtent(e)
  BY <1>3 DEF Standing
<1>5. declared <= IF d > 0 /\ e.known THEN e.bytes ELSE offset
  BY <1>3 DEF Account
<1>6. d > 0 /\ e.known => e.bytes \in Nat
  BY <1>4, SizeFields DEF IsExtent
<1>7. declared' <= IF d > 0 /\ e.known THEN e.bytes ELSE offset'
  BY <1>1, <1>2, <1>5, <1>6
<1>8. Account(d, e)'
  BY <1>1, <1>7 DEF Account
<1>9. \E dd, ee : Standing(dd, ee)' /\ Account(dd, ee)'
  BY <1>1, <1>2, <1>3, <1>4, <1>8, Rests
<1> QED BY <1>1, <1>2, <1>9 DEF Inv

LEMMA IdByteStep ==
  ASSUME Inv, IdByte PROVE Inv'
<1>1. PICK idLen \in IF state.len = 0 THEN 1..IdMax ELSE {state.idLen} :
        Grow(IF state.len + 1 = idLen THEN State("size", 0, idLen, 0, 0)
             ELSE State("id", state.len + 1, idLen, 0, 0))
  BY DEF IdByte
<1>2. state.kind = "id" /\ ~Overrun /\ phase = "walking"
  BY <1>1, Going DEF IdByte, Grow
<1>3. Shape
  BY <1>2 DEF Inv
<1>4. idLen \in 1..IdMax /\ state.len \in Nat /\ state.len + 1 <= idLen
  <2>1. CASE state = AtElement
    BY <1>1, <2>1, StateFields
  <2>2. CASE state # AtElement
    <3>1. PICK m \in 1..IdMax : \E len \in 1..m-1 : state = State("id", len, m, 0, 0)
      BY <1>2, <1>3, <2>2, StateFields DEF Shape
    <3>2. PICK len \in 1..m-1 : state = State("id", len, m, 0, 0)
      BY <3>1
    <3>3. state.len = len /\ state.idLen = m
      BY <3>2, StateFields
    <3> QED BY <1>1, <3>1, <3>2, <3>3
  <2> QED BY <2>1, <2>2
<1>5. CASE state.len + 1 = idLen
  <2> DEFINE next == State("size", 0, idLen, 0, 0)
  <2>1. Grow(next) /\ next.kind = "size" /\ next # AtElement
    BY <1>1, <1>5, StateFields
  <2>2. state' = next => Shape'
    BY <1>4 DEF Shape
  <2> HIDE DEF next
  <2> QED BY <1>2, <2>1, <2>2, HeaderGrows
<1>6. CASE state.len + 1 # idLen
  <2>1. PICK n \in 1..idLen-1 : n = state.len + 1
    BY <1>4, <1>6
  <2> DEFINE next == State("id", n, idLen, 0, 0)
  <2>2. Grow(next) /\ next.kind = "id" /\ next # AtElement
    BY <1>1, <1>6, <2>1, StateFields
  <2>3. state' = next => Shape'
    BY <1>4, <2>1 DEF Shape
  <2> HIDE DEF next
  <2> QED BY <1>2, <2>2, <2>3, HeaderGrows
<1> QED BY <1>5, <1>6

LEMMA PayloadByteStep ==
  ASSUME Inv, PayloadByte PROVE Inv'
<1> DEFINE next == IF state.remaining = 1 THEN AtElement ELSE [state EXCEPT !.remaining = @ - 1]
<1>1. /\ phase = "walking" /\ phase' = "walking" /\ offset' = offset + 1
      /\ state' = next /\ unit' = unit /\ declared' = declared
      /\ GoOn(next, Debited, ends) /\ state.kind = "payload" /\ ~Overrun
  BY Going DEF Grow, GoOn, PayloadByte
<1>2. /\ offset \in Nat /\ declared \in Nat
  BY <1>1, Before
<1>3. PICK d, e : /\ Standing(d, e) /\ Account(d, e)
                  /\ Debited = Nest(d, e, offset + 1) /\ ends = Ends(d, e)
                  /\ d > 0 /\ e.known => offset + 1 <= e.bytes
  BY <1>1, Before
<1>4. d \in 0..2 /\ IsExtent(e)
  BY <1>3 DEF Standing
<1>5. PICK n \in Nat \ {0} : state = State("payload", 0, 0, 0, n) /\ state.remaining = n
  BY <1>1, ShapeFields DEF Inv
<1>6. next = IF n = 1 THEN AtElement ELSE State("payload", 0, 0, 0, n - 1)
  BY <1>5 DEF State
<1>7. d > 0 /\ e.known => e.bytes \in Nat
  BY <1>4, SizeFields DEF IsExtent
<1>8. /\ unit.end = offset + n /\ unit.end <= declared
      /\ d > 0 /\ e.known => unit.end <= e.bytes
      /\ declared <= IF d > 0 /\ e.known THEN e.bytes ELSE unit.end
  BY <1>1, <1>3, <1>5 DEF Account
<1> HIDE DEF next
<1>9. CASE n = 1
  <2>1. state' = AtElement /\ state'.kind # "payload"
    BY <1>1, <1>6, <1>9, StateFields
  <2>2. offset' = unit.end
    BY <1>1, <1>8, <1>9
  <2>3. Account(d, e)' /\ Shape'
    BY <1>1, <1>8, <2>1, <2>2 DEF Account, Shape
  <2>4. \E dd, ee : Standing(dd, ee)' /\ Account(dd, ee)'
    BY <1>1, <1>2, <1>3, <1>4, <2>3, Rests
  <2> QED BY <1>1, <1>2, <2>3, <2>4 DEF Inv
<1>10. CASE n # 1
  <2>1. /\ state' = State("payload", 0, 0, 0, n - 1) /\ n - 1 \in Nat \ {0}
        /\ state'.kind = "payload" /\ state'.remaining = n - 1 /\ state' # AtElement
    BY <1>1, <1>6, <1>10, StateFields
  <2>2. unit.end = offset' + (n - 1)
    BY <1>1, <1>2, <1>5, <1>8
  <2>3. Account(d, e)' /\ Shape'
    BY <1>1, <1>8, <2>1, <2>2 DEF Account, Shape
  <2>4. \E dd, ee : Standing(dd, ee)' /\ Account(dd, ee)'
    BY <1>1, <1>2, <1>3, <1>4, <2>3, Rests
  <2> QED BY <1>1, <1>2, <2>3, <2>4 DEF Inv
<1> QED BY <1>9, <1>10

(***************************************************************************)
(* A complete header.                                                      *)
(***************************************************************************)
(* What the stack says of itself.                                           *)
LEMMA Insides ==
  ASSUME NEW d, NEW e, Standing(d, e)
  PROVE  /\ open = <<>> <=> d = 0
         /\ Inside("Cluster") <=> d = 2
         /\ \A id : /\ Parents(id) \in 0..d
                    /\ d > 0 => Parents(id) > 0
         /\ d > 0 => Parents("Cluster") = 1
<1>1. /\ d \in 0..2 /\ open = Nest(d, e, offset)
  BY DEF Standing
<1>2. Len(open) = d /\ (open = <<>> <=> d = 0)
  <2>1. Len(Nest(d, e, offset)) = d
    BY <1>1, NestFields
  <2>2. Nest(d, e, offset) = <<>> <=> d = 0
    BY <1>1, NestFields
  <2> QED BY <1>1, <2>1, <2>2
<1>3. d = 1 => open[1].kind = "Segment"
  <2>1. d = 1 => Nest(d, e, offset)[1] = Seg(Left(e, offset))
    BY <1>1, NestFields
  <2> QED BY <1>1, <2>1, SizeFields
<1>4. d = 2 => open[2].kind = "Cluster"
  <2>1. d = 2 => Nest(d, e, offset)[2] = Clu
    BY <1>1, NestFields
  <2> QED BY <1>1, <2>1, SizeFields
<1>5. Inside("Cluster") <=> d = 2
  BY <1>1, <1>2, <1>3, <1>4 DEF Inside
<1>6. \A id : Parents(id) \in 0..d /\ (d > 0 => Parents(id) > 0)
  BY <1>1, <1>2, <1>5 DEF Parents
<1>7. d > 0 => Parents("Cluster") = 1
  BY <1>1, <1>2, <1>5 DEF Parents, IsClusterChild
<1> QED BY <1>2, <1>5, <1>6, <1>7

(* A payload that is not refused fits the Segment.                          *)
LEMMA Fits ==
  ASSUME NEW d, NEW e, Standing(d, e), Debited = Nest(d, e, offset + 1), offset \in Nat,
         d > 0, e.known, NEW n \in Nat, ~OverrunsParent(n)
  PROVE  offset + 1 + n <= e.bytes
<1>1. d \in 1..2 /\ open = Nest(d, e, offset) /\ IsExtent(e)
  BY DEF Standing
<1>2. PICK m \in Nat : e = Known(m) /\ e.bytes = m
  BY <1>1, SizeFields DEF IsExtent
<1> DEFINE x == Nest(d, e, offset + 1)
<1>3. x[1] = Seg(Left(e, offset + 1)) /\ (d = 2 => x[2] = Clu) /\ Len(open) = d /\ DOMAIN open = 1..d
  <2>1. d \in 0..2
    BY <1>1
  <2>2. x[1] = Seg(Left(e, offset + 1))
    BY <1>1, <2>1, NestFields
  <2>3. d = 2 => x[2] = Clu
    BY <1>1, <2>1, NestFields
  <2>4. Len(Nest(d, e, offset)) = d /\ DOMAIN Nest(d, e, offset) = 1..d
    BY <2>1, NestLength, Zenon
  <2> QED BY <1>1, <2>2, <2>3, <2>4
<1> HIDE DEF x
<1>4. x[1].left.known /\ x[1].left.bytes = m - (offset + 1) /\ (d = 2 => ~x[2].left.known)
  BY <1>2, <1>3, SizeFields DEF Left
<1>5. Bounds(x, Len(open), 1)
  BY <1>1, <1>3, <1>4 DEF Bounds
<1>6. ~(n > m - (offset + 1))
  BY <1>1, <1>3, <1>4, <1>5 DEF OverrunsParent, x
<1> QED BY <1>2, <1>6

LEMMA SegmentOpens ==
  ASSUME Inv, ~Overrun, phase = "walking", state.kind = "size",
         NEW size \in Sizes(MaxSize), open = <<>>, OpenSegment(size),
         declared' = IF offset + 1 + size.bytes > declared THEN offset + 1 + size.bytes ELSE declared
  PROVE  Inv' /\ ~Inside("Cluster")'
<1>1. /\ phase' = "walking" /\ offset' = offset + 1 /\ state' = AtElement
      /\ GoOn(AtElement, Append(Debited, [kind |-> "Segment", left |-> size]),
              Append(ends, EndOf(size)))
  BY Going DEF OpenSegment, GoOn
<1>2. /\ offset \in Nat /\ declared \in Nat
  BY Before
<1>3. PICK d, e : /\ Standing(d, e) /\ Account(d, e)
                  /\ Debited = Nest(d, e, offset + 1) /\ ends = Ends(d, e)
                  /\ d > 0 /\ e.known => offset + 1 <= e.bytes
  BY Before
<1>4. d = 0 /\ Debited = <<>> /\ ends = <<>>
  BY <1>3, Insides DEF Nest, Ends
<1>5. declared <= offset
  BY <1>3, <1>4 DEF Account
<1>6. PICK f : f = EndOf(size)
  OBVIOUS
<1>7. /\ IsExtent(f) /\ Left(f, offset + 1) = size /\ size.bytes \in Nat
      /\ f.known => f.bytes = offset + 1 + size.bytes
      /\ ~f.known => size.bytes = 0
  <2>1. CASE size = Unknown
    BY <1>6, <2>1, SizeFields DEF EndOf, Left, IsExtent
  <2>2. CASE \E n \in 0..MaxSize : size = Known(n)
    <3>1. PICK n \in Nat : size = Known(n)
      BY <2>2, MatroskaAssumption
    <3>2. f = Known(offset + 1 + n)
      BY <1>6, <3>1, SizeFields DEF EndOf
    <3>3. offset + 1 + n \in Nat /\ (offset + 1 + n) - (offset + 1) = n
      BY <1>2
    <3> QED BY <3>1, <3>2, <3>3, SizeFields DEF Left, IsExtent
  <2> QED BY <2>1, <2>2 DEF Sizes
<1>8. /\ Append(Debited, [kind |-> "Segment", left |-> size]) = Nest(1, f, offset + 1)
      /\ Append(ends, EndOf(size)) = Ends(1, f)
  <2>1. \A x : Append(<<>>, x) = <<x>>
    OBVIOUS
  <2> QED BY <1>4, <1>6, <1>7, <2>1 DEF Nest, Ends, Seg
<1>9. GoOn(AtElement, Nest(1, f, offset + 1), Ends(1, f))
  BY <1>1, <1>8
<1>10. /\ f.known => offset + 1 <= f.bytes /\ declared' = f.bytes
       /\ ~f.known => declared' = offset + 1
       /\ offset' <= declared' /\ declared' \in Nat
  BY <1>1, <1>2, <1>5, <1>7
<1>11. Account(1, f)' /\ Shape'
  BY <1>1, <1>10, StateFields DEF Account, Shape
<1>12. \E dd, ee : Standing(dd, ee)' /\ Account(dd, ee)'
  BY <1>1, <1>2, <1>7, <1>9, <1>10, <1>11, Rests
<1>13. ~Inside("Cluster")'
  BY <1>1, <1>2, <1>7, <1>9, <1>10, Stays
<1> QED BY <1>1, <1>2, <1>10, <1>11, <1>12, <1>13 DEF Inv

LEMMA PayloadOpens ==
  ASSUME Inv, ~Overrun, phase = "walking", state.kind = "size",
         NEW n \in Nat, NEW id, NEW len, BeginPayload(id, Known(n), len), ~OverrunsParent(n),
         declared' = IF offset + 1 + n > declared THEN offset + 1 + n ELSE declared
  PROVE  Inv'
<1> DEFINE next == IF Known(n).bytes = 0 THEN AtElement ELSE State("payload", 0, 0, 0, Known(n).bytes)
<1>a. next = IF n = 0 THEN AtElement ELSE State("payload", 0, 0, 0, n)
  BY SizeFields
<1>1. /\ phase' = "walking" /\ offset' = offset + 1 /\ state' = next
      /\ GoOn(next, SubSeq(Debited, 1, Parents(id)), SubSeq(ends, 1, Parents(id)))
      /\ unit'.end = offset + 1 + n
  BY Going, SizeFields DEF BeginPayload, GoOn
<1> HIDE DEF next
<1>2. /\ offset \in Nat /\ declared \in Nat
  BY Before
<1>3. PICK d, e : /\ Standing(d, e) /\ Account(d, e)
                  /\ Debited = Nest(d, e, offset + 1) /\ ends = Ends(d, e)
                  /\ d > 0 /\ e.known => offset + 1 <= e.bytes
  BY Before
<1>4. d \in 0..2 /\ IsExtent(e)
  BY <1>3 DEF Standing
<1>5. PICK p \in 0..d : p = Parents(id) /\ (d > 0 <=> p > 0)
  BY <1>3, <1>4, Insides
<1>6. GoOn(next, Nest(p, e, offset + 1), Ends(p, e))
  BY <1>1, <1>3, <1>4, <1>5, NestCut
<1>7. p > 0 /\ e.known => e.bytes \in Nat /\ offset + 1 + n <= e.bytes /\ declared <= e.bytes
  <2>1. d > 0 /\ e.known => offset + 1 + n <= e.bytes
    BY <1>2, <1>3, Fits
  <2>2. e.known => e.bytes \in Nat
    BY <1>4, SizeFields DEF IsExtent
  <2>3. d > 0 /\ e.known => declared <= e.bytes
    BY <1>3 DEF Account
  <2> QED BY <1>5, <2>1, <2>2, <2>3
<1>8. ~(p > 0 /\ e.known) => declared <= offset
  BY <1>3, <1>5 DEF Account
<1>9. /\ p > 0 /\ e.known => declared' <= e.bytes
      /\ ~(p > 0 /\ e.known) => declared' = offset + 1 + n
      /\ offset + 1 + n <= declared' /\ declared' \in Nat
  BY <1>2, <1>7, <1>8
<1>10. CASE n = 0
  <2>1. state' = AtElement /\ state'.kind # "payload" /\ offset' = offset + 1 + n
    BY <1>1, <1>2, <1>10, <1>a, StateFields
  <2>2. Account(p, e)' /\ Shape'
    BY <1>9, <2>1 DEF Account, Shape
  <2>3. \E dd, ee : Standing(dd, ee)' /\ Account(dd, ee)'
    BY <1>1, <1>2, <1>3, <1>4, <1>5, <1>6, <2>2, Rests
  <2> QED BY <1>1, <1>2, <1>9, <2>2, <2>3 DEF Inv
<1>11. CASE n # 0
  <2>1. /\ state' = State("payload", 0, 0, 0, n) /\ state'.kind = "payload"
        /\ state'.remaining = n /\ state' # AtElement /\ unit'.end = offset' + n
    BY <1>1, <1>11, <1>a, StateFields
  <2>2. Account(p, e)' /\ Shape'
    BY <1>1, <1>7, <1>9, <1>11, <2>1 DEF Account, Shape
  <2>3. \E dd, ee : Standing(dd, ee)' /\ Account(dd, ee)'
    BY <1>1, <1>2, <1>3, <1>4, <1>5, <1>6, <2>2, Rests
  <2> QED BY <1>1, <1>2, <1>9, <2>2, <2>3 DEF Inv
<1> QED BY <1>10, <1>11

LEMMA ClusterOpens ==
  ASSUME Inv, ~Overrun, phase = "walking", state.kind = "size", open # <<>>,
         NEW len, OpenCluster(len),
         declared' = IF offset + 1 > declared THEN offset + 1 ELSE declared
  PROVE  Inv' /\ Inside("Cluster")'
<1> DEFINE n == Parents("Cluster")
<1>1. /\ phase' = "walking" /\ offset' = offset + 1 /\ state' = AtElement
      /\ Keep(Append(SubSeq(Debited, 1, n), [kind |-> "Cluster", left |-> Unknown]),
              Append(SubSeq(ends, 1, n), Unknown), n + 1)
  BY Going DEF OpenCluster
<1>2. /\ offset \in Nat /\ declared \in Nat
  BY Before
<1>3. PICK d, e : /\ Standing(d, e) /\ Account(d, e)
                  /\ Debited = Nest(d, e, offset + 1) /\ ends = Ends(d, e)
                  /\ d > 0 /\ e.known => offset + 1 <= e.bytes
  BY Before
<1>4. d \in 1..2 /\ IsExtent(e) /\ n = 1
  <2>1. d \in 0..2 /\ IsExtent(e)
    BY <1>3 DEF Standing
  <2>2. (open = <<>> <=> d = 0) /\ (d > 0 => n = 1)
    BY <1>3, Insides
  <2> QED BY <2>1, <2>2
<1> HIDE DEF n
<1>5. /\ SubSeq(Debited, 1, n) = <<Seg(Left(e, offset + 1))>>
      /\ SubSeq(ends, 1, n) = <<e>>
  <2>1. 1 \in 0..d /\ d \in 0..2
    BY <1>4
  <2>2. /\ SubSeq(Nest(d, e, offset + 1), 1, 1) = Nest(1, e, offset + 1)
        /\ SubSeq(Ends(d, e), 1, 1) = Ends(1, e)
    BY <2>1, NestCut
  <2>3. Nest(1, e, offset + 1) = <<Seg(Left(e, offset + 1))>> /\ Ends(1, e) = <<e>>
    BY DEF Nest, Ends
  <2> QED BY <1>3, <1>4, <2>2, <2>3
<1>6. /\ Append(SubSeq(Debited, 1, n), [kind |-> "Cluster", left |-> Unknown]) = Nest(2, e, offset + 1)
      /\ Append(SubSeq(ends, 1, n), Unknown) = Ends(2, e)
  <2>1. ASSUME NEW x, NEW y PROVE Append(<<x>>, y) = <<x, y>>
    <3> DEFINE s == <<x>>
               t == <<x, y>>
    <3>1. s \in Seq({x, y}) /\ Len(s) = 1 /\ s[1] = x
      OBVIOUS
    <3>2. t \in Seq({x, y}) /\ Len(t) = 2 /\ t[1] = x /\ t[2] = y
      OBVIOUS
    <3> HIDE DEF s, t
    <3>3. /\ Append(s, y) \in Seq({x, y}) /\ Len(Append(s, y)) = 2
          /\ Append(s, y)[1] = x /\ Append(s, y)[2] = y
      <4>1. y \in {x, y} /\ s \in Seq({x, y})
        BY <3>1
      <4>2. Append(s, y) \in Seq({x, y}) /\ Len(Append(s, y)) = Len(s) + 1
        BY <4>1, AppendProperties, Zenon
      <4>3. \A i \in 1..Len(s) : Append(s, y)[i] = s[i]
        BY <4>1, AppendProperties, Zenon
      <4>4. Append(s, y)[Len(s) + 1] = y
        BY <4>1, AppendProperties, Zenon
      <4> QED BY <3>1, <4>2, <4>3, <4>4
    <3>4. \A i \in 1..2 : Append(s, y)[i] = t[i]
      BY <3>2, <3>3
    <3>5. Append(s, y) = t
      BY <3>2, <3>3, <3>4, SeqEqual
    <3> QED BY <3>5 DEF s, t
  <2>2. /\ Append(<<Seg(Left(e, offset + 1))>>, Clu) = Nest(2, e, offset + 1)
        /\ Append(<<e>>, Unknown) = Ends(2, e)
    BY <2>1 DEF Nest, Ends
  <2> QED BY <1>5, <2>2, Zenon DEF Clu
<1>7. open' = Nest(2, e, offset + 1) /\ ends' = Ends(2, e)
  <2>1. 2 \in 0..2 /\ n + 1 = 2
    BY <1>4
  <2>2. /\ SubSeq(Nest(2, e, offset + 1), 1, 2) = Nest(2, e, offset + 1)
        /\ SubSeq(Ends(2, e), 1, 2) = Ends(2, e)
    BY <2>1, NestCut
  <2> QED BY <1>1, <1>6, <2>1, <2>2 DEF Keep
<1>8. Standing(2, e)'
  <2>1. e.known => offset + 1 <= e.bytes
    BY <1>3, <1>4
  <2> QED BY <1>1, <1>4, <1>7, <2>1 DEF Standing
<1>9. declared <= IF e.known THEN e.bytes ELSE offset
  BY <1>3, <1>4 DEF Account
<1>10. e.known => e.bytes \in Nat /\ offset + 1 <= e.bytes
  BY <1>3, <1>4, SizeFields DEF IsExtent
<1>11. /\ declared' <= IF e.known THEN e.bytes ELSE offset'
       /\ offset' <= declared' /\ declared' \in Nat
  BY <1>1, <1>2, <1>9, <1>10
<1>12. Account(2, e)' /\ Shape'
  BY <1>1, <1>11, StateFields DEF Account, Shape
<1>13. Inside("Cluster")'
  BY <1>8, InsideNext
<1> QED BY <1>1, <1>2, <1>8, <1>11, <1>12, <1>13 DEF Inv

LEMMA OpenElementStep ==
  ASSUME Inv, ~Overrun, phase = "walking", state.kind = "size", NEW len, OpenElement(len)
  PROVE  Inv'
<1>1. PICK id \in Elements, size \in Sizes(MaxSize) :
        /\ ~ElementRejected(id, size)
        /\ declared' = IF offset + 1 + size.bytes > declared THEN offset + 1 + size.bytes ELSE declared
        /\ IF open = <<>> /\ id = "Segment" THEN OpenSegment(size)
           ELSE IF size.known THEN BeginPayload(id, size, len)
           ELSE OpenCluster(len)
  BY DEF OpenElement
<1>2. CASE open = <<>> /\ id = "Segment"
  BY <1>1, <1>2, SegmentOpens
<1>3. CASE ~(open = <<>> /\ id = "Segment") /\ size.known
  <2>1. PICK n \in Nat : size = Known(n) /\ size.bytes = n
    BY <1>3, MatroskaAssumption, SizeFields DEF Sizes
  <2>2. ~OverrunsParent(n)
    BY <1>1, <1>3, <2>1 DEF ElementRejected
  <2>3. declared' = IF offset + 1 + n > declared THEN offset + 1 + n ELSE declared
    BY <1>1, <2>1
  <2>4. BeginPayload(id, Known(n), len)
    BY <1>1, <1>3, <2>1
  <2> QED BY <2>2, <2>3, <2>4, PayloadOpens
<1>4. CASE ~(open = <<>> /\ id = "Segment") /\ ~size.known
  <2>1. size = Unknown /\ size.bytes = 0
    BY <1>4, SizeFields DEF Sizes
  <2>2. open # <<>>
    BY <1>1, <1>4 DEF ElementRejected, Admitted
  <2>3. offset \in Nat
    BY DEF Inv
  <2>4. declared' = IF offset + 1 > declared THEN offset + 1 ELSE declared
    BY <1>1, <2>1, <2>3
  <2> QED BY <1>1, <1>4, <2>2, <2>4, ClusterOpens
<1> QED BY <1>2, <1>3, <1>4

LEMMA SizeByteStep ==
  ASSUME Inv, SizeByte PROVE Inv'
<1>1. PICK sizeLen \in IF state.len = 0 THEN 1..SizeMax ELSE {state.sizeLen} :
        IF state.len + 1 = sizeLen THEN OpenElement(state.idLen + sizeLen)
        ELSE Grow(State("size", state.len + 1, state.idLen, sizeLen, 0))
  BY DEF SizeByte
<1>2. state.kind = "size" /\ ~Overrun
  BY DEF SizeByte
<1>3. phase = "walking"
  BY <1>1, Going DEF Grow, OpenElement, OpenSegment, BeginPayload, OpenCluster
<1>4. CASE state.len + 1 = sizeLen
  BY <1>1, <1>2, <1>3, <1>4, OpenElementStep
<1>5. CASE state.len + 1 # sizeLen
  <2>1. PICK m \in 1..IdMax : m = state.idLen
    BY <1>2, <1>3, ShapeFields DEF Inv
  <2>2. sizeLen \in 1..SizeMax /\ state.len \in Nat /\ state.len + 1 <= sizeLen
    <3>1. CASE \E i \in 1..IdMax : state = State("size", 0, i, 0, 0)
      BY <1>1, <3>1, StateFields
    <3>2. CASE \E i \in 1..IdMax, k \in 1..SizeMax : \E l \in 1..k-1 : state = State("size", l, i, k, 0)
      <4>1. PICK k \in 1..SizeMax : \E l \in 1..k-1 : state.len = l /\ state.sizeLen = k
        BY <3>2, StateFields
      <4> QED BY <1>1, <4>1
    <3> QED BY <1>2, <1>3, <3>1, <3>2, StateFields DEF Inv, Shape
  <2>3. PICK n \in 1..sizeLen-1 : n = state.len + 1
    BY <1>5, <2>2
  <2> DEFINE next == State("size", n, m, sizeLen, 0)
  <2>4. Grow(next) /\ next.kind = "size" /\ next # AtElement
    BY <1>1, <1>5, <2>1, <2>3, StateFields
  <2>5. state' = next => Shape'
    BY <2>2, <2>3 DEF Shape
  <2> HIDE DEF next
  <2> QED BY <1>2, <2>4, <2>5, HeaderGrows
<1> QED BY <1>4, <1>5

(***************************************************************************)
(* The specification.                                                      *)
(***************************************************************************)
LEMMA FinishStep ==
  ASSUME Inv, FinishOk PROVE Inv'
<1>1. /\ phase = "walking" /\ phase' = "ended" /\ EndsWell
      /\ offset' = offset /\ declared' = declared
  BY DEF FinishOk
<1>2. PICK d, e : Standing(d, e) /\ Account(d, e)
  BY <1>1 DEF Inv
<1>3. d \in 0..2 /\ open = Nest(d, e, offset) /\ IsExtent(e)
  BY <1>2 DEF Standing
<1>4. ~(d > 0 /\ e.known)
  <2> SUFFICES ASSUME d > 0, e.known PROVE FALSE
    OBVIOUS
  <2>1. Nest(d, e, offset)[1] = Seg(Left(e, offset)) /\ DOMAIN Nest(d, e, offset) = 1..d
    <3>1. Nest(d, e, offset)[1] = Seg(Left(e, offset))
      BY <1>3, NestFields
    <3>2. d \in 0..2
      BY <1>3
    <3>3. DOMAIN Nest(d, e, offset) = 1..d
      BY <3>2, NestLength, Zenon
    <3> QED BY <3>1, <3>3
  <2>2. open[1].left.known /\ 1 \in DOMAIN open
    BY <1>3, <2>1, SizeFields DEF Left
  <2> QED BY <1>1, <2>2 DEF EndsWell
<1>5. state = AtElement /\ state.kind # "payload"
  BY <1>1, StateFields DEF EndsWell
<1>6. offset <= declared /\ declared <= offset
  BY <1>2, <1>4, <1>5 DEF Account
<1>7. offset \in Nat /\ declared \in Nat
  BY DEF Inv
<1> QED BY <1>1, <1>6, <1>7 DEF Inv

LEMMA RefuseStep ==
  ASSUME Inv, RefuseByte \/ FinishTruncated PROVE Inv'
<1>1. /\ offset' \in Nat /\ declared' \in Nat
      /\ phase' \in {"faulted", "truncated"}
  BY DEF RefuseByte, FinishTruncated, Refuse, Inv
<1> QED BY <1>1 DEF Inv

LEMMA AlwaysInv == Spec => []Inv
<1>1. Init => Inv
  <2> SUFFICES ASSUME Init PROVE Inv
    OBVIOUS
  <2>1. IsExtent(Unknown) /\ state = AtElement /\ state.kind # "payload"
    BY StateFields DEF IsExtent, Init
  <2>2. Standing(0, Unknown) /\ Account(0, Unknown)
    BY <2>1 DEF Init, Standing, Account, Nest, Ends
  <2> QED BY <2>1, <2>2 DEF Init, Inv, Shape
<1>2. Inv /\ [Next]_vars => Inv'
  <2> SUFFICES ASSUME Inv, [Next]_vars PROVE Inv'
    OBVIOUS
  <2>1. CASE UNCHANGED vars
    BY <2>1 DEF vars, Inv, Shape, Standing, Account
  <2> QED BY <2>1, IdByteStep, SizeByteStep, PayloadByteStep, RefuseStep, FinishStep DEF Next
<1> QED BY <1>1, <1>2, PTL DEF Spec

(***************************************************************************)
(* The properties.                                                         *)
(***************************************************************************)
\* Every container on the stack knows the distance to its end.
LEMMA Told ==
  ASSUME Inv, phase = "walking", NEW i \in DOMAIN open
  PROVE  /\ i \in DOMAIN ends
         /\ open[i].left = IF ends[i].known THEN Known(ends[i].bytes - offset) ELSE Unknown
         /\ open[i].left.known <=> ends[i].known
<1>1. PICK d, e : Standing(d, e)
  BY DEF Inv
<1>2. d \in 0..2 /\ open = Nest(d, e, offset) /\ ends = Ends(d, e)
  BY <1>1 DEF Standing
<1>3. /\ i \in 1..d /\ DOMAIN ends = 1..d
      /\ d > 0 => open[1] = Seg(Left(e, offset)) /\ ends[1] = e
      /\ d = 2 => open[2] = Clu /\ ends[2] = Unknown
  <2>1. d \in 0..2
    BY <1>2
  <2>2. /\ DOMAIN Nest(d, e, offset) = 1..d /\ DOMAIN Ends(d, e) = 1..d
        /\ d > 0 => Nest(d, e, offset)[1] = Seg(Left(e, offset)) /\ Ends(d, e)[1] = e
        /\ d = 2 => Nest(d, e, offset)[2] = Clu /\ Ends(d, e)[2] = Unknown
    <3>1. DOMAIN Nest(d, e, offset) = 1..d /\ DOMAIN Ends(d, e) = 1..d
      BY <2>1, NestContents, Zenon
    <3>2. d > 0 => Nest(d, e, offset)[1] = Seg(Left(e, offset)) /\ Ends(d, e)[1] = e
      BY <2>1, NestFields
    <3>3. d = 2 => Nest(d, e, offset)[2] = Clu /\ Ends(d, e)[2] = Unknown
      BY <2>1, NestFields
    <3> QED BY <3>1, <3>2, <3>3
  <2> QED BY <1>2, <2>2, Zenon
<1>4. CASE i = 1
  <2>1. open[i].left = Left(e, offset) /\ ends[i] = e
    BY <1>2, <1>3, <1>4, SizeFields
  <2> QED BY <1>3, <2>1, SizeFields DEF Left
<1>5. CASE i = 2
  <2>1. open[i].left = Unknown /\ ends[i] = Unknown
    BY <1>2, <1>3, <1>5, SizeFields
  <2> QED BY <1>3, <2>1, SizeFields
<1> QED BY <1>2, <1>3, <1>4, <1>5

\* The payload under way ends inside every container of known size.
LEMMA PayloadInside ==
  ASSUME Inv, phase = "walking", state.kind = "payload"
  PROVE  /\ unit.end = offset + state.remaining /\ state.remaining \in Nat \ {0}
         /\ \A i \in DOMAIN ends : ends[i].known => ends[i].bytes \in Nat /\ unit.end <= ends[i].bytes
<1>1. PICK d, e : Standing(d, e) /\ Account(d, e)
  BY DEF Inv
<1>2. state.remaining \in Nat \ {0}
  BY ShapeFields DEF Inv
<1>3. d \in 0..2 /\ ends = Ends(d, e) /\ IsExtent(e)
  BY <1>1 DEF Standing
<1>4. unit.end = offset + state.remaining /\ (d > 0 /\ e.known => unit.end <= e.bytes)
  BY <1>1 DEF Account
<1>5. ASSUME NEW i \in DOMAIN ends, ends[i].known
      PROVE  ends[i].bytes \in Nat /\ unit.end <= ends[i].bytes
  <2>1. /\ i \in 1..d
        /\ d > 0 => ends[1] = e
        /\ d = 2 => ends[2] = Unknown
    <3>1. d \in 0..2
      BY <1>3
    <3>2. /\ DOMAIN Ends(d, e) = 1..d
          /\ d > 0 => Ends(d, e)[1] = e
          /\ d = 2 => Ends(d, e)[2] = Unknown
      BY <3>1, NestFields, Zenon
    <3> QED BY <1>3, <3>2, <1>5, Zenon
  <2>2. i = 1 /\ d > 0
    BY <1>3, <1>5, <2>1, SizeFields
  <2>3. e.bytes \in Nat
    BY <1>3, <1>5, <2>1, <2>2, SizeFields DEF IsExtent
  <2> QED BY <1>4, <1>5, <2>1, <2>2, <2>3
<1> QED BY <1>2, <1>4, <1>5

(* debit_open and close_exhausted keep the counters of the open Segment and *)
(* Cluster true: what is left is the distance to the declared end.          *)
THEOREM CountersTellTheNesting == Spec => []ExtentsNest
<1>1. Inv => ExtentsNest
  <2> SUFFICES ASSUME Inv, phase = "walking"
               PROVE  /\ \A i \in DOMAIN open :
                           open[i].left = IF ends[i].known THEN Known(ends[i].bytes - offset) ELSE Unknown
                      /\ state.kind = "payload" =>
                           /\ unit.end = offset + state.remaining
                           /\ \A i \in DOMAIN ends : ends[i].known => unit.end <= ends[i].bytes
    BY DEF ExtentsNest
  <2>1. \A i \in DOMAIN open :
          open[i].left = IF ends[i].known THEN Known(ends[i].bytes - offset) ELSE Unknown
    BY Told
  <2>2. state.kind = "payload" =>
          /\ unit.end = offset + state.remaining
          /\ \A i \in DOMAIN ends : ends[i].known => unit.end <= ends[i].bytes
    BY PayloadInside, Zenon
  <2> QED BY <2>1, <2>2
<1> QED BY <1>1, AlwaysInv, PTL

(* open_element measures a payload against the nearest container of known   *)
(* size, and no byte of one it accepted overruns any.                       *)
THEOREM PayloadsRunToTheirEnd == Spec => PayloadNeverOverruns
<1>1. Inv /\ [Next]_vars =>
        [state.kind = "payload" /\ offset' = offset + 1 => phase' # "faulted"]_vars
  <2> SUFFICES ASSUME Inv, Next, state.kind = "payload", offset' = offset + 1, phase' = "faulted"
               PROVE  FALSE
    OBVIOUS
  <2>1. offset \in Nat
    BY DEF Inv
  <2>2. RefuseByte
    <3>1. ~PayloadByte
      BY DEF PayloadByte, Grow, Consumed
    <3>2. ~IdByte /\ ~SizeByte
      BY DEF IdByte, SizeByte
    <3>3. ~FinishOk /\ ~FinishTruncated
      BY DEF FinishOk, FinishTruncated, Refuse
    <3> QED BY <3>1, <3>2, <3>3 DEF Next
  <2>3. Overrun /\ phase = "walking"
    BY <2>2 DEF RefuseByte, Refuse
  <2>4. PICK i \in DOMAIN open : open[i].left.known /\ open[i].left.bytes < 1
    BY <2>3 DEF Overrun
  <2>5. i \in DOMAIN ends /\ ends[i].known /\ open[i].left = Known(ends[i].bytes - offset)
    BY <2>3, <2>4, Told
  <2>6. ends[i].bytes - offset < 1
    BY <2>4, <2>5, SizeFields
  <2>7. /\ unit.end = offset + state.remaining /\ state.remaining \in Nat \ {0}
        /\ ends[i].bytes \in Nat /\ unit.end <= ends[i].bytes
    BY <2>3, <2>5, PayloadInside
  <2> QED BY <2>1, <2>6, <2>7
<1> QED BY <1>1, AlwaysInv, PTL DEF Spec, PayloadNeverOverruns

(* finish accepts the stream only at an element boundary outside every      *)
(* container of known size: then everything declared has been read.         *)
THEOREM AcceptedStreamsAreWhole == Spec => []FinishedWhole
<1>1. Inv => FinishedWhole
  BY DEF Inv, FinishedWhole
<1> QED BY <1>1, AlwaysInv, PTL

(***************************************************************************)
(* The contract with the driver: the reports are among those that          *)
(* ContainerChunker provides for.                                          *)
(***************************************************************************)
LEMMA ConstantFacts ==
  /\ ChunkMin \in Nat \ {0} /\ IdMax \in Nat /\ SizeMax \in Nat
  /\ HeaderMax = IdMax + SizeMax
BY MatroskaAssumption DEF HeaderMax

(***************************************************************************)
(* What the driver hears.                                                  *)
(***************************************************************************)
HeaderSeen ==
  IF state.kind = "id" THEN state.len
  ELSE IF state.kind = "size" THEN state.idLen + state.len ELSE 0

\* A payload that was reported began at a unit of its own, and the unit minimum
\* of it is yet to come or behind.
Ledger ==
  phase = "walking" /\ state.kind = "payload" =>
    /\ unit.begin \in Nat /\ unit.begin <= offset
    /\ unit.large => ~Inside("Cluster") /\ unit.end - unit.begin >= ChunkMin

LEMMA HeaderCounts ==
  ASSUME Shape, state.kind # "payload"
  PROVE  /\ HeaderSeen \in Nat /\ HeaderSeen + 1 <= HeaderMax
         /\ HeaderSeen = 0 => state = AtElement
<1>1. CASE state = AtElement
  <2>1. HeaderSeen = 0
    BY <1>1, StateFields DEF HeaderSeen
  <2> QED BY <1>1, <2>1, ConstantFacts, MatroskaAssumption
<1>2. ASSUME NEW idLen \in 1..IdMax, NEW len \in 1..idLen-1, state = State("id", len, idLen, 0, 0)
      PROVE  HeaderSeen = len /\ HeaderSeen \in Nat \ {0} /\ HeaderSeen + 1 <= HeaderMax
  <2>1. HeaderSeen = len
    BY <1>2, StateFields DEF HeaderSeen
  <2> QED BY <2>1, ConstantFacts
<1>3. ASSUME NEW idLen \in 1..IdMax, NEW sizeLen, NEW len \in Nat, len + 1 <= SizeMax,
             state = State("size", len, idLen, sizeLen, 0)
      PROVE  HeaderSeen \in Nat \ {0} /\ HeaderSeen + 1 <= HeaderMax
  <2>1. HeaderSeen = idLen + len
    BY <1>3, StateFields DEF HeaderSeen
  <2> QED BY <1>3, <2>1, ConstantFacts
<1>4. CASE \E idLen \in 1..IdMax : \E len \in 1..idLen-1 : state = State("id", len, idLen, 0, 0)
  BY <1>2, <1>4
<1>5. CASE \E idLen \in 1..IdMax : state = State("size", 0, idLen, 0, 0)
  <2>1. 0 \in Nat /\ 0 + 1 <= SizeMax
    BY MatroskaAssumption
  <2> QED BY <1>3, <1>5, <2>1
<1>6. CASE \E idLen \in 1..IdMax, sizeLen \in 1..SizeMax : \E len \in 1..sizeLen-1 :
             state = State("size", len, idLen, sizeLen, 0)
  <2>1. PICK idLen \in 1..IdMax, sizeLen \in 1..SizeMax : \E len \in 1..sizeLen-1 :
          state = State("size", len, idLen, sizeLen, 0)
    BY <1>6
  <2>2. PICK len \in 1..sizeLen-1 : state = State("size", len, idLen, sizeLen, 0)
    BY <2>1
  <2>3. len \in Nat /\ len + 1 <= SizeMax
    BY ConstantFacts
  <2> QED BY <1>3, <2>2, <2>3
<1>7. ~\E n \in Nat \ {0} : state = State("payload", 0, 0, 0, n)
  BY StateFields
<1> QED BY <1>1, <1>4, <1>5, <1>6, <1>7 DEF Shape

LEMMA HeardFields ==
  /\ Heard.at = AtUnitBoundary /\ Heard.header = HeaderSeen
  /\ Heard.owed = Owed /\ Heard.open = Inside("Cluster")
BY DEF Heard, HeaderSeen

Hears(seen) == Heard' = seen.next /\ report' = seen.large

LEMMA HearsIf ==
  ASSUME NEW at \in BOOLEAN, NEW header, NEW owed, NEW inside \in BOOLEAN, NEW large,
         AtUnitBoundary' <=> at, HeaderSeen' = header, Owed' = owed,
         Inside("Cluster")' <=> inside, report' = large
  PROVE  Hears(Reports!Seen(at, header, owed, inside, large))
<1>1. AtUnitBoundary' \in BOOLEAN /\ Inside("Cluster")' \in BOOLEAN
  BY Zenon DEF AtUnitBoundary, Inside
<1>2. AtUnitBoundary' = at /\ Inside("Cluster")' = inside
  BY <1>1, Zenon
<1>3. Heard' = [at |-> at, header |-> header, owed |-> owed, open |-> inside]
  BY <1>2, Zenon DEF Heard, HeaderSeen
<1> QED BY <1>3, Zenon DEF Hears, Reports!Seen

(* A byte the driver hears as one the contract allows is a step of it.      *)
LEMMA ConsumeStep ==
  ASSUME phase = "walking", phase' = "walking",
         NEW seen \in Reports!HeaderBytes(Matroska, Heard) \cup Reports!PayloadBytes(Matroska, Heard),
         Hears(seen)
  PROVE  Reports!Next
BY DEF Hears, Reports!Next, Reports!Consume

LEMMA Idle ==
  /\ state.kind # "payload" => Owed = 0
  /\ state'.kind # "payload" => Owed' = 0
  /\ AtElement.kind = "id" /\ AtElement.len = 0
BY StateFields DEF Owed

(***************************************************************************)
(* The bytes of a header.                                                  *)
(***************************************************************************)
LEMMA HeaderAllows ==
  ASSUME Inv, phase = "walking", state.kind # "payload"
  PROVE  LET len == HeaderSeen + 1
             inside == Inside("Cluster") IN
         /\ Reports!Seen(FALSE, len, 0, inside, 0) \in Reports!HeaderBytes(Matroska, Heard)
         /\ \A at \in BOOLEAN : Reports!Seen(at, 0, 0, FALSE, 0) \in Reports!HeaderBytes(Matroska, Heard)
         /\ inside => Reports!Seen(FALSE, 0, 0, TRUE, 0) \in Reports!HeaderBytes(Matroska, Heard)
         /\ Reports!Seen(FALSE, 0, ChunkMin, FALSE, len) \in Reports!HeaderBytes(Matroska, Heard)
         /\ Reports!Seen(FALSE, 0, 0, TRUE, len) \in Reports!HeaderBytes(Matroska, Heard)
<1> DEFINE len == HeaderSeen + 1
           inside == Inside("Cluster")
<1>1. /\ HeaderSeen \in Nat /\ len <= HeaderMax
      /\ HeaderSeen = 0 => state = AtElement
  BY HeaderCounts DEF Inv
<1>2. ~(len > HeaderMax)
  BY <1>1, ConstantFacts
<1>3. Heard.at \/ Heard.header > 0 \/ (Heard.open /\ Matroska.unknown = "header")
  <2>1. CASE HeaderSeen = 0
    <3>1. AtUnitBoundary \/ Inside("Cluster")
      BY <1>1, <2>1 DEF AtUnitBoundary
    <3>2. Matroska.unknown = "header"
      BY DEF Matroska
    <3>3. CASE AtUnitBoundary
      BY <3>3, HeardFields, Zenon
    <3>4. CASE Inside("Cluster")
      BY <3>2, <3>4, HeardFields, Zenon
    <3> QED BY <3>1, <3>3, <3>4
  <2>2. CASE HeaderSeen # 0
    <3>1. HeaderSeen > 0
      BY <1>1, <2>2
    <3> QED BY <3>1, HeardFields, Zenon
  <2> QED BY <2>1, <2>2
<1>4. Heard.header + 1 = len /\ Heard.open = inside
  BY HeardFields, Zenon
<1>5. Matroska.large = TRUE /\ Matroska.unknown # "none" /\ Matroska.unitMin = ChunkMin
  BY DEF Matroska
<1> HIDE DEF len, inside
<1>6. Reports!HeaderBytes(Matroska, Heard) =
        {Reports!Seen(FALSE, len, 0, inside, 0)}
        \cup {Reports!Seen(at, 0, 0, FALSE, 0) : at \in BOOLEAN}
        \cup (IF inside THEN {Reports!Seen(FALSE, 0, 0, TRUE, 0)} ELSE {})
        \cup {Reports!Seen(FALSE, 0, ChunkMin, FALSE, len)}
        \cup {Reports!Seen(FALSE, 0, 0, TRUE, len)}
  BY <1>2, <1>3, <1>4, <1>5, Zenon DEF Reports!HeaderBytes
<1> HIDE DEF len, inside
<1>7. /\ Reports!Seen(FALSE, len, 0, inside, 0) \in Reports!HeaderBytes(Matroska, Heard)
      /\ \A at \in BOOLEAN : Reports!Seen(at, 0, 0, FALSE, 0) \in Reports!HeaderBytes(Matroska, Heard)
      /\ inside => Reports!Seen(FALSE, 0, 0, TRUE, 0) \in Reports!HeaderBytes(Matroska, Heard)
      /\ Reports!Seen(FALSE, 0, ChunkMin, FALSE, len) \in Reports!HeaderBytes(Matroska, Heard)
      /\ Reports!Seen(FALSE, 0, 0, TRUE, len) \in Reports!HeaderBytes(Matroska, Heard)
  BY <1>6
<1> QED BY <1>7, Zenon DEF len, inside

(* A byte that moves the walker on: a cluster never opens by it, and closes *)
(* only at a boundary.                                                      *)
LEMMA GrowAfter ==
  ASSUME Inv, ~Overrun, NEW next, Grow(next)
  PROVE  /\ phase = "walking" /\ phase' = "walking" /\ offset \in Nat /\ offset' = offset + 1
         /\ report' = 0 /\ unit' = unit /\ state' = next
         /\ Inside("Cluster")' => Inside("Cluster")
         /\ next # AtElement => (Inside("Cluster")' <=> Inside("Cluster"))
<1>1. /\ phase = "walking" /\ phase' = "walking" /\ offset' = offset + 1
      /\ report' = 0 /\ unit' = unit /\ state' = next /\ GoOn(next, Debited, ends)
  BY Going DEF Grow, GoOn
<1>2. PICK d, e : /\ Standing(d, e)
                  /\ Debited = Nest(d, e, offset + 1) /\ ends = Ends(d, e)
                  /\ d > 0 /\ e.known => offset + 1 <= e.bytes
  BY <1>1, Before
<1>3. d \in 0..2 /\ IsExtent(e) /\ offset \in Nat
  BY <1>1, <1>2, Before DEF Standing
<1>4. Inside("Cluster") <=> d = 2
  BY <1>2, Insides
<1>5. GoOn(next, Nest(d, e, offset + 1), Ends(d, e))
  BY <1>1, <1>2
<1>6. /\ Inside("Cluster")' => d = 2
      /\ next # AtElement => (Inside("Cluster")' <=> d = 2)
  BY <1>1, <1>2, <1>3, <1>5, Stays
<1> QED BY <1>1, <1>3, <1>4, <1>6

LEMMA GrowHeard ==
  ASSUME Inv, ~Overrun, state.kind # "payload", NEW next, Grow(next),
         next.kind # "payload", next # AtElement, HeaderSeen' = HeaderSeen + 1
  PROVE  Reports!Next
<1>1. /\ phase = "walking" /\ phase' = "walking" /\ report' = 0 /\ state' = next
      /\ Inside("Cluster")' <=> Inside("Cluster")
  BY GrowAfter
<1>2. Inside("Cluster") \in BOOLEAN
  BY Zenon DEF Inside
<1>3. (AtUnitBoundary' <=> FALSE) /\ Owed' = 0
  BY <1>1, Idle DEF AtUnitBoundary
<1>4. Hears(Reports!Seen(FALSE, HeaderSeen + 1, 0, Inside("Cluster"), 0))
  BY <1>1, <1>2, <1>3, HearsIf
<1> QED BY <1>1, <1>4, HeaderAllows, ConsumeStep

LEMMA IdHeard ==
  ASSUME Inv, IdByte PROVE Reports!Next /\ state'.kind # "payload"
<1>1. PICK idLen \in IF state.len = 0 THEN 1..IdMax ELSE {state.idLen} :
        Grow(IF state.len + 1 = idLen THEN State("size", 0, idLen, 0, 0)
             ELSE State("id", state.len + 1, idLen, 0, 0))
  BY DEF IdByte
<1>2. state.kind = "id" /\ ~Overrun /\ HeaderSeen = state.len
  BY DEF IdByte, HeaderSeen
<1>3. phase = "walking"
  BY <1>1, Going DEF Grow
<1>4. state.len \in Nat
  BY <1>2, <1>3, ShapeFields DEF Inv
<1>5. CASE state.len + 1 = idLen
  <2> DEFINE next == State("size", 0, idLen, 0, 0)
  <2>1. Grow(next) /\ next.kind = "size" /\ next.idLen = idLen /\ next.len = 0 /\ next # AtElement
    BY <1>1, <1>5, StateFields
  <2> HIDE DEF next
  <2>2. state' = next
    BY <2>1 DEF Grow, GoOn
  <2>3. HeaderSeen' = idLen + 0
    BY <2>1, <2>2 DEF HeaderSeen
  <2>4. HeaderSeen' = HeaderSeen + 1
    BY <1>2, <1>4, <1>5, <2>3
  <2> QED BY <1>2, <2>1, <2>2, <2>4, GrowHeard
<1>6. CASE state.len + 1 # idLen
  <2> DEFINE next == State("id", state.len + 1, idLen, 0, 0)
  <2>1. Grow(next) /\ next.kind = "id" /\ next.len = state.len + 1
    BY <1>1, <1>6, StateFields
  <2> HIDE DEF next
  <2>2. state' = next /\ next # AtElement
    BY <1>4, <2>1, StateFields DEF Grow, GoOn
  <2>3. HeaderSeen' = HeaderSeen + 1
    BY <1>2, <2>1, <2>2 DEF HeaderSeen
  <2> QED BY <1>2, <2>1, <2>2, <2>3, GrowHeard
<1> QED BY <1>5, <1>6

(***************************************************************************)
(* A complete header.                                                      *)
(***************************************************************************)
LEMMA SegmentHeard ==
  ASSUME Inv, ~Overrun, phase = "walking", state.kind = "size",
         NEW size \in Sizes(MaxSize), open = <<>>, OpenSegment(size),
         declared' = IF offset + 1 + size.bytes > declared THEN offset + 1 + size.bytes ELSE declared
  PROVE  Reports!Next /\ state'.kind # "payload"
<1>1. phase' = "walking" /\ report' = 0 /\ state' = AtElement
  BY Going DEF OpenSegment, GoOn
<1>2. ~Inside("Cluster")'
  BY SegmentOpens
<1>3. /\ AtUnitBoundary' <=> TRUE
      /\ Inside("Cluster")' <=> FALSE
  BY <1>1, <1>2 DEF AtUnitBoundary
<1>4. state'.kind = "id" /\ HeaderSeen' = 0 /\ Owed' = 0
  BY <1>1, Idle DEF HeaderSeen
<1>5. Hears(Reports!Seen(TRUE, 0, 0, FALSE, 0))
  BY <1>1, <1>3, <1>4, HearsIf
<1>6. Reports!Seen(TRUE, 0, 0, FALSE, 0) \in Reports!HeaderBytes(Matroska, Heard)
  BY HeaderAllows
<1> QED BY <1>1, <1>4, <1>5, <1>6, ConsumeStep

LEMMA ClusterHeard ==
  ASSUME Inv, ~Overrun, phase = "walking", state.kind = "size", open # <<>>,
         OpenCluster(HeaderSeen + 1),
         declared' = IF offset + 1 > declared THEN offset + 1 ELSE declared
  PROVE  Reports!Next /\ state'.kind # "payload"
<1>1. phase' = "walking" /\ report' = HeaderSeen + 1 /\ state' = AtElement
  BY Going DEF OpenCluster
<1>2. Inside("Cluster")'
  BY ClusterOpens
<1>3. /\ AtUnitBoundary' <=> FALSE
      /\ Inside("Cluster")' <=> TRUE
  BY <1>2 DEF AtUnitBoundary
<1>4. state'.kind = "id" /\ HeaderSeen' = 0 /\ Owed' = 0
  BY <1>1, Idle DEF HeaderSeen
<1>5. Hears(Reports!Seen(FALSE, 0, 0, TRUE, HeaderSeen + 1))
  BY <1>1, <1>3, <1>4, HearsIf
<1>6. Reports!Seen(FALSE, 0, 0, TRUE, HeaderSeen + 1) \in Reports!HeaderBytes(Matroska, Heard)
  BY HeaderAllows
<1> QED BY <1>1, <1>4, <1>5, <1>6, ConsumeStep

LEMMA BeginHeard ==
  ASSUME Inv, ~Overrun, phase = "walking", state.kind = "size",
         NEW id, NEW n \in Nat, BeginPayload(id, Known(n), HeaderSeen + 1)
  PROVE  Reports!Next /\ Ledger'
<1> DEFINE next == IF Known(n).bytes = 0 THEN AtElement ELSE State("payload", 0, 0, 0, Known(n).bytes)
           large == ReportsLarge(id, Known(n))
           inside == Inside("Cluster") /\ IsClusterChild(id)
<1>a. next = IF n = 0 THEN AtElement ELSE State("payload", 0, 0, 0, n)
  BY SizeFields
<1>b. large <=> open # <<>> /\ ~inside /\ n >= ChunkMin
  BY SizeFields DEF ReportsLarge
<1>1. /\ phase' = "walking" /\ offset' = offset + 1 /\ state' = next
      /\ GoOn(next, SubSeq(Debited, 1, Parents(id)), SubSeq(ends, 1, Parents(id)))
      /\ report' = IF large THEN HeaderSeen + 1 ELSE 0
      /\ unit' = [begin |-> offset + 1, end |-> offset + 1 + n, large |-> large]
  <2>1. /\ GoOn(next, SubSeq(Debited, 1, Parents(id)), SubSeq(ends, 1, Parents(id)))
        /\ Consumed(IF large THEN HeaderSeen + 1 ELSE 0)
        /\ unit' = [begin |-> offset + 1, end |-> offset + 1 + Known(n).bytes, large |-> large]
    BY Zenon DEF BeginPayload
  <2> HIDE DEF next, large
  <2>2. state' = next
    BY <2>1 DEF GoOn
  <2>3. Known(n).bytes = n
    BY SizeFields
  <2>4. /\ phase' = "walking" /\ offset' = offset + 1
        /\ report' = IF large THEN HeaderSeen + 1 ELSE 0
    BY <2>1, Zenon DEF Consumed
  <2>5. unit' = [begin |-> offset + 1, end |-> offset + 1 + n, large |-> large]
    BY <2>1, <2>3
  <2>6. GoOn(next, SubSeq(Debited, 1, Parents(id)), SubSeq(ends, 1, Parents(id)))
    BY <2>1
  <2> QED BY <2>2, <2>4, <2>5, <2>6, Zenon
<1>c. large \in BOOLEAN
  BY Zenon DEF ReportsLarge
<1> HIDE DEF next, large
<1>2. PICK d, e : /\ Standing(d, e)
                  /\ Debited = Nest(d, e, offset + 1) /\ ends = Ends(d, e)
                  /\ d > 0 /\ e.known => offset + 1 <= e.bytes
  BY Before
<1>3. d \in 0..2 /\ IsExtent(e) /\ offset \in Nat
  BY <1>2, Before DEF Standing
<1>4. PICK p \in 0..d : p = Parents(id) /\ (d > 0 <=> p > 0)
  BY <1>2, <1>3, Insides
<1>5. (open = <<>> <=> d = 0) /\ (Inside("Cluster") <=> d = 2)
  BY <1>2, Insides
<1>6. p = 2 <=> inside
  <2>1. Len(open) = d
    <3>1. open = Nest(d, e, offset)
      BY <1>2 DEF Standing
    <3>2. Len(Nest(d, e, offset)) = d
      BY <1>3, NestLength, Zenon
    <3> QED BY <3>1, <3>2
  <2>2. p = IF d = 2 /\ ~IsClusterChild(id) THEN d - 1 ELSE d
    BY <1>4, <1>5, <2>1 DEF Parents
  <2> QED BY <1>3, <1>5, <2>2
<1>7. GoOn(next, Nest(p, e, offset + 1), Ends(p, e))
  BY <1>1, <1>2, <1>3, <1>4, NestCut
<1>8. /\ Inside("Cluster")' => inside
      /\ next # AtElement => (Inside("Cluster")' <=> inside)
  <2>1. p \in 0..2 /\ (p > 0 /\ e.known => offset + 1 <= e.bytes)
    BY <1>2, <1>3, <1>4
  <2>2. /\ Inside("Cluster")' => p = 2
        /\ next # AtElement => (Inside("Cluster")' <=> p = 2)
    BY <1>1, <1>3, <1>7, <2>1, Stays
  <2> QED BY <1>6, <2>2
<1> HIDE DEF inside
<1>9. inside => Inside("Cluster")
  BY DEF inside
<1>10. Inside("Cluster")' \in BOOLEAN
  BY Zenon DEF Inside
<1>11. ChunkMin \in Nat /\ ChunkMin > 0
  BY ConstantFacts
<1>12. CASE n = 0
  <2>1. state' = AtElement /\ state'.kind = "id" /\ report' = 0
    BY <1>1, <1>a, <1>b, <1>11, <1>12, Idle
  <2>2. HeaderSeen' = 0 /\ Owed' = 0
    BY <2>1, Idle DEF HeaderSeen
  <2>3. AtUnitBoundary' <=> ~Inside("Cluster")'
    BY <2>1 DEF AtUnitBoundary
  <2>4. Ledger'
    BY <2>1 DEF Ledger
  <2>5. CASE Inside("Cluster")'
    <3>1. Hears(Reports!Seen(FALSE, 0, 0, TRUE, 0))
      BY <2>1, <2>2, <2>3, <2>5, HearsIf
    <3>2. Reports!Seen(FALSE, 0, 0, TRUE, 0) \in Reports!HeaderBytes(Matroska, Heard)
      BY <1>8, <1>9, <2>5, HeaderAllows
    <3> QED BY <1>1, <2>4, <3>1, <3>2, ConsumeStep
  <2>6. CASE ~Inside("Cluster")'
    <3>1. Hears(Reports!Seen(TRUE, 0, 0, FALSE, 0))
      BY <2>1, <2>2, <2>3, <2>6, HearsIf
    <3>2. Reports!Seen(TRUE, 0, 0, FALSE, 0) \in Reports!HeaderBytes(Matroska, Heard)
      BY HeaderAllows
    <3> QED BY <1>1, <2>4, <3>1, <3>2, ConsumeStep
  <2> QED BY <2>5, <2>6
<1>13. CASE n # 0
  <2>1. state' = State("payload", 0, 0, 0, n) /\ state'.kind = "payload" /\ state' # AtElement
    BY <1>1, <1>13, <1>a, StateFields
  <2>2. next # AtElement /\ (Inside("Cluster")' <=> inside)
    BY <1>1, <1>8, <2>1
  <2>3. HeaderSeen' = 0 /\ (AtUnitBoundary' <=> FALSE)
    BY <2>1 DEF HeaderSeen, AtUnitBoundary
  <2>4. /\ unit'.begin = offset' /\ unit'.begin \in Nat /\ unit'.end - unit'.begin = n
        /\ unit'.large = large /\ offset' \in Nat
    BY <1>1, <1>3
  <2>5. Ledger'
    BY <1>b, <1>c, <2>2, <2>4 DEF Ledger, inside
  <2>6. CASE large
    <3>1. Owed' = ChunkMin /\ report' = HeaderSeen + 1
      <4>1. offset' - unit'.begin = 0
        <5>1. \A b \in Nat : b - b = 0
          OBVIOUS
        <5> QED BY <2>4, <5>1, Zenon
      <4>2. Owed' = ChunkMin - 0
        BY <1>11, <2>1, <2>4, <2>6, <4>1 DEF Owed
      <4> QED BY <1>1, <1>11, <2>6, <4>2
    <3>2. ~inside
      BY <1>b, <2>6
    <3>3. Hears(Reports!Seen(FALSE, 0, ChunkMin, FALSE, HeaderSeen + 1))
      BY <2>2, <2>3, <3>1, <3>2, HearsIf
    <3>4. Reports!Seen(FALSE, 0, ChunkMin, FALSE, HeaderSeen + 1) \in Reports!HeaderBytes(Matroska, Heard)
      BY HeaderAllows
    <3> QED BY <1>1, <2>5, <3>3, <3>4, ConsumeStep
  <2>7. CASE ~large
    <3>1. Owed' = 0 /\ report' = 0
      BY <1>1, <2>4, <2>7 DEF Owed
    <3>2. CASE inside
      <4>1. Hears(Reports!Seen(FALSE, 0, 0, TRUE, 0))
        BY <2>2, <2>3, <3>1, <3>2, HearsIf
      <4>2. Reports!Seen(FALSE, 0, 0, TRUE, 0) \in Reports!HeaderBytes(Matroska, Heard)
        BY <1>9, <3>2, HeaderAllows
      <4> QED BY <1>1, <2>5, <4>1, <4>2, ConsumeStep
    <3>3. CASE ~inside
      <4>1. Hears(Reports!Seen(FALSE, 0, 0, FALSE, 0))
        BY <2>2, <2>3, <3>1, <3>3, HearsIf
      <4>2. Reports!Seen(FALSE, 0, 0, FALSE, 0) \in Reports!HeaderBytes(Matroska, Heard)
        BY HeaderAllows
      <4> QED BY <1>1, <2>5, <4>1, <4>2, ConsumeStep
    <3> QED BY <3>2, <3>3
  <2> QED BY <2>6, <2>7
<1> QED BY <1>12, <1>13

LEMMA SizeHeard ==
  ASSUME Inv, SizeByte PROVE Reports!Next /\ Ledger'
<1>1. PICK sizeLen \in IF state.len = 0 THEN 1..SizeMax ELSE {state.sizeLen} :
        IF state.len + 1 = sizeLen THEN OpenElement(state.idLen + sizeLen)
        ELSE Grow(State("size", state.len + 1, state.idLen, sizeLen, 0))
  BY DEF SizeByte
<1>2. state.kind = "size" /\ ~Overrun /\ HeaderSeen = state.idLen + state.len
  BY DEF SizeByte, HeaderSeen
<1>3. phase = "walking"
  BY <1>1, Going DEF Grow, OpenElement, OpenSegment, BeginPayload, OpenCluster
<1>4. state.len \in Nat /\ state.idLen \in Nat
  BY <1>2, <1>3, ShapeFields DEF Inv
<1>5. CASE state.len + 1 # sizeLen
  <2> DEFINE next == State("size", state.len + 1, state.idLen, sizeLen, 0)
  <2>1. /\ Grow(next) /\ next.kind = "size" /\ next.len = state.len + 1
        /\ next.idLen = state.idLen /\ next # AtElement
    BY <1>1, <1>5, StateFields
  <2> HIDE DEF next
  <2>2. state' = next
    BY <2>1 DEF Grow, GoOn
  <2>3. HeaderSeen' = state.idLen + (state.len + 1)
    BY <2>1, <2>2 DEF HeaderSeen
  <2>4. HeaderSeen' = HeaderSeen + 1
    BY <1>2, <1>4, <2>3
  <2>5. Ledger'
    BY <2>1, <2>2 DEF Ledger
  <2> QED BY <1>2, <2>1, <2>4, <2>5, GrowHeard
<1>6. CASE state.len + 1 = sizeLen
  <2>1. state.idLen + sizeLen = HeaderSeen + 1
    BY <1>2, <1>4, <1>6
  <2>2. PICK id \in Elements, size \in Sizes(MaxSize) :
          /\ ~ElementRejected(id, size)
          /\ declared' = IF offset + 1 + size.bytes > declared THEN offset + 1 + size.bytes ELSE declared
          /\ IF open = <<>> /\ id = "Segment" THEN OpenSegment(size)
             ELSE IF size.known THEN BeginPayload(id, size, HeaderSeen + 1)
             ELSE OpenCluster(HeaderSeen + 1)
    BY <1>1, <1>6, <2>1 DEF OpenElement
  <2>3. CASE open = <<>> /\ id = "Segment"
    BY <1>2, <1>3, <2>2, <2>3, SegmentHeard DEF Ledger
  <2>4. CASE ~(open = <<>> /\ id = "Segment") /\ size.known
    <3>1. PICK n \in Nat : size = Known(n)
      BY <2>4, MatroskaAssumption, SizeFields DEF Sizes
    <3> QED BY <1>2, <1>3, <2>2, <2>4, <3>1, BeginHeard
  <2>5. CASE ~(open = <<>> /\ id = "Segment") /\ ~size.known
    <3>1. size.bytes = 0
      BY <2>5, SizeFields DEF Sizes
    <3>2. open # <<>>
      BY <2>2, <2>5 DEF ElementRejected, Admitted
    <3>3. offset \in Nat
      BY DEF Inv
    <3>4. declared' = IF offset + 1 > declared THEN offset + 1 ELSE declared
      BY <2>2, <3>1, <3>3
    <3>5. OpenCluster(HeaderSeen + 1)
      BY <2>2, <2>5
    <3> QED BY <1>2, <1>3, <3>2, <3>4, <3>5, ClusterHeard DEF Ledger
  <2> QED BY <2>3, <2>4, <2>5
<1> QED BY <1>5, <1>6

(***************************************************************************)
(* The bytes of a payload, and the end.                                    *)
(***************************************************************************)
LEMMA PayloadHeard ==
  ASSUME Inv, Ledger, PayloadByte PROVE Reports!Next /\ Ledger'
<1> DEFINE next == IF state.remaining = 1 THEN AtElement
                   ELSE [state EXCEPT !.remaining = @ - 1]
           seen == offset - unit.begin
<1>1. Grow(next) /\ ~Overrun /\ state.kind = "payload"
  BY DEF PayloadByte
<1>2. phase = "walking" /\ Shape
  BY <1>1, Going DEF Grow, Inv
<1>3. /\ state.remaining \in Nat \ {0}
      /\ state = State("payload", 0, 0, 0, state.remaining)
  BY <1>1, <1>2, ShapeFields
<1>4. next # AtElement => next.kind = "payload"
  BY <1>1, <1>3 DEF State
<1>5. state.remaining # 1 => next.kind = "payload" /\ next # AtElement
  BY <1>1, <1>3, StateFields DEF State
<1>6. state.remaining = 1 => next = AtElement
  OBVIOUS
<1> HIDE DEF next
<1>7. /\ phase' = "walking" /\ offset \in Nat /\ offset' = offset + 1
      /\ report' = 0 /\ unit' = unit /\ state' = next
      /\ Inside("Cluster")' => Inside("Cluster")
      /\ next # AtElement => (Inside("Cluster")' <=> Inside("Cluster"))
  BY <1>1, GrowAfter
<1>8. /\ unit.begin \in Nat /\ unit.begin <= offset
      /\ unit.large => ~Inside("Cluster") /\ unit.end - unit.begin >= ChunkMin
      /\ unit.end = offset + state.remaining
  BY <1>1, <1>2, PayloadInside DEF Ledger
<1>9. Ledger'
  <2>1. unit'.begin \in Nat /\ unit'.begin <= offset'
    BY <1>7, <1>8
  <2>2. unit'.large => ~Inside("Cluster")' /\ unit'.end - unit'.begin >= ChunkMin
    BY <1>7, <1>8
  <2> QED BY <2>1, <2>2 DEF Ledger
<1>10. ChunkMin \in Nat
  BY ConstantFacts
<1>11. Owed = IF unit.large /\ seen < ChunkMin THEN ChunkMin - seen ELSE 0
  BY <1>1, Zenon DEF Owed
<1>12. state.remaining # 1 =>
         Owed' = IF unit.large /\ seen + 1 < ChunkMin THEN ChunkMin - (seen + 1) ELSE 0
  <2>1. unit'.begin = unit.begin /\ unit'.large = unit.large
    BY <1>7
  <2>2. offset' - unit'.begin = seen + 1
    BY <1>7, <1>8, <2>1
  <2>3. state.remaining # 1 => state'.kind = "payload"
    BY <1>5, <1>7
  <2> QED BY <2>1, <2>2, <2>3, Zenon DEF Owed
<1>13. state.remaining = 1 => state'.kind = "id" /\ HeaderSeen' = 0 /\ Owed' = 0 /\ state' = AtElement
  <2>1. state.remaining = 1 => state' = AtElement
    BY <1>6, <1>7
  <2> QED BY <2>1, Idle DEF HeaderSeen
<1>14. state.remaining # 1 => HeaderSeen' = 0 /\ (AtUnitBoundary' <=> FALSE)
  BY <1>5, <1>7 DEF HeaderSeen, AtUnitBoundary
<1>15. /\ ~Heard.at /\ ~(Heard.header > 0) /\ Heard.owed = Owed /\ Heard.open = Inside("Cluster")
  <2>1. ~AtUnitBoundary /\ HeaderSeen = 0
    BY <1>1, Idle DEF AtUnitBoundary, HeaderSeen
  <2>2. ~Heard.at /\ Heard.header = 0
    BY <2>1, HeardFields, Zenon
  <2> QED BY <2>2, HeardFields
<1> HIDE DEF seen
<1>16. seen \in Nat /\ seen = offset - unit.begin
  BY <1>7, <1>8 DEF seen
<1>17. CASE Owed > 1
  <2>1. unit.large /\ seen < ChunkMin /\ Owed = ChunkMin - seen
    BY <1>11, <1>17
  <2>2. state.remaining # 1
    BY <1>3, <1>7, <1>8, <1>10, <1>16, <1>17, <2>1
  <2>3. Owed' = Owed - 1
    BY <1>10, <1>12, <1>16, <1>17, <2>1, <2>2
  <2>4. Inside("Cluster")' <=> FALSE
    BY <1>7, <1>8, <2>1
  <2>5. Hears(Reports!Seen(FALSE, 0, Owed - 1, FALSE, 0))
    BY <1>7, <1>14, <2>2, <2>3, <2>4, HearsIf
  <2>6. Reports!PayloadBytes(Matroska, Heard) = {Reports!Seen(FALSE, 0, Owed - 1, FALSE, 0)}
    BY <1>15, <1>17, Zenon DEF Reports!PayloadBytes
  <2>7. Reports!Next
    BY <1>2, <1>7, <2>5, <2>6, ConsumeStep
  <2> QED BY <1>9, <2>7
<1>18. CASE ~(Owed > 1)
  <2>1. Reports!PayloadBytes(Matroska, Heard) =
          {Reports!Seen(FALSE, 0, 0, Inside("Cluster"), 0)}
          \cup {Reports!Seen(TRUE, 0, 0, FALSE, 0)}
    <3>1. Matroska.unknown # "stream"
      BY DEF Matroska
    <3> QED BY <1>15, <1>18, <3>1, Zenon DEF Reports!PayloadBytes
  <2>2. Inside("Cluster") \in BOOLEAN
    BY Zenon DEF Inside
  <2>3. CASE state.remaining # 1
    <3>1. Owed' = 0
      BY <1>10, <1>11, <1>12, <1>16, <1>18, <2>3
    <3>2. Inside("Cluster")' <=> Inside("Cluster")
      BY <1>5, <1>7, <2>3
    <3>3. Hears(Reports!Seen(FALSE, 0, 0, Inside("Cluster"), 0))
      BY <1>7, <1>14, <2>2, <2>3, <3>1, <3>2, HearsIf
    <3>4. Reports!Next
      BY <1>2, <1>7, <2>1, <3>3, ConsumeStep
    <3> QED BY <1>9, <3>4
  <2>4. CASE state.remaining = 1 /\ Inside("Cluster")'
    <3>1. /\ Inside("Cluster") /\ (AtUnitBoundary' <=> FALSE)
          /\ Inside("Cluster")' <=> TRUE
      BY <1>7, <2>4 DEF AtUnitBoundary
    <3>2. Hears(Reports!Seen(FALSE, 0, 0, TRUE, 0))
      BY <1>7, <1>13, <2>4, <3>1, HearsIf
    <3>3. Inside("Cluster") = TRUE
      BY <2>2, <3>1
    <3>4. Reports!Seen(FALSE, 0, 0, TRUE, 0) \in Reports!PayloadBytes(Matroska, Heard)
      BY <2>1, <3>3
    <3>5. Reports!Next
      BY <1>2, <1>7, <3>2, <3>4, ConsumeStep
    <3> QED BY <1>9, <3>5
  <2>5. CASE state.remaining = 1 /\ ~Inside("Cluster")'
    <3>1. /\ AtUnitBoundary' <=> TRUE
          /\ Inside("Cluster")' <=> FALSE
      BY <1>13, <2>5 DEF AtUnitBoundary
    <3>2. Hears(Reports!Seen(TRUE, 0, 0, FALSE, 0))
      BY <1>7, <1>13, <2>5, <3>1, HearsIf
    <3>3. Reports!Next
      BY <1>2, <1>7, <2>1, <3>2, ConsumeStep
    <3> QED BY <1>9, <3>3
  <2> QED BY <2>3, <2>4, <2>5
<1> QED BY <1>17, <1>18

LEMMA RefuseHeard ==
  ASSUME RefuseByte \/ FinishTruncated PROVE Reports!Next /\ Ledger'
<1>1. /\ phase = "walking" /\ phase' \in {"faulted", "truncated"} /\ report' = 0
  BY DEF RefuseByte, FinishTruncated, Refuse
<1> QED BY <1>1 DEF Ledger, Reports!Next, Reports!Fault

LEMMA FinishHeard ==
  ASSUME FinishOk PROVE Reports!Next /\ Ledger'
<1>1. /\ phase = "walking" /\ phase' = "ended" /\ state = AtElement
      /\ UNCHANGED <<state, open, offset, report, unit>>
  BY DEF FinishOk, EndsWell
<1>2. Heard' = Heard
  BY <1>1 DEF Heard, AtUnitBoundary, Inside, Owed
<1>3. HeaderSeen = 0 /\ Owed = 0
  BY <1>1, Idle DEF HeaderSeen
<1>4. Heard.header = 0 /\ Heard.owed = 0
  BY <1>3, HeardFields, Zenon
<1> QED BY <1>1, <1>2, <1>4 DEF Ledger, Reports!Next, Reports!End

LEMMA LedgerHolds == Spec => []Ledger
<1>1. Init => Ledger
  BY StateFields DEF Init, Ledger
<1>2. Inv /\ Ledger /\ [Next]_vars => Ledger'
  <2> SUFFICES ASSUME Inv, Ledger, [Next]_vars PROVE Ledger'
    OBVIOUS
  <2>1. CASE UNCHANGED vars
    BY <2>1 DEF vars, Ledger, Inside
  <2>2. CASE IdByte
    BY <2>2, IdHeard DEF Ledger
  <2> QED BY <2>1, <2>2, SizeHeard, PayloadHeard, RefuseHeard, FinishHeard DEF Next
<1> QED BY <1>1, <1>2, AlwaysInv, PTL DEF Spec

(* consume reports elements as ContainerChunker relies on: a large unit at  *)
(* the byte that completes its header, with the header's length, and a      *)
(* Cluster of unknown size as open until something ends it.                 *)
THEOREM WalkerKeepsItsContract == Spec => ImplementsReports
<1>1. Init => Reports!Init
  <2> SUFFICES ASSUME Init PROVE Reports!Init
    OBVIOUS
  <2>1. /\ state = AtElement /\ open = <<>> /\ report = 0 /\ phase = "walking"
        /\ state.kind = "id" /\ state.len = 0
    BY Idle DEF Init
  <2>2. ~Inside("Cluster") /\ Inside("Cluster") \in BOOLEAN
    BY <2>1, Zenon DEF Inside
  <2>3. AtUnitBoundary = TRUE /\ Inside("Cluster") = FALSE
    BY <2>1, <2>2 DEF AtUnitBoundary
  <2>4. HeaderSeen = 0 /\ Owed = 0
    BY <2>1, Idle DEF HeaderSeen
  <2>5. Heard = [at |-> TRUE, header |-> 0, owed |-> 0, open |-> FALSE]
    BY <2>3, <2>4, Zenon DEF Heard, HeaderSeen
  <2> QED BY <2>1, <2>5 DEF Reports!Init, Reports!NewWalker
<1>2. Inv /\ Ledger /\ [Next]_vars =>
        [Reports!Next]_<<Heard, report, IF phase = "truncated" THEN "faulted" ELSE phase>>
  <2> SUFFICES ASSUME Inv, Ledger, [Next]_vars
               PROVE  Reports!Next
                        \/ UNCHANGED <<Heard, report, IF phase = "truncated" THEN "faulted" ELSE phase>>
    OBVIOUS
  <2>1. CASE UNCHANGED vars
    BY <2>1 DEF vars, Heard, AtUnitBoundary, Inside, Owed
  <2> QED BY <2>1, IdHeard, SizeHeard, PayloadHeard, RefuseHeard, FinishHeard DEF Next
<1> QED BY <1>1, <1>2, AlwaysInv, LedgerHolds, PTL DEF Spec, ImplementsReports, Reports!Spec
=============================================================================
