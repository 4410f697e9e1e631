--------------------------- MODULE DecomposerProofs ---------------------------
(***************************************************************************)
(* The recursion driver, for every depth limit, member limit, probe length *)
(* and inflation bound: whatever the readers make of a compound, the stack *)
(* of levels is the path of nested members to the one in flight, and the   *)
(* callbacks are those a DecompositionSink may rely on.                    *)
(***************************************************************************)
EXTENDS Decomposer, SequenceTheorems, FiniteSetTheorems, WellFoundedInduction, TLAPS

(***************************************************************************)
(* Sequences of events: from member to member.                             *)
(***************************************************************************)
\* Whether a member is open before the k-th event; before the first, `open`.
Before(q, open, k) == IF k = 1 THEN open ELSE q[k - 1].is \in {"start", "bytes"}

\* The bytes of that member so far, with g before the first event.
Amount(q, g, k) ==
  IF k = 1 THEN g
  ELSE IF q[k - 1].is # "bytes" THEN 0
  ELSE IF k = 2 THEN g + q[1].n ELSE q[k - 1].n

\* The events are those of whole members, but for the one open before them and
\* the one open behind them, of which `made` bytes were made.
Follows(q, open, g, inside, made) ==
  /\ \A k \in 1..Len(q) : q[k].is \in {"bytes", "end"} <=> Before(q, open, k)
  /\ \A k \in 2..Len(q) : q[k].is = "bytes" => q[k - 1].is = "start"
  /\ \A k \in 1..Len(q) : q[k].is = "end" => q[k].n = Amount(q, g, k)
  /\ Before(q, open, Len(q) + 1) <=> inside
  /\ inside => made = Amount(q, g, Len(q) + 1)

\* The container is announced once, before everything else.
Fresh(q, known) ==
  IF known THEN \A k \in 1..Len(q) : q[k].is # "announce"
  ELSE q # <<>> /\ \A k \in 1..Len(q) : q[k].is = "announce" <=> k = 1

EventKinds == {"announce", "entry", "start", "bytes", "end"}

(* The events and their kinds.                                              *)
LEMMA EventTypes ==
  /\ Announce \in Events /\ Announce.is = "announce"
  /\ Entry \in Events /\ Entry.is = "entry"
  /\ Start \in Events /\ Start.is = "start"
  /\ \A n \in Nat : Data(n) \in Events /\ Data(n).is = "bytes" /\ Data(n).n = n
  /\ \A n \in Nat : End(n) \in Events /\ End(n).is = "end" /\ End(n).n = n
BY DEF Announce, Entry, Start, Data, End, Events

LEMMA EventFields ==
  ASSUME NEW e \in Events
  PROVE  /\ e.is \in EventKinds
         /\ e.is \in {"bytes", "end"} => e.n \in Nat
         /\ e.is = "bytes" => e = Data(e.n)
<1>1. CASE e \in [is : {"announce", "entry", "start"}]
  BY <1>1 DEF EventKinds
<1>2. CASE e \in [is : {"bytes", "end"}, n : Nat]
  BY <1>2 DEF EventKinds, Data
<1> QED BY <1>1, <1>2 DEF Events

(* The events and one more.                                                 *)
LEMMA OneMoreEvent ==
  ASSUME NEW q \in Seq(Events), NEW e \in Events
  PROVE  /\ Append(q, e) \in Seq(Events) /\ Len(q) \in Nat
         /\ Len(Append(q, e)) = Len(q) + 1 /\ Append(q, e) # <<>>
         /\ Append(q, e)[Len(q) + 1] = e
         /\ \A i \in 1..Len(q) : Append(q, e)[i] = q[i]
<1>1. /\ Append(q, e) \in Seq(Events) /\ Len(q) \in Nat
      /\ Len(Append(q, e)) = Len(q) + 1
      /\ Append(q, e)[Len(q) + 1] = e
      /\ \A i \in 1..Len(q) : Append(q, e)[i] = q[i]
  BY AppendProperties, LenProperties
<1>2. Append(q, e) # <<>>
  BY <1>1, EmptySeq
<1> QED BY <1>1, <1>2

(* One more event at the back.                                              *)
LEMMA FollowsOneMore ==
  ASSUME NEW q \in Seq(Events), NEW e \in Events, NEW open \in BOOLEAN, NEW g \in Nat,
         NEW inside \in BOOLEAN, NEW made \in Nat, Follows(q, open, g, inside, made),
         e.is \in {"bytes", "end"} <=> inside,
         e.is = "bytes" => q = <<>> \/ q[Len(q)].is = "start",
         e.is = "end" => e.n = made
  PROVE  Follows(Append(q, e), open, g, e.is \in {"start", "bytes"},
                 IF e.is = "bytes" THEN made + e.n ELSE 0)
<1> DEFINE v == Append(q, e)
<1>1. PICK n \in Nat : n = Len(q)
  BY LenProperties
<1>2. /\ v \in Seq(Events) /\ Len(v) = n + 1 /\ v[n + 1] = e
      /\ \A i \in 1..n : v[i] = q[i]
  BY <1>1, OneMoreEvent
<1> HIDE DEF v
<1>3. \A k \in 1..(n + 1) : /\ Before(v, open, k) = Before(q, open, k)
                            /\ Amount(v, g, k) = Amount(q, g, k)
  <2> TAKE k \in 1..(n + 1)
  <2>1. CASE k = 1
    BY <2>1 DEF Before, Amount
  <2>2. CASE k # 1
    <3>1. k - 1 \in 1..n
      BY <2>2
    <3>2. v[k - 1] = q[k - 1]
      BY <1>2, <3>1
    <3>3. k = 2 => v[1] = q[1]
      BY <3>2
    <3> QED BY <2>2, <3>2, <3>3 DEF Before, Amount
  <2> QED BY <2>1, <2>2
<1>4. /\ \A k \in 1..n : q[k].is \in {"bytes", "end"} <=> Before(q, open, k)
      /\ \A k \in 2..n : q[k].is = "bytes" => q[k - 1].is = "start"
      /\ \A k \in 1..n : q[k].is = "end" => q[k].n = Amount(q, g, k)
      /\ Before(q, open, n + 1) <=> inside
      /\ inside => made = Amount(q, g, n + 1)
  BY <1>1 DEF Follows
<1>5. \A k \in 1..(n + 1) : (k \in 1..n /\ v[k] = q[k]) \/ (k = n + 1 /\ v[k] = e)
  BY <1>2
<1>6. \A k \in 1..(n + 1) : v[k].is \in {"bytes", "end"} <=> Before(v, open, k)
  BY <1>3, <1>4, <1>5
<1>7. ASSUME NEW k \in 2..(n + 1), v[k].is = "bytes" PROVE v[k - 1].is = "start"
  <2>1. k - 1 \in 1..n /\ v[k - 1] = q[k - 1]
    BY <1>2
  <2>2. CASE k \in 2..n
    BY <1>2, <1>4, <1>7, <2>1, <2>2
  <2>3. CASE k = n + 1
    <3>1. q # <<>> /\ k - 1 = n
      BY <1>1, <2>1, <2>3, EmptySeq
    <3> QED BY <1>1, <1>2, <1>7, <2>1, <2>3, <3>1
  <2> QED BY <2>2, <2>3
<1>8. \A k \in 1..(n + 1) : v[k].is = "end" => v[k].n = Amount(v, g, k)
  <2> TAKE k \in 1..(n + 1)
  <2>1. CASE k \in 1..n
    BY <1>2, <1>3, <1>4, <2>1
  <2>2. CASE k = n + 1
    <3>1. e.is = "end" => e.n = Amount(q, g, n + 1)
      BY <1>4
    <3> QED BY <1>2, <1>3, <2>2, <3>1
  <2> QED BY <2>1, <2>2
<1>9. n + 1 + 1 # 1 /\ (n + 1 + 1) - 1 = n + 1
  OBVIOUS
<1>10. Before(v, open, n + 1 + 1) <=> e.is \in {"start", "bytes"}
  BY <1>2, <1>9 DEF Before
<1>11. e.is \in {"start", "bytes"}
       => (IF e.is = "bytes" THEN made + e.n ELSE 0) = Amount(v, g, n + 1 + 1)
  <2>1. CASE e.is # "bytes"
    BY <1>2, <1>9, <2>1 DEF Amount
  <2>2. CASE e.is = "bytes" /\ n = 0
    <3>1. made = g
      BY <1>4, <2>2 DEF Amount
    <3> QED BY <1>2, <1>9, <2>2, <3>1 DEF Amount
  <2>3. CASE e.is = "bytes" /\ n # 0
    <3>1. q[n].is = "start"
      BY <1>1, <2>3, EmptySeq
    <3>2. made = 0
      <4>1. n + 1 # 1 /\ (n + 1) - 1 = n
        BY <2>3
      <4> QED BY <1>4, <2>3, <3>1, <4>1 DEF Amount
    <3>3. Amount(v, g, n + 1 + 1) = e.n
      <4>1. n + 1 + 1 # 2
        BY <2>3
      <4> QED BY <1>2, <1>9, <2>3, <4>1 DEF Amount
    <3>4. e.n \in Nat
      BY <2>3, EventFields
    <3> QED BY <2>3, <3>2, <3>3, <3>4
  <2> QED BY <2>1, <2>2, <2>3
<1>12. Follows(v, open, g, e.is \in {"start", "bytes"},
               IF e.is = "bytes" THEN made + e.n ELSE 0)
  <2> DEFINE i == e.is \in {"start", "bytes"}
             m == IF e.is = "bytes" THEN made + e.n ELSE 0
  <2>1. (Before(v, open, n + 1 + 1) <=> i) /\ (i => m = Amount(v, g, n + 1 + 1))
    BY <1>10, <1>11
  <2> HIDE DEF i, m
  <2>2. Follows(v, open, g, i, m)
    BY <1>2, <1>6, <1>7, <1>8, <2>1 DEF Follows
  <2> QED BY <2>2 DEF i, m
<1> QED BY <1>12 DEF v

(* The first event.                                                         *)
LEMMA FollowsHead ==
  ASSUME NEW q \in Seq(Events), q # <<>>, NEW open, NEW g, NEW inside, NEW made,
         Follows(q, open, g, inside, made)
  PROVE  /\ q[1] \in Events
         /\ q[1].is \in {"bytes", "end"} <=> open
         /\ q[1].is = "end" => q[1].n = g
<1>1. PICK n \in Nat : n = Len(q) /\ n # 0
  BY LenProperties, EmptySeq
<1>2. 1 \in 1..n
  BY <1>1
<1> QED BY <1>1, <1>2, ElementOfSeq DEF Follows, Before, Amount

(* The events behind the first one.                                         *)
LEMMA FollowsTail ==
  ASSUME NEW q \in Seq(Events), q # <<>>, NEW open \in BOOLEAN, NEW g \in Nat,
         NEW inside \in BOOLEAN, NEW made \in Nat, Follows(q, open, g, inside, made)
  PROVE  Follows(Tail(q), q[1].is \in {"start", "bytes"},
                 IF q[1].is = "bytes" THEN g + q[1].n ELSE 0, inside, made)
<1> DEFINE t == Tail(q)
           o == q[1].is \in {"start", "bytes"}
           h == IF q[1].is = "bytes" THEN g + q[1].n ELSE 0
<1>1. PICK n \in Nat : n + 1 = Len(q)
  <2>1. PICK m \in Nat : m = Len(q) /\ m # 0
    BY LenProperties, EmptySeq
  <2>2. m - 1 \in Nat /\ (m - 1) + 1 = m
    BY <2>1
  <2> QED BY <2>1, <2>2
<1>2. t \in Seq(Events) /\ Len(t) = n /\ \A i \in 1..n : t[i] = q[i + 1]
  <2>1. t \in Seq(Events) /\ Len(t) = Len(q) - 1 /\ \A i \in 1..Len(t) : t[i] = q[i + 1]
    BY HeadTailProperties
  <2> QED BY <1>1, <2>1
<1>3. /\ \A k \in 1..(n + 1) : q[k].is \in {"bytes", "end"} <=> Before(q, open, k)
      /\ \A k \in 2..(n + 1) : q[k].is = "bytes" => q[k - 1].is = "start"
      /\ \A k \in 1..(n + 1) : q[k].is = "end" => q[k].n = Amount(q, g, k)
      /\ Before(q, open, n + 1 + 1) <=> inside
      /\ inside => made = Amount(q, g, n + 1 + 1)
  BY <1>1 DEF Follows
<1> HIDE DEF t
<1>4. \A k \in 1..(n + 1) : k + 1 # 1 /\ (k + 1) - 1 = k /\ k + 1 \in 2..(n + 2)
  OBVIOUS
<1>5. \A k \in 1..(n + 1) : Before(t, o, k) <=> Before(q, open, k + 1)
  <2> TAKE k \in 1..(n + 1)
  <2>1. CASE k = 1
    BY <1>4, <2>1 DEF Before
  <2>2. CASE k # 1
    <3>1. k - 1 \in 1..n /\ (k - 1) + 1 = k
      BY <2>2
    <3>2. t[k - 1] = q[k]
      BY <1>2, <3>1
    <3> QED BY <1>4, <2>2, <3>2 DEF Before
  <2> QED BY <2>1, <2>2
<1>6. \A k \in 1..(n + 1) : Amount(t, h, k) = Amount(q, g, k + 1)
  <2> TAKE k \in 1..(n + 1)
  <2>1. CASE k = 1
    <3>1. k + 1 = 2 /\ 2 # 1 /\ 2 - 1 = 1
      BY <2>1
    <3> QED BY <2>1, <3>1 DEF Amount
  <2>2. CASE k # 1
    <3>1. k - 1 \in 1..n /\ (k - 1) + 1 = k /\ k + 1 # 2
      BY <2>2
    <3>2. t[k - 1] = q[k]
      BY <1>2, <3>1
    <3>3. CASE q[k].is # "bytes"
      BY <1>4, <2>2, <3>2, <3>3 DEF Amount
    <3>4. CASE q[k].is = "bytes" /\ k # 2
      BY <1>4, <2>2, <3>1, <3>2, <3>4 DEF Amount
    <3>5. CASE q[k].is = "bytes" /\ k = 2
      <4>1. q[1].is = "start"
        BY <1>3, <3>5
      <4>2. h = 0
        BY <4>1
      <4>3. 2 \in 1..(n + 1) /\ q[2] \in Events
        <5>1. 2 \in 1..(n + 1)
          BY <3>5
        <5> QED BY <1>1, <5>1, ElementOfSeq
      <4>4. q[2].n \in Nat
        BY <3>5, <4>3, EventFields
      <4> HIDE DEF h
      <4>5. Amount(t, h, k) = h + q[2].n
        BY <3>2, <3>5 DEF Amount
      <4>6. Amount(q, g, k + 1) = q[2].n
        BY <1>4, <3>1, <3>5 DEF Amount
      <4> QED BY <4>2, <4>4, <4>5, <4>6
    <3> QED BY <3>3, <3>4, <3>5
  <2> QED BY <2>1, <2>2
<1> HIDE DEF o, h
<1>7. ASSUME NEW k \in 1..n
      PROVE  /\ t[k].is \in {"bytes", "end"} <=> Before(t, o, k)
             /\ t[k].is = "end" => t[k].n = Amount(t, h, k)
  <2>1. k \in 1..(n + 1) /\ k + 1 \in 1..(n + 1)
    OBVIOUS
  <2> QED BY <1>2, <1>3, <1>5, <1>6, <2>1
<1>8. ASSUME NEW k \in 2..n, t[k].is = "bytes" PROVE t[k - 1].is = "start"
  <2>1. k + 1 \in 2..(n + 1) /\ k \in 1..n /\ k - 1 \in 1..n /\ (k + 1) - 1 = (k - 1) + 1
    OBVIOUS
  <2>2. t[k] = q[k + 1] /\ t[k - 1] = q[(k - 1) + 1]
    BY <1>2, <2>1
  <2> QED BY <1>3, <1>8, <2>1, <2>2
<1>9. (Before(t, o, n + 1) <=> inside) /\ (inside => made = Amount(t, h, n + 1))
  <2>1. n + 1 \in 1..(n + 1)
    OBVIOUS
  <2> QED BY <1>3, <1>5, <1>6, <2>1
<1>10. Follows(t, o, h, inside, made)
  BY <1>2, <1>7, <1>8, <1>9 DEF Follows
<1> QED BY <1>10 DEF t, o, h

(* More bytes of the member at the back.                                    *)
LEMMA FollowsMore ==
  ASSUME NEW q \in Seq(Events), q # <<>>, q[Len(q)].is = "bytes", NEW n \in Nat,
         NEW open \in BOOLEAN, NEW g \in Nat, NEW made \in Nat,
         Follows(q, open, g, TRUE, made)
  PROVE  LET v == [q EXCEPT ![Len(q)].n = @ + n]
         IN /\ v \in Seq(Events) /\ Len(v) = Len(q)
            /\ \A i \in 1..Len(q) : v[i].is = q[i].is
            /\ Follows(v, open, g, TRUE, made + n)
<1>1. PICK l \in Nat : l = Len(q) /\ l # 0
  BY LenProperties, EmptySeq
<1>2. l \in 1..l /\ q[l] \in Events
  BY <1>1, ElementOfSeq
<1>3. q[l].n \in Nat /\ q[l] = Data(q[l].n) /\ q[l].is = "bytes"
  BY <1>1, <1>2, EventFields
<1> DEFINE d == Data(q[l].n + n)
           v == [q EXCEPT ![l] = d]
<1>4. [q EXCEPT ![Len(q)].n = @ + n] = v
  <2>1. [q[l] EXCEPT !.n = @ + n] = d
    <3>1. [Data(q[l].n) EXCEPT !.n = @ + n] = d
      BY DEF Data
    <3> QED BY <1>3, <3>1
  <2> QED BY <1>1, <2>1
<1>5. d \in Events /\ d.is = "bytes" /\ d.n = q[l].n + n
  BY <1>3, EventTypes
<1>6. /\ v \in Seq(Events) /\ Len(v) = l /\ v[l] = d
      /\ \A i \in 1..l : i # l => v[i] = q[i]
  BY <1>1, <1>2, <1>5, ExceptSeq
<1> HIDE DEF v, d
<1>7. \A i \in 1..l : v[i].is = q[i].is
  BY <1>3, <1>5, <1>6
<1>8. /\ \A k \in 1..l : q[k].is \in {"bytes", "end"} <=> Before(q, open, k)
      /\ \A k \in 2..l : q[k].is = "bytes" => q[k - 1].is = "start"
      /\ \A k \in 1..l : q[k].is = "end" => q[k].n = Amount(q, g, k)
      /\ made = Amount(q, g, l + 1)
  BY <1>1 DEF Follows
<1>9. \A k \in 1..(l + 1) : k # 1 => k - 1 \in 1..l
  OBVIOUS
<1>10. \A k \in 1..(l + 1) : Before(v, open, k) <=> Before(q, open, k)
  BY <1>7, <1>9 DEF Before
<1>11. \A k \in 1..l : Amount(v, g, k) = Amount(q, g, k)
  <2> TAKE k \in 1..l
  <2>1. k # 1 => v[k - 1] = q[k - 1]
    <3>1. k # 1 => k - 1 \in 1..l /\ k - 1 # l
      OBVIOUS
    <3> QED BY <1>6, <3>1
  <2>2. k = 2 => v[1] = q[1]
    BY <2>1
  <2> QED BY <2>1, <2>2 DEF Amount
<1>12. made + n = Amount(v, g, l + 1)
  <2>1. l + 1 # 1 /\ (l + 1) - 1 = l
    BY <1>1
  <2>2. made = IF l = 1 THEN g + q[l].n ELSE q[l].n
    <3>1. l + 1 = 2 <=> l = 1
      OBVIOUS
    <3> QED BY <1>3, <1>8, <2>1, <3>1 DEF Amount
  <2>3. Amount(v, g, l + 1) = IF l = 1 THEN g + v[l].n ELSE v[l].n
    <3>1. l + 1 = 2 <=> l = 1
      OBVIOUS
    <3> QED BY <1>5, <1>6, <2>1, <3>1 DEF Amount
  <2>4. v[l].n = q[l].n + n
    BY <1>5, <1>6
  <2>5. PICK b \in Nat : b = q[l].n
    BY <1>3
  <2> QED BY <2>2, <2>3, <2>4, <2>5
<1>13. /\ \A k \in 1..l : v[k].is \in {"bytes", "end"} <=> Before(v, open, k)
       /\ \A k \in 2..l : v[k].is = "bytes" => v[k - 1].is = "start"
  <2>1. \A k \in 1..l : k \in 1..(l + 1)
    OBVIOUS
  <2>2. \A k \in 1..l : v[k].is \in {"bytes", "end"} <=> Before(v, open, k)
    BY <1>7, <1>8, <1>10, <2>1
  <2>3. \A k \in 2..l : k \in 1..l /\ k - 1 \in 1..l
    OBVIOUS
  <2>4. \A k \in 2..l : v[k].is = "bytes" => v[k - 1].is = "start"
    BY <1>7, <1>8, <2>3
  <2> QED BY <2>2, <2>4
<1>14. \A k \in 1..l : v[k].is = "end" => v[k].n = Amount(v, g, k)
  <2> TAKE k \in 1..l
  <2>1. CASE k = l
    BY <1>5, <1>6, <2>1
  <2>2. CASE k # l
    BY <1>6, <1>8, <1>11, <2>2
  <2> QED BY <2>1, <2>2
<1>15. Before(v, open, l + 1) <=> TRUE
  BY <1>1, <1>8, <1>10 DEF Follows
<1>16. Follows(v, open, g, TRUE, made + n)
  BY <1>6, <1>12, <1>13, <1>14, <1>15 DEF Follows
<1> QED BY <1>1, <1>4, <1>6, <1>7, <1>16

(***************************************************************************)
(* What a reader makes of its bytes.                                       *)
(***************************************************************************)
\* A reader that made the events of `out`.
Outs ==
  [format : {"zip", "tar", "detect", "single"}, wrapped : BOOLEAN,
   buffered : Nat, inside : BOOLEAN, made : Nat, out : Seq(Events)]

Sane(r, open, g, known) ==
  r \in Outs /\ Follows(r.out, open, g, r.inside, r.made) /\ Fresh(r.out, known)

(* Only an open member has bytes that count.                                *)
LEMMA FollowsIdle ==
  ASSUME NEW q, NEW open, NEW g, NEW made, NEW n, Follows(q, open, g, FALSE, made)
  PROVE  Follows(q, open, g, FALSE, n)
BY DEF Follows

LEMMA FollowsNothing ==
  ASSUME NEW open \in BOOLEAN, NEW g
  PROVE  Follows(<<>>, open, g, open, g) /\ Fresh(<<>>, TRUE)
<1>1. Len(<<>>) = 0 /\ 1..0 = {} /\ 2..0 = {} /\ 0 + 1 = 1
  OBVIOUS
<1>2. Before(<<>>, open, 1) = open /\ Amount(<<>>, g, 1) = g
  BY DEF Before, Amount
<1> QED BY <1>1, <1>2 DEF Follows, Fresh

(* An entry, the start and the end of a member.                             *)
LEMMA FollowsEntry ==
  ASSUME NEW q \in Seq(Events), NEW open \in BOOLEAN, NEW g \in Nat, NEW made \in Nat,
         NEW n \in Nat, Follows(q, open, g, FALSE, made)
  PROVE  /\ Follows(Append(q, Entry), open, g, FALSE, n)
         /\ Follows(Append(q, Start), open, g, TRUE, 0)
<1>1. /\ Entry.is \notin {"bytes", "end", "start"} /\ Entry \in Events
      /\ Start.is = "start" /\ Start \in Events
  BY EventTypes
<1>2. FALSE \in BOOLEAN
  OBVIOUS
<1>3. Follows(Append(q, Entry), open, g, Entry.is \in {"start", "bytes"},
              IF Entry.is = "bytes" THEN made + Entry.n ELSE 0)
  BY <1>1, <1>2, FollowsOneMore
<1>4. Follows(Append(q, Start), open, g, Start.is \in {"start", "bytes"},
              IF Start.is = "bytes" THEN made + Start.n ELSE 0)
  BY <1>1, <1>2, FollowsOneMore
<1>5. /\ (Entry.is \in {"start", "bytes"}) = FALSE
      /\ (Start.is \in {"start", "bytes"}) = TRUE
      /\ (IF Start.is = "bytes" THEN made + Start.n ELSE 0) = 0
  BY <1>1
<1>6. \E m : Follows(Append(q, Entry), open, g, FALSE, m)
  BY <1>3, <1>5
<1> QED BY <1>4, <1>5, <1>6, FollowsIdle

LEMMA FollowsEnd ==
  ASSUME NEW q \in Seq(Events), NEW open \in BOOLEAN, NEW g \in Nat, NEW made \in Nat,
         NEW n \in Nat, Follows(q, open, g, TRUE, made)
  PROVE  Follows(Append(q, End(made)), open, g, FALSE, n)
<1> DEFINE e == End(made)
<1>1. e \in Events /\ e.is = "end" /\ e.n = made
  BY EventTypes
<1> HIDE DEF e
<1>2. Follows(Append(q, e), open, g, e.is \in {"start", "bytes"},
              IF e.is = "bytes" THEN made + e.n ELSE 0)
  BY <1>1, FollowsOneMore
<1>3. (e.is \in {"start", "bytes"}) = FALSE
  BY <1>1
<1>4. \E m : Follows(Append(q, e), open, g, FALSE, m)
  BY <1>2, <1>3
<1> QED BY <1>4, FollowsIdle DEF e

(* One more event that announces nothing.                                   *)
LEMMA FreshOneMore ==
  ASSUME NEW q \in Seq(Events), NEW e \in Events, e.is # "announce",
         NEW known, Fresh(q, known)
  PROVE  Fresh(Append(q, e), known)
<1> DEFINE v == Append(q, e)
<1>1. PICK n \in Nat : n = Len(q)
  BY LenProperties
<1>2. /\ Len(v) = n + 1 /\ v[n + 1] = e /\ v # <<>> /\ \A i \in 1..n : v[i] = q[i]
  BY <1>1, OneMoreEvent
<1> HIDE DEF v
<1>3. \A i \in 1..(n + 1) : (i \in 1..n /\ v[i] = q[i]) \/ (i = n + 1 /\ v[i] = e)
  BY <1>2
<1>4. CASE known
  BY <1>1, <1>2, <1>3, <1>4 DEF Fresh, v
<1>5. CASE ~known
  <2>1. n # 0 /\ \A k \in 1..n : q[k].is = "announce" <=> k = 1
    BY <1>1, <1>5, EmptySeq DEF Fresh
  <2>2. \A k \in 1..(n + 1) : v[k].is = "announce" <=> k = 1
    BY <1>3, <2>1
  <2> QED BY <1>2, <1>5, <2>2 DEF Fresh, v
<1> QED BY <1>4, <1>5

(* Bytes of the open member.                                                *)
LEMMA FollowsBytes ==
  ASSUME NEW q \in Seq(Events), NEW open \in BOOLEAN, NEW g \in Nat, NEW made \in Nat,
         NEW n \in Nat, NEW known, Follows(q, open, g, TRUE, made),
         Fresh(q, known)
  PROVE  /\ WithBytes(q, n) \in Seq(Events)
         /\ Follows(WithBytes(q, n), open, g, TRUE, made + n)
         /\ Fresh(WithBytes(q, n), known)
<1>1. CASE n = 0
  <2>1. WithBytes(q, n) = q /\ made + n = made
    BY <1>1 DEF WithBytes
  <2> QED BY <2>1
<1>2. CASE n # 0 /\ q # <<>> /\ q[Len(q)].is = "bytes"
  <2> DEFINE v == [q EXCEPT ![Len(q)].n = @ + n]
  <2>1. WithBytes(q, n) = v
    BY <1>2 DEF WithBytes
  <2>2. /\ v \in Seq(Events) /\ Len(v) = Len(q) /\ \A i \in 1..Len(q) : v[i].is = q[i].is
        /\ Follows(v, open, g, TRUE, made + n)
    BY <1>2, FollowsMore
  <2> HIDE DEF v
  <2>3. Fresh(v, known)
    <3>1. v # <<>>
      BY <1>2, <2>2, EmptySeq
    <3> QED BY <2>2, <3>1 DEF Fresh
  <2> QED BY <2>1, <2>2, <2>3
<1>3. CASE n # 0 /\ ~(q # <<>> /\ q[Len(q)].is = "bytes")
  <2> DEFINE e == Data(n)
  <2>1. WithBytes(q, n) = Append(q, e)
    BY <1>3 DEF WithBytes
  <2>2. e \in Events /\ e.is = "bytes" /\ e.n = n
    BY EventTypes
  <2> HIDE DEF e
  <2>3. q = <<>> \/ q[Len(q)].is = "start"
    <3>1. ASSUME q # <<>> PROVE q[Len(q)].is = "start"
      <4>1. PICK l \in Nat : l = Len(q) /\ l # 0
        BY <3>1, LenProperties, EmptySeq
      <4>2. l + 1 # 1 /\ (l + 1) - 1 = l
        BY <4>1
      <4>3. Before(q, open, l + 1)
        BY <4>1 DEF Follows
      <4>4. q[l].is \in {"start", "bytes"}
        BY <4>2, <4>3 DEF Before
      <4> QED BY <1>3, <3>1, <4>1, <4>4
    <3> QED BY <3>1
  <2>4. Follows(Append(q, e), open, g, e.is \in {"start", "bytes"},
                IF e.is = "bytes" THEN made + e.n ELSE 0)
    BY <2>2, <2>3, FollowsOneMore
  <2>5. /\ (e.is \in {"start", "bytes"}) = TRUE
        /\ (IF e.is = "bytes" THEN made + e.n ELSE 0) = made + n
    BY <2>2
  <2>6. Follows(Append(q, e), open, g, TRUE, made + n)
    BY <2>4, <2>5
  <2>7. Append(q, e) \in Seq(Events) /\ Fresh(Append(q, e), known)
    BY <2>2, OneMoreEvent, FreshOneMore
  <2> QED BY <2>1, <2>6, <2>7
<1> QED BY <1>1, <1>2, <1>3

LEMMA InMemberSane ==
  ASSUME NEW open \in BOOLEAN, NEW g \in Nat, NEW known,
         NEW r, Sane(r, open, g, known), r.inside, NEW n \in Nat, NEW s \in InMember(r, n)
  PROVE  /\ Sane(s, open, g, known) /\ s.format = r.format /\ s.wrapped = r.wrapped
         /\ s.buffered = r.buffered
<1> DEFINE w == WithBytes(r.out, n)
           grown == [r EXCEPT !.made = @ + n, !.out = WithBytes(@, n)]
<1>1. /\ r \in Outs /\ Follows(r.out, open, g, TRUE, r.made) /\ Fresh(r.out, known)
      /\ r.out \in Seq(Events) /\ r.made \in Nat
  BY DEF Sane, Outs
<1>2. /\ w \in Seq(Events) /\ Follows(w, open, g, TRUE, r.made + n) /\ Fresh(w, known)
  <2>1. PICK out \in Seq(Events), made \in Nat : out = r.out /\ made = r.made
    BY <1>1
  <2>2. Follows(out, open, g, TRUE, made) /\ Fresh(out, known)
    BY <1>1, <2>1
  <2>3. Follows(WithBytes(out, n), open, g, TRUE, made + n)
    BY <2>2, FollowsBytes
  <2>4. WithBytes(out, n) \in Seq(Events)
    BY <2>2, FollowsBytes
  <2>5. Fresh(WithBytes(out, n), known)
    BY <2>2, FollowsBytes
  <2> QED BY <2>1, <2>3, <2>4, <2>5
<1>3. r.made + n \in Nat
  BY <1>1
<1> HIDE DEF w
<1>4. /\ grown \in Outs /\ grown.out = w /\ grown.made = r.made + n /\ grown.inside = TRUE
      /\ grown.format = r.format /\ grown.wrapped = r.wrapped /\ grown.buffered = r.buffered
  BY <1>1, <1>2, <1>3 DEF Outs, w
<1>5. s = grown \/ s = [grown EXCEPT !.inside = FALSE, !.out = Append(@, End(grown.made))]
  BY DEF InMember
<1> HIDE DEF grown
<1>6. CASE s = grown
  BY <1>2, <1>4, <1>6 DEF Sane
<1>7. CASE s = [grown EXCEPT !.inside = FALSE, !.out = Append(@, End(grown.made))]
  <2> DEFINE e == End(grown.made)
             v == Append(w, e)
  <2>1. e \in Events /\ e.is = "end"
    BY <1>3, <1>4, EventTypes
  <2>2. v \in Seq(Events) /\ Fresh(v, known)
    BY <1>2, <2>1, OneMoreEvent, FreshOneMore
  <2>3. Follows(v, open, g, FALSE, grown.made)
    BY <1>2, <1>3, <1>4, FollowsEnd
  <2> HIDE DEF v
  <2>4. /\ s \in Outs /\ s.out = v /\ s.inside = FALSE /\ s.made = grown.made
        /\ s.format = r.format /\ s.wrapped = r.wrapped /\ s.buffered = r.buffered
    BY <1>4, <1>7, <2>2 DEF Outs, v
  <2> QED BY <2>2, <2>3, <2>4 DEF Sane
<1> QED BY <1>5, <1>6, <1>7

\* A reader of the same kind.
Alike(r, s) == s.format = r.format /\ s.wrapped = r.wrapped /\ s.buffered = r.buffered

(* What a reader is after one more event, or the same with other fields.    *)
LEMMA Remade ==
  ASSUME NEW r \in Outs, NEW q \in Seq(Events), NEW made \in Nat, NEW inside \in BOOLEAN,
         NEW open, NEW g, NEW known,
         Follows(q, open, g, inside, made), Fresh(q, known),
         NEW s, s = [r EXCEPT !.out = q, !.inside = inside, !.made = made]
  PROVE  Sane(s, open, g, known) /\ Alike(r, s)
<1>1. /\ s \in Outs /\ s.out = q /\ s.inside = inside /\ s.made = made /\ Alike(r, s)
  BY DEF Outs, Alike
<1> QED BY <1>1 DEF Sane

LEMMA BetweenMembersSane ==
  ASSUME NEW open \in BOOLEAN, NEW g \in Nat, NEW known,
         NEW r, Sane(r, open, g, known), ~r.inside, NEW s \in BetweenMembers(r)
  PROVE  Sane(s, open, g, known) /\ Alike(r, s)
<1>1. PICK q \in Seq(Events), made \in Nat :
        /\ q = r.out /\ made = r.made /\ r \in Outs /\ r.inside = FALSE
        /\ Follows(q, open, g, FALSE, made)
  BY DEF Sane, Outs
<1>2. Fresh(q, known)
  BY <1>1 DEF Sane
<1>e. /\ Entry \in Events /\ Entry.is # "announce" /\ Start \in Events
      /\ Start.is # "announce" /\ End(0) \in Events /\ End(0).is # "announce"
  BY EventTypes
<1>3. /\ Append(q, Entry) \in Seq(Events) /\ Append(q, Start) \in Seq(Events)
      /\ Append(Append(q, Start), End(0)) \in Seq(Events)
  BY <1>e, OneMoreEvent
<1>4. Fresh(Append(q, Entry), known)
  BY <1>2, <1>e, FreshOneMore
<1>5. Fresh(Append(q, Start), known)
  BY <1>2, <1>e, FreshOneMore
<1>6. Fresh(Append(Append(q, Start), End(0)), known)
  BY <1>3, <1>5, <1>e, FreshOneMore
<1>7. Follows(Append(q, Entry), open, g, FALSE, made)
  BY <1>1, FollowsEntry
<1>8. Follows(Append(q, Start), open, g, TRUE, 0)
  BY <1>1, FollowsEntry
<1>9. Follows(Append(Append(q, Start), End(0)), open, g, FALSE, 0)
  BY <1>3, <1>8, FollowsEnd
<1>10. q \o <<Start, End(0)>> = Append(Append(q, Start), End(0))
  <2>1. <<Start, End(0)>> = Append(<<Start>>, End(0))
    OBVIOUS
  <2>2. <<Start>> \in Seq(Events) /\ <<End(0)>> \in Seq(Events)
    BY <1>e
  <2>3. q \o <<Start>> = Append(q, Start)
    BY <1>e, AppendIsConcat
  <2>4. <<Start, End(0)>> = <<Start>> \o <<End(0)>>
    OBVIOUS
  <2>5. q \o (<<Start>> \o <<End(0)>>) = (q \o <<Start>>) \o <<End(0)>>
    BY <2>2, ConcatAssociative
  <2>6. Append(q, Start) \o <<End(0)>> = Append(Append(q, Start), End(0))
    BY <1>3, <1>e, AppendIsConcat
  <2> QED BY <2>3, <2>4, <2>5, <2>6
<1>a. CASE s = r
  BY <1>a DEF Alike
<1>b. CASE s = [r EXCEPT !.out = Append(@, Entry)]
  <2>1. s = [r EXCEPT !.out = Append(q, Entry), !.inside = FALSE, !.made = made]
    BY <1>1, <1>b DEF Outs
  <2> QED BY <1>1, <1>3, <1>4, <1>7, <2>1, Remade
<1>c. CASE s = [r EXCEPT !.out = Append(@, Start), !.inside = TRUE, !.made = 0]
  <2>1. s = [r EXCEPT !.out = Append(q, Start), !.inside = TRUE, !.made = 0]
    BY <1>1, <1>c DEF Outs
  <2> QED BY <1>1, <1>3, <1>5, <1>8, <2>1, Remade
<1>d. CASE s = [r EXCEPT !.out = @ \o <<Start, End(0)>>, !.made = 0]
  <2>1. s = [r EXCEPT !.out = Append(Append(q, Start), End(0)), !.inside = FALSE, !.made = 0]
    BY <1>1, <1>10, <1>d DEF Outs
  <2> QED BY <1>1, <1>3, <1>6, <1>9, <2>1, Remade
<1> QED BY <1>a, <1>b, <1>c, <1>d DEF BetweenMembers

LEMMA ArchiveByteSane ==
  ASSUME NEW open \in BOOLEAN, NEW g \in Nat, NEW known,
         NEW r, Sane(r, open, g, known), NEW s \in ArchiveByte(r)
  PROVE  Sane(s, open, g, known) /\ Alike(r, s)
<1>1. CASE ~r.inside
  <2>1. s \in BetweenMembers(r)
    BY <1>1 DEF ArchiveByte
  <2> QED BY <1>1, <2>1, BetweenMembersSane
<1>2. CASE r.inside
  <2>1. PICK n \in Nat : s \in InMember(r, n)
    <3>1. CASE r.format = "tar"
      <4>1. s \in InMember(r, 1) /\ 1 \in Nat
        BY <1>2, <3>1 DEF ArchiveByte
      <4> QED BY <4>1
    <3>2. CASE r.format # "tar"
      <4>1. s \in UNION {InMember(r, n) : n \in 0..Inflate}
        BY <1>2, <3>2 DEF ArchiveByte
      <4> QED BY <4>1
    <3> QED BY <3>1, <3>2
  <2>2. Sane(s, open, g, known)
    BY <1>2, <2>1, InMemberSane
  <2>3. s.format = r.format /\ s.wrapped = r.wrapped /\ s.buffered = r.buffered
    BY <1>2, <2>1, InMemberSane
  <2> QED BY <2>2, <2>3 DEF Alike
<1> QED BY <1>1, <1>2

(* Every non-empty set of numbers has a least one.                          *)
LEMMA LeastNumber ==
  ASSUME NEW T \in SUBSET Nat, T # {}
  PROVE  \E x \in T : \A y \in T : x <= y
<1> DEFINE R == OpToRel(<, Nat)
<1>1. IsWellFoundedOn(R, Nat)
  BY NatLessThanWellFounded
<1>2. \A x, y \in Nat : x < y => <<x, y>> \in R
  BY DEF OpToRel
<1> HIDE DEF R
<1>3. PICK x \in T : \A y \in T : ~ (<<y, x>> \in R)
  BY <1>1, WFMin
<1>4. ASSUME NEW y \in T PROVE x <= y
  <2>1. x \in Nat /\ y \in Nat /\ ~(y < x)
    BY <1>2, <1>3
  <2> QED BY <2>1
<1> QED BY <1>4

\* The readers after each byte of a run.
Following(readers) == UNION {ArchiveByte(s) : s \in readers}

IsRun(f, r, n) == f = [k \in 0..n |-> IF k = 0 THEN {r} ELSE Following(f[k - 1])]

LEMMA RunExists == ASSUME NEW r, NEW n \in Nat PROVE \E f : IsRun(f, r, n)
<1> DEFINE T == {m \in Nat : ~ \E f : IsRun(f, r, m)}
<1>1. SUFFICES ASSUME T # {} PROVE FALSE
  OBVIOUS
<1>2. PICK m \in T : \A y \in T : m <= y
  BY <1>1, LeastNumber
<1>3. CASE m = 0
  <2> DEFINE f == [k \in 0..0 |-> {r}]
  <2>1. f = [k \in 0..0 |-> IF k = 0 THEN {r} ELSE Following(f[k - 1])]
    OBVIOUS
  <2>2. IsRun(f, r, 0)
    BY <2>1 DEF IsRun
  <2> QED BY <1>3, <2>2
<1>4. CASE m # 0
  <2>1. m - 1 \in Nat /\ ~(m <= m - 1)
    BY <1>4
  <2>2. PICK f : IsRun(f, r, m - 1)
    BY <1>2, <2>1
  <2> DEFINE h == [k \in 0..m |-> IF k = 0 THEN {r} ELSE Following(f[k - 1])]
  <2>3. \A k \in 0..(m - 1) : f[k] = IF k = 0 THEN {r} ELSE Following(f[k - 1])
    BY <2>2 DEF IsRun
  <2>h. /\ h = [k \in 0..m |-> IF k = 0 THEN {r} ELSE Following(f[k - 1])]
        /\ \A k \in 0..m : h[k] = IF k = 0 THEN {r} ELSE Following(f[k - 1])
    OBVIOUS
  <2> HIDE DEF h
  <2>4. \A k \in 0..(m - 1) : h[k] = f[k]
    <3>1. \A k \in 0..(m - 1) : k \in 0..m
      OBVIOUS
    <3> QED BY <2>3, <2>h, <3>1
  <2>5. \A k \in 0..m : k # 0 => k - 1 \in 0..(m - 1)
    OBVIOUS
  <2>6. h = [k \in 0..m |-> IF k = 0 THEN {r} ELSE Following(h[k - 1])]
    <3>1. \A k \in 0..m : (IF k = 0 THEN {r} ELSE Following(f[k - 1]))
                          = (IF k = 0 THEN {r} ELSE Following(h[k - 1]))
      BY <2>4, <2>5
    <3> QED BY <2>h, <3>1
  <2>7. IsRun(h, r, m)
    BY <2>6 DEF IsRun
  <2> QED BY <2>7
<1> QED BY <1>3, <1>4

LEMMA TarRunSane ==
  ASSUME NEW open \in BOOLEAN, NEW g \in Nat, NEW known,
         NEW r, Sane(r, open, g, known), NEW n \in Nat, NEW s \in TarRun(r, n)
  PROVE  Sane(s, open, g, known) /\ Alike(r, s)
<1> DEFINE run == CHOOSE f : IsRun(f, r, n)
           Bad(t) == ~(Sane(t, open, g, known) /\ Alike(r, t))
           T == {k \in 0..n : \E t \in run[k] : Bad(t)}
<1>1. TarRun(r, n) = run[n]
  BY DEF TarRun, IsRun, Following
<1>2. IsRun(run, r, n)
  BY RunExists
<1> HIDE DEF run
<1>3. \A k \in 0..n : run[k] = IF k = 0 THEN {r} ELSE Following(run[k - 1])
  BY <1>2 DEF IsRun
<1>4. T = {}
  <2> SUFFICES ASSUME T # {} PROVE FALSE
    OBVIOUS
  <2>1. T \in SUBSET Nat
    OBVIOUS
  <2>2. PICK m \in T : \A y \in T : m <= y
    BY <2>1, LeastNumber
  <2>3. PICK t \in run[m] : Bad(t)
    OBVIOUS
  <2>4. CASE m = 0
    <3>1. t = r
      BY <1>3, <2>3, <2>4
    <3> QED BY <2>3, <3>1 DEF Alike
  <2>5. CASE m # 0
    <3>1. m - 1 \in 0..n /\ ~(m <= m - 1)
      BY <2>5
    <3>2. PICK u \in run[m - 1] : t \in ArchiveByte(u)
      <4>1. m \in 0..n
        OBVIOUS
      <4>2. run[m] = Following(run[m - 1])
        BY <1>3, <2>5, <4>1
      <4>3. t \in Following(run[m - 1])
        BY <2>3, <4>2
      <4> QED BY <4>3 DEF Following
    <3>3. Sane(u, open, g, known) /\ Alike(r, u)
      BY <2>2, <3>1, <3>2
    <3>4. Sane(t, open, g, known) /\ Alike(u, t)
      BY <3>2, <3>3, ArchiveByteSane
    <3>5. Alike(r, t)
      BY <3>3, <3>4 DEF Alike
    <3> QED BY <2>3, <3>4, <3>5
  <2> QED BY <2>4, <2>5
<1>5. n \in 0..n
  OBVIOUS
<1> QED BY <1>1, <1>4, <1>5

(***************************************************************************)
(* A level between two steps.                                              *)
(***************************************************************************)
LevelSet ==
  [reader : Outs, known : BOOLEAN, ended : BOOLEAN,
   open : {"none", "probing", "plain", "nested"}, probe : Nat, told : Nat,
   members : Nat, entries : Nat, input : Nat, queue : Seq(Events)]

\* The forms a reader takes.
Formed(r) ==
  /\ r.format \in {"detect", "single"} => r.wrapped /\ ~r.inside
  /\ r.format = "zip" => ~r.wrapped

\* The reader is inside a member.
Inside(r) == r.format = "single" \/ r.inside

\* The bytes of the open member that were passed on.
Passed(l, g) == (l.open = "probing" => g = l.probe) /\ (l.open = "plain" => g = l.told)

Told(l) ==
  /\ l.open # "plain" => l.told = 0
  /\ ~l.known => l.open = "none" /\ l.members = 0 /\ l.entries = 0

\* What is known of a level: its events are those of whole members, the one in
\* flight included, and its container is announced before them.
LevelOK(l) ==
  /\ l \in LevelSet /\ l.reader.out = <<>> /\ Formed(l.reader) /\ Told(l)
  /\ l.reader.format = "detect" => ~l.known /\ l.queue = <<>> /\ ~l.ended
  /\ l.reader.format # "detect" => Fresh(l.queue, l.known)
  /\ l.ended => l.input = 0
  /\ \E g \in Nat :
       /\ Passed(l, g)
       /\ Follows(l.queue, l.open # "none", g, ~l.ended /\ Inside(l.reader), l.reader.made)

\* What a reader made, on a level whose queue it fills.
Filled(l, s, ended) ==
  /\ s \in Outs /\ Formed(s)
  /\ s.format = "detect" => ~l.known /\ s.out = <<>> /\ ~ended
  /\ s.format # "detect" => Fresh(s.out, l.known)
  /\ \E g \in Nat :
       /\ Passed(l, g)
       /\ Follows(s.out, l.open # "none", g, ~ended /\ Inside(s), s.made)

LEMMA FilledLevel ==
  ASSUME NEW l, LevelOK(l), NEW s, NEW k \in LevelSet, Filled(l, s, k.ended),
         k.reader.out = <<>>, k.reader.format = s.format, k.reader.wrapped = s.wrapped,
         k.reader.inside = s.inside, k.reader.made = s.made, k.queue = s.out,
         k.open = l.open, k.known = l.known, k.told = l.told, k.probe = l.probe,
         k.members = l.members, k.entries = l.entries, k.ended => k.input = 0
  PROVE  LevelOK(k)
<1>1. Formed(s) /\ Told(l)
  BY DEF Filled, LevelOK
<1>2. Formed(k.reader) /\ Told(k) /\ (Inside(k.reader) <=> Inside(s))
  BY <1>1 DEF Formed, Told, Inside
<1>3. /\ k.reader.format = "detect" => ~k.known /\ k.queue = <<>> /\ ~k.ended
      /\ k.reader.format # "detect" => Fresh(k.queue, k.known)
  BY DEF Filled
<1>4. PICK g \in Nat : /\ Passed(l, g)
                       /\ Follows(s.out, l.open # "none", g, ~k.ended /\ Inside(s), s.made)
  BY DEF Filled
<1>5. Passed(k, g)
  BY <1>4 DEF Passed
<1>6. Follows(k.queue, k.open # "none", g, ~k.ended /\ Inside(k.reader), k.reader.made)
  <2>1. PICK i : i = (~k.ended /\ Inside(s)) /\ i = (~k.ended /\ Inside(k.reader))
    BY <1>2
  <2> QED BY <1>4, <2>1
<1> QED BY <1>2, <1>3, <1>5, <1>6 DEF LevelOK

(* Taking what a reader made.                                               *)
LEMMA TakenLevel ==
  ASSUME NEW s \in Outs, NEW r, r = [s EXCEPT !.out = <<>>]
  PROVE  /\ r \in Outs /\ r.out = <<>> /\ r.format = s.format /\ r.wrapped = s.wrapped
         /\ r.inside = s.inside /\ r.made = s.made /\ s.out \in Seq(Events)
<1>1. <<>> \in Seq(Events)
  OBVIOUS
<1> QED BY <1>1 DEF Outs

(* The decision of a reader that wraps gzip.                                *)
LEMMA InflatedSane ==
  ASSUME NEW r \in Outs, r.format = "detect", Formed(r), NEW n \in Nat,
         NEW s \in Inflated(r, n), NEW g \in Nat
  PROVE  /\ s \in Outs /\ Formed(s) /\ s.format \in {"tar", "single"}
         /\ Fresh(s.out, FALSE) /\ Follows(s.out, FALSE, g, Inside(s), s.made)
<1>a. Announce \in Events /\ Announce.is = "announce" /\ Start \in Events /\ Start.is = "start"
  BY EventTypes
<1>r. r.wrapped /\ r.inside = FALSE /\ r.made \in Nat
  BY DEF Formed, Outs
<1>1. /\ <<Announce>> \in Seq(Events) /\ Len(<<Announce>>) = 1 /\ <<Announce>> # <<>>
      /\ <<Announce>>[1] = Announce
  BY <1>a
<1>2. Fresh(<<Announce>>, FALSE)
  BY <1>a, <1>1 DEF Fresh
<1>3. \A made : Follows(<<Announce>>, FALSE, g, FALSE, made)
  <2> TAKE made
  <2>1. PICK q : q = <<Announce>> /\ Len(q) = 1 /\ q[1].is = "announce"
    BY <1>a, <1>1
  <2>2. /\ Before(q, FALSE, 1) = FALSE /\ Before(q, FALSE, 1 + 1) = FALSE
        /\ 1 + 1 # 1 /\ (1 + 1) - 1 = 1
    BY <2>1 DEF Before
  <2>3. 2..1 = {} /\ \A k \in 1..1 : k = 1
    OBVIOUS
  <2>4. \A k \in 1..1 : q[k].is \in {"bytes", "end"} <=> Before(q, FALSE, k)
    BY <2>1, <2>2, <2>3
  <2>5. \A k \in 1..1 : q[k].is = "end" => q[k].n = Amount(q, g, k)
    BY <2>1, <2>3
  <2>6. Follows(q, FALSE, g, FALSE, made)
    BY <2>1, <2>2, <2>3, <2>4, <2>5 DEF Follows
  <2> QED BY <2>1, <2>6
<1>4. CASE /\ ~(n < ProbeLen)
           /\ s \in TarRun([r EXCEPT !.format = "tar", !.buffered = 0, !.out = <<Announce>>], n)
  <2> DEFINE t == [r EXCEPT !.format = "tar", !.buffered = 0, !.out = <<Announce>>]
  <2>1. /\ t \in Outs /\ t.format = "tar" /\ t.wrapped /\ t.out = <<Announce>>
        /\ t.inside = FALSE
    BY <1>1, <1>r DEF Outs
  <2> HIDE DEF t
  <2>2. Sane(t, FALSE, g, FALSE)
    BY <1>2, <1>3, <2>1 DEF Sane
  <2>3. FALSE \in BOOLEAN
    OBVIOUS
  <2>4. s \in TarRun(t, n)
    BY <1>4 DEF t
  <2>5. Sane(s, FALSE, g, FALSE) /\ Alike(t, s)
    BY <2>2, <2>3, <2>4, TarRunSane
  <2>6. s \in Outs /\ s.format = "tar" /\ Formed(s) /\ Inside(s) = s.inside
    BY <2>1, <2>5 DEF Sane, Alike, Formed, Inside, Outs
  <2> QED BY <2>5, <2>6 DEF Sane
<1>5. CASE s = [r EXCEPT !.format = "single", !.buffered = 0, !.made = n,
                         !.out = WithBytes(<<Announce, Start>>, n)]
  <2> DEFINE q == Append(<<Announce>>, Start)
             w == WithBytes(q, n)
  <2>a. q = <<Announce, Start>>
    <3>1. q = <<Announce>> \o <<Start>>
      BY <1>1, <1>a, AppendIsConcat
    <3>2. <<Announce, Start>> = <<Announce>> \o <<Start>>
      OBVIOUS
    <3> QED BY <3>1, <3>2
  <2>1. q \in Seq(Events)
    BY <1>1, <1>a, OneMoreEvent
  <2>2. Follows(q, FALSE, g, TRUE, 0)
    <3>1. Follows(<<Announce>>, FALSE, g, FALSE, 0) /\ FALSE \in BOOLEAN
      BY <1>3
    <3> QED BY <1>1, <3>1, FollowsEntry
  <2>3. Fresh(q, FALSE)
    BY <1>1, <1>2, <1>a, FreshOneMore
  <2> HIDE DEF q
  <2>4. w \in Seq(Events)
    BY <2>1, <2>2, <2>3, FollowsBytes
  <2>5. Follows(w, FALSE, g, TRUE, 0 + n)
    BY <2>1, <2>2, <2>3, FollowsBytes
  <2>6. Fresh(w, FALSE)
    BY <2>1, <2>2, <2>3, FollowsBytes
  <2>7. s = [r EXCEPT !.format = "single", !.buffered = 0, !.made = n, !.out = w]
    BY <1>5, <2>a
  <2> HIDE DEF w
  <2>8. /\ s \in Outs /\ s.format = "single" /\ s.wrapped /\ s.out = w /\ s.inside = FALSE
        /\ s.made = 0 + n
    <3>1. "single" \in {"zip", "tar", "detect", "single"} /\ 0 \in Nat
      OBVIOUS
    <3>2. n = 0 + n
      OBVIOUS
    <3> QED BY <1>r, <2>4, <2>7, <3>1, <3>2 DEF Outs
  <2>9. Formed(s) /\ Inside(s) = TRUE
    BY <2>8 DEF Formed, Inside
  <2> QED BY <2>5, <2>6, <2>8, <2>9
<1> QED BY <1>4, <1>5 DEF Inflated

(* A level whose events are worked off.                                     *)
LEMMA WaitingLevel ==
  ASSUME NEW l, LevelOK(l), l.queue = <<>>, ~l.ended
  PROVE  /\ l.reader \in Outs /\ l.reader.out = <<>> /\ Formed(l.reader)
         /\ l.reader.format = "detect" => ~l.known /\ l.open = "none"
         /\ l.reader.format # "detect" => l.known
         /\ \E g \in Nat :
              /\ Passed(l, g) /\ (l.open # "none" <=> Inside(l.reader))
              /\ Inside(l.reader) => l.reader.made = g
<1>1. l.reader \in Outs /\ l.reader.out = <<>> /\ Formed(l.reader)
  <2> HIDE DEF Outs
  <2> QED BY DEF LevelOK, LevelSet
<1>2. l.reader.format = "detect" => ~l.known /\ l.open = "none"
  BY DEF LevelOK, Told
<1>3. l.reader.format # "detect" => l.known
  BY DEF LevelOK, Fresh
<1>4. PICK g \in Nat :
        /\ Passed(l, g)
        /\ Follows(l.queue, l.open # "none", g, ~l.ended /\ Inside(l.reader), l.reader.made)
  BY DEF LevelOK
<1>5. Len(<<>>) = 0 /\ 0 + 1 = 1
  OBVIOUS
<1>6. (l.open # "none" <=> Inside(l.reader)) /\ (Inside(l.reader) => l.reader.made = g)
  BY <1>4, <1>5 DEF Follows, Before, Amount
<1> QED BY <1>1, <1>2, <1>3, <1>4, <1>6

LEMMA FilledAsIs ==
  ASSUME NEW l, LevelOK(l), l.queue = <<>>, ~l.ended
  PROVE  Filled(l, l.reader, FALSE)
<1>1. l.reader \in Outs /\ l.reader.out = <<>> /\ Formed(l.reader)
  BY WaitingLevel
<1>2. /\ l.reader.format = "detect" => ~l.known
      /\ l.reader.format # "detect" => Fresh(<<>>, l.known)
  BY DEF LevelOK
<1>3. PICK g \in Nat :
        /\ Passed(l, g)
        /\ Follows(<<>>, l.open # "none", g, ~l.ended /\ Inside(l.reader), l.reader.made)
  BY DEF LevelOK
<1>4. (~l.ended /\ Inside(l.reader)) <=> (~FALSE /\ Inside(l.reader))
  OBVIOUS
<1>5. Follows(<<>>, l.open # "none", g, ~FALSE /\ Inside(l.reader), l.reader.made)
  BY <1>3, <1>4 DEF Follows
<1> QED BY <1>1, <1>2, <1>3, <1>5 DEF Filled

(* What a reader that is past its decision made.                            *)
LEMMA SaneFilled ==
  ASSUME NEW l, NEW g \in Nat, Passed(l, g), NEW s, Sane(s, l.open # "none", g, l.known),
         Formed(s), s.format \in {"zip", "tar"}
  PROVE  Filled(l, s, FALSE)
<1>1. /\ s \in Outs /\ Follows(s.out, l.open # "none", g, s.inside, s.made)
      /\ Fresh(s.out, l.known)
  BY DEF Sane
<1>2. (~FALSE /\ Inside(s)) <=> s.inside
  BY DEF Inside
<1>3. Follows(s.out, l.open # "none", g, ~FALSE /\ Inside(s), s.made)
  BY <1>1, <1>2 DEF Follows
<1>4. s.format # "detect"
  OBVIOUS
<1> QED BY <1>1, <1>3, <1>4 DEF Filled

LEMMA InflatedFilled ==
  ASSUME NEW l, LevelOK(l), l.queue = <<>>, ~l.ended, l.reader.format = "detect",
         NEW n \in Nat, NEW s \in Inflated(l.reader, n)
  PROVE  Filled(l, s, FALSE) /\ s.format \in {"tar", "single"}
<1>1. PICK r \in Outs : r = l.reader /\ Formed(r)
  BY WaitingLevel
<1>2. l.known = FALSE /\ l.open = "none"
  <2>1. l.known \in BOOLEAN
    BY DEF LevelOK, LevelSet
  <2> QED BY <2>1, WaitingLevel
<1>3. PICK g \in Nat : Passed(l, g)
  BY WaitingLevel
<1>4. /\ s \in Outs /\ Formed(s) /\ s.format \in {"tar", "single"}
      /\ Fresh(s.out, FALSE) /\ Follows(s.out, FALSE, g, Inside(s), s.made)
  BY <1>1, InflatedSane
<1>5. /\ (l.open # "none") <=> FALSE
      /\ (~FALSE /\ Inside(s)) <=> Inside(s)
  BY <1>2
<1>6. Follows(s.out, l.open # "none", g, ~FALSE /\ Inside(s), s.made)
  BY <1>4, <1>5 DEF Follows, Before
<1>7. Fresh(s.out, l.known) /\ s.format # "detect"
  BY <1>2, <1>4
<1>8. Filled(l, s, FALSE)
  BY <1>3, <1>4, <1>6, <1>7 DEF Filled
<1> QED BY <1>4, <1>8

(* What a reader makes of its next byte.                                    *)
LEMMA PushedFilled ==
  ASSUME NEW l, LevelOK(l), l.queue = <<>>, ~l.ended, NEW s \in ReaderPush(l.reader)
  PROVE  Filled(l, s, FALSE)
<1>1. PICK r \in Outs : r = l.reader /\ r.out = <<>> /\ Formed(r)
  BY WaitingLevel
<1>2. PICK g \in Nat : /\ Passed(l, g) /\ (l.open # "none" <=> Inside(r))
                       /\ Inside(r) => r.made = g
  BY <1>1, WaitingLevel
<1>3. /\ r.format = "detect" => ~l.known /\ l.open = "none"
      /\ r.format # "detect" => l.known
  BY <1>1, WaitingLevel
<1>4. /\ r.made \in Nat /\ r.buffered \in Nat /\ r.inside \in BOOLEAN /\ r.wrapped \in BOOLEAN
      /\ r.format \in {"zip", "tar", "detect", "single"}
  BY DEF Outs
<1>5. ASSUME r.format \in {"zip", "tar"} PROVE Sane(r, l.open # "none", g, l.known)
  <2>1. r.inside <=> l.open # "none"
    BY <1>2, <1>5 DEF Inside
  <2>2. Follows(<<>>, l.open # "none", g, l.open # "none", g)
    BY FollowsNothing
  <2>3. Follows(<<>>, l.open # "none", g, r.inside, r.made)
    BY <1>2, <1>5, <2>1, <2>2 DEF Follows, Inside
  <2>4. Fresh(<<>>, l.known)
    BY <1>3, <1>5 DEF Fresh
  <2> QED BY <1>1, <2>3, <2>4 DEF Sane
<1>6. ASSUME r.format \in {"zip", "tar"}, Sane(s, l.open # "none", g, l.known), Alike(r, s)
      PROVE  Filled(l, s, FALSE)
  <2>1. Formed(s) /\ s.format \in {"zip", "tar"}
    BY <1>1, <1>6 DEF Formed, Alike
  <2> QED BY <1>2, <1>6, <2>1, SaneFilled
<1>7. CASE ~r.wrapped
  <2>1. r.format \in {"zip", "tar"}
    BY <1>1, <1>4, <1>7 DEF Formed
  <2>2. s \in ArchiveByte(r)
    BY <1>1, <1>7 DEF ReaderPush
  <2>3. PICK o \in BOOLEAN : o = (l.open # "none")
    OBVIOUS
  <2>4. Sane(s, o, g, l.known) /\ Alike(r, s)
    <3>1. Sane(r, o, g, l.known)
      BY <1>5, <2>1, <2>3
    <3> QED BY <2>2, <3>1, ArchiveByteSane
  <2>5. Sane(s, l.open # "none", g, l.known)
    BY <2>3, <2>4
  <2> QED BY <1>6, <2>1, <2>4, <2>5
<1>8. CASE r.wrapped
  <2>1. s \in GzipByte(r)
    BY <1>1, <1>8 DEF ReaderPush
  <2>2. r.format \in {"detect", "tar", "single"}
    BY <1>1, <1>4, <1>8 DEF Formed
  <2>3. PICK n \in Nat :
          \/ n = 0 /\ s = r
          \/ /\ r.format = "detect" /\ r.buffered + n < ProbeLen
             /\ s = [r EXCEPT !.buffered = @ + n]
          \/ r.format = "detect" /\ s \in Inflated(r, r.buffered + n)
          \/ r.format = "tar" /\ s \in TarRun(r, n)
          \/ r.format = "single" /\ s = [r EXCEPT !.made = @ + n, !.out = WithBytes(@, n)]
    <3>1. PICK n \in 0..Inflate :
            s \in (CASE n = 0 -> {r}
                     [] n > 0 /\ r.format = "detect" ->
                          IF r.buffered + n < ProbeLen THEN {[r EXCEPT !.buffered = @ + n]}
                                                       ELSE Inflated(r, r.buffered + n)
                     [] n > 0 /\ r.format = "tar" -> TarRun(r, n)
                     [] n > 0 /\ r.format = "single" ->
                          {[r EXCEPT !.made = @ + n, !.out = WithBytes(@, n)]})
      BY <2>1 DEF GzipByte
    <3>2. n \in Nat /\ (n = 0 \/ n > 0)
      OBVIOUS
    <3>3. CASE n = 0
      <4>1. ~(n > 0)
        BY <3>3
      <4>2. s \in {r}
        BY <3>1, <3>3, <4>1
      <4> QED BY <3>2, <3>3, <4>2
    <3>4. CASE n > 0
      <4>0. n # 0
        BY <3>4
      <4>1. CASE r.format = "detect"
        <5>1. s \in IF r.buffered + n < ProbeLen THEN {[r EXCEPT !.buffered = @ + n]}
                                                 ELSE Inflated(r, r.buffered + n)
          BY <3>1, <3>4, <4>0, <4>1
        <5>2. CASE r.buffered + n < ProbeLen
          BY <3>2, <4>1, <5>1, <5>2
        <5>3. CASE ~(r.buffered + n < ProbeLen)
          <6>1. s \in Inflated(r, r.buffered + n)
            BY <5>1, <5>3
          <6> QED BY <3>2, <4>1, <6>1
        <5> QED BY <5>2, <5>3
      <4>2. CASE r.format = "tar"
        <5>1. s \in TarRun(r, n)
          BY <3>1, <3>4, <4>0, <4>2
        <5> QED BY <3>2, <4>2, <5>1
      <4>3. CASE r.format = "single"
        <5>1. s \in {[r EXCEPT !.made = @ + n, !.out = WithBytes(@, n)]}
          BY <3>1, <3>4, <4>0, <4>3
        <5> QED BY <3>2, <4>3, <5>1
      <4> QED BY <2>2, <4>1, <4>2, <4>3
    <3> QED BY <3>2, <3>3, <3>4
  <2>4. CASE n = 0 /\ s = r
    BY <1>1, <2>4, FilledAsIs
  <2>5. CASE /\ r.format = "detect" /\ r.buffered + n < ProbeLen
             /\ s = [r EXCEPT !.buffered = @ + n]
    <3>1. /\ s \in Outs /\ s.format = "detect" /\ s.wrapped = r.wrapped
          /\ s.inside = r.inside /\ s.made = r.made /\ s.out = <<>>
      <4>1. r.buffered + n \in Nat
        BY <1>4
      <4> QED BY <1>1, <2>5, <4>1 DEF Outs
    <3>2. Formed(s) /\ Inside(s) = Inside(r)
      BY <1>1, <2>5, <3>1 DEF Formed, Inside
    <3>3. Filled(l, r, FALSE)
      BY <1>1, FilledAsIs
    <3>4. PICK h \in Nat : /\ Passed(l, h)
                           /\ Follows(<<>>, l.open # "none", h, ~FALSE /\ Inside(r), r.made)
      BY <1>1, <3>3 DEF Filled
    <3>5. Follows(s.out, l.open # "none", h, ~FALSE /\ Inside(s), s.made)
      BY <3>1, <3>2, <3>4
    <3> QED BY <1>3, <2>5, <3>1, <3>2, <3>4, <3>5 DEF Filled
  <2>6. CASE r.format = "detect" /\ s \in Inflated(r, r.buffered + n)
    <3>1. r.buffered + n \in Nat
      BY <1>4
    <3> QED BY <1>1, <2>6, <3>1, InflatedFilled
  <2>7. CASE r.format = "tar" /\ s \in TarRun(r, n)
    <3>1. PICK o \in BOOLEAN : o = (l.open # "none")
      OBVIOUS
    <3>2. Sane(s, o, g, l.known) /\ Alike(r, s)
      <4>1. Sane(r, o, g, l.known)
        BY <1>5, <2>7, <3>1
      <4> QED BY <2>7, <4>1, TarRunSane
    <3>3. Sane(s, l.open # "none", g, l.known)
      BY <3>1, <3>2
    <3> QED BY <1>6, <2>7, <3>2, <3>3
  <2>8. CASE r.format = "single" /\ s = [r EXCEPT !.made = @ + n, !.out = WithBytes(@, n)]
    <3> DEFINE w == WithBytes(<<>>, n)
    <3>1. Inside(r) /\ l.open # "none" /\ r.made = g /\ l.known
      BY <1>2, <1>3, <2>8 DEF Inside
    <3>2. Follows(<<>>, TRUE, g, TRUE, g) /\ Fresh(<<>>, TRUE) /\ <<>> \in Seq(Events)
      <4>1. TRUE \in BOOLEAN /\ <<>> \in Seq(Events)
        OBVIOUS
      <4>2. Follows(<<>>, TRUE, g, TRUE, g)
        BY <4>1, FollowsNothing
      <4>3. Fresh(<<>>, TRUE)
        BY <4>1, FollowsNothing
      <4> QED BY <4>1, <4>2, <4>3
    <3>3. w \in Seq(Events)
      BY <3>2, FollowsBytes
    <3>4. Follows(w, TRUE, g, TRUE, g + n)
      BY <3>2, FollowsBytes
    <3>5. Fresh(w, TRUE)
      BY <3>2, FollowsBytes
    <3>6. s = [r EXCEPT !.made = g + n, !.out = w]
      BY <1>1, <2>8, <3>1
    <3> HIDE DEF w
    <3>7. /\ s \in Outs /\ s.format = r.format /\ s.wrapped = r.wrapped
          /\ s.inside = r.inside /\ s.made = g + n /\ s.out = w
      <4>1. g + n \in Nat
        OBVIOUS
      <4> QED BY <3>3, <3>6, <4>1 DEF Outs
    <3>8. Formed(s) /\ Inside(s) /\ s.format # "detect"
      BY <1>1, <2>8, <3>7 DEF Formed, Inside
    <3>9. Follows(s.out, l.open # "none", g, ~FALSE /\ Inside(s), s.made)
      <4>1. ((l.open # "none") <=> TRUE) /\ ((~FALSE /\ Inside(s)) <=> TRUE)
        BY <3>1, <3>8
      <4> QED BY <3>4, <3>7, <4>1 DEF Follows, Before
    <3>10. Fresh(s.out, l.known)
      BY <3>1, <3>5, <3>7 DEF Fresh
    <3> QED BY <1>2, <3>7, <3>8, <3>9, <3>10 DEF Filled
  <2> QED BY <2>3, <2>4, <2>5, <2>6, <2>7, <2>8
<1> QED BY <1>4, <1>7, <1>8

(* What a reader makes of the end of its bytes.                             *)
LEMMA FinishedFilled ==
  ASSUME NEW l, LevelOK(l), l.queue = <<>>, ~l.ended, NEW s \in ReaderFinish(l.reader)
  PROVE  Filled(l, s, TRUE)
<1>1. PICK r \in Outs : r = l.reader
  BY WaitingLevel
<1>2. PICK t : /\ t \in IF r.format = "detect" THEN Inflated(r, r.buffered) ELSE {r}
               /\ ~t.inside
               /\ s = [t EXCEPT !.out = IF t.format = "single" THEN Append(@, End(t.made)) ELSE @]
  BY <1>1 DEF ReaderFinish
<1>3. Filled(l, t, FALSE) /\ t.format # "detect"
  <2>1. CASE r.format = "detect"
    <3>1. t \in Inflated(r, r.buffered) /\ r.buffered \in Nat
      BY <1>2, <2>1 DEF Outs
    <3>2. Filled(l, t, FALSE) /\ t.format \in {"tar", "single"}
      BY <1>1, <2>1, <3>1, InflatedFilled
    <3> QED BY <3>2
  <2>2. CASE r.format # "detect"
    <3>1. t = r
      BY <1>2, <2>2
    <3> QED BY <1>1, <2>2, <3>1, FilledAsIs
  <2> QED BY <2>1, <2>2
<1>4. /\ t \in Outs /\ Formed(t) /\ Fresh(t.out, l.known)
      /\ t.out \in Seq(Events) /\ t.made \in Nat
  BY <1>3 DEF Filled, Outs
<1>5. PICK g \in Nat : /\ Passed(l, g)
                       /\ Follows(t.out, l.open # "none", g, ~FALSE /\ Inside(t), t.made)
  BY <1>3 DEF Filled
<1>6. CASE t.format # "single"
  <2>1. s = t
    <3>1. s = [t EXCEPT !.out = t.out]
      BY <1>2, <1>6
    <3> QED BY <1>4, <3>1 DEF Outs
  <2>2. (~FALSE /\ Inside(t)) <=> (~TRUE /\ Inside(t))
    BY <1>2, <1>6 DEF Inside
  <2>3. Follows(s.out, l.open # "none", g, ~TRUE /\ Inside(s), s.made)
    BY <1>5, <2>1, <2>2 DEF Follows
  <2> QED BY <1>3, <1>4, <1>5, <2>1, <2>3 DEF Filled
<1>7. CASE t.format = "single"
  <2> DEFINE e == End(t.made)
             v == Append(t.out, e)
  <2>1. e \in Events /\ e.is # "announce"
    BY <1>4, EventTypes
  <2>2. PICK o \in BOOLEAN : o = (l.open # "none")
    OBVIOUS
  <2>3. Follows(v, o, g, FALSE, t.made)
    <3>1. (~FALSE /\ Inside(t)) <=> TRUE
      BY <1>7 DEF Inside
    <3>2. PICK q \in Seq(Events), m \in Nat : q = t.out /\ m = t.made
      BY <1>4
    <3>3. Follows(q, o, g, TRUE, m)
      BY <1>5, <2>2, <3>1, <3>2 DEF Follows
    <3>4. Follows(Append(q, End(m)), o, g, FALSE, m)
      BY <3>3, FollowsEnd
    <3> QED BY <3>2, <3>4
  <2>4. v \in Seq(Events) /\ Fresh(v, l.known)
    BY <1>4, <2>1, OneMoreEvent, FreshOneMore
  <2>5. s = [t EXCEPT !.out = v]
    BY <1>2, <1>7
  <2> HIDE DEF v
  <2>6. /\ s \in Outs /\ s.format = t.format /\ s.wrapped = t.wrapped
        /\ s.inside = t.inside /\ s.made = t.made /\ s.out = v
    BY <1>4, <2>4, <2>5 DEF Outs
  <2>7. Formed(s) /\ s.format # "detect"
    BY <1>4, <1>7, <2>6 DEF Formed
  <2>8. Follows(s.out, l.open # "none", g, ~TRUE /\ Inside(s), s.made)
    <3>1. (~TRUE /\ Inside(s)) <=> FALSE
      OBVIOUS
    <3> QED BY <2>2, <2>3, <2>6, <3>1 DEF Follows
  <2> QED BY <1>5, <2>4, <2>6, <2>7, <2>8 DEF Filled
<1> QED BY <1>6, <1>7

(***************************************************************************)
(* The stack of levels.                                                    *)
(***************************************************************************)
\* Nothing is left to do on the levels up to j but to end what is there: finish
\* was called, or an end event waits below levels that have no work.
Quiet(j) ==
  \E m \in 0..j :
    /\ \A k \in (m + 1)..j : levels[k].queue = <<>> /\ levels[k].input = 0
    /\ IF m = 0 THEN ending ELSE levels[m].queue # <<>> /\ levels[m].queue[1].is = "end"

PathInv ==
  /\ levels \in Seq(LevelSet) /\ Len(levels) <= MaxDepth
  /\ \A i \in 1..(Len(levels) - 1) : levels[i].open = "nested"

LevelsInv == \A i \in 1..Len(levels) : LevelOK(levels[i])

\* A level whose reader was finished, and a nested member that has lost its level,
\* are ones that are being closed.
ClosingInv ==
  /\ \A i \in 1..Len(levels) : levels[i].ended => Quiet(i - 1)
  /\ levels # <<>> /\ levels[Len(levels)].open = "nested" => Quiet(Len(levels))

\* Nothing is heard before the outermost container is announced.
HeardInv ==
  /\ levels = <<>> => ending /\ heard # <<>>
  /\ levels # <<>> /\ ~levels[1].known => heard = <<>>

StackInv ==
  /\ outer \in Nat /\ PathInv
  /\ phase = "detect" => levels = <<>> /\ heard = <<>>
  /\ phase = "run" => LevelsInv /\ ClosingInv /\ HeardInv

(* The event a level handles next.                                          *)
LEMMA FreshTail ==
  ASSUME NEW q \in Seq(Events), q # <<>>, NEW known, Fresh(q, known)
  PROVE  Fresh(Tail(q), TRUE)
<1>1. PICK n \in Nat : n = Len(q) /\ n # 0
  BY LenProperties, EmptySeq
<1>2. /\ Tail(q) \in Seq(Events) /\ Len(Tail(q)) = n - 1
      /\ \A k \in 1..(n - 1) : Tail(q)[k] = q[k + 1]
  <2>1. Len(Tail(q)) = Len(q) - 1 /\ \A k \in 1..Len(Tail(q)) : Tail(q)[k] = q[k + 1]
    BY HeadTailProperties
  <2> QED BY <1>1, <2>1, HeadTailProperties
<1>3. \A k \in 1..(n - 1) : k + 1 \in 1..n /\ k + 1 # 1
  BY <1>1
<1>4. \A k \in 1..(n - 1) : Tail(q)[k].is # "announce"
  BY <1>2, <1>3, <1>1 DEF Fresh
<1> QED BY <1>2, <1>4 DEF Fresh

LEMMA FirstEvent ==
  ASSUME NEW l, LevelOK(l), l.queue # <<>>, NEW e, e = l.queue[1]
  PROVE  /\ l.queue \in Seq(Events) /\ Head(l.queue) = e
         /\ e \in Events /\ e.is \in EventKinds
         /\ e.is \in {"bytes", "end"} => e.n \in Nat
         /\ e.is \in {"bytes", "end"} <=> l.open # "none"
         /\ e.is = "end" => Passed(l, e.n)
         /\ e.is = "announce" <=> ~l.known
         /\ l.reader.format # "detect"
<1>1. l.queue \in Seq(Events) /\ l.reader.format # "detect"
  BY DEF LevelOK, LevelSet
<1>2. PICK q \in Seq(Events) : q = l.queue
  BY <1>1
<1>3. Fresh(q, l.known)
  BY <1>1, <1>2 DEF LevelOK
<1>4. e.is = "announce" <=> ~l.known
  <2>1. q # <<>> /\ e = q[1]
    BY <1>2
  <2>2. 1 \in 1..Len(q)
    <3>1. PICK n \in Nat : n = Len(q) /\ n # 0
      BY <2>1, LenProperties, EmptySeq
    <3> QED BY <3>1
  <2>3. CASE l.known
    BY <1>3, <2>1, <2>2, <2>3 DEF Fresh
  <2>4. CASE ~l.known
    BY <1>3, <2>1, <2>2, <2>4 DEF Fresh
  <2> QED BY <2>3, <2>4
<1>5. PICK g \in Nat :
        /\ Passed(l, g)
        /\ Follows(q, l.open # "none", g, ~l.ended /\ Inside(l.reader), l.reader.made)
  BY <1>2 DEF LevelOK
<1>6. PICK o, i, m : o = (l.open # "none") /\ i = (~l.ended /\ Inside(l.reader))
                     /\ m = l.reader.made
  OBVIOUS
<1>7. Follows(q, o, g, i, m)
  BY <1>5, <1>6
<1>8. e \in Events /\ (e.is \in {"bytes", "end"} <=> o) /\ (e.is = "end" => e.n = g)
  <2>1. e = q[1] /\ q # <<>>
    BY <1>2
  <2> QED BY <1>7, <2>1, FollowsHead
<1>9. Head(q) = e
  BY <1>2
<1> QED BY <1>1, <1>2, <1>4, <1>5, <1>6, <1>8, <1>9, EventFields

(* A level that has handled an event.                                       *)
LEMMA WorkedOff ==
  ASSUME NEW l, LevelOK(l), l.queue # <<>>, NEW e, e = l.queue[1],
         NEW k, k \in LevelSet, k.reader = l.reader, k.queue = Tail(l.queue),
         k.ended = l.ended, k.input = l.input, k.known, Told(k),
         k.open # "none" <=> e.is \in {"start", "bytes"},
         \A g \in Nat : Passed(l, g) => Passed(k, IF e.is = "bytes" THEN g + e.n ELSE 0)
  PROVE  LevelOK(k)
<1>1. PICK q \in Seq(Events) : q = l.queue
  BY FirstEvent
<1>2. e = q[1] /\ q # <<>>
  BY <1>1
<1>3. Fresh(Tail(q), TRUE)
  <2>1. Fresh(q, l.known)
    BY <1>1, FirstEvent DEF LevelOK
  <2> QED BY <1>2, <2>1, FreshTail
<1>4. PICK g \in Nat :
        /\ Passed(l, g)
        /\ Follows(q, l.open # "none", g, ~l.ended /\ Inside(l.reader), l.reader.made)
  BY <1>1 DEF LevelOK
<1>5. l.reader.made \in Nat /\ l.ended \in BOOLEAN
  BY DEF LevelOK, LevelSet, Outs
<1>6. PICK o \in BOOLEAN, i \in BOOLEAN, m \in Nat :
        /\ o = (l.open # "none") /\ i = (~l.ended /\ Inside(l.reader)) /\ m = l.reader.made
  BY <1>5
<1> DEFINE h == IF e.is = "bytes" THEN g + e.n ELSE 0
<1>7. Follows(Tail(q), e.is \in {"start", "bytes"}, h, i, m)
  <2>1. Follows(q, o, g, i, m)
    BY <1>4, <1>6
  <2> QED BY <1>2, <2>1, FollowsTail
<1>8. h \in Nat
  <2>1. e.is = "bytes" => e.n \in Nat
    BY FirstEvent
  <2> QED BY <2>1
<1>9. Passed(k, h)
  BY <1>4
<1> HIDE DEF h
<1>10. PICK c : c = (e.is \in {"start", "bytes"})
  OBVIOUS
<1>11. (k.open # "none") = c /\ (~k.ended /\ Inside(k.reader)) = i
  BY <1>6, <1>10
<1>12. Follows(k.queue, k.open # "none", h, ~k.ended /\ Inside(k.reader), k.reader.made)
  BY <1>1, <1>6, <1>7, <1>10, <1>11
<1>13. k.reader.format # "detect"
  BY FirstEvent
<1>14. /\ k.reader.out = <<>> /\ Formed(k.reader) /\ (k.ended => k.input = 0)
  BY DEF LevelOK
<1>15. Fresh(k.queue, k.known)
  BY <1>1, <1>3 DEF Fresh
<1> QED BY <1>8, <1>9, <1>12, <1>13, <1>14, <1>15 DEF LevelOK

(* The level at work is the deepest with work.                              *)
LEMMA LevelAtWork ==
  ASSUME StackInv, NEW i, AtWork(i)
  PROVE  /\ phase = "run" /\ i \in 1..Len(levels) /\ Len(levels) \in Nat
         /\ levels \in Seq(LevelSet) /\ levels # <<>>
         /\ levels[i] \in LevelSet /\ LevelOK(levels[i])
         /\ levels[i].input > 0 \/ levels[i].queue # <<>>
         /\ \A j \in (i + 1)..Len(levels) : levels[j].queue = <<>> /\ levels[j].input = 0
         /\ i # Len(levels) => levels[i].open = "nested"
         /\ i # 1 => levels[1].known
<1>1. phase = "run" /\ i \in Busy /\ \A j \in Busy : j <= i
  BY DEF AtWork
<1>2. PICK n \in Nat : n = Len(levels) /\ levels \in Seq(LevelSet)
  BY LenProperties DEF StackInv, PathInv
<1>3. DOMAIN levels = 1..n
  BY <1>2, LenProperties
<1>4. i \in 1..n /\ (levels[i].input > 0 \/ levels[i].queue # <<>>)
  BY <1>1, <1>3 DEF Busy
<1>5. i \in 1..n
  BY <1>1, <1>3 DEF Busy
<1>6. \A j \in 1..n : levels[j] \in LevelSet /\ LevelOK(levels[j])
  <2>1. \A j \in 1..n : LevelOK(levels[j])
    BY <1>1, <1>2 DEF StackInv, LevelsInv
  <2>2. \A j \in 1..n : levels[j] \in LevelSet
    BY <2>1 DEF LevelOK
  <2> QED BY <2>1, <2>2
<1>7. \A j \in (i + 1)..n : levels[j].queue = <<>> /\ levels[j].input = 0
  <2> TAKE j \in (i + 1)..n
  <2>1. j \in 1..n /\ ~(j <= i)
    BY <1>5
  <2>2. j \notin Busy
    BY <1>1, <2>1
  <2>3. levels[j].input \in Nat
    BY <1>6, <2>1 DEF LevelSet
  <2> QED BY <1>3, <2>1, <2>2, <2>3 DEF Busy
<1>8. \A j \in 1..(n - 1) : levels[j].open = "nested"
  BY <1>2 DEF StackInv, PathInv
<1>9. i # n => levels[i].open = "nested"
  <2>1. i # n => i \in 1..(n - 1)
    BY <1>5
  <2> QED BY <1>8, <2>1
<1>10. i # 1 => levels[1].known
  <2>1. i # 1 => 1 \in 1..n /\ 1 \in 1..(n - 1)
    BY <1>5
  <2>2. i # 1 => levels[1].open = "nested" /\ Told(levels[1])
    BY <1>6, <1>8, <2>1 DEF LevelOK
  <2> QED BY <2>2 DEF Told
<1>11. levels # <<>>
  BY <1>2, <1>5, EmptySeq
<1> QED BY <1>1, <1>2, <1>4, <1>5, <1>6, <1>7, <1>9, <1>10, <1>11

(* It closes nothing unless it handles an end event.                        *)
LEMMA NothingCloses ==
  ASSUME StackInv, NEW i, AtWork(i), levels[i].queue = <<>> \/ levels[i].queue[1].is # "end"
  PROVE  /\ \A j \in (i + 1)..Len(levels) : ~levels[j].ended
         /\ levels[Len(levels)].open # "nested"
         /\ levels[i].queue = <<>> => ~levels[i].ended
<1>1. PICK n \in Nat : n = Len(levels) /\ i \in 1..n
  BY LevelAtWork
<1>2. /\ levels[i].input > 0 \/ levels[i].queue # <<>>
      /\ \A j \in (i + 1)..n : levels[j].queue = <<>> /\ levels[j].input = 0
      /\ levels # <<>> /\ LevelOK(levels[i]) /\ levels[i] \in LevelSet
  BY <1>1, LevelAtWork
<1>3. levels[i].input \in Nat
  BY <1>2 DEF LevelSet
<1>4. ASSUME NEW j \in i..n, Quiet(j) PROVE FALSE
  <2>1. PICK m \in 0..j :
          /\ \A k \in (m + 1)..j : levels[k].queue = <<>> /\ levels[k].input = 0
          /\ IF m = 0 THEN ending ELSE levels[m].queue # <<>> /\ levels[m].queue[1].is = "end"
    BY <1>4 DEF Quiet
  <2>2. ~(m < i)
    <3>1. m < i => i \in (m + 1)..j
      BY <1>1
    <3>2. i \in (m + 1)..j => levels[i].queue = <<>> /\ ~(levels[i].input > 0)
      BY <2>1
    <3> QED BY <1>2, <3>1, <3>2
  <2>3. m # i
    <3>1. m = i => levels[i].queue # <<>> /\ levels[i].queue[1].is = "end"
      BY <1>1, <2>1
    <3> QED BY <3>1
  <2>4. m \in (i + 1)..n /\ m # 0
    BY <1>1, <2>2, <2>3
  <2> QED BY <1>2, <2>1, <2>4
<1>5. /\ \A j \in 1..n : levels[j].ended => Quiet(j - 1)
      /\ levels[n].open = "nested" => Quiet(n)
  BY <1>1, <1>2, LevelAtWork DEF StackInv, ClosingInv
<1>6. ASSUME NEW j \in (i + 1)..n PROVE ~levels[j].ended
  <2>1. j \in 1..n /\ j - 1 \in i..n
    BY <1>1
  <2> QED BY <1>4, <1>5, <2>1
<1>7. levels[n].open # "nested"
  <2>1. n \in i..n
    BY <1>1
  <2> QED BY <1>4, <1>5, <2>1
<1>8. levels[i].queue = <<>> => ~levels[i].ended
  <2>1. levels[i].ended => levels[i].input = 0
    BY <1>2 DEF LevelOK
  <2>2. levels[i].queue = <<>> => levels[i].input # 0
    BY <1>2
  <2> QED BY <2>1, <2>2
<1> QED BY <1>1, <1>6, <1>7, <1>8

(* What is quiet depends on the levels up to there.                         *)
LEMMA QuietKept ==
  ASSUME NEW j \in Nat, Quiet(j), ending => ending', \A k \in 1..j : levels'[k] = levels[k]
  PROVE  Quiet(j)'
<1>1. PICK m \in 0..j :
        /\ \A k \in (m + 1)..j : levels[k].queue = <<>> /\ levels[k].input = 0
        /\ IF m = 0 THEN ending ELSE levels[m].queue # <<>> /\ levels[m].queue[1].is = "end"
  BY DEF Quiet
<1>2. \A k \in (m + 1)..j : k \in 1..j
  OBVIOUS
<1>3. m # 0 => m \in 1..j
  OBVIOUS
<1>4. \A k \in (m + 1)..j : levels'[k].queue = <<>> /\ levels'[k].input = 0
  BY <1>1, <1>2
<1>5. IF m = 0 THEN ending' ELSE levels'[m].queue # <<>> /\ levels'[m].queue[1].is = "end"
  BY <1>1, <1>3
<1> QED BY <1>4, <1>5 DEF Quiet

(* Nothing above level i is being closed: the invariant of levels that keep *)
(* their number.                                                            *)
LEMMA StackKept ==
  ASSUME StackInv, phase = "run", phase' = phase, ending' = ending, outer' = outer,
         NEW n \in Nat, n = Len(levels), NEW i \in 1..n,
         levels' \in Seq(LevelSet), Len(levels') = n,
         \A j \in 1..n : LevelOK(levels'[j]),
         \A j \in 1..n : j < i => levels'[j] = levels[j],
         \A j \in 1..(n - 1) : levels'[j].open = "nested",
         \A j \in 1..n : levels'[j].ended => j <= i /\ levels[j].ended,
         levels'[n].open # "nested",
         levels'[1].known \/ heard' = <<>>
  PROVE  StackInv'
<1>1. PathInv'
  BY DEF PathInv, StackInv
<1>2. LevelsInv'
  BY DEF LevelsInv
<1>3. ASSUME NEW j \in 1..n, levels'[j].ended PROVE Quiet(j - 1)'
  <2>1. Quiet(j - 1) /\ j <= i
    BY <1>3 DEF StackInv, ClosingInv
  <2>2. \A k \in 1..(j - 1) : k \in 1..n /\ k < i
    BY <2>1
  <2>3. j - 1 \in Nat /\ \A k \in 1..(j - 1) : levels'[k] = levels[k]
    BY <2>2
  <2> QED BY <2>1, <2>3, QuietKept
<1>4. ClosingInv'
  BY <1>3 DEF ClosingInv
<1>5. levels' # <<>>
  BY EmptySeq
<1>6. HeardInv'
  BY <1>5 DEF HeardInv
<1> QED BY <1>1, <1>2, <1>4, <1>6 DEF StackInv

(* One level changes.                                                       *)
LEMMA OneLevel ==
  ASSUME StackInv, NEW i, AtWork(i),
         \A j \in (i + 1)..Len(levels) : ~levels[j].ended,
         i # Len(levels) => levels[Len(levels)].open # "nested",
         NEW k, LevelOK(k), k.ended => levels[i].ended,
         IF i = Len(levels) THEN k.open # "nested" ELSE k.open = "nested",
         i = 1 => k.known \/ heard' = <<>>,
         levels' = [levels EXCEPT ![i] = k],
         phase' = phase, ending' = ending, outer' = outer
  PROVE  StackInv'
<1>1. PICK n \in Nat : n = Len(levels) /\ i \in 1..n
  BY LevelAtWork
<1>2. levels \in Seq(LevelSet) /\ phase = "run" /\ k \in LevelSet
  BY LevelAtWork DEF LevelOK
<1>3. /\ levels' \in Seq(LevelSet) /\ Len(levels') = n /\ levels'[i] = k
      /\ \A j \in 1..n : j # i => levels'[j] = levels[j]
  BY <1>1, <1>2, ExceptSeq
<1>4. \A j \in 1..n : LevelOK(levels'[j])
  <2>1. \A j \in 1..n : LevelOK(levels[j])
    BY <1>1, <1>2 DEF StackInv, LevelsInv
  <2> QED BY <1>3, <2>1
<1>5. \A j \in 1..(n - 1) : levels'[j].open = "nested"
  <2>1. \A j \in 1..(n - 1) : levels[j].open = "nested" /\ j \in 1..n
    BY <1>1 DEF StackInv, PathInv
  <2>2. i \in 1..(n - 1) => k.open = "nested"
    BY <1>1
  <2> QED BY <1>3, <2>1, <2>2
<1>6. \A j \in 1..n : levels'[j].ended => j <= i /\ levels[j].ended
  <2> TAKE j \in 1..n
  <2>1. CASE j = i
    BY <1>3, <2>1
  <2>2. CASE j # i
    <3>1. j <= i \/ j \in (i + 1)..n
      BY <1>1
    <3> QED BY <1>1, <1>3, <2>2, <3>1
  <2> QED BY <2>1, <2>2
<1>7. levels'[n].open # "nested"
  <2>1. n \in 1..n
    BY <1>1
  <2> QED BY <1>1, <1>3, <2>1
<1>8. levels'[1].known \/ heard' = <<>>
  <2>1. 1 \in 1..n
    BY <1>1
  <2>2. i # 1 => levels[1].known
    BY LevelAtWork
  <2> QED BY <1>3, <2>1, <2>2
<1>9. \A j \in 1..n : j < i => levels'[j] = levels[j]
  BY <1>1, <1>3
<1> QED BY <1>1, <1>2, <1>3, <1>4, <1>5, <1>6, <1>7, <1>8, <1>9, StackKept

(* A refusal changes nothing that is relied on after it.                    *)
LEMMA RejectKeeps ==
  ASSUME StackInv, Reject,
         levels' \in Seq(LevelSet), NEW n \in Nat, Len(levels') = n, n <= Len(levels),
         \A j \in 1..(n - 1) : levels'[j].open = "nested"
  PROVE  StackInv'
<1>1. Len(levels) \in Nat /\ Len(levels) <= MaxDepth /\ MaxDepth \in Nat
  BY LenProperties, DecomposerAssumption DEF StackInv, PathInv
<1>2. PathInv'
  BY <1>1 DEF PathInv
<1>3. phase' = "rejected" /\ outer' = outer
  BY DEF Reject
<1> QED BY <1>2, <1>3 DEF StackInv

LEMMA RejectInPlace == ASSUME StackInv, Reject, UNCHANGED levels PROVE StackInv'
<1>1. PICK n \in Nat : n = Len(levels) /\ levels \in Seq(LevelSet)
  BY LenProperties DEF StackInv, PathInv
<1>2. \A j \in 1..(n - 1) : levels[j].open = "nested"
  BY <1>1 DEF StackInv, PathInv
<1>3. levels' \in Seq(LevelSet) /\ Len(levels') = n /\ n <= Len(levels)
  BY <1>1
<1>4. \A j \in 1..(n - 1) : levels'[j].open = "nested"
  BY <1>2
<1> QED BY <1>3, <1>4, RejectKeeps

LEMMA FeedKeeps == ASSUME StackInv, NEW i, Feed(i) PROVE StackInv'
<1>1. AtWork(i) /\ levels[i].queue = <<>>
  BY DEF Feed
<1>2. PICK l \in LevelSet : l = levels[i] /\ LevelOK(l) /\ l.queue = <<>>
  BY <1>1, LevelAtWork
<1>3. ~l.ended /\ l.ended = FALSE
  <2>1. ~l.ended /\ l.ended \in BOOLEAN
    BY <1>1, <1>2, NothingCloses DEF LevelSet
  <2> QED BY <2>1
<1>4. CASE Reject /\ UNCHANGED levels
  BY <1>4, RejectInPlace
<1>5. CASE /\ \E r \in ReaderPush(levels[i].reader) :
                levels' = [levels EXCEPT ![i].reader = [r EXCEPT !.out = <<>>],
                                         ![i].queue = r.out, ![i].input = @ - 1]
           /\ UNCHANGED <<phase, outer, ending, pushed, heard>>
  <2>1. PICK s : /\ s \in ReaderPush(l.reader)
                 /\ levels' = [levels EXCEPT ![i].reader = [s EXCEPT !.out = <<>>],
                                             ![i].queue = s.out, ![i].input = @ - 1]
    BY <1>2, <1>5
  <2>2. Filled(l, s, FALSE)
    BY <1>2, <1>3, <2>1, PushedFilled
  <2>3. PICK m \in Nat : m = l.input - 1
    <3>1. l.input \in Nat /\ (l.input > 0)
      BY <1>1, <1>2, LevelAtWork DEF LevelSet
    <3>2. l.input - 1 \in Nat
      BY <3>1
    <3> QED BY <3>2
  <2>4. PICK r, k : /\ r = [s EXCEPT !.out = <<>>]
                    /\ k = [l EXCEPT !.reader = r, !.queue = s.out, !.ended = FALSE, !.input = m]
    OBVIOUS
  <2>5. LevelOK(k) /\ k.open = l.open /\ k.known = l.known /\ k.ended = FALSE
    <3>1. s \in Outs
      BY <2>2 DEF Filled
    <3>2. /\ r \in Outs /\ r.out = <<>> /\ r.format = s.format /\ r.wrapped = s.wrapped
          /\ r.inside = s.inside /\ r.made = s.made /\ s.out \in Seq(Events)
      BY <2>4, <3>1, TakenLevel
    <3>3. /\ k \in LevelSet /\ k.reader = r /\ k.queue = s.out /\ k.open = l.open
          /\ k.known = l.known /\ k.told = l.told /\ k.probe = l.probe
          /\ k.members = l.members /\ k.entries = l.entries /\ k.ended = FALSE
      <4> HIDE DEF Outs
      <4> QED BY <2>4, <3>2 DEF LevelSet
    <3>4. Filled(l, s, k.ended) /\ ~k.ended
      BY <2>2, <3>3
    <3>5. LevelOK(k)
      BY <1>2, <3>2, <3>3, <3>4, FilledLevel
    <3> QED BY <3>3, <3>5
  <2>6. levels' = [levels EXCEPT ![i] = k]
    <3>1. k = [l EXCEPT !.reader = r, !.queue = s.out, !.input = m]
      BY <1>3, <2>4 DEF LevelSet
    <3> QED BY <1>2, <2>1, <2>3, <2>4, <3>1
  <2>7. /\ \A j \in (i + 1)..Len(levels) : ~levels[j].ended
        /\ levels[Len(levels)].open # "nested"
    BY <1>1, NothingCloses
  <2>8. IF i = Len(levels) THEN k.open # "nested" ELSE k.open = "nested"
    BY <1>1, <1>2, <2>5, <2>7, LevelAtWork
  <2>9. i = 1 => k.known \/ heard' = <<>>
    <3>1. levels # <<>> /\ phase = "run"
      BY <1>1, LevelAtWork
    <3>2. levels[1].known \/ heard = <<>>
      BY <3>1 DEF StackInv, HeardInv
    <3> QED BY <1>2, <1>5, <2>5, <3>2
  <2>10. phase' = phase /\ ending' = ending /\ outer' = outer
    BY <1>5
  <2>11. k.ended => levels[i].ended
    BY <2>5
  <2> QED BY <1>1, <2>5, <2>6, <2>7, <2>8, <2>9, <2>10, <2>11, OneLevel
<1> QED BY <1>4, <1>5 DEF Feed

LEMMA LevelHandling ==
  ASSUME StackInv, NEW i, NEW event, Handling(i, event)
  PROVE  /\ AtWork(i) /\ levels[i].queue # <<>> /\ levels[i].queue[1].is = event
         /\ Head(levels[i].queue) = levels[i].queue[1]
         /\ Tail(levels[i].queue) \in Seq(Events)
<1>1. AtWork(i) /\ levels[i].queue # <<>> /\ Head(levels[i].queue).is = event
  BY DEF Handling
<1>2. LevelOK(levels[i])
  BY <1>1, LevelAtWork
<1>3. PICK l, e : l = levels[i] /\ e = l.queue[1]
  OBVIOUS
<1>4. l.queue \in Seq(Events) /\ Head(l.queue) = e
  BY <1>1, <1>2, <1>3, FirstEvent
<1>5. Tail(l.queue) \in Seq(Events)
  BY <1>1, <1>3, <1>4, HeadTailProperties
<1> QED BY <1>1, <1>3, <1>4, <1>5

\* An event other than an end was handled, and the level stays in its place.
LEMMA HandledLevel ==
  ASSUME StackInv, NEW i, NEW event, Handling(i, event), event # "end",
         NEW l, l = levels[i], NEW k, LevelOK(k), k.known, k.ended = l.ended,
         k.open = "nested" <=> l.open = "nested",
         levels' = [levels EXCEPT ![i] = k],
         phase' = phase, ending' = ending, outer' = outer
  PROVE  StackInv'
<1>1. AtWork(i) /\ (levels[i].queue = <<>> \/ levels[i].queue[1].is # "end")
  BY LevelHandling
<1>2. /\ \A j \in (i + 1)..Len(levels) : ~levels[j].ended
      /\ levels[Len(levels)].open # "nested"
  BY <1>1, NothingCloses
<1>3. IF i = Len(levels) THEN k.open # "nested" ELSE k.open = "nested"
  BY <1>1, <1>2, LevelAtWork
<1>4. i # Len(levels) => levels[Len(levels)].open # "nested"
  BY <1>2
<1>5. k.ended => levels[i].ended
  OBVIOUS
<1>6. i = 1 => k.known \/ heard' = <<>>
  OBVIOUS
<1> QED BY <1>1, <1>2, <1>3, <1>4, <1>5, <1>6, OneLevel

LEMMA AnnouncedKeeps == ASSUME StackInv, NEW i, Announced(i) PROVE StackInv'
<1>1. Handling(i, "announce") /\ AtWork(i)
  BY DEF Announced, Handling
<1>2. PICK l \in LevelSet : l = levels[i] /\ LevelOK(l) /\ i \in 1..Len(levels)
  BY <1>1, LevelAtWork
<1>3. PICK e : /\ e = l.queue[1] /\ e.is = "announce" /\ l.queue # <<>>
               /\ Tail(l.queue) \in Seq(Events)
  BY <1>1, <1>2, LevelHandling
<1>4. l.open = "none"
  BY <1>2, <1>3, FirstEvent
<1>5. PICK k : k = [l EXCEPT !.queue = Tail(@), !.known = TRUE]
  OBVIOUS
<1>6. /\ k \in LevelSet /\ k.reader = l.reader /\ k.queue = Tail(l.queue)
      /\ k.ended = l.ended /\ k.input = l.input /\ k.open = l.open /\ k.known
      /\ k.told = l.told
  <2> HIDE DEF Outs
  <2> QED BY <1>3, <1>5 DEF LevelSet
<1>7. LevelOK(k)
  <2>1. Told(k)
    BY <1>2, <1>4, <1>6 DEF LevelOK, Told
  <2>2. k.open # "none" <=> e.is \in {"start", "bytes"}
    BY <1>3, <1>4, <1>6
  <2>3. \A g \in Nat : Passed(l, g) => Passed(k, IF e.is = "bytes" THEN g + e.n ELSE 0)
    BY <1>4, <1>6 DEF Passed
  <2> QED BY <1>2, <1>3, <1>6, <2>1, <2>2, <2>3, WorkedOff
<1>8. levels' = [levels EXCEPT ![i] = k]
  <2>1. levels' = [Handled(i) EXCEPT ![i].known = TRUE]
    BY DEF Announced
  <2>2. i \in DOMAIN levels
    BY <1>1 DEF AtWork, Busy
  <2> QED BY <1>2, <1>5, <2>1, <2>2 DEF Handled
<1>9. phase' = phase /\ ending' = ending /\ outer' = outer
  BY DEF Announced
<1>10. k.open = "nested" <=> l.open = "nested"
  BY <1>6
<1> QED BY <1>1, <1>2, <1>6, <1>7, <1>8, <1>9, <1>10, HandledLevel

LEMMA EnteredKeeps == ASSUME StackInv, NEW i, Entered(i) PROVE StackInv'
<1>1. Handling(i, "entry") /\ AtWork(i)
  BY DEF Entered, Handling
<1>2. PICK l \in LevelSet : l = levels[i] /\ LevelOK(l) /\ i \in 1..Len(levels)
  BY <1>1, LevelAtWork
<1>3. PICK e : /\ e = l.queue[1] /\ e.is = "entry" /\ l.queue # <<>>
               /\ Tail(l.queue) \in Seq(Events)
  BY <1>1, <1>2, LevelHandling
<1>4. l.open = "none" /\ l.known
  BY <1>2, <1>3, FirstEvent
<1>5. PICK k : k = [l EXCEPT !.queue = Tail(@), !.entries = @ + 1]
  OBVIOUS
<1>6. /\ k \in LevelSet /\ k.reader = l.reader /\ k.queue = Tail(l.queue)
      /\ k.ended = l.ended /\ k.input = l.input /\ k.open = l.open /\ k.known
      /\ k.told = l.told
  <2>1. l.entries + 1 \in Nat
    BY DEF LevelSet
  <2> HIDE DEF Outs
  <2> QED BY <1>3, <1>4, <1>5, <2>1 DEF LevelSet
<1>7. LevelOK(k)
  <2>1. Told(k)
    BY <1>2, <1>4, <1>6 DEF LevelOK, Told
  <2>2. k.open # "none" <=> e.is \in {"start", "bytes"}
    BY <1>3, <1>4, <1>6
  <2>3. \A g \in Nat : Passed(l, g) => Passed(k, IF e.is = "bytes" THEN g + e.n ELSE 0)
    BY <1>4, <1>6 DEF Passed
  <2> QED BY <1>2, <1>3, <1>6, <2>1, <2>2, <2>3, WorkedOff
<1>8. levels' = [levels EXCEPT ![i] = k]
  <2>1. levels' = [Handled(i) EXCEPT ![i].entries = @ + 1]
    BY DEF Entered
  <2>2. i \in DOMAIN levels
    BY <1>1 DEF AtWork, Busy
  <2> QED BY <1>2, <1>5, <2>1, <2>2 DEF Handled
<1>9. phase' = phase /\ ending' = ending /\ outer' = outer
  BY DEF Entered
<1>10. k.open = "nested" <=> l.open = "nested"
  BY <1>6
<1> QED BY <1>1, <1>2, <1>6, <1>7, <1>8, <1>9, <1>10, HandledLevel

LEMMA StartedKeeps == ASSUME StackInv, NEW i, Started(i) PROVE StackInv'
<1>1. Handling(i, "start") /\ AtWork(i)
  BY DEF Started, Handling
<1>2. PICK l \in LevelSet : l = levels[i] /\ LevelOK(l) /\ i \in 1..Len(levels)
  BY <1>1, LevelAtWork
<1>3. PICK e : /\ e = l.queue[1] /\ e.is = "start" /\ l.queue # <<>>
               /\ Tail(l.queue) \in Seq(Events)
  BY <1>1, <1>2, LevelHandling
<1>4. l.open = "none" /\ l.known
  BY <1>2, <1>3, FirstEvent
<1>5. PICK k : k = [l EXCEPT !.queue = Tail(@), !.open = "probing", !.probe = 0]
  OBVIOUS
<1>6. /\ k \in LevelSet /\ k.reader = l.reader /\ k.queue = Tail(l.queue)
      /\ k.ended = l.ended /\ k.input = l.input /\ k.open = "probing" /\ k.known
      /\ k.told = l.told /\ k.probe = 0
  <2> HIDE DEF Outs
  <2> QED BY <1>3, <1>4, <1>5 DEF LevelSet
<1>7. LevelOK(k)
  <2>1. Told(k)
    BY <1>2, <1>4, <1>6 DEF LevelOK, Told
  <2>2. k.open # "none" <=> e.is \in {"start", "bytes"}
    BY <1>3, <1>4, <1>6
  <2>3. \A g \in Nat : Passed(l, g) => Passed(k, IF e.is = "bytes" THEN g + e.n ELSE 0)
    BY <1>3, <1>6 DEF Passed
  <2> QED BY <1>2, <1>3, <1>6, <2>1, <2>2, <2>3, WorkedOff
<1>8. levels' = [levels EXCEPT ![i] = k]
  <2>1. levels' = [Handled(i) EXCEPT ![i].open = "probing", ![i].probe = 0]
    BY DEF Started
  <2>2. i \in DOMAIN levels
    BY <1>1 DEF AtWork, Busy
  <2> QED BY <1>2, <1>5, <2>1, <2>2 DEF Handled
<1>9. phase' = phase /\ ending' = ending /\ outer' = outer
  BY DEF Started
<1>10. k.open = "nested" <=> l.open = "nested"
  BY <1>4, <1>6
<1> QED BY <1>1, <1>2, <1>6, <1>7, <1>8, <1>9, <1>10, HandledLevel

(* A level about to be fed.                                                 *)
LEMMA FedLevel ==
  ASSUME NEW l, LevelOK(l), ~l.ended, NEW n \in Nat, NEW k, k = [l EXCEPT !.input = n]
  PROVE  /\ LevelOK(k) /\ k.open = l.open /\ k.known = l.known /\ ~k.ended
         /\ k.told = l.told /\ k.members = l.members /\ k.entries = l.entries
<1>1. l \in LevelSet
  BY DEF LevelOK
<1>2. /\ k \in LevelSet /\ k.reader = l.reader /\ k.known = l.known /\ k.ended = l.ended
      /\ k.open = l.open /\ k.probe = l.probe /\ k.told = l.told /\ k.queue = l.queue
      /\ k.members = l.members /\ k.entries = l.entries
  <2> HIDE DEF Outs
  <2> QED BY <1>1 DEF LevelSet
<1>3. Told(k)
  BY <1>2 DEF LevelOK, Told
<1>4. PICK g \in Nat :
        /\ Passed(l, g)
        /\ Follows(l.queue, l.open # "none", g, ~l.ended /\ Inside(l.reader), l.reader.made)
  BY DEF LevelOK
<1>5. Passed(k, g)
  BY <1>2, <1>4 DEF Passed
<1>6. Follows(k.queue, k.open # "none", g, ~k.ended /\ Inside(k.reader), k.reader.made)
  BY <1>2, <1>4
<1>7. /\ k.reader.out = <<>> /\ Formed(k.reader)
      /\ k.reader.format = "detect" => ~k.known /\ k.queue = <<>> /\ ~k.ended
      /\ k.reader.format # "detect" => Fresh(k.queue, k.known)
      /\ k.ended => k.input = 0
  BY <1>2 DEF LevelOK
<1>8. LevelOK(k)
  BY <1>2, <1>3, <1>5, <1>6, <1>7 DEF LevelOK
<1> QED BY <1>2, <1>8

LEMMA RoutedKeeps == ASSUME StackInv, NEW i, Routed(i) PROVE StackInv'
<1>1. Handling(i, "bytes") /\ AtWork(i)
  BY DEF Routed, Handling
<1>2. PICK l \in LevelSet : l = levels[i] /\ LevelOK(l) /\ i \in 1..Len(levels)
  BY <1>1, LevelAtWork
<1>3. PICK e : /\ e = l.queue[1] /\ e.is = "bytes" /\ l.queue # <<>>
               /\ Tail(l.queue) \in Seq(Events) /\ e = Head(l.queue)
  BY <1>1, <1>2, LevelHandling
<1>4. PICK n \in Nat : n = e.n
  BY <1>2, <1>3, FirstEvent
<1>5. l.open # "none" /\ l.known
  BY <1>2, <1>3, FirstEvent
<1>6. /\ levels' = CASE l.open = "none" -> Handled(i)
                     [] l.open = "nested" -> [Handled(i) EXCEPT ![i + 1].input = n]
                     [] l.open = "probing" -> [Handled(i) EXCEPT ![i].probe = @ + n]
                     [] l.open = "plain" -> [Handled(i) EXCEPT ![i].told = @ + n]
      /\ phase' = phase /\ ending' = ending /\ outer' = outer
  BY <1>2, <1>3, <1>4 DEF Routed
<1>7. i \in DOMAIN levels
  BY <1>1 DEF AtWork, Busy
<1>8. CASE l.open = "nested"
  <2>1. /\ \A j \in (i + 1)..Len(levels) : ~levels[j].ended
        /\ levels[Len(levels)].open # "nested"
    <3>1. levels[i].queue = <<>> \/ levels[i].queue[1].is # "end"
      BY <1>2, <1>3
    <3> QED BY <1>1, <3>1, NothingCloses
  <2>2. PICK c \in Nat : c = Len(levels) /\ levels \in Seq(LevelSet)
    BY <1>1, LevelAtWork
  <2>3. i # c /\ i + 1 \in (i + 1)..c /\ i + 1 \in 1..c /\ i \in 1..c /\ i + 1 # i
    <3>1. i # c
      BY <1>2, <1>8, <2>1, <2>2
    <3> QED BY <1>2, <2>2, <3>1
  <2>4. PICK m : m = levels[i + 1] /\ LevelOK(m) /\ ~m.ended
    <3>1. LevelOK(levels[i + 1])
      BY <1>1, <2>2, <2>3, LevelAtWork DEF StackInv, LevelsInv
    <3> QED BY <2>1, <2>2, <2>3, <3>1
  <2>5. PICK k, h : k = [l EXCEPT !.queue = Tail(@)] /\ h = [m EXCEPT !.input = n]
    OBVIOUS
  <2>6. /\ k \in LevelSet /\ k.reader = l.reader /\ k.queue = Tail(l.queue)
        /\ k.ended = l.ended /\ k.input = l.input /\ k.open = "nested" /\ k.known
        /\ k.told = l.told
    <3> HIDE DEF Outs
    <3> QED BY <1>3, <1>5, <1>8, <2>5 DEF LevelSet
  <2>7. LevelOK(k)
    <3>1. Told(k)
      BY <1>2, <1>8, <2>6 DEF LevelOK, Told
    <3>2. k.open # "none" <=> e.is \in {"start", "bytes"}
      BY <1>3, <2>6
    <3>3. \A g \in Nat : Passed(l, g) => Passed(k, IF e.is = "bytes" THEN g + e.n ELSE 0)
      BY <2>6 DEF Passed
    <3> QED BY <1>2, <1>3, <2>6, <3>1, <3>2, <3>3, WorkedOff
  <2>8. LevelOK(h) /\ h.open = m.open /\ ~h.ended /\ h \in LevelSet
    <3>1. LevelOK(h) /\ h.open = m.open /\ ~h.ended
      BY <2>4, <2>5, FedLevel
    <3> QED BY <3>1 DEF LevelOK
  <2>9. levels' = [[levels EXCEPT ![i] = k] EXCEPT ![i + 1] = h]
    <3>1. levels' = [Handled(i) EXCEPT ![i + 1].input = n]
      BY <1>6, <1>8
    <3>2. Handled(i) = [levels EXCEPT ![i] = k]
      BY <1>2, <2>5 DEF Handled
    <3>3. [levels EXCEPT ![i] = k][i + 1] = m
      <4>1. i + 1 \in DOMAIN levels
        BY <2>2, <2>3, LenProperties
      <4> QED BY <2>3, <2>4, <4>1
    <3> QED BY <2>5, <3>1, <3>2, <3>3
  <2>10. /\ levels' \in Seq(LevelSet) /\ Len(levels') = c /\ levels'[i] = k
         /\ levels'[i + 1] = h
         /\ \A j \in 1..c : j # i /\ j # i + 1 => levels'[j] = levels[j]
    <3> DEFINE v == [levels EXCEPT ![i] = k]
    <3>1. /\ v \in Seq(LevelSet) /\ Len(v) = c /\ v[i] = k
          /\ \A j \in 1..c : j # i => v[j] = levels[j]
      BY <2>2, <2>3, <2>6, ExceptSeq
    <3>2. levels' = [v EXCEPT ![i + 1] = h]
      BY <2>9
    <3> HIDE DEF v
    <3>3. /\ levels' \in Seq(LevelSet) /\ Len(levels') = c /\ levels'[i + 1] = h
          /\ \A j \in 1..c : j # i + 1 => levels'[j] = v[j]
      BY <2>3, <2>8, <3>1, <3>2, ExceptSeq
    <3> QED BY <2>3, <3>1, <3>3
  <2>11. \A j \in 1..c : LevelOK(levels'[j])
    <3>1. \A j \in 1..c : LevelOK(levels[j])
      BY <1>1, <2>2, LevelAtWork DEF StackInv, LevelsInv
    <3> QED BY <2>7, <2>8, <2>10, <3>1
  <2>12. \A j \in 1..(c - 1) : levels'[j].open = "nested" /\ j \in 1..c
    <3>1. \A j \in 1..(c - 1) : levels[j].open = "nested" /\ j \in 1..c
      BY <2>2 DEF StackInv, PathInv
    <3>2. \A j \in 1..(c - 1) : j = i + 1 => m.open = "nested"
      BY <2>4, <3>1
    <3> QED BY <2>6, <2>8, <2>10, <3>1, <3>2
  <2>13. \A j \in 1..c : levels'[j].ended => j <= i /\ levels[j].ended
    <3> TAKE j \in 1..c
    <3>1. CASE j = i
      BY <1>2, <2>6, <2>10, <3>1
    <3>2. CASE j = i + 1
      BY <2>8, <2>10, <3>2
    <3>3. CASE j # i /\ j # i + 1
      <4>1. j <= i \/ j \in (i + 1)..c
        BY <2>3
      <4> QED BY <2>1, <2>2, <2>10, <3>3, <4>1
    <3> QED BY <3>1, <3>2, <3>3
  <2>14. levels'[c].open # "nested"
    <3>1. c \in 1..c /\ c # i
      BY <2>3
    <3>2. levels[c].open # "nested" /\ (c = i + 1 => m.open # "nested")
      BY <2>1, <2>2, <2>4
    <3> QED BY <2>8, <2>10, <3>1, <3>2
  <2>15. levels'[1].known
    <3>1. i # 1 => levels[1].known /\ 1 \in 1..c /\ 1 # i + 1
      BY <1>1, <2>3, LevelAtWork
    <3> QED BY <2>6, <2>10, <3>1
  <2>16. \A j \in 1..c : j < i => levels'[j] = levels[j]
    <3>1. \A j \in 1..c : j < i => j # i /\ j # i + 1
      BY <2>3
    <3> QED BY <2>10, <3>1
  <2>17. phase = "run"
    BY <1>1 DEF AtWork
  <2> QED BY <1>6, <2>2, <2>3, <2>10, <2>11, <2>12, <2>13, <2>14, <2>15, <2>16, <2>17,
             StackKept
<1>9. CASE l.open = "probing" \/ l.open = "plain"
  <2>1. PICK k : \/ /\ l.open = "probing" /\ k = [l EXCEPT !.queue = Tail(@), !.probe = @ + n]
                 \/ /\ l.open = "plain" /\ k = [l EXCEPT !.queue = Tail(@), !.told = @ + n]
    BY <1>9
  <2>2. l.probe + n \in Nat /\ l.told + n \in Nat
    BY DEF LevelSet
  <2>3. /\ k \in LevelSet /\ k.reader = l.reader /\ k.queue = Tail(l.queue)
        /\ k.ended = l.ended /\ k.input = l.input /\ k.open = l.open /\ k.known
        /\ l.open = "probing" => k.probe = l.probe + n /\ k.told = l.told
        /\ l.open = "plain" => k.told = l.told + n
    <3> HIDE DEF Outs
    <3>1. CASE l.open = "probing"
      <4>1. k = [l EXCEPT !.queue = Tail(@), !.probe = @ + n]
        BY <2>1, <3>1
      <4> QED BY <1>3, <1>5, <2>2, <3>1, <4>1 DEF LevelSet
    <3>2. CASE l.open = "plain"
      <4>1. k = [l EXCEPT !.queue = Tail(@), !.told = @ + n]
        BY <2>1, <3>2
      <4> QED BY <1>3, <1>5, <2>2, <3>2, <4>1 DEF LevelSet
    <3> QED BY <1>9, <3>1, <3>2
  <2>4. LevelOK(k)
    <3>1. Told(k)
      BY <1>2, <1>9, <2>3 DEF LevelOK, Told
    <3>2. k.open # "none" <=> e.is \in {"start", "bytes"}
      BY <1>3, <1>5, <2>3
    <3>3. \A g \in Nat : Passed(l, g) => Passed(k, IF e.is = "bytes" THEN g + e.n ELSE 0)
      BY <1>3, <1>4, <1>9, <2>3 DEF Passed
    <3> QED BY <1>2, <1>3, <2>3, <3>1, <3>2, <3>3, WorkedOff
  <2>5. levels' = [levels EXCEPT ![i] = k]
    <3>1. CASE l.open = "probing"
      <4>1. levels' = [Handled(i) EXCEPT ![i].probe = @ + n]
        BY <1>6, <3>1
      <4>2. k = [l EXCEPT !.queue = Tail(@), !.probe = @ + n]
        BY <2>1, <3>1
      <4> QED BY <1>2, <1>7, <4>1, <4>2 DEF Handled
    <3>2. CASE l.open = "plain"
      <4>1. levels' = [Handled(i) EXCEPT ![i].told = @ + n]
        BY <1>6, <3>2
      <4>2. k = [l EXCEPT !.queue = Tail(@), !.told = @ + n]
        BY <2>1, <3>2
      <4> QED BY <1>2, <1>7, <4>1, <4>2 DEF Handled
    <3> QED BY <1>9, <3>1, <3>2
  <2>6. k.open = "nested" <=> l.open = "nested"
    BY <2>3
  <2>7. "bytes" # "end"
    OBVIOUS
  <2> QED BY <1>1, <1>2, <1>6, <2>3, <2>4, <2>5, <2>6, <2>7, HandledLevel
<1> QED BY <1>5, <1>8, <1>9 DEF LevelSet

(* A container that was recognised.                                         *)
LEMMA NewLevel ==
  ASSUME NEW format \in {"zip", "detect", "tar"}, NEW n \in Nat, NEW l, l = Level(format, n)
  PROVE  /\ LevelOK(l) /\ l.open = "none" /\ ~l.ended /\ l.told = 0
         /\ l.members = 0 /\ l.entries = 0 /\ (l.known <=> format # "detect")
<1>1. PICK r, w : r = Reader(format) /\ w = (format = "detect")
  OBVIOUS
<1>2. <<>> \in Seq(Events) /\ FALSE \in BOOLEAN /\ (format # "detect") \in BOOLEAN
  OBVIOUS
<1>3. /\ r \in Outs /\ r.out = <<>> /\ r.format = format /\ ~r.inside /\ r.made = 0
      /\ r.wrapped = w
  BY <1>1, <1>2 DEF Reader, Outs
<1>4. Formed(r) /\ ~Inside(r)
  BY <1>1, <1>3 DEF Formed, Inside
<1>5. /\ l \in LevelSet /\ l.reader = r /\ (l.known <=> format # "detect") /\ ~l.ended
      /\ l.open = "none" /\ l.told = 0 /\ l.members = 0 /\ l.entries = 0 /\ l.queue = <<>>
  <2> HIDE DEF Outs
  <2> QED BY <1>1, <1>2, <1>3 DEF Level, LevelSet
<1>6. Told(l) /\ Passed(l, 0)
  BY <1>5 DEF Told, Passed
<1>7. Follows(<<>>, FALSE, 0, FALSE, 0)
  BY <1>2, FollowsNothing
<1>8. Follows(l.queue, l.open # "none", 0, ~l.ended /\ Inside(l.reader), l.reader.made)
  <2>1. (l.open # "none") = FALSE /\ (~l.ended /\ Inside(l.reader)) = FALSE
    BY <1>4, <1>5
  <2> QED BY <1>3, <1>5, <1>7, <2>1
<1>9. /\ l.reader.format = "detect" => ~l.known /\ l.queue = <<>> /\ ~l.ended
      /\ l.reader.format # "detect" => Fresh(l.queue, l.known)
  BY <1>3, <1>5 DEF Fresh
<1>10. LevelOK(l)
  BY <1>3, <1>4, <1>5, <1>6, <1>8, <1>9 DEF LevelOK
<1> QED BY <1>5, <1>10

\* What a level becomes when its member is decided: nested h, or plain k.
Decided(l, m, h, k, n) ==
  /\ h = [m EXCEPT !.open = "nested", !.probe = 0]
  /\ LevelOK(h) /\ h.known /\ h.ended = l.ended
  /\ k = [m EXCEPT !.open = "plain", !.probe = 0, !.told = n]
  /\ LevelOK(k) /\ k.known /\ k.ended = l.ended

(* A member is decided upon, on the top level.                              *)
LEMMA DecideKeeps ==
  ASSUME StackInv, NEW i, AtWork(i), i = Len(levels), NEW l, l = levels[i],
         NEW m \in LevelSet, NEW lvls, lvls = [levels EXCEPT ![i] = m], NEW n \in Nat,
         NEW h, NEW k, Decided(l, m, h, k, n), Decide(lvls, i, n)
  PROVE  StackInv'
<1>0. /\ h = [m EXCEPT !.open = "nested", !.probe = 0]
      /\ LevelOK(h) /\ h.known /\ h.ended = l.ended
      /\ k = [m EXCEPT !.open = "plain", !.probe = 0, !.told = n]
      /\ LevelOK(k) /\ k.known /\ k.ended = l.ended
  BY DEF Decided
<1>1. PICK c \in Nat : /\ c = Len(levels) /\ levels \in Seq(LevelSet) /\ phase = "run"
                       /\ i = c /\ c \in 1..c
  BY LevelAtWork
<1>2. \A j \in (i + 1)..Len(levels) : ~levels[j].ended
  BY <1>1
<1>3. /\ lvls \in Seq(LevelSet) /\ Len(lvls) = c /\ lvls[i] = m
      /\ \A j \in 1..c : j # i => lvls[j] = levels[j]
  BY <1>1, ExceptSeq
<1>4. i \in DOMAIN levels
  BY DEF AtWork, Busy
<1>5. \A j \in 1..(c - 1) : levels[j].open = "nested" /\ j \in 1..c /\ j # i
  BY <1>1 DEF StackInv, PathInv
<1>6. CASE /\ levels' = [lvls EXCEPT ![i].open = "plain", ![i].probe = 0, ![i].told = n]
           /\ UNCHANGED <<phase, outer, ending, pushed>>
  <2>1. levels' = [levels EXCEPT ![i] = k]
    BY <1>0, <1>4, <1>6
  <2>2. k.open = "plain"
    <3> HIDE DEF Outs
    <3> QED BY <1>0 DEF LevelSet
  <2>3. IF i = Len(levels) THEN k.open # "nested" ELSE k.open = "nested"
    BY <2>2
  <2>4. i # Len(levels) => levels[Len(levels)].open # "nested"
    OBVIOUS
  <2>5. k.ended => levels[i].ended
    BY <1>0
  <2>6. i = 1 => k.known \/ heard' = <<>>
    BY <1>0
  <2>7. phase' = phase /\ ending' = ending /\ outer' = outer
    BY <1>6
  <2> QED BY <1>0, <1>2, <2>1, <2>3, <2>4, <2>5, <2>6, <2>7, OneLevel
<1>7. CASE Reject /\ levels' = lvls
  <2>1. \A j \in 1..(c - 1) : levels'[j].open = "nested"
    BY <1>3, <1>5, <1>7
  <2> QED BY <1>1, <1>3, <1>7, <2>1, RejectKeeps
<1>8. ASSUME NEW format \in Formats(n), ~(Len(lvls) >= MaxDepth),
             levels' = Append([lvls EXCEPT ![i].open = "nested", ![i].probe = 0],
                              Level(format, n)),
             UNCHANGED <<phase, outer, ending, pushed>>
      PROVE  StackInv'
  <2>1. format \in {"zip", "detect", "tar"}
    BY DEF Formats
  <2> DEFINE v == [levels EXCEPT ![i] = h]
  <2>2. PICK t : t = Level(format, n)
    OBVIOUS
  <2>3. LevelOK(t) /\ t.open = "none" /\ ~t.ended /\ t \in LevelSet
    <3>1. LevelOK(t) /\ t.open = "none" /\ ~t.ended
      BY <2>1, <2>2, NewLevel
    <3> QED BY <3>1 DEF LevelOK
  <2>4. levels' = Append(v, t)
    BY <1>0, <1>4, <1>8, <2>2
  <2>5. h \in LevelSet /\ h.open = "nested"
    <3> HIDE DEF Outs
    <3> QED BY <1>0 DEF LevelSet
  <2>6. /\ v \in Seq(LevelSet) /\ Len(v) = c /\ v[i] = h
        /\ \A j \in 1..c : j # i => v[j] = levels[j]
    BY <1>1, <2>5, ExceptSeq
  <2> HIDE DEF v
  <2>7. /\ levels' \in Seq(LevelSet) /\ Len(levels') = c + 1 /\ levels'[c + 1] = t
        /\ \A j \in 1..c : levels'[j] = v[j]
    BY <2>3, <2>4, <2>6, AppendProperties
  <2>8. /\ levels' \in Seq(LevelSet) /\ Len(levels') = c + 1 /\ levels'[c + 1] = t
        /\ levels'[c] = h /\ \A j \in 1..c : j # c => levels'[j] = levels[j]
    BY <1>1, <2>6, <2>7
  <2>9. PathInv'
    <3>1. c + 1 <= MaxDepth
      BY <1>3, <1>8, DecomposerAssumption
    <3>2. \A j \in 1..c : levels'[j].open = "nested"
      <4>1. \A j \in 1..c : j = c \/ j \in 1..(c - 1)
        OBVIOUS
      <4> QED BY <1>5, <1>1, <2>5, <2>8, <4>1
    <3>3. (c + 1) - 1 = c
      OBVIOUS
    <3> QED BY <2>8, <3>1, <3>2, <3>3 DEF PathInv
  <2>10. \A j \in 1..(c + 1) : j \in 1..c \/ j = c + 1
    OBVIOUS
  <2>11. LevelsInv'
    <3>1. \A j \in 1..c : LevelOK(levels[j])
      BY <1>1 DEF StackInv, LevelsInv
    <3> QED BY <1>0, <2>3, <2>8, <2>10, <3>1 DEF LevelsInv
  <2>12. ASSUME NEW j \in 1..(c + 1), levels'[j].ended PROVE Quiet(j - 1)'
    <3>1. j \in 1..c /\ levels[j].ended
      BY <1>0, <1>1, <2>3, <2>8, <2>10, <2>12
    <3>2. Quiet(j - 1)
      BY <1>1, <3>1 DEF StackInv, ClosingInv
    <3>3. j - 1 \in Nat /\ \A a \in 1..(j - 1) : a \in 1..c /\ a # c
      BY <3>1
    <3>4. \A a \in 1..(j - 1) : levels'[a] = levels[a]
      BY <2>8, <3>3
    <3> QED BY <1>8, <3>2, <3>3, <3>4, QuietKept
  <2>13. ClosingInv'
    BY <2>3, <2>8, <2>12 DEF ClosingInv
  <2>14. HeardInv'
    <3>1. levels' # <<>>
      BY <2>8, EmptySeq
    <3>2. levels'[1].known
      <4>1. c = 1 \/ (levels[1].known /\ 1 \in 1..c /\ 1 # c)
        BY <1>1, LevelAtWork
      <4> QED BY <1>0, <2>8, <4>1
    <3> QED BY <3>1, <3>2 DEF HeardInv
  <2>15. outer' \in Nat /\ phase' = "run"
    BY <1>1, <1>8 DEF StackInv
  <2> QED BY <2>9, <2>11, <2>13, <2>14, <2>15 DEF StackInv
<1> QED
  <2>1. CASE \E format \in Formats(n) :
               IF Len(lvls) >= MaxDepth THEN Reject /\ levels' = lvls
               ELSE /\ levels' = Append([lvls EXCEPT ![i].open = "nested", ![i].probe = 0],
                                        Level(format, n))
                    /\ heard' = <<MemberStart(TRUE, i - 1)>> \o ContainerStart(format, i)
                    /\ UNCHANGED <<phase, outer, ending, pushed>>
    <3>1. CASE Len(lvls) >= MaxDepth
      BY <1>7, <2>1, <3>1
    <3>2. CASE ~(Len(lvls) >= MaxDepth)
      BY <1>8, <2>1, <3>2
    <3> QED BY <3>1, <3>2
  <2> QED BY <1>6, <2>1 DEF Decide

LEMMA DecidedByProbeKeeps == ASSUME StackInv, NEW i, DecidedByProbe(i) PROVE StackInv'
<1>1. Handling(i, "bytes") /\ AtWork(i)
  BY DEF DecidedByProbe, Handling
<1>2. PICK l \in LevelSet : /\ l = levels[i] /\ LevelOK(l) /\ i \in 1..Len(levels)
                            /\ l.open = "probing"
  BY <1>1, LevelAtWork DEF DecidedByProbe
<1>3. PICK e : /\ e = l.queue[1] /\ e.is = "bytes" /\ l.queue # <<>>
               /\ Tail(l.queue) \in Seq(Events) /\ e = Head(l.queue)
  BY <1>1, <1>2, LevelHandling
<1>4. l.known /\ e.n \in Nat
  BY <1>2, <1>3, FirstEvent
<1>5. i = Len(levels)
  <2>1. i # Len(levels) => l.open = "nested"
    BY <1>1, <1>2, LevelAtWork
  <2> QED BY <1>2, <2>1
<1>6. PICK n \in Nat : n = l.probe + e.n
  <2>1. l.probe + e.n \in Nat
    BY <1>4 DEF LevelSet
  <2> QED BY <2>1
<1>7. PICK m : m = [l EXCEPT !.queue = Tail(@)]
  OBVIOUS
<1>8. PICK h, k : /\ h = [m EXCEPT !.open = "nested", !.probe = 0]
                  /\ k = [m EXCEPT !.open = "plain", !.probe = 0, !.told = n]
  OBVIOUS
<1>9. PICK lvls : lvls = [levels EXCEPT ![i] = m]
  OBVIOUS
<1>10. Decide(lvls, i, n)
  <2>1. lvls = Handled(i)
    BY <1>2, <1>7, <1>9 DEF Handled
  <2> QED BY <1>2, <1>3, <1>6, <2>1 DEF DecidedByProbe
<1>11. /\ m \in LevelSet /\ m.reader = l.reader /\ m.queue = Tail(l.queue) /\ m.told = l.told
       /\ m.ended = l.ended /\ m.input = l.input /\ m.known
  <2> HIDE DEF Outs
  <2> QED BY <1>3, <1>4, <1>7 DEF LevelSet
<1>12. /\ h \in LevelSet /\ h.reader = l.reader /\ h.queue = Tail(l.queue)
       /\ h.ended = l.ended /\ h.input = l.input /\ h.open = "nested" /\ h.known
       /\ h.told = l.told
  <2> HIDE DEF Outs
  <2> QED BY <1>8, <1>11 DEF LevelSet
<1>13. /\ k \in LevelSet /\ k.reader = l.reader /\ k.queue = Tail(l.queue)
       /\ k.ended = l.ended /\ k.input = l.input /\ k.open = "plain" /\ k.known
       /\ k.told = n
  <2> HIDE DEF Outs
  <2> QED BY <1>8, <1>11 DEF LevelSet
<1>14. LevelOK(h)
  <2>1. Told(h)
    BY <1>2, <1>12 DEF LevelOK, Told
  <2>2. h.open # "none" <=> e.is \in {"start", "bytes"}
    BY <1>3, <1>12
  <2>3. \A g \in Nat : Passed(l, g) => Passed(h, IF e.is = "bytes" THEN g + e.n ELSE 0)
    BY <1>12 DEF Passed
  <2> QED BY <1>2, <1>3, <1>12, <2>1, <2>2, <2>3, WorkedOff
<1>15. LevelOK(k)
  <2>1. Told(k)
    BY <1>13 DEF Told
  <2>2. k.open # "none" <=> e.is \in {"start", "bytes"}
    BY <1>3, <1>13
  <2>3. \A g \in Nat : Passed(l, g) => Passed(k, IF e.is = "bytes" THEN g + e.n ELSE 0)
    BY <1>2, <1>3, <1>6, <1>13 DEF Passed
  <2> QED BY <1>2, <1>3, <1>13, <2>1, <2>2, <2>3, WorkedOff
<1>16. Decided(l, m, h, k, n)
  BY <1>8, <1>12, <1>13, <1>14, <1>15 DEF Decided
<1> QED BY <1>1, <1>2, <1>5, <1>9, <1>10, <1>11, <1>16, DecideKeeps

LEMMA DecidedAtEndKeeps == ASSUME StackInv, NEW i, DecidedAtEnd(i) PROVE StackInv'
<1>1. Handling(i, "end") /\ AtWork(i)
  BY DEF DecidedAtEnd, Handling
<1>2. PICK l \in LevelSet : /\ l = levels[i] /\ LevelOK(l) /\ i \in 1..Len(levels)
                            /\ l.open = "probing"
  BY <1>1, LevelAtWork DEF DecidedAtEnd
<1>3. PICK e : e = l.queue[1] /\ e.is = "end" /\ l.queue # <<>>
  BY <1>1, <1>2, LevelHandling
<1>4. /\ l.known /\ l.reader.format # "detect"
      /\ l.known = TRUE
  <2>1. l.known /\ l.reader.format # "detect"
    BY <1>2, <1>3, FirstEvent
  <2> QED BY <2>1 DEF LevelSet
<1>5. i = Len(levels)
  <2>1. i # Len(levels) => l.open = "nested"
    BY <1>1, <1>2, LevelAtWork
  <2> QED BY <1>2, <2>1
<1>6. PICK n \in Nat : n = l.probe
  BY DEF LevelSet
<1>7. PICK h, k : /\ h = [l EXCEPT !.open = "nested", !.probe = 0]
                  /\ k = [l EXCEPT !.open = "plain", !.probe = 0, !.told = n]
  OBVIOUS
<1>8. PICK lvls : lvls = [levels EXCEPT ![i] = l]
  OBVIOUS
<1>9. Decide(lvls, i, n)
  <2>1. levels \in Seq(LevelSet)
    BY DEF StackInv, PathInv
  <2>2. lvls = levels
    BY <1>2, <1>8, <2>1
  <2> QED BY <1>2, <1>6, <2>2 DEF DecidedAtEnd
<1>10. PICK g \in Nat :
         /\ Passed(l, g)
         /\ Follows(l.queue, l.open # "none", g, ~l.ended /\ Inside(l.reader), l.reader.made)
  BY <1>2 DEF LevelOK
<1>11. g = n
  BY <1>2, <1>6, <1>10 DEF Passed
<1>12. ASSUME NEW k0 \in LevelSet, k0.reader = l.reader, k0.queue = l.queue,
              k0.ended = l.ended, k0.input = l.input, k0.open # "none", k0.known = l.known,
              Told(k0), Passed(k0, n)
       PROVE  LevelOK(k0)
  <2>1. Follows(k0.queue, k0.open # "none", g, ~k0.ended /\ Inside(k0.reader), k0.reader.made)
    <3>1. (k0.open # "none") = (l.open # "none")
      BY <1>2, <1>12
    <3> QED BY <1>10, <1>12, <3>1
  <2>2. /\ k0.reader.out = <<>> /\ Formed(k0.reader) /\ k0.reader.format # "detect"
        /\ Fresh(k0.queue, k0.known) /\ (k0.ended => k0.input = 0)
    BY <1>2, <1>4, <1>12 DEF LevelOK
  <2> QED BY <1>11, <1>12, <2>1, <2>2 DEF LevelOK
<1>13. /\ h \in LevelSet /\ h.reader = l.reader /\ h.queue = l.queue
       /\ h.ended = l.ended /\ h.input = l.input /\ h.open = "nested" /\ h.known = l.known
       /\ h.told = l.told
  <2> HIDE DEF Outs
  <2> QED BY <1>7 DEF LevelSet
<1>14. /\ k \in LevelSet /\ k.reader = l.reader /\ k.queue = l.queue
       /\ k.ended = l.ended /\ k.input = l.input /\ k.open = "plain" /\ k.known = l.known
       /\ k.told = n
  <2> HIDE DEF Outs
  <2> QED BY <1>7 DEF LevelSet
<1>15. LevelOK(h)
  <2>1. Told(h) /\ Passed(h, n) /\ h.open # "none"
    BY <1>2, <1>4, <1>13 DEF LevelOK, Told, Passed
  <2> QED BY <1>12, <1>13, <2>1
<1>16. LevelOK(k)
  <2>1. Told(k) /\ Passed(k, n) /\ k.open # "none"
    BY <1>4, <1>14 DEF Told, Passed
  <2> QED BY <1>12, <1>14, <2>1
<1>17. h.known /\ k.known
  BY <1>4, <1>13, <1>14
<1>18. Decided(l, l, h, k, n)
  BY <1>7, <1>13, <1>14, <1>15, <1>16, <1>17 DEF Decided
<1> QED BY <1>1, <1>2, <1>5, <1>8, <1>9, <1>18, DecideKeeps

LEMMA ClosedKeeps == ASSUME StackInv, NEW i, Closed(i) PROVE StackInv'
<1>1. Handling(i, "end") /\ AtWork(i)
  BY DEF Closed, Handling
<1>2. PICK l \in LevelSet : /\ l = levels[i] /\ LevelOK(l) /\ i \in 1..Len(levels)
                            /\ l.open # "probing" /\ (l.open = "nested" => i = Len(levels))
  BY <1>1, LevelAtWork DEF Closed
<1>3. PICK e : /\ e = l.queue[1] /\ e.is = "end" /\ l.queue # <<>>
               /\ Tail(l.queue) \in Seq(Events)
  BY <1>1, <1>2, LevelHandling
<1>4. l.known /\ l.open # "none"
  BY <1>2, <1>3, FirstEvent
<1>5. i = Len(levels)
  <2>1. i # Len(levels) => l.open = "nested"
    BY <1>1, <1>2, LevelAtWork
  <2> QED BY <1>2, <2>1
<1>6. PICK k : k = [l EXCEPT !.queue = Tail(@), !.open = "none", !.told = 0, !.members = @ + 1]
  OBVIOUS
<1>7. /\ k \in LevelSet /\ k.reader = l.reader /\ k.queue = Tail(l.queue)
      /\ k.ended = l.ended /\ k.input = l.input /\ k.open = "none" /\ k.known
      /\ k.told = 0
  <2>1. l.members + 1 \in Nat
    BY DEF LevelSet
  <2> HIDE DEF Outs
  <2> QED BY <1>3, <1>4, <1>6, <2>1 DEF LevelSet
<1>8. LevelOK(k)
  <2>1. Told(k)
    BY <1>7 DEF Told
  <2>2. k.open # "none" <=> e.is \in {"start", "bytes"}
    BY <1>3, <1>7
  <2>3. \A g \in Nat : Passed(l, g) => Passed(k, IF e.is = "bytes" THEN g + e.n ELSE 0)
    BY <1>7 DEF Passed
  <2> QED BY <1>2, <1>3, <1>7, <2>1, <2>2, <2>3, WorkedOff
<1>9. levels' = [levels EXCEPT ![i] = k]
  <2>1. levels' = [Handled(i) EXCEPT ![i].open = "none", ![i].told = 0, ![i].members = @ + 1]
    BY <1>2, <1>4 DEF Closed
  <2>2. i \in DOMAIN levels
    BY <1>1 DEF AtWork, Busy
  <2> QED BY <1>2, <1>6, <2>1, <2>2 DEF Handled
<1>10. phase' = phase /\ ending' = ending /\ outer' = outer
  BY DEF Closed
<1>11. \A j \in (i + 1)..Len(levels) : ~levels[j].ended
  <2>1. PICK c \in Nat : c = Len(levels) /\ i = c
    BY <1>1, <1>5, LevelAtWork
  <2> QED BY <2>1
<1>12. IF i = Len(levels) THEN k.open # "nested" ELSE k.open = "nested"
  BY <1>5, <1>7
<1>13. i # Len(levels) => levels[Len(levels)].open # "nested"
  BY <1>5
<1>14. k.ended => levels[i].ended
  BY <1>2, <1>7
<1>15. i = 1 => k.known \/ heard' = <<>>
  BY <1>7
<1> QED BY <1>1, <1>8, <1>9, <1>10, <1>11, <1>12, <1>13, <1>14, <1>15, OneLevel

(* No level has work.                                                       *)
LEMMA Resting ==
  ASSUME StackInv, phase = "run", Busy = {}
  PROVE  /\ levels \in Seq(LevelSet) /\ Len(levels) \in Nat
         /\ \A j \in 1..Len(levels) :
              /\ levels[j].queue = <<>> /\ levels[j].input = 0 /\ LevelOK(levels[j])
              /\ ~ending => ~levels[j].ended
         /\ ~ending => levels # <<>> /\ levels[Len(levels)].open # "nested"
<1>1. PICK n \in Nat : n = Len(levels) /\ levels \in Seq(LevelSet)
  BY LenProperties DEF StackInv, PathInv
<1>2. DOMAIN levels = 1..n
  BY <1>1, LenProperties
<1>3. \A j \in 1..n : LevelOK(levels[j])
  BY <1>1 DEF StackInv, LevelsInv
<1>4. \A j \in 1..n : levels[j].queue = <<>> /\ levels[j].input = 0
  <2> TAKE j \in 1..n
  <2>1. levels[j].input \in Nat
    BY <1>3 DEF LevelOK, LevelSet
  <2> QED BY <1>2, <2>1 DEF Busy
<1>5. ASSUME ~ending, NEW j \in 0..n, Quiet(j) PROVE FALSE
  <2>1. PICK m \in 0..j :
          IF m = 0 THEN ending ELSE levels[m].queue # <<>> /\ levels[m].queue[1].is = "end"
    BY <1>5 DEF Quiet
  <2>2. m # 0 => m \in 1..n
    OBVIOUS
  <2> QED BY <1>4, <1>5, <2>1, <2>2
<1>6. ASSUME ~ending, NEW j \in 1..n PROVE ~levels[j].ended
  <2>1. levels[j].ended => Quiet(j - 1)
    BY <1>1 DEF StackInv, ClosingInv
  <2>2. j - 1 \in 0..n
    OBVIOUS
  <2> QED BY <1>5, <1>6, <2>1, <2>2
<1>7. ASSUME ~ending PROVE levels # <<>> /\ levels[n].open # "nested"
  <2>1. levels # <<>>
    BY <1>7 DEF StackInv, HeardInv
  <2>2. levels[n].open = "nested" => Quiet(n)
    BY <1>1, <2>1 DEF StackInv, ClosingInv
  <2>3. n \in 0..n
    OBVIOUS
  <2> QED BY <1>5, <1>7, <2>1, <2>2, <2>3
<1> QED BY <1>1, <1>3, <1>4, <1>6, <1>7

(* A level is being closed.                                                 *)
LEMMA ClosingTop ==
  ASSUME StackInv, Finishing
  PROVE  /\ phase = "run" /\ levels \in Seq(LevelSet) /\ Len(levels) \in Nat /\ levels # <<>>
         /\ Len(levels) \in 1..Len(levels)
         /\ levels[Len(levels)].queue = <<>> /\ levels[Len(levels)].input = 0
         /\ LevelOK(levels[Len(levels)]) /\ Quiet(Len(levels) - 1)
         /\ Len(levels) = 1 => ending
<1>1. phase = "run" /\ levels # <<>>
  BY DEF Finishing
<1>2. PICK n \in Nat : n = Len(levels) /\ levels \in Seq(LevelSet) /\ n \in 1..n
  <2>1. levels \in Seq(LevelSet) /\ Len(levels) \in Nat
    BY LenProperties DEF StackInv, PathInv
  <2>2. Len(levels) # 0
    BY <1>1, <2>1, EmptySeq
  <2> QED BY <2>1, <2>2
<1>3. LevelOK(levels[n])
  BY <1>1, <1>2 DEF StackInv, LevelsInv
<1>4. CASE ending /\ Busy = {}
  <2>1. \A j \in 1..n : levels[j].queue = <<>> /\ levels[j].input = 0
    BY <1>1, <1>2, <1>4, Resting
  <2>2. Quiet(n - 1)
    <3>1. 0 \in 0..(n - 1) /\ \A k \in (0 + 1)..(n - 1) : k \in 1..n
      BY <1>2
    <3> QED BY <1>4, <2>1, <3>1 DEF Quiet
  <2> QED BY <1>1, <1>2, <1>3, <1>4, <2>1, <2>2
<1>5. ASSUME NEW i \in 1..(n - 1), Handling(i, "end")
      PROVE  /\ levels[n].queue = <<>> /\ levels[n].input = 0 /\ Quiet(n - 1) /\ n # 1
  <2>1. AtWork(i) /\ levels[i].queue # <<>> /\ levels[i].queue[1].is = "end"
    BY <1>5, LevelHandling
  <2>2. \A j \in (i + 1)..n : levels[j].queue = <<>> /\ levels[j].input = 0
    BY <1>2, <2>1, LevelAtWork
  <2>3. /\ n \in (i + 1)..n /\ n # 1 /\ i \in 0..(n - 1) /\ i # 0
        /\ \A k \in (i + 1)..(n - 1) : k \in (i + 1)..n
    BY <1>2
  <2>4. Quiet(n - 1)
    BY <2>1, <2>2, <2>3 DEF Quiet
  <2> QED BY <2>2, <2>3, <2>4
<1>6. (\E i \in 1..(n - 1) : Handling(i, "end")) \/ (ending /\ Busy = {})
  BY <1>2 DEF Finishing
<1> QED BY <1>1, <1>2, <1>3, <1>4, <1>5, <1>6

(* The end of a reader's bytes closes the member that is open.              *)
LEMMA FinishedEnds ==
  ASSUME NEW l, LevelOK(l), l.queue = <<>>, ~l.ended, NEW s \in ReaderFinish(l.reader),
         l.open = "nested"
  PROVE  s.out # <<>> /\ s.out[1].is = "end"
<1>1. PICK r \in Outs : r = l.reader /\ r.out = <<>> /\ r.format # "detect" /\ Inside(r)
  <2>1. /\ l.reader \in Outs /\ l.reader.out = <<>> /\ l.reader.format # "detect"
        /\ Inside(l.reader)
    BY WaitingLevel
  <2> QED BY <2>1
<1>2. PICK t : /\ t \in {r} /\ ~t.inside
               /\ s = [t EXCEPT !.out = IF t.format = "single" THEN Append(@, End(t.made)) ELSE @]
  BY <1>1 DEF ReaderFinish
<1>3. t = r /\ t.format = "single"
  BY <1>1, <1>2 DEF Inside
<1> DEFINE e == End(r.made)
<1>4. e \in Events /\ e.is = "end"
  BY EventTypes DEF Outs
<1>5. s.out = Append(<<>>, e)
  BY <1>1, <1>2, <1>3 DEF Outs
<1>6. <<>> \in Seq(Events) /\ Len(<<>>) = 0 /\ 0 + 1 = 1
  OBVIOUS
<1> HIDE DEF e
<1>7. Append(<<>>, e) # <<>> /\ Append(<<>>, e)[0 + 1] = e
  BY <1>4, <1>6, OneMoreEvent
<1> QED BY <1>4, <1>5, <1>6, <1>7

LEMMA FinishTopKeeps == ASSUME StackInv, FinishTop PROVE StackInv'
<1>1. PICK n \in Nat : /\ n = Len(levels) /\ n \in 1..n /\ levels \in Seq(LevelSet)
                       /\ levels # <<>> /\ phase = "run"
  BY ClosingTop DEF FinishTop
<1>2. PICK l \in LevelSet : /\ l = levels[n] /\ LevelOK(l) /\ l.queue = <<>> /\ l.input = 0
                            /\ ~l.ended
  <2>1. /\ LevelOK(levels[n]) /\ levels[n].queue = <<>> /\ levels[n].input = 0
        /\ ~levels[n].ended
    BY <1>1, ClosingTop DEF FinishTop
  <2>2. levels[n] \in LevelSet
    BY <2>1 DEF LevelOK
  <2> QED BY <2>1, <2>2
<1>3. Quiet(n - 1)
  BY <1>1, ClosingTop DEF FinishTop
<1>4. CASE Reject /\ UNCHANGED levels
  BY <1>4, RejectInPlace
<1>5. ASSUME NEW s \in ReaderFinish(l.reader),
             levels' = [levels EXCEPT ![n].reader = [s EXCEPT !.out = <<>>],
                                      ![n].queue = s.out, ![n].ended = TRUE],
             UNCHANGED <<phase, outer, ending, pushed, heard>>
      PROVE  StackInv'
  <2>1. Filled(l, s, TRUE)
    BY <1>2, FinishedFilled
  <2>2. PICK r, k : /\ r = [s EXCEPT !.out = <<>>]
                    /\ k = [l EXCEPT !.reader = r, !.queue = s.out, !.ended = TRUE]
    OBVIOUS
  <2>3. LevelOK(k) /\ k.open = l.open /\ k.known = l.known /\ k.queue = s.out
    <3>1. s \in Outs
      BY <2>1 DEF Filled
    <3>2. /\ r \in Outs /\ r.out = <<>> /\ r.format = s.format /\ r.wrapped = s.wrapped
          /\ r.inside = s.inside /\ r.made = s.made /\ s.out \in Seq(Events)
      BY <2>2, <3>1, TakenLevel
    <3>3. /\ k \in LevelSet /\ k.reader = r /\ k.queue = s.out /\ k.open = l.open
          /\ k.known = l.known /\ k.told = l.told /\ k.probe = l.probe
          /\ k.members = l.members /\ k.entries = l.entries /\ k.ended = TRUE
          /\ k.input = l.input
      <4> HIDE DEF Outs
      <4> QED BY <2>2, <3>2 DEF LevelSet
    <3>4. Filled(l, s, k.ended) /\ (k.ended => k.input = 0)
      BY <1>2, <2>1, <3>3
    <3>5. LevelOK(k)
      BY <1>2, <3>2, <3>3, <3>4, FilledLevel
    <3> QED BY <3>3, <3>5
  <2>4. levels' = [levels EXCEPT ![n] = k]
    BY <1>1, <1>2, <1>5, <2>2
  <2>5. /\ levels' \in Seq(LevelSet) /\ Len(levels') = n /\ levels'[n] = k
        /\ \A j \in 1..n : j # n => levels'[j] = levels[j]
    <3>1. k \in LevelSet
      BY <2>3 DEF LevelOK
    <3> QED BY <1>1, <2>4, <3>1, ExceptSeq
  <2>6. \A j \in 1..(n - 1) : j \in 1..n /\ j # n /\ levels[j].open = "nested"
    BY <1>1 DEF StackInv, PathInv
  <2>7. PathInv'
    <3>1. \A j \in 1..(n - 1) : levels'[j].open = "nested"
      BY <2>5, <2>6
    <3>2. n <= MaxDepth
      BY <1>1 DEF StackInv, PathInv
    <3> QED BY <2>5, <3>1, <3>2 DEF PathInv
  <2>8. LevelsInv'
    <3>1. \A j \in 1..n : LevelOK(levels[j])
      BY <1>1 DEF StackInv, LevelsInv
    <3> QED BY <2>3, <2>5, <3>1 DEF LevelsInv
  <2>9. ASSUME NEW j \in 1..n, levels'[j].ended PROVE Quiet(j - 1)'
    <3>1. Quiet(j - 1)
      <4>1. CASE j = n
        BY <1>3, <4>1
      <4>2. CASE j # n
        <5>1. levels[j].ended
          BY <2>5, <2>9, <4>2
        <5> QED BY <1>1, <5>1 DEF StackInv, ClosingInv
      <4> QED BY <4>1, <4>2
    <3>2. j - 1 \in Nat /\ \A a \in 1..(j - 1) : a \in 1..n /\ a # n
      OBVIOUS
    <3>3. \A a \in 1..(j - 1) : levels'[a] = levels[a]
      BY <2>5, <3>2
    <3>4. ending => ending'
      BY <1>5
    <3> QED BY <3>1, <3>2, <3>3, <3>4, QuietKept
  <2>10. ASSUME levels'[n].open = "nested" PROVE Quiet(n)'
    <3>1. s.out # <<>> /\ s.out[1].is = "end"
      <4>1. l.open = "nested"
        BY <2>3, <2>5, <2>10
      <4> QED BY <1>2, <4>1, FinishedEnds
    <3>2. n \in 0..n /\ n # 0 /\ (n + 1)..n = {}
      BY <1>1
    <3>3. levels'[n].queue # <<>> /\ levels'[n].queue[1].is = "end"
      BY <2>3, <2>5, <3>1
    <3> QED BY <3>2, <3>3 DEF Quiet
  <2>11. levels' # <<>>
    BY <1>1, <2>5, EmptySeq
  <2>12. ClosingInv'
    BY <2>5, <2>9, <2>10 DEF ClosingInv
  <2>13. HeardInv'
    <3>1. 1 \in 1..n /\ levels'[1].known = levels[1].known
      BY <1>1, <1>2, <2>3, <2>5
    <3>2. ~levels[1].known => heard = <<>>
      BY <1>1 DEF StackInv, HeardInv
    <3> QED BY <1>5, <2>11, <3>1, <3>2 DEF HeardInv
  <2> QED BY <1>1, <1>5, <2>7, <2>8, <2>12, <2>13 DEF StackInv
<1>6. \/ /\ \E s \in ReaderFinish(l.reader) :
              levels' = [levels EXCEPT ![n].reader = [s EXCEPT !.out = <<>>],
                                       ![n].queue = s.out, ![n].ended = TRUE]
         /\ UNCHANGED <<phase, outer, ending, pushed, heard>>
      \/ Reject /\ UNCHANGED levels
  BY <1>1, <1>2 DEF FinishTop
<1> QED BY <1>4, <1>5, <1>6

(* The events of a level that is popped were whole members.                 *)
LEMMA PoppedLevel ==
  ASSUME NEW l, LevelOK(l), l.queue = <<>>, l.ended
  PROVE  l.open = "none" /\ l.known
<1>1. PICK g \in Nat :
        Follows(l.queue, l.open # "none", g, ~l.ended /\ Inside(l.reader), l.reader.made)
  BY DEF LevelOK
<1>2. Len(<<>>) = 0 /\ 0 + 1 = 1
  OBVIOUS
<1>3. l.open = "none"
  BY <1>1, <1>2 DEF Follows, Before
<1>4. l.reader.format # "detect" /\ Fresh(l.queue, l.known)
  BY DEF LevelOK
<1>5. l.known
  BY <1>4 DEF Fresh
<1> QED BY <1>3, <1>5

LEMMA PopTopKeeps == ASSUME StackInv, PopTop PROVE StackInv'
<1>1. PICK n \in Nat : /\ n = Len(levels) /\ n \in 1..n /\ levels \in Seq(LevelSet)
                       /\ levels # <<>> /\ phase = "run"
  BY ClosingTop DEF PopTop
<1>2. Quiet(n - 1) /\ (n = 1 => ending)
  BY <1>1, ClosingTop DEF PopTop
<1>3. levels' = SubSeq(levels, 1, n - 1)
  BY <1>1 DEF PopTop
<1>4. PICK m \in Nat : m = n - 1 /\ m + 1 = n
  BY <1>1
<1>5. /\ levels' \in Seq(LevelSet) /\ Len(levels') = m
      /\ \A j \in 1..m : levels'[j] = levels[j] /\ j \in 1..n
  <2>1. \A j \in 1..m : j \in 1..n
    BY <1>4
  <2>2. levels' \in Seq(LevelSet) /\ Len(levels') = m /\ \A j \in 1..m : levels'[j] = levels[j]
    <3>1. 1 \in Nat /\ m \in Nat /\ \A j \in 1..m : levels[j] \in LevelSet
      BY <1>1, <2>1, ElementOfSeq
    <3>2. levels' = SubSeq(levels, 1, m)
      BY <1>3, <1>4
    <3> QED BY <1>1, <3>1, <3>2, <2>1, SubSeqProperties, LenProperties
  <2> QED BY <2>1, <2>2
<1>6. \A j \in 1..m : levels[j].open = "nested"
  BY <1>1, <1>4 DEF StackInv, PathInv
<1>7. \A j \in 1..(m - 1) : levels'[j].open = "nested"
  <2>1. \A j \in 1..(m - 1) : j \in 1..m
    OBVIOUS
  <2> QED BY <1>5, <1>6, <2>1
<1>8. CASE Reject
  <2>1. m <= Len(levels)
    BY <1>1, <1>4
  <2> QED BY <1>5, <1>7, <1>8, <2>1, RejectKeeps
<1>9. ASSUME heard' = <<[call |-> "container_end", members |-> levels[n].members,
                         entries |-> levels[n].entries, depth |-> n - 1]>>,
             UNCHANGED <<phase, outer, ending, pushed>>
      PROVE  StackInv'
  <2>1. PathInv'
    <3>1. m <= MaxDepth
      BY <1>1, <1>4, DecomposerAssumption DEF StackInv, PathInv
    <3> QED BY <1>5, <1>7, <3>1 DEF PathInv
  <2>2. LevelsInv'
    <3>1. \A j \in 1..n : LevelOK(levels[j])
      BY <1>1 DEF StackInv, LevelsInv
    <3> QED BY <1>5, <3>1 DEF LevelsInv
  <2>3. ASSUME NEW j \in 0..m, Quiet(j) PROVE Quiet(j)'
    <3>1. j \in Nat /\ \A k \in 1..j : k \in 1..m
      OBVIOUS
    <3> QED BY <1>5, <1>9, <2>3, <3>1, QuietKept
  <2>4. ASSUME NEW j \in 1..m, levels'[j].ended PROVE Quiet(j - 1)'
    <3>1. Quiet(j - 1) /\ j - 1 \in 0..m
      BY <1>1, <1>5, <2>4 DEF StackInv, ClosingInv
    <3> QED BY <2>3, <3>1
  <2>5. Quiet(m)'
    BY <1>2, <1>4, <2>3
  <2>6. ClosingInv'
    BY <1>5, <2>4, <2>5 DEF ClosingInv
  <2>7. HeardInv'
    <3>1. CASE m = 0
      <4>1. heard' # <<>> /\ ending'
        BY <1>2, <1>4, <1>9, <3>1
      <4>2. levels' = <<>>
        BY <1>5, <3>1, EmptySeq
      <4> QED BY <4>1, <4>2 DEF HeardInv
    <3>2. CASE m # 0
      <4>1. 1 \in 1..m
        BY <3>2
      <4>2. levels[1].open = "nested" /\ LevelOK(levels[1])
        BY <1>1, <1>5, <1>6, <4>1 DEF StackInv, LevelsInv
      <4>3. levels'[1].known
        BY <1>5, <4>1, <4>2 DEF LevelOK, Told
      <4>4. levels' # <<>>
        BY <1>5, <3>2, EmptySeq
      <4> QED BY <4>3, <4>4 DEF HeardInv
    <3> QED BY <3>1, <3>2
  <2> QED BY <1>1, <1>9, <2>1, <2>2, <2>6, <2>7 DEF StackInv
<1>10. IF levels[n].open # "none" THEN Reject
       ELSE /\ heard' = <<[call |-> "container_end", members |-> levels[n].members,
                           entries |-> levels[n].entries, depth |-> n - 1]>>
            /\ UNCHANGED <<phase, outer, ending, pushed>>
  BY <1>1 DEF PopTop
<1>11. CASE levels[n].open # "none"
  BY <1>8, <1>10, <1>11
<1>12. CASE ~(levels[n].open # "none")
  BY <1>9, <1>10, <1>12
<1> QED BY <1>11, <1>12

(* A walk begins.                                                           *)
LEMMA StartOuterKeeps ==
  ASSUME StackInv, NEW n \in Nat, NEW finishing, StartOuter(n, finishing)
  PROVE  StackInv'
<1>1. phase = "detect" /\ outer' = 0 /\ levels = <<>> /\ heard = <<>>
  BY DEF StartOuter, StackInv
<1>2. CASE phase' = "rejected" /\ UNCHANGED <<levels, ending, heard>>
  <2>1. PathInv'
    BY <1>2 DEF StackInv, PathInv
  <2> QED BY <1>1, <1>2, <2>1 DEF StackInv
<1>3. ASSUME NEW format \in Formats(n), phase' = "run", levels' = <<Level(format, n)>>,
             heard' = ContainerStart(format, 0)
      PROVE  StackInv'
  <2>1. format \in {"zip", "detect", "tar"}
    BY DEF Formats
  <2>2. PICK l : l = Level(format, n)
    OBVIOUS
  <2>3. /\ LevelOK(l) /\ l.open = "none" /\ ~l.ended /\ l \in LevelSet
        /\ l.known <=> format # "detect"
    <3>1. /\ LevelOK(l) /\ l.open = "none" /\ ~l.ended
          /\ l.known <=> format # "detect"
      BY <2>1, <2>2, NewLevel
    <3> QED BY <3>1 DEF LevelOK
  <2>4. levels' = <<l>>
    BY <1>3, <2>2
  <2>5. /\ levels' \in Seq(LevelSet) /\ Len(levels') = 1 /\ levels'[1] = l /\ levels' # <<>>
        /\ 1..(1 - 1) = {} /\ \A j \in 1..1 : j = 1
    BY <2>3, <2>4
  <2>6. PathInv'
    BY <2>5, DecomposerAssumption DEF PathInv
  <2>7. LevelsInv' /\ ClosingInv'
    BY <2>3, <2>5 DEF LevelsInv, ClosingInv
  <2>8. HeardInv'
    <3>1. ~l.known => heard' = <<>>
      BY <1>3, <2>3 DEF ContainerStart
    <3> QED BY <2>5, <3>1 DEF HeardInv
  <2>9. phase' # "detect" /\ outer' \in Nat
    BY <1>1, <1>3
  <2> QED BY <2>6, <2>7, <2>8, <2>9 DEF StackInv
<1> QED BY <1>2, <1>3 DEF StartOuter

LEMMA PushWindowKeeps == ASSUME StackInv, NEW n \in Nat, PushWindow(n) PROVE StackInv'
<1>1. outer + n \in Nat /\ outer \in Nat
  BY DEF StackInv
<1>2. CASE /\ phase = "detect" /\ outer' = outer + n
           /\ UNCHANGED <<phase, levels, ending, heard>>
  <2>1. PathInv'
    BY <1>2 DEF StackInv, PathInv
  <2> QED BY <1>1, <1>2, <2>1 DEF StackInv
<1>3. CASE StartOuter(outer + n, FALSE)
  BY <1>1, <1>3, StartOuterKeeps
<1>4. CASE /\ phase = "run" /\ Idle /\ levels' = [levels EXCEPT ![1].input = n]
           /\ UNCHANGED <<phase, outer, ending, heard>>
  <2>1. Busy = {} /\ ~ending
    BY <1>4 DEF Idle
  <2>2. PICK c \in Nat : c = Len(levels) /\ levels \in Seq(LevelSet) /\ levels # <<>>
    BY <1>4, <2>1, Resting
  <2>3. 1 \in 1..c /\ c \in 1..c
    BY <2>2, EmptySeq
  <2>4. /\ \A j \in 1..c : LevelOK(levels[j]) /\ ~levels[j].ended
        /\ levels[c].open # "nested"
    BY <1>4, <2>1, <2>2, Resting
  <2>5. PICK l, k : l = levels[1] /\ k = [l EXCEPT !.input = n]
    OBVIOUS
  <2>6. LevelOK(k) /\ k.open = l.open /\ k.known = l.known /\ ~k.ended /\ k \in LevelSet
    <3>1. LevelOK(k) /\ k.open = l.open /\ k.known = l.known /\ ~k.ended
      BY <2>3, <2>4, <2>5, FedLevel
    <3> QED BY <3>1 DEF LevelOK
  <2>7. levels' = [levels EXCEPT ![1] = k]
    BY <1>4, <2>5
  <2>8. /\ levels' \in Seq(LevelSet) /\ Len(levels') = c /\ levels'[1] = k
        /\ \A j \in 1..c : j # 1 => levels'[j] = levels[j]
    BY <2>2, <2>3, <2>6, <2>7, ExceptSeq
  <2>9. \A j \in 1..(c - 1) : levels'[j].open = "nested"
    <3>1. \A j \in 1..(c - 1) : j \in 1..c /\ levels[j].open = "nested"
      BY <2>2 DEF StackInv, PathInv
    <3> QED BY <2>5, <2>6, <2>8, <3>1
  <2>10. /\ \A j \in 1..c : LevelOK(levels'[j])
         /\ \A j \in 1..c : levels'[j].ended => j <= 1 /\ levels[j].ended
    BY <2>4, <2>6, <2>8
  <2>11. \A j \in 1..c : j < 1 => levels'[j] = levels[j]
    OBVIOUS
  <2>12. levels'[c].open # "nested"
    BY <2>3, <2>4, <2>5, <2>6, <2>8
  <2>13. levels'[1].known \/ heard' = <<>>
    <3>1. levels[1].known \/ heard = <<>>
      BY <1>4, <2>2 DEF StackInv, HeardInv
    <3> QED BY <1>4, <2>5, <2>6, <2>8, <3>1
  <2>14. phase' = phase /\ ending' = ending /\ outer' = outer
    BY <1>4
  <2> QED BY <1>4, <2>2, <2>3, <2>8, <2>9, <2>10, <2>11, <2>12, <2>13, <2>14, StackKept
<1> QED BY <1>2, <1>3, <1>4 DEF PushWindow

LEMMA FinishKeeps == ASSUME StackInv, Finish PROVE StackInv'
<1>1. outer \in Nat
  BY DEF StackInv
<1>2. CASE StartOuter(outer, TRUE)
  BY <1>1, <1>2, StartOuterKeeps
<1>3. CASE /\ phase = "run" /\ Idle /\ ending' = TRUE
           /\ UNCHANGED <<phase, outer, levels, heard>>
  <2>1. Busy = {} /\ ~ending
    BY <1>3 DEF Idle
  <2>2. PICK c \in Nat : c = Len(levels) /\ levels \in Seq(LevelSet) /\ levels # <<>>
    BY <1>3, <2>1, Resting
  <2>3. \A j \in 1..c : ~levels[j].ended
    BY <1>3, <2>1, <2>2, Resting
  <2>4. levels[c].open # "nested"
    BY <1>3, <2>1, <2>2, Resting
  <2>5. ClosingInv'
    BY <1>3, <2>2, <2>3, <2>4 DEF ClosingInv
  <2>6. PathInv' /\ LevelsInv' /\ HeardInv'
    BY <1>3, <2>2 DEF StackInv, PathInv, LevelsInv, HeardInv
  <2> QED BY <1>1, <1>3, <2>5, <2>6 DEF StackInv
<1> QED BY <1>2, <1>3 DEF Finish

\* What is said of the levels is kept by a step that leaves them alone.
LEMMA OtherPhase ==
  ASSUME StackInv, levels' = levels, outer' = outer, phase' \notin {"detect", "run"}
  PROVE  StackInv'
<1>1. PathInv'
  BY DEF StackInv, PathInv
<1> QED BY <1>1 DEF StackInv

LEMMA UnchangedKeeps == ASSUME StackInv, UNCHANGED vars PROVE StackInv'
<1>1. /\ phase' = phase /\ outer' = outer /\ levels' = levels /\ ending' = ending
      /\ heard' = heard
  BY DEF vars
<1>2. PathInv' <=> PathInv
  BY <1>1 DEF PathInv
<1>3. LevelsInv' <=> LevelsInv
  BY <1>1 DEF LevelsInv
<1>4. ASSUME NEW j PROVE Quiet(j)' <=> Quiet(j)
  BY <1>1 DEF Quiet
<1>5. ClosingInv' <=> ClosingInv
  BY <1>1, <1>4 DEF ClosingInv
<1>6. HeardInv' <=> HeardInv
  BY <1>1 DEF HeardInv
<1> QED BY <1>1, <1>2, <1>3, <1>5, <1>6 DEF StackInv

LEMMA StackKeeps == ASSUME StackInv, [Next]_vars PROVE StackInv'
<1>1. ASSUME NEW i,
             \/ Feed(i) \/ Announced(i) \/ Entered(i) \/ Started(i) \/ Routed(i)
             \/ DecidedByProbe(i) \/ Closed(i) \/ DecidedAtEnd(i)
      PROVE  StackInv'
  BY <1>1, FeedKeeps, AnnouncedKeeps, EnteredKeeps, StartedKeeps, RoutedKeeps,
     DecidedByProbeKeeps, ClosedKeeps, DecidedAtEndKeeps
<1>2. CASE NotCounted
  BY <1>2, RejectInPlace DEF NotCounted
<1>3. CASE Finished
  <2>1. levels' = levels /\ outer' = outer /\ phase' = "done"
    BY <1>3 DEF Finished
  <2> QED BY <2>1, OtherPhase
<1>4. CASE Step
  BY <1>1, <1>2, <1>3, <1>4, FinishTopKeeps, PopTopKeeps DEF Step
<1>5. ASSUME NEW n \in 1..MaxInput, PushWindow(n) PROVE StackInv'
  <2>1. n \in Nat
    OBVIOUS
  <2> QED BY <1>5, <2>1, PushWindowKeeps
<1>6. CASE FinishAgain
  <2>1. levels' = levels /\ outer' = outer /\ phase' = "rejected"
    BY <1>6 DEF FinishAgain
  <2> QED BY <2>1, OtherPhase
<1> QED BY <1>4, <1>5, <1>6, FinishKeeps, UnchangedKeeps DEF Next

LEMMA StackStarts == Init => StackInv
<1>1. ASSUME Init PROVE StackInv
  <2>1. /\ levels = <<>> /\ phase = "detect" /\ outer = 0 /\ heard = <<>>
        /\ Len(levels) = 0 /\ 1..(0 - 1) = {} /\ levels \in Seq(LevelSet)
    BY <1>1 DEF Init
  <2>2. PathInv
    BY <2>1, DecomposerAssumption DEF PathInv
  <2> QED BY <2>1, <2>2 DEF StackInv
<1> QED BY <1>1

LEMMA StackAlways == Spec => []StackInv
<1>1. StackInv /\ [Next]_vars => StackInv'
  BY StackKeeps
<1> QED BY <1>1, StackStarts, PTL DEF Spec

(* The stack of levels is the path of nested members to the one in flight,  *)
(* never deeper than the limit, and feed_level finds a level wherever it    *)
(* passes bytes on: whatever the compound holds, however deep it nests.     *)
THEOREM LevelsAreThePath == Spec => []StackIsThePath
<1>1. ASSUME StackInv PROVE StackIsThePath
  <2>1. PathInv
    BY <1>1 DEF StackInv
  <2>2. ASSUME NEW i \in DOMAIN levels, Handling(i, "bytes"), levels[i].open = "nested"
        PROVE  i < Len(levels)
    <3>1. AtWork(i) /\ levels[i].queue[1].is = "bytes"
      BY <1>1, <2>2, LevelHandling
    <3>2. PICK n \in Nat : n = Len(levels) /\ i \in 1..n
      BY <1>1, <3>1, LevelAtWork
    <3>3. levels[n].open # "nested"
      BY <1>1, <3>1, <3>2, NothingCloses
    <3>4. i # n
      BY <2>2, <3>3
    <3> QED BY <3>2, <3>4
  <2> QED BY <2>1, <2>2 DEF StackIsThePath, PathInv
<1> QED BY <1>1, StackAlways, PTL

(***************************************************************************)
(* What the sink sees of the levels.                                       *)
(***************************************************************************)
SeenSet ==
  [member : {"none", "plain", "walked", "nested"}, told : Nat, members : Nat, entries : Nat]

\* Level i of n.
MemberSeen(l, i, n) ==
  IF l.open \in {"none", "probing"} THEN "none"
  ELSE IF l.open = "plain" THEN "plain" ELSE IF i = n THEN "walked" ELSE "nested"

Seen(l, i, n) ==
  [member |-> MemberSeen(l, i, n), told |-> l.told, members |-> l.members,
   entries |-> l.entries]

\* SinkStack, of any levels.
ShownStack(lvls) ==
  LET told == Cardinality({i \in DOMAIN lvls : lvls[i].known})
      member(i) ==
        CASE lvls[i].open \in {"none", "probing"} -> "none"
          [] lvls[i].open = "plain" -> "plain"
          [] lvls[i].open = "nested" ->
               IF i = Len(lvls) THEN "walked" ELSE "nested"
  IN [i \in 1..told |->
        [member |-> member(i), told |-> lvls[i].told,
         members |-> lvls[i].members, entries |-> lvls[i].entries]]

LEMMA ShownIsSink ==
  SinkStack = ShownStack(levels) /\ SinkStack' = ShownStack(levels')
BY DEF SinkStack, ShownStack

LEMMA SeenTypes ==
  ASSUME NEW l \in LevelSet, NEW i, NEW n PROVE Seen(l, i, n) \in SeenSet
<1>1. l.told \in Nat /\ l.members \in Nat /\ l.entries \in Nat
  BY DEF LevelSet
<1>2. MemberSeen(l, i, n) \in {"none", "plain", "walked", "nested"}
  BY DEF MemberSeen
<1> QED BY <1>1, <1>2 DEF Seen, SeenSet

(* The containers that were announced are those of the first levels.        *)
LEMMA ShownLevels ==
  ASSUME NEW lvls \in Seq(LevelSet), NEW n \in Nat, n = Len(lvls), NEW t \in 0..n,
         \A j \in 1..n : lvls[j].known <=> j <= t
  PROVE  /\ ShownStack(lvls) \in Seq(SeenSet) /\ Len(ShownStack(lvls)) = t
         /\ \A j \in 1..t : ShownStack(lvls)[j] = Seen(lvls[j], j, n)
<1> DEFINE told == Cardinality({i \in DOMAIN lvls : lvls[i].known})
           member(i) ==
             CASE lvls[i].open \in {"none", "probing"} -> "none"
               [] lvls[i].open = "plain" -> "plain"
               [] lvls[i].open = "nested" ->
                    IF i = Len(lvls) THEN "walked" ELSE "nested"
           shown(i) == [member |-> member(i), told |-> lvls[i].told,
                        members |-> lvls[i].members, entries |-> lvls[i].entries]
<1>1. told = t
  <2>1. DOMAIN lvls = 1..n
    BY LenProperties
  <2>2. {i \in DOMAIN lvls : lvls[i].known} = 1..t
    BY <2>1
  <2>3. Cardinality(1..t) = t
    <3>1. 1 \in Int /\ t \in Int
      OBVIOUS
    <3>2. Cardinality(1..t) = IF 1 > t THEN 0 ELSE t - 1 + 1
      BY <3>1, FS_Interval
    <3> QED BY <3>2
  <2> QED BY <2>2, <2>3
<1>2. ShownStack(lvls) = [i \in 1..told |-> shown(i)]
  BY DEF ShownStack
<1>3. ASSUME NEW j \in 1..t PROVE shown(j) = Seen(lvls[j], j, n) /\ shown(j) \in SeenSet
  <2>1. PICK l \in LevelSet : l = lvls[j]
    <3>1. j \in 1..Len(lvls)
      OBVIOUS
    <3> QED BY <3>1, ElementOfSeq
  <2>2. member(j) = MemberSeen(l, j, n)
    <3>1. l.open \in {"none", "probing", "plain", "nested"}
      BY DEF LevelSet
    <3>2. CASE l.open \in {"none", "probing"}
      BY <2>1, <3>2 DEF MemberSeen
    <3>3. CASE l.open = "plain"
      BY <2>1, <3>3 DEF MemberSeen
    <3>4. CASE l.open = "nested"
      BY <2>1, <3>4 DEF MemberSeen
    <3> QED BY <3>1, <3>2, <3>3, <3>4
  <2> HIDE DEF member
  <2>3. shown(j) = Seen(l, j, n)
    BY <2>1, <2>2 DEF Seen
  <2> QED BY <2>1, <2>3, SeenTypes
<1> HIDE DEF told, shown
<1>4. ShownStack(lvls) = [i \in 1..t |-> shown(i)]
  BY <1>1, <1>2
<1>5. ShownStack(lvls) \in Seq(SeenSet)
  BY <1>3, <1>4
<1>6. Len(ShownStack(lvls)) = t
  BY <1>4
<1> QED BY <1>3, <1>4, <1>5, <1>6

(* Every level below the top has announced its container.                   *)
PathShape(lvls) ==
  /\ lvls \in Seq(LevelSet)
  /\ \A i \in 1..(Len(lvls) - 1) : lvls[i].known /\ lvls[i].open = "nested"

LEMMA StackShape ==
  /\ StackInv /\ phase = "run" => PathShape(levels)
  /\ StackInv' /\ phase' = "run" => PathShape(levels')
<1>1. ASSUME StackInv, phase = "run" PROVE PathShape(levels)
  <2>1. PICK n \in Nat : n = Len(levels) /\ levels \in Seq(LevelSet)
    BY <1>1, LenProperties DEF StackInv, PathInv
  <2>2. \A i \in 1..(n - 1) : i \in 1..n /\ levels[i].open = "nested" /\ LevelOK(levels[i])
    BY <1>1, <2>1 DEF StackInv, PathInv, LevelsInv
  <2> QED BY <2>1, <2>2 DEF PathShape, LevelOK, Told
<1>2. ASSUME StackInv', phase' = "run" PROVE PathShape(levels')
  <2>1. PICK n \in Nat : n = Len(levels') /\ levels' \in Seq(LevelSet)
    BY <1>2, LenProperties DEF StackInv, PathInv
  <2>2. \A i \in 1..(n - 1) : i \in 1..n /\ levels'[i].open = "nested" /\ LevelOK(levels'[i])
    BY <1>2, <2>1 DEF StackInv, PathInv, LevelsInv
  <2> QED BY <2>1, <2>2 DEF PathShape, LevelOK, Told
<1> QED BY <1>1, <1>2

LEMMA ShapeSeen ==
  ASSUME NEW lvls, PathShape(lvls), NEW n \in Nat, n = Len(lvls), NEW t \in 0..n,
         n = 0 \/ (lvls[n].known /\ t = n) \/ (~lvls[n].known /\ t = n - 1)
  PROVE  /\ ShownStack(lvls) \in Seq(SeenSet) /\ Len(ShownStack(lvls)) = t
         /\ \A j \in 1..t : ShownStack(lvls)[j] = Seen(lvls[j], j, n)
<1>1. lvls \in Seq(LevelSet) /\ \A j \in 1..(n - 1) : lvls[j].known
  BY DEF PathShape
<1>2. \A j \in 1..n : j \in 1..(n - 1) \/ j = n
  OBVIOUS
<1>3. \A j \in 1..n : lvls[j].known <=> j <= t
  BY <1>1, <1>2
<1>4. ShownStack(lvls) \in Seq(SeenSet)
  BY <1>1, <1>3, ShownLevels
<1>5. Len(ShownStack(lvls)) = t
  BY <1>1, <1>3, ShownLevels
<1>6. ASSUME NEW j \in 1..t PROVE ShownStack(lvls)[j] = Seen(lvls[j], j, n)
  BY <1>1, <1>3, ShownLevels, SMTT(30)
<1> QED BY <1>4, <1>5, <1>6

(* Steps that the sink does not see.                                        *)
LEMMA SameSeen ==
  ASSUME NEW u, PathShape(u), NEW n \in Nat, n = Len(u),
         NEW v \in Seq(LevelSet), Len(v) = n,
         \A j \in 1..n : /\ v[j].known <=> u[j].known
                         /\ Seen(v[j], j, n) = Seen(u[j], j, n)
  PROVE  ShownStack(v) = ShownStack(u)
<1>1. PICK t \in 0..n : n = 0 \/ (u[n].known /\ t = n) \/ (~u[n].known /\ t = n - 1)
  <2>1. n \in 0..n /\ (n # 0 => n - 1 \in 0..n)
    OBVIOUS
  <2> QED BY <2>1
<1>2. u \in Seq(LevelSet) /\ \A j \in 1..(n - 1) : u[j].known
  BY DEF PathShape
<1>3. \A j \in 1..n : j \in 1..(n - 1) \/ j = n
  OBVIOUS
<1>4. \A j \in 1..n : u[j].known <=> j <= t
  BY <1>1, <1>2, <1>3
<1>5. \A j \in 1..n : v[j].known <=> j <= t
  BY <1>4
<1>6. /\ ShownStack(u) \in Seq(SeenSet) /\ Len(ShownStack(u)) = t
      /\ \A j \in 1..t : ShownStack(u)[j] = Seen(u[j], j, n)
  BY <1>2, <1>4, ShownLevels
<1>7. /\ ShownStack(v) \in Seq(SeenSet) /\ Len(ShownStack(v)) = t
      /\ \A j \in 1..t : ShownStack(v)[j] = Seen(v[j], j, n)
  BY <1>5, ShownLevels
<1>8. \A j \in 1..t : ShownStack(u)[j] = ShownStack(v)[j]
  <2>1. \A j \in 1..t : j \in 1..n
    OBVIOUS
  <2> QED BY <1>6, <1>7, <2>1
<1> QED BY <1>6, <1>7, <1>8, SeqEqual

LEMMA UnseenStep ==
  ASSUME StackInv, phase = "run", NEW n \in Nat, n = Len(levels),
         levels' \in Seq(LevelSet), Len(levels') = n,
         \A j \in 1..n : /\ levels'[j].known <=> levels[j].known
                         /\ Seen(levels'[j], j, n) = Seen(levels[j], j, n)
  PROVE  SinkStack' = SinkStack
<1>1. PICK u, v : u = levels /\ v = levels'
  OBVIOUS
<1>2. PathShape(u)
  BY <1>1, StackShape
<1>3. ShownStack(v) = ShownStack(u)
  BY <1>1, <1>2, SameSeen
<1> QED BY <1>1, <1>3, ShownIsSink

LEMMA UnseenLevel ==
  ASSUME StackInv, phase = "run", NEW i \in 1..Len(levels), NEW k \in LevelSet,
         levels' = [levels EXCEPT ![i] = k], k.known <=> levels[i].known,
         Seen(k, i, Len(levels)) = Seen(levels[i], i, Len(levels))
  PROVE  SinkStack' = SinkStack
<1>1. PICK n \in Nat : n = Len(levels) /\ levels \in Seq(LevelSet)
  BY LenProperties DEF StackInv, PathInv
<1>2. /\ levels' \in Seq(LevelSet) /\ Len(levels') = n /\ levels'[i] = k
      /\ \A j \in 1..n : j # i => levels'[j] = levels[j]
  BY <1>1, ExceptSeq
<1>3. \A j \in 1..n : /\ levels'[j].known <=> levels[j].known
                      /\ Seen(levels'[j], j, n) = Seen(levels[j], j, n)
  BY <1>1, <1>2
<1> QED BY <1>1, <1>2, <1>3, UnseenStep

(* A step of the top level that the sink sees.                              *)
LEMMA SeenTop ==
  ASSUME StackInv, NEW i, AtWork(i), i = Len(levels), levels[i].known,
         NEW k \in LevelSet, k.known, levels' = [levels EXCEPT ![i] = k]
  PROVE  /\ SinkStack # <<>> /\ Len(SinkStack) = i
         /\ SinkStack[Len(SinkStack)] = Seen(levels[i], i, i)
         /\ SinkStack' = [SinkStack EXCEPT ![Len(SinkStack)] = Seen(k, i, i)]
<1>1. /\ phase = "run" /\ i \in 1..i /\ i \in Nat /\ levels \in Seq(LevelSet)
      /\ i \in 0..i
  BY LevelAtWork
<1>2. /\ levels' \in Seq(LevelSet) /\ Len(levels') = i /\ levels'[i] = k
      /\ \A j \in 1..i : j # i => levels'[j] = levels[j]
  BY <1>1, ExceptSeq
<1>3. PICK u, v : u = levels /\ v = levels'
  OBVIOUS
<1>4. PathShape(u)
  BY <1>1, <1>3, StackShape
<1>5. PathShape(v)
  <2>1. \A j \in 1..(i - 1) : j \in 1..i /\ j # i
    BY <1>1
  <2>2. \A j \in 1..(i - 1) : v[j] = u[j]
    BY <1>2, <1>3, <2>1
  <2> QED BY <1>2, <1>3, <1>4, <2>2 DEF PathShape
<1>6. PICK x, y : x = ShownStack(u) /\ y = ShownStack(v) /\ x = SinkStack /\ y = SinkStack'
  BY <1>3, ShownIsSink
<1>7. x \in Seq(SeenSet) /\ Len(x) = i /\ \A j \in 1..i : x[j] = Seen(u[j], j, i)
  <2>1. /\ Len(u) = i /\ PathShape(u)
        /\ i = 0 \/ (u[i].known /\ i = i) \/ (~u[i].known /\ i = i - 1)
    BY <1>3, <1>4
  <2>2. x \in Seq(SeenSet)
    BY <1>1, <1>6, <2>1, ShapeSeen
  <2>3. Len(x) = i
    BY <1>1, <1>6, <2>1, ShapeSeen
  <2>4. \A j \in 1..i : ShownStack(u)[j] = Seen(u[j], j, i)
    BY <1>1, <2>1, ShapeSeen
  <2> QED BY <1>6, <2>2, <2>3, <2>4
<1>8. y \in Seq(SeenSet) /\ Len(y) = i /\ \A j \in 1..i : y[j] = Seen(v[j], j, i)
  <2>1. /\ Len(v) = i /\ PathShape(v)
        /\ i = 0 \/ (v[i].known /\ i = i) \/ (~v[i].known /\ i = i - 1)
    BY <1>2, <1>3, <1>5
  <2>2. y \in Seq(SeenSet)
    BY <1>1, <1>6, <2>1, ShapeSeen
  <2>3. Len(y) = i
    BY <1>1, <1>6, <2>1, ShapeSeen
  <2>4. \A j \in 1..i : ShownStack(v)[j] = Seen(v[j], j, i)
    BY <1>1, <2>1, ShapeSeen
  <2> QED BY <1>6, <2>2, <2>3, <2>4
<1> DEFINE s == Seen(k, i, i)
           z == [x EXCEPT ![i] = s]
<1>9. s \in SeenSet
  BY SeenTypes
<1> HIDE DEF s
<1>10. /\ z \in Seq(SeenSet) /\ Len(z) = i /\ z[i] = s
       /\ \A j \in 1..i : j # i => z[j] = x[j]
  BY <1>1, <1>7, <1>9, ExceptSeq
<1> HIDE DEF z
<1>11. \A j \in 1..i : y[j] = z[j]
  <2> TAKE j \in 1..i
  <2>1. CASE j = i
    BY <1>2, <1>3, <1>8, <1>10, <2>1 DEF s
  <2>2. CASE j # i
    BY <1>2, <1>3, <1>7, <1>8, <1>10, <2>2
  <2> QED BY <2>1, <2>2
<1>12. y = z
  BY <1>8, <1>10, <1>11, SeqEqual
<1>13. x # <<>>
  BY <1>1, <1>7, EmptySeq
<1> QED BY <1>1, <1>3, <1>6, <1>7, <1>12, <1>13 DEF s, z

(***************************************************************************)
(* Every step is one the sink allows.                                      *)
(***************************************************************************)
SinkStep == [Sink!Next]_<<SinkStack, Walk, heard>>

LEMMA WalkIs ==
  /\ phase \in {"detect", "run"} => Walk = "open"
  /\ phase = "done" => Walk = "complete"
  /\ phase = "rejected" => Walk = "refused"
  /\ phase' \in {"detect", "run"} => Walk' = "open"
  /\ phase' = "done" => Walk' = "complete"
  /\ phase' = "rejected" => Walk' = "refused"
BY DEF Walk

(* Nothing is heard, or the walk is refused.                                *)
LEMMA QuietStep ==
  ASSUME phase \in {"detect", "run"}, phase' \in {"detect", "run"}, heard' = heard,
         SinkStack' = SinkStack
  PROVE  SinkStep
<1>1. Walk' = Walk
  BY WalkIs
<1> QED BY <1>1 DEF SinkStep

LEMMA RefusedStep ==
  ASSUME phase \in {"detect", "run", "done"}, phase' = "rejected", heard' = heard,
         SinkStack' = SinkStack
  PROVE  SinkStep
<1>1. Walk # "refused" /\ Walk' = "refused"
  BY WalkIs
<1>2. Sink!Refuse
  BY <1>1 DEF Sink!Refuse
<1> QED BY <1>2 DEF SinkStep, Sink!Next

LEMMA SameStack == ASSUME UNCHANGED levels PROVE SinkStack' = SinkStack
BY ShownIsSink

LEMMA RejectSeen ==
  ASSUME phase = "run", Reject, SinkStack' = SinkStack
  PROVE  SinkStep
BY RefusedStep DEF Reject

LEMMA FeedSeen == ASSUME StackInv, NEW i, Feed(i) PROVE SinkStep
<1>1. AtWork(i) /\ levels[i].queue = <<>>
  BY DEF Feed
<1>2. PICK l \in LevelSet : /\ l = levels[i] /\ LevelOK(l) /\ l.queue = <<>>
                            /\ i \in 1..Len(levels) /\ phase = "run" /\ l.input > 0
  BY <1>1, LevelAtWork
<1>3. CASE Reject /\ UNCHANGED levels
  BY <1>2, <1>3, SameStack, RejectSeen
<1>4. CASE /\ \E r \in ReaderPush(levels[i].reader) :
                levels' = [levels EXCEPT ![i].reader = [r EXCEPT !.out = <<>>],
                                         ![i].queue = r.out, ![i].input = @ - 1]
           /\ UNCHANGED <<phase, outer, ending, pushed, heard>>
  <2>1. PICK s : /\ s \in ReaderPush(l.reader)
                 /\ levels' = [levels EXCEPT ![i].reader = [s EXCEPT !.out = <<>>],
                                             ![i].queue = s.out, ![i].input = @ - 1]
    BY <1>2, <1>4
  <2>2. ~l.ended
    BY <1>1, <1>2, NothingCloses
  <2>3. s \in Outs
    BY <1>2, <2>1, <2>2, PushedFilled DEF Filled
  <2>4. PICK r, k : /\ r = [s EXCEPT !.out = <<>>]
                    /\ k = [l EXCEPT !.reader = r, !.queue = s.out, !.input = @ - 1]
    OBVIOUS
  <2>5. r \in Outs /\ s.out \in Seq(Events)
    BY <2>3, <2>4, TakenLevel
  <2>6. l.input - 1 \in Nat
    BY <1>2 DEF LevelSet
  <2>7. /\ k \in LevelSet /\ k.known = l.known /\ k.open = l.open /\ k.told = l.told
        /\ k.members = l.members /\ k.entries = l.entries
    <3> HIDE DEF Outs
    <3> QED BY <2>4, <2>5, <2>6 DEF LevelSet
  <2>8. levels' = [levels EXCEPT ![i] = k]
    BY <1>2, <2>1, <2>4
  <2>9. Seen(k, i, Len(levels)) = Seen(levels[i], i, Len(levels))
    BY <1>2, <2>7 DEF Seen, MemberSeen
  <2>10. SinkStack' = SinkStack
    BY <1>2, <2>7, <2>8, <2>9, UnseenLevel
  <2>11. heard' = heard /\ phase' = phase
    BY <1>4
  <2> QED BY <1>2, <2>10, <2>11, QuietStep
<1> QED BY <1>3, <1>4 DEF Feed

LEMMA StartedSeen == ASSUME StackInv, NEW i, Started(i) PROVE SinkStep
<1>1. Handling(i, "start") /\ AtWork(i)
  BY DEF Started, Handling
<1>2. PICK l \in LevelSet : /\ l = levels[i] /\ LevelOK(l) /\ i \in 1..Len(levels)
                            /\ phase = "run"
  BY <1>1, LevelAtWork
<1>3. PICK e : /\ e = l.queue[1] /\ e.is = "start" /\ l.queue # <<>>
               /\ Tail(l.queue) \in Seq(Events)
  BY <1>1, <1>2, LevelHandling
<1>4. l.open = "none" /\ l.known
  BY <1>2, <1>3, FirstEvent
<1>5. PICK k : k = [l EXCEPT !.queue = Tail(@), !.open = "probing", !.probe = 0]
  OBVIOUS
<1>6. /\ k \in LevelSet /\ k.open = "probing" /\ k.known = l.known /\ k.told = l.told
      /\ k.members = l.members /\ k.entries = l.entries
  <2> HIDE DEF Outs
  <2> QED BY <1>3, <1>4, <1>5 DEF LevelSet
<1>7. levels' = [levels EXCEPT ![i] = k]
  <2>1. levels' = [Handled(i) EXCEPT ![i].open = "probing", ![i].probe = 0]
    BY DEF Started
  <2>2. i \in DOMAIN levels
    BY <1>1 DEF AtWork, Busy
  <2> QED BY <1>2, <1>5, <2>1, <2>2 DEF Handled
<1>8. Seen(k, i, Len(levels)) = Seen(levels[i], i, Len(levels))
  BY <1>2, <1>4, <1>6 DEF Seen, MemberSeen
<1>9. SinkStack' = SinkStack
  BY <1>2, <1>6, <1>7, <1>8, UnseenLevel
<1>10. heard' = heard /\ phase' = phase
  BY DEF Started
<1> QED BY <1>2, <1>9, <1>10, QuietStep

LEMMA EnteredSeen == ASSUME StackInv, NEW i, Entered(i) PROVE SinkStep
<1>1. Handling(i, "entry") /\ AtWork(i)
  BY DEF Entered, Handling
<1>2. PICK l \in LevelSet : /\ l = levels[i] /\ LevelOK(l) /\ i \in 1..Len(levels)
                            /\ phase = "run" /\ (i # Len(levels) => l.open = "nested")
  BY <1>1, LevelAtWork
<1>3. PICK e : /\ e = l.queue[1] /\ e.is = "entry" /\ l.queue # <<>>
               /\ Tail(l.queue) \in Seq(Events)
  BY <1>1, <1>2, LevelHandling
<1>4. l.open = "none" /\ l.known
  BY <1>2, <1>3, FirstEvent
<1>5. PICK k : k = [l EXCEPT !.queue = Tail(@), !.entries = @ + 1]
  OBVIOUS
<1>6. /\ k \in LevelSet /\ k.open = l.open /\ k.known = l.known /\ k.told = l.told
      /\ k.members = l.members /\ k.entries = l.entries + 1
  <2>1. l.entries + 1 \in Nat
    BY DEF LevelSet
  <2> HIDE DEF Outs
  <2> QED BY <1>3, <1>5, <2>1 DEF LevelSet
<1>7. levels' = [levels EXCEPT ![i] = k]
  <2>1. levels' = [Handled(i) EXCEPT ![i].entries = @ + 1]
    BY DEF Entered
  <2>2. i \in DOMAIN levels
    BY <1>1 DEF AtWork, Busy
  <2> QED BY <1>2, <1>5, <2>1, <2>2 DEF Handled
<1>8. i = Len(levels) /\ levels[i].known /\ k.known
  BY <1>2, <1>4, <1>6
<1>9. /\ SinkStack # <<>> /\ Len(SinkStack) = i
      /\ SinkStack[Len(SinkStack)] = Seen(l, i, i)
      /\ SinkStack' = [SinkStack EXCEPT ![Len(SinkStack)] = Seen(k, i, i)]
  BY <1>1, <1>2, <1>6, <1>7, <1>8, SeenTop
<1>10. /\ Seen(l, i, i).member = "none"
       /\ Seen(k, i, i) = [Seen(l, i, i) EXCEPT !.entries = @ + 1]
  BY <1>4, <1>6 DEF Seen, MemberSeen
<1>11. Walk = "open" /\ Walk' = "open"
  BY <1>2, WalkIs DEF Entered
<1>12. Sink!InTop("none", [Sink!Top EXCEPT !.entries = @ + 1])
  BY <1>9, <1>10, <1>11 DEF Sink!InTop, Sink!Top
<1>13. heard' = <<[call |-> "entry", depth |-> Sink!Depth]>>
  BY <1>9 DEF Sink!Depth, Entered
<1>14. Sink!Entry
  BY <1>12, <1>13 DEF Sink!Entry
<1> QED BY <1>14 DEF SinkStep, Sink!Next

(* Containers, by their fields.                                             *)
LEMMA SeenFields ==
  ASSUME NEW s \in SeenSet, NEW z \in SeenSet, z.entries = s.entries
  PROVE  /\ z.member = "none" /\ z.told = 0 /\ z.members = s.members + 1
            => z = [s EXCEPT !.member = "none", !.told = 0, !.members = @ + 1]
         /\ z.member = "none" /\ z.told = s.told /\ z.members = s.members + 1
            => z = [s EXCEPT !.member = "none", !.members = @ + 1]
         /\ z.member = "plain" /\ z.members = s.members
            => z = [s EXCEPT !.member = "plain", !.told = z.told]
         /\ z.member = "nested" /\ z.told = s.told /\ z.members = s.members
            => z = [s EXCEPT !.member = "nested"]
         /\ z.member = "walked" /\ z.told = s.told /\ z.members = s.members
            => z = [s EXCEPT !.member = "walked"]
BY DEF SeenSet

(* The fields of what is seen of a level.                                   *)
LEMMA SeenOf ==
  ASSUME NEW l \in LevelSet, NEW i, NEW n
  PROVE  /\ Seen(l, i, n) \in SeenSet /\ Seen(l, i, n).member = MemberSeen(l, i, n)
         /\ Seen(l, i, n).told = l.told /\ Seen(l, i, n).members = l.members
         /\ Seen(l, i, n).entries = l.entries
<1>1. Seen(l, i, n) \in SeenSet
  BY SeenTypes
<1> QED BY <1>1 DEF Seen

LEMMA RoutedSeen == ASSUME StackInv, Lengths = Nat, NEW i, Routed(i) PROVE SinkStep
<1>1. Handling(i, "bytes") /\ AtWork(i)
  BY DEF Routed, Handling
<1>2. PICK l \in LevelSet : /\ l = levels[i] /\ LevelOK(l) /\ i \in 1..Len(levels)
                            /\ phase = "run" /\ (i # Len(levels) => l.open = "nested")
  BY <1>1, LevelAtWork
<1>3. PICK e : /\ e = l.queue[1] /\ e.is = "bytes" /\ l.queue # <<>>
               /\ Tail(l.queue) \in Seq(Events) /\ e = Head(l.queue)
  BY <1>1, <1>2, LevelHandling
<1>4. PICK n \in Nat : n = e.n
  BY <1>2, <1>3, FirstEvent
<1>5. l.open # "none" /\ l.known
  BY <1>2, <1>3, FirstEvent
<1>6. /\ levels' = CASE l.open = "none" -> Handled(i)
                     [] l.open = "nested" -> [Handled(i) EXCEPT ![i + 1].input = n]
                     [] l.open = "probing" -> [Handled(i) EXCEPT ![i].probe = @ + n]
                     [] l.open = "plain" -> [Handled(i) EXCEPT ![i].told = @ + n]
      /\ heard' = IF l.open = "plain" THEN <<MemberBytes(n, i - 1)>> ELSE heard
      /\ phase' = phase
  BY <1>2, <1>3, <1>4 DEF Routed
<1>7. i \in DOMAIN levels
  BY <1>1 DEF AtWork, Busy
<1>8. CASE l.open = "nested"
  <2>1. PICK c \in Nat : c = Len(levels) /\ levels \in Seq(LevelSet)
    BY <1>1, LevelAtWork
  <2>2. i # c /\ i + 1 \in 1..c /\ i \in 1..c /\ i + 1 # i
    <3>1. levels[i].queue = <<>> \/ levels[i].queue[1].is # "end"
      BY <1>2, <1>3
    <3>2. i # c
      BY <1>1, <1>2, <1>8, <2>1, <3>1, NothingCloses
    <3> QED BY <1>2, <2>1, <3>2
  <2>3. PICK m \in LevelSet : m = levels[i + 1]
    BY <2>1, <2>2, ElementOfSeq
  <2>4. PICK k, h : k = [l EXCEPT !.queue = Tail(@)] /\ h = [m EXCEPT !.input = n]
    OBVIOUS
  <2>5. /\ k \in LevelSet /\ k.known = l.known /\ k.open = l.open /\ k.told = l.told
        /\ k.members = l.members /\ k.entries = l.entries
    <3> HIDE DEF Outs
    <3> QED BY <1>3, <2>4 DEF LevelSet
  <2>6. /\ h \in LevelSet /\ h.known = m.known /\ h.open = m.open /\ h.told = m.told
        /\ h.members = m.members /\ h.entries = m.entries
    <3> HIDE DEF Outs
    <3> QED BY <2>4 DEF LevelSet
  <2>7. levels' = [[levels EXCEPT ![i] = k] EXCEPT ![i + 1] = h]
    <3>1. levels' = [Handled(i) EXCEPT ![i + 1].input = n]
      BY <1>6, <1>8
    <3>2. Handled(i) = [levels EXCEPT ![i] = k]
      BY <1>2, <2>4 DEF Handled
    <3>3. [levels EXCEPT ![i] = k][i + 1] = m
      <4>1. i + 1 \in DOMAIN levels
        BY <2>1, <2>2, LenProperties
      <4> QED BY <2>2, <2>3, <4>1
    <3> QED BY <2>4, <3>1, <3>2, <3>3
  <2>8. /\ levels' \in Seq(LevelSet) /\ Len(levels') = c /\ levels'[i] = k
        /\ levels'[i + 1] = h
        /\ \A j \in 1..c : j # i /\ j # i + 1 => levels'[j] = levels[j]
    <3> DEFINE v == [levels EXCEPT ![i] = k]
    <3>1. /\ v \in Seq(LevelSet) /\ Len(v) = c /\ v[i] = k
          /\ \A j \in 1..c : j # i => v[j] = levels[j]
      BY <2>1, <2>2, <2>5, ExceptSeq
    <3>2. levels' = [v EXCEPT ![i + 1] = h]
      BY <2>7
    <3> HIDE DEF v
    <3>3. /\ levels' \in Seq(LevelSet) /\ Len(levels') = c /\ levels'[i + 1] = h
          /\ \A j \in 1..c : j # i + 1 => levels'[j] = v[j]
      BY <2>2, <2>6, <3>1, <3>2, ExceptSeq
    <3> QED BY <2>2, <3>1, <3>3
  <2>9. \A j \in 1..c : /\ levels'[j].known <=> levels[j].known
                        /\ Seen(levels'[j], j, c) = Seen(levels[j], j, c)
    <3> TAKE j \in 1..c
    <3>1. CASE j = i
      BY <1>2, <2>5, <2>8, <3>1 DEF Seen, MemberSeen
    <3>2. CASE j = i + 1
      BY <2>3, <2>6, <2>8, <3>2 DEF Seen, MemberSeen
    <3>3. CASE j # i /\ j # i + 1
      BY <2>8, <3>3
    <3> QED BY <3>1, <3>2, <3>3
  <2>10. SinkStack' = SinkStack
    BY <1>2, <2>1, <2>8, <2>9, UnseenStep
  <2>11. heard' = heard
    BY <1>6, <1>8
  <2> QED BY <1>2, <1>6, <2>10, <2>11, QuietStep
<1>9. CASE l.open = "probing"
  <2>1. PICK k : k = [l EXCEPT !.queue = Tail(@), !.probe = @ + n]
    OBVIOUS
  <2>2. /\ k \in LevelSet /\ k.known = l.known /\ k.open = l.open /\ k.told = l.told
        /\ k.members = l.members /\ k.entries = l.entries
    <3>1. l.probe + n \in Nat
      BY DEF LevelSet
    <3> HIDE DEF Outs
    <3> QED BY <1>3, <2>1, <3>1 DEF LevelSet
  <2>3. levels' = [levels EXCEPT ![i] = k]
    <3>1. levels' = [Handled(i) EXCEPT ![i].probe = @ + n]
      BY <1>6, <1>9
    <3> QED BY <1>2, <1>7, <2>1, <3>1 DEF Handled
  <2>4. Seen(k, i, Len(levels)) = Seen(levels[i], i, Len(levels))
    BY <1>2, <2>2 DEF Seen, MemberSeen
  <2>5. SinkStack' = SinkStack
    BY <1>2, <2>2, <2>3, <2>4, UnseenLevel
  <2>6. heard' = heard
    BY <1>6, <1>9
  <2> QED BY <1>2, <1>6, <2>5, <2>6, QuietStep
<1>10. CASE l.open = "plain"
  <2>1. PICK k : k = [l EXCEPT !.queue = Tail(@), !.told = @ + n]
    OBVIOUS
  <2>2. /\ k \in LevelSet /\ k.known = l.known /\ k.open = l.open /\ k.told = l.told + n
        /\ k.members = l.members /\ k.entries = l.entries
    <3>1. l.told + n \in Nat
      BY DEF LevelSet
    <3> HIDE DEF Outs
    <3> QED BY <1>3, <2>1, <3>1 DEF LevelSet
  <2>3. levels' = [levels EXCEPT ![i] = k]
    <3>1. levels' = [Handled(i) EXCEPT ![i].told = @ + n]
      BY <1>6, <1>10
    <3> QED BY <1>2, <1>7, <2>1, <3>1 DEF Handled
  <2>4. i = Len(levels) /\ levels[i].known /\ k.known
    BY <1>2, <1>5, <1>10, <2>2
  <2>5. /\ SinkStack # <<>> /\ Len(SinkStack) = i
        /\ SinkStack[Len(SinkStack)] = Seen(l, i, i)
        /\ SinkStack' = [SinkStack EXCEPT ![Len(SinkStack)] = Seen(k, i, i)]
    BY <1>1, <1>2, <2>2, <2>3, <2>4, SeenTop
  <2>6. /\ Seen(l, i, i).member = "plain"
        /\ Seen(k, i, i) = [Seen(l, i, i) EXCEPT !.told = @ + n]
    BY <1>10, <2>2 DEF Seen, MemberSeen
  <2>7. Walk = "open" /\ Walk' = "open"
    BY <1>2, <1>6, WalkIs
  <2>8. Sink!InTop("plain", [Sink!Top EXCEPT !.told = @ + n])
    BY <2>5, <2>6, <2>7 DEF Sink!InTop, Sink!Top
  <2>9. heard' = <<Sink!Bytes(n)>>
    BY <1>6, <1>10, <2>5 DEF Sink!Depth, Sink!Bytes, MemberBytes
  <2>10. Sink!MemberBytes(n)
    BY <2>8, <2>9 DEF Sink!MemberBytes
  <2> QED BY <2>10 DEF SinkStep, Sink!Next
<1> QED BY <1>5, <1>8, <1>9, <1>10 DEF LevelSet

LEMMA ClosedSeen == ASSUME StackInv, Lengths = Nat, NEW i, Closed(i) PROVE SinkStep
<1>1. Handling(i, "end") /\ AtWork(i)
  BY DEF Closed, Handling
<1>2. PICK l \in LevelSet : /\ l = levels[i] /\ LevelOK(l) /\ i \in 1..Len(levels)
                            /\ phase = "run" /\ (i # Len(levels) => l.open = "nested")
                            /\ l.open # "probing" /\ (l.open = "nested" => i = Len(levels))
  BY <1>1, LevelAtWork DEF Closed
<1>3. PICK e : /\ e = l.queue[1] /\ e.is = "end" /\ l.queue # <<>>
               /\ Tail(l.queue) \in Seq(Events) /\ e = Head(l.queue)
  BY <1>1, <1>2, LevelHandling
<1>4. l.known /\ l.open # "none" /\ Passed(l, e.n)
  BY <1>2, <1>3, FirstEvent
<1>5. PICK n \in Nat : n = e.n
  BY <1>2, <1>3, FirstEvent
<1>6. PICK k : k = [l EXCEPT !.queue = Tail(@), !.open = "none", !.told = 0, !.members = @ + 1]
  OBVIOUS
<1>7. /\ k \in LevelSet /\ k.open = "none" /\ k.known = l.known /\ k.told = 0
      /\ k.members = l.members + 1 /\ k.entries = l.entries
  <2>1. l.members + 1 \in Nat
    BY DEF LevelSet
  <2> HIDE DEF Outs
  <2> QED BY <1>3, <1>6, <2>1 DEF LevelSet
<1>8. levels' = [levels EXCEPT ![i] = k]
  <2>1. levels' = [Handled(i) EXCEPT ![i].open = "none", ![i].told = 0, ![i].members = @ + 1]
    BY <1>2, <1>4 DEF Closed
  <2>2. i \in DOMAIN levels
    BY <1>1 DEF AtWork, Busy
  <2> QED BY <1>2, <1>6, <2>1, <2>2 DEF Handled
<1>9. i = Len(levels) /\ levels[i].known /\ k.known
  BY <1>2, <1>4, <1>7
<1>10. /\ SinkStack # <<>> /\ Len(SinkStack) = i
       /\ SinkStack[Len(SinkStack)] = Seen(l, i, i)
       /\ SinkStack' = [SinkStack EXCEPT ![Len(SinkStack)] = Seen(k, i, i)]
  BY <1>1, <1>2, <1>7, <1>8, <1>9, SeenTop
<1>11. Walk = "open" /\ Walk' = "open"
  BY <1>2, WalkIs DEF Closed
<1>12. heard' = <<[call |-> "member_end", bytes |-> n, depth |-> Sink!Depth]>>
  BY <1>2, <1>3, <1>4, <1>5, <1>10 DEF Closed, Sink!Depth
<1>13. PICK s \in SeenSet, z \in SeenSet : s = Seen(l, i, i) /\ z = Seen(k, i, i)
  BY <1>2, <1>7, SeenOf
<1>14. /\ s.told = l.told /\ s.members = l.members /\ s.entries = l.entries
       /\ s.member = MemberSeen(l, i, i)
  BY <1>2, <1>13, SeenOf
<1>15. /\ z.told = 0 /\ z.members = s.members + 1 /\ z.entries = s.entries
       /\ z.member = "none"
  <2>1. z.told = k.told /\ z.members = k.members /\ z.entries = k.entries
    BY <1>7, <1>13, SeenOf
  <2>2. z.member = MemberSeen(k, i, i)
    BY <1>7, <1>13, SeenOf
  <2> QED BY <1>7, <1>14, <2>1, <2>2 DEF MemberSeen
<1>16. CASE l.open = "plain"
  <2>1. l.told = n /\ s.member = "plain"
    BY <1>4, <1>5, <1>14, <1>16 DEF Passed, MemberSeen
  <2>2. z = [s EXCEPT !.member = "none", !.told = 0, !.members = @ + 1]
    BY <1>15, SeenFields
  <2>3. Sink!InTop("plain", [Sink!Top EXCEPT !.member = "none", !.told = 0,
                                             !.members = @ + 1])
    BY <1>10, <1>11, <1>13, <2>1, <2>2 DEF Sink!InTop, Sink!Top
  <2>4. n = Sink!Top.told
    BY <1>10, <1>13, <1>14, <2>1 DEF Sink!Top
  <2>5. Sink!MemberEnd(n)
    BY <1>12, <2>3, <2>4 DEF Sink!MemberEnd
  <2> QED BY <2>5 DEF SinkStep, Sink!Next
<1>17. CASE l.open = "nested"
  <2>1. z.told = s.told /\ s.member = "walked"
    BY <1>2, <1>14, <1>15, <1>17 DEF LevelOK, Told, MemberSeen
  <2>2. z = [s EXCEPT !.member = "none", !.members = @ + 1]
    BY <1>15, <2>1, SeenFields
  <2>3. Sink!InTop("walked", [Sink!Top EXCEPT !.member = "none", !.members = @ + 1])
    BY <1>10, <1>11, <1>13, <2>1, <2>2 DEF Sink!InTop, Sink!Top
  <2>4. Sink!MemberEnd(n)
    BY <1>12, <2>3 DEF Sink!MemberEnd
  <2> QED BY <2>4 DEF SinkStep, Sink!Next
<1> QED BY <1>2, <1>4, <1>16, <1>17 DEF LevelSet

LEMMA SinkContainer ==
  /\ Sink!Container = [member |-> "none", told |-> 0, members |-> 0, entries |-> 0]
  /\ Sink!Container \in SeenSet
BY DEF Sink!Container, SeenSet

(* A level of which nothing was told looks like a new container.            *)
LEMMA NewSeen ==
  ASSUME NEW k \in LevelSet, k.open = "none", k.told = 0, k.members = 0, k.entries = 0,
         NEW i, NEW n
  PROVE  Seen(k, i, n) = Sink!Container
<1>1. MemberSeen(k, i, n) = "none"
  BY DEF MemberSeen
<1> QED BY <1>1, SinkContainer DEF Seen

(* The top level announces its container.                                   *)
LEMMA AnnouncedShown ==
  ASSUME NEW u, PathShape(u), NEW n \in Nat \ {0}, n = Len(u), ~u[n].known,
         NEW k \in LevelSet, k.known, NEW c \in SeenSet, Seen(k, n, n) = c,
         NEW v \in Seq(LevelSet), Len(v) = n, v[n] = k,
         \A j \in 1..n : j # n => v[j] = u[j]
  PROVE  /\ ShownStack(v) = Append(ShownStack(u), c)
         /\ ShownStack(u) \in Seq(SeenSet) /\ Len(ShownStack(u)) = n - 1
         /\ n # 1 => ShownStack(u)[n - 1].member = "nested"
<1>1. /\ u \in Seq(LevelSet) /\ n \in 1..n /\ n - 1 \in 0..n /\ n \in 0..n
      /\ \A j \in 1..(n - 1) : u[j].known /\ u[j].open = "nested"
  BY DEF PathShape
<1>2. /\ v \in Seq(LevelSet) /\ Len(v) = n /\ v[n] = k
      /\ \A j \in 1..n : j # n => v[j] = u[j]
  OBVIOUS
<1>3. \A j \in 1..(n - 1) : j \in 1..n /\ j # n
  OBVIOUS
<1>4. PathShape(v)
  BY <1>1, <1>2, <1>3 DEF PathShape
<1>5. PICK x, y : x = ShownStack(u) /\ y = ShownStack(v)
  OBVIOUS
<1>6. x \in Seq(SeenSet) /\ Len(x) = n - 1 /\ \A j \in 1..(n - 1) : x[j] = Seen(u[j], j, n)
  <2>1. PICK t \in 0..n : t = n - 1
    BY <1>1
  <2>2. n = 0 \/ (u[n].known /\ t = n) \/ (~u[n].known /\ t = n - 1)
    BY <2>1
  <2>3. x \in Seq(SeenSet)
    BY <1>5, <2>2, ShapeSeen
  <2>4. Len(x) = t
    BY <1>5, <2>2, ShapeSeen
  <2>5. \A j \in 1..t : ShownStack(u)[j] = Seen(u[j], j, n)
    BY <2>2, ShapeSeen
  <2> QED BY <1>5, <2>1, <2>3, <2>4, <2>5
<1>7. y \in Seq(SeenSet) /\ Len(y) = n /\ \A j \in 1..n : y[j] = Seen(v[j], j, n)
  <2>1. PICK t \in 0..n : t = n
    BY <1>1
  <2>2. n = Len(v) /\ (n = 0 \/ (v[n].known /\ t = n) \/ (~v[n].known /\ t = n - 1))
    BY <1>2, <2>1
  <2>3. y \in Seq(SeenSet)
    BY <1>4, <1>5, <2>2, ShapeSeen
  <2>4. Len(y) = t
    BY <1>4, <1>5, <2>2, ShapeSeen
  <2>5. \A j \in 1..t : ShownStack(v)[j] = Seen(v[j], j, n)
    BY <1>4, <2>2, ShapeSeen
  <2> QED BY <1>5, <2>1, <2>3, <2>4, <2>5
<1>8. PICK z : z = Append(x, c)
  OBVIOUS
<1>9. /\ z \in Seq(SeenSet) /\ Len(z) = n /\ z[n] = c
       /\ \A j \in 1..(n - 1) : z[j] = x[j]
  BY <1>6, <1>8, AppendProperties
<1>10. \A j \in 1..n : y[j] = z[j]
  <2> TAKE j \in 1..n
  <2>1. CASE j = n
    BY <1>2, <1>7, <1>9, <2>1
  <2>2. CASE j # n
    <3>1. j \in 1..(n - 1)
      BY <2>2
    <3> QED BY <1>2, <1>6, <1>7, <1>9, <2>2, <3>1
  <2> QED BY <2>1, <2>2
<1>11. y = z
  BY <1>7, <1>9, <1>10, SeqEqual
<1>12. n # 1 => x[n - 1].member = "nested"
  <2>1. HAVE n # 1
  <2>2. n - 1 \in 1..(n - 1) /\ n - 1 \in 1..n /\ n - 1 # n
    BY <2>1
  <2>3. PICK l \in LevelSet : l = u[n - 1] /\ l.open = "nested"
    BY <1>1, <2>2, ElementOfSeq
  <2>4. x[n - 1] = Seen(l, n - 1, n)
    BY <1>6, <2>2, <2>3
  <2>5. MemberSeen(l, n - 1, n) = "nested"
    BY <2>2, <2>3 DEF MemberSeen
  <2> QED BY <2>4, <2>5, SeenOf
<1> QED BY <1>5, <1>6, <1>8, <1>11, <1>12

LEMMA AnnouncedSeen == ASSUME StackInv, NEW i, Announced(i) PROVE SinkStep
<1>1. Handling(i, "announce") /\ AtWork(i)
  BY DEF Announced, Handling
<1>2. PICK l \in LevelSet : /\ l = levels[i] /\ LevelOK(l) /\ i \in 1..Len(levels)
                            /\ phase = "run" /\ (i # Len(levels) => l.open = "nested")
                            /\ levels # <<>>
  BY <1>1, LevelAtWork
<1>3. PICK e : /\ e = l.queue[1] /\ e.is = "announce" /\ l.queue # <<>>
               /\ Tail(l.queue) \in Seq(Events)
  BY <1>1, <1>2, LevelHandling
<1>4. ~l.known /\ l.reader.format # "detect"
  BY <1>2, <1>3, FirstEvent
<1>5. l.open = "none" /\ l.members = 0 /\ l.entries = 0 /\ l.told = 0
  BY <1>2, <1>4 DEF LevelOK, Told
<1>6. PICK n \in Nat \ {0} : n = Len(levels) /\ n = i
  BY <1>2, <1>5
<1>7. PICK k : k = [l EXCEPT !.queue = Tail(@), !.known = TRUE]
  OBVIOUS
<1>8. /\ k \in LevelSet /\ k.known /\ k.open = "none" /\ k.told = 0
      /\ k.members = 0 /\ k.entries = 0
  <2> HIDE DEF Outs
  <2> QED BY <1>3, <1>5, <1>7 DEF LevelSet
<1>9. levels' = [levels EXCEPT ![i] = k]
  <2>1. levels' = [Handled(i) EXCEPT ![i].known = TRUE]
    BY DEF Announced
  <2>2. i \in DOMAIN levels
    BY <1>1 DEF AtWork, Busy
  <2> QED BY <1>2, <1>7, <2>1, <2>2 DEF Handled
<1>10. PICK u, v : u = levels /\ v = levels'
  OBVIOUS
<1>11. /\ ShownStack(v) = Append(ShownStack(u), Sink!Container)
       /\ ShownStack(u) \in Seq(SeenSet) /\ Len(ShownStack(u)) = n - 1
       /\ n # 1 => ShownStack(u)[n - 1].member = "nested"
  <2>1. /\ PathShape(u) /\ n = Len(u) /\ ~u[n].known
        /\ v \in Seq(LevelSet) /\ Len(v) = n /\ v[n] = k
        /\ \A j \in 1..n : j # n => v[j] = u[j]
    <3>1. PathShape(u) /\ n = Len(u) /\ ~u[n].known
      BY <1>2, <1>4, <1>6, <1>10, StackShape
    <3>2. u \in Seq(LevelSet) /\ n \in 1..Len(u) /\ v = [u EXCEPT ![n] = k]
      BY <1>6, <1>9, <1>10, <3>1 DEF PathShape
    <3> QED BY <1>8, <3>1, <3>2, ExceptSeq
  <2>2. PICK c \in SeenSet : c = Sink!Container /\ Seen(k, n, n) = c
    BY <1>8, NewSeen, SinkContainer
  <2>3. ShownStack(v) = Append(ShownStack(u), c)
    BY <1>8, <2>1, <2>2, AnnouncedShown
  <2>4. ShownStack(u) \in Seq(SeenSet)
    BY <1>8, <2>1, <2>2, AnnouncedShown
  <2>5. Len(ShownStack(u)) = n - 1
    BY <1>8, <2>1, <2>2, AnnouncedShown
  <2>6. n # 1 => ShownStack(u)[n - 1].member = "nested"
    BY <1>8, <2>1, <2>2, AnnouncedShown
  <2> QED BY <2>2, <2>3, <2>4, <2>5, <2>6
<1>12. PICK x \in Seq(SeenSet) : /\ x = SinkStack /\ SinkStack' = Append(x, Sink!Container)
                                 /\ Len(x) = n - 1
                                 /\ n # 1 => x[n - 1].member = "nested"
  BY <1>10, <1>11, ShownIsSink
<1>13. IF x = <<>> THEN heard = <<>> ELSE Sink!Top.member = "nested"
  <2>1. CASE n = 1
    <3>1. x = <<>>
      BY <1>12, <2>1, EmptySeq
    <3>2. heard = <<>>
      BY <1>2, <1>4, <1>6, <2>1 DEF StackInv, HeardInv
    <3> QED BY <3>1, <3>2
  <2>2. CASE n # 1
    <3>1. x # <<>>
      BY <1>12, <2>2, EmptySeq
    <3> QED BY <1>12, <2>2, <3>1 DEF Sink!Top
  <2> QED BY <2>1, <2>2
<1>14. PICK kind \in Sink!Kinds : kind = KindOf(l.reader)
  <2>1. l.reader.format \in {"zip", "tar", "single"}
    BY <1>4 DEF LevelSet, Outs
  <2>2. KindOf(l.reader) \in {"zip", "tar", "tar+gzip", "gzip"}
    BY <2>1 DEF KindOf
  <2> QED BY <2>2 DEF Sink!Kinds
<1>15. heard' = <<[call |-> "container_start", kind |-> kind, depth |-> Sink!Depth + 1]>>
  <2>1. Sink!Depth + 1 = i - 1
    BY <1>6, <1>12 DEF Sink!Depth
  <2>2. heard' = <<[call |-> "container_start", kind |-> KindOf(l.reader), depth |-> i - 1]>>
    BY <1>2, <1>4 DEF Announced
  <2> QED BY <1>14, <2>1, <2>2
<1>16. Walk = "open" /\ Walk' = Walk
  BY <1>2, WalkIs DEF Announced
<1>17. Sink!ContainerStart(kind)
  BY <1>12, <1>13, <1>15, <1>16 DEF Sink!ContainerStart
<1> QED BY <1>17 DEF SinkStep, Sink!Next

(* The first t levels are announced.                                        *)
LEMMA ShapeShown ==
  ASSUME NEW u, PathShape(u), NEW n \in Nat \ {0}, n = Len(u), NEW t \in 0..n,
         IF u[n].known THEN t = n ELSE t = n - 1
  PROVE  /\ ShownStack(u) \in Seq(SeenSet) /\ Len(ShownStack(u)) = t
         /\ \A j \in 1..t : ShownStack(u)[j] = Seen(u[j], j, n)
<1>1. n = 0 \/ (u[n].known /\ t = n) \/ (~u[n].known /\ t = n - 1)
  OBVIOUS
<1>2. ShownStack(u) \in Seq(SeenSet)
  BY <1>1, ShapeSeen
<1>3. Len(ShownStack(u)) = t
  BY <1>1, ShapeSeen
<1>4. \A j \in 1..t : ShownStack(u)[j] = Seen(u[j], j, n)
  BY <1>1, ShapeSeen
<1> QED BY <1>2, <1>3, <1>4

\* The levels v are u with the top level h instead, and t above it.
Deeper(u, v, n, h, t) ==
  /\ v \in Seq(LevelSet) /\ Len(v) = n + 1 /\ v[n] = h /\ v[n + 1] = t
  /\ \A j \in 1..n : j # n => v[j] = u[j]

(* The member of the top level turns out to be a container.                 *)
LEMMA NestedShown ==
  ASSUME NEW u, PathShape(u), NEW n \in Nat \ {0}, n = Len(u), u[n].known,
         NEW h \in LevelSet, h.known, h.open = "nested", NEW l \in LevelSet,
         NEW v, Deeper(u, v, n, h, l),
         NEW c \in SeenSet, Seen(l, n + 1, n + 1) = c,
         NEW w \in Seq(SeenSet), Len(w) = n, w[n] = Seen(h, n, n + 1),
         \A j \in 1..n : j # n => w[j] = ShownStack(u)[j]
  PROVE  /\ l.known => ShownStack(v) = Append(w, c)
         /\ ~l.known => ShownStack(v) = w
<1>1. PICK x : x = ShownStack(u)
  OBVIOUS
<1>2. /\ u \in Seq(LevelSet) /\ n \in 1..n /\ n \in 0..n
      /\ \A j \in 1..(n - 1) : u[j].known /\ u[j].open = "nested"
  BY DEF PathShape
<1>3. /\ v \in Seq(LevelSet) /\ Len(v) = n + 1 /\ v[n] = h /\ v[n + 1] = l
      /\ \A j \in 1..n : j # n => v[j] = u[j]
  BY DEF Deeper
<1>4. \A j \in 1..n : j # n => j \in 1..(n - 1)
  OBVIOUS
<1>5. PathShape(v)
  <2>1. \A j \in 1..(Len(v) - 1) : j \in 1..n
    BY <1>3
  <2>2. \A j \in 1..n : v[j].known /\ v[j].open = "nested"
    BY <1>2, <1>3, <1>4
  <2> QED BY <1>3, <2>1, <2>2 DEF PathShape
<1>6. x \in Seq(SeenSet) /\ Len(x) = n /\ \A j \in 1..n : x[j] = Seen(u[j], j, n)
  <2>1. PICK t \in 0..n : t = n /\ IF u[n].known THEN t = n ELSE t = n - 1
    BY <1>2
  <2>2. ShownStack(u) \in Seq(SeenSet)
    BY <2>1, ShapeShown
  <2>3. Len(ShownStack(u)) = t
    BY <2>1, ShapeShown
  <2>4. \A j \in 1..t : ShownStack(u)[j] = Seen(u[j], j, n)
    BY <2>1, ShapeShown
  <2> QED BY <1>1, <2>1, <2>2, <2>3, <2>4
<1>7. /\ w \in Seq(SeenSet) /\ Len(w) = n /\ w[n] = Seen(h, n, n + 1)
      /\ \A j \in 1..n : j # n => w[j] = x[j]
  BY <1>1
<1>8. PICK d \in Nat \ {0}, t \in 0..(n + 1) :
         /\ d = Len(v) /\ t \in 0..d /\ (IF l.known THEN t = n + 1 ELSE t = n)
         /\ IF v[d].known THEN t = d ELSE t = d - 1
  <2>1. n + 1 \in Nat \ {0} /\ n \in 0..(n + 1) /\ n + 1 \in 0..(n + 1)
    BY <1>2
  <2>2. PICK d \in Nat \ {0} : d = n + 1
    BY <2>1
  <2>3. PICK t \in 0..(n + 1) : IF l.known THEN t = n + 1 ELSE t = n
    BY <2>1
  <2>4. v[d] = l /\ Len(v) = d
    BY <1>3, <2>2
  <2>5. IF v[d].known THEN t = d ELSE t = d - 1
    BY <2>2, <2>3, <2>4
  <2> QED BY <2>1, <2>2, <2>3, <2>4, <2>5
<1>9. PICK y : y = ShownStack(v)
  OBVIOUS
<1>10. y \in Seq(SeenSet) /\ Len(y) = t /\ \A j \in 1..t : y[j] = Seen(v[j], j, n + 1)
  <2>1. ShownStack(v) \in Seq(SeenSet)
    BY <1>5, <1>8, ShapeShown
  <2>2. Len(ShownStack(v)) = t
    BY <1>5, <1>8, ShapeShown
  <2>3. \A j \in 1..t : ShownStack(v)[j] = Seen(v[j], j, d)
    BY <1>5, <1>8, ShapeShown
  <2>4. d = n + 1
    BY <1>3, <1>8
  <2> QED BY <1>9, <2>1, <2>2, <2>3, <2>4
<1>11. \A j \in 1..n : w[j] = Seen(v[j], j, n + 1)
  <2> TAKE j \in 1..n
  <2>1. CASE j = n
    BY <1>3, <1>7, <2>1
  <2>2. CASE j # n
    <3>1. PICK k \in LevelSet : k = u[j] /\ k = v[j] /\ k.open = "nested"
      <4>1. u[j] \in LevelSet /\ u[j].open = "nested"
        BY <1>2, <1>3, <1>4, <2>2, ElementOfSeq
      <4> QED BY <1>3, <2>2, <4>1
    <3>2. Seen(k, j, n) = Seen(k, j, n + 1)
      <4>1. MemberSeen(k, j, n) = "nested" /\ MemberSeen(k, j, n + 1) = "nested"
        <5>1. j # n + 1
          OBVIOUS
        <5> QED BY <2>2, <3>1, <5>1 DEF MemberSeen
      <4> QED BY <4>1 DEF Seen
    <3> QED BY <1>6, <1>7, <2>2, <3>1, <3>2
  <2> QED BY <2>1, <2>2
<1>12. CASE ~l.known
  <2>1. t = n
    BY <1>8, <1>12
  <2>2. \A j \in 1..n : y[j] = w[j]
    BY <1>10, <1>11, <2>1
  <2>3. y = w
    BY <1>7, <1>10, <2>1, <2>2, SeqEqual
  <2> QED BY <1>9, <1>12, <2>3
<1>13. CASE l.known
  <2>1. t = n + 1
    BY <1>8, <1>13
  <2>2. PICK z : z = Append(w, c)
    OBVIOUS
  <2>3. /\ z \in Seq(SeenSet) /\ Len(z) = n + 1 /\ z[n + 1] = c
        /\ \A j \in 1..n : z[j] = w[j]
    BY <1>7, <2>2, AppendProperties
  <2>4. \A j \in 1..(n + 1) : y[j] = z[j]
    <3> TAKE j \in 1..(n + 1)
    <3>1. CASE j = n + 1
      BY <1>3, <1>10, <2>1, <2>3, <3>1
    <3>2. CASE j # n + 1
      <4>1. j \in 1..n
        BY <3>2
      <4> QED BY <1>10, <1>11, <2>1, <2>3, <4>1
    <3> QED BY <3>1, <3>2
  <2>5. y = z
    BY <1>10, <2>1, <2>3, <2>4, SeqEqual
  <2> QED BY <1>9, <1>13, <2>2, <2>5
<1> QED BY <1>12, <1>13

(* Two callbacks of one step.                                               *)
LEMMA TwoHeard == ASSUME NEW d, NEW e PROVE <<d, e>> = <<d>> \o <<e>>
<1>1. <<d, e>> = Append(<<d>>, e)
  OBVIOUS
<1>2. <<d>> \in Seq({d, e}) /\ e \in {d, e}
  OBVIOUS
<1>3. Append(<<d>>, e) = <<d>> \o <<e>>
  BY <1>2, AppendIsConcat
<1> QED BY <1>1, <1>3

\* What the sink sees of that.
Nests(x, y, n, known) ==
  /\ x \in Seq(SeenSet) /\ Len(x) = n /\ x # <<>> /\ x[Len(x)].member = "none"
  /\ known => y = Append([x EXCEPT ![Len(x)].member = "nested"], Sink!Container)
  /\ ~known => y = [x EXCEPT ![Len(x)].member = "nested"]

LEMMA NestedShows ==
  ASSUME NEW u, PathShape(u), NEW n \in Nat \ {0}, n = Len(u),
         NEW l \in LevelSet, u[n] = l, l.known, l.open = "probing",
         NEW h \in LevelSet, h.known, h.open = "nested", h.told = l.told,
         h.members = l.members, h.entries = l.entries,
         NEW t \in LevelSet, t.open = "none", t.told = 0, t.members = 0, t.entries = 0,
         NEW v, Deeper(u, v, n, h, t)
  PROVE  Nests(ShownStack(u), ShownStack(v), n, t.known)
<1>1. PICK s \in SeenSet : s = Seen(h, n, n + 1)
  BY SeenOf
<1>2. PICK c \in SeenSet : Seen(t, n + 1, n + 1) = c /\ c = Sink!Container
  <2>1. Seen(t, n + 1, n + 1) = Sink!Container
    BY NewSeen
  <2> QED BY <2>1, SinkContainer
<1>3. PICK x \in Seq(SeenSet) : x = ShownStack(u) /\ Len(x) = n /\ x[n] = Seen(l, n, n)
  <2>1. PICK m \in 0..n : m = n /\ IF u[n].known THEN m = n ELSE m = n - 1
    <3>1. n \in 0..n
      OBVIOUS
    <3> QED BY <3>1
  <2>2. ShownStack(u) \in Seq(SeenSet)
    BY <2>1, ShapeShown
  <2>3. Len(ShownStack(u)) = m
    BY <2>1, ShapeShown
  <2>4. \A j \in 1..m : ShownStack(u)[j] = Seen(u[j], j, n)
    BY <2>1, ShapeShown
  <2>5. n \in 1..n
    OBVIOUS
  <2> QED BY <2>1, <2>2, <2>3, <2>4, <2>5
<1>4. PICK a \in SeenSet : /\ a = Seen(l, n, n) /\ a.member = "none"
                            /\ s = [a EXCEPT !.member = "nested"]
  <2>1. PICK a \in SeenSet : a = Seen(l, n, n)
    BY SeenOf
  <2>2. /\ a.member = MemberSeen(l, n, n) /\ a.told = l.told /\ a.members = l.members
        /\ a.entries = l.entries
    BY <2>1, SeenOf
  <2>3. /\ s.member = MemberSeen(h, n, n + 1) /\ s.told = h.told
        /\ s.members = h.members /\ s.entries = h.entries
    BY <1>1, SeenOf
  <2>4. MemberSeen(l, n, n) = "none" /\ MemberSeen(h, n, n + 1) = "nested"
    BY DEF MemberSeen
  <2>5. /\ s.entries = a.entries /\ s.member = "nested" /\ s.told = a.told
        /\ s.members = a.members
    BY <2>2, <2>3, <2>4
  <2>6. s = [a EXCEPT !.member = "nested"]
    BY <2>5, SeenFields
  <2> QED BY <2>1, <2>2, <2>4, <2>6
<1>5. PICK w : w = [x EXCEPT ![n] = s]
  OBVIOUS
<1>6. /\ w \in Seq(SeenSet) /\ Len(w) = n /\ w[n] = Seen(h, n, n + 1)
      /\ \A j \in 1..n : j # n => w[j] = ShownStack(u)[j]
  <2>1. n \in 1..n
    OBVIOUS
  <2> QED BY <1>1, <1>3, <1>5, <2>1, ExceptSeq
<1>7. t.known => ShownStack(v) = Append(w, c)
  BY <1>2, <1>6, NestedShown
<1>8. ~t.known => ShownStack(v) = w
  BY <1>2, <1>6, NestedShown
<1>9. x # <<>>
  BY <1>3, EmptySeq
<1>10. w = [x EXCEPT ![Len(x)].member = "nested"] /\ x[Len(x)].member = "none"
  BY <1>3, <1>4, <1>5
<1> QED BY <1>2, <1>3, <1>7, <1>8, <1>9, <1>10 DEF Nests

(* A nested member, and the start of its container when the kind is known.  *)
LEMMA NestedSeen ==
  ASSUME StackInv, NEW i, AtWork(i), i = Len(levels), NEW l \in LevelSet, l = levels[i],
         l.known, l.open = "probing", NEW h \in LevelSet, h.known, h.open = "nested",
         h.told = l.told, h.members = l.members, h.entries = l.entries,
         NEW n \in Nat, NEW format \in Formats(n),
         levels' = Append([levels EXCEPT ![i] = h], Level(format, n)),
         heard' = <<MemberStart(TRUE, i - 1)>> \o ContainerStart(format, i),
         phase' = phase
  PROVE  SinkStep
<1>1. /\ phase = "run" /\ i \in 1..i /\ i \in Nat \ {0} /\ levels \in Seq(LevelSet)
      /\ i \in 0..i
  BY LevelAtWork
<1>2. format \in {"zip", "detect", "tar"}
  BY DEF Formats
<1>3. PICK t : t = Level(format, n)
  OBVIOUS
<1>4. /\ t \in LevelSet /\ t.open = "none" /\ t.told = 0 /\ t.members = 0
      /\ t.entries = 0 /\ (t.known <=> format # "detect")
  <2>1. /\ LevelOK(t) /\ t.open = "none" /\ t.told = 0 /\ t.members = 0
        /\ t.entries = 0 /\ (t.known <=> format # "detect")
    BY <1>2, <1>3, NewLevel
  <2> QED BY <2>1 DEF LevelOK
<1>5. PICK u, v : u = levels /\ v = levels'
  OBVIOUS
<1>6. /\ v \in Seq(LevelSet) /\ Len(v) = i + 1 /\ v[i] = h /\ v[i + 1] = t
      /\ \A j \in 1..i : j # i => v[j] = u[j]
  <2>1. PICK w : w = [levels EXCEPT ![i] = h]
    OBVIOUS
  <2>2. /\ w \in Seq(LevelSet) /\ Len(w) = i /\ w[i] = h
        /\ \A j \in 1..i : j # i => w[j] = levels[j]
    BY <1>1, <2>1, ExceptSeq
  <2>3. v = Append(w, t)
    BY <1>3, <1>5, <2>1
  <2>4. /\ v \in Seq(LevelSet) /\ Len(v) = i + 1 /\ v[i + 1] = t
        /\ \A j \in 1..i : v[j] = w[j]
    BY <1>4, <2>2, <2>3, AppendProperties
  <2> QED BY <1>1, <1>5, <2>2, <2>4
<1>7. PICK n1 \in Nat \ {0} : n1 = i
  BY <1>1
<1>8. Nests(SinkStack, SinkStack', i, t.known)
  <2>1. PathShape(u) /\ n1 = Len(u) /\ u[n1] = l
    BY <1>1, <1>5, <1>7, StackShape
  <2>2. Deeper(u, v, n1, h, t)
    BY <1>6, <1>7 DEF Deeper
  <2>3. Nests(ShownStack(u), ShownStack(v), n1, t.known)
    BY <1>4, <2>1, <2>2, NestedShows
  <2> QED BY <1>5, <1>7, <2>3, ShownIsSink
<1>9. PICK x : x = SinkStack /\ Len(x) = i /\ x # <<>> /\ x[Len(x)].member = "none"
  BY <1>8 DEF Nests
<1>10. Sink!Depth = i - 1 /\ Sink!Top = x[Len(x)]
  BY <1>9 DEF Sink!Depth, Sink!Top
<1>11. Walk = "open" /\ Walk' = Walk
  BY <1>1, WalkIs
<1>12. MemberStart(TRUE, i - 1) = Sink!Started(TRUE)
  BY <1>10 DEF MemberStart, Sink!Started
<1>13. CASE format = "detect"
  <2>1. SinkStack' = [SinkStack EXCEPT ![Len(SinkStack)].member = "nested"]
    BY <1>4, <1>8, <1>13 DEF Nests
  <2>2. Sink!InTop("none", [Sink!Top EXCEPT !.member = "nested"])
    BY <1>9, <1>10, <1>11, <2>1 DEF Sink!InTop
  <2>3. heard' = <<Sink!Started(TRUE)>>
    <3>1. PICK e : e = Sink!Started(TRUE)
      OBVIOUS
    <3>2. ContainerStart(format, i) = <<>>
      BY <1>13 DEF ContainerStart
    <3>3. heard' = <<e>> \o <<>>
      BY <1>12, <3>1, <3>2
    <3>4. <<e>> \o <<>> = <<e>>
      OBVIOUS
    <3> QED BY <3>1, <3>3, <3>4
  <2>4. Sink!NestedStart
    BY <2>2, <2>3 DEF Sink!NestedStart
  <2> QED BY <2>4 DEF SinkStep, Sink!Next
<1>14. CASE format # "detect"
  <2>1. format \in Sink!Kinds
    BY <1>2, <1>14 DEF Sink!Kinds
  <2>2. SinkStack' = Append([SinkStack EXCEPT ![Len(SinkStack)].member = "nested"],
                            Sink!Container)
    BY <1>4, <1>8, <1>14 DEF Nests
  <2>3. heard' = <<Sink!Started(TRUE),
                   [call |-> "container_start", kind |-> format, depth |-> Sink!Depth + 1]>>
    <3>1. PICK d, e : /\ d = Sink!Started(TRUE)
                      /\ e = [call |-> "container_start", kind |-> format, depth |-> i]
      OBVIOUS
    <3>2. ContainerStart(format, i) = <<e>>
      BY <1>14, <3>1 DEF ContainerStart
    <3>3. heard' = <<d>> \o <<e>>
      BY <1>12, <3>1, <3>2
    <3>4. <<d, e>> = <<d>> \o <<e>>
      BY TwoHeard
    <3>5. Sink!Depth + 1 = i
      BY <1>1, <1>10
    <3> QED BY <3>1, <3>3, <3>4, <3>5
  <2>4. Sink!NestedContainerStart(format)
    BY <1>9, <1>10, <1>11, <2>2, <2>3 DEF Sink!NestedContainerStart
  <2> QED BY <2>1, <2>4 DEF SinkStep, Sink!Next
<1> QED BY <1>13, <1>14

LEMMA DecideSeen ==
  ASSUME StackInv, Lengths = Nat, NEW i, AtWork(i), i = Len(levels),
         NEW l \in LevelSet, l = levels[i], l.known, l.open = "probing", l.told = 0,
         NEW m \in LevelSet, m.open = l.open, m.known, m.told = l.told,
         m.members = l.members, m.entries = l.entries,
         NEW lvls, lvls = [levels EXCEPT ![i] = m], NEW n \in Nat, Decide(lvls, i, n)
  PROVE  SinkStep
<1>1. phase = "run" /\ i \in DOMAIN levels /\ i \in 1..Len(levels)
  BY LevelAtWork DEF AtWork, Busy
<1>2. CASE Reject /\ levels' = lvls
  <2>1. /\ levels' = [levels EXCEPT ![i] = m] /\ (m.known <=> levels[i].known)
        /\ Seen(m, i, Len(levels)) = Seen(levels[i], i, Len(levels))
    <3>1. MemberSeen(m, i, Len(levels)) = MemberSeen(l, i, Len(levels))
      BY DEF MemberSeen
    <3>2. levels' = [levels EXCEPT ![i] = m] /\ (m.known <=> levels[i].known)
      BY <1>2
    <3> QED BY <3>1, <3>2 DEF Seen
  <2>2. SinkStack' = SinkStack
    BY <1>1, <2>1, UnseenLevel
  <2> QED BY <1>1, <1>2, <2>2, RejectSeen
<1>3. CASE /\ levels' = [lvls EXCEPT ![i].open = "plain", ![i].probe = 0, ![i].told = n]
           /\ heard' = <<MemberStart(FALSE, i - 1), MemberBytes(n, i - 1)>>
           /\ UNCHANGED <<phase, outer, ending, pushed>>
  <2>1. PICK k : k = [m EXCEPT !.open = "plain", !.probe = 0, !.told = n]
    OBVIOUS
  <2>2. /\ k \in LevelSet /\ k.open = "plain" /\ k.known /\ k.told = n
        /\ k.members = m.members /\ k.entries = m.entries
    <3> HIDE DEF Outs
    <3> QED BY <2>1 DEF LevelSet
  <2>3. levels' = [levels EXCEPT ![i] = k]
    BY <1>1, <1>3, <2>1
  <2>4. /\ SinkStack # <<>> /\ Len(SinkStack) = i
        /\ SinkStack[Len(SinkStack)] = Seen(l, i, i)
        /\ SinkStack' = [SinkStack EXCEPT ![Len(SinkStack)] = Seen(k, i, i)]
    <3>1. levels[i].known /\ k.known
      BY <2>2
    <3> QED BY <2>2, <2>3, <3>1, SeenTop
  <2>5. PICK s \in SeenSet, z \in SeenSet : s = Seen(l, i, i) /\ z = Seen(k, i, i)
    BY <2>2, SeenOf
  <2>6. /\ s.member = MemberSeen(l, i, i) /\ s.members = l.members /\ s.entries = l.entries
    BY <2>5, SeenOf
  <2>7. /\ z.member = MemberSeen(k, i, i) /\ z.told = n /\ z.members = l.members
        /\ z.entries = l.entries
    BY <2>2, <2>5, SeenOf
  <2>8. s.member = "none" /\ z.member = "plain"
    BY <2>2, <2>6, <2>7 DEF MemberSeen
  <2>9. z = [s EXCEPT !.member = "plain", !.told = n]
    <3>1. z.entries = s.entries /\ z.members = s.members
      BY <2>6, <2>7
    <3>2. z.told = n /\ z.member = "plain"
      BY <2>7, <2>8
    <3> QED BY <3>1, <3>2 DEF SeenSet
  <2>10. Walk = "open" /\ Walk' = "open"
    BY <1>1, <1>3, WalkIs
  <2>11. Sink!InTop("none", [Sink!Top EXCEPT !.member = "plain", !.told = n])
    BY <2>4, <2>5, <2>8, <2>9, <2>10 DEF Sink!InTop, Sink!Top
  <2>12. heard' = <<Sink!Started(FALSE), Sink!Bytes(n)>>
    BY <1>3, <2>4 DEF Sink!Depth, Sink!Started, Sink!Bytes, MemberStart, MemberBytes
  <2>13. Sink!MemberStart(n)
    BY <2>11, <2>12 DEF Sink!MemberStart
  <2> QED BY <2>13 DEF SinkStep, Sink!Next
<1>4. ASSUME NEW format \in Formats(n),
             levels' = Append([lvls EXCEPT ![i].open = "nested", ![i].probe = 0],
                              Level(format, n)),
             heard' = <<MemberStart(TRUE, i - 1)>> \o ContainerStart(format, i),
             UNCHANGED <<phase, outer, ending, pushed>>
      PROVE  SinkStep
  <2>1. PICK h : h = [m EXCEPT !.open = "nested", !.probe = 0]
    OBVIOUS
  <2>2. /\ h \in LevelSet /\ h.open = "nested" /\ h.known /\ h.told = l.told
        /\ h.members = l.members /\ h.entries = l.entries
    <3> HIDE DEF Outs
    <3> QED BY <2>1 DEF LevelSet
  <2>3. levels' = Append([levels EXCEPT ![i] = h], Level(format, n))
    BY <1>1, <1>4, <2>1
  <2>4. phase' = phase
    BY <1>4
  <2> QED BY <1>4, <2>2, <2>3, <2>4, NestedSeen
<1> QED BY <1>2, <1>3, <1>4 DEF Decide

LEMMA DecidedByProbeSeen ==
  ASSUME StackInv, Lengths = Nat, NEW i, DecidedByProbe(i) PROVE SinkStep
<1>1. Handling(i, "bytes") /\ AtWork(i)
  BY DEF DecidedByProbe, Handling
<1>2. PICK l \in LevelSet : /\ l = levels[i] /\ LevelOK(l) /\ i \in 1..Len(levels)
                            /\ l.open = "probing" /\ (i # Len(levels) => l.open = "nested")
  BY <1>1, LevelAtWork DEF DecidedByProbe
<1>3. PICK e : /\ e = l.queue[1] /\ e.is = "bytes" /\ l.queue # <<>>
               /\ Tail(l.queue) \in Seq(Events) /\ e = Head(l.queue)
  BY <1>1, <1>2, LevelHandling
<1>4. l.known /\ e.n \in Nat /\ l.told = 0
  <2>1. l.told = 0
    BY <1>2 DEF LevelOK, Told
  <2> QED BY <1>2, <1>3, <2>1, FirstEvent
<1>5. PICK n \in Nat : n = l.probe + e.n
  <2>1. l.probe + e.n \in Nat
    BY <1>4 DEF LevelSet
  <2> QED BY <2>1
<1>6. PICK m, lvls : m = [l EXCEPT !.queue = Tail(@)] /\ lvls = [levels EXCEPT ![i] = m]
  OBVIOUS
<1>7. lvls = Handled(i)
  BY <1>2, <1>6 DEF Handled
<1>8. Decide(lvls, i, n)
  BY <1>2, <1>3, <1>5, <1>7 DEF DecidedByProbe
<1>9. /\ m \in LevelSet /\ m.open = l.open /\ m.known /\ m.told = l.told
      /\ m.members = l.members /\ m.entries = l.entries
  <2> HIDE DEF Outs
  <2> QED BY <1>3, <1>4, <1>6 DEF LevelSet
<1> QED BY <1>1, <1>2, <1>4, <1>6, <1>8, <1>9, DecideSeen

LEMMA DecidedAtEndSeen ==
  ASSUME StackInv, Lengths = Nat, NEW i, DecidedAtEnd(i) PROVE SinkStep
<1>1. Handling(i, "end") /\ AtWork(i)
  BY DEF DecidedAtEnd, Handling
<1>2. PICK l \in LevelSet : /\ l = levels[i] /\ LevelOK(l) /\ i \in 1..Len(levels)
                            /\ l.open = "probing" /\ (i # Len(levels) => l.open = "nested")
  BY <1>1, LevelAtWork DEF DecidedAtEnd
<1>3. PICK e : e = l.queue[1] /\ e.is = "end" /\ l.queue # <<>>
  BY <1>1, <1>2, LevelHandling
<1>4. l.known /\ l.told = 0
  <2>1. l.told = 0
    BY <1>2 DEF LevelOK, Told
  <2> QED BY <1>2, <1>3, <2>1, FirstEvent
<1>5. PICK n \in Nat : n = l.probe
  BY DEF LevelSet
<1>6. levels = [levels EXCEPT ![i] = l]
  <2>1. levels \in Seq(LevelSet)
    BY DEF StackInv, PathInv
  <2> QED BY <1>2, <2>1
<1>7. Decide(levels, i, n)
  BY <1>2, <1>5 DEF DecidedAtEnd
<1> QED BY <1>1, <1>2, <1>4, <1>6, <1>7, DecideSeen

LEMMA FinishTopSeen == ASSUME StackInv, FinishTop PROVE SinkStep
<1>1. PICK n \in Nat : /\ n = Len(levels) /\ n \in 1..n /\ levels \in Seq(LevelSet)
                       /\ levels # <<>> /\ phase = "run"
  BY ClosingTop DEF FinishTop
<1>2. PICK l \in LevelSet : /\ l = levels[n] /\ LevelOK(l) /\ l.queue = <<>> /\ ~l.ended
  <2>1. /\ LevelOK(levels[n]) /\ levels[n].queue = <<>> /\ ~levels[n].ended
    BY <1>1, ClosingTop DEF FinishTop
  <2>2. levels[n] \in LevelSet
    BY <2>1 DEF LevelOK
  <2> QED BY <2>1, <2>2
<1>3. CASE Reject /\ UNCHANGED levels
  BY <1>1, <1>3, SameStack, RejectSeen
<1>4. ASSUME NEW s \in ReaderFinish(l.reader),
             levels' = [levels EXCEPT ![n].reader = [s EXCEPT !.out = <<>>],
                                      ![n].queue = s.out, ![n].ended = TRUE],
             UNCHANGED <<phase, outer, ending, pushed, heard>>
      PROVE  SinkStep
  <2>1. s \in Outs
    BY <1>2, <1>4, FinishedFilled DEF Filled
  <2>2. PICK r, k : /\ r = [s EXCEPT !.out = <<>>]
                    /\ k = [l EXCEPT !.reader = r, !.queue = s.out, !.ended = TRUE]
    OBVIOUS
  <2>3. r \in Outs /\ s.out \in Seq(Events)
    BY <2>1, <2>2, TakenLevel
  <2>4. /\ k \in LevelSet /\ k.known = l.known /\ k.open = l.open /\ k.told = l.told
        /\ k.members = l.members /\ k.entries = l.entries
    <3> HIDE DEF Outs
    <3> QED BY <2>2, <2>3 DEF LevelSet
  <2>5. levels' = [levels EXCEPT ![n] = k]
    BY <1>1, <1>2, <1>4, <2>2
  <2>6. Seen(k, n, Len(levels)) = Seen(levels[n], n, Len(levels))
    <3>1. MemberSeen(k, n, Len(levels)) = MemberSeen(l, n, Len(levels))
      BY <2>4 DEF MemberSeen
    <3> QED BY <1>2, <2>4, <3>1 DEF Seen
  <2>7. SinkStack' = SinkStack
    <3>1. n \in 1..Len(levels) /\ (k.known <=> levels[n].known)
      BY <1>1, <1>2, <2>4
    <3> QED BY <1>1, <2>4, <2>5, <2>6, <3>1, UnseenLevel
  <2>8. phase' = phase /\ heard' = heard
    BY <1>4
  <2> QED BY <1>1, <2>7, <2>8, QuietStep
<1>5. \/ /\ \E s \in ReaderFinish(l.reader) :
              levels' = [levels EXCEPT ![n].reader = [s EXCEPT !.out = <<>>],
                                       ![n].queue = s.out, ![n].ended = TRUE]
         /\ UNCHANGED <<phase, outer, ending, pushed, heard>>
      \/ Reject /\ UNCHANGED levels
  BY <1>1, <1>2 DEF FinishTop
<1> QED BY <1>3, <1>4, <1>5

\* The top level is gone.
Popped(u, v, n) ==
  v \in Seq(LevelSet) /\ Len(v) = n - 1 /\ \A j \in 1..(n - 1) : v[j] = u[j]

\* What the sink sees of that.
Ends(x, y, n) ==
  LET below == SubSeq(x, 1, Len(x) - 1) IN
  /\ x \in Seq(SeenSet) /\ Len(x) = n /\ x # <<>> /\ x[Len(x)].member = "none"
  /\ y = IF below = <<>> THEN below ELSE [below EXCEPT ![Len(below)].member = "walked"]

LEMMA PoppedShows ==
  ASSUME NEW u, PathShape(u), NEW n \in Nat \ {0}, n = Len(u),
         NEW l \in LevelSet, u[n] = l, l.known, l.open = "none", NEW v, Popped(u, v, n)
  PROVE  Ends(ShownStack(u), ShownStack(v), n)
<1>1. /\ u \in Seq(LevelSet) /\ n \in 1..n /\ n \in 0..n
      /\ \A j \in 1..(n - 1) : u[j].known /\ u[j].open = "nested" /\ j \in 1..n
  BY DEF PathShape
<1>2. PICK m \in Nat : m = n - 1
  OBVIOUS
<1>3. /\ v \in Seq(LevelSet) /\ Len(v) = m
      /\ \A j \in 1..m : v[j] = u[j] /\ u[j].known /\ u[j].open = "nested" /\ u[j] \in LevelSet
  <2>1. \A j \in 1..m : u[j] \in LevelSet
    BY <1>1, <1>2, ElementOfSeq
  <2> QED BY <1>1, <1>2, <2>1 DEF Popped
<1>4. PICK x, y : x = ShownStack(u) /\ y = ShownStack(v)
  OBVIOUS
<1>5. x \in Seq(SeenSet) /\ Len(x) = n /\ \A j \in 1..n : x[j] = Seen(u[j], j, n)
  <2>1. PICK t \in 0..n : t = n /\ IF u[n].known THEN t = n ELSE t = n - 1
    BY <1>1
  <2>2. ShownStack(u) \in Seq(SeenSet)
    BY <2>1, ShapeShown
  <2>3. Len(ShownStack(u)) = t
    BY <2>1, ShapeShown
  <2>4. \A j \in 1..t : ShownStack(u)[j] = Seen(u[j], j, n)
    BY <2>1, ShapeShown
  <2> QED BY <1>4, <2>1, <2>2, <2>3, <2>4
<1>6. y \in Seq(SeenSet) /\ Len(y) = m /\ \A j \in 1..m : y[j] = Seen(u[j], j, m)
  <2>1. \A j \in 1..m : v[j].known <=> j <= m
    BY <1>3
  <2>2. PICK t \in 0..m : t = m /\ \A j \in 1..m : v[j].known <=> j <= t
    BY <2>1
  <2>3. ShownStack(v) \in Seq(SeenSet)
    BY <1>3, <2>2, ShownLevels
  <2>4. Len(ShownStack(v)) = t
    BY <1>3, <2>2, ShownLevels
  <2>5. \A j \in 1..t : ShownStack(v)[j] = Seen(v[j], j, m)
    BY <1>3, <2>2, ShownLevels
  <2> QED BY <1>3, <1>4, <2>2, <2>3, <2>4, <2>5
<1>7. x # <<>>
  BY <1>5, EmptySeq
<1>8. x[Len(x)].member = "none"
  <2>1. x[Len(x)] = Seen(l, n, n)
    BY <1>1, <1>5
  <2>2. MemberSeen(l, n, n) = "none"
    BY DEF MemberSeen
  <2> QED BY <2>1, <2>2, SeenOf
<1>9. PICK below : below = SubSeq(x, 1, Len(x) - 1)
  OBVIOUS
<1>10. /\ below \in Seq(SeenSet) /\ Len(below) = m
       /\ \A j \in 1..m : below[j] = x[j]
  <2>1. below = SubSeq(x, 1, m)
    BY <1>2, <1>5, <1>9
  <2>2. \A j \in 1..m : x[j] \in SeenSet
    BY <1>2, <1>5, ElementOfSeq
  <2>3. 1 \in Int /\ m \in Int
    OBVIOUS
  <2> QED BY <2>1, <2>2, <2>3, SubSeqProperties
<1>11. CASE m = 0
  <2>1. below = <<>> /\ y = <<>>
    BY <1>6, <1>10, <1>11, EmptySeq
  <2> QED BY <1>4, <1>5, <1>7, <1>8, <1>9, <2>1 DEF Ends
<1>12. CASE m # 0
  <2>1. below # <<>> /\ m \in 1..m
    BY <1>10, <1>12, EmptySeq
  <2>2. PICK k \in LevelSet : k = u[m] /\ k.open = "nested"
    BY <1>3, <2>1
  <2>3. PICK s \in SeenSet, z \in SeenSet : s = Seen(k, m, n) /\ z = Seen(k, m, m)
    BY SeenOf
  <2>4. z = [s EXCEPT !.member = "walked"]
    <3>1. /\ z.member = MemberSeen(k, m, m) /\ z.told = k.told /\ z.members = k.members
          /\ z.entries = k.entries
      BY <2>3, SeenOf
    <3>2. s.told = k.told /\ s.members = k.members /\ s.entries = k.entries
      BY <2>3, SeenOf
    <3>3. z.member = "walked"
      BY <2>2, <3>1 DEF MemberSeen
    <3>4. z.told = s.told /\ z.members = s.members /\ z.entries = s.entries
      BY <3>1, <3>2
    <3> QED BY <3>3, <3>4, SeenFields
  <2>5. y[m] = z /\ below[m] = s
    <3>1. m \in 1..n
      BY <1>2, <2>1
    <3> QED BY <1>5, <1>6, <1>10, <2>1, <2>2, <2>3, <3>1
  <2>6. PICK w : w = [below EXCEPT ![m] = z]
    OBVIOUS
  <2>7. /\ w \in Seq(SeenSet) /\ Len(w) = m /\ w[m] = z
        /\ \A j \in 1..m : j # m => w[j] = below[j]
    BY <1>10, <2>1, <2>6, ExceptSeq
  <2>8. \A j \in 1..m : y[j] = w[j]
    <3> TAKE j \in 1..m
    <3>1. CASE j = m
      BY <2>5, <2>7, <3>1
    <3>2. CASE j # m
      <4>1. PICK a \in LevelSet : a = u[j] /\ a.open = "nested" /\ j \in 1..n
        BY <1>1, <1>2, <1>3
      <4>2. Seen(a, j, n) = Seen(a, j, m)
        <5>1. MemberSeen(a, j, n) = "nested" /\ MemberSeen(a, j, m) = "nested"
          <6>1. j # n
            BY <1>2
          <6> QED BY <3>2, <4>1, <6>1 DEF MemberSeen
        <5> QED BY <5>1 DEF Seen
      <4> QED BY <1>5, <1>6, <1>10, <2>7, <3>2, <4>1, <4>2
    <3> QED BY <3>1, <3>2
  <2>9. y = w
    BY <1>6, <2>7, <2>8, SeqEqual
  <2>10. w = [below EXCEPT ![Len(below)].member = "walked"]
    BY <1>10, <2>4, <2>5, <2>6
  <2> QED BY <1>4, <1>5, <1>7, <1>8, <1>9, <2>1, <2>9, <2>10 DEF Ends
<1> QED BY <1>11, <1>12

LEMMA PopTopSeen == ASSUME StackInv, PopTop PROVE SinkStep
<1>1. PICK n \in Nat \ {0} : /\ n = Len(levels) /\ n \in 1..n /\ levels \in Seq(LevelSet)
                             /\ levels # <<>> /\ phase = "run"
  <2>1. PICK n \in Nat : /\ n = Len(levels) /\ n \in 1..n /\ levels \in Seq(LevelSet)
                         /\ levels # <<>> /\ phase = "run"
    BY ClosingTop DEF PopTop
  <2> QED BY <2>1
<1>2. PICK l \in LevelSet : l = levels[n] /\ LevelOK(l) /\ l.queue = <<>> /\ l.ended
  <2>1. LevelOK(levels[n]) /\ levels[n].queue = <<>> /\ levels[n].ended
    BY <1>1, ClosingTop DEF PopTop
  <2>2. levels[n] \in LevelSet
    BY <2>1 DEF LevelOK
  <2> QED BY <2>1, <2>2
<1>3. l.open = "none" /\ l.known
  BY <1>2, PoppedLevel
<1>4. levels' = SubSeq(levels, 1, n - 1)
  BY <1>1 DEF PopTop
<1>5. /\ heard' = <<[call |-> "container_end", members |-> l.members,
                     entries |-> l.entries, depth |-> n - 1]>>
      /\ UNCHANGED <<phase, outer, ending, pushed>>
  BY <1>1, <1>2, <1>3 DEF PopTop
<1>6. PICK u, v : u = levels /\ v = levels'
  OBVIOUS
<1>7. Popped(u, v, n)
  <2>1. PICK m \in Nat : m = n - 1 /\ v = SubSeq(u, 1, m)
    BY <1>4, <1>6
  <2>2. \A j \in 1..m : j \in 1..n
    BY <2>1
  <2>3. \A j \in 1..m : u[j] \in LevelSet
    BY <1>1, <1>6, <2>2, ElementOfSeq
  <2>4. 1 \in Int /\ m \in Int
    OBVIOUS
  <2>5. v \in Seq(LevelSet) /\ Len(v) = m /\ \A j \in 1..m : v[j] = u[j]
    BY <2>1, <2>3, <2>4, SubSeqProperties
  <2> QED BY <2>1, <2>5 DEF Popped
<1>8. Ends(SinkStack, SinkStack', n)
  <2>1. PathShape(u) /\ n = Len(u) /\ u[n] = l
    BY <1>1, <1>2, <1>6, StackShape
  <2>2. Ends(ShownStack(u), ShownStack(v), n)
    BY <1>3, <1>7, <2>1, PoppedShows
  <2> QED BY <1>6, <2>2, ShownIsSink
<1>9. PICK x : /\ x = SinkStack /\ Len(x) = n /\ x # <<>> /\ x[Len(x)].member = "none"
  BY <1>8 DEF Ends
<1>10. Sink!Top = Seen(l, n, n)
  <2>1. PICK t \in 0..n : t = n /\ IF u[n].known THEN t = n ELSE t = n - 1
    BY <1>1, <1>2, <1>3, <1>6
  <2>2. PathShape(u) /\ n = Len(u)
    BY <1>1, <1>6, StackShape
  <2>3. \A j \in 1..t : ShownStack(u)[j] = Seen(u[j], j, n)
    BY <2>1, <2>2, ShapeShown
  <2>4. ShownStack(u)[n] = Seen(l, n, n)
    BY <1>1, <1>2, <1>6, <2>1, <2>3
  <2> QED BY <1>6, <1>9, <2>4, ShownIsSink DEF Sink!Top
<1>11. Sink!Top.members = l.members /\ Sink!Top.entries = l.entries /\ Sink!Depth = n - 1
  BY <1>9, <1>10, SeenOf DEF Sink!Depth
<1>12. Walk = "open" /\ Walk' = Walk
  BY <1>1, <1>5, WalkIs
<1>13. Sink!ContainerEnd
  <2>1. Sink!Top.member = "none" /\ SinkStack # <<>>
    BY <1>9 DEF Sink!Top
  <2>2. LET below == SubSeq(SinkStack, 1, Len(SinkStack) - 1)
        IN SinkStack' = IF below = <<>> THEN below
                        ELSE [below EXCEPT ![Len(below)].member = "walked"]
    BY <1>8 DEF Ends
  <2>3. heard' = <<[call |-> "container_end", members |-> Sink!Top.members,
                    entries |-> Sink!Top.entries, depth |-> Sink!Depth]>>
    BY <1>5, <1>11
  <2> QED BY <1>12, <2>1, <2>2, <2>3 DEF Sink!ContainerEnd
<1> QED BY <1>13 DEF SinkStep, Sink!Next

LEMMA NoLevels == ShownStack(<<>>) = <<>>
<1>1. PICK n \in Nat : n = 0
  OBVIOUS
<1>2. PICK u : u = <<>>
  OBVIOUS
<1>3. u \in Seq(LevelSet) /\ n = Len(u) /\ n \in 0..n /\ \A j \in 1..n : u[j].known <=> j <= n
  BY <1>1, <1>2, EmptySeq
<1>4. ShownStack(u) \in Seq(SeenSet)
  BY <1>3, ShownLevels
<1>5. Len(ShownStack(u)) = n
  BY <1>3, ShownLevels
<1>6. ShownStack(u) = <<>>
  BY <1>1, <1>4, <1>5, EmptySeq
<1> QED BY <1>2, <1>6

LEMMA FinishedSeen == ASSUME StackInv, Finished PROVE SinkStep
<1>1. /\ phase = "run" /\ levels = <<>> /\ phase' = "done" /\ levels' = levels
      /\ heard' = heard
  BY DEF Finished
<1>2. heard # <<>>
  BY <1>1 DEF StackInv, HeardInv
<1>3. SinkStack = <<>> /\ SinkStack' = SinkStack
  BY <1>1, NoLevels, ShownIsSink, SameStack
<1>4. Walk = "open" /\ Walk' = "complete"
  BY <1>1, WalkIs
<1>5. Sink!Complete
  BY <1>1, <1>2, <1>3, <1>4 DEF Sink!Complete
<1> QED BY <1>5 DEF SinkStep, Sink!Next

LEMMA StartOuterSeen ==
  ASSUME StackInv, NEW n \in Nat, NEW finishing, StartOuter(n, finishing)
  PROVE  SinkStep
<1>1. phase = "detect" /\ levels = <<>> /\ heard = <<>>
  BY DEF StartOuter, StackInv
<1>2. SinkStack = <<>>
  BY <1>1, NoLevels, ShownIsSink
<1>3. CASE phase' = "rejected" /\ UNCHANGED <<levels, ending, heard>>
  <2>1. SinkStack' = SinkStack
    BY <1>3, SameStack
  <2> QED BY <1>1, <1>3, <2>1, RefusedStep
<1>4. ASSUME NEW format \in Formats(n), phase' = "run", levels' = <<Level(format, n)>>,
             heard' = ContainerStart(format, 0)
      PROVE  SinkStep
  <2>1. format \in {"zip", "detect", "tar"}
    BY DEF Formats
  <2>2. PICK l \in LevelSet : /\ l = Level(format, n) /\ l.open = "none" /\ l.told = 0
                              /\ l.members = 0 /\ l.entries = 0
                              /\ (l.known <=> format # "detect")
    <3>1. PICK l : l = Level(format, n)
      OBVIOUS
    <3>2. /\ LevelOK(l) /\ l.open = "none" /\ l.told = 0 /\ l.members = 0
          /\ l.entries = 0 /\ (l.known <=> format # "detect")
      BY <2>1, <3>1, NewLevel
    <3>3. l \in LevelSet
      BY <3>2 DEF LevelOK
    <3> QED BY <3>1, <3>2, <3>3
  <2>3. PICK v : v = levels'
    OBVIOUS
  <2>4. v \in Seq(LevelSet) /\ Len(v) = 1 /\ v[1] = l
    BY <1>4, <2>2, <2>3
  <2>5. PICK one \in Nat : one = 1
    OBVIOUS
  <2>6. CASE format = "detect"
    <3>1. \A j \in 1..one : v[j].known <=> j <= 0
      BY <2>2, <2>4, <2>5, <2>6
    <3>2. PICK t \in 0..one : t = 0 /\ \A j \in 1..one : v[j].known <=> j <= t
      BY <2>5, <3>1
    <3>3. one = Len(v)
      BY <2>4, <2>5
    <3>4. ShownStack(v) \in Seq(SeenSet)
      BY <2>4, <3>2, <3>3, ShownLevels
    <3>5. Len(ShownStack(v)) = t
      BY <2>4, <3>2, <3>3, ShownLevels
    <3>6. ShownStack(v) = <<>>
      BY <3>2, <3>4, <3>5, EmptySeq
    <3>7. SinkStack' = SinkStack
      BY <1>2, <2>3, <3>6, ShownIsSink
    <3>8. heard' = heard
      BY <1>1, <1>4, <2>6 DEF ContainerStart
    <3> QED BY <1>1, <1>4, <3>7, <3>8, QuietStep
  <2>7. CASE format # "detect"
    <3>1. PathShape(v)
      <4>1. \A j \in 1..(Len(v) - 1) : FALSE
        BY <2>4
      <4> QED BY <2>4, <4>1 DEF PathShape
    <3>2. \A j \in 1..one : v[j].known <=> j <= 1
      BY <2>2, <2>4, <2>5, <2>7
    <3>3. PICK t \in 0..one : t = 1 /\ \A j \in 1..one : v[j].known <=> j <= t
      BY <2>5, <3>2
    <3>4. one = Len(v)
      BY <2>4, <2>5
    <3>5. ShownStack(v) \in Seq(SeenSet)
      BY <2>4, <3>3, <3>4, ShownLevels
    <3>6. Len(ShownStack(v)) = t
      BY <2>4, <3>3, <3>4, ShownLevels
    <3>7. \A j \in 1..t : ShownStack(v)[j] = Seen(v[j], j, one)
      BY <2>4, <3>3, <3>4, ShownLevels
    <3>8. PICK c \in SeenSet : c = Sink!Container
      BY SinkContainer
    <3>9. Seen(l, 1, one) = c
      BY <2>2, <3>8, NewSeen
    <3>10. PICK y : y = ShownStack(v)
      OBVIOUS
    <3>11. y \in Seq(SeenSet) /\ Len(y) = 1 /\ y[1] = c
      BY <2>4, <3>3, <3>5, <3>6, <3>7, <3>9, <3>10
    <3>12. y = Append(<<>>, c)
      BY <3>11
    <3>13. SinkStack' = Append(SinkStack, Sink!Container)
      BY <1>2, <2>3, <3>8, <3>10, <3>12, ShownIsSink
    <3>14. format \in Sink!Kinds
      BY <2>1, <2>7 DEF Sink!Kinds
    <3>15. heard' = <<[call |-> "container_start", kind |-> format,
                       depth |-> Sink!Depth + 1]>>
      <4>1. Sink!Depth + 1 = 0
        BY <1>2 DEF Sink!Depth
      <4> QED BY <1>4, <2>7, <4>1 DEF ContainerStart
    <3>16. Walk = "open" /\ Walk' = Walk
      BY <1>1, <1>4, WalkIs
    <3>17. Sink!ContainerStart(format)
      BY <1>1, <1>2, <3>13, <3>15, <3>16 DEF Sink!ContainerStart
    <3> QED BY <3>14, <3>17 DEF SinkStep, Sink!Next
  <2> QED BY <2>6, <2>7
<1> QED BY <1>3, <1>4 DEF StartOuter

LEMMA PushWindowSeen == ASSUME StackInv, NEW n \in Nat, PushWindow(n) PROVE SinkStep
<1>1. outer + n \in Nat
  BY DEF StackInv
<1>2. CASE /\ phase = "detect" /\ outer' = outer + n
           /\ UNCHANGED <<phase, levels, ending, heard>>
  <2>1. SinkStack' = SinkStack /\ phase' = phase /\ heard' = heard
    BY <1>2, SameStack
  <2> QED BY <1>2, <2>1, QuietStep
<1>3. CASE StartOuter(outer + n, FALSE)
  BY <1>1, <1>3, StartOuterSeen
<1>4. CASE /\ phase = "run" /\ Idle /\ levels' = [levels EXCEPT ![1].input = n]
           /\ UNCHANGED <<phase, outer, ending, heard>>
  <2>1. Busy = {} /\ ~ending
    BY <1>4 DEF Idle
  <2>2. PICK c \in Nat : c = Len(levels) /\ levels \in Seq(LevelSet) /\ levels # <<>>
    BY <1>4, <2>1, Resting
  <2>3. 1 \in 1..c
    BY <2>2, EmptySeq
  <2>4. LevelOK(levels[1]) /\ ~levels[1].ended
    BY <1>4, <2>1, <2>2, <2>3, Resting
  <2>5. PICK l, k : l = levels[1] /\ k = [l EXCEPT !.input = n]
    OBVIOUS
  <2>6. /\ k \in LevelSet /\ k.known = l.known /\ k.open = l.open /\ k.told = l.told
        /\ k.members = l.members /\ k.entries = l.entries
    <3>1. /\ LevelOK(k) /\ k.known = l.known /\ k.open = l.open /\ k.told = l.told
          /\ k.members = l.members /\ k.entries = l.entries
      BY <2>4, <2>5, FedLevel
    <3> QED BY <3>1 DEF LevelOK
  <2>7. levels' = [levels EXCEPT ![1] = k]
    BY <1>4, <2>5
  <2>8. Seen(k, 1, Len(levels)) = Seen(levels[1], 1, Len(levels))
    <3>1. MemberSeen(k, 1, Len(levels)) = MemberSeen(l, 1, Len(levels))
      BY <2>6 DEF MemberSeen
    <3> QED BY <2>5, <2>6, <3>1 DEF Seen
  <2>9. SinkStack' = SinkStack
    <3>1. 1 \in 1..Len(levels) /\ (k.known <=> levels[1].known)
      BY <2>2, <2>3, <2>5, <2>6
    <3> QED BY <1>4, <2>6, <2>7, <2>8, <3>1, UnseenLevel
  <2>10. phase' = phase /\ heard' = heard
    BY <1>4
  <2> QED BY <1>4, <2>9, <2>10, QuietStep
<1> QED BY <1>2, <1>3, <1>4 DEF PushWindow

LEMMA FinishSeen == ASSUME StackInv, Finish PROVE SinkStep
<1>1. outer \in Nat
  BY DEF StackInv
<1>2. CASE StartOuter(outer, TRUE)
  BY <1>1, <1>2, StartOuterSeen
<1>3. CASE /\ phase = "run" /\ Idle /\ ending' = TRUE
           /\ UNCHANGED <<phase, outer, levels, heard>>
  <2>1. SinkStack' = SinkStack /\ phase' = phase /\ heard' = heard
    BY <1>3, SameStack
  <2> QED BY <1>3, <2>1, QuietStep
<1> QED BY <1>2, <1>3 DEF Finish

LEMMA FinishAgainSeen == ASSUME FinishAgain PROVE SinkStep
<1>1. phase = "done" /\ phase' = "rejected" /\ heard' = heard /\ SinkStack' = SinkStack
  BY SameStack DEF FinishAgain
<1> QED BY <1>1, RefusedStep

LEMMA NotCountedSeen == ASSUME StackInv, NotCounted PROVE SinkStep
<1>1. SinkStack' = SinkStack /\ Reject /\ phase = "run"
  BY SameStack DEF NotCounted, Handling, AtWork
<1> QED BY <1>1, RejectSeen

LEMMA UnchangedSeen == ASSUME UNCHANGED vars PROVE SinkStep
<1>1. phase' = phase /\ levels' = levels /\ heard' = heard
  BY DEF vars
<1>2. SinkStack' = SinkStack
  BY <1>1, SameStack
<1>3. Walk' = Walk
  BY <1>1 DEF Walk
<1> QED BY <1>1, <1>2, <1>3 DEF SinkStep

LEMMA StepsSeen == ASSUME StackInv, Lengths = Nat, [Next]_vars PROVE SinkStep
<1>1. ASSUME NEW i,
             \/ Feed(i) \/ Announced(i) \/ Entered(i) \/ Started(i) \/ Routed(i)
             \/ DecidedByProbe(i) \/ Closed(i) \/ DecidedAtEnd(i)
      PROVE  SinkStep
  BY <1>1, FeedSeen, AnnouncedSeen, EnteredSeen, StartedSeen, RoutedSeen,
     DecidedByProbeSeen, ClosedSeen, DecidedAtEndSeen
<1>2. CASE Step
  BY <1>1, <1>2, NotCountedSeen, FinishTopSeen, PopTopSeen, FinishedSeen DEF Step
<1>3. ASSUME NEW n \in 1..MaxInput, PushWindow(n) PROVE SinkStep
  <2>1. n \in Nat
    OBVIOUS
  <2> QED BY <1>3, <2>1, PushWindowSeen
<1> QED BY <1>2, <1>3, FinishSeen, FinishAgainSeen, UnchangedSeen DEF Next

LEMMA SinkStarts == Init => Sink!Init
<1> SUFFICES ASSUME Init PROVE Sink!Init
  OBVIOUS
<1>1. levels = <<>> /\ phase = "detect" /\ heard = <<>>
  BY DEF Init
<1>2. SinkStack = <<>>
  BY <1>1, NoLevels, ShownIsSink
<1>3. Walk = "open"
  BY <1>1, WalkIs
<1> QED BY <1>1, <1>2, <1>3 DEF Sink!Init

(* ImplementsSink: whatever the compound holds and however it is cut into   *)
(* windows, the callbacks the driver makes are those of one walk in         *)
(* container order.  The sink sets no bound to the length of a run.         *)
THEOREM SinkIsServed == ASSUME Lengths = Nat PROVE Spec => ImplementsSink
<1>1. Init => Sink!Init
  BY SinkStarts
<1>2. StackInv /\ [Next]_vars => [Sink!Next]_<<SinkStack, Walk, heard>>
  BY StepsSeen DEF SinkStep
<1>3. StackInv /\ [Next]_vars => [Sink!Next]_Sink!sinkVars
  BY <1>2 DEF Sink!sinkVars
<1> QED BY <1>1, <1>3, StackAlways, PTL DEF Spec, ImplementsSink, Sink!Spec
===============================================================================
